-------------------------- MODULE MCAccessRequests --------------------------
(* AccessRequests for TLC: two requests over a tree of trees. *)
EXTENDS AccessRequests

CONSTANTS r1, r2

MCRequests == {r1, r2}
MCParent == [t \in {"root", "near", "deep"} |-> IF t = "deep" THEN "near" ELSE "root"]
\* Both meet "near"; the first goes on to the tree below it.
MCWanted == [r \in MCRequests |-> IF r = r1 THEN <<"root", "near", "deep">> ELSE <<"root", "near">>]
=============================================================================
