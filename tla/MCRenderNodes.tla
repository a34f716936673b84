--------------------------- MODULE MCRenderNodes ---------------------------
(***************************************************************************)
(* RenderNodes for TLC: a near node n1 and a far one n2, leaves as the     *)
(* configuration says.  From `near' both are walked and n1 is refined,     *)
(* from `wide' n1 is not refined, and from `far' n1 is not walked.         *)
(***************************************************************************)
EXTENDS RenderNodes

CONSTANTS n1, n2, MonolithBytes, RootBytes, OctantBytes

MCOrder == <<n1, n2>>
MCWalk == [c \in Cams |-> IF c = "far" THEN {n2} ELSE {n1, n2}]
MCRefined == [c \in Cams |-> IF c = "near" THEN {n1} ELSE {}]
MCNear == [c \in Cams |-> <<n1, n2>>]
MCSize == [n \in Nodes |-> MonolithBytes]
MCCutSize == [v \in Cut |-> IF v = "root" THEN RootBytes ELSE OctantBytes]
=============================================================================
