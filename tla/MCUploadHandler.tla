-------------------------- MODULE MCUploadHandler --------------------------
(***************************************************************************)
(* UploadHandler for TLC: three trees, of which the first two share a blob *)
(* (a chunk that straddles their boundary), as do the last two; or four    *)
(* trees that share one blob, so that a band can follow two waiting ones.  *)
(***************************************************************************)
EXTENDS UploadHandler

ThreeTrees == {1, 2, 3}
SharedBlobs == [t \in ThreeTrees |-> CASE t = 1 -> <<"a">> [] t = 2 -> <<"a", "b">> [] t = 3 -> <<"b">>]

FourTrees == {1, 2, 3, 4}
OneBlob == [t \in FourTrees |-> <<"a">>]
=============================================================================
