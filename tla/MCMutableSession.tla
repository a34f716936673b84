-------------------------- MODULE MCMutableSession --------------------------
\* A leaf and the LOD node above it, which has one of its two points, in one
\* tree; in the other a leaf, and a LOD node whose key was slimmed away.
EXTENDS MutableSession

MCUnits == <<[tree |-> 1, keys |-> <<2, 1>>], [tree |-> 1, keys |-> <<1>>],
             [tree |-> 2, keys |-> <<>>], [tree |-> 2, keys |-> <<3>>]>>

\* Keys that fall, one of them twice; a key that rises or is given again.
Falling == <<Record(3, 1), Record(1, 2), Record(1, 3)>>
Again   == <<Record(1, 4)>>
MCBatches == {Falling, Again}
=============================================================================
