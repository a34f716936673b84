---------------------------- MODULE MCConversion ----------------------------
\* Small conversions for TLC. Codes are below 9.
EXTENDS Conversion

\* One batch: a file of two chunks, and one whose range lies inside it.
OneBatch == <<{"a", "b"}>>
AB == {"a", "b"}
ABCorner == [a |-> 1, b |-> 2]
ABChunks == [a |-> <<4, 1>>, b |-> <<2>>]

\* Two batches: the file added last starts below one that is being read.
TwoBatches == <<{"a", "b"}, {"c"}>>
ABC == {"a", "b", "c"}
ABCCorner == [a |-> 1, b |-> 5, c |-> 2]
ABCChunks == [a |-> <<1>>, b |-> <<5>>, c |-> <<2>>]
=============================================================================
