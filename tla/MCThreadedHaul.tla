--------------------------- MODULE MCThreadedHaul ---------------------------
(***************************************************************************)
(* Two threads with resources of two bytes each and a table with one       *)
(* descriptor less than they may want at once.  What happens after a       *)
(* descriptor was closed under its owner is only explored by the run that  *)
(* asks about it.                                                          *)
(***************************************************************************)
EXTENDS ThreadedHaul, Sequences

Bytes == <<<<1, 2>>, <<3, 4>>>>

MCLen == [t \in Thread |-> Len(Bytes[t])]
MCBody == [t \in Thread |->
    [i \in Offset |-> IF i < MCLen[t] THEN Bytes[t][i + 1] ELSE Zero]]

UntilStolen == ~stolen
=============================================================================
