------------------------------- MODULE MCHaul -------------------------------
(***************************************************************************)
(* Haul on small resources: versions that share some bytes at the same     *)
(* offset and differ in others, of different lengths, one of them empty in *)
(* the safety run.  Byte 0 is what a hole reads as, and version 2 contains *)
(* it, so a hole is not always visible.                                    *)
(***************************************************************************)
EXTENDS HaulInv, Sequences

Bytes == <<<<1, 2, 3>>, <<1, 0>>, <<4, 2, 3>>, <<>>>>

MCLen == [v \in Versions |-> Len(Bytes[v])]
MCBody == [v \in Versions |->
    [i \in Offset |-> IF i < MCLen[v] THEN Bytes[v][i + 1] ELSE Zero]]
MCTag == [v \in Versions |-> <<"t1", "t2", "t3", "t4">>[v]]
=============================================================================
