------------------------------- MODULE Storage -------------------------------
(***************************************************************************)
(* What the operating system does to one regular file, as pyhaul uses it:  *)
(* os.open(O_RDWR|O_CREAT), os.write at the descriptor's position,         *)
(* ftruncate / posix_fallocate, fdatasync, and a power loss.               *)
(*                                                                         *)
(* A file is a record; bytes at or past its size read as Zero, which is    *)
(* what a sparse extension of the file yields.  Every operator returns a   *)
(* file again, so the engine's model never looks inside the record.        *)
(*                                                                         *)
(* Assumption OrderedMetadata: directory entries and file sizes set by     *)
(* ftruncate/fallocate survive a power loss once the call returned; the    *)
(* bytes written by os.write survive only after fdatasync.                 *)
(***************************************************************************)
EXTENDS Naturals

CONSTANTS
    MaxLen,     \* no file is longer than this
    Byte,       \* byte values
    Zero        \* the byte a hole reads as

ASSUME StorageAssumption == MaxLen \in Nat /\ Zero \in Byte

Offset == 0 .. (MaxLen - 1)

Data == [Offset -> Byte]

ZeroData == [i \in Offset |-> Zero]

File == [exists : BOOLEAN, size : 0 .. MaxLen, data : Data]

Absent == [exists |-> FALSE, size |-> 0, data |-> ZeroData]

(* A file of size n: what is cut off or extended reads as Zero.            *)
Resize(f, n) ==
    [exists |-> f.exists,
     size |-> n,
     data |-> [i \in Offset |-> IF i < n THEN f.data[i] ELSE Zero]]

(* os.open with O_CREAT: the file if it is there, an empty one otherwise.  *)
Create(f) == [exists |-> TRUE, size |-> f.size, data |-> f.data]

(* os.write of n bytes of body at position off.                            *)
WriteAt(f, off, n, body) ==
    [exists |-> f.exists,
     size |-> IF off + n > f.size THEN off + n ELSE f.size,
     data |-> [i \in Offset |-> IF off <= i /\ i < off + n
                                THEN body[i] ELSE f.data[i]]]

(* The first n bytes of d are the first n bytes of body.                   *)
Agrees(d, body, n) == \A i \in Offset : i < n => d[i] = body[i]

(* The file a power loss may leave, from the synced image d and the cached *)
(* image p: any set of the unsynced bytes may have reached the disk, and   *)
(* so may the size.                                                        *)
AfterPowerLoss(d, p) ==
    { [exists |-> p.exists,
       size |-> n,
       data |-> [i \in Offset |-> IF i >= n THEN Zero
                                  ELSE IF i \in kept THEN p.data[i]
                                  ELSE d.data[i]]] :
        kept \in SUBSET {i \in Offset : p.data[i] # d.data[i]},
        n \in {d.size, p.size} }
=============================================================================
