--------------------------- MODULE CheckpointCodec ---------------------------
(***************************************************************************)
(* The control file, V1BinaryCodec: how a checkpoint becomes bytes and what*)
(* is read from bytes that may have been damaged since.                    *)
(*                                                                         *)
(* Abstractions.  A digest stands for the bytes it was computed from, and  *)
(* <<>> for a tail hash of None.  An ETag is known by the length of its    *)
(* canonical text, 0 if absent: only lengths decide how the area of the    *)
(* extensions is laid out.  Lengths are numbers, and None is NoLength.     *)
(* Magic, version, Reserved and start are constants of the engine and left *)
(* out.                                                                    *)
(***************************************************************************)
EXTENDS Integers, Sequences

NoLength == -1

CoreSize == 40      \* struct.calcsize("<4sBBHQQQQ")
DigestSize == 32
Alignment == 8

(* A framed extension takes the tag, its length, the value and a CRC.      *)
Framed(n) == 3 + n + 4

TlvSize(cp) ==
    (IF cp.etag # 0 THEN Framed(cp.etag) ELSE 0)
    + (IF cp.reported # NoLength THEN Framed(8) ELSE 0)
    + (IF cp.tail # <<>> THEN Framed(DigestSize) ELSE 0)

Padding(cp) == (Alignment - ((CoreSize + TlvSize(cp)) % Alignment)) % Alignment

(* The tail hash is written once more behind the padding, without a CRC.   *)
RawSize(cp) == IF cp.tail # <<>> THEN 3 + DigestSize ELSE 0

HeaderSize(cp) == CoreSize + TlvSize(cp) + Padding(cp) + RawSize(cp)

(* Mutant: HeaderSize is taken before the padding is appended.             *)
EncodeUnpadded(cp) ==
    [cursor |-> cp.cursor, block |-> cp.block,
     extent |-> IF cp.extent = NoLength THEN 0 ELSE cp.extent,
     headerSize |-> HeaderSize(cp) - Padding(cp), payloadAt |-> HeaderSize(cp),
     etag |-> cp.etag, reported |-> cp.reported, tail |-> cp.tail,
     padding |-> Padding(cp), hashes |-> cp.hashes, sound |-> TRUE, cut |-> "no"]

(* encode.  etag, reported and tail are the framed extensions, absent where*)
(* the checkpoint has none; payloadAt is where the digests begin; `sound`: *)
(* every CRC is that of its extension; `cut`: where the file was cut off.  *)
Encode(cp) ==
    [cursor |-> cp.cursor, block |-> cp.block,
     extent |-> IF cp.extent = NoLength THEN 0 ELSE cp.extent,
     headerSize |-> HeaderSize(cp), payloadAt |-> HeaderSize(cp),
     etag |-> cp.etag, reported |-> cp.reported, tail |-> cp.tail,
     padding |-> Padding(cp), hashes |-> cp.hashes, sound |-> TRUE, cut |-> "no"]

(* The payload is cut into digests from HeaderSize on.                     *)
PayloadFits(f) ==
    f.cut # "digest" /\ (f.payloadAt - f.headerSize) % DigestSize = 0

(* The scan stops at a zero byte.  Without padding it runs into the second *)
(* tail hash, whose CRC would lie beyond HeaderSize.                       *)
MeetsRaw(f) == f.tail # <<>> /\ f.padding = 0

(* struct.error or IndexError, which load does not turn into a             *)
(* ControlFileError.                                                       *)
Raises(f) == f.cut = "extensions"

(* Mutant: the stored CRC is not compared.                                 *)
DecodableUnchecked(f) == f.cut \notin {"core", "extensions"} /\ PayloadFits(f) /\ ~MeetsRaw(f)

(* decode raises no ControlFileError.                                      *)
Decodable(f) ==
    f.cut \notin {"core", "extensions"} /\ PayloadFits(f) /\ f.sound /\ ~MeetsRaw(f)

Decode(f) ==
    [cursor |-> f.cursor, block |-> f.block,
     extent |-> IF f.extent > 0 THEN f.extent ELSE NoLength,
     etag |-> f.etag, reported |-> f.reported, tail |-> f.tail, hashes |-> f.hashes]

(* What may become of a file that is not written by pyhaul: an extension   *)
(* has another value than its CRC says, or the end is missing.  The core   *)
(* has no checksum, and damage to it is not among these.                   *)
Damaged(f) ==
    (IF f.etag # 0 THEN {[f EXCEPT !.etag = @ + 1, !.sound = FALSE]} ELSE {})
    \cup (IF f.reported # NoLength
          THEN {[f EXCEPT !.reported = @ + 1, !.sound = FALSE]} ELSE {})
    \cup (IF f.tail # <<>> THEN {[f EXCEPT !.tail = Tail(@), !.sound = FALSE]} ELSE {})
    \cup {[f EXCEPT !.hashes = SubSeq(@, 1, n)] : n \in 0 .. (Len(f.hashes) - 1)}
    \cup (IF f.hashes # <<>> THEN {[f EXCEPT !.cut = "digest"]} ELSE {})
    \cup (IF f.headerSize > CoreSize THEN {[f EXCEPT !.cut = "extensions"]} ELSE {})
    \cup {[f EXCEPT !.cut = "core"]}
=============================================================================
