--------------------------- MODULE HaulLossProofs ---------------------------
(***************************************************************************)
(* What an interruption costs in module Haul: the checkpoint follows the   *)
(* cursor at the distance of the bytes not yet flushed, and the hasher's   *)
(* current block is in the file.  Nothing is asked of the origin here but, *)
(* for BoundedLoss, strong ETags.                                          *)
(***************************************************************************)
EXTENDS HaulProofs

USE StorageAssumption, HaulAssumption

Writing == {"stream", "sync", "save", "flush_sync", "flush_save", "final_sync", "after"}

(* The bytes before those not yet flushed are checkpointed, and from the   *)
(* first chunk on the bag says where the attempt is.                       *)
Distance ==
    /\ pc # "idle" => outcome = "none"
    /\ pc \in {"idle", "request", "open"} => ~plan.got
    /\ pc = "request" => prep = ReadCheckpoint(ctrl)
    /\ pc = "open" => plan.dirty = 0
    /\ (pc \in Writing /\ plan.got) => bag = plan.cursor /\ plan.cursor > 0
    /\ pc = "stream" => plan.dirty < FlushEvery
    /\ (pc \in Writing \cup {"open"} /\ plan.dirty < plan.cursor)
            => ctrl.exists /\ ctrl.cursor = plan.cursor - plan.dirty

AllStrong == \A v \in Versions : TagOf[v] \in StrongTag

(* With strong ETags only, a resume is of the checkpoint's own version.    *)
SameTag ==
    /\ ctrl.cursor > 0 => ctrl.etag \in StrongTag
    /\ pc \in Writing \cup {"open"} => plan.etag \in StrongTag
    /\ (pc \in Writing \cup {"open"} /\ plan.dirty < plan.cursor) => ctrl.etag = plan.etag

(* The block the hasher is in starts here.                                 *)
BlockStart(n) == n - (n % BlockSize)

Hashed ==
    /\ pc \in Writing \cup {"open"} => plan.cursor <= Length[plan.ver]
    /\ pc \in Writing \cup {"open"} =>
        \A i \in Offset : (BlockStart(plan.cursor) <= i /\ i < plan.cursor)
                             => part.data[i] = fed[i]

-----------------------------------------------------------------------------
LEMMA Product ==
    ASSUME NEW B \in Nat, NEW p \in Nat, NEW q \in Nat, p <= q
    PROVE  B * p <= B * q
<1>1. PICK d \in Nat : q = p + d
  <2>1. q - p \in Nat /\ q = p + (q - p)
    OBVIOUS
  <2> QED BY <2>1
<1>2. B * (p + d) = B * p + B * d /\ B * d \in Nat /\ B * p \in Nat
  OBVIOUS
<1> QED BY <1>1, <1>2

LEMMA Division ==
    ASSUME NEW B \in Nat \ {0}, NEW n \in Nat
    PROVE  \E p \in Nat, r \in 0 .. (B - 1) : n = B * p + r /\ n % B = r
<1>1. n \div B \in Nat
  OBVIOUS
<1>2. n % B \in 0 .. (B - 1)
  OBVIOUS
<1>3. n = B * (n \div B) + (n % B)
  OBVIOUS
<1> QED BY <1>1, <1>2, <1>3
(* A later cursor is not in an earlier block.                              *)
LEMMA BlockStartMonotone ==
    ASSUME NEW a \in Nat, NEW b \in Nat, a <= b
    PROVE  BlockStart(a) <= BlockStart(b) /\ BlockStart(a) \in Nat
<1>1. PICK p \in Nat, r \in 0 .. (BlockSize - 1) : a = BlockSize * p + r /\ a % BlockSize = r
  BY Division
<1>2. PICK q \in Nat, s \in 0 .. (BlockSize - 1) : b = BlockSize * q + s /\ b % BlockSize = s
  BY Division
<1>3. /\ BlockSize \in Nat \ {0} /\ BlockSize * p \in Nat /\ BlockSize * q \in Nat
      /\ BlockSize * (q + 1) = BlockSize * q + BlockSize
  OBVIOUS
<1>4. p <= q
  <2>1. SUFFICES ASSUME q + 1 <= p PROVE FALSE
    BY <1>1, <1>2
  <2>2. BlockSize * (q + 1) <= BlockSize * p
    BY <2>1, <1>3, Product
  <2> QED BY <1>1, <1>2, <1>3, <2>2
<1>5. BlockSize * p <= BlockSize * q
  BY <1>3, <1>4, Product
<1>6. BlockStart(a) = BlockSize * p /\ BlockStart(b) = BlockSize * q
  BY <1>1, <1>2, <1>3 DEF BlockStart
<1> QED BY <1>3, <1>5, <1>6

-----------------------------------------------------------------------------
(* The distance, and what a PartialHaulError reports.                      *)

LEMMA NothingGot == NoPlan.got = FALSE
BY DEF NoPlan

LEMMA PrepareDistance ==
    ASSUME TypeInv, Distance, PrepareHaul
    PROVE  Distance'
BY DEF Distance, PrepareHaul, Writing

LEMMA RespondDistance ==
    ASSUME TypeInv, Distance, Respond
    PROVE  Distance'
<1> USE NothingGot DEF Distance, Writing, Return
<1>1. CASE Plan206
  <2>1. plan'.cursor = prep.cursor /\ plan'.dirty = 0 /\ ~plan'.got /\ pc' = "open"
    BY <1>1 DEF Plan206
  <2>2. prep.cursor > 0 => ctrl.exists /\ ctrl.cursor = prep.cursor
    BY <1>1 DEF Plan206, ReadCheckpoint, Readable, NoPrep
  <2>3. prep.cursor \in Nat
    BY DEF TypeInv, TypeOK, Prep
  <2> QED BY <1>1, <2>1, <2>2, <2>3 DEF Plan206
<1>2. CASE Reject206
  BY <1>2 DEF Reject206
<1>3. ASSUME StartOver, pc = "request" PROVE Distance'
  <2>1. plan'.cursor = 0 /\ plan'.dirty = 0 /\ ~plan'.got /\ pc' = "open"
    BY <1>3 DEF StartOver
  <2> QED BY <1>3, <2>1 DEF StartOver
<1>4. CASE On416Complete
  BY <1>4 DEF On416Complete
<1>5. CASE On416Raise
  BY <1>5 DEF On416Raise
<1>6. CASE On416Reset
  BY <1>6 DEF On416Reset
<1> QED BY <1>1, <1>2, <1>3, <1>4, <1>5, <1>6 DEF Respond, Plan200, PlanMislabeled206

LEMMA ProceedDistance ==
    ASSUME TypeInv, Distance, Proceed
    PROVE  Distance'
<1> USE NothingGot DEF Distance, Writing
<1>0. plan.cursor \in Nat /\ plan.dirty \in Nat /\ bag \in Nat
  BY DEF TypeInv, TypeOK, Plan
<1>1. CASE OpenPartFile
  BY <1>0, <1>1 DEF OpenPartFile, memory
<1>2. ASSUME NEW n \in 1 .. MaxChunk, WriteChunk(n) PROVE Distance'
  <2>1. plan'.cursor = plan.cursor + n /\ plan'.dirty = plan.dirty + n
    BY <1>2 DEF WriteChunk, TypeInv, TypeOK, Plan
  <2>2. /\ bag' = plan.cursor + n /\ UNCHANGED <<ctrl, outcome>> /\ pc = "stream"
        /\ pc' = IF plan.dirty + n >= FlushEvery THEN "sync" ELSE "stream"
    BY <1>2 DEF WriteChunk
  <2> QED BY <1>0, <2>1, <2>2
<1>3. CASE StreamEnds
  BY <1>3 DEF StreamEnds, files, memory
<1>4. CASE Datasync
  BY <1>4 DEF Datasync, memory
<1>5. CASE SaveCheckpoint
  <2>1. plan'.cursor = plan.cursor /\ plan'.dirty = 0 /\ plan'.got = plan.got
    BY <1>5 DEF SaveCheckpoint, TypeInv, TypeOK, Plan
  <2> QED BY <1>0, <1>5, <2>1 DEF SaveCheckpoint, CheckpointOf
<1>6. CASE SaveDirty
  BY <1>6 DEF SaveDirty, CheckpointOf, Return
<1>7. CASE AfterStreamShort
  BY <1>7 DEF AfterStreamShort, CheckpointOf, Return
<1>8. CASE AfterStreamTrim
  BY <1>8 DEF AfterStreamTrim, memory
<1>9. CASE FinalizeRename
  BY <1>9 DEF FinalizeRename, memory
<1>10. CASE FinalizeUnlink
  BY <1>10 DEF FinalizeUnlink, Return
<1> QED BY <1>1, <1>2, <1>3, <1>4, <1>5, <1>6, <1>7, <1>8, <1>9, <1>10 DEF Proceed

LEMMA InterruptDistance ==
    ASSUME TypeInv, Distance, Interrupt
    PROVE  Distance'
<1> USE NothingGot DEF Distance, Writing, Return
<1>0. plan.cursor \in Nat /\ plan.dirty \in Nat /\ bag \in Nat
  BY DEF TypeInv, TypeOK, Plan
<1>1. CASE Refuse
  BY <1>1 DEF Refuse
<1>2. CASE ConnectionFails
  BY <1>2 DEF ConnectionFails
<1>3. CASE StreamError
  BY <1>0, <1>3 DEF StreamError, memory
<1>4. CASE RaiseOther
  BY <1>4 DEF RaiseOther
<1>5. CASE Kill
  BY <1>5 DEF Kill
<1>6. CASE PowerLoss
  BY <1>6 DEF PowerLoss
<1> QED BY <1>1, <1>2, <1>3, <1>4, <1>5, <1>6 DEF Interrupt

LEMMA DistanceStep ==
    ASSUME TypeInv, Distance, [Next]_vars
    PROVE  Distance'
<1>1. CASE ReplaceResource
  BY <1>1 DEF ReplaceResource, memory, Distance
<1>2. CASE UNCHANGED vars
  BY <1>2 DEF vars, Distance
<1> QED
  BY <1>1, <1>2, PrepareDistance, RespondDistance, ProceedDistance, InterruptDistance
  DEF Next

LEMMA InitDistance == Init => Distance
BY NothingGot DEF Init, Distance, Writing

(* The steps at which an attempt that received something ends "partial":   *)
(* flush_dirty has saved, or there was nothing left to flush.              *)
LEMMA ReportStep ==
    ASSUME TypeInv, Distance, [Next]_vars, plan.got, outcome' = "partial"
    PROVE  ctrl'.exists /\ ctrl'.cursor = bag'
<1>0. /\ pc \notin {"idle", "request", "open"} /\ outcome = "none"
      /\ pc \in InAttempt \cup {"idle"}
      /\ plan.cursor \in Nat /\ plan.dirty \in Nat
  BY DEF Distance, TypeInv, TypeOK, Plan
<1>1. CASE SaveDirty \/ AfterStreamShort
  BY <1>1 DEF SaveDirty, AfterStreamShort, CheckpointOf, Distance, Writing
<1>2. CASE StreamError
  <2>1. plan.dirty = 0 /\ pc = "stream" /\ UNCHANGED <<ctrl, bag>>
    BY <1>0, <1>2 DEF StreamError
  <2>2. bag = plan.cursor /\ plan.cursor > 0
    BY <2>1 DEF Distance, Writing
  <2> QED BY <1>0, <2>1, <2>2 DEF Distance, Writing
<1>3. CASE ReplaceResource \/ UNCHANGED vars
  BY <1>0, <1>3 DEF ReplaceResource, vars
<1>4. CASE PrepareHaul \/ Respond
  BY <1>0, <1>4 DEF PrepareHaul, Respond, Plan206, Reject206, Plan200, PlanMislabeled206,
                    On416Complete, On416Raise, On416Reset
<1>5. CASE OpenPartFile \/ (\E n \in 1 .. MaxChunk : WriteChunk(n)) \/ StreamEnds
           \/ Datasync \/ SaveCheckpoint \/ AfterStreamTrim
           \/ FinalizeRename \/ FinalizeUnlink
  BY <1>0, <1>5 DEF OpenPartFile, WriteChunk, StreamEnds, Datasync, SaveCheckpoint,
                    AfterStreamTrim, FinalizeRename, FinalizeUnlink, Return
<1>6. CASE Refuse \/ ConnectionFails \/ RaiseOther \/ Kill \/ PowerLoss
  BY <1>0, <1>6 DEF Refuse, ConnectionFails, RaiseOther, Kill, PowerLoss, Return
<1> QED BY <1>1, <1>2, <1>3, <1>4, <1>5, <1>6 DEF Next, Proceed, Interrupt

-----------------------------------------------------------------------------
(* The validator of the checkpoint.                                        *)

LEMMA TagStep ==
    ASSUME AllStrong, TypeInv, Distance, SameTag, [Next]_vars
    PROVE  SameTag'
<1> USE DEF SameTag, Writing, Return
<1>0. NoTag \notin StrongTag
  BY DEF HaulAssumption
<1>1. CASE PrepareHaul
  BY <1>1 DEF PrepareHaul
<1>2. CASE Plan206
  <2>1. TagOf[version] \in StrongTag /\ TagOf[version] # NoTag
    BY <1>0 DEF AllStrong, TypeInv, TypeOK
  <2>2. plan'.etag = TagOf[version] /\ plan'.cursor = prep.cursor /\ plan'.dirty = 0
    BY <1>2, <2>1 DEF Plan206
  <2>3. prep.cursor > 0 => prep.etag = ctrl.etag /\ prep.cursor = ctrl.cursor
    BY <1>2 DEF Plan206, Distance, ReadCheckpoint, NoPrep
  <2>4. prep.cursor > 0 => ctrl.etag = TagOf[version]
    BY <1>2, <2>1, <2>3 DEF Plan206, EtagMismatch
  <2> QED BY <1>2, <2>1, <2>2, <2>4 DEF Plan206
<1>3. CASE Reject206
  BY <1>3 DEF Reject206
<1>4. ASSUME StartOver PROVE SameTag'
  <2>1. TagOf[version] \in StrongTag
    BY DEF AllStrong, TypeInv, TypeOK
  <2>2. plan'.etag = TagOf[version] /\ plan'.cursor = 0 /\ plan'.dirty = 0
    BY <1>4 DEF StartOver
  <2> QED BY <1>4, <2>1, <2>2 DEF StartOver
<1>5. CASE On416Complete
  BY <1>5 DEF On416Complete
<1>6. CASE On416Raise
  BY <1>6 DEF On416Raise
<1>7. CASE On416Reset
  BY <1>7 DEF On416Reset, ResetCheckpoint
<1>8. CASE OpenPartFile
  BY <1>8 DEF OpenPartFile, memory
<1>9. ASSUME NEW n \in 1 .. MaxChunk, WriteChunk(n) PROVE SameTag'
  <2>1. /\ plan'.cursor = plan.cursor + n /\ plan'.dirty = plan.dirty + n
        /\ plan'.etag = plan.etag /\ plan.cursor \in Nat /\ plan.dirty \in Nat
    BY <1>9 DEF WriteChunk, TypeInv, TypeOK, Plan
  <2>2. UNCHANGED ctrl /\ pc = "stream" /\ pc' \in {"sync", "stream"}
    BY <1>9 DEF WriteChunk
  <2> QED BY <2>1, <2>2
<1>10. CASE StreamEnds
  BY <1>10 DEF StreamEnds, memory
<1>11. CASE Datasync
  BY <1>11 DEF Datasync, memory
<1>12. CASE SaveCheckpoint
  <2>1. plan'.etag = plan.etag
    BY <1>12 DEF SaveCheckpoint, TypeInv, TypeOK, Plan
  <2> QED BY <1>12, <2>1 DEF SaveCheckpoint, CheckpointOf
<1>13. CASE SaveDirty
  BY <1>13 DEF SaveDirty, CheckpointOf
<1>14. CASE AfterStreamShort
  BY <1>14 DEF AfterStreamShort, CheckpointOf
<1>15. CASE AfterStreamTrim
  BY <1>15 DEF AfterStreamTrim
<1>16. CASE FinalizeRename
  BY <1>16 DEF FinalizeRename
<1>17. CASE FinalizeUnlink
  BY <1>17 DEF FinalizeUnlink, NoCtrl
<1>18. CASE Interrupt
  BY <1>18 DEF Interrupt, Refuse, ConnectionFails, StreamError, RaiseOther, Kill, PowerLoss, memory
<1>19. CASE ReplaceResource
  BY <1>19 DEF ReplaceResource, memory
<1>20. CASE UNCHANGED vars
  BY <1>20 DEF vars
<1> QED
  BY <1>1, <1>2, <1>3, <1>4, <1>5, <1>6, <1>7, <1>8, <1>9, <1>10, <1>11, <1>12, <1>13,
     <1>14, <1>15, <1>16, <1>17, <1>18, <1>19, <1>20
  DEF Next, Respond, Plan200, PlanMislabeled206, Proceed

-----------------------------------------------------------------------------
(* The hasher's block.                                                     *)

LEMMA HashedStep ==
    ASSUME TypeInv, Hashed, [Next]_vars
    PROVE  Hashed'
<1> USE DEF Hashed, Writing, Return
<1>1. CASE PrepareHaul
  BY <1>1 DEF PrepareHaul
<1>2. CASE Plan206
  <2>1. plan'.cursor = prep.cursor /\ plan'.ver = version /\ pc' = "open" /\ part' = part
    BY <1>2 DEF Plan206, files
  <2>2. prep.cursor <= Length[version]
    BY <1>2 DEF Plan206, RangeServed, TypeInv, TypeOK, Prep
  <2>3. ASSUME NEW i \in Offset, BlockStart(prep.cursor) <= i, i < prep.cursor
        PROVE  fed'[i] = part.data[i]
    <3>1. prep.cursor \in Nat /\ i \in Nat /\ TailStart = BlockStart(prep.cursor) /\ TailStart \in Nat
      BY BlockStartMonotone DEF TypeInv, TypeOK, Prep, Offset, TailStart, BlockStart
    <3>2. fed' = Rewarmed
      BY <1>2 DEF Plan206
    <3>3. ~(i >= prep.cursor) /\ ~(i < TailStart)
      BY <2>3, <3>1
    <3> QED BY <3>2, <3>3 DEF Rewarmed
  <2> QED BY <2>1, <2>2, <2>3
<1>3. CASE Reject206
  BY <1>3 DEF Reject206
<1>4. ASSUME StartOver PROVE Hashed'
  <2>1. plan'.cursor = 0 /\ plan'.ver = version
    BY <1>4 DEF StartOver
  <2>2. Length[version] \in Nat
    BY DEF TypeInv, TypeOK
  <2>3. \A i \in Offset : ~(i < 0)
    BY DEF Offset
  <2> QED BY <1>4, <2>1, <2>2, <2>3 DEF StartOver
<1>5. CASE On416Complete
  BY <1>5 DEF On416Complete
<1>6. CASE On416Raise
  BY <1>6 DEF On416Raise
<1>7. CASE On416Reset
  BY <1>7 DEF On416Reset
<1>8. CASE OpenPartFile
  <2>1. pc = "open" /\ UNCHANGED <<plan, fed>>
    BY <1>8 DEF OpenPartFile, memory
  <2>2. ASSUME NEW i \in Offset, i < plan.cursor PROVE part'.data[i] = part.data[i]
    <3>0. i \in Nat /\ plan.cursor \in Nat /\ plan.ver \in Versions
      BY DEF TypeInv, TypeOK, Plan, Offset
    <3>1. i < Length[plan.ver]
      <4>1. plan.cursor <= Length[plan.ver] /\ Length[plan.ver] \in Nat
        <5>1. Length[plan.ver] \in 0 .. MaxLen
          BY <3>0
        <5>2. plan.cursor <= Length[plan.ver]
          BY <2>1 DEF Hashed, Writing
        <5> QED BY <5>1, <5>2
      <4> QED BY <2>2, <3>0, <4>1
    <3> QED BY <1>8, <3>1 DEF OpenPartFile, Resize, Create
  <2> QED BY <2>1, <2>2
<1>9. ASSUME NEW n \in 1 .. MaxChunk, WriteChunk(n) PROVE Hashed'
  <2> DEFINE c == plan.cursor + n
  <2>0. plan.cursor \in Nat /\ n \in Nat /\ c \in Nat /\ plan.cursor <= c
    BY DEF TypeInv, TypeOK, Plan
  <2>1. plan'.cursor = c /\ plan'.ver = plan.ver /\ c <= Length[plan.ver] /\ pc = "stream"
    BY <1>9 DEF WriteChunk, TypeInv, TypeOK, Plan
  <2>2. ASSUME NEW i \in Offset, BlockStart(c) <= i, i < c
        PROVE  part'.data[i] = fed'[i]
    <3>1. i \in Nat
      BY DEF Offset
    <3>2. CASE plan.cursor <= i
      BY <1>9, <2>2, <3>2 DEF WriteChunk, WriteAt
    <3>3. CASE i < plan.cursor
      <4>1. ~(plan.cursor <= i)
        BY <2>0, <3>1, <3>3
      <4>2. part'.data[i] = part.data[i] /\ fed'[i] = fed[i]
        BY <1>9, <4>1 DEF WriteChunk, WriteAt
      <4>3. BlockStart(plan.cursor) <= BlockStart(c) /\ BlockStart(plan.cursor) \in Nat /\ BlockStart(c) \in Nat
        BY <2>0, BlockStartMonotone
      <4>4. BlockStart(plan.cursor) <= i
        BY <2>2, <3>1, <4>3
      <4> QED BY <2>1, <3>3, <4>2, <4>4
    <3> QED BY <2>0, <3>1, <3>2, <3>3
  <2> HIDE DEF c
  <2> QED BY <2>1, <2>2
<1>10. CASE StreamEnds
  BY <1>10 DEF StreamEnds, memory, files
<1>11. CASE Datasync
  BY <1>11 DEF Datasync, memory
<1>12. CASE SaveCheckpoint
  <2>1. plan'.cursor = plan.cursor /\ plan'.ver = plan.ver
    BY <1>12 DEF SaveCheckpoint, TypeInv, TypeOK, Plan
  <2> QED BY <1>12, <2>1 DEF SaveCheckpoint, files
<1>13. CASE SaveDirty
  BY <1>13 DEF SaveDirty
<1>14. CASE AfterStreamShort
  BY <1>14 DEF AfterStreamShort
<1>15. CASE AfterStreamTrim
  BY <1>15 DEF AfterStreamTrim
<1>16. CASE FinalizeRename
  BY <1>16 DEF FinalizeRename
<1>17. CASE FinalizeUnlink
  BY <1>17 DEF FinalizeUnlink
<1>18. CASE Interrupt
  BY <1>18 DEF Interrupt, Refuse, ConnectionFails, StreamError, RaiseOther, Kill, PowerLoss, memory, files
<1>19. CASE ReplaceResource
  BY <1>19 DEF ReplaceResource, memory, files
<1>20. CASE UNCHANGED vars
  BY <1>20 DEF vars, memory, files
<1> QED
  BY <1>1, <1>2, <1>3, <1>4, <1>5, <1>6, <1>7, <1>8, <1>9, <1>10, <1>11, <1>12, <1>13,
     <1>14, <1>15, <1>16, <1>17, <1>18, <1>19, <1>20
  DEF Next, Respond, Plan200, PlanMislabeled206, Proceed

-----------------------------------------------------------------------------
(* When an attempt that received bytes ends in a PartialHaulError, the     *)
(* checkpoint holds exactly what HaulState reports: whatever the origin,   *)
(* the faults, and the HaulState that was passed in.                       *)
THEOREM PartialReported == Spec => PartialReport
<1>1. Init => TypeInv /\ Distance
  BY InitType, InitDistance
<1>2. TypeInv /\ Distance /\ [Next]_vars => TypeInv' /\ Distance'
  BY TypeStep, DistanceStep
<1>3. TypeInv /\ Distance /\ [Next]_vars
        => [(plan.got /\ outcome' = "partial")
               => ctrl'.exists /\ ctrl'.cursor = bag']_vars
  BY ReportStep
<1> QED BY <1>1, <1>2, <1>3, PTL DEF Spec, PartialReport

(* While a body comes in, no crash costs flush_every bytes or more, and    *)
(* the rest is checkpointed under the ETag of this attempt: for every      *)
(* threshold, and if every version has a strong ETag.                      *)
THEOREM LossBounded == AllStrong => (Spec => []BoundedLoss)
<1> SUFFICES ASSUME AllStrong PROVE Spec => []BoundedLoss
  OBVIOUS
<1>1. Init => TypeInv /\ Distance /\ SameTag
  BY InitType, InitDistance DEF Init, SameTag, NoCtrl, Writing
<1>2. TypeInv /\ Distance /\ SameTag /\ [Next]_vars => TypeInv' /\ Distance' /\ SameTag'
  BY TypeStep, DistanceStep, TagStep
<1>3. Distance /\ SameTag => BoundedLoss
  BY DEF Distance, SameTag, BoundedLoss, Writing
<1> QED BY <1>1, <1>2, <1>3, PTL DEF Spec

(* The block the hasher is in is the end of what .part holds, so a tail    *)
(* hash saved now is the hash of bytes of the file: for every block size   *)
(* and chunk size, whatever the origin and the faults.                     *)
THEOREM TailHashed == Spec => []LastBlockHashed
<1>1. Init => TypeInv /\ Hashed
  BY InitType DEF Init, Hashed, Writing
<1>2. TypeInv /\ Hashed /\ [Next]_vars => TypeInv' /\ Hashed'
  BY TypeStep, HashedStep
<1>3. Hashed => LastBlockHashed
  BY DEF Hashed, LastBlockHashed, Writing, InAttempt, BlockStart
<1> QED BY <1>1, <1>2, <1>3, PTL DEF Spec
=============================================================================
