-------------------------------- MODULE Haul --------------------------------
(***************************************************************************)
(* One destination of pyhaul's synchronous engine (engine.haul and         *)
(* _engine_common): a caller that retries haul(), the origin server, the   *)
(* .part and .part.ctrl files, and the faults that interrupt an attempt.   *)
(*                                                                         *)
(* The steps are cut where an interruption leaves a different disk behind: *)
(* every os call that changes a file is a step of its own, and what runs   *)
(* in memory between two of them is part of one step.                      *)
(*                                                                         *)
(* Abstractions.  Bytes are opaque.  A hash stands for the bytes it was    *)
(* computed from (no collisions), so `fed` is both the HashBuilder and the *)
(* value finalize() returns, and ctrl.fed the block hashes and tail hash.  *)
(* write_atomic is one step here, and several in module ThreadedHaul.      *)
(* `start` is always 0 in the engine and is left out; extent and           *)
(* reported_length of a checkpoint are never read back.  The origin        *)
(* announces true lengths, and a body of unknown length ends only where it *)
(* is complete (FramedEOF).                                                *)
(***************************************************************************)
EXTENDS Naturals, Storage

CONSTANTS
    Versions,       \* representations the origin serves, in order of time
    Length,         \* Length[v]: length of version v
    Body,           \* Body[v]: its bytes
    TagOf,          \* TagOf[v]: its ETag
    NoTag,          \* the absent validator, EMPTY_ETAG
    StrongTag,      \* ETags that may be sent in If-Range
    UnreadableTag,  \* ETags whose checkpoint does not decode when it has a
                    \* tail hash (module CheckpointCodec)
    BlockSize,      \* bytes per hash block
    FlushEvery,     \* flush_every
    MaxChunk,       \* bound: bytes in one chunk of the response
    MaxFaults,      \* bound: faults in a behaviour
    Rollback,       \* the origin may go back to an earlier version
    BlindRange,     \* the origin may evaluate Range without If-Range
    Blind416,       \* such an origin may confirm a cursor in a 416
    UnlinkCrash     \* an attempt may be interrupted between rename and unlink

Tag == {TagOf[v] : v \in Versions} \cup {NoTag}

ASSUME HaulAssumption ==
    /\ Versions \subseteq Nat
    /\ Length \in [Versions -> 0 .. MaxLen]
    /\ Body \in [Versions -> Data]
    /\ \A v \in Versions : \A i \in Offset : i >= Length[v] => Body[v][i] = Zero
    /\ NoTag \notin StrongTag
    /\ BlockSize \in Nat \ {0}
    /\ FlushEvery \in Nat \ {0}
    /\ MaxChunk \in Nat \ {0}
    /\ MaxFaults \in Nat
    /\ Rollback \in BOOLEAN /\ UnlinkCrash \in BOOLEAN
    /\ BlindRange \in BOOLEAN /\ Blind416 \in BOOLEAN

VARIABLES
    version,    \* the version the origin serves now
    part,       \* the .part file as a reader of it sees it
    partDisk,   \* the .part file as fdatasync and metadata updates left it
    ctrl,       \* the .part.ctrl file
    dest,       \* the file at the destination path
    destDisk,   \* its synced image
    pc,         \* where haul() is
    prep,       \* PrepareHaul: what the attempt read from the checkpoint
    plan,       \* StreamPlan: what the attempt decided from the response
    fed,        \* bytes given to HashBuilder, at the offsets they stand for
    bag,        \* HaulState.valid_length
    outcome,    \* how the last attempt ended
    faults      \* faults so far

files == <<part, partDisk, dest, destDisk>>
memory == <<prep, plan, fed>>
vars == <<version, part, partDisk, ctrl, dest, destDisk, pc, prep, plan, fed,
          bag, outcome, faults>>

Prep == [cursor : 0 .. MaxLen, etag : Tag, fed : Data]
NoPrep == [cursor |-> 0, etag |-> NoTag, fed |-> ZeroData]

(* `known`: the response announced the length, so extent is not None.      *)
(* `got`: a chunk of the body arrived, as HaulState.bytes_read tells a     *)
(* caller that sets it to 0 before the call.                               *)
Plan == [ver : Versions, cursor : 0 .. MaxLen, known : BOOLEAN, etag : Tag,
         dirty : 0 .. MaxLen, got : BOOLEAN]
NoPlan == [ver |-> CHOOSE v \in Versions : TRUE, cursor |-> 0, known |-> FALSE,
           etag |-> NoTag, dirty |-> 0, got |-> FALSE]

Ctrl == [exists : BOOLEAN, cursor : 0 .. MaxLen, etag : Tag, fed : Data]
NoCtrl == [exists |-> FALSE, cursor |-> 0, etag |-> NoTag, fed |-> ZeroData]

InAttempt == {"request", "open", "stream", "sync", "save", "flush_sync",
              "flush_save", "final_sync", "after", "rename", "unlink"}

Outcome == {"none", "complete", "partial", "error", "control_error", "killed"}

Init ==
    /\ version \in Versions
    /\ part = Absent /\ partDisk = Absent
    /\ ctrl = NoCtrl
    /\ dest = Absent /\ destDisk = Absent
    /\ pc = "idle" /\ prep = NoPrep /\ plan = NoPlan /\ fed = ZeroData
    /\ bag = 0 /\ outcome = "none" /\ faults = 0

Fault == faults < MaxFaults /\ faults' = faults + 1

(* haul() leaves: by a return, an exception or the end of its process.     *)
Return(o) ==
    /\ pc' = "idle" /\ outcome' = o
    /\ prep' = NoPrep /\ plan' = NoPlan /\ fed' = ZeroData

-----------------------------------------------------------------------------
(* The checkpoint.                                                         *)

(* registry.load raises ControlFileError on what it cannot decode.         *)
Readable(c) ==
    c.exists /\ ~(c.etag \in UnreadableTag /\ (c.cursor % BlockSize) # 0)

(* Mutant: the cursor taken for the index of the next byte, plus one.      *)
ReadCheckpointOffByOne(c) ==
    IF Readable(c) THEN [cursor |-> c.cursor + 1, etag |-> c.etag, fed |-> c.fed]
                   ELSE NoPrep

(* prepare_haul: a missing or undecodable checkpoint means byte 0.         *)
ReadCheckpoint(c) ==
    IF Readable(c) THEN [cursor |-> c.cursor, etag |-> c.etag, fed |-> c.fed]
                   ELSE NoPrep

(* save_checkpoint: the cursor of the plan and the hashes of its builder.  *)
CheckpointOf(p, d) ==
    [exists |-> TRUE, cursor |-> p.cursor, etag |-> p.etag, fed |-> d]

(* _reset_checkpoint.                                                      *)
ResetCheckpoint ==
    [exists |-> TRUE, cursor |-> 0, etag |-> NoTag, fed |-> ZeroData]

(* The caller passes a new HaulState or that of its last attempt, in which *)
(* nothing is reset.                                                       *)
PrepareHaul ==
    /\ pc = "idle"
    /\ pc' = "request" /\ outcome' = "none"
    /\ prep' = ReadCheckpoint(ctrl)
    /\ bag' \in {0, bag}
    /\ UNCHANGED <<version, files, ctrl, plan, fed, faults>>

-----------------------------------------------------------------------------
(* The response.  Range is bytes=<cursor>-; If-Range goes out only with a  *)
(* strong stored tag.                                                      *)

IfRangeHolds == prep.etag \in StrongTag => prep.etag = TagOf[version]

(* 206 and 416: the answers to a Range that was evaluated.                 *)
RangeEvaluated == IfRangeHolds \/ BlindRange
RangeServed == prep.cursor < Length[version] /\ RangeEvaluated
RangeUnsatisfiable == prep.cursor >= Length[version] /\ RangeEvaluated

(* An origin that evaluates Range in spite of If-Range is at fault.        *)
CountBlind == IF IfRangeHolds THEN UNCHANGED faults ELSE Fault

(* Mutant: no strict equality of ETags on a 206.                           *)
EtagMismatchUnchecked == FALSE

EtagMismatch ==
    /\ TagOf[version] # NoTag
    /\ prep.etag \in StrongTag
    /\ TagOf[version] # prep.etag

(* The bytes of the last, partial block, which the checkpoint holds only   *)
(* as tail_hash: they are read again from .part and compared.              *)
TailStart == prep.cursor - (prep.cursor % BlockSize)
HasTail == TailStart < prep.cursor
TailIntact ==
    HasTail => /\ part.size >= prep.cursor
               /\ \A i \in Offset : TailStart <= i /\ i < prep.cursor
                                        => part.data[i] = prep.fed[i]

(* Mutant: the builder starts from the block hashes only.                  *)
RewarmedCold ==
    [i \in Offset |-> IF i < TailStart THEN prep.fed[i] ELSE Zero]

(* The HashBuilder after initial_hashes and hb.update(tail).               *)
Rewarmed ==
    [i \in Offset |-> IF i >= prep.cursor THEN Zero
                      ELSE IF i < TailStart THEN prep.fed[i] ELSE part.data[i]]

(* 206 from the requested byte; `known` unless the total is "*".           *)
Plan206 ==
    /\ pc = "request" /\ RangeServed /\ ~EtagMismatch
    /\ HasTail => part.exists
    /\ TailIntact
    /\ \E known \in BOOLEAN :
        plan' = [ver |-> version, cursor |-> prep.cursor, known |-> known,
                 etag |-> IF TagOf[version] # NoTag THEN TagOf[version]
                                                    ELSE prep.etag,
                 dirty |-> 0, got |-> FALSE]
    /\ fed' = Rewarmed
    /\ pc' = "open"
    /\ CountBlind
    /\ UNCHANGED <<version, files, ctrl, prep, bag, outcome>>

(* ServerMisconfiguredError for another ETag, FileNotFoundError for a      *)
(* missing .part, ControlFileError for a tail that is not what it was.     *)
Reject206 ==
    /\ pc = "request" /\ RangeServed
    /\ \/ EtagMismatch /\ Return("error")
       \/ ~EtagMismatch /\ HasTail /\ ~part.exists /\ Return("error")
       \/ /\ ~EtagMismatch /\ (HasTail => part.exists) /\ ~TailIntact
          /\ Return("control_error")
    /\ CountBlind
    /\ UNCHANGED <<version, files, ctrl, bag>>

(* The whole body from byte 0; neither .part nor .part.ctrl is touched.    *)
StartOver ==
    /\ \E known \in BOOLEAN :
        plan' = [ver |-> version, cursor |-> 0, known |-> known,
                 etag |-> TagOf[version], dirty |-> 0, got |-> FALSE]
    /\ fed' = ZeroData
    /\ bag' = 0
    /\ pc' = "open"
    /\ UNCHANGED <<version, files, ctrl, prep, outcome, faults>>

Plan200 == pc = "request" /\ StartOver

(* 206 whose Content-Range is the whole representation although a later    *)
(* byte was asked for.                                                     *)
PlanMislabeled206 ==
    pc = "request" /\ prep.cursor > 0 /\ Length[version] > 0 /\ StartOver

(* 416 whose Content-Range says that the file is as long as the cursor:    *)
(* cut the junk off, hash what is there, and go on to finalize.  No ETag   *)
(* is compared, so the length may be that of another version than the one  *)
(* in .part (Blind416).  "*/0" is refused by parse_content_range.          *)
On416Complete ==
    /\ pc = "request" /\ RangeUnsatisfiable
    /\ IfRangeHolds \/ Blind416
    /\ prep.cursor = Length[version] /\ Length[version] > 0
    /\ part.exists
    /\ LET cut(f) == IF part.size > prep.cursor THEN Resize(f, prep.cursor) ELSE f
       IN part' = cut(part) /\ partDisk' = cut(partDisk) /\ fed' = cut(part).data
    /\ plan' = [ver |-> version, cursor |-> prep.cursor, known |-> TRUE,
                etag |-> IF TagOf[version] # NoTag THEN TagOf[version]
                                                   ELSE prep.etag,
                dirty |-> 0, got |-> FALSE]
    /\ pc' = "rename"
    /\ CountBlind
    /\ UNCHANGED <<version, ctrl, dest, destDisk, prep, bag, outcome>>

(* hash_file finds no .part, or the total is 0.                            *)
On416Raise ==
    /\ pc = "request" /\ RangeUnsatisfiable
    /\ Length[version] = 0 \/ (prep.cursor = Length[version] /\ ~part.exists)
    /\ Return("error")
    /\ CountBlind
    /\ UNCHANGED <<version, files, ctrl, bag>>

(* Mutant: the error without the reset.                                    *)
On416Keep ==
    /\ pc = "request" /\ RangeUnsatisfiable
    /\ bag' = 0
    /\ Return("partial")
    /\ CountBlind
    /\ UNCHANGED <<version, files, ctrl>>

(* Any other 416, one without Content-Range included.                      *)
On416Reset ==
    /\ pc = "request" /\ RangeUnsatisfiable
    /\ ctrl' = ResetCheckpoint
    /\ bag' = 0
    /\ Return("partial")
    /\ CountBlind
    /\ UNCHANGED <<version, files>>

(* A redirect, another status, or a 206 whose Content-Range is missing,    *)
(* unsatisfied or starts elsewhere.                                        *)
Refuse ==
    /\ pc = "request" /\ Fault
    /\ Return("error")
    /\ UNCHANGED <<version, files, ctrl, bag>>

(* TransportConnectionError while the request is made.                     *)
ConnectionFails ==
    /\ pc = "request" /\ Fault
    /\ Return("partial")
    /\ UNCHANGED <<version, files, ctrl, bag>>

-----------------------------------------------------------------------------
(* The body.                                                               *)

(* open_part_file: create, give the file the announced length, seek.       *)
OpenPartFile ==
    /\ pc = "open"
    /\ LET sized(f) == IF plan.known /\ Length[plan.ver] > 0
                       THEN Resize(Create(f), Length[plan.ver]) ELSE Create(f)
       IN part' = sized(part) /\ partDisk' = sized(partDisk)
    /\ pc' = "stream"
    /\ UNCHANGED <<version, ctrl, dest, destDisk, memory, bag, outcome, faults>>

(* Mutant: the threshold compared with > instead of >=.                    *)
WriteChunkLate(n) ==
    /\ pc = "stream" /\ plan.cursor + n <= Length[plan.ver]
    /\ part' = WriteAt(part, plan.cursor, n, Body[plan.ver])
    /\ fed' = [i \in Offset |-> IF plan.cursor <= i /\ i < plan.cursor + n
                                THEN Body[plan.ver][i] ELSE fed[i]]
    /\ plan' = [plan EXCEPT !.cursor = plan.cursor + n, !.dirty = plan.dirty + n,
                           !.got = TRUE]
    /\ bag' = plan.cursor + n
    /\ pc' = IF plan.dirty + n > FlushEvery THEN "sync" ELSE "stream"
    /\ UNCHANGED <<version, partDisk, ctrl, dest, destDisk, prep, outcome, faults>>

(* write_chunk up to the flush threshold.                                  *)
WriteChunk(n) ==
    /\ pc = "stream" /\ plan.cursor + n <= Length[plan.ver]
    /\ part' = WriteAt(part, plan.cursor, n, Body[plan.ver])
    /\ fed' = [i \in Offset |-> IF plan.cursor <= i /\ i < plan.cursor + n
                                THEN Body[plan.ver][i] ELSE fed[i]]
    /\ plan' = [plan EXCEPT !.cursor = plan.cursor + n, !.dirty = plan.dirty + n,
                           !.got = TRUE]
    /\ bag' = plan.cursor + n
    /\ pc' = IF plan.dirty + n >= FlushEvery THEN "sync" ELSE "stream"
    /\ UNCHANGED <<version, partDisk, ctrl, dest, destDisk, prep, outcome, faults>>

(* The body is complete, or a close cuts it short without an error.        *)
StreamEnds ==
    /\ pc = "stream"
    /\ \/ plan.cursor = Length[plan.ver] /\ UNCHANGED faults
       \/ plan.cursor < Length[plan.ver] /\ plan.known /\ Fault
    /\ pc' = "final_sync"
    /\ UNCHANGED <<version, files, ctrl, memory, bag, outcome>>

(* Mutant: the error without flush_dirty.                                  *)
StreamErrorUnflushed ==
    /\ pc = "stream" /\ Fault
    /\ Return("partial")
    /\ UNCHANGED <<version, files, ctrl, bag>>

(* TransportError in the body: flush_dirty, then PartialHaulError.         *)
StreamError ==
    /\ pc = "stream" /\ Fault
    /\ \/ plan.dirty > 0 /\ pc' = "flush_sync" /\ UNCHANGED <<memory, outcome>>
       \/ plan.dirty = 0 /\ Return("partial")
    /\ UNCHANGED <<version, files, ctrl, bag>>

(* Mutant: checkpoints without fdatasync.                                  *)
DatasyncSkipped ==
    /\ \/ pc = "sync" /\ pc' = "save"
       \/ pc = "flush_sync" /\ pc' = "flush_save"
       \/ pc = "final_sync" /\ pc' = "after"
    /\ UNCHANGED <<version, files, ctrl, memory, bag, outcome, faults>>

(* datasync(fd).                                                           *)
Datasync ==
    /\ \/ pc = "sync" /\ pc' = "save"
       \/ pc = "flush_sync" /\ pc' = "flush_save"
       \/ pc = "final_sync" /\ pc' = "after"
    /\ partDisk' = part
    /\ UNCHANGED <<version, part, ctrl, dest, destDisk, memory, bag, outcome, faults>>

(* The periodic checkpoint of write_chunk.                                 *)
SaveCheckpoint ==
    /\ pc = "save"
    /\ ctrl' = CheckpointOf(plan, fed)
    /\ plan' = [plan EXCEPT !.dirty = 0]
    /\ pc' = "stream"
    /\ UNCHANGED <<version, files, prep, fed, bag, outcome, faults>>

(* The checkpoint of flush_dirty, with the connection lost.                *)
SaveDirty ==
    /\ pc = "flush_save"
    /\ ctrl' = CheckpointOf(plan, fed)
    /\ Return("partial")
    /\ UNCHANGED <<version, files, bag, faults>>

(* after_stream: fewer bytes than announced.                               *)
AfterStreamShort ==
    /\ pc = "after" /\ plan.known /\ plan.cursor < Length[plan.ver]
    /\ ctrl' = CheckpointOf(plan, fed)
    /\ Return("partial")
    /\ UNCHANGED <<version, files, bag, faults>>

(* Mutant: preallocated or older bytes past the cursor are kept.           *)
AfterStreamUntrimmed ==
    /\ pc = "after" /\ ~(plan.known /\ plan.cursor < Length[plan.ver])
    /\ pc' = "rename"
    /\ UNCHANGED <<version, files, ctrl, memory, bag, outcome, faults>>

(* after_stream: cut the junk past the cursor off.                         *)
AfterStreamTrim ==
    /\ pc = "after" /\ ~(plan.known /\ plan.cursor < Length[plan.ver])
    /\ LET cut(f) == IF part.size > plan.cursor THEN Resize(f, plan.cursor) ELSE f
       IN part' = cut(part) /\ partDisk' = cut(partDisk)
    /\ pc' = "rename"
    /\ UNCHANGED <<version, ctrl, dest, destDisk, memory, bag, outcome, faults>>

(* finalize: part_path.rename(dest_path).                                  *)
FinalizeRename ==
    /\ pc = "rename"
    /\ dest' = part /\ destDisk' = partDisk
    /\ part' = Absent /\ partDisk' = Absent
    /\ pc' = "unlink"
    /\ UNCHANGED <<version, ctrl, memory, bag, outcome, faults>>

(* finalize: ctrl_path.unlink(missing_ok=True), and haul() returns.        *)
FinalizeUnlink ==
    /\ pc = "unlink"
    /\ ctrl' = NoCtrl
    /\ bag' = plan.cursor
    /\ Return("complete")
    /\ UNCHANGED <<version, files, faults>>

-----------------------------------------------------------------------------
(* The environment.                                                        *)

Interruptible == pc \in InAttempt /\ (pc = "unlink" => UnlinkCrash)

(* An exception no handler flushes for: on_progress, KeyboardInterrupt, an *)
(* OSError of any file operation.                                          *)
RaiseOther ==
    /\ Interruptible /\ pc # "request" /\ Fault
    /\ Return("error")
    /\ UNCHANGED <<version, files, ctrl, bag>>

(* The process dies; the page cache survives.                              *)
Kill ==
    /\ Interruptible /\ Fault
    /\ Return("killed") /\ bag' = 0
    /\ UNCHANGED <<version, files, ctrl>>

(* The machine dies.                                                       *)
PowerLoss ==
    /\ pc = "idle" \/ Interruptible
    /\ Fault
    /\ Return("killed") /\ bag' = 0
    /\ part' \in AfterPowerLoss(partDisk, part) /\ partDisk' = part'
    /\ dest' \in AfterPowerLoss(destDisk, dest) /\ destDisk' = dest'
    /\ UNCHANGED <<version, ctrl>>

ReplaceResource ==
    /\ \E v \in Versions : /\ v > version \/ (Rollback /\ v < version)
                           /\ version' = v
    /\ faults' = IF version' > version THEN faults ELSE faults + 1
    /\ faults' <= MaxFaults
    /\ UNCHANGED <<files, ctrl, pc, memory, bag, outcome>>

-----------------------------------------------------------------------------
Respond ==
    \/ Plan206 \/ Reject206 \/ Plan200 \/ PlanMislabeled206
    \/ On416Complete \/ On416Raise \/ On416Reset

Proceed ==
    \/ OpenPartFile
    \/ \E n \in 1 .. MaxChunk : WriteChunk(n)
    \/ StreamEnds
    \/ Datasync \/ SaveCheckpoint \/ SaveDirty
    \/ AfterStreamShort \/ AfterStreamTrim
    \/ FinalizeRename \/ FinalizeUnlink

Interrupt ==
    \/ Refuse \/ ConnectionFails \/ StreamError
    \/ RaiseOther \/ Kill \/ PowerLoss

Next == PrepareHaul \/ Respond \/ Proceed \/ Interrupt \/ ReplaceResource

Spec == Init /\ [][Next]_vars
-----------------------------------------------------------------------------
(* Properties.                                                             *)

TypeOK ==
    /\ version \in Versions
    /\ part \in File /\ partDisk \in File /\ dest \in File /\ destDisk \in File
    /\ ctrl \in Ctrl
    /\ pc \in InAttempt \cup {"idle"}
    /\ prep \in Prep /\ plan \in Plan /\ fed \in Data
    /\ bag \in 0 .. MaxLen
    /\ outcome \in Outcome
    /\ faults \in 0 .. MaxFaults

Published == [v \in Versions |-> [exists |-> TRUE, size |-> Length[v], data |-> Body[v]]]

(* "If the destination file exists at the requested path, it is complete   *)
(* and uncorrupted" (docs/explanation/design.md:194): whatever faults, what *)
(* is at the path, and what a power loss would leave there, is one version *)
(* of the resource from its first byte to its last.                        *)
DestIntact ==
    dest.exists => \E v \in Versions : dest = Published[v] /\ destDisk = Published[v]

(* The sha256 that finalize is about to return is the tree hash of the     *)
(* bytes it has just put at the destination.                               *)
HashMatches ==
    pc = "unlink" => /\ dest.size = plan.cursor
                     /\ Agrees(fed, dest.data, plan.cursor)

(* "The first valid_length bytes of .part are durable and correct", for a  *)
(* checkpoint the origin would still honour: even a power loss now leaves  *)
(* the bytes its cursor vouches for, and its hashes are their hashes.      *)
CtrlTruthful ==
    (/\ part.exists /\ Readable(ctrl)
     /\ ctrl.etag \in StrongTag /\ ctrl.etag = TagOf[version])
        => /\ partDisk.size >= ctrl.cursor
           /\ Agrees(partDisk.data, Body[version], ctrl.cursor)
           /\ Agrees(part.data, Body[version], ctrl.cursor)
           /\ Agrees(ctrl.fed, Body[version], ctrl.cursor)

(* A PartialHaulError of an attempt in which bytes arrived means that what *)
(* HaulState.valid_length says is checkpointed, no less and no more: the   *)
(* next attempt asks for that byte, whichever HaulState was passed in.     *)
PartialReport ==
    [][(plan.got /\ outcome' = "partial")
           => ctrl'.exists /\ ctrl'.cursor = bag']_vars

(* A crash of the process costs less than flush_every bytes: between       *)
(* chunks, what this attempt received beyond the threshold is checkpointed *)
(* under its own ETag, and the rest is shorter than the threshold.         *)
BoundedLoss ==
    pc = "stream"
        => /\ plan.dirty < FlushEvery
           /\ plan.dirty < plan.cursor
                => /\ ctrl.exists /\ ctrl.etag = plan.etag
                   /\ ctrl.cursor = plan.cursor - plan.dirty

(* The hasher's current block is the block at the end of what .part holds, *)
(* so the tail_hash of any checkpoint taken now is the hash of bytes that  *)
(* are in the file: true also with every fault and every origin allowed.   *)
LastBlockHashed ==
    pc \in InAttempt \ {"request", "open", "rename", "unlink"}
        => \A i \in Offset :
             (plan.cursor - (plan.cursor % BlockSize) <= i /\ i < plan.cursor)
                 => part.data[i] = fed[i]

(* What the destination path promises, whatever happens underneath.        *)
Delivery == INSTANCE AtomicDelivery
    WITH Content <- Published, Nothing <- Absent, current <- version, file <- dest

DeliversAtomically == Delivery!Spec

(* A caller that keeps calling haul() and an engine that keeps running: no *)
(* fairness is asked of the origin's choice of answer or of any fault.     *)
FairSpec == Spec /\ WF_vars(PrepareHaul \/ Respond \/ Proceed)

(* With finitely many faults, retrying completes again and again: no       *)
(* checkpoint any fault leaves behind makes every later attempt fail.  The *)
(* exception is an empty resource, which the origin may answer with 416.   *)
RetryCompletes == <>[](Length[version] = 0) \/ []<>(outcome = "complete")
=============================================================================
