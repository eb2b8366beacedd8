---------------------------- MODULE ThreadedHaul ----------------------------
(***************************************************************************)
(* Several synchronous haul() calls in threads of one process, one per     *)
(* destination, as docs/guides/bulk-downloads.md:42 runs them.  They share *)
(* nothing but the table of file descriptors and the disk, and that is     *)
(* what this module is about: every os call on a descriptor acts on the    *)
(* file its number stands for at that moment, at the position of that open *)
(* file, whoever opened it.                                                *)
(*                                                                         *)
(* Each thread downloads one unchanging resource with a strong ETag, in    *)
(* blocks of one byte (no tail hash): versions, hashes and power loss are  *)
(* module Haul's.  Sockets take descriptors from the same table and are    *)
(* left out, and so are answers the engine refuses and a 416 that confirms *)
(* nothing (Haul's Refuse and On416Reset), and an unlink that does not     *)
(* happen after its rename (the run unlink_crash).                         *)
(***************************************************************************)
EXTENDS Naturals, Storage

CONSTANTS
    Thread,         \* the threads; each has its own destination
    Fd,             \* the descriptor numbers the process may use
    Length,         \* Length[t]: length of the resource t downloads
    Body,           \* Body[t]: its bytes
    Junk,           \* a byte of a control file, where no byte of it belongs
    FlushEvery,     \* flush_every
    MaxChunk,       \* bound: bytes in one chunk of a response
    MaxFaults       \* bound: failures in a behaviour

ASSUME ThreadAssumption ==
    /\ Thread # {} /\ Fd \subseteq Nat \ {0}
    /\ Length \in [Thread -> 1 .. MaxLen]
    /\ Body \in [Thread -> Data]
    /\ \A t \in Thread : \A i \in Offset : i >= Length[t] => Body[t][i] = Zero
    /\ Junk \in Byte
    /\ FlushEvery \in Nat \ {0} /\ MaxChunk \in Nat \ {0} /\ MaxFaults \in Nat

VARIABLES
    part, dest,     \* the .part files and the files at the destinations
    synced,         \* offsets at which the disk holds what .part reads as
    backed,         \* offsets of .part that have space on the disk
    ctrl, tmp,      \* the .part.ctrl and .part.ctrl.tmp files
    fds,            \* the descriptor table
    pc,             \* where each thread is in haul()
    then,           \* where it goes after a save or after its finally clause
    fd, tfd,        \* the descriptors of open_part_file and of write_atomic
    cursor, dirty,  \* StreamPlan.cursor and bytes_since_flush
    known,          \* the response announced the length
    outcome,        \* how the thread's last call ended
    faults,         \* failures so far
    stolen,         \* a thread has closed a descriptor of another one
    short           \* os.write has written less than it was given

disk == <<part, dest, synced, backed, ctrl, tmp>>
plan == <<cursor, dirty, known>>
past == <<stolen, short>>
vars == <<disk, fds, pc, then, fd, tfd, plan, outcome, faults, past>>

(* "mixed": anything but exactly one checkpoint of this destination.       *)
CtrlFile == [exists : BOOLEAN, text : {"empty", "whole", "mixed"}, cursor : 0 .. MaxLen]
NoCtrl == [exists |-> FALSE, text |-> "empty", cursor |-> 0]

OpenFile == [kind : {"free", "part", "tmp"}, of : Thread, pos : 0 .. MaxLen]
Free == [kind |-> "free", of |-> CHOOSE t \in Thread : TRUE, pos |-> 0]

None == 0

Init ==
    /\ part = [t \in Thread |-> Absent] /\ dest = [t \in Thread |-> Absent]
    /\ synced = [t \in Thread |-> {}] /\ backed = [t \in Thread |-> {}]
    /\ ctrl = [t \in Thread |-> NoCtrl] /\ tmp = [t \in Thread |-> NoCtrl]
    /\ fds = [n \in Fd |-> Free]
    /\ pc = [t \in Thread |-> "idle"] /\ then = [t \in Thread |-> "idle"]
    /\ fd = [t \in Thread |-> None] /\ tfd = [t \in Thread |-> None]
    /\ cursor = [t \in Thread |-> 0] /\ dirty = [t \in Thread |-> 0]
    /\ known = [t \in Thread |-> FALSE]
    /\ outcome = [t \in Thread |-> "none"]
    /\ faults = 0 /\ stolen = FALSE /\ short = FALSE

Fault == faults < MaxFaults /\ faults' = faults + 1

-----------------------------------------------------------------------------
(* Descriptors.                                                            *)

Unused == {n \in Fd : fds[n].kind = "free"}

Lowest(S) == CHOOSE n \in S : \A k \in S : n <= k

(* The new descriptor n of thread t.                                       *)
Opens(n, kind, t) == fds' = [fds EXCEPT ![n] = [kind |-> kind, of |-> t, pos |-> 0]]

Closed(n) == n \in Unused

(* os.close(n) by a thread that has opened a file of that kind under n.    *)
Closes(n, kind, t) ==
    /\ fds' = [fds EXCEPT ![n] = Free]
    /\ stolen' = (stolen \/ (fds[n].kind # "free" /\ <<fds[n].kind, fds[n].of>> # <<kind, t>>))
    /\ UNCHANGED short

Goto(t, l) == pc' = [pc EXCEPT ![t] = l]

(* haul() returns or raises; its variables are gone.                       *)
Leave(t, o) ==
    /\ Goto(t, "idle") /\ outcome' = [outcome EXCEPT ![t] = o]
    /\ then' = [then EXCEPT ![t] = "idle"]
    /\ fd' = [fd EXCEPT ![t] = None] /\ tfd' = [tfd EXCEPT ![t] = None]
    /\ cursor' = [cursor EXCEPT ![t] = 0] /\ dirty' = [dirty EXCEPT ![t] = 0]
    /\ known' = [known EXCEPT ![t] = FALSE]

(* The try block is left; the finally clause runs before anything else.    *)
Unwind(t, o) ==
    /\ Goto(t, "finally") /\ then' = [then EXCEPT ![t] = o]
    /\ tfd' = [tfd EXCEPT ![t] = None]
    /\ UNCHANGED <<fd, plan, outcome>>

-----------------------------------------------------------------------------
(* Up to the open file.                                                    *)

(* Mutant: the cursor is counted from the start and then added again.      *)
PrepareDoubled(t) ==
    /\ pc[t] = "idle" /\ outcome[t] # "complete"
    /\ Goto(t, "request")
    /\ cursor' = [cursor EXCEPT ![t] = 2 * ctrl[t].cursor]
    /\ outcome' = [outcome EXCEPT ![t] = "none"]
    /\ UNCHANGED <<disk, fds, then, fd, tfd, dirty, known, faults, past>>

(* prepare_haul: the cursor of a readable checkpoint, or 0.                *)
Prepare(t) ==
    /\ pc[t] = "idle" /\ outcome[t] # "complete"
    /\ Goto(t, "request")
    /\ cursor' = [cursor EXCEPT ![t] = IF ctrl[t].text = "whole" THEN ctrl[t].cursor ELSE 0]
    /\ outcome' = [outcome EXCEPT ![t] = "none"]
    /\ UNCHANGED <<disk, fds, then, fd, tfd, dirty, known, faults, past>>

ConnectionFails(t) ==
    /\ pc[t] = "request" /\ Fault
    /\ Leave(t, "partial")
    /\ UNCHANGED <<disk, fds, past>>

(* 206 of the rest, or a 200 (or a 206 of the whole) that starts again at  *)
(* 0 and leaves the checkpoint; with or without the length of the whole.   *)
Answer(t) ==
    /\ pc[t] = "request"
    /\ \/ cursor[t] < Length[t] /\ UNCHANGED cursor
       \/ cursor' = [cursor EXCEPT ![t] = 0]
    /\ \E k \in BOOLEAN : known' = [known EXCEPT ![t] = k]
    /\ Goto(t, "open")
    /\ UNCHANGED <<disk, fds, then, fd, tfd, dirty, outcome, faults, past>>

(* 416 that confirms the cursor.                                           *)
Complete416(t) ==
    /\ pc[t] = "request" /\ cursor[t] = Length[t] /\ part[t].exists
    /\ part' = [part EXCEPT ![t] = Resize(@, cursor[t])]
    /\ Goto(t, "rename")
    /\ UNCHANGED <<dest, synced, backed, ctrl, tmp, fds, then, fd, tfd, plan, outcome,
                   faults, past>>

(* os.open with O_CREAT; EMFILE when the table is full.                    *)
Open(t) ==
    /\ pc[t] = "open"
    /\ \/ /\ Unused = {}
          /\ Leave(t, "error") /\ UNCHANGED <<fds, part>>
       \/ /\ Unused # {}
          /\ Opens(Lowest(Unused), "part", t)
          /\ fd' = [fd EXCEPT ![t] = Lowest(Unused)]
          /\ part' = [part EXCEPT ![t] = Create(@)]
          /\ Goto(t, "allocate")
          /\ UNCHANGED <<then, tfd, plan, outcome>>
    /\ UNCHANGED <<dest, synced, backed, ctrl, tmp, faults, past>>

(* Mutant: the position is left where open put it.                         *)
AllocateUnsought(t) ==
    /\ pc[t] = "allocate" /\ ~Closed(fd[t])
    /\ Goto(t, "stream")
    /\ UNCHANGED <<disk, fds, then, fd, tfd, plan, outcome, faults, past>>

(* allocate_file and lseek, on whatever file the descriptor stands for.    *)
(* `reserved`: posix_fallocate or F_PREALLOCATE did it, not ftruncate.     *)
Allocate(t) ==
    /\ pc[t] = "allocate" /\ ~Closed(fd[t])
    /\ LET f == fds[fd[t]] u == f.of IN
       /\ fds' = [fds EXCEPT ![fd[t]].pos = cursor[t]]
       /\ IF f.kind = "part" /\ known[t] /\ part[u].size # Length[t]
          THEN \E reserved \in BOOLEAN :
                 /\ part' = [part EXCEPT ![u] = Resize(@, Length[t])]
                 /\ backed' = [backed EXCEPT ![u] =
                       IF reserved THEN 0 .. (Length[t] - 1)
                                   ELSE @ \cap (0 .. (Length[t] - 1))]
          ELSE UNCHANGED <<part, backed>>
    /\ Goto(t, "stream")
    /\ UNCHANGED <<dest, synced, ctrl, tmp, then, fd, tfd, plan, outcome, faults, past>>

(* Mutant: open_part_file without its except clause.                       *)
AllocateFailsOpen(t) ==
    /\ pc[t] = "allocate" /\ (Closed(fd[t]) \/ known[t])
    /\ IF Closed(fd[t]) THEN UNCHANGED faults ELSE Fault
    /\ Leave(t, "error")
    /\ UNCHANGED <<disk, fds, past>>

(* Mutant: the except clause of open_part_file, then the finally clause.   *)
AllocateFailsTwice(t) ==
    /\ pc[t] = "allocate" /\ (Closed(fd[t]) \/ known[t])
    /\ IF Closed(fd[t]) THEN UNCHANGED faults ELSE Fault
    /\ Closes(fd[t], "part", t)
    /\ Unwind(t, "error")
    /\ UNCHANGED disk

(* ENOSPC of posix_fallocate (or EBADF): open_part_file closes and raises. *)
AllocateFails(t) ==
    /\ pc[t] = "allocate" /\ (Closed(fd[t]) \/ known[t])
    /\ IF Closed(fd[t]) THEN UNCHANGED faults ELSE Fault
    /\ Closes(fd[t], "part", t)
    /\ Leave(t, "error")
    /\ UNCHANGED disk

-----------------------------------------------------------------------------
(* The body.                                                               *)

Chunk(off, n) == off .. (off + n - 1)

(* write_chunk of n bytes, of which os.write writes k; space that is not   *)
(* reserved may run out in the middle.                                     *)
WriteChunk(t, n, k) ==
    LET f == fds[fd[t]] u == f.of IN
    /\ pc[t] = "stream" /\ ~Closed(fd[t])
    /\ cursor[t] + n <= Length[t] /\ f.pos + n <= MaxLen
    /\ IF k < n THEN f.kind = "part" /\ ~(Chunk(f.pos, n) \subseteq backed[u]) /\ Fault
                ELSE UNCHANGED faults
    /\ IF f.kind = "part"
       THEN /\ part' = [part EXCEPT ![u] = WriteAt(@, f.pos, k,
                  [i \in Offset |-> IF i \in Chunk(f.pos, k)
                                    THEN Body[t][cursor[t] + (i - f.pos)] ELSE Zero])]
            /\ synced' = [synced EXCEPT ![u] =
                             {i \in @ : part'[u].data[i] = part[u].data[i]}]
            /\ backed' = [backed EXCEPT ![u] = @ \cup Chunk(f.pos, k)]
            /\ UNCHANGED tmp
       ELSE /\ tmp' = [tmp EXCEPT ![u].text = "mixed"]
            /\ UNCHANGED <<part, synced, backed>>
    /\ fds' = [fds EXCEPT ![fd[t]].pos = @ + k]
    /\ cursor' = [cursor EXCEPT ![t] = @ + n]
    /\ dirty' = [dirty EXCEPT ![t] = @ + n]
    /\ IF dirty[t] + n >= FlushEvery
       THEN Goto(t, "sync") /\ then' = [then EXCEPT ![t] = "stream"]
       ELSE UNCHANGED <<pc, then>>
    /\ short' = (short \/ k < n)
    /\ UNCHANGED <<dest, ctrl, fd, tfd, known, outcome, stolen>>

(* The body is complete, or is cut short without an error.                 *)
StreamEnds(t) ==
    /\ pc[t] = "stream"
    /\ IF cursor[t] = Length[t] THEN UNCHANGED faults ELSE known[t] /\ Fault
    /\ Goto(t, "final_sync")
    /\ UNCHANGED <<disk, fds, then, fd, tfd, plan, outcome, past>>

(* Mutant: the close of the except clause comes before flush_dirty.        *)
StreamErrorClosed(t) ==
    /\ pc[t] = "stream" /\ Fault
    /\ Closes(fd[t], "part", t)
    /\ Goto(t, IF dirty[t] > 0 THEN "sync" ELSE "close")
    /\ then' = [then EXCEPT ![t] = "close"]
    /\ UNCHANGED <<disk, fd, tfd, plan, outcome>>

(* TransportError: flush_dirty, then the close in the except clause.       *)
StreamError(t) ==
    /\ pc[t] = "stream" /\ Fault
    /\ Goto(t, IF dirty[t] > 0 THEN "sync" ELSE "close")
    /\ then' = [then EXCEPT ![t] = "close"]
    /\ UNCHANGED <<disk, fds, fd, tfd, plan, outcome, past>>

(* on_progress, os.write or datasync raises.                               *)
Raise(t) ==
    /\ pc[t] \in {"stream", "sync", "final_sync"}
    /\ IF Closed(fd[t]) THEN UNCHANGED faults ELSE Fault
    /\ Unwind(t, "error")
    /\ UNCHANGED <<disk, fds, past>>

(* Mutant: a checkpoint is saved without a datasync before it.             *)
DatasyncNotPeriodic(t) ==
    /\ ~Closed(fd[t])
    /\ \/ pc[t] = "sync" /\ Goto(t, "tmp_open") /\ UNCHANGED <<then, tfd>>
       \/ pc[t] = "final_sync" /\ Unwind(t, "after")
    /\ UNCHANGED <<disk, fds, fd, plan, outcome, faults, past>>

(* datasync(fd), of all that is in that file.                              *)
Datasync(t) ==
    /\ ~Closed(fd[t])
    /\ \/ pc[t] = "sync" /\ Goto(t, "tmp_open") /\ UNCHANGED <<then, tfd>>
       \/ pc[t] = "final_sync" /\ Unwind(t, "after")
    /\ synced' = IF fds[fd[t]].kind = "part"
                 THEN [synced EXCEPT ![fds[fd[t]].of] = Offset] ELSE synced
    /\ UNCHANGED <<part, dest, backed, ctrl, tmp, fds, fd, plan, outcome, faults, past>>

-----------------------------------------------------------------------------
(* write_atomic.                                                           *)

(* An exception of save_checkpoint; after_stream has no finally clause.    *)
SaveRaises(t) == IF then[t] = "partial" THEN Leave(t, "error") ELSE Unwind(t, "error")

(* Mutant: the control file itself is opened and written.                  *)
OpenTmpInPlace(t) ==
    /\ pc[t] = "tmp_open" /\ Unused # {}
    /\ Opens(Lowest(Unused), "tmp", t)
    /\ tfd' = [tfd EXCEPT ![t] = Lowest(Unused)]
    /\ tmp' = [tmp EXCEPT ![t] = [exists |-> TRUE, text |-> "empty", cursor |-> 0]]
    /\ ctrl' = [ctrl EXCEPT ![t] = [exists |-> TRUE, text |-> "empty", cursor |-> 0]]
    /\ Goto(t, "tmp_write")
    /\ UNCHANGED <<part, dest, synced, backed, then, fd, plan, outcome, faults, past>>

OpenTmp(t) ==
    /\ pc[t] = "tmp_open"
    /\ \/ /\ Unused = {}
          /\ SaveRaises(t) /\ UNCHANGED <<fds, tmp>>
       \/ /\ Unused # {}
          /\ Opens(Lowest(Unused), "tmp", t)
          /\ tfd' = [tfd EXCEPT ![t] = Lowest(Unused)]
          /\ tmp' = [tmp EXCEPT ![t] = [exists |-> TRUE, text |-> "empty", cursor |-> 0]]
          /\ Goto(t, "tmp_write")
          /\ UNCHANGED <<then, fd, plan, outcome>>
    /\ UNCHANGED <<part, dest, synced, backed, ctrl, faults, past>>

(* f.write, f.flush and os.fsync.                                          *)
WriteTmp(t) ==
    /\ pc[t] = "tmp_write" /\ ~Closed(tfd[t])
    /\ LET f == fds[tfd[t]] u == f.of IN
       IF f.kind = "tmp"
       THEN /\ tmp' = [tmp EXCEPT ![u] =
                 [exists |-> TRUE, cursor |-> cursor[t],
                  text |-> IF u = t /\ @.text = "empty" THEN "whole" ELSE "mixed"]]
            /\ UNCHANGED <<part, synced>>
       ELSE /\ f.pos < MaxLen
            /\ part' = [part EXCEPT ![u] = WriteAt(@, f.pos, 1, [i \in Offset |-> Junk])]
            /\ synced' = [synced EXCEPT ![u] = Offset]
            /\ UNCHANGED tmp
    /\ Goto(t, "tmp_replace")
    /\ UNCHANGED <<dest, backed, ctrl, fds, then, fd, tfd, plan, outcome, faults, past>>

(* write, flush, fsync, the close of the with statement or replace raises. *)
TmpFails(t) ==
    /\ pc[t] \in {"tmp_write", "tmp_replace"}
    /\ IF Closed(tfd[t]) THEN UNCHANGED faults ELSE Fault
    /\ Closes(tfd[t], "tmp", t)
    /\ SaveRaises(t)
    /\ UNCHANGED disk

(* The with statement closes the file; tmp.replace(path).                  *)
Replace(t) ==
    /\ pc[t] = "tmp_replace" /\ ~Closed(tfd[t])
    /\ Closes(tfd[t], "tmp", t)
    /\ ctrl' = [ctrl EXCEPT ![t] = tmp[t]]
    /\ tmp' = [tmp EXCEPT ![t] = NoCtrl]
    /\ IF then[t] = "partial"
       THEN Leave(t, "partial")
       ELSE /\ Goto(t, then[t])
            /\ tfd' = [tfd EXCEPT ![t] = None]
            /\ dirty' = [dirty EXCEPT ![t] = 0]
            /\ UNCHANGED <<then, fd, cursor, known, outcome>>
    /\ UNCHANGED <<part, dest, synced, backed, faults>>

-----------------------------------------------------------------------------
(* The two closes, and the end.                                            *)

(* os.close(fd) in the except clause.                                      *)
Close(t) ==
    /\ pc[t] = "close"
    /\ Closes(fd[t], "part", t)
    /\ Unwind(t, IF Closed(fd[t]) THEN "error" ELSE "partial")
    /\ UNCHANGED <<disk, faults>>

(* os.close(fd) in the finally clause, OSError suppressed.                 *)
Finally(t) ==
    /\ pc[t] = "finally"
    /\ Closes(fd[t], "part", t)
    /\ IF then[t] = "after"
       THEN /\ Goto(t, "after") /\ fd' = [fd EXCEPT ![t] = None]
            /\ UNCHANGED <<then, tfd, plan, outcome>>
       ELSE Leave(t, then[t])
    /\ UNCHANGED <<disk, faults>>

AfterStreamShort(t) ==
    /\ pc[t] = "after" /\ known[t] /\ cursor[t] < Length[t]
    /\ Goto(t, "tmp_open") /\ then' = [then EXCEPT ![t] = "partial"]
    /\ UNCHANGED <<disk, fds, fd, tfd, plan, outcome, faults, past>>

AfterStreamTrim(t) ==
    /\ pc[t] = "after" /\ (known[t] => cursor[t] >= Length[t])
    /\ part' = IF part[t].size > cursor[t]
               THEN [part EXCEPT ![t] = Resize(@, cursor[t])] ELSE part
    /\ Goto(t, "rename")
    /\ UNCHANGED <<dest, synced, backed, ctrl, tmp, fds, then, fd, tfd, plan, outcome,
                   faults, past>>

FinalizeRename(t) ==
    /\ pc[t] = "rename"
    /\ dest' = [dest EXCEPT ![t] = part[t]]
    /\ part' = [part EXCEPT ![t] = Absent]
    /\ synced' = [synced EXCEPT ![t] = {}] /\ backed' = [backed EXCEPT ![t] = {}]
    /\ Goto(t, "unlink")
    /\ UNCHANGED <<ctrl, tmp, fds, then, fd, tfd, plan, outcome, faults, past>>

FinalizeUnlink(t) ==
    /\ pc[t] = "unlink"
    /\ ctrl' = [ctrl EXCEPT ![t] = NoCtrl]
    /\ Leave(t, "complete")
    /\ UNCHANGED <<part, dest, synced, backed, tmp, fds, faults, past>>

(* The process is killed and started again; the page cache survives.       *)
Kill ==
    /\ Fault
    /\ \A t \in Thread : pc[t] # "unlink"
    /\ fds' = [n \in Fd |-> Free]
    /\ pc' = [t \in Thread |-> "idle"] /\ then' = [t \in Thread |-> "idle"]
    /\ fd' = [t \in Thread |-> None] /\ tfd' = [t \in Thread |-> None]
    /\ cursor' = [t \in Thread |-> 0] /\ dirty' = [t \in Thread |-> 0]
    /\ known' = [t \in Thread |-> FALSE]
    /\ outcome' = [t \in Thread |-> IF outcome[t] = "complete" THEN "complete" ELSE "killed"]
    /\ UNCHANGED <<disk, past>>

-----------------------------------------------------------------------------
Step(t) ==
    \/ Prepare(t) \/ ConnectionFails(t) \/ Answer(t) \/ Complete416(t)
    \/ Open(t) \/ Allocate(t) \/ AllocateFails(t)
    \/ \E n \in 1 .. MaxChunk : \E k \in 1 .. n : WriteChunk(t, n, k)
    \/ StreamEnds(t) \/ StreamError(t) \/ Raise(t) \/ Datasync(t)
    \/ OpenTmp(t) \/ WriteTmp(t) \/ TmpFails(t) \/ Replace(t)
    \/ Close(t) \/ Finally(t)
    \/ AfterStreamShort(t) \/ AfterStreamTrim(t)
    \/ FinalizeRename(t) \/ FinalizeUnlink(t)

Next == Kill \/ \E t \in Thread : Step(t)

Spec == Init /\ [][Next]_vars
-----------------------------------------------------------------------------
(* Properties.                                                             *)

Labels == {"idle", "request", "open", "allocate", "stream", "sync", "final_sync",
           "tmp_open", "tmp_write", "tmp_replace", "close", "finally", "after",
           "rename", "unlink"}

Outcome == {"none", "complete", "partial", "error", "killed"}

TypeOK ==
    /\ part \in [Thread -> File] /\ dest \in [Thread -> File]
    /\ synced \in [Thread -> SUBSET Offset] /\ backed \in [Thread -> SUBSET Offset]
    /\ ctrl \in [Thread -> CtrlFile] /\ tmp \in [Thread -> CtrlFile]
    /\ fds \in [Fd -> OpenFile]
    /\ pc \in [Thread -> Labels]
    /\ then \in [Thread -> {"idle", "stream", "close", "after", "partial", "error"}]
    /\ fd \in [Thread -> Fd \cup {None}] /\ tfd \in [Thread -> Fd \cup {None}]
    /\ cursor \in [Thread -> 0 .. MaxLen] /\ dirty \in [Thread -> 0 .. MaxLen]
    /\ known \in [Thread -> BOOLEAN]
    /\ outcome \in [Thread -> Outcome]
    /\ faults \in 0 .. MaxFaults /\ stolen \in BOOLEAN /\ short \in BOOLEAN

Whole(t) == [exists |-> TRUE, size |-> Length[t], data |-> Body[t]]

DestComplete == \A t \in Thread : dest[t].exists => dest[t] = Whole(t)

(* As long as no thread has closed another's descriptor and no os.write    *)
(* came short, whatever else fails or is killed in whatever thread: "If    *)
(* the destination file exists at the requested path, it is complete and   *)
(* uncorrupted" (docs/explanation/design.md:194).                          *)
DestWhole == (~stolen /\ ~short) => DestComplete

(* The same sentence, whatever threads do to each other's descriptors.     *)
DestDespiteThreads == ~short => DestComplete

(* The same sentence, on a disk that fills up while os.write writes.       *)
DestDespiteFullDisk == ~stolen => DestComplete

(* Until a descriptor is closed under its owner, a control file is exactly *)
(* one checkpoint of its own destination, at whatever step of write_atomic *)
(* a thread fails or the process dies.                                     *)
CtrlWhole == ~stolen => \A t \in Thread : ctrl[t].exists => ctrl[t].text = "whole"

(* A checkpoint vouches only for bytes of its own resource that are in its *)
(* own .part and on the disk: when an attempt starts again at 0 under an   *)
(* older checkpoint, what it writes below that cursor is what was there.   *)
CtrlBacked ==
    (~stolen /\ ~short) => \A t \in Thread : (ctrl[t].exists /\ part[t].exists) =>
        /\ \A i \in 0 .. (ctrl[t].cursor - 1) : i \in synced[t]
        /\ Agrees(part[t].data, Body[t], ctrl[t].cursor)

UsesPart == {"allocate", "stream", "sync", "final_sync"}
UsesTmp == {"tmp_write", "tmp_replace"}

HoldsPart(t) ==
    \/ pc[t] \in UsesPart \cup {"close"}
    \/ pc[t] \in UsesTmp \cup {"tmp_open"} /\ then[t] # "partial"
    \/ pc[t] = "finally" /\ then[t] # "partial"

(* The number a thread reads, writes or syncs through stands for the file  *)
(* it opened, in every thread at once.                                     *)
DescriptorOwned ==
    ~stolen => \A t \in Thread :
        /\ HoldsPart(t) => fds[fd[t]].kind = "part" /\ fds[fd[t]].of = t
        /\ pc[t] \in UsesTmp => fds[tfd[t]].kind = "tmp" /\ fds[tfd[t]].of = t

(* An open descriptor belongs to a call that is still going to close it:   *)
(* no way out of haul() leaves one open, in whatever order threads fail.   *)
NoLeak ==
    ~stolen => \A n \in Fd : ~Closed(n) =>
        \E t \in Thread : \/ HoldsPart(t) /\ fd[t] = n
                          \/ pc[t] \in UsesTmp /\ tfd[t] = n

(* The first descriptor that is closed under another thread is closed by a *)
(* finally clause whose except clause has closed it already: no other pair *)
(* of steps of two threads can do it.                                      *)
StolenOnlyTwice ==
    [][(~stolen /\ stolen') => \E t \in Thread : pc[t] = "finally" /\ then[t] = "partial"]_vars
=============================================================================
