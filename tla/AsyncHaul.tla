------------------------------ MODULE AsyncHaul ------------------------------
(***************************************************************************)
(* haul_async: one task that downloads, the jobs it hands to the default   *)
(* thread pool, and a caller that may cancel the task at an await and      *)
(* start the download again.                                               *)
(*                                                                         *)
(* Cancelling a task that awaits a job removes the job while it is queued; *)
(* a job that has started cannot be stopped and goes on without anybody    *)
(* waiting for it.  The next attempt then shares three paths with it       *)
(* (.part, .part.ctrl and .part.ctrl.tmp), and its own cleanup shares the  *)
(* descriptor.                                                             *)
(*                                                                         *)
(* Abstractions.  What module Haul is about is left out: the resource never*)
(* changes, nothing crashes, and the origin announces the length, so .part *)
(* is known by the set of offsets that hold the right byte.  A file is an  *)
(* inode, because a descriptor outlives a rename.  The .ctrl file is known *)
(* by the cursor it holds, or is Torn: created or truncated, not written.  *)
(***************************************************************************)
EXTENDS Integers

CONSTANTS
    Length,         \* length of the resource
    BlockSize,
    FlushEvery,
    MaxChunk,       \* bound: bytes in one chunk
    MaxFaults,      \* bound: failures of the connection, the callback, a job
    MaxCancels,     \* bound: cancellations
    CancelAt,       \* values of pc at whose await the task may be cancelled
    UnlinkFails,    \* finalize may fail between rename and unlink (unlink_crash)
    FD, Inode       \* bounds: descriptors and inodes, positive numbers

Offset == 0 .. (Length - 1)
None == 0
Torn == -1

Flushing == {"error_flush", "cancel_flush", "raise_flush"}
Awaiting == {"open", "flush", "final_sync", "after"} \cup Flushing
PC == {"idle", "request", "stream"} \cup Awaiting

ASSUME AsyncAssumption ==
    /\ Length \in Nat \ {0} /\ BlockSize \in Nat \ {0}
    /\ FlushEvery \in Nat \ {0} /\ MaxChunk \in Nat \ {0}
    /\ MaxFaults \in Nat /\ MaxCancels \in Nat
    /\ CancelAt \subseteq PC \ {"idle"} /\ UnlinkFails \in BOOLEAN
    /\ FD \subseteq Nat \ {0} /\ Inode \subseteq Nat \ {0}

VARIABLES
    pc,         \* where the task is
    cursor,     \* plan.cursor; of the last attempt, when pc is idle
    dirty,      \* plan.bytes_since_flush
    fd,         \* the task's descriptor
    outcome,    \* how the last attempt ended
    jobs,       \* jobs queued or running in the pool
    fds,        \* the inode each open descriptor refers to
    part, dest, \* inodes of .part and of the destination
    good,       \* offsets of each inode that hold the right byte
    ctrl, tmp,  \* inodes of .part.ctrl and .part.ctrl.tmp
    content,    \* what each of those holds
    faults, cancels

task == <<pc, cursor, dirty, fd, outcome>>
data == <<part, dest, good>>
control == <<ctrl, tmp, content>>
budget == <<faults, cancels>>
vars == <<task, jobs, fds, data, control, budget>>

Job == [kind : {"open", "flush", "flushclose", "syncclose", "short", "finish"},
        step : {"queued", "open", "sync", "create", "write", "replace", "close",
                "stat", "rename", "unlink"},
        fd : FD \cup {None}, node : Inode \cup {None}, cursor : 0 .. Length,
        saves : BOOLEAN, tmp : Inode \cup {None}, ok : BOOLEAN, awaited : BOOLEAN,
        left : 0 .. MaxCancels]     \* the cancellation that left it behind

Init ==
    /\ pc = "idle" /\ cursor = 0 /\ dirty = 0 /\ fd = None /\ outcome = "none"
    /\ jobs = {}
    /\ fds = [f \in FD |-> None]
    /\ part = None /\ dest = None /\ good = [i \in Inode |-> {}]
    /\ ctrl = None /\ tmp = None /\ content = [i \in Inode |-> Torn]
    /\ faults = 0 /\ cancels = 0

Fault == faults < MaxFaults /\ faults' = faults + 1 /\ UNCHANGED cancels

(* open gives the lowest free descriptor.                                  *)
Unused == {f \in FD : fds[f] = None}
FreeFD == CHOOSE f \in Unused : \A g \in Unused : f <= g

(* Inodes that nothing refers to.                                          *)
Spare ==
    {i \in Inode \ {part, dest, ctrl, tmp} :
        /\ \A f \in FD : fds[f] # i
        /\ \A j \in jobs : j.node # i /\ j.tmp # i}
FreeInode == CHOOSE i \in Spare : TRUE

(* What f says of inode i once its last name is gone, unless it is in use. *)
Forget(f, i, nothing, inUse) ==
    IF i = None \/ i \in inUse THEN f ELSE [f EXCEPT ![i] = nothing]

-----------------------------------------------------------------------------
(* The task.                                                               *)

(* loop.run_in_executor for the functions that work on the open file.      *)
Submit(kind, f, c, d) ==
    [kind |-> kind, step |-> "queued", fd |-> f,
     node |-> IF f = None THEN None ELSE fds[f], cursor |-> c,
     saves |-> d > 0, tmp |-> None, ok |-> TRUE, awaited |-> TRUE,
     left |-> 0]

(* The attempt is over.                                                    *)
Leave(o) ==
    /\ pc' = "idle" /\ outcome' = o /\ fd' = None /\ dirty' = 0 /\ UNCHANGED cursor

(* The task awaits a job of the given kind.                                *)
Await(at, kind, others) ==
    /\ pc' = at
    /\ jobs' = others \cup {Submit(kind, fd, cursor, dirty)}
    /\ UNCHANGED <<cursor, dirty, fd, outcome>>

(* Mutant: the cursor is taken for the last byte that is there.            *)
StartOffByOne ==
    /\ pc = "idle"
    /\ pc' = "request" /\ outcome' = "none" /\ fd' = None /\ dirty' = 0
    /\ cursor' = IF ctrl = None \/ content[ctrl] = Torn THEN 0 ELSE content[ctrl] + 1
    /\ UNCHANGED <<jobs, fds, data, control, budget>>

(* prepare_haul, which only reads: a torn control file is discarded.       *)
Start ==
    /\ pc = "idle"
    /\ pc' = "request" /\ outcome' = "none" /\ fd' = None /\ dirty' = 0
    /\ cursor' = IF ctrl = None \/ content[ctrl] = Torn THEN 0 ELSE content[ctrl]
    /\ UNCHANGED <<jobs, fds, data, control, budget>>

TailStart == cursor - (cursor % BlockSize)

(* Mutant: one byte more than the tail is read again.                      *)
TailReadLong ==
    cursor % BlockSize # 0 => part # None /\ TailStart .. cursor \subseteq good[part]

(* The tail of the last block is in .part, as _plan_206 finds out.         *)
TailRead ==
    cursor % BlockSize # 0 => part # None /\ TailStart .. (cursor - 1) \subseteq good[part]

(* Otherwise FileNotFoundError or ControlFileError.                        *)
Resume206 ==
    /\ pc = "request" /\ cursor < Length
    /\ IF TailRead THEN Await("open", "open", jobs) ELSE Leave("error") /\ UNCHANGED jobs
    /\ UNCHANGED <<fds, data, control, budget>>

Restart200 ==
    /\ pc = "request"
    /\ cursor' = 0 /\ pc' = "open"
    /\ jobs' = jobs \cup {Submit("open", None, 0, 0)}
    /\ UNCHANGED <<dirty, fd, outcome, fds, data, control, budget>>

(* 416, in the pool: hash what is there and finalize.                      *)
Complete416 ==
    /\ pc = "request" /\ cursor = Length
    /\ Await("after", "finish", jobs)
    /\ UNCHANGED <<fds, data, control, budget>>

(* Mutant: the flush is not awaited.                                       *)
ChunkUnawaited(n) ==
    /\ pc = "stream" /\ cursor + n <= Length
    /\ good' = [good EXCEPT ![fds[fd]] = @ \cup cursor .. (cursor + n - 1)]
    /\ cursor' = cursor + n
    /\ dirty' = IF dirty + n >= FlushEvery THEN 0 ELSE dirty + n
    /\ jobs' = IF dirty + n >= FlushEvery
               THEN jobs \cup {[Submit("flush", fd, cursor + n, dirty + n)
                                EXCEPT !.awaited = FALSE]}
               ELSE jobs
    /\ UNCHANGED <<pc, fd, outcome, fds, part, dest, control, budget>>

(* One turn of the loop; a flush is awaited before the next.               *)
Chunk(n) ==
    /\ pc = "stream" /\ cursor + n <= Length
    /\ good' = [good EXCEPT ![fds[fd]] = @ \cup cursor .. (cursor + n - 1)]
    /\ cursor' = cursor + n /\ dirty' = dirty + n
    /\ IF dirty' >= FlushEvery
       THEN pc' = "flush" /\ jobs' = jobs \cup {Submit("flush", fd, cursor', dirty')}
       ELSE UNCHANGED <<pc, jobs>>
    /\ UNCHANGED <<fd, outcome, fds, part, dest, control, budget>>

(* The body ends, complete or cut short.                                   *)
BodyEnds ==
    /\ pc = "stream"
    /\ IF cursor = Length THEN UNCHANGED budget ELSE Fault
    /\ Await("final_sync", "syncclose", jobs)
    /\ UNCHANGED <<fds, data, control>>

(* TransportError, or an exception of on_progress.                         *)
BodyFails ==
    /\ pc = "stream" /\ Fault
    /\ \E at \in {"error_flush", "raise_flush"} : Await(at, "flushclose", jobs)
    /\ UNCHANGED <<fds, data, control>>

(* What is left of the jobs when the task is cancelled.                    *)
LeftBehind ==
    {j \in jobs : ~j.awaited}
        \cup {[j EXCEPT !.awaited = FALSE, !.left = cancels + 1] :
                j \in {k \in jobs : k.awaited /\ k.step # "queued"}}

(* Mutant: a cancelled task closes the file without a checkpoint.          *)
CancelUnsaved ==
    /\ pc \in CancelAt /\ cancels < MaxCancels
    /\ cancels' = cancels + 1 /\ UNCHANGED faults
    /\ IF pc \in {"stream", "flush"}
       THEN Await("cancel_flush", "syncclose", LeftBehind)
       ELSE Leave("cancelled") /\ jobs' = LeftBehind
    /\ UNCHANGED <<fds, data, control>>

(* asyncio.Task.cancel() while the task awaits.  A running job is left     *)
(* behind.  Only the loop over the body has a handler.                     *)
Cancel ==
    /\ pc \in CancelAt /\ cancels < MaxCancels
    /\ cancels' = cancels + 1 /\ UNCHANGED faults
    /\ IF pc \in {"stream", "flush"}
       THEN Await("cancel_flush", "flushclose", LeftBehind)
       ELSE Leave("cancelled") /\ jobs' = LeftBehind
    /\ UNCHANGED <<fds, data, control>>

-----------------------------------------------------------------------------
(* The jobs.                                                               *)

(* The job j ends, and a task that waits for it goes on.                   *)
Done(j) ==
    LET rest == jobs \ {j}
    IN IF ~j.awaited
       THEN jobs' = rest /\ UNCHANGED task
       ELSE \/ /\ pc = "flush" /\ j.ok
               /\ pc' = "stream" /\ dirty' = 0 /\ jobs' = rest
               /\ UNCHANGED <<cursor, fd, outcome>>
            \/ pc = "flush" /\ ~j.ok /\ Await("raise_flush", "flushclose", rest)
            \/ pc = "error_flush" /\ Leave("partial") /\ jobs' = rest
            \/ pc = "cancel_flush" /\ Leave("flushed") /\ jobs' = rest
            \/ pc = "raise_flush" /\ Leave("error") /\ jobs' = rest
            \/ /\ pc = "final_sync" /\ j.ok
               /\ Await("after", IF cursor < Length THEN "short" ELSE "finish", rest)
            \/ /\ pc = "after" /\ j.ok /\ jobs' = rest
               /\ Leave(IF j.kind = "short" THEN "partial" ELSE "complete")
            \/ /\ pc \in {"open", "final_sync", "after"} /\ ~j.ok /\ jobs' = rest
               /\ Leave("error")

Goto(j, k) == jobs' = (jobs \ {j}) \cup {k} /\ UNCHANGED task

(* What the job does first.                                                *)
First(j) ==
    CASE j.kind = "open" -> "open"
      [] j.kind \in {"flush", "syncclose"} -> "sync"
      [] j.kind = "flushclose" -> IF j.saves THEN "sync" ELSE "close"
      [] j.kind = "short" -> "create"
      [] j.kind = "finish" -> "stat"

(* A thread of the pool takes the job.                                     *)
Begin(j) ==
    /\ j.step = "queued"
    /\ Goto(j, [j EXCEPT !.step = First(j)])
    /\ UNCHANGED <<fds, data, control, budget>>

(* open_part_file.                                                         *)
Open(j) ==
    /\ j.step = "open" /\ Unused # {} /\ (part = None => Spare # {})
    /\ LET node == IF part # None THEN part ELSE FreeInode
       IN /\ fds' = [fds EXCEPT ![FreeFD] = node]
          /\ part' = node
          /\ good' = IF part # None THEN good ELSE [good EXCEPT ![node] = {}]
    /\ jobs' = jobs \ {j}
    /\ IF j.awaited THEN pc' = "stream" /\ fd' = FreeFD /\ UNCHANGED <<cursor, dirty, outcome>>
                    ELSE UNCHANGED task
    /\ UNCHANGED <<dest, control, budget>>

Owned(j) == fds[j.fd] = j.node

(* datasync(fd).                                                           *)
Sync(j) ==
    /\ j.step = "sync" /\ fds[j.fd] # None
    /\ Goto(j, [j EXCEPT !.step = IF j.kind = "syncclose" THEN "close" ELSE "create"])
    /\ UNCHANGED <<fds, data, control, budget>>

(* Mutant: the checkpoint is written to .part.ctrl itself.                 *)
CreateInPlace(j) ==
    /\ j.step = "create"
    /\ LET node == IF ctrl # None THEN ctrl ELSE FreeInode
       IN /\ tmp' = node /\ ctrl' = node
          /\ content' = [content EXCEPT ![node] = Torn]
          /\ Goto(j, [j EXCEPT !.step = "write", !.tmp = node])
    /\ UNCHANGED <<fds, data, budget>>

(* write_atomic: tmp.open("wb").                                           *)
CreateTmp(j) ==
    /\ j.step = "create" /\ (tmp = None => Spare # {})
    /\ LET node == IF tmp # None THEN tmp ELSE FreeInode
       IN /\ tmp' = node
          /\ content' = [content EXCEPT ![node] = Torn]
          /\ Goto(j, [j EXCEPT !.step = "write", !.tmp = node])
    /\ UNCHANGED <<ctrl, fds, data, budget>>

(* write_atomic: f.write and fsync, into the inode that was opened.        *)
WriteTmp(j) ==
    /\ j.step = "write"
    /\ content' = [content EXCEPT ![j.tmp] = j.cursor]
    /\ Goto(j, [j EXCEPT !.step = "replace", !.tmp = None])
    /\ UNCHANGED <<ctrl, tmp, fds, data, budget>>

(* write_atomic: tmp.replace(path), of whatever the name refers to now.    *)
Replace(j) ==
    /\ j.step = "replace" /\ tmp # None
    /\ ctrl' = tmp /\ tmp' = None
    /\ content' = Forget(content, ctrl, Torn, {k.tmp : k \in jobs})
    /\ IF j.kind = "flushclose" THEN Goto(j, [j EXCEPT !.step = "close"]) ELSE Done(j)
    /\ UNCHANGED <<fds, data, budget>>

(* Mutant: the descriptor may be closed once more.                         *)
CloseAgain(j) ==
    /\ j.step = "close"
    /\ fds' = [fds EXCEPT ![j.fd] = None]
    /\ Done(j) \/ UNCHANGED <<jobs, task>>
    /\ UNCHANGED <<data, control, budget>>

(* os.close(fd), with OSError suppressed.                                  *)
Close(j) ==
    /\ j.step = "close"
    /\ fds' = [fds EXCEPT ![j.fd] = None]
    /\ Done(j)
    /\ UNCHANGED <<data, control, budget>>

(* Mutant: what is at the destination is unlinked to make room.            *)
StatClearing(j) ==
    /\ j.step = "stat" /\ part # None
    /\ dest' = None /\ good' = Forget(good, dest, {}, {fds[f] : f \in FD})
    /\ Goto(j, [j EXCEPT !.step = "rename"])
    /\ UNCHANGED <<fds, part, control, budget>>

(* after_stream and _on_416: stat the file and read it.                    *)
Stat(j) ==
    /\ j.step = "stat" /\ part # None
    /\ Goto(j, [j EXCEPT !.step = "rename"])
    /\ UNCHANGED <<fds, data, control, budget>>

(* finalize: rename, then unlink.                                          *)
Rename(j) ==
    /\ j.step = "rename" /\ part # None
    /\ dest' = part /\ part' = None
    /\ good' = Forget(good, dest, {}, {fds[f] : f \in FD})
    /\ Goto(j, [j EXCEPT !.step = "unlink"])
    /\ UNCHANGED <<fds, control, budget>>

(* Mutant: finalize leaves .part.ctrl behind.                              *)
UnlinkForgotten(j) ==
    /\ j.step = "unlink"
    /\ Done(j)
    /\ UNCHANGED <<control, fds, data, budget>>

Unlink(j) ==
    /\ j.step = "unlink"
    /\ ctrl' = None
    /\ content' = Forget(content, ctrl, Torn, {k.tmp : k \in jobs})
    /\ Done(j)
    /\ UNCHANGED <<tmp, fds, data, budget>>

(* An OSError: the disk fails, no descriptor is free, one is closed, a name*)
(* is missing.                                                             *)
Broken(j) ==
    \/ j.step = "open" /\ Unused = {}
    \/ j.step = "sync" /\ fds[j.fd] = None
    \/ j.step = "replace" /\ tmp = None
    \/ j.step \in {"stat", "rename"} /\ part = None

(* The steps that can raise; an OSError of os.close is suppressed.         *)
Fallible(j) ==
    \/ j.step \in {"open", "sync", "create", "write", "replace", "stat", "rename"}
    \/ j.step = "unlink" /\ UnlinkFails

(* Mutant: _datasync_and_close without its finally.                        *)
FailsLeaking(j) ==
    /\ Fallible(j)
    /\ IF Broken(j) THEN UNCHANGED budget ELSE Fault
    /\ IF j.kind = "flushclose"
       THEN Goto(j, [j EXCEPT !.step = IF j.step = "sync" THEN "create" ELSE "close",
                              !.tmp = None])
       ELSE IF ~j.awaited
       THEN jobs' = jobs \ {j} /\ UNCHANGED task
       ELSE IF pc = "flush"
       THEN Await("raise_flush", "flushclose", jobs \ {j})
       ELSE Leave("error") /\ jobs' = jobs \ {j}
    /\ UNCHANGED <<fds, data, control>>

(* A job that closes goes on to close; any other one ends here.            *)
Fails(j) ==
    /\ Fallible(j)
    /\ IF Broken(j) THEN UNCHANGED budget ELSE Fault
    /\ IF j.kind = "flushclose"
       THEN Goto(j, [j EXCEPT !.step = IF j.step = "sync" THEN "create" ELSE "close",
                              !.tmp = None])
       ELSE IF j.kind = "syncclose"
       THEN Goto(j, [j EXCEPT !.step = "close", !.ok = FALSE])
       ELSE IF ~j.awaited
       THEN jobs' = jobs \ {j} /\ UNCHANGED task
       ELSE IF pc = "flush"
       THEN Await("raise_flush", "flushclose", jobs \ {j})
       ELSE Leave("error") /\ jobs' = jobs \ {j}
    /\ UNCHANGED <<fds, data, control>>

-----------------------------------------------------------------------------
Task ==
    \/ Start \/ Resume206 \/ Restart200 \/ Complete416
    \/ \E n \in 1 .. MaxChunk : Chunk(n)
    \/ BodyEnds

Works(j) ==
    \/ Begin(j) \/ Open(j) \/ Sync(j) \/ CreateTmp(j) \/ WriteTmp(j) \/ Replace(j)
    \/ Close(j) \/ Stat(j) \/ Rename(j) \/ Unlink(j) \/ Fails(j)

Next == Task \/ BodyFails \/ Cancel \/ \E j \in jobs : Works(j)

Spec == Init /\ [][Next]_vars

(* The event loop and the threads run, and the caller tries again.         *)
FairSpec == Spec /\ WF_vars(Task) /\ WF_vars(\E j \in jobs : Works(j))
-----------------------------------------------------------------------------
TypeOK ==
    /\ pc \in PC /\ cursor \in 0 .. Length /\ dirty \in 0 .. Length
    /\ fd \in FD \cup {None} /\ jobs \subseteq Job
    /\ outcome \in {"none", "complete", "partial", "error", "cancelled", "flushed"}
    /\ fds \in [FD -> Inode \cup {None}]
    /\ {part, dest, ctrl, tmp} \subseteq Inode \cup {None}
    /\ good \in [Inode -> SUBSET Offset]
    /\ content \in [Inode -> {Torn} \cup 0 .. Length]

(* "If the destination file exists at the requested path, it is complete   *)
(* and uncorrupted" (docs/explanation/design.md:194), now that an attempt  *)
(* may have company.                                                       *)
DestWhole == dest # None => good[dest] = Offset

(* Jobs, cancellations and failures at any time, and still: what stands at *)
(* the destination changes by the installation of the complete resource    *)
(* and by nothing else; it is never taken away, nor written through a      *)
(* descriptor that somebody kept (finalize, _engine_common.py).            *)
Delivery == INSTANCE AtomicDelivery
    WITH Versions <- {1}, Content <- [v \in {1} |-> <<Offset>>], Nothing <- <<>>,
         current <- 1, file <- IF dest = None THEN <<>> ELSE <<good[dest]>>

DeliversAtomically == Delivery!Spec

(* "Write bytes atomically" (persist.py:15): a reader of .part.ctrl finds a*)
(* whole checkpoint or no file.                                            *)
CtrlWhole == ctrl # None => content[ctrl] # Torn

(* A checkpoint vouches for bytes that are in .part, except while finalize *)
(* is between its rename and its unlink.                                   *)
CtrlBacked ==
    (/\ ctrl # None /\ content[ctrl] > 0
     /\ \A j \in jobs : j.step # "unlink")
        => part # None /\ 0 .. (content[ctrl] - 1) \subseteq good[part]

(* What "eliminates the cancellation race" (async_engine.py:65) is about:  *)
(* a thread that is about to sync or close a descriptor finds it open and  *)
(* referring to its own file.                                              *)
DescriptorOwned == \A j \in jobs : j.step \in {"sync", "close"} => Owned(j)

(* Of two jobs only one writes .part.ctrl.tmp.                             *)
OneWriter ==
    \A j, k \in jobs : {j.step, k.step} \subseteq {"create", "write", "replace"} => j = k

(* Whatever fails, the descriptor is closed between attempts; only a       *)
(* cancellation can lose one (while the file is being opened, or while the *)
(* job that closes it is queued).                                          *)
NoLeak == (pc = "idle" /\ jobs = {} /\ cancels = 0) => \A f \in FD : fds[f] = None

(* A descriptor is closed by the job that was given it, and by one only:   *)
(* no step closes the descriptor of a task that streams.                   *)
StreamOpen == pc \in {"stream", "flush"} => fds[fd] # None

(* "Persist bytes written since the last periodic flush so cancel-resume   *)
(* matches abrupt-exit checkpoint semantics" (async_engine.py:217).        *)
CancelSaves ==
    (outcome = "flushed" /\ jobs = {} /\ cursor > 0 /\ faults = 0)
        => ctrl # None /\ content[ctrl] = cursor

(* An attempt ends, whatever is cancelled or fails.                        *)
AttemptEnds == (pc # "idle") ~> (pc = "idle")

(* Retrying completes the download.                                        *)
RetryCompletes == []<>(outcome = "complete")
=============================================================================
