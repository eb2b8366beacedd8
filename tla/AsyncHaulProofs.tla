--------------------------- MODULE AsyncHaulProofs ---------------------------
(***************************************************************************)
(* What holds of haul_async for resources, blocks, thresholds and chunks   *)
(* of every size, and any number of failures, cancellations, descriptors   *)
(* and inodes, as long as no cancellation hits an await at which a job is  *)
(* left behind that still writes (Gentle); what is delivered and what a    *)
(* checkpoint vouches for, as long as the unlink of finalize does not fail *)
(* (~UnlinkFails).                                                         *)
(***************************************************************************)
EXTENDS AsyncHaul, WellFoundedInduction, TLAPS

Gentle == CancelAt \subseteq {"request", "open", "stream", "final_sync"}

-----------------------------------------------------------------------------
(* Types; what is not flushed has been received.                           *)
TaskType ==
    /\ pc \in PC /\ cursor \in 0 .. Length /\ dirty \in 0 .. Length
    /\ fd \in FD \cup {None} /\ jobs \subseteq Job
    /\ outcome \in {"none", "complete", "partial", "error", "cancelled", "flushed"}
    /\ dirty <= cursor
    /\ pc \in {"request", "open"} => dirty = 0

DiskType ==
    /\ fds \in [FD -> Inode \cup {None}]
    /\ part \in Inode \cup {None} /\ dest \in Inode \cup {None}
    /\ ctrl \in Inode \cup {None} /\ tmp \in Inode \cup {None}
    /\ good \in [Inode -> SUBSET Offset]
    /\ content \in [Inode -> {Torn} \cup 0 .. Length]

TypeInv ==
    /\ TaskType /\ DiskType
    /\ faults \in 0 .. MaxFaults /\ cancels \in 0 .. MaxCancels

(* A job's step is one of its kind; only one kind goes on after a failure  *)
(* and tells of it.                                                        *)
Stepwise(j) ==
    /\ j.kind # "syncclose" => j.ok
    /\ j.kind = "open" => j.step \in {"queued", "open"}
    /\ j.kind = "flush" => j.step \in {"queued", "sync", "create", "write", "replace"}
    /\ j.kind = "flushclose" =>
           j.step \in {"queued", "sync", "create", "write", "replace", "close"}
    /\ j.kind = "syncclose" => j.step \in {"queued", "sync", "close"}
    /\ j.kind = "short" => j.step \in {"queued", "create", "write", "replace"}
    /\ j.kind = "finish" => j.step \in {"queued", "stat", "rename", "unlink"}

(* The task awaits this job here.                                          *)
Awaited(j) ==
    /\ j.kind = "open" => pc = "open"
    /\ j.kind = "flush" => pc = "flush" /\ j.fd = fd
    /\ j.kind = "flushclose" => pc \in Flushing
    /\ j.kind = "syncclose" => pc = "final_sync"
    /\ j.kind \in {"short", "finish"} => pc = "after"
    /\ j.cursor = cursor
    /\ j.kind = "finish" => cursor = Length

(* One job at most is awaited; those left behind do not write.             *)
Company ==
    /\ \A j \in jobs :
           /\ Stepwise(j)
           /\ IF j.awaited THEN Awaited(j)
              ELSE cancels > 0 /\ j.step # "queued" /\ j.kind \in {"open", "syncclose"}
    /\ \A j, k \in jobs : j.awaited /\ k.awaited => j = k

Holds(j) == j.kind \in {"flush", "flushclose", "syncclose"}

(* Every job that is going to use a descriptor has one of its own, which   *)
(* is open, and so has a task that streams.                                *)
Paired ==
    /\ \A j \in jobs : Holds(j) => j.fd \in FD /\ j.node # None /\ fds[j.fd] = j.node
    /\ \A j, k \in jobs : Holds(j) /\ Holds(k) /\ j.fd = k.fd => j = k
    /\ pc \in {"stream", "flush"} =>
           /\ fd \in FD /\ part # None /\ fds[fd] = part
           /\ \A j \in jobs : Holds(j) /\ j.fd = fd => j.awaited

(* Without a cancellation every open descriptor is somebody's.             *)
Accounted ==
    cancels = 0 => \A f \in FD : fds[f] # None =>
        (pc = "stream" /\ fd = f) \/ \E j \in jobs : Holds(j) /\ j.fd = f

(* The temporary file is the one that the writer has opened, and it is not *)
(* the control file.                                                       *)
Whole ==
    /\ \A j \in jobs :
           /\ j.step = "write" => tmp # None /\ j.tmp = tmp
           /\ j.step = "replace" => tmp # None /\ content[tmp] = j.cursor
    /\ tmp # None => tmp # ctrl
    /\ CtrlWhole

Has(n) == n > 0 => part # None /\ 0 .. (n - 1) \subseteq good[part]

(* What the task and the checkpoint have counted is in .part.              *)
Backed ==
    /\ (\A j \in jobs : j.step # "unlink") =>
           /\ pc # "idle" => Has(cursor)
           /\ ctrl # None => Has(content[ctrl])
    /\ part # None => part # dest
    /\ DestWhole

Saved(n) == ctrl # None /\ content[ctrl] = n

(* The checkpoint is dirty bytes behind the cursor.                        *)
Owed == dirty < cursor => Saved(cursor - dirty)

(* A job that flushes and closes saves what is owed, and closes after it.  *)
Saving(j) ==
    j.kind = "flushclose" =>
        /\ j.saves <=> dirty > 0
        /\ j.step # "close" => Owed
        /\ j.step = "close" => (cursor > 0 => Saved(cursor))

(* Without a failure nothing that has been received is forgotten.          *)
Behind ==
    /\ outcome = "flushed" => pc = "idle"
    /\ faults = 0 =>
        /\ pc \in {"request", "open", "stream", "flush"} => Owed
        /\ \A j \in jobs : Saving(j)
        /\ outcome = "flushed" => (cursor > 0 => Saved(cursor))

IInv ==
    /\ TypeInv /\ Company /\ Paired /\ Accounted /\ Whole /\ Behind
    /\ ~UnlinkFails => Backed

-----------------------------------------------------------------------------
(* What open and creat give.                                               *)

LEMMA LowestFree ==
    ASSUME TypeInv, Unused # {}
    PROVE  FreeFD \in FD /\ fds[FreeFD] = None
<1>1. Unused \in SUBSET Nat
  BY AsyncAssumption DEF Unused
<1> DEFINE R == {ss \in Nat \X Nat : ss[1] < ss[2]}
<1>2. IsWellFoundedOn(R, Nat)
  BY NatLessThanWellFounded DEF OpToRel
<1>3. PICK n \in Unused : \A k \in Unused : ~(<<k, n>> \in R)
  <2> HIDE DEF R
  <2> QED BY <1>1, <1>2, WFMin
<1>4. ASSUME NEW k \in Unused PROVE n <= k
  <2>1. k \in Nat /\ n \in Nat
    BY <1>1
  <2>2. <<k, n>> \in Nat \X Nat /\ <<k, n>>[1] = k /\ <<k, n>>[2] = n
    BY <2>1
  <2>3. ~(k < n)
    BY <1>3, <2>2
  <2> QED BY <2>1, <2>3
<1>5. FreeFD \in Unused
  BY <1>4 DEF FreeFD
<1> QED BY <1>5 DEF Unused

LEMMA NewInode ==
    ASSUME Spare # {}
    PROVE  /\ FreeInode \in Inode /\ FreeInode \notin {part, dest, ctrl, tmp, None}
           /\ \A f \in FD : fds[f] # FreeInode
<1>1. FreeInode \in Spare
  BY DEF FreeInode
<1> QED BY <1>1, AsyncAssumption DEF Spare, None

-----------------------------------------------------------------------------
(* Jobs.                                                                   *)

Steps == {"queued", "open", "sync", "create", "write", "replace", "close",
          "stat", "rename", "unlink"}
Kinds == {"open", "flush", "flushclose", "syncclose", "short", "finish"}

Same(k, j) ==
    /\ k \in Job
    /\ k.kind = j.kind /\ k.fd = j.fd /\ k.node = j.node /\ k.cursor = j.cursor
    /\ k.saves = j.saves /\ k.awaited = j.awaited

LEMMA Moved ==
    ASSUME NEW j \in Job, NEW s \in Steps
    PROVE  LET k == [j EXCEPT !.step = s]
           IN  Same(k, j) /\ k.step = s /\ k.tmp = j.tmp /\ k.ok = j.ok
BY DEF Job, Steps, Same

LEMMA MovedTmp ==
    ASSUME NEW j \in Job, NEW s \in Steps, NEW t \in Inode \cup {None}
    PROVE  LET k == [j EXCEPT !.step = s, !.tmp = t]
           IN  Same(k, j) /\ k.step = s /\ k.tmp = t /\ k.ok = j.ok
<1> DEFINE k == [j EXCEPT !.step = s, !.tmp = t]
<1>1. k \in Job
  BY DEF Job, Steps
<1>2. /\ k.kind = j.kind /\ k.fd = j.fd /\ k.node = j.node /\ k.cursor = j.cursor
      /\ k.saves = j.saves /\ k.awaited = j.awaited /\ k.ok = j.ok
  BY DEF Job
<1>3. k.step = s /\ k.tmp = t
  BY DEF Job
<1> HIDE DEF k
<1>4. Same(k, j) /\ k.step = s /\ k.tmp = t /\ k.ok = j.ok
  BY <1>1, <1>2, <1>3 DEF Same
<1> QED BY <1>4 DEF k

LEMMA MovedOk ==
    ASSUME NEW j \in Job, NEW s \in Steps
    PROVE  LET k == [j EXCEPT !.step = s, !.ok = FALSE]
           IN  Same(k, j) /\ k.step = s /\ k.tmp = j.tmp
<1> DEFINE k == [j EXCEPT !.step = s, !.ok = FALSE]
<1>1. k \in Job
  BY DEF Job, Steps
<1>2. /\ k.kind = j.kind /\ k.fd = j.fd /\ k.node = j.node /\ k.cursor = j.cursor
      /\ k.saves = j.saves /\ k.awaited = j.awaited
  BY DEF Job
<1>3. k.step = s /\ k.tmp = j.tmp
  BY DEF Job
<1> HIDE DEF k
<1>4. Same(k, j) /\ k.step = s /\ k.tmp = j.tmp
  BY <1>1, <1>2, <1>3 DEF Same
<1> QED BY <1>4 DEF k

LEMMA Orphaned ==
    ASSUME TypeInv, NEW j \in Job, cancels < MaxCancels
    PROVE  LET k == [j EXCEPT !.awaited = FALSE, !.left = cancels + 1]
           IN  /\ k \in Job /\ ~k.awaited
               /\ k.kind = j.kind /\ k.fd = j.fd /\ k.node = j.node /\ k.cursor = j.cursor
               /\ k.saves = j.saves /\ k.step = j.step /\ k.tmp = j.tmp /\ k.ok = j.ok
<1>1. cancels + 1 \in 0 .. MaxCancels
  BY AsyncAssumption DEF TypeInv
<1> QED BY <1>1 DEF Job

LEMMA Submitted ==
    ASSUME TypeInv, NEW kind \in Kinds, NEW f \in FD \cup {None},
           NEW c \in 0 .. Length, NEW d \in 0 .. Length
    PROVE  LET k == Submit(kind, f, c, d)
           IN  /\ k \in Job /\ k.kind = kind /\ k.step = "queued" /\ k.fd = f /\ k.cursor = c
               /\ f \in FD => k.node = fds[f]
               /\ k.saves <=> d > 0
               /\ k.awaited /\ k.ok
<1>1. (IF f = None THEN None ELSE fds[f]) \in Inode \cup {None}
  BY DEF TypeInv, DiskType
<1>2. (d > 0) \in BOOLEAN /\ 0 \in 0 .. MaxCancels
  BY AsyncAssumption
<1>3. f \in FD => f # None
  BY AsyncAssumption DEF None
<1> QED BY <1>1, <1>2, <1>3 DEF Submit, Job, Kinds

-----------------------------------------------------------------------------
(* Types.                                                                  *)

LEMMA InitType == Init => TypeInv
BY AsyncAssumption DEF Init, TypeInv, TaskType, DiskType, PC, Offset, Torn, None

LEMMA AwaitType ==
    ASSUME TypeInv, NEW at \in PC \ {"request", "open"}, NEW kind \in Kinds,
           NEW others \in SUBSET Job, Await(at, kind, others)
    PROVE  TaskType'
<1>1. Submit(kind, fd, cursor, dirty) \in Job
  BY Submitted DEF TypeInv, TaskType
<1> QED BY <1>1 DEF Await, TypeInv, TaskType

LEMMA LeaveType ==
    ASSUME TypeInv, NEW o \in {"complete", "partial", "error", "cancelled", "flushed"}, Leave(o),
           jobs' \subseteq Job
    PROVE  TaskType'
BY AsyncAssumption DEF Leave, TypeInv, TaskType, PC

LEMMA GotoType ==
    ASSUME TypeInv, NEW j \in jobs, NEW k \in Job, Goto(j, k)
    PROVE  TaskType'
BY DEF Goto, TypeInv, TaskType, task

LEMMA DropType ==
    ASSUME TypeInv, NEW j \in jobs, jobs' = jobs \ {j}, UNCHANGED task
    PROVE  TaskType'
BY DEF TypeInv, TaskType, task

LEMMA DoneType ==
    ASSUME TypeInv, NEW j \in jobs, Done(j)
    PROVE  TaskType'
<1> DEFINE rest == jobs \ {j}
<1>1. rest \in SUBSET Job
  BY DEF TypeInv, TaskType
<1>2. CASE ~j.awaited /\ jobs' = rest /\ UNCHANGED task
  BY <1>2, DropType
<1>3. CASE /\ pc = "flush" /\ j.ok /\ pc' = "stream" /\ dirty' = 0 /\ jobs' = rest
           /\ UNCHANGED <<cursor, fd, outcome>>
  BY <1>1, <1>3, AsyncAssumption DEF TypeInv, TaskType, PC
<1>4. CASE Await("raise_flush", "flushclose", rest)
  BY <1>1, <1>4, AwaitType DEF PC, Awaiting, Flushing, Kinds
<1>5. CASE /\ jobs' = rest
           /\ \E o \in {"partial", "flushed", "error", "complete"} : Leave(o)
  BY <1>1, <1>5, LeaveType
<1>6. CASE Await("after", IF cursor < Length THEN "short" ELSE "finish", rest)
  BY <1>1, <1>6, AwaitType DEF PC, Awaiting, Kinds
<1> QED BY <1>2, <1>3, <1>4, <1>5, <1>6 DEF Done

LEMMA StartType ==
    ASSUME TypeInv, Start
    PROVE  TypeInv'
<1>1. (IF ctrl = None \/ content[ctrl] = Torn THEN 0 ELSE content[ctrl]) \in 0 .. Length
  BY AsyncAssumption DEF TypeInv, DiskType, Torn, None
<1> QED BY <1>1, AsyncAssumption
        DEF Start, TypeInv, TaskType, DiskType, PC, data, control, budget

LEMMA Resume206Type ==
    ASSUME TypeInv, Resume206
    PROVE  TypeInv'
<1>1. CASE Await("open", "open", jobs)
  <2>1. Submit("open", fd, cursor, dirty) \in Job
    BY Submitted DEF TypeInv, TaskType, Kinds
  <2> QED BY <1>1, <2>1
          DEF Resume206, Await, TypeInv, TaskType, DiskType, PC, Awaiting, data, control, budget
<1>2. CASE Leave("error") /\ UNCHANGED jobs
  <2>1. TaskType'
    BY <1>2, LeaveType DEF TypeInv, TaskType
  <2> QED BY <2>1 DEF Resume206, TypeInv, DiskType, data, control, budget
<1> QED BY <1>1, <1>2 DEF Resume206

LEMMA Restart200Type ==
    ASSUME TypeInv, Restart200
    PROVE  TypeInv'
<1>1. Submit("open", None, 0, 0) \in Job
  BY Submitted, AsyncAssumption DEF Kinds
<1> QED BY <1>1, AsyncAssumption
        DEF Restart200, TypeInv, TaskType, DiskType, PC, Awaiting, data, control, budget

LEMMA Complete416Type ==
    ASSUME TypeInv, Complete416
    PROVE  TypeInv'
<1>1. TaskType'
  BY AwaitType DEF Complete416, TypeInv, TaskType, PC, Awaiting, Kinds
<1> QED BY <1>1 DEF Complete416, TypeInv, DiskType, data, control, budget

LEMMA ChunkType ==
    ASSUME TypeInv, NEW n \in 1 .. MaxChunk, Chunk(n)
    PROVE  TypeInv'
<1>1. /\ cursor + n \in 0 .. Length /\ dirty + n \in 0 .. Length /\ dirty + n <= cursor + n
      /\ cursor' = cursor + n /\ dirty' = dirty + n
  BY AsyncAssumption DEF Chunk, TypeInv, TaskType
<1>2. good' \in [Inode -> SUBSET Offset]
  <2>1. cursor .. (cursor + n - 1) \subseteq Offset
    BY <1>1, AsyncAssumption DEF Offset, TypeInv, TaskType
  <2> QED BY <2>1 DEF Chunk, TypeInv, DiskType
<1>3. Submit("flush", fd, cursor', dirty') \in Job
  BY <1>1, Submitted DEF TypeInv, TaskType, Kinds
<1>4. pc' \in {"stream", "flush"} /\ jobs' \subseteq Job
  BY <1>3 DEF Chunk, TypeInv, TaskType
<1> QED BY <1>1, <1>2, <1>4 DEF Chunk, TypeInv, TaskType, DiskType, PC, Awaiting, control,
                                    budget

LEMMA BodyEndsType ==
    ASSUME TypeInv, BodyEnds
    PROVE  TypeInv'
<1>1. TaskType'
  BY AwaitType DEF BodyEnds, TypeInv, TaskType, PC, Awaiting, Kinds
<1>2. faults' \in 0 .. MaxFaults /\ cancels' = cancels
  BY AsyncAssumption DEF BodyEnds, Fault, budget, TypeInv
<1> QED BY <1>1, <1>2 DEF BodyEnds, TypeInv, DiskType, data, control

LEMMA BodyFailsType ==
    ASSUME TypeInv, BodyFails
    PROVE  TypeInv'
<1>1. TaskType'
  BY AwaitType DEF BodyFails, TypeInv, TaskType, PC, Awaiting, Flushing, Kinds
<1>2. faults' \in 0 .. MaxFaults /\ cancels' = cancels
  BY AsyncAssumption DEF BodyFails, Fault, TypeInv
<1> QED BY <1>1, <1>2 DEF BodyFails, TypeInv, DiskType, data, control

LEMMA LeftType ==
    ASSUME TypeInv, cancels < MaxCancels
    PROVE  LeftBehind \in SUBSET Job
<1>1. ASSUME NEW j \in jobs
      PROVE  [j EXCEPT !.awaited = FALSE, !.left = cancels + 1] \in Job
  BY Orphaned DEF TypeInv, TaskType
<1> QED BY <1>1 DEF LeftBehind, TypeInv, TaskType

LEMMA CancelType ==
    ASSUME TypeInv, Cancel
    PROVE  TypeInv'
<1>1. LeftBehind \in SUBSET Job
  BY LeftType DEF Cancel
<1>2. CASE Await("cancel_flush", "flushclose", LeftBehind)
  BY <1>1, <1>2, AwaitType, AsyncAssumption
  DEF Cancel, TypeInv, DiskType, PC, Awaiting, Flushing, Kinds, data, control
<1>3. CASE Leave("cancelled") /\ jobs' = LeftBehind
  BY <1>1, <1>3, LeaveType, AsyncAssumption DEF Cancel, TypeInv, DiskType, data, control
<1> QED BY <1>2, <1>3 DEF Cancel

LEMMA BeginType ==
    ASSUME TypeInv, NEW j \in jobs, Begin(j)
    PROVE  TypeInv'
<1>1. First(j) \in Steps
  BY DEF First, Steps, TypeInv, TaskType, Job
<1>2. TaskType'
  BY <1>1, Moved, GotoType DEF Begin, TypeInv, TaskType, Same
<1> QED BY <1>2 DEF Begin, TypeInv, DiskType, data, control, budget

LEMMA OpenType ==
    ASSUME TypeInv, NEW j \in jobs, Open(j)
    PROVE  TypeInv'
<1> DEFINE node == IF part # None THEN part ELSE FreeInode
<1>1. node \in Inode
  BY NewInode DEF Open, TypeInv, DiskType
<1>2. FreeFD \in FD
  BY LowestFree DEF Open
<1>3. TaskType'
  BY <1>2 DEF Open, TypeInv, TaskType, task, PC
<1>4. fds' \in [FD -> Inode \cup {None}] /\ part' \in Inode
  BY <1>1, <1>2 DEF Open, TypeInv, DiskType
<1>5. good' \in [Inode -> SUBSET Offset]
  BY <1>1 DEF Open, TypeInv, DiskType
<1> QED BY <1>3, <1>4, <1>5 DEF Open, TypeInv, DiskType, control, budget

LEMMA SyncType ==
    ASSUME TypeInv, NEW j \in jobs, Sync(j)
    PROVE  TypeInv'
<1>1. (IF j.kind = "syncclose" THEN "close" ELSE "create") \in Steps
  BY DEF Steps
<1>2. TaskType'
  BY <1>1, Moved, GotoType DEF Sync, TypeInv, TaskType, Same
<1> QED BY <1>2 DEF Sync, TypeInv, DiskType, data, control, budget

LEMMA CreateTmpType ==
    ASSUME TypeInv, NEW j \in jobs, CreateTmp(j)
    PROVE  TypeInv'
<1> DEFINE node == IF tmp # None THEN tmp ELSE FreeInode
<1>1. node \in Inode
  BY NewInode DEF CreateTmp, TypeInv, DiskType
<1>2. "write" \in Steps
  BY DEF Steps
<1>3. TaskType'
  BY <1>1, <1>2, MovedTmp, GotoType DEF CreateTmp, TypeInv, TaskType, Same
<1>4. tmp' \in Inode /\ content' \in [Inode -> {Torn} \cup 0 .. Length]
  BY <1>1 DEF CreateTmp, TypeInv, DiskType
<1> QED BY <1>3, <1>4 DEF CreateTmp, TypeInv, DiskType, data, budget

LEMMA WriteTmpType ==
    ASSUME TypeInv, NEW j \in jobs, WriteTmp(j)
    PROVE  TypeInv'
<1>1. "replace" \in Steps
  BY DEF Steps
<1>2. TaskType'
  BY <1>1, MovedTmp, GotoType DEF WriteTmp, TypeInv, TaskType, Same
<1>3. content' \in [Inode -> {Torn} \cup 0 .. Length]
  BY DEF WriteTmp, TypeInv, DiskType, TaskType, Job
<1> QED BY <1>2, <1>3 DEF WriteTmp, TypeInv, DiskType, data, budget

LEMMA ForgetType ==
    ASSUME NEW S, NEW f \in [Inode -> S], NEW i \in Inode \cup {None}, NEW e \in S, NEW inUse
    PROVE  Forget(f, i, e, inUse) \in [Inode -> S]
BY DEF Forget

LEMMA ReplaceType ==
    ASSUME TypeInv, NEW j \in jobs, Replace(j)
    PROVE  TypeInv'
<1>1. "close" \in Steps
  BY DEF Steps
<1>2. TaskType'
  BY <1>1, Moved, GotoType, DoneType DEF Replace, TypeInv, TaskType, Same
<1>3. content' \in [Inode -> {Torn} \cup 0 .. Length]
  BY ForgetType DEF Replace, TypeInv, DiskType
<1> QED BY <1>2, <1>3 DEF Replace, TypeInv, DiskType, data, budget

LEMMA CloseType ==
    ASSUME TypeInv, NEW j \in jobs, Close(j)
    PROVE  TypeInv'
<1>1. TaskType'
  BY DoneType DEF Close
<1> QED BY <1>1 DEF Close, TypeInv, DiskType, data, control, budget

LEMMA StatType ==
    ASSUME TypeInv, NEW j \in jobs, Stat(j)
    PROVE  TypeInv'
<1>1. "rename" \in Steps
  BY DEF Steps
<1>2. TaskType'
  BY <1>1, Moved, GotoType DEF Stat, TypeInv, TaskType, Same
<1> QED BY <1>2 DEF Stat, TypeInv, DiskType, data, control, budget

LEMMA RenameType ==
    ASSUME TypeInv, NEW j \in jobs, Rename(j)
    PROVE  TypeInv'
<1>1. "unlink" \in Steps
  BY DEF Steps
<1>2. TaskType'
  BY <1>1, Moved, GotoType DEF Rename, TypeInv, TaskType, Same
<1>3. good' \in [Inode -> SUBSET Offset]
  BY ForgetType DEF Rename, TypeInv, DiskType
<1> QED BY <1>2, <1>3 DEF Rename, TypeInv, DiskType, control, budget

LEMMA UnlinkType ==
    ASSUME TypeInv, NEW j \in jobs, Unlink(j)
    PROVE  TypeInv'
<1>1. TaskType'
  BY DoneType DEF Unlink
<1>2. content' \in [Inode -> {Torn} \cup 0 .. Length]
  BY ForgetType DEF Unlink, TypeInv, DiskType
<1> QED BY <1>1, <1>2 DEF Unlink, TypeInv, DiskType, data, budget

LEMMA FailsType ==
    ASSUME TypeInv, NEW j \in jobs, Fails(j)
    PROVE  TypeInv'
<1>1. faults' \in 0 .. MaxFaults /\ cancels' = cancels
  BY AsyncAssumption DEF Fails, Fault, budget, TypeInv
<1>2. TaskType'
  <2>1. CASE Goto(j, [j EXCEPT !.step = IF j.step = "sync" THEN "create" ELSE "close",
                               !.tmp = None])
    <3>1. (IF j.step = "sync" THEN "create" ELSE "close") \in Steps
      BY DEF Steps
    <3> QED BY <2>1, <3>1, MovedTmp, GotoType DEF TypeInv, TaskType, Same
  <2>2. CASE Goto(j, [j EXCEPT !.step = "close", !.ok = FALSE])
    <3>1. "close" \in Steps
      BY DEF Steps
    <3> QED BY <2>2, <3>1, MovedOk, GotoType DEF TypeInv, TaskType, Same
  <2>3. CASE jobs' = jobs \ {j} /\ UNCHANGED task
    BY <2>3, DropType
  <2>4. CASE Await("raise_flush", "flushclose", jobs \ {j})
    BY <2>4, AwaitType DEF TypeInv, TaskType, PC, Awaiting, Flushing, Kinds
  <2>5. CASE Leave("error") /\ jobs' = jobs \ {j}
    BY <2>5, LeaveType DEF TypeInv, TaskType
  <2> QED BY <2>1, <2>2, <2>3, <2>4, <2>5 DEF Fails
<1> QED BY <1>1, <1>2 DEF Fails, TypeInv, DiskType, data, control

LEMMA StepType == TypeInv /\ [Next]_vars => TypeInv'
<1> SUFFICES ASSUME TypeInv, [Next]_vars PROVE TypeInv'
  OBVIOUS
<1>1. CASE UNCHANGED vars
  BY <1>1 DEF vars, task, data, control, budget, TypeInv, TaskType, DiskType
<1>2. CASE Task
  BY <1>2, StartType, Resume206Type, Restart200Type, Complete416Type, ChunkType, BodyEndsType
  DEF Task
<1>3. CASE \E j \in jobs : Works(j)
  BY <1>3, BeginType, OpenType, SyncType, CreateTmpType, WriteTmpType, ReplaceType, CloseType,
     StatType, RenameType, UnlinkType, FailsType
  DEF Works
<1> QED BY <1>1, <1>2, <1>3, BodyFailsType, CancelType DEF Next

(* The task, the jobs it has submitted, the descriptors and the inodes     *)
(* keep their types, wherever it is cancelled, for every size and number.  *)
THEOREM TypeCorrect == Spec => []TypeOK
<1>1. TypeInv => TypeOK
  BY DEF TypeInv, TaskType, DiskType, TypeOK
<1> QED BY <1>1, InitType, StepType, PTL DEF Spec

-----------------------------------------------------------------------------
(* Who is awaited.                                                         *)

LEMMA KindsOf ==
    ASSUME TypeInv, NEW j \in jobs
    PROVE  /\ j.kind \in Kinds /\ j.step \in Steps /\ j \in Job
           /\ j.awaited \in BOOLEAN /\ j.ok \in BOOLEAN /\ j.saves \in BOOLEAN
           /\ j.cursor \in 0 .. Length
BY DEF TypeInv, TaskType, Job, Kinds, Steps

Orphan(j) ==
    /\ ~j.awaited /\ j.step # "queued" /\ j.kind \in {"open", "syncclose"} /\ Stepwise(j)

LEMMA AllOrphans ==
    ASSUME TypeInv, Company, pc \notin Awaiting
    PROVE  \A j \in jobs : Orphan(j) /\ cancels > 0
BY KindsOf DEF Company, Awaited, Awaiting, Flushing, Kinds, Orphan

LEMMA OthersOrphans ==
    ASSUME TypeInv, Company, NEW j \in jobs, j.awaited
    PROVE  \A k \in jobs \ {j} : Orphan(k) /\ cancels > 0
BY KindsOf DEF Company, Orphan

(* A task that submits a job is accompanied by orphans only.               *)
LEMMA JoinCompany ==
    ASSUME NEW others, NEW s, jobs' = others \cup {s},
           \A k \in others : Orphan(k) /\ cancels' > 0,
           s.awaited, Stepwise(s), Awaited(s)'
    PROVE  Company'
<1>1. \A k \in jobs' : k = s \/ (Orphan(k) /\ cancels' > 0)
  OBVIOUS
<1>2. Awaited(s)' /\ Stepwise(s) /\ s.awaited
  OBVIOUS
<1> HIDE DEF Awaited, Stepwise
<1>3. \A k \in jobs' :
          /\ Stepwise(k)
          /\ IF k.awaited THEN Awaited(k)'
             ELSE cancels' > 0 /\ k.step # "queued" /\ k.kind \in {"open", "syncclose"}
  BY <1>1, <1>2 DEF Orphan
<1>4. \A j, k \in jobs' : j.awaited /\ k.awaited => j = k
  BY <1>1 DEF Orphan
<1> QED BY <1>3, <1>4 DEF Company

LEMMA AwaitCompany ==
    ASSUME TypeInv, NEW at, NEW kind \in Kinds, NEW others, Await(at, kind, others),
           \A k \in others : Orphan(k) /\ cancels' > 0,
           kind = "open" => at = "open",
           kind = "flush" => at = "flush",
           kind = "flushclose" => at \in Flushing,
           kind = "syncclose" => at = "final_sync",
           kind \in {"short", "finish"} => at = "after",
           kind = "finish" => cursor = Length
    PROVE  Company'
<1>0. PICK s : s = Submit(kind, fd, cursor, dirty)
  OBVIOUS
<1>1. /\ s.kind = kind /\ s.step = "queued" /\ s.fd = fd /\ s.cursor = cursor
      /\ s.awaited /\ s.ok
  BY <1>0, Submitted DEF TypeInv, TaskType
<1>2. pc' = at /\ fd' = fd /\ cursor' = cursor /\ jobs' = others \cup {s}
  BY <1>0 DEF Await
<1>3. Stepwise(s) /\ Awaited(s)'
  BY <1>1, <1>2 DEF Stepwise, Awaited
<1> QED BY <1>1, <1>2, <1>3, JoinCompany

LEMMA OrphansCompany ==
    ASSUME \A k \in jobs' : Orphan(k) /\ cancels' > 0
    PROVE  Company'
BY DEF Company, Orphan

LEMMA GotoCompany ==
    ASSUME TypeInv, Company, NEW j \in jobs, NEW k, Goto(j, k), Same(k, j),
           k.step # "queued", Stepwise(k), UNCHANGED cancels
    PROVE  Company'
<1>1. jobs' = (jobs \ {j}) \cup {k} /\ pc' = pc /\ fd' = fd /\ cursor' = cursor
  BY DEF Goto, task
<1>2. /\ k.kind = j.kind /\ k.awaited = j.awaited /\ k.cursor = j.cursor /\ k.fd = j.fd
  BY DEF Same
<1>3. ASSUME NEW i \in jobs'
      PROVE  /\ Stepwise(i)
             /\ IF i.awaited THEN Awaited(i)'
                ELSE cancels' > 0 /\ i.step # "queued" /\ i.kind \in {"open", "syncclose"}
  <2>1. CASE i = k
    BY <1>1, <1>2, <2>1 DEF Company, Awaited
  <2>2. CASE i \in jobs
    BY <1>1, <2>2 DEF Company, Awaited
  <2> QED BY <1>1, <2>1, <2>2
<1>4. \A i, h \in jobs' : i.awaited /\ h.awaited => i = h
  BY <1>1, <1>2 DEF Company
<1> QED BY <1>3, <1>4 DEF Company

LEMMA DropCompany ==
    ASSUME TypeInv, Company, NEW j \in jobs, jobs' = jobs \ {j},
           UNCHANGED <<pc, fd, cursor, cancels>>
    PROVE  Company'
BY DEF Company, Awaited

LEMMA DoneCompany ==
    ASSUME TypeInv, Company, NEW j \in jobs, Done(j), UNCHANGED cancels
    PROVE  Company'
<1> DEFINE rest == jobs \ {j}
<1>1. CASE ~j.awaited
  BY <1>1, DropCompany DEF Done, task
<1>2. CASE j.awaited
  <2>1. \A k \in rest : Orphan(k) /\ cancels' > 0
    BY <1>2, OthersOrphans
  <2>2. CASE jobs' = rest
    BY <2>1, <2>2, OrphansCompany
  <2>3. CASE Await("raise_flush", "flushclose", rest)
    BY <2>1, <2>3, AwaitCompany DEF Kinds, Flushing
  <2>4. CASE Await("after", IF cursor < Length THEN "short" ELSE "finish", rest)
    <3>1. ~(cursor < Length) => cursor = Length
      BY AsyncAssumption DEF TypeInv, TaskType
    <3> QED BY <2>1, <2>4, <3>1, AwaitCompany DEF Kinds
  <2> QED BY <1>2, <2>2, <2>3, <2>4 DEF Done
<1> QED BY <1>1, <1>2, KindsOf

LEMMA TaskCompany ==
    ASSUME TypeInv, Company, Start \/ Resume206 \/ Complete416 \/ BodyEnds \/ BodyFails
    PROVE  Company'
<1>1. /\ \A k \in jobs : Orphan(k) /\ cancels > 0
      /\ cancels' = cancels
  <2>1. pc \in {"idle", "request", "stream"}
    BY DEF Start, Resume206, Complete416, BodyEnds, BodyFails
  <2> QED BY <2>1, AllOrphans
          DEF Awaiting, Flushing, Start, Resume206, Complete416, BodyEnds, BodyFails, budget, Fault
<1>2. CASE Start
  BY <1>1, <1>2, OrphansCompany DEF Start
<1>3. CASE Resume206
  BY <1>1, <1>3, OrphansCompany, AwaitCompany DEF Resume206, Kinds
<1>4. CASE Complete416
  BY <1>1, <1>4, AwaitCompany DEF Complete416, Kinds
<1>5. CASE BodyEnds
  BY <1>1, <1>5, AwaitCompany DEF BodyEnds, Kinds
<1>6. CASE BodyFails
  BY <1>1, <1>6, AwaitCompany DEF BodyFails, Kinds, Flushing
<1> QED BY <1>2, <1>3, <1>4, <1>5, <1>6

LEMMA Restart200Company ==
    ASSUME TypeInv, Company, Restart200
    PROVE  Company'
<1>0. PICK s : s = Submit("open", None, 0, 0)
  OBVIOUS
<1>1. \A k \in jobs : Orphan(k) /\ cancels > 0
  BY AllOrphans DEF Restart200, Awaiting, Flushing
<1>2. /\ s.kind = "open" /\ s.step = "queued" /\ s.cursor = 0 /\ s.awaited /\ s.ok
  <2>1. 0 \in 0 .. Length
    BY AsyncAssumption
  <2> QED BY <1>0, <2>1, Submitted DEF Kinds
<1>3. jobs' = jobs \cup {s} /\ pc' = "open" /\ cursor' = 0 /\ cancels' = cancels
  BY <1>0 DEF Restart200, budget
<1>4. Stepwise(s) /\ Awaited(s)'
  BY <1>2, <1>3 DEF Stepwise, Awaited
<1> QED BY <1>1, <1>2, <1>3, <1>4, JoinCompany

LEMMA ChunkCompany ==
    ASSUME TypeInv, Company, NEW n \in 1 .. MaxChunk, Chunk(n)
    PROVE  Company'
<1>0. PICK s : s = Submit("flush", fd, cursor', dirty')
  OBVIOUS
<1>1. \A k \in jobs : Orphan(k) /\ cancels > 0
  BY AllOrphans DEF Chunk, Awaiting, Flushing
<1>2. cancels' = cancels /\ fd' = fd
  BY DEF Chunk, budget
<1>3. CASE UNCHANGED <<pc, jobs>>
  BY <1>1, <1>2, <1>3, OrphansCompany
<1>4. CASE pc' = "flush" /\ jobs' = jobs \cup {s}
  <2>1. cursor' \in 0 .. Length /\ dirty' \in 0 .. Length
    BY ChunkType DEF TypeInv, TaskType
  <2>2. /\ s.kind = "flush" /\ s.step = "queued" /\ s.fd = fd /\ s.cursor = cursor'
        /\ s.awaited /\ s.ok
    BY <1>0, <2>1, Submitted DEF Kinds, TypeInv, TaskType
  <2>3. Stepwise(s) /\ Awaited(s)'
    BY <1>2, <1>4, <2>2 DEF Stepwise, Awaited
  <2> QED BY <1>1, <1>2, <1>4, <2>2, <2>3, JoinCompany
<1> QED BY <1>0, <1>3, <1>4 DEF Chunk

(* Cancelled at an await of Gentle, a task leaves only jobs that open, or  *)
(* that sync and close.                                                    *)
LEMMA LeftOrphans ==
    ASSUME Gentle, TypeInv, Company, Cancel
    PROVE  \A k \in LeftBehind : Orphan(k) /\ cancels' > 0
<1>1. pc \in {"request", "open", "stream", "final_sync"} /\ cancels' > 0
  BY AsyncAssumption DEF Gentle, Cancel, TypeInv
<1>2. ASSUME NEW j \in jobs, j.awaited, j.step # "queued"
      PROVE  Orphan([j EXCEPT !.awaited = FALSE, !.left = cancels + 1])
  <2>1. j.kind \in {"open", "syncclose"} /\ Stepwise(j)
    BY <1>1, <1>2, KindsOf DEF Company, Awaited, Flushing, Kinds
  <2> DEFINE k == [j EXCEPT !.awaited = FALSE, !.left = cancels + 1]
  <2>2. /\ ~k.awaited /\ k.kind = j.kind /\ k.step = j.step /\ k.ok = j.ok
    BY KindsOf, Orphaned DEF Cancel
  <2> HIDE DEF k
  <2>3. Orphan(k)
    BY <1>2, <2>1, <2>2 DEF Orphan, Stepwise
  <2> QED BY <2>3 DEF k
<1>3. ASSUME NEW j \in jobs, ~j.awaited PROVE Orphan(j)
  BY <1>3 DEF Company, Orphan
<1> QED BY <1>1, <1>2, <1>3 DEF LeftBehind

LEMMA CancelCompany ==
    ASSUME Gentle, TypeInv, Company, Cancel
    PROVE  Company'
<1>1. \A k \in LeftBehind : Orphan(k) /\ cancels' > 0
  BY LeftOrphans
<1>2. CASE Await("cancel_flush", "flushclose", LeftBehind)
  BY <1>1, <1>2, AwaitCompany DEF Kinds, Flushing
<1>3. CASE jobs' = LeftBehind
  BY <1>1, <1>3, OrphansCompany
<1> QED BY <1>2, <1>3 DEF Cancel

LEMMA BeginCompany ==
    ASSUME TypeInv, Company, NEW j \in jobs, Begin(j)
    PROVE  Company'
<1>1. PICK k : k = [j EXCEPT !.step = First(j)]
  OBVIOUS
<1>2. First(j) \in Steps
  BY KindsOf DEF First, Steps, Kinds
<1>3. Same(k, j) /\ k.step = First(j) /\ k.ok = j.ok
  BY <1>1, <1>2, Moved, KindsOf
<1>4. First(j) # "queued" /\ Stepwise(k)
  BY <1>3, KindsOf DEF First, Kinds, Same, Stepwise, Company
<1> QED BY <1>1, <1>3, <1>4, GotoCompany DEF Begin, budget

LEMMA SyncCompany ==
    ASSUME TypeInv, Company, NEW j \in jobs, Sync(j)
    PROVE  Company'
<1> DEFINE s == IF j.kind = "syncclose" THEN "close" ELSE "create"
<1>1. PICK k : k = [j EXCEPT !.step = s]
  OBVIOUS
<1>2. Same(k, j) /\ k.step = s /\ k.ok = j.ok
  <2>1. s \in Steps
    BY DEF Steps
  <2> HIDE DEF s
  <2> QED BY <1>1, <2>1, Moved, KindsOf
<1>3. Stepwise(k)
  BY <1>2, KindsOf DEF Kinds, Same, Stepwise, Company, Sync
<1>4. Goto(j, k) /\ k.step # "queued" /\ UNCHANGED cancels
  BY <1>1, <1>2 DEF Sync, budget
<1> HIDE DEF s
<1> QED BY <1>2, <1>3, <1>4, GotoCompany

LEMMA CreateTmpCompany ==
    ASSUME TypeInv, Company, NEW j \in jobs, CreateTmp(j)
    PROVE  Company'
<1> DEFINE node == IF tmp # None THEN tmp ELSE FreeInode
<1>1. PICK k : k = [j EXCEPT !.step = "write", !.tmp = node]
  OBVIOUS
<1>2. node \in Inode
  BY NewInode DEF CreateTmp, TypeInv, DiskType
<1>3. Same(k, j) /\ k.step = "write" /\ k.ok = j.ok
  <2>1. "write" \in Steps
    BY DEF Steps
  <2>2. j \in Job /\ node \in Inode \cup {None}
    BY <1>2, KindsOf
  <2> HIDE DEF node
  <2> QED BY <1>1, <2>1, <2>2 DEF Job, Steps, Same
<1>4. Stepwise(k)
  BY <1>3, KindsOf DEF Kinds, Same, Stepwise, Company, CreateTmp
<1> QED BY <1>1, <1>3, <1>4, GotoCompany DEF CreateTmp, budget

LEMMA WriteTmpCompany ==
    ASSUME TypeInv, Company, NEW j \in jobs, WriteTmp(j)
    PROVE  Company'
<1>1. PICK k : k = [j EXCEPT !.step = "replace", !.tmp = None]
  OBVIOUS
<1>2. Same(k, j) /\ k.step = "replace" /\ k.ok = j.ok
  <2>1. "replace" \in Steps
    BY DEF Steps
  <2>2. j \in Job /\ None \in Inode \cup {None}
    BY KindsOf
  <2> QED BY <1>1, <2>1, <2>2 DEF Job, Steps, Same
<1>3. Stepwise(k)
  BY <1>2, KindsOf DEF Kinds, Same, Stepwise, Company, WriteTmp
<1> QED BY <1>1, <1>2, <1>3, GotoCompany DEF WriteTmp, budget

LEMMA ReplaceCompany ==
    ASSUME TypeInv, Company, NEW j \in jobs, Replace(j)
    PROVE  Company'
<1>1. CASE j.kind = "flushclose"
  <2>1. PICK k : k = [j EXCEPT !.step = "close"]
    OBVIOUS
  <2>2. Same(k, j) /\ k.step = "close" /\ k.ok = j.ok
    <3>1. "close" \in Steps
      BY DEF Steps
    <3> QED BY <2>1, <3>1, Moved, KindsOf
  <2>3. Stepwise(k)
    BY <1>1, <2>2, KindsOf DEF Same, Stepwise, Company
  <2> QED BY <1>1, <2>1, <2>2, <2>3, GotoCompany DEF Replace, budget
<1>2. CASE j.kind # "flushclose"
  BY <1>2, DoneCompany DEF Replace, budget
<1> QED BY <1>1, <1>2

LEMMA StatCompany ==
    ASSUME TypeInv, Company, NEW j \in jobs, Stat(j)
    PROVE  Company'
<1>1. PICK k : k = [j EXCEPT !.step = "rename"]
  OBVIOUS
<1>2. Same(k, j) /\ k.step = "rename" /\ k.ok = j.ok
  BY <1>1, Moved, KindsOf DEF Steps
<1>3. Stepwise(k)
  BY <1>2, KindsOf DEF Kinds, Same, Stepwise, Company, Stat
<1> QED BY <1>1, <1>2, <1>3, GotoCompany DEF Stat, budget

LEMMA RenameCompany ==
    ASSUME TypeInv, Company, NEW j \in jobs, Rename(j)
    PROVE  Company'
<1>1. PICK k : k = [j EXCEPT !.step = "unlink"]
  OBVIOUS
<1>2. Same(k, j) /\ k.step = "unlink" /\ k.ok = j.ok
  BY <1>1, Moved, KindsOf DEF Steps
<1>3. Stepwise(k)
  BY <1>2, KindsOf DEF Kinds, Same, Stepwise, Company, Rename
<1> QED BY <1>1, <1>2, <1>3, GotoCompany DEF Rename, budget

LEMMA OpenCompany ==
    ASSUME TypeInv, Company, NEW j \in jobs, Open(j)
    PROVE  Company'
<1>1. CASE j.awaited
  BY <1>1, OthersOrphans, OrphansCompany DEF Open, budget
<1>2. CASE ~j.awaited
  BY <1>2, DropCompany DEF Open, budget, task
<1> QED BY <1>1, <1>2

(* A job that fails either goes on to its close or is gone.                *)
LEMMA FailsTo ==
    ASSUME TypeInv, Company, NEW j \in jobs, Fails(j)
    PROVE  \/ j.kind = "flushclose" /\ \E k :
                  /\ Goto(j, k) /\ Same(k, j) /\ k.tmp = None /\ k.ok
                  /\ k.step = IF j.step = "sync" THEN "create" ELSE "close"
           \/ j.kind = "syncclose" /\ \E k :
                  Goto(j, k) /\ Same(k, j) /\ k.step = "close" /\ k.tmp = j.tmp
           \/ ~Holds(j) /\ ~j.awaited /\ jobs' = jobs \ {j} /\ UNCHANGED task
           \/ /\ j.awaited /\ j.kind = "flush" /\ pc = "flush"
              /\ Await("raise_flush", "flushclose", jobs \ {j})
           \/ ~Holds(j) /\ j.awaited /\ pc # "flush" /\ Leave("error") /\ jobs' = jobs \ {j}
<1>1. CASE j.kind = "flushclose"
  <2> DEFINE s == IF j.step = "sync" THEN "create" ELSE "close"
             k == [j EXCEPT !.step = s, !.tmp = None]
  <2>1. Same(k, j) /\ k.step = s /\ k.ok = j.ok /\ k.tmp = None
    <3>1. s \in Steps /\ None \in Inode \cup {None}
      BY DEF Steps
    <3>2. j \in Job
      BY KindsOf
    <3> HIDE DEF s
    <3> QED BY <3>1, <3>2 DEF Job, Steps, Same
  <2>2. Goto(j, k) /\ j.ok
    BY <1>1 DEF Fails, Company, Stepwise
  <2> HIDE DEF k
  <2> QED BY <1>1, <2>1, <2>2
<1>2. CASE j.kind = "syncclose"
  <2> DEFINE k == [j EXCEPT !.step = "close", !.ok = FALSE]
  <2>1. Same(k, j) /\ k.step = "close" /\ k.tmp = j.tmp
    BY MovedOk, KindsOf DEF Steps
  <2>2. Goto(j, k)
    BY <1>2 DEF Fails
  <2> HIDE DEF k
  <2> QED BY <1>2, <2>1, <2>2
<1>3. CASE ~j.awaited /\ ~(j.kind \in {"flushclose", "syncclose"})
  BY <1>3, KindsOf DEF Fails, Holds, Company
<1>4. CASE j.awaited /\ ~(j.kind \in {"flushclose", "syncclose"})
  BY <1>4, KindsOf DEF Fails, Holds, Company, Awaited, Kinds
<1> QED BY <1>1, <1>2, <1>3, <1>4, KindsOf

LEMMA FailsCompany ==
    ASSUME TypeInv, Company, NEW j \in jobs, Fails(j)
    PROVE  Company'
<1>0. cancels' = cancels
  BY DEF Fails, Fault, budget
<1>1. ASSUME NEW k, j.kind = "flushclose", Goto(j, k), Same(k, j), k.ok,
             k.step = IF j.step = "sync" THEN "create" ELSE "close"
      PROVE  Company'
  <2>1. Stepwise(k) /\ k.step # "queued"
    BY <1>1 DEF Stepwise, Same
  <2> QED BY <1>0, <1>1, <2>1, GotoCompany
<1>2. ASSUME NEW k, j.kind = "syncclose", Goto(j, k), Same(k, j), k.step = "close"
      PROVE  Company'
  <2>1. Stepwise(k)
    BY <1>2 DEF Stepwise, Same
  <2> QED BY <1>0, <1>2, <2>1, GotoCompany
<1>3. CASE ~j.awaited /\ jobs' = jobs \ {j} /\ UNCHANGED task
  BY <1>0, <1>3, DropCompany DEF task
<1>4. CASE j.awaited /\ Await("raise_flush", "flushclose", jobs \ {j})
  <2>1. \A k \in jobs \ {j} : Orphan(k) /\ cancels' > 0
    BY <1>0, <1>4, OthersOrphans
  <2> QED BY <1>4, <2>1, AwaitCompany DEF Kinds, Flushing
<1>5. CASE j.awaited /\ jobs' = jobs \ {j}
  BY <1>0, <1>5, OthersOrphans, OrphansCompany
<1> QED BY <1>1, <1>2, <1>3, <1>4, <1>5, FailsTo

LEMMA StepCompany ==
    ASSUME Gentle, TypeInv, Company, [Next]_vars
    PROVE  Company'
<1>1. CASE UNCHANGED vars
  BY <1>1 DEF vars, task, budget, Company, Awaited
<1>2. CASE Task \/ BodyFails
  BY <1>2, TaskCompany, Restart200Company, ChunkCompany DEF Task
<1>3. ASSUME NEW j \in jobs, Works(j) PROVE Company'
  BY <1>3, BeginCompany, OpenCompany, SyncCompany, CreateTmpCompany, WriteTmpCompany,
     ReplaceCompany, StatCompany, RenameCompany, FailsCompany, DoneCompany
  DEF Works, Close, Unlink, budget
<1> QED BY <1>1, <1>2, <1>3, CancelCompany DEF Next

-----------------------------------------------------------------------------
(* Who holds which descriptor.                                             *)

Own(s) == s.fd \in FD /\ s.node # None /\ fds[s.fd] = s.node

Streams ==
    pc \in {"stream", "flush"} =>
        /\ fd \in FD /\ part # None /\ fds[fd] = part
        /\ \A j \in jobs : Holds(j) /\ j.fd = fd => j.awaited

LEMMA JoinPaired ==
    ASSUME Paired, NEW others \in SUBSET jobs, NEW s, jobs' = others \cup {s},
           \A k \in others : Holds(k) => fds'[k.fd] = fds[k.fd],
           Holds(s) => /\ s.fd \in FD /\ s.node # None /\ fds'[s.fd] = s.node
                       /\ \A k \in others : Holds(k) => k.fd # s.fd,
           Streams'
    PROVE  Paired'
<1>1. \A k \in jobs' : Holds(k) => k.fd \in FD /\ k.node # None /\ fds'[k.fd] = k.node
  BY DEF Paired
<1>2. \A j, k \in jobs' : Holds(j) /\ Holds(k) /\ j.fd = k.fd => j = k
  BY DEF Paired
<1> QED BY <1>1, <1>2 DEF Paired, Streams

LEMMA SubsetPaired ==
    ASSUME Paired, jobs' \subseteq jobs,
           \A k \in jobs' : Holds(k) => fds'[k.fd] = fds[k.fd],
           Streams'
    PROVE  Paired'
BY DEF Paired, Streams

LEMMA GotoPaired ==
    ASSUME TypeInv, Paired, NEW j \in jobs, NEW k, Goto(j, k), Same(k, j),
           UNCHANGED fds, pc \in {"stream", "flush"} => part' = part
    PROVE  Paired'
<1>1. jobs' = (jobs \ {j}) \cup {k} /\ pc' = pc /\ fd' = fd
  BY DEF Goto, task
<1>2. (Holds(k) <=> Holds(j)) /\ k.fd = j.fd /\ k.node = j.node /\ k.awaited = j.awaited
  BY DEF Same, Holds
<1>3. Streams'
  BY <1>1, <1>2 DEF Paired, Streams
<1>4. \A i \in jobs \ {j} : Holds(i) /\ Holds(j) => i.fd # j.fd
  BY DEF Paired
<1> HIDE DEF Same
<1> QED BY <1>1, <1>2, <1>3, <1>4, JoinPaired DEF Paired

LEMMA AwaitPaired ==
    ASSUME TypeInv, Paired, NEW at, NEW kind \in Kinds \ {"flush"}, NEW others \in SUBSET jobs,
           Await(at, kind, others), at \notin {"stream", "flush"},
           \A k \in others : Holds(k) => fds'[k.fd] = fds[k.fd],
           kind \in {"flushclose", "syncclose"} =>
               /\ fds' = fds /\ fd \in FD /\ fds[fd] # None
               /\ \A k \in others : Holds(k) => k.fd # fd
    PROVE  Paired'
<1>0. PICK s : s = Submit(kind, fd, cursor, dirty)
  OBVIOUS
<1>1. s.kind = kind /\ s.fd = fd /\ (fd \in FD => s.node = fds[fd])
  BY <1>0, Submitted DEF TypeInv, TaskType
<1>2. jobs' = others \cup {s} /\ pc' = at
  BY <1>0 DEF Await
<1>3. Streams'
  BY <1>2 DEF Streams
<1>4. Holds(s) => kind \in {"flushclose", "syncclose"}
  BY <1>1 DEF Holds
<1> QED BY <1>1, <1>2, <1>3, <1>4, JoinPaired

LEMMA StreamAlone ==
    ASSUME TypeInv, Company, Paired, pc = "stream"
    PROVE  fd \in FD /\ fds[fd] # None /\ \A k \in jobs : Holds(k) => k.fd # fd
BY AllOrphans DEF Paired, Orphan, Awaiting, Flushing

LEMMA FlushAlone ==
    ASSUME TypeInv, Company, Paired, pc = "flush", NEW j \in jobs, j.awaited
    PROVE  fd \in FD /\ fds[fd] # None /\ \A k \in jobs \ {j} : Holds(k) => k.fd # fd
BY OthersOrphans DEF Paired, Orphan

LEMMA DonePaired ==
    ASSUME TypeInv, Company, Paired, NEW j \in jobs, j.kind # "open", Done(j), UNCHANGED part,
           \A k \in jobs \ {j} : Holds(k) => fds'[k.fd] = fds[k.fd],
           pc \in {"stream", "flush"} => fds'[fd] = fds[fd]
    PROVE  Paired'
<1> DEFINE rest == jobs \ {j}
<1>1. CASE ~j.awaited
  <2>1. jobs' = rest /\ pc' = pc /\ fd' = fd
    BY <1>1 DEF Done, task
  <2>2. Streams'
    BY <2>1 DEF Paired, Streams
  <2> QED BY <2>1, <2>2, SubsetPaired
<1>2. CASE j.awaited
  <2>1. CASE pc = "flush" /\ pc' = "stream" /\ jobs' = rest /\ UNCHANGED fd
    <3>1. Streams'
      BY <2>1 DEF Paired, Streams
    <3> QED BY <2>1, <3>1, SubsetPaired
  <2>2. CASE pc = "flush" /\ ~j.ok
    BY <1>2, <2>2, KindsOf DEF Company, Awaited, Stepwise, Kinds, Flushing
  <2>3. CASE pc' = "idle" /\ jobs' = rest
    <3>1. Streams'
      BY <2>3 DEF Streams
    <3> QED BY <2>3, <3>1, SubsetPaired
  <2>4. CASE Await("after", IF cursor < Length THEN "short" ELSE "finish", rest)
    BY <2>4, AwaitPaired DEF Kinds
  <2> QED BY <1>2, <2>1, <2>2, <2>3, <2>4 DEF Done, Leave
<1> QED BY <1>1, <1>2, KindsOf

LEMMA StartPaired ==
    ASSUME TypeInv, Company, Paired, Start \/ Resume206 \/ Complete416
    PROVE  Paired'
<1>1. UNCHANGED fds
  BY DEF Start, Resume206, Complete416
<1>2. CASE Start
  BY <1>1, <1>2, SubsetPaired DEF Start, Streams
<1>3. CASE Resume206
  <2>1. CASE Await("open", "open", jobs)
    BY <1>1, <2>1, AwaitPaired DEF Kinds
  <2>2. CASE Leave("error") /\ UNCHANGED jobs
    BY <1>1, <2>2, SubsetPaired DEF Leave, Streams
  <2> QED BY <1>3, <2>1, <2>2 DEF Resume206
<1>4. CASE Complete416
  BY <1>1, <1>4, AwaitPaired DEF Complete416, Kinds
<1> QED BY <1>2, <1>3, <1>4

LEMMA Restart200Paired ==
    ASSUME TypeInv, Paired, Restart200
    PROVE  Paired'
<1>0. PICK s : s = Submit("open", None, 0, 0)
  OBVIOUS
<1>1. ~Holds(s)
  BY <1>0 DEF Submit, Holds
<1>2. jobs' = jobs \cup {s} /\ fds' = fds /\ Streams'
  BY <1>0 DEF Restart200, Streams
<1> QED BY <1>1, <1>2, JoinPaired

LEMMA ChunkPaired ==
    ASSUME TypeInv, Company, Paired, NEW n \in 1 .. MaxChunk, Chunk(n)
    PROVE  Paired'
<1>0. PICK s : s = Submit("flush", fd, cursor', dirty')
  OBVIOUS
<1>1. /\ UNCHANGED <<fds, part, fd>> /\ fd \in FD /\ part # None /\ fds[fd] = part
      /\ pc = "stream"
  BY DEF Chunk, Paired
<1>2. CASE UNCHANGED <<pc, jobs>>
  BY <1>1, <1>2 DEF Paired
<1>3. CASE pc' = "flush" /\ jobs' = jobs \cup {s}
  <2>1. /\ s.kind = "flush" /\ s.fd = fd /\ s.node = fds[fd] /\ s.awaited
    <3>1. fd # None
      BY <1>1, AsyncAssumption DEF None
    <3> QED BY <1>0, <3>1 DEF Submit
  <2>2. Streams'
    BY <1>1, <1>3, <2>1 DEF Paired, Streams
  <2> QED BY <1>1, <1>3, <2>1, <2>2, StreamAlone, JoinPaired
<1> QED BY <1>0, <1>2, <1>3 DEF Chunk

LEMMA BodyPaired ==
    ASSUME TypeInv, Company, Paired, BodyEnds \/ BodyFails
    PROVE  Paired'
<1>1. fds' = fds /\ pc = "stream"
  BY DEF BodyEnds, BodyFails
<1>2. CASE BodyEnds
  BY <1>1, <1>2, StreamAlone, AwaitPaired DEF BodyEnds, Kinds
<1>3. CASE BodyFails
  BY <1>1, <1>3, StreamAlone, AwaitPaired DEF BodyFails, Kinds
<1> QED BY <1>2, <1>3

LEMMA CancelPaired ==
    ASSUME Gentle, TypeInv, Company, Paired, Cancel
    PROVE  Paired'
<1>1. fds' = fds
  BY DEF Cancel
<1>2. CASE pc = "stream"
  <2>1. LeftBehind \subseteq jobs
    BY <1>2, AllOrphans DEF LeftBehind, Orphan, Awaiting, Flushing
  <2> QED BY <1>1, <1>2, <2>1, StreamAlone, AwaitPaired DEF Cancel, Kinds
<1>3. CASE pc # "stream"
  <2>1. jobs' = LeftBehind /\ pc' = "idle"
    BY <1>3 DEF Gentle, Cancel, Leave
  <2> DEFINE mod(j) == [j EXCEPT !.awaited = FALSE, !.left = cancels + 1]
  <2>2. ASSUME NEW k \in LeftBehind
        PROVE  \E j \in jobs : /\ (Holds(k) <=> Holds(j)) /\ k.fd = j.fd /\ k.node = j.node
                               /\ k = IF j.awaited THEN mod(j) ELSE j
    <3>1. CASE k \in jobs /\ ~k.awaited
      BY <3>1
    <3>2. CASE ~(k \in jobs /\ ~k.awaited)
      <4>1. PICK j \in jobs : j.awaited /\ k = [j EXCEPT !.awaited = FALSE, !.left = cancels + 1]
        BY <3>2, <2>2 DEF LeftBehind
      <4>2. ~k.awaited /\ k.kind = j.kind /\ k.fd = j.fd /\ k.node = j.node
        BY <4>1, Orphaned, KindsOf DEF Cancel
      <4> QED BY <4>1, <4>2 DEF Holds
    <3> QED BY <3>1, <3>2
  <2> HIDE DEF mod
  <2>3. \A k \in LeftBehind : Holds(k) => k.fd \in FD /\ k.node # None /\ fds[k.fd] = k.node
    BY <2>2 DEF Paired
  <2>4. ASSUME NEW h \in LeftBehind, NEW k \in LeftBehind, Holds(h), Holds(k), h.fd = k.fd
        PROVE  h = k
    <3>1. PICK i \in jobs : /\ Holds(i) /\ i.fd = h.fd
                            /\ h = IF i.awaited THEN mod(i) ELSE i
      BY <2>2, <2>4
    <3>2. PICK j \in jobs : /\ Holds(j) /\ j.fd = k.fd
                            /\ k = IF j.awaited THEN mod(j) ELSE j
      BY <2>2, <2>4
    <3>3. i = j
      BY <2>4, <3>1, <3>2 DEF Paired
    <3> QED BY <3>1, <3>2, <3>3
  <2> QED BY <1>1, <2>1, <2>3, <2>4 DEF Paired
<1> QED BY <1>2, <1>3

LEMMA OpenPaired ==
    ASSUME TypeInv, Company, Paired, NEW j \in jobs, Open(j)
    PROVE  Paired'
<1> DEFINE node == IF part # None THEN part ELSE FreeInode
<1>1. FreeFD \in FD /\ fds[FreeFD] = None
  BY LowestFree DEF Open
<1>2. node \in Inode /\ node # None
  BY NewInode, AsyncAssumption DEF Open, TypeInv, DiskType, None
<1>3. jobs' = jobs \ {j} /\ fds' = [fds EXCEPT ![FreeFD] = node] /\ part' = node
  BY DEF Open
<1>4. \A k \in jobs : Holds(k) => k.fd # FreeFD /\ k.fd \in FD
  BY <1>1 DEF Paired
<1>5. \A k \in jobs : Holds(k) => fds'[k.fd] = fds[k.fd]
  BY <1>3, <1>4 DEF TypeInv, DiskType
<1>6. fds'[FreeFD] = node
  BY <1>1, <1>3 DEF TypeInv, DiskType
<1>7. Streams'
  <2>1. CASE j.awaited
    <3>1. pc' = "stream" /\ fd' = FreeFD
      BY <2>1 DEF Open
    <3> HIDE DEF node
    <3> QED BY <1>1, <1>2, <1>3, <1>4, <1>6, <3>1 DEF Streams
  <2>2. CASE ~j.awaited
    <3>1. pc' = pc /\ fd' = fd
      BY <2>2 DEF Open, task
    <3>2. pc \in {"stream", "flush"} => fd \in FD /\ fd # FreeFD /\ part # None
      BY <1>1 DEF Paired
    <3>3. pc \in {"stream", "flush"} => fds'[fd] = fds[fd] /\ part' = part
      BY <1>3, <3>2 DEF TypeInv, DiskType
    <3> QED BY <1>3, <3>1, <3>2, <3>3 DEF Streams, Paired
  <2> QED BY <2>1, <2>2
<1> HIDE DEF node
<1> QED BY <1>3, <1>5, <1>7, SubsetPaired

LEMMA ClosePaired ==
    ASSUME TypeInv, Company, Paired, NEW j \in jobs, Close(j)
    PROVE  Paired'
<1>1. Holds(j) /\ j.kind # "flush" /\ j.kind # "open"
  BY KindsOf DEF Close, Company, Stepwise, Kinds, Holds
<1>2. fds' = [fds EXCEPT ![j.fd] = None] /\ part' = part /\ Done(j)
  BY DEF Close, data
<1>3. \A k \in jobs \ {j} : Holds(k) => k.fd # j.fd /\ k.fd \in FD
  BY <1>1 DEF Paired
<1>4. pc \in {"stream", "flush"} => fd \in FD /\ fd # j.fd
  BY <1>1, KindsOf DEF Paired, Company, Awaited, Holds, Flushing
<1>5. \A k \in jobs \ {j} : Holds(k) => fds'[k.fd] = fds[k.fd]
  BY <1>2, <1>3 DEF TypeInv, DiskType
<1>6. pc \in {"stream", "flush"} => fds'[fd] = fds[fd]
  BY <1>2, <1>4 DEF TypeInv, DiskType
<1> QED BY <1>1, <1>2, <1>5, <1>6, DonePaired

(* A step of a job that goes on, and one that ends it.                     *)
LEMMA StepPaired ==
    ASSUME TypeInv, Company, Paired, NEW j \in jobs, UNCHANGED fds, UNCHANGED part,
           Begin(j) \/ Sync(j) \/ CreateTmp(j) \/ WriteTmp(j) \/ Replace(j) \/ Stat(j) \/ Unlink(j)
    PROVE  Paired'
<1>1. CASE \E k : Goto(j, k) /\ Same(k, j)
  BY <1>1, GotoPaired
<1>2. CASE j.kind # "open" /\ Done(j)
  BY <1>2, DonePaired
<1>3. CASE Begin(j)
  <2>1. First(j) \in Steps
    BY KindsOf DEF First, Steps, Kinds
  <2> QED BY <1>1, <1>3, <2>1, Moved, KindsOf DEF Begin
<1>4. CASE Sync(j)
  <2>1. (IF j.kind = "syncclose" THEN "close" ELSE "create") \in Steps
    BY DEF Steps
  <2> QED BY <1>1, <1>4, <2>1, Moved, KindsOf DEF Sync
<1>5. CASE CreateTmp(j)
  <2>1. "write" \in Steps
    BY DEF Steps
  <2>2. (IF tmp # None THEN tmp ELSE FreeInode) \in Inode \cup {None}
    BY <1>5, NewInode DEF CreateTmp, TypeInv, DiskType
  <2> QED BY <1>1, <1>5, <2>1, <2>2, MovedTmp, KindsOf DEF CreateTmp
<1>6. CASE WriteTmp(j)
  <2>1. "replace" \in Steps
    BY DEF Steps
  <2> QED BY <1>1, <1>6, <2>1, MovedTmp, KindsOf DEF WriteTmp
<1>7. CASE Replace(j)
  <2>1. "close" \in Steps
    BY DEF Steps
  <2>2. j.kind # "open"
    BY <1>7 DEF Replace, Company, Stepwise
  <2> QED BY <1>1, <1>2, <1>7, <2>1, <2>2, Moved, KindsOf DEF Replace
<1>8. CASE Stat(j)
  <2>1. "rename" \in Steps
    BY DEF Steps
  <2> QED BY <1>1, <1>8, <2>1, Moved, KindsOf DEF Stat
<1>9. CASE Unlink(j)
  <2>1. j.kind # "open"
    BY <1>9 DEF Unlink, Company, Stepwise
  <2> QED BY <1>2, <1>9, <2>1 DEF Unlink
<1> QED BY <1>3, <1>4, <1>5, <1>6, <1>7, <1>8, <1>9

LEMMA RenamePaired ==
    ASSUME TypeInv, Company, Paired, NEW j \in jobs, Rename(j)
    PROVE  Paired'
<1>1. "unlink" \in Steps
  BY DEF Steps
<1>2. pc = "after"
  BY KindsOf DEF Rename, Company, Stepwise, Awaited, Kinds
<1>3. PICK k : Goto(j, k) /\ Same(k, j)
  BY <1>1, Moved, KindsOf DEF Rename
<1> QED BY <1>2, <1>3, GotoPaired DEF Rename

LEMMA FailsPaired ==
    ASSUME TypeInv, Company, Paired, NEW j \in jobs, Fails(j)
    PROVE  Paired'
<1>0. fds' = fds /\ part' = part
  BY DEF Fails, data
<1>1. CASE \E k : Goto(j, k) /\ Same(k, j)
  BY <1>0, <1>1, GotoPaired
<1>2. CASE ~j.awaited /\ jobs' = jobs \ {j} /\ UNCHANGED task
  BY <1>0, <1>2 DEF task, Paired
<1>3. CASE j.awaited /\ pc = "flush" /\ Await("raise_flush", "flushclose", jobs \ {j})
  BY <1>0, <1>3, FlushAlone, AwaitPaired DEF Kinds
<1>4. CASE Leave("error") /\ jobs' = jobs \ {j}
  BY <1>0, <1>4, SubsetPaired DEF Leave, Streams
<1> QED BY <1>1, <1>2, <1>3, <1>4, FailsTo

LEMMA NextPaired ==
    ASSUME Gentle, TypeInv, Company, Paired, [Next]_vars
    PROVE  Paired'
<1>1. CASE UNCHANGED vars
  BY <1>1 DEF vars, task, data, Paired
<1>2. CASE Task \/ BodyFails
  BY <1>2, StartPaired, Restart200Paired, ChunkPaired, BodyPaired DEF Task
<1>3. ASSUME NEW j \in jobs, Works(j) PROVE Paired'
  BY <1>3, OpenPaired, ClosePaired, StepPaired, RenamePaired, FailsPaired
  DEF Works, Begin, Sync, CreateTmp, WriteTmp, Replace, Stat, Unlink, data
<1> QED BY <1>1, <1>2, <1>3, CancelPaired DEF Next

-----------------------------------------------------------------------------
(* Without a cancellation there is at most one job, and it is awaited.     *)

LEMMA Alone ==
    ASSUME TypeInv, Company, cancels = 0, NEW j \in jobs
    PROVE  jobs = {j} /\ j.awaited /\ Awaited(j) /\ pc \in Awaiting
<1>1. \A k \in jobs : k.awaited /\ Awaited(k)
  BY DEF Company
<1>2. jobs = {j}
  BY <1>1 DEF Company
<1> QED BY <1>1, <1>2, KindsOf DEF Awaited, Awaiting, Flushing, Kinds

LEMMA Nobody ==
    ASSUME TypeInv, Company, cancels = 0, pc \notin Awaiting
    PROVE  jobs = {}
BY Alone

LEMMA LaterCancels == [Next]_vars => cancels' = cancels \/ cancels' = cancels + 1
<1>1. CASE Task
  BY <1>1 DEF Task, Start, Resume206, Restart200, Complete416, Chunk, BodyEnds, Fault, budget
<1>2. ASSUME NEW j, Works(j) PROVE cancels' = cancels
  BY <1>2 DEF Works, Begin, Open, Sync, CreateTmp, WriteTmp, Replace, Close, Stat, Rename, Unlink,
              Fails, Fault, budget
<1> QED BY <1>1, <1>2 DEF Next, BodyFails, Cancel, Fault, budget, vars

LEMMA AwaitAccounted ==
    ASSUME TypeInv, NEW at, NEW kind \in {"flushclose", "syncclose"}, NEW others,
           Await(at, kind, others),
           \A f \in FD : fds'[f] # None => f = fd
    PROVE  Accounted'
<1>1. PICK s : s = Submit(kind, fd, cursor, dirty)
  OBVIOUS
<1>2. Holds(s) /\ s.fd = fd /\ s \in jobs'
  BY <1>1, Submitted DEF Await, Holds, TypeInv, TaskType, Kinds
<1> QED BY <1>2 DEF Accounted

LEMMA NextAccounted ==
    ASSUME TypeInv, Company, Paired, Accounted, [Next]_vars
    PROVE  Accounted'
<1>0. cancels' = 0 => cancels = 0
  BY LaterCancels, AsyncAssumption DEF TypeInv
<1> SUFFICES ASSUME cancels = 0, cancels' = 0 PROVE Accounted'
  BY <1>0 DEF Accounted
<1>1. CASE UNCHANGED vars
  BY <1>1 DEF vars, task, Accounted
<1>2. CASE pc = "stream" /\ (BodyEnds \/ BodyFails)
  <2>1. jobs = {} /\ fds' = fds
    BY <1>2, Nobody DEF Awaiting, Flushing, BodyEnds, BodyFails
  <2>2. \A f \in FD : fds'[f] # None => f = fd
    BY <2>1 DEF Accounted
  <2> QED BY <1>2, <2>2, AwaitAccounted DEF BodyEnds, BodyFails
<1>3. ASSUME NEW n \in 1 .. MaxChunk, Chunk(n) PROVE Accounted'
  <2>1. jobs = {} /\ fds' = fds /\ pc = "stream" /\ fd' = fd
    BY <1>3, Nobody DEF Awaiting, Flushing, Chunk
  <2>2. \A f \in FD : fds'[f] # None => f = fd
    BY <2>1 DEF Accounted
  <2>3. CASE UNCHANGED <<pc, jobs>>
    BY <2>1, <2>2, <2>3 DEF Accounted
  <2>4. CASE jobs' = jobs \cup {Submit("flush", fd, cursor', dirty')}
    <3>1. PICK s : s = Submit("flush", fd, cursor', dirty')
      OBVIOUS
    <3>2. Holds(s) /\ s.fd = fd /\ s \in jobs'
      BY <2>4, <3>1 DEF Submit, Holds
    <3> QED BY <2>2, <3>2 DEF Accounted
  <2> QED BY <1>3, <2>3, <2>4 DEF Chunk
<1>4. CASE Start \/ Resume206 \/ Restart200 \/ Complete416
  <2>1. jobs = {} /\ fds' = fds /\ pc # "stream"
    BY <1>4, Nobody DEF Awaiting, Flushing, Start, Resume206, Restart200, Complete416
  <2> QED BY <2>1 DEF Accounted
<1>5. CASE Cancel
  BY <1>5, AsyncAssumption DEF Cancel, TypeInv
<1>6. ASSUME NEW j \in jobs, Works(j) PROVE Accounted'
  <2>1. jobs = {j} /\ j.awaited /\ Awaited(j) /\ pc # "stream"
    BY Alone DEF Awaiting, Flushing
  <2>2. \A f \in FD : fds[f] # None => Holds(j) /\ j.fd = f
    BY <2>1 DEF Accounted
  <2>3. ASSUME NEW k, Goto(j, k), Same(k, j), fds' = fds PROVE Accounted'
    BY <2>2, <2>3 DEF Goto, Same, Holds, Accounted
  <2>4. CASE fds' = fds /\ ~Holds(j)
    BY <2>2, <2>4 DEF Accounted
  <2>5. CASE Begin(j)
    <3>1. First(j) \in Steps
      BY KindsOf DEF First, Steps, Kinds
    <3> QED BY <2>3, <2>5, <3>1, Moved, KindsOf DEF Begin
  <2>6. CASE Open(j)
    <3>1. ~Holds(j)
      BY <2>6, KindsOf DEF Open, Company, Stepwise, Kinds, Holds
    <3>2. pc' = "stream" /\ fd' = FreeFD /\ \A f \in FD : f # FreeFD => fds'[f] = None
      BY <2>1, <2>2, <2>6, <3>1 DEF Open, TypeInv, DiskType
    <3> QED BY <3>2 DEF Accounted
  <2>7. CASE Sync(j)
    <3>1. (IF j.kind = "syncclose" THEN "close" ELSE "create") \in Steps
      BY DEF Steps
    <3> QED BY <2>3, <2>7, <3>1, Moved, KindsOf DEF Sync
  <2>8. CASE CreateTmp(j)
    <3>1. "write" \in Steps
      BY DEF Steps
    <3>2. (IF tmp # None THEN tmp ELSE FreeInode) \in Inode \cup {None}
      BY <2>8, NewInode DEF CreateTmp, TypeInv, DiskType
    <3> QED BY <2>3, <2>8, <3>1, <3>2, MovedTmp, KindsOf DEF CreateTmp
  <2>9. CASE WriteTmp(j)
    <3>1. "replace" \in Steps
      BY DEF Steps
    <3> QED BY <2>3, <2>9, <3>1, MovedTmp, KindsOf DEF WriteTmp
  <2>10. CASE Replace(j)
    <3>1. CASE j.kind = "flushclose"
      <4>1. "close" \in Steps
        BY DEF Steps
      <4> QED BY <2>3, <2>10, <3>1, <4>1, Moved, KindsOf DEF Replace
    <3>2. CASE j.kind = "flush"
      <4>1. pc = "flush" /\ j.ok /\ fds' = fds /\ j.fd = fd
        BY <2>1, <2>10, <3>2 DEF Replace, Awaited, Company, Stepwise
      <4>2. pc' = "stream" /\ fd' = fd
        BY <2>1, <2>10, <3>2, <4>1 DEF Replace, Done, Flushing
      <4> QED BY <2>2, <4>1, <4>2 DEF Accounted
    <3>3. CASE ~(j.kind \in {"flushclose", "flush"})
      <4>1. ~Holds(j)
        BY <2>10, <3>3, KindsOf DEF Replace, Company, Stepwise, Holds
      <4> QED BY <2>4, <2>10, <4>1 DEF Replace
    <3> QED BY <3>1, <3>2, <3>3
  <2>11. CASE Close(j)
    <3>1. \A f \in FD : fds'[f] = None
      BY <2>2, <2>11 DEF Close, TypeInv, DiskType
    <3> QED BY <3>1 DEF Accounted
  <2>12. CASE Stat(j)
    <3>1. "rename" \in Steps
      BY DEF Steps
    <3> QED BY <2>3, <2>12, <3>1, Moved, KindsOf DEF Stat
  <2>13. CASE Rename(j)
    <3>1. "unlink" \in Steps
      BY DEF Steps
    <3> QED BY <2>3, <2>13, <3>1, Moved, KindsOf DEF Rename
  <2>14. CASE Unlink(j)
    <3>1. ~Holds(j)
      BY <2>14, KindsOf DEF Unlink, Company, Stepwise, Holds, Kinds
    <3> QED BY <2>4, <2>14, <3>1 DEF Unlink
  <2>15. CASE Fails(j)
    <3>1. fds' = fds
      BY <2>15 DEF Fails
    <3>2. CASE \E k : Goto(j, k) /\ Same(k, j)
      BY <2>3, <3>1, <3>2
    <3>3. CASE ~Holds(j)
      BY <2>4, <3>1, <3>3
    <3>4. CASE j.kind = "flush" /\ Await("raise_flush", "flushclose", jobs \ {j})
      <4>1. j.fd = fd
        BY <2>1, <3>4 DEF Awaited
      <4> QED BY <2>2, <3>1, <3>4, <4>1, AwaitAccounted
    <3> QED BY <2>15, <3>2, <3>3, <3>4, FailsTo
  <2> QED BY <1>6, <2>5, <2>6, <2>7, <2>8, <2>9, <2>10, <2>11, <2>12, <2>13, <2>14, <2>15
          DEF Works
<1> QED BY <1>1, <1>2, <1>3, <1>4, <1>5, <1>6 DEF Next, Task, BodyEnds, BodyFails

-----------------------------------------------------------------------------
(* The control file and the temporary file.                                *)

Writing(j) == j.step \in {"create", "write", "replace"}

(* Only an awaited job writes, so there is one writer.                     *)
LEMMA Writer ==
    ASSUME TypeInv, Company, NEW j \in jobs, Writing(j)
    PROVE  /\ j.awaited /\ Awaited(j) /\ j.kind \in {"flush", "flushclose", "short"} /\ j.ok
           /\ \A k \in jobs \ {j} : Orphan(k) /\ ~Writing(k)
<1>1. j.kind \in {"flush", "flushclose", "short"} /\ j.ok
  BY KindsOf DEF Company, Stepwise, Kinds, Writing
<1>2. j.awaited /\ Awaited(j)
  BY <1>1 DEF Company
<1>3. \A k \in jobs \ {j} : Orphan(k)
  BY <1>2, OthersOrphans
<1>4. \A k \in jobs \ {j} : ~Writing(k)
  BY <1>3 DEF Orphan, Stepwise, Writing
<1> QED BY <1>1, <1>2, <1>3, <1>4

LEMMA OneWriterHolds == TypeInv /\ Company => OneWriter
<1> SUFFICES ASSUME TypeInv, Company, NEW j \in jobs, NEW k \in jobs,
                    {j.step, k.step} \subseteq {"create", "write", "replace"}
             PROVE  j = k
  BY DEF OneWriter
<1>1. Writing(j) /\ Writing(k)
  BY DEF Writing
<1> QED BY <1>1, Writer

LEMMA KeepWhole ==
    ASSUME Whole, UNCHANGED control,
           \A k \in jobs' : k.step \in {"write", "replace"} => k \in jobs
    PROVE  Whole'
BY DEF Whole, CtrlWhole, control

(* What is submitted is queued.                                            *)
LEMMA DoneJobs ==
    ASSUME TypeInv, NEW j \in jobs, Done(j)
    PROVE  \A k \in jobs' : k \in jobs \ {j} \/ k.step = "queued"
<1>1. \A kind \in Kinds : Submit(kind, fd, cursor, dirty).step = "queued"
  BY DEF Submit
<1>2. \A at, kind : Await(at, kind, jobs \ {j}) =>
          jobs' = (jobs \ {j}) \cup {Submit(kind, fd, cursor, dirty)}
  BY DEF Await
<1>3. "flushclose" \in Kinds /\ "short" \in Kinds /\ "finish" \in Kinds
  BY DEF Kinds
<1> QED BY <1>1, <1>2, <1>3 DEF Done

LEMMA AwaitJobs ==
    ASSUME NEW at, NEW kind, NEW others, Await(at, kind, others)
    PROVE  \A k \in jobs' : k \in others \/ k.step = "queued"
BY DEF Await, Submit

LEMMA LeftSteps ==
    ASSUME Gentle, TypeInv, Company, Cancel
    PROVE  \A k \in LeftBehind : k.step \notin {"create", "write", "replace", "unlink"}
BY LeftOrphans DEF Orphan, Stepwise

LEMMA TaskWhole ==
    ASSUME Gentle, TypeInv, Company, Whole, Task \/ BodyFails \/ Cancel
    PROVE  Whole'
<1>1. UNCHANGED control
  BY DEF Task, Start, Resume206, Restart200, Complete416, Chunk, BodyEnds, BodyFails, Cancel
<1>2. CASE Task \/ BodyFails
  <2>1. \A k \in jobs' : k \in jobs \/ k.step = "queued"
    BY <1>2, AwaitJobs
    DEF Task, Start, Resume206, Restart200, Complete416, Chunk, BodyEnds, BodyFails, Submit
  <2> QED BY <1>1, <2>1, KeepWhole
<1>3. CASE Cancel
  <2>1. \A k \in jobs' : k \in LeftBehind \/ k.step = "queued"
    BY <1>3, AwaitJobs DEF Cancel
  <2> QED BY <1>1, <1>3, <2>1, LeftSteps, KeepWhole
<1> QED BY <1>2, <1>3

LEMMA GotoWhole ==
    ASSUME Whole, NEW j \in jobs, NEW k, Goto(j, k), k.step \notin {"write", "replace"},
           UNCHANGED control
    PROVE  Whole'
BY KeepWhole DEF Goto

LEMMA CreateTmpWhole ==
    ASSUME TypeInv, Company, Whole, NEW j \in jobs, CreateTmp(j)
    PROVE  Whole'
<1>0. PICK node : node = IF tmp # None THEN tmp ELSE FreeInode
  OBVIOUS
<1>1. node \in Inode /\ node # ctrl /\ node # None
  BY <1>0, NewInode, AsyncAssumption DEF CreateTmp, TypeInv, DiskType, Whole, None
<1>2. PICK k : k = [j EXCEPT !.step = "write", !.tmp = node]
  OBVIOUS
<1>3. k.step = "write" /\ k.tmp = node
  BY <1>2, KindsOf DEF Job
<1>4. /\ tmp' = node /\ content' = [content EXCEPT ![node] = Torn] /\ ctrl' = ctrl
      /\ jobs' = (jobs \ {j}) \cup {k}
  BY <1>0, <1>2 DEF CreateTmp, Goto
<1>5. \A i \in jobs \ {j} : i.step # "write" /\ i.step # "replace"
  BY Writer DEF Writing, CreateTmp
<1>6. ctrl' # None => content'[ctrl'] = content[ctrl]
  BY <1>1, <1>4 DEF TypeInv, DiskType
<1> QED BY <1>1, <1>3, <1>4, <1>5, <1>6 DEF Whole, CtrlWhole

LEMMA WriteTmpWhole ==
    ASSUME TypeInv, Company, Whole, NEW j \in jobs, WriteTmp(j)
    PROVE  Whole'
<1>1. PICK k : k = [j EXCEPT !.step = "replace", !.tmp = None]
  OBVIOUS
<1>2. k.step = "replace" /\ k.cursor = j.cursor
  BY <1>1, KindsOf DEF Job
<1>3. tmp # None /\ j.tmp = tmp /\ tmp # ctrl /\ tmp \in Inode
  BY DEF Whole, WriteTmp, TypeInv, DiskType
<1>4. /\ tmp' = tmp /\ content' = [content EXCEPT ![tmp] = j.cursor] /\ ctrl' = ctrl
      /\ jobs' = (jobs \ {j}) \cup {k}
  BY <1>1, <1>3 DEF WriteTmp, Goto
<1>5. \A i \in jobs \ {j} : i.step # "write" /\ i.step # "replace"
  BY Writer DEF Writing, WriteTmp
<1>6. /\ ctrl' # None => content'[ctrl'] = content[ctrl]
      /\ content'[tmp] = j.cursor
  BY <1>3, <1>4 DEF TypeInv, DiskType
<1> QED BY <1>2, <1>3, <1>4, <1>5, <1>6 DEF Whole, CtrlWhole

(* After the replacement the control file holds the cursor of the task.    *)
LEMMA Replaced ==
    ASSUME TypeInv, Company, Whole, NEW j \in jobs, Replace(j)
    PROVE  /\ ctrl' # None /\ content'[ctrl'] = cursor /\ cursor \in 0 .. Length
           /\ tmp' = None
<1>1. tmp # None /\ tmp \in Inode /\ content[tmp] = j.cursor /\ tmp # ctrl
  BY DEF Replace, Whole, TypeInv, DiskType
<1>2. j.cursor = cursor
  BY Writer DEF Replace, Writing, Awaited
<1>3. content' = Forget(content, ctrl, Torn, {k.tmp : k \in jobs}) /\ ctrl' = tmp /\ tmp' = None
  BY DEF Replace
<1>4. content'[tmp] = content[tmp]
  BY <1>1, <1>3 DEF Forget, TypeInv, DiskType
<1> QED BY <1>1, <1>2, <1>3, <1>4 DEF TypeInv, TaskType

LEMMA ReplaceWhole ==
    ASSUME TypeInv, Company, Whole, NEW j \in jobs, Replace(j)
    PROVE  Whole'
<1>1. \A i \in jobs \ {j} : i.step # "write" /\ i.step # "replace"
  BY Writer DEF Writing, Replace
<1>2. \A k \in jobs' : k.step # "write" /\ k.step # "replace"
  <2>1. CASE Done(j)
    BY <1>1, <2>1, DoneJobs
  <2>2. CASE Goto(j, [j EXCEPT !.step = "close"])
    BY <1>1, <2>2, KindsOf DEF Goto, Job
  <2> QED BY <2>1, <2>2 DEF Replace
<1>3. ctrl' # None => content'[ctrl'] # Torn
  <2>1. \A n \in 0 .. Length : n # Torn
    BY AsyncAssumption DEF Torn
  <2> QED BY <2>1, Replaced
<1> QED BY <1>2, <1>3, Replaced DEF Whole, CtrlWhole

LEMMA UnlinkWhole ==
    ASSUME TypeInv, Company, Whole, NEW j \in jobs, Unlink(j)
    PROVE  Whole'
<1>1. j.awaited
  BY DEF Unlink, Company, Stepwise
<1>2. \A k \in jobs \ {j} : k.step \notin {"write", "replace"}
  BY <1>1, OthersOrphans DEF Orphan, Stepwise
<1>3. \A k \in jobs' : k.step \notin {"write", "replace"}
  BY <1>2, DoneJobs DEF Unlink
<1>4. ctrl' = None /\ tmp' = tmp
  BY DEF Unlink
<1> QED BY <1>3, <1>4 DEF Whole, CtrlWhole

LEMMA FailsSteps ==
    ASSUME TypeInv, Company, NEW j \in jobs, Fails(j)
    PROVE  \A k \in jobs' : k \in jobs \ {j} \/ k.step \in {"queued", "create", "close"}
<1>1. ASSUME NEW k, Goto(j, k), k.step \in {"create", "close"}
      PROVE  \A i \in jobs' : i \in jobs \ {j} \/ i.step \in {"queued", "create", "close"}
  BY <1>1 DEF Goto
<1>2. CASE jobs' = jobs \ {j}
  BY <1>2
<1>3. CASE Await("raise_flush", "flushclose", jobs \ {j})
  BY <1>3, AwaitJobs
<1>4. CASE \E k : Goto(j, k) /\ k.step \in {"create", "close"}
  BY <1>1, <1>4
<1> QED BY <1>2, <1>3, <1>4, FailsTo

LEMMA NextWhole ==
    ASSUME Gentle, TypeInv, Company, Whole, [Next]_vars
    PROVE  Whole'
<1>1. CASE UNCHANGED vars
  BY <1>1 DEF vars, control, Whole, CtrlWhole
<1>2. ASSUME NEW j \in jobs, Begin(j) \/ Sync(j) \/ Stat(j) \/ Rename(j) PROVE Whole'
  <2>1. j \in Job /\ First(j) \in Steps \ {"write", "replace"}
    BY KindsOf DEF First, Kinds, Steps
  <2>2. [j EXCEPT !.step = First(j)].step = First(j)
    BY <2>1 DEF Job
  <2>3. \A s \in {"close", "create", "rename", "unlink"} : [j EXCEPT !.step = s].step = s
    BY <2>1 DEF Job
  <2> QED BY <1>2, <2>1, <2>2, <2>3, GotoWhole DEF Begin, Sync, Stat, Rename
<1>3. ASSUME NEW j \in jobs, Open(j) PROVE Whole'
  BY <1>3, KeepWhole DEF Open
<1>4. ASSUME NEW j \in jobs, Close(j) PROVE Whole'
  BY <1>4, KeepWhole, DoneJobs DEF Close
<1>5. ASSUME NEW j \in jobs, Fails(j) PROVE Whole'
  BY <1>5, KeepWhole, FailsSteps DEF Fails
<1> QED BY <1>1, <1>2, <1>3, <1>4, <1>5, TaskWhole, CreateTmpWhole, WriteTmpWhole, ReplaceWhole,
           UnlinkWhole
        DEF Next, Works

-----------------------------------------------------------------------------
(* What has been counted is in .part.                                      *)

Ending == \E j \in jobs : j.step = "unlink"

LEMMA NotEnding ==
    ASSUME TypeInv, Company, pc # "after"
    PROVE  ~Ending
BY KindsOf DEF Ending, Company, Stepwise, Awaited, Kinds

LEMMA OnlyEnds ==
    ASSUME TypeInv, Company, NEW j \in jobs, j.awaited, j.step # "unlink"
    PROVE  ~Ending
BY OthersOrphans DEF Ending, Orphan, Stepwise

(* Nothing in .part, .part.ctrl or the cursor changes.                     *)
LEMMA KeepBacked ==
    ASSUME Backed, UNCHANGED <<data, control, cursor>>, pc' # "idle" => pc # "idle",
           Ending => Ending'
    PROVE  Backed'
BY DEF Backed, Has, DestWhole, data, control, Ending

LEMMA TaskBacked ==
    ASSUME Gentle, TypeInv, Company, Backed,
           Resume206 \/ Complete416 \/ BodyEnds \/ BodyFails \/ Cancel
    PROVE  Backed'
<1>1. ~Ending
  BY NotEnding DEF Resume206, Complete416, BodyEnds, BodyFails, Cancel, Gentle
<1>2. cursor' = cursor /\ pc # "idle"
  BY DEF Resume206, Complete416, BodyEnds, BodyFails, Cancel, Gentle, Await, Leave
<1>3. UNCHANGED <<data, control>>
  BY DEF Resume206, Complete416, BodyEnds, BodyFails, Cancel
<1> QED BY <1>1, <1>2, <1>3, KeepBacked

LEMMA StartBacked ==
    ASSUME TypeInv, Company, Backed, Start
    PROVE  Backed'
<1>1. ~Ending
  BY NotEnding DEF Start
<1>2. UNCHANGED <<data, control, jobs>>
  BY DEF Start
<1>3. cursor' = (IF ctrl = None \/ content[ctrl] = Torn THEN 0 ELSE content[ctrl])
  BY DEF Start
<1>4. Has(cursor')
  <2>1. CASE ctrl = None \/ content[ctrl] = Torn
    BY <1>3, <2>1 DEF Has
  <2>2. CASE ctrl # None /\ content[ctrl] # Torn
    BY <1>1, <1>3, <2>2 DEF Backed, Ending
  <2> QED BY <2>1, <2>2
<1> QED BY <1>1, <1>2, <1>4 DEF Backed, Has, DestWhole, data, control, Ending

LEMMA Restart200Backed ==
    ASSUME TypeInv, Company, Backed, Restart200
    PROVE  Backed'
<1>1. ~Ending
  BY NotEnding DEF Restart200
<1>2. UNCHANGED <<data, control>> /\ cursor' = 0
  BY DEF Restart200
<1> QED BY <1>1, <1>2 DEF Backed, Has, DestWhole, data, control, Ending

LEMMA ChunkBacked ==
    ASSUME TypeInv, Company, Paired, Backed, NEW n \in 1 .. MaxChunk, Chunk(n)
    PROVE  Backed'
<1>1. ~Ending /\ pc = "stream"
  BY NotEnding DEF Chunk
<1>2. part # None /\ part \in Inode /\ fds[fd] = part /\ part # dest
  BY <1>1 DEF Paired, Backed, TypeInv, DiskType
<1>3. /\ UNCHANGED <<part, dest, control>> /\ cursor' = cursor + n
      /\ good' = [good EXCEPT ![part] = @ \cup cursor .. (cursor + n - 1)]
  BY <1>2 DEF Chunk
<1>4. good'[part] = good[part] \cup cursor .. (cursor + n - 1)
  BY <1>2, <1>3 DEF TypeInv, DiskType
<1>5. cursor \in Nat /\ n \in Nat
  BY AsyncAssumption DEF TypeInv, TaskType
<1>6. 0 .. (cursor - 1) \subseteq good[part]
  BY <1>1, <1>5 DEF Backed, Has, Ending
<1>7. 0 .. (cursor + n - 1) \subseteq good'[part]
  BY <1>4, <1>5, <1>6
<1>8. Has(cursor)'
  <2>1. cursor' - 1 = cursor + n - 1 /\ part' = part
    BY <1>3, <1>5
  <2>2. 0 .. (cursor' - 1) \subseteq good'[part']
    BY <1>7, <2>1
  <2> QED BY <1>2, <2>1, <2>2 DEF Has
<1>10. ctrl' # None => Has(content[ctrl])'
  <2>1. ctrl' = ctrl /\ content' = content /\ part' = part /\ good[part] \subseteq good'[part]
    BY <1>3, <1>4 DEF control
  <2>2. ctrl # None => Has(content[ctrl])
    BY <1>1 DEF Backed, Ending
  <2> QED BY <1>2, <2>1, <2>2 DEF Has
<1>9. DestWhole'
  <2>1. dest # None => good'[dest] = good[dest]
    BY <1>2, <1>3 DEF TypeInv, DiskType
  <2> QED BY <1>3, <2>1 DEF Backed, DestWhole
<1> QED BY <1>2, <1>3, <1>8, <1>9, <1>10 DEF Backed

LEMMA OpenBacked ==
    ASSUME TypeInv, Company, Backed, NEW j \in jobs, Open(j)
    PROVE  Backed'
<1>1. PICK node : node = IF part # None THEN part ELSE FreeInode
  OBVIOUS
<1>2. node \in Inode /\ node # None /\ node # dest
  BY <1>1, NewInode, AsyncAssumption DEF Open, Backed, TypeInv, DiskType, None
<1>3. /\ part' = node /\ UNCHANGED <<dest, control>> /\ cursor' = cursor
      /\ good' = IF part # None THEN good ELSE [good EXCEPT ![node] = {}]
      /\ jobs' = jobs \ {j} /\ j.step = "open" /\ (pc' # "idle" => pc # "idle")
  BY <1>1, AsyncAssumption DEF Open, task, TypeInv, Company, Awaited, Stepwise, TaskType, Job
<1>4. ASSUME NEW m, Has(m) PROVE Has(m)'
  BY <1>1, <1>2, <1>3, <1>4 DEF Has
<1>5. Ending => Ending'
  BY <1>3 DEF Ending
<1>6. DestWhole'
  <2>1. dest # None => good'[dest] = good[dest]
    BY <1>2, <1>3 DEF TypeInv, DiskType
  <2> QED BY <1>3, <2>1 DEF Backed, DestWhole
<1> QED BY <1>2, <1>3, <1>4, <1>5, <1>6 DEF Backed, Ending, control, Has

(* Writing the temporary file leaves the control file alone.               *)
LEMMA KeepsControl ==
    ASSUME TypeInv, Whole, NEW j \in jobs, CreateTmp(j) \/ WriteTmp(j)
    PROVE  ctrl' = ctrl /\ (ctrl # None => content'[ctrl] = content[ctrl])
<1>1. CASE CreateTmp(j)
  <2>1. PICK node : node = IF tmp # None THEN tmp ELSE FreeInode
    OBVIOUS
  <2>2. node # ctrl
    BY <1>1, <2>1, NewInode DEF CreateTmp, Whole
  <2>3. ctrl' = ctrl /\ content' = [content EXCEPT ![node] = Torn]
    BY <1>1, <2>1 DEF CreateTmp
  <2> QED BY <2>2, <2>3 DEF TypeInv, DiskType
<1>2. CASE WriteTmp(j)
  <2>1. j.tmp # ctrl /\ ctrl' = ctrl /\ content' = [content EXCEPT ![j.tmp] = j.cursor]
    BY <1>2 DEF Whole, WriteTmp
  <2> QED BY <2>1 DEF TypeInv, DiskType
<1> QED BY <1>1, <1>2

LEMMA CreateTmpBacked ==
    ASSUME TypeInv, Company, Whole, Backed, NEW j \in jobs, CreateTmp(j) \/ WriteTmp(j)
    PROVE  Backed'
<1>1. ctrl' = ctrl /\ (ctrl # None => content'[ctrl] = content[ctrl])
  BY KeepsControl
<1>2. ~Ending
  BY Writer, OnlyEnds DEF Writing, CreateTmp, WriteTmp
<1>3. UNCHANGED <<data, cursor, pc>>
  BY DEF CreateTmp, WriteTmp, Goto, task
<1> QED BY <1>1, <1>2, <1>3 DEF Backed, Has, DestWhole, data, Ending

LEMMA ReplaceBacked ==
    ASSUME TypeInv, Company, Whole, Backed, NEW j \in jobs, Replace(j)
    PROVE  Backed'
<1>1. ~Ending /\ pc # "idle"
  BY Writer, OnlyEnds DEF Writing, Replace, Awaited, Flushing
<1>2. Has(cursor)
  BY <1>1 DEF Backed, Ending
<1>3. cursor' = cursor /\ UNCHANGED data
  BY DEF Replace, Goto, Done, Await, Leave, task
<1> QED BY <1>2, <1>3, Replaced DEF Backed, Has, DestWhole, data

LEMMA RenameBacked ==
    ASSUME TypeInv, Company, Backed, NEW j \in jobs, Rename(j)
    PROVE  Backed'
<1>1. j.awaited /\ j.kind = "finish" /\ Awaited(j)
  BY KindsOf DEF Rename, Company, Stepwise, Kinds
<1>2. ~Ending /\ pc = "after" /\ cursor = Length
  BY <1>1, OnlyEnds DEF Rename, Awaited
<1>3. part # None /\ part \in Inode /\ part # dest
  BY DEF Rename, Backed, TypeInv, DiskType
<1>4. good[part] = Offset
  <2>1. 0 .. (Length - 1) \subseteq good[part]
    BY <1>2, AsyncAssumption DEF Backed, Has, Ending
  <2> QED BY <1>3, <2>1 DEF Offset, TypeInv, DiskType
<1>5. good' = Forget(good, dest, {}, {fds[f] : f \in FD}) /\ dest' = part /\ part' = None
  BY DEF Rename
<1>6. good'[part] = good[part]
  BY <1>3, <1>5 DEF Forget, TypeInv, DiskType
<1>7. Ending'
  <2>1. [j EXCEPT !.step = "unlink"].step = "unlink"
    BY KindsOf DEF Job
  <2> QED BY <2>1 DEF Rename, Goto, Ending
<1> QED BY <1>3, <1>4, <1>5, <1>6, <1>7 DEF Backed, DestWhole, Ending

LEMMA UnlinkBacked ==
    ASSUME TypeInv, Company, Backed, NEW j \in jobs, Unlink(j)
    PROVE  Backed'
<1>1. j.awaited /\ pc = "after" /\ j.ok
  BY KindsOf DEF Unlink, Company, Stepwise, Kinds, Awaited
<1>2. pc' = "idle"
  BY <1>1 DEF Unlink, Done, Leave, Flushing
<1>3. ctrl' = None /\ UNCHANGED data
  BY DEF Unlink
<1> QED BY <1>2, <1>3 DEF Backed, DestWhole, data

LEMMA WorksBacked ==
    ASSUME ~UnlinkFails, TypeInv, Company, Backed, NEW j \in jobs,
           Begin(j) \/ Sync(j) \/ Close(j) \/ Stat(j) \/ Fails(j)
    PROVE  Backed'
<1>1. j.step # "unlink" /\ UNCHANGED <<data, control>>
  BY DEF Begin, Sync, Close, Stat, Fails, Fallible
<1>2. cursor' = cursor
  BY DEF Begin, Sync, Close, Stat, Fails, Goto, Done, Await, Leave, task
<1>3. jobs \ {j} \subseteq jobs'
  BY DEF Begin, Sync, Close, Stat, Fails, Goto, Done, Await
<1>4. Ending => Ending'
  BY <1>1, <1>3 DEF Ending
<1>5. pc' # "idle" => pc # "idle"
  BY KindsOf
  DEF Begin, Sync, Close, Stat, Fails, Goto, Done, Await, Leave, task, Company, Awaited, Kinds,
      Flushing
<1> QED BY <1>1, <1>2, <1>4, <1>5, KeepBacked

LEMMA NextBacked ==
    ASSUME Gentle, ~UnlinkFails, TypeInv, Company, Paired, Whole, Backed, [Next]_vars
    PROVE  Backed'
<1>1. CASE UNCHANGED vars
  BY <1>1 DEF vars, task, data, control, Backed, Has, DestWhole
<1>2. CASE Task \/ BodyFails \/ Cancel
  BY <1>2, TaskBacked, StartBacked, Restart200Backed, ChunkBacked DEF Task
<1>3. ASSUME NEW j \in jobs, Works(j) PROVE Backed'
  BY <1>3, OpenBacked, CreateTmpBacked, ReplaceBacked, RenameBacked, UnlinkBacked, WorksBacked
  DEF Works
<1> QED BY <1>1, <1>2, <1>3 DEF Next

LEMMA BackedHolds == Backed => DestWhole /\ CtrlBacked
BY DEF Backed, CtrlBacked, Has

-----------------------------------------------------------------------------
(* Without a failure, what has been received is saved.                     *)

NoFlushClose(S) == \A k \in S : k.kind # "flushclose"

LEMMA NoneFlushing ==
    ASSUME TypeInv, Company, pc \notin Flushing
    PROVE  NoFlushClose(jobs)
BY KindsOf DEF NoFlushClose, Company, Awaited

LEMMA OthersFlushing ==
    ASSUME TypeInv, Company, NEW j \in jobs, pc \notin Flushing \/ j.awaited
    PROVE  NoFlushClose(jobs \ {j})
<1>1. CASE j.awaited
  BY <1>1, OthersOrphans DEF NoFlushClose, Orphan
<1>2. CASE pc \notin Flushing
  BY <1>2, NoneFlushing DEF NoFlushClose
<1> QED BY <1>1, <1>2

LEMMA FlushedIdle ==
    ASSUME Gentle, TypeInv, Company, outcome = "flushed" => pc = "idle", [Next]_vars
    PROVE  outcome' = "flushed" => pc' = "idle"
<1>1. ASSUME NEW o, Leave(o) PROVE pc' = "idle"
  BY <1>1 DEF Leave
<1>2. ASSUME NEW at, NEW kind, NEW others, Await(at, kind, others) PROVE outcome' = outcome
  BY <1>2 DEF Await
<1>3. CASE UNCHANGED task
  BY <1>3 DEF task
<1>4. CASE Task \/ BodyFails \/ Cancel
  <2>1. pc = "idle" => ~Cancel
    BY AsyncAssumption DEF Cancel
  <2> QED BY <1>1, <1>2, <1>4, <2>1
          DEF Task, Start, Resume206, Restart200, Complete416, Chunk, BodyEnds, BodyFails, Cancel
<1>5. ASSUME NEW j \in jobs, Works(j) PROVE outcome' = "flushed" => pc' = "idle"
  <2>1. ASSUME Done(j) PROVE outcome' = "flushed" => pc' = "idle"
    BY <1>1, <1>2, <1>3, <2>1 DEF Done
  <2>2. ASSUME NEW k, Goto(j, k) PROVE outcome' = "flushed" => pc' = "idle"
    BY <1>3, <2>2 DEF Goto
  <2>3. CASE Open(j)
    BY <1>3, <2>3, KindsOf DEF Open, Company, Awaited, Stepwise, Kinds
  <2>4. CASE Fails(j)
    BY <1>1, <1>2, <1>3, <2>2, <2>4, FailsTo
  <2> QED BY <1>5, <2>1, <2>2, <2>3, <2>4
          DEF Works, Begin, Sync, CreateTmp, WriteTmp, Replace, Close, Stat, Rename, Unlink
<1> QED BY <1>3, <1>4, <1>5 DEF Next, vars

(* The attempt is over, with anything but a flush after a cancellation.    *)
LEMMA LeaveBehind ==
    ASSUME NEW o, o # "flushed", Leave(o), NoFlushClose(jobs')
    PROVE  Behind'
BY DEF Leave, Behind, NoFlushClose, Saving

Kept == ctrl' = ctrl /\ (ctrl # None => content'[ctrl] = content[ctrl])

LEMMA KeepOwed ==
    ASSUME Kept, Owed, UNCHANGED <<cursor, dirty>>
    PROVE  Owed'
BY DEF Kept, Owed, Saved

LEMMA KeepBehind ==
    ASSUME Kept, Behind, UNCHANGED <<cursor, dirty, outcome>>,
           pc' = pc \/ (pc = "open" /\ pc' = "stream"),
           faults' = 0 => faults = 0,
           \A k \in jobs' : k.kind = "flushclose" => k \in jobs
    PROVE  Behind'
<1>1. Owed => Owed'
  BY KeepOwed
<1>2. \A n : Saved(n) => Saved(n)'
  BY DEF Kept, Saved
<1>3. ASSUME NEW k, Saving(k) PROVE Saving(k)'
  <2>1. Saved(cursor) => Saved(cursor)'
    BY <1>2 DEF Saved
  <2> QED BY <1>1, <1>3, <2>1 DEF Saving
<1>4. Saved(cursor) => Saved(cursor)'
  BY <1>2 DEF Saved
<1>5. \A k \in jobs' : (\A j \in jobs : Saving(j)) => Saving(k)'
  <2> TAKE k \in jobs'
  <2>1. CASE k \in jobs
    BY <1>3, <2>1
  <2>2. CASE k.kind # "flushclose"
    BY <2>2 DEF Saving
  <2> QED BY <2>1, <2>2
<1> HIDE DEF Saving, Owed, Saved, Kept
<1> QED BY <1>1, <1>4, <1>5 DEF Behind

(* The task awaits a job.                                                  *)
LEMMA AwaitBehind ==
    ASSUME TypeInv, Kept, NEW at, NEW kind \in Kinds, NEW others, Await(at, kind, others),
           NoFlushClose(others), outcome # "flushed",
           at = "open" \/ at \notin {"request", "open", "stream", "flush"},
           faults' = 0 => (at = "open" \/ kind = "flushclose" => Owed)
    PROVE  Behind'
<1>1. PICK s : s = Submit(kind, fd, cursor, dirty)
  OBVIOUS
<1>2. s.kind = kind /\ s.step = "queued" /\ (s.saves <=> dirty > 0)
  BY <1>1, Submitted DEF TypeInv, TaskType
<1>3. jobs' = others \cup {s} /\ UNCHANGED <<cursor, dirty, outcome>> /\ pc' = at
  BY <1>1 DEF Await
<1>4. Owed => Owed'
  BY <1>3, KeepOwed
<1>5. \A k \in others : Saving(k)'
  BY DEF NoFlushClose, Saving
<1>6. faults' = 0 => Saving(s)'
  BY <1>2, <1>3, <1>4 DEF Saving
<1> HIDE DEF Saving, Owed, Saved
<1> QED BY <1>3, <1>4, <1>5, <1>6 DEF Behind

LEMMA TaskBehind ==
    ASSUME Gentle, TypeInv, Company, Behind, Task \/ BodyFails \/ Cancel
    PROVE  Behind'
<1>1. Kept /\ UNCHANGED control
  BY DEF Kept, control, Task, Start, Resume206, Restart200, Complete416, Chunk, BodyEnds,
         BodyFails, Cancel
<1>2. faults \in Nat /\ (faults' = 0 => faults = 0)
  BY AsyncAssumption DEF Task, Start, Resume206, Restart200, Complete416, Chunk, BodyEnds,
         BodyFails, Cancel, Fault, TypeInv, budget
<1>3. pc # "idle" => outcome # "flushed"
  BY DEF Behind
<1>4. pc \notin Flushing => NoFlushClose(jobs)
  BY NoneFlushing
<1>5. CASE Start
  <2>1. NoFlushClose(jobs) /\ jobs' = jobs /\ pc' = "request" /\ outcome' = "none" /\ dirty' = 0
    BY <1>4, <1>5 DEF Start, Flushing
  <2>2. cursor' = (IF ctrl = None \/ content[ctrl] = Torn THEN 0 ELSE content[ctrl])
    BY <1>5 DEF Start
  <2>3. cursor' > 0 => Saved(cursor)'
    BY <1>1, <2>2 DEF Saved, control
  <2>4. cursor' \in Nat
    BY <1>5, StartType, AsyncAssumption DEF TypeInv, TaskType
  <2>5. Owed'
    <3>2. dirty' = 0
      BY <2>1
    <3>1. ASSUME NEW c \in Nat PROVE c - 0 = c /\ (0 < c => c > 0)
      OBVIOUS
    <3> QED BY <2>3, <2>4, <3>1, <3>2 DEF Owed, Saved
  <2> QED BY <2>1, <2>5 DEF Behind, NoFlushClose, Saving
<1>6. CASE Resume206
  <2>1. CASE Await("open", "open", jobs)
    BY <1>1, <1>2, <1>3, <1>4, <1>6, <2>1, AwaitBehind DEF Resume206, Flushing, Kinds, Behind
  <2>2. CASE Leave("error") /\ UNCHANGED jobs
    BY <1>4, <1>6, <2>2, LeaveBehind DEF Resume206, Flushing
  <2> QED BY <1>6, <2>1, <2>2 DEF Resume206
<1>7. CASE Restart200
  <2>1. NoFlushClose(jobs')
    BY <1>4, <1>7 DEF Restart200, Flushing, NoFlushClose, Submit
  <2>2. cursor' = 0 /\ dirty' \in Nat /\ pc' = "open" /\ outcome' = outcome /\ outcome # "flushed"
    BY <1>3, <1>7, AsyncAssumption DEF Restart200, TypeInv, TaskType
  <2> QED BY <2>1, <2>2 DEF Behind, Owed, NoFlushClose, Saving
<1>8. CASE Complete416
  BY <1>1, <1>2, <1>3, <1>4, <1>8, AwaitBehind DEF Complete416, Flushing, Kinds
<1>9. ASSUME NEW n \in 1 .. MaxChunk, Chunk(n) PROVE Behind'
  <2>1. cursor' = cursor + n /\ dirty' = dirty + n /\ cursor \in Nat /\ dirty \in Nat /\ n \in Nat
    BY <1>9, AsyncAssumption DEF Chunk, TypeInv, TaskType
  <2>2. pc = "stream" /\ pc' \in {"stream", "flush"} /\ outcome' = outcome
    BY <1>9 DEF Chunk
  <2>3. faults' = 0 => Owed
    BY <1>2, <2>2 DEF Behind
  <2>4. Owed => Owed'
    <3>1. cursor' - dirty' = cursor - dirty /\ (dirty' < cursor' => dirty < cursor)
      BY <2>1
    <3> QED BY <1>1, <3>1 DEF Owed, Saved, Kept
  <2>5. NoFlushClose(jobs')
    BY <1>4, <1>9, <2>2 DEF Chunk, Flushing, NoFlushClose, Submit
  <2> QED BY <1>3, <2>2, <2>3, <2>4, <2>5 DEF Behind, NoFlushClose, Saving
<1>10. CASE BodyEnds
  BY <1>1, <1>2, <1>3, <1>4, <1>10, AwaitBehind DEF BodyEnds, Flushing, Kinds
<1>11. CASE BodyFails
  <2>1. faults' # 0
    BY <1>2, <1>11 DEF BodyFails, Fault
  <2> QED BY <1>1, <1>3, <1>4, <1>11, <2>1, AwaitBehind DEF BodyFails, Flushing, Kinds
<1>12. CASE Cancel
  <2>1. NoFlushClose(LeftBehind)
    BY <1>12, LeftOrphans DEF NoFlushClose, Orphan
  <2>2. CASE Await("cancel_flush", "flushclose", LeftBehind) /\ pc \in {"stream", "flush"}
    BY <1>1, <1>2, <1>3, <2>1, <2>2, AwaitBehind DEF Kinds, Behind
  <2>3. CASE Leave("cancelled") /\ jobs' = LeftBehind
    BY <2>1, <2>3, LeaveBehind
  <2> QED BY <1>12, <2>2, <2>3 DEF Cancel
<1> QED BY <1>5, <1>6, <1>7, <1>8, <1>9, <1>10, <1>11, <1>12 DEF Task

LEMMA DoneBehind ==
    ASSUME TypeInv, Company, Behind, NEW j \in jobs, Done(j), j.kind # "flush",
           j.kind = "flushclose" => j.step = "close", Kept, UNCHANGED faults
    PROVE  Behind'
<1> DEFINE rest == jobs \ {j}
<1>1. CASE ~j.awaited
  <2>1. jobs' = rest /\ UNCHANGED task
    BY <1>1 DEF Done
  <2>2. UNCHANGED <<cursor, dirty, outcome>> /\ pc' = pc /\ (faults' = 0 => faults = 0)
    BY <2>1 DEF task
  <2>3. \A k \in jobs' : k.kind = "flushclose" => k \in jobs
    BY <2>1
  <2> QED BY <2>2, <2>3, KeepBehind
<1>2. CASE j.awaited
  <2>1. NoFlushClose(rest) /\ Awaited(j) /\ pc # "flush"
    BY <1>2, OthersFlushing, KindsOf DEF Company, Awaited, Kinds, Flushing
  <2>2. ASSUME NEW o, o # "flushed", Leave(o), jobs' = rest PROVE Behind'
    BY <2>1, <2>2, LeaveBehind
  <2>3. CASE pc = "cancel_flush" /\ Leave("flushed") /\ jobs' = rest
    <3>1. j.kind = "flushclose" /\ j.step = "close"
      BY <2>1, <2>3, KindsOf DEF Awaited, Kinds
    <3>2. faults' = 0 => (cursor > 0 => Saved(cursor))
      BY <3>1 DEF Behind, Saving
    <3>3. cursor' = cursor /\ outcome' = "flushed" /\ pc' = "idle"
      BY <2>3 DEF Leave
    <3>4. faults' = 0 => (cursor' > 0 => Saved(cursor'))
      BY <3>2, <3>3
    <3> QED BY <2>1, <2>3, <3>2, <3>3 DEF Behind, Saved, Kept, NoFlushClose, Saving
  <2>4. CASE /\ pc = "final_sync"
             /\ Await("after", IF cursor < Length THEN "short" ELSE "finish", rest)
    BY <2>1, <2>4, AwaitBehind DEF Behind, Kinds
  <2> QED BY <1>2, <2>1, <2>2, <2>3, <2>4 DEF Done
<1> QED BY <1>1, <1>2, KindsOf

LEMMA GotoBehind ==
    ASSUME TypeInv, Company, Behind, NEW j \in jobs, NEW k, Goto(j, k), Same(k, j), Kept,
           faults' = 0 => faults = 0,
           (faults' = 0 /\ j.kind = "flushclose") =>
               /\ j.step # "close"
               /\ k.step = "close" => j.step = "queued" /\ ~j.saves
    PROVE  Behind'
<1>1. UNCHANGED <<cursor, dirty, outcome>> /\ pc' = pc /\ jobs' = (jobs \ {j}) \cup {k}
  BY DEF Goto, task
<1>2. CASE j.kind # "flushclose"
  <2>1. k.kind # "flushclose"
    BY <1>2 DEF Same
  <2>2. \A i \in jobs' : i.kind = "flushclose" => i \in jobs
    BY <1>1, <2>1
  <2> QED BY <1>1, <2>2, KeepBehind
<1>3. CASE j.kind = "flushclose"
  <2>1. j.awaited /\ Awaited(j) /\ pc \in Flushing /\ NoFlushClose(jobs \ {j})
    BY <1>3, OthersFlushing DEF Company, Awaited
  <2>2. outcome # "flushed"
    BY <2>1 DEF Behind, Flushing
  <2>3. ASSUME faults' = 0 PROVE Saving(k)'
    <3>1. Saving(j) /\ j.step # "close" /\ (k.step = "close" => j.step = "queued" /\ ~j.saves)
      BY <1>3, <2>3 DEF Behind
    <3>2. Owed /\ (j.saves <=> dirty > 0)
      BY <1>3, <3>1 DEF Saving
    <3>3. Owed'
      BY <1>1, <3>2, KeepOwed
    <3>4. k.step = "close" => dirty = 0
      BY <3>1, <3>2, AsyncAssumption DEF TypeInv, TaskType
    <3>5. k.step = "close" => (cursor > 0 => Saved(cursor)')
      <4>1. cursor - 0 = cursor
        BY AsyncAssumption DEF TypeInv, TaskType
      <4> QED BY <1>1, <3>3, <3>4, <4>1 DEF Owed
    <3> QED BY <1>1, <3>2, <3>3, <3>5 DEF Saving, Same, Saved
  <2>4. pc' \notin {"request", "open", "stream", "flush"}
    BY <1>1, <2>1 DEF Flushing
  <2> QED BY <1>1, <2>1, <2>2, <2>3, <2>4 DEF Behind, NoFlushClose, Saving
<1> QED BY <1>2, <1>3

LEMMA ReplaceBehind ==
    ASSUME TypeInv, Company, Whole, Behind, NEW j \in jobs, Replace(j)
    PROVE  Behind'
<1>1. /\ j.awaited /\ Awaited(j) /\ j.kind \in {"flush", "flushclose", "short"} /\ j.ok
      /\ NoFlushClose(jobs \ {j}) /\ faults' = faults
  BY Writer, OthersFlushing DEF Replace, Writing, budget
<1>2. Saved(cursor)' \/ cursor' # cursor
  BY Replaced DEF Saved
<1>3. cursor \in Nat
  BY AsyncAssumption DEF TypeInv, TaskType
<1>4. CASE j.kind = "flushclose"
  <2>1. PICK k : k = [j EXCEPT !.step = "close"]
    OBVIOUS
  <2>9. j \in Job /\ "close" \in Steps
    BY KindsOf DEF Steps
  <2>2. Same(k, j) /\ k.step = "close"
    BY <2>1, <2>9, Moved
  <2>3. UNCHANGED <<pc, cursor, dirty, outcome>> /\ jobs' = (jobs \ {j}) \cup {k}
    BY <1>4, <2>1 DEF Replace, Goto, task
  <2>4. pc \in Flushing /\ pc' = pc
    BY <1>1, <1>4, <2>3 DEF Awaited
  <2>5. outcome' # "flushed"
    BY <2>3, <2>4 DEF Behind, Flushing
  <2>6. faults' = 0 => (k.saves <=> dirty > 0)
    BY <1>1, <1>4, <2>2 DEF Behind, Saving, Same
  <2>7. faults' = 0 => Saving(k)'
    BY <1>2, <2>2, <2>3, <2>6 DEF Saving, Same
  <2>8. pc' \notin {"request", "open", "stream", "flush"}
    BY <2>4 DEF Flushing
  <2> QED BY <1>1, <2>3, <2>5, <2>7, <2>8 DEF Behind, NoFlushClose, Saving
<1>5. CASE j.kind = "flush"
  <2>1. pc = "flush"
    BY <1>1, <1>5 DEF Awaited
  <2>2. /\ pc' = "stream" /\ dirty' = 0 /\ jobs' = jobs \ {j}
        /\ UNCHANGED <<cursor, fd, outcome>>
    BY <1>1, <1>5, <2>1 DEF Replace, Done, Flushing
  <2>3. Owed'
    <3>1. cursor - 0 = cursor
      BY <1>3
    <3> QED BY <1>2, <2>2, <3>1 DEF Owed, Saved
  <2> QED BY <1>1, <2>1, <2>2, <2>3 DEF Behind, NoFlushClose, Saving
<1>6. CASE j.kind = "short"
  <2>1. pc = "after"
    BY <1>1, <1>6 DEF Awaited
  <2>2. \E o \in {"partial", "complete"} : Leave(o) /\ jobs' = jobs \ {j}
    BY <1>1, <1>6, <2>1 DEF Replace, Done, Flushing
  <2> QED BY <1>1, <2>2, LeaveBehind
<1> QED BY <1>1, <1>4, <1>5, <1>6

LEMMA UnlinkBehind ==
    ASSUME TypeInv, Company, Behind, NEW j \in jobs, Unlink(j)
    PROVE  Behind'
<1>1. j.awaited /\ pc = "after" /\ j.ok /\ NoFlushClose(jobs \ {j})
  BY KindsOf, OthersFlushing DEF Unlink, Company, Stepwise, Kinds, Awaited
<1>2. \E o \in {"partial", "complete"} : Leave(o) /\ jobs' = jobs \ {j}
  BY <1>1 DEF Unlink, Done, Flushing
<1> QED BY <1>1, <1>2, LeaveBehind

LEMMA OpenBehind ==
    ASSUME TypeInv, Company, Behind, NEW j \in jobs, Open(j)
    PROVE  Behind'
<1>1. UNCHANGED <<cursor, dirty, outcome, faults>> /\ Kept /\ jobs' = jobs \ {j}
  BY DEF Open, task, budget, control, Kept
<1>2. pc' = pc \/ (pc = "open" /\ pc' = "stream")
  BY KindsOf DEF Open, task, Company, Stepwise, Awaited, Kinds
<1>3. \A k \in jobs' : k.kind = "flushclose" => k \in jobs
  BY <1>1
<1> QED BY <1>1, <1>2, <1>3, KeepBehind

LEMMA StepBehind ==
    ASSUME TypeInv, Company, Whole, Behind, NEW j \in jobs,
           Begin(j) \/ Sync(j) \/ CreateTmp(j) \/ WriteTmp(j) \/ Stat(j) \/ Rename(j)
    PROVE  Behind'
<1>1. UNCHANGED faults
  BY DEF Begin, Sync, CreateTmp, WriteTmp, Stat, Rename, budget
<1>2. Kept
  <2>1. CASE CreateTmp(j) \/ WriteTmp(j)
    BY <2>1, KeepsControl DEF Kept
  <2>2. CASE UNCHANGED control
    BY <2>2 DEF control, Kept
  <2> QED BY <2>1, <2>2 DEF Begin, Sync, Stat, Rename
<1>3. \E k : /\ Goto(j, k) /\ Same(k, j)
             /\ j.kind = "flushclose" =>
                    /\ j.step # "close"
                    /\ k.step = "close" => j.step = "queued" /\ ~j.saves
  <2>0. /\ j \in Job /\ First(j) \in Steps
        /\ {"create", "write", "replace", "close", "rename", "unlink"} \subseteq Steps
    BY KindsOf DEF First, Steps, Kinds
  <2>1. CASE Begin(j)
    <3>1. PICK k : k = [j EXCEPT !.step = First(j)]
      OBVIOUS
    <3>2. Same(k, j) /\ k.step = First(j) /\ Goto(j, k) /\ j.step = "queued"
      BY <2>0, <2>1, <3>1, Moved DEF Begin
    <3>3. j.kind = "flushclose" => (First(j) = "close" => ~j.saves)
      BY DEF First
    <3> QED BY <3>2, <3>3
  <2>2. CASE Sync(j)
    <3>1. PICK k : k = [j EXCEPT !.step = IF j.kind = "syncclose" THEN "close" ELSE "create"]
      OBVIOUS
    <3>2. j.kind = "syncclose" => Same(k, j)
      BY <2>0, <3>1, Moved
    <3>3. j.kind # "syncclose" => Same(k, j) /\ k.step = "create"
      BY <2>0, <3>1, Moved
    <3>4. Goto(j, k) /\ j.step = "sync"
      BY <2>2, <3>1 DEF Sync
    <3> QED BY <3>2, <3>3, <3>4
  <2>3. CASE CreateTmp(j)
    <3>1. PICK t : t = IF tmp # None THEN tmp ELSE FreeInode
      OBVIOUS
    <3>2. t \in Inode \cup {None}
      BY <2>3, <3>1, NewInode DEF CreateTmp, TypeInv, DiskType
    <3> DEFINE k == [j EXCEPT !.step = "write", !.tmp = t]
    <3>3. j \in Job /\ "write" \in Steps
      BY KindsOf DEF Steps
    <3>4. Same(k, j)
      BY <3>2, <3>3, MovedTmp
    <3>7. k.step = "write"
      BY <3>3 DEF Job
    <3>5. Goto(j, k)
      BY <2>3, <3>1 DEF CreateTmp
    <3>6. j.step = "create"
      BY <2>3 DEF CreateTmp
    <3> HIDE DEF k
    <3> QED BY <3>4, <3>5, <3>6, <3>7
  <2>4. CASE WriteTmp(j)
    <3> DEFINE k == [j EXCEPT !.step = "replace", !.tmp = None]
    <3>3. j \in Job /\ "replace" \in Steps /\ None \in Inode \cup {None}
      BY KindsOf DEF Steps
    <3>4. Same(k, j)
      BY <3>3, MovedTmp
    <3>7. k.step = "replace"
      BY <3>3 DEF Job
    <3>5. Goto(j, k)
      BY <2>4 DEF WriteTmp
    <3>6. j.step = "write"
      BY <2>4 DEF WriteTmp
    <3> HIDE DEF k
    <3> QED BY <3>4, <3>5, <3>6, <3>7
  <2>5. CASE Stat(j) \/ Rename(j)
    <3>1. ASSUME NEW s \in {"rename", "unlink"}
          PROVE  Same([j EXCEPT !.step = s], j)
      BY <2>0, Moved
    <3>2. j.kind # "flushclose"
      BY <2>5 DEF Stat, Rename, Company, Stepwise
    <3> QED BY <2>5, <3>1, <3>2 DEF Stat, Rename
  <2> QED BY <2>1, <2>2, <2>3, <2>4, <2>5
<1> QED BY <1>1, <1>2, <1>3, GotoBehind

LEMMA FailsBehind ==
    ASSUME TypeInv, Company, Paired, Whole, Behind, NEW j \in jobs, Fails(j)
    PROVE  Behind'
<1>1. Kept /\ faults \in Nat /\ (faults' = 0 => faults = 0)
  BY AsyncAssumption DEF Fails, Kept, control, Fault, budget, TypeInv
<1>2. faults' = 0 => j.kind \in {"open", "finish"}
  <2> SUFFICES ASSUME faults' = 0 PROVE j.kind \in {"open", "finish"}
    OBVIOUS
  <2>1. Broken(j)
    BY <1>1 DEF Fails, Fault
  <2>2. j.step # "sync" \/ fds[j.fd] # None
    BY KindsOf DEF Paired, Holds, Company, Stepwise, Kinds
  <2>3. j.step # "replace" \/ tmp # None
    BY DEF Whole
  <2> QED BY <2>1, <2>2, <2>3, KindsOf DEF Broken, Company, Stepwise, Kinds
<1>3. ASSUME NEW k, Goto(j, k), Same(k, j), j.kind \in {"flushclose", "syncclose"}
      PROVE  Behind'
  BY <1>1, <1>2, <1>3, GotoBehind
<1>4. CASE jobs' = jobs \ {j} /\ UNCHANGED task
  <2>1. UNCHANGED <<cursor, dirty, outcome>> /\ pc' = pc
    BY <1>4 DEF task
  <2>2. \A k \in jobs' : k.kind = "flushclose" => k \in jobs
    BY <1>4
  <2> QED BY <1>1, <2>1, <2>2, KeepBehind
<1>5. CASE j.awaited /\ Leave("error") /\ jobs' = jobs \ {j}
  BY <1>5, OthersFlushing, LeaveBehind
<1>6. CASE /\ j.awaited /\ j.kind = "flush" /\ pc = "flush"
           /\ Await("raise_flush", "flushclose", jobs \ {j})
  <2>1. faults' # 0 /\ NoFlushClose(jobs \ {j}) /\ outcome # "flushed"
    BY <1>2, <1>6, OthersFlushing DEF Behind
  <2> QED BY <1>1, <1>6, <2>1, AwaitBehind DEF Kinds
<1> QED BY <1>3, <1>4, <1>5, <1>6, FailsTo

LEMMA NextBehind ==
    ASSUME Gentle, TypeInv, Company, Paired, Whole, Behind, [Next]_vars
    PROVE  Behind'
<1>1. CASE UNCHANGED vars
  <2>1. Kept /\ UNCHANGED <<cursor, dirty, outcome>> /\ pc' = pc /\ faults' = faults /\ jobs' = jobs
    BY <1>1 DEF vars, task, control, budget, Kept
  <2> QED BY <2>1, KeepBehind
<1>2. ASSUME NEW j \in jobs, Close(j) PROVE Behind'
  <2>1. Done(j) /\ Kept /\ UNCHANGED faults
    BY <1>2 DEF Close, control, budget, Kept
  <2>2. j.step = "close" /\ j.kind # "flush"
    BY <1>2 DEF Close, Company, Stepwise
  <2> QED BY <2>1, <2>2, DoneBehind
<1>3. ASSUME NEW j \in jobs, Works(j) PROVE Behind'
  BY <1>2, <1>3, StepBehind, OpenBehind, ReplaceBehind, UnlinkBehind, FailsBehind DEF Works
<1> QED BY <1>1, <1>3, TaskBehind DEF Next

-----------------------------------------------------------------------------
(* What is proved of every cancellation that leaves no writer behind.      *)

LEMMA InitInv == Init => IInv
<1> SUFFICES ASSUME Init PROVE IInv
  OBVIOUS
<1>1. TypeInv
  BY InitType
<1>2. Company /\ Paired /\ Whole /\ Behind
  BY DEF Init, Company, Paired, Whole, CtrlWhole, Behind
<1>3. Accounted
  BY DEF Init, Accounted
<1>4. Backed
  BY DEF Init, Backed, DestWhole
<1> QED BY <1>1, <1>2, <1>3, <1>4 DEF IInv

LEMMA NextInv ==
    ASSUME Gentle, IInv, [Next]_vars
    PROVE  IInv'
<1>1. TypeInv' /\ Company'
  BY StepType, StepCompany DEF IInv
<1>2. Paired' /\ Accounted'
  BY NextPaired, NextAccounted DEF IInv
<1>3. Whole' /\ Behind' /\ (~UnlinkFails => Backed')
  BY NextWhole, NextBacked, NextBehind DEF IInv
<1> QED BY <1>1, <1>2, <1>3 DEF IInv

LEMMA Inductive == Gentle => (Spec => []IInv)
<1> SUFFICES ASSUME Gentle PROVE Spec => []IInv
  OBVIOUS
<1>1. IInv /\ [Next]_vars => IInv'
  BY NextInv
<1> QED BY <1>1, InitInv, PTL DEF Spec

(* A thread that is about to sync or close a descriptor finds it open and  *)
(* referring to the file it was handed.                                    *)
THEOREM DescriptorsOwned == Gentle => (Spec => []DescriptorOwned)
<1> SUFFICES ASSUME Gentle PROVE Spec => []DescriptorOwned
  OBVIOUS
<1>1. IInv => DescriptorOwned
  <2> SUFFICES ASSUME IInv, NEW j \in jobs, j.step \in {"sync", "close"} PROVE Owned(j)
    BY DEF DescriptorOwned
  <2>1. Holds(j)
    BY KindsOf DEF IInv, Company, Stepwise, Holds, Kinds
  <2> QED BY <2>1 DEF IInv, Paired, Owned
<1> QED BY <1>1, Inductive, PTL

(* Two jobs never write the temporary file of the checkpoint.              *)
THEOREM OneWriterAtATime == Gentle => (Spec => []OneWriter)
<1> SUFFICES ASSUME Gentle PROVE Spec => []OneWriter
  OBVIOUS
<1>1. IInv => OneWriter
  BY OneWriterHolds DEF IInv
<1> QED BY <1>1, Inductive, PTL

(* Without a cancellation no attempt leaves its descriptor open, whatever  *)
(* fails and wherever.                                                     *)
THEOREM NothingLeaks == Gentle => (Spec => []NoLeak)
<1> SUFFICES ASSUME Gentle PROVE Spec => []NoLeak
  OBVIOUS
<1>1. IInv => NoLeak
  BY DEF IInv, Accounted, NoLeak
<1> QED BY <1>1, Inductive, PTL

(* Nobody closes the descriptor of a task that streams.                    *)
THEOREM StreamStaysOpen == Gentle => (Spec => []StreamOpen)
<1> SUFFICES ASSUME Gentle PROVE Spec => []StreamOpen
  OBVIOUS
<1>1. IInv => StreamOpen
  BY DEF IInv, Paired, StreamOpen
<1> QED BY <1>1, Inductive, PTL

(* A reader of the control file finds a whole checkpoint or no file,       *)
(* whichever step of write_atomic fails.                                   *)
THEOREM CheckpointsWhole == Gentle => (Spec => []CtrlWhole)
<1> SUFFICES ASSUME Gentle PROVE Spec => []CtrlWhole
  OBVIOUS
<1>1. IInv => CtrlWhole
  BY DEF IInv, Whole
<1> QED BY <1>1, Inductive, PTL

(* What a checkpoint vouches for is in .part, outside of finalize, also    *)
(* when jobs of a cancelled attempt are still at work: as long as no       *)
(* unlink fails.                                                           *)
THEOREM CheckpointsBacked == Gentle /\ ~UnlinkFails => (Spec => []CtrlBacked)
<1> SUFFICES ASSUME Gentle, ~UnlinkFails PROVE Spec => []CtrlBacked
  OBVIOUS
<1>1. IInv => CtrlBacked
  BY BackedHolds DEF IInv
<1> QED BY <1>1, Inductive, PTL

(* A destination holds every byte of the resource, if no unlink fails.     *)
THEOREM DestinationWhole == Gentle /\ ~UnlinkFails => (Spec => []DestWhole)
<1> SUFFICES ASSUME Gentle, ~UnlinkFails PROVE Spec => []DestWhole
  OBVIOUS
<1>1. IInv => DestWhole
  BY BackedHolds DEF IInv
<1> QED BY <1>1, Inductive, PTL

(* No step takes away what is at the destination.                          *)
LEMMA DestStays ==
    ASSUME TypeInv, [Next]_vars, dest # None
    PROVE  dest' # None
<1> USE DEF data
<1>1. CASE UNCHANGED vars
  BY <1>1 DEF vars
<1>2. CASE Task
  BY <1>2 DEF Task, Start, Resume206, Restart200, Complete416, Chunk, BodyEnds
<1>3. CASE BodyFails \/ Cancel
  BY <1>3 DEF BodyFails, Cancel
<1>4. ASSUME NEW j \in jobs, Works(j) PROVE dest' # None
  <2>1. CASE Rename(j)
    BY <2>1 DEF Rename
  <2>2. CASE ~Rename(j)
    BY <1>4, <2>2 DEF Works, Begin, Open, Sync, CreateTmp, WriteTmp, Replace, Close,
       Stat, Unlink, Fails
  <2> QED BY <2>1, <2>2
<1> QED BY <1>1, <1>2, <1>3, <1>4 DEF Next

(* The one task and its jobs, whoever is left behind and whatever fails    *)
(* but an unlink, implement the atomic delivery of the complete resource.  *)
THEOREM ImplementsDelivery == Gentle /\ ~UnlinkFails => (Spec => DeliversAtomically)
<1> SUFFICES ASSUME Gentle, ~UnlinkFails PROVE Spec => DeliversAtomically
  OBVIOUS
<1>1. Init => Delivery!Init
  BY DEF Init, Delivery!Init
<1>2. IInv /\ [Next]_vars => [Delivery!Next]_(Delivery!delivery)
  <2> SUFFICES ASSUME IInv, [Next]_vars PROVE [Delivery!Next]_(Delivery!delivery)
    OBVIOUS
  <2>1. DestWhole /\ DestWhole'
    <3>1. IInv'
      BY NextInv
    <3> QED BY <3>1, BackedHolds DEF IInv, Backed
  <2>2. CASE dest' = None
    <3>1. dest = None
      BY <2>2, DestStays DEF IInv
    <3> QED BY <2>2, <3>1 DEF Delivery!delivery
  <2>3. CASE dest' # None
    <3>1. good'[dest'] = Offset'
      BY <2>1, <2>3 DEF DestWhole
    <3> QED BY <2>3, <3>1 DEF Delivery!Next, Delivery!Deliver
  <2> QED BY <2>2, <2>3
<1> QED
  BY <1>1, <1>2, Inductive, InitInv, NextInv, PTL DEF Spec, DeliversAtomically, Delivery!Spec

(* A task that is cancelled while it streams leaves a checkpoint of all it *)
(* has received, unless something else failed.                             *)
THEOREM CancellationSaves == Gentle => (Spec => []CancelSaves)
<1> SUFFICES ASSUME Gentle PROVE Spec => []CancelSaves
  OBVIOUS
<1>1. IInv => CancelSaves
  BY DEF IInv, Behind, Saved, CancelSaves
<1> QED BY <1>1, Inductive, PTL
=============================================================================
