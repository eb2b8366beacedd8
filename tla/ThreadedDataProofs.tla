------------------------- MODULE ThreadedDataProofs -------------------------
(***************************************************************************)
(* What the files of module ThreadedHaul hold, for any number of threads   *)
(* and descriptors, any resources and any number of failures: every        *)
(* checkpoint is covered by synced bytes of its own resource, and what is  *)
(* at a destination is the whole resource, until a descriptor is closed    *)
(* under its owner or an os.write comes short.                             *)
(***************************************************************************)
EXTENDS ThreadedHaulProofs

USE ThreadAssumption, StorageAssumption DEF ThreadAssumption, StorageAssumption

-----------------------------------------------------------------------------
(* The inductive invariant, one thread at a time.                          *)

(* The first n bytes of .part are those of the resource.                   *)
Held(t, n) ==
    /\ n <= Length[t] /\ n <= part[t].size
    /\ Agrees(part[t].data, Body[t], n)

Flushed(t, n) == \A i \in Offset : i < n => i \in synced[t]

(* What lies beyond the end of .part reads as Zero.                        *)
Clean(t) == \A i \in Offset : i >= part[t].size => part[t].data[i] = Zero

(* The final flush is done, and nothing has been decided since.            *)
Drained(t) == pc[t] = "after" \/ (pc[t] = "finally" /\ then[t] = "after")

(* A checkpoint vouches for a prefix that is on the disk.                  *)
Covered(t) ==
    ctrl[t].text = "whole" /\ pc[t] # "unlink" =>
        Held(t, ctrl[t].cursor) /\ Flushed(t, ctrl[t].cursor)

(* So does the cursor, but for the disk.                                   *)
Arrived(t) == pc[t] \notin {"idle", "unlink"} => Held(t, cursor[t])

(* The next byte of the resource is written where it belongs.              *)
Placed(t) == HoldsPart(t) /\ pc[t] # "allocate" => fds[fd[t]].pos = cursor[t]

(* What the next checkpoint will say is true before write_atomic begins.   *)
Saving(t) ==
    /\ pc[t] \in UsesTmp \cup {"tmp_open"} \/ Drained(t) => Flushed(t, cursor[t])
    /\ pc[t] = "tmp_replace" => tmp[t].cursor = cursor[t]

(* The .part is all there when it is renamed.                              *)
Finishing(t) ==
    /\ pc[t] \notin {"idle", "request", "open", "unlink"} => part[t].exists
    /\ (pc[t] = "final_sync" \/ Drained(t)) /\ ~known[t] => cursor[t] = Length[t]
    /\ pc[t] = "rename" => part[t] = Whole(t)
    /\ pc[t] = "unlink" => ~part[t].exists
    /\ dest[t].exists => dest[t] = Whole(t)

Progress(t) ==
    /\ Clean(t) /\ Covered(t) /\ Arrived(t)
    /\ Placed(t) /\ Saving(t) /\ Finishing(t)

DataInv == ~stolen /\ ~short => \A t \in Thread : Progress(t)

-----------------------------------------------------------------------------
(* A step of one thread leaves the files of the others alone.              *)

(* What Progress(s) depends on is as it was.                               *)
Still(s) ==
    /\ part'[s] = part[s] /\ dest'[s] = dest[s] /\ synced'[s] = synced[s]
    /\ ctrl'[s] = ctrl[s] /\ tmp'[s] = tmp[s]
    /\ pc'[s] = pc[s] /\ then'[s] = then[s] /\ fd'[s] = fd[s]
    /\ cursor'[s] = cursor[s] /\ known'[s] = known[s]
    /\ HoldsPart(s) => fds'[fd[s]].pos = fds[fd[s]].pos

LEMMA StillProgress ==
    ASSUME NEW s \in Thread, Progress(s), Still(s)
    PROVE  Progress(s)'
<1>1. HoldsPart(s)' = HoldsPart(s) /\ Drained(s)' = Drained(s)
  BY DEF Still, HoldsPart, Drained
<1>2. /\ Clean(s)' <=> Clean(s)
      /\ \A n : (Held(s, n)' <=> Held(s, n)) /\ (Flushed(s, n)' <=> Flushed(s, n))
  BY DEF Still, Held, Flushed, Clean
<1>3. Clean(s)' /\ Covered(s)' /\ Arrived(s)' /\ Placed(s)'
  BY <1>1, <1>2 DEF Still, Progress, Covered, Arrived, Placed
<1>4. Saving(s)'
  BY <1>1, <1>2 DEF Still, Progress, Saving
<1>5. Finishing(s)'
  BY <1>1 DEF Still, Progress, Finishing, Whole
<1> QED BY <1>3, <1>4, <1>5 DEF Progress

LEMMA OpensApart ==
    ASSUME TypeInv, OwnInv, ~stolen, NEW t \in Thread, NEW kind, Unused # {},
           Opens(Lowest(Unused), kind, t), NEW s \in Thread, HoldsPart(s)
    PROVE  fds'[fd[s]] = fds[fd[s]]
<1>1. Lowest(Unused) \in Fd /\ fds[Lowest(Unused)].kind = "free"
  BY LowestUnused
<1>2. fds[fd[s]].kind = "part" /\ fd[s] \in Fd
  BY DEF OwnInv, DescriptorOwned, TypeInv, Flows, Flow
<1> QED BY <1>1, <1>2 DEF Opens, TypeInv, Table

LEMMA ClosesApart ==
    ASSUME TypeInv, OwnInv, NEW t \in Thread, NEW n \in Fd, NEW kind, Closes(n, kind, t),
           ~stolen', NEW s \in Thread, s # t, HoldsPart(s)
    PROVE  fds'[fd[s]] = fds[fd[s]]
<1>1. ~stolen /\ (fds[n].kind = "free" \/ fds[n].of = t)
  BY ClosesOwn
<1>2. fds[fd[s]].kind = "part" /\ fds[fd[s]].of = s /\ fd[s] \in Fd
  BY <1>1 DEF OwnInv, DescriptorOwned, TypeInv, Flows, Flow
<1> QED BY <1>1, <1>2 DEF Closes, TypeInv, Table

(* What a thread reads or writes through its descriptors is its own.       *)
LEMMA OwnFile ==
    ASSUME TypeInv, OwnInv, ~stolen, NEW t \in Thread
    PROVE  /\ HoldsPart(t) => fds[fd[t]].kind = "part" /\ fds[fd[t]].of = t /\ fd[t] \in Fd
           /\ pc[t] \in UsesTmp => fds[tfd[t]].kind = "tmp" /\ fds[tfd[t]].of = t /\ tfd[t] \in Fd
BY DEF OwnInv, DescriptorOwned, TypeInv, Flows, Flow

LEMMA OthersStill ==
    ASSUME TypeInv, OwnInv, NEW t \in Thread, Step(t), ~stolen', NEW s \in Thread, s # t
    PROVE  Still(s)
<1> DEFINE Pos == HoldsPart(s) => fds'[fd[s]].pos = fds[fd[s]].pos
<1> USE DEF Still, Goto, disk, plan
<1>0. TypeInv /\ Files /\ Calls /\ Cursors
  BY DEF TypeInv
<1>1. CASE Prepare(t)
  BY <1>0, <1>1 DEF Prepare, Files, Calls, Cursors
<1>2. CASE ConnectionFails(t)
  BY <1>0, <1>2 DEF ConnectionFails, Leave, Files, Calls, Cursors
<1>3. CASE Answer(t)
  BY <1>0, <1>3 DEF Answer, Files, Calls, Cursors
<1>4. CASE Complete416(t)
  BY <1>0, <1>4 DEF Complete416, Files, Calls, Cursors
<1>5. CASE Open(t)
  <2>1. Pos
    BY <1>5, OpensApart DEF Open, past
  <2> QED BY <1>0, <1>5, <2>1 DEF Open, Leave, Files, Calls, Cursors
<1>6. CASE Allocate(t)
  <2>0. ~stolen /\ HoldsPart(t)
    BY <1>6 DEF Allocate, past, HoldsPart, UsesPart
  <2>1. fds[fd[t]].of = t /\ fd[t] \in Fd /\ (HoldsPart(s) => fds[fd[s]].of = s)
    BY <2>0, OwnFile
  <2>2. Pos
    BY <1>6, <2>1 DEF Allocate, TypeInv, Table
  <2> QED BY <1>0, <1>6, <2>1, <2>2 DEF Allocate, Files, Calls, Cursors
<1>7. CASE AllocateFails(t)
  <2>1. Pos
    BY <1>7, ClosesApart DEF AllocateFails, TypeInv, Flows, Flow, HoldsPart, UsesPart
  <2> QED BY <1>0, <1>7, <2>1 DEF AllocateFails, Leave, Files, Calls, Cursors
<1>8. ASSUME NEW n \in 1 .. MaxChunk, NEW k \in 1 .. n, WriteChunk(t, n, k)
     PROVE  Still(s)
  <2>0. ~stolen /\ HoldsPart(t)
    BY <1>8 DEF WriteChunk, HoldsPart, UsesPart
  <2>1. fds[fd[t]].of = t /\ fd[t] \in Fd /\ (HoldsPart(s) => fds[fd[s]].of = s)
    BY <2>0, OwnFile
  <2>2. Pos
    BY <1>8, <2>1 DEF WriteChunk, TypeInv, Table
  <2> QED BY <1>0, <1>8, <2>1, <2>2 DEF WriteChunk, Files, Calls, Cursors
<1>9. CASE StreamEnds(t)
  BY <1>0, <1>9 DEF StreamEnds, Files, Calls, Cursors
<1>10. CASE StreamError(t)
  BY <1>0, <1>10 DEF StreamError, Files, Calls, Cursors
<1>11. CASE Raise(t)
  BY <1>0, <1>11 DEF Raise, Unwind, Files, Calls, Cursors
<1>12. CASE Datasync(t)
  <2>0. ~stolen /\ HoldsPart(t)
    BY <1>12 DEF Datasync, past, HoldsPart, UsesPart
  <2>1. fds[fd[t]].of = t
    BY <2>0, OwnFile
  <2> QED BY <1>0, <1>12, <2>1 DEF Datasync, Unwind, Files, Calls, Cursors
<1>13. CASE OpenTmp(t)
  <2>1. Pos
    BY <1>13, OpensApart DEF OpenTmp, past
  <2> QED BY <1>0, <1>13, <2>1 DEF OpenTmp, SaveRaises, Leave, Unwind, Files, Calls, Cursors
<1>14. CASE WriteTmp(t)
  <2>0. ~stolen /\ pc[t] \in UsesTmp
    BY <1>14 DEF WriteTmp, past, UsesTmp
  <2>1. fds[tfd[t]].of = t /\ fds[tfd[t]].kind = "tmp"
    BY <2>0, OwnFile
  <2> QED BY <1>0, <1>14, <2>1 DEF WriteTmp, Files, Calls, Cursors
<1>15. CASE TmpFails(t)
  <2>1. Pos
    BY <1>15, ClosesApart DEF TmpFails, TypeInv, Flows, Flow, UsesTmp
  <2> QED BY <1>0, <1>15, <2>1 DEF TmpFails, SaveRaises, Leave, Unwind, Files, Calls, Cursors
<1>16. CASE Replace(t)
  <2>1. Pos
    BY <1>16, ClosesApart DEF Replace, TypeInv, Flows, Flow, UsesTmp
  <2> QED BY <1>0, <1>16, <2>1 DEF Replace, Leave, Files, Calls, Cursors
<1>17. CASE Close(t)
  <2>1. Pos
    BY <1>17, ClosesApart DEF Close, TypeInv, Flows, Flow, HoldsPart
  <2> QED BY <1>0, <1>17, <2>1 DEF Close, Unwind, Files, Calls, Cursors
<1>18. CASE Finally(t)
  <2>1. Pos
    BY <1>18, ClosesApart DEF Finally, TypeInv, Flows, Flow
  <2> QED BY <1>0, <1>18, <2>1 DEF Finally, Leave, Files, Calls, Cursors
<1>19. CASE AfterStreamShort(t)
  BY <1>0, <1>19 DEF AfterStreamShort, Files, Calls, Cursors
<1>20. CASE AfterStreamTrim(t)
  BY <1>0, <1>20 DEF AfterStreamTrim, Files, Calls, Cursors
<1>21. CASE FinalizeRename(t)
  BY <1>0, <1>21 DEF FinalizeRename, Files, Calls, Cursors
<1>22. CASE FinalizeUnlink(t)
  BY <1>0, <1>22 DEF FinalizeUnlink, Leave, Files, Calls, Cursors
<1> QED
  BY <1>1, <1>2, <1>3, <1>4, <1>5, <1>6, <1>7, <1>8, <1>9, <1>10, <1>11,
     <1>12, <1>13, <1>14, <1>15, <1>16, <1>17, <1>18, <1>19, <1>20, <1>21, <1>22
  DEF Step

-----------------------------------------------------------------------------
(* What the operations on a file make of its prefix.                       *)

LEMMA SameHeld ==
    ASSUME NEW t \in Thread, part'[t] = part[t]
    PROVE  (Clean(t)' <=> Clean(t)) /\ \A n \in Nat : Held(t, n)' <=> Held(t, n)
BY DEF Clean, Held

LEMMA SameFlushed ==
    ASSUME NEW t \in Thread, synced'[t] = synced[t]
    PROVE  \A n \in Nat : Flushed(t, n)' <=> Flushed(t, n)
BY DEF Flushed

LEMMA CreateHeld ==
    ASSUME NEW t \in Thread, part'[t] = Create(part[t])
    PROVE  /\ Clean(t)' <=> Clean(t)
           /\ \A n \in Nat : Held(t, n)' <=> Held(t, n)
           /\ part'[t].exists
BY DEF Clean, Held, Create

LEMMA ResizeHeld ==
    ASSUME NEW t \in Thread, NEW m \in 0 .. MaxLen, part'[t] = Resize(part[t], m)
    PROVE  /\ Clean(t)'
           /\ \A n \in Nat : n <= m /\ Held(t, n) => Held(t, n)'
           /\ part'[t].exists = part[t].exists
<1>1. /\ part'[t].size = m /\ part'[t].exists = part[t].exists
      /\ \A i \in Offset : part'[t].data[i] = IF i < m THEN part[t].data[i] ELSE Zero
  BY DEF Resize
<1>2. Clean(t)'
  BY <1>1 DEF Clean, Offset
<1>3. ASSUME NEW n \in Nat, n <= m, Held(t, n) PROVE Held(t, n)'
  <2>1. Agrees(part[t].data, Body[t], n)'
    BY <1>1, <1>3 DEF Held, Agrees, Offset
  <2> QED BY <1>1, <1>3, <2>1 DEF Held
<1> QED BY <1>1, <1>2, <1>3

(* A .part of the right size that holds the whole resource is the resource. *)
LEMMA HeldWhole ==
    ASSUME NEW t \in Thread, NEW f \in File, f.exists, f.size = Length[t],
           \A i \in Offset : i >= f.size => f.data[i] = Zero,
           Agrees(f.data, Body[t], Length[t])
    PROVE  f = Whole(t)
<1>1. f.data = Body[t]
  <2>1. ASSUME NEW i \in Offset PROVE f.data[i] = Body[t][i]
    BY DEF Agrees, Offset
  <2>2. f.data \in [Offset -> Byte] /\ Body[t] \in [Offset -> Byte]
    BY DEF File, Data
  <2> QED BY <2>1, <2>2
<1>2. f = [exists |-> f.exists, size |-> f.size, data |-> f.data] /\ f.exists \in BOOLEAN
  BY DEF File
<1> QED BY <1>1, <1>2 DEF Whole

-----------------------------------------------------------------------------
(* What a step does to the files of its own thread.                        *)

LEMMA PrepareProgress ==
    ASSUME TypeInv, OwnInv, NEW t \in Thread, Prepare(t), Progress(t), ~stolen', ~short'
    PROVE  Progress(t)'
<1> USE DEF Prepare, Goto, disk, plan, past
<1>0. Files /\ Calls /\ Cursors /\ Flow(t) /\ Table
  BY DEF TypeInv, Flows
<1>1. Clean(t)'
  BY <1>0, SameHeld DEF Progress, Files, Calls, Cursors, Flow
<1>2. Covered(t)'
  BY <1>0 DEF Progress, Covered, Held, Flushed, Files, Calls, Cursors, Flow, CtrlFile
<1>3. Arrived(t)'
  <2>1. CASE ctrl[t].text = "whole"
    BY <1>0, <2>1 DEF Progress, Covered, Arrived, Held, Files, Calls, Cursors, CtrlFile
  <2>2. CASE ctrl[t].text # "whole"
    <3>1. cursor'[t] = 0 /\ part'[t] = part[t] /\ ctrl'[t] = ctrl[t]
      BY <1>0, <2>2 DEF Cursors
    <3>2. Agrees(part[t].data, Body[t], 0)
      BY DEF Agrees, Offset
    <3>3. 0 <= Length[t] /\ 0 <= part[t].size
      BY <1>0 DEF Files, File
    <3> QED BY <2>2, <3>1, <3>2, <3>3 DEF Arrived, Held
  <2> QED BY <2>1, <2>2
<1>4. Placed(t)'
  BY <1>0 DEF Progress, Placed, HoldsPart, UsesPart, UsesTmp, Files, Calls, Cursors, Flow, Table
<1>5. Saving(t)'
  BY <1>0 DEF Progress, Saving, Drained, Flushed, UsesTmp, Files, Calls, Cursors, Flow
<1>6. Finishing(t)'
  BY <1>0 DEF Progress, Finishing, Drained, Whole, Files, Calls, Cursors, Flow
<1> QED BY <1>1, <1>2, <1>3, <1>4, <1>5, <1>6 DEF Progress

LEMMA ConnectionFailsProgress ==
    ASSUME TypeInv, OwnInv, NEW t \in Thread, ConnectionFails(t), Progress(t), ~stolen', ~short'
    PROVE  Progress(t)'
<1> USE DEF ConnectionFails, Goto, disk, plan, past, Leave
<1>0. Files /\ Calls /\ Cursors /\ Flow(t) /\ Table
  BY DEF TypeInv, Flows
<1>1. Clean(t)'
  BY <1>0, SameHeld DEF Progress, Files, Calls, Cursors, Flow
<1>2. Covered(t)'
  BY <1>0 DEF Progress, Covered, Held, Flushed, Files, Calls, Cursors, Flow, CtrlFile
<1>3. Arrived(t)'
  BY <1>0 DEF Progress, Covered, Arrived, Held, Files, Calls, Cursors, Flow, CtrlFile
<1>4. Placed(t)'
  BY <1>0 DEF Progress, Placed, HoldsPart, UsesPart, UsesTmp, Files, Calls, Cursors, Flow, Table
<1>5. Saving(t)'
  BY <1>0 DEF Progress, Saving, Drained, Flushed, UsesTmp, Files, Calls, Cursors, Flow
<1>6. Finishing(t)'
  BY <1>0 DEF Progress, Finishing, Drained, Whole, Files, Calls, Cursors, Flow
<1> QED BY <1>1, <1>2, <1>3, <1>4, <1>5, <1>6 DEF Progress

LEMMA AnswerProgress ==
    ASSUME TypeInv, OwnInv, NEW t \in Thread, Answer(t), Progress(t), ~stolen', ~short'
    PROVE  Progress(t)'
<1> USE DEF Answer, Goto, disk, plan, past
<1>0. Files /\ Calls /\ Cursors /\ Flow(t) /\ Table
  BY DEF TypeInv, Flows
<1>1. Clean(t)'
  BY <1>0, SameHeld DEF Progress, Files, Calls, Cursors, Flow
<1>2. Covered(t)'
  BY <1>0 DEF Progress, Covered, Held, Flushed, Files, Calls, Cursors, Flow, CtrlFile
<1>3. Arrived(t)'
  <2>1. part'[t] = part[t] /\ cursor'[t] \in {cursor[t], 0} /\ pc[t] = "request"
    BY <1>0 DEF Cursors
  <2>2. CASE cursor'[t] = cursor[t]
    BY <2>1, <2>2 DEF Progress, Arrived, Held
  <2>3. CASE cursor'[t] = 0
    <3>1. Agrees(part[t].data, Body[t], 0)
      BY DEF Agrees, Offset
    <3>2. 0 <= Length[t] /\ 0 <= part[t].size
      BY <1>0 DEF Files, File
    <3> QED BY <2>1, <2>3, <3>1, <3>2 DEF Arrived, Held
  <2> QED BY <2>1, <2>2, <2>3
<1>4. Placed(t)'
  BY <1>0 DEF Progress, Placed, HoldsPart, UsesPart, UsesTmp, Files, Calls, Cursors, Flow, Table
<1>5. Saving(t)'
  BY <1>0 DEF Progress, Saving, Drained, Flushed, UsesTmp, Files, Calls, Cursors, Flow
<1>6. Finishing(t)'
  BY <1>0 DEF Progress, Finishing, Drained, Whole, Files, Calls, Cursors, Flow
<1> QED BY <1>1, <1>2, <1>3, <1>4, <1>5, <1>6 DEF Progress

LEMMA AllocateFailsProgress ==
    ASSUME TypeInv, OwnInv, NEW t \in Thread, AllocateFails(t), Progress(t), ~stolen', ~short'
    PROVE  Progress(t)'
<1> USE DEF AllocateFails, Goto, disk, plan, past, Leave, Closes
<1>0. Files /\ Calls /\ Cursors /\ Flow(t) /\ Table
  BY DEF TypeInv, Flows
<1>1. Clean(t)'
  BY <1>0, SameHeld DEF Progress, Files, Calls, Cursors, Flow
<1>2. Covered(t)'
  BY <1>0 DEF Progress, Covered, Held, Flushed, Files, Calls, Cursors, Flow, CtrlFile
<1>3. Arrived(t)'
  BY <1>0 DEF Progress, Covered, Arrived, Held, Files, Calls, Cursors, Flow, CtrlFile
<1>4. Placed(t)'
  BY <1>0 DEF Progress, Placed, HoldsPart, UsesPart, UsesTmp, Files, Calls, Cursors, Flow, Table
<1>5. Saving(t)'
  BY <1>0 DEF Progress, Saving, Drained, Flushed, UsesTmp, Files, Calls, Cursors, Flow
<1>6. Finishing(t)'
  BY <1>0 DEF Progress, Finishing, Drained, Whole, Files, Calls, Cursors, Flow
<1> QED BY <1>1, <1>2, <1>3, <1>4, <1>5, <1>6 DEF Progress

LEMMA StreamEndsProgress ==
    ASSUME TypeInv, OwnInv, NEW t \in Thread, StreamEnds(t), Progress(t), ~stolen', ~short'
    PROVE  Progress(t)'
<1> USE DEF StreamEnds, Goto, disk, plan, past
<1>0. Files /\ Calls /\ Cursors /\ Flow(t) /\ Table
  BY DEF TypeInv, Flows
<1>1. Clean(t)'
  BY <1>0, SameHeld DEF Progress, Files, Calls, Cursors, Flow
<1>2. Covered(t)'
  BY <1>0 DEF Progress, Covered, Held, Flushed, Files, Calls, Cursors, Flow, CtrlFile
<1>3. Arrived(t)'
  BY <1>0 DEF Progress, Covered, Arrived, Held, Files, Calls, Cursors, Flow, CtrlFile
<1>4. Placed(t)'
  BY <1>0 DEF Progress, Placed, HoldsPart, UsesPart, UsesTmp, Files, Calls, Cursors, Flow, Table
<1>5. Saving(t)'
  BY <1>0 DEF Progress, Saving, Drained, Flushed, UsesTmp, Files, Calls, Cursors, Flow
<1>6. Finishing(t)'
  BY <1>0 DEF Progress, Finishing, Drained, Whole, Files, Calls, Cursors, Flow
<1> QED BY <1>1, <1>2, <1>3, <1>4, <1>5, <1>6 DEF Progress

LEMMA StreamErrorProgress ==
    ASSUME TypeInv, OwnInv, NEW t \in Thread, StreamError(t), Progress(t), ~stolen', ~short'
    PROVE  Progress(t)'
<1> USE DEF StreamError, Goto, disk, plan, past
<1>0. Files /\ Calls /\ Cursors /\ Flow(t) /\ Table
  BY DEF TypeInv, Flows
<1>1. Clean(t)'
  BY <1>0, SameHeld DEF Progress, Files, Calls, Cursors, Flow
<1>2. Covered(t)'
  BY <1>0 DEF Progress, Covered, Held, Flushed, Files, Calls, Cursors, Flow, CtrlFile
<1>3. Arrived(t)'
  BY <1>0 DEF Progress, Covered, Arrived, Held, Files, Calls, Cursors, Flow, CtrlFile
<1>4. Placed(t)'
  BY <1>0 DEF Progress, Placed, HoldsPart, UsesPart, UsesTmp, Files, Calls, Cursors, Flow, Table
<1>5. Saving(t)'
  BY <1>0 DEF Progress, Saving, Drained, Flushed, UsesTmp, Files, Calls, Cursors, Flow
<1>6. Finishing(t)'
  BY <1>0 DEF Progress, Finishing, Drained, Whole, Files, Calls, Cursors, Flow
<1> QED BY <1>1, <1>2, <1>3, <1>4, <1>5, <1>6 DEF Progress

LEMMA RaiseProgress ==
    ASSUME TypeInv, OwnInv, NEW t \in Thread, Raise(t), Progress(t), ~stolen', ~short'
    PROVE  Progress(t)'
<1> USE DEF Raise, Goto, disk, plan, past, Unwind
<1>0. Files /\ Calls /\ Cursors /\ Flow(t) /\ Table
  BY DEF TypeInv, Flows
<1>1. Clean(t)'
  BY <1>0, SameHeld DEF Progress, Files, Calls, Cursors, Flow
<1>2. Covered(t)'
  BY <1>0 DEF Progress, Covered, Held, Flushed, Files, Calls, Cursors, Flow, CtrlFile
<1>3. Arrived(t)'
  BY <1>0 DEF Progress, Covered, Arrived, Held, Files, Calls, Cursors, Flow, CtrlFile
<1>4. Placed(t)'
  BY <1>0 DEF Progress, Placed, HoldsPart, UsesPart, UsesTmp, Files, Calls, Cursors, Flow, Table
<1>5. Saving(t)'
  BY <1>0 DEF Progress, Saving, Drained, Flushed, UsesTmp, Files, Calls, Cursors, Flow
<1>6. Finishing(t)'
  BY <1>0 DEF Progress, Finishing, Drained, Whole, Files, Calls, Cursors, Flow
<1> QED BY <1>1, <1>2, <1>3, <1>4, <1>5, <1>6 DEF Progress

LEMMA DatasyncProgress ==
    ASSUME TypeInv, OwnInv, NEW t \in Thread, Datasync(t), Progress(t), ~stolen', ~short'
    PROVE  Progress(t)'
<1> USE DEF Datasync, Goto, disk, plan, past, Unwind
<1>0. Files /\ Calls /\ Cursors /\ Flow(t) /\ Table
  BY DEF TypeInv, Flows
<1>a. /\ HoldsPart(t) => fds[fd[t]].kind = "part" /\ fds[fd[t]].of = t /\ fd[t] \in Fd
      /\ pc[t] \in UsesTmp => fds[tfd[t]].kind = "tmp" /\ fds[tfd[t]].of = t /\ tfd[t] \in Fd
  BY OwnFile DEF Datasync
<1>1. Clean(t)'
  BY <1>0, SameHeld DEF Progress, Files, Calls, Cursors, Flow
<1>2. Covered(t)'
  BY <1>0 DEF Progress, Covered, Held, Flushed, Files, Calls, Cursors, Flow, CtrlFile
<1>3. Arrived(t)'
  BY <1>0 DEF Progress, Covered, Arrived, Held, Files, Calls, Cursors, Flow, CtrlFile
<1>4. Placed(t)'
  BY <1>0 DEF Progress, Placed, HoldsPart, UsesPart, UsesTmp, Files, Calls, Cursors, Flow, Table
<1>5. Saving(t)'
  BY <1>0, <1>a DEF Progress, Saving, Drained, Flushed, HoldsPart, UsesPart, UsesTmp, Files, Calls, Cursors, Flow
<1>6. Finishing(t)'
  BY <1>0 DEF Progress, Finishing, Drained, Whole, Files, Calls, Cursors, Flow
<1> QED BY <1>1, <1>2, <1>3, <1>4, <1>5, <1>6 DEF Progress

LEMMA OpenTmpProgress ==
    ASSUME TypeInv, OwnInv, NEW t \in Thread, OpenTmp(t), Progress(t), ~stolen', ~short'
    PROVE  Progress(t)'
<1> USE DEF OpenTmp, Goto, disk, plan, past, SaveRaises, Leave, Unwind
<1>0. Files /\ Calls /\ Cursors /\ Flow(t) /\ Table
  BY DEF TypeInv, Flows
<1>1. Clean(t)'
  BY <1>0, SameHeld DEF Progress, Files, Calls, Cursors, Flow
<1>2. Covered(t)'
  BY <1>0 DEF Progress, Covered, Held, Flushed, Files, Calls, Cursors, Flow, CtrlFile
<1>3. Arrived(t)'
  BY <1>0 DEF Progress, Covered, Arrived, Held, Files, Calls, Cursors, Flow, CtrlFile
<1>4. Placed(t)'
  <2>1. HoldsPart(t) => fds'[fd[t]] = fds[fd[t]]
    BY OpensApart
  <2> QED BY <1>0, <2>1 DEF Progress, Placed, HoldsPart, UsesPart, UsesTmp, Calls, Cursors, Flow
<1>5. Saving(t)'
  BY <1>0 DEF Progress, Saving, Drained, Flushed, UsesTmp, Files, Calls, Cursors, Flow
<1>6. Finishing(t)'
  BY <1>0 DEF Progress, Finishing, Drained, Whole, Files, Calls, Cursors, Flow
<1> QED BY <1>1, <1>2, <1>3, <1>4, <1>5, <1>6 DEF Progress

LEMMA WriteTmpProgress ==
    ASSUME TypeInv, OwnInv, NEW t \in Thread, WriteTmp(t), Progress(t), ~stolen', ~short'
    PROVE  Progress(t)'
<1> USE DEF WriteTmp, Goto, disk, plan, past
<1>0. Files /\ Calls /\ Cursors /\ Flow(t) /\ Table
  BY DEF TypeInv, Flows
<1>a. /\ HoldsPart(t) => fds[fd[t]].kind = "part" /\ fds[fd[t]].of = t /\ fd[t] \in Fd
      /\ pc[t] \in UsesTmp => fds[tfd[t]].kind = "tmp" /\ fds[tfd[t]].of = t /\ tfd[t] \in Fd
  BY OwnFile DEF WriteTmp
<1>b. /\ tmp'[t].cursor = cursor[t] /\ pc'[t] = "tmp_replace"
      /\ part' = part /\ synced' = synced
  BY <1>0, <1>a DEF UsesTmp, Files, Calls
<1>1. Clean(t)'
  BY <1>0, <1>b, SameHeld DEF Progress
<1>2. Covered(t)'
  BY <1>0, <1>b DEF Progress, Covered, Held, Flushed, Files, Calls
<1>3. Arrived(t)'
  BY <1>0, <1>b DEF Progress, Arrived, Held, Files, Calls
<1>4. Placed(t)'
  BY <1>0, <1>b DEF Progress, Placed, HoldsPart, UsesPart, UsesTmp, Calls
<1>5. Saving(t)'
  BY <1>0, <1>b DEF Progress, Saving, Drained, Flushed, UsesTmp, Calls
<1>6. Finishing(t)'
  BY <1>0, <1>b DEF Progress, Finishing, Drained, Whole, Calls
<1> QED BY <1>1, <1>2, <1>3, <1>4, <1>5, <1>6 DEF Progress

LEMMA TmpFailsProgress ==
    ASSUME TypeInv, OwnInv, NEW t \in Thread, TmpFails(t), Progress(t), ~stolen', ~short'
    PROVE  Progress(t)'
<1> USE DEF TmpFails, Goto, disk, plan, past, SaveRaises, Leave, Unwind
<1>0. Files /\ Calls /\ Cursors /\ Flow(t) /\ Table
  BY DEF TypeInv, Flows
<1>a. /\ HoldsPart(t) => fds[fd[t]].kind = "part" /\ fds[fd[t]].of = t /\ fd[t] \in Fd
      /\ pc[t] \in UsesTmp => fds[tfd[t]].kind = "tmp" /\ fds[tfd[t]].of = t /\ tfd[t] \in Fd
  BY OwnFile, ClosesOwn
<1>1. Clean(t)'
  BY <1>0, SameHeld DEF Progress, Files, Calls, Cursors, Flow
<1>2. Covered(t)'
  BY <1>0 DEF Progress, Covered, Held, Flushed, Files, Calls, Cursors, Flow, CtrlFile
<1>3. Arrived(t)'
  BY <1>0 DEF Progress, Covered, Arrived, Held, Files, Calls, Cursors, Flow, CtrlFile
<1>4. Placed(t)'
  <2>1. HoldsPart(t) => fds'[fd[t]] = fds[fd[t]]
    BY <1>0, <1>a DEF Closes, UsesTmp, Table
  <2>2. HoldsPart(t)' => HoldsPart(t) /\ fd'[t] = fd[t] /\ cursor'[t] = cursor[t] /\ pc[t] # "allocate"
    BY <1>0 DEF HoldsPart, UsesPart, UsesTmp, Calls, Cursors, Flow
  <2> QED BY <2>1, <2>2 DEF Progress, Placed
<1>5. Saving(t)'
  BY <1>0 DEF Progress, Saving, Drained, Flushed, UsesTmp, Files, Calls, Cursors, Flow
<1>6. Finishing(t)'
  BY <1>0 DEF Progress, Finishing, Drained, Whole, Files, Calls, Cursors, Flow
<1> QED BY <1>1, <1>2, <1>3, <1>4, <1>5, <1>6 DEF Progress

LEMMA ReplaceProgress ==
    ASSUME TypeInv, OwnInv, NEW t \in Thread, Replace(t), Progress(t), ~stolen', ~short'
    PROVE  Progress(t)'
<1> USE DEF Replace, Goto, disk, plan, past, Leave
<1>0. Files /\ Calls /\ Cursors /\ Flow(t) /\ Table
  BY DEF TypeInv, Flows
<1>a. /\ HoldsPart(t) => fds[fd[t]].kind = "part" /\ fds[fd[t]].of = t /\ fd[t] \in Fd
      /\ pc[t] \in UsesTmp => fds[tfd[t]].kind = "tmp" /\ fds[tfd[t]].of = t /\ tfd[t] \in Fd
  BY OwnFile, ClosesOwn
<1>b. /\ tmp[t].cursor = cursor[t] /\ Flushed(t, cursor[t]) /\ Held(t, cursor[t])
      /\ pc'[t] \in {"idle", "stream", "close"} /\ part' = part /\ synced' = synced /\ dest' = dest
      /\ ctrl'[t] = tmp[t]
      /\ pc'[t] # "idle" => cursor'[t] = cursor[t] /\ fd'[t] = fd[t] /\ then'[t] = then[t] /\ HoldsPart(t)
  BY <1>0 DEF Progress, Saving, Arrived, HoldsPart, UsesTmp, Files, Calls, Cursors, Flow
<1>1. Clean(t)'
  BY <1>0, SameHeld DEF Progress, Files, Calls, Cursors, Flow
<1>2. Covered(t)'
  BY <1>b DEF Covered, Held, Flushed
<1>3. Arrived(t)'
  BY <1>0, <1>b DEF Arrived, Held, Cursors
<1>4. Placed(t)'
  <2>1. HoldsPart(t) => fds'[fd[t]] = fds[fd[t]]
    BY <1>0, <1>a DEF Closes, UsesTmp, Table
  <2> QED BY <1>b, <2>1 DEF Progress, Placed, HoldsPart, UsesPart, UsesTmp
<1>5. Saving(t)'
  BY <1>b DEF Saving, Drained, UsesTmp
<1>6. Finishing(t)'
  BY <1>0, <1>b DEF Progress, Finishing, Drained, Whole
<1> QED BY <1>1, <1>2, <1>3, <1>4, <1>5, <1>6 DEF Progress

LEMMA CloseProgress ==
    ASSUME TypeInv, OwnInv, NEW t \in Thread, Close(t), Progress(t), ~stolen', ~short'
    PROVE  Progress(t)'
<1> USE DEF Close, Goto, disk, plan, past, Unwind
<1>0. Files /\ Calls /\ Cursors /\ Flow(t) /\ Table
  BY DEF TypeInv, Flows
<1>a. /\ HoldsPart(t) => fds[fd[t]].kind = "part" /\ fds[fd[t]].of = t /\ fd[t] \in Fd
      /\ pc[t] \in UsesTmp => fds[tfd[t]].kind = "tmp" /\ fds[tfd[t]].of = t /\ tfd[t] \in Fd
  BY OwnFile, ClosesOwn
<1>1. Clean(t)'
  BY <1>0, SameHeld DEF Progress, Files, Calls, Cursors, Flow
<1>2. Covered(t)'
  BY <1>0 DEF Progress, Covered, Held, Flushed, Files, Calls, Cursors, Flow, CtrlFile
<1>3. Arrived(t)'
  BY <1>0 DEF Progress, Covered, Arrived, Held, Files, Calls, Cursors, Flow, CtrlFile
<1>4. Placed(t)'
  <2>1. HoldsPart(t) /\ ~Closed(fd[t])
    BY <1>a DEF HoldsPart, Closed, Unused
  <2>2. pc'[t] = "finally" /\ then'[t] = "partial"
    BY <1>0, <2>1 DEF Calls
  <2> QED BY <2>2 DEF Placed, HoldsPart, UsesPart, UsesTmp
<1>5. Saving(t)'
  BY <1>0 DEF Progress, Saving, Drained, Flushed, UsesTmp, Files, Calls, Cursors, Flow
<1>6. Finishing(t)'
  BY <1>0 DEF Progress, Finishing, Drained, Whole, Files, Calls, Cursors, Flow
<1> QED BY <1>1, <1>2, <1>3, <1>4, <1>5, <1>6 DEF Progress

LEMMA FinallyProgress ==
    ASSUME TypeInv, OwnInv, NEW t \in Thread, Finally(t), Progress(t), ~stolen', ~short'
    PROVE  Progress(t)'
<1> USE DEF Finally, Goto, disk, plan, past, Leave, Closes
<1>0. Files /\ Calls /\ Cursors /\ Flow(t) /\ Table
  BY DEF TypeInv, Flows
<1>1. Clean(t)'
  BY <1>0, SameHeld DEF Progress, Files, Calls, Cursors, Flow
<1>2. Covered(t)'
  BY <1>0 DEF Progress, Covered, Held, Flushed, Files, Calls, Cursors, Flow, CtrlFile
<1>3. Arrived(t)'
  BY <1>0 DEF Progress, Covered, Arrived, Held, Files, Calls, Cursors, Flow, CtrlFile
<1>4. Placed(t)'
  BY <1>0 DEF Progress, Placed, HoldsPart, UsesPart, UsesTmp, Files, Calls, Cursors, Flow, Table
<1>5. Saving(t)'
  BY <1>0 DEF Progress, Saving, Drained, Flushed, UsesTmp, Files, Calls, Cursors, Flow
<1>6. Finishing(t)'
  BY <1>0 DEF Progress, Finishing, Drained, Whole, Files, Calls, Cursors, Flow
<1> QED BY <1>1, <1>2, <1>3, <1>4, <1>5, <1>6 DEF Progress

LEMMA AfterStreamShortProgress ==
    ASSUME TypeInv, OwnInv, NEW t \in Thread, AfterStreamShort(t), Progress(t), ~stolen', ~short'
    PROVE  Progress(t)'
<1> USE DEF AfterStreamShort, Goto, disk, plan, past
<1>0. Files /\ Calls /\ Cursors /\ Flow(t) /\ Table
  BY DEF TypeInv, Flows
<1>1. Clean(t)'
  BY <1>0, SameHeld DEF Progress, Files, Calls, Cursors, Flow
<1>2. Covered(t)'
  BY <1>0 DEF Progress, Covered, Held, Flushed, Files, Calls, Cursors, Flow, CtrlFile
<1>3. Arrived(t)'
  BY <1>0 DEF Progress, Covered, Arrived, Held, Files, Calls, Cursors, Flow, CtrlFile
<1>4. Placed(t)'
  BY <1>0 DEF Progress, Placed, HoldsPart, UsesPart, UsesTmp, Files, Calls, Cursors, Flow, Table
<1>5. Saving(t)'
  BY <1>0 DEF Progress, Saving, Drained, Flushed, UsesTmp, Files, Calls, Cursors, Flow
<1>6. Finishing(t)'
  BY <1>0 DEF Progress, Finishing, Drained, Whole, Files, Calls, Cursors, Flow
<1> QED BY <1>1, <1>2, <1>3, <1>4, <1>5, <1>6 DEF Progress

LEMMA FinalizeUnlinkProgress ==
    ASSUME TypeInv, OwnInv, NEW t \in Thread, FinalizeUnlink(t), Progress(t), ~stolen', ~short'
    PROVE  Progress(t)'
<1> USE DEF FinalizeUnlink, Goto, disk, plan, past, Leave, NoCtrl
<1>0. Files /\ Calls /\ Cursors /\ Flow(t) /\ Table
  BY DEF TypeInv, Flows
<1>1. Clean(t)'
  BY <1>0, SameHeld DEF Progress, Files, Calls, Cursors, Flow
<1>2. Covered(t)'
  BY <1>0 DEF Progress, Covered, Held, Flushed, Files, Calls, Cursors, Flow, CtrlFile
<1>3. Arrived(t)'
  BY <1>0 DEF Progress, Covered, Arrived, Held, Files, Calls, Cursors, Flow, CtrlFile
<1>4. Placed(t)'
  BY <1>0 DEF Progress, Placed, HoldsPart, UsesPart, UsesTmp, Files, Calls, Cursors, Flow, Table
<1>5. Saving(t)'
  BY <1>0 DEF Progress, Saving, Drained, Flushed, UsesTmp, Files, Calls, Cursors, Flow
<1>6. Finishing(t)'
  BY <1>0 DEF Progress, Finishing, Drained, Whole, Files, Calls, Cursors, Flow
<1> QED BY <1>1, <1>2, <1>3, <1>4, <1>5, <1>6 DEF Progress

LEMMA FinalizeRenameProgress ==
    ASSUME TypeInv, OwnInv, NEW t \in Thread, FinalizeRename(t), Progress(t), ~stolen', ~short'
    PROVE  Progress(t)'
<1> USE DEF FinalizeRename, Goto, disk, plan, past
<1>0. Files /\ Calls /\ Cursors /\ Flow(t) /\ Table
  BY DEF TypeInv, Flows
<1>1. Clean(t)'
  BY <1>0 DEF Clean, Absent, ZeroData, Files
<1>2. Covered(t)'
  BY <1>0 DEF Covered, Calls
<1>3. Arrived(t)'
  BY <1>0 DEF Arrived, Calls
<1>4. Placed(t)'
  BY <1>0 DEF Progress, Placed, HoldsPart, UsesPart, UsesTmp, Files, Calls, Cursors, Flow, Table
<1>5. Saving(t)'
  BY <1>0 DEF Progress, Saving, Drained, Flushed, UsesTmp, Files, Calls, Cursors, Flow
<1>6. Finishing(t)'
  <2>1. pc'[t] = "unlink" /\ dest'[t] = part[t] /\ part'[t] = Absent
    BY <1>0 DEF Files, Calls
  <2> QED BY <2>1 DEF Progress, Finishing, Drained, Whole, Absent
<1> QED BY <1>1, <1>2, <1>3, <1>4, <1>5, <1>6 DEF Progress

LEMMA OpenProgress ==
    ASSUME TypeInv, OwnInv, NEW t \in Thread, Open(t), Progress(t), ~stolen', ~short'
    PROVE  Progress(t)'
<1> USE DEF Open, Goto, disk, plan, past, Leave
<1>0. Files /\ Calls /\ Cursors /\ Flow(t) /\ Table
  BY DEF TypeInv, Flows
<1>a. part'[t] = part[t] \/ part'[t] = Create(part[t])
  BY <1>0 DEF Files
<1>b. /\ Clean(t)' <=> Clean(t)
      /\ \A n \in Nat : Held(t, n)' <=> Held(t, n)
  BY <1>a, SameHeld, CreateHeld
<1>c. \A n \in Nat : Flushed(t, n)' <=> Flushed(t, n)
  BY SameFlushed
<1>d. cursor[t] \in Nat /\ ctrl[t].cursor \in Nat
  BY <1>0 DEF Files, Cursors, CtrlFile
<1>1. Clean(t)'
  BY <1>b DEF Progress
<1>2. Covered(t)'
  BY <1>0, <1>b, <1>c, <1>d DEF Progress, Covered, Calls
<1>3. Arrived(t)'
  <2>1. pc'[t] # "idle" => cursor'[t] = cursor[t]
    BY <1>0 DEF Calls
  <2> QED BY <1>0, <2>1, <1>b, <1>d DEF Progress, Arrived, Calls
<1>4. Placed(t)'
  BY <1>0 DEF Progress, Placed, HoldsPart, UsesPart, UsesTmp, Files, Calls, Cursors, Flow, Table
<1>5. Saving(t)'
  BY <1>0 DEF Progress, Saving, Drained, Flushed, UsesTmp, Files, Calls, Cursors, Flow
<1>6. Finishing(t)'
  <2>1. pc'[t] \in {"idle", "allocate"}
    BY <1>0 DEF Calls
  <2>2. pc'[t] = "allocate" => part'[t].exists
    BY <1>0, CreateHeld DEF Files, Calls
  <2> QED BY <2>1, <2>2 DEF Progress, Finishing, Drained, Whole
<1> QED BY <1>1, <1>2, <1>3, <1>4, <1>5, <1>6 DEF Progress

(* The truncation before the rename leaves exactly the resource.           *)
LEMMA TrimWhole ==
    ASSUME TypeInv, NEW t \in Thread, Progress(t), cursor[t] = Length[t], part[t].exists,
           pc[t] \notin {"idle", "unlink"},
           part' = IF part[t].size > cursor[t] \/ pc[t] = "request"
                   THEN [part EXCEPT ![t] = Resize(@, cursor[t])] ELSE part
    PROVE  /\ part'[t] = Whole(t) /\ Clean(t)'
           /\ \A n \in Nat : n <= cursor[t] /\ Held(t, n) => Held(t, n)'
<1> DEFINE c == Length[t]
<1>1. /\ part \in [Thread -> File] /\ part[t] \in File /\ c \in 0 .. MaxLen
      /\ Clean(t) /\ c <= part[t].size /\ Agrees(part[t].data, Body[t], c)
  BY DEF TypeInv, Files, Progress, Arrived, Held
<1>2. CASE part'[t] = Resize(part[t], c)
  <2>1. /\ Clean(t)' /\ part'[t].exists = part[t].exists
        /\ \A n \in Nat : n <= c /\ Held(t, n) => Held(t, n)'
    BY <1>1, <1>2, ResizeHeld
  <2>2. Held(t, c)'
    BY <1>1, <2>1 DEF Held
  <2>3. part'[t] \in File
    BY <1>1, <1>2, ResizeType
  <2>5. part'[t].size = c
    BY <1>2 DEF Resize
  <2>4. part'[t] = Whole(t)
    BY <2>1, <2>2, <2>3, <2>5, <1>1, HeldWhole DEF Held, Clean
  <2> QED BY <2>1, <2>4
<1>3. CASE part'[t] = part[t] /\ part[t].size = c
  <2>1. part[t] = Whole(t)
    BY <1>1, <1>3, HeldWhole DEF Clean
  <2> QED BY <1>1, <1>3, <2>1, SameHeld DEF Whole
<1>4. part[t].size > c \/ part[t].size = c
  <2>1. part[t].size \in Nat /\ c \in Nat /\ c <= part[t].size
    BY <1>1 DEF File
  <2> QED BY <2>1
<1> QED BY <1>1, <1>2, <1>3, <1>4

LEMMA Complete416Progress ==
    ASSUME TypeInv, OwnInv, NEW t \in Thread, Complete416(t), Progress(t), ~stolen', ~short'
    PROVE  Progress(t)'
<1> USE DEF Complete416, Goto, disk, plan, past
<1>0. Files /\ Calls /\ Cursors /\ Flow(t) /\ Table
  BY DEF TypeInv, Flows
<1>a. cursor[t] = Length[t] /\ part[t].exists /\ pc[t] \in {"request", "after"}
  BY <1>0 DEF Progress, Arrived, Held, Finishing, Drained, Cursors
<1>b. /\ part'[t] = Whole(t) /\ Clean(t)'
      /\ \A n \in Nat : n <= cursor[t] /\ Held(t, n) => Held(t, n)'
  BY <1>a, TrimWhole
<1>c. cursor[t] \in Nat /\ ctrl[t].cursor \in Nat /\ pc'[t] = "rename"
  BY <1>0 DEF Files, Cursors, CtrlFile, Calls
<1>d. ctrl[t].text = "whole" => ctrl[t].cursor <= cursor[t]
  BY <1>a DEF Progress, Covered, Held
<1>1. Clean(t)'
  BY <1>b
<1>2. Covered(t)'
  <2>1. ctrl[t].text = "whole" => Held(t, ctrl[t].cursor)'
    BY <1>a, <1>b, <1>c, <1>d DEF Progress, Covered
  <2> QED BY <1>a, <2>1 DEF Progress, Covered, Flushed, Held
<1>3. Arrived(t)'
  <2>1. Held(t, cursor[t])'
    BY <1>a, <1>b, <1>c DEF Progress, Arrived, Held, Whole, Agrees
  <2> QED BY <2>1 DEF Arrived
<1>4. Placed(t)'
  BY <1>c DEF Placed, HoldsPart, UsesPart, UsesTmp
<1>5. Saving(t)'
  BY <1>c DEF Saving, Drained, UsesTmp
<1>6. Finishing(t)'
  BY <1>b, <1>c DEF Progress, Finishing, Drained, Whole
<1> QED BY <1>1, <1>2, <1>3, <1>4, <1>5, <1>6 DEF Progress

LEMMA AfterStreamTrimProgress ==
    ASSUME TypeInv, OwnInv, NEW t \in Thread, AfterStreamTrim(t), Progress(t), ~stolen', ~short'
    PROVE  Progress(t)'
<1> USE DEF AfterStreamTrim, Goto, disk, plan, past
<1>0. Files /\ Calls /\ Cursors /\ Flow(t) /\ Table
  BY DEF TypeInv, Flows
<1>a. cursor[t] = Length[t] /\ part[t].exists /\ pc[t] \in {"request", "after"}
  BY <1>0 DEF Progress, Arrived, Held, Finishing, Drained, Cursors
<1>b. /\ part'[t] = Whole(t) /\ Clean(t)'
      /\ \A n \in Nat : n <= cursor[t] /\ Held(t, n) => Held(t, n)'
  BY <1>a, TrimWhole
<1>c. cursor[t] \in Nat /\ ctrl[t].cursor \in Nat /\ pc'[t] = "rename"
  BY <1>0 DEF Files, Cursors, CtrlFile, Calls
<1>d. ctrl[t].text = "whole" => ctrl[t].cursor <= cursor[t]
  BY <1>a DEF Progress, Covered, Held
<1>1. Clean(t)'
  BY <1>b
<1>2. Covered(t)'
  <2>1. ctrl[t].text = "whole" => Held(t, ctrl[t].cursor)'
    BY <1>a, <1>b, <1>c, <1>d DEF Progress, Covered
  <2> QED BY <1>a, <2>1 DEF Progress, Covered, Flushed, Held
<1>3. Arrived(t)'
  <2>1. Held(t, cursor[t])'
    BY <1>a, <1>b, <1>c DEF Progress, Arrived, Held, Whole, Agrees
  <2> QED BY <2>1 DEF Arrived
<1>4. Placed(t)'
  BY <1>c DEF Placed, HoldsPart, UsesPart, UsesTmp
<1>5. Saving(t)'
  BY <1>c DEF Saving, Drained, UsesTmp
<1>6. Finishing(t)'
  BY <1>b, <1>c DEF Progress, Finishing, Drained, Whole
<1> QED BY <1>1, <1>2, <1>3, <1>4, <1>5, <1>6 DEF Progress

LEMMA AllocateProgress ==
    ASSUME TypeInv, OwnInv, NEW t \in Thread, Allocate(t), Progress(t), ~stolen', ~short'
    PROVE  Progress(t)'
<1> USE DEF Allocate, Goto, disk, plan, past
<1>0. Files /\ Calls /\ Cursors /\ Flow(t) /\ Table
  BY DEF TypeInv, Flows
<1>a. fds[fd[t]].kind = "part" /\ fds[fd[t]].of = t /\ fd[t] \in Fd /\ pc'[t] = "stream"
  BY <1>0, OwnFile DEF HoldsPart, UsesPart, Calls
<1>b. /\ cursor[t] \in Nat /\ ctrl[t].cursor \in Nat /\ part[t].exists /\ Length[t] \in 0 .. MaxLen
      /\ cursor[t] <= Length[t] /\ Held(t, cursor[t]) /\ Clean(t)
      /\ ctrl[t].text = "whole" => ctrl[t].cursor <= Length[t] /\ Held(t, ctrl[t].cursor)
  <2>1. cursor[t] \in Nat /\ ctrl[t].cursor \in Nat /\ Length[t] \in 0 .. MaxLen
    <3> HIDE DEF Allocate
    <3> QED BY <1>0 DEF Files, CtrlFile, Cursors
  <2>2. part[t].exists /\ Held(t, cursor[t]) /\ Clean(t)
    BY DEF Progress, Arrived, Finishing
  <2>3. ctrl[t].text = "whole" => ctrl[t].cursor <= Length[t] /\ Held(t, ctrl[t].cursor)
    BY DEF Progress, Covered, Held
  <2> QED BY <2>1, <2>2, <2>3 DEF Held
<1>c. part'[t] = Resize(part[t], Length[t]) \/ part'[t] = part[t]
  BY <1>0, <1>a DEF Files
<1>d. /\ Clean(t)' /\ part'[t].exists
      /\ \A n \in Nat : n <= Length[t] /\ Held(t, n) => Held(t, n)'
  <2>1. CASE part'[t] = part[t]
    BY <2>1, <1>b, SameHeld
  <2>2. CASE part'[t] = Resize(part[t], Length[t])
    BY <2>2, <1>b, ResizeHeld
  <2> QED BY <1>c, <2>1, <2>2
<1>1. Clean(t)'
  BY <1>d
<1>2. Covered(t)'
  <2>1. ctrl[t].text = "whole" => Held(t, ctrl[t].cursor)'
    BY <1>b, <1>d
  <2> QED BY <1>a, <2>1 DEF Progress, Covered, Flushed
<1>3. Arrived(t)'
  <2>1. Held(t, cursor[t])'
    BY <1>b, <1>d
  <2> QED BY <2>1 DEF Arrived
<1>4. Placed(t)'
  BY <1>0, <1>a DEF Placed, Table
<1>5. Saving(t)'
  BY <1>a DEF Saving, Drained, UsesTmp
<1>6. Finishing(t)'
  BY <1>a, <1>d DEF Progress, Finishing, Drained, Whole
<1> QED BY <1>1, <1>2, <1>3, <1>4, <1>5, <1>6 DEF Progress

(* n bytes of the resource written where its first c bytes end.            *)
LEMMA WriteHeld ==
    ASSUME NEW t \in Thread, NEW c \in Nat, NEW n \in Nat, NEW b, c + n <= Length[t],
           part[t] \in File, Held(t, c), Clean(t),
           part'[t] = WriteAt(part[t], c, n, b),
           \A i \in c .. (c + n - 1) : b[i] = Body[t][i]
    PROVE  /\ Clean(t)' /\ Held(t, c + n)' /\ part'[t].exists = part[t].exists
           /\ \A m \in Nat : Held(t, m) =>
                 /\ Held(t, m)'
                 /\ \A i \in Offset : i < m => part'[t].data[i] = part[t].data[i]
<1>1. part[t].size \in Nat /\ Length[t] \in Nat
  BY DEF File
<1>2. /\ part'[t].exists = part[t].exists
      /\ part'[t].size = IF c + n > part[t].size THEN c + n ELSE part[t].size
      /\ \A i \in Offset : part'[t].data[i] = IF c <= i /\ i < c + n THEN b[i] ELSE part[t].data[i]
  BY DEF WriteAt
<1>3. Clean(t)'
  BY <1>1, <1>2 DEF Clean, Offset
<1>4. Agrees(part[t].data, Body[t], c + n)'
  <2> SUFFICES ASSUME NEW i \in Offset, i < c + n PROVE part'[t].data[i] = Body[t][i]
    BY DEF Agrees
  <2>1. CASE i < c
    BY <1>2, <2>1 DEF Held, Agrees, Offset
  <2>2. CASE c <= i
    BY <1>2, <2>2 DEF Offset
  <2> QED BY <2>1, <2>2 DEF Offset
<1>5. ASSUME NEW m \in Nat, Held(t, m)
      PROVE  Held(t, m)' /\ \A i \in Offset : i < m => part'[t].data[i] = part[t].data[i]
  <2>1. m <= part'[t].size
    BY <1>1, <1>2, <1>5 DEF Held
  <2>2. ASSUME NEW i \in Offset, i < m
        PROVE  part'[t].data[i] = part[t].data[i] /\ part[t].data[i] = Body[t][i]
    <3>1. part[t].data[i] = Body[t][i]
      BY <1>5, <2>2 DEF Held, Agrees
    <3>2. CASE c <= i /\ i < c + n
      BY <1>2, <3>1, <3>2 DEF Offset
    <3>3. CASE ~(c <= i /\ i < c + n)
      BY <1>2, <3>1, <3>3
    <3> QED BY <3>2, <3>3
  <2>3. Agrees(part[t].data, Body[t], m)'
    BY <2>2 DEF Agrees
  <2> QED BY <1>5, <2>1, <2>2, <2>3 DEF Held
<1>6. c + n <= part'[t].size
  BY <1>1, <1>2
<1> QED BY <1>2, <1>3, <1>4, <1>5, <1>6 DEF Held

LEMMA WriteChunkProgress ==
    ASSUME TypeInv, OwnInv, NEW t \in Thread, NEW n \in 1 .. MaxChunk, NEW k \in 1 .. n,
           WriteChunk(t, n, k), Progress(t), ~stolen', ~short'
    PROVE  Progress(t)'
<1> USE DEF WriteChunk, Goto, disk, plan, past
<1>0. Files /\ Calls /\ Cursors /\ Flow(t) /\ Table
  BY DEF TypeInv, Flows
<1>a. n \in Nat /\ k = n
  <2>1. ~(k < n)
    BY Zenon
  <2> HIDE DEF WriteChunk
  <2> QED BY <2>1
<1>b. /\ fds[fd[t]].kind = "part" /\ fds[fd[t]].of = t /\ fd[t] \in Fd
      /\ fds[fd[t]].pos = cursor[t] /\ HoldsPart(t) /\ then'[t] \in {"stream", then[t]}
      /\ pc'[t] \in {"stream", "sync"} /\ (pc'[t] = "sync" => then'[t] = "stream")
  BY <1>0, OwnFile DEF HoldsPart, UsesPart, Calls, Progress, Placed
<1>c. /\ cursor[t] \in Nat /\ ctrl[t].cursor \in Nat /\ part[t] \in File
      /\ cursor[t] + n <= Length[t] /\ Held(t, cursor[t]) /\ Clean(t) /\ part[t].exists
      /\ ctrl[t].text = "whole" => Held(t, ctrl[t].cursor) /\ Flushed(t, ctrl[t].cursor)
      /\ cursor'[t] = cursor[t] + n /\ ctrl' = ctrl
  BY <1>0 DEF Progress, Arrived, Covered, Finishing, Files, CtrlFile, Cursors
<1> DEFINE b == [i \in Offset |-> IF i \in Chunk(cursor[t], n)
                                  THEN Body[t][cursor[t] + (i - cursor[t])] ELSE Zero]
<1>d. /\ part'[t] = WriteAt(part[t], cursor[t], n, b)
      /\ synced'[t] = {i \in synced[t] : part'[t].data[i] = part[t].data[i]}
  BY <1>0, <1>a, <1>b DEF Files
<1>e. ASSUME NEW i \in cursor[t] .. (cursor[t] + n - 1) PROVE b[i] = Body[t][i]
  <2> HIDE DEF WriteChunk
  <2>1. i \in Nat /\ cursor[t] <= i /\ i < cursor[t] + n
    BY <1>a, <1>c
  <2>2. i \in Offset
    <3>1. Length[t] \in Nat /\ MaxLen \in Nat /\ Length[t] <= MaxLen
      OBVIOUS
    <3> QED BY <1>a, <1>c, <2>1, <3>1 DEF Offset
  <2>3. i \in Chunk(cursor[t], n) /\ cursor[t] + (i - cursor[t]) = i
    BY <1>c, <2>1 DEF Chunk
  <2> QED BY <2>2, <2>3
<1>f. /\ Clean(t)' /\ part'[t].exists
      /\ ctrl[t].text = "whole" => Held(t, ctrl[t].cursor)' /\ Flushed(t, ctrl[t].cursor)'
      /\ Held(t, cursor[t])'
  <2> HIDE DEF WriteChunk, b
  <2>1. PICK c \in Nat : c = cursor[t]
    BY <1>c
  <2>2. /\ Clean(t)' /\ Held(t, c + n)' /\ part'[t].exists = part[t].exists
        /\ \A m \in Nat : Held(t, m) =>
              Held(t, m)' /\ \A i \in Offset : i < m => part'[t].data[i] = part[t].data[i]
    BY <1>a, <1>c, <1>d, <1>e, <2>1, WriteHeld
  <2>3. Held(t, cursor[t])'
    <3>1. cursor'[t] = c + n
      BY <1>c, <2>1
    <3> QED BY <2>2, <3>1 DEF Held
  <2>4. ASSUME ctrl[t].text = "whole"
        PROVE  Held(t, ctrl[t].cursor)' /\ Flushed(t, ctrl[t].cursor)'
    <3>1. /\ Held(t, ctrl[t].cursor)'
          /\ \A i \in Offset : i < ctrl[t].cursor => part'[t].data[i] = part[t].data[i]
      BY <1>c, <2>2, <2>4 DEF Held
    <3> QED BY <1>c, <1>d, <2>4, <3>1 DEF Flushed
  <2> QED BY <1>c, <2>2, <2>3, <2>4
<1>1. Clean(t)'
  BY <1>f
<1>2. Covered(t)'
  BY <1>b, <1>c, <1>f DEF Covered
<1>3. Arrived(t)'
  BY <1>f DEF Arrived
<1>4. Placed(t)'
  <2>1. fds'[fd[t]].pos = cursor[t] + n /\ fd'[t] = fd[t]
    BY <1>0, <1>a, <1>b DEF Table
  <2> QED BY <1>c, <2>1 DEF Placed
<1>5. Saving(t)'
  BY <1>b DEF Saving, Drained, UsesTmp
<1>6. Finishing(t)'
  BY <1>b, <1>f DEF Progress, Finishing, Drained, Whole
<1> QED BY <1>1, <1>2, <1>3, <1>4, <1>5, <1>6 DEF Progress

LEMMA KillProgress ==
    ASSUME Kill, NEW t \in Thread, Progress(t)
    PROVE  Progress(t)'
<1> USE DEF Kill, disk
<1>1. Clean(t)'
  BY SameHeld DEF Progress
<1>2. Covered(t)'
  BY DEF Progress, Covered, Held, Flushed
<1>3. Arrived(t)' /\ Placed(t)' /\ Saving(t)'
  BY DEF Arrived, Placed, Saving, Drained, HoldsPart, UsesPart, UsesTmp
<1>4. Finishing(t)'
  BY DEF Progress, Finishing, Drained, Whole
<1> QED BY <1>1, <1>2, <1>3, <1>4 DEF Progress

-----------------------------------------------------------------------------
(* The specification.                                                      *)

LEMMA InitData == Init => DataInv
<1> SUFFICES ASSUME Init, NEW t \in Thread PROVE Progress(t)
  BY DEF DataInv
<1>1. part[t] = Absent /\ dest[t] = Absent /\ ctrl[t] = NoCtrl /\ pc[t] = "idle"
  BY DEF Init
<1>2. Clean(t)
  BY <1>1 DEF Clean, Absent, ZeroData
<1>3. Covered(t) /\ Arrived(t) /\ Placed(t) /\ Saving(t)
  BY <1>1 DEF Covered, NoCtrl, Arrived, Placed, Saving, Drained, HoldsPart, UsesPart, UsesTmp
<1>4. Finishing(t)
  BY <1>1 DEF Finishing, Drained, Absent
<1> QED BY <1>2, <1>3, <1>4 DEF Progress

(* Once wrong, always wrong: the premise of DataInv never comes back.      *)
LEMMA SoundBefore ==
    ASSUME TypeInv, [Next]_vars
    PROVE  (~stolen' => ~stolen) /\ (~short' => ~short)
<1> USE DEF past
<1>1. CASE Kill
  BY <1>1 DEF Kill
<1>2. ASSUME NEW t \in Thread, Step(t)
      PROVE  (~stolen' => ~stolen) /\ (~short' => ~short)
  <2>1. CASE UNCHANGED past
    BY <2>1
  <2>2. ASSUME NEW n, NEW kind, Closes(n, kind, t)
        PROVE  (~stolen' => ~stolen) /\ (~short' => ~short)
    BY <2>2, ClosesOwn DEF Closes
  <2>3. ASSUME NEW n, NEW k, WriteChunk(t, n, k)
        PROVE  (~stolen' => ~stolen) /\ (~short' => ~short)
    <3>1. UNCHANGED stolen /\ short' = (short \/ k < n)
      BY <2>3 DEF WriteChunk
    <3> QED BY <3>1
  <2>4. \/ Prepare(t) \/ ConnectionFails(t) \/ Answer(t) \/ Complete416(t) \/ Open(t)
        \/ Allocate(t) \/ StreamEnds(t) \/ StreamError(t) \/ Raise(t) \/ Datasync(t)
        \/ OpenTmp(t) \/ WriteTmp(t) \/ AfterStreamShort(t) \/ AfterStreamTrim(t)
        \/ FinalizeRename(t) \/ FinalizeUnlink(t)
        => UNCHANGED past
    BY DEF Prepare, ConnectionFails, Answer, Complete416, Open, Allocate, StreamEnds,
         StreamError, Raise, Datasync, OpenTmp, WriteTmp, AfterStreamShort,
         AfterStreamTrim, FinalizeRename, FinalizeUnlink
  <2>5. AllocateFails(t) \/ TmpFails(t) \/ Replace(t) \/ Close(t) \/ Finally(t)
        => \E n, kind : Closes(n, kind, t)
    BY DEF AllocateFails, TmpFails, Replace, Close, Finally
  <2> QED BY <1>2, <2>1, <2>2, <2>3, <2>4, <2>5 DEF Step
<1>3. CASE UNCHANGED vars
  BY <1>3 DEF vars
<1> QED BY <1>1, <1>2, <1>3 DEF Next

LEMMA OwnProgress ==
    ASSUME TypeInv, OwnInv, NEW t \in Thread, Step(t), Progress(t), ~stolen', ~short'
    PROVE  Progress(t)'
<1>1. CASE Prepare(t)
  BY <1>1, PrepareProgress
<1>2. CASE ConnectionFails(t)
  BY <1>2, ConnectionFailsProgress
<1>3. CASE Answer(t)
  BY <1>3, AnswerProgress
<1>4. CASE Complete416(t)
  BY <1>4, Complete416Progress
<1>5. CASE Open(t)
  BY <1>5, OpenProgress
<1>6. CASE Allocate(t)
  BY <1>6, AllocateProgress
<1>7. CASE AllocateFails(t)
  BY <1>7, AllocateFailsProgress
<1>8. ASSUME NEW n \in 1 .. MaxChunk, NEW k \in 1 .. n, WriteChunk(t, n, k)
     PROVE  Progress(t)'
  BY <1>8, WriteChunkProgress
<1>9. CASE StreamEnds(t)
  BY <1>9, StreamEndsProgress
<1>10. CASE StreamError(t)
  BY <1>10, StreamErrorProgress
<1>11. CASE Raise(t)
  BY <1>11, RaiseProgress
<1>12. CASE Datasync(t)
  BY <1>12, DatasyncProgress
<1>13. CASE OpenTmp(t)
  BY <1>13, OpenTmpProgress
<1>14. CASE WriteTmp(t)
  BY <1>14, WriteTmpProgress
<1>15. CASE TmpFails(t)
  BY <1>15, TmpFailsProgress
<1>16. CASE Replace(t)
  BY <1>16, ReplaceProgress
<1>17. CASE Close(t)
  BY <1>17, CloseProgress
<1>18. CASE Finally(t)
  BY <1>18, FinallyProgress
<1>19. CASE AfterStreamShort(t)
  BY <1>19, AfterStreamShortProgress
<1>20. CASE AfterStreamTrim(t)
  BY <1>20, AfterStreamTrimProgress
<1>21. CASE FinalizeRename(t)
  BY <1>21, FinalizeRenameProgress
<1>22. CASE FinalizeUnlink(t)
  BY <1>22, FinalizeUnlinkProgress
<1> QED
  BY <1>1, <1>2, <1>3, <1>4, <1>5, <1>6, <1>7, <1>8, <1>9, <1>10, <1>11,
     <1>12, <1>13, <1>14, <1>15, <1>16, <1>17, <1>18, <1>19, <1>20, <1>21, <1>22
  DEF Step

LEMMA StepData ==
    ASSUME TypeInv, OwnInv, DataInv, [Next]_vars
    PROVE  DataInv'
<1> SUFFICES ASSUME ~stolen', ~short', NEW s \in Thread PROVE Progress(s)'
  BY DEF DataInv
<1>1. Progress(s)
  BY SoundBefore DEF DataInv
<1>2. CASE Kill
  BY <1>1, <1>2, KillProgress
<1>3. ASSUME NEW t \in Thread, Step(t) PROVE Progress(s)'
  <2>1. CASE s = t
    BY <1>1, <1>3, <2>1, OwnProgress
  <2>2. CASE s # t
    <3>1. Still(s)
      BY <1>3, <2>2, OthersStill
    <3> QED BY <1>1, <3>1, StillProgress
  <2> QED BY <2>1, <2>2
<1>4. CASE UNCHANGED vars
  <2>1. Still(s)
    BY <1>4 DEF vars, disk, plan, Still
  <2> QED BY <1>1, <2>1, StillProgress
<1> QED BY <1>2, <1>3, <1>4 DEF Next

LEMMA DataInvariant == Spec => [](TypeInv /\ OwnInv /\ DataInv)
<1>1. TypeInv /\ OwnInv /\ DataInv /\ [Next]_vars => DataInv'
  BY StepData
<1> QED BY Invariant, InitData, <1>1, PTL DEF Spec

(* Whatever fails or is killed in whatever thread, and however often an    *)
(* attempt starts again at 0, a checkpoint vouches only for bytes of its   *)
(* own resource that are in its own .part and on the disk.                 *)
THEOREM CheckpointsBacked == Spec => []CtrlBacked
<1>1. TypeInv /\ OwnInv /\ DataInv => CtrlBacked
  <2> SUFFICES ASSUME TypeInv, OwnInv, DataInv, ~stolen, ~short, NEW t \in Thread,
                      ctrl[t].exists, part[t].exists
               PROVE  /\ \A i \in 0 .. (ctrl[t].cursor - 1) : i \in synced[t]
                      /\ Agrees(part[t].data, Body[t], ctrl[t].cursor)
    BY DEF CtrlBacked
  <2>1. ctrl[t].text = "whole"
    BY DEF OwnInv, CtrlWhole
  <2>2. Held(t, ctrl[t].cursor) /\ Flushed(t, ctrl[t].cursor)
    BY <2>1 DEF DataInv, Progress, Covered, Finishing
  <2>3. ctrl[t].cursor \in 0 .. MaxLen
    BY DEF TypeInv, Files, CtrlFile
  <2>4. ASSUME NEW i \in 0 .. (ctrl[t].cursor - 1) PROVE i \in synced[t]
    <3>1. i \in Offset /\ i < ctrl[t].cursor
      BY <2>3 DEF Offset
    <3> QED BY <2>2, <3>1 DEF Flushed
  <2> QED BY <2>2, <2>4 DEF Held
<1> QED BY DataInvariant, <1>1, PTL

(* What is at a destination is the whole resource, whatever else fails or  *)
(* is killed in whatever thread (docs/explanation/design.md:194).          *)
THEOREM DeliveredWhole == Spec => []DestWhole
<1>1. DataInv => DestWhole
  BY DEF DataInv, Progress, Finishing, DestWhole, DestComplete
<1> QED BY DataInvariant, <1>1, PTL
=============================================================================
