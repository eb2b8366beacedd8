------------------------- MODULE ThreadedHaulProofs -------------------------
(***************************************************************************)
(* Who owns which descriptor in module ThreadedHaul, for any number of     *)
(* threads and descriptors, any resources and any number of failures.      *)
(***************************************************************************)
EXTENDS ThreadedHaul, WellFoundedInduction, TLAPS

(* Where a thread may go next, and that it has the numbers it is going to  *)
(* use or to close; no call begins with bytes left to flush.               *)
Flow(t) ==
    /\ pc[t] = "sync" => then[t] \in {"stream", "close"}
    /\ pc[t] \in UsesTmp \cup {"tmp_open"} => then[t] \in {"stream", "close", "partial"}
    /\ pc[t] = "finally" => then[t] \in {"after", "error", "partial"}
    /\ HoldsPart(t) \/ pc[t] = "finally" => fd[t] \in Fd
    /\ pc[t] \in UsesTmp => tfd[t] \in Fd
    /\ pc[t] \in {"idle", "request"} => dirty[t] = 0

Flows == \A t \in Thread : Flow(t)

USE ThreadAssumption, StorageAssumption DEF ThreadAssumption, StorageAssumption

-----------------------------------------------------------------------------
(* What the operators on files and descriptors return.                     *)

LEMMA AbsentType == Absent \in File
BY DEF Absent, ZeroData, File, Data, Offset

LEMMA ResizeType ==
    ASSUME NEW f \in File, NEW n \in 0 .. MaxLen
    PROVE  Resize(f, n) \in File
BY DEF Resize, File, Data, Offset

LEMMA CreateType ==
    ASSUME NEW f \in File
    PROVE  Create(f) \in File
BY DEF Create, File

LEMMA WriteAtType ==
    ASSUME NEW f \in File, NEW off \in 0 .. MaxLen, NEW n \in Nat, off + n <= MaxLen,
           NEW body, \A i \in off .. (off + n - 1) : body[i] \in Byte
    PROVE  WriteAt(f, off, n, body) \in File
BY DEF WriteAt, File, Data, Offset

LEMMA FreeType == Free \in OpenFile /\ NoCtrl \in CtrlFile
<1>1. (CHOOSE t \in Thread : TRUE) \in Thread
  OBVIOUS
<1>2. Free \in OpenFile
  BY <1>1 DEF Free, OpenFile
<1>3. NoCtrl \in CtrlFile
  BY DEF NoCtrl, CtrlFile
<1> QED BY <1>2, <1>3

(* open returns a number of the table that stands for nothing.             *)
LEMMA LowestUnused ==
    ASSUME Unused # {}
    PROVE  Lowest(Unused) \in Fd /\ fds[Lowest(Unused)].kind = "free"
<1>1. Unused \in SUBSET Nat
  BY DEF Unused
<1> DEFINE R == {ss \in Nat \X Nat : ss[1] < ss[2]}
<1>2. IsWellFoundedOn(R, Nat)
  BY NatLessThanWellFounded DEF OpToRel
<1>3. PICK n \in Unused : \A k \in Unused : ~(<<k, n>> \in R)
  <2> HIDE DEF R
  <2> QED BY <1>1, <1>2, WFMin
<1>4. ASSUME NEW k \in Unused PROVE n <= k
  <2>1. k \in Nat /\ n \in Nat
    BY <1>1
  <2>2. <<k, n>> \in Nat \X Nat /\ <<k, n>>[1] = k /\ <<k, n>>[2] = n
    BY <2>1
  <2>3. ~(k < n)
    BY <1>3, <2>2
  <2> QED BY <2>1, <2>3
<1>5. Lowest(Unused) \in Unused
  BY <1>4 DEF Lowest
<1> QED BY <1>5 DEF Unused

-----------------------------------------------------------------------------
(* Types.                                                                  *)

Table ==
    /\ fds \in [Fd -> OpenFile]
    /\ faults \in 0 .. MaxFaults /\ stolen \in BOOLEAN /\ short \in BOOLEAN

Files ==
    /\ part \in [Thread -> File] /\ dest \in [Thread -> File]
    /\ synced \in [Thread -> SUBSET Offset] /\ backed \in [Thread -> SUBSET Offset]
    /\ ctrl \in [Thread -> CtrlFile] /\ tmp \in [Thread -> CtrlFile]

Calls ==
    /\ pc \in [Thread -> Labels]
    /\ then \in [Thread -> {"idle", "stream", "close", "after", "partial", "error"}]
    /\ fd \in [Thread -> Fd \cup {None}] /\ tfd \in [Thread -> Fd \cup {None}]
    /\ outcome \in [Thread -> Outcome]

Cursors ==
    /\ cursor \in [Thread -> 0 .. MaxLen] /\ dirty \in [Thread -> 0 .. MaxLen]
    /\ known \in [Thread -> BOOLEAN]
    /\ \A t \in Thread : dirty[t] <= cursor[t]

TypeInv == Table /\ Files /\ Calls /\ Cursors /\ Flows

LEMMA LeaveType ==
    ASSUME TypeInv, NEW t \in Thread, NEW o \in Outcome, Leave(t, o)
    PROVE  Calls' /\ Cursors' /\ Flows'
<1> USE DEF TypeInv, Leave, Goto
<1>1. Calls'
  BY DEF Calls, Labels, None
<1>2. Cursors'
  BY DEF Cursors
<1>3. Flows'
  BY DEF Flows, Flow, HoldsPart, UsesPart, UsesTmp, Calls, Cursors
<1> QED BY <1>1, <1>2, <1>3

LEMMA ClosesType ==
    ASSUME TypeInv, NEW n, NEW kind, NEW t, Closes(n, kind, t),
           faults' = faults \/ Fault
    PROVE  Table'
<1>1. fds' \in [Fd -> OpenFile]
  BY FreeType DEF Closes, TypeInv, Table
<1>2. faults' \in 0 .. MaxFaults
  BY DEF Fault, TypeInv, Table
<1>3. stolen' \in BOOLEAN /\ short' \in BOOLEAN
  BY DEF Closes, TypeInv, Table
<1> QED BY <1>1, <1>2, <1>3 DEF Table

LEMMA SamePlan ==
    ASSUME TypeInv, UNCHANGED plan
    PROVE  Cursors'
BY DEF TypeInv, Cursors, plan

LEMMA PrepareType ==
    ASSUME TypeInv, NEW t \in Thread, Prepare(t)
    PROVE  TypeInv'
<1> USE DEF TypeInv, Prepare
<1>1. Table'
  BY DEF Table, OpenFile, past, Cursors, disk
<1>2. Files'
  BY DEF Files, CtrlFile, disk, Cursors, Calls, Table
<1>3. Calls'
  BY DEF Calls, Goto, Labels, Outcome, Flows, Flow, None
<1>4. Cursors'
  <2>1. ctrl[t].cursor \in 0 .. MaxLen
    BY DEF Files, CtrlFile
  <2>2. dirty[t] = 0
    BY DEF Flows, Flow
  <2>3. UNCHANGED <<dirty, known>> /\ cursor' \in [Thread -> 0 .. MaxLen]
    BY <2>1 DEF Cursors
  <2>4. ASSUME NEW s \in Thread PROVE dirty'[s] <= cursor'[s]
    BY <2>1, <2>2, <2>3 DEF Cursors
  <2> QED BY <2>3, <2>4 DEF Cursors
<1>5. Flows'
  BY DEF Flows, Flow, HoldsPart, UsesPart, UsesTmp, Calls, Goto, Cursors
<1> QED BY <1>1, <1>2, <1>3, <1>4, <1>5

LEMMA ConnectionFailsType ==
    ASSUME TypeInv, NEW t \in Thread, ConnectionFails(t)
    PROVE  TypeInv'
<1> USE DEF TypeInv, ConnectionFails
<1>1. Table'
  BY DEF Table, OpenFile, Fault, past, Cursors, disk, Leave
<1>2. Files'
  BY DEF Files, CtrlFile, disk, Cursors, Calls, Table
<1>3. Calls'
  BY DEF Calls, Goto, Leave, Labels, Outcome, Flows, Flow, None
<1>4. Cursors'
  BY DEF Cursors, Goto, Leave, Files
<1>5. Flows'
  BY DEF Flows, Flow, HoldsPart, UsesPart, UsesTmp, Calls, Goto, Leave, None, Cursors
<1> QED BY <1>1, <1>2, <1>3, <1>4, <1>5

LEMMA AnswerType ==
    ASSUME TypeInv, NEW t \in Thread, Answer(t)
    PROVE  TypeInv'
<1> USE DEF TypeInv, Answer
<1>1. Table'
  BY DEF Table, OpenFile, past, Cursors, disk
<1>2. Files'
  BY DEF Files, CtrlFile, disk, Cursors, Calls, Table
<1>3. Calls'
  BY DEF Calls, Goto, Labels, Outcome, Flows, Flow, None
<1>4. Cursors'
  <2>1. cursor' \in [Thread -> 0 .. MaxLen]
    BY DEF Cursors
  <2>2. dirty' = dirty /\ known' \in [Thread -> BOOLEAN] /\ dirty[t] = 0
    BY DEF Cursors, Flows, Flow
  <2>3. ASSUME NEW s \in Thread PROVE dirty'[s] <= cursor'[s]
    <3>1. cursor'[s] = cursor[s] \/ (s = t /\ cursor'[s] = 0)
      BY DEF Cursors
    <3> QED BY <2>2, <3>1 DEF Cursors
  <2> HIDE DEF Answer
  <2> QED BY <2>1, <2>2, <2>3 DEF Cursors
<1>5. Flows'
  BY DEF Flows, Flow, HoldsPart, UsesPart, UsesTmp, Calls, Goto, Cursors
<1> QED BY <1>1, <1>2, <1>3, <1>4, <1>5

LEMMA Complete416Type ==
    ASSUME TypeInv, NEW t \in Thread, Complete416(t)
    PROVE  TypeInv'
<1> USE DEF TypeInv, Complete416
<1>1. Table'
  BY DEF Table, OpenFile, past, Cursors
<1>2. Files'
  BY ResizeType DEF Files, CtrlFile, Cursors, Calls, Table
<1>3. Calls'
  BY DEF Calls, Goto, Labels, Outcome, Flows, Flow, None
<1>4. Cursors'
  BY DEF Cursors, Goto, plan, Files
<1>5. Flows'
  BY DEF Flows, Flow, HoldsPart, UsesPart, UsesTmp, Calls, Goto, plan, Cursors
<1> QED BY <1>1, <1>2, <1>3, <1>4, <1>5

LEMMA OpenType ==
    ASSUME TypeInv, NEW t \in Thread, Open(t)
    PROVE  TypeInv'
<1> USE DEF TypeInv, Open
<1>1. Table'
  BY LowestUnused DEF Table, OpenFile, Opens, past, Cursors, Unused, Leave
<1>2. Files'
  <2>1. part' \in [Thread -> File]
    BY CreateType DEF Files
  <2>2. UNCHANGED <<dest, synced, backed, ctrl, tmp>>
    OBVIOUS
  <2> QED BY <2>1, <2>2 DEF Files
<1>3. Calls'
  BY LowestUnused DEF Calls, Goto, Leave, Labels, Outcome, Flows, Flow, None
<1>4. Cursors'
  <2>1. CASE Unused = {}
    <3>1. Leave(t, "error")
      BY <2>1
    <3> QED BY <3>1, LeaveType DEF Outcome
  <2>2. CASE Unused # {}
    BY <2>2, SamePlan
  <2> QED BY <2>1, <2>2
<1>5. Flows'
  BY LowestUnused DEF Flows, Flow, HoldsPart, UsesPart, UsesTmp, Calls, Goto, Leave, plan,
       None, Cursors
<1> QED BY <1>1, <1>2, <1>3, <1>4, <1>5

LEMMA AllocateType ==
    ASSUME TypeInv, NEW t \in Thread, Allocate(t)
    PROVE  TypeInv'
<1> USE DEF TypeInv, Allocate
<1>1. Table'
  <2>1. fds' = [fds EXCEPT ![fd[t]].pos = cursor[t]] /\ UNCHANGED <<faults, past>>
    OBVIOUS
  <2>2. cursor[t] \in 0 .. MaxLen /\ fds \in [Fd -> OpenFile]
    BY DEF Cursors, Table
  <2>3. fds' \in [Fd -> OpenFile]
    <3> HIDE DEF TypeInv, Allocate
    <3>1. ASSUME NEW f \in OpenFile, NEW c \in 0 .. MaxLen
          PROVE  [f EXCEPT !.pos = c] \in OpenFile
      BY DEF OpenFile
    <3>2. fds' = [fds EXCEPT ![fd[t]] = [fds[fd[t]] EXCEPT !.pos = cursor[t]]]
      BY <2>1
    <3>3. [m \in Fd |-> IF m = fd[t] THEN [fds[m] EXCEPT !.pos = cursor[t]] ELSE fds[m]]
              \in [Fd -> OpenFile]
      BY <2>2, <3>1
    <3> QED BY <2>2, <3>2, <3>3
  <2> QED BY <2>1, <2>3 DEF Table, past
<1>2. Files'
  <2> DEFINE u == fds[fd[t]].of
  <2>1. u \in Thread /\ Length[t] \in 0 .. MaxLen
    BY DEF Table, OpenFile, Flows, Flow, HoldsPart, UsesPart
  <2>2. Resize(part[u], Length[t]) \in File
    BY <2>1, ResizeType DEF Files
  <2>3. 0 .. (Length[t] - 1) \subseteq Offset
    BY <2>1 DEF Offset
  <2>4. part' \in [Thread -> File]
    BY <2>2 DEF Files
  <2>5. backed' \in [Thread -> SUBSET Offset]
    BY SMTT(40), <2>3 DEF Files
  <2> QED BY <2>4, <2>5 DEF Files
<1>3. Calls'
  BY DEF Calls, Goto, Labels, Outcome, Flows, Flow, None
<1>4. Cursors'
  BY DEF Cursors, Goto, plan, Files
<1>5. Flows'
  BY DEF Flows, Flow, HoldsPart, UsesPart, UsesTmp, Calls, Goto, plan, Cursors
<1> QED BY <1>1, <1>2, <1>3, <1>4, <1>5

LEMMA AllocateFailsType ==
    ASSUME TypeInv, NEW t \in Thread, AllocateFails(t)
    PROVE  TypeInv'
<1> USE DEF TypeInv, AllocateFails
<1>1. Table'
  BY ClosesType
<1>2. Files'
  BY FreeType DEF Files, CtrlFile, disk, Cursors, Calls, Table
<1>3. Calls'
  BY DEF Calls, Goto, Leave, Labels, Outcome, Flows, Flow, None
<1>4. Cursors'
  BY DEF Cursors, Goto, Leave, Files
<1>5. Flows'
  BY DEF Flows, Flow, HoldsPart, UsesPart, UsesTmp, Calls, Goto, Leave, None, Cursors
<1> QED BY <1>1, <1>2, <1>3, <1>4, <1>5

LEMMA WriteChunkType ==
    ASSUME TypeInv, NEW t \in Thread, NEW n \in 1 .. MaxChunk, NEW k \in 1 .. n,
           WriteChunk(t, n, k)
    PROVE  TypeInv'
<1> USE DEF TypeInv, WriteChunk
<1>1. Table'
  <2>1. cursor[t] \in Nat /\ fds[fd[t]].pos \in 0 .. MaxLen /\ fds[fd[t]] \in OpenFile
    BY DEF Table, OpenFile, Cursors, Flows, Flow, HoldsPart, UsesPart
  <2>2. fds[fd[t]].pos + k \in 0 .. MaxLen
    BY <2>1
  <2>3. fds' = [fds EXCEPT ![fd[t]].pos = @ + k] /\ fd[t] \in Fd
    BY DEF Flows, Flow, HoldsPart, UsesPart
  <2>4. [fds[fd[t]] EXCEPT !.pos = @ + k] \in OpenFile
    BY <2>1, <2>2 DEF OpenFile
  <2>5. fds' \in [Fd -> OpenFile]
    BY <2>3, <2>4 DEF Table
  <2>6. faults' \in 0 .. MaxFaults /\ stolen' \in BOOLEAN /\ short' \in BOOLEAN
    BY DEF Table, Fault
  <2> QED BY <2>5, <2>6 DEF Table
<1>2. Files'
  <2> DEFINE f == fds[fd[t]]
  <2>0. n \in Nat /\ k \in Nat /\ k <= n
    OBVIOUS
  <2>1. f \in OpenFile /\ f.of \in Thread /\ f.pos \in 0 .. MaxLen /\ f.pos + k <= MaxLen
    BY DEF Table, OpenFile, Flows, Flow, HoldsPart, UsesPart
  <2>2. CASE f.kind = "part"
    <3> DEFINE b == [i \in Offset |-> IF i \in Chunk(f.pos, k)
                                    THEN Body[t][cursor[t] + (i - f.pos)] ELSE Zero]
    <3>1. cursor[t] \in Nat /\ cursor[t] + k <= MaxLen
      BY <2>0 DEF Cursors
    <3>2. ASSUME NEW i \in f.pos .. (f.pos + k - 1)
          PROVE  b[i] \in Byte
      <4> HIDE DEF f
      <4>1. f.pos \in Nat /\ i \in Nat /\ f.pos <= i /\ i < f.pos + k
        BY <2>0, <2>1
      <4>2. i \in Offset
        BY <4>1, <2>0, <2>1 DEF Offset
      <4>3. cursor[t] + (i - f.pos) \in Offset
        <5>1. i - f.pos \in 0 .. (k - 1)
          BY <4>1, <2>0
        <5> HIDE DEF WriteChunk, TypeInv
        <5> QED BY <5>1, <2>0, <3>1 DEF Offset
      <4>4. Body[t][cursor[t] + (i - f.pos)] \in Byte
        BY <4>3 DEF Data
      <4> QED BY <4>2, <4>4
    <3>3. WriteAt(part[f.of], f.pos, k, b) \in File
      <4>1. part[f.of] \in File
        BY <2>1 DEF Files
      <4> HIDE DEF b, f, WriteChunk, TypeInv
      <4> QED BY <2>0, <2>1, <3>2, <4>1, WriteAtType
    <3>4. Chunk(f.pos, k) \subseteq Offset
      <4> HIDE DEF f
      <4> QED BY SMTT(40), <2>0, <2>1 DEF Chunk, Offset
    <3>5. part' \in [Thread -> File]
      BY <2>2, <3>3 DEF Files
    <3>6. synced' \in [Thread -> SUBSET Offset] /\ backed' \in [Thread -> SUBSET Offset]
      <4> DEFINE kept == {i \in synced[f.of] : part'[f.of].data[i] = part[f.of].data[i]}
      <4>1. /\ synced' = [synced EXCEPT ![f.of] = kept]
            /\ backed' = [backed EXCEPT ![f.of] = @ \cup Chunk(f.pos, k)]
        BY <2>2, Zenon
      <4>2. kept \subseteq Offset
        BY <2>1 DEF Files
      <4> HIDE DEF kept, WriteChunk, f
      <4> QED BY <2>1, <3>4, <4>1, <4>2 DEF Files
    <3> QED BY <2>2, <3>5, <3>6 DEF Files
  <2>3. CASE f.kind # "part"
    <3>1. tmp' = [tmp EXCEPT ![f.of].text = "mixed"]
      BY <2>3
    <3>2. [tmp[f.of] EXCEPT !.text = "mixed"] \in CtrlFile
      <4> HIDE DEF f
      <4>1. tmp[f.of] \in CtrlFile
        BY <2>1 DEF Files
      <4> QED BY <4>1 DEF CtrlFile
    <3>3. tmp' \in [Thread -> CtrlFile]
      <4> HIDE DEF f
      <4> QED BY <2>1, <3>1, <3>2 DEF Files
    <3> QED BY <2>3, <3>3 DEF Files
  <2> QED BY <2>2, <2>3
<1>3. Calls'
  BY SMTT(40) DEF Calls, Goto, Labels, Outcome, Flows, Flow, None
<1>4. Cursors'
  <2>1. cursor[t] + n <= MaxLen
    BY DEF Cursors
  <2> QED BY <2>1 DEF Cursors
<1>5. Flows'
  BY DEF Flows, Flow, HoldsPart, UsesPart, UsesTmp, Calls, Goto, Cursors
<1> QED BY <1>1, <1>2, <1>3, <1>4, <1>5

LEMMA StreamEndsType ==
    ASSUME TypeInv, NEW t \in Thread, StreamEnds(t)
    PROVE  TypeInv'
<1> USE DEF TypeInv, StreamEnds
<1>1. Table'
  BY DEF Table, OpenFile, Fault, past, Cursors, disk
<1>2. Files'
  BY DEF Files, CtrlFile, disk, Cursors, Calls, Table
<1>3. Calls'
  BY DEF Calls, Goto, Labels, Outcome, Flows, Flow, None
<1>4. Cursors'
  BY DEF Cursors, Goto, plan, Files
<1>5. Flows'
  BY DEF Flows, Flow, HoldsPart, UsesPart, UsesTmp, Calls, Goto, plan, Cursors
<1> QED BY <1>1, <1>2, <1>3, <1>4, <1>5

LEMMA StreamErrorType ==
    ASSUME TypeInv, NEW t \in Thread, StreamError(t)
    PROVE  TypeInv'
<1> USE DEF TypeInv, StreamError
<1>1. Table'
  BY DEF Table, OpenFile, Fault, past, Cursors, disk
<1>2. Files'
  BY DEF Files, CtrlFile, disk, Cursors, Calls, Table
<1>3. Calls'
  BY DEF Calls, Goto, Labels, Outcome, Flows, Flow, None
<1>4. Cursors'
  BY DEF Cursors, Goto, plan, Files
<1>5. Flows'
  BY DEF Flows, Flow, HoldsPart, UsesPart, UsesTmp, Calls, Goto, plan, Cursors
<1> QED BY <1>1, <1>2, <1>3, <1>4, <1>5

LEMMA RaiseType ==
    ASSUME TypeInv, NEW t \in Thread, Raise(t)
    PROVE  TypeInv'
<1> USE DEF TypeInv, Raise
<1>1. Table'
  BY DEF Table, OpenFile, Fault, past, Cursors, Closed, Unused, disk
<1>2. Files'
  BY DEF Files, CtrlFile, disk, Cursors, Calls, Table
<1>3. Calls'
  BY DEF Calls, Goto, Unwind, Labels, Outcome, Flows, Flow, None
<1>4. Cursors'
  BY DEF Cursors, Goto, Unwind, plan, Files
<1>5. Flows'
  BY DEF Flows, Flow, HoldsPart, UsesPart, UsesTmp, Calls, Goto, Unwind, plan, None, Cursors
<1> QED BY <1>1, <1>2, <1>3, <1>4, <1>5

LEMMA DatasyncType ==
    ASSUME TypeInv, NEW t \in Thread, Datasync(t)
    PROVE  TypeInv'
<1> USE DEF TypeInv, Datasync
<1>1. Table'
  BY DEF Table, OpenFile, past, Cursors, Closed, Unused
<1>2. Files'
  BY DEF Files, CtrlFile, Cursors, Calls, Table
<1>3. Calls'
  BY DEF Calls, Goto, Unwind, Labels, Outcome, Flows, Flow, None
<1>4. Cursors'
  BY DEF Cursors, Goto, Unwind, plan, Files
<1>5. Flows'
  BY DEF Flows, Flow, HoldsPart, UsesPart, UsesTmp, Calls, Goto, Unwind, plan, None, Cursors
<1> QED BY <1>1, <1>2, <1>3, <1>4, <1>5

LEMMA OpenTmpType ==
    ASSUME TypeInv, NEW t \in Thread, OpenTmp(t)
    PROVE  TypeInv'
<1> USE DEF TypeInv, OpenTmp
<1>1. Table'
  BY LowestUnused DEF Table, OpenFile, Opens, past, Cursors, Unused, Leave
<1>2. Files'
  <2> DEFINE empty == [exists |-> TRUE, text |-> "empty", cursor |-> 0]
  <2>0. empty \in CtrlFile
    BY DEF CtrlFile
  <2>3. tmp' = tmp \/ tmp' = [tmp EXCEPT ![t] = empty]
    OBVIOUS
  <2>1. tmp' \in [Thread -> CtrlFile]
    <3> HIDE DEF empty
    <3> QED BY <2>0, <2>3 DEF Files
  <2>2. UNCHANGED <<part, dest, synced, backed, ctrl>>
    OBVIOUS
  <2> QED BY <2>1, <2>2 DEF Files
<1>3. Calls'
  BY LowestUnused DEF Calls, Goto, Leave, Unwind, SaveRaises, Labels, Outcome, Flows, Flow, None
<1>4. Cursors'
  <2>1. CASE SaveRaises(t)
    BY <2>1, LeaveType, SamePlan DEF SaveRaises, Unwind, Outcome
  <2>2. CASE UNCHANGED plan
    BY <2>2, SamePlan
  <2> QED BY <2>1, <2>2
<1>5. Flows'
  BY LowestUnused DEF Flows, Flow, HoldsPart, UsesPart, UsesTmp, Calls, Goto, Leave,
       Unwind, SaveRaises, plan, None, Cursors
<1> QED BY <1>1, <1>2, <1>3, <1>4, <1>5

LEMMA WriteTmpType ==
    ASSUME TypeInv, NEW t \in Thread, WriteTmp(t)
    PROVE  TypeInv'
<1> USE DEF TypeInv, WriteTmp
<1>1. Table'
  BY DEF Table, OpenFile, past, Cursors, Closed, Unused
<1>2. Files'
  <2> DEFINE f == fds[tfd[t]]
  <2>1. f \in OpenFile /\ f.of \in Thread /\ f.pos \in 0 .. MaxLen
    BY DEF Table, OpenFile, Flows, Flow, UsesTmp
  <2>2. CASE f.kind = "tmp"
    <3> DEFINE text == IF f.of = t /\ tmp[f.of].text = "empty" THEN "whole" ELSE "mixed"
               r == [exists |-> TRUE, cursor |-> cursor[t], text |-> text]
    <3>1. r \in CtrlFile
      BY DEF CtrlFile, Cursors
    <3>2. tmp' = [tmp EXCEPT ![f.of] = r]
      BY <2>2
    <3>3. tmp' \in [Thread -> CtrlFile]
      <4> HIDE DEF f, r
      <4> QED BY <2>1, <3>1, <3>2 DEF Files
    <3> QED BY <2>2, <3>3 DEF Files
  <2>3. CASE f.kind # "tmp"
    <3>1. f.pos < MaxLen /\ f.pos + 1 <= MaxLen
      BY <2>1, <2>3
    <3>2. \A i \in f.pos .. (f.pos + 1 - 1) : [j \in Offset |-> Junk][i] \in Byte
      BY <2>1, <3>1 DEF Offset
    <3>3. WriteAt(part[f.of], f.pos, 1, [i \in Offset |-> Junk]) \in File
      BY <2>1, <3>1, <3>2, WriteAtType DEF Files
    <3>4. part' \in [Thread -> File] /\ synced' \in [Thread -> SUBSET Offset]
      BY <2>3, <3>3 DEF Files
    <3> QED BY <2>3, <3>4 DEF Files
  <2> QED BY <2>2, <2>3
<1>3. Calls'
  BY DEF Calls, Goto, Labels, Outcome, Flows, Flow, None
<1>4. Cursors'
  BY DEF Cursors, Goto, plan, Files
<1>5. Flows'
  BY DEF Flows, Flow, HoldsPart, UsesPart, UsesTmp, Calls, Goto, plan, Cursors
<1> QED BY <1>1, <1>2, <1>3, <1>4, <1>5

LEMMA TmpFailsType ==
    ASSUME TypeInv, NEW t \in Thread, TmpFails(t)
    PROVE  TypeInv'
<1> USE DEF TypeInv, TmpFails
<1>1. Table'
  BY ClosesType
<1>2. Files'
  BY FreeType DEF Files, CtrlFile, disk, Cursors, Calls, Table
<1>3. Calls'
  BY SMTT(40) DEF Calls, Goto, Leave, Unwind, SaveRaises, Labels, Outcome, Flows, Flow, None
<1>4. Cursors'
  BY LeaveType, SamePlan DEF SaveRaises, Unwind, Outcome
<1>5. Flows'
  BY DEF Flows, Flow, HoldsPart, UsesPart, UsesTmp, Calls, Goto, Leave, Unwind, SaveRaises,
       plan, None, Cursors
<1> QED BY <1>1, <1>2, <1>3, <1>4, <1>5

LEMMA ReplaceType ==
    ASSUME TypeInv, NEW t \in Thread, Replace(t)
    PROVE  TypeInv'
<1> USE DEF TypeInv, Replace
<1>1. Table'
  BY FreeType DEF Table, OpenFile, Closes, Cursors, Closed, Unused, Leave
<1>2. Files'
  BY FreeType DEF Files, CtrlFile, Cursors, Calls, Table
<1>3. Calls'
  BY SMTT(40), LowestUnused DEF Calls, Goto, Leave, Unwind, SaveRaises, Labels, Outcome, Flows, Flow,
       None, UsesTmp
<1>4. Cursors'
  <2>1. CASE then[t] = "partial"
    BY <2>1, LeaveType DEF Outcome
  <2>2. CASE then[t] # "partial"
    <3>1. dirty' = [dirty EXCEPT ![t] = 0] /\ UNCHANGED <<cursor, known>>
      BY <2>2
    <3> QED BY <3>1 DEF Cursors
  <2> QED BY <2>1, <2>2
<1>5. Flows'
  BY DEF Flows, Flow, HoldsPart, UsesPart, UsesTmp, Calls, Goto, Leave, None, Cursors
<1> QED BY <1>1, <1>2, <1>3, <1>4, <1>5

LEMMA CloseType ==
    ASSUME TypeInv, NEW t \in Thread, Close(t)
    PROVE  TypeInv'
<1> USE DEF TypeInv, Close
<1>1. Table'
  BY FreeType DEF Table, OpenFile, Closes, Cursors, Closed, Unused, disk
<1>2. Files'
  BY FreeType DEF Files, CtrlFile, disk, Cursors, Calls, Table
<1>3. Calls'
  BY DEF Calls, Goto, Unwind, Labels, Outcome, Flows, Flow, None
<1>4. Cursors'
  BY DEF Cursors, Goto, Unwind, plan, Files
<1>5. Flows'
  BY DEF Flows, Flow, HoldsPart, UsesPart, UsesTmp, Calls, Goto, Unwind, plan, None, Cursors
<1> QED BY <1>1, <1>2, <1>3, <1>4, <1>5

LEMMA FinallyType ==
    ASSUME TypeInv, NEW t \in Thread, Finally(t)
    PROVE  TypeInv'
<1> USE DEF TypeInv, Finally
<1>1. Table'
  BY FreeType DEF Table, OpenFile, Closes, Cursors, disk, Leave
<1>2. Files'
  BY FreeType DEF Files, CtrlFile, disk, Cursors, Calls, Table
<1>3. Calls'
  BY DEF Calls, Goto, Leave, Labels, Outcome, Flows, Flow, None
<1>4. Cursors'
  <2>1. CASE then[t] = "after"
    BY <2>1, SamePlan
  <2>2. CASE then[t] # "after"
    <3>1. then[t] \in Outcome /\ Leave(t, then[t])
      BY <2>2 DEF Flows, Flow, Outcome
    <3> QED BY <3>1, LeaveType
  <2> QED BY <2>1, <2>2
<1>5. Flows'
  BY DEF Flows, Flow, HoldsPart, UsesPart, UsesTmp, Calls, Goto, Leave, plan, None, Cursors
<1> QED BY <1>1, <1>2, <1>3, <1>4, <1>5

LEMMA AfterStreamShortType ==
    ASSUME TypeInv, NEW t \in Thread, AfterStreamShort(t)
    PROVE  TypeInv'
<1> USE DEF TypeInv, AfterStreamShort
<1>1. Table'
  BY DEF Table, OpenFile, past, Cursors, disk
<1>2. Files'
  BY DEF Files, CtrlFile, disk, Cursors, Calls, Table
<1>3. Calls'
  BY DEF Calls, Goto, Labels, Outcome, Flows, Flow, None
<1>4. Cursors'
  BY DEF Cursors, Goto, plan, Files
<1>5. Flows'
  BY DEF Flows, Flow, HoldsPart, UsesPart, UsesTmp, Calls, Goto, plan, Cursors
<1> QED BY <1>1, <1>2, <1>3, <1>4, <1>5

LEMMA AfterStreamTrimType ==
    ASSUME TypeInv, NEW t \in Thread, AfterStreamTrim(t)
    PROVE  TypeInv'
<1> USE DEF TypeInv, AfterStreamTrim
<1>1. Table'
  BY DEF Table, OpenFile, past, Cursors
<1>2. Files'
  BY ResizeType DEF Files, CtrlFile, Cursors, Calls, Table
<1>3. Calls'
  BY DEF Calls, Goto, Labels, Outcome, Flows, Flow, None
<1>4. Cursors'
  BY DEF Cursors, Goto, plan, Files
<1>5. Flows'
  BY DEF Flows, Flow, HoldsPart, UsesPart, UsesTmp, Calls, Goto, plan, Cursors
<1> QED BY <1>1, <1>2, <1>3, <1>4, <1>5

LEMMA FinalizeRenameType ==
    ASSUME TypeInv, NEW t \in Thread, FinalizeRename(t)
    PROVE  TypeInv'
<1> USE DEF TypeInv, FinalizeRename
<1>1. Table'
  BY DEF Table, OpenFile, past, Cursors
<1>2. Files'
  BY AbsentType DEF Files, CtrlFile, Cursors, Calls, Table
<1>3. Calls'
  BY DEF Calls, Goto, Labels, Outcome, Flows, Flow, None
<1>4. Cursors'
  BY DEF Cursors, Goto, plan, Files
<1>5. Flows'
  BY DEF Flows, Flow, HoldsPart, UsesPart, UsesTmp, Calls, Goto, plan, Cursors
<1> QED BY <1>1, <1>2, <1>3, <1>4, <1>5

LEMMA FinalizeUnlinkType ==
    ASSUME TypeInv, NEW t \in Thread, FinalizeUnlink(t)
    PROVE  TypeInv'
<1> USE DEF TypeInv, FinalizeUnlink
<1>1. Table'
  BY FreeType DEF Table, OpenFile, past, Cursors, Leave
<1>2. Files'
  BY FreeType DEF Files, CtrlFile, Cursors, Calls, Table
<1>3. Calls'
  BY DEF Calls, Goto, Leave, Labels, Outcome, Flows, Flow, None
<1>4. Cursors'
  BY DEF Cursors, Goto, Leave, Files
<1>5. Flows'
  BY DEF Flows, Flow, HoldsPart, UsesPart, UsesTmp, Calls, Goto, Leave, None, Cursors
<1> QED BY <1>1, <1>2, <1>3, <1>4, <1>5

LEMMA KillType ==
    ASSUME TypeInv, Kill
    PROVE  TypeInv'
<1> USE DEF TypeInv, Kill
<1>1. Table'
  BY FreeType DEF Table, Fault, past
<1>2. Files'
  BY DEF Files, disk
<1>3. Calls'
  BY DEF Calls, Labels, Outcome, None
<1>4. Cursors'
  BY DEF Cursors
<1>5. Flows'
  BY DEF Flows, Flow, HoldsPart, UsesPart, UsesTmp
<1> QED BY <1>1, <1>2, <1>3, <1>4, <1>5

-----------------------------------------------------------------------------
(* Ownership.                                                              *)

(* What write_atomic has in its temporary file, if nobody else wrote to it. *)
TmpText ==
    ~stolen => \A t \in Thread :
        /\ pc[t] = "tmp_write" => tmp[t].text = "empty"
        /\ pc[t] = "tmp_replace" => tmp[t].text = "whole"

OwnInv == DescriptorOwned /\ NoLeak /\ TmpText /\ CtrlWhole

(* The only way to become guilty.                                          *)
Guilty(t) == ~stolen /\ stolen' => pc[t] = "finally" /\ then[t] = "partial"

LEMMA ClosesOwn ==
    ASSUME TypeInv, NEW n, NEW kind, NEW t, Closes(n, kind, t), ~stolen'
    PROVE  ~stolen /\ (fds[n].kind = "free" \/ (fds[n].kind = kind /\ fds[n].of = t))
<1>1. ~(stolen \/ (fds[n].kind # "free" /\ <<fds[n].kind, fds[n].of>> # <<kind, t>>))
  BY DEF Closes, TypeInv, Table
<1> QED BY <1>1

LEMMA PrepareOwned ==
    ASSUME TypeInv, OwnInv, NEW t \in Thread, Prepare(t)
    PROVE  OwnInv' /\ Guilty(t)
<1> USE DEF OwnInv, TypeInv, DescriptorOwned, Prepare
<1>1. Guilty(t)
  BY DEF Guilty, past, Flows, Flow, HoldsPart, UsesPart, UsesTmp
<1>2. DescriptorOwned'
  BY DEF Goto, past, Flows, Flow, HoldsPart, UsesPart, UsesTmp, Calls, Table
<1>3. NoLeak'
  BY DEF NoLeak, Goto, Closed, Unused, past, Flows, Flow, HoldsPart, UsesPart, UsesTmp,
       Calls, Table
<1>4. TmpText'
  BY DEF TmpText, Goto, past, disk, Flows, Flow, Calls, Files
<1>5. CtrlWhole'
  BY DEF CtrlWhole, past, disk, Files
<1> QED BY <1>1, <1>2, <1>3, <1>4, <1>5

LEMMA ConnectionFailsOwned ==
    ASSUME TypeInv, OwnInv, NEW t \in Thread, ConnectionFails(t)
    PROVE  OwnInv' /\ Guilty(t)
<1> USE DEF OwnInv, TypeInv, DescriptorOwned, ConnectionFails
<1>1. Guilty(t)
  BY DEF Guilty, past, Flows, Flow, HoldsPart, UsesPart, UsesTmp
<1>2. DescriptorOwned'
  BY DEF Goto, Leave, past, Flows, Flow, HoldsPart, UsesPart, UsesTmp, Calls, Table, None
<1>3. NoLeak'
  BY DEF NoLeak, Goto, Leave, Closed, Unused, past, Flows, Flow, HoldsPart, UsesPart,
       UsesTmp, Calls, Table, None
<1>4. TmpText'
  BY DEF TmpText, Goto, Leave, past, disk, Flows, Flow, Calls, Files
<1>5. CtrlWhole'
  BY DEF CtrlWhole, past, disk, Files
<1> QED BY <1>1, <1>2, <1>3, <1>4, <1>5

LEMMA AnswerOwned ==
    ASSUME TypeInv, OwnInv, NEW t \in Thread, Answer(t)
    PROVE  OwnInv' /\ Guilty(t)
<1> USE DEF OwnInv, TypeInv, DescriptorOwned, Answer
<1>1. Guilty(t)
  BY DEF Guilty, past, Flows, Flow, HoldsPart, UsesPart, UsesTmp
<1>2. DescriptorOwned'
  BY DEF Goto, past, Flows, Flow, HoldsPart, UsesPart, UsesTmp, Calls, Table
<1>3. NoLeak'
  BY DEF NoLeak, Goto, Closed, Unused, past, Flows, Flow, HoldsPart, UsesPart, UsesTmp,
       Calls, Table
<1>4. TmpText'
  BY DEF TmpText, Goto, past, disk, Flows, Flow, Calls, Files
<1>5. CtrlWhole'
  BY DEF CtrlWhole, past, disk, Files
<1> QED BY <1>1, <1>2, <1>3, <1>4, <1>5

LEMMA Complete416Owned ==
    ASSUME TypeInv, OwnInv, NEW t \in Thread, Complete416(t)
    PROVE  OwnInv' /\ Guilty(t)
<1> USE DEF OwnInv, TypeInv, DescriptorOwned, Complete416
<1>1. Guilty(t)
  BY DEF Guilty, past, Flows, Flow, HoldsPart, UsesPart, UsesTmp
<1>2. DescriptorOwned'
  BY DEF Goto, past, Flows, Flow, HoldsPart, UsesPart, UsesTmp, Calls, Table
<1>3. NoLeak'
  BY DEF NoLeak, Goto, Closed, Unused, past, Flows, Flow, HoldsPart, UsesPart, UsesTmp,
       Calls, Table
<1>4. TmpText'
  BY DEF TmpText, Goto, past, Flows, Flow, Calls, Files
<1>5. CtrlWhole'
  BY DEF CtrlWhole, past, Files
<1> QED BY <1>1, <1>2, <1>3, <1>4, <1>5

LEMMA OpenOwned ==
    ASSUME TypeInv, OwnInv, NEW t \in Thread, Open(t)
    PROVE  OwnInv' /\ Guilty(t)
<1> USE DEF OwnInv, TypeInv, DescriptorOwned, Open
<1>1. Guilty(t)
  BY DEF Guilty, past, Flows, Flow, HoldsPart, UsesPart, UsesTmp
<1>2. DescriptorOwned'
  <2>1. CASE Unused = {}
    BY <2>1 DEF Leave, Goto, Unwind, SaveRaises, past, HoldsPart, UsesPart, UsesTmp, Calls,
         Flows, Flow
  <2>2. CASE Unused # {}
    <3> DEFINE n == Lowest(Unused)
    <3> SUFFICES ASSUME ~stolen, NEW u \in Thread
                 PROVE  /\ HoldsPart(u)' => fds'[fd'[u]].kind = "part" /\ fds'[fd'[u]].of = u
                        /\ pc'[u] \in UsesTmp => fds'[tfd'[u]].kind = "tmp" /\ fds'[tfd'[u]].of = u
      BY DEF past
    <3>1. n \in Fd /\ fds[n].kind = "free"
      BY <2>2, LowestUnused
    <3>2. Opens(n, "part", t) /\ fd' = [fd EXCEPT ![t] = n] /\ UNCHANGED <<then, tfd>>
      BY <2>2
    <3> HIDE DEF n
    <3>3. /\ fds'[n].kind = "part" /\ fds'[n].of = t
          /\ \A m \in Fd : m # n => fds'[m] = fds[m]
      BY <3>1, <3>2 DEF Opens, Table
    <3>4. /\ HoldsPart(u) => fds'[fd[u]].kind = "part" /\ fds'[fd[u]].of = u
          /\ pc[u] \in UsesTmp => fds'[tfd[u]].kind = "tmp" /\ fds'[tfd[u]].of = u
      <4> HIDE DEF Open, OpenTmp
      <4>1. HoldsPart(u) => fd[u] \in Fd /\ fd[u] # n
        BY <3>1 DEF Flows, Flow
      <4>2. pc[u] \in UsesTmp => tfd[u] \in Fd /\ tfd[u] # n
        BY <3>1 DEF Flows, Flow
      <4>3. HoldsPart(u) => fds[fd[u]].kind = "part" /\ fds[fd[u]].of = u
        OBVIOUS
      <4>4. pc[u] \in UsesTmp => fds[tfd[u]].kind = "tmp" /\ fds[tfd[u]].of = u
        OBVIOUS
      <4> QED BY <3>3, <4>1, <4>2, <4>3, <4>4
    <3> QED BY <2>2, <3>1, <3>2, <3>3, <3>4 DEF Goto, HoldsPart, UsesPart, UsesTmp, Calls,
         Flows, Flow
  <2> QED BY <2>1, <2>2
<1>3. NoLeak'
  BY LowestUnused DEF NoLeak, Goto, Leave, Opens, Closed, Unused, past, Flows, Flow,
       HoldsPart, UsesPart, UsesTmp, Calls, Table, None
<1>4. TmpText'
  BY DEF TmpText, Goto, Leave, past, Flows, Flow, Calls, Files
<1>5. CtrlWhole'
  BY DEF CtrlWhole, past, Files
<1> QED BY <1>1, <1>2, <1>3, <1>4, <1>5

LEMMA AllocateOwned ==
    ASSUME TypeInv, OwnInv, NEW t \in Thread, Allocate(t)
    PROVE  OwnInv' /\ Guilty(t)
<1> USE DEF OwnInv, TypeInv, DescriptorOwned, Allocate
<1>1. Guilty(t)
  BY DEF Guilty, past, Flows, Flow, HoldsPart, UsesPart, UsesTmp
<1>2. DescriptorOwned'
  BY DEF Goto, Closed, Unused, past, Flows, Flow, HoldsPart, UsesPart, UsesTmp, Calls, Table
<1>3. NoLeak'
  <2> SUFFICES ASSUME ~stolen, NEW m \in Fd, fds'[m].kind # "free"
               PROVE  \E u \in Thread : \/ HoldsPart(u)' /\ fd'[u] = m
                                        \/ pc'[u] \in UsesTmp /\ tfd'[u] = m
    BY DEF NoLeak, Closed, Unused, past
  <2>1. fds[m].kind # "free"
    BY DEF Table, OpenFile
  <2>2. PICK u \in Thread : \/ HoldsPart(u) /\ fd[u] = m
                            \/ pc[u] \in UsesTmp /\ tfd[u] = m
    BY <2>1 DEF NoLeak, Closed, Unused, HoldsPart
  <2>3. \/ HoldsPart(u)' /\ fd'[u] = m
        \/ pc'[u] \in UsesTmp /\ tfd'[u] = m
    BY <2>2 DEF Goto, HoldsPart, UsesPart, UsesTmp, Calls, Flows, Flow
  <2> QED BY <2>3 DEF HoldsPart
<1>4. TmpText'
  BY DEF TmpText, Goto, past, Flows, Flow, Calls, Files
<1>5. CtrlWhole'
  BY DEF CtrlWhole, past, Files
<1> QED BY <1>1, <1>2, <1>3, <1>4, <1>5

LEMMA AllocateFailsOwned ==
    ASSUME TypeInv, OwnInv, NEW t \in Thread, AllocateFails(t)
    PROVE  OwnInv' /\ Guilty(t)
<1> USE DEF OwnInv, TypeInv, DescriptorOwned, AllocateFails
<1>1. Guilty(t)
  BY DEF Guilty, Closes, Flows, Flow, HoldsPart, UsesPart, UsesTmp
<1>2. DescriptorOwned'
  BY DEF Goto, Leave, Closes, Closed, Unused, Flows, Flow, HoldsPart, UsesPart, UsesTmp,
       Calls, Table, Free, None
<1>3. NoLeak'
  <2> SUFFICES ASSUME ~stolen', NEW m \in Fd, fds'[m].kind # "free"
               PROVE  \E u \in Thread : \/ HoldsPart(u)' /\ fd'[u] = m
                                        \/ pc'[u] \in UsesTmp /\ tfd'[u] = m
    BY DEF NoLeak, Closed, Unused
  <2>1. ~stolen
    BY ClosesOwn
  <2>2. m # fd[t] /\ fds[m].kind # "free"
    BY DEF Closes, Table, Free, Flows, Flow, HoldsPart, UsesPart
  <2>3. PICK u \in Thread : \/ HoldsPart(u) /\ fd[u] = m
                            \/ pc[u] \in UsesTmp /\ tfd[u] = m
    BY <2>1, <2>2 DEF NoLeak, Closed, Unused, HoldsPart
  <2>4. u # t
    BY <2>2, <2>3 DEF HoldsPart, UsesTmp
  <2>5. \/ HoldsPart(u)' /\ fd'[u] = m
        \/ pc'[u] \in UsesTmp /\ tfd'[u] = m
    BY <2>3, <2>4 DEF Leave, Goto, HoldsPart, UsesPart, UsesTmp, Calls
  <2> QED BY <2>5 DEF HoldsPart
<1>4. TmpText'
  <2> SUFFICES ASSUME ~stolen', NEW u \in Thread
               PROVE  /\ pc'[u] = "tmp_write" => tmp'[u].text = "empty"
                      /\ pc'[u] = "tmp_replace" => tmp'[u].text = "whole"
    BY DEF TmpText
  <2>1. ~stolen
    BY ClosesOwn
  <2>2. pc'[t] \notin {"tmp_write", "tmp_replace"} /\ (u # t => pc'[u] = pc[u])
    BY DEF Goto, Leave, Unwind, SaveRaises, Calls, Flows, Flow, UsesTmp
  <2>3. u # t => tmp'[u] = tmp[u]
    BY DEF disk, Files
  <2> QED BY <2>1, <2>2, <2>3 DEF TmpText
<1>5. CtrlWhole'
  BY DEF CtrlWhole, Closes, disk, Files
<1> QED BY <1>1, <1>2, <1>3, <1>4, <1>5

LEMMA WriteChunkOwned ==
    ASSUME TypeInv, OwnInv, NEW t \in Thread, NEW n \in 1 .. MaxChunk, NEW k \in 1 .. n,
           WriteChunk(t, n, k)
    PROVE  OwnInv' /\ Guilty(t)
<1> USE DEF OwnInv, TypeInv, DescriptorOwned, WriteChunk
<1>1. Guilty(t)
  BY DEF Guilty, Flows, Flow, HoldsPart, UsesPart, UsesTmp
<1>2. DescriptorOwned'
  BY DEF Goto, Closed, Unused, Flows, Flow, HoldsPart, UsesPart, UsesTmp, Calls, Table
<1>3. NoLeak'
  BY DEF NoLeak, Goto, Closed, Unused, Flows, Flow, HoldsPart, UsesPart, UsesTmp, Calls, Table
<1>4. TmpText'
  BY DEF TmpText, Goto, Leave, Unwind, SaveRaises, Closes, past, disk, Flows, Flow,
       HoldsPart, UsesPart, UsesTmp, Calls, Files, CtrlFile
<1>5. CtrlWhole'
  BY DEF CtrlWhole, Files
<1> QED BY <1>1, <1>2, <1>3, <1>4, <1>5

LEMMA StreamEndsOwned ==
    ASSUME TypeInv, OwnInv, NEW t \in Thread, StreamEnds(t)
    PROVE  OwnInv' /\ Guilty(t)
<1> USE DEF OwnInv, TypeInv, DescriptorOwned, StreamEnds
<1>1. Guilty(t)
  BY DEF Guilty, past, Flows, Flow, HoldsPart, UsesPart, UsesTmp
<1>2. DescriptorOwned'
  BY DEF Goto, past, Flows, Flow, HoldsPart, UsesPart, UsesTmp, Calls, Table
<1>3. NoLeak'
  BY DEF NoLeak, Goto, Closed, Unused, past, Flows, Flow, HoldsPart, UsesPart, UsesTmp,
       Calls, Table
<1>4. TmpText'
  BY DEF TmpText, Goto, past, disk, Flows, Flow, Calls, Files
<1>5. CtrlWhole'
  BY DEF CtrlWhole, past, disk, Files
<1> QED BY <1>1, <1>2, <1>3, <1>4, <1>5

LEMMA StreamErrorOwned ==
    ASSUME TypeInv, OwnInv, NEW t \in Thread, StreamError(t)
    PROVE  OwnInv' /\ Guilty(t)
<1> USE DEF OwnInv, TypeInv, DescriptorOwned, StreamError
<1>1. Guilty(t)
  BY DEF Guilty, past, Flows, Flow, HoldsPart, UsesPart, UsesTmp
<1>2. DescriptorOwned'
  BY DEF Goto, past, Flows, Flow, HoldsPart, UsesPart, UsesTmp, Calls, Table
<1>3. NoLeak'
  BY DEF NoLeak, Goto, Closed, Unused, past, Flows, Flow, HoldsPart, UsesPart, UsesTmp,
       Calls, Table
<1>4. TmpText'
  BY DEF TmpText, Goto, past, disk, Flows, Flow, Calls, Files
<1>5. CtrlWhole'
  BY DEF CtrlWhole, past, disk, Files
<1> QED BY <1>1, <1>2, <1>3, <1>4, <1>5

LEMMA RaiseOwned ==
    ASSUME TypeInv, OwnInv, NEW t \in Thread, Raise(t)
    PROVE  OwnInv' /\ Guilty(t)
<1> USE DEF OwnInv, TypeInv, DescriptorOwned, Raise
<1>1. Guilty(t)
  BY DEF Guilty, past, Flows, Flow, HoldsPart, UsesPart, UsesTmp
<1>2. DescriptorOwned'
  BY DEF Goto, Unwind, Closed, Unused, past, Flows, Flow, HoldsPart, UsesPart, UsesTmp,
       Calls, Table, None
<1>3. NoLeak'
  BY DEF NoLeak, Goto, Unwind, Closed, Unused, past, Flows, Flow, HoldsPart, UsesPart,
       UsesTmp, Calls, Table, None
<1>4. TmpText'
  BY DEF TmpText, Goto, Unwind, past, disk, Flows, Flow, Calls, Files
<1>5. CtrlWhole'
  BY DEF CtrlWhole, past, disk, Files
<1> QED BY <1>1, <1>2, <1>3, <1>4, <1>5

LEMMA DatasyncOwned ==
    ASSUME TypeInv, OwnInv, NEW t \in Thread, Datasync(t)
    PROVE  OwnInv' /\ Guilty(t)
<1> USE DEF OwnInv, TypeInv, DescriptorOwned, Datasync
<1>1. Guilty(t)
  BY DEF Guilty, past, Flows, Flow, HoldsPart, UsesPart, UsesTmp
<1>2. DescriptorOwned'
  BY DEF Goto, Unwind, Closed, Unused, past, Flows, Flow, HoldsPart, UsesPart, UsesTmp,
       Calls, Table, None
<1>3. NoLeak'
  BY DEF NoLeak, Goto, Unwind, Closed, Unused, past, Flows, Flow, HoldsPart, UsesPart,
       UsesTmp, Calls, Table, None
<1>4. TmpText'
  BY DEF TmpText, Goto, Unwind, past, Flows, Flow, Calls, Files
<1>5. CtrlWhole'
  BY DEF CtrlWhole, past, Files
<1> QED BY <1>1, <1>2, <1>3, <1>4, <1>5

LEMMA OpenTmpOwned ==
    ASSUME TypeInv, OwnInv, NEW t \in Thread, OpenTmp(t)
    PROVE  OwnInv' /\ Guilty(t)
<1> USE DEF OwnInv, TypeInv, DescriptorOwned, OpenTmp
<1>1. Guilty(t)
  BY DEF Guilty, past, Flows, Flow, HoldsPart, UsesPart, UsesTmp
<1>2. DescriptorOwned'
  <2>1. CASE Unused = {}
    BY <2>1 DEF Leave, Goto, Unwind, SaveRaises, past, HoldsPart, UsesPart, UsesTmp, Calls,
         Flows, Flow
  <2>2. CASE Unused # {}
    <3> DEFINE n == Lowest(Unused)
    <3> SUFFICES ASSUME ~stolen, NEW u \in Thread
                 PROVE  /\ HoldsPart(u)' => fds'[fd'[u]].kind = "part" /\ fds'[fd'[u]].of = u
                        /\ pc'[u] \in UsesTmp => fds'[tfd'[u]].kind = "tmp" /\ fds'[tfd'[u]].of = u
      BY DEF past
    <3>1. n \in Fd /\ fds[n].kind = "free"
      BY <2>2, LowestUnused
    <3>2. Opens(n, "tmp", t) /\ tfd' = [tfd EXCEPT ![t] = n] /\ UNCHANGED <<then, fd>>
      BY <2>2
    <3> HIDE DEF n
    <3>3. /\ fds'[n].kind = "tmp" /\ fds'[n].of = t
          /\ \A m \in Fd : m # n => fds'[m] = fds[m]
      BY <3>1, <3>2 DEF Opens, Table
    <3>4. /\ HoldsPart(u) => fds'[fd[u]].kind = "part" /\ fds'[fd[u]].of = u
          /\ pc[u] \in UsesTmp => fds'[tfd[u]].kind = "tmp" /\ fds'[tfd[u]].of = u
      <4> HIDE DEF Open, OpenTmp
      <4>1. HoldsPart(u) => fd[u] \in Fd /\ fd[u] # n
        BY <3>1 DEF Flows, Flow
      <4>2. pc[u] \in UsesTmp => tfd[u] \in Fd /\ tfd[u] # n
        BY <3>1 DEF Flows, Flow
      <4>3. /\ HoldsPart(u) => fds[fd[u]].kind = "part" /\ fds[fd[u]].of = u
            /\ pc[u] \in UsesTmp => fds[tfd[u]].kind = "tmp" /\ fds[tfd[u]].of = u
        OBVIOUS
      <4> HIDE DEF OwnInv, TypeInv, DescriptorOwned
      <4> QED BY <3>3, <4>1, <4>2, <4>3
    <3> QED BY <2>2, <3>1, <3>2, <3>3, <3>4 DEF Goto, HoldsPart, UsesPart, UsesTmp, Calls,
         Flows, Flow
  <2> QED BY <2>1, <2>2
<1>3. NoLeak'
  BY LowestUnused DEF NoLeak, Goto, Leave, Unwind, SaveRaises, Opens, Closed, Unused, past,
       Flows, Flow, HoldsPart, UsesPart, UsesTmp, Calls, Table, None
<1>4. TmpText'
  BY DEF TmpText, Goto, Leave, Unwind, SaveRaises, past, Flows, Flow, Calls, Files
<1>5. CtrlWhole'
  BY DEF CtrlWhole, past, Files
<1> QED BY <1>1, <1>2, <1>3, <1>4, <1>5

LEMMA WriteTmpOwned ==
    ASSUME TypeInv, OwnInv, NEW t \in Thread, WriteTmp(t)
    PROVE  OwnInv' /\ Guilty(t)
<1> USE DEF OwnInv, TypeInv, DescriptorOwned, WriteTmp
<1>1. Guilty(t)
  BY DEF Guilty, past, Flows, Flow, HoldsPart, UsesPart, UsesTmp
<1>2. DescriptorOwned'
  BY DEF Goto, Closed, Unused, past, Flows, Flow, HoldsPart, UsesPart, UsesTmp, Calls, Table
<1>3. NoLeak'
  <2> SUFFICES ASSUME ~stolen, NEW m \in Fd, fds'[m].kind # "free"
               PROVE  \E u \in Thread : \/ HoldsPart(u)' /\ fd'[u] = m
                                        \/ pc'[u] \in UsesTmp /\ tfd'[u] = m
    BY DEF NoLeak, Closed, Unused, past
  <2>1. fds[m].kind # "free"
    BY DEF Table, OpenFile
  <2>2. PICK u \in Thread : \/ HoldsPart(u) /\ fd[u] = m
                            \/ pc[u] \in UsesTmp /\ tfd[u] = m
    BY <2>1 DEF NoLeak, Closed, Unused, HoldsPart
  <2>3. \/ HoldsPart(u)' /\ fd'[u] = m
        \/ pc'[u] \in UsesTmp /\ tfd'[u] = m
    BY <2>2 DEF Goto, HoldsPart, UsesPart, UsesTmp, Calls, Flows, Flow
  <2> QED BY <2>3 DEF HoldsPart
<1>4. TmpText'
  BY DEF TmpText, Goto, Leave, Unwind, SaveRaises, Closes, past, disk, Flows, Flow,
       HoldsPart, UsesPart, UsesTmp, Calls, Files, CtrlFile
<1>5. CtrlWhole'
  BY DEF CtrlWhole, past, Files
<1> QED BY <1>1, <1>2, <1>3, <1>4, <1>5

LEMMA TmpFailsOwned ==
    ASSUME TypeInv, OwnInv, NEW t \in Thread, TmpFails(t)
    PROVE  OwnInv' /\ Guilty(t)
<1> USE DEF OwnInv, TypeInv, DescriptorOwned, TmpFails
<1>1. Guilty(t)
  BY DEF Guilty, Closes, Flows, Flow, HoldsPart, UsesPart, UsesTmp
<1>2. DescriptorOwned'
  BY DEF Goto, Leave, Unwind, SaveRaises, Closes, Closed, Unused, Flows, Flow, HoldsPart,
       UsesPart, UsesTmp, Calls, Table, Free, None
<1>3. NoLeak'
  BY DEF NoLeak, Goto, Leave, Unwind, SaveRaises, Closes, Closed, Unused, Flows, Flow,
       HoldsPart, UsesPart, UsesTmp, Calls, Table, Free, None
<1>4. TmpText'
  <2> SUFFICES ASSUME ~stolen', NEW u \in Thread
               PROVE  /\ pc'[u] = "tmp_write" => tmp'[u].text = "empty"
                      /\ pc'[u] = "tmp_replace" => tmp'[u].text = "whole"
    BY DEF TmpText
  <2>1. ~stolen
    BY ClosesOwn
  <2>2. pc'[t] \notin {"tmp_write", "tmp_replace"} /\ (u # t => pc'[u] = pc[u])
    BY DEF Goto, Leave, Unwind, SaveRaises, Calls, Flows, Flow, UsesTmp
  <2>3. u # t => tmp'[u] = tmp[u]
    BY DEF disk, Files
  <2> QED BY <2>1, <2>2, <2>3 DEF TmpText
<1>5. CtrlWhole'
  BY DEF CtrlWhole, Closes, disk, Files
<1> QED BY <1>1, <1>2, <1>3, <1>4, <1>5

LEMMA ReplaceOwned ==
    ASSUME TypeInv, OwnInv, NEW t \in Thread, Replace(t)
    PROVE  OwnInv' /\ Guilty(t)
<1> USE DEF OwnInv, TypeInv, DescriptorOwned, Replace
<1>1. Guilty(t)
  BY DEF Guilty, Closes, Flows, Flow, HoldsPart, UsesPart, UsesTmp
<1>2. DescriptorOwned'
  BY DEF Goto, Leave, Closes, Closed, Unused, Flows, Flow, HoldsPart, UsesPart, UsesTmp,
       Calls, Table, Free, None
<1>3. NoLeak'
  BY DEF NoLeak, Goto, Leave, Closes, Closed, Unused, Flows, Flow, HoldsPart, UsesPart,
       UsesTmp, Calls, Table, Free, None
<1>4. TmpText'
  <2> SUFFICES ASSUME ~stolen', NEW u \in Thread
               PROVE  /\ pc'[u] = "tmp_write" => tmp'[u].text = "empty"
                      /\ pc'[u] = "tmp_replace" => tmp'[u].text = "whole"
    BY DEF TmpText
  <2>1. ~stolen
    BY ClosesOwn
  <2>2. pc'[t] \notin {"tmp_write", "tmp_replace"} /\ (u # t => pc'[u] = pc[u])
    BY DEF Goto, Leave, Unwind, SaveRaises, Calls, Flows, Flow, UsesTmp
  <2>3. u # t => tmp'[u] = tmp[u]
    BY DEF disk, Files
  <2> QED BY <2>1, <2>2, <2>3 DEF TmpText
<1>5. CtrlWhole'
  BY DEF CtrlWhole, TmpText, Closes, past, disk, UsesTmp, Files, CtrlFile, NoCtrl
<1> QED BY <1>1, <1>2, <1>3, <1>4, <1>5

LEMMA CloseOwned ==
    ASSUME TypeInv, OwnInv, NEW t \in Thread, Close(t)
    PROVE  OwnInv' /\ Guilty(t)
<1> USE DEF OwnInv, TypeInv, DescriptorOwned, Close
<1>1. Guilty(t)
  BY DEF Guilty, Closes, Flows, Flow, HoldsPart, UsesPart, UsesTmp
<1>2. DescriptorOwned'
  BY DEF Goto, Unwind, Closes, Closed, Unused, Flows, Flow, HoldsPart, UsesPart, UsesTmp,
       Calls, Table, Free, None
<1>3. NoLeak'
  BY DEF NoLeak, Goto, Unwind, Closes, Closed, Unused, Flows, Flow, HoldsPart, UsesPart,
       UsesTmp, Calls, Table, Free, None
<1>4. TmpText'
  <2> SUFFICES ASSUME ~stolen', NEW u \in Thread
               PROVE  /\ pc'[u] = "tmp_write" => tmp'[u].text = "empty"
                      /\ pc'[u] = "tmp_replace" => tmp'[u].text = "whole"
    BY DEF TmpText
  <2>1. ~stolen
    BY ClosesOwn
  <2>2. pc'[t] \notin {"tmp_write", "tmp_replace"} /\ (u # t => pc'[u] = pc[u])
    BY DEF Goto, Leave, Unwind, SaveRaises, Calls, Flows, Flow, UsesTmp
  <2>3. u # t => tmp'[u] = tmp[u]
    BY DEF disk, Files
  <2> QED BY <2>1, <2>2, <2>3 DEF TmpText
<1>5. CtrlWhole'
  BY DEF CtrlWhole, Closes, disk, Files
<1> QED BY <1>1, <1>2, <1>3, <1>4, <1>5

LEMMA FinallyOwned ==
    ASSUME TypeInv, OwnInv, NEW t \in Thread, Finally(t)
    PROVE  OwnInv' /\ Guilty(t)
<1> USE DEF OwnInv, TypeInv, DescriptorOwned, Finally
<1>1. Guilty(t)
  BY DEF Guilty, Closes, Flows, Flow, HoldsPart, UsesPart, UsesTmp
<1>2. DescriptorOwned'
  <2> SUFFICES ASSUME ~stolen', NEW u \in Thread
               PROVE  /\ HoldsPart(u)' => fds'[fd'[u]].kind = "part" /\ fds'[fd'[u]].of = u
                      /\ pc'[u] \in UsesTmp => fds'[tfd'[u]].kind = "tmp" /\ fds'[tfd'[u]].of = u
    OBVIOUS
  <2>1. ~stolen /\ (fds[fd[t]].kind = "free" \/ (fds[fd[t]].kind = "part" /\ fds[fd[t]].of = t))
    BY ClosesOwn
  <2>2. \A m \in Fd : m # fd[t] => fds'[m] = fds[m]
    BY DEF Closes, Table
  <2>3. ~HoldsPart(t)' /\ pc'[t] \notin UsesTmp
    BY DEF Leave, Goto, HoldsPart, UsesPart, UsesTmp, Calls, Flows, Flow
  <2>4. u # t => /\ fd'[u] = fd[u] /\ tfd'[u] = tfd[u] /\ pc'[u] = pc[u] /\ then'[u] = then[u]
    BY DEF Leave, Goto, Calls
  <2>5. u # t => /\ HoldsPart(u) => fds'[fd[u]].kind = "part" /\ fds'[fd[u]].of = u
                 /\ pc[u] \in UsesTmp => fds'[tfd[u]].kind = "tmp" /\ fds'[tfd[u]].of = u
    <3>1. Flow(u) /\ (HoldsPart(u) => fds[fd[u]].kind = "part" /\ fds[fd[u]].of = u)
          /\ (pc[u] \in UsesTmp => fds[tfd[u]].kind = "tmp" /\ fds[tfd[u]].of = u)
      BY <2>1 DEF Flows
    <3>2. (HoldsPart(u) => fd[u] \in Fd) /\ (pc[u] \in UsesTmp => tfd[u] \in Fd)
      BY <3>1 DEF Flow
    <3> HIDE DEF OwnInv, TypeInv, DescriptorOwned, Finally
    <3>3. u # t /\ HoldsPart(u) => fd[u] # fd[t]
      BY <2>1, <3>1
    <3>4. u # t /\ pc[u] \in UsesTmp => tfd[u] # fd[t]
      BY <2>1, <3>1
    <3> QED BY <2>2, <3>1, <3>2, <3>3, <3>4
  <2> QED BY <2>3, <2>4, <2>5 DEF HoldsPart
<1>3. NoLeak'
  BY DEF NoLeak, Goto, Leave, Closes, Closed, Unused, Flows, Flow, HoldsPart, UsesPart,
       UsesTmp, Calls, Table, Free, None
<1>4. TmpText'
  <2> SUFFICES ASSUME ~stolen', NEW u \in Thread
               PROVE  /\ pc'[u] = "tmp_write" => tmp'[u].text = "empty"
                      /\ pc'[u] = "tmp_replace" => tmp'[u].text = "whole"
    BY DEF TmpText
  <2>1. ~stolen
    BY ClosesOwn
  <2>2. pc'[t] \notin {"tmp_write", "tmp_replace"} /\ (u # t => pc'[u] = pc[u])
    BY DEF Goto, Leave, Unwind, SaveRaises, Calls, Flows, Flow, UsesTmp
  <2>3. u # t => tmp'[u] = tmp[u]
    BY DEF disk, Files
  <2> QED BY <2>1, <2>2, <2>3 DEF TmpText
<1>5. CtrlWhole'
  BY DEF CtrlWhole, Closes, disk, Files
<1> QED BY <1>1, <1>2, <1>3, <1>4, <1>5

LEMMA AfterStreamShortOwned ==
    ASSUME TypeInv, OwnInv, NEW t \in Thread, AfterStreamShort(t)
    PROVE  OwnInv' /\ Guilty(t)
<1> USE DEF OwnInv, TypeInv, DescriptorOwned, AfterStreamShort
<1>1. Guilty(t)
  BY DEF Guilty, past, Flows, Flow, HoldsPart, UsesPart, UsesTmp
<1>2. DescriptorOwned'
  BY DEF Goto, past, Flows, Flow, HoldsPart, UsesPart, UsesTmp, Calls, Table
<1>3. NoLeak'
  BY DEF NoLeak, Goto, Closed, Unused, past, Flows, Flow, HoldsPart, UsesPart, UsesTmp,
       Calls, Table
<1>4. TmpText'
  BY DEF TmpText, Goto, past, disk, Flows, Flow, Calls, Files
<1>5. CtrlWhole'
  BY DEF CtrlWhole, past, disk, Files
<1> QED BY <1>1, <1>2, <1>3, <1>4, <1>5

LEMMA AfterStreamTrimOwned ==
    ASSUME TypeInv, OwnInv, NEW t \in Thread, AfterStreamTrim(t)
    PROVE  OwnInv' /\ Guilty(t)
<1> USE DEF OwnInv, TypeInv, DescriptorOwned, AfterStreamTrim
<1>1. Guilty(t)
  BY DEF Guilty, past, Flows, Flow, HoldsPart, UsesPart, UsesTmp
<1>2. DescriptorOwned'
  BY DEF Goto, past, Flows, Flow, HoldsPart, UsesPart, UsesTmp, Calls, Table
<1>3. NoLeak'
  BY DEF NoLeak, Goto, Closed, Unused, past, Flows, Flow, HoldsPart, UsesPart, UsesTmp,
       Calls, Table
<1>4. TmpText'
  BY DEF TmpText, Goto, past, Flows, Flow, Calls, Files
<1>5. CtrlWhole'
  BY DEF CtrlWhole, past, Files
<1> QED BY <1>1, <1>2, <1>3, <1>4, <1>5

LEMMA FinalizeRenameOwned ==
    ASSUME TypeInv, OwnInv, NEW t \in Thread, FinalizeRename(t)
    PROVE  OwnInv' /\ Guilty(t)
<1> USE DEF OwnInv, TypeInv, DescriptorOwned, FinalizeRename
<1>1. Guilty(t)
  BY DEF Guilty, past, Flows, Flow, HoldsPart, UsesPart, UsesTmp
<1>2. DescriptorOwned'
  BY DEF Goto, past, Flows, Flow, HoldsPart, UsesPart, UsesTmp, Calls, Table
<1>3. NoLeak'
  BY DEF NoLeak, Goto, Closed, Unused, past, Flows, Flow, HoldsPart, UsesPart, UsesTmp,
       Calls, Table
<1>4. TmpText'
  BY DEF TmpText, Goto, past, Flows, Flow, Calls, Files
<1>5. CtrlWhole'
  BY DEF CtrlWhole, past, Files
<1> QED BY <1>1, <1>2, <1>3, <1>4, <1>5

LEMMA FinalizeUnlinkOwned ==
    ASSUME TypeInv, OwnInv, NEW t \in Thread, FinalizeUnlink(t)
    PROVE  OwnInv' /\ Guilty(t)
<1> USE DEF OwnInv, TypeInv, DescriptorOwned, FinalizeUnlink
<1>1. Guilty(t)
  BY DEF Guilty, past, Flows, Flow, HoldsPart, UsesPart, UsesTmp
<1>2. DescriptorOwned'
  BY DEF Goto, Leave, past, Flows, Flow, HoldsPart, UsesPart, UsesTmp, Calls, Table, None
<1>3. NoLeak'
  BY DEF NoLeak, Goto, Leave, Closed, Unused, past, Flows, Flow, HoldsPart, UsesPart,
       UsesTmp, Calls, Table, None
<1>4. TmpText'
  BY DEF TmpText, Goto, Leave, past, Flows, Flow, Calls, Files
<1>5. CtrlWhole'
  BY DEF CtrlWhole, past, Files, NoCtrl
<1> QED BY <1>1, <1>2, <1>3, <1>4, <1>5

LEMMA KillOwned ==
    ASSUME TypeInv, OwnInv, Kill
    PROVE  OwnInv' /\ UNCHANGED stolen
<1> USE DEF OwnInv, TypeInv, Kill
<1>1. UNCHANGED stolen
  BY DEF past
<1>2. DescriptorOwned'
  BY DEF DescriptorOwned, HoldsPart, UsesPart, UsesTmp
<1>3. NoLeak'
  BY FreeType DEF NoLeak, Closed, Unused, Free
<1>4. TmpText' /\ CtrlWhole'
  BY DEF TmpText, CtrlWhole, disk, past
<1> QED BY <1>1, <1>2, <1>3, <1>4

-----------------------------------------------------------------------------
(* The specification.                                                      *)

LEMMA InitInv == Init => TypeInv /\ OwnInv
<1> SUFFICES ASSUME Init PROVE TypeInv /\ OwnInv
  OBVIOUS
<1> USE DEF Init
<1>1. Table
  <2>1. fds \in [Fd -> OpenFile] /\ faults \in 0 .. MaxFaults
    BY FreeType
  <2>2. stolen \in BOOLEAN /\ short \in BOOLEAN
    BY Zenon
  <2> QED BY <2>1, <2>2 DEF Table
<1>2. Files
  BY FreeType, AbsentType DEF Files
<1>3. Calls
  BY DEF Calls, Labels, Outcome, None
<1>4. Cursors
  BY DEF Cursors
<1>5. Flows
  BY DEF Flows, Flow, HoldsPart, UsesPart, UsesTmp
<1>6. DescriptorOwned
  BY DEF DescriptorOwned, HoldsPart, UsesPart, UsesTmp
<1>7. NoLeak
  BY DEF NoLeak, Closed, Unused, Free
<1>8. TmpText /\ CtrlWhole
  BY DEF TmpText, CtrlWhole, NoCtrl
<1> QED BY <1>1, <1>2, <1>3, <1>4, <1>5, <1>6, <1>7, <1>8 DEF TypeInv, OwnInv

LEMMA StutterInv ==
    ASSUME TypeInv, OwnInv, UNCHANGED vars
    PROVE  TypeInv' /\ OwnInv' /\ UNCHANGED stolen
<1> USE DEF vars, disk, plan, past
<1>1. TypeInv'
  BY DEF TypeInv, Table, Files, Calls, Cursors, Flows, Flow, HoldsPart
<1>2. DescriptorOwned' /\ NoLeak'
  BY DEF OwnInv, DescriptorOwned, NoLeak, HoldsPart, Closed, Unused
<1>3. TmpText' /\ CtrlWhole'
  BY DEF OwnInv, TmpText, CtrlWhole
<1> QED BY <1>1, <1>2, <1>3 DEF OwnInv

LEMMA ThreadStep ==
    ASSUME TypeInv, OwnInv, NEW t \in Thread, Step(t)
    PROVE  TypeInv' /\ OwnInv' /\ Guilty(t)
<1>1. CASE Prepare(t)
  BY <1>1, PrepareType, PrepareOwned
<1>2. CASE ConnectionFails(t)
  BY <1>2, ConnectionFailsType, ConnectionFailsOwned
<1>3. CASE Answer(t)
  BY <1>3, AnswerType, AnswerOwned
<1>4. CASE Complete416(t)
  BY <1>4, Complete416Type, Complete416Owned
<1>5. CASE Open(t)
  BY <1>5, OpenType, OpenOwned
<1>6. CASE Allocate(t)
  BY <1>6, AllocateType, AllocateOwned
<1>7. CASE AllocateFails(t)
  BY <1>7, AllocateFailsType, AllocateFailsOwned
<1>8. ASSUME NEW n \in 1 .. MaxChunk, NEW k \in 1 .. n, WriteChunk(t, n, k)
     PROVE  TypeInv' /\ OwnInv' /\ Guilty(t)
  BY <1>8, WriteChunkType, WriteChunkOwned
<1>9. CASE StreamEnds(t)
  BY <1>9, StreamEndsType, StreamEndsOwned
<1>10. CASE StreamError(t)
  BY <1>10, StreamErrorType, StreamErrorOwned
<1>11. CASE Raise(t)
  BY <1>11, RaiseType, RaiseOwned
<1>12. CASE Datasync(t)
  BY <1>12, DatasyncType, DatasyncOwned
<1>13. CASE OpenTmp(t)
  BY <1>13, OpenTmpType, OpenTmpOwned
<1>14. CASE WriteTmp(t)
  BY <1>14, WriteTmpType, WriteTmpOwned
<1>15. CASE TmpFails(t)
  BY <1>15, TmpFailsType, TmpFailsOwned
<1>16. CASE Replace(t)
  BY <1>16, ReplaceType, ReplaceOwned
<1>17. CASE Close(t)
  BY <1>17, CloseType, CloseOwned
<1>18. CASE Finally(t)
  BY <1>18, FinallyType, FinallyOwned
<1>19. CASE AfterStreamShort(t)
  BY <1>19, AfterStreamShortType, AfterStreamShortOwned
<1>20. CASE AfterStreamTrim(t)
  BY <1>20, AfterStreamTrimType, AfterStreamTrimOwned
<1>21. CASE FinalizeRename(t)
  BY <1>21, FinalizeRenameType, FinalizeRenameOwned
<1>22. CASE FinalizeUnlink(t)
  BY <1>22, FinalizeUnlinkType, FinalizeUnlinkOwned
<1> QED
  BY <1>1, <1>2, <1>3, <1>4, <1>5, <1>6, <1>7, <1>8, <1>9, <1>10, <1>11,
     <1>12, <1>13, <1>14, <1>15, <1>16, <1>17, <1>18, <1>19, <1>20, <1>21, <1>22
  DEF Step

LEMMA StepInv ==
    ASSUME TypeInv, OwnInv, [Next]_vars
    PROVE  /\ TypeInv' /\ OwnInv'
           /\ ~stolen /\ stolen' => \E t \in Thread : pc[t] = "finally" /\ then[t] = "partial"
<1>1. CASE Kill
  BY <1>1, KillType, KillOwned
<1>2. ASSUME NEW t \in Thread, Step(t)
      PROVE  /\ TypeInv' /\ OwnInv'
             /\ ~stolen /\ stolen' => \E s \in Thread : pc[s] = "finally" /\ then[s] = "partial"
  BY <1>2, ThreadStep DEF Guilty
<1>3. CASE UNCHANGED vars
  BY <1>3, StutterInv
<1> QED BY <1>1, <1>2, <1>3 DEF Next

LEMMA Invariant == Spec => [](TypeInv /\ OwnInv)
BY InitInv, StepInv, PTL DEF Spec

(* Every variable keeps to its range, for any number of threads.           *)
THEOREM TypeCorrect == Spec => []TypeOK
<1>1. TypeInv => TypeOK
  BY DEF TypeInv, Table, Files, Calls, Cursors, TypeOK
<1> QED BY Invariant, <1>1, PTL

(* However many threads there are, a thread that allocates, writes, syncs  *)
(* or saves does so through a number that stands for the file it opened    *)
(* itself, until a descriptor is closed under its owner.                   *)
THEOREM EachItsOwn == Spec => []DescriptorOwned
<1>1. OwnInv => DescriptorOwned
  BY DEF OwnInv
<1> QED BY Invariant, <1>1, PTL

(* No interleaving of failures leaves a descriptor open that no call is    *)
(* still going to close.                                                   *)
THEOREM AllClosed == Spec => []NoLeak
<1>1. OwnInv => NoLeak
  BY DEF OwnInv
<1> QED BY Invariant, <1>1, PTL

(* A control file is exactly one checkpoint of its own destination, at     *)
(* whatever step of write_atomic any of the threads fails or the process   *)
(* dies.                                                                   *)
THEOREM CheckpointsWhole == Spec => []CtrlWhole
<1>1. OwnInv => CtrlWhole
  BY DEF OwnInv
<1> QED BY Invariant, <1>1, PTL

(* Only the close of the finally clause that follows the close of the      *)
(* except clause can hit a descriptor of another thread: engine.py:99 is   *)
(* the one place where the engine endangers another download.              *)
THEOREM OneGuiltyClose == Spec => StolenOnlyTwice
<1>1. TypeInv /\ OwnInv /\ [Next]_vars =>
        [(~stolen /\ stolen') =>
            \E t \in Thread : pc[t] = "finally" /\ then[t] = "partial"]_vars
  BY StepInv
<1> QED BY Invariant, <1>1, PTL DEF Spec, StolenOnlyTwice
=============================================================================
