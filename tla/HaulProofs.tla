----------------------------- MODULE HaulProofs -----------------------------
(***************************************************************************)
(* Type correctness of module Haul, for every choice of its constants: any *)
(* number of versions of any length and content, any block size and        *)
(* threshold, any bound on the faults.  Then what the destination path and *)
(* the checkpoint promise, for every choice that satisfies Accountable:    *)
(* the inductive invariant of module HaulInv, and what follows from it.    *)
(***************************************************************************)
EXTENDS HaulInv, TLAPS

USE StorageAssumption, HaulAssumption

-----------------------------------------------------------------------------
(* What the operators on files return.                                     *)

LEMMA AbsentType == Absent \in File /\ ZeroData \in Data
  BY DEF Absent, ZeroData, File, Data, Offset

LEMMA ResizeType ==
  ASSUME NEW f \in File, NEW n \in 0 .. MaxLen
  PROVE  Resize(f, n) \in File
  BY DEF Resize, File, Data, Offset

LEMMA CreateType ==
  ASSUME NEW f \in File
  PROVE  Create(f) \in File
  BY DEF Create, File

LEMMA WriteAtType ==
  ASSUME NEW f \in File, NEW off \in 0 .. MaxLen, NEW n \in Nat,
         NEW body \in Data, off + n <= MaxLen
  PROVE  WriteAt(f, off, n, body) \in File
  BY DEF WriteAt, File, Data, Offset

LEMMA PowerLossType ==
  ASSUME NEW d \in File, NEW p \in File, NEW r \in AfterPowerLoss(d, p)
  PROVE  r \in File
<1>1. PICK kept \in SUBSET {i \in Offset : p.data[i] # d.data[i]},
           n \in {d.size, p.size} :
        r = [exists |-> p.exists,
             size |-> n,
             data |-> [i \in Offset |-> IF i >= n THEN Zero
                                        ELSE IF i \in kept THEN p.data[i]
                                        ELSE d.data[i]]]
  BY DEF AfterPowerLoss
<1> QED
  BY <1>1 DEF File, Data

LEMMA NoPlanType ==
  ASSUME Versions # {}
  PROVE  NoPlan \in Plan /\ NoPlan.dirty = 0 /\ NoPlan.cursor = 0
<1>1. (CHOOSE v \in Versions : TRUE) \in Versions
  OBVIOUS
<1> QED
  BY <1>1 DEF NoPlan, Plan, Tag

-----------------------------------------------------------------------------
(* Type correctness.  TypeOK alone is not inductive: that dirty stays in   *)
(* its range needs that it never exceeds the cursor.                       *)

LEMMA ReturnType ==
  ASSUME TypeInv, NEW o \in Outcome, Return(o)
  PROVE  /\ pc' \in InAttempt \cup {"idle"} /\ outcome' \in Outcome
         /\ prep' \in Prep /\ plan' \in Plan /\ fed' \in Data
         /\ plan'.dirty <= plan'.cursor
  BY NoPlanType, AbsentType
     DEF Return, TypeInv, TypeOK, NoPrep, Prep, Tag

LEMMA FaultType ==
  ASSUME TypeInv, Fault
  PROVE  faults' \in 0 .. MaxFaults
  BY DEF Fault, TypeInv, TypeOK

LEMMA StartOverType ==
  ASSUME TypeInv, StartOver
  PROVE  TypeInv'
<1> USE DEF TypeInv, TypeOK
<1>1. PICK known \in BOOLEAN :
        plan' = [ver |-> version, cursor |-> 0, known |-> known,
                 etag |-> TagOf[version], dirty |-> 0, got |-> FALSE]
  BY DEF StartOver
<1>2. plan' \in Plan /\ plan'.dirty <= plan'.cursor
  <2>1. version \in Versions
    OBVIOUS
  <2>2. TagOf[version] \in Tag
    BY <2>1 DEF Tag
  <2>3. 0 \in 0 .. MaxLen
    OBVIOUS
  <2> QED
    BY <1>1, <2>1, <2>2, <2>3 DEF Plan
<1> QED
  BY <1>2, AbsentType DEF StartOver, files, InAttempt

LEMMA RespondType ==
  ASSUME TypeInv, Respond
  PROVE  TypeInv'
<1> USE DEF TypeInv, TypeOK
<1>1. CASE Plan206
  <2>1. fed' \in Data
    BY <1>1 DEF Plan206, Rewarmed, Data, Prep, File
  <2>2. plan' \in Plan /\ plan'.dirty <= plan'.cursor
    <3>1. PICK known \in BOOLEAN :
            plan' = [ver |-> version, cursor |-> prep.cursor, known |-> known,
                     etag |-> IF TagOf[version] # NoTag THEN TagOf[version]
                                                        ELSE prep.etag,
                     dirty |-> 0, got |-> FALSE]
      BY <1>1 DEF Plan206
    <3>2. TagOf[version] \in Tag /\ prep.etag \in Tag /\ prep.cursor \in 0 .. MaxLen
      BY DEF Prep, Tag
    <3> QED
      BY <3>1, <3>2 DEF Plan
  <2>3. faults' \in 0 .. MaxFaults
    BY <1>1, FaultType DEF Plan206, CountBlind
  <2> QED
    BY <1>1, <2>1, <2>2, <2>3 DEF Plan206, files, InAttempt
<1>2. CASE Reject206
  <2>1. faults' \in 0 .. MaxFaults
    BY <1>2, FaultType DEF Reject206, CountBlind
  <2> QED
    BY <1>2, <2>1, ReturnType DEF Reject206, files, Outcome
<1>3. CASE Plan200
  BY <1>3, StartOverType DEF Plan200
<1>4. CASE PlanMislabeled206
  BY <1>4, StartOverType DEF PlanMislabeled206
<1>5. CASE On416Complete
  <2>1. prep.cursor \in 0 .. MaxLen
    BY DEF Prep
  <2>2. part' \in File /\ partDisk' \in File
    BY <1>5, <2>1, ResizeType DEF On416Complete
  <2>3. fed' \in Data
    BY <1>5, <2>1, ResizeType DEF On416Complete, File
  <2>4. plan' \in Plan /\ plan'.dirty <= plan'.cursor
    BY <1>5 DEF On416Complete, Plan, Prep, Tag
  <2>5. faults' \in 0 .. MaxFaults
    BY <1>5, FaultType DEF On416Complete, CountBlind
  <2> QED
    BY <1>5, <2>2, <2>3, <2>4, <2>5 DEF On416Complete, InAttempt
<1>6. CASE On416Raise
  BY <1>6, ReturnType, FaultType DEF On416Raise, files, Outcome, CountBlind
<1>7. CASE On416Reset
  <2>1. ctrl' \in Ctrl
    BY <1>7, AbsentType DEF On416Reset, ResetCheckpoint, NoCtrl, Ctrl, Tag
  <2> QED
    BY <1>7, <2>1, ReturnType, FaultType DEF On416Reset, files, Outcome, CountBlind
<1> QED
  BY <1>1, <1>2, <1>3, <1>4, <1>5, <1>6, <1>7 DEF Respond

LEMMA ProceedType ==
  ASSUME TypeInv, Proceed
  PROVE  TypeInv'
<1> USE DEF TypeInv, TypeOK
<1>1. CASE OpenPartFile
  <2>1. Length[plan.ver] \in 0 .. MaxLen
    BY DEF Plan
  <2>2. part' \in File /\ partDisk' \in File
    BY <1>1, <2>1, CreateType, ResizeType DEF OpenPartFile
  <2> QED
    BY <1>1, <2>2 DEF OpenPartFile, memory, InAttempt
<1>2. ASSUME NEW n \in 1 .. MaxChunk, WriteChunk(n)
      PROVE  TypeInv'
  <2> DEFINE c == plan.cursor + n
             d == plan.dirty + n
  <2>1. /\ plan.ver \in Versions
        /\ plan.cursor \in 0 .. MaxLen /\ plan.dirty \in 0 .. MaxLen
    BY DEF Plan
  <2>2. Length[plan.ver] \in 0 .. MaxLen /\ Body[plan.ver] \in Data
    BY <2>1
  <2>3. c \in 0 .. MaxLen /\ d \in 0 .. MaxLen /\ d <= c
    BY <1>2, <2>1, <2>2 DEF WriteChunk
  <2>4. part' \in File
    BY <1>2, <2>1, <2>2, <2>3, WriteAtType DEF WriteChunk
  <2>5. fed' \in Data
    BY <1>2, <2>1, <2>2 DEF WriteChunk, Data
  <2>6. plan' \in Plan /\ plan'.dirty <= plan'.cursor
    <3>1. plan' = [plan EXCEPT !.cursor = c, !.dirty = d, !.got = TRUE]
      BY <1>2 DEF WriteChunk
    <3> HIDE DEF c, d
    <3> QED
      BY <2>3, <3>1 DEF Plan
  <2>7. bag' \in 0 .. MaxLen
    BY <1>2, <2>3 DEF WriteChunk
  <2> QED
    BY <1>2, <2>4, <2>5, <2>6, <2>7 DEF WriteChunk, InAttempt
<1>3. CASE StreamEnds
  BY <1>3, FaultType DEF StreamEnds, files, memory, InAttempt
<1>4. CASE Datasync
  BY <1>4 DEF Datasync, memory, InAttempt
<1>5. ASSUME plan \in Plan PROVE CheckpointOf(plan, fed) \in Ctrl
  BY <1>5 DEF CheckpointOf, Ctrl, Plan
<1>6. CASE SaveCheckpoint
  BY <1>5, <1>6 DEF SaveCheckpoint, files, Plan, InAttempt
<1>7. CASE SaveDirty
  BY <1>5, <1>7, ReturnType DEF SaveDirty, files, Outcome
<1>8. CASE AfterStreamShort
  BY <1>5, <1>8, ReturnType DEF AfterStreamShort, files, Outcome
<1>9. CASE AfterStreamTrim
  <2>1. plan.cursor \in 0 .. MaxLen
    BY DEF Plan
  <2>2. part' \in File /\ partDisk' \in File
    BY <1>9, <2>1, ResizeType DEF AfterStreamTrim
  <2> QED
    BY <1>9, <2>2 DEF AfterStreamTrim, memory, InAttempt
<1>10. CASE FinalizeRename
  BY <1>10, AbsentType DEF FinalizeRename, memory, InAttempt
<1>11. CASE FinalizeUnlink
  <2>1. ctrl' \in Ctrl /\ bag' \in 0 .. MaxLen
    BY <1>11, AbsentType DEF FinalizeUnlink, NoCtrl, Ctrl, Tag, Plan
  <2> QED
    BY <1>11, <2>1, ReturnType DEF FinalizeUnlink, files, Outcome
<1> QED
  BY <1>1, <1>2, <1>3, <1>4, <1>6, <1>7, <1>8, <1>9, <1>10, <1>11 DEF Proceed

LEMMA InterruptType ==
  ASSUME TypeInv, Interrupt
  PROVE  TypeInv'
<1> USE DEF TypeInv, TypeOK
<1>1. CASE Refuse
  BY <1>1, ReturnType, FaultType DEF Refuse, files, Outcome
<1>2. CASE ConnectionFails
  BY <1>2, ReturnType, FaultType DEF ConnectionFails, files, Outcome
<1>3. CASE StreamError
  BY <1>3, ReturnType, FaultType DEF StreamError, files, memory, Outcome, InAttempt
<1>4. CASE RaiseOther
  BY <1>4, ReturnType, FaultType DEF RaiseOther, files, Outcome
<1>5. CASE Kill
  BY <1>5, ReturnType, FaultType DEF Kill, files, Outcome
<1>6. CASE PowerLoss
  BY <1>6, ReturnType, FaultType, PowerLossType DEF PowerLoss, Outcome
<1> QED
  BY <1>1, <1>2, <1>3, <1>4, <1>5, <1>6 DEF Interrupt

LEMMA InitType == Init => TypeInv
  BY AbsentType, NoPlanType
     DEF Init, TypeInv, TypeOK, NoCtrl, Ctrl, NoPrep, Prep, Tag, Outcome

LEMMA TypeStep ==
  ASSUME TypeInv, [Next]_vars
  PROVE  TypeInv'
<1>1. CASE PrepareHaul
  <2>1. prep' \in Prep
    BY <1>1, AbsentType
       DEF PrepareHaul, TypeInv, TypeOK, ReadCheckpoint, NoPrep, Prep, Ctrl, Tag
  <2>2. bag' \in 0 .. MaxLen
    BY <1>1 DEF PrepareHaul, TypeInv, TypeOK
  <2> QED
    BY <1>1, <2>1, <2>2
       DEF PrepareHaul, files, TypeInv, TypeOK, InAttempt, Outcome
<1>2. CASE Respond
  BY <1>2, RespondType
<1>3. CASE Proceed
  BY <1>3, ProceedType
<1>4. CASE Interrupt
  BY <1>4, InterruptType
<1>5. CASE ReplaceResource
  BY <1>5 DEF ReplaceResource, files, memory, TypeInv, TypeOK
<1>6. CASE UNCHANGED vars
  BY <1>6 DEF vars, TypeInv, TypeOK
<1> QED
  BY <1>1, <1>2, <1>3, <1>4, <1>5, <1>6 DEF Next

(* Every variable keeps to its declared range in every behaviour, with     *)
(* every fault, origin and interruption the constants may allow.           *)
THEOREM TypeCorrect == Spec => []TypeOK
<1>1. TypeInv => TypeOK
  BY DEF TypeInv
<1> QED
  BY <1>1, InitType, TypeStep, PTL DEF Spec

-----------------------------------------------------------------------------
(* Files.                                                                  *)

LEMMA BodyFacts ==
  ASSUME NEW v \in Versions
  PROVE  /\ v \in Nat
         /\ Length[v] \in 0 .. MaxLen /\ Body[v] \in Data
         /\ \A i \in Offset : i >= Length[v] => Body[v][i] = Zero
  OBVIOUS

(* A clean file with a version's length and bytes is that version.         *)
LEMMA FullFile ==
  ASSUME NEW f \in File, NEW v \in Versions,
         f.exists, Clean(f), f.size = Length[v], Agrees(f.data, Body[v], Length[v])
  PROVE  f = Published[v]
<1>1. \A i \in Offset : f.data[i] = Body[v][i]
  <2> SUFFICES ASSUME NEW i \in Offset PROVE f.data[i] = Body[v][i]
    OBVIOUS
  <2>1. CASE i < Length[v]
    BY <2>1 DEF Agrees
  <2>2. CASE ~(i < Length[v])
    BY <2>2, BodyFacts DEF Clean, Offset, File
  <2> QED
    BY <2>1, <2>2
<1>2. f.data = Body[v]
  BY <1>1, BodyFacts DEF File, Data
<1>3. f = [exists |-> TRUE, size |-> Length[v], data |-> Body[v]]
  BY <1>2 DEF File
<1> QED
  BY <1>3 DEF Published

LEMMA PublishedFile ==
  ASSUME NEW v \in Versions
  PROVE  /\ Published[v] \in File /\ Clean(Published[v])
         /\ Published[v].exists /\ Published[v].size = Length[v]
         /\ Published[v].data = Body[v]
  BY BodyFacts DEF Published, File, Clean

LEMMA AbsentFile == Clean(Absent) /\ ~Absent.exists /\ Absent.size = 0
  BY DEF Clean, Absent, ZeroData

LEMMA HoldsNothing ==
  ASSUME NEW f \in File, NEW v \in Versions
  PROVE  Holds(f, v, 0)
  BY DEF Holds, Agrees, File, Offset

LEMMA ResizeFacts ==
  ASSUME NEW f \in File, NEW n \in 0 .. MaxLen
  PROVE  /\ Resize(f, n) \in File /\ Clean(Resize(f, n))
         /\ Resize(f, n).size = n /\ Resize(f, n).exists = f.exists
         /\ \A v \in Versions : \A c \in 0 .. n :
                Holds(f, v, c) => Holds(Resize(f, n), v, c)
<1>1. /\ Resize(f, n).size = n /\ Resize(f, n).exists = f.exists
      /\ \A i \in Offset : Resize(f, n).data[i] = IF i < n THEN f.data[i] ELSE Zero
  BY DEF Resize
<1>2. Clean(Resize(f, n))
  BY <1>1 DEF Clean, Offset
<1>3. ASSUME NEW v \in Versions, NEW c \in 0 .. n, Holds(f, v, c)
      PROVE  Holds(Resize(f, n), v, c)
  BY <1>1, <1>3 DEF Holds, Agrees, Offset
<1> QED
  BY <1>1, <1>2, <1>3, ResizeType

LEMMA CreateFacts ==
  ASSUME NEW f \in File
  PROVE  /\ Create(f) \in File /\ Create(f).exists
         /\ Create(f).size = f.size /\ Create(f).data = f.data
         /\ Clean(f) => Clean(Create(f))
         /\ \A v \in Versions : \A c \in Nat : Holds(f, v, c) => Holds(Create(f), v, c)
  BY CreateType DEF Create, Clean, Holds

LEMMA WriteAtFacts ==
  ASSUME NEW f \in File, NEW v \in Versions, NEW off \in 0 .. MaxLen, NEW n \in Nat,
         off + n <= MaxLen, Clean(f), NEW g, g = WriteAt(f, off, n, Body[v])
  PROVE  /\ g.exists = f.exists /\ g.size >= f.size /\ Clean(g)
         /\ \A c \in Nat : Holds(f, v, c) => Holds(g, v, c)
         /\ Holds(f, v, off) => Holds(g, v, off + n)
<1>1. /\ g.exists = f.exists
      /\ g.size = IF off + n > f.size THEN off + n ELSE f.size
      /\ \A i \in Offset : g.data[i] = IF off <= i /\ i < off + n
                                       THEN Body[v][i] ELSE f.data[i]
  BY DEF WriteAt
<1>2. f.size \in 0 .. MaxLen
  BY DEF File
<1>3. g.size >= f.size /\ Clean(g)
  BY <1>1, <1>2 DEF Clean, Offset
<1>4. \A c \in Nat : Holds(f, v, c) => Holds(g, v, c)
  BY <1>1, <1>2 DEF Holds, Agrees, Offset
<1>5. Holds(f, v, off) => Holds(g, v, off + n)
  BY <1>1, <1>2 DEF Holds, Agrees, Offset
<1> QED
  BY <1>1, <1>3, <1>4, <1>5

(* What a power loss keeps: anything the synced and the cached image have  *)
(* in common.                                                              *)
LEMMA PowerLossFacts ==
  ASSUME NEW d \in File, NEW p \in File, NEW r \in AfterPowerLoss(d, p)
  PROVE  /\ r \in File /\ Clean(r) /\ r.exists = p.exists
         /\ \A v \in Versions : \A c \in 0 .. MaxLen :
                Holds(d, v, c) /\ Holds(p, v, c) => Holds(r, v, c)
         /\ (d = p /\ Clean(p)) => r = p
<1>1. PICK kept \in SUBSET {i \in Offset : p.data[i] # d.data[i]},
           n \in {d.size, p.size} :
        r = [exists |-> p.exists,
             size |-> n,
             data |-> [i \in Offset |-> IF i >= n THEN Zero
                                        ELSE IF i \in kept THEN p.data[i]
                                        ELSE d.data[i]]]
  BY DEF AfterPowerLoss
<1>2. /\ r.exists = p.exists /\ r.size = n
      /\ \A i \in Offset : r.data[i] = IF i >= n THEN Zero
                                       ELSE IF i \in kept THEN p.data[i]
                                       ELSE d.data[i]
  BY <1>1
<1>3. n \in 0 .. MaxLen
  BY DEF File
<1>4. Clean(r)
  BY <1>2 DEF Clean
<1>5. ASSUME NEW v \in Versions, NEW c \in 0 .. MaxLen,
             Holds(d, v, c), Holds(p, v, c)
      PROVE  Holds(r, v, c)
  BY <1>2, <1>3, <1>5 DEF Holds, Agrees, Offset
<1>6. ASSUME d = p, Clean(p) PROVE r = p
  <2>1. r \in File
    BY PowerLossType
  <2>2. r.size = p.size /\ \A i \in Offset : r.data[i] = p.data[i]
    BY <1>2, <1>6 DEF Clean
  <2>3. r.data = p.data
    BY <2>1, <2>2 DEF File, Data
  <2> QED
    BY <1>2, <2>1, <2>2, <2>3 DEF File
<1> QED
  BY <1>2, <1>4, <1>5, <1>6, PowerLossType

-----------------------------------------------------------------------------
(* Steps that keep the checkpoint, and steps that leave haul().            *)

LEMMA CtrlKept ==
  ASSUME TypeInv, CtrlSound, pc # "unlink", UNCHANGED <<version, ctrl>>,
         pc' \in BodyPhase => \/ plan'.ver = version
                              \/ pc \in BodyPhase /\ plan'.ver = plan.ver,
         \A c \in 0 .. MaxLen :
            (/\ part.exists /\ c <= Length[version]
             /\ Holds(part, version, c) /\ Holds(partDisk, version, c)
             /\ pc \in BodyPhase => version <= plan.ver)
            => part'.exists /\ Holds(part', version, c) /\ Holds(partDisk', version, c)
  PROVE  CtrlSound'
<1> SUFFICES ASSUME pc' # "unlink", ctrl.exists, ctrl.cursor > 0
             PROVE  \E v \in Versions :
                /\ ctrl.etag = TagOf[v] /\ v <= version
                /\ ctrl.cursor <= Length[v]
                /\ Agrees(ctrl.fed, Body[v], ctrl.cursor)
                /\ v = version => /\ part'.exists
                                  /\ Holds(part', v, ctrl.cursor)
                                  /\ Holds(partDisk', v, ctrl.cursor)
                /\ pc' \in BodyPhase => v <= plan'.ver
  BY DEF CtrlSound
<1>1. PICK v \in Versions :
        /\ ctrl.etag = TagOf[v] /\ v <= version
        /\ ctrl.cursor <= Length[v]
        /\ Agrees(ctrl.fed, Body[v], ctrl.cursor)
        /\ v = version => /\ part.exists
                          /\ Holds(part, v, ctrl.cursor)
                          /\ Holds(partDisk, v, ctrl.cursor)
        /\ pc \in BodyPhase => v <= plan.ver
  BY DEF CtrlSound
<1>2. v \in Nat /\ version \in Nat /\ ctrl.cursor \in 0 .. MaxLen
  BY DEF TypeInv, TypeOK, Ctrl
<1>3. v = version => /\ part'.exists
                     /\ Holds(part', v, ctrl.cursor)
                     /\ Holds(partDisk', v, ctrl.cursor)
  <2> DEFINE c == ctrl.cursor
  <2> HAVE v = version
  <2>1. /\ part.exists /\ c <= Length[version] /\ c \in 0 .. MaxLen
        /\ Holds(part, version, c) /\ Holds(partDisk, version, c)
        /\ pc \in BodyPhase => version <= plan.ver
    BY <1>1, <1>2
  <2> HIDE DEF c
  <2>2. part'.exists /\ Holds(part', version, c) /\ Holds(partDisk', version, c)
    BY <2>1
  <2> QED
    BY <2>2 DEF c
<1>4. pc' \in BodyPhase => v <= plan'.ver
  <2>1. CASE plan'.ver = version
    BY <1>1, <2>1
  <2>2. CASE pc \in BodyPhase /\ plan'.ver = plan.ver
    BY <1>1, <2>2
  <2> QED
    BY <2>1, <2>2
<1> QED
  BY <1>1, <1>3, <1>4

LEMMA LeaveKeeps ==
  ASSUME TypeInv, SoundInv, pc # "unlink", NEW o, Return(o),
         UNCHANGED <<version, files, ctrl>>
  PROVE  SoundInv'
<1>1. pc' = "idle" /\ "idle" \notin BodyPhase
  BY DEF Return, BodyPhase, InAttempt
<1>2. CtrlSound'
  BY <1>1, CtrlKept DEF SoundInv, files
<1>3. FilesSound' /\ DestSound'
  BY DEF SoundInv, FilesSound, DestSound, files, Clean, Published
<1> QED
  BY <1>1, <1>2, <1>3 DEF SoundInv, PrepSound, PlanSound

-----------------------------------------------------------------------------
(* The response.  A checkpoint with a cursor belongs to the version its    *)
(* ETag names, so an attempt whose If-Range holds resumes that version.    *)

LEMMA ResumedVersion ==
  ASSUME Accountable, TypeInv, SoundInv, pc = "request",
         prep.etag \in StrongTag => prep.etag = TagOf[version],
         prep.cursor > 0
  PROVE  /\ part.exists
         /\ Holds(part, version, prep.cursor)
         /\ Holds(partDisk, version, prep.cursor)
         /\ Agrees(prep.fed, Body[version], prep.cursor)
<1>1. prep = ReadCheckpoint(ctrl)
  BY DEF SoundInv, PrepSound
<1>2. /\ ctrl.exists /\ ctrl.cursor > 0
      /\ prep.cursor = ctrl.cursor /\ prep.etag = ctrl.etag /\ prep.fed = ctrl.fed
  BY <1>1 DEF ReadCheckpoint, Readable, NoPrep
<1>3. PICK v \in Versions :
        /\ ctrl.etag = TagOf[v]
        /\ Agrees(ctrl.fed, Body[v], ctrl.cursor)
        /\ v = version => /\ part.exists
                          /\ Holds(part, v, ctrl.cursor)
                          /\ Holds(partDisk, v, ctrl.cursor)
  BY <1>2 DEF SoundInv, CtrlSound
<1>4. v = version
  BY <1>2, <1>3 DEF Accountable, TypeInv, TypeOK
<1> QED
  BY <1>2, <1>3, <1>4

LEMMA StartOverKeeps ==
  ASSUME Accountable, TypeInv, SoundInv, pc = "request", StartOver
  PROVE  SoundInv'
<1>1. /\ pc' = "open" /\ plan'.ver = version /\ plan'.cursor = 0
      /\ plan'.etag = TagOf[version]
      /\ UNCHANGED <<version, part, partDisk, dest, destDisk, ctrl>>
  BY DEF StartOver, files
<1>2. version \in Versions /\ version \in Nat /\ part \in File
  BY DEF TypeInv, TypeOK
<1>3. CtrlSound'
  BY <1>1, <1>2, CtrlKept DEF SoundInv
<1>4. FilesSound' /\ DestSound'
  BY <1>1 DEF SoundInv, FilesSound, DestSound, Clean, Published
<1>5. PlanSound'
  <2>1. Holds(part, version, 0)
    BY <1>2, HoldsNothing
  <2>2. Agrees(fed', Body[version], 0)
    BY DEF Agrees, Offset
  <2>3. 0 <= Length[version]
    BY <1>2, BodyFacts
  <2> QED
    BY <1>1, <1>2, <2>1, <2>2, <2>3 DEF PlanSound
<1> QED
  BY <1>1, <1>3, <1>4, <1>5 DEF SoundInv, PrepSound

LEMMA Plan206Keeps ==
  ASSUME Accountable, TypeInv, SoundInv, Plan206
  PROVE  SoundInv'
<1>1. /\ pc = "request" /\ pc' = "open"
      /\ fed' = Rewarmed /\ RangeServed /\ ~EtagMismatch
      /\ UNCHANGED <<version, part, partDisk, dest, destDisk, ctrl>>
  BY DEF Plan206, files
<1>2. /\ version \in Versions /\ version \in Nat /\ part \in File
      /\ prep.cursor \in 0 .. MaxLen /\ TagOf[version] # NoTag
  BY DEF TypeInv, TypeOK, Prep, Accountable
<1>3. /\ plan'.ver = version /\ plan'.cursor = prep.cursor
      /\ plan'.etag = TagOf[version]
  BY <1>2 DEF Plan206
<1>4. prep.etag \in StrongTag => prep.etag = TagOf[version]
  BY <1>1, <1>2 DEF EtagMismatch
<1>5. /\ Holds(part, version, prep.cursor)
      /\ Agrees(Rewarmed, Body[version], prep.cursor)
  <2>1. CASE prep.cursor = 0
    BY <1>2, <2>1, HoldsNothing DEF Agrees, Offset
  <2>2. CASE prep.cursor > 0
    <3>1. /\ Holds(part, version, prep.cursor)
          /\ Agrees(prep.fed, Body[version], prep.cursor)
      BY <1>1, <1>4, <2>2, ResumedVersion
    <3>2. ASSUME NEW i \in Offset, i < prep.cursor
          PROVE  Rewarmed[i] = Body[version][i]
      BY <1>2, <3>1, <3>2 DEF Rewarmed, Holds, Agrees, Offset
    <3> QED
      BY <3>1, <3>2 DEF Agrees
  <2> QED
    BY <1>2, <2>1, <2>2
<1>6. CtrlSound'
  BY <1>1, <1>2, <1>3, CtrlKept DEF SoundInv
<1>7. FilesSound' /\ DestSound'
  BY <1>1 DEF SoundInv, FilesSound, DestSound, Clean, Published
<1>8. PlanSound'
  <2>1. prep.cursor <= Length[version]
    BY <1>1, <1>2, BodyFacts DEF RangeServed
  <2> QED
    BY <1>1, <1>2, <1>3, <1>5, <2>1 DEF PlanSound
<1> QED
  BY <1>1, <1>6, <1>7, <1>8 DEF SoundInv, PrepSound

LEMMA On416CompleteKeeps ==
  ASSUME Accountable, TypeInv, SoundInv, On416Complete
  PROVE  SoundInv'
<1> DEFINE n == prep.cursor
           cut(f) == IF part.size > n THEN Resize(f, n) ELSE f
<1>1. /\ pc = "request" /\ pc' = "rename" /\ IfRangeHolds
      /\ n = Length[version] /\ n > 0
      /\ part' = cut(part) /\ partDisk' = cut(partDisk) /\ fed' = cut(part).data
      /\ UNCHANGED <<version, ctrl, dest, destDisk>>
      /\ plan'.ver = version /\ plan'.cursor = n
  BY DEF On416Complete, RangeUnsatisfiable, Accountable
<1>2. /\ version \in Versions /\ version \in Nat /\ n \in 0 .. MaxLen
      /\ part \in File /\ partDisk \in File /\ TagOf[version] # NoTag
  BY DEF TypeInv, TypeOK, Prep, Accountable
<1>3. plan'.etag = TagOf[version]
  BY <1>2 DEF On416Complete
<1>4. part.exists /\ Holds(part, version, n) /\ Holds(partDisk, version, n)
  BY <1>1, ResumedVersion DEF IfRangeHolds
<1>5. /\ Clean(part) /\ Clean(partDisk)
      /\ partDisk.exists = part.exists /\ partDisk.size <= part.size
  BY DEF SoundInv, FilesSound
<1>a. ASSUME NEW f \in {part, partDisk}
      PROVE  /\ cut(f) \in File /\ cut(f).exists /\ Clean(cut(f))
             /\ cut(f).size = n /\ Agrees(cut(f).data, Body[version], n)
  <2>1. /\ f \in File /\ f.exists /\ Clean(f) /\ Holds(f, version, n)
        /\ f.size <= part.size
    <3>1. CASE f = part
      BY <1>2, <1>4, <1>5, <3>1 DEF File
    <3>2. CASE f = partDisk
      BY <1>2, <1>4, <1>5, <3>2
    <3> QED
      BY <3>1, <3>2
  <2>2. CASE part.size > n
    <3>1. /\ Resize(f, n) \in File /\ Clean(Resize(f, n))
          /\ Resize(f, n).size = n /\ Resize(f, n).exists
          /\ Holds(Resize(f, n), version, n)
      <4>1. /\ Resize(f, n) \in File /\ Clean(Resize(f, n))
            /\ Resize(f, n).size = n /\ Resize(f, n).exists = f.exists
            /\ \A v \in Versions : \A c \in 0 .. n :
                  Holds(f, v, c) => Holds(Resize(f, n), v, c)
        BY <1>2, <2>1, ResizeFacts
      <4>2. n \in 0 .. n
        BY <1>2
      <4> QED
        BY <1>2, <2>1, <4>1, <4>2
    <3> QED
      BY <2>2, <3>1 DEF Holds
  <2>3. CASE ~(part.size > n)
    <3>1. f.size = n
      BY <1>2, <2>1, <2>3 DEF Holds, File
    <3> QED
      BY <2>1, <2>3, <3>1 DEF Holds
  <2> QED
    BY <2>2, <2>3
<1> HIDE DEF cut
<1>6. /\ part' \in File /\ part'.exists /\ Clean(part')
      /\ part'.size = n /\ Agrees(part'.data, Body[version], n)
  BY <1>1, <1>a
<1>7. /\ partDisk' \in File /\ partDisk'.exists /\ Clean(partDisk')
      /\ partDisk'.size = n /\ Agrees(partDisk'.data, Body[version], n)
  BY <1>1, <1>a
<1>8. part' = Published[version] /\ partDisk' = Published[version]
  BY <1>1, <1>2, <1>6, <1>7, FullFile
<1>9. CtrlSound'
  <2>1. ASSUME NEW c \in 0 .. MaxLen, c <= Length[version]
        PROVE  Holds(part', version, c) /\ Holds(partDisk', version, c)
    BY <1>2, <1>8, <2>1, PublishedFile, BodyFacts DEF Holds, Agrees
  <2> QED
    BY <1>1, <1>2, <1>6, <2>1, CtrlKept DEF SoundInv
<1>10. FilesSound' /\ DestSound'
  BY <1>1, <1>2, <1>8, PublishedFile, BodyFacts
     DEF SoundInv, FilesSound, DestSound, Clean, Published
<1>11. PlanSound'
  <2>1. Holds(part', version, n) /\ Agrees(fed', Body[version], n)
    BY <1>1, <1>2, <1>6 DEF Holds
  <2> QED
    BY <1>1, <1>2, <1>3, <1>6, <1>8, <2>1 DEF PlanSound
<1> QED
  BY <1>1, <1>9, <1>10, <1>11 DEF SoundInv, PrepSound

LEMMA On416ResetKeeps ==
  ASSUME TypeInv, SoundInv, On416Reset
  PROVE  SoundInv'
<1>1. /\ pc' = "idle" /\ "idle" \notin BodyPhase
      /\ ctrl' = ResetCheckpoint
      /\ UNCHANGED <<version, part, partDisk, dest, destDisk>>
  BY DEF On416Reset, Return, files, BodyPhase, InAttempt
<1>2. FilesSound' /\ DestSound'
  BY <1>1 DEF SoundInv, FilesSound, DestSound, Clean, Published
<1> QED
  BY <1>1, <1>2 DEF SoundInv, CtrlSound, PrepSound, PlanSound, ResetCheckpoint

LEMMA RespondKeeps ==
  ASSUME Accountable, TypeInv, SoundInv, Respond
  PROVE  SoundInv'
<1>1. CASE Plan206
  BY <1>1, Plan206Keeps
<1>2. CASE Reject206
  BY <1>2, LeaveKeeps DEF Reject206
<1>3. CASE Plan200
  BY <1>3, StartOverKeeps DEF Plan200
<1>4. CASE PlanMislabeled206
  BY <1>4, StartOverKeeps DEF PlanMislabeled206
<1>5. CASE On416Complete
  BY <1>5, On416CompleteKeeps
<1>6. CASE On416Raise
  BY <1>6, LeaveKeeps DEF On416Raise
<1>7. CASE On416Reset
  BY <1>7, On416ResetKeeps
<1> QED
  BY <1>1, <1>2, <1>3, <1>4, <1>5, <1>6, <1>7 DEF Respond

-----------------------------------------------------------------------------
(* The body.                                                               *)

LEMMA PlanFacts ==
  ASSUME TypeInv, SoundInv, pc \in BodyPhase
  PROVE  /\ plan.ver \in Versions /\ plan.ver \in Nat /\ version \in Nat
         /\ plan.ver <= version /\ plan.etag = TagOf[plan.ver]
         /\ plan.cursor \in 0 .. MaxLen /\ plan.cursor <= Length[plan.ver]
         /\ Length[plan.ver] \in 0 .. MaxLen
         /\ Agrees(fed, Body[plan.ver], plan.cursor)
         /\ part \in File /\ partDisk \in File
  BY BodyFacts DEF TypeInv, TypeOK, Plan, SoundInv, PlanSound

LEMMA SizedFacts ==
  ASSUME NEW f \in File, NEW l \in 0 .. MaxLen, NEW g,
         g = Resize(Create(f), l) \/ (g = Create(f) /\ f.size >= 0)
  PROVE  /\ g \in File /\ g.exists /\ (Clean(f) => Clean(g))
         /\ \A v \in Versions : \A c \in 0 .. l : Holds(f, v, c) => Holds(g, v, c)
<1>1. /\ Create(f) \in File /\ Create(f).exists /\ Create(f).size = f.size
      /\ Clean(f) => Clean(Create(f))
      /\ \A v \in Versions : \A c \in Nat : Holds(f, v, c) => Holds(Create(f), v, c)
  BY CreateFacts
<1>2. \A c \in 0 .. l : c \in Nat
  OBVIOUS
<1>3. CASE g = Resize(Create(f), l)
  <2>1. /\ Resize(Create(f), l) \in File /\ Clean(Resize(Create(f), l))
        /\ Resize(Create(f), l).exists = Create(f).exists
        /\ \A v \in Versions : \A c \in 0 .. l :
              Holds(Create(f), v, c) => Holds(Resize(Create(f), l), v, c)
    BY <1>1, ResizeFacts
  <2> QED
    BY <1>1, <1>2, <1>3, <2>1
<1>4. CASE g = Create(f)
  BY <1>1, <1>2, <1>4
<1> QED
  BY <1>3, <1>4

LEMMA OpenPartFileKeeps ==
  ASSUME TypeInv, SoundInv, OpenPartFile
  PROVE  SoundInv'
<1> DEFINE l == Length[plan.ver]
<1>1. /\ pc = "open" /\ pc' = "stream"
      /\ UNCHANGED <<version, ctrl, dest, destDisk, plan, fed>>
  BY DEF OpenPartFile, memory
<1>2. "open" \in BodyPhase /\ "stream" \in BodyPhase
  BY DEF BodyPhase, InAttempt
<1>3. /\ plan.ver \in Versions /\ plan.ver \in Nat /\ version \in Nat
      /\ plan.ver <= version /\ l \in 0 .. MaxLen
      /\ plan.cursor \in 0 .. MaxLen /\ plan.cursor <= l
      /\ part \in File /\ partDisk \in File
      /\ part.size \in 0 .. MaxLen /\ partDisk.size \in 0 .. MaxLen
  BY <1>1, <1>2, PlanFacts DEF File
<1>4. FilesSound /\ CtrlSound /\ DestSound /\ PlanSound
  BY DEF SoundInv
<1>5. \/ part' = Resize(Create(part), l) /\ partDisk' = Resize(Create(partDisk), l)
      \/ part' = Create(part) /\ partDisk' = Create(partDisk)
  BY DEF OpenPartFile
<1>6. partDisk'.size <= part'.size
  <2>1. \A f \in File : Create(f).size = f.size
    BY DEF Create
  <2>2. \A f \in File : Resize(Create(f), l).size = l
    BY DEF Resize
  <2> QED
    BY <1>3, <1>4, <1>5, <2>1, <2>2 DEF FilesSound
<1> HIDE DEF l
<1>7. /\ part' \in File /\ part'.exists /\ (Clean(part) => Clean(part'))
      /\ \A v \in Versions : \A c \in 0 .. l : Holds(part, v, c) => Holds(part', v, c)
  <2>1. part' = Resize(Create(part), l) \/ (part' = Create(part) /\ part.size >= 0)
    BY <1>3, <1>5
  <2> QED
    BY <1>3, <2>1, SizedFacts
<1>8. /\ partDisk' \in File /\ partDisk'.exists /\ (Clean(partDisk) => Clean(partDisk'))
      /\ \A v \in Versions : \A c \in 0 .. l :
            Holds(partDisk, v, c) => Holds(partDisk', v, c)
  <2>1. \/ partDisk' = Resize(Create(partDisk), l)
        \/ partDisk' = Create(partDisk) /\ partDisk.size >= 0
    BY <1>3, <1>5
  <2> QED
    BY <1>3, <2>1, SizedFacts
<1>9. FilesSound'
  <2>1. Clean(part') /\ Clean(partDisk')
    BY <1>4, <1>7, <1>8 DEF FilesSound
  <2>2. partDisk'.exists = part'.exists
    BY <1>7, <1>8 DEF File
  <2> QED
    BY <1>6, <2>1, <2>2 DEF FilesSound, Clean
<1>10. DestSound'
  BY <1>1, <1>4 DEF DestSound, Published
<1>11. CtrlSound'
  <2>1. ASSUME NEW c \in 0 .. MaxLen, c <= Length[version], version <= plan.ver,
               Holds(part, version, c), Holds(partDisk, version, c)
        PROVE  Holds(part', version, c) /\ Holds(partDisk', version, c)
    <3>1. version = plan.ver
      BY <1>3, <2>1
    <3>2. c \in 0 .. l
      BY <2>1, <1>3, <3>1 DEF l
    <3> QED
      BY <1>3, <1>7, <1>8, <2>1, <3>1, <3>2
  <2> QED
    BY <1>1, <1>2, <1>4, <1>7, <2>1, CtrlKept
<1>12. PlanSound'
  <2>1. Holds(part, plan.ver, plan.cursor)
    BY <1>1, <1>2, <1>4 DEF PlanSound
  <2>2. plan.cursor \in 0 .. l
    BY <1>3
  <2>3. Holds(part', plan.ver, plan.cursor) /\ part'.exists
    BY <1>3, <1>7, <2>1, <2>2
  <2> QED
    BY <1>1, <1>2, <1>4, <2>3 DEF PlanSound
<1> QED
  BY <1>1, <1>9, <1>10, <1>11, <1>12 DEF SoundInv, PrepSound

LEMMA WriteChunkKeeps ==
  ASSUME TypeInv, SoundInv, NEW n \in 1 .. MaxChunk, WriteChunk(n)
  PROVE  SoundInv'
<1> DEFINE c == plan.cursor + n
<1>1. /\ pc = "stream" /\ pc' \in {"stream", "sync"}
      /\ c <= Length[plan.ver]
      /\ part' = WriteAt(part, plan.cursor, n, Body[plan.ver])
      /\ \A i \in Offset :
            fed'[i] = IF plan.cursor <= i /\ i < c THEN Body[plan.ver][i] ELSE fed[i]
      /\ UNCHANGED <<version, partDisk, ctrl, dest, destDisk>>
  BY DEF WriteChunk
<1>2. plan'.ver = plan.ver /\ plan'.etag = plan.etag /\ plan'.cursor = c
  BY DEF WriteChunk, TypeInv, TypeOK, Plan
<1>3. "stream" \in BodyPhase /\ "sync" \in BodyPhase
  BY DEF BodyPhase, InAttempt
<1>4. /\ plan.ver \in Versions /\ plan.ver \in Nat /\ version \in Nat
      /\ plan.ver <= version /\ Length[plan.ver] \in 0 .. MaxLen
      /\ plan.cursor \in 0 .. MaxLen /\ n \in Nat /\ c \in 0 .. MaxLen
      /\ part \in File /\ partDisk \in File
      /\ Agrees(fed, Body[plan.ver], plan.cursor)
      /\ plan.etag = TagOf[plan.ver]
  BY <1>1, <1>3, PlanFacts
<1>5. /\ FilesSound /\ CtrlSound /\ DestSound
      /\ Holds(part, plan.ver, plan.cursor) /\ part.exists
  BY <1>1, <1>3 DEF SoundInv, PlanSound
<1>6. /\ part'.exists = part.exists /\ part'.size >= part.size /\ Clean(part')
      /\ \A k \in Nat : Holds(part, plan.ver, k) => Holds(part', plan.ver, k)
      /\ Holds(part', plan.ver, c)
  <2> DEFINE off == plan.cursor
             v == plan.ver
             g == part'
  <2>1. /\ off + n <= MaxLen /\ Clean(part) /\ off \in 0 .. MaxLen /\ n \in Nat
        /\ v \in Versions /\ part \in File /\ g = WriteAt(part, off, n, Body[v])
        /\ Holds(part, v, off)
    BY <1>1, <1>4, <1>5 DEF FilesSound
  <2> HIDE DEF off, v, g
  <2>2. /\ g.exists = part.exists /\ g.size >= part.size /\ Clean(g)
        /\ \A k \in Nat : Holds(part, v, k) => Holds(g, v, k)
        /\ Holds(part, v, off) => Holds(g, v, off + n)
    BY <2>1, WriteAtFacts
  <2> QED
    BY <2>1, <2>2 DEF off, v, g
<1>7. FilesSound'
  <2>1. part' \in File
    BY <1>1, <1>4, WriteAtType, BodyFacts
  <2> QED
    BY <1>1, <1>4, <1>5, <1>6, <2>1 DEF FilesSound, File, Clean
<1>8. DestSound'
  BY <1>1, <1>5 DEF DestSound, Published
<1>9. CtrlSound'
  <2>1. ASSUME NEW k \in 0 .. MaxLen, version <= plan.ver,
               Holds(part, version, k), Holds(partDisk, version, k)
        PROVE  Holds(part', version, k) /\ Holds(partDisk', version, k)
    <3>1. version = plan.ver /\ k \in Nat
      BY <1>4, <2>1
    <3> QED
      BY <1>1, <1>6, <2>1, <3>1
  <2> QED
    BY <1>1, <1>2, <1>3, <1>5, <1>6, <2>1, CtrlKept
<1>10. PlanSound'
  <2>1. Agrees(fed', Body[plan.ver], c)
    BY <1>1, <1>4 DEF Agrees, Offset
  <2> QED
    BY <1>1, <1>2, <1>4, <1>5, <1>6, <2>1 DEF PlanSound
<1> QED
  BY <1>1, <1>7, <1>8, <1>9, <1>10 DEF SoundInv, PrepSound

LEMMA StreamEndsKeeps ==
  ASSUME TypeInv, SoundInv, StreamEnds
  PROVE  SoundInv'
<1>1. /\ pc = "stream" /\ pc' = "final_sync"
      /\ UNCHANGED <<version, part, partDisk, ctrl, dest, destDisk, plan, fed>>
      /\ ~plan.known => plan.cursor = Length[plan.ver]
  BY DEF StreamEnds, files, memory
<1>2. "stream" \in BodyPhase /\ "final_sync" \in BodyPhase
  BY DEF BodyPhase, InAttempt
<1>3. FilesSound' /\ DestSound'
  BY <1>1 DEF SoundInv, FilesSound, DestSound, Clean, Published
<1>4. CtrlSound'
  BY <1>1, <1>2, CtrlKept DEF SoundInv
<1>5. PlanSound'
  BY <1>1, <1>2 DEF SoundInv, PlanSound, Holds, Agrees
<1> QED
  BY <1>1, <1>3, <1>4, <1>5 DEF SoundInv, PrepSound

LEMMA DatasyncKeeps ==
  ASSUME TypeInv, SoundInv, Datasync
  PROVE  SoundInv'
<1>1. /\ \/ pc = "sync" /\ pc' = "save"
         \/ pc = "flush_sync" /\ pc' = "flush_save"
         \/ pc = "final_sync" /\ pc' = "after"
      /\ partDisk' = part
      /\ UNCHANGED <<version, part, ctrl, dest, destDisk, plan, fed>>
  BY DEF Datasync, memory
<1>2. pc \in BodyPhase /\ pc' \in BodyPhase
  BY <1>1 DEF BodyPhase, InAttempt
<1>3. FilesSound' /\ DestSound'
  BY <1>1 DEF SoundInv, FilesSound, DestSound, Clean, Published, TypeInv, TypeOK, File
<1>4. CtrlSound'
  <2>1. \A c \in 0 .. MaxLen :
           part.exists /\ Holds(part, version, c)
              => part'.exists /\ Holds(part', version, c) /\ Holds(partDisk', version, c)
    BY <1>1
  <2> QED
    BY <1>1, <1>2, <2>1, CtrlKept DEF SoundInv
<1>5. PlanSound'
  BY <1>1, <1>2 DEF SoundInv, PlanSound, Holds, Agrees
<1> QED
  BY <1>1, <1>3, <1>4, <1>5 DEF SoundInv, PrepSound

(* A checkpoint of the attempt's own progress, after fdatasync.            *)
LEMMA CheckpointKeeps ==
  ASSUME TypeInv, SoundInv, pc \in {"save", "flush_save", "after"},
         ctrl' = CheckpointOf(plan, fed),
         UNCHANGED <<version, files>>,
         pc' \in BodyPhase => plan'.ver = plan.ver
  PROVE  FilesSound' /\ DestSound' /\ CtrlSound'
<1>1. pc \in BodyPhase
  BY DEF BodyPhase, InAttempt
<1>2. UNCHANGED <<version, part, partDisk, dest, destDisk>>
  BY DEF files
<1>3. FilesSound' /\ DestSound'
  BY <1>2 DEF SoundInv, FilesSound, DestSound, Clean, Published
<1>4. /\ plan.ver \in Versions /\ plan.ver \in Nat
      /\ plan.ver <= version /\ plan.etag = TagOf[plan.ver]
      /\ plan.cursor <= Length[plan.ver]
      /\ Agrees(fed, Body[plan.ver], plan.cursor)
  BY <1>1, PlanFacts
<1>5. /\ part.exists /\ partDisk = part
      /\ Holds(part, plan.ver, plan.cursor)
  BY <1>1 DEF SoundInv, PlanSound
<1>6. /\ ctrl'.cursor = plan.cursor /\ ctrl'.etag = plan.etag /\ ctrl'.fed = fed
  BY DEF CheckpointOf
<1>7. CtrlSound'
  BY <1>2, <1>4, <1>5, <1>6 DEF CtrlSound
<1> QED
  BY <1>3, <1>7

LEMMA SaveCheckpointKeeps ==
  ASSUME TypeInv, SoundInv, SaveCheckpoint
  PROVE  SoundInv'
<1>1. /\ pc = "save" /\ pc' = "stream" /\ ctrl' = CheckpointOf(plan, fed)
      /\ UNCHANGED <<version, part, partDisk, dest, destDisk, fed>>
      /\ UNCHANGED <<version, files>>
  BY DEF SaveCheckpoint, files
<1>2. plan'.ver = plan.ver /\ plan'.etag = plan.etag /\ plan'.cursor = plan.cursor
  BY DEF SaveCheckpoint, TypeInv, TypeOK, Plan
<1>3. "stream" \in BodyPhase /\ "save" \in BodyPhase
  BY DEF BodyPhase, InAttempt
<1>4. FilesSound' /\ DestSound' /\ CtrlSound'
  BY <1>1, <1>2, CheckpointKeeps
<1>5. PlanSound'
  BY <1>1, <1>2, <1>3 DEF SoundInv, PlanSound, Holds, Agrees
<1> QED
  BY <1>1, <1>4, <1>5 DEF SoundInv, PrepSound

LEMMA SaveAndLeaveKeeps ==
  ASSUME TypeInv, SoundInv, SaveDirty \/ AfterStreamShort
  PROVE  SoundInv'
<1>1. /\ pc \in {"save", "flush_save", "after"} /\ pc' = "idle"
      /\ ctrl' = CheckpointOf(plan, fed)
      /\ UNCHANGED <<version, files>>
  BY DEF SaveDirty, AfterStreamShort, Return
<1>2. "idle" \notin BodyPhase
  BY DEF BodyPhase, InAttempt
<1>3. FilesSound' /\ DestSound' /\ CtrlSound'
  BY <1>1, <1>2, CheckpointKeeps
<1> QED
  BY <1>1, <1>2, <1>3 DEF SoundInv, PrepSound, PlanSound

LEMMA AfterStreamTrimKeeps ==
  ASSUME TypeInv, SoundInv, AfterStreamTrim
  PROVE  SoundInv'
<1> DEFINE v == plan.ver
           n == plan.cursor
<1>1. /\ pc = "after" /\ pc' = "rename"
      /\ ~(plan.known /\ n < Length[v])
      /\ UNCHANGED <<version, ctrl, dest, destDisk, plan, fed>>
  BY DEF AfterStreamTrim, memory
<1>2. "after" \in BodyPhase /\ "rename" \in BodyPhase
  BY DEF BodyPhase, InAttempt
<1>3. /\ v \in Versions /\ v \in Nat /\ version \in Nat /\ v <= version
      /\ n \in 0 .. MaxLen /\ n <= Length[v] /\ Length[v] \in 0 .. MaxLen
      /\ part \in File
  BY <1>1, <1>2, PlanFacts
<1>4. /\ FilesSound /\ CtrlSound /\ DestSound /\ PlanSound
      /\ part.exists /\ Clean(part) /\ partDisk = part /\ Holds(part, v, n)
  BY <1>1, <1>2 DEF SoundInv, PlanSound, FilesSound
<1>5. n = Length[v]
  <2>1. ~plan.known => n = Length[v]
    BY <1>1, <1>2, <1>4 DEF PlanSound
  <2> QED
    BY <1>1, <1>3, <2>1
<1>6. part' = partDisk' /\ part' = IF part.size > n THEN Resize(part, n) ELSE part
  BY <1>4 DEF AfterStreamTrim
<1> HIDE DEF v, n
<1>7. /\ part' \in File /\ part'.exists /\ Clean(part')
      /\ part'.size = n /\ Agrees(part'.data, Body[v], n)
  <2>1. CASE part.size > n
    <3>1. /\ Resize(part, n) \in File /\ Clean(Resize(part, n))
          /\ Resize(part, n).size = n /\ Resize(part, n).exists = part.exists
          /\ \A w \in Versions : \A c \in 0 .. n :
                Holds(part, w, c) => Holds(Resize(part, n), w, c)
      BY <1>3, ResizeFacts
    <3>2. n \in 0 .. n
      BY <1>3
    <3>3. Holds(Resize(part, n), v, n)
      BY <1>3, <1>4, <3>1, <3>2
    <3> QED
      BY <1>4, <1>6, <2>1, <3>1, <3>3 DEF Holds
  <2>2. CASE ~(part.size > n)
    <3>1. part.size = n
      BY <1>3, <1>4, <2>2 DEF Holds, File
    <3> QED
      BY <1>3, <1>4, <1>6, <2>2, <3>1 DEF Holds
  <2> QED
    BY <2>1, <2>2
<1>8. part' = Published[v] /\ partDisk' = Published[v]
  BY <1>3, <1>5, <1>6, <1>7, FullFile
<1>9. FilesSound' /\ DestSound'
  BY <1>1, <1>3, <1>4, <1>8, PublishedFile, BodyFacts
     DEF FilesSound, DestSound, Clean, Published
<1>10. CtrlSound'
  <2>1. ASSUME NEW c \in 0 .. MaxLen, c <= Length[version], version <= plan.ver
        PROVE  Holds(part', version, c) /\ Holds(partDisk', version, c)
    <3>1. version = v
      BY <1>3, <2>1 DEF v
    <3> QED
      BY <1>3, <1>8, <2>1, <3>1, PublishedFile, BodyFacts DEF Holds, Agrees
  <2> QED
    BY <1>1, <1>2, <1>4, <1>7, <2>1, CtrlKept
<1>11. PlanSound'
  BY <1>1, <1>2, <1>4, <1>5, <1>6, <1>7, <1>8 DEF PlanSound, Holds, v, n
<1> QED
  BY <1>1, <1>9, <1>10, <1>11 DEF SoundInv, PrepSound

LEMMA FinalizeRenameKeeps ==
  ASSUME TypeInv, SoundInv, FinalizeRename
  PROVE  SoundInv' /\ dest' = Published[plan.ver]
<1>1. /\ pc = "rename" /\ pc' = "unlink"
      /\ dest' = part /\ destDisk' = partDisk
      /\ part' = Absent /\ partDisk' = Absent
      /\ UNCHANGED <<version, ctrl, plan, fed>>
  BY DEF FinalizeRename, memory
<1>2. "rename" \in BodyPhase /\ "unlink" \in BodyPhase
  BY DEF BodyPhase, InAttempt
<1>3. /\ plan.ver \in Versions /\ plan.ver <= version
      /\ plan.etag = TagOf[plan.ver] /\ plan.cursor = Length[plan.ver]
      /\ Agrees(fed, Body[plan.ver], plan.cursor)
      /\ partDisk = part /\ part = Published[plan.ver]
      /\ plan.cursor <= Length[plan.ver]
  BY <1>1, <1>2, PlanFacts DEF SoundInv, PlanSound
<1>4. FilesSound' /\ CtrlSound'
  BY <1>1, AbsentFile DEF FilesSound, CtrlSound, Clean
<1>5. DestSound'
  <2>1. dest' = Published[plan.ver] /\ destDisk' = dest' /\ plan.ver <= version'
    BY <1>1, <1>3
  <2> QED
    BY <1>3, <2>1 DEF DestSound, Published
<1>6. PlanSound'
  <2>1. ~part'.exists
    BY <1>1, AbsentFile
  <2> QED
    BY <1>1, <1>2, <1>3, <2>1 DEF PlanSound, Published
<1> QED
  BY <1>1, <1>3, <1>4, <1>5, <1>6 DEF SoundInv, PrepSound

LEMMA FinalizeUnlinkKeeps ==
  ASSUME TypeInv, SoundInv, FinalizeUnlink
  PROVE  SoundInv'
<1>1. /\ pc' = "idle" /\ "idle" \notin BodyPhase /\ ctrl' = NoCtrl
      /\ UNCHANGED <<version, part, partDisk, dest, destDisk>>
  BY DEF FinalizeUnlink, Return, files, BodyPhase, InAttempt
<1>2. FilesSound' /\ DestSound'
  BY <1>1 DEF SoundInv, FilesSound, DestSound, Clean, Published
<1> QED
  BY <1>1, <1>2 DEF SoundInv, CtrlSound, PrepSound, PlanSound, NoCtrl

LEMMA ProceedKeeps ==
  ASSUME TypeInv, SoundInv, Proceed
  PROVE  SoundInv'
<1>1. CASE OpenPartFile
  BY <1>1, OpenPartFileKeeps
<1>2. CASE \E n \in 1 .. MaxChunk : WriteChunk(n)
  BY <1>2, WriteChunkKeeps
<1>3. CASE StreamEnds
  BY <1>3, StreamEndsKeeps
<1>4. CASE Datasync
  BY <1>4, DatasyncKeeps
<1>5. CASE SaveCheckpoint
  BY <1>5, SaveCheckpointKeeps
<1>6. CASE SaveDirty \/ AfterStreamShort
  BY <1>6, SaveAndLeaveKeeps
<1>7. CASE AfterStreamTrim
  BY <1>7, AfterStreamTrimKeeps
<1>8. CASE FinalizeRename
  BY <1>8, FinalizeRenameKeeps
<1>9. CASE FinalizeUnlink
  BY <1>9, FinalizeUnlinkKeeps
<1> QED
  BY <1>1, <1>2, <1>3, <1>4, <1>5, <1>6, <1>7, <1>8, <1>9 DEF Proceed

-----------------------------------------------------------------------------
(* The environment.                                                        *)

LEMMA StreamErrorKeeps ==
  ASSUME TypeInv, SoundInv, StreamError
  PROVE  SoundInv'
<1>1. CASE Return("partial")
  BY <1>1, LeaveKeeps DEF StreamError
<1>2. CASE pc' = "flush_sync" /\ UNCHANGED memory
  <2>1. /\ pc = "stream" /\ pc' = "flush_sync"
        /\ UNCHANGED <<version, part, partDisk, ctrl, dest, destDisk, plan, fed>>
    BY <1>2 DEF StreamError, files, memory
  <2>2. "stream" \in BodyPhase /\ "flush_sync" \in BodyPhase
    BY DEF BodyPhase, InAttempt
  <2>3. FilesSound' /\ DestSound'
    BY <2>1 DEF SoundInv, FilesSound, DestSound, Clean, Published
  <2>4. CtrlSound'
    BY <2>1, <2>2, CtrlKept DEF SoundInv
  <2>5. PlanSound'
    BY <2>1, <2>2 DEF SoundInv, PlanSound, Holds, Agrees
  <2> QED
    BY <2>1, <2>3, <2>4, <2>5 DEF SoundInv, PrepSound
<1> QED
  BY <1>1, <1>2 DEF StreamError

(* The destination never depends on bytes that are not synced.             *)
LEMMA PowerLossDest ==
  ASSUME TypeInv, SoundInv, PowerLoss
  PROVE  dest' = dest /\ destDisk' = dest
<1>1. dest \in File /\ destDisk \in File /\ dest = destDisk
  BY DEF TypeInv, TypeOK, SoundInv, DestSound
<1>2. Clean(dest)
  BY AbsentFile, PublishedFile DEF SoundInv, DestSound
<1>3. dest' \in AfterPowerLoss(destDisk, dest) /\ destDisk' = dest'
  BY DEF PowerLoss
<1>4. \A r \in AfterPowerLoss(destDisk, dest) : r = dest
  BY <1>1, <1>2, PowerLossFacts
<1> QED
  BY <1>3, <1>4

LEMMA PowerLossKeeps ==
  ASSUME TypeInv, SoundInv, PowerLoss, pc # "unlink"
  PROVE  SoundInv'
<1>1. /\ pc' = "idle" /\ "idle" \notin BodyPhase
      /\ part' \in AfterPowerLoss(partDisk, part) /\ partDisk' = part'
      /\ UNCHANGED <<version, ctrl>>
  BY DEF PowerLoss, Return, BodyPhase, InAttempt
<1>2. part \in File /\ partDisk \in File /\ Clean(part) /\ Clean(partDisk)
  BY DEF TypeInv, TypeOK, SoundInv, FilesSound
<1>3. /\ part' \in File /\ Clean(part') /\ part'.exists = part.exists
      /\ \A v \in Versions : \A c \in 0 .. MaxLen :
            Holds(partDisk, v, c) /\ Holds(part, v, c) => Holds(part', v, c)
  <2>1. \A r \in AfterPowerLoss(partDisk, part) :
           /\ r \in File /\ Clean(r) /\ r.exists = part.exists
           /\ \A v \in Versions : \A c \in 0 .. MaxLen :
                Holds(partDisk, v, c) /\ Holds(part, v, c) => Holds(r, v, c)
    BY <1>2, PowerLossFacts
  <2> QED
    BY <1>1, <2>1
<1>4. FilesSound'
  BY <1>1, <1>3 DEF FilesSound, Clean, File
<1>5. DestSound'
  <2>1. dest' = dest /\ destDisk' = dest
    BY PowerLossDest
  <2> QED
    BY <1>1, <2>1 DEF SoundInv, DestSound, Published
<1>6. CtrlSound'
  <2>1. version \in Versions
    BY DEF TypeInv, TypeOK
  <2>2. ASSUME NEW c \in 0 .. MaxLen, part.exists,
               Holds(part, version, c), Holds(partDisk, version, c)
        PROVE  part'.exists /\ Holds(part', version, c) /\ Holds(partDisk', version, c)
    BY <1>1, <1>3, <2>1, <2>2
  <2> QED
    BY <1>1, <2>2, CtrlKept DEF SoundInv
<1> QED
  BY <1>1, <1>4, <1>5, <1>6 DEF SoundInv, PrepSound, PlanSound

LEMMA InterruptKeeps ==
  ASSUME Accountable, TypeInv, SoundInv, Interrupt
  PROVE  SoundInv'
<1>1. CASE Refuse
  BY <1>1, LeaveKeeps DEF Refuse
<1>2. CASE ConnectionFails
  BY <1>2, LeaveKeeps DEF ConnectionFails
<1>3. CASE StreamError
  BY <1>3, StreamErrorKeeps
<1>4. CASE RaiseOther
  BY <1>4, LeaveKeeps DEF RaiseOther, Interruptible, Accountable
<1>5. CASE Kill
  BY <1>5, LeaveKeeps DEF Kill, Interruptible, Accountable
<1>6. CASE PowerLoss
  BY <1>6, PowerLossKeeps DEF PowerLoss, Interruptible, Accountable
<1> QED
  BY <1>1, <1>2, <1>3, <1>4, <1>5, <1>6 DEF Interrupt

LEMMA PrepareHaulKeeps ==
  ASSUME TypeInv, SoundInv, PrepareHaul
  PROVE  SoundInv'
<1>1. /\ pc = "idle" /\ pc' = "request" /\ prep' = ReadCheckpoint(ctrl)
      /\ UNCHANGED <<version, part, partDisk, ctrl, dest, destDisk>>
  BY DEF PrepareHaul, files
<1>2. "request" \notin BodyPhase
  BY DEF BodyPhase
<1>3. FilesSound' /\ DestSound'
  BY <1>1 DEF SoundInv, FilesSound, DestSound, Clean, Published
<1>4. CtrlSound'
  BY <1>1, <1>2, CtrlKept DEF SoundInv
<1>5. PrepSound' /\ PlanSound'
  BY <1>1, <1>2 DEF PrepSound, PlanSound, ReadCheckpoint, Readable
<1> QED
  BY <1>3, <1>4, <1>5 DEF SoundInv

(* A later version invalidates every checkpoint: none has its ETag.        *)
LEMMA ReplaceResourceKeeps ==
  ASSUME Accountable, TypeInv, SoundInv, ReplaceResource
  PROVE  SoundInv' /\ version' \in Versions /\ version' > version
<1>1. /\ version' \in Versions /\ version' > version
      /\ UNCHANGED <<part, partDisk, ctrl, dest, destDisk, pc, prep, plan, fed>>
  BY DEF ReplaceResource, Accountable, files, memory
<1>2. version \in Nat /\ version' \in Nat
  BY <1>1 DEF TypeInv, TypeOK
<1>3. FilesSound'
  BY <1>1 DEF SoundInv, FilesSound, Clean
<1>4. DestSound'
  BY <1>1, <1>2 DEF SoundInv, DestSound, Published
<1>5. CtrlSound'
  BY <1>1, <1>2 DEF SoundInv, CtrlSound, Holds
<1>6. PrepSound'
  BY <1>1 DEF SoundInv, PrepSound, ReadCheckpoint, Readable
<1>7. PlanSound'
  <2>1. SUFFICES ASSUME pc \in BodyPhase PROVE PlanSound'
    BY <1>1 DEF PlanSound
  <2>2. plan.ver <= version'
    BY <1>1, <1>2, <2>1, PlanFacts
  <2> QED
    BY <1>1, <2>1, <2>2 DEF SoundInv, PlanSound, Holds, Agrees, Published
<1> QED
  BY <1>1, <1>3, <1>4, <1>5, <1>6, <1>7 DEF SoundInv

-----------------------------------------------------------------------------
(* The invariant.                                                          *)

LEMMA InitSound ==
  ASSUME Init
  PROVE  SoundInv
<1>1. pc = "idle" /\ "idle" \notin BodyPhase /\ ctrl = NoCtrl
  BY DEF Init, BodyPhase, InAttempt
<1>2. FilesSound /\ DestSound
  BY AbsentFile DEF Init, FilesSound, DestSound
<1> QED
  BY <1>1, <1>2 DEF SoundInv, CtrlSound, PrepSound, PlanSound, NoCtrl

LEMMA SoundStep ==
  ASSUME Accountable, TypeInv, SoundInv, [Next]_vars
  PROVE  SoundInv'
<1>1. CASE PrepareHaul
  BY <1>1, PrepareHaulKeeps
<1>2. CASE Respond
  BY <1>2, RespondKeeps
<1>3. CASE Proceed
  BY <1>3, ProceedKeeps
<1>4. CASE Interrupt
  BY <1>4, InterruptKeeps
<1>5. CASE ReplaceResource
  BY <1>5, ReplaceResourceKeeps
<1>6. CASE UNCHANGED vars
  BY <1>6 DEF vars, SoundInv, FilesSound, DestSound, CtrlSound, PrepSound, PlanSound,
              Clean, Holds, Agrees, Published, ReadCheckpoint, Readable
<1> QED
  BY <1>1, <1>2, <1>3, <1>4, <1>5, <1>6 DEF Next

(* The strengthened invariant IInv is inductive.                           *)
THEOREM InvariantHolds == Spec => []IInv
<1>1. Init => IInv
  BY InitType, InitSound DEF IInv
<1>2. IInv /\ [Next]_vars => IInv'
  BY TypeStep, SoundStep DEF IInv, Accountable
<1> QED
  BY <1>1, <1>2, PTL DEF Spec

(* Whatever the faults, and for every length, block size, flush threshold  *)
(* and history of the resource: what is at the destination path is one     *)
(* complete version, also after a power loss.                              *)
THEOREM DestinationIntact == Accountable => (Spec => []DestIntact)
<1> SUFFICES ASSUME Accountable PROVE Spec => []DestIntact
  OBVIOUS
<1>1. IInv => DestIntact
  BY AbsentFile DEF IInv, SoundInv, DestSound, DestIntact
<1> QED
  BY <1>1, InvariantHolds, PTL

(* The hash haul() returns is the hash of the file it delivered.           *)
THEOREM DeliveredHash == Accountable => (Spec => []HashMatches)
<1> SUFFICES ASSUME Accountable PROVE Spec => []HashMatches
  OBVIOUS
<1>1. IInv => HashMatches
  <2> SUFFICES ASSUME IInv, pc = "unlink"
               PROVE  dest.size = plan.cursor /\ Agrees(fed, dest.data, plan.cursor)
    BY DEF HashMatches
  <2>1. TypeInv /\ SoundInv /\ pc \in BodyPhase
    BY DEF IInv, BodyPhase, InAttempt
  <2>2. /\ plan.ver \in Versions /\ dest = Published[plan.ver]
        /\ plan.cursor = Length[plan.ver]
        /\ Agrees(fed, Body[plan.ver], plan.cursor)
    BY <2>1, PlanFacts DEF SoundInv, PlanSound
  <2> QED
    BY <2>2, PublishedFile
<1> QED
  BY <1>1, InvariantHolds, PTL

(* A checkpoint the origin would still honour vouches only for bytes that  *)
(* are in .part, synced, and hashes them correctly.                        *)
THEOREM CheckpointTruthful == Accountable => (Spec => []CtrlTruthful)
<1> SUFFICES ASSUME Accountable PROVE Spec => []CtrlTruthful
  OBVIOUS
<1>1. IInv => CtrlTruthful
  <2> SUFFICES ASSUME IInv, part.exists, ctrl.exists, ctrl.etag = TagOf[version]
               PROVE  /\ partDisk.size >= ctrl.cursor
                      /\ Agrees(partDisk.data, Body[version], ctrl.cursor)
                      /\ Agrees(part.data, Body[version], ctrl.cursor)
                      /\ Agrees(ctrl.fed, Body[version], ctrl.cursor)
    BY DEF CtrlTruthful, Readable
  <2>1. /\ TypeInv /\ SoundInv /\ version \in Versions
        /\ ctrl.cursor \in 0 .. MaxLen /\ partDisk \in File
    BY DEF IInv, TypeInv, TypeOK, Ctrl
  <2>2. pc # "unlink"
    BY <2>1 DEF SoundInv, PlanSound, BodyPhase, InAttempt
  <2>3. CASE ctrl.cursor = 0
    BY <2>1, <2>3 DEF Agrees, Offset, File
  <2>4. CASE ctrl.cursor > 0
    <3>1. PICK v \in Versions :
            /\ ctrl.etag = TagOf[v]
            /\ Agrees(ctrl.fed, Body[v], ctrl.cursor)
            /\ v = version => /\ Holds(part, v, ctrl.cursor)
                              /\ Holds(partDisk, v, ctrl.cursor)
      BY <2>1, <2>2, <2>4 DEF SoundInv, CtrlSound
    <3>2. v = version
      BY <2>1, <3>1 DEF Accountable
    <3> QED
      BY <3>1, <3>2 DEF Holds
  <2> QED
    BY <2>1, <2>3, <2>4
<1> QED
  BY <1>1, InvariantHolds, PTL

-----------------------------------------------------------------------------
(* Refinement.                                                             *)

LEMMA StepDelivers ==
  ASSUME Accountable, TypeInv, SoundInv, [Next]_vars
  PROVE  [Delivery!Next]_(Delivery!delivery)
<1>1. CASE UNCHANGED <<version, dest>>
  BY <1>1 DEF Delivery!delivery
<1>2. CASE ReplaceResource
  <2>1. version' \in Versions /\ version' > version /\ dest' = dest
    BY <1>2, ReplaceResourceKeeps DEF ReplaceResource, files
  <2> QED
    BY <2>1 DEF Delivery!Next, Delivery!Replace
<1>3. CASE FinalizeRename
  <2>1. dest' = Published[plan.ver] /\ version' = version
    BY <1>3, FinalizeRenameKeeps DEF FinalizeRename
  <2>2. plan.ver \in Versions /\ plan.ver <= version
    BY <1>3, PlanFacts DEF FinalizeRename, BodyPhase, InAttempt
  <2> QED
    BY <2>1, <2>2 DEF Delivery!Next, Delivery!Deliver
<1>4. CASE PowerLoss
  BY <1>1, <1>4, PowerLossDest DEF PowerLoss
<1>5. CASE PrepareHaul \/ Respond
  BY <1>1, <1>5 DEF PrepareHaul, Respond, Plan206, Reject206, Plan200,
     PlanMislabeled206, StartOver, On416Complete, On416Raise, On416Reset, files
<1>6. CASE Proceed /\ ~FinalizeRename
  BY <1>1, <1>6 DEF Proceed, OpenPartFile, WriteChunk, StreamEnds, Datasync,
     SaveCheckpoint, SaveDirty, AfterStreamShort, AfterStreamTrim, FinalizeUnlink, files
<1>7. CASE Interrupt /\ ~PowerLoss
  BY <1>1, <1>7 DEF Interrupt, Refuse, ConnectionFails, StreamError, RaiseOther, Kill,
     files
<1>8. CASE UNCHANGED vars
  BY <1>1, <1>8 DEF vars
<1> QED
  BY <1>2, <1>3, <1>4, <1>5, <1>6, <1>7, <1>8 DEF Next

(* The engine with all its faults implements the atomic delivery of        *)
(* complete versions.                                                      *)
THEOREM ImplementsDelivery == Accountable => (Spec => DeliversAtomically)
<1> SUFFICES ASSUME Accountable PROVE Spec => DeliversAtomically
  OBVIOUS
<1>1. Init => Delivery!Init
  BY DEF Init, Delivery!Init
<1>2. IInv /\ [Next]_vars => [Delivery!Next]_(Delivery!delivery)
  BY StepDelivers DEF IInv
<1> QED
  BY <1>1, <1>2, InvariantHolds, PTL DEF Spec, DeliversAtomically, Delivery!Spec
=============================================================================
