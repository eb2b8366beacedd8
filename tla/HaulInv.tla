------------------------------ MODULE HaulInv ------------------------------
(***************************************************************************)
(* Why a download that resumes is safe: the inductive invariant of module  *)
(* Haul.  It holds when every version carries a strong ETag of its own,    *)
(* the origin never goes back to an earlier version, none that ignores     *)
(* If-Range confirms a cursor in a 416, and no attempt is interrupted      *)
(* between the rename and the unlink of finalize; MCHaulBlind416 and       *)
(* MCHaulUnlinkCrash show what goes wrong without the last two.            *)
(***************************************************************************)
EXTENDS Haul

(* TypeOK needs that the unflushed bytes are among the written ones.       *)
TypeInv == TypeOK /\ plan.dirty <= plan.cursor

Accountable ==
    /\ ~Rollback /\ ~UnlinkCrash /\ ~Blind416
    /\ \A v \in Versions : TagOf[v] \in StrongTag
    /\ \A v, w \in Versions : TagOf[v] = TagOf[w] => v = w

(* Nothing is stored past the end of a file.                               *)
Clean(f) == \A i \in Offset : i >= f.size => f.data[i] = Zero

(* The first n bytes of file f are those of version v.                     *)
Holds(f, v, n) == f.size >= n /\ Agrees(f.data, Body[v], n)

BodyPhase == InAttempt \ {"request"}

FilesSound ==
    /\ Clean(part) /\ Clean(partDisk)
    /\ partDisk.exists = part.exists /\ partDisk.size <= part.size

(* The destination never has unsynced bytes.                               *)
DestSound ==
    /\ dest = destDisk
    /\ \/ dest = Absent
       \/ \E v \in Versions : v <= version /\ dest = Published[v]

(* A checkpoint belongs to one version that has been served.  If that is   *)
(* the version served now, .part holds its prefix, synced; if it is not,   *)
(* .part may hold anything, for the checkpoint's ETag will never match.    *)
CtrlSound ==
    (pc # "unlink" /\ ctrl.exists /\ ctrl.cursor > 0) =>
        \E v \in Versions :
            /\ ctrl.etag = TagOf[v] /\ v <= version
            /\ ctrl.cursor <= Length[v]
            /\ Agrees(ctrl.fed, Body[v], ctrl.cursor)
            /\ v = version => /\ part.exists
                              /\ Holds(part, v, ctrl.cursor)
                              /\ Holds(partDisk, v, ctrl.cursor)
            /\ pc \in BodyPhase => v <= plan.ver

PrepSound == pc = "request" => prep = ReadCheckpoint(ctrl)

(* An attempt writes one version, from a prefix of that version on.        *)
PlanSound ==
    pc \in BodyPhase =>
        /\ plan.ver <= version /\ plan.etag = TagOf[plan.ver]
        /\ plan.cursor <= Length[plan.ver]
        /\ Agrees(fed, Body[plan.ver], plan.cursor)
        /\ pc # "unlink" => Holds(part, plan.ver, plan.cursor)
        /\ pc \notin {"open", "unlink"} => part.exists
        /\ pc \in {"save", "flush_save", "after", "rename"} => partDisk = part
        /\ (pc \in {"final_sync", "after"} /\ ~plan.known)
              => plan.cursor = Length[plan.ver]
        /\ pc \in {"rename", "unlink"} => plan.cursor = Length[plan.ver]
        /\ pc = "rename" => part = Published[plan.ver]
        /\ pc = "unlink" => dest = Published[plan.ver] /\ ~part.exists

SoundInv ==
    /\ FilesSound /\ DestSound /\ CtrlSound /\ PrepSound /\ PlanSound

(* The invariant the proofs carry from step to step.                       *)
IInv == TypeInv /\ (Accountable => SoundInv)
=============================================================================
