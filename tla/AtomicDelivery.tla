--------------------------- MODULE AtomicDelivery ---------------------------
(***************************************************************************)
(* What a pyhaul download promises of the destination path, in the words   *)
(* of docs/explanation/design.md, section "Invariants": the path holds     *)
(* nothing, or one complete representation the origin has served.  A crash *)
(* is not an action here: nothing a crash does may be visible at the path. *)
(***************************************************************************)
EXTENDS Naturals

CONSTANTS
    Versions,       \* an initial segment of the positive integers
    Content,        \* the complete file each version stands for
    Nothing         \* the content of a path that does not exist

VARIABLES
    current,        \* the version the origin serves now
    file            \* what is at the destination path

delivery == <<current, file>>

Init ==
    /\ current \in Versions
    /\ file = Nothing

(* The origin replaces the resource by a later version.                    *)
Replace ==
    /\ \E v \in Versions : v > current /\ current' = v
    /\ UNCHANGED file

(* One atomic step installs a complete version that was served by now.     *)
Deliver ==
    /\ \E v \in Versions : v <= current /\ file' = Content[v]
    /\ UNCHANGED current

Next == Replace \/ Deliver

Spec == Init /\ [][Next]_delivery
=============================================================================
