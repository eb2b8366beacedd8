-------------------------- MODULE CommandLineProofs --------------------------
(***************************************************************************)
(* The safety properties of CommandLine, for any number of attempts, any   *)
(* length of the bodies and any flush threshold.                           *)
(***************************************************************************)
EXTENDS CommandLine, TLAPS

(* The checkpoint is never behind what has arrived by more than what was   *)
(* not flushed; outside of a body by nothing, unless an exception that is  *)
(* not for a retry left the body.                                          *)
Behind ==
    /\ pc \notin {"body", "exited"} /\ pending # "fatal" => saved >= received
    /\ pc = "body" => received <= saved + dirty

(* What leaves the block for good is not the network's doing.              *)
Blamed == pc = "close" /\ pending = "fatal" => cause # "network"

(* The block is left when the response is to be closed, and not before.    *)
Left ==
    /\ pc = "close" => pending # "none"
    /\ pc \in {"request", "body"} => pending = "none"

(* One request may follow the first signal, and it is sent from "haul".    *)
Late == (pc = "haul" \/ signals = 0) => late = 0

(* The command has an exit code when the loop is over, and not before.     *)
Exiting == exit # NoExit => pc \in {"finally", "exited"}

(* No attempt has failed before the loop.                                  *)
Fresh == pc = "main" => cause = "none"

IInv ==
    /\ Fresh /\ TypeOK /\ Behind /\ Blamed /\ Left /\ Late /\ SignalHeeded /\ Exiting
    /\ NetworkRetried

Backend == {"requests", "niquests", "httpx", "urllib3", "wreq"}

(* Every library is in the table.                                          *)
LEMMA Backends == DOMAIN SyncAdapter = Backend
BY DEF SyncAdapter, Backend

(* What the network causes is a connection error in every error map, which *)
(* is why it is tried again; and each map has an entry for a timeout.      *)
LEMMA NetworkIsConnection ==
    ASSUME NEW b \in Backend, NEW e \in SyncAdapter[b].network
    PROVE  SyncAdapter[b].errors[e] = "connection"
<1>1. CASE b = "requests"
  BY <1>1 DEF SyncAdapter, RequestsAdapter, RequestsLikeErrors
<1>2. CASE b = "niquests"
  BY <1>2 DEF SyncAdapter, NiquestsAdapter, RequestsLikeErrors
<1>3. CASE b = "httpx"
  BY <1>3 DEF SyncAdapter, HttpxAdapter, HttpxErrors
<1>4. CASE b = "urllib3"
  BY <1>4 DEF SyncAdapter, Urllib3Adapter, Urllib3Errors
<1>5. CASE b = "wreq"
  BY <1>5 DEF SyncAdapter, SyncWreqAdapter, WreqErrors
<1> QED BY <1>1, <1>2, <1>3, <1>4, <1>5 DEF Backend

LEMMA InitInv == Init => IInv
<1> SUFFICES ASSUME Init PROVE IInv OBVIOUS
<1> USE CommandLineAssumption DEF CommandLineAssumption, Init, NoExit
<1>1. TypeOK
  <2>1. opts \in Options /\ pc = "main" /\ cause = "none" /\ exit = 255 /\ pending = "none"
    OBVIOUS
  <2>2. attempt \in 0 .. MaxRetries /\ signals \in 0 .. 1 /\ late \in 0 .. MaxRetries
    OBVIOUS
  <2>3. /\ received \in 0 .. MaxReceived /\ saved \in 0 .. MaxReceived
        /\ dirty \in 0 .. FlushEvery - 1
    OBVIOUS
  <2>4. bytesRead \in BOOLEAN /\ delivered \in BOOLEAN
    BY Zenon
  <2> HIDE DEF Init
  <2> QED BY <2>1, <2>2, <2>3, <2>4 DEF TypeOK
<1>2. Behind /\ Blamed /\ Left /\ Fresh BY DEF Behind, Blamed, Left, Fresh
<1>3. Late /\ SignalHeeded BY DEF Late, SignalHeeded
<1>4. Exiting /\ NetworkRetried BY DEF Exiting, NetworkRetried
<1> QED BY <1>1, <1>2, <1>3, <1>4 DEF IInv

(* An exception on the way out of haul(): if the network caused it and it  *)
(* is a connection error, or a transport error inside the body, another    *)
(* attempt follows; else the cause is not the network.                     *)
LEMMA BlameFacts ==
    ASSUME opts \in Options, NEW e
    PROVE  /\ Blame(e) \in {"network", "library"}
           /\ Blame(e) = "network" => Adapter.errors[e] = "connection"
<1>1. opts.backend \in Backend
  BY Backends DEF Options
<1> QED BY <1>1, NetworkIsConnection DEF Blame, Adapter

LEMMA StepInv == IInv /\ [Next]_vars => IInv'
<1> SUFFICES ASSUME IInv, [Next]_vars PROVE IInv'
  OBVIOUS
<1> USE CommandLineAssumption DEF CommandLineAssumption, NoExit, haul
<1> USE DEF IInv, Fresh, TypeOK, Behind, Blamed, Left, Late, SignalHeeded, Exiting, NetworkRetried
<1>1. CASE RefuseArguments
  BY <1>1 DEF RefuseArguments
<1>2. CASE CannotStart
  BY <1>2 DEF CannotStart
<1>3. CASE BuildClient
  BY <1>3 DEF BuildClient
<1>4. CASE CloseClient
  BY <1>4 DEF CloseClient
<1>5. CASE Signal
  BY <1>5 DEF Signal
<1>6. CASE NextAttempt
  <2>1. bytesRead' \in BOOLEAN
    BY <1>6, Zenon DEF NextAttempt, Return
  <2>2. /\ pc = "loop"
        /\ UNCHANGED <<opts, signals, received, dirty, saved, delivered, pending, cause, late>>
        /\ \/ attempt = MaxRetries /\ pc' = "finally" /\ exit' = 1 /\ attempt' = attempt
           \/ attempt < MaxRetries /\ pc' = "finally" /\ exit' = 130 /\ attempt' = attempt
           \/ /\ attempt < MaxRetries /\ signals = 0
              /\ pc' = "haul" /\ attempt' = attempt + 1 /\ exit' = exit
    BY <1>6, Zenon DEF NextAttempt, Return
  <2> QED BY <2>1, <2>2
<1>7. CASE Wake
  BY <1>7 DEF Wake
<1>8. CASE Prepare
  BY <1>8 DEF Prepare, Fatal, Return
<1>9. CASE Refuse
  BY <1>9 DEF Refuse, LeaveBlock
<1>10. CASE Accept206
  BY <1>10 DEF Accept206
<1>11. CASE Accept200
  BY <1>11 DEF Accept200
<1>12. CASE Complete416
  BY <1>12 DEF Complete416, Deliver, LeaveBlock
<1>13. CASE Reset416
  BY <1>13 DEF Reset416, Save, LeaveBlock
<1>14. CASE DiskFails
  BY <1>14 DEF DiskFails, LeaveBlock
<1>15. CASE Chunk
  <2>1. Count(received) \in 0 .. MaxReceived /\ Count(received) <= received + 1
    BY DEF Count
  <2>2. /\ pc = "body" /\ received' = Count(received) /\ bytesRead' = TRUE
        /\ UNCHANGED <<opts, attempt, signals, delivered, late, exit>>
        /\ \/ dirty + 1 >= FlushEvery /\ dirty' = 0
           \/ ~(dirty + 1 >= FlushEvery) /\ dirty' = dirty + 1
        /\ \/ saved' = received' /\ UNCHANGED <<pc, pending, cause>>
           \/ dirty' # 0 /\ UNCHANGED <<saved, pc, pending, cause>>
           \/ saved' = saved /\ pc' = "close" /\ pending' = "fatal" /\ cause' = "name"
    BY <1>15 DEF Chunk, Save, LeaveBlock
  <2> QED BY <2>1, <2>2
<1>16. CASE StreamEnds
  <2>1. CASE Deliver
    BY <1>16, <2>1 DEF StreamEnds, Deliver, LeaveBlock
  <2>2. CASE Save(received, LeaveBlock("partial", "network"))
             /\ UNCHANGED <<received, dirty, delivered>>
    BY <1>16, <2>2 DEF StreamEnds, Save, LeaveBlock
  <2> QED BY <1>16, <2>1, <2>2 DEF StreamEnds
<1>17. CASE CloseResponse
  BY <1>17 DEF CloseResponse, Partial, Fatal, Return
<1>18. ASSUME NEW e, RequestFails(e) PROVE IInv'
  BY <1>18, BlameFacts DEF RequestFails, Partial, Fatal, Return
<1>19. ASSUME NEW e, StreamFails(e) PROVE IInv'
  BY <1>19, BlameFacts DEF StreamFails, Save, LeaveBlock
<1>20. ASSUME NEW e, CloseFails(e) PROVE IInv'
  BY <1>20, BlameFacts DEF CloseFails, Partial, Fatal, Return
<1>21. CASE UNCHANGED vars
  BY <1>21 DEF vars
<1> QED
  BY <1>1, <1>2, <1>3, <1>4, <1>5, <1>6, <1>7, <1>8, <1>9, <1>10, <1>11, <1>12, <1>13, <1>14, <1>15, <1>16, <1>17, <1>18, <1>19, <1>20, <1>21
  DEF Next, Program, Environment, Raised, TimesOut

-----------------------------------------------------------------------------
LEMMA Invariant == Spec => []IInv
BY InitInv, StepInv, PTL DEF Spec

(* The variables keep their types: no more than _MAX_RETRIES attempts are  *)
(* begun, whatever fails.                                                  *)
THEOREM TypeCorrect == Spec => []TypeOK
<1>1. IInv => TypeOK BY DEF IInv
<1> QED BY Invariant, <1>1, PTL

(* Between two attempts the checkpoint vouches for all that was received,  *)
(* for each of the five libraries and each of their exceptions, at every   *)
(* point; but for one way there, named by `pending': the close of the      *)
(* response raised a connection error in the place of an exception that is *)
(* not for a retry.                                                        *)
THEOREM NothingLost == Spec => []RetryLosesNothing
<1>1. IInv => RetryLosesNothing BY DEF IInv, TypeOK, Behind, RetryLosesNothing
<1> QED BY Invariant, <1>1, PTL

(* Exit code 1 after trouble with the network means that all the attempts  *)
(* were made: the error map of no backend gives up early.                  *)
THEOREM RetriesUsed == Spec => []NetworkRetried
<1>1. IInv => NetworkRetried BY DEF IInv
<1> QED BY Invariant, <1>1, PTL

(* One request at most follows the first signal: the note is read before   *)
(* every attempt, and the window between the reading and the request is    *)
(* one attempt long.                                                       *)
THEOREM SignalsHeeded == Spec => []SignalHeeded
<1>1. IInv => SignalHeeded BY DEF IInv
<1> QED BY Invariant, <1>1, PTL
=============================================================================
