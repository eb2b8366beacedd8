----------------------------- MODULE CommandLine -----------------------------
(***************************************************************************)
(* cli.py: main(), its retry loop, its signal handlers and the five        *)
(* clients it can build, over the synchronous engine and the adapters of   *)
(* module Transport.  Of haul() it keeps what the loop can tell apart: how *)
(* much has arrived, how much .part.ctrl vouches for, whether the file is  *)
(* delivered, and which kind of exception comes out.  Bytes, versions and  *)
(* descriptors are the modules Haul's and ThreadedHaul's.                  *)
(*                                                                         *)
(* The network and the server owe nothing: they may answer, stall or break *)
(* at any point, as often as they like, and a body may have any length or  *)
(* no end.                                                                 *)
(***************************************************************************)
EXTENDS Transport

CONSTANTS
    MaxRetries,     \* _MAX_RETRIES
    FlushEvery,     \* flush_every, in chunks
    MaxReceived     \* bound: chunks the cursor counts; the body may go on

ASSUME CommandLineAssumption ==
    /\ MaxRetries \in Nat \ {0} /\ FlushEvery \in Nat \ {0} /\ MaxReceived \in Nat \ {0}

VARIABLES
    opts,           \* the arguments, and the room the file system leaves
    pc,
    attempt,        \* attempts begun
    signals,        \* signals received, up to the first
    bytesRead,      \* HaulState.bytes_read > 0
    received,       \* StreamPlan.cursor
    dirty,          \* StreamPlan.bytes_since_flush
    saved,          \* valid_length of .part.ctrl, 0 without one
    delivered,      \* a file was put at the destination
    pending,        \* how the stream_get block of the attempt was left
    exit,           \* the exit code
    cause,          \* what ended the last attempt
    late            \* requests sent after the first signal

haul == <<received, dirty, saved, delivered>>
vars == <<opts, pc, attempt, signals, bytesRead, haul, pending, exit, cause, late>>

NoTimeout == 0
NoExit == 255

(* The sidecars' names are longer than the destination's by these many     *)
(* bytes: .part.ctrl, and .part.ctrl.tmp of write_atomic.                  *)
CtrlSuffix == 10
TmpSuffix == 14

Options ==
    [url : {"missing", "invalid", "http"}, backend : DOMAIN SyncAdapter,
     connect : {NoTimeout, 5}, read : {NoTimeout, 7},
     room : {CtrlSuffix - 1, CtrlSuffix, TmpSuffix}]

Init ==
    /\ opts \in Options /\ pc = "main" /\ attempt = 0 /\ signals = 0
    /\ bytesRead = FALSE /\ received = 0 /\ dirty = 0 /\ saved = 0
    /\ delivered = FALSE /\ pending = "none" /\ exit = NoExit /\ cause = "none" /\ late = 0

Adapter == SyncAdapter[opts.backend]

-----------------------------------------------------------------------------
(* Timeouts.                                                               *)

(* resolve_timeout's pair.                                                 *)
Resolved ==
    IF opts.connect = NoTimeout /\ opts.read = NoTimeout
      THEN <<NoTimeout, NoTimeout>>
      ELSE LET connect == IF opts.connect = NoTimeout THEN 30 ELSE opts.connect
           IN  <<connect, IF opts.read = NoTimeout THEN 4 * connect ELSE opts.read>>

(* How long the library waits for the next bytes if it is not told.        *)
LibraryDefault ==
    [requests |-> NoTimeout, niquests |-> 30, httpx |-> 5,
     urllib3 |-> NoTimeout, wreq |-> NoTimeout]

(* _build_requests and _build_niquests do not pass the timeouts on.        *)
PassesTimeout == opts.backend \notin {"requests", "niquests"}

ReadTimeout ==
    IF PassesTimeout /\ Resolved[2] # NoTimeout THEN Resolved[2] ELSE LibraryDefault[opts.backend]

-----------------------------------------------------------------------------
(* The program around the attempts.                                        *)

(* _download_loop returns or main refuses; _close_client is still to run.  *)
Return(code) == pc' = "finally" /\ exit' = code

RefuseArguments ==
    /\ pc = "main" /\ opts.url # "http"
    /\ pc' = "exited" /\ exit' = 2
    /\ UNCHANGED <<opts, attempt, signals, bytesRead, haul, pending, cause, late>>

(* The output directory cannot be made, or the backend is not installed.   *)
CannotStart ==
    /\ pc = "main" /\ opts.url = "http"
    /\ pc' = "exited" /\ exit' = 1
    /\ UNCHANGED <<opts, attempt, signals, bytesRead, haul, pending, cause, late>>

BuildClient ==
    /\ pc = "main" /\ opts.url = "http"
    /\ pc' = "loop"
    /\ UNCHANGED <<opts, attempt, signals, bytesRead, haul, pending, exit, cause, late>>

CloseClient ==
    /\ pc = "finally" /\ pc' = "exited"
    /\ UNCHANGED <<opts, attempt, signals, bytesRead, haul, pending, exit, cause, late>>

(* SIGINT or SIGTERM: the first one leaves a note, the second one ends the *)
(* process where it is.                                                    *)
Signal ==
    /\ pc \notin {"main", "exited"}
    /\ IF signals = 0
         THEN signals' = 1 /\ UNCHANGED <<pc, exit>>
         ELSE pc' = "exited" /\ exit' = 130 /\ UNCHANGED signals
    /\ UNCHANGED <<opts, attempt, bytesRead, haul, pending, cause, late>>

(* Mutant: the note of the signal handler is not read.                     *)
NextAttemptUnheeding ==
    /\ pc = "loop"
    /\ IF attempt = MaxRetries
         THEN Return(1) /\ UNCHANGED <<attempt, bytesRead>>
         ELSE /\ pc' = "haul" /\ attempt' = attempt + 1 /\ bytesRead' = FALSE
              /\ UNCHANGED exit
    /\ UNCHANGED <<opts, signals, haul, pending, cause, late>>

(* Mutant: an attempt that ends early is not counted.                      *)
NextAttemptUncounted ==
    /\ pc = "loop"
    /\ IF signals > 0
         THEN Return(130) /\ UNCHANGED <<attempt, bytesRead>>
         ELSE /\ pc' = "haul" /\ bytesRead' = FALSE /\ UNCHANGED <<attempt, exit>>
    /\ UNCHANGED <<opts, signals, haul, pending, cause, late>>

(* The head of the loop; after the last attempt nobody asks for signals.   *)
NextAttempt ==
    /\ pc = "loop"
    /\ \/ attempt = MaxRetries /\ Return(1) /\ UNCHANGED <<attempt, bytesRead>>
       \/ attempt < MaxRetries /\ signals > 0 /\ Return(130) /\ UNCHANGED <<attempt, bytesRead>>
       \/ /\ attempt < MaxRetries /\ signals = 0
          /\ pc' = "haul" /\ attempt' = attempt + 1 /\ bytesRead' = FALSE
          /\ UNCHANGED exit
    /\ UNCHANGED <<opts, signals, haul, pending, cause, late>>

(* PartialHaulError: a pause, unless bytes came in, then the next attempt. *)
Partial(why) ==
    /\ pc' = IF bytesRead THEN "loop" ELSE "sleep"
    /\ cause' = why /\ UNCHANGED exit

Wake ==
    /\ pc = "sleep" /\ pc' = "loop"
    /\ UNCHANGED <<opts, attempt, signals, bytesRead, haul, pending, exit, cause, late>>

(* Any other exception.                                                    *)
Fatal(why) == Return(1) /\ cause' = why

-----------------------------------------------------------------------------
(* haul().                                                                 *)

Prepare ==
    /\ pc = "haul"
    /\ IF opts.room >= CtrlSuffix
         THEN /\ pc' = "request" /\ received' = saved /\ dirty' = 0
              /\ pending' = "none" /\ late' = late + signals
              /\ UNCHANGED <<exit, cause>>
         ELSE Fatal("name") /\ UNCHANGED <<received, dirty, pending, late>>
    /\ UNCHANGED <<opts, attempt, signals, bytesRead, saved, delivered>>

Blame(e) == IF e \in Adapter.network THEN "network" ELSE "library"

(* The library raises e before there is a response: a connection error is  *)
(* a PartialHaulError, of any other the original exception goes up.        *)
RequestFails(e) ==
    /\ pc = "request"
    /\ IF Adapter.errors[e] = "connection" THEN Partial(Blame(e)) ELSE Fatal(Blame(e))
    /\ UNCHANGED <<opts, attempt, signals, bytesRead, haul, pending, late>>

(* The block that has the response is left, by a return or an exception;   *)
(* the response is still to be closed.                                     *)
LeaveBlock(how, why) ==
    /\ pc' = "close" /\ pending' = how /\ cause' = why /\ UNCHANGED exit

(* A checkpoint of n chunks on the way to the step `then'.                 *)
Save(n, then) ==
    IF opts.room >= TmpSuffix
      THEN saved' = n /\ then
      ELSE LeaveBlock("fatal", "name") /\ UNCHANGED saved

(* A status, a Content-Range, an ETag or a .part the engine refuses.       *)
Refuse ==
    /\ pc = "request" /\ LeaveBlock("fatal", "refused")
    /\ UNCHANGED <<opts, attempt, signals, bytesRead, haul, late>>

Accept206 ==
    /\ pc = "request" /\ pc' = "body"
    /\ UNCHANGED <<opts, attempt, signals, bytesRead, haul, pending, exit, cause, late>>

Accept200 ==
    /\ pc = "request" /\ pc' = "body" /\ received' = 0
    /\ UNCHANGED <<opts, attempt, signals, bytesRead, dirty, saved, delivered, pending, exit,
                   cause, late>>

Deliver ==
    /\ delivered' = TRUE /\ saved' = 0 /\ received' = 0 /\ dirty' = 0
    /\ LeaveBlock("done", "none")

(* A Content-Range 'bytes */0' does not parse.                             *)
Complete416 ==
    /\ pc = "request" /\ received > 0 /\ Deliver
    /\ UNCHANGED <<opts, attempt, signals, bytesRead, late>>

Reset416 ==
    /\ pc = "request" /\ Save(0, LeaveBlock("partial", "refused")) /\ received' = 0
    /\ UNCHANGED <<opts, attempt, signals, bytesRead, dirty, delivered, late>>

(* open_part_file or a later call on the disk raises OSError.              *)
DiskFails ==
    /\ pc = "body" /\ LeaveBlock("fatal", "disk")
    /\ UNCHANGED <<opts, attempt, signals, bytesRead, haul, late>>

Count(n) == IF n < MaxReceived THEN n + 1 ELSE n

(* Mutant: bytes_since_flush goes on after a flush.                        *)
ChunkUnreset ==
    /\ pc = "body"
    /\ received' = Count(received) /\ bytesRead' = TRUE /\ dirty' = dirty + 1
    /\ IF dirty + 1 >= FlushEvery
         THEN Save(Count(received), UNCHANGED <<pc, pending, exit, cause>>)
         ELSE UNCHANGED <<pc, saved, pending, exit, cause>>
    /\ UNCHANGED <<opts, attempt, signals, delivered, late>>

(* The loop takes chunks for as long as there are any.                     *)
Chunk ==
    /\ pc = "body"
    /\ received' = Count(received) /\ bytesRead' = TRUE
    /\ IF dirty + 1 >= FlushEvery
         THEN dirty' = 0 /\ Save(Count(received), UNCHANGED <<pc, pending, exit, cause>>)
         ELSE dirty' = dirty + 1 /\ UNCHANGED <<pc, saved, pending, exit, cause>>
    /\ UNCHANGED <<opts, attempt, signals, delivered, late>>

(* The body ends: short of the announced length, or not.                   *)
StreamEnds ==
    /\ pc = "body"
    /\ \/ Save(received, LeaveBlock("partial", "network"))
          /\ UNCHANGED <<received, dirty, delivered>>
       \/ Deliver
    /\ UNCHANGED <<opts, attempt, signals, bytesRead, late>>

(* Mutant: the checkpoint is not brought up to date.                       *)
StreamFailsUnflushed(e) ==
    /\ pc = "body"
    /\ LeaveBlock(IF Adapter.errors[e] = "unmapped" THEN "fatal" ELSE "partial", Blame(e))
    /\ UNCHANGED <<opts, attempt, signals, bytesRead, haul, late>>

(* The library raises e while the body comes in: what became a transport   *)
(* error, of whatever kind, is flushed and tried again.                    *)
StreamFails(e) ==
    /\ pc = "body"
    /\ \/ /\ Adapter.errors[e] = "unmapped"
          /\ LeaveBlock("fatal", Blame(e)) /\ UNCHANGED <<saved, dirty>>
       \/ /\ Adapter.errors[e] # "unmapped" /\ dirty = 0
          /\ LeaveBlock("partial", Blame(e)) /\ UNCHANGED <<saved, dirty>>
       \/ /\ Adapter.errors[e] # "unmapped" /\ dirty > 0
          /\ Save(received, LeaveBlock("partial", Blame(e))) /\ dirty' = 0
    /\ UNCHANGED <<opts, attempt, signals, bytesRead, received, delivered, late>>

(* stream_get closes the response, and what was returned or raised goes on *)
(* to the command.                                                         *)
CloseResponse ==
    /\ pc = "close"
    /\ \/ pending = "done" /\ Return(0) /\ UNCHANGED cause
       \/ pending = "partial" /\ Partial(cause)
       \/ pending = "fatal" /\ Fatal(cause)
    /\ UNCHANGED <<opts, attempt, signals, bytesRead, haul, pending, late>>

(* The close raises e, which takes the place of what was on its way.       *)
CloseFails(e) ==
    /\ pc = "close"
    /\ IF Adapter.errors[e] = "connection" THEN Partial(Blame(e)) ELSE Fatal(Blame(e))
    /\ UNCHANGED <<opts, attempt, signals, bytesRead, haul, pending, late>>

(* The server has been silent for as long as the library was told to wait. *)
TimesOut ==
    /\ ReadTimeout # NoTimeout
    /\ RequestFails(Adapter.timeout) \/ StreamFails(Adapter.timeout)

-----------------------------------------------------------------------------
Program ==
    \/ RefuseArguments \/ BuildClient \/ NextAttempt \/ Prepare \/ Wake
    \/ CloseResponse \/ CloseClient

Raised == \E e \in DOMAIN Adapter.errors : RequestFails(e) \/ StreamFails(e)

Environment ==
    \/ CannotStart \/ Signal \/ Raised \/ DiskFails
    \/ Refuse \/ Accept206 \/ Accept200 \/ Complete416 \/ Reset416
    \/ Chunk \/ StreamEnds
    \/ \E e \in Adapter.closing : CloseFails(e)

Next == Program \/ TimesOut \/ Environment

Spec == Init /\ [][Next]_vars

(* Under a timeout the wait for the next bytes ends, by bytes or by it.    *)
WaitEnds == TimesOut \/ (ReadTimeout # NoTimeout /\ Chunk)

(* The program runs on; the network, the server and the user owe nothing.  *)
FairSpec == Spec /\ WF_vars(Program) /\ WF_vars(WaitEnds)

-----------------------------------------------------------------------------
TypeOK ==
    /\ opts \in Options
    /\ pc \in {"main", "loop", "haul", "request", "body", "close", "sleep", "finally", "exited"}
    /\ attempt \in 0 .. MaxRetries /\ signals \in 0 .. 1 /\ bytesRead \in BOOLEAN
    /\ received \in 0 .. MaxReceived /\ saved \in 0 .. MaxReceived
    /\ dirty \in 0 .. FlushEvery - 1 /\ delivered \in BOOLEAN
    /\ pending \in {"none", "done", "partial", "fatal"}
    /\ exit \in {0, 1, 2, 130, NoExit}
    /\ cause \in {"none", "network", "library", "refused", "disk", "name"}
    /\ late \in 0 .. MaxRetries

(* When an attempt ended in PartialHaulError, with whatever library and    *)
(* exception, .part.ctrl vouches for everything it received and the next   *)
(* attempt asks for no byte again; unless the error is that of the close   *)
(* of the response, in the place of one that is not for a retry.           *)
RetryLosesNothing == pc \in {"sleep", "loop"} /\ pending # "fatal" => saved >= received

(* No backend turns trouble with the network into a final error: exit code *)
(* 1 after one means that all attempts are used up.                        *)
NetworkRetried == exit = 1 /\ cause = "network" => attempt = MaxRetries

(* From the first signal on at most one more request is sent (the one for  *)
(* which the flag was read just before), whatever its outcome.             *)
SignalHeeded == late <= 1

(* With a read timeout in force, the program's or the library's own, the   *)
(* command ends, wherever the server stalls, unless it sends a body for    *)
(* ever: each chunk renews the timeout, and nothing bounds the loop.       *)
Terminates ==
    ReadTimeout # NoTimeout => <>(pc = "exited") \/ []<><<Chunk>>_vars
=============================================================================
