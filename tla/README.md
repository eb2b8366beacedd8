# A verification of pyhaul

pyhaul downloads one resource to one path, resumably: `haul()` streams into
`<dest>.part`, keeps a binary checkpoint in `<dest>.part.ctrl`, and renames
`.part` to `<dest>` when it is complete. This directory holds TLA+ models of
that code, the TLC runs that check them on small instances, and TLAPS proofs of
the results that hold for every instance. Paths below are those of the
repository's package, `src/pyhaul/`.

## Inventory

| Part | State it keeps | Operations | What makes it correct |
| --- | --- | --- | --- |
| `_engine_common.py` | `PrepareHaul`, `StreamPlan`, the three files | read the checkpoint, interpret 200/206/416, open, write, flush, trim, finalize | the destination is complete or absent; a checkpoint never vouches for bytes that are not there; the hash is that of the file |
| `engine.py` | descriptor, exception in flight | the loop over chunks, the handlers | progress is flushed before the caller hears of it; whatever is raised, the disk is resumable; a descriptor is closed once |
| `async_engine.py` | the same, plus flushes in worker threads | the loop, cancellation, shielded cleanup | no two workers touch the descriptor or the temporary file; a cancelled task closes what it opened |
| `persist.py` | `.part.ctrl.tmp` | write, fsync, replace | a crash leaves the old or the new control file |
| `checkpoint.py` | bytes of the control file | encode, decode, registry | what is encoded decodes to the same checkpoint; damage is noticed |
| `_types.py` | `HashBuilder`'s block and list of hashes | update, finalize, hash_file | the tree hash does not depend on how the bytes were cut into chunks or attempts |
| `alloc.py` | the size of `.part` | allocate | the size is the announced one, old bytes stay |
| `etag.py`, `content_range.py`, `headers.py`, `fs.py` | none | parse, compare, merge, measure | validators are never weakened; structural headers are pyhaul's |
| `cli.py` | attempt counter, interrupt flag | retry loop, signals | attempts are bounded, an interrupt is honoured |
| `_probe_common.py`, `probe.py`, `async_probe.py` | none | HEAD, then GET | the two answers are not mixed up |
| `_session_dispatch.py`, `transport/` | none of pyhaul's own | adapt a third-party session | errors arrive as `TransportError` or `TransportConnectionError` |

The parts meet in four places: the engine calls an adapter and catches its
errors; two calls of `haul()`, possibly of two processes, meet only through
`.part` and `.part.ctrl`, and two threads of one process also through the table
of file descriptors; the caller (`cli.py` is one) decides from the exception
whether to call again; and the server gets pyhaul's headers merged with the
caller's. What is hard: a crash between any two file operations, the page cache
and `fdatasync`, a resource that changes between attempts, answers that do not
fit the request, boundaries of blocks and of the flush threshold, a descriptor
number that belongs to somebody else by now, six libraries with six ideas of an
error, and, in the asynchronous engine, cancellation while a flush runs in a
thread.

## Modules

| Module | Models |
| --- | --- |
| `Storage` | one file: size, cached bytes, holes, resize, write, what a power loss leaves |
| `AtomicDelivery` | the abstract promise: the path holds nothing or one complete version |
| `Haul` | the synchronous engine with the origin, the caller that retries, and every fault |
| `HaulInv` | the inductive invariant of `Haul` |
| `HaulProofs`, `HaulLossProofs` | the proofs about it |
| `MCHaul` | the instances of `Haul` TLC checks |
| `AsyncHaul` | the asynchronous engine: one task, its jobs in the thread pool, cancellation, and the next attempt that meets a job left behind; its instances need only numbers, so its `.cfg` files name it directly |
| `CheckpointCodec` | `V1BinaryCodec`: the layout of the control file, what decodes, what damage does |
| `ResumeHash` | `HashBuilder` across attempts, through the codec |
| `MCResumeHash` | the instance of `ResumeHash` TLC checks |
| `ThreadedHaul`, `MCThreadedHaul` | several synchronous `haul()` calls in threads of one process: descriptors, a full disk, `write_atomic` step by step |
| `Transport` | the adapters of `transport/` as records: error map, redirects, what closing raises |
| `CommandLine` | `cli.py`: the retry loop, signals, timeouts and clients, over `Transport` |
| `Fields` | `headers.py`, `etag.py`, `content_range.py`, `transport/_headers.py` as operators |
| `Exchange`, `MCExchange` | requests and answers of `haul()`, `probe()` and `probe_async()`, over `Fields` and `Transport` |
| `AsyncHaulProofs`, `CommandLineProofs`, `ExchangeProofs`, `ResumeHashProofs` | the proofs about the modules of those names |
| `ThreadedHaulProofs`, `ThreadedDataProofs` | the proofs about `ThreadedHaul`: descriptors, then what the files hold |

`AtomicDelivery` is implemented by `Haul` and, with one version, by `AsyncHaul`.
`Haul`, `AsyncHaul` and `ThreadedHaul` are three views of the same engine: versions, hashes and power
losses in the first, cancellation and the thread pool in the second, shared
descriptors and short writes in the third. `CommandLine` and `Exchange` put the
callers and the wire around it.

### Haul

The program counter `pc` cuts `haul()` where an interruption would leave a
different disk: each call that changes a file is one step, what happens in
memory between two such calls belongs to one of them.

| Action | Code |
| --- | --- |
| `PrepareHaul` | `prepare_haul`: read `.part.ctrl`, or start at 0; the caller's `HaulState` (`bag`) is a new one or that of the attempt before, which nothing clears |
| `Plan206`, `Reject206`, `PlanMislabeled206` | `_plan_206` |
| `Plan200` | `_plan_200` |
| `On416Complete`, `On416Raise`, `On416Reset` | `_on_416` |
| `Refuse`, `ConnectionFails` | any other status; `TransportConnectionError` |
| `OpenPartFile` | `open_part_file` with `allocate_file` |
| `WriteChunk` | `write_chunk` up to the threshold |
| `Datasync`, `SaveCheckpoint` | the flush of `write_chunk`, and the `datasync` after the loop |
| `StreamEnds`, `StreamError`, `SaveDirty` | end of the body; `TransportError` with `flush_dirty` |
| `AfterStreamShort`, `AfterStreamTrim` | `after_stream` |
| `FinalizeRename`, `FinalizeUnlink` | `finalize` |
| `RaiseOther`, `Kill`, `PowerLoss` | any other exception, the end of the process, of the machine |
| `ReplaceResource` | the origin installs another version |

`part` is what a reader of the file sees and `partDisk` what is on the disk:
`Datasync` copies one to the other, and a power loss keeps any subset of the
bytes in which they differ. A hash is represented by the bytes it was computed
from, so two hashes are equal exactly when their inputs are.

Assumptions, by name:

- *OrderedMetadata*: a rename, an unlink, a truncate and an allocation that
  returned survive a power loss. `persist.py` and `finalize` do not fsync the
  directory, so this is a property of the file system, not of the code.
- *FramedEOF*: the origin announces true lengths, and a body without a length
  ends without an error only where it is complete. `docs/explanation/design.md`
  documents that a truncated body of unknown length cannot be noticed.
- *Accountable* (in `HaulInv`): every version has a strong ETag of its own, the
  origin never goes back to an earlier one, it answers no 416 in spite of an
  If-Range that does not hold (`Blind416`), and no attempt ends between the
  rename and the unlink of `finalize`. The proofs need it. `unlink_crash` and
  `blind_416` show what happens without the last two parts: `_on_416` compares
  a length and no ETag. A 206 in spite of If-Range (`BlindRange`) is allowed
  throughout, since `_plan_206` does compare the ETag.
- Hashes do not collide; a write of a regular file is complete; rename replaces
  an existing destination (POSIX).

### AsyncHaul

`haul_async` is one task (`pc` says which await it has reached) and a set of
jobs handed to `run_in_executor`. A job is a record: what it was asked to do
(`kind`), where it is (`step`), the descriptor and the cursor it was given, and
whether the task still awaits it. Cancelling a task cancels a job that is still
queued; a job that has started runs on with `awaited = FALSE`, marked with the
cancellation that left it behind (`left`, so that two such jobs stay two). The caller may
start the next attempt at once, and then both work on the same three names.

| Action | Code |
| --- | --- |
| `Start` | `prepare_haul` in the pool, up to the request |
| `Resume206`, `Restart200`, `Complete416` | `handle_response`, and the job submitted next |
| `Chunk` | one turn of `async for`, with the flush it may submit |
| `BodyEnds`, `BodyFails` | the `else`, the `except TransportError` and the `finally` of the loop |
| `Cancel` | `Task.cancel()` at an await, and the `except CancelledError` of the loop |
| `Begin` | a worker takes a job from the queue |
| `Open`, `Sync`, `Close` | `open_part_file`, `datasync`, `os.close` in `_sync_flush`, `_datasync_and_close`, `_flush_dirty_and_close` |
| `CreateTmp`, `WriteTmp`, `Replace` | `write_atomic` |
| `Stat`, `Rename`, `Unlink` | `after_stream` and `finalize` |
| `Fails` | an `OSError` of any of these, a full descriptor table among them, and which of them the code suppresses; of the unlink only where `UnlinkFails` says so |

What `Haul` is about is left out: one version, no crash, a known length. `.part`
is the set of offsets that hold the right byte, a file is an inode because a
descriptor outlives a rename, and `.part.ctrl` is the cursor it holds, or torn.
`CancelAt` says at which awaits a cancellation may arrive; the runs use it to
tell apart the awaits where a cancellation is harmless from those where it is not.
`UnlinkFails` does the same for the unlink behind the rename: where it fails,
the checkpoint stays without its `.part`, and what follows is what `unlink_crash`
shows of the same `finalize`; the runs of `AsyncHaul` leave it out.

### CheckpointCodec and ResumeHash

`Haul` takes from a checkpoint that it can be saved and loaded, and from the
hasher that it is fed every byte once. These two modules open both.
`CheckpointCodec` is pure: `Encode` lays a checkpoint out (sizes of the framed
extensions, padding, the second tail hash, where the digests begin), `Decodable`
and `Decode` are the two ways `decode` ends, `Damaged` is what may have happened
to the file since. `ResumeHash` runs attempts over one resource that does not
change and a `.part` that is right.

| Action | Code |
| --- | --- |
| `Begin200`, `Begin206` | `_plan_200`, `_plan_206` with the control file as `prepare_haul` reads it |
| `Begin416`, `Reset416` | `_on_416`, with `hash_file` and with `_reset_checkpoint` |
| `LoadRaises` | an exception of `registry.load` that is no `ControlFileError` |
| `Update`, `Take`, `Finish` | a call of `HashBuilder.update`, one turn of its loop, `HashBuilder.finalize` |
| `Save` | `save_checkpoint` |
| `Interrupt`, `Damage` | the attempt ends; the control file is damaged between two attempts |

Extensions carry a CRC, the core and the digests carry none; `Damaged` therefore
changes an extension without its CRC, or cuts the file off, and leaves the core
as it is.

### ThreadedHaul

Each thread downloads its own destination. A descriptor is a number that stands
for an open file: what kind (`.part` or `.part.ctrl.tmp`), of which thread and at
which position; every call acts on whatever the number stands for at that
moment, and `open` gives the lowest number that is free. `stolen` records that a
thread closed another's file, `short` that `os.write` wrote less than it was given.
`synced` are the offsets at which the disk holds what a reader of `.part` finds:
a write takes away those whose byte it changes. So a 200 that writes the same
bytes again leaves what the checkpoint covers on the disk, and the checkpoint,
which stays at the old cursor meanwhile, is still backed.

| Action | Code |
| --- | --- |
| `Prepare`, `Complete416`, `ConnectionFails` | `prepare_haul`, `_on_416`, a connection error |
| `Answer` | `handle_response`: a 206 goes on at the cursor, a 200 or a 206 of everything begins again at 0 |
| `Open`, `Allocate`, `AllocateFails` | `open_part_file` with `allocate_file` and its `except` clause; a full table |
| `WriteChunk` | `write_chunk`; the write may be short where the space is not reserved |
| `Datasync`, `OpenTmp`, `WriteTmp`, `Replace`, `TmpFails` | the flush, with `write_atomic` step by step |
| `StreamEnds`, `StreamError`, `Raise` | the ways out of the loop |
| `Close`, `Finally` | `os.close` in the `except TransportError` clause (`engine.py:99`), and in the `finally` clause |
| `AfterStreamShort`, `AfterStreamTrim`, `FinalizeRename`, `FinalizeUnlink` | `after_stream`, `finalize` |
| `Kill` | the process ends and is started again |

Left out: a refused answer and the 416 that resets the checkpoint, which touch
no descriptor that this module is about, and a kill or a failure between the
rename and the unlink, which `unlink_crash` is about.

### Transport and CommandLine

`Transport` is a table: for every adapter what its error map makes of each
exception of its library (`connection`, `tls`, `http`, `unsupported`, plain
`transport`, or `unmapped`: let through), which exceptions stand for trouble with
the network, which one is a read timeout, and whether GET and HEAD follow
redirects. The first part is pyhaul's, the others are the libraries' and modelled
from how pyhaul uses them.

`CommandLine` is `main()`. Of the engine it keeps how much has arrived
(`received`), how much the checkpoint vouches for (`saved`), and which exception
comes out: before there is a response only a connection error is a
`PartialHaulError`, while the body comes in every transport error is
(`engine.py:97`, `:106`). Every way out of the block that has the response goes
through its close: `pending` is what was returned or raised on the way there,
and an exception of the close takes its place.

| Action | Code |
| --- | --- |
| `RefuseArguments`, `CannotStart`, `BuildClient`, `CloseClient` | `main`, `_build_client`, `_close_client` |
| `Signal` | `_install_signal_handlers`: the first leaves a note, the second ends the process |
| `NextAttempt`, `Partial`, `Wake`, `Fatal` | `_download_loop` |
| `Prepare`, `Save` | `path_fits`, `write_atomic`: names that fit for `.part.ctrl` may not fit for `.part.ctrl.tmp` |
| `RequestFails`, `StreamFails`, `TimesOut` | the handlers of `haul()`, through the adapter's error map |
| `CloseResponse`, `CloseFails` | the end of `stream_get`'s block, left by a return or any exception (`LeaveBlock`) |
| `Accept206`, `Accept200`, `Complete416`, `Reset416`, `Refuse` | `handle_response` |
| `Chunk`, `StreamEnds`, `DiskFails` | the body, of any length or without an end; `after_stream`; any `OSError` |

Met while modelling, and true of the model as of the code: the clause for
`KeyboardInterrupt` (`cli.py:563`) cannot be reached, because the handlers are
installed before the loop; the first signal only sets a flag, so that an
attempt under way runs to its end, although `docs/reference/cli.md:88` says it
"saves resume state and exits with code 130"; twenty attempts are the limit even
when each makes progress; the `requests` and `niquests` clients never get the
timeouts; an `httpx.CloseError` after the file was delivered downloads it again,
and one that follows an `OSError` hides it, so that the command retries a full
disk, behind what was received;
a name with 10 to 13 bytes of room passes `path_fits` and then fails at every
checkpoint.

### Fields and Exchange

A field is a name without its letters' case, a spelling (`as`), whether the name
has blanks around it (`padded`) and a value that says who wrote it and, for a
validator, what is in it. There are two ways of comparing names: the merge
lowers them (`Named`), `TransportHeaders` strips them too (`Carried`). `Merge` is
`merge_headers` field by field; `OnTheWire` is what a case-insensitive mapping
makes of the result. An ETag is an optional `W/` and an opaque part that is
quoted, quoted with a backslash where none is needed, bare or broken; `ParseTag`
and `UnparseTag` are the two directions. Parsing drops such a backslash, and
nothing puts it back.

`Exchange` has one caller. `haul` sends `Merge(user, RangeHeaders(stored))`, and
the tag of the answer becomes what `.part.ctrl` holds; `probe` sends HEAD and,
unless that was enough, a GET of the first byte, and merges what both told.
`issued` remembers the raw tag the stored one came from. The server answers
truthfully, but leaves fields out, repeats or spoils Content-Length, ignores
Range, redirects, fails, and replaces the resource at any moment.

| Action | Code |
| --- | --- |
| `Init` | the session: `coerce_sync_session`, `coerce_async_session`, the options, hence which methods meet a redirect |
| `HeadRequest`, `RangedGet`, `ProbeFails` | `run_probe_sync`, `run_probe_async` |
| `Request` | `prepare_haul`'s headers and `stream_get` |
| `Accepted`, `Forgotten`, `HaulFails` | `_plan_206`, `_plan_200`; a 416; any other end |

Met while modelling: two spellings of one structural header in one mapping
defeat the merge, since `headers.py:77` remembers the last one only, although
the comment at `headers.py:43` says user overrides are "silently ignored";
so does a blank around its name. `AsksForItsBytes` names both
cases (`Overlooked`). `TE` is listed as structural but never
sent, so a user's passes; a user's `If-Range` passes whenever pyhaul sends none;
the probe accepts a 3xx answer as a result (`_probe_common.py:95`) and reads
the whole body of a server that ignores Range (`:203`).

## Runs

| Run | Shows |
| --- | --- |
| `haul_safety` | with four versions (one of them empty), an origin that may serve a 206 in spite of If-Range, and three faults anywhere: `DestIntact`, `HashMatches`, `CtrlTruthful`, `BoundedLoss`, `LastBlockHashed`; `PartialReport`, of every step that raises `PartialHaulError` after a response; that `Haul` implements `AtomicDelivery` (`DeliversAtomically`); and `RetryCompletes`: retrying completes again and again |
| `unlink_crash` | the destination is overwritten by a corrupt file after a crash, or a failing unlink, behind the rename (finding) |
| `blind_416` | a 416 in spite of If-Range, whose length is the cursor, installs a prefix of an older version (finding) |
| `async_safe` | cancellation while the request, the opening, the stream or the last sync is awaited, with two failures anywhere but at the unlink: `CtrlWhole`, `CtrlBacked`, `DescriptorOwned`, `OneWriter`, `NoLeak`, `StreamOpen`, `CancelSaves`, that `AsyncHaul` implements `AtomicDelivery` too (`DeliversAtomically`, of which `DestWhole` is a part), and `RetryCompletes` under fairness |
| `async_flush_cancel` | cancellation while a periodic flush is awaited: two jobs share the descriptor, and one closes it under the other (finding) |
| `async_after_cancel` | cancellation while finalization is awaited: the job left behind renames the `.part` of a later attempt (finding) |
| `resume_hash` | `HashIsOfFile`: the hash of a download in several attempts is that of the file read as a whole, from `BuilderFollows` at every turn of the loop; `LoadedIsSaved`, `LoadsUnlessAligned` on the control file |
| `threads` | two threads, two faults, resumed downloads that go on or begin again: `DestWhole`, `CtrlWhole`, `CtrlBacked`, `DescriptorOwned`, `NoLeak`; and `StolenOnlyTwice`: the one step that closes another thread's descriptor is the second close after a `TransportError` |
| `thread_double_close` | that step corrupts a destination (finding) |
| `short_write` | a short write on a full disk is counted in full, and an incomplete file is installed (finding) |
| `command_line` | for five libraries, all exceptions, the close of the response among them, all options, and bodies of any length: `RetryLosesNothing`, unless the close hides an error that is not for a retry; `NetworkRetried`, `SignalHeeded`; and, under fairness, `Terminates` where a timeout is in force and the body does not come in for ever |
| `exchange` | `AsksForItsBytes`, but for the headers the merge overlooks; `ValidatorFaithful`, but for needless escapes; `ProbeTruthful` |

Most failures have a run of their own because the passing runs leave their cause
out: a constant or a constraint allows it there. Where the cause is part of a
passing run, the property names the exception, and the run shows that there is
no other; of these only `short_write` has a run of its own. The rest are, with the statements of the documentation they contradict:

- A checkpoint with a tail hash behind extensions that need no padding does not
  decode (`checkpoint.py:118`), and the next attempt begins at 0, against
  `docs/explanation/design.md:199`, "picks up from byte `valid_length`". With a
  reported length this is so for every ETag of 3, 11, 19... characters
  (`LoadsUnlessAligned`).
- A connection error from closing the response takes the place of an `OSError`
  on its way out of the block; `haul()` makes a `PartialHaulError` of it without
  having flushed, against `docs/reference/exceptions.md:23`, "progress is saved"
  (`RetryLosesNothing`, where `pending` is `"fatal"`).
- In a `HaulState` that is passed again, as `cli.py:546` and
  `docs/guides/retry.md` do, `valid_length` keeps what an attempt received and
  did not save when the next one cannot connect, against
  `docs/guides/retry.md:564`, "reflects the total bytes saved to disk"
  (`PartialReport`, only where there was a response).
- A caller's `Range` with a blank around its name, or in two spellings, takes
  the place of pyhaul's, against `docs/explanation/why.md:171`, "always set by
  `pyhaul` itself" (`AsksForItsBytes`, `Overlooked`).
- The ETag `"a\b"` is stored, and goes out, as `"ab"` (`etag.py:70`), against
  `etag.py:16`, "every opaque round-trips byte-identically"
  (`ValidatorFaithful`, form `"escaped"`).
- A 200 to a resume overwrites `.part` while `.part.ctrl` vouches for the old
  bytes until the first flush (`_engine_common.py:450`), against
  `docs/explanation/design.md:197`; `CtrlTruthful` therefore speaks of
  checkpoints the origin would still honour.
- A tail that does not match its hash raises `ControlFileError` without
  discarding the checkpoint (`:370`), so that a tail damaged on disk comes back at
  every attempt, against `docs/guides/retry.md:338`. No run damages `.part`.

Bounds. Files have at most three bytes, blocks two, the flush threshold is two
and chunks one or two bytes: this gives a block boundary and a partial block, a
threshold hit exactly and exceeded, a resume at 0, inside and at the end of a
block, and a chunk that spans a boundary. Versions differ in length and share
bytes at equal offsets, so a splice is visible at some offsets and not at others,
and a hole may look like data. Three faults suffice for two interrupted attempts
and a power loss; replacing the resource by a later version is bounded by the
number of versions.

The runs of `AsyncHaul` use the same sizes with three descriptors and seven
inodes, more than a task and a job left behind can hold. `async_safe` has two
faults and one cancellation, so that a cleanup may fail after a cancellation and
the retry may fail again; with one fault and two cancellations the invariants
hold too, in a state space that takes minutes.

`ResumeHash` has five different bytes, blocks of two and of three (two attempts
may disagree about the size), chunks of up to three bytes and reads of two by
`hash_file`: a chunk that ends before, at and behind a boundary, one that spans
two, and a tail from an earlier attempt in front of it. Of the ETag only the
length counts: none, one that needs no padding next to a reported length (3),
and one that needs some (5). Damage and attempts are unbounded.

`threads` has two threads with resources of two bytes each, three descriptors
(one less than two attempts in the middle of a flush may want, so that the table
fills up) and two faults: one that makes a thread flush and close, and one that
meets it there, or a kill and what follows it. The constraint `UntilStolen` stops
where a descriptor was closed under its owner, which `thread_double_close`
explores.

`command_line` has three attempts and a flush every second chunk; the cursor
counts up to three (`MaxReceived`) and then stays there while the body goes on:
a checkpoint behind, at and in front of what has arrived, and an
attempt before the last, which is enough since nothing depends on more. All
combinations of backend, timeouts and room for names are initial states.

`exchange` has a resource of three bytes that is replaced by an empty one, seven
pairs of ETags that contain every form, and nine sets of callers' headers: each
structural header alone, in pyhaul's and in another spelling, with blanks around
its name, together, and twice. Calls are unbounded.

Fairness. `FairSpec` asks for weak fairness of the disjunction of the engine's
and caller's steps and of nothing else: the caller retries, the process runs, but
which answer the origin gives, and whether it ever gives another, is not
constrained. Faults are finite (`MaxFaults`), as is the number of versions.
In `AsyncHaul` the event loop resumes a task whose await is over and the pool's
threads run: weak fairness of the task's steps and, separately, of the jobs'.
Failures and cancellations are not fair, and which job runs is open.
`CommandLine`'s fairness is of the program's own steps and, where a read timeout
is in force, of the end of a wait (`WaitEnds`): by the timeout or by the next
bytes, each of which starts it anew. Neither the network nor the server nor the
user has to do anything, which is what makes `Terminates` a statement about
timeouts; and since nothing bounds the loop over the chunks (`engine.py:92`), a
server that sends a body without an end keeps the command for ever, which
`Terminates` says.

## What is proved

Every invariant and every action property that a passing run checks is a
theorem, for every value of the constants that the module's assumption allows.
Each argument has the same shape: an inductive invariant that TLC checked
first, one lemma per action and per part it may disturb, and the properties as
consequences.

`HaulProofs` proves, for every set of versions, length, block size, threshold, chunk size and number of faults:

- `TypeCorrect`: `Spec => []TypeOK`, without further assumption;
- `InvariantHolds`: `Spec => []IInv`;
- `DestinationIntact`, `DeliveredHash`, `CheckpointTruthful`: `DestIntact`,
  `HashMatches` and `CtrlTruthful` are invariant when `Accountable`;
- `ImplementsDelivery`: `Spec` implies the abstract specification when
  `Accountable`.

The argument. That the destination is intact says nothing of the steps before,
so it is not inductive. `IInv` adds to which version each thing belongs: an
attempt writes one version, `plan.ver`, and `.part` holds its prefix of length
`plan.cursor` (`PlanSound`); a checkpoint belongs to one version, and if that is
the version served now then `.part` holds its prefix, cached and synced
(`CtrlSound`); a checkpoint of an older version may say anything about `.part`,
because its ETag will never match again. `FilesSound` says that holes read as
zeros and that the cache is no shorter than the disk, which makes a trimmed
`.part` of the right length equal to the version; `DestSound` that the
destination has no unsynced bytes. Each action preserves each part, one lemma
per action. The lemmas on files (`ResizeFacts`, `WriteAtFacts`,
`PowerLossFacts`...) are stated once.

`HaulLossProofs` proves what a crash or a failure may cost, from the types
alone and for every origin and every fault:

- `PartialReported`: `Spec => PartialReport`, an action property of the attempts
  that had a response (before one, see "Runs" on a reused `HaulState`), and `TailHashed`: `Spec => []LastBlockHashed`;
- `LossBounded`: `Spec => []BoundedLoss`, if every version has a strong ETag
  (`AllStrong`): an attempt without one does not own the checkpoint it finds.

The cursor of the last checkpoint and the cursor of the attempt are exactly
`dirty` bytes apart (`Distance`), as long as the checkpoint carries the
attempt's tag (`SameTag`); the bytes fed to the hasher since the last block
boundary are those of `.part` (`Hashed`), which needs that a boundary never lies
behind the cursor that follows it (`BlockStartMonotone`).

`ThreadedHaulProofs` is for any number of threads, descriptors and faults and
any resources, from `Thread # {}`:

- `TypeCorrect`, `EachItsOwn` (`DescriptorOwned`), `AllClosed` (`NoLeak`),
  `CheckpointsWhole` (`CtrlWhole`);
- `OneGuiltyClose`: `Spec => StolenOnlyTwice`, the step that closes another
  thread's descriptor is always the second close of `engine.py:99`.

A thread holds a number when the code between `open` and `close` says so
(`HoldsPart`); the invariant `OwnInv` says that each number a thread holds stands
for its own file, that each open number has a holder, and that each temporary
file has the text its step says. `open` takes the
lowest free number, so a number it gives is nobody's; that there is a lowest is
the well-foundedness of the naturals. After the first close of a
`TransportError` a thread no longer holds its number, which is all that the
second close can exploit. All of this is claimed until the first theft only.

`ThreadedDataProofs` goes on from there to the contents of the files:

- `CheckpointsBacked` (`CtrlBacked`) and `DeliveredWhole` (`DestWhole`), while
  no descriptor was stolen and no write came short.

`DataInv` says of each thread what the code knows where it stands: the bytes up
to its cursor are in `.part` (`Arrived`), the descriptor is positioned there, so
the next write continues them (`Placed`); what `write_atomic` is about to
publish was synced before (`Saving`), so the checkpoint that is found covers
synced bytes (`Covered`); and a body without a length is complete once the last
sync is done (`Finishing`). `CtrlBacked` alone is not inductive, since nothing
in it says that the text of the temporary file, once it is renamed, is about
bytes that were synced when it was opened. That another thread's step leaves all
of this alone (`StillProgress`) is where `OwnInv` is needed.

`AsyncHaulProofs` is for any sizes and any number of failures, cancellations,
descriptors and inodes. `TypeCorrect` needs nothing more; the others assume
`Gentle`, that a cancellation arrives at one of the awaits `async_safe` allows,
since elsewhere two of them are false (the findings), and `CheckpointsBacked`,
`DestinationWhole` and `ImplementsDelivery` also `~UnlinkFails`:

- `DescriptorsOwned`, `OneWriterAtATime`, `NothingLeaks`, `StreamStaysOpen`,
  `CheckpointsWhole`, `CheckpointsBacked`, `DestinationWhole`,
  `CancellationSaves`: `DestWhole` and all the invariants `async_safe` checks;
- `ImplementsDelivery` (`DeliversAtomically`): task and jobs together implement
  the abstract specification. What is at the destination is there in one step,
  and neither a later download nor a descriptor somebody kept takes it away or
  writes into it.

The argument is about who may be there beside the task. `Company`: one job at
most is awaited, and the task is where that kind of job is awaited; every other
job opens, or syncs and closes, and never writes. From this there is one writer,
so the temporary file is the one it opened and the text is that of its step
(`Whole`). `Paired`: each job that uses a descriptor has one of its own, which
no other job and no streaming task has, and which stands for the inode it was
given; `Accounted`: before the first cancellation every open descriptor is
somebody's. `Backed`: what the task and the checkpoint have counted is in
`.part`, whose inode is not the destination's. `Behind`: before the first
failure the checkpoint is exactly `dirty` bytes behind the cursor, and a job
that flushes and closes makes up for it before it closes.

`CommandLineProofs` is for any number of attempts, any threshold and any bound of
the counter: `TypeCorrect`, `NothingLost` (`RetryLosesNothing`), `RetriesUsed`
(`NetworkRetried`), `SignalsHeeded` (`SignalHeeded`). `NothingLost` exempts the error
that the close hid, and needs of each way to the close what it has saved. `RetriesUsed` goes through
the five error maps one by one: whatever stands for trouble with the network is
a connection error before there is a response, and a transport error after.

`ExchangeProofs` is for resources and ETags of every kind, any number of
replacements, and callers' headers of any names, spellings and number:

- `ProbeTrue` (`ProbeTruthful`). `Probed` says that between HEAD and GET exactly
  one version has answered and the snapshot is of that one; each kind of answer
  says what is so or nothing, and a merge of two such does the same.
- `ExchangeTyped` (`TypeOK`), for which the three passes of `merge_headers` are
  shown to return pairs of a name and a value again.
- `AskedForItsBytes` (`AsksForItsBytes`). Every request that was sent is what the
  wire makes of the merge of some caller's headers with one of pyhaul's own lists
  (`Sent`). The rest is about `Merge`: a structural field of pyhaul's comes first,
  a caller's field of the same name is dropped in the spelling it was remembered
  under, and what a case-insensitive mapping keeps of the two is the first. That
  needs names for which the two comparisons agree (`Plain`), hence the exception
  for `Overlooked`.
- `ValidatorsFaithful` (`ValidatorFaithful`). The stored tag is always the
  serialised parse of the one the server issued (`Kept`), and the request is built
  from it (`Asked`); parsing a serialised tag gives the same tag back, for each of
  the forms, and a weak or broken one stays weak or broken. For a tag with
  needless escapes only this much is claimed, since its bytes do change.

`ResumeHashProofs` is for resources, blocks, chunks and reads of any length, ETags
of any length and any number of attempts and damages. It assumes of the
constants that the resource is a sequence of at least one byte and that a
missing ETag has length 0:

- `HashTyped` (`TypeOK`), `BuildersFollow` (`BuilderFollows`), `HashesOfFile`
  (`HashIsOfFile`), `LoadsWhatWasSaved` (`LoadedIsSaved`), `LoadsUnlessItIsAligned`
  (`LoadsUnlessAligned`).

`BuilderFollows` joins the digests together again, and two lists of blocks may
join to the same bytes; it is therefore not inductive. `Follows` says instead
which bytes of the resource each digest is of, and where in it the open block
and the pending bytes lie. The same relation holds of every checkpoint that was
saved (`Sound`), with the tail for the open block, and so survives
`_plan_206`, which builds the next hasher from it, with one attempt's block size
or another's. `Kept` says that the control file is the encoding of that
checkpoint or a damage of it: a damaged one decodes only where the framed
extensions are untouched, and loses whole digests at the end. That the digests
joined together are the resource (`FlattenCut`) is said of a fold, on which no
induction is possible here; it is shown by the least number of digests for which
it would fail. `hash_file` is a set of blocks by arithmetic, not a recursion, and
`Blocks` proves the division with remainder both sides use.

Only model-checked: the liveness properties (`RetryCompletes` of `Haul` and
`AsyncHaul`, `Terminates`), which are out of the prover's reach with their
fairness and `ENABLED`; the violations of the findings, which are behaviours and
not theorems; and, in `AsyncHaul`, what is true only of cancellations elsewhere
than at the awaits of `Gentle`. Theorems of `Haul` that need `Accountable` say
so; `haul_safety` is an instance of it.

## Plan

What the project set out to model is modelled, in this order: the synchronous
engine with crashes (`Haul`), the asynchronous one with cancellation, the codec
and the hasher, threads with shared descriptors, the command line over the
adapters, the headers and the probe. The safety properties are proved, and the
refinements of `Haul` and `AsyncHaul`. In `ThreadedHaul` a thread downloads once,
so `DestWhole` says as much of a destination as a refinement would. What is left
to state is how the three views agree where they overlap: that a step of `Haul`
without versions and power losses is one of `ThreadedHaul` with one thread.

## Not modelled

The third-party HTTP libraries beyond the exceptions they raise, logging,
messages, elapsed times, progress display, the syntax of arguments, headers and
numbers, and the telemetry record of `alloc.py`. Functions the engine never
calls: `is_file_changed`, `parse_retry_after`, `raise_for_status`,
`safe_open_path`, `done_path_for`, the comparison methods of `EntityTag`. Adapters
a program registers of its own. The Windows branches of `fs.py`. A power loss
that undoes a rename, and damage to the core header of a control file, which no
checksum covers. A body that is longer than announced: the trim of
`_engine_common.py:522-528` is modelled, what it would cut off is not.
