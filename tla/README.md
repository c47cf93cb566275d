# Verification of the harness-trajectory-benchmark control plane

TLA+ models of the Go control plane in `src/`: what it keeps on disk, how runs
live and end in it, and what remains true of a run's trajectory and evidence
when writes fail, the process dies, clients retry and a shutdown comes at a bad
moment. TLC checks the models on small instances; TLAPS proves the theorems of the
`*Proofs` modules for every value of the constants: all safety and refinement
properties that the passing runs check.

## 1. The system

The control plane accepts runs over HTTP, executes each one in a backend (a
local process or a gVisor container), and keeps a *trajectory* (a log of
sequenced, hash-chained events) and an *evidence bundle* (signed) for it.

| Component | State it keeps | Operations | Talks to |
|---|---|---|---|
| Appender (`internal/appender`) | log file, seal marker, `events`, `nextSeq`, `sealed` | Open, Append, Export, Seal, Close | the file system |
| Store (`internal/api`) | catalog, evidence, idempotency records, `persistErr`, one `state.json` per run | create, start, stop, Complete, AppendEvent, SealRun, SetEvidenceVerification, OpenStore | Appender; calls the driver while it holds its mutex, and is called by it |
| Drivers (`internal/controlplane`) | one `compatRun`/`gvisorRun` per run, a completion goroutine per started run | Prepare, Start, Stop, complete, Shutdown, ValidatePersistedBundles | Store, backend, bundle files |
| Bundle (`manifest.go`, `internal/bundle`) | `evidence-manifest.json`, `evidence-bundle.json` | publish, Validate | Store, backend directory |
| Compat backend (`internal/backend/compat`) | one `run`: state, process, raw records, health | Prepare, Start, Wait, Stop, FinalizeEvidence, RawRecords, Destroy | operating system |
| gVisor backend (`internal/backend/gvisor`) | one `run`: state, container, network, gateway, captures, raw records per source | the same | Docker |
| Process (`cmd/controlplane`) | - | start, serve, drain, shut down, close | all of the above |
| SecCheck collector (`deploy/gvisor/scripts/seccheck-raw.patch`) | one capture per sandbox: open file, counters | receive, finish | the sandbox's socket; the gVisor backend, through a directory |
| Algorithms (`evidence`, `verification`, `replay`, `projection`, `normalizer`, `plaintext`, `pkg/events`) | none, but for the plaintext assembler | pure | - |
| Client (`cmd/benchmark`, `pkg/client`) | cursor of the followed run | run, follow, stop, validate | HTTP |

What is hard: every durable effect of a method can be the last one before a
crash; a failed write may leave nothing, a part or everything; the completion
goroutines of several runs run against clients, against a shutdown and against
`Store.Close`; a stop races with the natural end of a workload; and a restart has to make
sense of whatever it finds. `PROJECT.json` lists these hazards line by line.

What makes each component correct, in one sentence each: an acknowledged frame
is never lost once the file's name is on disk, and a sealed log never changes (Appender); what clients were told
under an idempotency key stays true, and memory never runs away from disk
(Store); each started run ends once, with one final event, a final status and a
verdict (Store and drivers); a published verdict is always the one of the bundle on disk
(drivers); a client that follows a run prints its whole log, once (client);
a bundle that the validator accepts has what the sensors observed, and one of an
undisturbed run, every connection of which has a recorded end, is accepted (algorithms); evidence that reports no loss has none, and a
reservation is not given up before its workload is gone (backends).

## 2. Modules

| Module | Models | Notes |
|---|---|---|
| `TrackedLog` | `appender.go`: one log, its marker, its Appender | process exit and power loss, with what was synced |
| `TrackedLogProofs` | theorems about `TrackedLog` | |
| `RunLifecycle` | abstract: the recorded status and verdict of each run | implemented by `ControlPlane` |
| `RunFeed` | abstract: what HTTP clients see, status and log of each run, while the server comes and goes | implemented by `ControlPlane`; the environment of `FollowRun` |
| `ControlStore` | `server.go`, `persistence.go`: the Store with a persistence root | the driver is nondeterministic |
| `ControlStoreProofs` | theorems about `ControlStore` | |
| `ControlPlane` | the Store with the real drivers, bundle files, startup, shutdown | extends `ControlStore` |
| `ControlPlaneProofs` | theorems about `ControlPlane`, its refinements included | extends `ControlStoreProofs` |
| `Reservation` | abstract: the life of a backend reservation as a driver sees it | implemented by `CompatRun` and `GvisorRun`; it is what `ControlPlane` assumes of `proc` |
| `CompatRun` | `compat.go` with the threads of `compat_driver.go`, one run | |
| `CompatRunProofs` | theorems about `CompatRun` | |
| `GvisorRun` | `gvisor.go` with the threads of `gvisor_driver.go`, one run | |
| `GvisorRunProofs` | theorems about `GvisorRun` | |
| `FollowRun` | `followRun` of `cmd/benchmark` and the requests of `pkg/client` | extends `RunFeed` |
| `FollowRunProofs` | theorems about `FollowRun` | |
| `SeccheckCapture` | the trace collector, `collectSeccheckLocked` and the SecCheck rules of `bundle.Validate` | one capture |
| `SeccheckCaptureProofs` | theorems about `SeccheckCapture` | |
| `EvidencePipeline` | `raw.go`, the normalizers, `assembler.go`, `verifier.go`, `bundle.Validate` | one run's records on their way into a bundle |
| `EvidencePipelineProofs` | theorems about `EvidencePipeline` | |
| `MC*` | symmetry and a client-only next-state relation | for TLC |

**Steps.** A method that runs under one mutex is one action, unless it has a
second durable effect or calls the driver in the middle. Then it is split there,
and `lock` in `ControlStore` records who holds the mutex and what comes next,
so that a crash can fall between the parts but no other method can. For
example `createDurableLocked` is `Create` (log directory), `CreatedPersisted`
(`state.json`), `DriverPrepare`; and `Complete` is `Completes` (append of
`run/finish`) and `CompletionPersisted`. `Seal` is one step with a crash of its
own: `CrashInSeal` falls between the creation of the marker and its write. A conflict, a validation error or a
missing run is an early return without an effect: a stuttering step, not an
action.

**Failures.** A write or sync that fails leaves nothing, a part or all of its
bytes; `writeState` renames a temporary file, so it leaves the old or the new
record. `persistErr`, the latch, is `latched`. `MaxFaults` bounds such failures. A
driver call refused because of its arguments or a canceled request is not a
fault and is not bounded. A process crash loses memory and keeps files
(`ControlStore`, `ControlPlane`); power loss, where unsynced bytes go or stay in
part, is modelled in `TrackedLog`, where the synced flags are. An exit inside `Append`
or `Seal` of `TrackedLog` is a failed call followed by an exit; in `ControlStore` a crash
that leaves a torn frame is a fault followed by a crash, and the one in `Seal`, which no
write has to fail for, is no fault.

**Names on disk in `TrackedLog`.** `Open` creates the file and syncs no directory.
`entry` says whether the name of the file is on disk; `Seal` syncs it with the marker's
name, and so does the Store whenever it writes `state.json` beside the log
(`StateWritten`). Until one of them has, a power loss can take the file with frames that
were synced into it and acknowledged (`PowerLostWithFile`, `vanished`), and
`AcknowledgedSurvives` excepts exactly that. In the Store the exception does not arise
for a run that got as far as its first `state.json`, since that comes before the first
event; a bare Appender has it until its `Seal`. That the directory itself, which `Open`
or the Store may have had to make, survives is assumed: nothing in the code syncs its
parent.

**What a start refuses.** `Loadable` and `BundleMatches` are what a start asks of each
run before it serves. Four things make it refuse the whole data directory although no
write has failed (`Refusable`): a creation cut short before `state.json`; a seal cut
short behind its empty marker, in a completion or in a recovery; an `UpdatedAt` before
`CreatedAt`, since both are wall clock times and the clock may have been set back
(`stamps`); and a published bundle or manifest over 64 MiB, a limit that startup has and
publishing has not (`size`). `RefusalsExplained` says that there is no fifth, and
`StartedRunsSettle` that nothing else, short of a failed write, keeps a started run from
its end. That the code refuses in the first case is also the finding of `plane_reload`;
the other three contradict the same sentence of the repository's README.

**Data.** A frame is its sequence number, its kind and whether it is whole; a
chain head is the sequence of frames it was computed over, so SHA-256 is taken
to be free of collisions, and a signature is taken to be valid for what was
signed. In `EvidencePipeline` the hash of a record is its source and place when it
was written, and a byte of a connection is its place in the stream. A bundle of `ControlPlane` is the log it carries, the head it signs and the verdict it
stores. Run IDs are random and so never repeat: a set from which each is
taken once. Event contents, specs, HTTP and JSON are left out.

**Correspondence of variables.** `catalog[r]` is the Store's in-memory record
(run, evidence, idempotency), `saved[r]` its `state.json`, `events`/`sealed` the
open Appender, `file`/`marker` its files, `dirs` the run directories, `stamps` the order
of the times in `state.json`, `size` that of a bundle against the limit of a start,
`proc[r]` the backend reservation, `comp[r]` the program counter of the
goroutine `complete`, `manifest`/`bundle` the published files. `told` is a
history variable: answers given under idempotency keys.

**Two abstractions of one plane.** `RunLifecycle` is what the catalog records, for
whoever reads it after a restart. `RunFeed` is what a client can be told: nothing
while the server is down, then a terminal status for every run it had, and a log
that only grows. A crash can bring to light one event whose append was never
acknowledged, since `Append` and `Export` work on the same file (the comment at
`appender.go:202` promises acknowledged bytes only; after a failed append the
bytes are in the file and in the export). `ControlPlane` implements `RunFeed`, and
`FollowRun` is checked against `RunFeed`, so that its properties hold of a client
of the real plane: the two compose without the product of their states.

## 3. Runs

| Run | Instance | Checks |
|---|---|---|
| `tracked_log` | 2 payloads, 3 frames, unlimited failures, exits, power losses | the inductive invariant, durability of what was acknowledged (but for a file whose name was never synced) and sealed, no spurious refusal to open |
| `store_clients` | 2 runs, 1 key, 1 fault, 1 crash | idempotent answers agree, one `run/finish`, catalog equals disk unless latched, nothing changes under the latch |
| `plane` | a compat or a gVisor run, no keys, 2 frames before the end, 1 fault, 1 crash, fair | reservations recorded first, finish is last, published bundle matches, restarts without a failed write refused only for one of four causes; `RunLifecycle` and `RunFeed`; a run that started settles, or what failed explains why not |
| `follow` | 1 run, 3 frames, `--from-seq` 0, 1 or 5, any number of restarts, kills and resumed calls | what is printed is the log; success means all of it; a call ends |
| `compat_run` | 2 chunks of output, 2 faults, deadlines that may pass | evidence without reported loss is complete; nothing runs in a destroyed run; `Reservation`; the goroutine ends |
| `seccheck` | 4 packets, 2 failures of collector, connection, copies or appends | a drained capture accounts for every packet; what is kept is accepted; the wait ends |
| `evidence` | 2 streams (one datagram), 4 records of all sensors, numbers of 3 bits, 2 disturbances | accepted bundles are faithful; undisturbed ones are accepted exactly when each connection's end was recorded; the coverage walk is exact |
| `gvisor_run` | 1 periodic sample, 2 failed commands or writes, a drained or an overtaking shutdown | reported health stays true; resources are released or owned; a published verdict hides no container, unless the Store has latched; cleanup follows collection; `Reservation`; the goroutine ends |

Runs that show a disagreement between what the repository says and does:

| Run | Statement | What happens |
|---|---|---|
| `tracked_log_seal` | `appender.go:241` "durably records" | a retried Seal finds an unsynced marker and reports success |
| `plane_reload` | `README.md:104` "Interrupted runs reload explicitly as failed" | a crash inside create makes every later start refuse the whole data directory |
| `plane_export` | `server.go:583` "exact published evidence bundle bytes" | a bundle written but never published is exported under an `interrupted` verdict |
| `compat_shutdown` | `compat_driver.go:445` "destroys prepared workloads" | when the first raw record of a started process cannot be written nobody reaps it, and a Shutdown without a deadline never returns |

**Why the bounds are enough to see something.** One crash can fall in any step
of a run or of its recovery, and one fault in any write, in either order; with
`Crash` and `Exit` both leading to a restart, each run sees at least two
processes, and three when the shutdown is orderly. Two frames before the end are
what it takes to have a `run/start` and a normalized event, or a late event,
around a `run/finish`. In `tracked_log` failures are not bounded at all. Two
faults in `compat_run` cover a failed record followed by a failed exit or
health record. In `gvisor_run` two failed commands are a failed start with a failed
cleanup, or a partial Destroy that fails again. `MaxRuns` = 1 with two IDs in `plane` lets TLC choose the
backend. Interaction between runs, and requests with keys, are in
`store_clients`; one crash is what a seal cut short takes. In `seccheck` 4 packets are a start, a packet that is kept, one that is lost and one that
reports it, in every order, and two failures are a dead collector with a failed copy.
In `evidence` numbers of 3 bits put the largest one, where a width could wrap, in reach of
a misread range; two disturbances can hide each other, as a lost record with a lost event.
Four records are two chunks of plaintext, the last of which may be a mere end, with the
flow and a record of another sensor, or an empty end with its flow on each of two streams.

**Fairness.** `ControlPlane`: strong fairness of each goroutine, since its steps
wait for `Store.mu`, and Go's mutex hands itself over to a waiter that has waited
for a millisecond; weak fairness of whoever holds the lock, of recovery, of
startup after an end (the operator restarts the process), of a shutdown under way and of the exit of a
killed workload. No request of a client is fair. `CompatRun`:
weak fairness of every thread that has been started, of a killed process ending
and of its descendants closing the output pipes. The last one the code does not
enforce (`cmd.Wait` has no `WaitDelay`): with a descendant that stays, the run
stays `stopping`, which is why `GoroutineEnds` is stated with that assumption.
`GvisorRun`: weak fairness of every thread that has been started; the commands it
issues are taken to end (those of `Destroy` in the goroutine have no timeout), and
nothing makes the container exit: `GoroutineEnds` starts when it has.

`FollowRun`: weak fairness of the client's own steps and of its timeout; nothing is
asked of server, run or user, and `FollowEnds` promises an end only to a call with a
timeout or on a run that has ended. `SeccheckCapture`: weak fairness of the backend's steps, which
hold `run.mu` on a context of their own, and of the deadline; nothing of sandbox and
collector. `EvidencePipeline` has no liveness: it is a chain of functions.

**A panic in `CompatRun`.** When `Shutdown` calls `Stop` for a run that an `Abort` has
marked destroyed and not yet removed, `Stop` reads the process of a command that was
never made (`compat.go:309`) and the program ends. `ShutdownPanics` is that step; what
is claimed of a run is claimed up to it.

**Losses in `SeccheckCapture`.** A sandbox reports its drops in the header of its
next packet, so drops after the last one are known to nobody; that is the exception in
`DrainedAccountsForAll`. Packets that do not fit are counted only once a capture
is open; when the first one, `container/start`, is lost there is no capture, and the
source ends degraded by its deadline. A record that cannot be appended leaves the
frames as `seccheck.partial`, and `Validate` wants the records to be a
prefix of them: when the lost record is not the last one, the bundle is refused and the run
ends with `verification_error`. That is what `CollectedIsAccepted` excepts. Renames
inside the run's own evidence directory are taken not to fail. When no `.done` comes the
file of frames is kept as `seccheck.partial` whatever it holds, a torn first frame too.

**Ends of connections in `EvidencePipeline`.** A sensor records a byte, a byte with the end
of its stream, or the end alone, the empty chunk that `Assembler.Add` takes
(`assembler.go:77`); each may be the first chunk of its connection (`Transfers`). A
connection may also close with no chunk to say so, after some bytes or none
(`Vanishes`, `unended`). `ReconcileFlows` refuses an allowed flow whose stream has not
ended and one that has no stream at all, so `HonestIsAccepted` is an equivalence: an
undisturbed bundle is accepted exactly when every connection's end was recorded.

**Disturbances in `EvidencePipeline`.** `Misses` is a sensor's loss. The others stand
for whatever `Validate` is there to notice between sensor and bundle: an
element lost, repeated or swapped, a number or range that comes out wrong. Each
leaves hashes as they were. `NormalizeMock` is called by tests only, but `Validate` accepts its bundles,
and only they carry flows and plaintext; a `compat-local-process` run has output
only, and a gVisor run raw records without events.

**Resources in `GvisorRun`.** `world` is what exists, `owned` what the flags
`networkCreated`, `proxyCreated`, `containerCreated`, `workspaceExists` and
`proxyDirExists` say. A create command that reports a failure may have created the
thing all the same (its context ended, the container could not be started);
for the container `abortStartLocked` removes it by name, for the network and the
gateway nothing does, which is what `stray` records and `ResourcesAreOwned` allows.
A stray gateway keeps its network from being removed, and every Destroy fails.
A Destroy that fails after the verdict was published makes the driver overwrite it, and
`record` ignores whether the Store could: with a Store that has latched, or latches on
that write, the published verdict stays and the container with it (`Recorded`,
`StoreLatches`). `PublishedIsCleanedUp` excepts a latched Store and nothing else.
`drained` tells whether the HTTP server had finished its requests when Shutdown
came; when it had not, a start that Destroy overtakes loses its container before
collection, and the evidence says so (`CleanupFollowsCollection`).
The compat driver has no such window: its Shutdown stops a prepared run before it
destroys it, and a stopped run does not start. `Abort` of either driver is `Aborts`.

**Abstractions a reader should know.** `ControlPlane` lets Shutdown destroy only
what has never been started; the narrow race in which a request still in flight
after the drain timeout starts a run that Shutdown then destroys is in `CompatRun` and `GvisorRun`.
A second Shutdown, deferred in `main.go`, is a repeated `ShutdownStops`.
Recovery visits runs in any order (map iteration). `WaitFails` does not occur in
`ControlPlane`: the goroutine's context is never canceled.

## 4. Proofs

`TrackedLogProofs` proves, for any set of payloads and any `MaxFrames`:

* `Typing`: `Spec => []TypeOK`
* `Invariance`: `Spec => []IInv`
* `Durability`: `Spec => []AcknowledgedSurvives`
* `SealDurability`: `Spec => []SealSurvives`
* `SealIsFinal`: `Spec => SealedFileIsFinal`
* `CleanReopening`: `Spec => []CleanLogReopens`

`AcknowledgedSurvives` speaks of a live Appender only and is not inductive: after
an exit the next Appender is built from the file, so the invariant must say what
is on disk. `IInv` adds that acknowledged frames are in the synced part of the file
unless a torn or misplaced frame under the synced mark makes the file unreadable for
good, or a power loss took the file before its name was synced (`AcknowledgedOnDisk`,
`Broken`, `vanished`), that memory is the readable start of the file
(`MemoryAgrees`), that a marker Seal wrote binds file and memory (`SealBinds`), and
that without any failure file, synced mark and memory agree exactly
(`CleanLogAgrees`). There is one lemma per conjunct, in each one step per
action. The only assumption is `MaxFrames \in Nat`.

`ControlStoreProofs` proves, for any set of runs and keys, any bounds and a driver that
answers as it likes:

* `Types`: `Spec => []TypeOK`
* `OneEnd`: `Spec => []OneFinish`
* `Reload`: `Spec => []CatalogIsSaved`
* `SameAnswer`: `Spec => []AnswersAgree`
* `Frozen`: `Spec => LatchedCatalogIsFrozen`

None is inductive, because a method is several steps. `StoreInv` says where each step
finds the Store: in which status the holder of the mutex has left its run (`LockInv`);
that catalog and `state.json` differ only in a run whose write is its next step
(`SavedInv`); that a readable log file is the acknowledged events, or these and one
frame that a failed append has left, and that nothing that can still end has an end in
memory (`LogInv`, without which recovery could append a second one); and that an answer
given is on record and not the one that the method under way will give (`ToldInv`). The
assumptions are that the bounds are numbers and that the missing key is not a key.
Most of the lemmas say what one action does to one conjunct.

`ControlPlaneProofs` proves, for any set of runs of which any are gVisor runs:

* `PlaneTypes`: `PlaneSpec => []PlaneTypeOK`
* `Reservations`: `PlaneSpec => []ReservationRecorded`
* `LastFinish`: `PlaneSpec => []FinishIsLast`
* `PublishedOnDisk`: `PlaneSpec => []PublishedBundleMatches`
* `Refusals`: `PlaneSpec => []RefusalsExplained`
* `RefinesLifecycle`: `PlaneSpec => ImplementsLifecycle`
* `RefinesFeed`: `PlaneSpec => ImplementsFeed`

`PlaneSpec` has no fairness, so what holds of it holds of the `FairSpec` that the runs
check. A step of the process is a step of the Store or leaves it alone
(`StoreStepOfPlane`), which gives `StoreInv` at once. `PlaneInv` adds for each run
`RunInv`, which ties the program counter of its goroutine to the catalog, to the log and
to the files: what its verdict may be (`RecordInv`, `GoroutineInv`); how `state.json`
lags while the mutex is held (`LagInv`); that a log which somebody can still end has no
end in its file either, and which frame a failed append can have left in which status
(`FrameInv`); that a sealed log is sealed over the acknowledged events (`MarkerInv`);
that whatever is on record as published has its log, manifest, bundle and marker on
disk, and that the goroutine carries the right bundle from the write to the record
(`BundleInv`); and that before the first fault nothing is torn but the marker of a seal
that the process died in (`CleanInv`), which with the order of times and the size of
bundles, of which nothing is claimed, leaves the four causes of `Refusals`
(`RefusesRun`, `Rejected`). There is one lemma per action,
which proves the conjuncts of `RunInv` for its run and that it is `Local`, and one,
`Elsewhere`, that a local step disturbs no other run. The refinement of `RunLifecycle`
takes one lemma per kind of write to `state.json`. For `RunFeed` a step of the mapped
variables is one of a few moves (`FeedMove`); a crash and a failed append, where the
frame on disk and the one acknowledged differ, are what `Leftover` is for, and that
recovery finds a record for each directory (`LoadedInv`) is what lets the server tell
every client an end. TLC checked `PlaneInv` and `LoadedInv` on the instance of `plane`
before they were proved.

`CompatRunProofs` proves, for any number of chunks and faults and either deadline:

* `Typing`: `Spec => []TypeOK`
* `CompleteEvidence`: `Spec => []EvidenceIsComplete`
* `NothingOutlivesDestroy`: `Spec => []DestroyedHasEnded`
* `Refinement`: `Spec => ImplementsReservation`

`CompatInv` says that `run.done` is closed only over a process that was reaped
(`DoneIsFinal`), that every thread which removes or marks a run has seen it end, or
found it never started (`RequestsAreOrdered`, `DestroyedIsOver`), and what records and
raw file hold at each step as long as nothing was lost (`EvidenceSoFar`); complete
evidence is that at the moment it is reported.

`GvisorRunProofs` proves, for any number of samples and faults:

* `Typing`: `Spec => []TypeOK`
* `Ownership`: `Spec => []ResourcesAreOwned`
* `Cleanup`: `Spec => []PublishedIsCleanedUp`
* `FinalHealth`: `Spec => []HealthIsFinal`
* `CollectedFirst`: `Spec => []CleanupFollowsCollection`
* `Refinement`: `Spec => ImplementsReservation`

`Cleanup` is about a Store that has not latched. `Ownership` and `Cleanup` come from `OwnershipInv`, from no assumption: that `destroy`
answered "ok" must go on meaning that nothing is left. It says so through the
registration and not through the state, because a reaper that comes late may overwrite
`destroyed` with `exited` (`DelistedIsEmpty`, `DestroyIsTrue`), and adds that nobody has
hold of a run before the driver enters it (`PreparedIsUntouched`), which is what lets the
Destroy of a refused entry keep its books. The others come from `GvisorInv`, which
follows reaper, sampler and goroutine: once `done` is closed the threads that record are
over, so what is reported then is final; a container is removed before collection only
by a Shutdown that did not wait for the requests.

`SeccheckCaptureProofs` proves, for any number of packets and failures:

* `NoSilentHole`: `Spec => []DrainedAccountsForAll`
* `KeptIsAccepted`: `Spec => []CollectedIsAccepted`

The first is a sum over packets of which most are gone. `CaptureInv` has it without a
sum: a packet in the socket has the number of those received, those dropped before it
and its place (`SocketNumbered`), so that the header of the last frame and the two
counters of the collector give the total (`CaptureCounts`). The second says at each step
of the collection which copies exist and that records and rest make up the frames
(`CopiesInOrder`).

`FollowRunProofs` proves, for any set of runs, any log bound and any set of first
`--from-seq`, from the assumptions that the followed run is one of them and that
`--from-seq` is a number:

* `PrintsTheLog`: `FollowSpec => []PrintedIsFeed`
* `Success`: `FollowSpec => []SuccessIsWhole`

Both rest on what the server does to a log (`ServerStep`): it is numbered from 1, it
only grows, and once its run has ended (`Settled`) it grows only if it is empty. The
client's invariant then says what the response it holds has to do with the log while
server steps come in between: a gapless piece of it that begins no later than where
printing goes on (`ResponseInv`), which takes the client to the end when it was asked
for after a terminal status (`LastIsWhole`). A server that is ruined has no log any more; what was
printed before is then compared with nothing, but still no call finds a gap.
That the real plane is such a server is the theorem `RefinesFeed`, so the two
theorems hold of a client of the real plane.

`EvidencePipelineProofs` proves, for any streams, any number of records and faults and
any width of a sequence number that has room for the records:

* `PipelineTypes`: `Spec => []Types`
* `ExactCoverage`: `Spec => []CoverageIsExact`
* `AcceptedFaithfully`: `Spec => []AcceptedIsFaithful`
* `HonestRunsPass`: `Spec => []HonestIsAccepted`

These are about algorithms: a sort, a grouping, a walk that consumes numbers and an
assembler that folds over a log. The module states them without recursion where it can:
the k-th element of a sorted list is the one with k elements up to it (`Place`), from which
`Places` derives that a sort is an ordered permutation and `PickFacts` that a selection is
an order-preserving enumeration. The walk and the assembler are recursive functions
(`Consumed`, `Assembly`); that such a function satisfies its equation is `Iteration`, and
what holds along it is `Upwards`, an induction obtained from the smallest
counterexample (`Least`). `ExactCoverage` rests on `Coverage`, a statement about any two
lists: the walk ends at the last number, with no width that wraps, exactly when ranges
and numbers partition each other (`WalkedIsPartitioned`, `PartitionedIsWalked`). It
needs no invariant but the types. `AcceptedFaithfully` compares what the validator
computes with history, so its invariant says what history is: each sensor's records
are a chain (`Chained`), the manifest's heads are the chains' lengths (`Finalized`), and
the flows the boundary has written agree with what passed (`Accounted`). A verdict
then follows from its definition: a head that fits leaves only the sensor's own chain
(`AcceptedChains`), exact coverage one event for each record (`AcceptedReferences`), and
the reconciled flows the bytes of each stream (`AcceptedStreams`). `HonestRunsPass` is the
converse, and needs that an undisturbed bundle is what passed: the records of each
source are its chain and their plaintext, put together, is what the streams carried
(`Intact`), and the log is one event for each record between two marks (`Bundled`); a
recorded end is what `ReconcileFlows` waits for, and its absence what it refuses
(`Judged`). TLC checked these invariants on small instances before they were proved.

Model-checked only: liveness (`StartedRunsSettle`, `EndedRunsAreExplained`, `FollowEnds`,
`CollectionEnds`, `GoroutineEnds` of both backends), which is out of the prover's reach
as ENABLED is.

## 5. Not modelled

* The in-memory mode of the Store, HTTP handlers, JSON, flag parsing: the durable
  mode makes the same transitions, and the rest is wording.
* Spec, event and contract field validation (`pkg/events`, `pkg/backend`,
  `llmnormalizer`, `openaivalidator`): checks of single values that keep no state.
* `profile`, `replay`, `projection`: pure functions that no run of the control plane
  depends on; no event it writes has a surface operation, and no backend it has offers
  the verified profile.
* Frame encoding, SHA-256, Merkle root and Ed25519: external, see *Data*.
* The signing key file (`cmd/controlplane/key.go`): one file made once. A process that
  dies between its creation and its content leaves a key that every later start refuses.
* The packet captures and artifact collectors of the gVisor backend other than SecCheck: in
  `GvisorRun` they are records and counted losses.
* `Snapshot` of either backend, which nothing in the control plane calls; the web
  interface, schemas, scripts and deployment.

## 6. Plan

1. (done) `TrackedLog`, `TrackedLogProofs`.
2. (done) `RunLifecycle`, `ControlStore`, `ControlPlane` and their runs.
3. (done) `Reservation`, `CompatRun`, `CompatRunProofs`.
4. (done) `GvisorRun`, `GvisorRunProofs`.
5. (done) `RunFeed`, `FollowRun`, `FollowRunProofs`; `SeccheckCapture`; `EvidencePipeline`.
6. (done) `ControlStoreProofs`, `ControlPlaneProofs`, `CompatRunProofs`,
   `SeccheckCaptureProofs`, `EvidencePipelineProofs`; the refinements.
7. Packet captures with their drain deadline, beside SecCheck.
