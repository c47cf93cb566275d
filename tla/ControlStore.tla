---------------------------- MODULE ControlStore ----------------------------
(***************************************************************************)
(* The durable run catalog of the control plane: api.Store with a          *)
(* persistence root (internal/api/server.go, internal/api/persistence.go). *)
(*                                                                         *)
(* Every method runs under one mutex, but the process can die between any  *)
(* two of its durable effects and the execution driver is called in the    *)
(* middle of some of them.  A method is therefore split where it has a     *)
(* second durable effect or calls the driver: `lock' says which method     *)
(* holds the mutex and what it does next, and no other method runs before  *)
(* it has done so.                                                         *)
(*                                                                         *)
(* Each run has a directory with the event log (an Appender, see module    *)
(* TrackedLog), its seal marker and state.json, which is replaced by a     *)
(* rename and so holds the old or the new record, never a mixture.  Only   *)
(* the process dies here; TrackedLog has the power losses.                 *)
(*                                                                         *)
(* The driver is any caller of Complete, AppendEvent, SealRun and          *)
(* SetEvidenceVerification; module ControlPlane has the real one.          *)
(***************************************************************************)
EXTENDS Integers, Sequences, FiniteSets

CONSTANTS
  Runs,       \* run IDs, each generated once
  Keys,       \* idempotency keys of create requests
  None,       \* no run, no key
  MaxRuns,    \* bound on the runs created
  MaxEvents,  \* bound on the frames of a log that AppendEvent still adds to
  MaxFaults,  \* bound on failed writes and syncs
  MaxCrashes  \* bound on process crashes

ASSUME NoneAssumption == None \notin Keys \cup Runs
ASSUME BoundsAssumption ==
  MaxRuns \in Nat /\ MaxEvents \in Nat /\ MaxFaults \in Nat /\ MaxCrashes \in Nat

VARIABLES
  process,  \* "down", "recovering" (OpenStore), "up", "draining", "closed", "refused"
  lock,     \* the step the holder of Store.mu takes next, its run, and how it was asked
  latched,  \* Store.persistErr is set: "yes" or "no"
  catalog,  \* Store.runs, evidence and idempotency, per run
  events,   \* the acknowledged frames of the run's open Appender
  sealed,   \* the Appender knows of a seal: "yes" or "no"
  dirs,     \* the runs that have a directory with an event log
  saved,    \* the run's state.json; status "none" when there is none
  stamps,   \* its times: "ordered", or "reversed" if UpdatedAt is before CreatedAt
  file,     \* the frames in the run's log file
  marker,   \* the run's seal marker
  told,     \* history: the recorded answers given to requests with an idempotency key
  faults, crashes   \* history: how many there have been

memory == <<process, lock, latched, catalog, events, sealed>>
storage == <<dirs, saved, stamps, file, marker>>
logs == <<events, sealed, file, marker>>
vars == <<memory, storage, told, faults, crashes>>

Terminal == {"stopped", "completed", "failed"}
Statuses == {"created", "running", "stopping"} \cup Terminal
Verdicts == {"none", "ineligible", "interrupted", "verification_error"}
Answers == {"none", "ok", "failure"}
Requests == {"create", "start", "stop"}

\* A frame is a run/start, a normalized event, or a run/finish with its status.
Frame == [seq : Nat \ {0}, what : {"start", "event"} \cup Terminal, form : {"whole", "torn"}]
Marker == [is : {"absent", "partial", "whole"}, head : Seq(Frame)]
Verdict == [is : Verdicts, over : Seq(Frame)]
Entry == [status : {"none"} \cup Statuses, verdict : Verdict, key : Keys \cup {None},
          answers : [Requests -> Answers]]
Lock ==
  [at : {"free", "persistCreated", "prepare", "persistStarted", "dispatchStart",
         "persistUndispatched", "dispatchStop", "persistCompletion",
         "recoverSeal", "recoverPersist"},
   run : Runs \cup {None}, keyed : {"yes", "no"}]
Told == [request : Requests, subject : Runs \cup Keys, run : Runs, is : {"ok", "failure"}]

NoVerdict == [is |-> "none", over |-> <<>>]
Flat(v) == [is |-> v, over |-> <<>>]
Absent == [status |-> "none", verdict |-> NoVerdict, key |-> None,
           answers |-> [q \in Requests |-> "none"]]
NoMarker == [is |-> "absent", head |-> <<>>]

TypeOK ==
  /\ process \in {"down", "recovering", "up", "draining", "closed", "refused"}
  /\ lock \in Lock
  /\ latched \in {"yes", "no"}
  /\ catalog \in [Runs -> Entry] /\ saved \in [Runs -> Entry]
  /\ events \in [Runs -> Seq(Frame)] /\ file \in [Runs -> Seq(Frame)]
  /\ sealed \in [Runs -> {"yes", "no"}]
  /\ dirs \in SUBSET Runs
  /\ stamps \in [Runs -> {"ordered", "reversed"}]
  /\ marker \in [Runs -> Marker]
  /\ told \in SUBSET Told
  /\ faults \in Nat /\ crashes \in Nat

Unlocked == [at |-> "free", run |-> None, keyed |-> "no"]
Free == lock.at = "free"
Held(step, r) == lock.at = step /\ lock.run = r
Unlock == lock' = Unlocked
Continue(step) == lock' = [lock EXCEPT !.at = step]
Take(step, r, keyed) == lock' = [at |-> step, run |-> r, keyed |-> keyed]

\* The process runs and its Appenders are open, or at least not yet gone.
Alive == process \in {"up", "draining", "closed"}
\* A bug that would let clients go on after a failed write of state.json.
ServingLatched == process = "up" /\ Free

\* A client call: the server accepts it and no earlier write has latched the store.
Serving == process = "up" /\ Free /\ latched = "no"

Fault == faults < MaxFaults /\ faults' = faults + 1

Finishes(f) == f.what \in Terminal
Finished(log) == \E i \in 1 .. Len(log) : Finishes(log[i])
ValidFrames(log) == \A i \in 1 .. Len(log) : log[i].form = "whole" /\ log[i].seq = i

-----------------------------------------------------------------------------
(* state.json *)

\* A bug that would leave the idempotency records out of state.json.
StateWithoutIdempotency(e) == [e EXCEPT !.key = None, !.answers = Absent.answers]

\* What writeState puts into state.json for an entry.
State(e) == e

\* UpdatedAt is the wall clock's time of the last change of status, and the clock may
\* have been set back since CreatedAt; a verdict of the driver leaves it as it is.
Stamped(r, e) ==
  IF e.status \in {"created", saved[r].status} /\ e.verdict.is # "interrupted"
  THEN UNCHANGED stamps
  ELSE \E order \in {"ordered", "reversed"} : stamps' = [stamps EXCEPT ![r] = order]

\* persistLocked succeeds.
PersistOk(r, e) ==
  /\ saved' = [saved EXCEPT ![r] = State(e)]
  /\ Stamped(r, e)
  /\ UNCHANGED <<latched, faults>>

\* persistLocked fails, before or after the rename, and latches the store.
PersistFails(r, e) ==
  /\ Fault
  /\ saved' \in {saved, [saved EXCEPT ![r] = State(e)]}
  /\ IF saved' = saved THEN UNCHANGED stamps ELSE Stamped(r, e)
  /\ latched' = "yes"

-----------------------------------------------------------------------------
(* The event log, as the Store uses it *)

\* A bug that would let a new frame reuse the last sequence number.
FrameReusingSeq(r, what) == [seq |-> Len(events[r]), what |-> what, form |-> "whole"]

NewFrame(r, what) == [seq |-> Len(events[r]) + 1, what |-> what, form |-> "whole"]

Appendable(r) == process # "closed" /\ sealed[r] = "no"

AppendOk(r, what) ==
  /\ Appendable(r)
  /\ events' = [events EXCEPT ![r] = Append(@, NewFrame(r, what))]
  /\ file' = [file EXCEPT ![r] = Append(@, NewFrame(r, what))]
  /\ UNCHANGED <<sealed, marker, dirs, faults>>

\* The Appender is sealed or closed; or its write or sync fails with none, a
\* part or all of the frame in the file.
AppendError(r, what) ==
  /\ \/ ~Appendable(r) /\ UNCHANGED <<file, faults>>
     \/ /\ Appendable(r)
        /\ Fault
        /\ LET f == NewFrame(r, what)
           IN \E left \in {<<>>, <<[f EXCEPT !.form = "torn"]>>, <<f>>} :
                file' = [file EXCEPT ![r] = @ \o left]
  /\ UNCHANGED <<events, sealed, marker, dirs>>

\* Appender.Seal: the marker is new, or holds this very head already.
SealOk(r) ==
  /\ process # "closed"
  /\ \/ sealed[r] = "yes" /\ UNCHANGED marker
     \/ /\ sealed[r] = "no"
        /\ marker[r].is = "absent" \/ marker[r] = [is |-> "whole", head |-> events[r]]
        /\ marker' = [marker EXCEPT ![r] = [is |-> "whole", head |-> events[r]]]
  /\ sealed' = [sealed EXCEPT ![r] = "yes"]
  /\ UNCHANGED <<events, file, dirs, faults>>

\* The Appender is closed; a marker is there that holds something else; or a
\* write or sync fails, with the marker absent, partial or whole.
SealError(r) ==
  /\ \/ process = "closed" /\ UNCHANGED <<marker, faults>>
     \/ /\ process # "closed" /\ sealed[r] = "no"
        /\ marker[r].is # "absent" /\ marker[r] # [is |-> "whole", head |-> events[r]]
        /\ UNCHANGED <<marker, faults>>
     \/ /\ process # "closed" /\ sealed[r] = "no" /\ Fault
        /\ \/ UNCHANGED marker
           \/ /\ marker[r].is = "absent"
              /\ \E m \in {[is |-> "partial", head |-> <<>>],
                           [is |-> "whole", head |-> events[r]]} :
                   marker' = [marker EXCEPT ![r] = m]
  /\ UNCHANGED <<events, sealed, file, dirs>>

-----------------------------------------------------------------------------
(* Idempotency *)

Tell(q, subject, r, answer) ==
  told' = told \cup {[request |-> q, subject |-> subject, run |-> r, is |-> answer]}

\* The answer to a request that was keyed is given; one that was not is not recorded.
TellIfKeyed(q, r, answer) ==
  IF lock.keyed = "yes"
  THEN Tell(q, IF q = "create" THEN catalog[r].key ELSE r, r, answer)
  ELSE UNCHANGED told

\* The entry with the recorded answer to request q.
Recorded(e, q, keyed, answer) ==
  IF keyed = "yes" THEN [e EXCEPT !.answers[q] = answer] ELSE e

\* A request whose key has a recorded answer gets that answer.
Replay(q, r) ==
  /\ Serving
  /\ catalog[r].answers[q] # "none"
  /\ Tell(q, IF q = "create" THEN catalog[r].key ELSE r, r, catalog[r].answers[q])
  /\ UNCHANGED <<memory, storage, faults, crashes>>

-----------------------------------------------------------------------------
(* Create: createContext and createDurableLocked *)

\* The generated run ID is new.
NewRun(r) == r \notin dirs /\ Cardinality(dirs) < MaxRuns
KeyUnused(k) == k = None \/ \A r \in Runs : catalog[r].key # k

\* A bug that would prepare the run before it is recorded.
CreatePreparesFirst(r, k) ==
  /\ Serving /\ KeyUnused(k)
  /\ NewRun(r)
  /\ dirs' = dirs \cup {r}
  /\ catalog' = [catalog EXCEPT ![r] =
       [Absent EXCEPT !.status = "created", !.key = k,
                      !.answers["create"] = IF k = None THEN "none" ELSE "ok"]]
  /\ Take("prepare", r, IF k = None THEN "no" ELSE "yes")
  /\ UNCHANGED <<process, latched, logs, saved, stamps, told, faults, crashes>>

\* The log is created and the run entered in memory; state.json comes next.
Create(r, k) ==
  /\ Serving /\ KeyUnused(k)
  /\ NewRun(r)
  /\ dirs' = dirs \cup {r}
  /\ catalog' = [catalog EXCEPT ![r] =
       [Absent EXCEPT !.status = "created", !.key = k,
                      !.answers["create"] = IF k = None THEN "none" ELSE "ok"]]
  /\ Take("persistCreated", r, IF k = None THEN "no" ELSE "yes")
  /\ UNCHANGED <<process, latched, logs, saved, stamps, told, faults, crashes>>

\* Creating the log fails; its directory may be there.
CreateFails(r) ==
  /\ Serving
  /\ NewRun(r)
  /\ Fault
  /\ dirs' \in {dirs, dirs \cup {r}}
  /\ UNCHANGED <<memory, saved, stamps, file, marker, told, crashes>>

CreatedPersisted(r) ==
  /\ Held("persistCreated", r)
  /\ PersistOk(r, catalog[r])
  /\ Continue("prepare")
  /\ UNCHANGED <<process, catalog, logs, dirs, told, crashes>>

CreatedUnpersisted(r) ==
  /\ Held("persistCreated", r)
  /\ PersistFails(r, catalog[r])
  /\ Unlock
  /\ UNCHANGED <<process, catalog, logs, dirs, told, crashes>>

\* driver.Prepare succeeds.
Prepared(r) ==
  /\ Held("prepare", r)
  /\ TellIfKeyed("create", r, "ok")
  /\ Unlock
  /\ UNCHANGED <<process, latched, catalog, logs, dirs, saved, stamps, faults, crashes>>

\* driver.Prepare fails: the run is failed and its failure recorded.
Unprepared(r) ==
  LET e == Recorded([catalog[r] EXCEPT !.status = "failed",
                                       !.verdict = Flat("verification_error")],
                    "create", lock.keyed, "failure")
  IN /\ Held("prepare", r)
     /\ catalog' = [catalog EXCEPT ![r] = e]
     /\ \/ PersistOk(r, e) /\ TellIfKeyed("create", r, "failure")
        \/ PersistFails(r, e) /\ UNCHANGED told
     /\ Unlock
     /\ UNCHANGED <<process, logs, dirs, crashes>>

-----------------------------------------------------------------------------
(* Start and stop: mutateContext and finishMutationLocked *)

Unanswered(r, q, keyed) == keyed = "no" \/ catalog[r].answers[q] = "none"

\* run/start is appended and the run is running before the driver is asked.
Start(r, keyed) ==
  /\ Serving /\ Unanswered(r, "start", keyed)
  /\ catalog[r].status = "created"
  /\ AppendOk(r, "start")
  /\ catalog' = [catalog EXCEPT ![r] =
       Recorded([@ EXCEPT !.status = "running"], "start", keyed, "ok")]
  /\ Take("persistStarted", r, keyed)
  /\ UNCHANGED <<process, latched, saved, stamps, told, crashes>>

\* run/start cannot be appended: nothing else happens.
StartFails(r) ==
  /\ Serving
  /\ catalog[r].status = "created"
  /\ AppendError(r, "start")
  /\ UNCHANGED <<process, lock, latched, catalog, saved, stamps, told, crashes>>

StartPersisted(r) ==
  /\ Held("persistStarted", r)
  /\ PersistOk(r, catalog[r])
  /\ Continue("dispatchStart")
  /\ UNCHANGED <<process, catalog, logs, dirs, told, crashes>>

StartUnpersisted(r) ==
  /\ Held("persistStarted", r)
  /\ PersistFails(r, catalog[r])
  /\ Unlock
  /\ UNCHANGED <<process, catalog, logs, dirs, told, crashes>>

\* driver.Start succeeds.
Dispatched(r) ==
  /\ Held("dispatchStart", r)
  /\ TellIfKeyed("start", r, "ok")
  /\ Unlock
  /\ UNCHANGED <<process, latched, catalog, logs, dirs, saved, stamps, faults, crashes>>

\* driver.Start fails: a run/finish is appended and the run is failed; when the
\* append fails too, the run stays running.
Undispatched(r) ==
  /\ Held("dispatchStart", r)
  /\ \/ /\ AppendOk(r, "failed")
        /\ catalog' = [catalog EXCEPT ![r] =
             Recorded([@ EXCEPT !.status = "failed"], "start", lock.keyed, "failure")]
        /\ Continue("persistUndispatched")
     \/ AppendError(r, "failed") /\ Unlock /\ UNCHANGED catalog
  /\ UNCHANGED <<process, latched, saved, stamps, told, crashes>>

\* A bug that would keep the failed start in memory only.
UndispatchedInMemory(r) ==
  /\ Held("persistUndispatched", r)
  /\ TellIfKeyed("start", r, "failure")
  /\ Unlock
  /\ UNCHANGED <<process, latched, catalog, logs, dirs, saved, stamps, faults, crashes>>

UndispatchedPersists(r) ==
  /\ Held("persistUndispatched", r)
  /\ \/ PersistOk(r, catalog[r]) /\ TellIfKeyed("start", r, "failure")
     \/ PersistFails(r, catalog[r]) /\ UNCHANGED told
  /\ Unlock
  /\ UNCHANGED <<process, catalog, logs, dirs, crashes>>

\* The run is stopping, durably, before the driver is asked.
Stop(r, keyed) ==
  LET e == Recorded([catalog[r] EXCEPT !.status = "stopping"], "stop", keyed, "ok")
  IN /\ Serving /\ Unanswered(r, "stop", keyed)
     /\ catalog[r].status = "running"
     /\ catalog' = [catalog EXCEPT ![r] = e]
     /\ \/ PersistOk(r, e) /\ Take("dispatchStop", r, keyed)
        \/ PersistFails(r, e) /\ UNCHANGED lock
     /\ UNCHANGED <<process, logs, dirs, told, crashes>>

\* driver.Stop succeeds.
StopDispatched(r) ==
  /\ Held("dispatchStop", r)
  /\ TellIfKeyed("stop", r, "ok")
  /\ Unlock
  /\ UNCHANGED <<process, latched, catalog, logs, dirs, saved, stamps, faults, crashes>>

\* driver.Stop fails: the run is running again.
StopUndispatched(r) ==
  LET e == Recorded([catalog[r] EXCEPT !.status = "running"], "stop", lock.keyed, "failure")
  IN /\ Held("dispatchStop", r)
     /\ catalog' = [catalog EXCEPT ![r] = e]
     /\ \/ PersistOk(r, e) /\ TellIfKeyed("stop", r, "failure")
        \/ PersistFails(r, e) /\ UNCHANGED told
     /\ Unlock
     /\ UNCHANGED <<process, logs, dirs, crashes>>

-----------------------------------------------------------------------------
(* What the driver calls *)

Calling == Alive /\ Free
Completable(r) == catalog[r].status \in {"running", "stopping"}

\* A bug that would record how a stopped workload ended.
FinalStatusAsExited(r, status) == status

\* Complete's status: a run that was being stopped has stopped, however it ended.
FinalStatus(r, status) == IF catalog[r].status = "stopping" THEN "stopped" ELSE status

\* Complete appends the run/finish of a running or stopping run.
Completes(r, status) ==
  /\ Calling /\ latched = "no"
  /\ Completable(r)
  /\ AppendOk(r, FinalStatus(r, status))
  /\ catalog' = [catalog EXCEPT ![r].status = FinalStatus(r, status)]
  /\ Take("persistCompletion", r, "no")
  /\ UNCHANGED <<process, latched, saved, stamps, told, crashes>>

\* Complete returns an error: the store is latched, or the append fails.
CompleteFails(r, status) ==
  /\ Calling
  /\ \/ latched = "yes" /\ UNCHANGED <<logs, dirs, faults>>
     \/ latched = "no" /\ Completable(r) /\ AppendError(r, FinalStatus(r, status))
  /\ UNCHANGED <<process, lock, latched, catalog, saved, stamps, told, crashes>>

CompletionPersisted(r) ==
  /\ Held("persistCompletion", r)
  /\ PersistOk(r, catalog[r])
  /\ Unlock
  /\ UNCHANGED <<process, catalog, logs, dirs, told, crashes>>

CompletionUnpersisted(r) ==
  /\ Held("persistCompletion", r)
  /\ PersistFails(r, catalog[r])
  /\ Unlock
  /\ UNCHANGED <<process, catalog, logs, dirs, told, crashes>>

\* AppendEvent: a normalized event, whatever the run's status.
AppendEvent(r) ==
  /\ Calling /\ latched = "no"
  /\ catalog[r].status # "none"
  /\ Len(events[r]) < MaxEvents
  /\ AppendOk(r, "event")
  /\ UNCHANGED <<process, lock, latched, catalog, saved, stamps, told, crashes>>

AppendEventFails(r) ==
  /\ Calling
  /\ \/ latched = "yes" /\ UNCHANGED <<logs, dirs, faults>>
     \/ /\ latched = "no"
        /\ catalog[r].status # "none"
        /\ Len(file[r]) < MaxEvents
        /\ AppendError(r, "event")
  /\ UNCHANGED <<process, lock, latched, catalog, saved, stamps, told, crashes>>

\* SealRun, of a terminal run; the latch is not looked at.
SealRun(r) ==
  /\ Calling
  /\ catalog[r].status \in Terminal
  /\ SealOk(r)
  /\ UNCHANGED <<process, lock, latched, catalog, saved, stamps, told, crashes>>

SealRunFails(r) ==
  /\ Calling
  /\ catalog[r].status \in Terminal
  /\ SealError(r)
  /\ UNCHANGED <<process, lock, latched, catalog, saved, stamps, told, crashes>>

\* SetEvidenceVerification, of any run the store has.
SetEvidenceVerification(r, verdict) ==
  LET e == [catalog[r] EXCEPT !.verdict = verdict]
  IN /\ Calling /\ latched = "no"
     /\ catalog[r].status # "none"
     /\ catalog' = [catalog EXCEPT ![r] = e]
     /\ PersistOk(r, e)
     /\ UNCHANGED <<process, lock, logs, dirs, told, crashes>>

SetEvidenceVerificationFails(r, verdict) ==
  LET e == [catalog[r] EXCEPT !.verdict = verdict]
  IN /\ Calling
     /\ \/ latched = "yes" /\ UNCHANGED <<catalog, saved, stamps, latched, faults>>
        \/ /\ latched = "no"
           /\ catalog[r].status # "none"
           /\ catalog' = [catalog EXCEPT ![r] = e]
           /\ PersistFails(r, e)
     /\ UNCHANGED <<process, lock, logs, dirs, told, crashes>>

-----------------------------------------------------------------------------
(* The process: OpenStore, recovery, shutdown, crash *)

\* What OpenStore asks of every directory under runs/ before it loads anything.
Loadable(r) ==
  /\ saved[r].status # "none"
  /\ stamps[r] = "ordered"
  /\ ValidFrames(file[r])
  /\ marker[r] = NoMarker \/ marker[r] = [is |-> "whole", head |-> file[r]]
KeysDistinct ==
  \A r, s \in dirs : saved[r].key = saved[s].key => r = s \/ saved[r].key = None

Stopped == process \in {"down", "refused"}

OpenStore ==
  /\ Stopped
  /\ \A r \in dirs : Loadable(r)
  /\ KeysDistinct
  /\ process' = "recovering"
  /\ catalog' = [r \in Runs |-> IF r \in dirs THEN saved[r] ELSE Absent]
  /\ events' = [r \in Runs |-> IF r \in dirs THEN file[r] ELSE <<>>]
  /\ sealed' = [r \in Runs |-> IF r \in dirs /\ marker[r] # NoMarker THEN "yes" ELSE "no"]
  /\ UNCHANGED <<lock, latched, storage, told, faults, crashes>>

OpenStoreRefuses ==
  /\ Stopped
  /\ ~((\A r \in dirs : Loadable(r)) /\ KeysDistinct)
  /\ process' = "refused"
  /\ UNCHANGED <<lock, latched, catalog, logs, dirs, saved, stamps, told, faults, crashes>>

MemoryLost ==
  /\ catalog' = [r \in Runs |-> Absent]
  /\ events' = [r \in Runs |-> <<>>]
  /\ sealed' = [r \in Runs |-> "no"]
  /\ Unlock
  /\ latched' = "no"

Recovering == process = "recovering" /\ Free

\* A bug that would take only created and running runs for interrupted.
InterruptedBeforeEnd(r) == catalog[r].status \in {"created", "running"}

\* The runs recoverPersistedRuns does not skip.
Interrupted(r) ==
  /\ catalog[r].status # "none"
  /\ ~(catalog[r].status \in Terminal /\ sealed[r] = "yes" /\ catalog[r].verdict.is # "none")

AsInterrupted(e) == [e EXCEPT !.status = "failed", !.verdict = Flat("interrupted")]

\* A bug that would append a run/finish without looking for one.
RecoverFinishesAgain(r) ==
  /\ Recovering /\ Interrupted(r)
  /\ AppendOk(r, "failed")
  /\ catalog' = [catalog EXCEPT ![r] = AsInterrupted(@)]
  /\ Take("recoverSeal", r, "no")
  /\ UNCHANGED <<process, latched, saved, stamps, told, crashes>>

\* A log without a run/finish gets one; the run is failed and interrupted.
RecoverFinishes(r) ==
  /\ Recovering /\ Interrupted(r)
  /\ IF Finished(events[r]) THEN UNCHANGED <<logs, dirs, faults>> ELSE AppendOk(r, "failed")
  /\ catalog' = [catalog EXCEPT ![r] = AsInterrupted(@)]
  /\ Take("recoverSeal", r, "no")
  /\ UNCHANGED <<process, latched, saved, stamps, told, crashes>>

RecoverSeals(r) ==
  /\ Held("recoverSeal", r)
  /\ SealOk(r)
  /\ Continue("recoverPersist")
  /\ UNCHANGED <<process, latched, catalog, saved, stamps, told, crashes>>

RecoverPersists(r) ==
  /\ Held("recoverPersist", r)
  /\ PersistOk(r, catalog[r])
  /\ Unlock
  /\ UNCHANGED <<process, catalog, logs, dirs, told, crashes>>

\* A step of the recovery fails: OpenStore closes the logs and returns an error.
\* The memory goes with the process.
Refuse ==
  /\ process' = "refused"
  /\ catalog' = [r \in Runs |-> Absent]
  /\ events' = [r \in Runs |-> <<>>]
  /\ sealed' = [r \in Runs |-> "no"]
  /\ Unlock
  /\ latched' = "no"

\* The file and marker that a failing append or seal of r can leave.
AppendLeaves(r) ==
  {file[r]} \cup {Append(file[r], [NewFrame(r, "failed") EXCEPT !.form = f]) : f \in {"torn", "whole"}}
SealLeaves(r) ==
  {NoMarker, [is |-> "partial", head |-> <<>>], [is |-> "whole", head |-> events[r]]}

RecoveryFails(r) ==
  /\ process = "recovering"
  /\ \/ /\ Free /\ Interrupted(r) /\ ~Finished(events[r])
        /\ IF sealed[r] = "yes" THEN UNCHANGED <<file, faults>>
           ELSE Fault /\ \E left \in AppendLeaves(r) : file' = [file EXCEPT ![r] = left]
        /\ UNCHANGED <<marker, saved, stamps>>
     \/ /\ Held("recoverSeal", r) /\ sealed[r] = "no"
        /\ Fault
        /\ \E left \in SealLeaves(r) : marker' = [marker EXCEPT ![r] = left]
        /\ UNCHANGED <<file, saved, stamps>>
     \/ /\ Held("recoverPersist", r)
        /\ Fault
        /\ saved' \in {saved, [saved EXCEPT ![r] = State(catalog[r])]}
        /\ IF saved' = saved THEN UNCHANGED stamps ELSE Stamped(r, catalog[r])
        /\ UNCHANGED <<file, marker>>
  /\ Refuse
  /\ UNCHANGED <<dirs, told, crashes>>

\* OpenStore has recovered every run, and the bundles are valid: see ControlPlane.
Serve ==
  /\ Recovering
  /\ \A r \in Runs : ~Interrupted(r)
  /\ process' = "up"
  /\ UNCHANGED <<lock, latched, catalog, events, sealed, storage, told, faults, crashes>>

\* ... or one of them is not, and the process ends.
Reject ==
  /\ Recovering
  /\ \A r \in Runs : ~Interrupted(r)
  /\ Refuse
  /\ UNCHANGED <<storage, told, faults, crashes>>

\* The server no longer accepts requests; the driver is being shut down.
Drain ==
  /\ process = "up"
  /\ process' = "draining"
  /\ UNCHANGED <<lock, latched, catalog, events, sealed, storage, told, faults, crashes>>

\* Store.Close: the Appenders are closed under goroutines still running.
Close ==
  /\ process = "draining" /\ Free
  /\ process' = "closed"
  /\ UNCHANGED <<lock, latched, catalog, events, sealed, storage, told, faults, crashes>>

Exit ==
  /\ process = "closed"
  /\ process' = "down"
  /\ MemoryLost
  /\ UNCHANGED <<storage, told, faults, crashes>>

Crash ==
  /\ ~Stopped
  /\ crashes < MaxCrashes
  /\ crashes' = crashes + 1
  /\ process' = "down"
  /\ MemoryLost
  /\ UNCHANGED <<storage, told, faults>>

\* The process dies in a seal, between the creation of the marker and its write.
CrashInSeal(r) ==
  /\ Held("recoverSeal", r) \/ (Calling /\ process # "closed" /\ catalog[r].status \in Terminal)
  /\ sealed[r] = "no" /\ marker[r].is = "absent"
  /\ marker' = [marker EXCEPT ![r] = [is |-> "partial", head |-> <<>>]]
  /\ crashes < MaxCrashes
  /\ crashes' = crashes + 1
  /\ process' = "down"
  /\ MemoryLost
  /\ UNCHANGED <<dirs, saved, stamps, file, told, faults>>

-----------------------------------------------------------------------------

Init ==
  /\ process = "down"
  /\ lock = Unlocked
  /\ latched = "no"
  /\ catalog = [r \in Runs |-> Absent] /\ saved = [r \in Runs |-> Absent]
  /\ stamps = [r \in Runs |-> "ordered"]
  /\ events = [r \in Runs |-> <<>>] /\ file = [r \in Runs |-> <<>>]
  /\ sealed = [r \in Runs |-> "no"] /\ marker = [r \in Runs |-> NoMarker]
  /\ dirs = {} /\ told = {} /\ faults = 0 /\ crashes = 0

\* What clients ask, and how the store goes on with it without the driver.
ClientStep(r) ==
  \/ \E k \in Keys \cup {None} : Create(r, k)
  \/ CreateFails(r)
  \/ CreatedPersisted(r)
  \/ CreatedUnpersisted(r)
  \/ \E keyed \in {"yes", "no"} : Start(r, keyed)
  \/ StartFails(r)
  \/ StartPersisted(r)
  \/ StartUnpersisted(r)
  \/ UndispatchedPersists(r)
  \/ \E keyed \in {"yes", "no"} : Stop(r, keyed)
  \/ \E q \in Requests : Replay(q, r)

\* What the driver answers when the store calls it.
DriverAnswers(r) ==
  Prepared(r) \/ Unprepared(r) \/ Dispatched(r) \/ Undispatched(r)
    \/ StopDispatched(r) \/ StopUndispatched(r)

\* What the driver may call.
DriverCalls(r) ==
  \/ \E status \in {"completed", "failed"} : Completes(r, status) \/ CompleteFails(r, status)
  \/ CompletionPersisted(r)
  \/ CompletionUnpersisted(r)
  \/ AppendEvent(r)
  \/ AppendEventFails(r)
  \/ SealRun(r)
  \/ SealRunFails(r)
  \/ \E v \in {Flat("verification_error"), [is |-> "ineligible", over |-> events[r]]} :
       SetEvidenceVerification(r, v) \/ SetEvidenceVerificationFails(r, v)

Recovery(r) ==
  RecoverFinishes(r) \/ RecoverSeals(r) \/ RecoverPersists(r) \/ RecoveryFails(r)

ProcessStep ==
  OpenStore \/ OpenStoreRefuses \/ Serve \/ Reject \/ Drain \/ Close \/ Exit \/ Crash

Next ==
  \/ \E r \in Runs : ClientStep(r) \/ DriverAnswers(r) \/ DriverCalls(r) \/ Recovery(r)
  \/ ProcessStep
  \/ \E r \in Runs : CrashInSeal(r)

Spec == Init /\ [][Next]_vars

-----------------------------------------------------------------------------
(* What the store promises, whatever the driver does *)

\* A request with an idempotency key that was answered with its recorded answer
\* gets the same answer, for the same run, ever after: across failures of later
\* writes, crashes and restarts (README.md:104 "idempotency records persist
\* across restart").
AnswersAgree ==
  \A a, b \in told :
    a.request = b.request /\ a.subject = b.subject => a.run = b.run /\ a.is = b.is

\* No log ever acknowledges two run/finish frames, through stops, failed starts,
\* completions and recoveries (README.md:105 "without duplicating terminal events").
OneFinish ==
  \A r \in Runs : \A i, j \in 1 .. Len(events[r]) :
    Finishes(events[r][i]) /\ Finishes(events[r][j]) => i = j

\* While nothing has failed and no method is under way, a restart would reload
\* exactly the runs that clients see (persistence.go:14, the latch).
CatalogIsSaved ==
  process = "up" /\ Free /\ latched = "no" => \A r \in Runs : catalog[r] = saved[r]

\* After a failed write of state.json no method changes the catalog, so what
\* clients see is at most the one change that could not be saved ahead of it.
LatchedCatalogIsFrozen ==
  [][latched = "yes" /\ Free /\ latched' = "yes" => catalog' = catalog]_vars
=============================================================================
