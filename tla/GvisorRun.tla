----------------------------- MODULE GvisorRun -----------------------------
(***************************************************************************)
(* One run of the gVisor container backend with the threads of its driver  *)
(* (internal/backend/gvisor/gvisor.go, internal/controlplane/              *)
(* gvisor_driver.go): the request that prepares and starts it, a client's  *)
(* stop, reaper, resource sampler, completion goroutine and Shutdown.      *)
(*                                                                         *)
(* What runs under run.mu is one step, however many commands it issues.    *)
(* GvisorDriver holds its own mutex for the whole of Start, the  *)
(* Destroy after a failed start included: client = "starting".             *)
(***************************************************************************)
EXTENDS Integers, FiniteSets

CONSTANTS
  MaxSamples, \* bound on the resource samples
  MaxFaults   \* bound on failed commands and writes

ASSUME GvisorBounds == MaxSamples \in Nat /\ MaxFaults \in Nat

VARIABLES
  state,     \* run.state; "none" before Prepare
  listed,    \* Backend.runs has the run: a handle is valid
  world,     \* the run's resources that exist
  owned,     \* those that run.networkCreated, proxyCreated, ... say exist
  stray,     \* history: what a create command left behind when it reported failure
  workload,  \* the container's process: "none", "running", "gone"
  canceled,  \* run.ctx is canceled
  reaper,    \* "none", "waiting", "collected" (exited is closed), "ended"
  sampler,   \* "none", "running", "ended"
  done,      \* the channel run.done; closing it twice is a panic
  records,   \* how many raw records run.all has
  raw,       \* raw-records.bin holds exactly their frames, or more: "exact", "spoiled"
  losses,    \* some source has counted a drop or a failure: "none", "counted"
  health,    \* what FinalizeEvidence has reported, if it has
  entry,     \* the driver's gvisorRun: known to the driver, started, completed
  client,    \* the request in progress: "idle", "preparing", "starting", "aborting"
  drained,   \* whether the HTTP server had finished its requests before Shutdown came
  latched,   \* the Store has latched: a write of a state.json has failed
  shutdown,  \* where Shutdown is with the run
  expired,   \* the context of Shutdown has expired
  comp,      \* where the completion goroutine is
  destroy,   \* where each caller of Destroy is with it
  outcome,   \* the verdict on record, served or in state.json: "none", "published", "lost"
  premature, \* history: container or workspace went before the reaper collected
  samples, faults  \* history: samples taken, failures

backend == <<state, listed, workload, canceled, reaper, sampler, done>>
resources == <<world, owned, stray, premature>>
evidence == <<records, raw, losses, health>>
threads == <<entry, client, drained, latched, shutdown, expired, comp, destroy, outcome>>
vars == <<backend, resources, evidence, threads, samples, faults>>

Resources == {"workspace", "proxydir", "network", "gateway", "container"}
Callers == {"request", "goroutine", "shutdown"}

TypeOK ==
  /\ state \in {"none", "prepared", "started", "stopping", "stopped", "exited",
                "destroying", "destroyed"}
  /\ listed \in {"yes", "no"} /\ canceled \in {"yes", "no"}
  /\ world \subseteq Resources /\ owned \subseteq Resources /\ stray \subseteq Resources
  /\ workload \in {"none", "running", "gone"}
  /\ reaper \in {"none", "waiting", "collected", "ended"}
  /\ sampler \in {"none", "running", "ended"}
  /\ done \in {"open", "closed"}
  /\ records \in Nat /\ raw \in {"exact", "spoiled"} /\ losses \in {"none", "counted"}
  /\ health \in [is : {"none", "reported"}, losses : {"none", "counted"}, end : Nat]
  /\ entry \in [known : {"yes", "no"}, started : {"yes", "no"}, completed : {"yes", "no"}]
  /\ client \in {"idle", "preparing", "starting", "aborting"}
  /\ drained \in {"yes", "no"} /\ latched \in {"yes", "no"} /\ premature \in {"yes", "no"}
  /\ shutdown \in {"none", "checking", "stopping", "joining", "deciding", "destroying",
                   "returned"}
  /\ comp \in {"none", "waiting", "completing", "finalizing", "reading", "publishing",
               "finishing", "done"}
  /\ destroy \in [Callers -> {"none", "asked", "awaiting", "removing", "ok", "failed"}]
  /\ outcome \in {"none", "published", "lost"}

Closed == IF done = "open" THEN "closed" ELSE "panicked"
DriverUnlocked == client # "starting"
Fault == faults < MaxFaults /\ faults' = faults + 1

\* A network cannot be removed while a container is attached to it.
Removable(w) == "network" \in w \/ {"gateway", "container"} \cap w = {}

-----------------------------------------------------------------------------
(* Raw records *)

Appended ==
  /\ records' = records + 1
  /\ UNCHANGED <<raw, losses, faults>>

\* The record is not acknowledged, and a part of its frame may be in the file.
NotAppended ==
  /\ Fault
  /\ raw' \in {raw, "spoiled"}
  /\ UNCHANGED records

AppendedOrCounted == Appended \/ (NotAppended /\ losses' = "counted")

\* What is collected in one go under run.mu: some records, some counted losses.
Collected ==
  \/ records' \in records + 1 .. records + 2 /\ losses' \in {losses, "counted"} /\ UNCHANGED <<raw, faults>>
  \/ Fault /\ records' = records + 1 /\ losses' = "counted" /\ raw' \in {raw, "spoiled"}

-----------------------------------------------------------------------------
(* Prepare and Start, called by the Store *)

\* No request is at work in a shutdown, unless the server gave up waiting for it
\* (server.Shutdown returned at its deadline) and the deferred Shutdown runs.
Accepting == shutdown = "none" \/ drained = "no"

\* A bug that would prepare a run that is there already.
PrepareAnew ==
  /\ client = "idle" /\ Accepting
  /\ state' = "prepared" /\ listed' = "yes"
  /\ world' = world \cup {"workspace", "proxydir"} /\ owned' = {"workspace", "proxydir"}
  /\ client' = "preparing"
  /\ UNCHANGED <<workload, canceled, reaper, sampler, done, stray, premature, evidence, entry,
                 drained, latched, shutdown, expired, comp, destroy, outcome, samples, faults>>

Prepare ==
  /\ state = "none" /\ client = "idle" /\ Accepting
  /\ state' = "prepared" /\ listed' = "yes"
  /\ world' = {"workspace", "proxydir"} /\ owned' = world'
  /\ client' = "preparing"
  /\ UNCHANGED <<workload, canceled, reaper, sampler, done, stray, premature, evidence, entry, drained, latched, shutdown,
                 expired, comp, destroy, outcome, samples, faults>>

\* The driver enters the run, unless it has been closed since: then it destroys it
\* and nothing is left but what cannot be removed.
PrepareEnters ==
  /\ client = "preparing"
  /\ client' = "idle"
  /\ \/ /\ shutdown = "none"
        /\ entry' = [entry EXCEPT !.known = "yes"]
        /\ UNCHANGED <<backend, resources, faults>>
     \/ /\ shutdown # "none"
        /\ done' = Closed
        /\ \/ /\ state' = "destroyed" /\ listed' = "no"
              /\ world' = {} /\ owned' = {}
              /\ UNCHANGED faults
           \/ /\ Fault /\ state' = "destroying"
              /\ \E left \in SUBSET owned \ {{}} : world' = left /\ owned' = left
              /\ UNCHANGED listed
        /\ UNCHANGED <<workload, canceled, reaper, sampler, stray, premature, entry>>
  /\ UNCHANGED <<evidence, drained, latched, shutdown, expired, comp, destroy, outcome, samples>>

Startable ==
  /\ client = "idle" /\ Accepting
  /\ entry.known = "yes" /\ entry.started = "no"
  /\ listed = "yes" /\ state = "prepared"

\* A gateway command that fails only degrades the evidence, and may leave a
\* container that nobody owns.
Gateways == {"up", "failed", "stray"}
Up(gateway) == {"network"} \cup IF gateway = "failed" THEN {} ELSE {"gateway"}
Known(gateway) == {"network"} \cup IF gateway = "up" THEN {"gateway"} ELSE {}

Start ==
  /\ Startable
  /\ \E gateway \in Gateways :
       /\ world' = world \cup Up(gateway) \cup {"container"}
       /\ owned' = owned \cup Known(gateway) \cup {"container"}
       /\ stray' = stray \cup (Up(gateway) \ Known(gateway))
       /\ IF gateway = "up" THEN Collected
          ELSE Fault /\ records' = records + 1 /\ losses' = "counted" /\ UNCHANGED raw
  /\ state' = "started" /\ workload' = "running" /\ canceled' = "no"
  /\ reaper' = "waiting" /\ sampler' = "running"
  /\ entry' = [entry EXCEPT !.started = "yes"]
  /\ comp' = "waiting"
  /\ UNCHANGED <<listed, done, premature, health, client, drained, latched, shutdown, expired, destroy,
                 outcome, samples>>

\* docker network create fails; the network may be there.  The driver destroys the run.
StartWithoutNetwork ==
  /\ Startable
  /\ Fault
  /\ \/ world' = world \cup {"network"} /\ stray' = stray \cup {"network"}
     \/ UNCHANGED <<world, stray>>
  /\ canceled' = "yes"
  /\ client' = "starting"
  /\ destroy' = [destroy EXCEPT !["request"] = "asked"]
  /\ UNCHANGED <<state, listed, workload, reaper, sampler, done, owned, premature, evidence, entry,
                 drained, latched, shutdown, expired, comp, outcome, samples>>

\* docker run fails: abortStartLocked removes what there is, or what it can.  What
\* is left of container and network makes the run one that is being destroyed.
StartAborts ==
  /\ Startable
  /\ Fault
  /\ \E gateway \in Gateways : \E left \in SUBSET (Known(gateway) \cup {"container"}) :
       /\ world' = world \cup left \cup (Up(gateway) \ Known(gateway))
       /\ Removable(world')
       /\ owned' = owned \cup left
       /\ stray' = stray \cup (Up(gateway) \ Known(gateway))
       /\ IF left \cap {"network", "container"} = {}
          THEN UNCHANGED <<state, done>>
          ELSE state' = "destroying" /\ done' = Closed
  /\ losses' \in {losses, "counted"} /\ records' \in records .. records + 1
  /\ canceled' = "yes"
  /\ client' = "starting"
  /\ destroy' = [destroy EXCEPT !["request"] = "asked"]
  /\ UNCHANGED <<listed, workload, reaper, sampler, premature, raw, health, entry, drained, latched,
                 shutdown, expired, comp, outcome, samples>>

\* The Store cannot save the reservation: the driver forgets and destroys the run.
Aborts ==
  /\ client = "idle" /\ Accepting
  /\ entry.known = "yes" /\ entry.started = "no" /\ destroy["request"] = "none"
  /\ entry' = [entry EXCEPT !.known = "no"]
  /\ client' = "aborting"
  /\ destroy' = [destroy EXCEPT !["request"] = "asked"]
  /\ UNCHANGED <<backend, resources, evidence, drained, latched, shutdown, expired, comp, outcome,
                 samples, faults>>

\* The driver's Start or Abort returns an error, whatever came of Destroy.
RequestReturns ==
  /\ client \in {"starting", "aborting"} /\ destroy["request"] \in {"ok", "failed"}
  /\ client' = "idle"
  /\ UNCHANGED <<backend, resources, evidence, entry, drained, latched, shutdown, expired, comp, destroy,
                 outcome, samples, faults>>

-----------------------------------------------------------------------------
(* The container, the sampler, the reaper *)

WorkloadEnds ==
  /\ workload = "running"
  /\ workload' = "gone"
  /\ UNCHANGED <<state, listed, canceled, reaper, sampler, done, resources, evidence,
                 threads, samples, faults>>

\* A sample, every second and once after the exit: a record or a counted drop.
Samples ==
  /\ sampler = "running" /\ canceled = "no"
  /\ samples < MaxSamples
  /\ samples' = samples + 1
  /\ \/ AppendedOrCounted
     \/ Fault /\ losses' = "counted" /\ UNCHANGED <<records, raw>>
  /\ UNCHANGED <<backend, resources, health, threads>>

\* A bug that would stop the sampler with the context of the run only.
SamplerEndsWhenCanceled ==
  /\ sampler = "running" /\ canceled = "yes"
  /\ sampler' = "ended"
  /\ UNCHANGED <<state, listed, workload, canceled, reaper, done, resources, evidence,
                 threads, samples, faults>>

SamplerEnds ==
  /\ sampler = "running"
  /\ \/ canceled = "yes" /\ UNCHANGED <<records, raw, losses, faults>>
     \/ reaper = "collected" /\ AppendedOrCounted
  /\ sampler' = "ended"
  /\ UNCHANGED <<state, listed, workload, canceled, reaper, done, resources, health,
                 threads, samples>>

\* A bug that would take the logs of a container that is gone for empty.
ReaperCollectsSilently ==
  /\ reaper = "waiting" /\ workload = "gone"
  /\ Collected
  /\ state' = "exited" /\ reaper' = "collected"
  /\ UNCHANGED <<listed, workload, canceled, sampler, done, resources, health, threads, samples>>

\* docker wait returns: the container has exited, the context is canceled, or the
\* command fails, which is a counted drop.  Then everything is collected; logs of
\* no container and a copy of no workspace are drops.
ReaperCollects ==
  /\ reaper = "waiting"
  /\ \/ /\ workload = "gone" /\ Collected
        /\ ~({"container", "workspace"} \subseteq world) => losses' = "counted"
     \/ /\ canceled = "yes" \/ workload = "running"
        /\ Fault
        /\ records' = records + 1 /\ losses' = "counted" /\ raw' \in {raw, "spoiled"}
  /\ state' = "exited"
  /\ reaper' = "collected"
  /\ UNCHANGED <<listed, workload, canceled, sampler, done, resources, health, threads, samples>>

\* A bug that would not wait for the sampler's last sample.
ReaperEndsAtOnce ==
  /\ reaper = "collected"
  /\ reaper' = "ended" /\ done' = Closed
  /\ UNCHANGED <<state, listed, workload, canceled, sampler, resources, evidence, threads, samples, faults>>

ReaperEnds ==
  /\ reaper = "collected" /\ sampler = "ended"
  /\ reaper' = "ended" /\ done' = Closed
  /\ canceled' = "yes"
  /\ UNCHANGED <<state, listed, workload, sampler, resources, evidence, threads, samples, faults>>

-----------------------------------------------------------------------------
(* Stop, of the backend *)

\* A bug that would report the end of a run as soon as it is killed.
StoppedAtOnce ==
  /\ listed = "yes"
  /\ \/ /\ state \in {"prepared", "started"}
        /\ state' = "stopped" /\ done' = Closed
        /\ workload' = IF workload = "running" THEN "gone" ELSE workload
     \/ state \notin {"prepared", "started"} /\ UNCHANGED <<state, done, workload>>
  /\ UNCHANGED <<listed, canceled, reaper, sampler>>

\* docker kill, of a container that runs; one that does not is left as it is.
Stopped ==
  /\ listed = "yes"
  /\ \/ state = "prepared" /\ state' = "stopped" /\ done' = Closed /\ UNCHANGED workload
     \/ /\ state \in {"exited", "stopped", "stopping", "destroying"}
        /\ UNCHANGED <<state, done, workload>>
     \/ /\ state \in {"started", "destroyed"}
        /\ IF workload = "running" THEN state' = "stopping" /\ workload' = "gone"
           ELSE UNCHANGED <<state, workload>>
        /\ UNCHANGED done
  /\ UNCHANGED <<listed, canceled, reaper, sampler>>

\* docker kill fails, and the run has not ended in the meantime.
NotStopped ==
  /\ listed = "yes" /\ state \in {"started", "destroyed"} /\ done = "open"
  /\ Fault

\* A client stops a run that the Store has as running.
ClientStops ==
  /\ client = "idle" /\ Accepting
  /\ comp \in {"waiting", "completing"}
  /\ \/ Stopped /\ UNCHANGED faults
     \/ NotStopped /\ UNCHANGED backend
  /\ UNCHANGED <<resources, evidence, threads, samples>>

-----------------------------------------------------------------------------
(* Destroy, of the backend; c is who calls it *)

Expired(c) == c = "shutdown" /\ expired = "yes"
DestroyGoes(c, step) == destroy' = [destroy EXCEPT ![c] = step]

DestroyBegins(c) ==
  /\ destroy[c] = "asked"
  /\ \/ Expired(c) /\ DestroyGoes(c, "failed") /\ UNCHANGED <<backend, faults>>
     \/ /\ ~Expired(c) /\ listed = "no"
        /\ DestroyGoes(c, IF state = "destroyed" THEN "ok" ELSE "failed")
        /\ UNCHANGED <<backend, faults>>
     \/ /\ ~Expired(c) /\ listed = "yes"
        /\ \/ /\ state \in {"started", "stopping"}
              /\ \/ Stopped /\ DestroyGoes(c, "awaiting") /\ UNCHANGED faults
                 \/ NotStopped /\ DestroyGoes(c, "failed") /\ UNCHANGED backend
           \/ /\ state \notin {"started", "stopping"}
              /\ DestroyGoes(c, "removing")
              /\ UNCHANGED <<backend, faults>>
  /\ UNCHANGED <<resources, evidence, entry, client, drained, latched, shutdown, expired, comp, outcome, samples>>

DestroyAwaits(c) ==
  /\ destroy[c] = "awaiting"
  /\ \/ done # "open" /\ DestroyGoes(c, "removing")
     \/ Expired(c) /\ DestroyGoes(c, "failed")
  /\ UNCHANGED <<backend, resources, evidence, entry, client, drained, latched, shutdown, expired, comp,
                 outcome, samples, faults>>

TooEarly(left) == reaper = "waiting" /\ ~({"container", "workspace"} \subseteq left)

\* A bug that would not keep track of what could not be removed.
DestroyRemovesBlindly(c) ==
  /\ destroy[c] = "removing"
  /\ \E left \in SUBSET owned : world' = (world \ owned) \cup left /\ Removable(world')
  /\ state' = "destroyed" /\ listed' = "no" /\ canceled' = "yes" /\ owned' = {}
  /\ done' = IF state = "prepared" THEN Closed ELSE done
  /\ DestroyGoes(c, "ok")
  /\ workload' = IF workload = "running" THEN "gone" ELSE workload
  /\ premature' = IF TooEarly(world') THEN "yes" ELSE premature
  /\ UNCHANGED <<reaper, sampler, stray, evidence, entry, client, drained, latched, shutdown, expired, comp,
                 outcome, samples, faults>>

\* Gateway, container, network, workspace and gateway directory are removed as far
\* as that succeeds; what is left stays owned and the run is not destroyed yet.
DestroyRemoves(c) ==
  /\ destroy[c] = "removing"
  /\ \/ state = "destroyed" /\ DestroyGoes(c, "ok") /\ UNCHANGED <<backend, resources, faults>>
     \/ /\ state # "destroyed"
        /\ \E left \in SUBSET owned :
             /\ world' = (world \ owned) \cup (left \cap world)
             /\ owned' = left
             /\ Removable(world')
             /\ \/ left = {} /\ UNCHANGED faults
                \/ left # {} /\ Fault
                \/ left = {"network"} /\ "gateway" \in world \ owned /\ UNCHANGED faults
             /\ IF left = {}
                THEN state' = "destroyed" /\ listed' = "no" /\ canceled' = "yes" /\ DestroyGoes(c, "ok")
                ELSE state' = "destroying" /\ UNCHANGED <<listed, canceled>> /\ DestroyGoes(c, "failed")
        /\ done' = IF state = "prepared" THEN Closed ELSE done
        /\ workload' = IF workload = "running" /\ "container" \notin world' THEN "gone" ELSE workload
        /\ premature' = IF TooEarly(world') THEN "yes" ELSE premature
        /\ UNCHANGED <<reaper, sampler, stray>>
  /\ UNCHANGED <<evidence, entry, client, drained, latched, shutdown, expired, comp, outcome, samples>>

-----------------------------------------------------------------------------
(* The completion goroutine *)

CompGoes(step) == comp' = step /\ UNCHANGED outcome
Lost == comp' = "finishing" /\ outcome' = "lost"

Waits ==
  /\ comp = "waiting"
  /\ \/ listed = "yes" /\ done # "open" /\ CompGoes("completing")
     \/ listed = "no" /\ Lost
  /\ UNCHANGED <<backend, resources, evidence, entry, client, drained, latched, shutdown, expired, destroy, samples, faults>>

\* A write of a state.json fails, of this run or another: no verdict is recorded
\* from now on.
StoreLatches ==
  /\ latched = "no" /\ Fault
  /\ latched' = "yes"
  /\ UNCHANGED <<backend, resources, evidence, entry, client, drained, shutdown, expired, comp,
                 destroy, outcome, samples>>

\* The run is completed and sealed in the Store, or the Store refuses.
CompletesRun ==
  /\ comp = "completing"
  /\ (latched = "no" /\ CompGoes("finalizing")) \/ Lost
  /\ UNCHANGED <<backend, resources, evidence, entry, client, drained, latched, shutdown, expired, destroy, samples, faults>>

Finalizes ==
  /\ comp = "finalizing"
  /\ \/ /\ listed = "yes" /\ state \notin {"started", "stopping"} /\ done # "open"
        /\ Appended
        /\ health' = [is |-> "reported", losses |-> losses, end |-> records + 1]
        /\ CompGoes("reading")
     \/ /\ listed = "yes" /\ state \notin {"started", "stopping"} /\ done # "open"
        /\ NotAppended /\ Lost
        /\ UNCHANGED <<losses, health>>
     \/ /\ listed = "no" \/ state \in {"started", "stopping"}
        /\ Lost
        /\ UNCHANGED <<evidence, faults>>
  /\ UNCHANGED <<backend, resources, entry, client, drained, latched, shutdown, expired, destroy, samples>>

ReadsRecords ==
  /\ comp = "reading"
  /\ \/ listed = "yes" /\ CompGoes("publishing")
     \/ listed = "no" /\ Lost
  /\ UNCHANGED <<backend, resources, evidence, entry, client, drained, latched, shutdown, expired, destroy, samples, faults>>

\* SetEvidenceVerification; one that fails can leave the verdict it was given.
Recorded(verdict) ==
  \/ latched = "no" /\ outcome' = verdict /\ UNCHANGED <<latched, faults>>
  \/ latched = "no" /\ Fault /\ latched' = "yes" /\ outcome' \in {outcome, verdict}
  \/ latched = "yes" /\ UNCHANGED <<outcome, latched, faults>>

\* The bundle is invalid unless the raw file holds exactly the frames of the records.
Publishes ==
  /\ comp = "publishing"
  /\ \/ listed = "yes" /\ raw = "exact" /\ Recorded("published") /\ comp' = "finishing"
     \/ Lost /\ UNCHANGED <<latched, faults>>
  /\ UNCHANGED <<backend, resources, evidence, entry, client, drained, shutdown, expired, destroy, samples>>

FinishDestroys ==
  /\ comp = "finishing" /\ destroy["goroutine"] = "none"
  /\ DestroyGoes("goroutine", "asked")
  /\ UNCHANGED <<backend, resources, evidence, entry, client, drained, latched, shutdown, expired, comp, outcome, samples, faults>>

\* A bug that would leave the verdict alone when the container cannot be destroyed.
FinishesQuietly ==
  /\ comp = "finishing" /\ DriverUnlocked
  /\ destroy["goroutine"] \in {"ok", "failed"}
  /\ CompGoes("done")
  /\ entry' = [entry EXCEPT !.completed = "yes"]
  /\ UNCHANGED <<backend, resources, evidence, client, drained, latched, shutdown, expired, destroy, samples, faults>>

\* The run is completed; when Destroy fails it is not, and the verdict is replaced,
\* if the Store still records one: nobody looks at what record returns.
Finishes ==
  /\ comp = "finishing"
  /\ \/ /\ destroy["goroutine"] = "ok" /\ DriverUnlocked
        /\ entry' = IF entry.known = "yes" THEN [entry EXCEPT !.completed = "yes"] ELSE entry
        /\ CompGoes("done") /\ UNCHANGED <<latched, faults>>
     \/ /\ destroy["goroutine"] = "failed"
        /\ Recorded("lost") /\ comp' = "done"
        /\ UNCHANGED entry
  /\ UNCHANGED <<backend, resources, evidence, client, drained, shutdown, expired, destroy, samples>>

-----------------------------------------------------------------------------
(* Shutdown, of the driver; it may be called again *)

Goes(step) == shutdown' = step /\ UNCHANGED <<client, latched, comp, outcome, samples>>
Go(step) == Goes(step) /\ UNCHANGED <<expired, drained>>

DeadlinePasses ==
  /\ shutdown \notin {"none", "returned"}
  /\ expired' = "yes"
  /\ UNCHANGED <<backend, resources, evidence, entry, client, drained, latched, shutdown, comp, destroy,
                 outcome, samples, faults>>

ShutdownBegins ==
  /\ shutdown \in {"none", "returned"} /\ DriverUnlocked
  /\ IF shutdown = "none" /\ client = "idle" THEN drained' \in {"yes", "no"}
     ELSE drained' = IF shutdown = "none" THEN "no" ELSE drained
  /\ Goes(IF entry.known = "yes" THEN "checking" ELSE "joining")
  /\ expired' = "no"
  /\ UNCHANGED <<backend, resources, evidence, entry, destroy, faults>>

ShutdownChecks ==
  /\ shutdown = "checking" /\ DriverUnlocked
  /\ Go(IF entry.started = "yes" /\ entry.completed = "no" THEN "stopping" ELSE "joining")
  /\ UNCHANGED <<backend, resources, evidence, entry, destroy, faults>>

ShutdownStops ==
  /\ shutdown = "stopping"
  /\ \/ expired = "no" /\ Stopped /\ UNCHANGED faults
     \/ expired = "no" /\ NotStopped /\ UNCHANGED backend
     \/ (listed = "no" \/ expired = "yes") /\ UNCHANGED <<backend, faults>>
  /\ Go("joining")
  /\ UNCHANGED <<resources, evidence, entry, destroy>>

\* Shutdown waits for the goroutines that have been started.
ShutdownJoins ==
  /\ shutdown = "joining"
  /\ comp \in {"none", "done"} \/ expired = "yes"
  /\ Go(IF entry.known = "yes" THEN "deciding" ELSE "returned")
  /\ UNCHANGED <<backend, resources, evidence, entry, destroy, faults>>

ShutdownDecides ==
  /\ shutdown = "deciding" /\ DriverUnlocked
  /\ IF entry.completed = "yes" THEN Go("returned") /\ UNCHANGED destroy
     ELSE Go("destroying") /\ DestroyGoes("shutdown", "asked")
  /\ UNCHANGED <<backend, resources, evidence, entry, faults>>

\* What could not be destroyed stays known to the driver, for another Shutdown.
ShutdownForgets ==
  /\ shutdown = "destroying"
  /\ \/ /\ destroy["shutdown"] = "ok" /\ DriverUnlocked
        /\ entry' = [entry EXCEPT !.known = "no"]
     \/ destroy["shutdown"] = "failed" /\ UNCHANGED entry
  /\ Go("returned")
  /\ UNCHANGED <<backend, resources, evidence, destroy, faults>>

-----------------------------------------------------------------------------

Init ==
  /\ state = "none" /\ listed = "no" /\ world = {} /\ owned = {} /\ stray = {}
  /\ premature = "no"
  /\ workload = "none" /\ canceled = "no" /\ reaper = "none" /\ sampler = "none" /\ done = "open"
  /\ records = 0 /\ raw = "exact" /\ losses = "none"
  /\ health = [is |-> "none", losses |-> "none", end |-> 0]
  /\ entry = [known |-> "no", started |-> "no", completed |-> "no"]
  /\ client = "idle" /\ drained = "yes" /\ latched = "no" /\ shutdown = "none" /\ expired = "no"
  /\ comp = "none"
  /\ destroy = [c \in Callers |-> "none"]
  /\ outcome = "none" /\ samples = 0 /\ faults = 0

Request ==
  Prepare \/ PrepareEnters \/ Start \/ StartWithoutNetwork \/ StartAborts \/ Aborts
  \/ RequestReturns
Reaper == ReaperCollects \/ ReaperEnds
Completion ==
  \/ Waits \/ CompletesRun \/ Finalizes \/ ReadsRecords \/ Publishes \/ FinishDestroys \/ Finishes
ShutdownGoesOn ==
  \/ ShutdownChecks \/ ShutdownStops \/ ShutdownJoins \/ ShutdownDecides \/ ShutdownForgets
Destroys(c) == DestroyBegins(c) \/ DestroyAwaits(c) \/ DestroyRemoves(c)

Next ==
  \/ Request \/ WorkloadEnds \/ Samples \/ SamplerEnds \/ Reaper \/ ClientStops
  \/ StoreLatches \/ Completion \/ ShutdownBegins \/ DeadlinePasses \/ ShutdownGoesOn
  \/ \E c \in Callers : Destroys(c)

Spec == Init /\ [][Next]_vars

\* Every thread goes on, and the commands it issues end.
Fairness ==
  /\ WF_vars(PrepareEnters) /\ WF_vars(RequestReturns)
  /\ WF_vars(SamplerEnds) /\ WF_vars(Reaper) /\ WF_vars(Completion) /\ WF_vars(ShutdownGoesOn)
  /\ \A c \in Callers : WF_vars(Destroys(c))

FairSpec == Spec /\ Fairness

-----------------------------------------------------------------------------

\* What FinalizeEvidence reports stays true: no record follows the health record,
\* of the sampler, the reaper or anybody else, and evidence without reported loss
\* has a raw file that holds its records exactly.
HealthIsFinal ==
  health.is = "reported" =>
    /\ health.end = records /\ health.losses = losses
    /\ losses = "none" => raw = "exact"

\* Nothing of a run that Docker or the file system still has is forgotten: it is on
\* the run's books, for a Destroy to come, or it is a network or a gateway whose
\* creation was reported as failed.  Only those outlive a destroyed run.
ResourcesAreOwned ==
  /\ world \subseteq owned \cup stray
  /\ stray \subseteq {"network", "gateway"}
  /\ state = "destroyed" => world \subseteq stray

\* A run whose evidence stays published has given back what it was known to have:
\* a verdict does not hide a container that is still there, unless the Store has
\* latched and could not take the verdict back (gvisor_driver.go:257, server.go:544).
PublishedIsCleanedUp ==
  comp = "done" /\ outcome = "published" /\ latched = "no" => owned = {}

\* "Cleanup follows collection and drain, or an explicit record that drain failed"
\* (agentDocs/architecture.md:149).  Container and workspace of a started run go
\* only after the reaper has collected from them, unless Shutdown overtakes a start
\* that the HTTP server did not wait for; then the evidence reports losses.
CleanupFollowsCollection ==
  premature = "yes" =>
    /\ drained = "no"
    /\ health.is = "reported" => health.losses = "counted"

\* The goroutine of a run whose container has gone lets go of it, with reaper and
\* sampler, whatever commands fail and whenever it is stopped.
GoroutineEnds == comp = "waiting" /\ workload = "gone" ~> comp = "done"

\* The reservation, seen from the driver, has the life ControlPlane gives it, but
\* that a Shutdown which did not wait for a start destroys what is running.
Proc ==
  CASE listed = "no" -> "none"
    [] listed = "yes" /\ state = "prepared" -> "prepared"
    [] listed = "yes" /\ done # "open" -> "exited"
    [] listed = "yes" /\ done = "open" /\ state # "prepared" ->
         IF workload = "running" THEN "running" ELSE "killed"
Backend == INSTANCE Reservation WITH proc <- Proc
ImplementsReservation ==
  Backend!Init /\ [][Backend!Next \/ (drained = "no" /\ Proc' = "none")]_Proc
=============================================================================
