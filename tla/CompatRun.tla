----------------------------- MODULE CompatRun -----------------------------
(***************************************************************************)
(* One run of the compat local-process backend with the threads of its     *)
(* driver (internal/backend/compat/compat.go and the in-memory side of     *)
(* internal/controlplane/compat_driver.go): the request that prepares and  *)
(* starts it, a client's stop, the reaper, the copying of its output, the  *)
(* completion goroutine and Shutdown.                                      *)
(*                                                                         *)
(* What runs under run.mu is one step.  CompatDriver.mu is held from       *)
(* backend.Start to the setting of started: nothing else that takes it     *)
(* happens while client = "starting".  Shutdown reads started without it.  *)
(***************************************************************************)
EXTENDS Integers, Sequences

CONSTANTS
  MaxWrites,  \* bound on the chunks of output the workload writes
  MaxFaults,  \* bound on failed writes of raw records and files
  Deadline    \* the context of Shutdown: "may pass", or "none" as in Close

ASSUME CompatBounds == MaxWrites \in Nat /\ MaxFaults \in Nat
ASSUME DeadlineAssumption == Deadline \in {"may pass", "none"}

VARIABLES
  state,    \* run.state; "none" before Prepare
  listed,   \* Backend.runs has the run: a handle is valid
  dir,      \* the run's directory is on disk
  workload, \* the process: "none", "running", "killed" (not yet gone), "gone"
  pipes,    \* some process holds the write end of the output pipes: "open", "closed"
  reaper,   \* the goroutine of Start that waits for the process: "none", "waiting", "ended"
  done,     \* the channel run.done; closing it twice is a panic
  records,  \* run.records
  raw,      \* the frames in raw-records.bin
  losses,   \* run.captureDrops and run.appendFailures
  health,   \* what FinalizeEvidence has reported, if it has
  entry,    \* the driver's compatRun: known to the driver, started, completed
  client,   \* the request in progress: "idle", "preparing", "starting", an abort, "dead"
  seen,     \* run.started as Shutdown last saw it with CompatDriver.mu held
  shutdown, \* where Shutdown is with the run
  expired,  \* the context of Shutdown has expired
  comp,     \* where the completion goroutine is
  outcome,  \* what it ended with: "none", "published", "lost"
  written, faults  \* history: chunks of output, failures

backend == <<state, listed, dir, workload, pipes, reaper, done>>
evidence == <<records, raw, losses, health>>
threads == <<entry, client, seen, shutdown, expired, comp, outcome>>
vars == <<backend, evidence, threads, written, faults>>

Kinds == {"process/start", "output", "process/exit", "sensor/health"}
Losses == [drops : Nat, appends : Nat]
NoLosses == [drops |-> 0, appends |-> 0]
Whole(kinds) == [i \in 1 .. Len(kinds) |-> [kind |-> kinds[i], form |-> "whole"]]

TypeOK ==
  /\ state \in {"none", "prepared", "started", "stopping", "stopped", "exited", "destroyed"}
  /\ listed \in {"yes", "no"} /\ dir \in {"yes", "no"}
  /\ workload \in {"none", "running", "killed", "gone"}
  /\ pipes \in {"open", "closed"}
  /\ reaper \in {"none", "waiting", "ended"}
  /\ done \in {"open", "closed"}
  /\ records \in Seq(Kinds)
  /\ raw \in Seq([kind : Kinds, form : {"whole", "torn"}])
  /\ losses \in Losses
  /\ health \in [is : {"none", "reported"}, losses : Losses, end : Nat]
  /\ entry \in [known : {"yes", "no"}, started : {"yes", "no"}, completed : {"yes", "no"}]
  /\ client \in {"idle", "preparing", "starting", "aborting", "removing", "aborted", "dead"}
  /\ shutdown \in {"none", "checking", "stopping", "deciding", "destroying", "awaiting",
                   "marking", "removing", "forgetting", "joining", "returned", "panicked"}
  /\ comp \in {"none", "waiting", "finalizing", "reading", "publishing", "retaining", "done"}

Closed == IF done = "open" THEN "closed" ELSE "panicked"
DriverUnlocked == client # "starting"
Fault == faults < MaxFaults /\ faults' = faults + 1

-----------------------------------------------------------------------------
(* Raw records *)

Appends(kind) ==
  /\ dir = "yes"
  /\ records' = Append(records, kind)
  /\ raw' = Append(raw, [kind |-> kind, form |-> "whole"])

Appended(kind) == Appends(kind) /\ UNCHANGED faults

\* The record is not acknowledged; none, a part or all of its frame is in the file.
NotAppended(kind) ==
  /\ \/ dir = "no" /\ UNCHANGED <<raw, faults>>
     \/ /\ dir = "yes" /\ Fault
        /\ raw' \in {raw} \cup {Append(raw, [kind |-> kind, form |-> f]) : f \in {"whole", "torn"}}
  /\ UNCHANGED records

\* An append whose failure is counted and otherwise ignored.
AppendedOrCounted(kind) ==
  \/ Appended(kind) /\ UNCHANGED losses
  \/ NotAppended(kind) /\ losses' = [losses EXCEPT !.appends = @ + 1]

-----------------------------------------------------------------------------
(* Prepare and Start, called by the Store *)

Prepare ==
  /\ state = "none" /\ client = "idle"
  /\ state' = "prepared" /\ listed' = "yes" /\ dir' = "yes"
  /\ client' = "preparing"
  /\ UNCHANGED <<workload, pipes, reaper, done, evidence, entry, seen, shutdown, expired, comp, outcome, written, faults>>

\* The end of Destroy: the registration goes, and the directory unless that fails.
Removes ==
  /\ listed' = "no"
  /\ \/ dir' = "no" /\ UNCHANGED faults
     \/ dir' = "yes" /\ Fault

\* The driver enters the run, unless it has been closed since: then it destroys it.
PrepareEnters ==
  /\ client = "preparing"
  /\ client' = "idle"
  /\ \/ /\ shutdown = "none"
        /\ entry' = [entry EXCEPT !.known = "yes"]
        /\ UNCHANGED <<backend, faults>>
     \/ /\ shutdown # "none"
        /\ state' = "destroyed" /\ Removes
        /\ UNCHANGED <<workload, pipes, reaper, done, entry>>
  /\ UNCHANGED <<evidence, seen, shutdown, expired, comp, outcome, written>>

Startable ==
  /\ client = "idle"
  /\ entry.known = "yes" /\ entry.started = "no"
  /\ listed = "yes" /\ state = "prepared"

Start ==
  /\ Startable
  /\ state' = "started"
  /\ workload' = "running" /\ pipes' = "open"
  /\ Appended("process/start")
  /\ reaper' = "waiting"
  /\ client' = "starting"
  /\ UNCHANGED <<listed, dir, done, losses, health, entry, seen, shutdown, expired, comp, outcome, written>>

\* The process is there but its first record is not: it is killed, nobody reaps it.
StartUnrecorded ==
  /\ Startable
  /\ state' = "started"
  /\ workload' = "killed" /\ pipes' = "open"
  /\ NotAppended("process/start")
  /\ UNCHANGED <<listed, dir, reaper, done, losses, health, threads, written>>

\* The driver goes on after backend.Start.
StartEnters ==
  /\ client = "starting"
  /\ client' = "idle"
  /\ entry' = [entry EXCEPT !.started = "yes"]
  /\ comp' = "waiting"
  /\ UNCHANGED <<backend, evidence, seen, shutdown, expired, outcome, written, faults>>

\* The Store cannot save the reservation: the driver forgets and destroys the run.
Aborts ==
  /\ client = "idle" /\ workload = "none"
  /\ entry.known = "yes" /\ entry.started = "no"
  /\ entry' = [entry EXCEPT !.known = "no"]
  /\ client' = IF listed = "yes" THEN "aborting" ELSE "aborted"
  /\ UNCHANGED <<backend, evidence, seen, shutdown, expired, comp, outcome, written, faults>>

\* Its Destroy, which Shutdown may be ahead of.
AbortGoesOn ==
  /\ \/ /\ client = "aborting" /\ state = "destroyed"
        /\ client' = "aborted"
        /\ UNCHANGED <<state, listed, dir, faults>>
     \/ /\ client = "aborting" /\ state # "destroyed"
        /\ state' = "destroyed" /\ client' = "removing"
        /\ UNCHANGED <<listed, dir, faults>>
     \/ /\ client = "removing"
        /\ Removes /\ client' = "aborted"
        /\ UNCHANGED state
  /\ UNCHANGED <<workload, pipes, reaper, done, evidence, entry, seen, shutdown, expired, comp,
                 outcome, written>>

-----------------------------------------------------------------------------
(* The workload, its output, the reaper *)

WorkloadEnds ==
  /\ workload \in {"running", "killed"}
  /\ workload' = "gone"
  /\ UNCHANGED <<state, listed, dir, pipes, reaper, done, evidence, threads, written, faults>>

\* The last holder of the pipes, perhaps a descendant of the workload, is gone.
PipesClose ==
  /\ workload = "gone" /\ pipes = "open"
  /\ pipes' = "closed"
  /\ UNCHANGED <<state, listed, dir, workload, reaper, done, evidence, threads, written, faults>>

\* runWriter.Write: the chunk goes to the output file and to a raw record; the file,
\* the record or both may fail.
Writes ==
  /\ pipes = "open"
  /\ written < MaxWrites
  /\ written' = written + 1
  /\ \/ dir = "yes" /\ AppendedOrCounted("output")
     \/ Appends("output") /\ Fault /\ losses' = [losses EXCEPT !.drops = @ + 1]
     \/ NotAppended("output") /\ losses' = [drops |-> losses.drops + 1, appends |-> losses.appends + 1]
  /\ UNCHANGED <<backend, health, threads>>

\* A bug that would reap the process without the rest of its output.
ReapsEarly ==
  /\ reaper = "waiting"
  /\ workload = "gone"
  /\ reaper' = "ended"
  /\ state' = "exited"
  /\ AppendedOrCounted("process/exit")
  /\ done' = Closed
  /\ UNCHANGED <<listed, dir, workload, pipes, health, threads, written>>

\* A bug that would return on a failed record of the exit before closing done.
ReapsOrReturns ==
  /\ reaper = "waiting"
  /\ workload = "gone" /\ pipes = "closed"
  /\ reaper' = "ended"
  /\ state' = "exited"
  /\ \/ Appended("process/exit") /\ done' = Closed
     \/ NotAppended("process/exit") /\ UNCHANGED done
  /\ UNCHANGED <<listed, dir, workload, pipes, losses, health, threads, written>>

\* cmd.Wait returns when the process is gone and its output has been copied.
Reaps ==
  /\ reaper = "waiting"
  /\ workload = "gone" /\ pipes = "closed"
  /\ reaper' = "ended"
  /\ state' = "exited"
  /\ AppendedOrCounted("process/exit")
  /\ done' = Closed
  /\ UNCHANGED <<listed, dir, workload, pipes, health, threads, written>>

-----------------------------------------------------------------------------
(* Stop, of the backend *)

Kills == workload' = IF workload = "running" THEN "killed" ELSE workload

\* A bug that would report the end of a workload as soon as it is killed.
StoppedAtOnce ==
  /\ listed = "yes"
  /\ \/ state \in {"prepared", "started"} /\ state' = "stopped" /\ done' = Closed /\ Kills
     \/ state \notin {"prepared", "started"} /\ UNCHANGED <<state, done, workload>>
  /\ UNCHANGED <<dir, listed, pipes, reaper>>

Stopped ==
  /\ listed = "yes"
  /\ \/ state = "prepared" /\ state' = "stopped" /\ done' = Closed /\ UNCHANGED workload
     \/ state \in {"exited", "stopped"} /\ UNCHANGED <<state, done, workload>>
     \/ /\ state \in {"started", "stopping", "destroyed"} /\ workload # "none"
        /\ state' = "stopping" /\ Kills
        /\ UNCHANGED done
  /\ UNCHANGED <<dir, listed, pipes, reaper>>

\* A client stops a run that the Store has as running.
ClientStops ==
  /\ client = "idle" /\ comp \in {"waiting", "finalizing", "reading"}
  /\ Stopped
  /\ UNCHANGED <<evidence, threads, written, faults>>

-----------------------------------------------------------------------------
(* The completion goroutine *)

Lost == outcome' = "lost" /\ comp' = "retaining"

Waits ==
  /\ comp = "waiting"
  /\ \/ listed = "yes" /\ done # "open" /\ comp' = "finalizing" /\ UNCHANGED outcome
     \/ listed = "no" /\ Lost
  /\ UNCHANGED <<backend, evidence, entry, client, seen, shutdown, expired, written, faults>>

Finalizes ==
  /\ comp = "finalizing"
  /\ \/ /\ listed = "yes" /\ state \in {"exited", "stopped", "destroyed"}
        /\ Appended("sensor/health")
        /\ health' = [is |-> "reported", losses |-> losses, end |-> Len(records) + 1]
        /\ comp' = "reading"
        /\ UNCHANGED outcome
     \/ /\ listed = "yes" /\ state \in {"exited", "stopped", "destroyed"}
        /\ NotAppended("sensor/health") \/ (Appends("sensor/health") /\ Fault)
        /\ Lost
        /\ UNCHANGED health
     \/ /\ listed = "no" \/ state = "stopping"
        /\ Lost
        /\ UNCHANGED <<records, raw, health, faults>>
  /\ UNCHANGED <<backend, losses, entry, client, seen, shutdown, expired, written>>

ReadsRecords ==
  /\ comp = "reading"
  /\ \/ listed = "yes" /\ comp' = "publishing" /\ UNCHANGED outcome
     \/ listed = "no" /\ Lost
  /\ UNCHANGED <<backend, evidence, entry, client, seen, shutdown, expired, written, faults>>

\* The bundle is built from the run's directory, and is invalid unless the raw
\* file holds exactly the frames of the records; the Store may refuse as well.
Publishes ==
  /\ comp = "publishing"
  /\ comp' = "retaining"
  /\ outcome' \in {"lost"} \cup
       (IF listed = "yes" /\ dir = "yes" /\ raw = Whole(records) THEN {"published"} ELSE {})
  /\ UNCHANGED <<backend, evidence, entry, client, seen, shutdown, expired, written, faults>>

Retains ==
  /\ comp = "retaining" /\ DriverUnlocked
  /\ comp' = "done"
  /\ entry' = IF entry.known = "yes" THEN [entry EXCEPT !.completed = "yes"] ELSE entry
  /\ UNCHANGED <<backend, evidence, client, seen, shutdown, expired, outcome, written, faults>>

-----------------------------------------------------------------------------
(* Shutdown, of the driver; it may be called again *)

Goes(step) == shutdown' = step /\ UNCHANGED <<client, comp, outcome, written>>
Go(step) == Goes(step) /\ UNCHANGED expired

DeadlinePasses ==
  /\ Deadline = "may pass"
  /\ shutdown \notin {"none", "returned", "panicked"}
  /\ expired' = "yes"
  /\ UNCHANGED <<backend, evidence, entry, client, seen, shutdown, comp, outcome, written, faults>>

ShutdownBegins ==
  /\ shutdown \in {"none", "returned"} /\ DriverUnlocked
  /\ Goes(IF entry.known = "yes" THEN "checking" ELSE "joining")
  /\ expired' = "no"
  /\ UNCHANGED <<backend, evidence, entry, seen, faults>>

ShutdownChecks ==
  /\ shutdown = "checking" /\ DriverUnlocked
  /\ seen' = entry.started
  /\ Go(IF entry.completed = "yes" THEN "joining" ELSE "stopping")
  /\ UNCHANGED <<backend, evidence, entry, faults>>

\* A bug that would leave prepared runs to Destroy alone.
ShutdownStopsStarted ==
  /\ shutdown = "stopping"
  /\ \/ entry.started = "yes" /\ Stopped
     \/ entry.started = "no" /\ UNCHANGED backend
  /\ Go("deciding")
  /\ UNCHANGED <<evidence, entry, seen, faults>>

ShutdownStops ==
  /\ shutdown = "stopping"
  /\ \/ expired = "no" /\ Stopped
     \/ (listed = "no" \/ expired = "yes") /\ UNCHANGED backend
  /\ Go("deciding")
  /\ UNCHANGED <<evidence, entry, seen, faults>>

\* Stop of a run that an abort has destroyed and not yet removed: there is no process
\* to kill, and the program ends at r.cmd.Process.
ShutdownPanics ==
  /\ shutdown = "stopping" /\ expired = "no"
  /\ listed = "yes" /\ state = "destroyed" /\ workload = "none"
  /\ state' = "stopping" /\ client' = "dead" /\ shutdown' = "panicked"
  /\ UNCHANGED <<listed, dir, workload, pipes, reaper, done, evidence, entry, seen, expired, comp,
                 outcome, written, faults>>

\* run.started is read without the lock: as it is, or as it last was with it.
ShutdownDecides ==
  /\ shutdown = "deciding"
  /\ \E started \in {seen, entry.started} :
       Go(IF started = "yes" THEN "joining" ELSE "destroying")
  /\ UNCHANGED <<backend, evidence, entry, seen, faults>>

DestroyBegins ==
  /\ shutdown = "destroying"
  /\ \/ (listed = "no" \/ expired = "yes") /\ Go("forgetting") /\ UNCHANGED backend
     \/ /\ listed = "yes" /\ expired = "no"
        /\ \/ state \in {"started", "stopping"} /\ Stopped /\ Go("awaiting")
           \/ state \notin {"started", "stopping"} /\ Go("marking") /\ UNCHANGED backend
  /\ UNCHANGED <<evidence, entry, seen, faults>>

DestroyAwaits ==
  /\ shutdown = "awaiting"
  /\ \/ done # "open" /\ Go("marking")
     \/ expired = "yes" /\ Go("forgetting")
  /\ UNCHANGED <<backend, evidence, entry, seen, faults>>

DestroyMarks ==
  /\ shutdown = "marking"
  /\ state' = "destroyed"
  /\ Go(IF state = "destroyed" THEN "forgetting" ELSE "removing")
  /\ UNCHANGED <<listed, dir, workload, pipes, reaper, done, evidence, entry, seen, faults>>

DestroyRemoves ==
  /\ shutdown = "removing"
  /\ Removes
  /\ Go("forgetting")
  /\ UNCHANGED <<state, workload, pipes, reaper, done, evidence, entry, seen>>

\* The driver forgets the run, destroyed or not.
ShutdownForgets ==
  /\ shutdown = "forgetting" /\ DriverUnlocked
  /\ entry' = [entry EXCEPT !.known = "no"]
  /\ Go("joining")
  /\ UNCHANGED <<backend, evidence, seen, faults>>

\* Shutdown waits for the goroutines that have been started.
ShutdownJoins ==
  /\ shutdown = "joining"
  /\ comp \in {"none", "done"} \/ expired = "yes"
  /\ Go("returned")
  /\ UNCHANGED <<backend, evidence, entry, seen, faults>>

-----------------------------------------------------------------------------

Init ==
  /\ state = "none" /\ listed = "no" /\ dir = "no"
  /\ workload = "none" /\ pipes = "closed" /\ reaper = "none" /\ done = "open"
  /\ records = <<>> /\ raw = <<>>
  /\ losses = NoLosses /\ health = [is |-> "none", losses |-> NoLosses, end |-> 0]
  /\ entry = [known |-> "no", started |-> "no", completed |-> "no"]
  /\ client = "idle" /\ seen = "no" /\ shutdown = "none" /\ expired = "no"
  /\ comp = "none" /\ outcome = "none" /\ written = 0 /\ faults = 0

Request == Prepare \/ PrepareEnters \/ Start \/ StartUnrecorded \/ StartEnters
           \/ Aborts \/ AbortGoesOn
Completion == Waits \/ Finalizes \/ ReadsRecords \/ Publishes \/ Retains
ShutdownGoesOn ==
  \/ ShutdownChecks \/ ShutdownStops \/ ShutdownPanics \/ ShutdownDecides \/ DestroyBegins
  \/ DestroyAwaits \/ DestroyMarks \/ DestroyRemoves \/ ShutdownForgets \/ ShutdownJoins

\* The program has ended in a panic.
Terminated == shutdown = "panicked" /\ UNCHANGED vars

Next ==
  \/ Request \/ WorkloadEnds \/ PipesClose \/ Writes \/ Reaps
  \/ ClientStops \/ Completion \/ ShutdownBegins \/ DeadlinePasses \/ ShutdownGoesOn
  \/ Terminated

Spec == Init /\ [][Next]_vars

\* Every thread goes on, a killed process ends, and its descendants do: nothing
\* makes them, but the backend counts on it.
Fairness ==
  /\ WF_vars(PrepareEnters) /\ WF_vars(StartEnters) /\ WF_vars(AbortGoesOn)
  /\ WF_vars(workload = "killed" /\ WorkloadEnds) /\ WF_vars(PipesClose)
  /\ WF_vars(Reaps) /\ WF_vars(Completion) /\ WF_vars(ShutdownGoesOn)

FairSpec == Spec /\ Fairness

-----------------------------------------------------------------------------

\* Evidence that reports no loss is all there is: the process record, every chunk
\* of output and then the exit, and the raw file holds these records and nothing
\* else ("A raw append failure means persistence did not acknowledge the
\* observation; it is never hidden", compat.go:479).
EvidenceIsComplete ==
  health.is = "reported" =>
    /\ health.losses = NoLosses =>
         /\ raw = Whole(records)
         /\ health.end = Len(records) /\ Len(records) = written + 3
         /\ \A i \in 2 .. written + 1 : records[i] = "output"
         /\ records[written + 2] = "process/exit"
    /\ health.losses = losses

\* A run that was destroyed, or whose directory is gone, has no process left that
\* works in it, whatever started while Shutdown was on its way.
DestroyedHasEnded ==
  state = "destroyed" \/ (dir = "no" /\ state # "none") =>
    workload \in {"none", "gone"} /\ pipes = "closed"

\* The reservation, seen from the driver, has the life ControlPlane gives it.
Proc ==
  CASE listed = "no" -> "none"
    [] listed = "yes" /\ workload = "none" /\ done = "open" -> "prepared"
    [] listed = "yes" /\ done # "open" -> "exited"
    [] listed = "yes" /\ workload # "none" /\ done = "open" ->
         IF state = "started" /\ reaper # "none" THEN "running" ELSE "killed"
Backend == INSTANCE Reservation WITH proc <- Proc
ImplementsReservation == Backend!Spec

\* A run whose workload has ended, or was killed, is let go by its goroutine, and
\* so a Shutdown that has no deadline is not kept waiting by it.
GoroutineEnds == comp = "waiting" /\ workload \in {"killed", "gone"} ~> comp = "done"

(* What the repository says and the code does not do *)

\* "Shutdown stops started workloads, destroys prepared workloads, and waits for
\* owned completion goroutines" (compat_driver.go:445); Close calls it without a
\* deadline, so it returns, or ends the program (ShutdownPanics).
ShutdownReturns == shutdown = "checking" ~> shutdown \in {"returned", "panicked"}
=============================================================================
