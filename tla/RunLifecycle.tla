---------------------------- MODULE RunLifecycle ----------------------------
(***************************************************************************)
(* What a reader of the persisted catalog may rely on: the life of every   *)
(* run as the sequence of its recorded statuses and verdicts.  ControlPlane *)
(* implements it with state.json as the catalog, whatever crashes, failed  *)
(* writes and restarts happen in between.                                  *)
(***************************************************************************)
CONSTANT Runs

VARIABLES
  status,  \* the recorded status of each run, "none" before it is created
  verdict  \* the recorded verification result, "none" before there is one

vars == <<status, verdict>>

Terminal == {"stopped", "completed", "failed"}

TypeOK ==
  /\ status \in [Runs -> {"none", "created", "running", "stopping"} \cup Terminal]
  /\ verdict \in [Runs -> {"none", "ineligible", "interrupted", "verification_error"}]

Init ==
  /\ status = [r \in Runs |-> "none"]
  /\ verdict = [r \in Runs |-> "none"]

Moves(r, from, to) == status[r] = from /\ status' = [status EXCEPT ![r] = to]

Create(r) == Moves(r, "none", "created") /\ UNCHANGED verdict
Start(r) == Moves(r, "created", "running") /\ UNCHANGED verdict
Stop(r) == Moves(r, "running", "stopping") /\ UNCHANGED verdict
StopRefused(r) == Moves(r, "stopping", "running") /\ UNCHANGED verdict

\* The driver could not prepare the run.
Unprepared(r) ==
  /\ Moves(r, "created", "failed")
  /\ verdict' = [verdict EXCEPT ![r] = "verification_error"]

\* A run ends by itself, or because it was being stopped.
Finish(r) ==
  /\ \/ Moves(r, "running", "completed")
     \/ Moves(r, "running", "failed")
     \/ Moves(r, "stopping", "stopped")
  /\ UNCHANGED verdict

\* Evidence is published once, for a run that has ended.
Publish(r) ==
  /\ status[r] \in Terminal /\ verdict[r] = "none"
  /\ verdict' = [verdict EXCEPT ![r] = "ineligible"]
  /\ UNCHANGED status

\* The evidence of a run that was started is found wanting.
Fail(r) ==
  /\ status[r] \in {"running", "stopping"} \cup Terminal
  /\ verdict[r] \in {"none", "ineligible"}
  /\ verdict' = [verdict EXCEPT ![r] = "verification_error"]
  /\ UNCHANGED status

\* A restart gives up a run whose evidence was not published.
Interrupt(r) ==
  /\ status[r] # "none"
  /\ verdict[r] \notin {"ineligible", "interrupted"}
  /\ status' = [status EXCEPT ![r] = "failed"]
  /\ verdict' = [verdict EXCEPT ![r] = "interrupted"]

Next ==
  \E r \in Runs :
    \/ Create(r) \/ Start(r) \/ Stop(r) \/ StopRefused(r) \/ Unprepared(r)
    \/ Finish(r) \/ Publish(r) \/ Fail(r) \/ Interrupt(r)

Spec == Init /\ [][Next]_vars
=============================================================================
