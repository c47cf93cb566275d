------------------------------- MODULE RunFeed -------------------------------
(***************************************************************************)
(* What clients of the HTTP interface see of the runs: the status and the  *)
(* event log of each, while the server serves, and what becomes of them    *)
(* while it does not.  ControlPlane implements it; FollowRun is the client *)
(* that relies on it.                                                      *)
(***************************************************************************)
EXTENDS Naturals, Sequences

CONSTANTS
  Runs,
  MaxEvents   \* bound on the log to which a normalized event is still appended

ASSUME MaxEventsAssumption == MaxEvents \in Nat

VARIABLES
  server,  \* "up"; "down": it ends or starts; "gone": no later start will succeed
  status,  \* the status of each run, "none" before it is created, "unseen" while nobody can ask
  feed     \* the events of each run: what a request would be answered, or would be if the server were up

vars == <<server, status, feed>>

Terminal == {"stopped", "completed", "failed"}
Statuses == {"none", "created", "running", "stopping"} \cup Terminal
Item == [seq : Nat \ {0}, what : {"start", "event"} \cup Terminal]

Ended(log) == log # <<>> /\ log[Len(log)].what \in Terminal
NextItem(log, what) == [seq |-> Len(log) + 1, what |-> what]
Extended(log, what) == Append(log, NextItem(log, what))

Init ==
  /\ server = "down"
  /\ status = [r \in Runs |-> "none"]
  /\ feed = [r \in Runs |-> <<>>]

Moves(r, from, to) == status[r] = from /\ status' = [status EXCEPT ![r] = to]
Grows(r, what) == feed' = [feed EXCEPT ![r] = Extended(@, what)]

Create(r) == server = "up" /\ Moves(r, "none", "created") /\ UNCHANGED <<server, feed>>
Unprepared(r) == Moves(r, "created", "failed") /\ UNCHANGED <<server, feed>>
Start(r) == Moves(r, "created", "running") /\ Grows(r, "start") /\ UNCHANGED server
Stop(r) == Moves(r, "running", "stopping") /\ UNCHANGED <<server, feed>>
StopRefused(r) == Moves(r, "stopping", "running") /\ UNCHANGED <<server, feed>>

\* Events are appended to a run that has been started and has not ended.
AppendEvent(r) ==
  /\ status[r] \in {"running", "stopping"}
  /\ Len(feed[r]) < MaxEvents
  /\ Grows(r, "event")
  /\ UNCHANGED <<server, status>>

\* The status changes together with the last event.
Finish(r) ==
  \E s \in Terminal :
    /\ Moves(r, IF s = "stopped" THEN "stopping" ELSE "running", s)
    /\ Grows(r, s)
    /\ UNCHANGED server

\* The server stops serving; what runs goes on for a while.
StopServing == server = "up" /\ server' = "down" /\ UNCHANGED <<status, feed>>

\* What an append that was never acknowledged may have left in the file of a run.
Left(r) ==
  CASE status[r] = "created" -> {"start"}
    [] status[r] \in {"running", "stopping"} -> {"event"} \cup Terminal
    [] OTHER -> {}

\* The process ends, and one such event may come to light in each log.
Exit ==
  /\ server # "gone" /\ server' = "down"
  /\ status' = [r \in Runs |-> IF status[r] = "none" THEN "none" ELSE "unseen"]
  /\ \E left \in [Runs -> {"nothing", "start", "event"} \cup Terminal] :
       /\ \A r \in Runs : left[r] \in Left(r) \cup {"nothing"}
       /\ feed' = [r \in Runs |-> IF left[r] = "nothing" THEN feed[r] ELSE Extended(feed[r], left[r])]

\* A start of the process ends the log of a run that had not ended.
Recover(r) ==
  /\ server = "down" /\ status[r] = "unseen"
  /\ ~Ended(feed[r])
  /\ Grows(r, "failed")
  /\ UNCHANGED <<server, status>>

\* It serves again when every run has ended.
Serve ==
  /\ server = "down" /\ server' = "up"
  /\ \A r \in Runs : status[r] \in {"none", "unseen"}
  /\ \A r \in Runs : status[r] = "unseen" => Ended(feed[r])
  /\ \E s \in [Runs -> Terminal] :
       status' = [r \in Runs |-> IF status[r] = "none" THEN "none" ELSE s[r]]
  /\ UNCHANGED feed

\* The data directory cannot be opened any more.
Ruin == server' = "gone" /\ status' = [r \in Runs |-> "unseen"] /\ feed' = [r \in Runs |-> <<>>]

Next ==
  \/ \E r \in Runs :
       Create(r) \/ Unprepared(r) \/ Start(r) \/ Stop(r) \/ StopRefused(r)
         \/ AppendEvent(r) \/ Finish(r) \/ Recover(r)
  \/ StopServing \/ Exit \/ Serve \/ Ruin

Spec == Init /\ [][Next]_vars
=============================================================================
