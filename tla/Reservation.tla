---------------------------- MODULE Reservation ----------------------------
(***************************************************************************)
(* What a driver may rely on of the backend reservation of one run: the    *)
(* life that ControlPlane gives to `proc'.  CompatRun and GvisorRun        *)
(* implement it.                                                           *)
(***************************************************************************)
VARIABLE proc  \* "none", "prepared", "running", "killed" or "exited"

Init == proc = "none"

Prepare == proc = "none" /\ proc' = "prepared"

\* A start that fails after the workload was created leaves it killed.
Start == proc = "prepared" /\ proc' \in {"running", "killed"}

\* What was only prepared has exited as soon as it is stopped.
Stop ==
  \/ proc = "running" /\ proc' = "killed"
  \/ proc = "prepared" /\ proc' = "exited"

Exit == proc \in {"running", "killed"} /\ proc' = "exited"

\* A workload that has not exited is never given up.
Destroy == proc \in {"prepared", "exited"} /\ proc' = "none"

Next == Prepare \/ Start \/ Stop \/ Exit \/ Destroy

Spec == Init /\ [][Next]_proc
=============================================================================
