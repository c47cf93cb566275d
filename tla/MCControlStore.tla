--------------------------- MODULE MCControlStore ---------------------------
(* Small instances of ControlStore for TLC. *)
EXTENDS ControlStore, TLC

Symmetry == Permutations(Runs)

\* Two runs whose driver answers the store and never calls it: the requests of
\* clients, their retries and the restarts between them.
ClientsNext ==
  \/ \E r \in Runs :
       ClientStep(r) \/ DriverAnswers(r) \/ Recovery(r)
         \/ (Held("recoverSeal", r) /\ CrashInSeal(r))
  \/ OpenStore \/ OpenStoreRefuses \/ Serve \/ Drain \/ Close \/ Exit \/ Crash
ClientsSpec == Init /\ [][ClientsNext]_vars
=============================================================================
