-------------------------- MODULE GvisorRunProofs --------------------------
(***************************************************************************)
(* What the gVisor backend promises, for any number of failures and        *)
(* samples: no resource that exists is forgotten, a verdict that stays     *)
(* published means that everything known was removed or that the Store has *)
(* latched, reported health stays true, cleanup follows collection, and    *)
(* the reservation has the life ControlPlane gives it.                     *)
(***************************************************************************)
EXTENDS GvisorRun, TLAPS

Steps == {"none", "asked", "awaiting", "removing", "ok", "failed"}

\* Removed from Backend.runs only with nothing left on its books.  The reaper may
\* overwrite the state of such a run, so this is not said of "destroyed".
DelistedIsEmpty == listed = "no" /\ state # "none" => owned = {}
DestroyedIsDelisted == state = "destroyed" => listed = "no"

\* Whoever was told that the run is destroyed was told the truth, and whoever is
\* about to remove resources has a run to remove them from.
DestroyIsTrue ==
  \A c \in Callers :
    /\ destroy[c] = "ok" => listed = "no" /\ state # "none"
    /\ destroy[c] \in {"awaiting", "removing"} => state # "none"

PublishedWasDestroyed ==
  comp = "done" /\ outcome = "published" /\ latched = "no" => destroy["goroutine"] = "ok"

\* Until the driver enters the run nobody else has hold of it.
Untouched ==
  /\ comp = "none" /\ entry.known = "no"
  /\ shutdown \in {"none", "joining", "returned"}
  /\ \A c \in Callers : destroy[c] = "none"

PreparedIsUntouched ==
  /\ state = "none" => client = "idle" /\ listed = "no" /\ reaper = "none" /\ Untouched
  /\ client = "preparing" => listed = "yes" /\ Untouched

OwnershipInv ==
  /\ destroy \in [Callers -> Steps]
  /\ ResourcesAreOwned
  /\ DelistedIsEmpty /\ DestroyedIsDelisted
  /\ DestroyIsTrue
  /\ PublishedWasDestroyed
  /\ PreparedIsUntouched

-----------------------------------------------------------------------------

LEMMA InitOwnership == Init => OwnershipInv
  BY DEF Init, OwnershipInv, Steps, Callers, ResourcesAreOwned, DelistedIsEmpty,
         DestroyedIsDelisted, DestroyIsTrue, PublishedWasDestroyed, PreparedIsUntouched,
         Untouched

LEMMA OwnershipStep == OwnershipInv /\ [Next]_vars => OwnershipInv'
<1> SUFFICES ASSUME OwnershipInv, [Next]_vars PROVE OwnershipInv'
  OBVIOUS
<1> USE DEF OwnershipInv, Steps, Callers, ResourcesAreOwned, DelistedIsEmpty,
         DestroyedIsDelisted, DestroyIsTrue, PublishedWasDestroyed, PreparedIsUntouched,
         Untouched,
         vars, backend, resources, evidence, threads
<1>0. CASE StoreLatches
  BY <1>0 DEF StoreLatches
<1>1. CASE Prepare
  BY <1>1 DEF Prepare
<1>2. CASE PrepareEnters
  BY <1>2 DEF PrepareEnters
<1>3. CASE Start
  BY <1>3 DEF Start, Startable, Up, Known
<1>4. CASE StartWithoutNetwork
  BY <1>4 DEF StartWithoutNetwork, Startable
<1>5. CASE StartAborts
  BY <1>5 DEF StartAborts, Startable, Up, Known, Gateways
<1>6. CASE Aborts
  BY <1>6 DEF Aborts
<1>7. CASE RequestReturns
  BY <1>7 DEF RequestReturns
<1>8. CASE WorkloadEnds
  BY <1>8 DEF WorkloadEnds
<1>9. CASE Samples
  BY <1>9 DEF Samples
<1>10. CASE SamplerEnds
  BY <1>10 DEF SamplerEnds
<1>11. CASE ReaperCollects
  <2>1. /\ reaper = "waiting" /\ state' = "exited"
        /\ UNCHANGED <<listed, resources, threads>>
    BY <1>11, Zenon DEF ReaperCollects
  <2>2. state # "none"
    BY <2>1
  <2>3. QED
    BY <2>1, <2>2
<1>12. CASE ReaperEnds
  BY <1>12 DEF ReaperEnds
<1>13. CASE ClientStops
  BY <1>13 DEF ClientStops, Stopped
<1>14. CASE Waits
  BY <1>14 DEF Waits, CompGoes, Lost
<1>15. CASE CompletesRun
  BY <1>15 DEF CompletesRun, CompGoes, Lost
<1>16. CASE Finalizes
  BY <1>16 DEF Finalizes, CompGoes, Lost
<1>17. CASE ReadsRecords
  BY <1>17 DEF ReadsRecords, CompGoes, Lost
<1>18. CASE Publishes
  BY <1>18 DEF Publishes, Recorded, Lost
<1>19. CASE FinishDestroys
  BY <1>19 DEF FinishDestroys, DestroyGoes
<1>20. CASE Finishes
  BY <1>20 DEF Finishes, CompGoes, Recorded
<1>21. CASE ShutdownBegins
  BY <1>21 DEF ShutdownBegins, Goes
<1>22. CASE DeadlinePasses
  BY <1>22 DEF DeadlinePasses
<1>23. CASE ShutdownChecks
  BY <1>23 DEF ShutdownChecks, Go, Goes
<1>24. CASE ShutdownStops
  BY <1>24 DEF ShutdownStops, Stopped, Go, Goes
<1>25. CASE ShutdownJoins
  BY <1>25 DEF ShutdownJoins, Go, Goes
<1>26. CASE ShutdownDecides
  BY <1>26 DEF ShutdownDecides, Go, Goes, DestroyGoes
<1>27. CASE ShutdownForgets
  BY <1>27 DEF ShutdownForgets, Go, Goes
<1>28. ASSUME NEW c \in Callers, DestroyBegins(c) PROVE OwnershipInv'
  BY <1>28 DEF DestroyBegins, DestroyGoes, Stopped
<1>29. ASSUME NEW c \in Callers, DestroyAwaits(c) PROVE OwnershipInv'
  BY <1>29 DEF DestroyAwaits, DestroyGoes
<1>30. ASSUME NEW c \in Callers, DestroyRemoves(c) PROVE OwnershipInv'
  BY <1>30 DEF DestroyRemoves, DestroyGoes
<1>31. CASE UNCHANGED vars
  BY <1>31
<1>32. QED
  BY <1>0, <1>1, <1>2, <1>3, <1>4, <1>5, <1>6, <1>7, <1>8, <1>9, <1>10, <1>11, <1>12,
     <1>13, <1>14, <1>15, <1>16, <1>17, <1>18, <1>19, <1>20, <1>21, <1>22, <1>23,
     <1>24, <1>25, <1>26, <1>27, <1>28, <1>29, <1>30, <1>31
     DEF Next, Request, Reaper, Completion, ShutdownGoesOn, Destroys

\* What a step of any thread leaves in Docker or on disk is on the run's books, or
\* comes from a create command that had reported a failure, however many commands
\* fail and in whatever order Start, Destroy and the Shutdown that may overtake
\* them take the run's mutex.
THEOREM Ownership == Spec => []ResourcesAreOwned
<1>1. OwnershipInv => ResourcesAreOwned
  BY DEF OwnershipInv
<1>2. QED
  BY <1>1, InitOwnership, OwnershipStep, PTL DEF Spec

\* A verdict that is still published when the completion goroutine is done means
\* that the run has nothing left, or that the Store has latched: GvisorDriver.finish
\* has it replaced otherwise, and only a latched Store does not do so.
THEOREM Cleanup == Spec => []PublishedIsCleanedUp
<1>1. OwnershipInv => PublishedIsCleanedUp
  BY DEF OwnershipInv, PublishedIsCleanedUp, PublishedWasDestroyed, DestroyIsTrue,
         DelistedIsEmpty, Callers
<1>2. QED
  BY <1>1, InitOwnership, OwnershipStep, PTL DEF Spec

-----------------------------------------------------------------------------
(* The life of the reservation and of its evidence *)

\* A run that was never started has nothing; Start brings reaper, sampler and
\* completion goroutine together.
StartedTogether ==
  /\ state \in {"none", "prepared"} => workload = "none" /\ reaper = "none" /\ done = "open"
  /\ client = "preparing" => state = "prepared"
  /\ reaper = "none" <=> comp = "none"
  /\ reaper = "none" => sampler = "none" /\ destroy["goroutine"] = "none"
  /\ entry.started = "no" \/ client # "idle" => reaper = "none"

\* run.done is open as long as the reaper is at work, and closed for good once it
\* ends, or once a run is given up that had not been started.
DoneIsFinal ==
  /\ reaper \in {"waiting", "collected"} => done = "open"
  /\ reaper = "ended" => done # "open" /\ sampler = "ended"
  /\ state \notin {"none", "prepared"} /\ reaper = "none" => done # "open"
  /\ comp \in {"completing", "finalizing", "reading", "publishing"} => done # "open"
  /\ comp \in {"finishing", "done"} => done # "open" \/ listed = "no"
  /\ destroy["goroutine"] # "none" => comp \in {"finishing", "done"}

\* Who may be removing the resources of a run that has not ended: only a Shutdown
\* that overtook its start.
RemovalsAreOrdered ==
  /\ destroy["request"] \in {"asked", "awaiting", "removing"} =>
       client \in {"starting", "aborting"}
  /\ destroy["shutdown"] \in {"asked", "awaiting", "removing"} => shutdown = "destroying"
  /\ destroy["shutdown"] # "none" => shutdown # "none"
  /\ shutdown \in {"deciding", "destroying"} /\ drained = "yes" =>
       comp \in {"none", "done"} \/ expired = "yes"
  /\ \A c \in Callers :
       destroy[c] = "removing" /\ done = "open" =>
         reaper = "none" \/ (c = "shutdown" /\ drained = "no")

\* Resources that went too early are missed by the reaper, or were.
MissedIsCounted ==
  premature = "yes" =>
    /\ drained = "no" /\ shutdown # "none" /\ reaper # "none"
    /\ reaper = "waiting" => ~({"container", "workspace"} \subseteq world)
    /\ reaper \in {"collected", "ended"} => losses = "counted"

EvidenceSoFar ==
  /\ health.is = "reported" =>
       /\ reaper = "ended" /\ comp \in {"reading", "publishing", "finishing", "done"}
       /\ health.end = records /\ health.losses = losses
  /\ losses = "none" /\ raw = "spoiled" => health.is = "none" /\ comp \in {"finishing", "done"}

GvisorInv ==
  /\ OwnershipInv /\ TypeOK
  /\ StartedTogether /\ DoneIsFinal /\ RemovalsAreOrdered
  /\ MissedIsCounted /\ EvidenceSoFar

LEMMA InitGvisor == Init => GvisorInv
  BY InitOwnership
     DEF Init, GvisorInv, TypeOK, StartedTogether, DoneIsFinal, RemovalsAreOrdered,
         MissedIsCounted, EvidenceSoFar, Callers

LEMMA TypeStep == GvisorInv /\ [Next]_vars => TypeOK'
<1> SUFFICES ASSUME GvisorInv, [Next]_vars PROVE TypeOK'
  OBVIOUS
<1> USE DEF GvisorInv, TypeOK, StartedTogether, DoneIsFinal, vars, backend, resources, evidence,
       threads
<1>0. CASE StoreLatches
  BY <1>0 DEF StoreLatches
<1>1. CASE Prepare
  <2>1. world' = {"workspace", "proxydir"} /\ owned' = {"workspace", "proxydir"}
    BY <1>1 DEF Prepare
  <2>2. world' \subseteq Resources /\ owned' \subseteq Resources
    BY <2>1 DEF Resources
  <2> QED
    BY <1>1, <2>2 DEF Prepare
<1>2. CASE PrepareEnters
  BY <1>2 DEF PrepareEnters, Closed
<1>3. CASE Start
  <2>1. PICK gateway \in Gateways :
          /\ world' = world \cup Up(gateway) \cup {"container"}
          /\ owned' = owned \cup Known(gateway) \cup {"container"}
          /\ stray' = stray \cup (Up(gateway) \ Known(gateway))
          /\ IF gateway = "up" THEN Collected
             ELSE Fault /\ records' = records + 1 /\ losses' = "counted" /\ UNCHANGED raw
    BY <1>3 DEF Start
  <2>2. world' \subseteq Resources /\ owned' \subseteq Resources /\ stray' \subseteq Resources
    BY <2>1 DEF Resources, Up, Known
  <2>3. records' \in Nat /\ raw' \in {"exact", "spoiled"} /\ losses' \in {"none", "counted"}
    BY <2>1 DEF Collected
  <2>4. entry' \in [known : {"yes", "no"}, started : {"yes", "no"}, completed : {"yes", "no"}]
    BY <1>3 DEF Start
  <2> QED
    BY <1>3, <2>2, <2>3, <2>4 DEF Start
<1>4. CASE StartWithoutNetwork
  <2>1. world' \subseteq Resources /\ stray' \subseteq Resources
    BY <1>4 DEF StartWithoutNetwork, Resources
  <2>2. destroy' \in [Callers -> {"none", "asked", "awaiting", "removing", "ok", "failed"}]
    BY <1>4 DEF StartWithoutNetwork
  <2> QED
    BY <1>4, <2>1, <2>2 DEF StartWithoutNetwork
<1>5. CASE StartAborts
  <2>1. PICK gateway \in Gateways : \E left \in SUBSET (Known(gateway) \cup {"container"}) :
          /\ world' = world \cup left \cup (Up(gateway) \ Known(gateway))
          /\ owned' = owned \cup left
          /\ stray' = stray \cup (Up(gateway) \ Known(gateway))
    BY <1>5 DEF StartAborts
  <2>2. world' \subseteq Resources /\ owned' \subseteq Resources /\ stray' \subseteq Resources
    BY <2>1 DEF Resources, Up, Known
  <2>3. destroy' \in [Callers -> {"none", "asked", "awaiting", "removing", "ok", "failed"}]
    BY <1>5 DEF StartAborts
  <2>4. records' \in Nat /\ losses' \in {"none", "counted"}
    BY <1>5 DEF StartAborts
  <2>5. state' \in {"prepared", "destroying"} /\ done' \in {"open", "closed"}
    BY <1>5 DEF StartAborts, Startable, Closed
  <2> QED
    BY <1>5, <2>2, <2>3, <2>4, <2>5 DEF StartAborts
<1>6. CASE Aborts
  <2>1. destroy' \in [Callers -> {"none", "asked", "awaiting", "removing", "ok", "failed"}]
    BY <1>6 DEF Aborts
  <2>2. entry' \in [known : {"yes", "no"}, started : {"yes", "no"}, completed : {"yes", "no"}]
    BY <1>6 DEF Aborts
  <2> QED
    BY <1>6, <2>1, <2>2 DEF Aborts
<1>7. CASE RequestReturns
  BY <1>7 DEF RequestReturns
<1>8. CASE WorkloadEnds
  BY <1>8 DEF WorkloadEnds
<1>9. CASE Samples
  BY <1>9 DEF Samples, Appended, NotAppended, AppendedOrCounted, Collected, Fault
<1>10. CASE SamplerEnds
  BY <1>10 DEF SamplerEnds, Appended, NotAppended, AppendedOrCounted, Collected, Fault
<1>11. CASE ReaperCollects
  BY <1>11 DEF ReaperCollects, Appended, NotAppended, AppendedOrCounted, Collected, Fault
<1>12. CASE ReaperEnds
  BY <1>12 DEF ReaperEnds, Closed
<1>13. CASE ClientStops
  BY <1>13 DEF ClientStops, Stopped, Closed
<1>14. CASE Waits
  BY <1>14 DEF Waits, CompGoes, Lost
<1>15. CASE CompletesRun
  BY <1>15 DEF CompletesRun, CompGoes, Lost
<1>16. CASE Finalizes
  BY <1>16 DEF Finalizes, CompGoes, Lost, Appended, NotAppended, AppendedOrCounted, Collected, Fault
<1>17. CASE ReadsRecords
  BY <1>17 DEF ReadsRecords, CompGoes, Lost
<1>18. CASE Publishes
  BY <1>18 DEF Publishes, Recorded, Lost
<1>19. CASE FinishDestroys
  <2>1. destroy' \in [Callers -> {"none", "asked", "awaiting", "removing", "ok", "failed"}]
    BY <1>19 DEF FinishDestroys, DestroyGoes, Callers
  <2> QED
    BY <1>19, <2>1 DEF FinishDestroys, DestroyGoes
<1>20. CASE Finishes
  BY <1>20 DEF Finishes, CompGoes, Recorded
<1>21. CASE ShutdownBegins
  BY <1>21 DEF ShutdownBegins, Go, Goes
<1>22. CASE DeadlinePasses
  BY <1>22 DEF DeadlinePasses
<1>23. CASE ShutdownChecks
  BY <1>23 DEF ShutdownChecks, Go, Goes
<1>24. CASE ShutdownStops
  BY <1>24 DEF ShutdownStops, Go, Goes, Stopped, Closed
<1>25. CASE ShutdownJoins
  BY <1>25 DEF ShutdownJoins, Go, Goes
<1>26. CASE ShutdownDecides
  BY <1>26 DEF ShutdownDecides, DestroyGoes, Go, Goes
<1>27. CASE ShutdownForgets
  BY <1>27 DEF ShutdownForgets, Go, Goes
<1>28. ASSUME NEW c \in Callers, DestroyBegins(c) PROVE TypeOK'
  BY <1>28 DEF DestroyBegins, DestroyGoes, Stopped, Closed, Expired
<1>29. ASSUME NEW c \in Callers, DestroyAwaits(c) PROVE TypeOK'
  BY <1>29 DEF DestroyAwaits, DestroyGoes, Expired
<1>30. ASSUME NEW c \in Callers, DestroyRemoves(c) PROVE TypeOK'
  BY <1>30 DEF DestroyRemoves, DestroyGoes, Closed
<1>31. CASE UNCHANGED vars
  BY <1>31
<1> QED
  BY <1>0, <1>1, <1>2, <1>3, <1>4, <1>5, <1>6, <1>7, <1>8, <1>9, <1>10, <1>11, <1>12, <1>13, <1>14,
         <1>15, <1>16, <1>17, <1>18, <1>19, <1>20, <1>21, <1>22, <1>23, <1>24, <1>25, <1>26,
         <1>27, <1>28, <1>29, <1>30, <1>31
     DEF Next, Request, Reaper, Completion, ShutdownGoesOn, Destroys

LEMMA LifeStep ==
  GvisorInv /\ [Next]_vars => (StartedTogether /\ DoneIsFinal /\ RemovalsAreOrdered)'
<1> SUFFICES ASSUME GvisorInv, [Next]_vars
             PROVE  (StartedTogether /\ DoneIsFinal /\ RemovalsAreOrdered)'
  OBVIOUS
<1> USE DEF GvisorInv, OwnershipInv, PreparedIsUntouched, Untouched, DestroyIsTrue, Callers,
       TypeOK, StartedTogether, DoneIsFinal, RemovalsAreOrdered, vars, backend, resources,
       evidence, threads
<1>0. CASE StoreLatches
  BY <1>0 DEF StoreLatches
<1>1. CASE Prepare
  BY <1>1 DEF Prepare
<1>2. CASE PrepareEnters
  BY <1>2 DEF PrepareEnters, Closed
<1>3. CASE Start
  BY <1>3 DEF Start, Startable, Up, Known, Gateways, Accepting
<1>4. CASE StartWithoutNetwork
  BY <1>4 DEF StartWithoutNetwork, Startable, Accepting
<1>5. CASE StartAborts
  BY <1>5 DEF StartAborts, Startable, Up, Known, Gateways, Closed, Accepting
<1>6. CASE Aborts
  BY <1>6 DEF Aborts
<1>7. CASE RequestReturns
  BY <1>7 DEF RequestReturns
<1>8. CASE WorkloadEnds
  BY <1>8 DEF WorkloadEnds
<1>9. CASE Samples
  BY <1>9 DEF Samples
<1>10. CASE SamplerEnds
  BY <1>10 DEF SamplerEnds
<1>11. CASE ReaperCollects
  BY <1>11 DEF ReaperCollects
<1>12. CASE ReaperEnds
  BY <1>12 DEF ReaperEnds, Closed
<1>13. CASE ClientStops
  BY <1>13 DEF ClientStops, Stopped, Closed
<1>14. CASE Waits
  BY <1>14 DEF Waits, CompGoes, Lost
<1>15. CASE CompletesRun
  BY <1>15 DEF CompletesRun, CompGoes, Lost
<1>16. CASE Finalizes
  BY <1>16 DEF Finalizes, CompGoes, Lost
<1>17. CASE ReadsRecords
  BY <1>17 DEF ReadsRecords, CompGoes, Lost
<1>18. CASE Publishes
  BY <1>18 DEF Publishes, Recorded, Lost
<1>19. CASE FinishDestroys
  BY <1>19 DEF FinishDestroys, DestroyGoes
<1>20. CASE Finishes
  BY <1>20 DEF Finishes, CompGoes, Recorded
<1>21. CASE ShutdownBegins
  BY <1>21 DEF ShutdownBegins, Go, Goes
<1>22. CASE DeadlinePasses
  BY <1>22 DEF DeadlinePasses
<1>23. CASE ShutdownChecks
  BY <1>23 DEF ShutdownChecks, Go, Goes
<1>24. CASE ShutdownStops
  BY <1>24 DEF ShutdownStops, Go, Goes, Stopped, Closed
<1>25. CASE ShutdownJoins
  BY <1>25 DEF ShutdownJoins, Go, Goes
<1>26. CASE ShutdownDecides
  BY <1>26 DEF ShutdownDecides, DestroyGoes, Go, Goes
<1>27. CASE ShutdownForgets
  BY <1>27 DEF ShutdownForgets, Go, Goes
<1>28. ASSUME NEW c \in Callers, DestroyBegins(c)
             PROVE  (StartedTogether /\ DoneIsFinal /\ RemovalsAreOrdered)'
  BY <1>28 DEF DestroyBegins, DestroyGoes, Stopped, Closed, Expired
<1>29. ASSUME NEW c \in Callers, DestroyAwaits(c)
             PROVE  (StartedTogether /\ DoneIsFinal /\ RemovalsAreOrdered)'
  BY <1>29 DEF DestroyAwaits, DestroyGoes, Expired
<1>30. ASSUME NEW c \in Callers, DestroyRemoves(c)
             PROVE  (StartedTogether /\ DoneIsFinal /\ RemovalsAreOrdered)'
  BY <1>30 DEF DestroyRemoves, DestroyGoes, Closed
<1>31. CASE UNCHANGED vars
  BY <1>31
<1> QED
  BY <1>0, <1>1, <1>2, <1>3, <1>4, <1>5, <1>6, <1>7, <1>8, <1>9, <1>10, <1>11, <1>12, <1>13, <1>14,
         <1>15, <1>16, <1>17, <1>18, <1>19, <1>20, <1>21, <1>22, <1>23, <1>24, <1>25, <1>26,
         <1>27, <1>28, <1>29, <1>30, <1>31
     DEF Next, Request, Reaper, Completion, ShutdownGoesOn, Destroys

LEMMA EvidenceStep == GvisorInv /\ [Next]_vars => (MissedIsCounted /\ EvidenceSoFar)'
<1> SUFFICES ASSUME GvisorInv, [Next]_vars PROVE (MissedIsCounted /\ EvidenceSoFar)'
  OBVIOUS
<1> USE DEF GvisorInv, MissedIsCounted, EvidenceSoFar, TypeOK, StartedTogether, DoneIsFinal,
       RemovalsAreOrdered, vars, backend, resources, evidence, threads
<1>0. CASE StoreLatches
  BY <1>0 DEF StoreLatches
<1>1. CASE Prepare
  BY <1>1 DEF Prepare
<1>2. CASE PrepareEnters
  BY <1>2 DEF PrepareEnters, Closed
<1>3. CASE Start
  BY <1>3
     DEF Start, Startable, Up, Known, Gateways, Appended, NotAppended, AppendedOrCounted,
         Collected, Fault
<1>4. CASE StartWithoutNetwork
  BY <1>4 DEF StartWithoutNetwork, Startable
<1>5. CASE StartAborts
  BY <1>5 DEF StartAborts, Startable, Up, Known, Gateways, Closed
<1>6. CASE Aborts
  BY <1>6 DEF Aborts
<1>7. CASE RequestReturns
  BY <1>7 DEF RequestReturns
<1>8. CASE WorkloadEnds
  BY <1>8 DEF WorkloadEnds
<1>9. CASE Samples
  BY <1>9 DEF Samples, Appended, NotAppended, AppendedOrCounted, Collected, Fault
<1>10. CASE SamplerEnds
  BY <1>10 DEF SamplerEnds, Appended, NotAppended, AppendedOrCounted, Collected, Fault
<1>11. CASE ReaperCollects
  BY <1>11 DEF ReaperCollects, Appended, NotAppended, AppendedOrCounted, Collected, Fault
<1>12. CASE ReaperEnds
  BY <1>12 DEF ReaperEnds, Closed
<1>13. CASE ClientStops
  BY <1>13 DEF ClientStops, Stopped, Closed
<1>14. CASE Waits
  BY <1>14 DEF Waits, CompGoes, Lost
<1>15. CASE CompletesRun
  BY <1>15 DEF CompletesRun, CompGoes, Lost
<1>16. CASE Finalizes
  BY <1>16 DEF Finalizes, CompGoes, Lost, Appended, NotAppended, AppendedOrCounted, Collected, Fault
<1>17. CASE ReadsRecords
  BY <1>17 DEF ReadsRecords, CompGoes, Lost
<1>18. CASE Publishes
  BY <1>18 DEF Publishes, Recorded, Lost
<1>19. CASE FinishDestroys
  BY <1>19 DEF FinishDestroys, DestroyGoes
<1>20. CASE Finishes
  BY <1>20 DEF Finishes, CompGoes, Recorded
<1>21. CASE ShutdownBegins
  BY <1>21 DEF ShutdownBegins, Go, Goes
<1>22. CASE DeadlinePasses
  BY <1>22 DEF DeadlinePasses
<1>23. CASE ShutdownChecks
  BY <1>23 DEF ShutdownChecks, Go, Goes
<1>24. CASE ShutdownStops
  BY <1>24 DEF ShutdownStops, Go, Goes, Stopped, Closed
<1>25. CASE ShutdownJoins
  BY <1>25 DEF ShutdownJoins, Go, Goes
<1>26. CASE ShutdownDecides
  BY <1>26 DEF ShutdownDecides, DestroyGoes, Go, Goes
<1>27. CASE ShutdownForgets
  BY <1>27 DEF ShutdownForgets, Go, Goes
<1>28. ASSUME NEW c \in Callers, DestroyBegins(c) PROVE (MissedIsCounted /\ EvidenceSoFar)'
  BY <1>28 DEF DestroyBegins, DestroyGoes, Stopped, Closed, Expired
<1>29. ASSUME NEW c \in Callers, DestroyAwaits(c) PROVE (MissedIsCounted /\ EvidenceSoFar)'
  BY <1>29 DEF DestroyAwaits, DestroyGoes, Expired
<1>30. ASSUME NEW c \in Callers, DestroyRemoves(c) PROVE (MissedIsCounted /\ EvidenceSoFar)'
  BY <1>30 DEF DestroyRemoves, DestroyGoes, Closed, TooEarly
<1>31. CASE UNCHANGED vars
  BY <1>31
<1> QED
  BY <1>0, <1>1, <1>2, <1>3, <1>4, <1>5, <1>6, <1>7, <1>8, <1>9, <1>10, <1>11, <1>12, <1>13, <1>14,
         <1>15, <1>16, <1>17, <1>18, <1>19, <1>20, <1>21, <1>22, <1>23, <1>24, <1>25, <1>26,
         <1>27, <1>28, <1>29, <1>30, <1>31
     DEF Next, Request, Reaper, Completion, ShutdownGoesOn, Destroys

LEMMA ReservationStep ==
  GvisorInv /\ [Next]_vars => [Backend!Next \/ (drained = "no" /\ Proc' = "none")]_Proc
<1> SUFFICES ASSUME GvisorInv, [Next]_vars
             PROVE  [Backend!Next \/ (drained = "no" /\ Proc' = "none")]_Proc
  OBVIOUS
<1> USE DEF GvisorInv, TypeOK, DestroyIsTrue, Proc, Backend!Next, Backend!Prepare, Backend!Start,
       Backend!Stop, Backend!Exit, Backend!Destroy, StartedTogether, DoneIsFinal,
       RemovalsAreOrdered, vars, backend, resources, evidence, threads
<1>0. CASE StoreLatches
  BY <1>0 DEF StoreLatches
<1>1. CASE Prepare
  BY <1>1 DEF Prepare, OwnershipInv, PreparedIsUntouched
<1>2. CASE PrepareEnters
  BY <1>2 DEF PrepareEnters, Closed, OwnershipInv, PreparedIsUntouched
<1>3. CASE Start
  BY <1>3 DEF Start, Startable, Up, Known, Gateways
<1>4. CASE StartWithoutNetwork
  BY <1>4 DEF StartWithoutNetwork, Startable
<1>5. CASE StartAborts
  BY <1>5 DEF StartAborts, Startable, Up, Known, Gateways, Closed
<1>6. CASE Aborts
  BY <1>6 DEF Aborts
<1>7. CASE RequestReturns
  BY <1>7 DEF RequestReturns
<1>8. CASE WorkloadEnds
  BY <1>8 DEF WorkloadEnds
<1>9. CASE Samples
  BY <1>9 DEF Samples
<1>10. CASE SamplerEnds
  BY <1>10 DEF SamplerEnds
<1>11. CASE ReaperCollects
  BY <1>11 DEF ReaperCollects
<1>12. CASE ReaperEnds
  BY <1>12 DEF ReaperEnds, Closed
<1>13. CASE ClientStops
  BY <1>13 DEF ClientStops, Stopped, Closed
<1>14. CASE Waits
  BY <1>14 DEF Waits, CompGoes, Lost
<1>15. CASE CompletesRun
  BY <1>15 DEF CompletesRun, CompGoes, Lost
<1>16. CASE Finalizes
  BY <1>16 DEF Finalizes, CompGoes, Lost
<1>17. CASE ReadsRecords
  BY <1>17 DEF ReadsRecords, CompGoes, Lost
<1>18. CASE Publishes
  BY <1>18 DEF Publishes, Recorded, Lost
<1>19. CASE FinishDestroys
  BY <1>19 DEF FinishDestroys, DestroyGoes
<1>20. CASE Finishes
  BY <1>20 DEF Finishes, CompGoes, Recorded
<1>21. CASE ShutdownBegins
  BY <1>21 DEF ShutdownBegins, Go, Goes
<1>22. CASE DeadlinePasses
  BY <1>22 DEF DeadlinePasses
<1>23. CASE ShutdownChecks
  BY <1>23 DEF ShutdownChecks, Go, Goes
<1>24. CASE ShutdownStops
  BY <1>24 DEF ShutdownStops, Go, Goes, Stopped, Closed
<1>25. CASE ShutdownJoins
  BY <1>25 DEF ShutdownJoins, Go, Goes
<1>26. CASE ShutdownDecides
  BY <1>26 DEF ShutdownDecides, DestroyGoes, Go, Goes
<1>27. CASE ShutdownForgets
  BY <1>27 DEF ShutdownForgets, Go, Goes
<1>28. ASSUME NEW c \in Callers, DestroyBegins(c)
             PROVE  [Backend!Next \/ (drained = "no" /\ Proc' = "none")]_Proc
  BY <1>28 DEF DestroyBegins, DestroyGoes, Stopped, Closed, Expired
<1>29. ASSUME NEW c \in Callers, DestroyAwaits(c)
             PROVE  [Backend!Next \/ (drained = "no" /\ Proc' = "none")]_Proc
  BY <1>29 DEF DestroyAwaits, DestroyGoes, Expired
<1>30. ASSUME NEW c \in Callers, DestroyRemoves(c)
             PROVE  [Backend!Next \/ (drained = "no" /\ Proc' = "none")]_Proc
  BY <1>30 DEF DestroyRemoves, DestroyGoes, Closed, OwnershipInv
<1>31. CASE UNCHANGED vars
  BY <1>31
<1> QED
  BY <1>0, <1>1, <1>2, <1>3, <1>4, <1>5, <1>6, <1>7, <1>8, <1>9, <1>10, <1>11, <1>12, <1>13, <1>14,
         <1>15, <1>16, <1>17, <1>18, <1>19, <1>20, <1>21, <1>22, <1>23, <1>24, <1>25, <1>26,
         <1>27, <1>28, <1>29, <1>30, <1>31
     DEF Next, Request, Reaper, Completion, ShutdownGoesOn, Destroys

LEMMA Invariance == Spec => []GvisorInv
<1>1. GvisorInv /\ [Next]_vars => GvisorInv'
  BY OwnershipStep, TypeStep, LifeStep, EvidenceStep DEF GvisorInv
<1> QED
  BY InitGvisor, <1>1, PTL DEF Spec

\* Every variable keeps its type; run.done in particular is never closed twice, by
\* Stop, Destroy, an aborted start and the reaper (gvisor.go:483, 659, 439, 864).
THEOREM Typing == Spec => []TypeOK
<1>1. GvisorInv => TypeOK
  BY DEF GvisorInv
<1> QED
  BY Invariance, <1>1, PTL

\* No record and no loss comes after the health record of FinalizeEvidence, and a
\* run that reports no loss has a raw file that holds its records (gvisor.go:536).
THEOREM FinalHealth == Spec => []HealthIsFinal
<1>1. GvisorInv => HealthIsFinal
  <2> SUFFICES ASSUME GvisorInv, health.is = "reported" PROVE HealthIsFinal
    BY DEF HealthIsFinal
  <2>1. raw \in {"exact", "spoiled"} /\ EvidenceSoFar
    BY DEF GvisorInv, TypeOK
  <2> QED
    BY <2>1 DEF EvidenceSoFar, HealthIsFinal
<1> QED
  BY Invariance, <1>1, PTL

\* Container and workspace go after the reaper's collection, but for a Shutdown that
\* overtook a start, and then the losses show (Destroy, gvisor.go:619).
THEOREM CollectedFirst == Spec => []CleanupFollowsCollection
<1>1. GvisorInv => CleanupFollowsCollection
  BY DEF GvisorInv, MissedIsCounted, EvidenceSoFar, CleanupFollowsCollection
<1> QED
  BY Invariance, <1>1, PTL

\* The backend's side of ControlPlane: each step is one of a Reservation's or
\* changes nothing a driver sees of it, and a run that has a process is removed
\* from Backend.runs only by a Shutdown that did not wait for its start.
THEOREM Refinement == Spec => ImplementsReservation
<1>1. Init => Backend!Init
  BY DEF Init, Backend!Init, Proc
<1> QED
  BY <1>1, Invariance, ReservationStep, PTL DEF Spec, ImplementsReservation
=============================================================================
