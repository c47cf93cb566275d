-------------------------- MODULE CompatRunProofs --------------------------
(***************************************************************************)
(* What the compat backend promises, for any number of failures and chunks *)
(* of output and whatever the deadline of Shutdown: evidence that reports  *)
(* no loss is all there is, a run that is destroyed has ended, and the     *)
(* reservation has the life ControlPlane gives it.                         *)
(***************************************************************************)
EXTENDS CompatRun, SequenceTheorems, TLAPS

\* No process of the run is left, nor can one be started: none was ever started
\* and the run is not prepared any more, or what there was has been reaped.
Ended == workload = "none" \/ done # "open"

\* A run that was never started has nothing.
PreparedIsFresh ==
  state \in {"none", "prepared"} =>
    /\ workload = "none" /\ reaper = "none" /\ done = "open"
    /\ comp = "none" /\ client # "starting"
    /\ records = <<>> /\ raw = <<>> /\ losses = NoLosses
    /\ health.is = "none" /\ written = 0

ListedIsPrepared ==
  /\ state = "none" => listed = "no" /\ client = "idle"
  /\ state = "prepared" => listed = "yes"
  /\ entry.known = "yes" \/ shutdown \notin {"none", "joining", "returned"} => state # "none"

\* run.done is closed once, and only over a process that has been reaped.
DoneIsFinal ==
  /\ reaper = "waiting" => done = "open"
  /\ reaper = "ended" => done # "open"
  /\ done # "open" => workload \in {"none", "gone"} /\ pipes = "closed"
  /\ workload = "none" => pipes = "closed"
  /\ state \in {"stopped", "exited"} => done # "open"

\* Whoever gives the run up has seen it end, or found it never started.
RequestsAreOrdered ==
  /\ client \in {"preparing", "aborting", "removing", "aborted"} => workload = "none" /\ state # "none"
  /\ client \in {"removing", "aborted"} => state # "prepared"
  /\ client = "starting" => comp = "none"
  /\ client = "starting" \/ comp # "none" => reaper # "none"

DestroyedIsOver ==
  /\ shutdown \in {"deciding", "destroying"} /\ expired = "no" =>
       state \notin {"none", "prepared"}
  /\ state = "destroyed" => Ended
  /\ dir = "no" /\ state # "none" => state # "prepared" /\ Ended
  /\ shutdown \in {"marking", "removing"} => state # "prepared" /\ Ended

\* What is in the records and the raw file as long as nothing has been lost.
Recorded(n) ==
  /\ raw = Whole(records)
  /\ Len(records) = written + n
  /\ \A i \in 2 .. written + 1 : records[i] = "output"

EvidenceSoFar ==
  /\ comp \in {"finalizing", "reading", "publishing"} => done # "open"
  /\ health.is = "reported" =>
       /\ done # "open" /\ health.losses = losses
       /\ comp \notin {"none", "waiting", "finalizing"}
       /\ losses = NoLosses =>
            /\ Recorded(3) /\ health.end = Len(records)
            /\ records[written + 2] = "process/exit"
  /\ losses = NoLosses /\ health.is = "none" =>
       /\ reaper = "waiting" => Recorded(1)
       /\ reaper = "ended" /\ comp \in {"none", "waiting", "finalizing"} =>
            Recorded(2) /\ records[written + 2] = "process/exit"

CompatInv ==
  /\ TypeOK /\ written \in Nat
  /\ PreparedIsFresh /\ ListedIsPrepared /\ DoneIsFinal
  /\ RequestsAreOrdered /\ DestroyedIsOver /\ EvidenceSoFar

-----------------------------------------------------------------------------
(* The invariant is inductive *)

LEMMA InitCompat == Init => CompatInv
  BY DEF Init, CompatInv, PreparedIsFresh, ListedIsPrepared, DoneIsFinal, RequestsAreOrdered,
         DestroyedIsOver, Ended, EvidenceSoFar, TypeOK, Losses, NoLosses, Kinds, Recorded, Whole


\* A record that is appended is one of the kinds the run knows.
LEMMA KindsListed ==
  \A kind \in {"process/start", "output", "process/exit", "sensor/health"} : kind \in Kinds
  BY DEF Kinds

LEMMA Extended ==
  ASSUME TypeOK
  PROVE  \A kind \in Kinds :
           /\ Append(records, kind) \in Seq(Kinds)
           /\ \A f \in {"whole", "torn"} :
                Append(raw, [kind |-> kind, form |-> f])
                  \in Seq([kind : Kinds, form : {"whole", "torn"}])
<1> SUFFICES ASSUME NEW kind \in Kinds, NEW f \in {"whole", "torn"}
             PROVE  /\ Append(records, kind) \in Seq(Kinds)
                    /\ Append(raw, [kind |-> kind, form |-> f])
                         \in Seq([kind : Kinds, form : {"whole", "torn"}])
  OBVIOUS
<1>1. [kind |-> kind, form |-> f] \in [kind : Kinds, form : {"whole", "torn"}]
  OBVIOUS
<1>2. records \in Seq(Kinds) /\ raw \in Seq([kind : Kinds, form : {"whole", "torn"}])
  BY DEF TypeOK
<1> HIDE DEF Kinds
<1> QED
  BY <1>1, <1>2, AppendProperties

LEMMA Counted ==
  ASSUME TypeOK
  PROVE  /\ [losses EXCEPT !.appends = @ + 1] \in Losses
         /\ [losses EXCEPT !.drops = @ + 1] \in Losses
         /\ [drops |-> losses.drops + 1, appends |-> losses.appends + 1] \in Losses
  BY DEF TypeOK, Losses

RecordsTyped ==
  /\ records \in Seq(Kinds)
  /\ raw \in Seq([kind : Kinds, form : {"whole", "torn"}])
  /\ losses \in Losses

\* Whatever becomes of an append, it leaves records and frames.
LEMMA AppendKeepsTypes ==
  ASSUME TypeOK, NEW kind \in Kinds
  PROVE  /\ Appends(kind) /\ losses' \in Losses => RecordsTyped'
         /\ NotAppended(kind) /\ losses' \in Losses => RecordsTyped'
         /\ AppendedOrCounted(kind) => RecordsTyped'
<1>1. RecordsTyped
  BY DEF RecordsTyped, TypeOK
<1>2. Appends(kind) /\ losses' \in Losses => RecordsTyped'
  BY Extended DEF Appends, RecordsTyped
<1>3. NotAppended(kind) /\ losses' \in Losses => RecordsTyped'
  BY <1>1, Extended DEF NotAppended, RecordsTyped
<1> QED
  BY <1>1, <1>2, <1>3, Counted DEF AppendedOrCounted, Appended, RecordsTyped

LEMMA TypeStep == CompatInv /\ [Next]_vars => TypeOK' /\ written' \in Nat
<1> SUFFICES ASSUME CompatInv, [Next]_vars PROVE TypeOK' /\ written' \in Nat
  OBVIOUS
<1> USE DEF CompatInv, TypeOK, PreparedIsFresh, DoneIsFinal, vars, backend, evidence, threads
<1>1. CASE Prepare
  BY <1>1 DEF Prepare
<1>2. CASE PrepareEnters
  BY <1>2 DEF PrepareEnters, Removes, Fault
<1>3. CASE Start
  <2>1. RecordsTyped'
    BY <1>3, AppendKeepsTypes, KindsListed DEF Start, Appended, RecordsTyped
  <2> QED
    BY <1>3, <2>1 DEF RecordsTyped, Start, Startable
<1>4. CASE StartUnrecorded
  <2>1. RecordsTyped'
    BY <1>4, AppendKeepsTypes, KindsListed DEF StartUnrecorded, RecordsTyped
  <2> QED
    BY <1>4, <2>1 DEF RecordsTyped, StartUnrecorded, Startable, NotAppended, Fault
<1>5. CASE StartEnters
  BY <1>5 DEF StartEnters
<1>6. CASE Aborts
  BY <1>6 DEF Aborts
<1>7. CASE AbortGoesOn
  BY <1>7 DEF AbortGoesOn, Removes, Fault
<1>8. CASE WorkloadEnds
  BY <1>8 DEF WorkloadEnds
<1>9. CASE PipesClose
  BY <1>9 DEF PipesClose
<1>10. CASE Writes
  <2>1. RecordsTyped'
    <3>1. CASE AppendedOrCounted("output")
      BY <3>1, AppendKeepsTypes, KindsListed
    <3>2. CASE ~ AppendedOrCounted("output")
      <4>1. /\ Appends("output") \/ NotAppended("output")
            /\ \/ losses' = [losses EXCEPT !.drops = @ + 1]
               \/ losses' = [drops |-> losses.drops + 1, appends |-> losses.appends + 1]
        BY <1>10, <3>2 DEF Writes
      <4> QED
        BY <4>1, AppendKeepsTypes, KindsListed, Counted
    <3> QED
      BY <3>1, <3>2
  <2>2. written' \in Nat
    BY <1>10 DEF Writes
  <2> QED
    BY <1>10, <2>1, <2>2 DEF RecordsTyped, Writes
<1>11. CASE Reaps
  <2>1. RecordsTyped'
    BY <1>11, AppendKeepsTypes, KindsListed DEF Reaps, RecordsTyped
  <2> QED
    BY <1>11, <2>1 DEF RecordsTyped, Reaps, Closed, AppendedOrCounted, Appended, Appends, NotAppended, Fault
<1>12. CASE ClientStops
  BY <1>12 DEF ClientStops, Stopped, Kills, Closed
<1>13. CASE Waits
  BY <1>13 DEF Waits, Lost
<1>14. CASE Finalizes
  <2>1. RecordsTyped'
    BY <1>14, AppendKeepsTypes, KindsListed DEF Finalizes, Appended, RecordsTyped
  <2>2. Len(records) + 1 \in Nat
    BY LenProperties
  <2>3. health' \in [is : {"none", "reported"}, losses : Losses, end : Nat]
    BY <1>14, <2>2 DEF Finalizes
  <2>4. comp' \in {"reading", "retaining"}
    BY <1>14 DEF Finalizes, Lost
  <2> QED
    BY <1>14, <2>1, <2>3, <2>4 DEF RecordsTyped, Finalizes
<1>15. CASE ReadsRecords
  BY <1>15 DEF ReadsRecords, Lost
<1>16. CASE Publishes
  BY <1>16 DEF Publishes
<1>17. CASE Retains
  BY <1>17 DEF Retains, DriverUnlocked
<1>18. CASE ShutdownBegins
  BY <1>18 DEF ShutdownBegins, Go, Goes, DriverUnlocked
<1>19. CASE DeadlinePasses
  <2>1. UNCHANGED <<backend, evidence, entry, client, shutdown, comp, written>>
    BY <1>19 DEF DeadlinePasses
  <2> QED
    BY <2>1
<1>20. CASE ShutdownChecks
  BY <1>20 DEF ShutdownChecks, Go, Goes, DriverUnlocked
<1>21. CASE ShutdownStops
  BY <1>21 DEF ShutdownStops, Stopped, Kills, Closed, Go, Goes
<1>22. CASE ShutdownDecides
  BY <1>22 DEF ShutdownDecides, Go, Goes
<1>23. CASE DestroyBegins
  BY <1>23 DEF DestroyBegins, Stopped, Kills, Closed, Go, Goes
<1>24. CASE DestroyAwaits
  BY <1>24 DEF DestroyAwaits, Go, Goes
<1>25. CASE DestroyMarks
  BY <1>25 DEF DestroyMarks, Go, Goes
<1>26. CASE DestroyRemoves
  BY <1>26 DEF DestroyRemoves, Removes, Fault, Go, Goes
<1>27. CASE ShutdownForgets
  <2>1. entry' \in [known : {"yes", "no"}, started : {"yes", "no"}, completed : {"yes", "no"}]
    BY <1>27 DEF ShutdownForgets
  <2> QED
    BY <1>27, <2>1 DEF ShutdownForgets, Go, Goes
<1>28. CASE ShutdownJoins
  BY <1>28 DEF ShutdownJoins, Go, Goes
<1>29. CASE ShutdownPanics
  BY <1>29 DEF ShutdownPanics
<1>30. CASE UNCHANGED vars
  BY <1>30
<1> QED
  BY <1>1, <1>2, <1>3, <1>4, <1>5, <1>6, <1>7, <1>8, <1>9, <1>10, <1>11, <1>12, <1>13, <1>14,
         <1>15, <1>16, <1>17, <1>18, <1>19, <1>20, <1>21, <1>22, <1>23, <1>24, <1>25, <1>26,
         <1>27, <1>28, <1>29, <1>30
     DEF Next, Request, Completion, ShutdownGoesOn, Terminated

LEMMA LifeStep == CompatInv /\ [Next]_vars => (/\ PreparedIsFresh /\ ListedIsPrepared /\ DoneIsFinal
     /\ RequestsAreOrdered /\ DestroyedIsOver)'
<1> SUFFICES ASSUME CompatInv, [Next]_vars PROVE (/\ PreparedIsFresh /\ ListedIsPrepared /\ DoneIsFinal
     /\ RequestsAreOrdered /\ DestroyedIsOver)'
  OBVIOUS
<1> USE DEF CompatInv, PreparedIsFresh, ListedIsPrepared, DoneIsFinal, RequestsAreOrdered,
       DestroyedIsOver, Ended, TypeOK, vars, backend, evidence, threads
<1>1. CASE Prepare
  BY <1>1 DEF Prepare
<1>2. CASE PrepareEnters
  BY <1>2 DEF PrepareEnters, Removes, Fault
<1>3. CASE Start
  BY <1>3 DEF Start, Startable, Appended, Appends
<1>4. CASE StartUnrecorded
  BY <1>4 DEF StartUnrecorded, Startable, NotAppended, Fault
<1>5. CASE StartEnters
  BY <1>5 DEF StartEnters
<1>6. CASE Aborts
  BY <1>6 DEF Aborts
<1>7. CASE AbortGoesOn
  BY <1>7 DEF AbortGoesOn, Removes, Fault
<1>8. CASE WorkloadEnds
  BY <1>8 DEF WorkloadEnds
<1>9. CASE PipesClose
  BY <1>9 DEF PipesClose
<1>10. CASE Writes
  BY <1>10 DEF Writes, AppendedOrCounted, Appended, Appends, NotAppended, Fault
<1>11. CASE Reaps
  BY <1>11 DEF Reaps, AppendedOrCounted, Appended, Appends, NotAppended, Fault, Closed
<1>12. CASE ClientStops
  BY <1>12 DEF ClientStops, Stopped, Kills, Closed
<1>13. CASE Waits
  BY <1>13 DEF Waits, Lost
<1>14. CASE Finalizes
  BY <1>14 DEF Finalizes, Lost, Appended, Appends, NotAppended, Fault
<1>15. CASE ReadsRecords
  BY <1>15 DEF ReadsRecords, Lost
<1>16. CASE Publishes
  BY <1>16 DEF Publishes
<1>17. CASE Retains
  BY <1>17 DEF Retains, DriverUnlocked
<1>18. CASE ShutdownBegins
  BY <1>18 DEF ShutdownBegins, Go, Goes, DriverUnlocked
<1>19. CASE DeadlinePasses
  BY <1>19 DEF DeadlinePasses
<1>20. CASE ShutdownChecks
  BY <1>20 DEF ShutdownChecks, Go, Goes, DriverUnlocked
<1>21. CASE ShutdownStops
  BY <1>21 DEF ShutdownStops, Stopped, Kills, Closed, Go, Goes
<1>22. CASE ShutdownDecides
  BY <1>22 DEF ShutdownDecides, Go, Goes
<1>23. CASE DestroyBegins
  BY <1>23 DEF DestroyBegins, Stopped, Kills, Closed, Go, Goes
<1>24. CASE DestroyAwaits
  BY <1>24 DEF DestroyAwaits, Go, Goes
<1>25. CASE DestroyMarks
  BY <1>25 DEF DestroyMarks, Go, Goes
<1>26. CASE DestroyRemoves
  BY <1>26 DEF DestroyRemoves, Removes, Fault, Go, Goes
<1>27. CASE ShutdownForgets
  BY <1>27 DEF ShutdownForgets, Go, Goes, DriverUnlocked
<1>28. CASE ShutdownJoins
  BY <1>28 DEF ShutdownJoins, Go, Goes
<1>29. CASE ShutdownPanics
  BY <1>29 DEF ShutdownPanics
<1>30. CASE UNCHANGED vars
  BY <1>30
<1> QED
  BY <1>1, <1>2, <1>3, <1>4, <1>5, <1>6, <1>7, <1>8, <1>9, <1>10, <1>11, <1>12, <1>13, <1>14,
         <1>15, <1>16, <1>17, <1>18, <1>19, <1>20, <1>21, <1>22, <1>23, <1>24, <1>25, <1>26,
         <1>27, <1>28, <1>29, <1>30
     DEF Next, Request, Completion, ShutdownGoesOn, Terminated


\* The evidence of a run whose appends have all been acknowledged.
LEMMA RecordedNext ==
  ASSUME TypeOK, written \in Nat, NEW n \in {1, 2}, Recorded(n),
         NEW kind \in Kinds, Appended(kind)
  PROVE  /\ raw' = Whole(records') /\ Len(records') = written + n + 1
         /\ records'[written + n + 1] = kind
         /\ \A i \in 1 .. written + n : records'[i] = records[i]
<1>1. records \in Seq(Kinds) /\ Len(records) = written + n
  BY DEF TypeOK, Recorded
<1>2. records' = Append(records, kind)
  BY DEF Appended, Appends
<1>3. /\ records' \in Seq(Kinds) /\ Len(records') = written + n + 1
      /\ records'[written + n + 1] = kind
      /\ \A i \in 1 .. written + n : records'[i] = records[i]
  BY <1>1, <1>2, AppendProperties
<1>4. raw' = Append(Whole(records), [kind |-> kind, form |-> "whole"])
  BY DEF Appended, Appends, Recorded
<1>5. Whole(records) \in Seq([kind : Kinds, form : {"whole", "torn"}])
  BY DEF Recorded, TypeOK
<1>6. Len(Whole(records)) = written + n
  BY <1>1 DEF Whole
<1>7. raw' = Whole(records')
  BY <1>1, <1>3, <1>4, <1>5, <1>6 DEF Whole
<1> QED
  BY <1>3, <1>7

\* A loss that is counted is never forgotten.
LEMMA LossesShow ==
  ASSUME TypeOK
  PROVE  /\ [losses EXCEPT !.appends = @ + 1] # NoLosses
         /\ [losses EXCEPT !.drops = @ + 1] # NoLosses
         /\ [drops |-> losses.drops + 1, appends |-> losses.appends + 1] # NoLosses
  BY DEF TypeOK, Losses, NoLosses

LEMMA EvidenceStep == CompatInv /\ [Next]_vars => EvidenceSoFar'
<1> SUFFICES ASSUME CompatInv, [Next]_vars PROVE EvidenceSoFar'
  OBVIOUS
<1> USE DEF CompatInv, EvidenceSoFar, Recorded, PreparedIsFresh, DoneIsFinal, RequestsAreOrdered,
       vars, backend, evidence, threads
<1>0. health.is \in {"none", "reported"} /\ reaper \in {"none", "waiting", "ended"}
  BY DEF TypeOK
<1>1. CASE Prepare
  BY <1>1 DEF Prepare
<1>2. CASE PrepareEnters
  BY <1>2 DEF PrepareEnters, Removes, Fault
<1>3. CASE Start
  <2>1. /\ records = <<>> /\ raw = <<>> /\ losses' = NoLosses /\ health'.is = "none"
        /\ written = 0 /\ written' = 0 /\ comp' = "none" /\ reaper' = "waiting"
    BY <1>3 DEF Start, Startable
  <2>2. records' = <<"process/start">> /\ raw' = <<[kind |-> "process/start", form |-> "whole"]>>
    BY <1>3, <2>1 DEF Start, Appended, Appends
  <2>3. raw' = Whole(records') /\ Len(records') = 1
    BY <2>2 DEF Whole
  <2> QED
    BY <2>1, <2>3
<1>4. CASE StartUnrecorded
  BY <1>4 DEF StartUnrecorded, Startable, NotAppended, Fault
<1>5. CASE StartEnters
  BY <1>5 DEF StartEnters
<1>6. CASE Aborts
  BY <1>6 DEF Aborts
<1>7. CASE AbortGoesOn
  BY <1>7 DEF AbortGoesOn, Removes, Fault
<1>8. CASE WorkloadEnds
  BY <1>8 DEF WorkloadEnds
<1>9. CASE PipesClose
  BY <1>9 DEF PipesClose
<1>10. CASE Writes
  <2>1. /\ health'.is = "none" /\ comp' \notin {"finalizing", "reading", "publishing"}
        /\ reaper' # "ended" /\ written' = written + 1 /\ reaper' = reaper
    BY <1>0, <1>10 DEF Writes
  <2>2. CASE losses' # NoLosses
    BY <2>1, <2>2
  <2>3. CASE reaper' # "waiting"
    BY <2>1, <2>3
  <2>4. CASE losses' = NoLosses /\ reaper' = "waiting"
    <3>1. Appended("output") /\ losses = NoLosses
      BY <1>10, <2>4, LossesShow DEF Writes, AppendedOrCounted
    <3>2. Recorded(1)
      BY <1>10, <2>1, <2>4, <3>1 DEF Writes
    <3>3. /\ raw' = Whole(records') /\ Len(records') = written + 2
          /\ records'[written + 2] = "output"
          /\ \A i \in 1 .. written + 1 : records'[i] = records[i]
      BY <3>1, <3>2, KindsListed, RecordedNext
    <3>4. \A i \in 2 .. written' + 1 : records'[i] = "output"
      BY <2>1, <3>2, <3>3
    <3> QED
      BY <2>1, <3>3, <3>4
  <2> QED
    BY <2>2, <2>3, <2>4
<1>11. CASE Reaps
  <2>1. /\ health'.is = "none" /\ comp' \notin {"finalizing", "reading", "publishing"}
        /\ reaper' = "ended" /\ written' = written /\ done' # "open"
    BY <1>0, <1>11 DEF Reaps, Closed
  <2>2. CASE losses' # NoLosses
    BY <2>1, <2>2
  <2>3. CASE losses' = NoLosses
    <3>1. Appended("process/exit") /\ losses = NoLosses
      BY <1>11, <2>3, LossesShow DEF Reaps, AppendedOrCounted
    <3>2. Recorded(1)
      BY <1>11, <2>1, <3>1 DEF Reaps
    <3>3. /\ raw' = Whole(records') /\ Len(records') = written + 2
          /\ records'[written + 2] = "process/exit"
          /\ \A i \in 1 .. written + 1 : records'[i] = records[i]
      BY <3>1, <3>2, KindsListed, RecordedNext
    <3>4. \A i \in 2 .. written' + 1 : records'[i] = "output"
      BY <2>1, <3>2, <3>3
    <3> QED
      BY <2>1, <3>3, <3>4
  <2> QED
    BY <2>2, <2>3
<1>12. CASE ClientStops
  BY <1>12 DEF ClientStops, Stopped, Kills, Closed
<1>13. CASE Waits
  BY <1>13 DEF Waits, Lost
<1>14. CASE Finalizes
  <2>1. /\ comp = "finalizing" /\ done # "open" /\ done' # "open" /\ reaper = "ended"
        /\ reaper' = "ended" /\ written' = written /\ losses' = losses /\ health.is = "none"
    BY <1>0, <1>14 DEF Finalizes
  <2>2. CASE comp' = "retaining" /\ health' = health
    BY <2>1, <2>2
  <2>3. CASE Appended("sensor/health") /\ comp' = "reading"
            /\ health' = [is |-> "reported", losses |-> losses, end |-> Len(records) + 1]
    <3>1. CASE losses # NoLosses
      BY <2>1, <2>3, <3>1
    <3>2. CASE losses = NoLosses
      <4>1. Recorded(2) /\ records[written + 2] = "process/exit"
        BY <2>1, <3>2
      <4>2. /\ raw' = Whole(records') /\ Len(records') = written + 3
            /\ \A i \in 1 .. written + 2 : records'[i] = records[i]
        BY <2>3, <4>1, KindsListed, RecordedNext
      <4>3. /\ \A i \in 2 .. written' + 1 : records'[i] = "output"
            /\ records'[written' + 2] = "process/exit"
        BY <2>1, <4>1, <4>2
      <4>4. health'.end = Len(records')
        BY <2>3, <4>1, <4>2
      <4> QED
        BY <2>1, <2>3, <4>2, <4>3, <4>4
    <3> QED
      BY <3>1, <3>2
  <2> QED
    BY <1>14, <2>2, <2>3 DEF Finalizes, Lost
<1>15. CASE ReadsRecords
  BY <1>15 DEF ReadsRecords, Lost
<1>16. CASE Publishes
  BY <1>16 DEF Publishes
<1>17. CASE Retains
  BY <1>17 DEF Retains, DriverUnlocked
<1>18. CASE ShutdownBegins
  BY <1>18 DEF ShutdownBegins, Go, Goes, DriverUnlocked
<1>19. CASE DeadlinePasses
  BY <1>19 DEF DeadlinePasses
<1>20. CASE ShutdownChecks
  BY <1>20 DEF ShutdownChecks, Go, Goes, DriverUnlocked
<1>21. CASE ShutdownStops
  BY <1>21 DEF ShutdownStops, Stopped, Kills, Closed, Go, Goes
<1>22. CASE ShutdownDecides
  BY <1>22 DEF ShutdownDecides, Go, Goes
<1>23. CASE DestroyBegins
  BY <1>23 DEF DestroyBegins, Stopped, Kills, Closed, Go, Goes
<1>24. CASE DestroyAwaits
  BY <1>24 DEF DestroyAwaits, Go, Goes
<1>25. CASE DestroyMarks
  BY <1>25 DEF DestroyMarks, Go, Goes
<1>26. CASE DestroyRemoves
  BY <1>26 DEF DestroyRemoves, Removes, Fault, Go, Goes
<1>27. CASE ShutdownForgets
  BY <1>27 DEF ShutdownForgets, Go, Goes, DriverUnlocked
<1>28. CASE ShutdownJoins
  BY <1>28 DEF ShutdownJoins, Go, Goes
<1>29. CASE ShutdownPanics
  BY <1>29 DEF ShutdownPanics
<1>30. CASE UNCHANGED vars
  BY <1>30
<1> QED
  BY <1>1, <1>2, <1>3, <1>4, <1>5, <1>6, <1>7, <1>8, <1>9, <1>10, <1>11, <1>12, <1>13, <1>14,
         <1>15, <1>16, <1>17, <1>18, <1>19, <1>20, <1>21, <1>22, <1>23, <1>24, <1>25, <1>26,
         <1>27, <1>28, <1>29, <1>30
     DEF Next, Request, Completion, ShutdownGoesOn, Terminated

LEMMA ReservationStep == CompatInv /\ [Next]_vars => [Backend!Next]_Proc
<1> SUFFICES ASSUME CompatInv, [Next]_vars PROVE [Backend!Next]_Proc
  OBVIOUS
<1> USE DEF CompatInv, TypeOK, PreparedIsFresh, ListedIsPrepared, DoneIsFinal, RequestsAreOrdered,
       DestroyedIsOver, Ended, Proc, Backend!Next, Backend!Prepare, Backend!Start, Backend!Stop,
       Backend!Exit, Backend!Destroy, vars, backend, evidence, threads
<1>1. CASE Prepare
  BY <1>1 DEF Prepare
<1>2. CASE PrepareEnters
  BY <1>2 DEF PrepareEnters, Removes, Fault
<1>3. CASE Start
  BY <1>3 DEF Start, Startable, Appended, Appends
<1>4. CASE StartUnrecorded
  BY <1>4 DEF StartUnrecorded, Startable, NotAppended, Fault
<1>5. CASE StartEnters
  BY <1>5 DEF StartEnters
<1>6. CASE Aborts
  BY <1>6 DEF Aborts
<1>7. CASE AbortGoesOn
  BY <1>7 DEF AbortGoesOn, Removes, Fault
<1>8. CASE WorkloadEnds
  BY <1>8 DEF WorkloadEnds
<1>9. CASE PipesClose
  BY <1>9 DEF PipesClose
<1>10. CASE Writes
  BY <1>10 DEF Writes, AppendedOrCounted, Appended, Appends, NotAppended, Fault
<1>11. CASE Reaps
  BY <1>11 DEF Reaps, AppendedOrCounted, Appended, Appends, NotAppended, Fault, Closed
<1>12. CASE ClientStops
  BY <1>12 DEF ClientStops, Stopped, Kills, Closed
<1>13. CASE Waits
  BY <1>13 DEF Waits, Lost
<1>14. CASE Finalizes
  BY <1>14 DEF Finalizes, Lost, Appended, Appends, NotAppended, Fault
<1>15. CASE ReadsRecords
  BY <1>15 DEF ReadsRecords, Lost
<1>16. CASE Publishes
  BY <1>16 DEF Publishes
<1>17. CASE Retains
  BY <1>17 DEF Retains, DriverUnlocked
<1>18. CASE ShutdownBegins
  BY <1>18 DEF ShutdownBegins, Go, Goes, DriverUnlocked
<1>19. CASE DeadlinePasses
  BY <1>19 DEF DeadlinePasses
<1>20. CASE ShutdownChecks
  BY <1>20 DEF ShutdownChecks, Go, Goes, DriverUnlocked
<1>21. CASE ShutdownStops
  BY <1>21 DEF ShutdownStops, Stopped, Kills, Closed, Go, Goes
<1>22. CASE ShutdownDecides
  BY <1>22 DEF ShutdownDecides, Go, Goes
<1>23. CASE DestroyBegins
  BY <1>23 DEF DestroyBegins, Stopped, Kills, Closed, Go, Goes
<1>24. CASE DestroyAwaits
  BY <1>24 DEF DestroyAwaits, Go, Goes
<1>25. CASE DestroyMarks
  BY <1>25 DEF DestroyMarks, Go, Goes
<1>26. CASE DestroyRemoves
  BY <1>26 DEF DestroyRemoves, Removes, Fault, Go, Goes
<1>27. CASE ShutdownForgets
  BY <1>27 DEF ShutdownForgets, Go, Goes, DriverUnlocked
<1>28. CASE ShutdownJoins
  BY <1>28 DEF ShutdownJoins, Go, Goes
<1>29. CASE ShutdownPanics
  BY <1>29 DEF ShutdownPanics
<1>30. CASE UNCHANGED vars
  BY <1>30
<1> QED
  BY <1>1, <1>2, <1>3, <1>4, <1>5, <1>6, <1>7, <1>8, <1>9, <1>10, <1>11, <1>12, <1>13, <1>14,
         <1>15, <1>16, <1>17, <1>18, <1>19, <1>20, <1>21, <1>22, <1>23, <1>24, <1>25, <1>26,
         <1>27, <1>28, <1>29, <1>30
     DEF Next, Request, Completion, ShutdownGoesOn, Terminated


LEMMA Invariance == Spec => []CompatInv
<1>1. CompatInv /\ [Next]_vars => CompatInv'
  BY TypeStep, LifeStep, EvidenceStep DEF CompatInv
<1> QED
  BY InitCompat, <1>1, PTL DEF Spec

-----------------------------------------------------------------------------
(* What follows *)

\* Every variable keeps its type; run.done in particular is never closed twice
\* (Stop of a prepared run, compat.go:288, and the reaper, 518).
THEOREM Typing == Spec => []TypeOK
<1>1. CompatInv => TypeOK
  BY DEF CompatInv
<1> QED
  BY Invariance, <1>1, PTL

\* Evidence that reports no loss holds the process record, every chunk of output
\* and the exit, and its raw file nothing else (FinalizeEvidence, compat.go:350).
THEOREM CompleteEvidence == Spec => []EvidenceIsComplete
<1>1. CompatInv => EvidenceIsComplete
  <2> SUFFICES ASSUME CompatInv PROVE EvidenceIsComplete
    OBVIOUS
  <2>1. written \in Nat /\ EvidenceSoFar
    BY DEF CompatInv
  <2> QED
    BY <2>1 DEF EvidenceIsComplete, EvidenceSoFar, Recorded
<1> QED
  BY Invariance, <1>1, PTL

\* No process works in a run that was destroyed or has lost its directory,
\* whatever Shutdown overtook and however its deadline fell (Destroy, compat.go:402).
THEOREM NothingOutlivesDestroy == Spec => []DestroyedHasEnded
<1>1. CompatInv => DestroyedHasEnded
  BY DEF CompatInv, DestroyedIsOver, Ended, DoneIsFinal, DestroyedHasEnded
<1> QED
  BY Invariance, <1>1, PTL

\* The backend's side of ControlPlane: each step is one of a Reservation's or
\* changes nothing a driver can see of it; in particular no run that has a process
\* is ever removed from Backend.runs.
THEOREM Refinement == Spec => ImplementsReservation
<1>1. Init => Backend!Init
  BY DEF Init, Backend!Init, Proc
<1> QED
  BY <1>1, Invariance, ReservationStep, PTL DEF Spec, ImplementsReservation, Backend!Spec
=============================================================================
