------------------------- MODULE ControlPlaneProofs -------------------------
(***************************************************************************)
(* What the control plane promises, proved for any set of runs of either   *)
(* backend, any keys and any bounds.  The steps of the process are steps   *)
(* of the Store or leave it alone, so StoreInv holds of it; PlaneInv adds, *)
(* run by run, where the completion goroutine stands against the status of *)
(* its run, its log, the seal, and what has been written beside it.        *)
(***************************************************************************)
EXTENDS ControlPlane, ControlStoreProofs

-----------------------------------------------------------------------------
(* The inductive invariant.                                                  *)

Holds(r, steps) == lock.at \in steps /\ lock.run = r

\* The completion goroutine of r has its run/finish still to append; it has appended
\* it; it works on the evidence of a sealed log; it is past all that.
Ending(r) ==
  \/ comp[r].at \in {"waiting", "appending", "recording", "completing"}
  \/ At(r, "collecting") /\ Compat(r)
Reporting(r) ==
  \/ comp[r].at \in {"reporting", "writingManifest", "writingBundle", "publishing"}
  \/ At(r, "collecting") /\ ~Compat(r)
Over(r) == comp[r].at \in {"none", "giving up", "finishing", "done"}

\* Somebody may still append a frame to the log of r, which then has no end.
Endable(r) ==
  \/ Alive /\ (catalog[r].status \in {"none", "created"} \/ Holds(r, Starting))
  \/ Ending(r)

\* A record that says that its run was given up by a restart, or that it is young.
Plausible(e) ==
  /\ e.status \in {"none", "created"} => e.verdict.is = "none"
  /\ e.verdict.is = "interrupted" => e.status = "failed"

\* What the catalog and state.json say of r, and whether it has a reservation or a
\* completion goroutine, wherever the run came from.
RecordInv(r) ==
  /\ Plausible(catalog[r]) /\ Plausible(saved[r])
  /\ ~Stopped /\ saved[r].status # "none" => catalog[r].status # "none"
  /\ proc[r] # "none" => saved[r].status # "none"
  /\ comp[r].at # "none" => saved[r].status \notin {"none", "created"}

\* What the goroutine of r finds in the catalog at each of its steps.
GoroutineInv(r) ==
  /\ comp[r].at = "none" => comp[r] = NoComp
  /\ comp[r].at # "none" =>
       /\ Alive /\ catalog[r].status \notin {"none", "created"}
       /\ catalog[r].verdict.is # "interrupted"
  /\ ~Over(r) /\ comp[r].evidence = "sound" =>
       catalog[r].verdict.is = "none" /\ saved[r].verdict.is = "none"
  /\ comp[r].evidence = "lost" => Over(r) \/ comp[r].at \in {"completing", "persisting", "sealing"}
  /\ Ending(r) => catalog[r].status \in {"running", "stopping"}

\* How state.json lags behind the catalog while a method has yet to write it.
LagInv(r) ==
  /\ At(r, "persisting") <=> Holds(r, {"persistCompletion"})
  /\ Holds(r, {"persistCreated"}) => saved[r].status = "none" /\ saved[r].verdict.is = "none"
  /\ Holds(r, Creating \cup Starting) => catalog[r].verdict.is = "none" /\ comp[r].at = "none"
  /\ Holds(r, {"persistStarted"}) => saved[r].status = "created"
  /\ Holds(r, {"persistUndispatched"}) => saved[r].status = "running" /\ comp[r].at = "none"
  /\ Holds(r, {"persistUndispatched", "persistCompletion"}) =>
       saved[r].verdict = catalog[r].verdict
  /\ Holds(r, {"persistCompletion"}) =>
       \/ saved[r].status = "running" /\ catalog[r].status \in {"completed", "failed"}
       \/ saved[r].status = "stopping" /\ catalog[r].status = "stopped"
  /\ Holds(r, Loading) =>
       /\ saved[r].status # "none" /\ saved[r].verdict.is # "ineligible"
       /\ catalog[r].verdict.is = "interrupted"

\* The frame that a failed append has left can only be one that the status of its run
\* allows; nothing follows a run/finish; and what ends a log is the status of its run.
Leftover(status) ==
  CASE status = "created" -> {"start"}
    [] status \in {"running", "stopping"} -> {"event"} \cup Terminal
    [] OTHER -> {}

FrameInv(r) ==
  /\ \A i \in 1 .. Len(file[r]) : Finishes(file[r][i]) => i = Len(file[r])
  /\ Endable(r) => ~Finished(file[r])
  /\ catalog[r].status = "none" \/ Holds(r, Creating) => (~Stopped => file[r] = <<>>)
  /\ process = "recovering" => file[r] = events[r]
  /\ At(r, "persisting") \/ At(r, "sealing") \/ Reporting(r) =>
       /\ catalog[r].status \in Terminal
       /\ events[r] # <<>> /\ events[r][Len(events[r])].what = catalog[r].status
  /\ At(r, "persisting") \/ At(r, "sealing") \/ Reporting(r) \/ Holds(r, {"recoverSeal"}) =>
       Finished(file[r])
  /\ Holds(r, {"recoverSeal"}) => Finished(events[r])
  /\ Alive /\ ValidFrames(file[r]) =>
       file[r] = events[r] \/ file[r][Len(file[r])].what \in Leftover(catalog[r].status)

\* The Appender knows of a seal when there is one, for the acknowledged events.
MarkerInv(r) ==
  /\ marker[r].is # "absent" => Finished(file[r])
  /\ ~Stopped /\ sealed[r] = "yes" => marker[r] = [is |-> "whole", head |-> events[r]]
  /\ Reporting(r) => sealed[r] = "yes"

\* What is on disk of a run whose evidence is published: with its last status and its
\* verdict, its log, manifest, bundle and marker.
OnDisk(r, status, verdict, log, m, b, mark) ==
  /\ status \in Terminal
  /\ log # <<>> /\ log[Len(log)].what = status
  /\ m = <<log>>
  /\ b = <<[log |-> log, head |-> log, verdict |-> verdict]>>
  /\ BundleValid(r, b[1])
  /\ mark = [is |-> "whole", head |-> log]

Published(r, e) ==
  e.verdict.is = "ineligible" =>
    /\ OnDisk(r, e.status, e.verdict, file[r], manifest[r], bundle[r], marker[r])
    /\ ~Stopped => sealed[r] = "yes"

BundleInv(r) ==
  /\ Published(r, catalog[r]) /\ Published(r, saved[r])
  /\ At(r, "writingBundle") \/ At(r, "publishing") =>
       BundleValid(r, NewBundle(r)) /\ manifest[r] = <<events[r]>>
  /\ At(r, "publishing") => bundle[r] = <<NewBundle(r)>>

\* Before the first failure the disk is as the acknowledged events have it.
CleanInv(r) ==
  faults = 0 =>
    /\ ValidFrames(file[r])
    /\ ~Stopped => file[r] = events[r]
    /\ \/ marker[r] = NoMarker \/ marker[r] = [is |-> "whole", head |-> file[r]]
       \/ Stopped /\ marker[r].is = "partial"
    /\ ~Stopped /\ sealed[r] = "no" => marker[r] = NoMarker

RunInv(r) ==
  /\ RecordInv(r) /\ GoroutineInv(r) /\ LagInv(r) /\ FrameInv(r) /\ MarkerInv(r) /\ BundleInv(r)
  /\ CleanInv(r)

PlaneInv == StoreInv /\ PlaneTypeOK /\ RefusalsExplained /\ \A r \in Runs : RunInv(r)

-----------------------------------------------------------------------------
(* The process makes steps of the Store.                                     *)

LEMMA StoreStepOfPlane ==
  ASSUME PlaneTypeOK, PlaneNext
  PROVE  Next \/ (faults' \in Nat /\ UNCHANGED <<memory, storage, told, crashes>>)
<1> USE DEF Next, ClientStep, DriverAnswers, DriverCalls, Recovery, ProcessStep
<1>1. ASSUME NEW r \in Runs, Client(r) \/ Recovers(r) PROVE Next
  BY <1>1, Zenon DEF Client, Recovers
<1>2. ASSUME NEW r \in Runs, DriverCalled(r) PROVE Next
  BY <1>2, Zenon DEF DriverCalled, DriverPrepare, DriverStart, DriverStop
<1>3. ASSUME NEW r \in Runs, WorkloadExits(r) \/ ShutdownStops(r)
      PROVE  faults' \in Nat /\ UNCHANGED <<memory, storage, told, crashes>>
  BY <1>3 DEF WorkloadExits, ShutdownStops, PlaneTypeOK, TypeOK, vars
<1>4. ASSUME NEW r \in Runs, Goroutine(r)
      PROVE  Next \/ (faults' \in Nat /\ UNCHANGED <<memory, storage, told, crashes>>)
  <2>1. CASE Waits(r) \/ Collects(r) \/ AppendedAll(r) \/ Reports(r)
    BY <2>1 DEF Waits, Collects, AppendedAll, Reports, PlaneTypeOK, TypeOK, vars
  <2>2. CASE WritesManifest(r) \/ WritesBundle(r)
    <3>1. faults \in Nat
      BY DEF PlaneTypeOK, TypeOK
    <3>2. UNCHANGED <<memory, storage, told, crashes>> /\ (faults' = faults \/ faults' = faults + 1)
      BY <2>2 DEF WritesManifest, WritesBundle, Fault
    <3> QED
      BY <3>1, <3>2
  <2>3. CASE AppendsNormalized(r)
    BY <2>3, Zenon DEF AppendsNormalized
  <2>4. VerificationError(r) => Next
    BY Zenon DEF VerificationError
  <2>5. CASE RecordsLoss(r) \/ GivesUp(r)
    BY <2>4, <2>5, Zenon DEF RecordsLoss, GivesUp
  <2>6. CASE Finishing(r)
    <3>1. VerificationError(r) \/ UNCHANGED vars
      BY <2>6 DEF Finishing
    <3> QED
      BY <2>4, <3>1 DEF vars, PlaneTypeOK, TypeOK
  <2>7. CASE CompletesRun(r)
    <3>1. comp[r].status \in {"completed", "failed"}
      BY DEF PlaneTypeOK, Comp
    <3>2. Completes(r, comp[r].status) \/ CompleteFails(r, comp[r].status)
      BY <2>7 DEF CompletesRun
    <3> QED
      BY <3>1, <3>2, Zenon
  <2>8. CASE PersistsCompletion(r) \/ SealsRun(r)
    BY <2>8, Zenon DEF PersistsCompletion, SealsRun
  <2>9. CASE Publishes(r)
    BY <2>9, Zenon DEF Publishes, Result
  <2> QED
    BY <1>4, <2>1, <2>2, <2>3, <2>5, <2>6, <2>7, <2>8, <2>9, Zenon DEF Goroutine
<1>5. CASE Starts
  BY <1>5, Zenon DEF Starts
<1>6. CASE ShutsDown \/ Ends
  BY <1>6, Zenon DEF ShutsDown, Ends
<1> QED
  BY <1>1, <1>2, <1>3, <1>4, <1>5, <1>6, Zenon DEF PlaneNext

LEMMA StoreKept == PlaneInv /\ PlaneNext => StoreInv'
<1> SUFFICES ASSUME PlaneInv, PlaneNext PROVE StoreInv'
  OBVIOUS
<1>1. StoreInv /\ PlaneTypeOK
  BY DEF PlaneInv
<1>2. CASE Next
  BY <1>1, <1>2, StoreStep
<1>3. CASE faults' \in Nat /\ UNCHANGED <<memory, storage, told, crashes>>
  <2>1. UNCHANGED <<process, lock, latched, catalog, events, sealed, dirs, saved, stamps, file,
                    marker, told, crashes>> /\ faults' \in Nat
    BY <1>3 DEF memory, storage
  <2>2. TypeOK' /\ LockInv' /\ SavedInv' /\ LogInv'
    BY <1>1, <2>1 DEF StoreInv, TypeOK, LockInv, SavedInv, LogInv, RunLogInv, Alive, Stopped
  <2>3. ToldInv'
    BY <1>1, <2>1, ToldFrame DEF Stopped
  <2> QED
    BY <2>2, <2>3 DEF StoreInv
<1> QED
  BY <1>1, <1>2, <1>3, StoreStepOfPlane

-----------------------------------------------------------------------------
(* Steps about one run.                                                      *)

SameRecords(r) == catalog'[r] = catalog[r] /\ saved'[r] = saved[r]
SameLog(r) ==
  events'[r] = events[r] /\ file'[r] = file[r] /\ sealed'[r] = sealed[r] /\ marker'[r] = marker[r]
SameDriver(r) == proc'[r] = proc[r] /\ comp'[r] = comp[r]
SameBundle(r) == manifest'[r] = manifest[r] /\ bundle'[r] = bundle[r]

\* The lock is taken, passed on or given back on behalf of r, or not touched.
LockFor(r) ==
  \/ lock' = lock
  \/ (lock.at = "free" \/ lock.run = r) /\ (lock'.at = "free" \/ lock'.run = r)

Local(r) ==
  /\ process' = process
  /\ faults' = 0 => faults = 0
  /\ LockFor(r)
  /\ \A s \in Runs \ {r} : SameRecords(s) /\ SameLog(s) /\ SameDriver(s) /\ SameBundle(s)

LEMMA Elsewhere ==
  ASSUME PlaneInv, NEW r \in Runs, Local(r), NEW s \in Runs \ {r}
  PROVE  RunInv(s)'
<1>0. RunInv(s)
  BY DEF PlaneInv
<1>1. /\ process' = process /\ (faults' = 0 => faults = 0)
      /\ SameRecords(s) /\ SameLog(s) /\ SameDriver(s) /\ SameBundle(s)
  BY DEF Local
<1>2. ASSUME NEW steps, "free" \notin steps PROVE Holds(s, steps)' <=> Holds(s, steps)
  BY <1>2 DEF Holds, Local, LockFor
<1>3. /\ Holds(s, {"persistCompletion"})' <=> Holds(s, {"persistCompletion"})
      /\ Holds(s, {"persistCreated"})' <=> Holds(s, {"persistCreated"})
      /\ Holds(s, {"persistStarted"})' <=> Holds(s, {"persistStarted"})
      /\ Holds(s, {"persistUndispatched"})' <=> Holds(s, {"persistUndispatched"})
      /\ Holds(s, {"persistUndispatched", "persistCompletion"})'
           <=> Holds(s, {"persistUndispatched", "persistCompletion"})
      /\ Holds(s, {"recoverSeal"})' <=> Holds(s, {"recoverSeal"})
  BY <1>2
<1>4. /\ Holds(s, Creating)' <=> Holds(s, Creating)
      /\ Holds(s, Starting)' <=> Holds(s, Starting)
      /\ Holds(s, Creating \cup Starting)' <=> Holds(s, Creating \cup Starting)
      /\ Holds(s, Loading)' <=> Holds(s, Loading)
  BY <1>2 DEF Creating, Starting, Loading
<1>5. /\ Ending(s)' <=> Ending(s)
      /\ Reporting(s)' <=> Reporting(s)
      /\ Over(s)' <=> Over(s)
      /\ Alive' <=> Alive
      /\ Stopped' <=> Stopped
  BY <1>1 DEF SameDriver, Ending, Reporting, Over, At, Alive, Stopped
<1>6. Endable(s)' <=> Endable(s)
  BY <1>1, <1>4, <1>5 DEF Endable, SameRecords
<1>7. RecordInv(s)' /\ GoroutineInv(s)'
  BY <1>0, <1>1, <1>5 DEF RunInv, RecordInv, GoroutineInv, Plausible, SameRecords, SameDriver
<1>8. LagInv(s)'
  BY <1>0, <1>1, <1>3, <1>4 DEF RunInv, LagInv, At, SameRecords, SameDriver
<1>9. FrameInv(s)'
  BY <1>0, <1>1, <1>3, <1>4, <1>5, <1>6 DEF RunInv, FrameInv, At, SameRecords, SameDriver, SameLog
<1>10. MarkerInv(s)'
  BY <1>0, <1>1, <1>5 DEF RunInv, MarkerInv, SameLog
<1>11. BundleInv(s)'
  BY <1>0, <1>1, <1>5 DEF RunInv, BundleInv, Published, NewBundle, Result, At,
                          SameRecords, SameLog, SameDriver, SameBundle
<1>12. CleanInv(s)'
  BY <1>0, <1>1, <1>5 DEF RunInv, CleanInv, SameLog
<1> QED
  BY <1>7, <1>8, <1>9, <1>10, <1>11, <1>12 DEF RunInv

\* What a goroutine knows after it has gone on.
LEMMA Goes ==
  ASSUME PlaneTypeOK, NEW r \in Runs, NEW step \in Steps, Go(r, step)
  PROVE  /\ comp' \in [Runs -> Comp]
         /\ comp'[r].at = step /\ comp'[r].status = comp[r].status
         /\ comp'[r].evidence = comp[r].evidence
         /\ \A s \in Runs \ {r} : comp'[s] = comp[s]
<1>1. comp \in [Runs -> Comp] /\ comp[r] \in Comp
  BY DEF PlaneTypeOK
<1>2. comp' = [comp EXCEPT ![r] = [comp[r] EXCEPT !.at = step]]
  BY DEF Go
<1>3. [comp[r] EXCEPT !.at = step] \in Comp
  BY <1>1 DEF Comp
<1> QED
  BY <1>1, <1>2, <1>3 DEF Comp

LEMMA NoFinishInEmpty == ~Finished(<<>>) /\ ValidFrames(<<>>)
  BY EmptySeq DEF Finished, ValidFrames

\* The log of a run that has not ended is not sealed, signed or published.
LEMMA OpenLog ==
  ASSUME PlaneInv, NEW r \in Runs, ~Finished(file[r])
  PROVE  /\ marker[r].is = "absent"
         /\ catalog[r].verdict.is # "ineligible" /\ saved[r].verdict.is # "ineligible"
<1>1. RunInv(r) /\ file[r] \in Seq(Frame)
  BY DEF PlaneInv, PlaneTypeOK, TypeOK
<1>2. marker[r].is = "absent"
  BY <1>1 DEF RunInv, MarkerInv
<1>3. ASSUME NEW status, NEW verdict, OnDisk(r, status, verdict, file[r], manifest[r], bundle[r], marker[r])
      PROVE  FALSE
  BY <1>2, <1>3 DEF OnDisk
<1> QED
  BY <1>1, <1>2, <1>3 DEF RunInv, BundleInv, Published

LEMMA Appended ==
  ASSUME PlaneInv, NEW r \in Runs, NEW what \in Whats, AppendOk(r, what), ~Stopped,
         ~Finished(file[r])
  PROVE  /\ \A i \in 1 .. Len(file'[r]) : Finishes(file'[r][i]) => i = Len(file'[r])
         /\ Finished(file'[r]) <=> what \in Terminal
         /\ what \in Terminal => Finished(events'[r])
         /\ events'[r] # <<>> /\ events'[r][Len(events'[r])].what = what
         /\ ValidFrames(file'[r]) => file'[r] = events'[r]
         /\ file[r] = events[r] => file'[r] = events'[r]
         /\ sealed[r] = "no" /\ sealed' = sealed /\ marker' = marker /\ dirs' = dirs
         /\ faults' = faults
         /\ faults = 0 => ValidFrames(file'[r]) /\ file'[r] = events'[r] /\ marker[r] = NoMarker
         /\ \A s \in Runs \ {r} : events'[s] = events[s] /\ file'[s] = file[s]
<1> DEFINE f == NewFrame(r, what)
<1>1. /\ file \in [Runs -> Seq(Frame)] /\ events \in [Runs -> Seq(Frame)]
      /\ file[r] \in Seq(Frame) /\ events[r] \in Seq(Frame) /\ TypeOK
      /\ RunInv(r) /\ RunLogInv(r)
  BY DEF PlaneInv, PlaneTypeOK, TypeOK, StoreInv, LogInv
<1>2. f \in Frame /\ f.what = what /\ f.form = "whole" /\ f.seq = Len(events[r]) + 1
  BY <1>1, NewFrameIsFrame DEF NewFrame
<1>3. /\ events'[r] = Append(events[r], f) /\ file'[r] = Append(file[r], f)
      /\ sealed[r] = "no" /\ sealed' = sealed /\ marker' = marker /\ dirs' = dirs
      /\ faults' = faults
      /\ \A s \in Runs \ {r} : events'[s] = events[s] /\ file'[s] = file[s]
  BY <1>1 DEF AppendOk, Appendable
<1> HIDE DEF f
<1>4. /\ Len(file'[r]) = Len(file[r]) + 1 /\ Len(file[r]) \in Nat
      /\ file'[r][Len(file[r]) + 1] = f
      /\ \A i \in 1 .. Len(file[r]) : file'[r][i] = file[r][i]
  BY <1>1, <1>2, <1>3, AppendProperties, LenProperties
<1>5. /\ Len(events'[r]) = Len(events[r]) + 1 /\ Len(events[r]) \in Nat
      /\ events'[r][Len(events[r]) + 1] = f /\ events'[r] # <<>>
      /\ \A i \in 1 .. Len(events[r]) : events'[r][i] = events[r][i]
  BY <1>1, <1>2, <1>3, AppendProperties, LenProperties
<1>6. \A i \in 1 .. Len(file'[r]) : Finishes(file'[r][i]) => i = Len(file'[r])
  BY <1>4 DEF Finished
<1>7. Finished(file'[r]) <=> what \in Terminal
  <2>1. Finishes(f) <=> what \in Terminal
    BY <1>2 DEF Finishes
  <2>2. \A i \in 1 .. Len(file[r]) : ~Finishes(file'[r][i])
    BY <1>4 DEF Finished
  <2>3. Finished(file'[r]) <=> Finishes(f)
    BY <1>4, <2>2 DEF Finished
  <2> QED
    BY <2>1, <2>3
<1>8. what \in Terminal => Finished(events'[r])
  <2>1. what \in Terminal => Finishes(f)
    BY <1>2 DEF Finishes
  <2> QED
    BY <1>5, <2>1 DEF Finished
<1>9. ValidFrames(file'[r]) => file'[r] = events'[r]
  <2> SUFFICES ASSUME ValidFrames(Append(file[r], f)) PROVE file[r] = events[r]
    BY <1>3
  <2>1. ValidFrames(file[r])
    BY <1>3, <1>4 DEF ValidFrames
  <2> QED
    BY <1>1, <1>2, <2>1, FrameWritten DEF RunLogInv
<1>10. faults = 0 => ValidFrames(file'[r]) /\ file'[r] = events'[r] /\ marker[r] = NoMarker
  <2> SUFFICES ASSUME faults = 0
               PROVE ValidFrames(file'[r]) /\ file'[r] = events'[r] /\ marker[r] = NoMarker
    OBVIOUS
  <2>1. ValidFrames(file[r]) /\ file[r] = events[r] /\ marker[r] = NoMarker
    BY <1>1, <1>3 DEF RunInv, CleanInv
  <2>2. ValidFrames(file'[r])
    BY SMTT(30), <1>2, <1>4, <2>1 DEF ValidFrames
  <2> QED
    BY <1>3, <2>1, <2>2
<1> QED
  BY <1>2, <1>3, <1>5, <1>6, <1>7, <1>8, <1>9, <1>10

LEMMA NotAppended ==
  ASSUME PlaneInv, NEW r \in Runs, NEW what \in Whats, AppendError(r, what), ~Stopped,
         ~Finished(file[r])
  PROVE  /\ \A i \in 1 .. Len(file'[r]) : Finishes(file'[r][i]) => i = Len(file'[r])
         /\ Finished(file'[r]) => what \in Terminal
         /\ ValidFrames(file'[r]) =>
              file'[r] = file[r] \/ file'[r][Len(file'[r])].what = what
         /\ faults' = 0 => faults = 0 /\ file'[r] = file[r]
         /\ UNCHANGED <<events, sealed, marker, dirs>>
         /\ \A s \in Runs \ {r} : file'[s] = file[s]
<1>1. /\ file \in [Runs -> Seq(Frame)] /\ file[r] \in Seq(Frame) /\ TypeOK /\ faults \in Nat
      /\ RunInv(r)
  BY DEF PlaneInv, PlaneTypeOK, TypeOK
<1>2. UNCHANGED <<events, sealed, marker, dirs>> /\ \A s \in Runs \ {r} : file'[s] = file[s]
  BY <1>1, AppendErrorTouches
<1>3. faults' = 0 => faults = 0 /\ file'[r] = file[r]
  BY <1>1 DEF AppendError, Fault
<1>4. CASE file'[r] = file[r]
  BY <1>1, <1>2, <1>3, <1>4 DEF RunInv, FrameInv
<1>5. ASSUME NEW g \in Frame, g.what = what, file'[r] = Append(file[r], g)
      PROVE  /\ \A i \in 1 .. Len(file'[r]) : Finishes(file'[r][i]) => i = Len(file'[r])
             /\ Finished(file'[r]) => what \in Terminal
             /\ file'[r][Len(file'[r])].what = what
  <2>1. /\ Len(file'[r]) = Len(file[r]) + 1 /\ Len(file[r]) \in Nat
        /\ file'[r][Len(file[r]) + 1] = g
        /\ \A i \in 1 .. Len(file[r]) : file'[r][i] = file[r][i]
    BY <1>1, <1>5, AppendProperties, LenProperties
  <2> QED
    BY <1>5, <2>1 DEF Finished, Finishes
<1>6. file' = file \/ \E g \in Frame : g.what = what /\ file' = [file EXCEPT ![r] = Append(file[r], g)]
  BY <1>1, AppendErrorLeaves
<1> QED
  BY <1>1, <1>2, <1>3, <1>4, <1>5, <1>6

-----------------------------------------------------------------------------
(* What the lock, the driver's calls and the log are known to be.            *)

LEMMA FaultCounts == ASSUME PlaneInv, Fault PROVE faults' # 0
<1>1. faults \in Nat /\ faults' = faults + 1
  BY DEF PlaneInv, PlaneTypeOK, TypeOK, Fault
<1> QED
  BY <1>1

\* While nothing has been left unsaved the record is that on disk.
LEMMA InStep ==
  ASSUME PlaneInv, NEW r \in Runs, ~Stopped, latched = "no", lock.at \notin Unsaved \/ lock.run # r
  PROVE  catalog[r] = saved[r]
  BY DEF PlaneInv, StoreInv, SavedInv

LEMMA NothingLogged ==
  ASSUME PlaneInv, NEW r \in Runs, ~Stopped, file[r] = <<>>
  PROVE  events[r] = <<>> /\ ~Finished(file[r])
<1>1. Continues(<<>>, events[r]) /\ events[r] \in Seq(Frame)
  BY NoFinishInEmpty DEF PlaneInv, StoreInv, LogInv, RunLogInv, TypeOK
<1>2. Len(<<>>) = 0 /\ Len(events[r]) \in Nat
  BY <1>1, EmptySeq, LenProperties
<1> QED
  BY <1>1, <1>2, NoFinishInEmpty DEF Continues

\* record(verification_error), whether it is saved or not.
LEMMA RecordsError ==
  ASSUME PlaneInv, NEW r \in Runs, VerificationError(r)
  PROVE  /\ Alive /\ lock.at = "free" /\ UNCHANGED <<process, lock, logs, dirs, told, crashes>>
         /\ faults' = 0 => faults = 0
         /\ \A s \in Runs \ {r} : SameRecords(s)
         /\ \/ catalog'[r] = catalog[r] /\ saved'[r] = saved[r]
            \/ /\ catalog[r].status # "none" /\ catalog[r] = saved[r]
               /\ catalog'[r].status = catalog[r].status
               /\ catalog'[r].verdict = Flat("verification_error")
               /\ saved'[r] = saved[r] \/ saved'[r] = catalog'[r]
<1> DEFINE e == [catalog[r] EXCEPT !.verdict = Flat("verification_error")]
<1>1. /\ catalog \in [Runs -> Entry] /\ saved \in [Runs -> Entry] /\ catalog[r] \in Entry
      /\ faults \in Nat
  BY DEF PlaneInv, PlaneTypeOK, TypeOK
<1>2. e.status = catalog[r].status /\ e.verdict = Flat("verification_error")
  BY <1>1 DEF Entry
<1> HIDE DEF e
<1>3. /\ Alive /\ lock.at = "free" /\ UNCHANGED <<process, lock, logs, dirs, told, crashes>>
      /\ \/ UNCHANGED <<catalog, saved, faults>>
         \/ /\ latched = "no" /\ catalog[r].status # "none"
            /\ catalog' = [catalog EXCEPT ![r] = e]
            /\ PersistOk(r, e) \/ PersistFails(r, e)
  BY DEF VerificationError, SetEvidenceVerification, SetEvidenceVerificationFails, Calling, Free, e
<1>4. CASE UNCHANGED <<catalog, saved, faults>>
  BY <1>3, <1>4 DEF SameRecords
<1>5. CASE /\ latched = "no" /\ catalog[r].status # "none"
           /\ catalog' = [catalog EXCEPT ![r] = e]
           /\ PersistOk(r, e) \/ PersistFails(r, e)
  <2>1. catalog[r] = saved[r]
    BY <1>3, <1>5, InStep DEF Alive, Stopped, Unsaved, Loading
  <2>2. /\ saved'[r] = saved[r] \/ saved'[r] = e
        /\ \A s \in Runs \ {r} : saved'[s] = saved[s]
        /\ faults' = 0 => faults = 0
    BY <1>1, <1>5 DEF PersistOk, PersistFails, State, Fault
  <2>3. catalog'[r] = e /\ \A s \in Runs \ {r} : catalog'[s] = catalog[s]
    BY <1>1, <1>5
  <2> QED
    BY <1>2, <1>3, <1>5, <2>1, <2>2, <2>3 DEF SameRecords
<1> QED
  BY <1>3, <1>4, <1>5

\* Sealing, of either kind.
LEMMA Seals ==
  ASSUME PlaneInv, NEW r \in Runs, SealOk(r), ~Stopped
  PROVE  /\ sealed'[r] = "yes" /\ marker'[r] = [is |-> "whole", head |-> events[r]]
         /\ UNCHANGED <<events, file, dirs, faults>>
         /\ \A s \in Runs \ {r} : sealed'[s] = sealed[s] /\ marker'[s] = marker[s]
  BY DEF PlaneInv, RunInv, MarkerInv, SealOk, PlaneTypeOK, TypeOK

LEMMA SealFails ==
  ASSUME PlaneInv, NEW r \in Runs, SealError(r)
  PROVE  /\ UNCHANGED <<events, sealed, file, dirs>>
         /\ faults' = 0 => faults = 0 /\ marker'[r] = marker[r]
         /\ marker'[r] = marker[r] \/ (marker[r].is = "absent" /\ sealed[r] = "no")
         /\ \A s \in Runs \ {r} : marker'[s] = marker[s]
<1>1. marker \in [Runs -> Marker] /\ sealed \in [Runs -> {"yes", "no"}] /\ faults \in Nat
  BY DEF PlaneInv, PlaneTypeOK, TypeOK
<1>2. UNCHANGED <<events, sealed, file, dirs>>
  BY DEF SealError
<1>3. \/ UNCHANGED <<marker, faults>>
      \/ /\ Fault
         /\ \/ UNCHANGED marker
            \/ /\ marker[r].is = "absent" /\ sealed[r] = "no"
               /\ \E m \in {[is |-> "partial", head |-> <<>>], [is |-> "whole", head |-> events[r]]} :
                    marker' = [marker EXCEPT ![r] = m]
  BY Zenon DEF SealError
<1> QED
  BY <1>1, <1>2, <1>3 DEF Fault

\* Publishing, the goroutine finds on disk what the verdict is about.
LEMMA BundleIsOnDisk ==
  ASSUME PlaneInv, NEW r \in Runs, At(r, "publishing")
  PROVE  /\ OnDisk(r, catalog[r].status, Result(r), file[r], manifest[r], bundle[r], marker[r])
         /\ Alive /\ sealed[r] = "yes"
<1>1. RunInv(r) /\ Alive /\ ~Stopped /\ Reporting(r)
  BY DEF PlaneInv, RunInv, GoroutineInv, At, Alive, Stopped, Reporting
<1>2. /\ BundleValid(r, NewBundle(r)) /\ manifest[r] = <<events[r]>> /\ bundle[r] = <<NewBundle(r)>>
  BY <1>1 DEF RunInv, BundleInv
<1>3. file[r] = events[r]
  BY <1>2 DEF BundleValid, NewBundle
<1>4. NewBundle(r) = [log |-> file[r], head |-> file[r], verdict |-> Result(r)]
  BY <1>3 DEF NewBundle
<1>5. BundleValid(r, bundle[r][1])
  BY <1>2
<1>6. sealed[r] = "yes" /\ marker[r] = [is |-> "whole", head |-> file[r]]
  BY <1>1, <1>3 DEF RunInv, MarkerInv
<1>7. /\ catalog[r].status \in Terminal /\ file[r] # <<>>
      /\ file[r][Len(file[r])].what = catalog[r].status
  BY <1>1, <1>3 DEF RunInv, FrameInv
<1> QED
  BY <1>1, <1>2, <1>3, <1>4, <1>5, <1>6, <1>7 DEF OnDisk

-----------------------------------------------------------------------------
(* What the steps do to the run they are about.                              *)

LEMMA CreateRun ==
  ASSUME PlaneInv, NEW r \in Runs, NEW k \in Keys \cup {None}, Create(r, k),
         UNCHANGED <<driver, published>>
  PROVE  Local(r) /\ RunInv(r)'
<1>0. RunInv(r) /\ StoreInv /\ PlaneTypeOK /\ TypeOK
  BY DEF PlaneInv, PlaneTypeOK
<1>1. /\ process = "up" /\ lock.at = "free" /\ lock'.at = "persistCreated" /\ lock'.run = r
      /\ catalog'[r].status = "created" /\ catalog'[r].verdict = NoVerdict
      /\ process' = process /\ faults' = faults /\ saved' = saved
      /\ \A s \in Runs \ {r} : catalog'[s] = catalog[s]
  BY <1>0 DEF Create, Serving, Free, Take, TypeOK, Absent
<1>2. Local(r) /\ SameLog(r) /\ SameDriver(r) /\ SameBundle(r)
  BY <1>1 DEF Create, logs, driver, published, Local, LockFor, SameRecords, SameLog, SameDriver,
     SameBundle
<1>3. saved[r] = Absent /\ catalog[r] = Absent /\ file[r] = <<>>
  BY <1>0 DEF StoreInv, SavedInv, Create, NewRun
<1>4. Absent.status = "none" /\ Absent.verdict.is = "none" /\ NoVerdict.is = "none"
  BY DEF Absent, NoVerdict
<1>5. ~Finished(file[r]) /\ events[r] = <<>>
  BY <1>0, <1>3, <1>4, NoFinishInEmpty DEF StoreInv, LogInv, RunLogInv
<1> USE DEF SameRecords, SameLog, SameDriver, SameBundle
<1>6. RecordInv(r)'
  BY <1>0, <1>1, <1>2, <1>3, <1>4, <1>5
  DEF RunInv, RecordInv, GoroutineInv, Plausible, Stopped
<1>7. GoroutineInv(r)'
  BY <1>0, <1>1, <1>2, <1>3, <1>4, <1>5
  DEF RunInv, RecordInv, GoroutineInv, Plausible, Over, Ending, At, Alive, Stopped
<1>8. LagInv(r)'
  BY <1>0, <1>1, <1>2, <1>3, <1>4, <1>5
  DEF RunInv, RecordInv, GoroutineInv, Plausible, LagInv, Holds, At, Creating, Starting, Loading
<1>9. FrameInv(r)'
  BY <1>0, <1>1, <1>2, <1>3, <1>4, <1>5
  DEF RunInv, RecordInv, GoroutineInv, LagInv, FrameInv, Endable, Ending, Reporting, Holds, At,
      Creating, Starting, Loading, Leftover, Alive, Stopped
<1>10. MarkerInv(r)'
  BY <1>0, <1>1, <1>2, <1>3, <1>4, <1>5
  DEF RunInv, MarkerInv, FrameInv, Reporting, At, Stopped
<1>11. BundleInv(r)'
  BY <1>0, <1>1, <1>2, <1>3, <1>4, <1>5
  DEF RunInv, BundleInv, Published, NewBundle, Result, At, Stopped
<1>12. CleanInv(r)'
  BY <1>0, <1>1, <1>2, <1>3, <1>4, <1>5
  DEF RunInv, CleanInv, Stopped
<1> QED
  BY <1>2, <1>6, <1>7, <1>8, <1>9, <1>10, <1>11, <1>12 DEF RunInv

LEMMA CreateRunFails ==
  ASSUME PlaneInv, NEW r \in Runs, CreateFails(r), UNCHANGED <<driver, published>>
  PROVE  Local(r) /\ RunInv(r)'
<1>0. RunInv(r) /\ StoreInv /\ PlaneTypeOK /\ TypeOK
  BY DEF PlaneInv, PlaneTypeOK
<1>1. process' = process /\ (faults' = 0 => faults = 0) /\ lock' = lock /\ SameRecords(r)
  BY <1>0 DEF CreateFails, Fault, memory, SameRecords, TypeOK
<1>2. Local(r) /\ SameLog(r) /\ SameDriver(r) /\ SameBundle(r)
  BY <1>1 DEF CreateFails, memory, driver, published, Local, LockFor, SameRecords, SameLog,
     SameDriver, SameBundle
<1> USE DEF SameRecords, SameLog, SameDriver, SameBundle
<1>3. RecordInv(r)'
  BY <1>0, <1>1, <1>2
  DEF RunInv, RecordInv, GoroutineInv, Plausible, Stopped
<1>4. GoroutineInv(r)'
  BY <1>0, <1>1, <1>2
  DEF RunInv, RecordInv, GoroutineInv, Plausible, Over, Ending, At, Alive, Stopped
<1>5. LagInv(r)'
  BY <1>0, <1>1, <1>2
  DEF RunInv, RecordInv, GoroutineInv, Plausible, LagInv, Holds, At, Creating, Starting, Loading
<1>6. FrameInv(r)'
  BY <1>0, <1>1, <1>2
  DEF RunInv, RecordInv, GoroutineInv, LagInv, FrameInv, Endable, Ending, Reporting, Holds, At,
      Creating, Starting, Loading, Leftover, Alive, Stopped
<1>7. MarkerInv(r)'
  BY <1>0, <1>1, <1>2
  DEF RunInv, MarkerInv, FrameInv, Reporting, At, Stopped
<1>8. BundleInv(r)'
  BY <1>0, <1>1, <1>2
  DEF RunInv, BundleInv, Published, NewBundle, Result, At, Stopped
<1>9. CleanInv(r)'
  BY <1>0, <1>1, <1>2
  DEF RunInv, CleanInv, Stopped
<1> QED
  BY <1>2, <1>3, <1>4, <1>5, <1>6, <1>7, <1>8, <1>9 DEF RunInv

LEMMA CreatedRun ==
  ASSUME PlaneInv, NEW r \in Runs, CreatedPersisted(r), UNCHANGED <<driver, published>>
  PROVE  Local(r) /\ RunInv(r)'
<1>0. RunInv(r) /\ StoreInv /\ PlaneTypeOK /\ TypeOK
  BY DEF PlaneInv, PlaneTypeOK
<1>1. /\ lock.at = "persistCreated" /\ lock.run = r /\ lock'.at = "prepare" /\ lock'.run = r
      /\ process' = process /\ faults' = faults /\ catalog' = catalog /\ saved'[r] = catalog[r]
      /\ \A s \in Runs \ {r} : saved'[s] = saved[s]
  BY <1>0 DEF CreatedPersisted, Held, Continue, PersistOk, State, TypeOK, Lock
<1>2. Local(r) /\ SameLog(r) /\ SameDriver(r) /\ SameBundle(r)
  BY <1>1 DEF CreatedPersisted, logs, driver, published, Local, LockFor, SameRecords, SameLog,
     SameDriver, SameBundle
<1>3. catalog[r].status = "created" /\ ~Stopped
  BY <1>0, <1>1 DEF StoreInv, LockInv, Creating
<1> USE DEF SameRecords, SameLog, SameDriver, SameBundle
<1>4. RecordInv(r)'
  BY <1>0, <1>1, <1>2, <1>3
  DEF RunInv, RecordInv, GoroutineInv, Plausible, Stopped
<1>5. GoroutineInv(r)'
  BY <1>0, <1>1, <1>2, <1>3
  DEF RunInv, RecordInv, GoroutineInv, Plausible, Over, Ending, At, Alive, Stopped
<1>6. LagInv(r)'
  BY <1>0, <1>1, <1>2, <1>3
  DEF RunInv, RecordInv, GoroutineInv, Plausible, LagInv, Holds, At, Creating, Starting, Loading
<1>7. FrameInv(r)'
  BY <1>0, <1>1, <1>2, <1>3
  DEF RunInv, RecordInv, GoroutineInv, LagInv, FrameInv, Endable, Ending, Reporting, Holds, At,
      Creating, Starting, Loading, Leftover, Alive, Stopped
<1>8. MarkerInv(r)'
  BY <1>0, <1>1, <1>2, <1>3
  DEF RunInv, MarkerInv, FrameInv, Reporting, At, Stopped
<1>9. BundleInv(r)'
  BY <1>0, <1>1, <1>2, <1>3
  DEF RunInv, BundleInv, Published, NewBundle, Result, At, Stopped
<1>10. CleanInv(r)'
  BY <1>0, <1>1, <1>2, <1>3
  DEF RunInv, CleanInv, Stopped
<1> QED
  BY <1>2, <1>4, <1>5, <1>6, <1>7, <1>8, <1>9, <1>10 DEF RunInv

LEMMA CreatedRunFails ==
  ASSUME PlaneInv, NEW r \in Runs, CreatedUnpersisted(r), UNCHANGED <<driver, published>>
  PROVE  Local(r) /\ RunInv(r)'
<1>0. RunInv(r) /\ StoreInv /\ PlaneTypeOK /\ TypeOK
  BY DEF PlaneInv, PlaneTypeOK
<1>1. /\ lock.at = "persistCreated" /\ lock.run = r /\ lock'.at = "free"
      /\ process' = process /\ (faults' = 0 => faults = 0) /\ catalog' = catalog
      /\ saved'[r] = saved[r] \/ saved'[r] = catalog[r]
      /\ \A s \in Runs \ {r} : saved'[s] = saved[s]
  BY <1>0 DEF CreatedUnpersisted, Held, Unlock, Unlocked, PersistFails, Fault, State, TypeOK
<1>2. Local(r) /\ SameLog(r) /\ SameDriver(r) /\ SameBundle(r)
  BY <1>1 DEF CreatedUnpersisted, logs, driver, published, Local, LockFor, SameRecords, SameLog,
     SameDriver, SameBundle
<1>3. catalog[r].status = "created" /\ ~Stopped
  BY <1>0, <1>1 DEF StoreInv, LockInv, Creating
<1> USE DEF SameRecords, SameLog, SameDriver, SameBundle
<1>4. RecordInv(r)'
  BY <1>0, <1>1, <1>2, <1>3
  DEF RunInv, RecordInv, GoroutineInv, Plausible, Stopped
<1>5. GoroutineInv(r)'
  BY <1>0, <1>1, <1>2, <1>3
  DEF RunInv, RecordInv, GoroutineInv, Plausible, Over, Ending, At, Alive, Stopped
<1>6. LagInv(r)'
  BY <1>0, <1>1, <1>2, <1>3
  DEF RunInv, RecordInv, GoroutineInv, Plausible, LagInv, Holds, At, Creating, Starting, Loading
<1>7. FrameInv(r)'
  BY <1>0, <1>1, <1>2, <1>3
  DEF RunInv, RecordInv, GoroutineInv, LagInv, FrameInv, Endable, Ending, Reporting, Holds, At,
      Creating, Starting, Loading, Leftover, Alive, Stopped
<1>8. MarkerInv(r)'
  BY <1>0, <1>1, <1>2, <1>3
  DEF RunInv, MarkerInv, FrameInv, Reporting, At, Stopped
<1>9. BundleInv(r)'
  BY <1>0, <1>1, <1>2, <1>3
  DEF RunInv, BundleInv, Published, NewBundle, Result, At, Stopped
<1>10. CleanInv(r)'
  BY <1>0, <1>1, <1>2, <1>3
  DEF RunInv, CleanInv, Stopped
<1> QED
  BY <1>2, <1>4, <1>5, <1>6, <1>7, <1>8, <1>9, <1>10 DEF RunInv

LEMMA PreparedRun ==
  ASSUME PlaneInv, NEW r \in Runs, Prepared(r), proc' = [proc EXCEPT ![r] = "prepared"],
         UNCHANGED <<comp, published>>
  PROVE  Local(r) /\ RunInv(r)'
<1>0. RunInv(r) /\ StoreInv /\ PlaneTypeOK /\ TypeOK
  BY DEF PlaneInv, PlaneTypeOK
<1>1. /\ lock.at = "prepare" /\ lock.run = r /\ lock'.at = "free"
      /\ process' = process /\ faults' = faults /\ SameRecords(r)
  BY DEF Prepared, Held, Unlock, Unlocked, SameRecords
<1>2. Local(r) /\ SameLog(r) /\ comp' = comp /\ SameBundle(r)
  BY <1>0, <1>1 DEF Prepared, logs, published, Local, LockFor, PlaneTypeOK, SameRecords, SameLog,
     SameDriver, SameBundle
<1>3. catalog[r].status = "created" /\ ~Stopped /\ catalog[r] = saved[r]
  BY <1>0, <1>1, InStep DEF StoreInv, LockInv, Creating, Unsaved, Loading
<1> USE DEF SameRecords, SameLog, SameDriver, SameBundle
<1>4. RecordInv(r)'
  BY <1>0, <1>1, <1>2, <1>3
  DEF RunInv, RecordInv, GoroutineInv, Plausible, Stopped
<1>5. GoroutineInv(r)'
  BY <1>0, <1>1, <1>2, <1>3
  DEF RunInv, RecordInv, GoroutineInv, Plausible, Over, Ending, At, Alive, Stopped
<1>6. LagInv(r)'
  BY <1>0, <1>1, <1>2, <1>3
  DEF RunInv, RecordInv, GoroutineInv, Plausible, LagInv, Holds, At, Creating, Starting, Loading
<1>7. FrameInv(r)'
  BY <1>0, <1>1, <1>2, <1>3
  DEF RunInv, RecordInv, GoroutineInv, LagInv, FrameInv, Endable, Ending, Reporting, Holds, At,
      Creating, Starting, Loading, Leftover, Alive, Stopped
<1>8. MarkerInv(r)'
  BY <1>0, <1>1, <1>2, <1>3
  DEF RunInv, MarkerInv, FrameInv, Reporting, At, Stopped
<1>9. BundleInv(r)'
  BY <1>0, <1>1, <1>2, <1>3
  DEF RunInv, BundleInv, Published, NewBundle, Result, At, Stopped
<1>10. CleanInv(r)'
  BY <1>0, <1>1, <1>2, <1>3
  DEF RunInv, CleanInv, Stopped
<1> QED
  BY <1>2, <1>4, <1>5, <1>6, <1>7, <1>8, <1>9, <1>10 DEF RunInv

LEMMA UnpreparedRun ==
  ASSUME PlaneInv, NEW r \in Runs, Unprepared(r), UNCHANGED <<driver, published>>
  PROVE  Local(r) /\ RunInv(r)'
<1>0. RunInv(r) /\ StoreInv /\ PlaneTypeOK /\ TypeOK
  BY DEF PlaneInv, PlaneTypeOK
<1>1. /\ lock.at = "prepare" /\ lock.run = r /\ lock'.at = "free"
      /\ process' = process /\ (faults' = 0 => faults = 0)
      /\ catalog'[r].status = "failed" /\ catalog'[r].verdict = Flat("verification_error")
      /\ saved'[r] = saved[r] \/ saved'[r] = catalog'[r]
      /\ \A s \in Runs \ {r} : SameRecords(s)
  <2> DEFINE y == [catalog[r] EXCEPT !.status = "failed", !.verdict = Flat("verification_error")]
             e == Recorded(y, "create", lock.keyed, "failure")
  <2>0. catalog[r] \in Entry /\ Flat("verification_error") \in Verdict
    BY <1>0, FlatIsVerdict DEF TypeOK, Verdicts
  <2>1. y \in Entry /\ y.status = "failed" /\ y.verdict = Flat("verification_error")
    BY <2>0 DEF Entry, Statuses, Terminal
  <2> HIDE DEF y
  <2>2. e.status = "failed" /\ e.verdict = Flat("verification_error")
    BY <2>1, RecordedFacts DEF Requests, Answers
  <2> HIDE DEF e
  <2>3. /\ Held("prepare", r) /\ catalog' = [catalog EXCEPT ![r] = e] /\ Unlock
        /\ process' = process
        /\ PersistOk(r, e) \/ PersistFails(r, e)
    BY DEF Unprepared, e, y
  <2> QED
    BY <1>0, <2>2, <2>3 DEF PersistOk, PersistFails, State, Fault, Held, Unlock, Unlocked,
       SameRecords, TypeOK
<1>2. Local(r) /\ SameLog(r) /\ SameDriver(r) /\ SameBundle(r)
  BY <1>1 DEF Unprepared, logs, driver, published, Local, LockFor, SameRecords, SameLog,
     SameDriver, SameBundle
<1>3. catalog[r].status = "created" /\ ~Stopped
  BY <1>0, <1>1 DEF StoreInv, LockInv, Creating
<1>4. file[r] = <<>> /\ events[r] = <<>> /\ ~Finished(file[r])
  BY <1>0, <1>1, <1>3, NothingLogged DEF RunInv, FrameInv, Holds, Creating
<1>5. Flat("verification_error").is = "verification_error"
  BY DEF Flat
<1> USE DEF SameRecords, SameLog, SameDriver, SameBundle
<1>6. RecordInv(r)'
  BY <1>0, <1>1, <1>2, <1>3, <1>4, <1>5
  DEF RunInv, RecordInv, GoroutineInv, Plausible, Stopped
<1>7. GoroutineInv(r)'
  BY <1>0, <1>1, <1>2, <1>3, <1>4, <1>5
  DEF RunInv, RecordInv, GoroutineInv, Plausible, Over, Ending, At, Alive, Stopped
<1>8. LagInv(r)'
  BY <1>0, <1>1, <1>2, <1>3, <1>4, <1>5
  DEF RunInv, RecordInv, GoroutineInv, Plausible, LagInv, Holds, At, Creating, Starting, Loading
<1>9. FrameInv(r)'
  BY <1>0, <1>1, <1>2, <1>3, <1>4, <1>5
  DEF RunInv, RecordInv, GoroutineInv, LagInv, FrameInv, Endable, Ending, Reporting, Holds, At,
      Creating, Starting, Loading, Leftover, Alive, Stopped
<1>10. MarkerInv(r)'
  BY <1>0, <1>1, <1>2, <1>3, <1>4, <1>5
  DEF RunInv, MarkerInv, FrameInv, Reporting, At, Stopped
<1>11. BundleInv(r)'
  BY <1>0, <1>1, <1>2, <1>3, <1>4, <1>5
  DEF RunInv, BundleInv, Published, NewBundle, Result, At, Stopped
<1>12. CleanInv(r)'
  BY <1>0, <1>1, <1>2, <1>3, <1>4, <1>5
  DEF RunInv, CleanInv, Stopped
<1> QED
  BY <1>2, <1>6, <1>7, <1>8, <1>9, <1>10, <1>11, <1>12 DEF RunInv

LEMMA StartRun ==
  ASSUME PlaneInv, NEW r \in Runs, NEW keyed \in {"yes", "no"}, Start(r, keyed),
         UNCHANGED <<driver, published>>
  PROVE  Local(r) /\ RunInv(r)'
<1>0. RunInv(r) /\ StoreInv /\ PlaneTypeOK /\ TypeOK
  BY DEF PlaneInv, PlaneTypeOK
<1>1. /\ process = "up" /\ lock.at = "free" /\ latched = "no" /\ catalog[r].status = "created"
      /\ lock'.at = "persistStarted" /\ lock'.run = r
      /\ process' = process /\ saved' = saved /\ AppendOk(r, "start")
      /\ catalog'[r].status = "running" /\ catalog'[r].verdict = catalog[r].verdict
      /\ \A s \in Runs \ {r} : SameRecords(s)
  <2> DEFINE y == [catalog[r] EXCEPT !.status = "running"]
             e == Recorded(y, "start", keyed, "ok")
  <2>0. catalog[r] \in Entry
    BY <1>0 DEF TypeOK
  <2>1. y \in Entry /\ y.status = "running" /\ y.verdict = catalog[r].verdict
    BY <2>0 DEF Entry, Statuses, Terminal
  <2> HIDE DEF y
  <2>2. e.status = "running" /\ e.verdict = catalog[r].verdict
    BY <2>1, RecordedFacts DEF Requests, Answers
  <2> HIDE DEF e
  <2>3. /\ Serving /\ catalog[r].status = "created" /\ AppendOk(r, "start") /\ process' = process
        /\ saved' = saved
        /\ catalog' = [catalog EXCEPT ![r] = e] /\ Take("persistStarted", r, keyed)
    BY DEF Start, e, y
  <2> QED
    BY <1>0, <2>2, <2>3 DEF Serving, Free, Take, SameRecords, TypeOK
<1>2. Local(r) /\ SameDriver(r) /\ SameBundle(r)
  BY <1>1, <1>0 DEF Start, AppendOk, driver, published, Local, LockFor, TypeOK, SameRecords,
     SameLog, SameDriver, SameBundle
<1>3. ~Stopped /\ ~Finished(file[r]) /\ catalog[r] = saved[r]
  BY <1>0, <1>1, InStep DEF RunInv, FrameInv, Endable, Alive, Stopped, Unsaved, Loading
<1>4. /\ \A i \in 1 .. Len(file'[r]) : Finishes(file'[r][i]) => i = Len(file'[r])
      /\ ~Finished(file'[r]) /\ (ValidFrames(file'[r]) => file'[r] = events'[r])
      /\ sealed[r] = "no" /\ sealed' = sealed /\ marker' = marker /\ faults' = faults
      /\ faults = 0 => ValidFrames(file'[r]) /\ file'[r] = events'[r] /\ marker[r] = NoMarker
  BY <1>1, <1>3, Appended DEF Whats, Terminal
<1>5. /\ marker[r].is = "absent" /\ catalog[r].verdict.is # "ineligible"
      /\ saved[r].verdict.is # "ineligible"
  BY <1>3, OpenLog
<1>6. comp[r].at = "none"
  BY <1>0, <1>1 DEF RunInv, RecordInv, GoroutineInv
<1> USE DEF SameRecords, SameLog, SameDriver, SameBundle
<1>7. RecordInv(r)'
  BY <1>0, <1>1, <1>2, <1>3, <1>5, <1>6
  DEF RunInv, RecordInv, GoroutineInv, Plausible, Stopped
<1>8. GoroutineInv(r)'
  BY <1>0, <1>1, <1>2, <1>3, <1>5, <1>6
  DEF RunInv, RecordInv, GoroutineInv, Plausible, Over, Ending, At, Alive, Stopped
<1>9. LagInv(r)'
  BY <1>0, <1>1, <1>2, <1>3, <1>5, <1>6
  DEF RunInv, RecordInv, GoroutineInv, Plausible, LagInv, Holds, At, Creating, Starting, Loading
<1>10. FrameInv(r)'
  BY <1>0, <1>1, <1>2, <1>3, <1>4, <1>5, <1>6
  DEF RunInv, RecordInv, GoroutineInv, LagInv, FrameInv, Endable, Ending, Reporting, Holds, At,
      Creating, Starting, Loading, Leftover, Alive, Stopped
<1>11. MarkerInv(r)'
  BY <1>0, <1>1, <1>2, <1>3, <1>4, <1>5, <1>6
  DEF RunInv, MarkerInv, FrameInv, Reporting, At, Stopped
<1>12. BundleInv(r)'
  BY <1>0, <1>1, <1>2, <1>3, <1>4, <1>5, <1>6
  DEF RunInv, BundleInv, Published, NewBundle, Result, At, Stopped
<1>13. CleanInv(r)'
  BY <1>0, <1>1, <1>2, <1>3, <1>4, <1>5, <1>6
  DEF RunInv, CleanInv, Stopped
<1> QED
  BY <1>2, <1>7, <1>8, <1>9, <1>10, <1>11, <1>12, <1>13 DEF RunInv

LEMMA StartRunFails ==
  ASSUME PlaneInv, NEW r \in Runs, StartFails(r), UNCHANGED <<driver, published>>
  PROVE  Local(r) /\ RunInv(r)'
<1>0. RunInv(r) /\ StoreInv /\ PlaneTypeOK /\ TypeOK
  BY DEF PlaneInv, PlaneTypeOK
<1>1. /\ process = "up" /\ lock.at = "free" /\ latched = "no" /\ catalog[r].status = "created"
      /\ process' = process /\ lock' = lock /\ SameRecords(r) /\ AppendError(r, "start")
  BY DEF StartFails, Serving, Free, SameRecords
<1>2. Local(r) /\ SameDriver(r) /\ SameBundle(r)
  <2>1. /\ \A s \in Runs \ {r} : file'[s] = file[s]
        /\ UNCHANGED <<events, sealed, marker, dirs>> /\ (faults' = 0 => faults = 0)
    BY <1>0, <1>1, AppendErrorTouches DEF AppendError, Fault, TypeOK
  <2> QED
    BY <1>1, <2>1 DEF StartFails, driver, published, Local, LockFor, SameRecords, SameLog,
       SameDriver, SameBundle
<1>3. ~Stopped /\ ~Finished(file[r])
  BY <1>0, <1>1 DEF RunInv, FrameInv, Endable, Alive, Stopped
<1>4. /\ \A i \in 1 .. Len(file'[r]) : Finishes(file'[r][i]) => i = Len(file'[r])
      /\ ~Finished(file'[r])
      /\ ValidFrames(file'[r]) => file'[r] = file[r] \/ file'[r][Len(file'[r])].what = "start"
      /\ faults' = 0 => faults = 0 /\ file'[r] = file[r]
      /\ UNCHANGED <<events, sealed, marker>>
  BY <1>1, <1>3, NotAppended DEF Whats, Terminal
<1>5. /\ marker[r].is = "absent" /\ catalog[r].verdict.is # "ineligible"
      /\ saved[r].verdict.is # "ineligible"
  BY <1>3, OpenLog
<1>6. comp[r].at = "none"
  BY <1>0, <1>1 DEF RunInv, RecordInv, GoroutineInv
<1> USE DEF SameRecords, SameLog, SameDriver, SameBundle
<1>7. RecordInv(r)'
  BY <1>0, <1>1, <1>2, <1>3, <1>5, <1>6
  DEF RunInv, RecordInv, GoroutineInv, Plausible, Stopped
<1>8. GoroutineInv(r)'
  BY <1>0, <1>1, <1>2, <1>3, <1>5, <1>6
  DEF RunInv, RecordInv, GoroutineInv, Plausible, Over, Ending, At, Alive, Stopped
<1>9. LagInv(r)'
  BY <1>0, <1>1, <1>2, <1>3, <1>5, <1>6
  DEF RunInv, RecordInv, GoroutineInv, Plausible, LagInv, Holds, At, Creating, Starting, Loading
<1>10. FrameInv(r)'
  BY <1>0, <1>1, <1>2, <1>3, <1>4, <1>5, <1>6
  DEF RunInv, RecordInv, GoroutineInv, LagInv, FrameInv, Endable, Ending, Reporting, Holds, At,
      Creating, Starting, Loading, Leftover, Alive, Stopped
<1>11. MarkerInv(r)'
  BY <1>0, <1>1, <1>2, <1>3, <1>4, <1>5, <1>6
  DEF RunInv, MarkerInv, FrameInv, Reporting, At, Stopped
<1>12. BundleInv(r)'
  BY <1>0, <1>1, <1>2, <1>3, <1>4, <1>5, <1>6
  DEF RunInv, BundleInv, Published, NewBundle, Result, At, Stopped
<1>13. CleanInv(r)'
  BY <1>0, <1>1, <1>2, <1>3, <1>4, <1>5, <1>6
  DEF RunInv, CleanInv, Stopped
<1> QED
  BY <1>2, <1>7, <1>8, <1>9, <1>10, <1>11, <1>12, <1>13 DEF RunInv

LEMMA StartedRun ==
  ASSUME PlaneInv, NEW r \in Runs, StartPersisted(r), UNCHANGED <<driver, published>>
  PROVE  Local(r) /\ RunInv(r)'
<1>0. RunInv(r) /\ StoreInv /\ PlaneTypeOK /\ TypeOK
  BY DEF PlaneInv, PlaneTypeOK
<1>1. /\ lock.at = "persistStarted" /\ lock.run = r /\ lock'.at = "dispatchStart" /\ lock'.run = r
      /\ process' = process /\ faults' = faults /\ catalog' = catalog /\ saved'[r] = catalog[r]
      /\ \A s \in Runs \ {r} : saved'[s] = saved[s]
  BY <1>0 DEF StartPersisted, Held, Continue, PersistOk, State, TypeOK, Lock
<1>2. Local(r) /\ SameLog(r) /\ SameDriver(r) /\ SameBundle(r)
  BY <1>1 DEF StartPersisted, logs, driver, published, Local, LockFor, SameRecords, SameLog,
     SameDriver, SameBundle
<1>3. catalog[r].status = "running" /\ ~Stopped /\ process # "recovering"
  BY <1>0, <1>1 DEF StoreInv, LockInv, Starting, Loading
<1> USE DEF SameRecords, SameLog, SameDriver, SameBundle
<1>4. RecordInv(r)'
  BY <1>0, <1>1, <1>2, <1>3
  DEF RunInv, RecordInv, GoroutineInv, Plausible, Stopped
<1>5. GoroutineInv(r)'
  BY <1>0, <1>1, <1>2, <1>3
  DEF RunInv, RecordInv, GoroutineInv, Plausible, Over, Ending, At, Alive, Stopped
<1>6. LagInv(r)'
  BY <1>0, <1>1, <1>2, <1>3
  DEF RunInv, RecordInv, GoroutineInv, Plausible, LagInv, Holds, At, Creating, Starting, Loading
<1>7. FrameInv(r)'
  BY <1>0, <1>1, <1>2, <1>3
  DEF RunInv, RecordInv, GoroutineInv, LagInv, FrameInv, Endable, Ending, Reporting, Holds, At,
      Creating, Starting, Loading, Leftover, Alive, Stopped
<1>8. MarkerInv(r)'
  BY <1>0, <1>1, <1>2, <1>3
  DEF RunInv, MarkerInv, FrameInv, Reporting, At, Stopped
<1>9. BundleInv(r)'
  BY <1>0, <1>1, <1>2, <1>3
  DEF RunInv, BundleInv, Published, NewBundle, Result, At, Stopped
<1>10. CleanInv(r)'
  BY <1>0, <1>1, <1>2, <1>3
  DEF RunInv, CleanInv, Stopped
<1> QED
  BY <1>2, <1>4, <1>5, <1>6, <1>7, <1>8, <1>9, <1>10 DEF RunInv

LEMMA StartedRunFails ==
  ASSUME PlaneInv, NEW r \in Runs, StartUnpersisted(r), UNCHANGED <<driver, published>>
  PROVE  Local(r) /\ RunInv(r)'
<1>0. RunInv(r) /\ StoreInv /\ PlaneTypeOK /\ TypeOK
  BY DEF PlaneInv, PlaneTypeOK
<1>1. /\ lock.at = "persistStarted" /\ lock.run = r /\ lock'.at = "free"
      /\ process' = process /\ (faults' = 0 => faults = 0) /\ catalog' = catalog
      /\ saved'[r] = saved[r] \/ saved'[r] = catalog[r]
      /\ \A s \in Runs \ {r} : saved'[s] = saved[s]
  BY <1>0 DEF StartUnpersisted, Held, Unlock, Unlocked, PersistFails, Fault, State, TypeOK
<1>2. Local(r) /\ SameLog(r) /\ SameDriver(r) /\ SameBundle(r)
  BY <1>1 DEF StartUnpersisted, logs, driver, published, Local, LockFor, SameRecords, SameLog,
     SameDriver, SameBundle
<1>3. catalog[r].status = "running" /\ ~Stopped /\ process # "recovering"
  BY <1>0, <1>1 DEF StoreInv, LockInv, Starting, Loading
<1> USE DEF SameRecords, SameLog, SameDriver, SameBundle
<1>4. RecordInv(r)'
  BY <1>0, <1>1, <1>2, <1>3
  DEF RunInv, RecordInv, GoroutineInv, Plausible, Stopped
<1>5. GoroutineInv(r)'
  BY ZenonT(30), <1>0, <1>1, <1>2, <1>3
  DEF RunInv, RecordInv, GoroutineInv, Plausible, Over, Ending, At, Alive, Stopped
<1>6. LagInv(r)'
  BY <1>0, <1>1, <1>2, <1>3
  DEF RunInv, RecordInv, GoroutineInv, Plausible, LagInv, Holds, At, Creating, Starting, Loading
<1>7. FrameInv(r)'
  BY <1>0, <1>1, <1>2, <1>3
  DEF RunInv, RecordInv, GoroutineInv, LagInv, FrameInv, Endable, Ending, Reporting, Holds, At,
      Creating, Starting, Loading, Leftover, Alive, Stopped
<1>8. MarkerInv(r)'
  BY <1>0, <1>1, <1>2, <1>3
  DEF RunInv, MarkerInv, FrameInv, Reporting, At, Stopped
<1>9. BundleInv(r)'
  BY <1>0, <1>1, <1>2, <1>3
  DEF RunInv, BundleInv, Published, NewBundle, Result, At, Stopped
<1>10. CleanInv(r)'
  BY <1>0, <1>1, <1>2, <1>3
  DEF RunInv, CleanInv, Stopped
<1> QED
  BY <1>2, <1>4, <1>5, <1>6, <1>7, <1>8, <1>9, <1>10 DEF RunInv

LEMMA DispatchedRun ==
  ASSUME PlaneInv, NEW r \in Runs, Dispatched(r),
         proc' = [proc EXCEPT ![r] = "running"], Go(r, "waiting"), UNCHANGED published
  PROVE  Local(r) /\ RunInv(r)'
<1>0. RunInv(r) /\ StoreInv /\ PlaneTypeOK /\ TypeOK
  BY DEF PlaneInv, PlaneTypeOK
<1>1. /\ lock.at = "dispatchStart" /\ lock.run = r /\ lock'.at = "free"
      /\ process' = process /\ faults' = faults /\ SameRecords(r)
      /\ comp'[r].at = "waiting" /\ comp'[r].evidence = comp[r].evidence
      /\ \A s \in Runs \ {r} : comp'[s] = comp[s]
  BY <1>0, Goes DEF Dispatched, Held, Unlock, Unlocked, SameRecords, Steps
<1>2. Local(r) /\ SameLog(r) /\ SameBundle(r)
  BY <1>0, <1>1 DEF Dispatched, logs, published, Local, LockFor, PlaneTypeOK, SameRecords,
     SameLog, SameDriver, SameBundle
<1>3. Alive /\ ~Stopped /\ catalog[r].status = "running" /\ latched = "no"
  BY <1>0, <1>1 DEF StoreInv, LockInv, Starting, Loading, Stopped, TypeOK, Alive
<1>4. /\ catalog[r] = saved[r] /\ comp[r] = NoComp /\ NoComp.evidence = "sound"
      /\ catalog[r].verdict.is = "none"
  BY <1>0, <1>1, <1>3, InStep DEF RunInv, RecordInv, GoroutineInv, LagInv, Holds, Starting,
     Unsaved, Loading, NoComp
<1>5. ~Finished(file[r])
  BY <1>0, <1>1, <1>3 DEF RunInv, FrameInv, Endable, Holds, Starting
<1> USE DEF SameRecords, SameLog, SameDriver, SameBundle
<1>6. RecordInv(r)'
  BY <1>0, <1>1, <1>2, <1>3, <1>4, <1>5
  DEF RunInv, RecordInv, GoroutineInv, Plausible, Stopped
<1>7. GoroutineInv(r)'
  BY <1>0, <1>1, <1>2, <1>3, <1>4, <1>5
  DEF RunInv, RecordInv, GoroutineInv, Plausible, Over, Ending, At, Alive, Stopped
<1>8. LagInv(r)'
  BY <1>0, <1>1, <1>2, <1>3, <1>4, <1>5
  DEF RunInv, RecordInv, GoroutineInv, Plausible, LagInv, Holds, At, Creating, Starting, Loading
<1>9. FrameInv(r)'
  BY <1>0, <1>1, <1>2, <1>3, <1>4, <1>5
  DEF RunInv, RecordInv, GoroutineInv, LagInv, FrameInv, Endable, Ending, Reporting, Holds, At,
      Creating, Starting, Loading, Leftover, Alive, Stopped
<1>10. MarkerInv(r)'
  BY <1>0, <1>1, <1>2, <1>3, <1>4, <1>5
  DEF RunInv, MarkerInv, FrameInv, Reporting, At, Stopped
<1>11. BundleInv(r)'
  BY <1>0, <1>1, <1>2, <1>3, <1>4, <1>5
  DEF RunInv, BundleInv, Published, NewBundle, Result, At, Stopped
<1>12. CleanInv(r)'
  BY <1>0, <1>1, <1>2, <1>3, <1>4, <1>5
  DEF RunInv, CleanInv, Stopped
<1> QED
  BY <1>2, <1>6, <1>7, <1>8, <1>9, <1>10, <1>11, <1>12 DEF RunInv

LEMMA UndispatchedRun ==
  ASSUME PlaneInv, NEW r \in Runs, Undispatched(r), ~Unlock, UNCHANGED <<comp, published>>,
         \E p \in Procs : proc' = [proc EXCEPT ![r] = p]
  PROVE  Local(r) /\ RunInv(r)'
<1>0. RunInv(r) /\ StoreInv /\ PlaneTypeOK /\ TypeOK
  BY DEF PlaneInv, PlaneTypeOK
<1>1. /\ lock.at = "dispatchStart" /\ lock.run = r
      /\ lock'.at = "persistUndispatched" /\ lock'.run = r
      /\ process' = process /\ saved' = saved /\ AppendOk(r, "failed")
      /\ catalog'[r].status = "failed" /\ catalog'[r].verdict = catalog[r].verdict
      /\ \A s \in Runs \ {r} : SameRecords(s)
  <2> DEFINE y == [catalog[r] EXCEPT !.status = "failed"]
             e == Recorded(y, "start", lock.keyed, "failure")
  <2>0. catalog[r] \in Entry
    BY <1>0 DEF TypeOK
  <2>1. y \in Entry /\ y.status = "failed" /\ y.verdict = catalog[r].verdict
    BY <2>0 DEF Entry, Statuses, Terminal
  <2> HIDE DEF y
  <2>2. e.status = "failed" /\ e.verdict = catalog[r].verdict
    BY <2>1, RecordedFacts DEF Requests, Answers
  <2> HIDE DEF e
  <2>3. /\ Held("dispatchStart", r) /\ AppendOk(r, "failed") /\ process' = process /\ saved' = saved
        /\ catalog' = [catalog EXCEPT ![r] = e] /\ Continue("persistUndispatched")
    BY DEF Undispatched, e, y
  <2> QED
    BY <1>0, <2>2, <2>3 DEF Held, Continue, SameRecords, TypeOK, Lock
<1>2. Local(r) /\ comp' = comp /\ SameBundle(r)
  BY <1>1, <1>0 DEF AppendOk, published, Local, LockFor, TypeOK, PlaneTypeOK, SameRecords,
     SameLog, SameDriver, SameBundle
<1>3. Alive /\ ~Stopped /\ catalog[r].status = "running" /\ latched = "no"
  BY <1>0, <1>1 DEF StoreInv, LockInv, Starting, Loading, Stopped, TypeOK, Alive
<1>4. catalog[r] = saved[r] /\ comp[r].at = "none" /\ ~Finished(file[r])
  BY <1>0, <1>1, <1>3, InStep DEF RunInv, LagInv, FrameInv, Endable, Holds, Starting, Unsaved,
     Loading
<1>5. /\ \A i \in 1 .. Len(file'[r]) : Finishes(file'[r][i]) => i = Len(file'[r])
      /\ Finished(file'[r]) /\ (ValidFrames(file'[r]) => file'[r] = events'[r])
      /\ sealed[r] = "no" /\ sealed' = sealed /\ marker' = marker /\ faults' = faults
      /\ faults = 0 => ValidFrames(file'[r]) /\ file'[r] = events'[r] /\ marker[r] = NoMarker
  BY <1>1, <1>3, <1>4, Appended DEF Whats, Terminal
<1>6. /\ marker[r].is = "absent" /\ catalog[r].verdict.is # "ineligible"
      /\ saved[r].verdict.is # "ineligible"
  BY <1>4, OpenLog
<1> USE DEF SameRecords, SameLog, SameDriver, SameBundle
<1>7. RecordInv(r)'
  BY <1>0, <1>1, <1>2, <1>3, <1>4, <1>6
  DEF RunInv, RecordInv, GoroutineInv, Plausible, Stopped
<1>8. GoroutineInv(r)'
  BY <1>0, <1>1, <1>2, <1>3, <1>4, <1>6
  DEF RunInv, RecordInv, GoroutineInv, Plausible, Over, Ending, At, Alive, Stopped
<1>9. LagInv(r)'
  BY <1>0, <1>1, <1>2, <1>3, <1>4, <1>6
  DEF RunInv, RecordInv, GoroutineInv, Plausible, LagInv, Holds, At, Creating, Starting, Loading
<1>10. FrameInv(r)'
  BY <1>0, <1>1, <1>2, <1>3, <1>4, <1>5, <1>6
  DEF RunInv, RecordInv, GoroutineInv, LagInv, FrameInv, Endable, Ending, Reporting, Holds, At,
      Creating, Starting, Loading, Leftover, Alive, Stopped
<1>11. MarkerInv(r)'
  BY <1>0, <1>1, <1>2, <1>3, <1>4, <1>5, <1>6
  DEF RunInv, MarkerInv, FrameInv, Reporting, At, Stopped
<1>12. BundleInv(r)'
  BY <1>0, <1>1, <1>2, <1>3, <1>4, <1>5, <1>6
  DEF RunInv, BundleInv, Published, NewBundle, Result, At, Stopped
<1>13. CleanInv(r)'
  BY <1>0, <1>1, <1>2, <1>3, <1>4, <1>5, <1>6
  DEF RunInv, CleanInv, Stopped
<1> QED
  BY <1>2, <1>7, <1>8, <1>9, <1>10, <1>11, <1>12, <1>13 DEF RunInv

LEMMA UndispatchedRunFails ==
  ASSUME PlaneInv, NEW r \in Runs, Undispatched(r), Unlock, UNCHANGED <<comp, published>>,
         \E p \in Procs : proc' = [proc EXCEPT ![r] = p]
  PROVE  Local(r) /\ RunInv(r)'
<1>0. RunInv(r) /\ StoreInv /\ PlaneTypeOK /\ TypeOK
  BY DEF PlaneInv, PlaneTypeOK
<1>1. /\ lock.at = "dispatchStart" /\ lock.run = r /\ lock'.at = "free"
      /\ process' = process /\ SameRecords(r) /\ AppendError(r, "failed")
      /\ catalog' = catalog /\ saved' = saved
  BY <1>0 DEF Undispatched, Held, Continue, Unlock, Unlocked, SameRecords, TypeOK, Lock
<1>2. Local(r) /\ comp' = comp /\ SameBundle(r)
  <2>1. /\ \A s \in Runs \ {r} : file'[s] = file[s]
        /\ UNCHANGED <<events, sealed, marker, dirs>> /\ (faults' = 0 => faults = 0)
    BY <1>0, <1>1, AppendErrorTouches DEF AppendError, Fault, TypeOK
  <2> QED
    BY <1>0, <1>1, <2>1 DEF published, Local, LockFor, PlaneTypeOK, SameRecords, SameLog,
       SameDriver, SameBundle
<1>3. Alive /\ ~Stopped /\ catalog[r].status = "running" /\ latched = "no"
  BY <1>0, <1>1 DEF StoreInv, LockInv, Starting, Loading, Stopped, TypeOK, Alive
<1>4. catalog[r] = saved[r] /\ comp[r].at = "none" /\ ~Finished(file[r])
  BY <1>0, <1>1, <1>3, InStep DEF RunInv, LagInv, FrameInv, Endable, Holds, Starting, Unsaved,
     Loading
<1>5. /\ \A i \in 1 .. Len(file'[r]) : Finishes(file'[r][i]) => i = Len(file'[r])
      /\ ValidFrames(file'[r]) => file'[r] = file[r] \/ file'[r][Len(file'[r])].what = "failed"
      /\ faults' = 0 => faults = 0 /\ file'[r] = file[r]
      /\ UNCHANGED <<events, sealed, marker>>
  BY <1>1, <1>3, <1>4, NotAppended DEF Whats, Terminal
<1>6. /\ marker[r].is = "absent" /\ catalog[r].verdict.is # "ineligible"
      /\ saved[r].verdict.is # "ineligible"
  BY <1>4, OpenLog
<1> USE DEF SameRecords, SameLog, SameDriver, SameBundle
<1>7. RecordInv(r)'
  BY <1>0, <1>1, <1>2, <1>3, <1>4, <1>6
  DEF RunInv, RecordInv, GoroutineInv, Plausible, Stopped
<1>8. GoroutineInv(r)'
  BY <1>0, <1>1, <1>2, <1>3, <1>4, <1>6
  DEF RunInv, RecordInv, GoroutineInv, Plausible, Over, Ending, At, Alive, Stopped
<1>9. LagInv(r)'
  BY <1>0, <1>1, <1>2, <1>3, <1>4, <1>6
  DEF RunInv, RecordInv, GoroutineInv, Plausible, LagInv, Holds, At, Creating, Starting, Loading
<1>10. FrameInv(r)'
  BY <1>0, <1>1, <1>2, <1>3, <1>4, <1>5, <1>6
  DEF RunInv, RecordInv, GoroutineInv, LagInv, FrameInv, Endable, Ending, Reporting, Holds, At,
      Creating, Starting, Loading, Leftover, Alive, Stopped, Terminal
<1>11. MarkerInv(r)'
  BY <1>0, <1>1, <1>2, <1>3, <1>4, <1>5, <1>6
  DEF RunInv, MarkerInv, FrameInv, Reporting, At, Stopped
<1>12. BundleInv(r)'
  BY <1>0, <1>1, <1>2, <1>3, <1>4, <1>5, <1>6
  DEF RunInv, BundleInv, Published, NewBundle, Result, At, Stopped
<1>13. CleanInv(r)'
  BY <1>0, <1>1, <1>2, <1>3, <1>4, <1>5, <1>6
  DEF RunInv, CleanInv, Stopped
<1> QED
  BY <1>2, <1>7, <1>8, <1>9, <1>10, <1>11, <1>12, <1>13 DEF RunInv

LEMMA StoppingRun ==
  ASSUME PlaneInv, NEW r \in Runs, NEW keyed \in {"yes", "no"}, Stop(r, keyed),
         UNCHANGED <<driver, published>>
  PROVE  Local(r) /\ RunInv(r)'
<1>0. RunInv(r) /\ StoreInv /\ PlaneTypeOK /\ TypeOK
  BY DEF PlaneInv, PlaneTypeOK
<1>1. /\ process = "up" /\ lock.at = "free" /\ catalog[r].status = "running"
      /\ lock' = lock \/ (lock'.at = "dispatchStop" /\ lock'.run = r)
      /\ process' = process /\ (faults' = 0 => faults = 0)
      /\ catalog'[r].status = "stopping" /\ catalog'[r].verdict = catalog[r].verdict
      /\ saved'[r] = saved[r] \/ saved'[r] = catalog'[r]
      /\ \A s \in Runs \ {r} : SameRecords(s)
  <2> DEFINE y == [catalog[r] EXCEPT !.status = "stopping"]
             e == Recorded(y, "stop", keyed, "ok")
  <2>0. catalog[r] \in Entry
    BY <1>0 DEF TypeOK
  <2>1. y \in Entry /\ y.status = "stopping" /\ y.verdict = catalog[r].verdict
    BY <2>0 DEF Entry, Statuses, Terminal
  <2> HIDE DEF y
  <2>2. e.status = "stopping" /\ e.verdict = catalog[r].verdict
    BY <2>1, RecordedFacts DEF Requests, Answers
  <2> HIDE DEF e
  <2>3. /\ Serving /\ catalog[r].status = "running" /\ process' = process
        /\ catalog' = [catalog EXCEPT ![r] = e] 
        /\ (PersistOk(r, e) /\ Take("dispatchStop", r, keyed)) \/ (PersistFails(r, e) /\ lock' = lock)
    BY DEF Stop, e, y
  <2> QED
    BY <1>0, <2>2, <2>3 DEF Serving, Free, Take, PersistOk, PersistFails, State, Fault,
       SameRecords, TypeOK
<1>2. Local(r) /\ SameLog(r) /\ SameDriver(r) /\ SameBundle(r)
  BY <1>1 DEF Stop, logs, driver, published, Local, LockFor, SameRecords, SameLog, SameDriver,
     SameBundle
<1>3. saved'[r].verdict = saved[r].verdict \/ saved'[r].verdict = catalog[r].verdict
  BY <1>1
<1> USE DEF SameRecords, SameLog, SameDriver, SameBundle
<1>4. RecordInv(r)'
  BY <1>0, <1>1, <1>2
  DEF RunInv, RecordInv, GoroutineInv, Plausible, Stopped
<1>5. GoroutineInv(r)'
  BY <1>0, <1>1, <1>2, <1>3
  DEF RunInv, RecordInv, GoroutineInv, Plausible, Over, Ending, At, Alive, Stopped
<1>6. LagInv(r)'
  BY <1>0, <1>1, <1>2
  DEF RunInv, RecordInv, GoroutineInv, Plausible, LagInv, Holds, At, Creating, Starting, Loading
<1>7. FrameInv(r)'
  BY <1>0, <1>1, <1>2
  DEF RunInv, RecordInv, GoroutineInv, LagInv, FrameInv, Endable, Ending, Reporting, Holds, At,
      Creating, Starting, Loading, Leftover, Alive, Stopped, Terminal
<1>8. MarkerInv(r)'
  BY <1>0, <1>1, <1>2
  DEF RunInv, MarkerInv, FrameInv, Reporting, At, Stopped
<1>9. BundleInv(r)'
  BY <1>0, <1>1, <1>2
  DEF RunInv, BundleInv, Published, NewBundle, Result, At, Stopped, OnDisk, Terminal
<1>10. CleanInv(r)'
  BY <1>0, <1>1, <1>2
  DEF RunInv, CleanInv, Stopped
<1> QED
  BY <1>2, <1>4, <1>5, <1>6, <1>7, <1>8, <1>9, <1>10 DEF RunInv

LEMMA StopAskedRun ==
  ASSUME PlaneInv, NEW r \in Runs, StopDispatched(r), proc[r] # "none", UNCHANGED <<comp, published>>,
         \E p \in Procs : proc' = [proc EXCEPT ![r] = p]
  PROVE  Local(r) /\ RunInv(r)'
<1>0. RunInv(r) /\ StoreInv /\ PlaneTypeOK /\ TypeOK
  BY DEF PlaneInv, PlaneTypeOK
<1>1. /\ lock.at = "dispatchStop" /\ lock.run = r /\ lock'.at = "free"
      /\ process' = process /\ faults' = faults /\ SameRecords(r)
  BY DEF StopDispatched, Held, Unlock, Unlocked, SameRecords
<1>2. Local(r) /\ SameLog(r) /\ comp' = comp /\ SameBundle(r)
  BY <1>0, <1>1 DEF StopDispatched, logs, published, Local, LockFor, PlaneTypeOK, SameRecords,
     SameLog, SameDriver, SameBundle
<1> USE DEF SameRecords, SameLog, SameDriver, SameBundle
<1>3. RecordInv(r)'
  BY <1>0, <1>1, <1>2
  DEF RunInv, RecordInv, GoroutineInv, Plausible, Stopped
<1>4. GoroutineInv(r)'
  BY ZenonT(30), <1>0, <1>1, <1>2
  DEF RunInv, RecordInv, GoroutineInv, Plausible, Over, Ending, At, Alive, Stopped
<1>5. LagInv(r)'
  BY <1>0, <1>1, <1>2
  DEF RunInv, RecordInv, GoroutineInv, Plausible, LagInv, Holds, At, Creating, Starting, Loading
<1>6. FrameInv(r)'
  BY <1>0, <1>1, <1>2
  DEF RunInv, RecordInv, GoroutineInv, LagInv, FrameInv, Endable, Ending, Reporting, Holds, At,
      Creating, Starting, Loading, Leftover, Alive, Stopped
<1>7. MarkerInv(r)'
  BY <1>0, <1>1, <1>2
  DEF RunInv, MarkerInv, FrameInv, Reporting, At, Stopped
<1>8. BundleInv(r)'
  BY <1>0, <1>1, <1>2
  DEF RunInv, BundleInv, Published, NewBundle, Result, At, Stopped
<1>9. CleanInv(r)'
  BY <1>0, <1>1, <1>2
  DEF RunInv, CleanInv, Stopped
<1> QED
  BY <1>2, <1>3, <1>4, <1>5, <1>6, <1>7, <1>8, <1>9 DEF RunInv

LEMMA StopRefusedRun ==
  ASSUME PlaneInv, NEW r \in Runs, StopUndispatched(r), UNCHANGED <<driver, published>>
  PROVE  Local(r) /\ RunInv(r)'
<1>0. RunInv(r) /\ StoreInv /\ PlaneTypeOK /\ TypeOK
  BY DEF PlaneInv, PlaneTypeOK
<1>1. /\ lock.at = "dispatchStop" /\ lock.run = r /\ lock'.at = "free"
      /\ process' = process /\ (faults' = 0 => faults = 0)
      /\ catalog'[r].status = "running" /\ catalog'[r].verdict = catalog[r].verdict
      /\ saved'[r] = saved[r] \/ saved'[r] = catalog'[r]
      /\ \A s \in Runs \ {r} : SameRecords(s)
  <2> DEFINE y == [catalog[r] EXCEPT !.status = "running"]
             e == Recorded(y, "stop", lock.keyed, "failure")
  <2>0. catalog[r] \in Entry
    BY <1>0 DEF TypeOK
  <2>1. y \in Entry /\ y.status = "running" /\ y.verdict = catalog[r].verdict
    BY <2>0 DEF Entry, Statuses, Terminal
  <2> HIDE DEF y
  <2>2. e.status = "running" /\ e.verdict = catalog[r].verdict
    BY <2>1, RecordedFacts DEF Requests, Answers
  <2> HIDE DEF e
  <2>3. /\ Held("dispatchStop", r) /\ process' = process /\ catalog' = [catalog EXCEPT ![r] = e]
        /\ Unlock
        /\ PersistOk(r, e) \/ PersistFails(r, e)
    BY DEF StopUndispatched, e, y
  <2> QED
    BY <1>0, <2>2, <2>3 DEF PersistOk, PersistFails, State, Fault, Held, Unlock, Unlocked,
       SameRecords, TypeOK
<1>2. Local(r) /\ SameLog(r) /\ SameDriver(r) /\ SameBundle(r)
  BY <1>1 DEF StopUndispatched, logs, driver, published, Local, LockFor, SameRecords, SameLog,
     SameDriver, SameBundle
<1>3. Alive /\ ~Stopped /\ catalog[r].status = "stopping"
  BY <1>0, <1>1 DEF StoreInv, LockInv, Starting, Loading, Stopped, TypeOK, Alive
<1>4. saved'[r].verdict = saved[r].verdict \/ saved'[r].verdict = catalog[r].verdict
  BY <1>1
<1> USE DEF SameRecords, SameLog, SameDriver, SameBundle
<1>5. RecordInv(r)'
  BY <1>0, <1>1, <1>2, <1>3
  DEF RunInv, RecordInv, GoroutineInv, Plausible, Stopped
<1>6. GoroutineInv(r)'
  BY ZenonT(30), <1>0, <1>1, <1>2, <1>3, <1>4
  DEF RunInv, RecordInv, GoroutineInv, Plausible, Over, Ending, At, Alive, Stopped
<1>7. LagInv(r)'
  BY <1>0, <1>1, <1>2, <1>3
  DEF RunInv, RecordInv, GoroutineInv, Plausible, LagInv, Holds, At, Creating, Starting, Loading
<1>8. FrameInv(r)'
  BY <1>0, <1>1, <1>2, <1>3
  DEF RunInv, RecordInv, GoroutineInv, LagInv, FrameInv, Endable, Ending, Reporting, Holds, At,
      Creating, Starting, Loading, Leftover, Alive, Stopped, Terminal
<1>9. MarkerInv(r)'
  BY <1>0, <1>1, <1>2, <1>3
  DEF RunInv, MarkerInv, FrameInv, Reporting, At, Stopped
<1>10. BundleInv(r)'
  BY <1>0, <1>1, <1>2, <1>3
  DEF RunInv, BundleInv, Published, NewBundle, Result, At, Stopped, OnDisk, Terminal
<1>11. CleanInv(r)'
  BY <1>0, <1>1, <1>2, <1>3
  DEF RunInv, CleanInv, Stopped
<1> QED
  BY <1>2, <1>5, <1>6, <1>7, <1>8, <1>9, <1>10, <1>11 DEF RunInv

LEMMA UndispatchedSaved ==
  ASSUME PlaneInv, NEW r \in Runs, UndispatchedPersists(r), UNCHANGED <<driver, published>>
  PROVE  Local(r) /\ RunInv(r)'
<1>0. RunInv(r) /\ StoreInv /\ PlaneTypeOK /\ TypeOK
  BY DEF PlaneInv, PlaneTypeOK
<1>1. /\ lock.at = "persistUndispatched" /\ lock.run = r /\ lock'.at = "free"
      /\ process' = process /\ (faults' = 0 => faults = 0) /\ catalog' = catalog
      /\ saved'[r] = saved[r] \/ saved'[r] = catalog[r]
      /\ \A s \in Runs \ {r} : saved'[s] = saved[s]
  BY <1>0 DEF UndispatchedPersists, Held, Unlock, Unlocked, PersistOk, PersistFails, Fault, State,
     TypeOK
<1>2. Local(r) /\ SameLog(r) /\ SameDriver(r) /\ SameBundle(r)
  BY <1>1 DEF UndispatchedPersists, logs, driver, published, Local, LockFor, SameRecords, SameLog,
     SameDriver, SameBundle
<1>3. Alive /\ ~Stopped /\ catalog[r].status = "failed"
  BY <1>0, <1>1 DEF StoreInv, LockInv, Starting, Loading, Stopped, TypeOK, Alive
<1> USE DEF SameRecords, SameLog, SameDriver, SameBundle
<1>4. RecordInv(r)'
  BY <1>0, <1>1, <1>2, <1>3
  DEF RunInv, RecordInv, GoroutineInv, Plausible, Stopped
<1>5. GoroutineInv(r)'
  BY ZenonT(30), <1>0, <1>1, <1>2, <1>3
  DEF RunInv, RecordInv, GoroutineInv, Plausible, Over, Ending, At, Alive, Stopped
<1>6. LagInv(r)'
  BY <1>0, <1>1, <1>2, <1>3
  DEF RunInv, RecordInv, GoroutineInv, Plausible, LagInv, Holds, At, Creating, Starting, Loading
<1>7. FrameInv(r)'
  BY <1>0, <1>1, <1>2, <1>3
  DEF RunInv, RecordInv, GoroutineInv, LagInv, FrameInv, Endable, Ending, Reporting, Holds, At,
      Creating, Starting, Loading, Leftover, Alive, Stopped
<1>8. MarkerInv(r)'
  BY <1>0, <1>1, <1>2, <1>3
  DEF RunInv, MarkerInv, FrameInv, Reporting, At, Stopped
<1>9. BundleInv(r)'
  BY <1>0, <1>1, <1>2, <1>3
  DEF RunInv, BundleInv, Published, NewBundle, Result, At, Stopped
<1>10. CleanInv(r)'
  BY <1>0, <1>1, <1>2, <1>3
  DEF RunInv, CleanInv, Stopped
<1> QED
  BY <1>2, <1>4, <1>5, <1>6, <1>7, <1>8, <1>9, <1>10 DEF RunInv

LEMMA RepeatedRequest ==
  ASSUME PlaneInv, NEW r \in Runs, NEW q \in Requests, Replay(q, r), UNCHANGED <<driver, published>>
  PROVE  Local(r) /\ RunInv(r)'
<1>0. RunInv(r) /\ StoreInv /\ PlaneTypeOK /\ TypeOK
  BY DEF PlaneInv, PlaneTypeOK
<1>1. process' = process /\ faults' = faults /\ lock' = lock /\ SameRecords(r)
  BY DEF Replay, memory, storage, SameRecords
<1>2. Local(r) /\ SameLog(r) /\ SameDriver(r) /\ SameBundle(r)
  BY <1>1 DEF Replay, memory, storage, driver, published, Local, LockFor, SameRecords, SameLog,
     SameDriver, SameBundle
<1> USE DEF SameRecords, SameLog, SameDriver, SameBundle
<1>3. RecordInv(r)'
  BY <1>0, <1>1, <1>2
  DEF RunInv, RecordInv, GoroutineInv, Plausible, Stopped
<1>4. GoroutineInv(r)'
  BY <1>0, <1>1, <1>2
  DEF RunInv, RecordInv, GoroutineInv, Plausible, Over, Ending, At, Alive, Stopped
<1>5. LagInv(r)'
  BY <1>0, <1>1, <1>2
  DEF RunInv, RecordInv, GoroutineInv, Plausible, LagInv, Holds, At, Creating, Starting, Loading
<1>6. FrameInv(r)'
  BY <1>0, <1>1, <1>2
  DEF RunInv, RecordInv, GoroutineInv, LagInv, FrameInv, Endable, Ending, Reporting, Holds, At,
      Creating, Starting, Loading, Leftover, Alive, Stopped
<1>7. MarkerInv(r)'
  BY <1>0, <1>1, <1>2
  DEF RunInv, MarkerInv, FrameInv, Reporting, At, Stopped
<1>8. BundleInv(r)'
  BY <1>0, <1>1, <1>2
  DEF RunInv, BundleInv, Published, NewBundle, Result, At, Stopped
<1>9. CleanInv(r)'
  BY <1>0, <1>1, <1>2
  DEF RunInv, CleanInv, Stopped
<1> QED
  BY <1>2, <1>3, <1>4, <1>5, <1>6, <1>7, <1>8, <1>9 DEF RunInv

LEMMA WorkloadRun ==
  ASSUME PlaneInv, NEW r \in Runs, proc[r] # "none",
         \E p \in Procs : proc' = [proc EXCEPT ![r] = p],
         UNCHANGED <<vars, comp, published>>
  PROVE  Local(r) /\ RunInv(r)'
<1>0. RunInv(r) /\ StoreInv /\ PlaneTypeOK /\ TypeOK
  BY DEF PlaneInv, PlaneTypeOK
<1>1. process' = process /\ faults' = faults /\ lock' = lock /\ SameRecords(r)
  BY DEF vars, memory, storage, SameRecords
<1>2. Local(r) /\ SameLog(r) /\ comp' = comp /\ SameBundle(r)
  BY <1>0, <1>1 DEF vars, memory, storage, published, Local, LockFor, PlaneTypeOK, SameRecords,
     SameLog, SameDriver, SameBundle
<1> USE DEF SameRecords, SameLog, SameDriver, SameBundle
<1>3. RecordInv(r)'
  BY <1>0, <1>1, <1>2
  DEF RunInv, RecordInv, GoroutineInv, Plausible, Stopped
<1>4. GoroutineInv(r)'
  BY <1>0, <1>1, <1>2
  DEF RunInv, RecordInv, GoroutineInv, Plausible, Over, Ending, At, Alive, Stopped
<1>5. LagInv(r)'
  BY <1>0, <1>1, <1>2
  DEF RunInv, RecordInv, GoroutineInv, Plausible, LagInv, Holds, At, Creating, Starting, Loading
<1>6. FrameInv(r)'
  BY <1>0, <1>1, <1>2
  DEF RunInv, RecordInv, GoroutineInv, LagInv, FrameInv, Endable, Ending, Reporting, Holds, At,
      Creating, Starting, Loading, Leftover, Alive, Stopped
<1>7. MarkerInv(r)'
  BY <1>0, <1>1, <1>2
  DEF RunInv, MarkerInv, FrameInv, Reporting, At, Stopped
<1>8. BundleInv(r)'
  BY <1>0, <1>1, <1>2
  DEF RunInv, BundleInv, Published, NewBundle, Result, At, Stopped
<1>9. CleanInv(r)'
  BY <1>0, <1>1, <1>2
  DEF RunInv, CleanInv, Stopped
<1> QED
  BY <1>2, <1>3, <1>4, <1>5, <1>6, <1>7, <1>8, <1>9 DEF RunInv

LEMMA WaitsRun ==
  ASSUME PlaneInv, NEW r \in Runs, Waits(r)
  PROVE  Local(r) /\ RunInv(r)'
<1>0. RunInv(r) /\ StoreInv /\ PlaneTypeOK /\ TypeOK
  BY DEF PlaneInv, PlaneTypeOK
<1>1. /\ process' = process /\ faults' = faults /\ lock' = lock /\ SameRecords(r) /\ SameLog(r)
      /\ Alive
      /\ comp[r].at = "waiting" /\ comp'[r].at = IF Compat(r) THEN "collecting" ELSE "completing"
      /\ comp'[r].evidence = comp[r].evidence
      /\ \A s \in Runs \ {r} : comp'[s] = comp[s]
  <2>1. comp \in [Runs -> Comp] /\ comp[r] \in Comp
    BY <1>0 DEF PlaneTypeOK
  <2>2. PICK status \in {"completed", "failed"} :
          comp' = [comp EXCEPT ![r] = [comp[r] EXCEPT !.at = IF Compat(r) THEN "collecting" ELSE "completing",
                                                      !.status = status]]
    BY DEF Waits
  <2>3. /\ comp'[r].at = IF Compat(r) THEN "collecting" ELSE "completing"
        /\ comp'[r].evidence = comp[r].evidence
        /\ \A s \in Runs \ {r} : comp'[s] = comp[s]
    BY <2>1, <2>2 DEF Comp
  <2> QED
    BY <2>3 DEF Waits, At, vars, memory, storage, SameRecords, SameLog
<1>2. Local(r) /\ proc' = proc /\ SameBundle(r)
  BY <1>0, <1>1 DEF Waits, vars, memory, storage, published, Local, LockFor, PlaneTypeOK,
     SameRecords, SameLog, SameDriver, SameBundle
<1> USE DEF SameRecords, SameLog, SameDriver, SameBundle
<1>3. RecordInv(r)'
  BY <1>0, <1>1, <1>2
  DEF RunInv, RecordInv, GoroutineInv, Plausible, Stopped
<1>4. GoroutineInv(r)'
  BY <1>0, <1>1, <1>2
  DEF RunInv, RecordInv, GoroutineInv, Plausible, Over, Ending, At, Alive, Stopped
<1>5. LagInv(r)'
  BY <1>0, <1>1, <1>2
  DEF RunInv, RecordInv, GoroutineInv, Plausible, LagInv, Holds, At, Creating, Starting, Loading
<1>6. FrameInv(r)'
  BY <1>0, <1>1, <1>2
  DEF RunInv, RecordInv, GoroutineInv, LagInv, FrameInv, Endable, Ending, Reporting, Holds, At,
      Creating, Starting, Loading, Leftover, Alive, Stopped
<1>7. MarkerInv(r)'
  BY <1>0, <1>1, <1>2
  DEF RunInv, MarkerInv, FrameInv, Reporting, At, Stopped
<1>8. BundleInv(r)'
  BY <1>0, <1>1, <1>2
  DEF RunInv, BundleInv, Published, NewBundle, Result, At, Stopped
<1>9. CleanInv(r)'
  BY <1>0, <1>1, <1>2
  DEF RunInv, CleanInv, Stopped
<1> QED
  BY <1>2, <1>3, <1>4, <1>5, <1>6, <1>7, <1>8, <1>9 DEF RunInv

LEMMA CollectsRun ==
  ASSUME PlaneInv, NEW r \in Runs, Collects(r)
  PROVE  Local(r) /\ RunInv(r)'
<1>0. RunInv(r) /\ StoreInv /\ PlaneTypeOK /\ TypeOK
  BY DEF PlaneInv, PlaneTypeOK
<1>1. /\ process' = process /\ faults' = faults /\ lock' = lock /\ SameRecords(r) /\ SameLog(r)
      /\ Alive
      /\ comp[r].at = "collecting"
      /\ comp'[r].at \in IF Compat(r) THEN {"appending", "recording"} ELSE {"reporting", "giving up"}
      /\ comp'[r].evidence = comp[r].evidence
      /\ \A s \in Runs \ {r} : comp'[s] = comp[s]
  BY <1>0, Goes DEF Collects, At, Steps, vars, memory, storage, SameRecords, SameLog, PlaneTypeOK,
     Comp
<1>2. Local(r) /\ proc' = proc /\ SameBundle(r)
  BY <1>0, <1>1 DEF Collects, vars, memory, storage, published, Local, LockFor, PlaneTypeOK,
     SameRecords, SameLog, SameDriver, SameBundle
<1> USE DEF SameRecords, SameLog, SameDriver, SameBundle
<1>3. RecordInv(r)'
  BY <1>0, <1>1, <1>2
  DEF RunInv, RecordInv, GoroutineInv, Plausible, Stopped
<1>4. GoroutineInv(r)'
  BY <1>0, <1>1, <1>2
  DEF RunInv, RecordInv, GoroutineInv, Plausible, Over, Ending, At, Alive, Stopped
<1>5. LagInv(r)'
  BY <1>0, <1>1, <1>2
  DEF RunInv, RecordInv, GoroutineInv, Plausible, LagInv, Holds, At, Creating, Starting, Loading
<1>6. FrameInv(r)'
  BY <1>0, <1>1, <1>2
  DEF RunInv, RecordInv, GoroutineInv, LagInv, FrameInv, Endable, Ending, Reporting, Holds, At,
      Creating, Starting, Loading, Leftover, Alive, Stopped
<1>7. MarkerInv(r)'
  BY <1>0, <1>1, <1>2
  DEF RunInv, MarkerInv, FrameInv, Reporting, At, Stopped
<1>8. BundleInv(r)'
  BY <1>0, <1>1, <1>2
  DEF RunInv, BundleInv, Published, NewBundle, Result, At, Stopped
<1>9. CleanInv(r)'
  BY <1>0, <1>1, <1>2
  DEF RunInv, CleanInv, Stopped
<1> QED
  BY <1>2, <1>3, <1>4, <1>5, <1>6, <1>7, <1>8, <1>9 DEF RunInv

LEMMA AppendedAllRun ==
  ASSUME PlaneInv, NEW r \in Runs, AppendedAll(r)
  PROVE  Local(r) /\ RunInv(r)'
<1>0. RunInv(r) /\ StoreInv /\ PlaneTypeOK /\ TypeOK
  BY DEF PlaneInv, PlaneTypeOK
<1>1. /\ process' = process /\ faults' = faults /\ lock' = lock /\ SameRecords(r) /\ SameLog(r)
      /\ Alive
      /\ comp[r].at = "appending" /\ comp'[r].at \in {"completing", "recording"}
      /\ comp'[r].evidence = comp[r].evidence
      /\ \A s \in Runs \ {r} : comp'[s] = comp[s]
  BY <1>0, Goes DEF AppendedAll, At, Steps, vars, memory, storage, SameRecords, SameLog,
     PlaneTypeOK, Comp
<1>2. Local(r) /\ proc' = proc /\ SameBundle(r)
  BY <1>0, <1>1 DEF AppendedAll, vars, memory, storage, published, Local, LockFor, PlaneTypeOK,
     SameRecords, SameLog, SameDriver, SameBundle
<1> USE DEF SameRecords, SameLog, SameDriver, SameBundle
<1>3. RecordInv(r)'
  BY <1>0, <1>1, <1>2
  DEF RunInv, RecordInv, GoroutineInv, Plausible, Stopped
<1>4. GoroutineInv(r)'
  BY <1>0, <1>1, <1>2
  DEF RunInv, RecordInv, GoroutineInv, Plausible, Over, Ending, At, Alive, Stopped
<1>5. LagInv(r)'
  BY <1>0, <1>1, <1>2
  DEF RunInv, RecordInv, GoroutineInv, Plausible, LagInv, Holds, At, Creating, Starting, Loading
<1>6. FrameInv(r)'
  BY <1>0, <1>1, <1>2
  DEF RunInv, RecordInv, GoroutineInv, LagInv, FrameInv, Endable, Ending, Reporting, Holds, At,
      Creating, Starting, Loading, Leftover, Alive, Stopped
<1>7. MarkerInv(r)'
  BY <1>0, <1>1, <1>2
  DEF RunInv, MarkerInv, FrameInv, Reporting, At, Stopped
<1>8. BundleInv(r)'
  BY <1>0, <1>1, <1>2
  DEF RunInv, BundleInv, Published, NewBundle, Result, At, Stopped
<1>9. CleanInv(r)'
  BY <1>0, <1>1, <1>2
  DEF RunInv, CleanInv, Stopped
<1> QED
  BY <1>2, <1>3, <1>4, <1>5, <1>6, <1>7, <1>8, <1>9 DEF RunInv

LEMMA ReportsRun ==
  ASSUME PlaneInv, NEW r \in Runs, Reports(r)
  PROVE  Local(r) /\ RunInv(r)'
<1>0. RunInv(r) /\ StoreInv /\ PlaneTypeOK /\ TypeOK
  BY DEF PlaneInv, PlaneTypeOK
<1>1. /\ process' = process /\ faults' = faults /\ lock' = lock /\ SameRecords(r) /\ SameLog(r)
      /\ Alive
      /\ comp[r].at = "reporting" /\ comp'[r].at \in {"writingManifest", "giving up"}
      /\ comp'[r].evidence = comp[r].evidence
      /\ \A s \in Runs \ {r} : comp'[s] = comp[s]
  BY <1>0, Goes DEF Reports, At, Steps, vars, memory, storage, SameRecords, SameLog, PlaneTypeOK,
     Comp
<1>2. Local(r) /\ proc' = proc /\ SameBundle(r)
  BY <1>0, <1>1 DEF Reports, vars, memory, storage, published, Local, LockFor, PlaneTypeOK,
     SameRecords, SameLog, SameDriver, SameBundle
<1> USE DEF SameRecords, SameLog, SameDriver, SameBundle
<1>3. RecordInv(r)'
  BY <1>0, <1>1, <1>2
  DEF RunInv, RecordInv, GoroutineInv, Plausible, Stopped
<1>4. GoroutineInv(r)'
  BY <1>0, <1>1, <1>2
  DEF RunInv, RecordInv, GoroutineInv, Plausible, Over, Ending, At, Alive, Stopped
<1>5. LagInv(r)'
  BY <1>0, <1>1, <1>2
  DEF RunInv, RecordInv, GoroutineInv, Plausible, LagInv, Holds, At, Creating, Starting, Loading
<1>6. FrameInv(r)'
  BY <1>0, <1>1, <1>2
  DEF RunInv, RecordInv, GoroutineInv, LagInv, FrameInv, Endable, Ending, Reporting, Holds, At,
      Creating, Starting, Loading, Leftover, Alive, Stopped
<1>7. MarkerInv(r)'
  BY <1>0, <1>1, <1>2
  DEF RunInv, MarkerInv, FrameInv, Reporting, At, Stopped
<1>8. BundleInv(r)'
  BY <1>0, <1>1, <1>2
  DEF RunInv, BundleInv, Published, NewBundle, Result, At, Stopped
<1>9. CleanInv(r)'
  BY <1>0, <1>1, <1>2
  DEF RunInv, CleanInv, Stopped
<1> QED
  BY <1>2, <1>3, <1>4, <1>5, <1>6, <1>7, <1>8, <1>9 DEF RunInv

LEMMA AppendsRun ==
  ASSUME PlaneInv, NEW r \in Runs, At(r, "appending"), AppendEvent(r), UNCHANGED <<comp, proc, published>>
  PROVE  Local(r) /\ RunInv(r)'
<1>0. RunInv(r) /\ StoreInv /\ PlaneTypeOK /\ TypeOK
  BY DEF PlaneInv, PlaneTypeOK
<1>1. /\ lock' = lock /\ lock.at = "free" /\ Alive /\ ~Stopped /\ AppendOk(r, "event")
      /\ process' = process /\ SameRecords(r)
      /\ catalog' = catalog /\ saved' = saved
  BY DEF AppendEvent, Calling, Free, Alive, Stopped, SameRecords
<1>2. Local(r) /\ SameDriver(r) /\ SameBundle(r)
  BY <1>1, <1>0 DEF AppendOk, published, Local, LockFor, TypeOK, SameRecords, SameLog, SameDriver,
     SameBundle
<1>3. ~Finished(file[r]) /\ Ending(r) /\ ~Reporting(r) /\ comp[r].at = "appending"
  BY <1>0, <1>1 DEF RunInv, FrameInv, Endable, Ending, Reporting, At
<1>4. /\ \A i \in 1 .. Len(file'[r]) : Finishes(file'[r][i]) => i = Len(file'[r])
      /\ ~Finished(file'[r]) /\ (ValidFrames(file'[r]) => file'[r] = events'[r])
      /\ sealed[r] = "no" /\ sealed' = sealed /\ marker' = marker /\ faults' = faults
      /\ faults = 0 => ValidFrames(file'[r]) /\ file'[r] = events'[r] /\ marker[r] = NoMarker
  BY <1>1, <1>3, Appended DEF Whats, Terminal
<1>5. /\ marker[r].is = "absent" /\ catalog[r].verdict.is # "ineligible"
      /\ saved[r].verdict.is # "ineligible"
  BY <1>3, OpenLog
<1>6. catalog[r].status \in {"running", "stopping"} /\ process # "recovering"
  BY <1>0, <1>1, <1>3 DEF RunInv, GoroutineInv, Alive
<1> USE DEF SameRecords, SameLog, SameDriver, SameBundle
<1>7. RecordInv(r)'
  BY <1>0, <1>1, <1>2, <1>3, <1>5, <1>6
  DEF RunInv, RecordInv, GoroutineInv, Plausible, Stopped
<1>8. GoroutineInv(r)'
  BY <1>0, <1>1, <1>2, <1>3, <1>5, <1>6
  DEF RunInv, RecordInv, GoroutineInv, Plausible, Over, Ending, At, Alive, Stopped
<1>9. LagInv(r)'
  BY <1>0, <1>1, <1>2, <1>3, <1>5, <1>6
  DEF RunInv, RecordInv, GoroutineInv, Plausible, LagInv, Holds, At, Creating, Starting, Loading
<1>10. FrameInv(r)'
  BY <1>0, <1>1, <1>2, <1>3, <1>4, <1>5, <1>6
  DEF RunInv, RecordInv, GoroutineInv, LagInv, FrameInv, Endable, Ending, Reporting, Holds, At,
      Creating, Starting, Loading, Leftover, Alive, Stopped
<1>11. MarkerInv(r)'
  BY <1>0, <1>1, <1>2, <1>3, <1>4, <1>5, <1>6
  DEF RunInv, MarkerInv, FrameInv, Reporting, At, Stopped
<1>12. BundleInv(r)'
  BY <1>0, <1>1, <1>2, <1>3, <1>4, <1>5, <1>6
  DEF RunInv, BundleInv, Published, NewBundle, Result, At, Stopped
<1>13. CleanInv(r)'
  BY <1>0, <1>1, <1>2, <1>3, <1>4, <1>5, <1>6
  DEF RunInv, CleanInv, Stopped
<1> QED
  BY <1>2, <1>7, <1>8, <1>9, <1>10, <1>11, <1>12, <1>13 DEF RunInv

LEMMA AppendsRunFails ==
  ASSUME PlaneInv, NEW r \in Runs, At(r, "appending"), AppendEventFails(r), Go(r, "recording"),
         UNCHANGED <<proc, published>>
  PROVE  Local(r) /\ RunInv(r)'
<1>0. RunInv(r) /\ StoreInv /\ PlaneTypeOK /\ TypeOK
  BY DEF PlaneInv, PlaneTypeOK
<1>1. /\ lock' = lock /\ lock.at = "free" /\ Alive /\ ~Stopped /\ process' = process
      /\ catalog' = catalog /\ saved' = saved /\ SameRecords(r)
      /\ UNCHANGED <<logs, dirs, faults>> \/ AppendError(r, "event")
  BY DEF AppendEventFails, Calling, Free, Alive, Stopped, SameRecords
<1>2. /\ Local(r) /\ proc' = proc /\ comp'[r].at = "recording"
      /\ comp'[r].evidence = comp[r].evidence /\ SameBundle(r)
  <2>1. /\ \A s \in Runs \ {r} : file'[s] = file[s]
        /\ UNCHANGED <<events, sealed, marker, dirs>> /\ (faults' = 0 => faults = 0)
    BY <1>0, <1>1, AppendErrorTouches DEF AppendError, Fault, TypeOK, logs
  <2> QED
    BY <1>0, <1>1, <2>1, Goes DEF Steps, published, Local, LockFor, PlaneTypeOK, SameRecords,
       SameLog, SameDriver, SameBundle
<1>3. ~Finished(file[r]) /\ Ending(r) /\ ~Reporting(r) /\ comp[r].at = "appending"
  BY <1>0, <1>1 DEF RunInv, FrameInv, Endable, Ending, Reporting, At
<1>4. /\ \A i \in 1 .. Len(file'[r]) : Finishes(file'[r][i]) => i = Len(file'[r])
      /\ ~Finished(file'[r])
      /\ ValidFrames(file'[r]) => file'[r] = file[r] \/ file'[r][Len(file'[r])].what = "event"
      /\ faults' = 0 => faults = 0 /\ file'[r] = file[r]
      /\ UNCHANGED <<events, sealed, marker>>
  <2>1. CASE AppendError(r, "event")
    BY <1>1, <1>3, <2>1, NotAppended DEF Whats, Terminal
  <2>2. CASE UNCHANGED <<logs, dirs, faults>>
    BY <1>0, <1>3, <2>2 DEF logs, RunInv, FrameInv
  <2> QED
    BY <1>1, <2>1, <2>2
<1>5. /\ marker[r].is = "absent" /\ catalog[r].verdict.is # "ineligible"
      /\ saved[r].verdict.is # "ineligible"
  BY <1>3, OpenLog
<1>6. catalog[r].status \in {"running", "stopping"} /\ process # "recovering"
  BY <1>0, <1>1, <1>3 DEF RunInv, GoroutineInv, Alive
<1> USE DEF SameRecords, SameLog, SameDriver, SameBundle
<1>7. RecordInv(r)'
  BY <1>0, <1>1, <1>2, <1>3, <1>5, <1>6
  DEF RunInv, RecordInv, GoroutineInv, Plausible, Stopped
<1>8. GoroutineInv(r)'
  BY <1>0, <1>1, <1>2, <1>3, <1>5, <1>6
  DEF RunInv, RecordInv, GoroutineInv, Plausible, Over, Ending, At, Alive, Stopped
<1>9. LagInv(r)'
  BY <1>0, <1>1, <1>2, <1>3, <1>5, <1>6
  DEF RunInv, RecordInv, GoroutineInv, Plausible, LagInv, Holds, At, Creating, Starting, Loading
<1>10. FrameInv(r)'
  BY <1>0, <1>1, <1>2, <1>3, <1>4, <1>5, <1>6
  DEF RunInv, RecordInv, GoroutineInv, LagInv, FrameInv, Endable, Ending, Reporting, Holds, At,
      Creating, Starting, Loading, Leftover, Alive, Stopped
<1>11. MarkerInv(r)'
  BY <1>0, <1>1, <1>2, <1>3, <1>4, <1>5, <1>6
  DEF RunInv, MarkerInv, FrameInv, Reporting, At, Stopped
<1>12. BundleInv(r)'
  BY <1>0, <1>1, <1>2, <1>3, <1>4, <1>5, <1>6
  DEF RunInv, BundleInv, Published, NewBundle, Result, At, Stopped
<1>13. CleanInv(r)'
  BY <1>0, <1>1, <1>2, <1>3, <1>4, <1>5, <1>6
  DEF RunInv, CleanInv, Stopped
<1> QED
  BY <1>2, <1>7, <1>8, <1>9, <1>10, <1>11, <1>12, <1>13 DEF RunInv

LEMMA RecordsLossRun ==
  ASSUME PlaneInv, NEW r \in Runs, RecordsLoss(r)
  PROVE  Local(r) /\ RunInv(r)'
<1>0. RunInv(r) /\ StoreInv /\ PlaneTypeOK /\ TypeOK
  BY DEF PlaneInv, PlaneTypeOK
<1>1. /\ process' = process /\ lock' = lock /\ lock.at = "free" /\ Alive /\ ~Stopped
      /\ (faults' = 0 => faults = 0)
      /\ \/ catalog'[r] = catalog[r] /\ saved'[r] = saved[r]
         \/ /\ catalog[r].status # "none" /\ catalog[r] = saved[r]
            /\ catalog'[r].status = catalog[r].status
            /\ catalog'[r].verdict = Flat("verification_error")
            /\ saved'[r] = saved[r] \/ saved'[r] = catalog'[r]
  BY RecordsError DEF RecordsLoss, Alive, Stopped
<1>2. Local(r) /\ SameLog(r) /\ proc' = proc /\ SameBundle(r)
      /\ comp[r].at = "recording" /\ comp'[r].at = "completing" /\ comp'[r].evidence = "lost"
  <2>1. /\ UNCHANGED logs /\ \A s \in Runs \ {r} : SameRecords(s)
    BY RecordsError DEF RecordsLoss
  <2>2. /\ comp[r].at = "recording"
        /\ comp'[r] = [at |-> "completing", status |-> "failed", evidence |-> "lost"]
        /\ (\A s \in Runs \ {r} : comp'[s] = comp[s]) /\ UNCHANGED <<proc, published>>
    BY <1>0 DEF RecordsLoss, At, PlaneTypeOK
  <2> QED
    BY <1>1, <2>1, <2>2 DEF logs, published, Local, LockFor, SameRecords, SameLog, SameDriver,
       SameBundle
<1>3. Flat("verification_error").is = "verification_error"
  BY DEF Flat
<1> USE DEF SameRecords, SameLog, SameDriver, SameBundle
<1>4. RecordInv(r)'
  BY <1>0, <1>1, <1>2, <1>3
  DEF RunInv, RecordInv, GoroutineInv, Plausible, Stopped
<1>5. GoroutineInv(r)'
  BY <1>0, <1>1, <1>2, <1>3
  DEF RunInv, RecordInv, GoroutineInv, Plausible, Over, Ending, At, Alive, Stopped
<1>6. LagInv(r)'
  BY <1>0, <1>1, <1>2, <1>3
  DEF RunInv, RecordInv, GoroutineInv, Plausible, LagInv, Holds, At, Creating, Starting, Loading
<1>7. FrameInv(r)'
  BY <1>0, <1>1, <1>2, <1>3
  DEF RunInv, RecordInv, GoroutineInv, LagInv, FrameInv, Endable, Ending, Reporting, Holds, At,
      Creating, Starting, Loading, Leftover, Alive, Stopped
<1>8. MarkerInv(r)'
  BY <1>0, <1>1, <1>2, <1>3
  DEF RunInv, MarkerInv, FrameInv, Reporting, At, Stopped
<1>9. BundleInv(r)'
  BY <1>0, <1>1, <1>2, <1>3
  DEF RunInv, BundleInv, Published, NewBundle, Result, At, Stopped
<1>10. CleanInv(r)'
  BY <1>0, <1>1, <1>2, <1>3
  DEF RunInv, CleanInv, Stopped
<1> QED
  BY <1>2, <1>4, <1>5, <1>6, <1>7, <1>8, <1>9, <1>10 DEF RunInv

LEMMA GivesUpRun ==
  ASSUME PlaneInv, NEW r \in Runs, GivesUp(r)
  PROVE  Local(r) /\ RunInv(r)'
<1>0. RunInv(r) /\ StoreInv /\ PlaneTypeOK /\ TypeOK
  BY DEF PlaneInv, PlaneTypeOK
<1>1. /\ process' = process /\ lock' = lock /\ lock.at = "free" /\ Alive /\ ~Stopped
      /\ (faults' = 0 => faults = 0)
      /\ \/ catalog'[r] = catalog[r] /\ saved'[r] = saved[r]
         \/ /\ catalog[r].status # "none" /\ catalog[r] = saved[r]
            /\ catalog'[r].status = catalog[r].status
            /\ catalog'[r].verdict = Flat("verification_error")
            /\ saved'[r] = saved[r] \/ saved'[r] = catalog'[r]
  BY RecordsError DEF GivesUp, Alive, Stopped
<1>2. Local(r) /\ SameLog(r) /\ proc' = proc /\ SameBundle(r)
      /\ comp[r].at = "giving up" /\ comp'[r].at = "finishing"
      /\ comp'[r].evidence = comp[r].evidence
  <2>1. /\ UNCHANGED logs /\ \A s \in Runs \ {r} : SameRecords(s)
    BY RecordsError DEF GivesUp
  <2> QED
    BY <1>0, <1>1, <2>1, Goes DEF GivesUp, At, Steps, PlaneTypeOK, logs, published, Local,
       LockFor, SameRecords, SameLog, SameDriver, SameBundle
<1>3. Flat("verification_error").is = "verification_error"
  BY DEF Flat
<1> USE DEF SameRecords, SameLog, SameDriver, SameBundle
<1>4. RecordInv(r)'
  BY <1>0, <1>1, <1>2, <1>3
  DEF RunInv, RecordInv, GoroutineInv, Plausible, Stopped
<1>5. GoroutineInv(r)'
  BY <1>0, <1>1, <1>2, <1>3
  DEF RunInv, RecordInv, GoroutineInv, Plausible, Over, Ending, At, Alive, Stopped
<1>6. LagInv(r)'
  BY <1>0, <1>1, <1>2, <1>3
  DEF RunInv, RecordInv, GoroutineInv, Plausible, LagInv, Holds, At, Creating, Starting, Loading
<1>7. FrameInv(r)'
  BY <1>0, <1>1, <1>2, <1>3
  DEF RunInv, RecordInv, GoroutineInv, LagInv, FrameInv, Endable, Ending, Reporting, Holds, At,
      Creating, Starting, Loading, Leftover, Alive, Stopped
<1>8. MarkerInv(r)'
  BY <1>0, <1>1, <1>2, <1>3
  DEF RunInv, MarkerInv, FrameInv, Reporting, At, Stopped
<1>9. BundleInv(r)'
  BY <1>0, <1>1, <1>2, <1>3
  DEF RunInv, BundleInv, Published, NewBundle, Result, At, Stopped
<1>10. CleanInv(r)'
  BY <1>0, <1>1, <1>2, <1>3
  DEF RunInv, CleanInv, Stopped
<1> QED
  BY <1>2, <1>4, <1>5, <1>6, <1>7, <1>8, <1>9, <1>10 DEF RunInv

LEMMA FinishingRun ==
  ASSUME PlaneInv, NEW r \in Runs, Finishing(r)
  PROVE  Local(r) /\ RunInv(r)'
<1>0. RunInv(r) /\ StoreInv /\ PlaneTypeOK /\ TypeOK
  BY DEF PlaneInv, PlaneTypeOK
<1>1. /\ process' = process /\ lock' = lock /\ Alive /\ ~Stopped /\ (faults' = 0 => faults = 0)
      /\ \/ catalog'[r] = catalog[r] /\ saved'[r] = saved[r]
         \/ /\ catalog[r].status # "none" /\ catalog[r] = saved[r]
            /\ catalog'[r].status = catalog[r].status
            /\ catalog'[r].verdict = Flat("verification_error")
            /\ saved'[r] = saved[r] \/ saved'[r] = catalog'[r]
  <2>1. CASE UNCHANGED vars
    BY <2>1 DEF Finishing, vars, memory, storage, Alive, Stopped
  <2>2. CASE VerificationError(r)
    BY <2>2, RecordsError DEF Alive, Stopped
  <2> QED
    BY <2>1, <2>2 DEF Finishing
<1>2. Local(r) /\ SameLog(r) /\ proc' = proc /\ SameBundle(r)
      /\ comp[r].at = "finishing" /\ comp'[r].at = "done" /\ comp'[r].evidence = comp[r].evidence
  <2>1. /\ UNCHANGED logs /\ \A s \in Runs \ {r} : SameRecords(s)
    BY RecordsError DEF Finishing, vars, memory, storage, logs, SameRecords
  <2> QED
    BY <1>0, <1>1, <2>1, Goes DEF Finishing, At, Steps, PlaneTypeOK, logs, published, Local,
       LockFor, SameRecords, SameLog, SameDriver, SameBundle
<1>3. Flat("verification_error").is = "verification_error"
  BY DEF Flat
<1> USE DEF SameRecords, SameLog, SameDriver, SameBundle
<1>4. RecordInv(r)'
  BY <1>0, <1>1, <1>2, <1>3
  DEF RunInv, RecordInv, GoroutineInv, Plausible, Stopped
<1>5. GoroutineInv(r)'
  BY <1>0, <1>1, <1>2, <1>3
  DEF RunInv, RecordInv, GoroutineInv, Plausible, Over, Ending, At, Alive, Stopped
<1>6. LagInv(r)'
  BY <1>0, <1>1, <1>2, <1>3
  DEF RunInv, RecordInv, GoroutineInv, Plausible, LagInv, Holds, At, Creating, Starting, Loading
<1>7. FrameInv(r)'
  BY <1>0, <1>1, <1>2, <1>3
  DEF RunInv, RecordInv, GoroutineInv, LagInv, FrameInv, Endable, Ending, Reporting, Holds, At,
      Creating, Starting, Loading, Leftover, Alive, Stopped
<1>8. MarkerInv(r)'
  BY <1>0, <1>1, <1>2, <1>3
  DEF RunInv, MarkerInv, FrameInv, Reporting, At, Stopped
<1>9. BundleInv(r)'
  BY <1>0, <1>1, <1>2, <1>3
  DEF RunInv, BundleInv, Published, NewBundle, Result, At, Stopped
<1>10. CleanInv(r)'
  BY <1>0, <1>1, <1>2, <1>3
  DEF RunInv, CleanInv, Stopped
<1> QED
  BY <1>2, <1>4, <1>5, <1>6, <1>7, <1>8, <1>9, <1>10 DEF RunInv

LEMMA CompletesRunOk ==
  ASSUME PlaneInv, NEW r \in Runs, At(r, "completing"), NEW fs, fs = FinalStatus(r, comp[r].status),
         Completes(r, comp[r].status), Go(r, "persisting"), UNCHANGED <<proc, published>>
  PROVE  Local(r) /\ RunInv(r)'
<1>0. RunInv(r) /\ StoreInv /\ PlaneTypeOK /\ TypeOK
  BY DEF PlaneInv, PlaneTypeOK
<1>1. /\ lock.at = "free" /\ lock'.at = "persistCompletion" /\ lock'.run = r /\ Alive /\ ~Stopped
      /\ latched = "no"
      /\ AppendOk(r, fs) /\ process' = process /\ saved' = saved /\ fs \in Terminal
      /\ (catalog[r].status = "running" /\ fs \in {"completed", "failed"})
           \/ (catalog[r].status = "stopping" /\ fs = "stopped")
      /\ catalog'[r].status = fs /\ catalog'[r].verdict = catalog[r].verdict
      /\ \A s \in Runs \ {r} : SameRecords(s)
  <2>1. catalog \in [Runs -> Entry] /\ catalog[r] \in Entry /\ comp[r] \in Comp
    BY <1>0 DEF PlaneTypeOK, TypeOK
  <2>2. /\ (catalog[r].status = "running" /\ fs \in {"completed", "failed"})
           \/ (catalog[r].status = "stopping" /\ fs = "stopped")
        /\ fs \in Terminal
    BY <2>1 DEF Completes, Completable, FinalStatus, Comp, Terminal
  <2>3. catalog' = [catalog EXCEPT ![r] = [catalog[r] EXCEPT !.status = fs]]
    BY DEF Completes
  <2>4. /\ catalog'[r].status = fs /\ catalog'[r].verdict = catalog[r].verdict
        /\ \A s \in Runs \ {r} : catalog'[s] = catalog[s]
    BY <2>1, <2>3 DEF Entry
  <2>5. /\ Calling /\ latched = "no" /\ AppendOk(r, fs) /\ Take("persistCompletion", r, "no")
        /\ process' = process /\ saved' = saved
    BY DEF Completes
  <2> QED
    BY <2>2, <2>4, <2>5 DEF Calling, Free, Take, Alive, Stopped, SameRecords
<1>2. Local(r) /\ proc' = proc /\ SameBundle(r)
      /\ comp[r].at = "completing" /\ comp'[r].at = "persisting"
      /\ comp'[r].evidence = comp[r].evidence
  BY ZenonT(30), <1>0, <1>1, Goes DEF At, Steps, AppendOk, published, Local, LockFor, TypeOK,
     PlaneTypeOK,
     SameRecords, SameLog, SameDriver, SameBundle
<1>3. ~Finished(file[r]) /\ Ending(r) /\ ~Reporting(r) /\ catalog[r] = saved[r]
  BY <1>0, <1>1, <1>2, InStep DEF RunInv, FrameInv, Endable, Ending, Reporting, At, Unsaved, Loading
<1>4. /\ \A i \in 1 .. Len(file'[r]) : Finishes(file'[r][i]) => i = Len(file'[r])
      /\ Finished(file'[r]) /\ (ValidFrames(file'[r]) => file'[r] = events'[r])
      /\ events'[r] # <<>> /\ events'[r][Len(events'[r])].what = fs
      /\ sealed[r] = "no" /\ sealed' = sealed /\ marker' = marker /\ faults' = faults
      /\ faults = 0 => ValidFrames(file'[r]) /\ file'[r] = events'[r] /\ marker[r] = NoMarker
  BY <1>1, <1>3, Appended DEF Whats
<1>5. /\ marker[r].is = "absent" /\ catalog[r].verdict.is # "ineligible"
      /\ saved[r].verdict.is # "ineligible"
  BY <1>3, OpenLog
<1>6. process # "recovering"
  BY <1>1 DEF Alive
<1> USE DEF SameRecords, SameLog, SameDriver, SameBundle
<1>7. RecordInv(r)'
  BY <1>0, <1>1, <1>2, <1>3, <1>5, <1>6
  DEF RunInv, RecordInv, GoroutineInv, Plausible, Stopped
<1>8. GoroutineInv(r)'
  BY <1>0, <1>1, <1>2, <1>3, <1>5, <1>6
  DEF RunInv, RecordInv, GoroutineInv, Plausible, Over, Ending, At, Alive, Stopped
<1>9. LagInv(r)'
  BY <1>0, <1>1, <1>2, <1>3, <1>5, <1>6
  DEF RunInv, RecordInv, GoroutineInv, Plausible, LagInv, Holds, At, Creating, Starting, Loading
<1>10. FrameInv(r)'
  BY <1>0, <1>1, <1>2, <1>3, <1>4, <1>5, <1>6
  DEF RunInv, RecordInv, GoroutineInv, LagInv, FrameInv, Endable, Ending, Reporting, Holds, At,
      Creating, Starting, Loading, Leftover, Alive, Stopped
<1>11. MarkerInv(r)'
  BY <1>0, <1>1, <1>2, <1>3, <1>4, <1>5, <1>6
  DEF RunInv, MarkerInv, FrameInv, Reporting, At, Stopped
<1>12. BundleInv(r)'
  BY <1>0, <1>1, <1>2, <1>3, <1>4, <1>5, <1>6
  DEF RunInv, BundleInv, Published, NewBundle, Result, At, Stopped
<1>13. CleanInv(r)'
  BY <1>0, <1>1, <1>2, <1>3, <1>4, <1>5, <1>6
  DEF RunInv, CleanInv, Stopped
<1> QED
  BY <1>2, <1>7, <1>8, <1>9, <1>10, <1>11, <1>12, <1>13 DEF RunInv

LEMMA CompletesRunNot ==
  ASSUME PlaneInv, NEW r \in Runs, At(r, "completing"), NEW fs, fs = FinalStatus(r, comp[r].status),
         CompleteFails(r, comp[r].status), Go(r, "giving up"), UNCHANGED <<proc, published>>
  PROVE  Local(r) /\ RunInv(r)'
<1>0. RunInv(r) /\ StoreInv /\ PlaneTypeOK /\ TypeOK
  BY DEF PlaneInv, PlaneTypeOK
<1>1. /\ lock' = lock /\ lock.at = "free" /\ Alive /\ ~Stopped /\ process' = process
      /\ catalog' = catalog /\ saved' = saved /\ SameRecords(r)
      /\ UNCHANGED <<logs, dirs, faults>> \/ (AppendError(r, fs) /\ Completable(r))
  BY DEF CompleteFails, Calling, Free, Alive, Stopped, SameRecords
<1>2. /\ Local(r) /\ proc' = proc /\ comp'[r].at = "giving up" /\ comp[r].at = "completing"
      /\ comp'[r].evidence = comp[r].evidence /\ SameBundle(r)
  <2>1. /\ \A s \in Runs \ {r} : file'[s] = file[s]
        /\ UNCHANGED <<events, sealed, marker, dirs>> /\ (faults' = 0 => faults = 0)
    <3>1. CASE UNCHANGED <<logs, dirs, faults>>
      BY <3>1 DEF logs
    <3>2. CASE AppendError(r, fs)
      <4>1. faults' = faults \/ faults' # 0
        BY <3>2, FaultCounts, Zenon DEF AppendError
      <4>3. TypeOK
        BY <1>0
      <4>4. UNCHANGED <<events, sealed, marker, dirs>> /\ \A s \in Runs \ {r} : file'[s] = file[s]
        BY <3>2, <4>3, AppendErrorTouches, Zenon
      <4> QED
        BY <4>1, <4>4
    <3> QED
      BY <1>1, <3>1, <3>2
  <2> QED
    BY <1>0, <1>1, <2>1, Goes DEF Steps, At, published, Local, LockFor, PlaneTypeOK, SameRecords,
       SameLog, SameDriver, SameBundle
<1>3. ~Finished(file[r]) /\ Ending(r) /\ ~Reporting(r)
  BY <1>0, <1>1, <1>2 DEF RunInv, FrameInv, Endable, Ending, Reporting, At
<1>4. /\ catalog[r].status \in {"running", "stopping"} /\ process # "recovering"
      /\ comp[r].status \in {"completed", "failed"}
  BY <1>0, <1>1, <1>3 DEF RunInv, GoroutineInv, Alive, PlaneTypeOK, Comp
<1>5. /\ \A i \in 1 .. Len(file'[r]) : Finishes(file'[r][i]) => i = Len(file'[r])
      /\ ValidFrames(file'[r]) => file'[r] = file[r] \/ file'[r][Len(file'[r])].what \in Terminal
      /\ faults' = 0 => faults = 0 /\ file'[r] = file[r]
      /\ UNCHANGED <<events, sealed, marker>>
  <2>1. CASE AppendError(r, fs)
    <3>1. fs \in Terminal
      BY <1>0, <1>4 DEF FinalStatus, Terminal
    <3> QED
      BY <1>1, <1>3, <2>1, <3>1, NotAppended DEF Whats
  <2>2. CASE UNCHANGED <<logs, dirs, faults>>
    BY <1>0, <1>3, <2>2 DEF logs, RunInv, FrameInv
  <2> QED
    BY <1>1, <2>1, <2>2
<1>6. /\ marker[r].is = "absent" /\ catalog[r].verdict.is # "ineligible"
      /\ saved[r].verdict.is # "ineligible"
  BY <1>3, OpenLog
<1> USE DEF SameRecords, SameLog, SameDriver, SameBundle
<1>7. RecordInv(r)'
  BY <1>0, <1>1, <1>2, <1>3, <1>4, <1>6
  DEF RunInv, RecordInv, GoroutineInv, Plausible, Stopped
<1>8. GoroutineInv(r)'
  BY <1>0, <1>1, <1>2, <1>3, <1>4, <1>6
  DEF RunInv, RecordInv, GoroutineInv, Plausible, Over, Ending, At, Alive, Stopped
<1>9. LagInv(r)'
  BY <1>0, <1>1, <1>2, <1>3, <1>4, <1>6
  DEF RunInv, RecordInv, GoroutineInv, Plausible, LagInv, Holds, At, Creating, Starting, Loading
<1>10. FrameInv(r)'
  BY <1>0, <1>1, <1>2, <1>3, <1>4, <1>5, <1>6
  DEF RunInv, RecordInv, GoroutineInv, LagInv, FrameInv, Endable, Ending, Reporting, Holds, At,
      Creating, Starting, Loading, Leftover, Alive, Stopped, Terminal
<1>11. MarkerInv(r)'
  BY <1>0, <1>1, <1>2, <1>3, <1>4, <1>5, <1>6
  DEF RunInv, MarkerInv, FrameInv, Reporting, At, Stopped
<1>12. BundleInv(r)'
  BY <1>0, <1>1, <1>2, <1>3, <1>4, <1>5, <1>6
  DEF RunInv, BundleInv, Published, NewBundle, Result, At, Stopped
<1>13. CleanInv(r)'
  BY <1>0, <1>1, <1>2, <1>3, <1>4, <1>5, <1>6
  DEF RunInv, CleanInv, Stopped
<1> QED
  BY <1>2, <1>7, <1>8, <1>9, <1>10, <1>11, <1>12, <1>13 DEF RunInv

LEMMA PersistedRun ==
  ASSUME PlaneInv, NEW r \in Runs, At(r, "persisting"), CompletionPersisted(r), Go(r, "sealing"),
         UNCHANGED <<proc, published>>
  PROVE  Local(r) /\ RunInv(r)'
<1>0. RunInv(r) /\ StoreInv /\ PlaneTypeOK /\ TypeOK
  BY DEF PlaneInv, PlaneTypeOK
<1>1. /\ lock.at = "persistCompletion" /\ lock.run = r /\ lock'.at = "free"
      /\ process' = process /\ (faults' = 0 => faults = 0) /\ catalog' = catalog
      /\ saved'[r] = catalog[r]
      /\ \A s \in Runs \ {r} : saved'[s] = saved[s]
  <2>1. faults \in Nat /\ saved \in [Runs -> Entry]
    BY <1>0 DEF TypeOK
  <2>2. faults' = 0 => faults = 0
    BY FaultCounts DEF CompletionPersisted, PersistOk, PersistFails
  <2>3. saved' = saved \/ saved' = [saved EXCEPT ![r] = catalog[r]]
    BY DEF CompletionPersisted, PersistOk, PersistFails, State
  <2> QED
    BY <2>1, <2>2, <2>3 DEF CompletionPersisted, Held, Unlock, Unlocked, PersistOk, State
<1>2. Local(r) /\ SameLog(r) /\ proc' = proc /\ SameBundle(r)
      /\ comp[r].at = "persisting" /\ comp'[r].at = "sealing"
      /\ comp'[r].evidence = comp[r].evidence
  BY ZenonT(30), <1>0, <1>1, Goes DEF CompletionPersisted, At, Steps, logs, published, Local,
     LockFor,
     PlaneTypeOK, SameRecords, SameLog, SameDriver, SameBundle
<1>3. /\ Alive /\ ~Stopped /\ catalog[r].status \in Terminal /\ process # "recovering"
      /\ catalog[r].status \notin {"none", "created"}
  BY <1>0, <1>1 DEF StoreInv, LockInv, Starting, Loading, Stopped, TypeOK, Alive, Terminal
<1> USE DEF SameRecords, SameLog, SameDriver, SameBundle
<1>4. RecordInv(r)'
  BY <1>0, <1>1, <1>2, <1>3
  DEF RunInv, RecordInv, GoroutineInv, Plausible, Stopped
<1>5. GoroutineInv(r)'
  BY <1>0, <1>1, <1>2, <1>3
  DEF RunInv, RecordInv, GoroutineInv, Plausible, Over, Ending, At, Alive, Stopped
<1>6. LagInv(r)'
  BY <1>0, <1>1, <1>2, <1>3
  DEF RunInv, RecordInv, GoroutineInv, Plausible, LagInv, Holds, At, Creating, Starting, Loading
<1>7. FrameInv(r)'
  BY <1>0, <1>1, <1>2, <1>3
  DEF RunInv, RecordInv, GoroutineInv, LagInv, FrameInv, Endable, Ending, Reporting, Holds, At,
      Creating, Starting, Loading, Leftover, Alive, Stopped
<1>8. MarkerInv(r)'
  BY <1>0, <1>1, <1>2, <1>3
  DEF RunInv, MarkerInv, FrameInv, Reporting, At, Stopped
<1>9. BundleInv(r)'
  BY <1>0, <1>1, <1>2, <1>3
  DEF RunInv, BundleInv, Published, NewBundle, Result, At, Stopped
<1>10. CleanInv(r)'
  BY <1>0, <1>1, <1>2, <1>3
  DEF RunInv, CleanInv, Stopped
<1> QED
  BY <1>2, <1>4, <1>5, <1>6, <1>7, <1>8, <1>9, <1>10 DEF RunInv

LEMMA PersistedRunFails ==
  ASSUME PlaneInv, NEW r \in Runs, At(r, "persisting"), CompletionUnpersisted(r),
         Go(r, "giving up"), UNCHANGED <<proc, published>>
  PROVE  Local(r) /\ RunInv(r)'
<1>0. RunInv(r) /\ StoreInv /\ PlaneTypeOK /\ TypeOK
  BY DEF PlaneInv, PlaneTypeOK
<1>1. /\ lock.at = "persistCompletion" /\ lock.run = r /\ lock'.at = "free"
      /\ process' = process /\ (faults' = 0 => faults = 0) /\ catalog' = catalog
      /\ saved'[r] = catalog[r] \/ saved'[r] = saved[r]
      /\ \A s \in Runs \ {r} : saved'[s] = saved[s]
  <2>1. faults \in Nat /\ saved \in [Runs -> Entry]
    BY <1>0 DEF TypeOK
  <2>2. faults' = 0 => faults = 0
    BY FaultCounts DEF CompletionUnpersisted, PersistOk, PersistFails
  <2>3. saved' = saved \/ saved' = [saved EXCEPT ![r] = catalog[r]]
    BY DEF CompletionUnpersisted, PersistOk, PersistFails, State
  <2> QED
    BY <2>1, <2>2, <2>3 DEF CompletionUnpersisted, Held, Unlock, Unlocked, PersistOk, State
<1>2. Local(r) /\ SameLog(r) /\ proc' = proc /\ SameBundle(r)
      /\ comp[r].at = "persisting" /\ comp'[r].at = "giving up"
      /\ comp'[r].evidence = comp[r].evidence
  BY ZenonT(30), <1>0, <1>1, Goes DEF CompletionUnpersisted, At, Steps, logs, published, Local,
     LockFor,
     PlaneTypeOK, SameRecords, SameLog, SameDriver, SameBundle
<1>3. /\ Alive /\ ~Stopped /\ catalog[r].status \in Terminal /\ process # "recovering"
      /\ catalog[r].status \notin {"none", "created"}
  BY <1>0, <1>1 DEF StoreInv, LockInv, Starting, Loading, Stopped, TypeOK, Alive, Terminal
<1> USE DEF SameRecords, SameLog, SameDriver, SameBundle
<1>4. RecordInv(r)'
  BY <1>0, <1>1, <1>2, <1>3
  DEF RunInv, RecordInv, GoroutineInv, Plausible, Stopped
<1>5. GoroutineInv(r)'
  BY <1>0, <1>1, <1>2, <1>3
  DEF RunInv, RecordInv, GoroutineInv, Plausible, Over, Ending, At, Alive, Stopped
<1>6. LagInv(r)'
  BY <1>0, <1>1, <1>2, <1>3
  DEF RunInv, RecordInv, GoroutineInv, Plausible, LagInv, Holds, At, Creating, Starting, Loading
<1>7. FrameInv(r)'
  BY ZenonT(30), <1>0, <1>1, <1>2, <1>3
  DEF RunInv, RecordInv, GoroutineInv, LagInv, FrameInv, Endable, Ending, Reporting, Holds, At,
      Creating, Starting, Loading, Leftover, Alive, Stopped
<1>8. MarkerInv(r)'
  BY <1>0, <1>1, <1>2, <1>3
  DEF RunInv, MarkerInv, FrameInv, Reporting, At, Stopped
<1>9. BundleInv(r)'
  BY <1>0, <1>1, <1>2, <1>3
  DEF RunInv, BundleInv, Published, NewBundle, Result, At, Stopped
<1>10. CleanInv(r)'
  BY <1>0, <1>1, <1>2, <1>3
  DEF RunInv, CleanInv, Stopped
<1> QED
  BY <1>2, <1>4, <1>5, <1>6, <1>7, <1>8, <1>9, <1>10 DEF RunInv

LEMMA SealedRun ==
  ASSUME PlaneInv, NEW r \in Runs, At(r, "sealing"), SealRun(r), Go(r, AfterSeal(r)),
         UNCHANGED <<proc, published>>
  PROVE  Local(r) /\ RunInv(r)'
<1>0. RunInv(r) /\ StoreInv /\ PlaneTypeOK /\ TypeOK
  BY DEF PlaneInv, PlaneTypeOK
<1>1. /\ lock.at = "free" /\ lock' = lock /\ Alive /\ ~Stopped /\ process # "recovering"
      /\ catalog[r].status \in Terminal
      /\ process' = process /\ catalog' = catalog /\ saved' = saved /\ SameRecords(r)
      /\ SealOk(r) /\ UNCHANGED <<events, file, dirs, faults>>
  BY DEF SealRun, Calling, Free, Alive, Stopped, SealOk, SameRecords
<1>2. /\ Local(r) /\ proc' = proc /\ SameBundle(r) /\ comp[r].at = "sealing"
      /\ comp'[r].at = AfterSeal(r) /\ comp'[r].evidence = comp[r].evidence
      /\ AfterSeal(r) \in IF comp[r].evidence = "lost" THEN {"finishing"}
                         ELSE IF Compat(r) THEN {"reporting"} ELSE {"collecting"}
  BY ZenonT(30), <1>0, <1>1, Goes, Seals DEF At, Steps, AfterSeal, published, Local, LockFor,
     PlaneTypeOK,
     SameRecords, SameLog, SameDriver, SameBundle
<1>3. /\ sealed'[r] = "yes" /\ marker'[r] = [is |-> "whole", head |-> events[r]]
      /\ UNCHANGED <<events, file, faults>> /\ Finished(file[r])
  BY <1>0, <1>1, <1>2, Seals DEF RunInv, FrameInv, At
<1>4. \/ marker[r] = marker'[r]
      \/ /\ catalog[r].verdict.is # "ineligible" /\ saved[r].verdict.is # "ineligible"
  <2> SUFFICES ASSUME catalog[r].verdict.is = "ineligible" \/ saved[r].verdict.is = "ineligible"
               PROVE  marker[r] = marker'[r]
    OBVIOUS
  <2>1. sealed[r] = "yes"
    BY <1>0, <1>1 DEF RunInv, BundleInv, Published
  <2> QED
    BY <1>0, <1>1, <1>3, <2>1 DEF RunInv, MarkerInv
<1> USE DEF SameRecords, SameLog, SameDriver, SameBundle
<1>5. RecordInv(r)'
  BY <1>0, <1>1, <1>2
  DEF RunInv, RecordInv, GoroutineInv, Plausible, Stopped
<1>6. GoroutineInv(r)'
  BY <1>0, <1>1, <1>2
  DEF RunInv, RecordInv, GoroutineInv, Plausible, Over, Ending, At, Alive, Stopped
<1>7. LagInv(r)'
  BY <1>0, <1>1, <1>2
  DEF RunInv, RecordInv, GoroutineInv, Plausible, LagInv, Holds, At, Creating, Starting, Loading
<1>8. FrameInv(r)'
  BY <1>0, <1>1, <1>2, <1>3, <1>4
  DEF RunInv, RecordInv, GoroutineInv, LagInv, FrameInv, Endable, Ending, Reporting, Holds, At,
      Creating, Starting, Loading, Leftover, Alive, Stopped
<1>9. MarkerInv(r)'
  BY <1>0, <1>1, <1>2, <1>3, <1>4
  DEF RunInv, MarkerInv, FrameInv, Reporting, At, Stopped
<1>10. BundleInv(r)'
  BY <1>0, <1>1, <1>2, <1>3, <1>4
  DEF RunInv, BundleInv, Published, NewBundle, Result, At, Stopped
<1>11. CleanInv(r)'
  BY <1>0, <1>1, <1>2, <1>3, <1>4
  DEF RunInv, CleanInv, Stopped
<1> QED
  BY <1>2, <1>5, <1>6, <1>7, <1>8, <1>9, <1>10, <1>11 DEF RunInv

LEMMA SealedRunFails ==
  ASSUME PlaneInv, NEW r \in Runs, At(r, "sealing"), SealRunFails(r), Go(r, "giving up"),
         UNCHANGED <<proc, published>>
  PROVE  Local(r) /\ RunInv(r)'
<1>0. RunInv(r) /\ StoreInv /\ PlaneTypeOK /\ TypeOK
  BY DEF PlaneInv, PlaneTypeOK
<1>1. /\ lock.at = "free" /\ lock' = lock /\ Alive /\ ~Stopped /\ process # "recovering"
      /\ catalog[r].status \in Terminal
      /\ process' = process /\ catalog' = catalog /\ saved' = saved /\ SameRecords(r)
      /\ SealError(r)
  BY DEF SealRunFails, Calling, Free, Alive, Stopped, SameRecords
<1>2. /\ Local(r) /\ proc' = proc /\ SameBundle(r) /\ comp[r].at = "sealing"
      /\ comp'[r].at = "giving up" /\ comp'[r].evidence = comp[r].evidence
  BY <1>0, <1>1, Goes, SealFails DEF At, Steps, published, Local, LockFor, PlaneTypeOK,
     SameRecords, SameLog, SameDriver, SameBundle
<1>3. /\ UNCHANGED <<events, file, sealed>> /\ Finished(file[r])
      /\ faults' = 0 => faults = 0 /\ marker'[r] = marker[r]
      /\ marker'[r] = marker[r] \/ (marker[r].is = "absent" /\ sealed[r] = "no")
  BY <1>0, <1>1, <1>2, SealFails DEF RunInv, FrameInv, At
<1>4. \/ marker[r] = marker'[r]
      \/ /\ catalog[r].verdict.is # "ineligible" /\ saved[r].verdict.is # "ineligible" /\ sealed[r] = "no"
  BY <1>0, <1>1, <1>3 DEF RunInv, BundleInv, Published
<1> USE DEF SameRecords, SameLog, SameDriver, SameBundle
<1>5. RecordInv(r)'
  BY <1>0, <1>1, <1>2
  DEF RunInv, RecordInv, GoroutineInv, Plausible, Stopped
<1>6. GoroutineInv(r)'
  BY <1>0, <1>1, <1>2
  DEF RunInv, RecordInv, GoroutineInv, Plausible, Over, Ending, At, Alive, Stopped
<1>7. LagInv(r)'
  BY <1>0, <1>1, <1>2
  DEF RunInv, RecordInv, GoroutineInv, Plausible, LagInv, Holds, At, Creating, Starting, Loading
<1>8. FrameInv(r)'
  BY <1>0, <1>1, <1>2, <1>3, <1>4
  DEF RunInv, RecordInv, GoroutineInv, LagInv, FrameInv, Endable, Ending, Reporting, Holds, At,
      Creating, Starting, Loading, Leftover, Alive, Stopped
<1>9. MarkerInv(r)'
  BY <1>0, <1>1, <1>2, <1>3, <1>4
  DEF RunInv, MarkerInv, FrameInv, Reporting, At, Stopped
<1>10. BundleInv(r)'
  BY <1>0, <1>1, <1>2, <1>3, <1>4
  DEF RunInv, BundleInv, Published, NewBundle, Result, At, Stopped
<1>11. CleanInv(r)'
  BY <1>0, <1>1, <1>2, <1>3, <1>4
  DEF RunInv, CleanInv, Stopped
<1> QED
  BY <1>2, <1>5, <1>6, <1>7, <1>8, <1>9, <1>10, <1>11 DEF RunInv

LEMMA WritesManifestRun ==
  ASSUME PlaneInv, NEW r \in Runs, WritesManifest(r)
  PROVE  Local(r) /\ RunInv(r)'
<1>0. RunInv(r) /\ StoreInv /\ PlaneTypeOK /\ TypeOK
  BY DEF PlaneInv, PlaneTypeOK
<1>1. /\ lock' = lock /\ Alive /\ ~Stopped /\ process' = process /\ (faults' = 0 => faults = 0)
      /\ SameRecords(r) /\ SameLog(r) /\ proc' = proc /\ bundle' = bundle
      /\ comp[r].at = "writingManifest" /\ comp'[r].at \in {"writingBundle", "giving up"}
      /\ comp'[r].evidence = comp[r].evidence
      /\ comp'[r].at = "writingBundle" => manifest'[r] = <<events[r]>> /\ BundleValid(r, NewBundle(r))
      /\ \A s \in Runs \ {r} : comp'[s] = comp[s] /\ manifest'[s] = manifest[s]
  <2>1. /\ Alive /\ comp[r].at = "writingManifest" /\ (faults' = faults \/ Fault)
        /\ UNCHANGED <<memory, storage, told, crashes, proc, bundle>>
    BY DEF WritesManifest, At
  <2>2. faults' = 0 => faults = 0
    BY <2>1, FaultCounts
  <2>3. \/ manifest' = [manifest EXCEPT ![r] = <<events[r]>>] /\ BundleValid(r, NewBundle(r))
            /\ Go(r, "writingBundle")
        \/ manifest' \in {manifest, [manifest EXCEPT ![r] = <<events[r]>>]} /\ Go(r, "giving up")
    BY DEF WritesManifest
  <2>4. manifest = [s \in Runs |-> manifest[s]]
    BY <1>0 DEF PlaneTypeOK
  <2>5. CASE /\ manifest' = [manifest EXCEPT ![r] = <<events[r]>>] /\ BundleValid(r, NewBundle(r))
             /\ Go(r, "writingBundle")
    BY <1>0, <2>1, <2>2, <2>4, <2>5, Goes DEF Steps, memory, storage, logs, Alive, Stopped,
       SameRecords, SameLog
  <2>6. CASE manifest' \in {manifest, [manifest EXCEPT ![r] = <<events[r]>>]} /\ Go(r, "giving up")
    BY <1>0, <2>1, <2>2, <2>4, <2>6, Goes DEF Steps, memory, storage, logs, Alive, Stopped,
       SameRecords, SameLog
  <2> QED
    BY <2>3, <2>5, <2>6
<1>2. Local(r)
  BY <1>0, <1>1 DEF WritesManifest, memory, storage, Local, LockFor, SameRecords, SameLog,
     SameDriver, SameBundle
<1>3. catalog[r].verdict.is = "none" /\ saved[r].verdict.is = "none" /\ process # "recovering"
  BY <1>0, <1>1 DEF RunInv, GoroutineInv, Over, PlaneTypeOK, Comp, Alive
<1> USE DEF SameRecords, SameLog, SameDriver, SameBundle
<1>4. RecordInv(r)'
  BY <1>0, <1>1, <1>2, <1>3
  DEF RunInv, RecordInv, GoroutineInv, Plausible, Stopped
<1>5. GoroutineInv(r)'
  BY <1>0, <1>1, <1>2, <1>3
  DEF RunInv, RecordInv, GoroutineInv, Plausible, Over, Ending, At, Alive, Stopped
<1>6. LagInv(r)'
  BY <1>0, <1>1, <1>2, <1>3
  DEF RunInv, RecordInv, GoroutineInv, Plausible, LagInv, Holds, At, Creating, Starting, Loading
<1>7. FrameInv(r)'
  BY <1>0, <1>1, <1>2, <1>3
  DEF RunInv, RecordInv, GoroutineInv, LagInv, FrameInv, Endable, Ending, Reporting, Holds, At,
      Creating, Starting, Loading, Leftover, Alive, Stopped
<1>8. MarkerInv(r)'
  BY <1>0, <1>1, <1>2, <1>3
  DEF RunInv, MarkerInv, FrameInv, Reporting, At, Stopped
<1>9. BundleInv(r)'
  BY <1>0, <1>1, <1>2, <1>3
  DEF RunInv, BundleInv, Published, NewBundle, Result, At, Stopped
<1>10. CleanInv(r)'
  BY <1>0, <1>1, <1>2, <1>3
  DEF RunInv, CleanInv, Stopped
<1> QED
  BY <1>2, <1>4, <1>5, <1>6, <1>7, <1>8, <1>9, <1>10 DEF RunInv

LEMMA WritesBundleRun ==
  ASSUME PlaneInv, NEW r \in Runs, WritesBundle(r)
  PROVE  Local(r) /\ RunInv(r)'
<1>0. RunInv(r) /\ StoreInv /\ PlaneTypeOK /\ TypeOK
  BY DEF PlaneInv, PlaneTypeOK
<1>1. /\ lock' = lock /\ Alive /\ ~Stopped /\ process' = process /\ (faults' = 0 => faults = 0)
      /\ SameRecords(r) /\ SameLog(r) /\ proc' = proc /\ manifest' = manifest
      /\ comp[r].at = "writingBundle" /\ comp'[r].at \in {"publishing", "giving up"}
      /\ comp'[r].evidence = comp[r].evidence
      /\ comp'[r].at = "publishing" => bundle'[r] = <<NewBundle(r)>>
      /\ \A s \in Runs \ {r} : comp'[s] = comp[s] /\ bundle'[s] = bundle[s]
  <2>1. /\ Alive /\ comp[r].at = "writingBundle" /\ (faults' = faults \/ Fault)
        /\ UNCHANGED <<memory, storage, told, crashes, proc, manifest>>
    BY DEF WritesBundle, At
  <2>2. faults' = 0 => faults = 0
    BY <2>1, FaultCounts
  <2>3. \/ bundle' = [bundle EXCEPT ![r] = <<NewBundle(r)>>] /\ Go(r, "publishing")
        \/ bundle' \in {bundle, [bundle EXCEPT ![r] = <<NewBundle(r)>>]} /\ Go(r, "giving up")
    BY DEF WritesBundle
  <2>4. bundle = [s \in Runs |-> bundle[s]]
    BY <1>0 DEF PlaneTypeOK
  <2>5. CASE bundle' = [bundle EXCEPT ![r] = <<NewBundle(r)>>] /\ Go(r, "publishing")
    BY <1>0, <2>1, <2>2, <2>4, <2>5, Goes DEF Steps, memory, storage, logs, Alive, Stopped,
       SameRecords, SameLog
  <2>6. CASE bundle' \in {bundle, [bundle EXCEPT ![r] = <<NewBundle(r)>>]} /\ Go(r, "giving up")
    BY <1>0, <2>1, <2>2, <2>4, <2>6, Goes DEF Steps, memory, storage, logs, Alive, Stopped,
       SameRecords, SameLog
  <2> QED
    BY <2>3, <2>5, <2>6
<1>2. Local(r)
  BY <1>0, <1>1 DEF WritesBundle, memory, storage, Local, LockFor, SameRecords, SameLog,
     SameDriver, SameBundle
<1>3. catalog[r].verdict.is = "none" /\ saved[r].verdict.is = "none" /\ process # "recovering"
  BY <1>0, <1>1 DEF RunInv, GoroutineInv, Over, PlaneTypeOK, Comp, Alive
<1> USE DEF SameRecords, SameLog, SameDriver, SameBundle
<1>4. RecordInv(r)'
  BY <1>0, <1>1, <1>2, <1>3
  DEF RunInv, RecordInv, GoroutineInv, Plausible, Stopped
<1>5. GoroutineInv(r)'
  BY <1>0, <1>1, <1>2, <1>3
  DEF RunInv, RecordInv, GoroutineInv, Plausible, Over, Ending, At, Alive, Stopped
<1>6. LagInv(r)'
  BY <1>0, <1>1, <1>2, <1>3
  DEF RunInv, RecordInv, GoroutineInv, Plausible, LagInv, Holds, At, Creating, Starting, Loading
<1>7. FrameInv(r)'
  BY <1>0, <1>1, <1>2, <1>3
  DEF RunInv, RecordInv, GoroutineInv, LagInv, FrameInv, Endable, Ending, Reporting, Holds, At,
      Creating, Starting, Loading, Leftover, Alive, Stopped
<1>8. MarkerInv(r)'
  BY <1>0, <1>1, <1>2, <1>3
  DEF RunInv, MarkerInv, FrameInv, Reporting, At, Stopped
<1>9. BundleInv(r)'
  BY <1>0, <1>1, <1>2, <1>3
  DEF RunInv, BundleInv, Published, NewBundle, Result, At, Stopped
<1>10. CleanInv(r)'
  BY <1>0, <1>1, <1>2, <1>3
  DEF RunInv, CleanInv, Stopped
<1> QED
  BY <1>2, <1>4, <1>5, <1>6, <1>7, <1>8, <1>9, <1>10 DEF RunInv

LEMMA PublishesRun ==
  ASSUME PlaneInv, NEW r \in Runs, At(r, "publishing"), SetEvidenceVerification(r, Result(r)),
         Go(r, "finishing"),
         UNCHANGED <<proc, published>>
  PROVE  Local(r) /\ RunInv(r)'
<1>0. RunInv(r) /\ StoreInv /\ PlaneTypeOK /\ TypeOK
  BY DEF PlaneInv, PlaneTypeOK
<1>1. /\ process' = process /\ lock' = lock /\ lock.at = "free" /\ Alive /\ ~Stopped
      /\ faults' = faults
      /\ catalog[r].status # "none" /\ catalog[r] = saved[r]
      /\ catalog'[r].status = catalog[r].status /\ catalog'[r].verdict = Result(r)
      /\ saved'[r] = catalog'[r]
      /\ \A s \in Runs \ {r} : SameRecords(s)
  <2> DEFINE e == [catalog[r] EXCEPT !.verdict = Result(r)]
  <2>1. catalog \in [Runs -> Entry] /\ saved \in [Runs -> Entry] /\ catalog[r] \in Entry
    BY <1>0 DEF TypeOK
  <2>2. e.status = catalog[r].status /\ e.verdict = Result(r)
    BY <2>1 DEF Entry
  <2> HIDE DEF e
  <2>3. /\ Alive /\ lock.at = "free" /\ UNCHANGED <<process, lock>> /\ latched = "no"
        /\ catalog[r].status # "none"
        /\ catalog' = [catalog EXCEPT ![r] = e] /\ PersistOk(r, e)
    BY DEF SetEvidenceVerification, Calling, Free, e
  <2>4. catalog[r] = saved[r]
    BY <2>3, InStep DEF Alive, Stopped, Unsaved, Loading
  <2> QED
    BY <2>1, <2>2, <2>3, <2>4 DEF PersistOk, State, Alive, Stopped, SameRecords
<1>2. Local(r) /\ SameLog(r) /\ proc' = proc /\ SameBundle(r)
      /\ comp[r].at = "publishing" /\ comp'[r].at = "finishing"
      /\ comp'[r].evidence = comp[r].evidence
  BY <1>0, <1>1, Goes DEF SetEvidenceVerification, At, Steps, PlaneTypeOK, logs, published, Local,
     LockFor, SameRecords, SameLog, SameDriver, SameBundle
<1>3. /\ OnDisk(r, catalog[r].status, Result(r), file[r], manifest[r], bundle[r], marker[r])
      /\ Alive /\ sealed[r] = "yes" /\ catalog[r].status \in Terminal
  BY <1>1, BundleIsOnDisk DEF OnDisk
<1>4. Result(r).is = "ineligible"
  BY DEF Result
<1> USE DEF SameRecords, SameLog, SameDriver, SameBundle
<1>5. RecordInv(r)'
  BY <1>0, <1>1, <1>2, <1>3, <1>4 DEF RunInv, RecordInv, Plausible, Stopped, Terminal
<1>6. GoroutineInv(r)'
  BY <1>0, <1>1, <1>2, <1>3, <1>4
  DEF RunInv, RecordInv, GoroutineInv, Plausible, Over, Ending, At, Alive, Stopped
<1>7. LagInv(r)'
  BY <1>0, <1>1, <1>2, <1>3, <1>4
  DEF RunInv, RecordInv, GoroutineInv, Plausible, LagInv, Holds, At, Creating, Starting, Loading
<1>8. FrameInv(r)'
  BY <1>0, <1>1, <1>2, <1>3, <1>4
  DEF RunInv, RecordInv, GoroutineInv, LagInv, FrameInv, Endable, Ending, Reporting, Holds, At,
      Creating, Starting, Loading, Leftover, Alive, Stopped
<1>9. MarkerInv(r)'
  BY <1>0, <1>1, <1>2, <1>3, <1>4
  DEF RunInv, MarkerInv, FrameInv, Reporting, At, Stopped
<1>10. BundleInv(r)'
  BY <1>0, <1>1, <1>2, <1>3, <1>4 DEF BundleInv, Published, At, Stopped, SameLog, SameBundle
<1>11. CleanInv(r)'
  BY <1>0, <1>1, <1>2, <1>3, <1>4
  DEF RunInv, CleanInv, Stopped
<1> QED
  BY <1>2, <1>5, <1>6, <1>7, <1>8, <1>9, <1>10, <1>11 DEF RunInv

LEMMA PublishesRunFails ==
  ASSUME PlaneInv, NEW r \in Runs, At(r, "publishing"), SetEvidenceVerificationFails(r, Result(r)),
         Go(r, "giving up"),
         UNCHANGED <<proc, published>>
  PROVE  Local(r) /\ RunInv(r)'
<1>0. RunInv(r) /\ StoreInv /\ PlaneTypeOK /\ TypeOK
  BY DEF PlaneInv, PlaneTypeOK
<1>1. /\ process' = process /\ lock' = lock /\ lock.at = "free" /\ Alive /\ ~Stopped
      /\ (faults' = 0 => faults = 0)
      /\ \/ catalog'[r] = catalog[r] /\ saved'[r] = saved[r]
         \/ /\ catalog[r].status # "none" /\ catalog[r] = saved[r]
            /\ catalog'[r].status = catalog[r].status /\ catalog'[r].verdict = Result(r)
            /\ saved'[r] = catalog'[r] \/ saved'[r] = saved[r]
      /\ \A s \in Runs \ {r} : SameRecords(s)
  <2> DEFINE e == [catalog[r] EXCEPT !.verdict = Result(r)]
  <2>1. catalog \in [Runs -> Entry] /\ saved \in [Runs -> Entry] /\ catalog[r] \in Entry
    BY <1>0 DEF TypeOK
  <2>2. e.status = catalog[r].status /\ e.verdict = Result(r)
    BY <2>1 DEF Entry
  <2> HIDE DEF e
  <2>3. /\ Alive /\ lock.at = "free" /\ UNCHANGED <<process, lock>>
        /\ UNCHANGED <<catalog, saved, faults>>
             \/ (/\ latched = "no" /\ catalog[r].status # "none"
                 /\ catalog' = [catalog EXCEPT ![r] = e] /\ PersistFails(r, e))
    BY DEF SetEvidenceVerificationFails, Calling, Free, e
  <2>4. CASE UNCHANGED <<catalog, saved, faults>>
    BY <2>3, <2>4 DEF SameRecords, Alive, Stopped
  <2>5. CASE /\ latched = "no" /\ catalog[r].status # "none"
             /\ catalog' = [catalog EXCEPT ![r] = e] /\ PersistFails(r, e)
    <3>1. catalog[r] = saved[r]
      BY <2>3, <2>5, InStep DEF Alive, Stopped, Unsaved, Loading
    <3>2. (faults' = 0 => faults = 0) /\ saved' \in {saved, [saved EXCEPT ![r] = e]}
      BY <2>5, FaultCounts DEF PersistFails, State
    <3> QED
      BY <2>1, <2>2, <2>3, <2>5, <3>1, <3>2 DEF Alive, Stopped, SameRecords
  <2> QED
    BY <2>3, <2>4, <2>5
<1>2. Local(r) /\ SameLog(r) /\ proc' = proc /\ SameBundle(r)
      /\ comp[r].at = "publishing" /\ comp'[r].at = "giving up"
      /\ comp'[r].evidence = comp[r].evidence
  BY <1>0, <1>1, Goes DEF SetEvidenceVerificationFails, At, Steps, PlaneTypeOK, logs, published,
     Local, LockFor, SameRecords, SameLog, SameDriver, SameBundle
<1>3. /\ OnDisk(r, catalog[r].status, Result(r), file[r], manifest[r], bundle[r], marker[r])
      /\ Alive /\ sealed[r] = "yes" /\ catalog[r].status \in Terminal
  BY <1>1, BundleIsOnDisk DEF OnDisk
<1>4. Result(r).is = "ineligible"
  BY DEF Result
<1> USE DEF SameRecords, SameLog, SameDriver, SameBundle
<1>5. RecordInv(r)'
  BY <1>0, <1>1, <1>2, <1>3, <1>4 DEF RunInv, RecordInv, Plausible, Stopped, Terminal
<1>6. GoroutineInv(r)'
  BY <1>0, <1>1, <1>2, <1>3, <1>4
  DEF RunInv, RecordInv, GoroutineInv, Plausible, Over, Ending, At, Alive, Stopped
<1>7. LagInv(r)'
  BY <1>0, <1>1, <1>2, <1>3, <1>4
  DEF RunInv, RecordInv, GoroutineInv, Plausible, LagInv, Holds, At, Creating, Starting, Loading
<1>8. FrameInv(r)'
  BY <1>0, <1>1, <1>2, <1>3, <1>4
  DEF RunInv, RecordInv, GoroutineInv, LagInv, FrameInv, Endable, Ending, Reporting, Holds, At,
      Creating, Starting, Loading, Leftover, Alive, Stopped
<1>9. MarkerInv(r)'
  BY <1>0, <1>1, <1>2, <1>3, <1>4
  DEF RunInv, MarkerInv, FrameInv, Reporting, At, Stopped
<1>10. BundleInv(r)'
  BY <1>0, <1>1, <1>2, <1>3, <1>4 DEF RunInv, BundleInv, Published, At, Stopped, SameLog, SameBundle
<1>11. CleanInv(r)'
  BY <1>0, <1>1, <1>2, <1>3, <1>4
  DEF RunInv, CleanInv, Stopped
<1> QED
  BY <1>2, <1>5, <1>6, <1>7, <1>8, <1>9, <1>10, <1>11 DEF RunInv

LEMMA RecoversRun ==
  ASSUME PlaneInv, NEW r \in Runs, RecoverFinishes(r), UNCHANGED <<driver, published>>
  PROVE  Local(r) /\ RunInv(r)'
<1>0. RunInv(r) /\ StoreInv /\ PlaneTypeOK /\ TypeOK
  BY DEF PlaneInv, PlaneTypeOK
<1>1. /\ process = "recovering" /\ process' = process /\ lock.at = "free"
      /\ lock'.at = "recoverSeal" /\ lock'.run = r
      /\ catalog[r].status # "none" /\ catalog[r] = saved[r] /\ saved[r].verdict.is # "ineligible"
      /\ saved' = saved
      /\ catalog'[r].status = "failed" /\ catalog'[r].verdict.is = "interrupted"
      /\ ~Stopped /\ ~Alive /\ comp[r].at = "none"
      /\ \A s \in Runs \ {r} : SameRecords(s)
  <2>1. catalog \in [Runs -> Entry] /\ catalog[r] \in Entry
    BY <1>0 DEF TypeOK
  <2>2. /\ process = "recovering" /\ lock.at = "free" /\ Interrupted(r)
        /\ catalog' = [catalog EXCEPT ![r] = AsInterrupted(catalog[r])]
        /\ Take("recoverSeal", r, "no") /\ process' = process /\ saved' = saved
    BY DEF RecoverFinishes, Recovering, Free
  <2>3. /\ AsInterrupted(catalog[r]).status = "failed"
        /\ AsInterrupted(catalog[r]).verdict.is = "interrupted"
    BY <2>1 DEF AsInterrupted, Entry, Flat
  <2>4. ~Stopped /\ ~Alive /\ latched = "no" /\ comp[r].at = "none"
    BY <1>0, <2>2 DEF Stopped, Alive, StoreInv, LockInv, RunInv, GoroutineInv
  <2>5. catalog[r] = saved[r]
    BY <2>2, <2>4, InStep DEF Unsaved, Loading
  <2>6. catalog[r].status # "none" /\ catalog[r].verdict.is # "ineligible"
    BY <1>0, <2>2, <2>4 DEF Interrupted, RunInv, BundleInv, Published, OnDisk
  <2> HIDE DEF AsInterrupted
  <2> QED
    BY <2>1, <2>2, <2>3, <2>4, <2>5, <2>6 DEF Take, SameRecords
<1>2. Local(r) /\ SameDriver(r) /\ SameBundle(r)
  <2>1. CASE UNCHANGED <<logs, dirs, faults>>
    BY <1>1, <2>1 DEF logs, driver, published, Local, LockFor, SameRecords, SameLog, SameDriver,
       SameBundle
  <2>2. CASE AppendOk(r, "failed")
    BY <1>0, <1>1, <2>2 DEF AppendOk, driver, published, Local, LockFor, TypeOK, SameRecords,
       SameLog, SameDriver, SameBundle
  <2> QED
    BY <2>1, <2>2 DEF RecoverFinishes
<1>3. /\ file[r] = events[r]
      /\ \/ SameLog(r) /\ faults' = faults /\ Finished(events[r])
         \/ AppendOk(r, "failed") /\ ~Finished(file[r])
  BY <1>0, <1>1 DEF RecoverFinishes, logs, RunInv, FrameInv, SameLog
<1>4. /\ \A i \in 1 .. Len(file'[r]) : Finishes(file'[r][i]) => i = Len(file'[r])
      /\ Finished(file'[r]) /\ Finished(events'[r]) /\ file'[r] = events'[r]
      /\ sealed' = sealed /\ marker'[r] = marker[r] /\ faults' = faults
      /\ faults = 0 => ValidFrames(file'[r])
      /\ SameLog(r) \/ (sealed[r] = "no" /\ (faults = 0 => marker[r] = NoMarker))
      /\ SameLog(r) \/ marker[r].is = "absent"
  <2>1. CASE SameLog(r) /\ faults' = faults /\ Finished(events[r])
    <3>1. sealed' = sealed
      BY <2>1, <1>0 DEF RecoverFinishes, logs, AppendOk
    <3> QED
      BY <1>0, <1>1, <1>3, <2>1, <3>1 DEF RunInv, FrameInv, CleanInv, SameLog
  <2>2. CASE AppendOk(r, "failed") /\ ~Finished(file[r])
    BY <1>1, <1>3, <2>2, Appended, OpenLog DEF Whats, Terminal
  <2> QED
    BY <1>3, <2>1, <2>2
<1>5. catalog[r].verdict.is # "ineligible"
  BY <1>1
<1> USE DEF SameRecords, SameLog, SameDriver, SameBundle
<1>6. RecordInv(r)'
  BY <1>0, <1>1, <1>2, <1>5
  DEF RunInv, RecordInv, GoroutineInv, Plausible, Stopped
<1>7. GoroutineInv(r)'
  BY <1>0, <1>1, <1>2, <1>5
  DEF RunInv, RecordInv, GoroutineInv, Plausible, Over, Ending, At, Alive, Stopped
<1>8. LagInv(r)'
  BY <1>0, <1>1, <1>2, <1>5
  DEF RunInv, RecordInv, GoroutineInv, Plausible, LagInv, Holds, At, Creating, Starting, Loading
<1>9. FrameInv(r)'
  BY <1>0, <1>1, <1>2, <1>3, <1>4, <1>5
  DEF RunInv, RecordInv, GoroutineInv, LagInv, FrameInv, Endable, Ending, Reporting, Holds, At,
      Creating, Starting, Loading, Leftover, Alive, Stopped
<1>10. MarkerInv(r)'
  BY <1>0, <1>1, <1>2, <1>3, <1>4, <1>5
  DEF RunInv, MarkerInv, FrameInv, Reporting, At, Stopped
<1>11. BundleInv(r)'
  BY <1>0, <1>1, <1>2, <1>3, <1>4, <1>5
  DEF RunInv, BundleInv, Published, NewBundle, Result, At, Stopped
<1>12. CleanInv(r)'
  BY <1>0, <1>1, <1>2, <1>3, <1>4, <1>5
  DEF RunInv, CleanInv, Stopped
<1> QED
  BY <1>2, <1>6, <1>7, <1>8, <1>9, <1>10, <1>11, <1>12 DEF RunInv

LEMMA RecoverSealsRun ==
  ASSUME PlaneInv, NEW r \in Runs, RecoverSeals(r), UNCHANGED <<driver, published>>
  PROVE  Local(r) /\ RunInv(r)'
<1>0. RunInv(r) /\ StoreInv /\ PlaneTypeOK /\ TypeOK
  BY DEF PlaneInv, PlaneTypeOK
<1>1. /\ lock.at = "recoverSeal" /\ lock.run = r /\ lock'.at = "recoverPersist" /\ lock'.run = r
      /\ process' = process /\ catalog' = catalog /\ saved' = saved /\ SameRecords(r) /\ SealOk(r)
      /\ process = "recovering" /\ ~Stopped /\ ~Alive /\ comp[r].at = "none"
  <2>1. /\ lock.at = "recoverSeal" /\ lock.run = r /\ lock'.at = "recoverPersist" /\ lock'.run = r
        /\ process' = process /\ catalog' = catalog /\ saved' = saved /\ SealOk(r)
    BY <1>0 DEF RecoverSeals, Held, Continue, TypeOK, Lock
  <2>2. process = "recovering" /\ ~Stopped /\ ~Alive
    BY <1>0, <2>1 DEF StoreInv, LockInv, Loading, Alive, Stopped
  <2> QED
    BY <1>0, <2>1, <2>2 DEF RunInv, GoroutineInv, SameRecords
<1>2. /\ sealed'[r] = "yes" /\ marker'[r] = [is |-> "whole", head |-> events[r]]
      /\ UNCHANGED <<events, file, faults>> /\ Finished(file[r]) /\ Local(r) /\ SameDriver(r)
      /\ SameBundle(r)
  BY <1>0, <1>1, Seals DEF RunInv, FrameInv, Holds, driver, published, Local, LockFor,
     SameRecords, SameLog, SameDriver, SameBundle
<1>3. /\ file[r] = events[r] /\ catalog[r].verdict.is # "ineligible"
      /\ saved[r].verdict.is # "ineligible"
  BY <1>0, <1>1 DEF RunInv, FrameInv, LagInv, Holds, Loading
<1> USE DEF SameRecords, SameLog, SameDriver, SameBundle
<1>4. RecordInv(r)'
  BY <1>0, <1>1, <1>2
  DEF RunInv, RecordInv, GoroutineInv, Plausible, Stopped
<1>5. GoroutineInv(r)'
  BY <1>0, <1>1, <1>2
  DEF RunInv, RecordInv, GoroutineInv, Plausible, Over, Ending, At, Alive, Stopped
<1>6. LagInv(r)'
  BY <1>0, <1>1, <1>2
  DEF RunInv, RecordInv, GoroutineInv, Plausible, LagInv, Holds, At, Creating, Starting, Loading
<1>7. FrameInv(r)'
  BY <1>0, <1>1, <1>2, <1>3
  DEF RunInv, RecordInv, GoroutineInv, LagInv, FrameInv, Endable, Ending, Reporting, Holds, At,
      Creating, Starting, Loading, Leftover, Alive, Stopped
<1>8. MarkerInv(r)'
  BY <1>0, <1>1, <1>2, <1>3
  DEF RunInv, MarkerInv, FrameInv, Reporting, At, Stopped
<1>9. BundleInv(r)'
  BY <1>0, <1>1, <1>2, <1>3
  DEF RunInv, BundleInv, Published, NewBundle, Result, At, Stopped
<1>10. CleanInv(r)'
  BY <1>0, <1>1, <1>2, <1>3
  DEF RunInv, CleanInv, Stopped
<1> QED
  BY <1>2, <1>4, <1>5, <1>6, <1>7, <1>8, <1>9, <1>10 DEF RunInv

LEMMA RecoverPersistsRun ==
  ASSUME PlaneInv, NEW r \in Runs, RecoverPersists(r), UNCHANGED <<driver, published>>
  PROVE  Local(r) /\ RunInv(r)'
<1>0. RunInv(r) /\ StoreInv /\ PlaneTypeOK /\ TypeOK
  BY DEF PlaneInv, PlaneTypeOK
<1>1. /\ lock.at = "recoverPersist" /\ lock.run = r /\ lock'.at = "free"
      /\ process' = process /\ faults' = faults /\ catalog' = catalog /\ saved'[r] = catalog[r]
      /\ \A s \in Runs \ {r} : saved'[s] = saved[s]
  BY <1>0 DEF RecoverPersists, Held, Unlock, Unlocked, PersistOk, State, TypeOK
<1>2. Local(r) /\ SameLog(r) /\ SameDriver(r) /\ SameBundle(r)
  BY <1>1 DEF RecoverPersists, logs, driver, published, Local, LockFor, SameRecords, SameLog,
     SameDriver, SameBundle
<1>3. /\ catalog[r].status = "failed" /\ catalog[r].verdict.is = "interrupted" /\ ~Stopped
      /\ ~Alive /\ process = "recovering" /\ comp[r].at = "none"
  <2>1. process = "recovering" /\ ~Stopped /\ ~Alive /\ catalog[r].status = "failed"
    BY <1>0, <1>1 DEF StoreInv, LockInv, Loading, Alive, Stopped
  <2> QED
    BY <1>0, <1>1, <2>1 DEF RunInv, LagInv, GoroutineInv, Holds, Loading
<1> USE DEF SameRecords, SameLog, SameDriver, SameBundle
<1>4. RecordInv(r)'
  BY <1>0, <1>1, <1>2, <1>3
  DEF RunInv, RecordInv, GoroutineInv, Plausible, Stopped
<1>5. GoroutineInv(r)'
  BY <1>0, <1>1, <1>2, <1>3
  DEF RunInv, RecordInv, GoroutineInv, Plausible, Over, Ending, At, Alive, Stopped
<1>6. LagInv(r)'
  BY <1>0, <1>1, <1>2, <1>3
  DEF RunInv, RecordInv, GoroutineInv, Plausible, LagInv, Holds, At, Creating, Starting, Loading
<1>7. FrameInv(r)'
  BY <1>0, <1>1, <1>2, <1>3
  DEF RunInv, RecordInv, GoroutineInv, LagInv, FrameInv, Endable, Ending, Reporting, Holds, At,
      Creating, Starting, Loading, Leftover, Alive, Stopped
<1>8. MarkerInv(r)'
  BY <1>0, <1>1, <1>2, <1>3
  DEF RunInv, MarkerInv, FrameInv, Reporting, At, Stopped
<1>9. BundleInv(r)'
  BY <1>0, <1>1, <1>2, <1>3
  DEF RunInv, BundleInv, Published, NewBundle, Result, At, Stopped
<1>10. CleanInv(r)'
  BY <1>0, <1>1, <1>2, <1>3
  DEF RunInv, CleanInv, Stopped
<1> QED
  BY <1>2, <1>4, <1>5, <1>6, <1>7, <1>8, <1>9, <1>10 DEF RunInv

-----------------------------------------------------------------------------
(* Every step about one run.                                                 *)

Recovered(r) == RecoverFinishes(r) \/ RecoverSeals(r) \/ RecoverPersists(r)
RunStep(r) ==
  \/ Client(r) \/ DriverCalled(r) \/ WorkloadExits(r) \/ ShutdownStops(r) \/ Goroutine(r)
  \/ Recovered(r) /\ UNCHANGED <<driver, published>>

LEMMA RunStepKept ==
  ASSUME PlaneInv, NEW r \in Runs, RunStep(r)
  PROVE  Local(r) /\ RunInv(r)'
<1>1. CASE Client(r)
  <2>1. UNCHANGED <<driver, published>> /\ ClientStep(r)
    BY <1>1 DEF Client
  <2> QED
    BY <2>1, CreateRun, CreateRunFails, CreatedRun, CreatedRunFails, StartRun, StartRunFails,
       StartedRun,
       StartedRunFails, UndispatchedSaved, StoppingRun, RepeatedRequest, Zenon DEF ClientStep
<1>2. CASE DriverCalled(r)
  <2>0. PlaneTypeOK
    BY DEF PlaneInv
  <2>1. CASE DriverPrepare(r)
    BY <2>1, PreparedRun, UnpreparedRun, Zenon DEF DriverPrepare
  <2>2. CASE DriverStart(r)
    <3>1. CASE /\ Dispatched(r) /\ proc' = [proc EXCEPT ![r] = "running"] /\ Go(r, "waiting")
               /\ UNCHANGED published
      BY <3>1, DispatchedRun
    <3>2. CASE /\ Undispatched(r) /\ UNCHANGED <<comp, published>>
               /\ \E p \in IF Compat(r) THEN {proc[r], "killed"} ELSE {"none"} :
                    proc' = [proc EXCEPT ![r] = p]
      <4>1. \E p \in Procs : proc' = [proc EXCEPT ![r] = p]
        BY <2>0, <3>2 DEF PlaneTypeOK, Procs
      <4> QED
        BY <3>2, <4>1, UndispatchedRun, UndispatchedRunFails
    <3> QED
      BY <2>2, <3>1, <3>2 DEF DriverStart
  <2>3. CASE DriverStop(r)
    <3>1. CASE StopUndispatched(r) /\ UNCHANGED <<driver, published>>
      BY <3>1, StopRefusedRun
    <3>2. CASE /\ StopDispatched(r) /\ proc[r] # "none" /\ UNCHANGED <<comp, published>>
               /\ proc' = [proc EXCEPT ![r] =
                    CASE @ = "running" -> "killed" [] @ = "prepared" -> "exited" [] OTHER -> @]
      <4>1. \E p \in Procs : proc' = [proc EXCEPT ![r] = p]
        BY <2>0, <3>2 DEF PlaneTypeOK, Procs
      <4> QED
        BY <3>2, <4>1, StopAskedRun
    <3> QED
      BY <2>3, <3>1, <3>2 DEF DriverStop
  <2> QED
    BY <1>2, <2>1, <2>2, <2>3 DEF DriverCalled
<1>3. CASE WorkloadExits(r) \/ ShutdownStops(r)
  <2>1. /\ proc[r] # "none" /\ UNCHANGED <<vars, comp, published>>
        /\ \E p \in Procs : proc' = [proc EXCEPT ![r] = p]
    BY <1>3 DEF WorkloadExits, ShutdownStops, Procs
  <2> QED
    BY <2>1, WorkloadRun
<1>4. CASE Goroutine(r)
  <2>1. CASE AppendsNormalized(r)
    BY <2>1, AppendsRun, AppendsRunFails DEF AppendsNormalized
  <2>2. CASE CompletesRun(r)
    BY <2>2, CompletesRunOk, CompletesRunNot DEF CompletesRun
  <2>3. CASE PersistsCompletion(r)
    BY <2>3, PersistedRun, PersistedRunFails DEF PersistsCompletion
  <2>4. CASE SealsRun(r)
    BY <2>4, SealedRun, SealedRunFails DEF SealsRun
  <2>5. CASE Publishes(r)
    BY <2>5, PublishesRun, PublishesRunFails DEF Publishes
  <2> QED
    BY <1>4, <2>1, <2>2, <2>3, <2>4, <2>5, WaitsRun, CollectsRun, AppendedAllRun, RecordsLossRun,
       ReportsRun,
       WritesManifestRun, WritesBundleRun, GivesUpRun, FinishingRun, Zenon DEF Goroutine
<1>5. CASE Recovered(r) /\ UNCHANGED <<driver, published>>
  BY <1>5, RecoversRun, RecoverSealsRun, RecoverPersistsRun DEF Recovered
<1> QED
  BY <1>1, <1>2, <1>3, <1>4, <1>5 DEF RunStep

-----------------------------------------------------------------------------
(* Steps of the process.                                                     *)

\* What is left of a run when the process has ended.
LEMMA Forgotten ==
  ASSUME NEW r \in Runs, process' \in {"down", "refused"}, lock' = Unlocked,
         catalog'[r] = Absent, comp'[r] = NoComp, proc'[r] # "none" => saved'[r].status # "none",
         Plausible(saved'[r]), Published(r, saved[r])', CleanInv(r)',
         \A i \in 1 .. Len(file'[r]) : Finishes(file'[r][i]) => i = Len(file'[r]),
         marker'[r].is # "absent" => Finished(file'[r])
  PROVE  RunInv(r)'
<1>0. /\ ~Alive' /\ Stopped' /\ lock'.at = "free" /\ comp'[r].at = "none"
      /\ comp'[r].evidence = "sound"
  BY DEF Alive, Stopped, Unlocked, NoComp
<1>1. Absent.status = "none" /\ Absent.verdict.is = "none"
  BY DEF Absent, NoVerdict
<1>2. RecordInv(r)' /\ GoroutineInv(r)'
  BY <1>0, <1>1 DEF RecordInv, GoroutineInv, Plausible, Over, Ending, At
<1>3. LagInv(r)'
  BY <1>0 DEF LagInv, Holds, At, Creating, Starting, Loading
<1>4. FrameInv(r)'
  BY <1>0 DEF FrameInv, Endable, Ending, Reporting, Holds, At, Creating, Starting, Stopped
<1>5. MarkerInv(r)'
  BY <1>0 DEF MarkerInv, Reporting, At
<1>6. BundleInv(r)'
  BY <1>0, <1>1 DEF BundleInv, Published, At
<1> QED
  BY <1>2, <1>3, <1>4, <1>5, <1>6 DEF RunInv

\* A process that dies in a seal leaves the empty marker of a log that has its end.
LEMMA EndsRun == ASSUME PlaneInv, Ends, NEW r \in Runs PROVE RunInv(r)'
<1>1. RunInv(r) /\ TypeOK
  BY DEF PlaneInv, PlaneTypeOK
<1>2. /\ process' = "down" /\ lock' = Unlocked /\ catalog'[r] = Absent /\ comp'[r] = NoComp
      /\ proc'[r] = "none" /\ UNCHANGED <<saved, file, manifest, bundle, faults>>
      /\ ~Stopped /\ Stopped'
  <2>1. /\ comp'[r] = NoComp /\ proc'[r] = "none" /\ UNCHANGED <<manifest, bundle>>
    BY DEF Ends, DriverLost, published
  <2>2. CASE Exit \/ Crash
    BY <2>1, <2>2 DEF Exit, Crash, MemoryLost, Unlock, storage, Stopped
  <2>3. ASSUME NEW s \in Runs, CrashInSeal(s)
        PROVE  /\ process' = "down" /\ lock' = Unlocked /\ catalog'[r] = Absent
               /\ UNCHANGED <<saved, file, faults>> /\ ~Stopped /\ Stopped'
    <3>1. LockInv
      BY DEF PlaneInv, StoreInv
    <3>2. ~Stopped
      BY <2>3, <3>1 DEF CrashInSeal, Held, LockInv, Calling, Alive, Stopped
    <3> QED
      BY <2>3, <3>2 DEF CrashInSeal, MemoryLost, Unlock, Stopped
  <2> QED
    BY <2>1, <2>2, <2>3 DEF Ends
<1>3. \/ marker'[r] = marker[r]
      \/ /\ marker[r].is = "absent" /\ marker'[r] = [is |-> "partial", head |-> <<>>]
         /\ Finished(file[r])
  <2>1. CASE Exit \/ Crash
    BY <2>1 DEF Exit, Crash, storage
  <2>2. ASSUME NEW s \in Runs, DiesInSeal(s), CrashInSeal(s), s # r PROVE marker'[r] = marker[r]
    BY <1>1, <2>2 DEF CrashInSeal, TypeOK
  <2>3. ASSUME DiesInSeal(r), CrashInSeal(r)
        PROVE  /\ marker[r].is = "absent" /\ marker'[r] = [is |-> "partial", head |-> <<>>]
               /\ Finished(file[r])
    <3>1. marker[r].is = "absent" /\ marker'[r] = [is |-> "partial", head |-> <<>>]
      BY <1>1, <2>3 DEF CrashInSeal, TypeOK
    <3>2. At(r, "sealing") \/ Holds(r, {"recoverSeal"})
      BY <2>3 DEF DiesInSeal, Held, Holds
    <3> QED
      BY <1>1, <3>1, <3>2 DEF RunInv, FrameInv
  <2> QED
    BY <2>1, <2>2, <2>3 DEF Ends
<1>4. Published(r, saved[r])'
  BY <1>1, <1>2, <1>3 DEF RunInv, BundleInv, Published, OnDisk
<1>5. CleanInv(r)'
  BY <1>1, <1>2, <1>3 DEF RunInv, CleanInv
<1>6. /\ \A i \in 1 .. Len(file'[r]) : Finishes(file'[r][i]) => i = Len(file'[r])
      /\ marker'[r].is # "absent" => Finished(file'[r])
  BY <1>1, <1>2, <1>3 DEF RunInv, FrameInv, MarkerInv
<1>7. Plausible(saved'[r])
  BY <1>1, <1>2 DEF RunInv, RecordInv
<1> QED
  BY <1>2, <1>4, <1>5, <1>6, <1>7, Forgotten

\* A recovery that fails leaves the log of its run without a marker, or with its end.
LEMMA RecoveryFailsRun ==
  ASSUME PlaneInv, NEW s \in Runs, RecoveryFails(s), UNCHANGED <<driver, published>>, NEW r \in Runs
  PROVE  RunInv(r)' /\ faults' # 0
<1>0. RunInv(r) /\ RunInv(s) /\ TypeOK /\ faults \in Nat
  BY DEF PlaneInv, PlaneTypeOK, TypeOK
<1>1. /\ process = "recovering" /\ process' = "refused" /\ lock' = Unlocked /\ catalog'[r] = Absent
      /\ comp' = comp /\ proc' = proc /\ manifest' = manifest /\ bundle' = bundle /\ ~Stopped
      /\ ~Alive
  BY DEF RecoveryFails, Refuse, Unlock, driver, published, Stopped, Alive
<1>2. comp[r].at = "none" /\ comp[r] = NoComp
  BY <1>0, <1>1 DEF RunInv, GoroutineInv
<1>3. CASE /\ Interrupted(s) /\ ~Finished(events[s])
           /\ IF sealed[s] = "yes" THEN UNCHANGED <<file, faults>>
              ELSE Fault /\ \E left \in AppendLeaves(s) : file' = [file EXCEPT ![s] = left]
           /\ UNCHANGED <<marker, saved>>
  <2>1. file[s] = events[s] /\ ~Finished(file[s]) /\ marker[s].is = "absent" /\ sealed[s] # "yes"
    BY <1>0, <1>1, <1>3 DEF RunInv, FrameInv, MarkerInv
  <2>2. catalog[s].verdict.is # "ineligible" /\ saved[s].verdict.is # "ineligible"
    BY <2>1, OpenLog
  <2>3. faults' # 0
    BY <1>3, <2>1, FaultCounts
  <2>4. PICK left \in AppendLeaves(s) : file' = [file EXCEPT ![s] = left]
    BY <1>3, <2>1
  <2>5. \A i \in 1 .. Len(left) : Finishes(left[i]) => i = Len(left)
    <3>1. CASE left = file[s]
      BY <1>0, <3>1 DEF RunInv, FrameInv
    <3>2. ASSUME NEW f, left = Append(file[s], f)
          PROVE  \A i \in 1 .. Len(left) : Finishes(left[i]) => i = Len(left)
      <4>1. file[s] \in Seq(Frame)
        BY <1>0 DEF TypeOK
      <4> QED
        BY <2>1, <3>2, <4>1 DEF Finished
    <3> QED
      BY <3>1, <3>2 DEF AppendLeaves
  <2>6. file'[s] = left /\ (r # s => file'[r] = file[r])
    BY <1>0, <2>4 DEF TypeOK
  <2>7. /\ \A i \in 1 .. Len(file'[r]) : Finishes(file'[r][i]) => i = Len(file'[r])
        /\ marker'[r].is # "absent" => Finished(file'[r])
    BY <1>0, <1>3, <2>1, <2>5, <2>6 DEF RunInv, FrameInv, MarkerInv
  <2>8. Published(r, saved[r])' /\ CleanInv(r)'
    BY <1>0, <1>1, <1>3, <2>2, <2>3, <2>6 DEF RunInv, BundleInv, Published, CleanInv, Stopped
  <2> QED
    BY <1>0, <1>1, <1>2, <1>3, <2>3, <2>7, <2>8, Forgotten DEF RunInv, RecordInv
<1>4. CASE /\ Held("recoverSeal", s) /\ sealed[s] = "no" /\ Fault
           /\ \E left \in SealLeaves(s) : marker' = [marker EXCEPT ![s] = left]
           /\ UNCHANGED <<file, saved>>
  <2>1. Finished(file[s]) /\ saved[s].verdict.is # "ineligible"
    BY <1>0, <1>4 DEF Held, RunInv, FrameInv, LagInv, Holds, Loading
  <2>2. faults' # 0
    BY <1>4, FaultCounts
  <2>3. r # s => marker'[r] = marker[r]
    BY <1>0, <1>4 DEF TypeOK
  <2>4. Published(r, saved[r])' /\ CleanInv(r)'
    BY <1>0, <1>1, <1>4, <2>1, <2>2, <2>3 DEF RunInv, BundleInv, Published, CleanInv, Stopped
  <2>5. /\ \A i \in 1 .. Len(file'[r]) : Finishes(file'[r][i]) => i = Len(file'[r])
        /\ marker'[r].is # "absent" => Finished(file'[r])
    BY <1>0, <1>4, <2>1, <2>3 DEF RunInv, FrameInv, MarkerInv
  <2> QED
    BY <1>0, <1>1, <1>2, <1>4, <2>2, <2>4, <2>5, Forgotten DEF RunInv, RecordInv
<1>5. CASE /\ Held("recoverPersist", s) /\ Fault
           /\ saved' \in {saved, [saved EXCEPT ![s] = State(catalog[s])]}
           /\ UNCHANGED <<file, marker>>
  <2>1. catalog[s].verdict.is = "interrupted"
    BY <1>0, <1>5 DEF Held, RunInv, LagInv, Holds, Loading
  <2>2. faults' # 0
    BY <1>5, FaultCounts
  <2>3. saved'[r] = saved[r] \/ (r = s /\ saved'[r] = catalog[r])
    BY <1>0, <1>5 DEF TypeOK, State
  <2>4. Plausible(saved'[r]) /\ (proc'[r] # "none" => saved'[r].status # "none")
    BY <1>0, <1>1, <2>1, <2>3 DEF RunInv, RecordInv, Plausible
  <2>5. Published(r, saved[r])' /\ CleanInv(r)'
    BY <1>0, <1>1, <1>5, <2>1, <2>2, <2>3 DEF RunInv, BundleInv, Published, CleanInv, Stopped
  <2> QED
    BY <1>0, <1>1, <1>2, <1>5, <2>2, <2>4, <2>5, Forgotten DEF RunInv, FrameInv, MarkerInv
<1> QED
  BY <1>3, <1>4, <1>5 DEF RecoveryFails

\* While the process runs no goroutine, there is nobody at any of its steps.
LEMMA Idle ==
  ASSUME PlaneInv, NEW r \in Runs, ~Alive
  PROVE  /\ comp[r].at = "none" /\ comp[r] = NoComp /\ comp[r].evidence = "sound"
         /\ ~Ending(r) /\ ~Reporting(r) /\ Over(r)
<1>1. comp[r].at = "none" /\ comp[r] = NoComp
  BY DEF PlaneInv, RunInv, GoroutineInv
<1> QED
  BY <1>1 DEF NoComp, Ending, Reporting, Over, At

LEMMA OpensRun ==
  ASSUME PlaneInv, OpenStore, UNCHANGED <<driver, published>>, NEW r \in Runs
  PROVE  RunInv(r)'
<1>0. RunInv(r) /\ StoreInv /\ TypeOK
  BY DEF PlaneInv, PlaneTypeOK
<1>1. /\ Stopped /\ process' = "recovering" /\ ~Stopped' /\ ~Alive' /\ ~Alive
      /\ UNCHANGED <<lock, proc, comp, manifest, bundle, saved, file, marker, faults>>
  BY DEF OpenStore, driver, published, storage, Stopped, Alive
<1>2. lock.at = "free" /\ lock'.at = "free"
  BY <1>0, <1>1 DEF StoreInv, LockInv
<1>3. catalog'[r] = saved[r] /\ events'[r] = file[r]
  <2>1. r \notin dirs => saved[r] = Absent /\ file[r] = <<>>
    BY <1>0 DEF StoreInv, SavedInv
  <2> QED
    BY <2>1 DEF OpenStore
<1>4. /\ comp[r].at = "none" /\ comp[r] = NoComp /\ comp[r].evidence = "sound"
      /\ ~Ending(r)' /\ ~Reporting(r)' /\ Over(r)'
  BY <1>1, Idle DEF Ending, Reporting, Over, At
<1>5. catalog'[r].status = "none" => file[r] = <<>>
  <2>1. r \in dirs => saved[r].status # "none"
    BY DEF OpenStore, Loadable
  <2> QED
    BY <1>0, <1>3, <2>1 DEF StoreInv, SavedInv
<1>6. sealed'[r] = "yes" => marker[r] = [is |-> "whole", head |-> file[r]]
  BY DEF OpenStore, Loadable
<1>7. sealed'[r] = "no" => r \notin dirs \/ marker[r] = NoMarker
  BY DEF OpenStore
<1>8. r \notin dirs => marker[r].is = "absent" /\ saved[r].verdict.is = "none"
  BY <1>0, NoFinishInEmpty DEF StoreInv, SavedInv, RunInv, MarkerInv, Absent, NoVerdict
<1>9. saved[r].verdict.is = "ineligible" => sealed'[r] = "yes"
  <2>1. sealed'[r] \in {"yes", "no"}
    BY DEF OpenStore
  <2> QED
    BY <1>0, <1>7, <1>8, <2>1 DEF RunInv, BundleInv, Published, OnDisk, NoMarker
<1>10. RecordInv(r)' /\ GoroutineInv(r)'
  BY <1>0, <1>1, <1>3, <1>4 DEF RunInv, RecordInv, GoroutineInv, Plausible
<1>11. LagInv(r)'
  BY <1>1, <1>2, <1>4 DEF LagInv, Holds, At, Creating, Starting, Loading
<1>12. FrameInv(r)'
  BY <1>0, <1>1, <1>2, <1>3, <1>4, <1>5 DEF RunInv, FrameInv, Endable, Holds, At, Creating, Starting
<1>13. MarkerInv(r)'
  BY <1>0, <1>1, <1>3, <1>4, <1>6 DEF RunInv, MarkerInv
<1>14. BundleInv(r)'
  BY <1>0, <1>1, <1>3, <1>4, <1>9 DEF RunInv, BundleInv, Published, At
<1>15. CleanInv(r)'
  <2>1. r \in dirs => marker[r] = NoMarker \/ marker[r] = [is |-> "whole", head |-> file[r]]
    BY DEF OpenStore, Loadable
  <2>2. faults = 0 => marker[r] = NoMarker \/ marker[r] = [is |-> "whole", head |-> file[r]]
    BY <1>0, <1>8, <2>1 DEF RunInv, CleanInv
  <2> QED
    BY <1>0, <1>1, <1>3, <1>7, <1>8, <2>2 DEF RunInv, CleanInv, NoMarker
<1> QED
  BY <1>10, <1>11, <1>12, <1>13, <1>14, <1>15 DEF RunInv

\* The steps of the process that change nothing else.
LEMMA ChangesRun ==
  ASSUME PlaneInv, OpenStoreRefuses \/ Serve \/ ShutsDown, UNCHANGED <<driver, published>>,
         NEW r \in Runs
  PROVE  RunInv(r)'
<1>0. RunInv(r) /\ StoreInv /\ TypeOK
  BY DEF PlaneInv, PlaneTypeOK
<1>1. /\ UNCHANGED <<lock, catalog, saved, proc, comp, events, file, sealed, marker, manifest, bundle, faults>>
      /\ Stopped' <=> Stopped
      /\ process' # "recovering"
      /\ Alive => Alive'
  BY DEF OpenStoreRefuses, Serve, ShutsDown, Drain, Close, Recovering, memory, storage, logs,
     driver, published,
         Stopped, Alive
<1>2. ASSUME Alive' /\ ~Alive
      PROVE  /\ process = "recovering" /\ lock.at = "free" /\ file[r] = events[r]
             /\ catalog[r].status = "none" \/ catalog[r].status \in Terminal
             /\ catalog[r].status = "none" => file[r] = <<>>
  <2>1. Serve
    BY <1>2 DEF OpenStoreRefuses, ShutsDown, Drain, Close, Alive
  <2>2. process = "recovering" /\ lock.at = "free" /\ ~Interrupted(r) /\ ~Stopped
    BY <2>1 DEF Serve, Recovering, Free, Stopped
  <2> QED
    BY <1>0, <2>2 DEF Interrupted, RunInv, FrameInv
<1>3. RecordInv(r)' /\ GoroutineInv(r)'
  BY ZenonT(30), <1>0, <1>1 DEF RunInv, RecordInv, GoroutineInv, Plausible, Over, Ending, At
<1>4. LagInv(r)' /\ MarkerInv(r)' /\ BundleInv(r)' /\ CleanInv(r)'
  BY <1>0, <1>1 DEF RunInv, LagInv, MarkerInv, BundleInv, CleanInv, Holds, At, Reporting,
     Published, NewBundle,
                    Result
<1>5. FrameInv(r)'
  <2>1. CASE Alive' <=> Alive
    BY <1>0, <1>1, <2>1 DEF RunInv, FrameInv, Endable, Ending, Reporting, Holds, At
  <2>2. CASE Alive' /\ ~Alive
    <3>1. ~Ending(r)' /\ ~Reporting(r)' /\ comp'[r].at = "none"
      BY <1>1, <2>2, Idle DEF Ending, Reporting, At
    <3> QED
      BY <1>0, <1>1, <1>2, <2>2, <3>1, NoFinishInEmpty
      DEF RunInv, FrameInv, Endable, Holds, At, Starting, Terminal
  <2> QED
    BY <1>1, <2>1, <2>2
<1> QED
  BY <1>3, <1>4, <1>5 DEF RunInv

\* A published verdict is that of the bundle on disk, so recovery finds no other; only its
\* size can be against it.
LEMMA BundlesMatch ==
  ASSUME PlaneInv, NEW r \in Runs
  PROVE  BundleMatches(r) \/ (catalog[r].verdict.is = "ineligible" /\ size[r] = "over")
<1> SUFFICES ASSUME catalog[r].verdict.is = "ineligible", size[r] # "over"
             PROVE  /\ bundle[r] # <<>> /\ manifest[r] # <<>> /\ size[r] = "fits"
                    /\ BundleValid(r, bundle[r][1])
                    /\ bundle[r][1].verdict = catalog[r].verdict
                    /\ bundle[r][1].log = file[r]
                    /\ manifest[r][1] = bundle[r][1].head
                    /\ bundle[r][1].log[Len(bundle[r][1].log)].what = catalog[r].status
  BY DEF BundleMatches
<1>1. OnDisk(r, catalog[r].status, catalog[r].verdict, file[r], manifest[r], bundle[r], marker[r])
  BY DEF PlaneInv, RunInv, BundleInv, Published
<1>2. /\ manifest[r] = <<file[r]>>
      /\ bundle[r] = <<[log |-> file[r], head |-> file[r], verdict |-> catalog[r].verdict]>>
      /\ BundleValid(r, bundle[r][1]) /\ file[r][Len(file[r])].what = catalog[r].status
  BY <1>1 DEF OnDisk
<1>3. size[r] = "fits"
  BY DEF PlaneInv, PlaneTypeOK
<1> HIDE DEF BundleValid
<1> QED
  BY <1>2, <1>3

\* A start whose recovery is done and that ends all the same leaves the disk alone, which
\* is as the memory was.
LEMMA RejectsRun ==
  ASSUME PlaneInv, Reject, UNCHANGED <<driver, published>>, NEW r \in Runs
  PROVE  RunInv(r)'
<1>0. RunInv(r) /\ TypeOK
  BY DEF PlaneInv, PlaneTypeOK
<1>1. /\ process = "recovering" /\ process' = "refused" /\ lock' = Unlocked /\ catalog'[r] = Absent
      /\ UNCHANGED <<proc, comp, manifest, bundle, saved, file, marker, faults>>
      /\ ~Stopped /\ Stopped' /\ ~Alive
  BY DEF Reject, Recovering, Refuse, Unlock, driver, published, storage, Stopped, Alive
<1>2. comp'[r] = NoComp
  BY <1>1, Idle
<1>3. Published(r, saved[r])' /\ CleanInv(r)'
  BY <1>0, <1>1 DEF RunInv, BundleInv, Published, CleanInv
<1>4. /\ \A i \in 1 .. Len(file'[r]) : Finishes(file'[r][i]) => i = Len(file'[r])
      /\ marker'[r].is # "absent" => Finished(file'[r])
  BY <1>0, <1>1 DEF RunInv, FrameInv, MarkerInv
<1>5. Plausible(saved'[r]) /\ (proc'[r] # "none" => saved'[r].status # "none")
  BY <1>0, <1>1 DEF RunInv, RecordInv
<1> QED
  BY <1>1, <1>2, <1>3, <1>4, <1>5, Forgotten

\* What it finds against the bundle of a run is its size.
LEMMA Rejected ==
  ASSUME PlaneInv, Reject, NEW r \in Runs, ~BundleMatches(r)
  PROVE  r \in dirs /\ Refusable(r)
<1>1. catalog[r].verdict.is = "ineligible" /\ size[r] = "over"
  BY BundlesMatch
<1>2. process = "recovering" /\ lock.at = "free" /\ LockInv /\ SavedInv
  BY DEF Reject, Recovering, Free, PlaneInv, StoreInv
<1>3. catalog[r] = saved[r]
  BY <1>2 DEF LockInv, SavedInv, Unsaved, Loading, Stopped
<1>4. r \in dirs
  BY <1>1, <1>2 DEF SavedInv, Absent, NoVerdict
<1> QED
  BY <1>1, <1>3, <1>4 DEF Refusable

\* As long as nothing has failed, a run that cannot be loaded is refusable.
LEMMA RefusesRun ==
  ASSUME PlaneInv, OpenStoreRefuses, faults = 0
  PROVE  \E r \in dirs : Refusable(r)
<1>1. /\ dirs \subseteq Runs /\ Keyed(saved) /\ \A r \in Runs : RunInv(r)
      /\ stamps \in [Runs -> {"ordered", "reversed"}]
  BY DEF PlaneInv, PlaneTypeOK, TypeOK, StoreInv, ToldInv
<1>2. KeysDistinct
  BY <1>1 DEF Keyed, KeysDistinct
<1>3. PICK r \in dirs : ~Loadable(r)
  BY <1>2 DEF OpenStoreRefuses
<1>4. CleanInv(r) /\ stamps[r] \in {"ordered", "reversed"}
  BY <1>1 DEF RunInv
<1>5. Refusable(r)
  BY <1>3, <1>4 DEF CleanInv, Loadable, Refusable
<1> QED
  BY <1>5

-----------------------------------------------------------------------------
(* The step as a whole.                                                      *)

LEMMA PlaneCases ==
  ASSUME PlaneNext
  PROVE  \/ \E r \in Runs : RunStep(r) \/ (RecoveryFails(r) /\ UNCHANGED <<driver, published>>)
         \/ Starts \/ ShutsDown \/ Ends
<1>1. \A r \in Runs : Recovers(r) => RunStep(r) \/ (RecoveryFails(r) /\ UNCHANGED <<driver, published>>)
  BY DEF Recovers, Recovery, RunStep, Recovered
<1> QED
  BY <1>1, Zenon DEF PlaneNext, RunStep

LEMMA RunsKept ==
  ASSUME PlaneInv, PlaneNext, NEW s \in Runs
  PROVE  RunInv(s)'
<1>1. ASSUME NEW r \in Runs, RunStep(r) PROVE RunInv(s)'
  BY <1>1, RunStepKept, Elsewhere
<1>2. ASSUME NEW r \in Runs, RecoveryFails(r) /\ UNCHANGED <<driver, published>> PROVE RunInv(s)'
  BY <1>2, RecoveryFailsRun
<1>3. CASE Starts
  BY <1>3, OpensRun, ChangesRun, RejectsRun DEF Starts
<1>4. CASE ShutsDown
  BY <1>4, ChangesRun DEF ShutsDown
<1>5. CASE Ends
  BY <1>5, EndsRun
<1> QED
  BY <1>1, <1>2, <1>3, <1>4, <1>5, PlaneCases

\* A process that has ended makes no step about a run, and one that recovers but those
\* of the recovery.
LEMMA RunStepIsAlive ==
  ASSUME PlaneInv, NEW r \in Runs, RunStep(r), ~Alive
  PROVE  ~Stopped /\ Recovered(r) /\ process = "recovering" /\ UNCHANGED <<dirs, driver, published>>
<1>1. LockInv
  BY DEF PlaneInv, StoreInv
<1>2. lock.at = "free" \/ lock.at \in Loading
  BY <1>1 DEF LockInv, Stopped, Alive, PlaneInv, PlaneTypeOK, TypeOK
<1>3. ~Serving /\ ~Calling /\ process # "draining" /\ comp[r].at = "none"
  BY Idle DEF Serving, Calling, Alive
<1>4. ~Client(r)
  BY <1>2, <1>3
  DEF Client, ClientStep, Create, CreateFails, CreatedPersisted, CreatedUnpersisted, Start,
      StartFails,
      StartPersisted, StartUnpersisted, UndispatchedPersists, Stop, Replay, Held, Loading
<1>5. ~DriverCalled(r)
  BY <1>2
  DEF DriverCalled, DriverPrepare, DriverStart, DriverStop, Prepared, Unprepared, Dispatched,
      Undispatched,
      StopDispatched, StopUndispatched, Held, Loading
<1>6. ~WorkloadExits(r) /\ ~ShutdownStops(r)
  BY <1>3 DEF WorkloadExits, ShutdownStops, At
<1>7. ~Goroutine(r)
  BY <1>3
  DEF Goroutine, Waits, Collects, AppendsNormalized, AppendedAll, RecordsLoss, CompletesRun,
      PersistsCompletion, SealsRun, Reports, WritesManifest, WritesBundle, Publishes, GivesUp, Finishing, At
<1>8. Recovered(r) /\ UNCHANGED <<driver, published>>
  BY <1>4, <1>5, <1>6, <1>7 DEF RunStep
<1>9. process = "recovering"
  BY <1>1, <1>8
  DEF Recovered, RecoverFinishes, RecoverSeals, RecoverPersists, Recovering, Held, LockInv, Loading
<1>10. UNCHANGED dirs
  BY <1>8 DEF Recovered, RecoverFinishes, RecoverSeals, RecoverPersists, AppendOk, SealOk
<1> QED
  BY <1>8, <1>9, <1>10 DEF Stopped

LEMMA RefusalsKept == ASSUME PlaneInv, PlaneNext PROVE RefusalsExplained'
<1>1. ASSUME NEW r \in Runs, RunStep(r) PROVE RefusalsExplained'
  <2>1. process # "refused"
    BY <1>1, RunStepIsAlive DEF Stopped, Alive
  <2>2. process' = process
    BY <1>1, RunStepKept DEF Local
  <2> QED
    BY <2>1, <2>2 DEF RefusalsExplained
<1>2. ASSUME NEW r \in Runs, RecoveryFails(r) /\ UNCHANGED <<driver, published>>
      PROVE  RefusalsExplained'
  BY <1>2, RecoveryFailsRun DEF RefusalsExplained
<1>3. CASE Starts
  <2>1. ASSUME NEW r \in dirs, Refusable(r), OpenStoreRefuses \/ Reject PROVE RefusalsExplained'
    <3>1. UNCHANGED <<dirs, saved, stamps, marker, size>>
      BY <1>3, <2>1 DEF Starts, OpenStoreRefuses, Reject, storage, published, logs
    <3>2. Refusable(r)' /\ r \in dirs'
      BY <2>1, <3>1 DEF Refusable
    <3> QED
      BY <3>2 DEF RefusalsExplained
  <2>2. CASE OpenStoreRefuses /\ faults' = 0
    <3>1. faults = 0
      BY <2>2 DEF OpenStoreRefuses
    <3> QED
      BY <2>1, <2>2, <3>1, RefusesRun
  <2>3. CASE Reject /\ \E r \in Runs : ~BundleMatches(r)
    BY <2>1, <2>3, Rejected
  <2>4. CASE OpenStore \/ Serve
    BY <2>4 DEF OpenStore, Serve, RefusalsExplained
  <2> QED
    BY <1>3, <2>2, <2>3, <2>4 DEF Starts, RefusalsExplained
<1>4. CASE ShutsDown \/ Ends
  BY <1>4 DEF ShutsDown, Drain, Close, Ends, Exit, Crash, CrashInSeal, RefusalsExplained
<1> QED
  BY <1>1, <1>2, <1>3, <1>4, PlaneCases

LEMMA PlaneTypeStep == ASSUME PlaneInv, PlaneNext PROVE PlaneTypeOK'
<1>0. /\ TypeOK /\ TypeOK'
      /\ proc \in [Runs -> Procs] /\ comp \in [Runs -> Comp]
      /\ manifest \in [Runs -> Seq(Seq(Frame))] /\ bundle \in [Runs -> Seq(Bundle)]
      /\ size \in [Runs -> {"fits", "over"}]
  BY StoreKept DEF PlaneInv, PlaneTypeOK, StoreInv
<1>1. ASSUME UNCHANGED <<driver, published>> PROVE PlaneTypeOK'
  BY <1>0, <1>1 DEF driver, published, PlaneTypeOK
<1>2. ASSUME NEW r \in Runs, UNCHANGED <<proc, published>>, \E step \in Steps : Go(r, step)
      PROVE  PlaneTypeOK'
  <2>1. comp' \in [Runs -> Comp]
    BY <1>2, Goes DEF PlaneInv
  <2> QED
    BY <1>0, <1>2, <2>1 DEF published, PlaneTypeOK
<1>3. ASSUME NEW r \in Runs, NEW p \in Procs, proc' = [proc EXCEPT ![r] = p], UNCHANGED <<comp, published>>
      PROVE  PlaneTypeOK'
  BY <1>0, <1>3 DEF published, PlaneTypeOK
<1>4. ASSUME NEW r \in Runs, DriverCalled(r) PROVE PlaneTypeOK'
  <2>1. CASE DriverPrepare(r)
    BY <1>1, <1>3, <2>1 DEF DriverPrepare, Procs
  <2>2. CASE DriverStart(r)
    <3>1. CASE proc' = [proc EXCEPT ![r] = "running"] /\ Go(r, "waiting") /\ UNCHANGED published
      <4>1. comp' \in [Runs -> Comp]
        BY <3>1, Goes DEF PlaneInv, Steps
      <4>2. proc' \in [Runs -> Procs]
        BY <1>0, <3>1 DEF Procs
      <4> QED
        BY <1>0, <3>1, <4>1, <4>2 DEF published, PlaneTypeOK
    <3>2. CASE /\ UNCHANGED <<comp, published>>
               /\ \E p \in IF Compat(r) THEN {proc[r], "killed"} ELSE {"none"} :
                    proc' = [proc EXCEPT ![r] = p]
      BY <1>0, <1>3, <3>2 DEF Procs
    <3> QED
      BY <2>2, <3>1, <3>2 DEF DriverStart
  <2>3. CASE DriverStop(r)
    BY <1>0, <1>1, <1>3, <2>3 DEF DriverStop, Procs
  <2> QED
    BY <1>4, <2>1, <2>2, <2>3 DEF DriverCalled
<1>5. ASSUME NEW r \in Runs, WorkloadExits(r) \/ ShutdownStops(r) PROVE PlaneTypeOK'
  BY <1>3, <1>5 DEF WorkloadExits, ShutdownStops, Procs
<1>6. ASSUME NEW r \in Runs, Goroutine(r) PROVE PlaneTypeOK'
  <2>1. CASE Waits(r)
    <3>1. comp' \in [Runs -> Comp]
      <4>1. PICK status \in {"completed", "failed"} :
              comp' = [comp EXCEPT ![r] =
                [comp[r] EXCEPT !.at = IF Compat(r) THEN "collecting" ELSE "completing", !.status = status]]
        BY <2>1 DEF Waits
      <4>2. comp[r] \in Comp
        BY <1>0
      <4>3. [comp[r] EXCEPT !.at = IF Compat(r) THEN "collecting" ELSE "completing", !.status = status] \in Comp
        BY <4>2 DEF Comp, Steps
      <4> QED
        BY <1>0, <4>1, <4>3
    <3> QED
      BY <1>0, <2>1, <3>1 DEF Waits, published, PlaneTypeOK
  <2>2. CASE RecordsLoss(r)
    <3>1. [at |-> "completing", status |-> "failed", evidence |-> "lost"] \in Comp
      BY DEF Comp, Steps
    <3>2. comp' \in [Runs -> Comp]
      BY <1>0, <2>2, <3>1 DEF RecordsLoss
    <3> QED
      BY <1>0, <2>2, <3>2 DEF RecordsLoss, published, PlaneTypeOK
  <2>3. CASE AppendsNormalized(r)
    BY <1>1, <1>2, <2>3 DEF AppendsNormalized, driver, Steps
  <2>4. CASE Collects(r) \/ AppendedAll(r) \/ Reports(r)
    BY <1>2, <2>4 DEF Collects, AppendedAll, Reports, Steps
  <2>5. CASE CompletesRun(r) \/ PersistsCompletion(r) \/ Publishes(r)
    BY <1>2, <2>5 DEF CompletesRun, PersistsCompletion, Publishes, Steps
  <2>6. CASE SealsRun(r) \/ GivesUp(r) \/ Finishing(r)
    BY <1>2, <2>6 DEF SealsRun, AfterSeal, GivesUp, Finishing, Steps
  <2>7. CASE WritesManifest(r)
    <3>1. events[r] \in Seq(Frame) /\ <<events[r]>> \in Seq(Seq(Frame))
      BY <1>0 DEF TypeOK
    <3>2. manifest' = manifest \/ manifest' = [manifest EXCEPT ![r] = <<events[r]>>]
      BY <2>7 DEF WritesManifest
    <3>3. manifest' \in [Runs -> Seq(Seq(Frame))]
      BY <1>0, <3>1, <3>2
    <3>4. proc' = proc /\ bundle' = bundle /\ size' = size /\ \E step \in Steps : Go(r, step)
      BY <2>7 DEF WritesManifest, Steps
    <3>5. comp' \in [Runs -> Comp]
      BY <3>4, Goes DEF PlaneInv
    <3> QED
      BY <1>0, <3>3, <3>4, <3>5 DEF PlaneTypeOK
  <2>8. CASE WritesBundle(r)
    <3>1. file[r] \in Seq(Frame) /\ events[r] \in Seq(Frame)
      BY <1>0 DEF TypeOK
    <3>2. NewBundle(r) \in Bundle
      BY <3>1 DEF NewBundle, Result, Bundle, Verdict, Verdicts
    <3>3. bundle' = bundle \/ bundle' = [bundle EXCEPT ![r] = <<NewBundle(r)>>]
      BY <2>8 DEF WritesBundle
    <3>4. <<NewBundle(r)>> \in Seq(Bundle)
      BY <3>2
    <3> HIDE DEF NewBundle, Bundle
    <3>5. bundle' \in [Runs -> Seq(Bundle)]
      BY <1>0, <3>3, <3>4
    <3>6. proc' = proc /\ manifest' = manifest /\ \E step \in Steps : Go(r, step)
      BY <2>8 DEF WritesBundle, Steps
    <3>7. comp' \in [Runs -> Comp]
      BY <3>6, Goes DEF PlaneInv
    <3>8. size' \in [Runs -> {"fits", "over"}]
      BY <1>0, <2>8 DEF WritesBundle
    <3> QED
      BY <1>0, <3>5, <3>6, <3>7, <3>8 DEF PlaneTypeOK
  <2> QED
    BY <1>6, <2>1, <2>2, <2>3, <2>4, <2>5, <2>6, <2>7, <2>8, Zenon DEF Goroutine
<1>7. CASE Ends
  BY <1>0, <1>7 DEF Ends, DriverLost, published, PlaneTypeOK, Procs, Comp, Steps, NoComp
<1> QED
  BY <1>1, <1>4, <1>5, <1>6, <1>7, Zenon DEF PlaneNext, Client, Recovers, Starts, ShutsDown

LEMMA PlaneInit0 == PlaneInit => PlaneInv
<1> SUFFICES ASSUME PlaneInit PROVE PlaneInv
  OBVIOUS
<1>1. Init /\ StoreInv
  BY InitStore DEF PlaneInit
<1>2. /\ process = "down" /\ faults = 0 /\ lock = Unlocked
      /\ \A r \in Runs :
           /\ catalog[r] = Absent /\ saved[r] = Absent /\ file[r] = <<>> /\ events[r] = <<>>
           /\ marker[r] = NoMarker /\ sealed[r] = "no" /\ comp[r] = NoComp /\ proc[r] = "none"
           /\ manifest[r] = <<>> /\ bundle[r] = <<>>
  BY DEF PlaneInit, Init
<1>3. PlaneTypeOK
  <2>1. <<>> \in Seq(Seq(Frame)) /\ <<>> \in Seq(Bundle) /\ NoComp \in Comp
    BY EmptySeq DEF NoComp, Comp, Steps
  <2>2. TypeOK
    BY <1>1 DEF StoreInv
  <2> QED
    BY <2>1, <2>2 DEF PlaneInit, PlaneTypeOK, Procs
<1>4. RefusalsExplained
  BY <1>2 DEF RefusalsExplained
<1>5. ASSUME NEW r \in Runs PROVE RunInv(r)
  <2>1. /\ Absent.status = "none" /\ Absent.verdict.is = "none" /\ NoMarker.is = "absent"
        /\ NoComp.at = "none" /\ NoComp.evidence = "sound" /\ lock.at = "free"
        /\ Stopped /\ ~Alive
    BY <1>2 DEF Absent, NoVerdict, NoMarker, NoComp, Unlocked, Stopped, Alive
  <2>2. Len(<<>>) = 0 /\ ValidFrames(<<>>) /\ ~Finished(<<>>)
    BY NoFinishInEmpty
  <2>3. RecordInv(r) /\ GoroutineInv(r)
    BY <1>2, <1>5, <2>1 DEF RecordInv, GoroutineInv, Plausible, Over, Ending, At
  <2>4. LagInv(r) /\ MarkerInv(r) /\ BundleInv(r) /\ CleanInv(r)
    BY <1>2, <1>5, <2>1, <2>2 DEF LagInv, MarkerInv, BundleInv, CleanInv, Holds, At, Creating,
       Starting, Loading,
                                  Reporting, Published
  <2>5. FrameInv(r)
    BY <1>2, <1>5, <2>1, <2>2 DEF FrameInv, Endable, Ending, Reporting, Holds, At, Creating,
       Starting
  <2> QED
    BY <2>3, <2>4, <2>5 DEF RunInv
<1> QED
  BY <1>1, <1>3, <1>4, <1>5 DEF PlaneInv

LEMMA PlaneStep == PlaneInv /\ [PlaneNext]_planeVars => PlaneInv'
<1>1. ASSUME PlaneInv, PlaneNext PROVE PlaneInv'
  <2>1. StoreInv'
    BY <1>1, StoreKept
  <2> QED
    BY <1>1, <2>1, PlaneTypeStep, RefusalsKept, RunsKept DEF PlaneInv
<1>2. ASSUME PlaneInv, UNCHANGED planeVars PROVE PlaneInv'
  <2>0. UNCHANGED vars
    BY <1>2 DEF planeVars
  <2>1. StoreInv' /\ PlaneTypeOK'
    BY <1>2, <2>0, StoreStep DEF PlaneInv, PlaneTypeOK, planeVars, driver, published, StoreInv
  <2>2. RefusalsExplained'
    <3>1. UNCHANGED <<process, faults, dirs, saved, stamps, marker, size>>
      BY <1>2, <2>0 DEF vars, memory, storage, planeVars, published
    <3> QED
      BY <1>2, <3>1 DEF PlaneInv, RefusalsExplained, Refusable
  <2>3. ASSUME NEW r \in Runs PROVE RunInv(r)'
    <3>1. RunInv(r)
      BY <1>2 DEF PlaneInv
    <3>2. UNCHANGED <<process, lock, catalog, events, sealed, saved, file, marker, faults, proc, comp,
                      manifest, bundle>>
      BY <1>2, <2>0 DEF vars, memory, storage, logs, planeVars, driver, published
    <3>3. RecordInv(r)' /\ GoroutineInv(r)'
      BY ZenonT(30), <3>1, <3>2 DEF RunInv, RecordInv, GoroutineInv, Plausible, Ending, Over, At, Alive,
         Stopped
    <3>4. LagInv(r)' /\ MarkerInv(r)' /\ CleanInv(r)'
      BY <3>1, <3>2 DEF RunInv, LagInv, MarkerInv, CleanInv, Reporting, Holds, At, Stopped
    <3>5. FrameInv(r)'
      BY <3>1, <3>2 DEF RunInv, FrameInv, Endable, Ending, Reporting, Holds, At, Alive, Stopped
    <3>6. BundleInv(r)'
      BY <3>1, <3>2 DEF RunInv, BundleInv, Published, NewBundle, Result, At, Stopped
    <3> QED
      BY <3>3, <3>4, <3>5, <3>6 DEF RunInv
  <2> QED
    BY <2>1, <2>2, <2>3 DEF PlaneInv
<1> QED
  BY <1>1, <1>2

LEMMA PlaneInvariance == PlaneSpec => []PlaneInv
  BY PlaneInit0, PlaneStep, PTL DEF PlaneSpec

-----------------------------------------------------------------------------
(* What the control plane promises.                                          *)

\* The variables of the process stay within their types.
THEOREM PlaneTypes == PlaneSpec => []PlaneTypeOK
<1>1. PlaneInv => PlaneTypeOK
  BY DEF PlaneInv
<1> QED
  BY <1>1, PlaneInvariance, PTL

\* A reservation is on record before it is made, and a workload's goroutine before the run
\* is started: no crash leaves one behind that the next start does not know of.
THEOREM Reservations == PlaneSpec => []ReservationRecorded
<1>1. PlaneInv => ReservationRecorded
  BY DEF PlaneInv, RunInv, RecordInv, ReservationRecorded
<1> QED
  BY <1>1, PlaneInvariance, PTL

\* Nothing follows a run/finish in a log file, whatever is appended late, twice or by a
\* recovery, and a log with a seal marker, whole or not, has its run/finish.
THEOREM LastFinish == PlaneSpec => []FinishIsLast
<1>1. PlaneInv => FinishIsLast
  BY DEF PlaneInv, RunInv, FrameInv, MarkerInv, FinishIsLast
<1> QED
  BY <1>1, PlaneInvariance, PTL

\* While a verdict is on record as published, the disk has the bundle, the manifest, the
\* log and the seal that it is about.
THEOREM PublishedOnDisk == PlaneSpec => []PublishedBundleMatches
<1>1. PlaneInv => PublishedBundleMatches
  BY DEF PlaneInv, RunInv, BundleInv, Published, OnDisk, PublishedBundleMatches
<1> QED
  BY <1>1, PlaneInvariance, PTL

\* Without a failed write the process refuses a data directory only for a run whose
\* creation has not got as far as state.json, whose seal has not got past an empty
\* marker, whose times a clock set back has turned round, or whose published bundle is
\* larger than a start reads.
THEOREM Refusals == PlaneSpec => []RefusalsExplained
<1>1. PlaneInv => RefusalsExplained
  BY DEF PlaneInv
<1> QED
  BY <1>1, PlaneInvariance, PTL

-----------------------------------------------------------------------------
(* Every record written is a move of RunLifecycle.                           *)

\* What may become of the record of a run, by a move or none.
Becomes(e, f) ==
  \/ f.status = e.status /\ f.verdict.is = e.verdict.is
  \/ /\ f.verdict.is = e.verdict.is
     /\ \/ e.status = "none" /\ f.status = "created"
        \/ e.status = "created" /\ f.status = "running"
        \/ e.status = "running" /\ f.status \in {"stopping", "completed", "failed"}
        \/ e.status = "stopping" /\ f.status \in {"running", "stopped"}
  \/ e.status = "created" /\ f.status = "failed" /\ f.verdict.is = "verification_error"
  \/ /\ f.status = e.status
     /\ \/ e.status \in Terminal /\ e.verdict.is = "none" /\ f.verdict.is = "ineligible"
        \/ /\ e.status \in {"running", "stopping"} \cup Terminal
           /\ e.verdict.is \in {"none", "ineligible"} /\ f.verdict.is = "verification_error"
  \/ /\ e.status # "none" /\ e.verdict.is \notin {"ineligible", "interrupted"}
     /\ f.status = "failed" /\ f.verdict.is = "interrupted"

\* state.json of r is written with e, before or after a failure, or not.
Writes(r, e) == saved' = saved \/ saved' = [saved EXCEPT ![r] = e]

LEMMA Written ==
  ASSUME NEW r, NEW e, PersistOk(r, e) \/ PersistFails(r, e)
  PROVE  Writes(r, e)
  BY DEF PersistOk, PersistFails, State, Writes

LEMMA ClientWrites ==
  ASSUME PlaneInv, NEW r \in Runs, ClientStep(r)
  PROVE  \E e : Writes(r, e) /\ Becomes(saved[r], e)
<1>0. RunInv(r) /\ LockInv /\ TypeOK /\ catalog[r] \in Entry
  BY DEF PlaneInv, PlaneTypeOK, TypeOK, StoreInv
<1>1. CASE saved' = saved
  BY <1>1 DEF Writes, Becomes
<1>2. CASE CreatedPersisted(r) \/ CreatedUnpersisted(r)
  <2>1. Writes(r, catalog[r]) /\ lock.at = "persistCreated" /\ lock.run = r
    BY <1>2, Written DEF CreatedPersisted, CreatedUnpersisted, Held
  <2>2. Becomes(saved[r], catalog[r])
    BY <1>0, <2>1 DEF RunInv, LagInv, Holds, LockInv, Creating, Becomes
  <2> QED
    BY <2>1, <2>2
<1>3. CASE StartPersisted(r) \/ StartUnpersisted(r)
  <2>1. Writes(r, catalog[r]) /\ lock.at = "persistStarted" /\ lock.run = r
    BY <1>3, Written DEF StartPersisted, StartUnpersisted, Held
  <2>2. Becomes(saved[r], catalog[r])
    BY <1>0, <2>1 DEF RunInv, LagInv, RecordInv, Plausible, Holds, LockInv, Starting, Becomes
  <2> QED
    BY <2>1, <2>2
<1>4. CASE UndispatchedPersists(r)
  <2>1. Writes(r, catalog[r]) /\ lock.at = "persistUndispatched" /\ lock.run = r
    BY <1>4, Written DEF UndispatchedPersists, Held
  <2>2. Becomes(saved[r], catalog[r])
    BY <1>0, <2>1 DEF RunInv, LagInv, Holds, LockInv, Becomes
  <2> QED
    BY <2>1, <2>2
<1>5. ASSUME NEW keyed \in {"yes", "no"}, Stop(r, keyed)
      PROVE  \E e : Writes(r, e) /\ Becomes(saved[r], e)
  <2> DEFINE y == [catalog[r] EXCEPT !.status = "stopping"]
             e == Recorded(y, "stop", keyed, "ok")
  <2>1. y \in Entry /\ y.status = "stopping" /\ y.verdict = catalog[r].verdict
    BY <1>0 DEF Entry, Statuses, Terminal
  <2> HIDE DEF y
  <2>2. e.status = "stopping" /\ e.verdict = catalog[r].verdict
    BY <2>1, RecordedFacts DEF Requests, Answers
  <2> HIDE DEF e
  <2>3. /\ process = "up" /\ lock.at = "free" /\ latched = "no" /\ catalog[r].status = "running"
        /\ Writes(r, e)
    BY <1>5, Written DEF Stop, Serving, Free, e, y
  <2>4. catalog[r] = saved[r]
    BY <2>3, InStep DEF Stopped, Unsaved, Loading
  <2> QED
    BY <2>2, <2>3, <2>4 DEF Becomes
<1> QED
  BY <1>1, <1>2, <1>3, <1>4, <1>5
  DEF ClientStep, Create, CreateFails, memory, Start, StartFails, Replay, storage

LEMMA DriverWrites ==
  ASSUME PlaneInv, NEW r \in Runs, DriverAnswers(r)
  PROVE  \E e : Writes(r, e) /\ Becomes(saved[r], e)
<1>0. RunInv(r) /\ LockInv /\ TypeOK /\ catalog[r] \in Entry
  BY DEF PlaneInv, PlaneTypeOK, TypeOK, StoreInv
<1>1. CASE saved' = saved
  BY <1>1 DEF Writes, Becomes
<1>2. CASE Unprepared(r)
  <2> DEFINE y == [catalog[r] EXCEPT !.status = "failed", !.verdict = Flat("verification_error")]
             e == Recorded(y, "create", lock.keyed, "failure")
  <2>0. /\ Flat("verification_error") \in Verdict
        /\ Flat("verification_error").is = "verification_error"
    BY FlatIsVerdict DEF Verdicts, Flat
  <2>1. y \in Entry /\ y.status = "failed" /\ y.verdict = Flat("verification_error")
    BY <1>0, <2>0 DEF Entry, Statuses, Terminal
  <2> HIDE DEF y
  <2>2. e.status = "failed" /\ e.verdict.is = "verification_error"
    BY <2>0, <2>1, RecordedFacts DEF Requests, Answers
  <2> HIDE DEF e
  <2>3. lock.at = "prepare" /\ lock.run = r /\ Writes(r, e)
    BY <1>2, Written DEF Unprepared, Held, e, y
  <2>4. catalog[r] = saved[r] /\ catalog[r].status = "created"
    BY <1>0, <2>3, InStep DEF LockInv, Creating, Unsaved, Loading
  <2> QED
    BY <2>2, <2>3, <2>4 DEF Becomes
<1>3. CASE StopUndispatched(r)
  <2> DEFINE y == [catalog[r] EXCEPT !.status = "running"]
             e == Recorded(y, "stop", lock.keyed, "failure")
  <2>1. y \in Entry /\ y.status = "running" /\ y.verdict = catalog[r].verdict
    BY <1>0 DEF Entry, Statuses, Terminal
  <2> HIDE DEF y
  <2>2. e.status = "running" /\ e.verdict = catalog[r].verdict
    BY <2>1, RecordedFacts DEF Requests, Answers
  <2> HIDE DEF e
  <2>3. lock.at = "dispatchStop" /\ lock.run = r /\ Writes(r, e)
    BY <1>3, Written DEF StopUndispatched, Held, e, y
  <2>4. catalog[r] = saved[r] /\ catalog[r].status = "stopping"
    BY <1>0, <2>3, InStep DEF LockInv, Unsaved, Loading
  <2> QED
    BY <2>2, <2>3, <2>4 DEF Becomes
<1> QED
  BY <1>1, <1>2, <1>3 DEF DriverAnswers, Prepared, Dispatched, Undispatched, StopDispatched

\* Every verdict of a goroutine is about a run that has been started.
LEMMA VerdictWrites ==
  ASSUME PlaneInv, NEW r \in Runs, comp[r].at # "none", NEW verdict,
         SetEvidenceVerification(r, verdict) \/ SetEvidenceVerificationFails(r, verdict),
         verdict.is = "verification_error" \/ (verdict.is = "ineligible" /\ At(r, "publishing"))
  PROVE  \E e : Writes(r, e) /\ Becomes(saved[r], e)
<1> DEFINE e == [catalog[r] EXCEPT !.verdict = verdict]
<1>0. RunInv(r) /\ TypeOK /\ catalog[r] \in Entry
  BY DEF PlaneInv, PlaneTypeOK, TypeOK, StoreInv
<1>1. e.status = catalog[r].status /\ e.verdict = verdict
  BY <1>0 DEF Entry
<1> HIDE DEF e
<1>2. /\ Alive /\ lock.at = "free"
      /\ saved' = saved \/ (latched = "no" /\ Writes(r, e))
  BY Written DEF SetEvidenceVerification, SetEvidenceVerificationFails, Calling, Free, e
<1>3. CASE saved' = saved
  BY <1>3 DEF Writes, Becomes
<1>4. CASE latched = "no" /\ Writes(r, e)
  <2>1. catalog[r] = saved[r]
    BY <1>2, <1>4, InStep DEF Alive, Stopped, Unsaved, Loading
  <2>2. /\ saved[r].status \in {"running", "stopping"} \cup Terminal
        /\ saved[r].verdict.is \in {"none", "ineligible", "verification_error"}
    BY <1>0, <2>1 DEF RunInv, GoroutineInv, Entry, Statuses, Verdict, Verdicts
  <2>3. ASSUME At(r, "publishing")
        PROVE  saved[r].status \in Terminal /\ saved[r].verdict.is = "none"
    <3>1. /\ Reporting(r) /\ ~Over(r) /\ comp[r].at = "publishing"
          /\ comp[r].evidence \in {"sound", "lost"}
      BY <2>3 DEF At, Reporting, Over, PlaneInv, PlaneTypeOK, Comp
    <3> QED
      BY <1>0, <2>1, <3>1 DEF RunInv, GoroutineInv, FrameInv
  <2> QED
    BY <1>1, <1>4, <2>1, <2>2, <2>3 DEF Becomes
<1> QED
  BY <1>2, <1>3, <1>4

LEMMA GoroutineWrites ==
  ASSUME PlaneInv, NEW r \in Runs, Goroutine(r)
  PROVE  \E e : Writes(r, e) /\ Becomes(saved[r], e)
<1>0. RunInv(r) /\ LockInv /\ TypeOK
  BY DEF PlaneInv, PlaneTypeOK, TypeOK, StoreInv
<1>1. CASE saved' = saved
  BY <1>1 DEF Writes, Becomes
<1>2. ASSUME VerificationError(r), comp[r].at # "none"
      PROVE  \E e : Writes(r, e) /\ Becomes(saved[r], e)
  BY <1>2, VerdictWrites DEF VerificationError, Flat
<1>3. CASE PersistsCompletion(r)
  <2>1. Writes(r, catalog[r]) /\ lock.at = "persistCompletion" /\ lock.run = r
    BY <1>3, Written DEF PersistsCompletion, CompletionPersisted, CompletionUnpersisted, Held
  <2>2. Becomes(saved[r], catalog[r])
    BY <1>0, <2>1 DEF RunInv, LagInv, Holds, Becomes
  <2> QED
    BY <2>1, <2>2
<1>4. CASE Publishes(r)
  BY <1>4, VerdictWrites DEF Publishes, At, Result
<1>5. CASE RecordsLoss(r) \/ GivesUp(r)
  BY <1>2, <1>5 DEF RecordsLoss, GivesUp, At
<1>6. CASE Finishing(r)
  BY <1>1, <1>2, <1>6 DEF Finishing, At, vars, storage
<1>7. CASE \/ Waits(r) \/ Collects(r) \/ AppendsNormalized(r) \/ AppendedAll(r) \/ CompletesRun(r)
           \/ SealsRun(r) \/ Reports(r) \/ WritesManifest(r) \/ WritesBundle(r)
  BY <1>1, <1>7
  DEF Waits, Collects, AppendsNormalized, AppendEvent, AppendEventFails, AppendedAll,
      CompletesRun, Completes,
      CompleteFails, SealsRun, SealRun, SealRunFails, Reports, WritesManifest, WritesBundle, vars, storage
<1> QED
  BY <1>3, <1>4, <1>5, <1>6, <1>7 DEF Goroutine

LEMMA RecoveryWrites ==
  ASSUME PlaneInv, NEW r \in Runs, Recovery(r)
  PROVE  \E e : Writes(r, e) /\ Becomes(saved[r], e)
<1>0. RunInv(r) /\ LockInv /\ TypeOK
  BY DEF PlaneInv, PlaneTypeOK, TypeOK, StoreInv
<1>1. CASE saved' = saved
  BY <1>1 DEF Writes, Becomes
<1>2. ASSUME Held("recoverPersist", r), Writes(r, catalog[r])
      PROVE  \E e : Writes(r, e) /\ Becomes(saved[r], e)
  <2>1. /\ saved[r].status # "none" /\ saved[r].verdict.is # "ineligible"
        /\ catalog[r].verdict.is = "interrupted" /\ catalog[r].status = "failed"
        /\ saved[r].verdict.is = "interrupted" => saved[r].status = "failed"
    BY <1>0, <1>2 DEF Held, RunInv, LagInv, RecordInv, Plausible, Holds, Loading, LockInv
  <2>2. Becomes(saved[r], catalog[r])
    BY <2>1 DEF Becomes
  <2> QED
    BY <1>2, <2>2
<1>3. CASE RecoverPersists(r)
  BY <1>2, <1>3, Written DEF RecoverPersists
<1>4. CASE RecoveryFails(r)
  BY <1>1, <1>2, <1>4 DEF RecoveryFails, Writes, State
<1> QED
  BY <1>1, <1>3, <1>4 DEF Recovery, RecoverFinishes, RecoverSeals

LEMMA LifecycleMove ==
  ASSUME PlaneInv, NEW r \in Runs, NEW e, saved' = [saved EXCEPT ![r] = e], Becomes(saved[r], e)
  PROVE  [Lifecycle!Next]_(Lifecycle!vars)
<1> DEFINE status == [s \in Runs |-> saved[s].status]
           verdict == [s \in Runs |-> saved[s].verdict.is]
<1>1. saved \in [Runs -> Entry]
  BY DEF PlaneInv, PlaneTypeOK, TypeOK
<1>2. /\ [s \in Runs |-> saved'[s].status] = [status EXCEPT ![r] = e.status]
      /\ [s \in Runs |-> saved'[s].verdict.is] = [verdict EXCEPT ![r] = e.verdict.is]
  BY <1>1
<1>3. status[r] = saved[r].status /\ verdict[r] = saved[r].verdict.is
  OBVIOUS
<1>4. /\ e.status = saved[r].status => [status EXCEPT ![r] = e.status] = status
      /\ e.verdict.is = saved[r].verdict.is => [verdict EXCEPT ![r] = e.verdict.is] = verdict
  BY <1>3
<1> HIDE DEF status, verdict
<1>5. CASE e.status = saved[r].status /\ e.verdict.is = saved[r].verdict.is
  BY <1>2, <1>4, <1>5 DEF Lifecycle!vars, status, verdict
<1>6. CASE /\ e.verdict.is = saved[r].verdict.is
           /\ \/ saved[r].status = "none" /\ e.status = "created"
              \/ saved[r].status = "created" /\ e.status = "running"
              \/ saved[r].status = "running" /\ e.status \in {"stopping", "completed", "failed"}
              \/ saved[r].status = "stopping" /\ e.status \in {"running", "stopped"}
  <2>1. Lifecycle!Create(r) \/ Lifecycle!Start(r) \/ Lifecycle!Stop(r) \/ Lifecycle!StopRefused(r)
          \/ Lifecycle!Finish(r)
    BY <1>2, <1>3, <1>4, <1>6
    DEF Lifecycle!Create, Lifecycle!Start, Lifecycle!Stop, Lifecycle!StopRefused, Lifecycle!Finish,
        Lifecycle!Moves, status, verdict
  <2> QED
    BY <2>1 DEF Lifecycle!Next
<1>7. CASE saved[r].status = "created" /\ e.status = "failed" /\ e.verdict.is = "verification_error"
  BY <1>2, <1>3, <1>7 DEF Lifecycle!Next, Lifecycle!Unprepared, Lifecycle!Moves, status, verdict
<1>8. CASE /\ e.status = saved[r].status
           /\ saved[r].status \in Terminal /\ saved[r].verdict.is = "none"
           /\ e.verdict.is = "ineligible"
  BY <1>2, <1>3, <1>4, <1>8 DEF Lifecycle!Next, Lifecycle!Publish, Lifecycle!Terminal, Terminal,
     status, verdict
<1>9. CASE /\ e.status = saved[r].status
           /\ saved[r].status \in {"running", "stopping"} \cup Terminal
           /\ saved[r].verdict.is \in {"none", "ineligible"} /\ e.verdict.is = "verification_error"
  BY <1>2, <1>3, <1>4, <1>9 DEF Lifecycle!Next, Lifecycle!Fail, Lifecycle!Terminal, Terminal,
     status, verdict
<1>10. CASE /\ saved[r].status # "none" /\ saved[r].verdict.is \notin {"ineligible", "interrupted"}
            /\ e.status = "failed" /\ e.verdict.is = "interrupted"
  BY <1>2, <1>3, <1>10 DEF Lifecycle!Next, Lifecycle!Interrupt, status, verdict
<1> QED
  BY <1>5, <1>6, <1>7, <1>8, <1>9, <1>10 DEF Becomes

LEMMA LifecycleStep == PlaneInv /\ [PlaneNext]_planeVars => [Lifecycle!Next]_(Lifecycle!vars)
<1> SUFFICES ASSUME PlaneInv, [PlaneNext]_planeVars PROVE [Lifecycle!Next]_(Lifecycle!vars)
  OBVIOUS
<1>1. CASE saved' = saved
  BY <1>1 DEF Lifecycle!vars
<1>2. ASSUME NEW r \in Runs, \E e : Writes(r, e) /\ Becomes(saved[r], e)
      PROVE  [Lifecycle!Next]_(Lifecycle!vars)
  BY <1>1, <1>2, LifecycleMove DEF Writes
<1>3. ASSUME NEW r \in Runs, Client(r) \/ DriverCalled(r) \/ Recovers(r) \/ Goroutine(r)
      PROVE  \E e : Writes(r, e) /\ Becomes(saved[r], e)
  <2>1. DriverCalled(r) => DriverAnswers(r)
    BY DEF DriverCalled, DriverPrepare, DriverStart, DriverStop, DriverAnswers
  <2> QED
    BY <1>3, <2>1, ClientWrites, DriverWrites, GoroutineWrites, RecoveryWrites DEF Client, Recovers
<1>4. ASSUME NEW r \in Runs, WorkloadExits(r) \/ ShutdownStops(r) PROVE saved' = saved
  BY <1>4 DEF WorkloadExits, ShutdownStops, vars, storage
<1>5. CASE Starts \/ ShutsDown \/ Ends
  <2>1. saved' = saved
    BY <1>5 DEF Starts, OpenStore, OpenStoreRefuses, Serve, Reject, ShutsDown, Drain, Close, Ends,
       Exit, Crash, CrashInSeal, storage
  <2> QED
    BY <1>1, <2>1
<1>6. CASE UNCHANGED planeVars
  BY <1>1, <1>6 DEF planeVars, vars, storage
<1> QED
  BY <1>1, <1>2, <1>3, <1>4, <1>5, <1>6 DEF PlaneNext

\* The records of state.json follow RunLifecycle, through every crash, restart and
\* failed write: a stopping run never completes, nothing is published before the end,
\* and neither a restart nor a late goroutine revives a run or undoes a publication.
THEOREM RefinesLifecycle == PlaneSpec => ImplementsLifecycle
<1>1. PlaneInit => Lifecycle!Init
  BY DEF PlaneInit, Init, Absent, NoVerdict, Lifecycle!Init
<1> QED
  BY <1>1, LifecycleStep, PlaneInvariance, PTL DEF PlaneSpec, ImplementsLifecycle, Lifecycle!Spec

-----------------------------------------------------------------------------
(* What clients see follows RunFeed.                                         *)

\* The state of RunFeed, as ControlPlane has it.
ServerSeen == IF process = "up" THEN "up" ELSE IF Gone THEN "gone" ELSE "down"
StatusSeen == [r \in Runs |->
  IF Alive THEN catalog[r].status ELSE IF r \in dirs \/ Gone THEN "unseen" ELSE "none"]
FeedSeen == [r \in Runs |-> IF Alive THEN Seen(events[r]) ELSE IF Gone THEN <<>> ELSE Seen(file[r])]

\* What is under recovery has been created.
LoadedInv == process = "recovering" => \A r \in dirs : saved[r].status # "none"

LEMMA SeenLog ==
  ASSUME NEW log \in Seq(Frame)
  PROVE  /\ Seen(log) \in Seq(Feed!Item) /\ Len(Seen(log)) = Len(log)
         /\ Feed!Ended(Seen(log)) <=> log # <<>> /\ log[Len(log)].what \in Terminal
<1>1. Len(log) \in Nat /\ \A i \in 1 .. Len(log) : log[i] \in Frame
  BY LenProperties, ElementOfSeq
<1>2. \A i \in 1 .. Len(log) : [seq |-> log[i].seq, what |-> log[i].what] \in Feed!Item
  BY <1>1 DEF Frame, Feed!Item, Feed!Terminal, Terminal
<1>3. Seen(log) \in Seq(Feed!Item) /\ Len(Seen(log)) = Len(log)
  BY <1>1, <1>2, IsASeq DEF Seen
<1>4. log # <<>> => Len(log) \in 1 .. Len(log)
  BY <1>1, EmptySeq
<1>5. Seen(log) # <<>> <=> log # <<>>
  BY <1>1, <1>3, EmptySeq
<1>6. log # <<>> => Seen(log)[Len(Seen(log))].what = log[Len(log)].what
  BY <1>3, <1>4 DEF Seen
<1> QED
  BY <1>3, <1>5, <1>6 DEF Feed!Ended, Feed!Terminal, Terminal

\* A log that has one frame more, is seen to have one item more.
LEMMA SeenGrows ==
  ASSUME NEW log \in Seq(Frame), NEW longer \in Seq(Frame), Len(longer) = Len(log) + 1,
         \A i \in 1 .. Len(log) : longer[i] = log[i],
         longer[Len(longer)].seq = Len(log) + 1
  PROVE  Seen(longer) = Feed!Extended(Seen(log), longer[Len(longer)].what)
<1> DEFINE item == [seq |-> Len(log) + 1, what |-> longer[Len(longer)].what]
<1>1. Len(log) \in Nat /\ Len(longer) \in 1 .. Len(longer)
  BY LenProperties
<1>2. /\ Seen(log) \in Seq(Feed!Item) /\ Len(Seen(log)) = Len(log)
      /\ Seen(longer) \in Seq(Feed!Item) /\ Len(Seen(longer)) = Len(longer)
  BY SeenLog
<1>3. longer[Len(longer)] \in Frame
  BY <1>1, ElementOfSeq
<1>4. item \in Feed!Item
  BY <1>1, <1>3 DEF Frame, Feed!Item, Feed!Terminal, Terminal
<1>5. Seen(longer)[Len(longer)] = item /\ \A i \in 1 .. Len(log) : Seen(longer)[i] = Seen(log)[i]
  BY <1>1 DEF Seen
<1> HIDE DEF item
<1>6. /\ Append(Seen(log), item) \in Seq(Feed!Item) /\ Len(Append(Seen(log), item)) = Len(log) + 1
      /\ Append(Seen(log), item)[Len(log) + 1] = item
      /\ \A i \in 1 .. Len(log) : Append(Seen(log), item)[i] = Seen(log)[i]
  BY <1>2, <1>4, AppendProperties
<1>7. \A i \in 1 .. Len(log) + 1 : Append(Seen(log), item)[i] = Seen(longer)[i]
  BY <1>1, <1>5, <1>6
<1>8. Append(Seen(log), item) = Seen(longer)
  BY <1>2, <1>6, <1>7, SeqEqual
<1> QED
  BY <1>2, <1>8 DEF Feed!Extended, Feed!NextItem, item

LEMMA SeenAppended ==
  ASSUME NEW log \in Seq(Frame), NEW f \in Frame, f.seq = Len(log) + 1
  PROVE  Seen(Append(log, f)) = Feed!Extended(Seen(log), f.what)
<1>1. /\ Append(log, f) \in Seq(Frame) /\ Len(Append(log, f)) = Len(log) + 1
      /\ Append(log, f)[Len(log) + 1] = f
      /\ \A i \in 1 .. Len(log) : Append(log, f)[i] = log[i]
  BY AppendProperties
<1> QED
  BY <1>1, SeenGrows

-----------------------------------------------------------------------------
(* While the process is alive, the catalog and the acknowledged events move as the   *)
(* status and the log of RunFeed do.                                         *)

Keeps(r) == catalog'[r].status = catalog[r].status /\ events' = events
Turns(r, from, to) == catalog[r].status = from /\ catalog'[r].status = to
Adds(r, what) == events' = [events EXCEPT ![r] = Append(events[r], NewFrame(r, what))]

FeedMove(r) ==
  \/ Keeps(r)
  \/ /\ events' = events
     /\ \/ process = "up" /\ Turns(r, "none", "created")
        \/ Turns(r, "created", "failed") \/ Turns(r, "running", "stopping") \/ Turns(r, "stopping", "running")
  \/ Turns(r, "created", "running") /\ Adds(r, "start")
  \/ /\ catalog[r].status \in {"running", "stopping"} /\ catalog'[r].status = catalog[r].status
     /\ Len(events[r]) < MaxEvents /\ Adds(r, "event")
  \/ \E s \in Terminal : Turns(r, IF s = "stopped" THEN "stopping" ELSE "running", s) /\ Adds(r, s)

LEMMA NotAdded ==
  ASSUME NEW r, NEW what, AppendError(r, what) \/ UNCHANGED <<logs, dirs, faults>>
  PROVE  events' = events
  BY DEF AppendError, logs

LEMMA ClientFeeds ==
  ASSUME PlaneInv, NEW r \in Runs, ClientStep(r)
  PROVE  FeedMove(r)
<1>0. TypeOK /\ catalog[r] \in Entry /\ StoreInv
  BY DEF PlaneInv, PlaneTypeOK, TypeOK
<1>1. ASSUME NEW k \in Keys \cup {None}, Create(r, k) PROVE FeedMove(r)
  <2>1. catalog[r] = Absent
    BY <1>0, <1>1 DEF StoreInv, SavedInv, Create, NewRun
  <2>2. catalog'[r].status = "created" /\ process = "up" /\ events' = events
    BY <1>0, <1>1 DEF Create, Serving, TypeOK, Absent, logs
  <2> QED
    BY <2>1, <2>2 DEF FeedMove, Turns, Absent
<1>2. ASSUME NEW keyed \in {"yes", "no"}, Start(r, keyed) PROVE FeedMove(r)
  <2> DEFINE y == [catalog[r] EXCEPT !.status = "running"]
             e == Recorded(y, "start", keyed, "ok")
  <2>1. y \in Entry /\ y.status = "running"
    BY <1>0 DEF Entry, Statuses, Terminal
  <2> HIDE DEF y
  <2>2. e.status = "running"
    BY <2>1, RecordedFacts DEF Requests, Answers
  <2> HIDE DEF e
  <2>3. /\ catalog[r].status = "created" /\ catalog' = [catalog EXCEPT ![r] = e] /\ Adds(r, "start")
    BY <1>2 DEF Start, AppendOk, Adds, e, y
  <2> QED
    BY <1>0, <2>2, <2>3 DEF TypeOK, FeedMove, Turns
<1>3. ASSUME NEW keyed \in {"yes", "no"}, Stop(r, keyed) PROVE FeedMove(r)
  <2> DEFINE y == [catalog[r] EXCEPT !.status = "stopping"]
             e == Recorded(y, "stop", keyed, "ok")
  <2>1. y \in Entry /\ y.status = "stopping"
    BY <1>0 DEF Entry, Statuses, Terminal
  <2> HIDE DEF y
  <2>2. e.status = "stopping"
    BY <2>1, RecordedFacts DEF Requests, Answers
  <2> HIDE DEF e
  <2>3. catalog[r].status = "running" /\ catalog' = [catalog EXCEPT ![r] = e] /\ events' = events
    BY <1>3 DEF Stop, logs, e, y
  <2> QED
    BY <1>0, <2>2, <2>3 DEF TypeOK, FeedMove, Turns
<1>4. CASE \/ CreateFails(r) \/ CreatedPersisted(r) \/ CreatedUnpersisted(r) \/ StartPersisted(r)
           \/ StartUnpersisted(r) \/ UndispatchedPersists(r) \/ \E q \in Requests : Replay(q, r)
  <2>1. catalog' = catalog /\ events' = events
    BY <1>4 DEF CreateFails, CreatedPersisted, CreatedUnpersisted, StartPersisted, StartUnpersisted,
                UndispatchedPersists, Replay, memory, logs
  <2> QED
    BY <2>1 DEF FeedMove, Keeps
<1>5. CASE StartFails(r)
  BY <1>5, NotAdded DEF StartFails, FeedMove, Keeps
<1> QED
  BY <1>1, <1>2, <1>3, <1>4, <1>5 DEF ClientStep

LEMMA DriverFeeds ==
  ASSUME PlaneInv, NEW r \in Runs, DriverAnswers(r)
  PROVE  FeedMove(r)
<1>0. TypeOK /\ catalog[r] \in Entry /\ LockInv
  BY DEF PlaneInv, PlaneTypeOK, TypeOK, StoreInv
<1>1. CASE Prepared(r) \/ Dispatched(r) \/ StopDispatched(r)
  BY <1>1 DEF Prepared, Dispatched, StopDispatched, logs, FeedMove, Keeps
<1>2. CASE Unprepared(r)
  <2> DEFINE y == [catalog[r] EXCEPT !.status = "failed", !.verdict = Flat("verification_error")]
             e == Recorded(y, "create", lock.keyed, "failure")
  <2>1. y \in Entry /\ y.status = "failed"
    BY <1>0, FlatIsVerdict DEF Entry, Statuses, Terminal, Verdicts
  <2> HIDE DEF y
  <2>2. e.status = "failed"
    BY <2>1, RecordedFacts DEF Requests, Answers
  <2> HIDE DEF e
  <2>3. /\ lock.at = "prepare" /\ lock.run = r /\ catalog' = [catalog EXCEPT ![r] = e]
        /\ events' = events
    BY <1>2 DEF Unprepared, Held, logs, e, y
  <2> QED
    BY <1>0, <2>2, <2>3 DEF TypeOK, LockInv, Creating, FeedMove, Turns
<1>3. CASE StopUndispatched(r)
  <2> DEFINE y == [catalog[r] EXCEPT !.status = "running"]
             e == Recorded(y, "stop", lock.keyed, "failure")
  <2>1. y \in Entry /\ y.status = "running"
    BY <1>0 DEF Entry, Statuses, Terminal
  <2> HIDE DEF y
  <2>2. e.status = "running"
    BY <2>1, RecordedFacts DEF Requests, Answers
  <2> HIDE DEF e
  <2>3. /\ lock.at = "dispatchStop" /\ lock.run = r /\ catalog' = [catalog EXCEPT ![r] = e]
        /\ events' = events
    BY <1>3 DEF StopUndispatched, Held, logs, e, y
  <2> QED
    BY <1>0, <2>2, <2>3 DEF TypeOK, LockInv, FeedMove, Turns
<1>4. CASE Undispatched(r)
  <2> DEFINE y == [catalog[r] EXCEPT !.status = "failed"]
             e == Recorded(y, "start", lock.keyed, "failure")
  <2>1. y \in Entry /\ y.status = "failed"
    BY <1>0 DEF Entry, Statuses, Terminal
  <2> HIDE DEF y
  <2>2. e.status = "failed"
    BY <2>1, RecordedFacts DEF Requests, Answers
  <2> HIDE DEF e
  <2>3. /\ lock.at = "dispatchStart" /\ lock.run = r
        /\ \/ catalog' = [catalog EXCEPT ![r] = e] /\ Adds(r, "failed")
           \/ catalog' = catalog /\ events' = events
    BY <1>4, NotAdded DEF Undispatched, Held, AppendOk, Adds, e, y
  <2>4. catalog[r].status = "running"
    BY <1>0, <2>3 DEF LockInv, Starting
  <2> QED
    BY <1>0, <2>2, <2>3, <2>4 DEF TypeOK, FeedMove, Keeps, Turns, Terminal
<1> QED
  BY <1>1, <1>2, <1>3, <1>4 DEF DriverAnswers

LEMMA GoroutineFeeds ==
  ASSUME PlaneInv, NEW r \in Runs, Goroutine(r)
  PROVE  FeedMove(r)
<1>0. TypeOK /\ catalog \in [Runs -> Entry] /\ catalog[r] \in Entry /\ RunInv(r)
  BY DEF PlaneInv, PlaneTypeOK, TypeOK
<1>1. CASE AppendsNormalized(r)
  <2>1. CASE AppendEvent(r)
    <3>1. Ending(r)
      BY <1>1 DEF AppendsNormalized, At, Ending
    <3>2. catalog[r].status \in {"running", "stopping"}
      BY <1>0, <3>1 DEF RunInv, GoroutineInv
    <3> QED
      BY <2>1, <3>2 DEF AppendEvent, AppendOk, Adds, FeedMove
  <2>2. CASE AppendEventFails(r)
    BY <2>2, NotAdded DEF AppendEventFails, FeedMove, Keeps
  <2> QED
    BY <1>1, <2>1, <2>2 DEF AppendsNormalized
<1>2. CASE CompletesRun(r)
  <2> DEFINE fs == FinalStatus(r, comp[r].status)
  <2>1. CASE CompleteFails(r, comp[r].status)
    BY <2>1, NotAdded DEF CompleteFails, FeedMove, Keeps
  <2>2. CASE Completes(r, comp[r].status)
    <3>1. comp[r].status \in {"completed", "failed"}
      BY DEF PlaneInv, PlaneTypeOK, Comp
    <3>2. fs \in Terminal /\ catalog[r].status = IF fs = "stopped" THEN "stopping" ELSE "running"
      BY <2>2, <3>1 DEF Completes, Completable, FinalStatus, Terminal
    <3>3. catalog' = [catalog EXCEPT ![r] = [catalog[r] EXCEPT !.status = fs]] /\ Adds(r, fs)
      BY <2>2 DEF Completes, AppendOk, Adds
    <3> HIDE DEF fs
    <3>4. catalog'[r].status = fs
      BY <1>0, <3>3 DEF Entry
    <3> QED
      BY <3>2, <3>3, <3>4 DEF FeedMove, Turns
  <2> QED
    BY <1>2, <2>1, <2>2 DEF CompletesRun
<1>3. CASE RecordsLoss(r) \/ GivesUp(r) \/ Publishes(r) \/ Finishing(r)
  <2>1. ASSUME NEW v, SetEvidenceVerification(r, v) \/ SetEvidenceVerificationFails(r, v)
        PROVE  FeedMove(r)
    <3>1. catalog' = catalog \/ catalog' = [catalog EXCEPT ![r] = [catalog[r] EXCEPT !.verdict = v]]
      BY <2>1 DEF SetEvidenceVerification, SetEvidenceVerificationFails
    <3>2. catalog'[r].status = catalog[r].status
      BY <1>0, <3>1 DEF Entry
    <3>3. events' = events
      BY <2>1 DEF SetEvidenceVerification, SetEvidenceVerificationFails, logs
    <3> QED
      BY <3>2, <3>3 DEF FeedMove, Keeps
  <2>2. UNCHANGED vars => FeedMove(r)
    BY DEF vars, memory, FeedMove, Keeps
  <2> QED
    BY <1>3, <2>1, <2>2 DEF RecordsLoss, GivesUp, Publishes, Finishing, VerificationError
<1>4. CASE PersistsCompletion(r) \/ SealsRun(r)
  <2>1. catalog' = catalog /\ events' = events
    BY <1>4 DEF PersistsCompletion, CompletionPersisted, CompletionUnpersisted, SealsRun, SealRun,
       SealRunFails,
                SealOk, SealError, logs
  <2> QED
    BY <2>1 DEF FeedMove, Keeps
<1>5. CASE Waits(r) \/ Collects(r) \/ AppendedAll(r) \/ Reports(r) \/ WritesManifest(r) \/ WritesBundle(r)
  <2>1. catalog' = catalog /\ events' = events
    BY <1>5 DEF Waits, Collects, AppendedAll, Reports, WritesManifest, WritesBundle, vars, memory
  <2> QED
    BY <2>1 DEF FeedMove, Keeps
<1> QED
  BY <1>1, <1>2, <1>3, <1>4, <1>5, Zenon DEF Goroutine

-----------------------------------------------------------------------------
(* The actions of RunFeed, of what is seen.                                  *)

SeenMoves(r, from, to) == StatusSeen[r] = from /\ StatusSeen' = [StatusSeen EXCEPT ![r] = to]
SeenAdds(r, what) == FeedSeen' = [FeedSeen EXCEPT ![r] = Feed!Extended(FeedSeen[r], what)]

LEMMA FeedIs ==
  /\ Feed!vars = <<ServerSeen, StatusSeen, FeedSeen>>
  /\ Feed!vars' = <<ServerSeen', StatusSeen', FeedSeen'>>
  BY DEF Feed!vars, ServerSeen, StatusSeen, FeedSeen

LEMMA MoveIs ==
  ASSUME NEW r
  PROVE  /\ \A from, to : Feed!Moves(r, from, to) <=> SeenMoves(r, from, to)
         /\ \A what : Feed!Grows(r, what) <=> SeenAdds(r, what)
  BY DEF Feed!Moves, Feed!Grows, SeenMoves, SeenAdds, StatusSeen, FeedSeen

\* A step of the Store or of a goroutine in a process that is alive.
LEMMA FeedAction ==
  ASSUME NEW r \in Runs, ServerSeen' = ServerSeen,
         \/ /\ FeedSeen' = FeedSeen
            /\ \/ StatusSeen' = StatusSeen
               \/ ServerSeen = "up" /\ SeenMoves(r, "none", "created")
               \/ SeenMoves(r, "created", "failed") \/ SeenMoves(r, "running", "stopping")
               \/ SeenMoves(r, "stopping", "running")
         \/ SeenMoves(r, "created", "running") /\ SeenAdds(r, "start")
         \/ /\ StatusSeen[r] \in {"running", "stopping"} /\ StatusSeen' = StatusSeen
            /\ Len(FeedSeen[r]) < MaxEvents /\ SeenAdds(r, "event")
         \/ \E s \in Terminal : SeenMoves(r, IF s = "stopped" THEN "stopping" ELSE "running", s) /\ SeenAdds(r, s)
  PROVE  [Feed!Next]_(Feed!vars)
<1>1. CASE FeedSeen' = FeedSeen /\ StatusSeen' = StatusSeen
  BY <1>1, FeedIs
<1>2. CASE FeedSeen' = FeedSeen /\ ServerSeen = "up" /\ SeenMoves(r, "none", "created")
  <2>1. Feed!Create(r)
    BY <1>2, MoveIs DEF Feed!Create, ServerSeen, FeedSeen
  <2> QED
    BY <2>1 DEF Feed!Next
<1>3. CASE FeedSeen' = FeedSeen /\ SeenMoves(r, "created", "failed")
  <2>1. Feed!Unprepared(r)
    BY <1>3, MoveIs DEF Feed!Unprepared, ServerSeen, FeedSeen
  <2> QED
    BY <2>1 DEF Feed!Next
<1>4. CASE FeedSeen' = FeedSeen /\ (SeenMoves(r, "running", "stopping") \/ SeenMoves(r, "stopping", "running"))
  <2>1. Feed!Stop(r) \/ Feed!StopRefused(r)
    BY <1>4, MoveIs DEF Feed!Stop, Feed!StopRefused, ServerSeen, FeedSeen
  <2> QED
    BY <2>1 DEF Feed!Next
<1>5. CASE SeenMoves(r, "created", "running") /\ SeenAdds(r, "start")
  <2>1. Feed!Start(r)
    BY <1>5, MoveIs DEF Feed!Start, ServerSeen
  <2> QED
    BY <2>1 DEF Feed!Next
<1>6. CASE /\ StatusSeen[r] \in {"running", "stopping"} /\ StatusSeen' = StatusSeen
           /\ Len(FeedSeen[r]) < MaxEvents /\ SeenAdds(r, "event")
  <2>1. Feed!AppendEvent(r)
    BY <1>6, MoveIs DEF Feed!AppendEvent, ServerSeen, StatusSeen, FeedSeen
  <2> QED
    BY <2>1 DEF Feed!Next
<1>7. CASE \E s \in Terminal : SeenMoves(r, IF s = "stopped" THEN "stopping" ELSE "running", s) /\ SeenAdds(r, s)
  <2>1. Feed!Finish(r)
    BY <1>7, MoveIs DEF Feed!Finish, Feed!Terminal, Terminal, ServerSeen
  <2> QED
    BY <2>1 DEF Feed!Next
<1> QED
  BY <1>1, <1>2, <1>3, <1>4, <1>5, <1>6, <1>7

LEMMA AliveFeeds ==
  ASSUME PlaneInv, NEW r \in Runs, RunStep(r), Alive
  PROVE  [Feed!Next]_(Feed!vars)
<1>0. TypeOK /\ LockInv /\ events \in [Runs -> Seq(Frame)] /\ events[r] \in Seq(Frame)
  BY DEF PlaneInv, PlaneTypeOK, TypeOK, StoreInv
<1>1. /\ process' = process /\ Alive' /\ ~Stopped /\ ~Stopped'
      /\ \A s \in Runs \ {r} : catalog'[s] = catalog[s]
  BY RunStepKept DEF Local, SameRecords, Alive, Stopped
<1>2. FeedMove(r)
  <2>1. DriverCalled(r) => DriverAnswers(r)
    BY DEF DriverCalled, DriverPrepare, DriverStart, DriverStop, DriverAnswers
  <2>2. WorkloadExits(r) \/ ShutdownStops(r) => FeedMove(r)
    BY DEF WorkloadExits, ShutdownStops, vars, memory, FeedMove, Keeps
  <2>3. ~Recovered(r)
    BY <1>0 DEF Recovered, RecoverFinishes, RecoverSeals, RecoverPersists, Recovering, Held,
       LockInv, Loading, Alive
  <2> QED
    BY <2>1, <2>2, <2>3, ClientFeeds, DriverFeeds, GoroutineFeeds DEF RunStep, Client
<1>3. /\ StatusSeen = [s \in Runs |-> catalog[s].status]
      /\ StatusSeen' = [s \in Runs |-> catalog'[s].status]
      /\ FeedSeen = [s \in Runs |-> Seen(events[s])]
      /\ FeedSeen' = [s \in Runs |-> Seen(events'[s])]
      /\ ServerSeen = IF process = "up" THEN "up" ELSE "down"
      /\ ServerSeen' = ServerSeen
  BY <1>1 DEF StatusSeen, FeedSeen, ServerSeen, Gone, Seen
<1>4. catalog'[r].status = catalog[r].status => StatusSeen' = StatusSeen
  BY <1>1, <1>3
<1>5. \A from, to : Turns(r, from, to) => SeenMoves(r, from, to)
  BY <1>1, <1>3 DEF Turns, SeenMoves
<1>6. events' = events => FeedSeen' = FeedSeen
  BY <1>3
<1>7. ASSUME NEW what \in Whats, Adds(r, what)
      PROVE  SeenAdds(r, what)
  <2>1. /\ NewFrame(r, what) \in Frame /\ NewFrame(r, what).seq = Len(events[r]) + 1
        /\ NewFrame(r, what).what = what
    BY <1>0, NewFrameIsFrame DEF NewFrame
  <2>2. Seen(Append(events[r], NewFrame(r, what))) = Feed!Extended(Seen(events[r]), what)
    BY <1>0, <2>1, SeenAppended
  <2>3. /\ events'[r] = Append(events[r], NewFrame(r, what))
        /\ \A s \in Runs \ {r} : events'[s] = events[s]
    BY <1>0, <1>7 DEF Adds
  <2> HIDE DEF Seen
  <2> QED
    BY <1>3, <2>2, <2>3 DEF SeenAdds
<1>8. Len(FeedSeen[r]) = Len(events[r]) /\ StatusSeen[r] = catalog[r].status
  BY <1>0, <1>3, SeenLog
<1>9. process = "up" => ServerSeen = "up"
  BY <1>3
<1> HIDE DEF StatusSeen, FeedSeen, ServerSeen
<1>10. CASE Keeps(r)
  BY <1>3, <1>4, <1>6, <1>10, FeedAction DEF Keeps
<1>11. CASE /\ events' = events
            /\ \/ process = "up" /\ Turns(r, "none", "created")
               \/ Turns(r, "created", "failed") \/ Turns(r, "running", "stopping") \/ Turns(r, "stopping", "running")
  BY <1>3, <1>5, <1>6, <1>9, <1>11, FeedAction
<1>12. CASE Turns(r, "created", "running") /\ Adds(r, "start")
  BY <1>3, <1>5, <1>7, <1>12, FeedAction DEF Whats
<1>13. CASE /\ catalog[r].status \in {"running", "stopping"}
            /\ catalog'[r].status = catalog[r].status
            /\ Len(events[r]) < MaxEvents /\ Adds(r, "event")
  BY <1>3, <1>4, <1>7, <1>8, <1>13, FeedAction DEF Whats
<1>14. ASSUME NEW s \in Terminal, Turns(r, IF s = "stopped" THEN "stopping" ELSE "running", s),
              Adds(r, s)
       PROVE  [Feed!Next]_(Feed!vars)
  <2>1. SeenMoves(r, IF s = "stopped" THEN "stopping" ELSE "running", s) /\ SeenAdds(r, s)
    BY <1>5, <1>7, <1>14 DEF Whats
  <2> QED
    BY <1>3, <2>1, FeedAction
<1> QED
  BY <1>2, <1>10, <1>11, <1>12, <1>13, <1>14 DEF FeedMove

-----------------------------------------------------------------------------
(* Restarts, as clients see them.                                            *)

LEMMA LoadedStep == PlaneInv /\ LoadedInv /\ [PlaneNext]_planeVars => LoadedInv'
<1> SUFFICES ASSUME PlaneInv, LoadedInv, [PlaneNext]_planeVars, process' = "recovering",
                    NEW r \in dirs'
             PROVE  saved'[r].status # "none"
  BY DEF LoadedInv
<1>0. dirs \subseteq Runs /\ saved \in [Runs -> Entry]
  BY DEF PlaneInv, PlaneTypeOK, TypeOK
<1>1. ASSUME NEW s \in Runs, RunStep(s) PROVE saved'[r].status # "none"
  <2>1. process' = process /\ ~Alive
    BY <1>1, RunStepKept DEF Local, Alive
  <2>2. Recovered(s) /\ dirs' = dirs /\ saved[r].status # "none"
    BY <1>1, <2>1, RunStepIsAlive DEF LoadedInv
  <2>3. PICK e : Writes(s, e) /\ Becomes(saved[s], e)
    BY <1>1, <2>2, RecoveryWrites DEF Recovered, Recovery
  <2>4. saved[s].status # "none" => e.status # "none"
    BY <2>3 DEF Becomes, Terminal
  <2> QED
    BY <1>0, <2>2, <2>3, <2>4 DEF Writes
<1>2. ASSUME NEW s \in Runs, RecoveryFails(s) PROVE FALSE
  BY <1>2 DEF RecoveryFails, Refuse
<1>3. CASE Starts
  <2>1. OpenStore
    BY <1>3 DEF Starts, OpenStoreRefuses, Serve, Reject, Refuse
  <2> QED
    BY <2>1 DEF OpenStore, storage, Loadable
<1>4. CASE ShutsDown \/ Ends
  BY <1>4 DEF ShutsDown, Drain, Close, Ends, Exit, Crash, CrashInSeal
<1>5. CASE UNCHANGED planeVars
  BY <1>5 DEF planeVars, vars, memory, storage, LoadedInv
<1> QED
  BY <1>1, <1>2, <1>3, <1>4, <1>5, PlaneCases

\* The data directory cannot be opened any more.
LEMMA Ruined == ASSUME Gone' PROVE [Feed!Next]_(Feed!vars)
<1>1. /\ ServerSeen' = "gone" /\ StatusSeen' = [r \in Runs |-> "unseen"]
      /\ FeedSeen' = [r \in Runs |-> <<>>]
  BY DEF Gone, Stopped, Alive, ServerSeen, StatusSeen, FeedSeen
<1>2. Feed!Ruin
  BY <1>1 DEF Feed!Ruin, ServerSeen, StatusSeen, FeedSeen
<1> QED
  BY <1>2 DEF Feed!Next

\* While it does not serve, and may yet.
LEMMA DownSeen ==
  /\ ~Alive /\ ~Gone =>
       /\ ServerSeen = "down"
       /\ StatusSeen = [r \in Runs |-> IF r \in dirs THEN "unseen" ELSE "none"]
       /\ FeedSeen = [r \in Runs |-> Seen(file[r])]
  /\ ~Alive' /\ ~Gone' =>
       /\ ServerSeen' = "down"
       /\ StatusSeen' = [r \in Runs |-> IF r \in dirs' THEN "unseen" ELSE "none"]
       /\ FeedSeen' = [r \in Runs |-> Seen(file'[r])]
  BY DEF Alive, ServerSeen, StatusSeen, FeedSeen

LEMMA DownFeeds ==
  ASSUME ~Alive, ~Alive', Gone' => Gone, UNCHANGED <<dirs, file>>, Gone => Gone'
  PROVE  [Feed!Next]_(Feed!vars)
<1>1. CASE Gone
  BY <1>1, Ruined
<1>2. CASE ~Gone
  BY <1>2, DownSeen, FeedIs
<1> QED
  BY <1>1, <1>2

LEMMA EndingFeeds ==
  ASSUME PlaneInv, NEW r \in Runs, ~Alive, ~Stopped, ~Alive', ~Gone', dirs' = dirs, r \in dirs,
         ~Finished(file[r]), file[r] = events[r],
         file' = [file EXCEPT ![r] = Append(file[r], NewFrame(r, "failed"))]
  PROVE  [Feed!Next]_(Feed!vars)
<1>0. file \in [Runs -> Seq(Frame)] /\ file[r] \in Seq(Frame) /\ TypeOK
  BY DEF PlaneInv, PlaneTypeOK, TypeOK
<1>1. /\ NewFrame(r, "failed") \in Frame /\ NewFrame(r, "failed").seq = Len(file[r]) + 1
      /\ NewFrame(r, "failed").what = "failed"
  BY <1>0, NewFrameIsFrame DEF NewFrame, Whats, Terminal
<1>2. Seen(Append(file[r], NewFrame(r, "failed"))) = Feed!Extended(Seen(file[r]), "failed")
  BY <1>0, <1>1, SeenAppended
<1>3. ~Feed!Ended(Seen(file[r]))
  <2>1. file[r] # <<>> => Len(file[r]) \in 1 .. Len(file[r])
    BY <1>0, LenProperties, EmptySeq
  <2> QED
    BY <1>0, <2>1, SeenLog DEF Finished, Finishes
<1>4. ~Gone
  BY DEF Gone
<1>5. /\ ServerSeen = "down" /\ ServerSeen' = "down" /\ StatusSeen' = StatusSeen
      /\ StatusSeen[r] = "unseen"
      /\ FeedSeen[r] = Seen(file[r]) /\ SeenAdds(r, "failed")
  BY <1>0, <1>2, <1>4, DownSeen DEF SeenAdds
<1>6. Feed!Recover(r)
  BY <1>3, <1>5, MoveIs DEF Feed!Recover, ServerSeen, StatusSeen, FeedSeen
<1> QED
  BY <1>6 DEF Feed!Next

LEMMA RecoveryFeeds ==
  ASSUME PlaneInv, NEW r \in Runs, Recovery(r), ~Alive
  PROVE  [Feed!Next]_(Feed!vars)
<1>0. /\ RunInv(r) /\ TypeOK /\ LockInv /\ SavedInv /\ file \in [Runs -> Seq(Frame)]
  BY DEF PlaneInv, PlaneTypeOK, TypeOK, StoreInv
<1>1. process = "recovering" /\ ~Stopped /\ ~Gone
  BY <1>0
  DEF Recovery, RecoverFinishes, RecoverSeals, RecoverPersists, RecoveryFails, Recovering, Held,
      LockInv,
      Loading, Gone, Stopped
<1>2. file[r] = events[r] /\ (catalog[r].status # "none" => r \in dirs)
  BY <1>0, <1>1 DEF RunInv, FrameInv, SavedInv, Absent
<1>3. ~Alive' /\ dirs' = dirs
  BY <1>1
  DEF Recovery, RecoverFinishes, RecoverSeals, RecoverPersists, RecoveryFails, Refuse, AppendOk,
      SealOk, Alive
<1>4. CASE file' = file
  <2>1. CASE Gone'
    BY <2>1, Ruined
  <2>2. CASE ~Gone'
    BY <1>1, <1>3, <1>4, <2>2, DownFeeds
  <2> QED
    BY <2>1, <2>2
<1>5. CASE RecoverFinishes(r) /\ file' # file
  <2>1. /\ AppendOk(r, "failed") /\ ~Finished(events[r]) /\ process' = process
        /\ catalog[r].status # "none"
    BY <1>5 DEF RecoverFinishes, Interrupted, logs
  <2>2. file' = [file EXCEPT ![r] = Append(file[r], NewFrame(r, "failed"))] /\ ~Gone'
    BY <1>1, <2>1 DEF AppendOk, Gone, Stopped
  <2> QED
    BY <1>1, <1>2, <1>3, <2>1, <2>2, EndingFeeds
<1>6. CASE RecoveryFails(r) /\ file' # file
  <2>1. /\ ~Finished(events[r]) /\ catalog[r].status # "none"
        /\ \E left \in AppendLeaves(r) : file' = [file EXCEPT ![r] = left]
    BY <1>6 DEF RecoveryFails, Interrupted
  <2>2. file = [file EXCEPT ![r] = file[r]]
    BY <1>0
  <2>3. PICK form \in {"torn", "whole"} :
          file' = [file EXCEPT ![r] = Append(file[r], [NewFrame(r, "failed") EXCEPT !.form = form])]
    BY <1>6, <2>1, <2>2 DEF AppendLeaves
  <2>4. CASE form = "torn"
    <3>0. NewFrame(r, "failed") \in Frame /\ file[r] \in Seq(Frame)
      BY <1>0, NewFrameIsFrame DEF Whats, Terminal
    <3>1. /\ [NewFrame(r, "failed") EXCEPT !.form = "torn"] \in Frame
          /\ [NewFrame(r, "failed") EXCEPT !.form = "torn"].form = "torn"
      BY <3>0 DEF Frame
    <3> DEFINE f == [NewFrame(r, "failed") EXCEPT !.form = "torn"]
    <3> HIDE DEF f
    <3>2. /\ Len(Append(file[r], f)) = Len(file[r]) + 1 /\ Append(file[r], f)[Len(file[r]) + 1] = f
          /\ Len(file[r]) \in Nat /\ f.form = "torn"
      BY <3>0, <3>1, AppendProperties, LenProperties DEF f
    <3>3. file'[r] = Append(file[r], f)
      BY <1>0, <2>3, <2>4 DEF f
    <3>4. ~ValidFrames(file'[r])
      BY <3>2, <3>3 DEF ValidFrames
    <3>5. Gone'
      BY <1>2, <1>3, <1>6, <2>1, <3>4 DEF Gone, Loadable, RecoveryFails, Refuse, Stopped
    <3> QED
      BY <3>5, Ruined
  <2>5. CASE form = "whole"
    <3>1. [NewFrame(r, "failed") EXCEPT !.form = "whole"] = NewFrame(r, "failed")
      BY DEF NewFrame
    <3>2. file' = [file EXCEPT ![r] = Append(file[r], NewFrame(r, "failed"))]
      BY <2>3, <2>5, <3>1
    <3>3. CASE Gone'
      BY <3>3, Ruined
    <3> QED
      BY <1>1, <1>2, <1>3, <2>1, <3>2, <3>3, EndingFeeds
  <2> QED
    BY <2>4, <2>5
<1>7. RecoverSeals(r) \/ RecoverPersists(r) => file' = file
  BY DEF RecoverSeals, RecoverPersists, SealOk, logs
<1> QED
  BY <1>4, <1>5, <1>6, <1>7 DEF Recovery

\* The process ends: what failed appends have left comes to light.
LEMMA EndFeeds ==
  ASSUME PlaneInv, Ends
  PROVE  [Feed!Next]_(Feed!vars)
<1>0. /\ TypeOK /\ SavedInv /\ LogInv /\ \A r \in Runs : RunInv(r)
      /\ file \in [Runs -> Seq(Frame)] /\ events \in [Runs -> Seq(Frame)] /\ dirs \subseteq Runs
  BY DEF PlaneInv, PlaneTypeOK, TypeOK, StoreInv
<1>1. process' = "down" /\ UNCHANGED <<saved, file, dirs>> /\ ~Alive' /\ ~Stopped /\ ~Gone
  <2>1. CASE Exit \/ Crash
    BY <2>1 DEF Exit, Crash, storage, Alive, Stopped, Gone
  <2>2. ASSUME NEW r \in Runs, CrashInSeal(r)
        PROVE  process' = "down" /\ UNCHANGED <<saved, file, dirs>> /\ ~Alive' /\ ~Stopped /\ ~Gone
    <3>1. LockInv
      BY DEF PlaneInv, StoreInv
    <3>2. ~Stopped
      BY <2>2, <3>1 DEF CrashInSeal, Held, LockInv, Calling, Alive, Stopped
    <3> QED
      BY <2>2, <3>2 DEF CrashInSeal, Alive, Gone
  <2> QED
    BY <2>1, <2>2 DEF Ends
<1>2. CASE Gone'
  BY <1>2, Ruined
<1>3. CASE ~Gone' /\ ~Alive
  BY <1>1, <1>3, DownFeeds
<1>4. CASE ~Gone' /\ Alive
  <2>1. \A r \in dirs : saved[r].status # "none" /\ ValidFrames(file[r])
    BY <1>1, <1>4 DEF Gone, Loadable, Stopped
  <2>2. \A r \in Runs : r \in dirs <=> catalog[r].status # "none"
    BY <1>0, <1>1, <2>1 DEF SavedInv, Absent, RunInv, RecordInv
  <2>3. \A r \in Runs : ValidFrames(file[r]) /\ (r \notin dirs => file[r] = <<>>)
    BY <1>0, <2>1, NoFinishInEmpty DEF SavedInv
  <2> DEFINE left == [r \in Runs |->
        IF file[r] = events[r] THEN "nothing" ELSE file[r][Len(file[r])].what]
  <2>4. ASSUME NEW r \in Runs, file[r] # events[r]
        PROVE  /\ file[r][Len(file[r])].what \in Leftover(catalog[r].status)
               /\ Seen(file[r]) = Feed!Extended(Seen(events[r]), file[r][Len(file[r])].what)
    <3>1. file[r][Len(file[r])].what \in Leftover(catalog[r].status)
      BY <1>0, <1>4, <2>3, <2>4 DEF RunInv, FrameInv
    <3>2. file[r] \in Seq(Frame) /\ events[r] \in Seq(Frame) /\ Len(events[r]) \in Nat
      BY <1>0, LenProperties
    <3>3. /\ Len(file[r]) = Len(events[r]) + 1
          /\ \A i \in 1 .. Len(events[r]) : file[r][i] = events[r][i]
      BY <1>0, <1>1, <2>3, <2>4 DEF LogInv, RunLogInv, Continues
    <3>4. file[r][Len(file[r])].seq = Len(events[r]) + 1
      BY <2>3, <3>2, <3>3 DEF ValidFrames
    <3> QED
      BY <3>1, <3>2, <3>3, <3>4, SeenGrows
  <2>5. /\ ServerSeen # "gone" /\ ServerSeen' = "down"
        /\ StatusSeen = [r \in Runs |-> catalog[r].status]
        /\ StatusSeen' = [r \in Runs |-> IF r \in dirs THEN "unseen" ELSE "none"]
        /\ FeedSeen = [r \in Runs |-> Seen(events[r])] /\ FeedSeen' = [r \in Runs |-> Seen(file[r])]
    BY <1>1, <1>4 DEF ServerSeen, StatusSeen, FeedSeen, Seen
  <2>6. StatusSeen' = [r \in Runs |-> IF StatusSeen[r] = "none" THEN "none" ELSE "unseen"]
    BY <2>2, <2>5
  <2>7. \A r \in Runs : left[r] = "nothing" \/ (file[r] # events[r] /\ left[r] \in Leftover(StatusSeen[r]))
    BY <2>4, <2>5
  <2>8. \A r \in Runs : left[r] \in {"nothing", "start", "event"} \cup Terminal
    BY <2>7 DEF Leftover, Terminal
  <2>9. \A r \in Runs : file[r] # events[r] => left[r] # "nothing"
    <3>1. ASSUME NEW r \in Runs, file[r] # events[r] PROVE left[r] # "nothing"
      <4>1. left[r] \in Leftover(catalog[r].status)
        BY <2>4, <3>1
      <4> QED
        BY <4>1 DEF Leftover, Terminal
    <3> QED
      BY <3>1
  <2>10. FeedSeen' = [r \in Runs |->
           IF left[r] = "nothing" THEN FeedSeen[r] ELSE Feed!Extended(FeedSeen[r], left[r])]
    <3>1. ASSUME NEW r \in Runs
          PROVE  Seen(file[r]) =
                   IF left[r] = "nothing" THEN Seen(events[r]) ELSE Feed!Extended(Seen(events[r]), left[r])
      BY <2>4, <2>9
    <3> QED
      BY <2>5, <3>1
  <2>11. \A r \in Runs : left[r] \in Feed!Left(r) \cup {"nothing"}
    <3>1. \A r \in Runs : Feed!Left(r) = Leftover(StatusSeen[r])
      BY DEF Feed!Left, Leftover, StatusSeen, Feed!Terminal, Terminal
    <3> QED
      BY <2>7, <3>1
  <2>12. left \in [Runs -> {"nothing", "start", "event"} \cup Feed!Terminal]
    BY <2>8 DEF Feed!Terminal, Terminal
  <2> HIDE DEF left
  <2>13. Feed!Exit
    BY <2>5, <2>6, <2>10, <2>11, <2>12 DEF Feed!Exit, ServerSeen, StatusSeen, FeedSeen
  <2> QED
    BY <2>13 DEF Feed!Next
<1> QED
  BY <1>2, <1>3, <1>4

\* The process serves again what it has loaded and ended.
LEMMA ServeFeeds ==
  ASSUME PlaneInv, LoadedInv, Serve
  PROVE  [Feed!Next]_(Feed!vars)
<1>0. /\ TypeOK /\ SavedInv /\ \A r \in Runs : RunInv(r)
      /\ file \in [Runs -> Seq(Frame)] /\ dirs \subseteq Runs
  BY DEF PlaneInv, PlaneTypeOK, TypeOK, StoreInv
<1>1. /\ process = "recovering" /\ process' = "up" /\ \A r \in Runs : ~Interrupted(r)
      /\ UNCHANGED <<catalog, events, file, dirs>> /\ ~Alive /\ Alive' /\ ~Stopped /\ ~Gone
  BY DEF Serve, Recovering, storage, Alive, Stopped, Gone
<1>2. ASSUME NEW r \in dirs
      PROVE  catalog[r].status \in Terminal /\ Feed!Ended(Seen(file[r]))
  <2>1. catalog[r].status # "none"
    BY <1>0, <1>1 DEF LoadedInv, RunInv, RecordInv
  <2>2. catalog[r].status \in Terminal /\ sealed[r] = "yes"
    BY <1>0, <1>1, <2>1 DEF Interrupted
  <2>3. Finished(file[r])
    <3>1. r \in Runs /\ sealed[r] = "yes" /\ MarkerInv(r) /\ ~Stopped
      BY <1>0, <1>1, <2>2 DEF RunInv
    <3>2. marker[r].is # "absent"
      BY <3>1 DEF MarkerInv
    <3> QED
      BY <3>1, <3>2 DEF MarkerInv
  <2>4. file[r] # <<>> /\ file[r][Len(file[r])].what \in Terminal
    BY <1>0, <2>3, EmptySeq DEF RunInv, FrameInv, Finished, Finishes
  <2> QED
    BY <1>0, <2>2, <2>4, SeenLog
<1>3. \A r \in Runs : r \notin dirs => catalog[r].status = "none"
  BY <1>0 DEF SavedInv, Absent
<1>4. /\ ServerSeen = "down" /\ ServerSeen' = "up"
      /\ StatusSeen = [r \in Runs |-> IF r \in dirs THEN "unseen" ELSE "none"]
      /\ StatusSeen' = [r \in Runs |-> catalog[r].status]
      /\ FeedSeen = [r \in Runs |-> Seen(file[r])] /\ FeedSeen' = [r \in Runs |-> Seen(events[r])]
  BY <1>1, DownSeen DEF ServerSeen, StatusSeen, FeedSeen, Seen
<1>5. \A r \in Runs : file[r] = events[r]
  BY <1>0, <1>1 DEF RunInv, FrameInv
<1>6. FeedSeen' = FeedSeen
  BY <1>4, <1>5
<1> DEFINE s == [r \in Runs |-> IF r \in dirs THEN catalog[r].status ELSE "failed"]
<1>7. s \in [Runs -> Feed!Terminal]
  BY <1>2 DEF Feed!Terminal, Terminal
<1>8. StatusSeen' = [r \in Runs |-> IF StatusSeen[r] = "none" THEN "none" ELSE s[r]]
  BY <1>3, <1>4
<1>9. /\ \A r \in Runs : StatusSeen[r] \in {"none", "unseen"}
      /\ \A r \in Runs : StatusSeen[r] = "unseen" => Feed!Ended(FeedSeen[r])
  BY <1>2, <1>4
<1> HIDE DEF s
<1>10. Feed!Serve
  BY <1>4, <1>6, <1>7, <1>8, <1>9 DEF Feed!Serve, ServerSeen, StatusSeen, FeedSeen
<1> QED
  BY <1>10 DEF Feed!Next

LEMMA StartsFeeds ==
  ASSUME PlaneInv, LoadedInv, Starts
  PROVE  [Feed!Next]_(Feed!vars)
<1>1. CASE OpenStore
  <2>1. ~Alive /\ ~Alive' /\ ~Gone /\ ~Gone' /\ UNCHANGED <<dirs, file>>
    BY <1>1 DEF OpenStore, storage, Alive, Stopped, Gone
  <2> QED
    BY <2>1, DownFeeds
<1>2. CASE OpenStoreRefuses
  <2>1. ~Alive /\ ~Alive' /\ (Gone' <=> Gone) /\ UNCHANGED <<dirs, file>>
    BY <1>2 DEF OpenStoreRefuses, logs, Alive, Stopped, Gone, Loadable
  <2> QED
    BY <2>1, DownFeeds
<1>3. CASE Serve
  BY <1>3, ServeFeeds
<1>4. CASE Reject
  <2>1. ~Alive /\ ~Alive' /\ ~Gone /\ UNCHANGED <<dirs, file>>
    BY <1>4 DEF Reject, Recovering, Refuse, storage, Alive, Stopped, Gone
  <2>2. CASE Gone'
    BY <2>2, Ruined
  <2>3. CASE ~Gone'
    BY <2>1, <2>3, DownFeeds
  <2> QED
    BY <2>2, <2>3
<1> QED
  BY <1>1, <1>2, <1>3, <1>4 DEF Starts

LEMMA ShutdownFeeds ==
  ASSUME PlaneInv, ShutsDown
  PROVE  [Feed!Next]_(Feed!vars)
<1>1. UNCHANGED <<catalog, events>> /\ Alive /\ Alive' /\ ~Stopped /\ ~Stopped'
  BY DEF ShutsDown, Drain, Close, Alive, Stopped
<1>2. StatusSeen' = StatusSeen /\ FeedSeen' = FeedSeen
  BY <1>1 DEF StatusSeen, FeedSeen, Seen
<1>3. CASE Drain
  <2>1. ServerSeen = "up" /\ ServerSeen' = "down"
    BY <1>1, <1>3 DEF Drain, ServerSeen, Gone
  <2>2. Feed!StopServing
    BY <1>2, <2>1 DEF Feed!StopServing, ServerSeen, StatusSeen, FeedSeen
  <2> QED
    BY <2>2 DEF Feed!Next
<1>4. CASE Close
  <2>1. ServerSeen' = ServerSeen
    BY <1>1, <1>4 DEF Close, ServerSeen, Gone
  <2> QED
    BY <1>2, <2>1, FeedIs
<1> QED
  BY <1>3, <1>4 DEF ShutsDown

LEMMA FeedStep == PlaneInv /\ LoadedInv /\ [PlaneNext]_planeVars => [Feed!Next]_(Feed!vars)
<1> SUFFICES ASSUME PlaneInv, LoadedInv, [PlaneNext]_planeVars PROVE [Feed!Next]_(Feed!vars)
  OBVIOUS
<1>1. ASSUME NEW r \in Runs, RunStep(r) PROVE [Feed!Next]_(Feed!vars)
  BY <1>1, AliveFeeds, RunStepIsAlive, RecoveryFeeds DEF Recovered, Recovery
<1>2. ASSUME NEW r \in Runs, RecoveryFails(r) PROVE [Feed!Next]_(Feed!vars)
  BY <1>2, RecoveryFeeds DEF Recovery, RecoveryFails, Alive
<1>3. CASE UNCHANGED planeVars
  <2>1. UNCHANGED <<process, catalog, events, dirs, saved, stamps, file, marker>>
    BY <1>3 DEF planeVars, vars, memory, storage, logs
  <2>2. (Gone' <=> Gone) /\ (Alive' <=> Alive)
    BY <2>1 DEF Gone, Loadable, Stopped, Alive
  <2>3. ServerSeen' = ServerSeen /\ StatusSeen' = StatusSeen /\ FeedSeen' = FeedSeen
    BY <2>1, <2>2 DEF ServerSeen, StatusSeen, FeedSeen, Seen
  <2> QED
    BY <2>3, FeedIs
<1> QED
  BY <1>1, <1>2, <1>3, StartsFeeds, ShutdownFeeds, EndFeeds, PlaneCases

\* What clients see follows RunFeed, over every crash, failed write and restart: logs only
\* grow, the last event comes with the final status, and a run that was under way when
\* the process died is found ended when it serves again.
THEOREM RefinesFeed == PlaneSpec => ImplementsFeed
<1>1. PlaneInit => Feed!Init
  <2> SUFFICES ASSUME PlaneInit PROVE Feed!Init
    OBVIOUS
  <2>1. process = "down" /\ dirs = {} /\ \A r \in Runs : file[r] = <<>>
    BY DEF PlaneInit, Init
  <2>2. ~Alive /\ ~Gone
    BY <2>1 DEF Alive, Gone
  <2>3. Seen(<<>>) = <<>>
    BY SeenLog, EmptySeq
  <2>4. /\ ServerSeen = "down" /\ StatusSeen = [r \in Runs |-> "none"]
        /\ FeedSeen = [r \in Runs |-> <<>>]
    BY <2>1, <2>2, <2>3, DownSeen
  <2> QED
    BY <2>4 DEF Feed!Init, ServerSeen, StatusSeen, FeedSeen
<1>2. PlaneInit => LoadedInv
  BY DEF PlaneInit, Init, LoadedInv
<1>3. PlaneSpec => []LoadedInv
  BY <1>2, LoadedStep, PlaneInvariance, PTL DEF PlaneSpec
<1> QED
  BY <1>1, <1>3, FeedStep, PlaneInvariance, PTL DEF PlaneSpec, ImplementsFeed, Feed!Spec
=============================================================================
