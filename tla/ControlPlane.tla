---------------------------- MODULE ControlPlane ----------------------------
(***************************************************************************)
(* The control plane process: the Store with its execution drivers.        *)
(*                                                                         *)
(* A driver (internal/controlplane/compat_driver.go, gvisor_driver.go)     *)
(* holds a backend reservation per prepared run, and per started run a     *)
(* goroutine that waits for the workload to end, finishes the run in the   *)
(* Store, seals its log, publishes the signed evidence bundle beside it    *)
(* (manifest.go) and records the verdict.  The goroutines run concurrently *)
(* with clients, with each other and with a shutdown; each of their steps  *)
(* below is one call of the Store or one file written.  At startup the     *)
(* process recovers the catalog and checks every published bundle.         *)
(***************************************************************************)
EXTENDS ControlStore

CONSTANT GvisorRuns   \* the runs whose spec.backend is gvisor-container; the others are compat

ASSUME GvisorAssumption == GvisorRuns \subseteq Runs

VARIABLES
  proc,      \* the backend's reservation and workload of each run
  comp,      \* where the run's completion goroutine is, and what it has found
  manifest,  \* evidence-manifest.json: <<>>, or one element, the log it signs
  bundle,    \* evidence-bundle.json: <<>>, or one element [log, head, verdict]
  size       \* of that file: "fits" the limit of a start, 64 MiB, or is "over" it

driver == <<proc, comp>>
published == <<manifest, bundle, size>>
planeVars == <<vars, driver, published>>

Compat(r) == r \notin GvisorRuns

Procs == {"none", "prepared", "running", "killed", "exited"}
Steps == {"none", "waiting", "collecting", "appending", "recording", "completing",
          "persisting", "sealing", "reporting", "writingManifest", "writingBundle",
          "publishing", "giving up", "finishing", "done"}
Comp == [at : Steps, status : {"completed", "failed"}, evidence : {"sound", "lost"}]
Bundle == [log : Seq(Frame), head : Seq(Frame), verdict : Verdict]

NoComp == [at |-> "none", status |-> "completed", evidence |-> "sound"]

PlaneTypeOK ==
  /\ TypeOK
  /\ proc \in [Runs -> Procs]
  /\ comp \in [Runs -> Comp]
  /\ manifest \in [Runs -> Seq(Seq(Frame))]
  /\ bundle \in [Runs -> Seq(Bundle)]
  /\ size \in [Runs -> {"fits", "over"}]

At(r, step) == comp[r].at = step
Go(r, step) == comp' = [comp EXCEPT ![r].at = step]

-----------------------------------------------------------------------------
(* The driver, called by the Store while it holds its lock *)

DriverPrepare(r) ==
  \/ Prepared(r) /\ proc' = [proc EXCEPT ![r] = "prepared"] /\ UNCHANGED <<comp, published>>
  \/ Unprepared(r) /\ UNCHANGED <<driver, published>>

\* A failed start leaves a compat reservation as it was, or a workload that was
\* killed and that no goroutine waits for; gvisor destroys its reservation.
DriverStart(r) ==
  \/ /\ Dispatched(r)
     /\ proc[r] = "prepared"
     /\ proc' = [proc EXCEPT ![r] = "running"]
     /\ Go(r, "waiting")
     /\ UNCHANGED published
  \/ /\ Undispatched(r)
     /\ \E p \in IF Compat(r) THEN {proc[r], "killed"} ELSE {"none"} :
          proc' = [proc EXCEPT ![r] = p]
     /\ UNCHANGED <<comp, published>>

\* Stopping kills the workload, if it has not ended; it fails when the request
\* was canceled or the reservation is gone.
DriverStop(r) ==
  \/ /\ StopDispatched(r)
     /\ proc[r] # "none"
     /\ proc' = [proc EXCEPT ![r] =
          CASE @ = "running" -> "killed" [] @ = "prepared" -> "exited" [] OTHER -> @]
     /\ UNCHANGED <<comp, published>>
  \/ StopUndispatched(r) /\ UNCHANGED <<driver, published>>

\* The workload ends, by itself or killed.
WorkloadExits(r) ==
  /\ proc[r] \in {"running", "killed"}
  /\ At(r, "waiting")
  /\ proc' = [proc EXCEPT ![r] = "exited"]
  /\ UNCHANGED <<vars, comp, published>>

\* Shutdown, once requests are no longer accepted: what runs is stopped, what is
\* only prepared is destroyed.
ShutdownStops(r) ==
  /\ process = "draining"
  /\ \/ proc[r] = "running" /\ proc' = [proc EXCEPT ![r] = "killed"]
     \/ proc[r] = "prepared" /\ proc' = [proc EXCEPT ![r] = "none"]
  /\ UNCHANGED <<vars, comp, published>>

-----------------------------------------------------------------------------
(* The completion goroutine: complete of either driver *)

\* The compat driver collects evidence and appends the normalized events before
\* it finishes the run; gvisor finishes the run first.
Waits(r) ==
  /\ At(r, "waiting") /\ Alive
  /\ proc[r] = "exited"
  /\ \E status \in {"completed", "failed"} :
       comp' = [comp EXCEPT ![r] = [@ EXCEPT !.at = IF Compat(r) THEN "collecting" ELSE "completing",
                                             !.status = status]]
  /\ UNCHANGED <<vars, proc, published>>

\* FinalizeEvidence, RawRecords and, for compat, NormalizeCompat.
Collects(r) ==
  /\ At(r, "collecting") /\ Alive
  /\ \/ Go(r, IF Compat(r) THEN "appending" ELSE "reporting")
     \/ ~Compat(r) /\ Go(r, "giving up")
     \/ Compat(r) /\ Go(r, "recording")
  /\ UNCHANGED <<vars, proc, published>>

AppendsNormalized(r) ==
  /\ At(r, "appending")
  /\ \/ AppendEvent(r) /\ UNCHANGED comp
     \/ AppendEventFails(r) /\ Go(r, "recording")
  /\ UNCHANGED <<proc, published>>

\* The events are all appended, and the coverage bound to them or not.
AppendedAll(r) ==
  /\ At(r, "appending") /\ Alive
  /\ Go(r, "completing") \/ Go(r, "recording")
  /\ UNCHANGED <<vars, proc, published>>

VerificationError(r) ==
  \/ SetEvidenceVerification(r, Flat("verification_error"))
  \/ SetEvidenceVerificationFails(r, Flat("verification_error"))

\* record(verification_error) before the run is finished as failed.
RecordsLoss(r) ==
  /\ At(r, "recording")
  /\ VerificationError(r)
  /\ comp' = [comp EXCEPT ![r] = [at |-> "completing", status |-> "failed", evidence |-> "lost"]]
  /\ UNCHANGED <<proc, published>>

\* completeRun, its first half.
CompletesRun(r) ==
  /\ At(r, "completing")
  /\ \/ Completes(r, comp[r].status) /\ Go(r, "persisting")
     \/ CompleteFails(r, comp[r].status) /\ Go(r, "giving up")
  /\ UNCHANGED <<proc, published>>

PersistsCompletion(r) ==
  /\ At(r, "persisting")
  /\ \/ CompletionPersisted(r) /\ Go(r, "sealing")
     \/ CompletionUnpersisted(r) /\ Go(r, "giving up")
  /\ UNCHANGED <<proc, published>>

AfterSeal(r) ==
  IF comp[r].evidence = "lost" THEN "finishing"
  ELSE IF Compat(r) THEN "reporting" ELSE "collecting"

\* A bug that would publish a run that has not been sealed.
SealsOrNot(r) ==
  /\ At(r, "sealing")
  /\ SealRun(r) \/ SealRunFails(r)
  /\ Go(r, AfterSeal(r))
  /\ UNCHANGED <<proc, published>>

SealsRun(r) ==
  /\ At(r, "sealing")
  /\ \/ SealRun(r) /\ Go(r, AfterSeal(r))
     \/ SealRunFails(r) /\ Go(r, "giving up")
  /\ UNCHANGED <<proc, published>>

\* A bug that would publish the verdict before its bundle is written.
ReportsAndPublishes(r) ==
  /\ At(r, "reporting") /\ Alive /\ Free
  /\ Go(r, "publishing") \/ Go(r, "giving up")
  /\ UNCHANGED <<vars, proc, published>>

\* computeVerification and ineligibleReport: over the acknowledged events.
Reports(r) ==
  /\ At(r, "reporting") /\ Alive /\ Free
  /\ Go(r, "writingManifest") \/ Go(r, "giving up")
  /\ UNCHANGED <<vars, proc, published>>

Result(r) == [is |-> "ineligible", over |-> events[r]]

\* bundle.Validate, of the trajectory: whole frames with the signed chain head,
\* at most one run/start, exactly one run/finish and that one last; of gvisor with
\* a run/start and no normalized event.
BundleValid(r, b) ==
  LET places(what) == {i \in 1 .. Len(b.log) : b.log[i].what = what}
  IN /\ ValidFrames(b.log)
     /\ b.log = b.head
     /\ b.verdict = [is |-> "ineligible", over |-> b.head]
     /\ Finished(b.log)
     /\ \A i \in 1 .. Len(b.log) : Finishes(b.log[i]) => i = Len(b.log)
     /\ Cardinality(places("start")) <= 1
     /\ ~Compat(r) => places("start") # {} /\ places("event") = {}

\* What publishEvidenceBundle puts together: the exported log file and the chain
\* head of the acknowledged events.
NewBundle(r) == [log |-> file[r], head |-> events[r], verdict |-> Result(r)]

\* The manifest is written, if the bundle it belongs to is valid.
WritesManifest(r) ==
  /\ At(r, "writingManifest") /\ Alive /\ Free
  /\ \/ /\ BundleValid(r, NewBundle(r))
        /\ manifest' = [manifest EXCEPT ![r] = <<events[r]>>]
        /\ Go(r, "writingBundle")
        /\ UNCHANGED faults
     \/ /\ BundleValid(r, NewBundle(r))
        /\ Fault
        /\ manifest' \in {manifest, [manifest EXCEPT ![r] = <<events[r]>>]}
        /\ Go(r, "giving up")
     \/ /\ ~BundleValid(r, NewBundle(r))
        /\ Go(r, "giving up")
        /\ UNCHANGED <<manifest, faults>>
  /\ UNCHANGED <<memory, storage, told, crashes, proc, bundle, size>>

\* The bundle has whatever size its files come to.
WritesBundle(r) ==
  /\ At(r, "writingBundle") /\ Alive
  /\ \/ /\ bundle' = [bundle EXCEPT ![r] = <<NewBundle(r)>>]
        /\ Go(r, "publishing")
        /\ UNCHANGED faults
     \/ /\ Fault
        /\ bundle' \in {bundle, [bundle EXCEPT ![r] = <<NewBundle(r)>>]}
        /\ Go(r, "giving up")
  /\ IF bundle' = bundle THEN UNCHANGED size
     ELSE \E s \in {"fits", "over"} : size' = [size EXCEPT ![r] = s]
  /\ UNCHANGED <<memory, storage, told, crashes, proc, manifest>>

Publishes(r) ==
  /\ At(r, "publishing")
  /\ \/ SetEvidenceVerification(r, Result(r)) /\ Go(r, "finishing")
     \/ SetEvidenceVerificationFails(r, Result(r)) /\ Go(r, "giving up")
  /\ UNCHANGED <<proc, published>>

\* A bug that would only log that the run could not be finished.
GivesUpSilently(r) ==
  /\ At(r, "giving up") /\ Alive /\ Free
  /\ Go(r, "finishing")
  /\ UNCHANGED <<vars, proc, published>>

\* record(verification_error), the last thing the driver has to say of the run.
GivesUp(r) ==
  /\ At(r, "giving up")
  /\ VerificationError(r)
  /\ Go(r, "finishing")
  /\ UNCHANGED <<proc, published>>

\* compat retains the evidence of the backend; gvisor destroys the container, and
\* records when it cannot.
Finishing(r) ==
  /\ At(r, "finishing") /\ Alive
  /\ \/ UNCHANGED vars
     \/ ~Compat(r) /\ VerificationError(r)
  /\ Go(r, "done")
  /\ UNCHANGED <<proc, published>>

-----------------------------------------------------------------------------
(* Startup and the end of the process *)

\* ValidatePersistedBundles, of one run: what must hold of a published verdict.
BundleMatches(r) ==
  LET v == catalog[r].verdict
  IN v.is = "ineligible" =>
       /\ bundle[r] # <<>> /\ manifest[r] # <<>> /\ size[r] = "fits"
       /\ LET b == bundle[r][1]
          IN /\ BundleValid(r, b)
             /\ b.verdict = v
             /\ b.log = file[r]
             /\ manifest[r][1] = b.head
             /\ b.log[Len(b.log)].what = catalog[r].status

Starts ==
  /\ \/ OpenStore \/ OpenStoreRefuses
     \/ (\A r \in Runs : BundleMatches(r)) /\ Serve
     \/ ~(\A r \in Runs : BundleMatches(r)) /\ Reject
  /\ UNCHANGED <<driver, published>>

DriverLost ==
  /\ proc' = [r \in Runs |-> "none"]
  /\ comp' = [r \in Runs |-> NoComp]
  /\ UNCHANGED published

\* The seal under way is that of a goroutine, or of the recovery.
DiesInSeal(r) == At(r, "sealing") \/ Held("recoverSeal", r)

Ends ==
  /\ Exit \/ Crash \/ \E r \in Runs : DiesInSeal(r) /\ CrashInSeal(r)
  /\ DriverLost

Recovers(r) == Recovery(r) /\ UNCHANGED <<driver, published>>
ShutsDown == (Drain \/ Close) /\ UNCHANGED <<driver, published>>
Client(r) == ClientStep(r) /\ UNCHANGED <<driver, published>>

-----------------------------------------------------------------------------

PlaneInit ==
  /\ Init
  /\ proc = [r \in Runs |-> "none"] /\ comp = [r \in Runs |-> NoComp]
  /\ manifest = [r \in Runs |-> <<>>] /\ bundle = [r \in Runs |-> <<>>]
  /\ size = [r \in Runs |-> "fits"]

Goroutine(r) ==
  \/ Waits(r) \/ Collects(r) \/ AppendsNormalized(r) \/ AppendedAll(r) \/ RecordsLoss(r)
  \/ CompletesRun(r) \/ PersistsCompletion(r) \/ SealsRun(r) \/ Reports(r)
  \/ WritesManifest(r) \/ WritesBundle(r) \/ Publishes(r) \/ GivesUp(r) \/ Finishing(r)

DriverCalled(r) == DriverPrepare(r) \/ DriverStart(r) \/ DriverStop(r)

PlaneNext ==
  \/ \E r \in Runs :
       \/ Client(r) \/ DriverCalled(r) \/ WorkloadExits(r) \/ ShutdownStops(r)
       \/ Goroutine(r) \/ Recovers(r)
  \/ Starts \/ ShutsDown \/ Ends

PlaneSpec == PlaneInit /\ [][PlaneNext]_planeVars

\* What the scheduler and the code's loops guarantee.  Goroutines contend for
\* Store.mu with clients, and Go's mutex hands it to a waiter that starves:
\* strong fairness.  A workload that was killed exits, a method that holds the
\* lock goes on, a shutdown ends, and a process that ended is started again.
Fairness ==
  /\ \A r \in Runs :
       /\ SF_planeVars(Goroutine(r))
       /\ WF_planeVars(proc[r] = "killed" /\ WorkloadExits(r))
       /\ WF_planeVars(lock.run = r /\ (Client(r) \/ DriverCalled(r) \/ Recovers(r)))
       /\ WF_planeVars(Recovers(r))
  /\ WF_planeVars(Starts)
  /\ WF_planeVars(process = "draining" /\ ShutsDown)
  /\ WF_planeVars(Exit /\ DriverLost)

FairSpec == PlaneSpec /\ Fairness

-----------------------------------------------------------------------------
(* What the control plane promises *)

\* A backend reservation is recorded before it is made, and a workload runs only
\* for a run that is recorded as started (server.go:149 "so a crash cannot leave
\* an unrecorded backend reservation").
ReservationRecorded ==
  \A r \in Runs :
    /\ proc[r] # "none" => saved[r].status # "none"
    /\ comp[r].at # "none" => saved[r].status \notin {"none", "created"}

\* Nothing follows a run/finish in a log file, of an event that arrives late, a
\* second completion or a recovery; a log with a seal marker, even a partial
\* one, ends with it, so that recovery need not append to a sealed log.
FinishIsLast ==
  \A r \in Runs :
    /\ \A i \in 1 .. Len(file[r]) : Finishes(file[r][i]) => i = Len(file[r])
    /\ marker[r].is # "absent" => Finished(file[r])

\* While a verdict is on record as published, the signed bundle and manifest on
\* disk are those of the run's log and status, as ValidatePersistedBundles will
\* ask at the next start (compat_driver.go:318), whatever failed before.
PublishedBundleMatches ==
  \A r \in Runs :
    saved[r].verdict.is = "ineligible" =>
      /\ manifest[r] = <<file[r]>>
      /\ bundle[r] = <<[log |-> file[r], head |-> file[r], verdict |-> saved[r].verdict]>>
      /\ file[r] # <<>> /\ file[r][Len(file[r])].what = saved[r].status
      /\ marker[r] = [is |-> "whole", head |-> file[r]]

\* What a start refuses although nothing has failed: a run whose creation did not get as
\* far as state.json, a seal that did not get past its empty marker, times that a clock
\* set back has turned round, and a published bundle that is larger than a start reads.
Refusable(r) ==
  \/ saved[r].status = "none"
  \/ marker[r].is = "partial"
  \/ stamps[r] = "reversed"
  \/ saved[r].verdict.is = "ineligible" /\ size[r] = "over"

\* As long as no write has failed or was cut short, a start of the process refuses the
\* data directory for one of these reasons only: never for a torn frame, a second use of
\* a key, or a published bundle that is not that of its run.
RefusalsExplained ==
  process = "refused" /\ faults = 0 => \E r \in dirs : Refusable(r)

\* The recorded statuses and verdicts of the runs follow RunLifecycle: a stopping
\* run never completes, a verdict is not published before the end, a published
\* run is never interrupted, and no restart revives a run.
Lifecycle ==
  INSTANCE RunLifecycle WITH
    status <- [r \in Runs |-> saved[r].status],
    verdict <- [r \in Runs |-> saved[r].verdict.is]
ImplementsLifecycle == Lifecycle!Spec

\* What clients see of the runs follows RunFeed, over every restart: logs only grow,
\* a run that has ended has its whole log and never gets another event, and a run
\* that was under way when the process died is found ended when it serves again.
Gone == Stopped /\ \E r \in dirs : ~Loadable(r)
Seen(log) == [i \in 1 .. Len(log) |-> [seq |-> log[i].seq, what |-> log[i].what]]
Feed ==
  INSTANCE RunFeed WITH
    server <- IF process = "up" THEN "up" ELSE IF Gone THEN "gone" ELSE "down",
    status <- [r \in Runs |->
      IF Alive THEN catalog[r].status ELSE IF r \in dirs \/ Gone THEN "unseen" ELSE "none"],
    feed <- [r \in Runs |-> IF Alive THEN Seen(events[r]) ELSE IF Gone THEN <<>> ELSE Seen(file[r])]
ImplementsFeed == Feed!Spec

\* A workload that was started and has ended, or was killed, is accounted for: its
\* run gets to a final status with a verdict on record, through crashes, stops
\* and shutdowns, if no write fails; or a start refuses the data directory, for this or
\* another run and one of the reasons above.
StartedRunsSettle ==
  \A r \in Runs :
    comp[r].at = "waiting" /\ proc[r] \in {"killed", "exited"}
      ~> \/ saved[r].status \in Terminal /\ saved[r].verdict.is # "none"
         \/ process = "refused" /\ \E s \in dirs : Refusable(s)
         \/ faults > 0

\* ... and if one does, clients can still tell: the run has a verdict, or the store
\* has latched, or the process refuses the data directory.  A run whose run/finish
\* could not be appended stays running or stopping for ever, but not silently
\* (server.go:421).
EndedRunsAreExplained ==
  \A r \in Runs :
    comp[r].at = "waiting" /\ proc[r] \in {"killed", "exited"}
      ~> catalog[r].verdict.is # "none" \/ latched = "yes" \/ process = "refused"

(* What the repository says and the code does not do *)

\* "Interrupted runs reload explicitly as failed and ineligible" (README.md:105).
InterruptedRunsReload == faults = 0 => process # "refused"

\* "ExportEvidence returns the exact published evidence bundle bytes for a terminal
\* run with a recorded verification result" (server.go:583): what it returns says
\* what the catalog says.
ExportedBundleIsPublished ==
  \A r \in Runs :
    /\ Serving /\ bundle[r] # <<>>
    /\ catalog[r].status \in Terminal /\ catalog[r].verdict.is # "none"
    => bundle[r][1].verdict = catalog[r].verdict
=============================================================================
