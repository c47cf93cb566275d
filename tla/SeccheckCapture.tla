--------------------------- MODULE SeccheckCapture ---------------------------
(***************************************************************************)
(* The SecCheck source of a gVisor run: the sandbox sends its trace        *)
(* packets to the collector (deploy/gvisor/scripts/seccheck-raw.patch),    *)
(* which writes <id>.frames and, once the connection has closed,           *)
(* <id>.done; the backend waits for <id>.done, copies both, makes raw      *)
(* records of the frames (internal/backend/gvisor/gvisor.go) and the       *)
(* bundle's validator compares records, files and health                   *)
(* (internal/bundle/bundle.go).  The two programs share only a directory.  *)
(***************************************************************************)
EXTENDS Integers, SequencesExt

CONSTANTS
  MaxProduced, \* bound on the packets the sandbox produces
  MaxFaults    \* bound on failed commands, writes and connections

ASSUME CaptureBounds == MaxProduced \in Nat /\ MaxFaults \in Nat

VARIABLES
  connection, \* of the sandbox to the collector: "open", "closed" by its end, "lost"
  socket,     \* packets sent and not received
  produced,   \* how many packets the sandbox has produced; the first is container/start
  dropped,    \* how many of them it has dropped, the count that packet headers carry
  capture,    \* the collector's Capture of the run: "none", "open", "synced"
  status,     \* its counters, the content of <id>.done
  frames,     \* the whole frames in <id>.frames
  tail,       \* what follows them there: "clean", "torn"
  doneFile,   \* <id>.done: "absent", "broken" (created, not all written), "whole"
  at,         \* where collectSeccheckLocked is
  deadline,   \* of its wait: "running", "passed"
  evidence,   \* the seccheck.* files it has made in the run's evidence directory
  copied,     \* the frames in seccheck.frames or seccheck.partial
  copiedDone, \* what it has copied of <id>.done
  rest,       \* the frames it has yet to append as raw records
  source,     \* sourceState of seccheck/remote
  records,    \* its raw records: the packets
  raw,        \* raw-records.bin: "exact", "spoiled", and "short" if an append failed cleanly
  verdict,    \* the validator's: "none", "accepted", "refused"
  faults

sandbox == <<connection, socket, produced, dropped>>
collector == <<capture, status, frames, tail, doneFile>>
copies == <<evidence, copied, copiedDone>>
backend == <<at, deadline, copies, rest, source, records, raw, verdict>>
vars == <<sandbox, collector, backend, faults>>

Fault == faults < MaxFaults /\ faults' = faults + 1
NoFault == UNCHANGED faults

-----------------------------------------------------------------------------
(* The sandbox, whose packets may exceed what the collector receives.       *)

Sends ==
  /\ connection = "open" /\ produced < MaxProduced
  /\ produced' = produced + 1
  /\ \E size \in {"fits", "oversize"} :
       socket' = Append(socket, [n |-> produced + 1, size |-> size, dropped |-> dropped])
  /\ UNCHANGED <<connection, dropped, collector, backend, faults>>

\* The socket is full, or nobody reads it.
Drops ==
  /\ connection # "closed" /\ produced < MaxProduced
  /\ produced' = produced + 1 /\ dropped' = dropped + 1
  /\ UNCHANGED <<connection, socket, collector, backend, faults>>

\* The sandbox ends; the reaper starts to collect.
ContainerExits ==
  /\ at = "running" /\ at' = "polling"
  /\ connection' = IF connection = "open" THEN "closed" ELSE connection
  /\ UNCHANGED <<socket, produced, dropped, collector, deadline, copies, rest, source,
                 records, raw, verdict, faults>>

-----------------------------------------------------------------------------
(* The collector.                                                            *)

\* A bug that would count only what it could write.
ReceivesSilently ==
  LET p == Head(socket)
  IN /\ socket # <<>>
     /\ socket' = Tail(socket)
     /\ IF p.size = "oversize" \/ (capture = "none" /\ p.n # 1)
        THEN UNCHANGED <<capture, status, frames>>
        ELSE /\ capture' = "open"
             /\ frames' = Append(frames, p)
             /\ status' = [status EXCEPT !.frames = @ + 1, !.dropped = p.dropped]
     /\ UNCHANGED <<connection, produced, dropped, tail, doneFile, backend, faults>>

\* ReadAndUnpack: a packet that is too large is counted, if there is a capture to count
\* it in; container/start opens the capture, and no other packet is kept without one.
Receives ==
  LET p == Head(socket)
  IN /\ socket # <<>>
     /\ socket' = Tail(socket)
     /\ CASE p.size = "oversize" ->
               /\ status' = IF capture = "open" THEN [status EXCEPT !.oversize = @ + 1] ELSE status
               /\ UNCHANGED <<capture, frames>>
          [] p.size = "fits" /\ (capture = "open" \/ p.n = 1) ->
               /\ capture' = "open"
               /\ frames' = Append(frames, p)
               /\ status' = [status EXCEPT !.frames = @ + 1, !.dropped = p.dropped]
          [] OTHER -> UNCHANGED <<capture, status, frames>>
     /\ UNCHANGED <<connection, produced, dropped, tail, doneFile, backend, faults>>

\* The file cannot be made or the frame not written: the capture is given up, and later
\* packets with it.
WriteFails ==
  /\ socket # <<>> /\ Head(socket).size = "fits"
  /\ capture = "open" \/ Head(socket).n = 1
  /\ socket' = Tail(socket)
  /\ capture' = "none" /\ tail' = "torn"
  /\ Fault
  /\ UNCHANGED <<connection, produced, dropped, status, frames, doneFile, backend>>

\* FinishCapture, when the connection has closed and is drained: <id>.done is created
\* once the frames are on disk ...
Syncs ==
  /\ connection = "closed" /\ socket = <<>> /\ capture = "open"
  /\ \/ NoFault /\ capture' = "synced" /\ doneFile' = "broken"
     \/ Fault /\ capture' = "none" /\ UNCHANGED doneFile
  /\ UNCHANGED <<sandbox, status, frames, tail, backend>>

\* ... and written after that.
WritesStatus ==
  /\ capture = "synced" /\ capture' = "none"
  /\ \/ NoFault /\ doneFile' = "whole"
     \/ Fault /\ UNCHANGED doneFile
  /\ UNCHANGED <<sandbox, status, frames, tail, backend>>

\* The collector dies, or epoll reports an error on the connection.
ConnectionFails ==
  /\ connection # "lost" /\ connection' = "lost"
  /\ socket' = <<>> /\ capture' = "none"
  /\ Fault
  /\ UNCHANGED <<produced, dropped, status, frames, tail, doneFile, backend>>

-----------------------------------------------------------------------------
(* collectSeccheckLocked, under run.mu; at = "running" before it.            *)

Dropped == source' = [source EXCEPT !.drops = @ + 1]
ParseFailed == source' = [source EXCEPT !.parseFailures = @ + 1]
Appending == UNCHANGED <<records, raw>>
Static == UNCHANGED <<sandbox, collector, deadline, verdict>>

DeadlinePasses ==
  /\ at = "polling" /\ deadline = "running" /\ deadline' = "passed"
  /\ UNCHANGED <<sandbox, collector, at, copies, rest, source, records, raw, verdict, faults>>

\* ls has <id>.done in its output.
Finds ==
  /\ at = "polling" /\ doneFile # "absent"
  /\ at' = "found"
  /\ Static /\ NoFault /\ Appending /\ UNCHANGED <<copies, rest, source>>

\* ls fails, or the context ends in the wait for the next one.
GivesUp ==
  /\ at = "polling" /\ at' = "collected"
  /\ Dropped /\ Fault
  /\ Static /\ Appending /\ UNCHANGED <<copies, rest>>

\* A bug that would keep a capture without .done only if there is one.
TimesOutWithFrames ==
  /\ at = "polling" /\ doneFile = "absent" /\ deadline = "passed" /\ frames # <<>>
  /\ at' = "collected"
  /\ evidence' = {"partial"} /\ copied' = frames
  /\ Dropped
  /\ Static /\ Appending /\ NoFault /\ UNCHANGED <<copiedDone, rest>>

\* No <id>.done in time: the file of the frames is kept as seccheck.partial, if there is
\* one, and a file that holds no whole frame as well.
TimesOut ==
  /\ at = "polling" /\ doneFile = "absent" /\ deadline = "passed"
  /\ at' = "collected"
  /\ \/ /\ frames # <<>> \/ tail = "torn"
        /\ NoFault /\ evidence' = {"partial"} /\ copied' = frames
     \/ frames = <<>> /\ NoFault /\ UNCHANGED <<evidence, copied>>
     \/ frames # <<>> /\ Fault /\ UNCHANGED <<evidence, copied>>
  /\ Dropped
  /\ Static /\ Appending /\ UNCHANGED <<copiedDone, rest>>

CopiesStatus ==
  /\ at = "found"
  /\ \/ /\ NoFault
        /\ at' = "status copied" /\ evidence' = {"done"} /\ copiedDone' = doneFile
        /\ UNCHANGED source
     \/ Fault /\ at' = "collected" /\ Dropped /\ UNCHANGED <<evidence, copiedDone>>
  /\ Static /\ Appending /\ UNCHANGED <<copied, rest>>

\* A bug that would leave the frames under their name.
RetainStatus == {IF f = "done" THEN "partial-status" ELSE f : f \in evidence}

\* retain: what was copied stays, under the names of an incomplete capture.
Retain == {IF f = "frames" THEN "partial" ELSE "partial-status" : f \in evidence}

CopiesFrames ==
  /\ at = "status copied"
  /\ \/ /\ NoFault
        /\ at' = "copied" /\ evidence' = evidence \cup {"frames"} /\ copied' = frames
        /\ UNCHANGED source
     \/ Fault /\ at' = "collected" /\ Dropped /\ evidence' = Retain /\ UNCHANGED copied
  /\ Static /\ Appending /\ UNCHANGED <<copiedDone, rest>>

\* parseSeccheckStatus of the copy.
ParsesStatus ==
  /\ at = "copied"
  /\ IF copiedDone = "whole"
     THEN at' = "appending" /\ rest' = copied /\ UNCHANGED <<evidence, source>>
     ELSE at' = "collected" /\ ParseFailed /\ evidence' = Retain /\ UNCHANGED rest
  /\ Static /\ Appending /\ NoFault /\ UNCHANGED <<copied, copiedDone>>

\* appendSeccheckFramesLocked goes on after a frame whose record cannot be appended,
\* which may leave half of the record in the file.
AppendsFrame ==
  /\ at = "appending" /\ rest # <<>>
  /\ rest' = Tail(rest)
  /\ \/ NoFault /\ records' = Append(records, Head(rest)) /\ UNCHANGED <<raw, source>>
     \/ /\ Fault /\ ParseFailed
        /\ raw' \in {"spoiled", IF raw = "exact" THEN "short" ELSE raw}
        /\ UNCHANGED records
  /\ Static /\ UNCHANGED <<at, copies>>

\* All frames are parsed; they must be as many as the collector has counted.
Collected ==
  /\ at = "appending" /\ rest = <<>>
  /\ at' = "collected"
  /\ IF Len(records) = status.frames /\ tail = "clean"
     THEN /\ source' = [source EXCEPT !.drops = @ + status.oversize + status.dropped,
                                      !.degraded = "no"]
          /\ UNCHANGED evidence
     ELSE ParseFailed /\ evidence' = Retain
  /\ Static /\ Appending /\ NoFault /\ UNCHANGED <<copied, copiedDone, rest>>

-----------------------------------------------------------------------------
(* FinalizeEvidence and the validator of the published bundle.               *)

\* Drained and Stopped of the source's health.
Drained == records # <<>> /\ source.degraded = "no"

Valid ==
  LET kept == evidence \cap {"frames", "partial"} # {}
      complete == records # <<>> /\ "done" \in evidence
  IN /\ raw # "spoiled"
     /\ ~ {"frames", "partial"} \subseteq evidence
     /\ ~ {"done", "partial-status"} \subseteq evidence
     /\ "done" \in evidence => "frames" \in evidence
     /\ records # <<>> => kept /\ IsPrefix(records, copied)
     /\ {"frames", "done"} \cap evidence # {} => records # <<>>
     /\ "frames" \in evidence => records = copied
     /\ complete => /\ status.frames = Len(records)
                    /\ source.drops >= status.oversize + status.dropped
                    /\ Drained
     /\ ~complete /\ (records # <<>> \/ evidence \cap {"partial", "partial-status"} # {}) =>
          ~Drained /\ source.drops + source.parseFailures > 0

Validates ==
  /\ at = "collected" /\ verdict = "none"
  /\ verdict' = IF Valid THEN "accepted" ELSE "refused"
  /\ UNCHANGED <<sandbox, collector, at, deadline, copies, rest, source, records, raw, faults>>

-----------------------------------------------------------------------------

Init ==
  /\ connection = "open" /\ socket = <<>> /\ produced = 0 /\ dropped = 0
  /\ capture = "none" /\ status = [frames |-> 0, oversize |-> 0, dropped |-> 0]
  /\ frames = <<>> /\ tail = "clean" /\ doneFile = "absent"
  /\ at = "running" /\ deadline = "running"
  /\ evidence = {} /\ copied = <<>> /\ copiedDone = "absent" /\ rest = <<>>
  /\ source = [drops |-> 0, parseFailures |-> 0, degraded |-> "yes"]
  /\ records = <<>> /\ raw = "exact" /\ verdict = "none" /\ faults = 0

SandboxStep == Sends \/ Drops \/ ContainerExits
CollectorStep == Receives \/ WriteFails \/ Syncs \/ WritesStatus \/ ConnectionFails
BackendStep ==
  \/ Finds \/ TimesOut \/ CopiesStatus \/ CopiesFrames \/ ParsesStatus
  \/ AppendsFrame \/ Collected \/ Validates

Next == SandboxStep \/ CollectorStep \/ BackendStep \/ GivesUp \/ DeadlinePasses

Spec == Init /\ [][Next]_vars

\* The backend goes on and its deadline passes; nothing is assumed of the collector.
FairSpec == Spec /\ WF_vars(BackendStep) /\ WF_vars(DeadlinePasses)

-----------------------------------------------------------------------------

\* A capture that is accepted as drained has no silent hole: each packet the sandbox
\* produced is a record, or one of the losses the source has counted, or was dropped
\* after the last packet that could still report a drop (gvisor.go:1045), whatever
\* failed in the collector and whenever the backend looked.
DrainedAccountsForAll ==
  verdict = "accepted" /\ Drained =>
    produced = Len(records) + source.drops + (dropped - Last(records).dropped)

\* However a capture ends, half-written .done, collector killed or files that cannot be
\* copied, what the backend keeps of it is evidence that the validator accepts, unless
\* a record could not be appended (bundle.go:401, gvisor.go:1011).
CollectedIsAccepted == verdict = "refused" => raw # "exact"

\* The wait for the collector ends, even if the collector is gone (gvisor.go:981).
CollectionEnds == at = "polling" ~> verdict # "none"
=============================================================================
