------------------------------ MODULE FollowRun ------------------------------
(***************************************************************************)
(* benchmark run follow (cmd/benchmark/main.go): a client that prints the  *)
(* events of one run by polling the server, until the run has ended, its   *)
(* timeout has passed or a request has failed; and its user, who may call  *)
(* it again with --from-seq set to the last event printed.  The server is  *)
(* RunFeed, which ControlPlane implements.                                 *)
(***************************************************************************)
EXTENDS RunFeed

CONSTANTS
  run,       \* the run that is followed
  FromSeqs   \* the values of --from-seq a first call is given

ASSUME FollowAssumption == run \in Runs /\ FromSeqs \subseteq Nat

VARIABLES
  at,        \* what the client does next, or how it exited
  response,  \* the events of the last response it has not looked at yet
  after,     \* the sequence number of the last event printed, or --from-seq
  timeout,   \* the --timeout: "none", "running" or "passed"
  from,      \* history: the --from-seq of the first call
  printed    \* history: the events printed by all calls

session == <<at, response, after, timeout>>
client == <<session, from, printed>>
followVars == <<vars, client>>

Exits == {"ok", "execution", "telemetry", "infrastructure", "killed"}

Active == at \notin Exits \cup {"none"}

\* A request is answered: the server serves and the client's context goes on.
Answered == server = "up" /\ timeout # "passed" /\ status[run] # "none"

\* The user calls the client for the first time.
Follow ==
  /\ at = "none"
  /\ at' = "events"
  /\ after' \in FromSeqs /\ from' = after'
  /\ timeout' \in {"none", "running"}
  /\ UNCHANGED <<vars, response, printed>>

\* ... and again, after the last event printed.
Resume ==
  /\ at \in {"execution", "infrastructure", "killed"}
  /\ at' = "events"
  /\ timeout' \in {"none", "running"}
  /\ UNCHANGED <<vars, response, after, from, printed>>

\* poll asks for all events of the run.
GetsEvents ==
  /\ at \in {"events", "last events"}
  /\ IF Answered
     THEN at' = (IF at = "events" THEN "printing" ELSE "last printing") /\ response' = feed[run]
     ELSE at' = "infrastructure" /\ UNCHANGED response
  /\ UNCHANGED <<vars, after, timeout, from, printed>>

Printing == at \in {"printing", "last printing"} /\ response # <<>>

\* A bug that would print what was printed before.
PrintsAll ==
  LET event == Head(response)
  IN /\ Printing
     /\ printed' = Append(printed, event) /\ after' = event.seq
     /\ response' = Tail(response)
     /\ UNCHANGED <<vars, at, timeout, from>>

\* poll goes through the response: an event seen before is skipped, the next one is
\* printed, and a gap ends the client.
Prints ==
  LET event == Head(response)
  IN /\ Printing
     /\ CASE event.seq <= after ->
               response' = Tail(response) /\ UNCHANGED <<at, after, printed>>
          [] event.seq = after + 1 ->
               /\ printed' = Append(printed, event) /\ after' = event.seq
               /\ response' = Tail(response)
               /\ UNCHANGED at
          [] OTHER ->
               at' = "telemetry" /\ response' = <<>> /\ UNCHANGED <<after, printed>>
     /\ UNCHANGED <<vars, timeout, from>>

\* poll returns.
Printed ==
  /\ at \in {"printing", "last printing"} /\ response = <<>>
  /\ at' = IF at = "printing" THEN "status" ELSE "ok"
  /\ UNCHANGED <<vars, response, after, timeout, from, printed>>

\* A bug that would not look for the last events when the run has ended.
GetsStatusAndExits ==
  /\ at = "status"
  /\ at' = IF ~Answered THEN "infrastructure"
           ELSE IF status[run] \in Terminal THEN "ok" ELSE "waiting"
  /\ UNCHANGED <<vars, response, after, timeout, from, printed>>

\* A bug that would not take a stopped run for one that has ended.
GetsStatusUnlessStopped ==
  /\ at = "status"
  /\ at' = IF ~Answered THEN "infrastructure"
           ELSE IF status[run] \in {"completed", "failed"} THEN "last events" ELSE "waiting"
  /\ UNCHANGED <<vars, response, after, timeout, from, printed>>

\* GetRun: when the run has ended, its last events are asked for once more.
GetsStatus ==
  /\ at = "status"
  /\ at' = IF ~Answered THEN "infrastructure"
           ELSE IF status[run] \in Terminal THEN "last events" ELSE "waiting"
  /\ UNCHANGED <<vars, response, after, timeout, from, printed>>

\* 200 ms pass, or the context has ended.
Waited ==
  /\ at = "waiting"
  /\ \/ at' = "events"
     \/ timeout = "passed" /\ at' = "execution"
  /\ UNCHANGED <<vars, response, after, timeout, from, printed>>

TimeoutPasses ==
  /\ Active /\ timeout = "running"
  /\ timeout' = "passed"
  /\ UNCHANGED <<vars, at, response, after, from, printed>>

\* The client is killed; what it has printed is printed.
Killed ==
  /\ Active
  /\ at' = "killed" /\ response' = <<>>
  /\ UNCHANGED <<vars, after, timeout, from, printed>>

FollowInit ==
  /\ Init
  /\ at = "none" /\ response = <<>> /\ after = 0 /\ timeout = "none"
  /\ from = 0 /\ printed = <<>>

ClientStep == GetsEvents \/ Prints \/ Printed \/ GetsStatus \/ Waited

FollowNext ==
  \/ Follow \/ Resume \/ ClientStep \/ TimeoutPasses \/ Killed
  \/ Next /\ UNCHANGED client

FollowSpec == FollowInit /\ [][FollowNext]_followVars

\* A client goes on until it exits, and time passes.  Nothing is assumed of the
\* server, of the run or of the user.
FollowFairSpec ==
  FollowSpec /\ WF_followVars(ClientStep) /\ WF_followVars(TimeoutPasses)

-----------------------------------------------------------------------------

\* Whatever restarts, timeouts and kills there are, what the calls of one user have
\* printed is the log of the run from --from-seq on, each event once and in order,
\* and no call finds a gap (main.go:304, the use of --from-seq).
PrintedIsFeed ==
  /\ at # "telemetry"
  /\ after = from + Len(printed)
  /\ server # "gone" =>
       \A i \in 1 .. Len(printed) :
         from + i <= Len(feed[run]) /\ printed[i] = feed[run][from + i]

\* A call that exits with success has seen the whole log, for good: nothing is ever
\* appended after that, but for the run/finish that a restart gives to the empty
\* log of a run that could not be prepared (main.go:330, the last poll).
SuccessIsWhole ==
  at = "ok" /\ server # "gone" =>
    after >= Len(feed[run]) \/ feed[run] = Extended(<<>>, "failed")

\* A call with a timeout ends, and one without ends once the run has.
FollowEnds ==
  (Active /\ (timeout # "none" \/ status[run] \in Terminal)) ~> ~Active
=============================================================================
