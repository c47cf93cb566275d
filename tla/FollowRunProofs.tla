--------------------------- MODULE FollowRunProofs ---------------------------
(***************************************************************************)
(* What a client that follows a run prints and when it succeeds, proved    *)
(* for any number of runs, any log bound and any --from-seq.               *)
(***************************************************************************)
EXTENDS FollowRun, SequenceTheorems, TLAPS

-----------------------------------------------------------------------------
(* The server.                                                               *)

Whats == {"start", "event"} \cup Terminal

ServerTypes ==
  /\ server \in {"up", "down", "gone"}
  /\ status \in [Runs -> Statuses \cup {"unseen"}]
  /\ feed \in [Runs -> Seq(Item)]

Numbered(log) == \A i \in 1 .. Len(log) : log[i].seq = i

\* A log is empty until its run starts, and one of a run that has ended has its last
\* event, unless the run could not even be prepared.
StatusAgrees(r) ==
  server # "gone" =>
    /\ status[r] \in {"none", "created"} => feed[r] = <<>>
    /\ status[r] \in Terminal => Ended(feed[r]) \/ feed[r] = <<>>

ServerInv ==
  /\ ServerTypes
  /\ \A r \in Runs : Numbered(feed[r]) /\ StatusAgrees(r)

\* A run whose log is at its end, but for what a restart makes of an empty one.
Settled(r) ==
  /\ status[r] \in Terminal \cup {"unseen"}
  /\ Ended(feed[r]) \/ feed[r] = <<>>

\* What one step of a server that is not ruined does to a log.
Grown(r) ==
  \/ feed'[r] = feed[r]
  \/ /\ \E what \in Whats : feed'[r] = Extended(feed[r], what)
     /\ Settled(r) => feed[r] = <<>> /\ feed'[r] = Extended(<<>>, "failed")

\* Extending a numbered log gives one that begins with it.
LEMMA Extending ==
  ASSUME NEW log \in Seq(Item), Numbered(log), NEW what \in Whats
  PROVE  LET more == Extended(log, what)
         IN /\ more \in Seq(Item) /\ Numbered(more)
            /\ Len(more) = Len(log) + 1
            /\ \A i \in 1 .. Len(log) : more[i] = log[i]
            /\ more[Len(log) + 1].what = what
<1>1. NextItem(log, what) \in Item /\ NextItem(log, what).seq = Len(log) + 1
        /\ NextItem(log, what).what = what
  BY DEF NextItem, Item, Whats
<1>2. QED
  BY <1>1 DEF Extended, Numbered

\* The first event of a log that has one, and the others.
LEMMA Front ==
  ASSUME NEW log \in Seq(Item), log # <<>>
  PROVE  /\ Len(log) \in Nat \ {0} /\ 1 \in 1 .. Len(log)
         /\ Head(log) = log[1] /\ log[1] \in Item /\ log[1].seq \in Nat \ {0}
         /\ Tail(log) \in Seq(Item) /\ Len(Tail(log)) = Len(log) - 1
         /\ \A i \in 1 .. Len(Tail(log)) : Tail(log)[i] = log[i + 1]
<1>1. Len(log) \in Nat \ {0} /\ 1 \in 1 .. Len(log)
  BY EmptySeq
<1>2. log[1] \in Item
  BY <1>1, ElementOfSeq
<1>3. log[1].seq \in Nat \ {0}
  BY <1>2 DEF Item
<1>4. Head(log) = log[1]
  OBVIOUS
<1>5. QED
  BY <1>1, <1>2, <1>3, <1>4, HeadTailProperties

LEMMA ServerInitially == Init => ServerInv
BY DEF Init, ServerInv, ServerTypes, Statuses, Numbered, StatusAgrees, Terminal

\* What it means for the feed that one log grows.
LEMMA Growing ==
  ASSUME ServerTypes, \A r \in Runs : Numbered(feed[r]),
         NEW r \in Runs, NEW what \in Whats, Grows(r, what)
  PROVE  /\ feed' \in [Runs -> Seq(Item)]
         /\ \A q \in Runs : Numbered(feed'[q]) /\ (q # r => feed'[q] = feed[q])
         /\ feed'[r] = Extended(feed[r], what) /\ feed'[r] # <<>>
         /\ what \in Terminal => Ended(feed'[r])
<1>1. feed \in [Runs -> Seq(Item)] /\ feed' = [feed EXCEPT ![r] = Extended(feed[r], what)]
  BY DEF ServerTypes, Grows
<1>2. LET more == Extended(feed[r], what)
      IN /\ more \in Seq(Item) /\ Numbered(more) /\ Len(more) = Len(feed[r]) + 1
         /\ more[Len(feed[r]) + 1].what = what
  BY <1>1, Extending
<1>3. feed'[r] = Extended(feed[r], what) /\ \A q \in Runs : q # r => feed'[q] = feed[q]
  BY <1>1
<1>4. feed' \in [Runs -> Seq(Item)]
  BY <1>1, <1>2
<1>5. \A q \in Runs : Numbered(feed'[q])
  BY <1>2, <1>3
<1>6. feed'[r] # <<>>
  BY <1>1, <1>2, <1>3
<1>7. what \in Terminal => Ended(feed'[r])
  BY <1>2, <1>3, <1>6 DEF Ended
<1>8. QED
  BY <1>3, <1>4, <1>5, <1>6, <1>7

\* Every step of the server keeps its invariant, only ever adds to a log that is not
\* at its end, and does not come back from ruin.
LEMMA ServerStep ==
  ASSUME ServerInv, Next
  PROVE  /\ ServerInv'
         /\ server' # "gone" =>
              server # "gone" /\ \A r \in Runs : Grown(r) /\ (Settled(r) => Settled(r)')
<1> DEFINE Goal == /\ ServerInv'
                   /\ server' # "gone" =>
                        server # "gone" /\ \A r \in Runs : Grown(r) /\ (Settled(r) => Settled(r)')
<1>0. ServerTypes /\ (\A r \in Runs : Numbered(feed[r]) /\ StatusAgrees(r))
  BY DEF ServerInv
<1>1. ASSUME NEW r \in Runs,
             Create(r) \/ Unprepared(r) \/ Stop(r) \/ StopRefused(r)
      PROVE  Goal
  BY <1>0, <1>1 DEF Create, Unprepared, Stop, StopRefused, Moves, ServerInv, ServerTypes,
       StatusAgrees, Grown, Settled, Terminal, Statuses
<1>2. ASSUME NEW r \in Runs, NEW what \in Whats, Grows(r, what), UNCHANGED server,
             NEW s \in {"running", "stopping", "stopped", "completed", "failed", "unseen"},
             status' = [status EXCEPT ![r] = s],
             s \in Terminal => what \in Terminal,
             Settled(r) => s = "unseen" /\ what = "failed" /\ ~Ended(feed[r])
      PROVE  Goal
  <2>1. /\ feed' \in [Runs -> Seq(Item)]
        /\ \A q \in Runs : Numbered(feed'[q]) /\ (q # r => feed'[q] = feed[q])
        /\ feed'[r] = Extended(feed[r], what) /\ feed'[r] # <<>>
        /\ what \in Terminal => Ended(feed'[r])
    BY <1>0, <1>2, Growing
  <2>2. status' \in [Runs -> Statuses \cup {"unseen"}] /\ status'[r] = s
        /\ \A q \in Runs : q # r => status'[q] = status[q]
    BY <1>0, <1>2 DEF ServerTypes, Statuses, Terminal
  <2>3. ASSUME NEW q \in Runs PROVE StatusAgrees(q)' /\ (Settled(q) => Settled(q)')
    BY <1>0, <1>2, <2>1, <2>2, <2>3 DEF StatusAgrees, Settled, Terminal
  <2>4. ASSUME NEW q \in Runs PROVE Grown(q)
    BY <1>2, <2>1, <2>4 DEF Grown, Settled
  <2>5. ServerInv'
    BY <1>0, <1>2, <2>1, <2>2, <2>3 DEF ServerInv, ServerTypes
  <2>6. QED
    BY <1>0, <1>2, <2>3, <2>4, <2>5
<1>3. ASSUME NEW r \in Runs, Start(r) PROVE Goal
  <2>1. status[r] = "created" /\ Grows(r, "start") /\ UNCHANGED server
        /\ status' = [status EXCEPT ![r] = "running"]
    BY <1>3 DEF Start, Moves
  <2>2. ~Settled(r)
    BY <2>1 DEF Settled, Terminal
  <2>3. QED
    BY <1>2, <2>1, <2>2 DEF Whats, Terminal
<1>4. ASSUME NEW r \in Runs, AppendEvent(r) PROVE Goal
  <2>1. /\ status[r] \in {"running", "stopping"} /\ Grows(r, "event") /\ UNCHANGED server
        /\ status' = [status EXCEPT ![r] = status[r]]
    BY <1>0, <1>4 DEF AppendEvent, ServerTypes
  <2>2. ~Settled(r)
    BY <2>1 DEF Settled, Terminal
  <2>3. QED
    BY <1>2, <2>1, <2>2 DEF Whats, Terminal
<1>5. ASSUME NEW r \in Runs, Finish(r) PROVE Goal
  <2>1. PICK s \in Terminal :
          /\ Moves(r, IF s = "stopped" THEN "stopping" ELSE "running", s)
          /\ Grows(r, s) /\ UNCHANGED server
    BY <1>5 DEF Finish
  <2>2. status[r] \in {"running", "stopping"} /\ status' = [status EXCEPT ![r] = s]
    BY <2>1 DEF Moves
  <2>3. ~Settled(r)
    BY <2>2 DEF Settled, Terminal
  <2>4. QED
    BY <1>2, <2>1, <2>2, <2>3 DEF Whats, Terminal
<1>6. ASSUME NEW r \in Runs, Recover(r) PROVE Goal
  <2>1. /\ status[r] = "unseen" /\ Grows(r, "failed") /\ UNCHANGED server /\ ~Ended(feed[r])
        /\ status' = [status EXCEPT ![r] = "unseen"]
    BY <1>0, <1>6 DEF Recover, ServerTypes
  <2>2. QED
    BY <1>2, <2>1 DEF Whats, Terminal
<1>7. CASE StopServing
  BY <1>0, <1>7 DEF StopServing, ServerInv, ServerTypes, StatusAgrees, Grown, Settled
<1>8. CASE Exit
  <2>1. PICK left \in [Runs -> {"nothing", "start", "event"} \cup Terminal] :
          /\ \A r \in Runs : left[r] \in Left(r) \cup {"nothing"}
          /\ feed' = [r \in Runs |-> IF left[r] = "nothing" THEN feed[r] ELSE Extended(feed[r], left[r])]
    BY <1>8 DEF Exit
  <2>2. /\ server # "gone" /\ server' = "down"
        /\ status' = [r \in Runs |-> IF status[r] = "none" THEN "none" ELSE "unseen"]
    BY <1>8 DEF Exit
  <2>3. ASSUME NEW r \in Runs
        PROVE  /\ feed'[r] \in Seq(Item) /\ Numbered(feed'[r])
               /\ \/ feed'[r] = feed[r]
                  \/ /\ status[r] \in {"created", "running", "stopping"}
                     /\ \E what \in Whats : feed'[r] = Extended(feed[r], what)
    <3>1. CASE left[r] = "nothing"
      BY <1>0, <2>1, <3>1 DEF ServerTypes
    <3>2. CASE left[r] # "nothing"
      <4>1. left[r] \in Whats /\ left[r] \in Left(r) /\ feed'[r] = Extended(feed[r], left[r])
        BY <2>1, <3>2 DEF Whats
      <4>2. status[r] \in {"created", "running", "stopping"}
        BY <4>1 DEF Left
      <4>3. feed'[r] \in Seq(Item) /\ Numbered(feed'[r])
        BY <1>0, <4>1, Extending DEF ServerTypes
      <4>4. QED
        BY <4>1, <4>2, <4>3
    <3>3. QED
      BY <3>1, <3>2
  <2>4. ASSUME NEW r \in Runs PROVE Grown(r) /\ (Settled(r) => Settled(r)') /\ StatusAgrees(r)'
    BY <1>0, <2>2, <2>3, <2>4 DEF Grown, Settled, StatusAgrees, Terminal
  <2>5. ServerTypes'
    BY <1>0, <2>1, <2>2, <2>3 DEF ServerTypes, Statuses
  <2>6. QED
    BY <2>2, <2>3, <2>4, <2>5 DEF ServerInv
<1>9. CASE Serve
  <2>1. PICK s \in [Runs -> Terminal] :
          status' = [r \in Runs |-> IF status[r] = "none" THEN "none" ELSE s[r]]
    BY <1>9 DEF Serve
  <2>2. /\ server = "down" /\ server' = "up" /\ feed' = feed
        /\ \A r \in Runs : status[r] \in {"none", "unseen"}
        /\ \A r \in Runs : status[r] = "unseen" => Ended(feed[r])
    BY <1>9 DEF Serve
  <2>3. ASSUME NEW r \in Runs
        PROVE  status'[r] \in Statuses /\ Grown(r) /\ (Settled(r) => Settled(r)') /\ StatusAgrees(r)'
    BY <1>0, <2>1, <2>2, <2>3 DEF Grown, Settled, StatusAgrees, Terminal, Statuses
  <2>4. QED
    BY <1>0, <2>1, <2>2, <2>3 DEF ServerInv, ServerTypes
<1>10. CASE Ruin
  BY <1>10 DEF Ruin, ServerInv, ServerTypes, StatusAgrees, Numbered
<1>11. QED
  BY <1>1, <1>3, <1>4, <1>5, <1>6, <1>7, <1>8, <1>9, <1>10 DEF Next

-----------------------------------------------------------------------------
(* The client.                                                               *)

Positions ==
  {"none", "events", "printing", "status", "waiting", "last events", "last printing"} \cup Exits

ClientTypes ==
  /\ at \in Positions
  /\ after \in Nat /\ from \in Nat
  /\ response \in Seq(Item) /\ printed \in Seq(Item)

\* What is left of a response is a piece of the log without a gap, which begins no
\* later than where printing goes on.
ResponseInv ==
  /\ \A i \in 1 .. Len(response) : response[i].seq = response[1].seq + (i - 1)
  /\ response # <<>> => response[1].seq <= after + 1
  /\ server # "gone" =>
       \A i \in 1 .. Len(response) :
         response[i].seq <= Len(feed[run]) /\ response[i] = feed[run][response[i].seq]

NotCalled == at = "none" => response = <<>> /\ printed = <<>>

PrintInv == ServerInv /\ ClientTypes /\ NotCalled /\ ResponseInv /\ PrintedIsFeed

\* A step of the server leaves alone what a client has of the log.
LEMMA FeedIsKept ==
  ASSUME ServerInv, Next, server' # "gone"
  PROVE  /\ server # "gone"
         /\ Len(feed[run]) <= Len(feed'[run])
         /\ \A i \in 1 .. Len(feed[run]) : feed'[run][i] = feed[run][i]
<1>1. server # "gone" /\ Grown(run)
  BY ServerStep, FollowAssumption
<1>2. feed[run] \in Seq(Item) /\ Numbered(feed[run])
  BY FollowAssumption DEF ServerInv, ServerTypes
<1>3. CASE feed'[run] = feed[run]
  BY <1>1, <1>2, <1>3
<1>4. CASE \E what \in Whats : feed'[run] = Extended(feed[run], what)
  <2>1. PICK what \in Whats : feed'[run] = Extended(feed[run], what)
    BY <1>4
  <2>2. LET more == Extended(feed[run], what)
        IN /\ Len(more) = Len(feed[run]) + 1
           /\ \A i \in 1 .. Len(feed[run]) : more[i] = feed[run][i]
    BY <1>2, Extending
  <2>3. QED
    BY <1>1, <1>2, <2>1, <2>2
<1>5. QED
  BY <1>1, <1>3, <1>4 DEF Grown

LEMMA PrintInitially == FollowInit => PrintInv
<1> SUFFICES ASSUME FollowInit PROVE PrintInv
  OBVIOUS
<1>1. ServerInv
  BY ServerInitially DEF FollowInit
<1>2. ClientTypes /\ NotCalled /\ ResponseInv /\ PrintedIsFeed
  BY DEF FollowInit, ClientTypes, Positions, Exits, NotCalled, ResponseInv, PrintedIsFeed
<1>3. QED
  BY <1>1, <1>2 DEF PrintInv

\* Nothing is printed twice, left out or misplaced, one step per action.
LEMMA PrintStep == PrintInv /\ [FollowNext]_followVars => PrintInv'
<1> SUFFICES ASSUME PrintInv, [FollowNext]_followVars PROVE PrintInv'
  OBVIOUS
<1>0. /\ ServerInv /\ ClientTypes /\ NotCalled /\ ResponseInv /\ PrintedIsFeed
      /\ feed[run] \in Seq(Item) /\ Numbered(feed[run])
  BY FollowAssumption DEF PrintInv, ServerInv, ServerTypes
<1>a. ASSUME UNCHANGED vars PROVE ServerInv'
  BY <1>0, <1>a DEF vars, ServerInv, ServerTypes, Numbered, StatusAgrees, Ended
<1>1. CASE Follow
  <2>1. PICK first \in Nat :
          /\ UNCHANGED vars /\ at' = "events" /\ after' = first /\ from' = first
          /\ UNCHANGED <<response, printed>> /\ at = "none"
    BY <1>1, FollowAssumption DEF Follow
  <2>2. response = <<>> /\ printed = <<>> /\ Len(response) = 0 /\ Len(printed) = 0
    BY <1>0, <2>1, EmptySeq DEF NotCalled
  <2>3. ClientTypes' /\ NotCalled'
    BY <1>0, <2>1, <2>2 DEF ClientTypes, Positions, NotCalled
  <2>4. ResponseInv'
    BY <2>1, <2>2 DEF ResponseInv
  <2>b. PrintedIsFeed'
    <3>1. Len(printed') = 0 /\ after' = from' + Len(printed')
      <4>1. printed' = printed /\ after' = first /\ from' = first
        BY <2>1
      <4>2. QED
        BY <2>2, <4>1
    <3>2. QED
      BY <2>1, <3>1 DEF PrintedIsFeed
  <2>5. QED
    BY <1>a, <2>1, <2>3, <2>4, <2>b DEF PrintInv
<1>2. CASE Resume
  <2>1. UNCHANGED vars /\ at' = "events" /\ UNCHANGED <<response, after, from, printed>>
    BY <1>2 DEF Resume
  <2>2. QED
    BY <1>0, <1>a, <2>1 DEF PrintInv, vars, ClientTypes, Positions, NotCalled, ResponseInv, PrintedIsFeed
<1>3. CASE GetsEvents
  <2>1. UNCHANGED vars /\ UNCHANGED <<after, from, printed>>
          /\ at' \in {"printing", "last printing", "infrastructure"}
          /\ response' \in {response, feed[run]}
    BY <1>3 DEF GetsEvents
  <2>2. ClientTypes' /\ NotCalled' /\ PrintedIsFeed'
    BY <1>0, <2>1 DEF vars, ClientTypes, Positions, Exits, NotCalled, PrintedIsFeed
  <2>3. ResponseInv'
    <3>1. CASE response' = response
      BY <1>0, <2>1, <3>1 DEF vars, ResponseInv
    <3>2. CASE response' = feed[run]
      <4>1. \A i \in 1 .. Len(response') : response'[i].seq = i /\ response'[i] = feed'[run][i]
        BY <1>0, <2>1, <3>2 DEF vars, Numbered
      <4>2. Len(response') \in Nat /\ after' \in Nat /\ Len(feed'[run]) = Len(response')
              /\ (response' # <<>> => 1 \in 1 .. Len(response'))
        BY <1>0, <2>1, <3>2, Front, LenProperties DEF vars, ClientTypes
      <4>3. \A i \in 1 .. Len(response') : response'[i].seq = response'[1].seq + (i - 1)
        BY <4>1, <4>2
      <4>4. QED
        BY <4>1, <4>2, <4>3 DEF ResponseInv
    <3>3. QED
      BY <2>1, <3>1, <3>2
  <2>4. QED
    BY <1>a, <2>1, <2>2, <2>3 DEF PrintInv
<1>4. CASE Prints
  <2> DEFINE event == response[1]
  <2>1. /\ UNCHANGED vars /\ UNCHANGED from
        /\ response # <<>> /\ at \in {"printing", "last printing"}
    BY <1>4 DEF Prints, Printing
  <2>a. /\ Head(response) = event /\ event \in Item /\ event.seq \in Nat \ {0}
        /\ Len(response) \in Nat \ {0} /\ 1 \in 1 .. Len(response)
    BY <1>0, <2>1, Front DEF ClientTypes
  <2>2. event.seq \in Nat /\ event.seq <= after + 1 /\ after \in Nat
    BY <1>0, <2>1, <2>a DEF ResponseInv, ClientTypes
  <2>3. /\ Tail(response) \in Seq(Item) /\ Len(Tail(response)) = Len(response) - 1
        /\ \A i \in 1 .. Len(Tail(response)) : Tail(response)[i] = response[i + 1]
    BY <1>0, <2>1, Front DEF ClientTypes
  <2>4. ASSUME response' = Tail(response), after' \in Nat, event.seq <= after' PROVE ResponseInv'
    <3>1. \A i \in 1 .. Len(response') : response'[i].seq = event.seq + i
      BY <1>0, <2>2, <2>3, <2>4 DEF ResponseInv, ClientTypes
    <3>2. Len(response') \in Nat /\ (response' # <<>> => 1 \in 1 .. Len(response'))
      BY <2>3, <2>4
    <3>3. \A i \in 1 .. Len(response') : response'[i].seq = response'[1].seq + (i - 1)
      BY <2>2, <3>1, <3>2
    <3>4. response' # <<>> => response'[1].seq <= after' + 1
      BY <2>2, <2>4, <3>1, <3>2
    <3>a. \A i \in 1 .. Len(response') : i + 1 \in 1 .. Len(response) /\ response'[i] = response[i + 1]
      BY <2>a, <2>3, <2>4
    <3>5. server' # "gone" =>
            \A i \in 1 .. Len(response') :
              response'[i].seq <= Len(feed'[run]) /\ response'[i] = feed'[run][response'[i].seq]
      BY <1>0, <2>1, <3>a DEF ResponseInv, vars
    <3>6. QED
      BY <3>3, <3>4, <3>5 DEF ResponseInv
  <2>5. CASE event.seq <= after
    <3>1. response' = Tail(response) /\ UNCHANGED <<at, after, printed>>
      BY <1>4, <2>a, <2>2, <2>5 DEF Prints
    <3>2. ClientTypes' /\ NotCalled' /\ PrintedIsFeed'
      BY <1>0, <2>1, <2>3, <3>1 DEF vars, ClientTypes, NotCalled, PrintedIsFeed
    <3>3. QED
      BY <1>a, <2>1, <2>2, <2>4, <2>5, <3>1, <3>2 DEF PrintInv
  <2>6. CASE event.seq = after + 1
    <3>1. /\ response' = Tail(response) /\ UNCHANGED at
          /\ printed' = Append(printed, event) /\ after' = after + 1
      BY <1>4, <2>a, <2>2, <2>6 DEF Prints
    <3>2. ClientTypes' /\ NotCalled'
      <4>1. printed' \in Seq(Item)
        BY <1>0, <2>a, <3>1, AppendProperties DEF ClientTypes
      <4>2. QED
        <5>1. at' = at /\ from' = from /\ after' = after + 1 /\ response' = Tail(response)
          BY <2>1, <3>1
        <5>2. at' \in Positions /\ after' \in Nat /\ from' \in Nat /\ response' \in Seq(Item)
          BY <1>0, <2>2, <2>3, <5>1 DEF ClientTypes
        <5>3. NotCalled'
          BY <2>1, <5>1 DEF NotCalled
        <5>4. QED
          BY <4>1, <5>2, <5>3 DEF ClientTypes
    <3>3. server # "gone" => event.seq <= Len(feed[run]) /\ event = feed[run][event.seq]
      BY <1>0, <2>1, <2>a DEF ResponseInv, ClientTypes
    <3>4. PrintedIsFeed'
      <4>1. /\ Len(printed) \in Nat /\ Len(printed') = Len(printed) + 1
            /\ printed'[Len(printed) + 1] = event
            /\ \A i \in 1 .. Len(printed) : printed'[i] = printed[i]
        BY <1>0, <2>a, <3>1, AppendProperties, LenProperties DEF ClientTypes
      <4>2. after = from + Len(printed) /\ from \in Nat
        BY <1>0 DEF ClientTypes, PrintedIsFeed
      <4>3. ASSUME server # "gone", NEW i \in 1 .. Len(printed')
            PROVE  from + i <= Len(feed[run]) /\ printed'[i] = feed[run][from + i]
        BY <1>0, <2>6, <3>3, <4>1, <4>2, <4>3 DEF PrintedIsFeed
      <4>4. QED
        <5>1. at' # "telemetry" /\ after' = from' + Len(printed')
          <6>1. at' = at /\ from' = from /\ after' = after + 1
            BY <2>1, <3>1
          <6>2. after + 1 = from + (Len(printed) + 1)
            BY <4>1, <4>2
          <6>3. after' = from' + Len(printed')
            BY <4>1, <6>1, <6>2, Zenon
          <6>4. QED
            BY <2>1, <6>1, <6>3
        <5>2. server' = server /\ feed' = feed /\ from' = from
          BY <2>1 DEF vars
        <5>3. QED
          BY <4>3, <5>1, <5>2 DEF PrintedIsFeed
    <3>5. QED
      BY <1>a, <2>1, <2>2, <2>4, <2>6, <3>1, <3>2, <3>4 DEF PrintInv
  <2>7. QED
    BY <2>2, <2>5, <2>6
<1>5. CASE Printed \/ GetsStatus \/ Waited
  <2>1. UNCHANGED vars /\ UNCHANGED <<response, after, from, printed>>
          /\ at' \in Positions \ {"telemetry", "none"}
    BY <1>5 DEF Printed, GetsStatus, Waited, Positions, Exits
  <2>2. QED
    BY <1>0, <1>a, <2>1 DEF PrintInv, vars, ClientTypes, NotCalled, ResponseInv, PrintedIsFeed
<1>6. CASE TimeoutPasses
  BY <1>0, <1>a, <1>6 DEF TimeoutPasses, PrintInv, vars, ClientTypes, NotCalled, ResponseInv, PrintedIsFeed
<1>7. CASE Killed
  <2>1. /\ UNCHANGED vars /\ UNCHANGED <<after, from, printed>>
        /\ at' = "killed" /\ response' = <<>> /\ Len(response') = 0
    BY <1>7, EmptySeq DEF Killed
  <2>2. ClientTypes' /\ NotCalled'
    BY <1>0, <2>1, EmptySeq DEF ClientTypes, Positions, Exits, NotCalled
  <2>3. ResponseInv'
    BY <2>1 DEF ResponseInv
  <2>4. PrintedIsFeed'
    BY <1>0, <2>1 DEF vars, PrintedIsFeed
  <2>5. QED
    BY <1>a, <2>1, <2>2, <2>3, <2>4 DEF PrintInv
<1>8. CASE Next /\ UNCHANGED client
  <2>1. ServerInv' /\ UNCHANGED <<at, response, after, from, printed>>
    BY <1>0, <1>8, ServerStep DEF client, session
  <2>2. ClientTypes' /\ NotCalled'
    BY <1>0, <2>1 DEF ClientTypes, NotCalled
  <2>3. server' # "gone" =>
          /\ server # "gone"
          /\ Len(feed[run]) <= Len(feed'[run])
          /\ \A i \in 1 .. Len(feed[run]) : feed'[run][i] = feed[run][i]
    BY <1>0, <1>8, FeedIsKept
  <2>4. Len(feed[run]) \in Nat /\ (server' # "gone" => Len(feed'[run]) \in Nat)
    BY <1>0, <2>1, FollowAssumption DEF ServerInv, ServerTypes
  <2>5. ResponseInv'
    <3>1. \A i \in 1 .. Len(response) : response[i].seq \in Nat \ {0}
      <4>1. \A i \in 1 .. Len(response) : response[i] \in Item
        BY <1>0, ElementOfSeq DEF ClientTypes
      <4>2. QED
        BY <4>1 DEF Item
    <3>2. ASSUME server' # "gone", NEW i \in 1 .. Len(response)
          PROVE  response[i].seq <= Len(feed'[run]) /\ response[i] = feed'[run][response[i].seq]
      <4>1. response[i].seq <= Len(feed[run]) /\ response[i] = feed[run][response[i].seq]
        BY <1>0, <2>3, <3>2 DEF ResponseInv
      <4>2. response[i].seq \in 1 .. Len(feed[run])
        BY <2>4, <3>1, <4>1
      <4>3. QED
        BY <2>3, <2>4, <3>2, <4>1, <4>2
    <3>3. response' = response /\ after' = after
      BY <2>1
    <3>4. QED
      BY <1>0, <3>2, <3>3 DEF ResponseInv
  <2>6. PrintedIsFeed'
    <3>1. Len(printed) \in Nat /\ from \in Nat
      BY <1>0, LenProperties DEF ClientTypes
    <3>2. ASSUME server' # "gone", NEW i \in 1 .. Len(printed)
          PROVE  from + i <= Len(feed'[run]) /\ printed[i] = feed'[run][from + i]
      <4>1. from + i <= Len(feed[run]) /\ printed[i] = feed[run][from + i]
        BY <1>0, <2>3, <3>2 DEF PrintedIsFeed
      <4>2. from + i \in 1 .. Len(feed[run])
        BY <2>4, <3>1, <4>1
      <4>3. QED
        BY <2>3, <2>4, <3>2, <4>1, <4>2
    <3>3. printed' = printed /\ from' = from /\ after' = after /\ at' = at
      BY <2>1
    <3>4. QED
      BY <1>0, <3>2, <3>3 DEF PrintedIsFeed
  <2>7. QED
    BY <2>1, <2>2, <2>5, <2>6 DEF PrintInv
<1>9. CASE UNCHANGED followVars
  BY <1>0, <1>a, <1>9 DEF followVars, client, session, vars, PrintInv, ClientTypes, NotCalled,
       ResponseInv, PrintedIsFeed
<1>10. QED
  BY <1>1, <1>2, <1>3, <1>4, <1>5, <1>6, <1>7, <1>8, <1>9 DEF FollowNext, ClientStep

\* What the calls of one user print is the log of the run from --from-seq on, each
\* event once and in order (followRun).
THEOREM PrintsTheLog == FollowSpec => []PrintedIsFeed
<1>1. PrintInv => PrintedIsFeed
  BY DEF PrintInv
<1>2. QED
  BY <1>1, PrintInitially, PrintStep, PTL DEF FollowSpec

-----------------------------------------------------------------------------
(* A call that succeeds.                                                     *)

\* A run that was seen to have ended.
SettledInv ==
  at \in {"last events", "last printing", "ok"} /\ server # "gone" => Settled(run)

\* The last response takes the client to the end of the log.
LastIsWhole ==
  at = "last printing" /\ server # "gone" =>
    \/ feed[run] = Extended(<<>>, "failed")
    \/ after >= Len(feed[run])
    \/ response # <<>> /\ response[Len(response)].seq >= Len(feed[run])

SuccessInv == SettledInv /\ LastIsWhole /\ SuccessIsWhole

\* What a run that has ended is appended is the end of an empty log.
LEMMA SettledFeed ==
  ASSUME ServerInv, Next, server' # "gone", Settled(run)
  PROVE  /\ Settled(run)'
         /\ feed'[run] = feed[run] \/ feed'[run] = Extended(<<>>, "failed")
         /\ feed[run] = Extended(<<>>, "failed") => feed'[run] = feed[run]
<1>1. Grown(run) /\ Settled(run)'
  BY ServerStep, FollowAssumption
<1>2. Extended(<<>>, "failed") # <<>>
  <2>1. <<>> \in Seq(Item) /\ Len(<<>>) = 0
    BY EmptySeq
  <2>2. NextItem(<<>>, "failed") \in Item
    BY <2>1 DEF NextItem, Item, Terminal
  <2>3. QED
    BY <2>1, <2>2, AppendProperties DEF Extended
<1>3. QED
  BY <1>1, <1>2 DEF Grown

LEMMA SuccessStep ==
  PrintInv /\ SuccessInv /\ [FollowNext]_followVars => SuccessInv'
<1> SUFFICES ASSUME PrintInv, SuccessInv, [FollowNext]_followVars PROVE SuccessInv'
  OBVIOUS
<1>0. /\ ServerInv /\ ClientTypes /\ ResponseInv
      /\ SettledInv /\ LastIsWhole /\ SuccessIsWhole
      /\ feed[run] \in Seq(Item) /\ Numbered(feed[run]) /\ Len(feed[run]) \in Nat
  BY FollowAssumption, LenProperties DEF PrintInv, SuccessInv, ServerInv, ServerTypes
<1>1. ASSUME UNCHANGED vars, UNCHANGED <<at, response, after>> PROVE SuccessInv'
  BY <1>0, <1>1 DEF vars, SuccessInv, SettledInv, LastIsWhole, SuccessIsWhole, Settled, Ended
<1>2. ASSUME at' \notin {"last events", "last printing", "ok"} PROVE SuccessInv'
  BY <1>2 DEF SuccessInv, SettledInv, LastIsWhole, SuccessIsWhole
<1>3. ASSUME UNCHANGED vars PROVE Settled(run)' <=> Settled(run)
  BY <1>3 DEF vars, Settled, Ended
<1>4. CASE Follow \/ Resume \/ Waited \/ Killed
  BY <1>2, <1>4 DEF Follow, Resume, Waited, Killed
<1>5. CASE GetsEvents
  <2>1. UNCHANGED vars /\ UNCHANGED after
    BY <1>5 DEF GetsEvents
  <2>2. CASE at' = "last printing"
    <3>1. at = "last events" /\ response' = feed[run]
      BY <1>5, <2>2 DEF GetsEvents
    <3>2. SettledInv'
      BY <1>0, <1>3, <2>1, <3>1 DEF SettledInv, vars
    <3>3. CASE feed[run] = <<>>
      <4>1. after >= Len(feed[run])
        BY <1>0, <3>3, EmptySeq DEF ClientTypes
      <4>2. QED
        BY <2>1, <2>2, <3>2, <4>1 DEF vars, SuccessInv, LastIsWhole, SuccessIsWhole
    <3>4. CASE feed[run] # <<>>
      <4>1. feed[run][Len(feed[run])].seq >= Len(feed[run])
        BY <1>0, <3>4, Front DEF Numbered
      <4>2. response' # <<>> /\ response'[Len(response')].seq >= Len(feed[run])
        BY <3>1, <3>4, <4>1, Zenon
      <4>3. QED
        BY <2>1, <2>2, <3>2, <4>2 DEF vars, SuccessInv, LastIsWhole, SuccessIsWhole
    <3>5. QED
      BY <3>3, <3>4
  <2>3. CASE at' # "last printing"
    BY <1>2, <1>5, <2>3 DEF GetsEvents
  <2>4. QED
    BY <2>2, <2>3
<1>6. CASE Prints
  <2> DEFINE event == response[1]
  <2>1. /\ UNCHANGED vars /\ response # <<>> /\ at \in {"printing", "last printing"}
    BY <1>6 DEF Prints, Printing
  <2>2. /\ Head(response) = event /\ event.seq \in Nat \ {0} /\ after \in Nat
        /\ Len(response) \in Nat \ {0} /\ 1 \in 1 .. Len(response)
        /\ Len(Tail(response)) = Len(response) - 1
        /\ \A i \in 1 .. Len(Tail(response)) : Tail(response)[i] = response[i + 1]
        /\ Tail(response) \in Seq(Item)
    BY <1>0, <2>1, Front DEF ClientTypes
  <2>3. CASE at' = "last printing"
    <3>1. at = "last printing" /\ response' = Tail(response)
      BY <1>6, <2>1, <2>3 DEF Prints
    <3>2. after' \in {after, event.seq} /\ event.seq <= after' /\ after <= after'
      <4>1. CASE event.seq <= after
        BY <1>6, <2>2, <4>1 DEF Prints
      <4>2. CASE event.seq = after + 1
        <5>1. after' = event.seq
          BY <1>6, <2>2, <4>2 DEF Prints
        <5>2. QED
          BY <2>2, <4>2, <5>1
      <4>3. event.seq <= after + 1
        BY <1>0, <2>1, <2>2 DEF ResponseInv
      <4>4. event.seq <= after \/ event.seq = after + 1
        BY <2>2, <4>3
      <4>5. QED
        BY <4>1, <4>2, <4>4, Zenon
    <3>3. SettledInv'
      BY <1>0, <1>3, <2>1, <3>1 DEF SettledInv, vars
    <3>4. ASSUME server # "gone", response[Len(response)].seq >= Len(feed[run])
          PROVE  \/ after' >= Len(feed[run])
                 \/ response' # <<>> /\ response'[Len(response')].seq >= Len(feed[run])
      <4>1. CASE Len(response) = 1
        <5>1. event.seq >= Len(feed[run])
          BY <3>4, <4>1
        <5>2. QED
          BY <1>0, <2>2, <3>2, <5>1
      <4>2. CASE Len(response) > 1
        <5> DEFINE rest == Tail(response)
        <5>1. Len(rest) \in 1 .. Len(rest) /\ Len(rest) + 1 = Len(response)
          BY <2>2, <4>2
        <5>2. rest[Len(rest)] = response[Len(response)]
          BY <2>2, <5>1
        <5>3. rest # <<>>
          <6>1. Len(<<>>) = 0 /\ Len(rest) # 0
            BY <2>2, <5>1, EmptySeq
          <6>2. QED
            BY <6>1, Zenon
        <5>4. rest # <<>> /\ rest[Len(rest)].seq >= Len(feed[run])
          BY <3>4, <5>2, <5>3
        <5> HIDE DEF rest
        <5>5. response' = rest
          BY <3>1 DEF rest
        <5>6. QED
          BY <5>4, <5>5, Zenon
      <4>3. QED
        BY <2>2, <4>1, <4>2
    <3>5. after >= Len(feed[run]) => after' >= Len(feed[run])
      BY <1>0, <2>2, <3>2
    <3>6. LastIsWhole'
      BY <1>0, <2>1, <3>1, <3>4, <3>5 DEF LastIsWhole, vars
    <3>7. QED
      BY <2>3, <3>3, <3>6 DEF SuccessInv, SuccessIsWhole
  <2>4. CASE at' # "last printing"
    BY <1>2, <1>6, <2>1, <2>4 DEF Prints
  <2>5. QED
    BY <2>3, <2>4
<1>7. CASE Printed
  <2>1. /\ UNCHANGED vars /\ UNCHANGED <<response, after>> /\ response = <<>>
        /\ (at = "last printing" /\ at' = "ok") \/ at' = "status"
    BY <1>7 DEF Printed
  <2>2. CASE at' = "ok"
    <3>1. SettledInv' /\ SuccessIsWhole'
      BY <1>0, <1>3, <2>1, <2>2 DEF SettledInv, LastIsWhole, SuccessIsWhole, vars
    <3>2. QED
      BY <2>2, <3>1 DEF SuccessInv, LastIsWhole
  <2>3. QED
    BY <1>2, <2>1, <2>2
<1>8. CASE GetsStatus
  <2>1. UNCHANGED vars
    BY <1>8 DEF GetsStatus
  <2>2. CASE at' = "last events"
    <3>1. server = "up" /\ status[run] \in Terminal
      BY <1>8, <2>2 DEF GetsStatus, Answered
    <3>2. Settled(run)
      BY <1>0, <3>1, FollowAssumption DEF ServerInv, StatusAgrees, Settled
    <3>3. QED
      BY <1>3, <2>1, <2>2, <3>2 DEF SuccessInv, SettledInv, LastIsWhole, SuccessIsWhole
  <2>3. QED
    BY <1>2, <1>8, <2>2 DEF GetsStatus
<1>9. CASE TimeoutPasses
  BY <1>1, <1>9 DEF TimeoutPasses
<1>10. CASE Next /\ UNCHANGED client
  <2>1. UNCHANGED <<at, response, after>>
    BY <1>10 DEF client, session
  <2>2. CASE server' # "gone" /\ at \in {"last events", "last printing", "ok"}
    <3>1. server # "gone"
      BY <1>0, <1>10, <2>2, ServerStep
    <3>2. Settled(run)
      BY <1>0, <2>2, <3>1 DEF SettledInv
    <3>3. /\ Settled(run)'
          /\ feed'[run] = feed[run] \/ feed'[run] = Extended(<<>>, "failed")
          /\ feed[run] = Extended(<<>>, "failed") => feed'[run] = feed[run]
      BY <1>0, <1>10, <2>2, <3>2, SettledFeed
    <3>4. SettledInv'
      BY <3>3 DEF SettledInv
    <3>5. LastIsWhole' /\ SuccessIsWhole'
      BY <1>0, <2>1, <2>2, <3>1, <3>3 DEF LastIsWhole, SuccessIsWhole
    <3>6. QED
      BY <3>4, <3>5 DEF SuccessInv
  <2>3. CASE server' = "gone"
    BY <2>3 DEF SuccessInv, SettledInv, LastIsWhole, SuccessIsWhole
  <2>4. QED
    BY <1>2, <2>1, <2>2, <2>3
<1>11. CASE UNCHANGED followVars
  BY <1>1, <1>11 DEF followVars, client, session
<1>12. QED
  BY <1>4, <1>5, <1>6, <1>7, <1>8, <1>9, <1>10, <1>11 DEF FollowNext, ClientStep

\* A call that exits with success has printed all that its run will ever have, but for
\* the end a restart gives to an empty log (followRun, the poll after the status).
THEOREM Success == FollowSpec => []SuccessIsWhole
<1>1. FollowInit => SuccessInv
  BY DEF FollowInit, SuccessInv, SettledInv, LastIsWhole, SuccessIsWhole
<1>2. SuccessInv => SuccessIsWhole
  BY DEF SuccessInv
<1>3. QED
  BY <1>1, <1>2, PrintInitially, PrintStep, SuccessStep, PTL DEF FollowSpec
=============================================================================
