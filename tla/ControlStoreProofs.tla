------------------------- MODULE ControlStoreProofs -------------------------
(***************************************************************************)
(* What the Store promises, proved for any set of runs and keys, any bound *)
(* and any driver.  StoreInv is inductive.  It says what the holder of the *)
(* lock has still to do (LockInv), where memory and disk agree in the      *)
(* meantime (SavedInv), how the log file and the acknowledged events are   *)
(* related while frames of failed appends lie about in it (LogInv), and    *)
(* what was answered to keyed requests (ToldInv).                          *)
(***************************************************************************)
EXTENDS ControlStore, SequenceTheorems, TLAPS

-----------------------------------------------------------------------------
(* The inductive invariant.                                                  *)

Loading == {"recoverSeal", "recoverPersist"}
Creating == {"persistCreated", "prepare"}
Starting == {"persistStarted", "dispatchStart"}

\* The steps that have yet to write state.json of the run they are about.
Unsaved == {"persistCreated", "persistStarted", "persistUndispatched", "persistCompletion"} \cup Loading

\* Whoever holds the lock finds the run in the status he left it in.  A store that is
\* latched, or whose process has ended, is not locked.
LockInv ==
  /\ lock.at # "free" => lock.run \in Runs /\ latched = "no" /\ ~Stopped
  /\ lock.at \in Loading <=> lock.at # "free" /\ process = "recovering"
  /\ process \notin {"up", "draining", "closed"} => latched = "no"
  /\ lock.at \in Creating => catalog[lock.run].status = "created"
  /\ lock.at \in Starting => catalog[lock.run].status = "running"
  /\ lock.at \in {"persistUndispatched"} \cup Loading => catalog[lock.run].status = "failed"
  /\ lock.at = "dispatchStop" => catalog[lock.run].status = "stopping"
  /\ lock.at = "persistCompletion" => catalog[lock.run].status \in Terminal

\* Memory and disk agree but for what the holder of the lock has not saved yet.  What
\* has no directory is nowhere.
SavedInv ==
  \A r \in Runs :
    /\ ~Stopped /\ latched = "no" =>
         catalog[r] = saved[r] \/ (lock.at \in Unsaved /\ lock.run = r)
    /\ Stopped => catalog[r] = Absent
    /\ r \notin dirs => saved[r] = Absent /\ catalog[r] = Absent
    /\ r \notin dirs => file[r] = <<>>

\* Frames of a log that end it.
AtMostOneFinish(log) ==
  \A i, j \in 1 .. Len(log) : Finishes(log[i]) /\ Finishes(log[j]) => i = j

\* A log file that can still be read is the acknowledged events, or these and the one
\* whole frame that a failed append has left.
Continues(frames, log) ==
  \/ frames = log
  \/ Len(frames) = Len(log) + 1 /\ \A i \in 1 .. Len(log) : frames[i] = log[i]

\* A readable log never has two ends, neither in memory nor in its file, the log of a
\* run that can still end has none in memory, and what is not in the catalog has no log.
RunLogInv(r) ==
  /\ ValidFrames(events[r]) /\ AtMostOneFinish(events[r])
  /\ ValidFrames(file[r]) =>
       AtMostOneFinish(file[r]) /\ (~Stopped => Continues(file[r], events[r]))
  /\ Alive /\ catalog[r].status \notin Terminal => ~Finished(events[r])
  /\ catalog[r].status = "none" => events[r] = <<>>

LogInv == \A r \in Runs : RunLogInv(r)

\* The request the lock is held for.
Pending ==
  CASE lock.at \in Creating -> "create"
    [] lock.at \in Starting \cup {"persistUndispatched"} -> "start"
    [] lock.at = "dispatchStop" -> "stop"
    [] OTHER -> "none"

Keyed(entries) ==
  \A r \in Runs :
    /\ entries[r].answers["create"] # "none" => entries[r].key # None
    /\ \A s \in Runs : entries[r].key = entries[s].key => r = s \/ entries[r].key = None

\* What was answered to a keyed request is on disk, in memory while there is one, and
\* changes no more: the answer that may still change has not been given.
Given(a) ==
  /\ saved[a.run].answers[a.request] = a.is
  /\ ~Stopped => catalog[a.run].answers[a.request] = a.is
  /\ a.request = "create" =>
       /\ a.subject # None /\ saved[a.run].key = a.subject
       /\ ~Stopped => catalog[a.run].key = a.subject
  /\ a.request # "create" => a.subject = a.run
  /\ lock.keyed = "yes" => a.run # lock.run \/ a.request # Pending

\* The answer that is about to be given.
PendingAnswer ==
  lock.keyed = "yes" /\ Pending # "none" =>
    catalog[lock.run].answers[Pending] = IF lock.at = "persistUndispatched" THEN "failure" ELSE "ok"

ToldInv == (\A a \in told : Given(a)) /\ Keyed(saved) /\ Keyed(catalog) /\ PendingAnswer

StoreInv == TypeOK /\ LockInv /\ SavedInv /\ LogInv /\ ToldInv

-----------------------------------------------------------------------------
(* Entries and frames.                                                       *)

\* What a frame can say, and what the driver can report of a run's evidence.
Whats == {"start", "event"} \cup Terminal
DriverVerdicts(r) == {Flat("verification_error"), [is |-> "ineligible", over |-> events[r]]}

LEMMA AbsentIsEntry == Absent \in Entry /\ NoVerdict \in Verdict
<1>1. <<>> \in Seq(Frame)
  BY EmptySeq
<1>2. NoVerdict \in Verdict
  BY <1>1 DEF NoVerdict, Verdict, Verdicts
<1>3. QED
  BY <1>2 DEF Absent, Entry, Answers

LEMMA FlatIsVerdict == \A v \in Verdicts : Flat(v) \in Verdict
  BY EmptySeq DEF Flat, Verdict

LEMMA RecordedFacts ==
  ASSUME NEW e \in Entry, NEW q \in Requests, NEW keyed, NEW answer \in Answers
  PROVE /\ Recorded(e, q, keyed, answer) \in Entry
        /\ Recorded(e, q, keyed, answer).status = e.status
        /\ Recorded(e, q, keyed, answer).verdict = e.verdict
        /\ Recorded(e, q, keyed, answer).key = e.key
        /\ \A p \in Requests :
             Recorded(e, q, keyed, answer).answers[p] =
               IF p = q /\ keyed = "yes" THEN answer ELSE e.answers[p]
  BY DEF Recorded, Entry

LEMMA NewFrameIsFrame ==
  ASSUME TypeOK, NEW r \in Runs, NEW what \in Whats
  PROVE /\ NewFrame(r, what) \in Frame
        /\ [NewFrame(r, what) EXCEPT !.form = "torn"] \in Frame
        /\ [NewFrame(r, what) EXCEPT !.form = "whole"] \in Frame
<1>1. events[r] \in Seq(Frame)
  BY DEF TypeOK
<1>2. Len(events[r]) \in Nat
  BY <1>1, LenProperties
<1>3. QED
  BY <1>2 DEF NewFrame, Frame, Whats

LEMMA AppendOkTypes ==
  ASSUME TypeOK, NEW r \in Runs, NEW what \in Whats, AppendOk(r, what)
  PROVE /\ events' \in [Runs -> Seq(Frame)] /\ file' \in [Runs -> Seq(Frame)]
        /\ UNCHANGED <<sealed, marker, dirs, faults>>
<1>1. NewFrame(r, what) \in Frame
  BY NewFrameIsFrame
<1>2. events[r] \in Seq(Frame) /\ file[r] \in Seq(Frame)
  BY DEF TypeOK
<1>3. Append(events[r], NewFrame(r, what)) \in Seq(Frame) /\ Append(file[r], NewFrame(r, what)) \in Seq(Frame)
  BY <1>1, <1>2, AppendProperties
<1>4. QED
  BY <1>3 DEF AppendOk, TypeOK

\* A failed append leaves the file as it was, or one frame longer.
LEMMA AppendErrorLeaves ==
  ASSUME TypeOK, NEW r \in Runs, NEW what \in Whats, AppendError(r, what)
  PROVE /\ \/ file' = file
           \/ \E g \in Frame :
                /\ g.seq = Len(events[r]) + 1 /\ g.what = what
                /\ file' = [file EXCEPT ![r] = Append(file[r], g)]
        /\ faults' \in Nat
        /\ UNCHANGED <<events, sealed, marker, dirs>>
<1> DEFINE f == NewFrame(r, what)
           torn == [f EXCEPT !.form = "torn"]
<1>1. f \in Frame /\ torn \in Frame
  BY NewFrameIsFrame
<1>2. f.seq = Len(events[r]) + 1 /\ f.what = what /\ torn.seq = f.seq /\ torn.what = what
  BY DEF NewFrame
<1>3. file \in [Runs -> Seq(Frame)] /\ file[r] \in Seq(Frame) /\ faults \in Nat
  BY DEF TypeOK
<1>4. file[r] \o <<>> = file[r]
  BY <1>3, ConcatEmptySeq
<1>5. file[r] \o <<torn>> = Append(file[r], torn) /\ file[r] \o <<f>> = Append(file[r], f)
  BY <1>1, <1>3, AppendIsConcat
<1>6. faults' \in Nat /\ UNCHANGED <<events, sealed, marker, dirs>>
  BY <1>3 DEF AppendError, Fault
<1>7. file' = file \/ \E left \in {<<>>, <<torn>>, <<f>>} : file' = [file EXCEPT ![r] = file[r] \o left]
  <2>1. CASE ~Appendable(r) /\ UNCHANGED <<file, faults>>
    BY <2>1
  <2>2. CASE Fault /\ \E left \in {<<>>, <<torn>>, <<f>>} : file' = [file EXCEPT ![r] = @ \o left]
    BY <2>2
  <2>3. QED
    BY <2>1, <2>2, Zenon DEF AppendError
<1>8. CASE file' = file
  BY <1>6, <1>8
<1>9. CASE file' = [file EXCEPT ![r] = file[r] \o <<>>]
  <2>1. file' = file
    BY <1>3, <1>4, <1>9
  <2>2. QED
    BY <2>1, <1>6
<1>10. CASE file' = [file EXCEPT ![r] = file[r] \o <<torn>>]
  BY <1>1, <1>2, <1>5, <1>6, <1>10
<1>11. CASE file' = [file EXCEPT ![r] = file[r] \o <<f>>]
  BY <1>1, <1>2, <1>5, <1>6, <1>11
<1>12. QED
  BY <1>7, <1>8, <1>9, <1>10, <1>11

LEMMA AppendErrorTypes ==
  ASSUME TypeOK, NEW r \in Runs, NEW what \in Whats, AppendError(r, what)
  PROVE /\ file' \in [Runs -> Seq(Frame)] /\ faults' \in Nat
        /\ UNCHANGED <<events, sealed, marker, dirs>>
<1>1. file \in [Runs -> Seq(Frame)] /\ file[r] \in Seq(Frame)
  BY DEF TypeOK
<1>2. \A g \in Frame : Append(file[r], g) \in Seq(Frame)
  BY <1>1, AppendProperties
<1>3. file' = file \/ \E g \in Frame : file' = [file EXCEPT ![r] = Append(file[r], g)]
  BY AppendErrorLeaves
<1>4. file' \in [Runs -> Seq(Frame)]
  BY <1>1, <1>2, <1>3
<1>5. QED
  BY <1>4, AppendErrorLeaves

LEMMA SealTypes ==
  ASSUME TypeOK, NEW r \in Runs, SealOk(r) \/ SealError(r)
  PROVE /\ sealed' \in [Runs -> {"yes", "no"}] /\ marker' \in [Runs -> Marker] /\ faults' \in Nat
        /\ UNCHANGED <<events, file, dirs>>
<1>1. <<>> \in Seq(Frame) /\ events[r] \in Seq(Frame)
  BY EmptySeq DEF TypeOK
<1>2. [is |-> "partial", head |-> <<>>] \in Marker /\ [is |-> "whole", head |-> events[r]] \in Marker
  BY <1>1 DEF Marker
<1>3. CASE SealOk(r)
  BY <1>2, <1>3 DEF SealOk, TypeOK
<1>4. CASE SealError(r)
  <2>1. marker \in [Runs -> Marker] /\ sealed \in [Runs -> {"yes", "no"}] /\ faults \in Nat
    BY DEF TypeOK
  <2>2. UNCHANGED <<events, sealed, file, dirs>> /\ faults' \in Nat
    BY <2>1, <1>4 DEF SealError, Fault
  <2>3. \/ UNCHANGED marker
        \/ \E m \in {[is |-> "partial", head |-> <<>>], [is |-> "whole", head |-> events[r]]} :
             marker' = [marker EXCEPT ![r] = m]
    BY <1>4 DEF SealError
  <2>4. QED
    BY <2>1, <2>2, <2>3, <1>2
<1>5. QED
  BY <1>3, <1>4

LEMMA StampedTypes ==
  ASSUME TypeOK, NEW r \in Runs, NEW e, stamps' = stamps \/ Stamped(r, e)
  PROVE stamps' \in [Runs -> {"ordered", "reversed"}]
<1>1. stamps \in [Runs -> {"ordered", "reversed"}]
  BY DEF TypeOK
<1>2. stamps' = stamps
        \/ \E order \in {"ordered", "reversed"} : stamps' = [stamps EXCEPT ![r] = order]
  BY DEF Stamped
<1>3. QED
  BY <1>1, <1>2

LEMMA PersistTypes ==
  ASSUME TypeOK, NEW r \in Runs, NEW e \in Entry, PersistOk(r, e) \/ PersistFails(r, e)
  PROVE /\ saved' \in [Runs -> Entry] /\ stamps' \in [Runs -> {"ordered", "reversed"}]
        /\ latched' \in {"yes", "no"} /\ faults' \in Nat
<1>1. saved \in [Runs -> Entry] /\ latched \in {"yes", "no"} /\ faults \in Nat
  BY DEF TypeOK
<1>2. saved' \in {saved, [saved EXCEPT ![r] = e]}
  BY DEF PersistOk, PersistFails, State
<1>3. latched' \in {"yes", "no"} /\ faults' \in Nat
  BY <1>1 DEF PersistOk, PersistFails, Fault
<1>4. stamps' = stamps \/ Stamped(r, e)
  BY DEF PersistOk, PersistFails
<1>5. QED
  BY <1>1, <1>2, <1>3, <1>4, StampedTypes


-----------------------------------------------------------------------------
(* Types.                                                                    *)

LEMMA EntryEdits ==
  ASSUME NEW e \in Entry
  PROVE /\ \A s \in Statuses : [e EXCEPT !.status = s] \in Entry
        /\ \A v \in Verdict : [e EXCEPT !.verdict = v] \in Entry
        /\ \A s \in Statuses : \A v \in Verdict : [e EXCEPT !.status = s, !.verdict = v] \in Entry
  BY DEF Entry

LEMMA NewEntry ==
  ASSUME NEW k \in Keys \cup {None}, NEW answer \in Answers
  PROVE [Absent EXCEPT !.status = "created", !.key = k, !.answers["create"] = answer] \in Entry
  BY AbsentIsEntry DEF Entry, Statuses, Requests

\* An answer is only recorded for a request with a key.
LEMMA TellTypes ==
  ASSUME TypeOK, NEW q \in Requests, NEW r \in Runs, NEW answer \in {"ok", "failure"},
         q = "create" /\ lock.keyed = "yes" => catalog[r].key \in Keys,
         TellIfKeyed(q, r, answer)
  PROVE told' \in SUBSET Told
<1>1. CASE lock.keyed = "yes"
  <2> DEFINE subject == IF q = "create" THEN catalog[r].key ELSE r
             t == [request |-> q, subject |-> subject, run |-> r, is |-> answer]
  <2>1. t \in Told
    BY <1>1 DEF Told
  <2>2. told' = told \cup {t}
    BY <1>1 DEF TellIfKeyed, Tell
  <2>3. QED
    BY <2>1, <2>2 DEF TypeOK
<1>2. CASE lock.keyed # "yes"
  BY <1>2 DEF TellIfKeyed, TypeOK
<1>3. QED
  BY <1>1, <1>2

\* The key of a create request whose answer is on the way.
LEMMA CreateHasKey ==
  ASSUME StoreInv, lock.at \in Creating, lock.keyed = "yes"
  PROVE lock.run \in Runs /\ catalog[lock.run].key \in Keys
<1>1. lock.run \in Runs /\ Pending = "create"
  BY DEF StoreInv, LockInv, Creating, Pending
<1>2. catalog[lock.run].answers["create"] = "ok"
  BY <1>1 DEF StoreInv, ToldInv, PendingAnswer, Creating
<1>3. catalog[lock.run].key # None /\ catalog[lock.run] \in Entry
  BY <1>1, <1>2 DEF StoreInv, ToldInv, Keyed, TypeOK
<1>4. QED
  BY <1>1, <1>3 DEF Entry


LEMMA VerdictsToSet ==
  ASSUME TypeOK, NEW r \in Runs, NEW v \in DriverVerdicts(r)
  PROVE v \in Verdict
  BY FlatIsVerdict DEF DriverVerdicts, Verdict, Verdicts, TypeOK

LEMMA LeavesTypes ==
  ASSUME TypeOK, NEW r \in Runs
  PROVE AppendLeaves(r) \subseteq Seq(Frame) /\ SealLeaves(r) \subseteq Marker
<1>1. file[r] \in Seq(Frame) /\ events[r] \in Seq(Frame) /\ <<>> \in Seq(Frame)
  BY EmptySeq DEF TypeOK
<1>2. \A f \in {"torn", "whole"} : [NewFrame(r, "failed") EXCEPT !.form = f] \in Frame
  BY NewFrameIsFrame DEF Whats, Terminal
<1>3. \A f \in {"torn", "whole"} :
        Append(file[r], [NewFrame(r, "failed") EXCEPT !.form = f]) \in Seq(Frame)
  BY <1>1, <1>2, AppendProperties
<1>4. SealLeaves(r) \subseteq Marker
  BY <1>1 DEF SealLeaves, NoMarker, Marker
<1>5. QED
  BY <1>1, <1>3, <1>4 DEF AppendLeaves

LEMMA TypeStep == StoreInv /\ Next => TypeOK'
<1> SUFFICES ASSUME StoreInv, Next PROVE TypeOK'
  OBVIOUS
<1>0. TypeOK
  BY DEF StoreInv
<1> USE <1>0
<1>1. ASSUME NEW r \in Runs, NEW k \in Keys \cup {None}, Create(r, k) PROVE TypeOK'
  BY <1>1, NewEntry DEF TypeOK, Create, Lock, Take, Answers, memory, logs, NewRun
<1>2. ASSUME NEW r \in Runs, CreateFails(r) PROVE TypeOK'
  BY <1>2 DEF TypeOK, CreateFails, Fault, memory
<1>3. ASSUME NEW r \in Runs, CreatedPersisted(r) PROVE TypeOK'
  BY <1>3, PersistTypes DEF TypeOK, CreatedPersisted, Held, Continue, Unlock, Unlocked, Lock, logs
<1>4. ASSUME NEW r \in Runs, CreatedUnpersisted(r) PROVE TypeOK'
  BY <1>4, PersistTypes DEF TypeOK, CreatedUnpersisted, Unlock, Unlocked, Lock, logs
<1>5. ASSUME NEW r \in Runs, NEW keyed \in {"yes", "no"}, Start(r, keyed) PROVE TypeOK'
  <2> DEFINE e == Recorded([catalog[r] EXCEPT !.status = "running"], "start", keyed, "ok")
  <2>1. catalog[r] \in Entry /\ "running" \in Statuses /\ "start" \in Requests /\ "ok" \in Answers
    BY DEF TypeOK, Statuses, Requests, Answers
  <2>2. e \in Entry
    BY <2>1, EntryEdits, RecordedFacts
  <2>3. catalog' = [catalog EXCEPT ![r] = e] /\ AppendOk(r, "start") /\ Take("persistStarted", r, keyed)
        /\ UNCHANGED <<process, latched, saved, stamps, told, crashes>>
    BY <1>5 DEF Start
  <2>4. lock' \in Lock
    BY <2>3 DEF Take, Lock
  <2>5. QED
    BY <2>2, <2>3, <2>4, AppendOkTypes DEF Whats, TypeOK
<1>6. ASSUME NEW r \in Runs, StartFails(r) PROVE TypeOK'
  BY <1>6, AppendErrorTypes DEF TypeOK, StartFails, Whats
<1>7. ASSUME NEW r \in Runs, StartPersisted(r) PROVE TypeOK'
  BY <1>7, PersistTypes DEF TypeOK, StartPersisted, Held, Continue, Unlock, Unlocked, Lock, logs
<1>8. ASSUME NEW r \in Runs, StartUnpersisted(r) PROVE TypeOK'
  BY <1>8, PersistTypes DEF TypeOK, StartUnpersisted, Unlock, Unlocked, Lock, logs
<1>9. ASSUME NEW r \in Runs, UndispatchedPersists(r) PROVE TypeOK'
  BY <1>9, PersistTypes, TellTypes
     DEF TypeOK, UndispatchedPersists, Unlock, Unlocked, Lock, logs, Requests
<1>10. ASSUME NEW r \in Runs, NEW keyed \in {"yes", "no"}, Stop(r, keyed) PROVE TypeOK'
  <2> DEFINE e == Recorded([catalog[r] EXCEPT !.status = "stopping"], "stop", keyed, "ok")
  <2>1. catalog[r] \in Entry /\ "stopping" \in Statuses /\ "stop" \in Requests /\ "ok" \in Answers
    BY DEF TypeOK, Statuses, Requests, Answers
  <2>2. e \in Entry
    BY <2>1, EntryEdits, RecordedFacts
  <2>3. /\ catalog' = [catalog EXCEPT ![r] = e]
        /\ \/ PersistOk(r, e) /\ Take("dispatchStop", r, keyed)
           \/ PersistFails(r, e) /\ UNCHANGED lock
        /\ UNCHANGED <<process, logs, dirs, told, crashes>>
    BY <1>10, Zenon DEF Stop
  <2>4. lock' \in Lock
    BY <2>3 DEF Take, Lock, TypeOK
  <2>5. /\ saved' \in [Runs -> Entry] /\ stamps' \in [Runs -> {"ordered", "reversed"}]
        /\ latched' \in {"yes", "no"} /\ faults' \in Nat
    BY <2>2, <2>3, PersistTypes
  <2>6. QED
    BY <2>2, <2>3, <2>4, <2>5 DEF TypeOK, logs
<1>11. ASSUME NEW r \in Runs, NEW q \in Requests, Replay(q, r) PROVE TypeOK'
  <2> DEFINE subject == IF q = "create" THEN catalog[r].key ELSE r
             t == [request |-> q, subject |-> subject, run |-> r, is |-> catalog[r].answers[q]]
  <2>1. catalog[r] \in Entry /\ catalog[r].answers[q] # "none"
    BY <1>11 DEF TypeOK, Replay
  <2>2. catalog[r].answers[q] \in {"ok", "failure"} /\ catalog[r].key \in Keys \cup {None}
    BY <2>1 DEF Entry, Answers
  <2>3. q = "create" => catalog[r].key # None
    BY <2>1 DEF StoreInv, ToldInv, Keyed
  <2>4. t \in Told
    BY <2>2, <2>3 DEF Told
  <2>5. told' = told \cup {t} /\ UNCHANGED <<memory, storage, faults, crashes>>
    BY <1>11 DEF Replay, Tell
  <2>6. QED
    BY <2>4, <2>5 DEF TypeOK, memory, storage
<1>12. ASSUME NEW r \in Runs, Prepared(r) PROVE TypeOK'
  BY <1>12, TellTypes, CreateHasKey
     DEF TypeOK, Prepared, Unlock, Unlocked, Lock, logs, Requests, Held, Creating
<1>13. ASSUME NEW r \in Runs, Unprepared(r) PROVE TypeOK'
  BY <1>13, TellTypes, CreateHasKey, PersistTypes, RecordedFacts, EntryEdits, FlatIsVerdict
     DEF TypeOK, Unprepared, Unlock, Unlocked, Lock, logs, Requests, Held, Creating, Statuses,
         Verdicts, Answers, Terminal
<1>14. ASSUME NEW r \in Runs, Dispatched(r) PROVE TypeOK'
  BY <1>14, TellTypes DEF TypeOK, Dispatched, Unlock, Unlocked, Lock, logs, Requests
<1>15. ASSUME NEW r \in Runs, Undispatched(r) PROVE TypeOK'
  <2> DEFINE e == Recorded([catalog[r] EXCEPT !.status = "failed"], "start", lock.keyed, "failure")
  <2>1. catalog[r] \in Entry /\ "failed" \in Statuses /\ "start" \in Requests /\ "failure" \in Answers
        /\ "failed" \in Whats
    BY DEF TypeOK, Statuses, Requests, Answers, Terminal, Whats
  <2>2. e \in Entry
    BY <2>1, EntryEdits, RecordedFacts
  <2>3. \/ AppendOk(r, "failed") /\ catalog' = [catalog EXCEPT ![r] = e]
              /\ Continue("persistUndispatched")
        \/ AppendError(r, "failed") /\ Unlock /\ UNCHANGED catalog
    BY <1>15 DEF Undispatched
  <2>4. UNCHANGED <<process, latched, saved, stamps, told, crashes>>
    BY <1>15 DEF Undispatched
  <2>5. lock' \in Lock
    <3>1. lock \in Lock
      BY DEF TypeOK
    <3>2. lock' = [lock EXCEPT !.at = "persistUndispatched"] \/ lock' = Unlocked
      BY <2>3 DEF Continue, Unlock
    <3>3. QED
      BY <3>1, <3>2 DEF Unlocked, Lock
  <2>6. catalog' \in [Runs -> Entry]
    BY <2>2, <2>3 DEF TypeOK
  <2>7. /\ events' \in [Runs -> Seq(Frame)] /\ file' \in [Runs -> Seq(Frame)]
        /\ faults' \in Nat /\ UNCHANGED <<sealed, marker, dirs>>
    BY <2>1, <2>3, AppendOkTypes, AppendErrorTypes DEF TypeOK
  <2>8. QED
    BY <2>4, <2>5, <2>6, <2>7 DEF TypeOK
<1>16. ASSUME NEW r \in Runs, StopDispatched(r) PROVE TypeOK'
  BY <1>16, TellTypes DEF TypeOK, StopDispatched, Unlock, Unlocked, Lock, logs, Requests
<1>17. ASSUME NEW r \in Runs, StopUndispatched(r) PROVE TypeOK'
  BY <1>17, TellTypes, PersistTypes, RecordedFacts, EntryEdits
     DEF TypeOK, StopUndispatched, Unlock, Unlocked, Lock, logs, Requests, Statuses, Answers
<1>18. ASSUME NEW r \in Runs, NEW status \in {"completed", "failed"}, Completes(r, status)
       PROVE TypeOK'
  BY <1>18, AppendOkTypes, EntryEdits
     DEF TypeOK, Completes, Take, Lock, Whats, Terminal, Statuses, FinalStatus
<1>19. ASSUME NEW r \in Runs, NEW status \in {"completed", "failed"}, CompleteFails(r, status)
       PROVE TypeOK'
  BY <1>19, AppendErrorTypes DEF TypeOK, CompleteFails, Whats, Terminal, FinalStatus, logs
<1>20. ASSUME NEW r \in Runs, CompletionPersisted(r) PROVE TypeOK'
  BY <1>20, PersistTypes DEF TypeOK, CompletionPersisted, Unlock, Unlocked, Lock, logs
<1>21. ASSUME NEW r \in Runs, CompletionUnpersisted(r) PROVE TypeOK'
  BY <1>21, PersistTypes DEF TypeOK, CompletionUnpersisted, Unlock, Unlocked, Lock, logs
<1>22. ASSUME NEW r \in Runs, AppendEvent(r) PROVE TypeOK'
  BY <1>22, AppendOkTypes DEF TypeOK, AppendEvent, Whats
<1>23. ASSUME NEW r \in Runs, AppendEventFails(r) PROVE TypeOK'
  BY <1>23, AppendErrorTypes DEF TypeOK, AppendEventFails, Whats, logs
<1>24. ASSUME NEW r \in Runs, SealRun(r) PROVE TypeOK'
  BY <1>24, SealTypes DEF TypeOK, SealRun
<1>25. ASSUME NEW r \in Runs, SealRunFails(r) PROVE TypeOK'
  BY <1>25, SealTypes DEF TypeOK, SealRunFails
<1>26. ASSUME NEW r \in Runs, NEW v \in DriverVerdicts(r), SetEvidenceVerification(r, v)
       PROVE TypeOK'
  <2> DEFINE e == [catalog[r] EXCEPT !.verdict = v]
  <2>1. e \in Entry
    BY VerdictsToSet, EntryEdits DEF TypeOK
  <2>2. UNCHANGED <<process, lock, logs, dirs, told, crashes>>
    BY <1>26 DEF SetEvidenceVerification
  <2>3. catalog' = [catalog EXCEPT ![r] = e] /\ PersistOk(r, e)
    BY <1>26, Zenon DEF SetEvidenceVerification
  <2>4. QED
    BY <2>1, <2>2, <2>3, PersistTypes DEF TypeOK, logs
<1>27. ASSUME NEW r \in Runs, NEW v \in DriverVerdicts(r), SetEvidenceVerificationFails(r, v)
       PROVE TypeOK'
  <2> DEFINE e == [catalog[r] EXCEPT !.verdict = v]
  <2>1. e \in Entry
    BY VerdictsToSet, EntryEdits DEF TypeOK
  <2>2. UNCHANGED <<process, lock, logs, dirs, told, crashes>>
    BY <1>27 DEF SetEvidenceVerificationFails
  <2>3. \/ UNCHANGED <<catalog, saved, stamps, latched, faults>>
        \/ catalog' = [catalog EXCEPT ![r] = e] /\ PersistFails(r, e)
    BY <1>27, Zenon DEF SetEvidenceVerificationFails
  <2>4. QED
    BY <2>1, <2>2, <2>3, PersistTypes DEF TypeOK, logs
<1>28. ASSUME NEW r \in Runs, RecoverFinishes(r) PROVE TypeOK'
  BY <1>28, AppendOkTypes, EntryEdits, FlatIsVerdict
     DEF TypeOK, RecoverFinishes, AsInterrupted, Take, Lock, Whats, Terminal, Statuses, Verdicts,
         logs
<1>29. ASSUME NEW r \in Runs, RecoverSeals(r) PROVE TypeOK'
  BY <1>29, SealTypes DEF TypeOK, RecoverSeals, Continue, Lock, Held
<1>30. ASSUME NEW r \in Runs, RecoverPersists(r) PROVE TypeOK'
  BY <1>30, PersistTypes DEF TypeOK, RecoverPersists, Held, Continue, Unlock, Unlocked, Lock, logs
<1>31. ASSUME NEW r \in Runs, RecoveryFails(r) PROVE TypeOK'
  <2>1. /\ catalog' = [s \in Runs |-> Absent] /\ events' = [s \in Runs |-> <<>>]
        /\ sealed' = [s \in Runs |-> "no"] /\ process' = "refused" /\ lock' = Unlocked
        /\ latched' = "no" /\ UNCHANGED <<dirs, told, crashes>>
    BY <1>31 DEF RecoveryFails, Refuse, Unlock
  <2>2. file \in [Runs -> Seq(Frame)] /\ marker \in [Runs -> Marker] /\ saved \in [Runs -> Entry]
    BY DEF TypeOK
  <2>3. AppendLeaves(r) \subseteq Seq(Frame) /\ SealLeaves(r) \subseteq Marker
    BY LeavesTypes
  <2>4. faults' \in Nat
    BY <1>31 DEF RecoveryFails, Fault, TypeOK
  <2>5. file' = file \/ \E left \in AppendLeaves(r) : file' = [file EXCEPT ![r] = left]
    BY <1>31 DEF RecoveryFails
  <2>6. marker' = marker \/ \E left \in SealLeaves(r) : marker' = [marker EXCEPT ![r] = left]
    BY <1>31 DEF RecoveryFails
  <2>7. saved' \in {saved, [saved EXCEPT ![r] = catalog[r]]}
    BY <1>31 DEF RecoveryFails, State
  <2>8. file' \in [Runs -> Seq(Frame)]
    BY <2>2, <2>3, <2>5
  <2>9. marker' \in [Runs -> Marker]
    BY <2>2, <2>3, <2>6
  <2>10. saved' \in [Runs -> Entry]
    BY <2>2, <2>7 DEF TypeOK
  <2>11. lock' \in Lock
    BY <2>1 DEF Unlocked, Lock
  <2>12. stamps' = stamps \/ Stamped(r, catalog[r])
    BY <1>31 DEF RecoveryFails
  <2>13. stamps' \in [Runs -> {"ordered", "reversed"}]
    BY <2>12, StampedTypes
  <2>14. QED
    BY <2>1, <2>4, <2>8, <2>9, <2>10, <2>11, <2>13, AbsentIsEntry, EmptySeq DEF TypeOK
<1>32. CASE OpenStore
  BY <1>32, AbsentIsEntry, EmptySeq DEF TypeOK, OpenStore, storage
<1>33. CASE OpenStoreRefuses
  BY <1>33 DEF TypeOK, OpenStoreRefuses, storage, logs
<1>34. CASE Serve
  BY <1>34 DEF TypeOK, Serve, storage, logs
<1>35. CASE Reject
  BY <1>35, AbsentIsEntry, EmptySeq DEF TypeOK, Reject, Refuse, Unlock, Unlocked, Lock, storage
<1>36. CASE Drain
  BY <1>36 DEF TypeOK, Drain, storage, logs
<1>37. CASE Close
  BY <1>37 DEF TypeOK, Close, storage, logs
<1>38. CASE Exit
  BY <1>38, AbsentIsEntry, EmptySeq DEF TypeOK, Exit, MemoryLost, Unlock, Unlocked, Lock, storage
<1>39. CASE Crash
  BY <1>39, AbsentIsEntry, EmptySeq DEF TypeOK, Crash, MemoryLost, Unlock, Unlocked, Lock, storage
<1>40. ASSUME NEW r \in Runs, CrashInSeal(r) PROVE TypeOK'
  <2>1. [is |-> "partial", head |-> <<>>] \in Marker
    BY EmptySeq DEF Marker
  <2>2. QED
    BY <1>40, <2>1, AbsentIsEntry, EmptySeq
       DEF TypeOK, CrashInSeal, MemoryLost, Unlock, Unlocked, Lock
<1>41. QED
  BY <1>1, <1>2, <1>3, <1>4, <1>5, <1>6, <1>7, <1>8, <1>9, <1>10, <1>11, <1>12, <1>13, <1>14,
         <1>15, <1>16, <1>17, <1>18, <1>19, <1>20, <1>21, <1>22, <1>23, <1>24, <1>25, <1>26,
         <1>27, <1>28, <1>29, <1>30, <1>31, <1>32, <1>33, <1>34, <1>35, <1>36, <1>37, <1>38, <1>39,
         <1>40
     DEF Next, ClientStep, DriverAnswers, DriverCalls, Recovery, ProcessStep, DriverVerdicts

-----------------------------------------------------------------------------
(* The steps that record an answer.                                          *)

\* The run gets a status and an answer, in memory and, unless that is still to come or
\* has failed, in state.json.
GivesAnswer(r, status, q, keyed, answer) ==
  \E e \in Entry :
    /\ e.status = status /\ e.key = catalog[r].key
    /\ \A p \in Requests :
         e.answers[p] = IF p = q /\ keyed = "yes" THEN answer ELSE catalog[r].answers[p]
    /\ catalog' = [catalog EXCEPT ![r] = e]
    /\ saved' \in {saved, [saved EXCEPT ![r] = e]}
    /\ latched' = "yes" \/ (lock'.at \in Unsaved /\ lock'.run = r) \/ saved'[r] = e

LEMMA StartAnswers ==
  ASSUME TypeOK, NEW r \in Runs, NEW keyed \in {"yes", "no"}, Start(r, keyed)
  PROVE GivesAnswer(r, "running", "start", keyed, "ok")
<1> DEFINE y == [catalog[r] EXCEPT !.status = "running"]
           e == Recorded(y, "start", keyed, "ok")
<1>1. /\ y \in Entry /\ y.status = "running" /\ y.key = catalog[r].key
      /\ y.answers = catalog[r].answers
  <2>1. catalog[r] \in Entry
    BY DEF TypeOK
  <2>2. QED
    BY <2>1 DEF Entry, Statuses, Terminal
<1>2. catalog' = [catalog EXCEPT ![r] = e]
  BY DEF Start
<1>3. saved' = saved /\ lock'.at \in Unsaved /\ lock'.run = r
  BY DEF Start, Held, Continue, Take, Unsaved, TypeOK, Lock
<1> HIDE DEF y
<1>4. /\ e \in Entry /\ e.status = "running" /\ e.key = catalog[r].key
      /\ \A p \in Requests :
           e.answers[p] = IF p = "start" /\ keyed = "yes" THEN "ok" ELSE catalog[r].answers[p]
  BY <1>1, RecordedFacts DEF Requests, Answers
<1> HIDE DEF e
<1>5. QED
  BY <1>2, <1>3, <1>4 DEF GivesAnswer, TypeOK

LEMMA StopAnswers ==
  ASSUME TypeOK, NEW r \in Runs, NEW keyed \in {"yes", "no"}, Stop(r, keyed)
  PROVE GivesAnswer(r, "stopping", "stop", keyed, "ok")
<1> DEFINE y == [catalog[r] EXCEPT !.status = "stopping"]
           e == Recorded(y, "stop", keyed, "ok")
<1>1. /\ y \in Entry /\ y.status = "stopping" /\ y.key = catalog[r].key
      /\ y.answers = catalog[r].answers
  <2>1. catalog[r] \in Entry
    BY DEF TypeOK
  <2>2. QED
    BY <2>1 DEF Entry, Statuses, Terminal
<1>2. catalog' = [catalog EXCEPT ![r] = e] /\ (PersistOk(r, e) \/ PersistFails(r, e))
  BY DEF Stop
<1>3. /\ saved' \in {saved, [saved EXCEPT ![r] = e]}
      /\ latched' = "yes" \/ saved' = [saved EXCEPT ![r] = e]
  BY <1>2 DEF PersistOk, PersistFails, State
<1> HIDE DEF y
<1>4. /\ e \in Entry /\ e.status = "stopping" /\ e.key = catalog[r].key
      /\ \A p \in Requests :
           e.answers[p] = IF p = "stop" /\ keyed = "yes" THEN "ok" ELSE catalog[r].answers[p]
  BY <1>1, RecordedFacts DEF Requests, Answers
<1> HIDE DEF e
<1>5. QED
  BY <1>2, <1>3, <1>4 DEF GivesAnswer, TypeOK

LEMMA UndispatchedAnswers ==
  ASSUME TypeOK, NEW r \in Runs, Undispatched(r), ~Unlock
  PROVE GivesAnswer(r, "failed", "start", lock.keyed, "failure")
<1> DEFINE y == [catalog[r] EXCEPT !.status = "failed"]
           e == Recorded(y, "start", lock.keyed, "failure")
<1>1. /\ y \in Entry /\ y.status = "failed" /\ y.key = catalog[r].key
      /\ y.answers = catalog[r].answers
  <2>1. catalog[r] \in Entry
    BY DEF TypeOK
  <2>2. QED
    BY <2>1 DEF Entry, Statuses, Terminal
<1>2. catalog' = [catalog EXCEPT ![r] = e]
  BY DEF Undispatched
<1>3. saved' = saved /\ lock'.at \in Unsaved /\ lock'.run = r
  BY DEF Undispatched, Held, Continue, Take, Unsaved, TypeOK, Lock
<1> HIDE DEF y
<1>4. /\ e \in Entry /\ e.status = "failed" /\ e.key = catalog[r].key
      /\ \A p \in Requests :
           e.answers[p] = IF p = "start" /\ lock.keyed = "yes" THEN "failure" ELSE catalog[r].answers[p]
  BY <1>1, RecordedFacts DEF Requests, Answers
<1> HIDE DEF e
<1>5. QED
  BY <1>2, <1>3, <1>4 DEF GivesAnswer, TypeOK

LEMMA UnpreparedAnswers ==
  ASSUME TypeOK, NEW r \in Runs, Unprepared(r)
  PROVE GivesAnswer(r, "failed", "create", lock.keyed, "failure")
<1> DEFINE y == [catalog[r] EXCEPT !.status = "failed", !.verdict = Flat("verification_error")]
           e == Recorded(y, "create", lock.keyed, "failure")
<1>1. /\ y \in Entry /\ y.status = "failed" /\ y.key = catalog[r].key
      /\ y.answers = catalog[r].answers
  <2>1. catalog[r] \in Entry
    BY DEF TypeOK
  <2>2. QED
    BY <2>1, FlatIsVerdict DEF Entry, Statuses, Terminal, Verdicts
<1>2. catalog' = [catalog EXCEPT ![r] = e] /\ (PersistOk(r, e) \/ PersistFails(r, e))
  BY DEF Unprepared
<1>3. /\ saved' \in {saved, [saved EXCEPT ![r] = e]}
      /\ latched' = "yes" \/ saved' = [saved EXCEPT ![r] = e]
  BY <1>2 DEF PersistOk, PersistFails, State
<1> HIDE DEF y
<1>4. /\ e \in Entry /\ e.status = "failed" /\ e.key = catalog[r].key
      /\ \A p \in Requests :
           e.answers[p] = IF p = "create" /\ lock.keyed = "yes" THEN "failure" ELSE catalog[r].answers[p]
  BY <1>1, RecordedFacts DEF Requests, Answers
<1> HIDE DEF e
<1>5. QED
  BY <1>2, <1>3, <1>4 DEF GivesAnswer, TypeOK

LEMMA StopUndispatchedAnswers ==
  ASSUME TypeOK, NEW r \in Runs, StopUndispatched(r)
  PROVE GivesAnswer(r, "running", "stop", lock.keyed, "failure")
<1> DEFINE y == [catalog[r] EXCEPT !.status = "running"]
           e == Recorded(y, "stop", lock.keyed, "failure")
<1>1. /\ y \in Entry /\ y.status = "running" /\ y.key = catalog[r].key
      /\ y.answers = catalog[r].answers
  <2>1. catalog[r] \in Entry
    BY DEF TypeOK
  <2>2. QED
    BY <2>1 DEF Entry, Statuses, Terminal
<1>2. catalog' = [catalog EXCEPT ![r] = e] /\ (PersistOk(r, e) \/ PersistFails(r, e))
  BY DEF StopUndispatched
<1>3. /\ saved' \in {saved, [saved EXCEPT ![r] = e]}
      /\ latched' = "yes" \/ saved' = [saved EXCEPT ![r] = e]
  BY <1>2 DEF PersistOk, PersistFails, State
<1> HIDE DEF y
<1>4. /\ e \in Entry /\ e.status = "running" /\ e.key = catalog[r].key
      /\ \A p \in Requests :
           e.answers[p] = IF p = "stop" /\ lock.keyed = "yes" THEN "failure" ELSE catalog[r].answers[p]
  BY <1>1, RecordedFacts DEF Requests, Answers
<1> HIDE DEF e
<1>5. QED
  BY <1>2, <1>3, <1>4 DEF GivesAnswer, TypeOK


-----------------------------------------------------------------------------
(* The holder of the lock.                                                   *)

LEMMA LockStep == StoreInv /\ Next => LockInv'
<1> SUFFICES ASSUME StoreInv, Next PROVE LockInv'
  OBVIOUS
<1>0. TypeOK /\ LockInv
  BY DEF StoreInv
<1>a. /\ process \in {"down", "recovering", "up", "draining", "closed", "refused"}
      /\ lock \in Lock /\ catalog \in [Runs -> Entry] /\ \A r \in Runs : catalog[r] \in Entry
  BY <1>0 DEF TypeOK
<1> USE <1>0, <1>a
<1> USE DEF LockInv, Loading, Creating, Starting, Terminal, Stopped, vars, memory, storage, logs,
            Free, Serving, Calling, Alive, Recovering, Held, Unlock, Unlocked, Continue, Take
<1>1. ASSUME NEW r \in Runs, NEW k \in Keys \cup {None}, Create(r, k) PROVE LockInv'
  BY <1>1 DEF Create
<1>2. ASSUME NEW r \in Runs, CreateFails(r) PROVE LockInv'
  BY <1>2 DEF CreateFails
<1>3. ASSUME NEW r \in Runs, CreatedPersisted(r) PROVE LockInv'
  BY <1>3 DEF CreatedPersisted, PersistOk, PersistFails
<1>4. ASSUME NEW r \in Runs, CreatedUnpersisted(r) PROVE LockInv'
  BY <1>4 DEF CreatedUnpersisted, PersistOk, PersistFails
<1>5. ASSUME NEW r \in Runs, NEW keyed \in {"yes", "no"}, Start(r, keyed) PROVE LockInv'
  <2>1. catalog'[r].status = "running"
    BY <1>5, StartAnswers DEF GivesAnswer
  <2>2. lock' = [at |-> "persistStarted", run |-> r, keyed |-> keyed] /\ UNCHANGED <<process, latched>>
        /\ latched = "no" /\ process = "up"
    BY <1>5 DEF Start
  <2>3. QED
    BY <2>1, <2>2
<1>6. ASSUME NEW r \in Runs, StartFails(r) PROVE LockInv'
  BY <1>6 DEF StartFails
<1>7. ASSUME NEW r \in Runs, StartPersisted(r) PROVE LockInv'
  BY <1>7 DEF StartPersisted, PersistOk, PersistFails
<1>8. ASSUME NEW r \in Runs, StartUnpersisted(r) PROVE LockInv'
  BY <1>8 DEF StartUnpersisted, PersistOk, PersistFails
<1>9. ASSUME NEW r \in Runs, UndispatchedPersists(r) PROVE LockInv'
  BY <1>9 DEF UndispatchedPersists, PersistOk, PersistFails
<1>10. ASSUME NEW r \in Runs, NEW keyed \in {"yes", "no"}, Stop(r, keyed) PROVE LockInv'
  <2>1. catalog'[r].status = "stopping"
    BY <1>10, StopAnswers DEF GivesAnswer
  <2>2. latched = "no" /\ process = "up" /\ process' = process
    BY <1>10 DEF Stop
  <2>3. \/ lock' = [at |-> "dispatchStop", run |-> r, keyed |-> keyed] /\ latched' = latched
        \/ lock.at = "free" /\ lock' = lock /\ latched' = "yes"
    BY <1>10 DEF Stop, PersistOk, PersistFails
  <2>4. QED
    BY <2>1, <2>2, <2>3
<1>11. ASSUME NEW r \in Runs, NEW q \in Requests, Replay(q, r) PROVE LockInv'
  BY <1>11 DEF Replay
<1>12. ASSUME NEW r \in Runs, Prepared(r) PROVE LockInv'
  BY <1>12 DEF Prepared
<1>13. ASSUME NEW r \in Runs, Unprepared(r) PROVE LockInv'
  BY <1>13, UnpreparedAnswers DEF Unprepared, GivesAnswer, PersistOk, PersistFails
<1>14. ASSUME NEW r \in Runs, Dispatched(r) PROVE LockInv'
  BY <1>14 DEF Dispatched
<1>15. ASSUME NEW r \in Runs, Undispatched(r) PROVE LockInv'
  <2>1. CASE Unlock
    BY <1>15, <2>1 DEF Undispatched
  <2>2. CASE ~Unlock
    <3>1. catalog'[r].status = "failed"
      BY <1>15, <2>2, UndispatchedAnswers DEF GivesAnswer
    <3>2. lock' = [lock EXCEPT !.at = "persistUndispatched"] /\ UNCHANGED <<process, latched>>
          /\ lock.at # "free" /\ lock.run = r /\ lock.at \notin Loading
      BY <1>15, <2>2 DEF Undispatched
    <3>3. QED
      BY <3>1, <3>2 DEF Lock
  <2>3. QED
    BY <2>1, <2>2
<1>16. ASSUME NEW r \in Runs, StopDispatched(r) PROVE LockInv'
  BY <1>16 DEF StopDispatched
<1>17. ASSUME NEW r \in Runs, StopUndispatched(r) PROVE LockInv'
  BY <1>17, StopUndispatchedAnswers DEF StopUndispatched, GivesAnswer, PersistOk, PersistFails
<1>18. ASSUME NEW r \in Runs, NEW status \in {"completed", "failed"}, Completes(r, status)
       PROVE LockInv'
  BY <1>18 DEF Completes, FinalStatus, Completable
<1>19. ASSUME NEW r \in Runs, NEW status \in {"completed", "failed"}, CompleteFails(r, status)
       PROVE LockInv'
  BY <1>19 DEF CompleteFails
<1>20. ASSUME NEW r \in Runs, CompletionPersisted(r) PROVE LockInv'
  BY <1>20 DEF CompletionPersisted, PersistOk, PersistFails
<1>21. ASSUME NEW r \in Runs, CompletionUnpersisted(r) PROVE LockInv'
  BY <1>21 DEF CompletionUnpersisted, PersistOk, PersistFails
<1>22. ASSUME NEW r \in Runs, AppendEvent(r) PROVE LockInv'
  BY <1>22 DEF AppendEvent
<1>23. ASSUME NEW r \in Runs, AppendEventFails(r) PROVE LockInv'
  BY <1>23 DEF AppendEventFails
<1>24. ASSUME NEW r \in Runs, SealRun(r) PROVE LockInv'
  BY <1>24 DEF SealRun, SealOk
<1>25. ASSUME NEW r \in Runs, SealRunFails(r) PROVE LockInv'
  BY <1>25 DEF SealRunFails, SealError
<1>26. ASSUME NEW r \in Runs, NEW v \in DriverVerdicts(r), SetEvidenceVerification(r, v)
       PROVE LockInv'
  BY <1>26 DEF SetEvidenceVerification, PersistOk, PersistFails
<1>27. ASSUME NEW r \in Runs, NEW v \in DriverVerdicts(r), SetEvidenceVerificationFails(r, v)
       PROVE LockInv'
  BY <1>27 DEF SetEvidenceVerificationFails, PersistOk, PersistFails
<1>28. ASSUME NEW r \in Runs, RecoverFinishes(r) PROVE LockInv'
  BY <1>28 DEF RecoverFinishes, AsInterrupted
<1>29. ASSUME NEW r \in Runs, RecoverSeals(r) PROVE LockInv'
  BY <1>29 DEF RecoverSeals, SealOk
<1>30. ASSUME NEW r \in Runs, RecoverPersists(r) PROVE LockInv'
  BY <1>30 DEF RecoverPersists, PersistOk, PersistFails
<1>31. ASSUME NEW r \in Runs, RecoveryFails(r) PROVE LockInv'
  BY <1>31 DEF RecoveryFails, Refuse
<1>32. CASE OpenStore
  BY <1>32 DEF OpenStore
<1>33. CASE OpenStoreRefuses
  BY <1>33 DEF OpenStoreRefuses
<1>34. CASE Serve
  BY <1>34 DEF Serve
<1>35. CASE Reject
  BY <1>35 DEF Reject, Refuse
<1>36. CASE Drain
  BY <1>36 DEF Drain
<1>37. CASE Close
  BY <1>37 DEF Close
<1>38. CASE Exit
  BY <1>38 DEF Exit, MemoryLost
<1>39. CASE Crash
  BY <1>39 DEF Crash, MemoryLost
<1>40. ASSUME NEW r \in Runs, CrashInSeal(r) PROVE LockInv'
  BY <1>40 DEF CrashInSeal, MemoryLost
<1>41. QED
  BY <1>1, <1>2, <1>3, <1>4, <1>5, <1>6, <1>7, <1>8, <1>9, <1>10, <1>11, <1>12, <1>13, <1>14,
         <1>15, <1>16, <1>17, <1>18, <1>19, <1>20, <1>21, <1>22, <1>23, <1>24, <1>25, <1>26,
         <1>27, <1>28, <1>29, <1>30, <1>31, <1>32, <1>33, <1>34, <1>35, <1>36, <1>37, <1>38, <1>39,
         <1>40
     DEF Next, ClientStep, DriverAnswers, DriverCalls, Recovery, ProcessStep, DriverVerdicts

-----------------------------------------------------------------------------
(* Memory and disk.                                                          *)

\* What is in the catalog, and what the lock is held for, has a directory.
LEMMA KnownHasDirectory ==
  ASSUME StoreInv, NEW r \in Runs, catalog[r].status # "none" \/ (lock.at # "free" /\ lock.run = r)
  PROVE r \in dirs
<1>1. lock.at # "free" => catalog[lock.run].status # "none"
  BY DEF StoreInv, TypeOK, Lock, LockInv, Creating, Starting, Loading, Terminal
<1>2. catalog[r].status # "none"
  BY <1>1
<1>3. QED
  BY <1>2 DEF StoreInv, SavedInv, Absent

LEMMA AppendErrorTouches ==
  ASSUME TypeOK, NEW r \in Runs, NEW what, AppendError(r, what)
  PROVE /\ \A s \in Runs \ {r} : file'[s] = file[s]
        /\ UNCHANGED <<events, sealed, marker, dirs>>
<1>1. UNCHANGED <<events, sealed, marker, dirs>>
  BY DEF AppendError
<1>2. file' = file \/ \E g : file' = [file EXCEPT ![r] = g]
  <2>1. CASE ~Appendable(r) /\ UNCHANGED <<file, faults>>
    BY <2>1
  <2>2. ASSUME NEW left, file' = [file EXCEPT ![r] = @ \o left]
        PROVE \E g : file' = [file EXCEPT ![r] = g]
    BY <2>2
  <2>3. QED
    BY <2>1, <2>2, Zenon DEF AppendError
<1>3. QED
  BY <1>1, <1>2 DEF TypeOK

LEMMA AnswerIsSaved ==
  ASSUME TypeOK, LockInv, SavedInv, NEW r \in Runs, r \in dirs,
         NEW status, NEW q, NEW keyed, NEW answer, GivesAnswer(r, status, q, keyed, answer),
         ~Stopped, latched = "no", lock.at = "free" \/ lock.run = r,
         \A s \in Runs \ {r} : file'[s] = file[s],
         UNCHANGED <<process, dirs>>
  PROVE SavedInv'
<1>1. PICK e \in Entry :
        /\ catalog' = [catalog EXCEPT ![r] = e]
        /\ saved' \in {saved, [saved EXCEPT ![r] = e]}
        /\ latched' = "yes" \/ (lock'.at \in Unsaved /\ lock'.run = r) \/ saved'[r] = e
  BY DEF GivesAnswer
<1>2. catalog \in [Runs -> Entry] /\ saved \in [Runs -> Entry]
  BY DEF TypeOK
<1>3. catalog'[r] = e /\ \A s \in Runs \ {r} : catalog'[s] = catalog[s] /\ saved'[s] = saved[s]
  BY <1>1, <1>2
<1>4. \A s \in Runs \ {r} : catalog[s] = saved[s]
  BY DEF SavedInv, Unsaved, Loading
<1>5. \A s \in Runs : s # r /\ ~Stopped' /\ latched' = "no" => catalog'[s] = saved'[s]
  BY <1>3, <1>4
<1>6. ~Stopped' /\ latched' = "no" => catalog'[r] = saved'[r] \/ (lock'.at \in Unsaved /\ lock'.run = r)
  BY <1>1, <1>3
<1>7. \A s \in Runs : s \notin dirs' => saved'[s] = Absent /\ catalog'[s] = Absent /\ file'[s] = <<>>
  BY <1>3 DEF SavedInv
<1>8. ~Stopped'
  BY DEF Stopped
<1>9. QED
  BY <1>5, <1>6, <1>7, <1>8 DEF SavedInv

LEMMA SavedStep == StoreInv /\ Next => SavedInv'
<1> SUFFICES ASSUME StoreInv, Next PROVE SavedInv'
  OBVIOUS
<1>0. TypeOK /\ LockInv /\ SavedInv
  BY DEF StoreInv
<1>a. /\ process \in {"down", "recovering", "up", "draining", "closed", "refused"}
      /\ lock \in Lock /\ catalog \in [Runs -> Entry] /\ saved \in [Runs -> Entry]
      /\ events \in [Runs -> Seq(Frame)] /\ file \in [Runs -> Seq(Frame)]
  BY <1>0 DEF TypeOK
<1>b. \A r \in Runs : catalog[r].status # "none" \/ (lock.at # "free" /\ lock.run = r) => r \in dirs
  BY KnownHasDirectory
<1> USE <1>0, <1>a, <1>b
<1> USE DEF SavedInv, LockInv, Loading, Creating, Starting, Unsaved, Terminal, Stopped, vars,
       memory, storage,
            logs, Free, Serving, Calling, Alive, Recovering, Held, Unlock, Unlocked, Continue, Take
<1>1. ASSUME NEW r \in Runs, NEW k \in Keys \cup {None}, Create(r, k) PROVE SavedInv'
  BY <1>1 DEF Create, NewRun
<1>2. ASSUME NEW r \in Runs, CreateFails(r) PROVE SavedInv'
  BY <1>2 DEF CreateFails
<1>3. ASSUME NEW r \in Runs, CreatedPersisted(r) PROVE SavedInv'
  BY <1>3 DEF CreatedPersisted, PersistOk, PersistFails, State
<1>4. ASSUME NEW r \in Runs, CreatedUnpersisted(r) PROVE SavedInv'
  BY <1>4 DEF CreatedUnpersisted, PersistOk, PersistFails, State
<1>5. ASSUME NEW r \in Runs, NEW keyed \in {"yes", "no"}, Start(r, keyed) PROVE SavedInv'
  BY <1>5, StartAnswers, AnswerIsSaved DEF Start, AppendOk
<1>6. ASSUME NEW r \in Runs, StartFails(r) PROVE SavedInv'
  BY <1>6, AppendErrorTouches DEF StartFails
<1>7. ASSUME NEW r \in Runs, StartPersisted(r) PROVE SavedInv'
  BY <1>7 DEF StartPersisted, PersistOk, PersistFails, State
<1>8. ASSUME NEW r \in Runs, StartUnpersisted(r) PROVE SavedInv'
  BY <1>8 DEF StartUnpersisted, PersistOk, PersistFails, State
<1>9. ASSUME NEW r \in Runs, UndispatchedPersists(r) PROVE SavedInv'
  BY <1>9 DEF UndispatchedPersists, PersistOk, PersistFails, State
<1>10. ASSUME NEW r \in Runs, NEW keyed \in {"yes", "no"}, Stop(r, keyed) PROVE SavedInv'
  BY <1>10, StopAnswers, AnswerIsSaved DEF Stop
<1>11. ASSUME NEW r \in Runs, NEW q \in Requests, Replay(q, r) PROVE SavedInv'
  BY <1>11 DEF Replay
<1>12. ASSUME NEW r \in Runs, Prepared(r) PROVE SavedInv'
  BY <1>12 DEF Prepared
<1>13. ASSUME NEW r \in Runs, Unprepared(r) PROVE SavedInv'
  BY <1>13, UnpreparedAnswers, AnswerIsSaved DEF Unprepared
<1>14. ASSUME NEW r \in Runs, Dispatched(r) PROVE SavedInv'
  BY <1>14 DEF Dispatched
<1>15. ASSUME NEW r \in Runs, Undispatched(r) PROVE SavedInv'
  <2>1. CASE Unlock
    BY <1>15, <2>1, AppendErrorTouches DEF Undispatched
  <2>2. CASE ~Unlock
    BY <1>15, <2>2, UndispatchedAnswers, AnswerIsSaved DEF Undispatched, AppendOk
  <2>3. QED
    BY <2>1, <2>2
<1>16. ASSUME NEW r \in Runs, StopDispatched(r) PROVE SavedInv'
  BY <1>16 DEF StopDispatched
<1>17. ASSUME NEW r \in Runs, StopUndispatched(r) PROVE SavedInv'
  BY <1>17, StopUndispatchedAnswers, AnswerIsSaved DEF StopUndispatched
<1>18. ASSUME NEW r \in Runs, NEW status \in {"completed", "failed"}, Completes(r, status)
       PROVE SavedInv'
  BY <1>18 DEF Completes, AppendOk, Completable
<1>19. ASSUME NEW r \in Runs, NEW status \in {"completed", "failed"}, CompleteFails(r, status)
       PROVE SavedInv'
  BY <1>19, AppendErrorTouches DEF CompleteFails, Completable
<1>20. ASSUME NEW r \in Runs, CompletionPersisted(r) PROVE SavedInv'
  BY <1>20 DEF CompletionPersisted, PersistOk, PersistFails, State
<1>21. ASSUME NEW r \in Runs, CompletionUnpersisted(r) PROVE SavedInv'
  BY <1>21 DEF CompletionUnpersisted, PersistOk, PersistFails, State
<1>22. ASSUME NEW r \in Runs, AppendEvent(r) PROVE SavedInv'
  BY <1>22 DEF AppendEvent, AppendOk
<1>23. ASSUME NEW r \in Runs, AppendEventFails(r) PROVE SavedInv'
  BY <1>23, AppendErrorTouches DEF AppendEventFails
<1>24. ASSUME NEW r \in Runs, SealRun(r) PROVE SavedInv'
  BY <1>24 DEF SealRun, SealOk
<1>25. ASSUME NEW r \in Runs, SealRunFails(r) PROVE SavedInv'
  BY <1>25 DEF SealRunFails, SealError
<1>26. ASSUME NEW r \in Runs, NEW v \in DriverVerdicts(r), SetEvidenceVerification(r, v)
       PROVE SavedInv'
  BY <1>26 DEF SetEvidenceVerification, PersistOk, PersistFails, State
<1>27. ASSUME NEW r \in Runs, NEW v \in DriverVerdicts(r), SetEvidenceVerificationFails(r, v)
       PROVE SavedInv'
  BY <1>27 DEF SetEvidenceVerificationFails, PersistOk, PersistFails, State
<1>28. ASSUME NEW r \in Runs, RecoverFinishes(r) PROVE SavedInv'
  BY <1>28 DEF RecoverFinishes, AppendOk, Interrupted
<1>29. ASSUME NEW r \in Runs, RecoverSeals(r) PROVE SavedInv'
  BY <1>29 DEF RecoverSeals, SealOk
<1>30. ASSUME NEW r \in Runs, RecoverPersists(r) PROVE SavedInv'
  BY <1>30 DEF RecoverPersists, PersistOk, PersistFails, State
<1>31. ASSUME NEW r \in Runs, RecoveryFails(r) PROVE SavedInv'
  BY <1>31 DEF RecoveryFails, Refuse, Interrupted, State
<1>32. CASE OpenStore
  BY <1>32 DEF OpenStore
<1>33. CASE OpenStoreRefuses
  BY <1>33 DEF OpenStoreRefuses
<1>34. CASE Serve
  BY <1>34 DEF Serve
<1>35. CASE Reject
  BY <1>35 DEF Reject, Refuse
<1>36. CASE Drain
  BY <1>36 DEF Drain
<1>37. CASE Close
  BY <1>37 DEF Close
<1>38. CASE Exit
  BY <1>38 DEF Exit, MemoryLost
<1>39. CASE Crash
  BY <1>39 DEF Crash, MemoryLost
<1>40. ASSUME NEW r \in Runs, CrashInSeal(r) PROVE SavedInv'
  BY <1>40 DEF CrashInSeal, MemoryLost
<1>41. QED
  BY <1>1, <1>2, <1>3, <1>4, <1>5, <1>6, <1>7, <1>8, <1>9, <1>10, <1>11, <1>12, <1>13, <1>14,
         <1>15, <1>16, <1>17, <1>18, <1>19, <1>20, <1>21, <1>22, <1>23, <1>24, <1>25, <1>26,
         <1>27, <1>28, <1>29, <1>30, <1>31, <1>32, <1>33, <1>34, <1>35, <1>36, <1>37, <1>38, <1>39,
         <1>40
     DEF Next, ClientStep, DriverAnswers, DriverCalls, Recovery, ProcessStep, DriverVerdicts

-----------------------------------------------------------------------------
(* Logs and their ends.                                                      *)

\* A new frame at the end of a log.
LEMMA FrameAdded ==
  ASSUME NEW log \in Seq(Frame), NEW f \in Frame, f.form = "whole", f.seq = Len(log) + 1,
         ValidFrames(log), AtMostOneFinish(log), Finishes(f) => ~Finished(log)
  PROVE /\ ValidFrames(Append(log, f)) /\ AtMostOneFinish(Append(log, f))
        /\ ~Finishes(f) /\ ~Finished(log) => ~Finished(Append(log, f))
<1> DEFINE new == Append(log, f)
<1>1. /\ Len(new) = Len(log) + 1 /\ new[Len(log) + 1] = f /\ Len(log) \in Nat
      /\ \A i \in 1 .. Len(log) : new[i] = log[i]
  BY AppendProperties, LenProperties
<1> HIDE DEF new
<1>2. \A i \in 1 .. Len(new) : i \in 1 .. Len(log) \/ i = Len(log) + 1
  BY <1>1
<1>3. ValidFrames(new)
  BY <1>1, <1>2 DEF ValidFrames
<1>4. AtMostOneFinish(new)
  BY <1>1, <1>2 DEF AtMostOneFinish, Finished
<1>5. ~Finishes(f) /\ ~Finished(log) => ~Finished(new)
  BY <1>1, <1>2 DEF Finished
<1>6. QED
  BY <1>3, <1>4, <1>5 DEF new

\* A file that a frame with the next sequence number of the acknowledged log is added
\* to can be read only if the file was that log.
LEMMA FrameWritten ==
  ASSUME NEW r \in Runs, file[r] \in Seq(Frame), events[r] \in Seq(Frame),
         ValidFrames(file[r]) => Continues(file[r], events[r]),
         NEW g \in Frame, g.seq = Len(events[r]) + 1, ValidFrames(Append(file[r], g))
  PROVE file[r] = events[r] /\ g.form = "whole"
<1> DEFINE new == Append(file[r], g)
           n == Len(file[r])
<1>1. /\ Len(new) = n + 1 /\ new[n + 1] = g /\ n \in Nat
      /\ \A i \in 1 .. n : new[i] = file[r][i]
  BY AppendProperties, LenProperties
<1>2. Len(events[r]) \in Nat
  BY LenProperties
<1> HIDE DEF new
<1>3. ValidFrames(new)
  BY DEF new
<1>4. ValidFrames(file[r])
  BY <1>1, <1>3 DEF ValidFrames
<1>5. g.form = "whole" /\ g.seq = n + 1
  BY <1>1, <1>3 DEF ValidFrames
<1>6. n = Len(events[r])
  BY <1>1, <1>2, <1>5
<1>7. Len(file[r]) # Len(events[r]) + 1
  BY <1>1, <1>6
<1>8. QED
  BY <1>4, <1>5, <1>7 DEF Continues

\* An acknowledged append.
LEMMA LogAppended ==
  ASSUME TypeOK, LogInv, NEW r \in Runs, NEW what \in Whats, AppendOk(r, what),
         ~Stopped, process' = process, catalog' \in [Runs -> Entry],
         what \in Terminal => ~Finished(events[r]),
         catalog'[r].status # "none",
         Alive /\ catalog'[r].status \notin Terminal => what \notin Terminal /\ ~Finished(events[r]),
         \A s \in Runs \ {r} : catalog'[s] = catalog[s]
  PROVE LogInv'
<1> DEFINE f == NewFrame(r, what)
<1>1. f \in Frame /\ f.form = "whole" /\ f.seq = Len(events[r]) + 1 /\ f.what = what
  BY NewFrameIsFrame DEF NewFrame
<1>2. events[r] \in Seq(Frame) /\ file[r] \in Seq(Frame)
      /\ events \in [Runs -> Seq(Frame)] /\ file \in [Runs -> Seq(Frame)]
  BY DEF TypeOK
<1>3. events' = [events EXCEPT ![r] = Append(events[r], f)] /\ file' = [file EXCEPT ![r] = Append(file[r], f)]
  BY DEF AppendOk
<1> HIDE DEF f
<1>4. events'[r] = Append(events[r], f) /\ file'[r] = Append(file[r], f)
      /\ \A s \in Runs \ {r} : events'[s] = events[s] /\ file'[s] = file[s]
  BY <1>2, <1>3
<1>5. RunLogInv(r)
  BY DEF LogInv
<1>6. Finishes(f) => ~Finished(events[r])
  BY <1>1 DEF Finishes
<1>7. /\ ValidFrames(Append(events[r], f)) /\ AtMostOneFinish(Append(events[r], f))
      /\ ~Finishes(f) /\ ~Finished(events[r]) => ~Finished(Append(events[r], f))
  BY <1>1, <1>2, <1>5, <1>6, FrameAdded DEF RunLogInv
<1>8. ValidFrames(Append(file[r], f)) => file[r] = events[r]
  BY <1>1, <1>2, <1>5, FrameWritten DEF RunLogInv
<1>9. ValidFrames(events'[r]) /\ AtMostOneFinish(events'[r])
  BY <1>4, <1>7
<1>10. ValidFrames(file'[r]) => AtMostOneFinish(file'[r]) /\ file'[r] = events'[r]
  BY <1>4, <1>7, <1>8
<1>11. Alive' /\ catalog'[r].status \notin Terminal => ~Finished(events'[r])
  BY <1>1, <1>4, <1>7 DEF Alive, Finishes
<1>12. RunLogInv(r)'
  BY <1>9, <1>10, <1>11 DEF RunLogInv, Continues
<1>13. ASSUME NEW s \in Runs \ {r} PROVE RunLogInv(s)'
  <2>1. RunLogInv(s)
    BY DEF LogInv
  <2>2. events'[s] = events[s] /\ file'[s] = file[s] /\ catalog'[s] = catalog[s] /\ process' = process
    BY <1>4
  <2>3. QED
    BY <2>1, <2>2 DEF RunLogInv, Continues, Alive, Stopped
<1>14. QED
  BY <1>12, <1>13 DEF LogInv

\* An append that fails.
LEMMA LogLeft ==
  ASSUME TypeOK, LogInv, NEW r \in Runs, NEW g \in Frame, g.seq = Len(events[r]) + 1,
         file' = file \/ file' = [file EXCEPT ![r] = Append(file[r], g)],
         ~Stopped, g.what \in Terminal => ~Finished(events[r])
  PROVE \A s \in Runs :
          ValidFrames(file'[s]) =>
            AtMostOneFinish(file'[s]) /\ Continues(file'[s], events[s])
<1>1. events[r] \in Seq(Frame) /\ file[r] \in Seq(Frame) /\ file \in [Runs -> Seq(Frame)]
  BY DEF TypeOK
<1>2. \A s \in Runs : ValidFrames(file[s]) => AtMostOneFinish(file[s]) /\ Continues(file[s], events[s])
  BY DEF LogInv, RunLogInv
<1>3. CASE file' = file
  BY <1>2, <1>3 DEF Continues
<1>4. CASE file' = [file EXCEPT ![r] = Append(file[r], g)]
  <2>1. file'[r] = Append(file[r], g) /\ \A s \in Runs \ {r} : file'[s] = file[s]
    BY <1>1, <1>4
  <2>2. ASSUME ValidFrames(Append(file[r], g))
        PROVE /\ AtMostOneFinish(Append(file[r], g))
              /\ Len(Append(file[r], g)) = Len(events[r]) + 1
              /\ \A i \in 1 .. Len(events[r]) : Append(file[r], g)[i] = events[r][i]
    <3>1. file[r] = events[r] /\ g.form = "whole"
      BY <1>1, <1>2, <2>2, FrameWritten
    <3>2. ValidFrames(events[r]) /\ AtMostOneFinish(events[r])
      BY DEF LogInv, RunLogInv
    <3>3. AtMostOneFinish(Append(events[r], g))
      BY <1>1, <3>1, <3>2, FrameAdded DEF Finishes
    <3>4. QED
      BY <1>1, <3>1, <3>3, AppendProperties
  <2>3. QED
    BY <1>2, <2>1, <2>2 DEF Continues
<1>5. QED
  BY <1>3, <1>4

LEMMA LogNotAppended ==
  ASSUME TypeOK, LogInv, NEW r \in Runs, NEW what \in Whats, AppendError(r, what),
         ~Stopped, UNCHANGED <<process, catalog>>, what \in Terminal => ~Finished(events[r])
  PROVE LogInv'
<1>1. events' = events
  BY DEF AppendError
<1>2. \A s \in Runs :
        ValidFrames(file'[s]) =>
          AtMostOneFinish(file'[s]) /\ Continues(file'[s], events[s])
  <2>1. CASE file' = file
    BY <2>1 DEF LogInv, RunLogInv, Continues
  <2>2. ASSUME NEW g \in Frame, g.seq = Len(events[r]) + 1, g.what = what,
               file' = [file EXCEPT ![r] = Append(file[r], g)]
        PROVE \A s \in Runs :
                ValidFrames(file'[s]) =>
                  AtMostOneFinish(file'[s]) /\ Continues(file'[s], events[s])
    BY <2>2, LogLeft
  <2>3. QED
    BY <2>1, <2>2, AppendErrorLeaves
<1>3. QED
  BY <1>1, <1>2 DEF LogInv, RunLogInv, Continues, Alive, Stopped

\* The logs stay as they are while the process runs.
LEMMA LogKept ==
  ASSUME LogInv, UNCHANGED <<events, file>>, ~Stopped, ~Stopped',
         \A s \in Runs :
           /\ catalog'[s].status = "none" => catalog[s].status = "none"
           /\ Alive' /\ catalog'[s].status \notin Terminal =>
                (Alive /\ catalog[s].status \notin Terminal) \/ ~Finished(events[s])
  PROVE LogInv'
  BY DEF LogInv, RunLogInv, Continues

\* The process ends.
LEMMA LogForgotten ==
  ASSUME Stopped', events' = [r \in Runs |-> <<>>],
         \A r \in Runs : ValidFrames(file'[r]) => AtMostOneFinish(file'[r])
  PROVE LogInv'
<1>1. \A r \in Runs : events'[r] = <<>>
  OBVIOUS
<1>2. Len(<<>>) = 0
  OBVIOUS
<1>3. \A r \in Runs : ValidFrames(events'[r]) /\ AtMostOneFinish(events'[r]) /\ ~Finished(events'[r])
  BY <1>1, <1>2 DEF ValidFrames, AtMostOneFinish, Finished
<1>4. QED
  BY <1>1, <1>3 DEF LogInv, RunLogInv

LEMMA LogStep == StoreInv /\ Next => LogInv'
<1> SUFFICES ASSUME StoreInv, Next PROVE LogInv'
  OBVIOUS
<1>0. TypeOK /\ LockInv /\ SavedInv /\ LogInv /\ TypeOK'
  BY TypeStep DEF StoreInv
<1>a. /\ process \in {"down", "recovering", "up", "draining", "closed", "refused"}
      /\ lock \in Lock /\ catalog \in [Runs -> Entry] /\ saved \in [Runs -> Entry]
      /\ events \in [Runs -> Seq(Frame)] /\ file \in [Runs -> Seq(Frame)]
      /\ catalog' \in [Runs -> Entry]
  BY <1>0 DEF TypeOK
<1> USE <1>0, <1>a
<1>1. ASSUME NEW r \in Runs, NEW k \in Keys \cup {None}, Create(r, k) PROVE LogInv'
  <2>1. process = "up" /\ UNCHANGED <<process, events, file>>
        /\ catalog'[r].status = "created" /\ \A s \in Runs \ {r} : catalog'[s] = catalog[s]
    BY <1>1 DEF Create, Serving, logs, Absent
  <2>2. catalog[r].status = "none"
    BY <1>1 DEF Create, NewRun, SavedInv, Absent
  <2>3. QED
    BY <2>1, <2>2, LogKept DEF Alive, Stopped, Terminal
<1>2. ASSUME NEW r \in Runs, CreateFails(r) PROVE LogInv'
  BY <1>2, LogKept
     DEF CreateFails, Serving, Stopped, Alive, Terminal, logs, vars, memory, storage, LockInv,
         Creating, Starting, Loading
<1>3. ASSUME NEW r \in Runs, CreatedPersisted(r) PROVE LogInv'
  BY <1>3, LogKept
     DEF CreatedPersisted, Held, Stopped, Alive, Terminal, logs, vars, memory, storage, LockInv,
         Creating, Starting, Loading
<1>4. ASSUME NEW r \in Runs, CreatedUnpersisted(r) PROVE LogInv'
  BY <1>4, LogKept
     DEF CreatedUnpersisted, Held, Stopped, Alive, Terminal, logs, vars, memory, storage, LockInv,
         Creating, Starting, Loading
<1>5. ASSUME NEW r \in Runs, NEW keyed \in {"yes", "no"}, Start(r, keyed) PROVE LogInv'
  <2>1. catalog'[r].status = "running" /\ \A s \in Runs \ {r} : catalog'[s] = catalog[s]
    BY <1>5, StartAnswers DEF GivesAnswer
  <2>2. AppendOk(r, "start") /\ process = "up" /\ process' = process /\ catalog[r].status = "created"
    BY <1>5 DEF Start, Serving
  <2>3. ~Finished(events[r])
    BY <2>2 DEF LogInv, RunLogInv, Alive, Terminal
  <2>4. QED
    BY <2>1, <2>2, <2>3, LogAppended DEF Whats, Terminal, Stopped
<1>6. ASSUME NEW r \in Runs, StartFails(r) PROVE LogInv'
  <2>1. Alive /\ UNCHANGED <<process, catalog>>
        /\ (UNCHANGED logs \/ AppendError(r, "start"))
    BY <1>6 DEF StartFails, Serving, Calling, Alive
  <2>2. "start" \in Whats \ Terminal /\ ~Stopped
    BY <2>1 DEF Whats, Terminal, Alive, Stopped
  <2>3. QED
    BY <2>1, <2>2, LogNotAppended, LogKept DEF logs, Alive, Stopped
<1>7. ASSUME NEW r \in Runs, StartPersisted(r) PROVE LogInv'
  BY <1>7, LogKept
     DEF StartPersisted, Held, Stopped, Alive, Terminal, logs, vars, memory, storage, LockInv,
         Creating, Starting, Loading
<1>8. ASSUME NEW r \in Runs, StartUnpersisted(r) PROVE LogInv'
  BY <1>8, LogKept
     DEF StartUnpersisted, Held, Stopped, Alive, Terminal, logs, vars, memory, storage, LockInv,
         Creating, Starting, Loading
<1>9. ASSUME NEW r \in Runs, UndispatchedPersists(r) PROVE LogInv'
  BY <1>9, LogKept
     DEF UndispatchedPersists, Held, Stopped, Alive, Terminal, logs, vars, memory, storage,
         LockInv, Creating, Starting, Loading
<1>10. ASSUME NEW r \in Runs, NEW keyed \in {"yes", "no"}, Stop(r, keyed) PROVE LogInv'
  <2>1. process = "up" /\ UNCHANGED <<process, events, file>> /\ catalog[r].status = "running"
    BY <1>10 DEF Stop, Serving, logs
  <2>2. catalog'[r].status = "stopping" /\ \A s \in Runs \ {r} : catalog'[s] = catalog[s]
    BY <1>10, StopAnswers DEF GivesAnswer
  <2>3. QED
    BY <2>1, <2>2, LogKept DEF Alive, Stopped, Terminal
<1>11. ASSUME NEW r \in Runs, NEW q \in Requests, Replay(q, r) PROVE LogInv'
  BY <1>11, LogKept
     DEF Replay, Serving, Stopped, Alive, Terminal, logs, vars, memory, storage, LockInv,
         Creating, Starting, Loading
<1>12. ASSUME NEW r \in Runs, Prepared(r) PROVE LogInv'
  BY <1>12, LogKept
     DEF Prepared, Held, Stopped, Alive, Terminal, logs, vars, memory, storage, LockInv, Creating,
         Starting, Loading
<1>13. ASSUME NEW r \in Runs, Unprepared(r) PROVE LogInv'
  BY <1>13, LogKept, UnpreparedAnswers
     DEF Unprepared, GivesAnswer, Held, Serving, Stopped, Alive, Terminal, logs, vars, memory,
         storage, LockInv, Creating, Starting, Loading
<1>14. ASSUME NEW r \in Runs, Dispatched(r) PROVE LogInv'
  BY <1>14, LogKept
     DEF Dispatched, Held, Stopped, Alive, Terminal, logs, vars, memory, storage, LockInv,
         Creating, Starting, Loading
<1>15. ASSUME NEW r \in Runs, Undispatched(r) PROVE LogInv'
  <2>1. process' = process /\ lock.at = "dispatchStart" /\ lock.run = r
    BY <1>15 DEF Undispatched, Held
  <2>2. Alive /\ catalog[r].status = "running"
    BY <2>1 DEF LockInv, Starting, Loading, Alive, Stopped
  <2>3. ~Finished(events[r])
    BY <2>2 DEF LogInv, RunLogInv, Terminal
  <2>4. ~Stopped /\ "failed" \in Whats
    BY <2>2 DEF Stopped, Alive, Whats, Terminal
  <2>5. CASE Unlock
    <3>1. AppendError(r, "failed") /\ catalog' = catalog
      BY <1>15, <2>5, <2>1 DEF Undispatched, Unlock, Unlocked, Continue, Lock
    <3>2. QED
      BY <3>1, <2>1, <2>3, <2>4, LogNotAppended
  <2>6. CASE ~Unlock
    <3>1. AppendOk(r, "failed")
      BY <1>15, <2>6 DEF Undispatched
    <3>2. catalog'[r].status = "failed" /\ \A s \in Runs \ {r} : catalog'[s] = catalog[s]
      BY <1>15, <2>6, UndispatchedAnswers DEF GivesAnswer
    <3>3. QED
      BY <3>1, <3>2, <2>1, <2>3, <2>4, LogAppended DEF Terminal
  <2>7. QED
    BY <2>5, <2>6
<1>16. ASSUME NEW r \in Runs, StopDispatched(r) PROVE LogInv'
  BY <1>16, LogKept
     DEF StopDispatched, Held, Stopped, Alive, Terminal, logs, vars, memory, storage, LockInv,
         Creating, Starting, Loading
<1>17. ASSUME NEW r \in Runs, StopUndispatched(r) PROVE LogInv'
  BY <1>17, LogKept, StopUndispatchedAnswers
     DEF StopUndispatched, GivesAnswer, Held, Serving, Stopped, Alive, Terminal, logs, vars,
         memory, storage, LockInv, Creating, Starting, Loading
<1>18. ASSUME NEW r \in Runs, NEW status \in {"completed", "failed"}, Completes(r, status)
       PROVE LogInv'
  <2>1. /\ AppendOk(r, FinalStatus(r, status)) /\ Alive /\ process' = process
        /\ catalog' = [catalog EXCEPT ![r].status = FinalStatus(r, status)]
        /\ catalog[r].status \in {"running", "stopping"}
    BY <1>18 DEF Completes, Calling, Completable
  <2>2. FinalStatus(r, status) \in Terminal
    BY DEF FinalStatus, Terminal
  <2>3. catalog'[r].status = FinalStatus(r, status) /\ \A s \in Runs \ {r} : catalog'[s] = catalog[s]
    BY <2>1 DEF Entry
  <2>4. ~Finished(events[r])
    BY <2>1 DEF LogInv, RunLogInv, Terminal
  <2>5. QED
    BY <2>1, <2>2, <2>3, <2>4, LogAppended DEF Whats, Terminal, Stopped, Alive
<1>19. ASSUME NEW r \in Runs, NEW status \in {"completed", "failed"}, CompleteFails(r, status)
       PROVE LogInv'
  <2>1. Alive /\ UNCHANGED <<process, catalog>>
        /\ \/ UNCHANGED logs
           \/ Completable(r) /\ AppendError(r, FinalStatus(r, status))
    BY <1>19 DEF CompleteFails, Calling
  <2>2. FinalStatus(r, status) \in Whats /\ ~Stopped
    BY <2>1 DEF FinalStatus, Whats, Terminal, Alive, Stopped
  <2>3. Completable(r) => ~Finished(events[r])
    BY <2>1 DEF Completable, LogInv, RunLogInv, Terminal
  <2>4. QED
    BY <2>1, <2>2, <2>3, LogNotAppended, LogKept DEF logs, Alive, Stopped
<1>20. ASSUME NEW r \in Runs, CompletionPersisted(r) PROVE LogInv'
  BY <1>20, LogKept
     DEF CompletionPersisted, Held, Stopped, Alive, Terminal, logs, vars, memory, storage,
         LockInv, Creating, Starting, Loading
<1>21. ASSUME NEW r \in Runs, CompletionUnpersisted(r) PROVE LogInv'
  BY <1>21, LogKept
     DEF CompletionUnpersisted, Held, Stopped, Alive, Terminal, logs, vars, memory, storage,
         LockInv, Creating, Starting, Loading
<1>22. ASSUME NEW r \in Runs, AppendEvent(r) PROVE LogInv'
  <2>1. AppendOk(r, "event") /\ Alive /\ UNCHANGED <<process, catalog>> /\ catalog[r].status # "none"
    BY <1>22 DEF AppendEvent, Calling
  <2>2. catalog[r].status \notin Terminal => ~Finished(events[r])
    BY <2>1 DEF LogInv, RunLogInv
  <2>3. "event" \in Whats \ Terminal /\ ~Stopped
    BY <2>1 DEF Whats, Terminal, Alive, Stopped
  <2>4. QED
    BY <2>1, <2>2, <2>3, LogAppended
<1>23. ASSUME NEW r \in Runs, AppendEventFails(r) PROVE LogInv'
  <2>1. Alive /\ UNCHANGED <<process, catalog>>
        /\ (UNCHANGED logs \/ AppendError(r, "event"))
    BY <1>23 DEF AppendEventFails, Serving, Calling, Alive
  <2>2. "event" \in Whats \ Terminal /\ ~Stopped
    BY <2>1 DEF Whats, Terminal, Alive, Stopped
  <2>3. QED
    BY <2>1, <2>2, LogNotAppended, LogKept DEF logs, Alive, Stopped
<1>24. ASSUME NEW r \in Runs, SealRun(r) PROVE LogInv'
  BY <1>24, LogKept
     DEF SealRun, SealOk, SealError, Calling, Held, Stopped, Alive, Terminal, logs, vars, memory,
         storage, LockInv, Creating, Starting, Loading
<1>25. ASSUME NEW r \in Runs, SealRunFails(r) PROVE LogInv'
  BY <1>25, LogKept
     DEF SealRunFails, SealOk, SealError, Calling, Held, Stopped, Alive, Terminal, logs, vars,
         memory, storage, LockInv, Creating, Starting, Loading
<1>26. ASSUME NEW r \in Runs, NEW v \in DriverVerdicts(r), SetEvidenceVerification(r, v)
       PROVE LogInv'
  BY <1>26, LogKept
     DEF SetEvidenceVerification, Calling, Stopped, Alive, Terminal, logs, vars, memory, storage,
         LockInv, Creating, Starting, Loading
<1>27. ASSUME NEW r \in Runs, NEW v \in DriverVerdicts(r), SetEvidenceVerificationFails(r, v)
       PROVE LogInv'
  <2>1. Alive /\ UNCHANGED <<process, events, file>>
        /\ catalog' \in {catalog, [catalog EXCEPT ![r] = [catalog[r] EXCEPT !.verdict = v]]}
    BY <1>27, Zenon DEF SetEvidenceVerificationFails, Calling, logs
  <2>2. \A s \in Runs : catalog'[s].status = catalog[s].status
    <3>1. [catalog[r] EXCEPT !.verdict = v].status = catalog[r].status
      BY DEF Entry
    <3>2. QED
      BY <2>1, <3>1
  <2>3. QED
    BY <2>1, <2>2, LogKept DEF Alive, Stopped
<1>28. ASSUME NEW r \in Runs, RecoverFinishes(r) PROVE LogInv'
  <2>1. process = "recovering" /\ process' = process /\ catalog[r].status # "none"
        /\ catalog' = [catalog EXCEPT ![r] = AsInterrupted(@)]
        /\ (UNCHANGED logs \/ (~Finished(events[r]) /\ AppendOk(r, "failed")))
    BY <1>28 DEF RecoverFinishes, Recovering, Interrupted
  <2>2. catalog'[r].status = "failed" /\ \A s \in Runs \ {r} : catalog'[s] = catalog[s]
    BY <2>1 DEF AsInterrupted, Entry
  <2>3. ~Stopped /\ ~Stopped' /\ ~Alive /\ ~Alive' /\ "failed" \in Whats
    BY <2>1 DEF Stopped, Alive, Whats, Terminal
  <2>4. CASE UNCHANGED logs
    BY <2>1, <2>2, <2>3, <2>4, LogKept DEF logs
  <2>5. CASE ~Finished(events[r]) /\ AppendOk(r, "failed")
    BY <2>1, <2>2, <2>3, <2>5, LogAppended
  <2>6. QED
    BY <2>1, <2>4, <2>5
<1>29. ASSUME NEW r \in Runs, RecoverSeals(r) PROVE LogInv'
  BY <1>29, LogKept
     DEF RecoverSeals, SealOk, SealError, Calling, Held, Stopped, Alive, Terminal, logs, vars,
         memory, storage, LockInv, Creating, Starting, Loading
<1>30. ASSUME NEW r \in Runs, RecoverPersists(r) PROVE LogInv'
  BY <1>30, LogKept
     DEF RecoverPersists, Held, Stopped, Alive, Terminal, logs, vars, memory, storage, LockInv,
         Creating, Starting, Loading
<1>31. ASSUME NEW r \in Runs, RecoveryFails(r) PROVE LogInv'
  <2>1. ~Stopped /\ Stopped' /\ events' = [s \in Runs |-> <<>>]
    BY <1>31 DEF RecoveryFails, Refuse, Stopped
  <2>2. file' = file \/ (~Finished(events[r]) /\ \E left \in AppendLeaves(r) : file' = [file EXCEPT ![r] = left])
    BY <1>31 DEF RecoveryFails
  <2>3. \A s \in Runs : ValidFrames(file[s]) => AtMostOneFinish(file[s])
    BY DEF LogInv, RunLogInv
  <2>4. CASE file' = file
    BY <2>1, <2>3, <2>4, LogForgotten
  <2>5. ASSUME ~Finished(events[r]), NEW left \in AppendLeaves(r), file' = [file EXCEPT ![r] = left]
        PROVE LogInv'
    <3>1. CASE left = file[r]
      <4>1. file' = file
        BY <2>5, <3>1
      <4>2. QED
        BY <2>4, <4>1
    <3>2. ASSUME NEW form \in {"torn", "whole"}, left = Append(file[r], [NewFrame(r, "failed") EXCEPT !.form = form])
          PROVE LogInv'
      <4> DEFINE g == [NewFrame(r, "failed") EXCEPT !.form = form]
      <4>1. g \in Frame /\ g.seq = Len(events[r]) + 1
        BY NewFrameIsFrame DEF Whats, Terminal, NewFrame
      <4>2. file' = [file EXCEPT ![r] = Append(file[r], g)]
        BY <2>5, <3>2
      <4> HIDE DEF g
      <4>3. \A s \in Runs : ValidFrames(file'[s]) => AtMostOneFinish(file'[s])
        BY <4>1, <4>2, <2>1, <2>5, LogLeft
      <4>4. QED
        BY <2>1, <4>3, LogForgotten
    <3>3. QED
      BY <2>5, <3>1, <3>2 DEF AppendLeaves
  <2>6. QED
    BY <2>2, <2>4, <2>5
<1>32. CASE OpenStore
  <2>1. ~Stopped' /\ ~Alive' /\ file' = file
    BY <1>32 DEF OpenStore, Stopped, Alive, storage
  <2>2. ASSUME NEW s \in Runs PROVE RunLogInv(s)'
    <3>1. ValidFrames(file[s]) => AtMostOneFinish(file[s])
      BY DEF LogInv, RunLogInv
    <3>2. s \in dirs => ValidFrames(file[s]) /\ saved[s].status # "none"
      BY <1>32 DEF OpenStore, Loadable
    <3>3. s \notin dirs => file[s] = <<>>
      BY DEF SavedInv
    <3>4. events'[s] = file[s] /\ catalog'[s] = IF s \in dirs THEN saved[s] ELSE Absent
      BY <1>32, <3>3 DEF OpenStore
    <3>5. ValidFrames(file[s])
      <4>1. file[s] = <<>> => Len(file[s]) = 0
        OBVIOUS
      <4>2. QED
        BY <3>2, <3>3, <4>1 DEF ValidFrames
    <3>6. catalog'[s].status = "none" => events'[s] = <<>>
      BY <3>2, <3>3, <3>4
    <3>7. QED
      BY <2>1, <3>1, <3>4, <3>5, <3>6 DEF RunLogInv, Continues
  <2>3. QED
    BY <2>2 DEF LogInv
<1>33. CASE OpenStoreRefuses
  <2>1. Stopped /\ Stopped' /\ UNCHANGED <<events, file, catalog>>
    BY <1>33 DEF OpenStoreRefuses, Stopped, logs
  <2>2. QED
    BY <2>1 DEF LogInv, RunLogInv, Alive, Stopped
<1>34. CASE Serve
  <2>1. process = "recovering" /\ process' = "up" /\ UNCHANGED <<events, file, catalog>>
    BY <1>34 DEF Serve, Recovering, storage
  <2>2. \A s \in Runs : catalog[s].status = "none" \/ catalog[s].status \in Terminal
    BY <1>34 DEF Serve, Interrupted
  <2>3. \A s \in Runs : catalog[s].status = "none" => ~Finished(events[s])
    <3>1. Len(<<>>) = 0
      OBVIOUS
    <3>2. QED
      BY <3>1 DEF LogInv, RunLogInv, Finished
  <2>4. QED
    BY <2>1, <2>2, <2>3, LogKept DEF Stopped
<1>35. CASE Reject
  <2>1. Stopped' /\ events' = [s \in Runs |-> <<>>] /\ file' = file
    BY <1>35 DEF Reject, MemoryLost, Refuse, Stopped, storage
  <2>2. QED
    BY <2>1, LogForgotten DEF LogInv, RunLogInv
<1>36. CASE Drain
  BY <1>36, LogKept
     DEF Drain, Stopped, Alive, Terminal, logs, vars, memory, storage, LockInv, Creating,
         Starting, Loading
<1>37. CASE Close
  BY <1>37, LogKept
     DEF Close, Stopped, Alive, Terminal, logs, vars, memory, storage, LockInv, Creating,
         Starting, Loading
<1>38. CASE Exit
  <2>1. Stopped' /\ events' = [s \in Runs |-> <<>>] /\ file' = file
    BY <1>38 DEF Exit, MemoryLost, Refuse, Stopped, storage
  <2>2. QED
    BY <2>1, LogForgotten DEF LogInv, RunLogInv
<1>39. CASE Crash
  <2>1. Stopped' /\ events' = [s \in Runs |-> <<>>] /\ file' = file
    BY <1>39 DEF Crash, MemoryLost, Refuse, Stopped, storage
  <2>2. QED
    BY <2>1, LogForgotten DEF LogInv, RunLogInv
<1>40. ASSUME NEW r \in Runs, CrashInSeal(r) PROVE LogInv'
  <2>1. Stopped' /\ events' = [s \in Runs |-> <<>>] /\ file' = file
    BY <1>40 DEF CrashInSeal, MemoryLost, Stopped
  <2>2. QED
    BY <2>1, LogForgotten DEF LogInv, RunLogInv
<1>41. QED
  BY <1>1, <1>2, <1>3, <1>4, <1>5, <1>6, <1>7, <1>8, <1>9, <1>10, <1>11, <1>12, <1>13, <1>14,
         <1>15, <1>16, <1>17, <1>18, <1>19, <1>20, <1>21, <1>22, <1>23, <1>24, <1>25, <1>26,
         <1>27, <1>28, <1>29, <1>30, <1>31, <1>32, <1>33, <1>34, <1>35, <1>36, <1>37, <1>38, <1>39,
         <1>40
     DEF Next, ClientStep, DriverAnswers, DriverCalls, Recovery, ProcessStep, DriverVerdicts

-----------------------------------------------------------------------------
(* Recorded answers.                                                         *)

\* A step that changes the entry of one run, in memory and perhaps on disk, and that
\* keeps what was answered.
LEMMA ToldKept ==
  ASSUME StoreInv, NEW r \in Runs, NEW e \in Entry,
         ~Stopped, latched = "no", lock.at = "free" \/ lock.run = r,
         catalog' = [catalog EXCEPT ![r] = e], saved' \in {saved, [saved EXCEPT ![r] = e]},
         \A a \in told : a.run = r =>
           e.key = catalog[r].key /\ e.answers[a.request] = catalog[r].answers[a.request],
         e.key = catalog[r].key \/ \A s \in Runs : catalog[s].key # e.key \/ e.key = None,
         e.answers["create"] # "none" => e.key # None,
         \A a \in told : lock'.keyed = "yes" =>
           Pending' = "none" \/ a.run # lock'.run \/ a.request # Pending'
  PROVE (\A a \in told : Given(a)') /\ Keyed(catalog)' /\ Keyed(saved)'
<1>1. catalog \in [Runs -> Entry] /\ saved \in [Runs -> Entry] /\ told \in SUBSET Told
  BY DEF StoreInv, TypeOK
<1>2. catalog'[r] = e /\ \A s \in Runs \ {r} : catalog'[s] = catalog[s]
  BY <1>1
<1>3. \/ saved' = saved
      \/ saved'[r] = e /\ \A s \in Runs \ {r} : saved'[s] = saved[s]
  BY <1>1
<1>4. \A s \in Runs \ {r} : catalog[s] = saved[s]
  BY DEF StoreInv, SavedInv, LockInv, Unsaved, Loading
<1>5. Keyed(catalog) /\ Keyed(saved) /\ \A a \in told : Given(a)
  BY DEF StoreInv, ToldInv
<1>6. Keyed(catalog)'
  BY <1>2, <1>5 DEF Keyed
<1>7. Keyed(saved)'
  <2>1. CASE saved' = saved
    BY <1>5, <2>1 DEF Keyed
  <2>2. CASE saved'[r] = e /\ \A s \in Runs \ {r} : saved'[s] = saved[s]
    <3>1. \A s \in Runs : saved'[s] = catalog'[s]
      BY <1>2, <1>4, <2>2
    <3>2. QED
      BY <3>1, <1>6 DEF Keyed
  <2>3. QED
    BY <1>3, <2>1, <2>2
<1>8. ASSUME NEW a \in told PROVE Given(a)'
  <2>1. Given(a) /\ a.run \in Runs /\ a.request \in Requests
    BY <1>1, <1>5 DEF Told
  <2>2. catalog'[a.run].answers[a.request] = a.is /\ catalog'[a.run].key = catalog[a.run].key
    BY <1>2, <2>1 DEF Given
  <2>3. saved'[a.run].answers[a.request] = a.is
    BY <1>2, <1>3, <2>1, <2>2 DEF Given
  <2>4. a.request = "create" => saved'[a.run].key = a.subject /\ catalog'[a.run].key = a.subject
    BY <1>2, <1>3, <2>1, <2>2 DEF Given
  <2>5. lock'.keyed = "yes" => a.run # lock'.run \/ a.request # Pending'
    BY <2>1 DEF Requests
  <2>6. QED
    BY <2>1, <2>2, <2>3, <2>4, <2>5 DEF Given
<1>9. QED
  BY <1>6, <1>7, <1>8

\* A step that writes the entry in memory to state.json, or tries to.
LEMMA ToldPersisted ==
  ASSUME StoreInv, NEW r \in Runs, Held(lock.at, r), lock.at # "free",
         PersistOk(r, catalog[r]) \/ PersistFails(r, catalog[r]), catalog' = catalog,
         lock'.keyed = "yes" => lock'.run = r /\ lock.keyed = "yes" /\ Pending' = Pending
  PROVE (\A a \in told : Given(a)') /\ Keyed(catalog)' /\ Keyed(saved)'
<1>1. catalog \in [Runs -> Entry] /\ catalog[r] \in Entry
  BY DEF StoreInv, TypeOK
<1>2. catalog' = [catalog EXCEPT ![r] = catalog[r]]
  BY <1>1
<1>3. saved' \in {saved, [saved EXCEPT ![r] = catalog[r]]}
  BY DEF PersistOk, PersistFails, State
<1>4. ~Stopped /\ latched = "no" /\ lock.run = r
  BY DEF StoreInv, LockInv, Held
<1>5. catalog[r].answers["create"] # "none" => catalog[r].key # None
  BY DEF StoreInv, ToldInv, Keyed
<1>6. \A a \in told : lock'.keyed = "yes" => a.run # lock'.run \/ a.request # Pending'
  BY <1>4 DEF StoreInv, ToldInv, Given
<1>7. QED
  BY <1>1, <1>2, <1>3, <1>4, <1>5, <1>6, ToldKept

\* A step that records an answer nobody has been given.
LEMMA ToldAnswered ==
  ASSUME StoreInv, NEW r \in Runs, NEW status, NEW q \in Requests, NEW keyed, NEW answer,
         GivesAnswer(r, status, q, keyed, answer),
         ~Stopped, latched = "no", lock.at = "free" \/ lock.run = r,
         keyed = "yes" => \A a \in told : a.run # r \/ a.request # q,
         keyed = "yes" /\ q = "create" => catalog[r].key # None,
         lock'.keyed = "yes" =>
           Pending' = "none" \/ (keyed = "yes" /\ lock'.run = r /\ Pending' = q)
  PROVE (\A a \in told : Given(a)') /\ Keyed(catalog)' /\ Keyed(saved)'
<1>1. PICK e \in Entry :
        /\ e.key = catalog[r].key
        /\ \A p \in Requests :
             e.answers[p] = IF p = q /\ keyed = "yes" THEN answer ELSE catalog[r].answers[p]
        /\ catalog' = [catalog EXCEPT ![r] = e]
        /\ saved' \in {saved, [saved EXCEPT ![r] = e]}
  BY DEF GivesAnswer
<1>2. \A a \in told : a.run = r =>
        e.key = catalog[r].key /\ e.answers[a.request] = catalog[r].answers[a.request]
  <2>1. \A a \in told : a.request \in Requests
    BY DEF StoreInv, TypeOK, Told
  <2>2. QED
    BY <1>1, <2>1
<1>3. e.answers["create"] # "none" => e.key # None
  BY <1>1 DEF StoreInv, ToldInv, Keyed, Requests
<1>4. \A a \in told : lock'.keyed = "yes" =>
        Pending' = "none" \/ a.run # lock'.run \/ a.request # Pending'
  OBVIOUS
<1>5. QED
  BY <1>1, <1>2, <1>3, <1>4, ToldKept

\* A request with a key is answered, with what is on disk.
LEMMA ToldTold ==
  ASSUME NEW q \in Requests, NEW r \in Runs, NEW answer, TellIfKeyed(q, r, answer),
         (\A a \in told : Given(a)') /\ Keyed(catalog)' /\ Keyed(saved)',
         lock' = Unlocked,
         lock.keyed = "yes" =>
           /\ saved'[r].answers[q] = answer /\ catalog'[r].answers[q] = answer
           /\ q = "create" => /\ catalog[r].key # None
                              /\ saved'[r].key = catalog[r].key /\ catalog'[r].key = catalog[r].key
  PROVE ToldInv'
<1>1. lock'.keyed = "no"
  BY DEF Unlocked
<1>2. PendingAnswer'
  BY <1>1 DEF PendingAnswer
<1>3. CASE lock.keyed # "yes"
  BY <1>2, <1>3 DEF TellIfKeyed, ToldInv
<1>4. CASE lock.keyed = "yes"
  <2>1. PICK t : t = [request |-> q, subject |-> IF q = "create" THEN catalog[r].key ELSE r,
                      run |-> r, is |-> answer]
    OBVIOUS
  <2>2. told' = told \cup {t}
    BY <1>4, <2>1 DEF TellIfKeyed, Tell
  <2>3. Given(t)'
    BY <1>1, <1>4, <2>1 DEF Given
  <2>4. \A a \in told' : Given(a)'
    BY <2>2, <2>3, Zenon
  <2>5. QED
    BY <1>2, <2>4, Zenon DEF ToldInv
<1>5. QED
  BY <1>3, <1>4

\* Nobody is told anything new.
LEMMA ToldSame ==
  ASSUME (\A a \in told : Given(a)') /\ Keyed(catalog)' /\ Keyed(saved)', PendingAnswer', told' = told
  PROVE ToldInv'
  BY Zenon DEF ToldInv

LEMMA ToldFree ==
  ASSUME StoreInv, UNCHANGED <<catalog, saved>>, Pending' = "none", ~Stopped \/ Stopped'
  PROVE (\A a \in told : Given(a)') /\ Keyed(catalog)' /\ Keyed(saved)'
  BY DEF StoreInv, ToldInv, Keyed, Given, Requests, TypeOK, Told

LEMMA ToldUntouched ==
  ASSUME StoreInv, UNCHANGED <<catalog, saved>>, lock'.keyed = "no", ~Stopped \/ Stopped'
  PROVE (\A a \in told : Given(a)') /\ Keyed(catalog)' /\ Keyed(saved)'
  BY DEF StoreInv, ToldInv, Keyed, Given

LEMMA ToldFrame ==
  ASSUME StoreInv, UNCHANGED <<catalog, saved, lock, told>>, Stopped' <=> Stopped
  PROVE ToldInv'
  BY DEF StoreInv, ToldInv, Keyed, Given, Pending, PendingAnswer

LEMMA ToldForgotten ==
  ASSUME StoreInv, Stopped', lock' = Unlocked, catalog' = [r \in Runs |-> Absent], UNCHANGED <<saved, told>>
  PROVE ToldInv'
<1>1. lock'.keyed = "no"
  BY DEF Unlocked
<1>2. Keyed(catalog)'
  BY DEF Keyed, Absent, Requests
<1>3. Keyed(saved)' /\ \A a \in told : Given(a)'
  BY <1>1 DEF StoreInv, ToldInv, Keyed, Given
<1>4. QED
  BY <1>1, <1>2, <1>3, ToldSame DEF PendingAnswer

LEMMA ToldSavedAll ==
  ASSUME StoreInv, ~Stopped, Stopped', lock' = Unlocked, catalog' = [r \in Runs |-> Absent],
         \A r \in Runs : saved'[r] = catalog[r], told' = told
  PROVE ToldInv'
<1>1. lock'.keyed = "no"
  BY DEF Unlocked
<1>2. Keyed(catalog)'
  BY DEF Keyed, Absent, Requests
<1>3. Keyed(saved)'
  BY DEF StoreInv, ToldInv, Keyed
<1>4. \A a \in told : Given(a)'
  <2>1. \A a \in told : a.run \in Runs
    BY DEF StoreInv, TypeOK, Told
  <2>2. QED
    BY <1>1, <2>1 DEF StoreInv, ToldInv, Given
<1>5. QED
  BY <1>1, <1>2, <1>3, <1>4, ToldSame DEF PendingAnswer

LEMMA ToldStep == StoreInv /\ Next => ToldInv'
<1> SUFFICES ASSUME StoreInv, Next PROVE ToldInv'
  OBVIOUS
<1>0. /\ TypeOK /\ LockInv /\ SavedInv
      /\ \A a \in told : Given(a)
      /\ Keyed(saved) /\ Keyed(catalog) /\ PendingAnswer
  BY DEF StoreInv, ToldInv
<1>a. /\ process \in {"down", "recovering", "up", "draining", "closed", "refused"}
      /\ lock \in Lock /\ catalog \in [Runs -> Entry] /\ saved \in [Runs -> Entry]
  BY <1>0 DEF TypeOK
<1> USE <1>0, <1>a
<1>1. ASSUME NEW r \in Runs, NEW k \in Keys \cup {None}, Create(r, k) PROVE ToldInv'
  <2> DEFINE answer == IF k = None THEN "none" ELSE "ok"
             e == [Absent EXCEPT !.status = "created", !.key = k, !.answers["create"] = answer]
  <2>1. /\ lock.at = "free" /\ process = "up" /\ latched = "no" /\ KeyUnused(k) /\ r \notin dirs
        /\ catalog' = [catalog EXCEPT ![r] = e] /\ UNCHANGED <<saved, told>>
        /\ lock' = [at |-> "persistCreated", run |-> r, keyed |-> IF k = None THEN "no" ELSE "yes"]
    BY <1>1 DEF Create, Serving, Free, NewRun, Take, logs
  <2>2. e \in Entry /\ e.key = k /\ e.answers["create"] = answer
    BY NewEntry DEF Absent, Answers, Requests
  <2> HIDE DEF e
  <2>3. ~Stopped /\ catalog[r] = Absent
    BY <2>1 DEF Stopped, SavedInv
  <2>4. \A b \in told : b.run # r
    <3>1. \A b \in told : b.is # "none" /\ b.request \in Requests
      BY DEF TypeOK, Told
    <3>2. \A q \in Requests : catalog[r].answers[q] = "none"
      BY <2>3 DEF Absent
    <3>3. QED
      BY <2>3, <3>1, <3>2 DEF Given
  <2>5. lock'.at = "persistCreated" /\ lock'.run = r /\ (lock'.keyed = "yes" <=> k # None)
    BY <2>1
  <2>6. Pending' = "create"
    BY <2>5 DEF Pending, Creating, Starting
  <2>7. (\A a \in told : Given(a)') /\ Keyed(catalog)' /\ Keyed(saved)'
    <3>1. e.key = catalog[r].key \/ \A s \in Runs : catalog[s].key # e.key \/ e.key = None
      BY <2>1, <2>2 DEF KeyUnused
    <3>2. e.answers["create"] # "none" => e.key # None
      BY <2>2
    <3>3. \A b \in told : lock'.keyed = "yes" =>
            Pending' = "none" \/ b.run # lock'.run \/ b.request # Pending'
      BY <2>4, <2>5
    <3>4. /\ lock.at = "free" /\ latched = "no" /\ catalog' = [catalog EXCEPT ![r] = e]
          /\ saved' \in {saved, [saved EXCEPT ![r] = e]}
      BY <2>1
    <3>5. e \in Entry
      BY <2>2
    <3>6. QED
      BY <2>3, <2>4, <3>1, <3>2, <3>3, <3>4, <3>5, ToldKept
  <2>8. PendingAnswer'
    BY <2>1, <2>2, <2>5, <2>6 DEF PendingAnswer
  <2>9. QED
    BY <2>1, <2>7, <2>8, ToldSame
<1>2. ASSUME NEW r \in Runs, CreateFails(r) PROVE ToldInv'
  <2>1. (Stopped' <=> Stopped) /\ UNCHANGED <<lock, catalog, saved, told>>
    BY <1>2 DEF CreateFails, Stopped, memory
  <2>2. QED
    BY <2>1, ToldFrame
<1>3. ASSUME NEW r \in Runs, CreatedPersisted(r) PROVE ToldInv'
  <2>1. /\ lock.at = "persistCreated" /\ lock.run = r /\ lock' = [lock EXCEPT !.at = "prepare"]
        /\ PersistOk(r, catalog[r]) /\ UNCHANGED <<catalog, told>>
    BY <1>3 DEF CreatedPersisted, Held, Continue
  <2>2. lock'.at = "prepare" /\ lock'.run = r /\ lock'.keyed = lock.keyed
    BY <2>1 DEF Lock
  <2>3. Pending' = Pending /\ lock.at \in Creating /\ lock'.at \in Creating
    BY <2>1, <2>2 DEF Pending, Creating, Starting
  <2>4. (\A a \in told : Given(a)') /\ Keyed(catalog)' /\ Keyed(saved)'
    BY <2>1, <2>2, <2>3, ToldPersisted DEF Held
  <2>5. PendingAnswer'
    BY <2>1, <2>2, <2>3 DEF PendingAnswer
  <2>6. QED
    BY <2>1, <2>4, <2>5, ToldSame
<1>4. ASSUME NEW r \in Runs, CreatedUnpersisted(r) PROVE ToldInv'
  <2>1. /\ lock.at = "persistCreated" /\ lock.run = r /\ lock'.keyed = "no"
        /\ PersistOk(r, catalog[r]) \/ PersistFails(r, catalog[r])
        /\ UNCHANGED <<catalog, told>>
    BY <1>4 DEF CreatedUnpersisted, Held, Unlock, Unlocked
  <2>2. (\A a \in told : Given(a)') /\ Keyed(catalog)' /\ Keyed(saved)'
    BY <2>1, ToldPersisted DEF Held
  <2>3. PendingAnswer'
    BY <2>1 DEF PendingAnswer
  <2>4. QED
    BY <2>1, <2>2, <2>3, ToldSame
<1>5. ASSUME NEW r \in Runs, NEW keyed \in {"yes", "no"}, Start(r, keyed) PROVE ToldInv'
  <2>1. /\ lock.at = "free" /\ process = "up" /\ latched = "no" /\ told' = told
        /\ Unanswered(r, "start", keyed)
        /\ lock' = [at |-> "persistStarted", run |-> r, keyed |-> keyed]
    BY <1>5 DEF Start, Serving, Free, Take
  <2>2. GivesAnswer(r, "running", "start", keyed, "ok")
    BY <1>5, StartAnswers
  <2>3. ~Stopped
    BY <2>1 DEF Stopped
  <2>4. keyed = "yes" => \A b \in told : b.run # r \/ b.request # "start"
    <3>1. \A b \in told : b.is # "none"
      BY DEF TypeOK, Told
    <3>2. QED
      BY <2>1, <2>3, <3>1 DEF Unanswered, Given
  <2>5. catalog'[r].answers["start"] = IF keyed = "yes" THEN "ok" ELSE catalog[r].answers["start"]
    BY <2>2 DEF GivesAnswer, Requests
  <2>6. CASE lock' = [at |-> "persistStarted", run |-> r, keyed |-> keyed]
    <3>1. lock'.at = "persistStarted" /\ lock'.run = r /\ lock'.keyed = keyed
      BY <2>6
    <3>2. Pending' = "start"
      BY <3>1 DEF Pending, Creating, Starting
    <3>3. (\A a \in told : Given(a)') /\ Keyed(catalog)' /\ Keyed(saved)'
      BY <2>1, <2>2, <2>3, <2>4, <3>1, <3>2, ToldAnswered DEF Requests
    <3>4. PendingAnswer'
      BY <2>5, <3>1, <3>2 DEF PendingAnswer
    <3>5. QED
      BY <2>1, <3>3, <3>4, ToldSame
  <2>7. QED
    BY <2>1, <2>6
<1>6. ASSUME NEW r \in Runs, StartFails(r) PROVE ToldInv'
  <2>1. (Stopped' <=> Stopped) /\ UNCHANGED <<lock, catalog, saved, told>>
    BY <1>6 DEF StartFails, Stopped, memory
  <2>2. QED
    BY <2>1, ToldFrame
<1>7. ASSUME NEW r \in Runs, StartPersisted(r) PROVE ToldInv'
  <2>1. /\ lock.at = "persistStarted" /\ lock.run = r /\ lock' = [lock EXCEPT !.at = "dispatchStart"]
        /\ PersistOk(r, catalog[r]) /\ UNCHANGED <<catalog, told>>
    BY <1>7 DEF StartPersisted, Held, Continue
  <2>2. lock'.at = "dispatchStart" /\ lock'.run = r /\ lock'.keyed = lock.keyed
    BY <2>1 DEF Lock
  <2>3. Pending' = Pending /\ lock.at \in Starting /\ lock'.at \in Starting
    BY <2>1, <2>2 DEF Pending, Creating, Starting
  <2>4. (\A a \in told : Given(a)') /\ Keyed(catalog)' /\ Keyed(saved)'
    BY <2>1, <2>2, <2>3, ToldPersisted DEF Held
  <2>5. PendingAnswer'
    BY <2>1, <2>2, <2>3 DEF PendingAnswer
  <2>6. QED
    BY <2>1, <2>4, <2>5, ToldSame
<1>8. ASSUME NEW r \in Runs, StartUnpersisted(r) PROVE ToldInv'
  <2>1. /\ lock.at = "persistStarted" /\ lock.run = r /\ lock'.keyed = "no"
        /\ PersistOk(r, catalog[r]) \/ PersistFails(r, catalog[r])
        /\ UNCHANGED <<catalog, told>>
    BY <1>8 DEF StartUnpersisted, Held, Unlock, Unlocked
  <2>2. (\A a \in told : Given(a)') /\ Keyed(catalog)' /\ Keyed(saved)'
    BY <2>1, ToldPersisted DEF Held
  <2>3. PendingAnswer'
    BY <2>1 DEF PendingAnswer
  <2>4. QED
    BY <2>1, <2>2, <2>3, ToldSame
<1>9. ASSUME NEW r \in Runs, UndispatchedPersists(r) PROVE ToldInv'
  <2>1. /\ lock.at = "persistUndispatched" /\ lock.run = r /\ lock' = Unlocked /\ catalog' = catalog
        /\ \/ PersistOk(r, catalog[r]) /\ TellIfKeyed("start", r, "failure")
           \/ PersistFails(r, catalog[r]) /\ UNCHANGED told
    BY <1>9 DEF UndispatchedPersists, Held, Unlock
  <2>2. lock'.keyed = "no"
    BY <2>1 DEF Unlocked
  <2>3. (\A a \in told : Given(a)') /\ Keyed(catalog)' /\ Keyed(saved)'
    BY <2>1, <2>2, ToldPersisted DEF Held
  <2>4. CASE UNCHANGED told
    BY <2>2, <2>3, <2>4, ToldSame DEF PendingAnswer
  <2>5. CASE PersistOk(r, catalog[r]) /\ TellIfKeyed("start", r, "failure")
    <3>1. lock.keyed = "yes" => catalog[r].answers["start"] = "failure"
      BY <2>1 DEF PendingAnswer, Pending, Creating, Starting
    <3>2. saved'[r] = catalog[r]
      BY <2>5 DEF PersistOk, State
    <3>3. QED
      BY <2>1, <2>3, <2>5, <3>1, <3>2, ToldTold DEF Requests
  <2>6. QED
    BY <2>1, <2>4, <2>5
<1>10. ASSUME NEW r \in Runs, NEW keyed \in {"yes", "no"}, Stop(r, keyed) PROVE ToldInv'
  <2>1. /\ lock.at = "free" /\ process = "up" /\ latched = "no" /\ told' = told
        /\ Unanswered(r, "stop", keyed)
        /\ lock' = [at |-> "dispatchStop", run |-> r, keyed |-> keyed] \/ lock' = lock
    BY <1>10 DEF Stop, Serving, Free, Take
  <2>2. GivesAnswer(r, "stopping", "stop", keyed, "ok")
    BY <1>10, StopAnswers
  <2>3. ~Stopped
    BY <2>1 DEF Stopped
  <2>4. keyed = "yes" => \A b \in told : b.run # r \/ b.request # "stop"
    <3>1. \A b \in told : b.is # "none"
      BY DEF TypeOK, Told
    <3>2. QED
      BY <2>1, <2>3, <3>1 DEF Unanswered, Given
  <2>5. catalog'[r].answers["stop"] = IF keyed = "yes" THEN "ok" ELSE catalog[r].answers["stop"]
    BY <2>2 DEF GivesAnswer, Requests
  <2>6. CASE lock' = [at |-> "dispatchStop", run |-> r, keyed |-> keyed]
    <3>1. lock'.at = "dispatchStop" /\ lock'.run = r /\ lock'.keyed = keyed
      BY <2>6
    <3>2. Pending' = "stop"
      BY <3>1 DEF Pending, Creating, Starting
    <3>3. (\A a \in told : Given(a)') /\ Keyed(catalog)' /\ Keyed(saved)'
      BY <2>1, <2>2, <2>3, <2>4, <3>1, <3>2, ToldAnswered DEF Requests
    <3>4. PendingAnswer'
      BY <2>5, <3>1, <3>2 DEF PendingAnswer
    <3>5. QED
      BY <2>1, <3>3, <3>4, ToldSame
  <2>7. CASE lock' = lock
    <3>1. Pending' = "none" /\ lock'.at = "free"
      BY <2>1, <2>7 DEF Pending, Creating, Starting
    <3>2. PendingAnswer'
      BY <3>1 DEF PendingAnswer
    <3>3. (\A a \in told : Given(a)') /\ Keyed(catalog)' /\ Keyed(saved)'
      BY <2>1, <2>2, <2>3, <2>4, <3>1, ToldAnswered DEF Requests
    <3>4. QED
      BY <2>1, <3>2, <3>3, ToldSame
  <2>8. QED
    BY <2>1, <2>6, <2>7
<1>11. ASSUME NEW r \in Runs, NEW q \in Requests, Replay(q, r) PROVE ToldInv'
  <2>0. PICK t : t = [request |-> q, subject |-> IF q = "create" THEN catalog[r].key ELSE r,
                      run |-> r, is |-> catalog[r].answers[q]]
    OBVIOUS
  <2>1. /\ lock.at = "free" /\ latched = "no" /\ process = "up" /\ catalog[r].answers[q] # "none"
        /\ told' = told \cup {t} /\ UNCHANGED <<process, lock, catalog, saved>>
    BY <1>11, <2>0 DEF Replay, Serving, Free, Tell, memory, storage
  <2>2. catalog[r] = saved[r]
    BY <2>1 DEF SavedInv, Stopped, Unsaved, Loading
  <2>3. q = "create" => catalog[r].key # None
    BY <2>1 DEF Keyed
  <2>4. Pending' = "none" /\ PendingAnswer'
    BY <2>1 DEF Pending, PendingAnswer, Creating, Starting
  <2>5. (\A a \in told : Given(a)') /\ Keyed(catalog)' /\ Keyed(saved)'
    BY <2>1, <2>4, ToldFree DEF Stopped
  <2>6. Given(t)'
    BY <2>0, <2>1, <2>2, <2>3, <2>4 DEF Given, Requests
  <2>7. \A b \in told' : Given(b)'
    BY <2>1, <2>5, <2>6, Zenon
  <2>8. QED
    BY <2>4, <2>5, <2>7, Zenon DEF ToldInv
<1>12. ASSUME NEW r \in Runs, Prepared(r) PROVE ToldInv'
  <2>1. /\ lock.at = "prepare" /\ lock.run = r /\ lock' = Unlocked
        /\ TellIfKeyed("create", r, "ok") /\ UNCHANGED <<process, catalog, saved>>
    BY <1>12 DEF Prepared, Held, Unlock
  <2>2. lock.keyed = "yes" => catalog[r].answers["create"] = "ok"
    BY <2>1 DEF PendingAnswer, Pending, Creating, Starting
  <2>3. catalog[r] = saved[r]
    BY <2>1 DEF LockInv, SavedInv, Unsaved, Loading
  <2>4. lock'.keyed = "no"
    BY <2>1 DEF Unlocked
  <2>5. (\A a \in told : Given(a)') /\ Keyed(catalog)' /\ Keyed(saved)'
    BY <2>1, <2>4, ToldUntouched DEF Stopped
  <2>6. lock.keyed = "yes" /\ "create" = "create" => catalog[r].key # None
    BY <2>2 DEF Keyed
  <2>7. QED
    BY <2>1, <2>2, <2>3, <2>5, <2>6, ToldTold DEF Requests
<1>13. ASSUME NEW r \in Runs, Unprepared(r) PROVE ToldInv'
  <2>1. lock.at = "prepare" /\ lock.run = r /\ lock' = Unlocked
    BY <1>13 DEF Unprepared, Held, Unlock
  <2>2. (latched' = latched /\ TellIfKeyed("create", r, "failure")) \/ UNCHANGED told
    BY <1>13 DEF Unprepared, PersistOk
  <2>3. GivesAnswer(r, "failed", "create", lock.keyed, "failure")
    BY <1>13, UnpreparedAnswers
  <2>4. ~Stopped /\ latched = "no" /\ Pending = "create"
    BY <2>1 DEF LockInv, Pending, Creating, Starting
  <2>5. lock.keyed = "yes" => \A b \in told : b.run # r \/ b.request # "create"
    BY <2>1, <2>4 DEF Given
  <2>6. lock.keyed = "yes" /\ "create" = "create" => catalog[r].key # None
    BY <2>1, <2>4 DEF PendingAnswer, Keyed, Creating
  <2>7. lock'.keyed = "no" /\ lock'.at = "free"
    BY <2>1 DEF Unlocked
  <2>8. (\A a \in told : Given(a)') /\ Keyed(catalog)' /\ Keyed(saved)'
    BY <2>1, <2>3, <2>4, <2>5, <2>6, <2>7, ToldAnswered DEF Requests
  <2>9. CASE UNCHANGED told
    BY <2>7, <2>8, <2>9, ToldSame DEF PendingAnswer
  <2>10. CASE latched' = latched /\ TellIfKeyed("create", r, "failure")
    <3>1. /\ saved'[r] = catalog'[r] /\ catalog'[r].key = catalog[r].key
          /\ lock.keyed = "yes" => catalog'[r].answers["create"] = "failure"
      BY <2>3, <2>4, <2>7, <2>10 DEF GivesAnswer, Unsaved, Loading, Requests
    <3>2. QED
      BY <2>1, <2>6, <2>8, <2>10, <3>1, ToldTold DEF Requests
  <2>11. QED
    BY <2>2, <2>9, <2>10
<1>14. ASSUME NEW r \in Runs, Dispatched(r) PROVE ToldInv'
  <2>1. /\ lock.at = "dispatchStart" /\ lock.run = r /\ lock' = Unlocked
        /\ TellIfKeyed("start", r, "ok") /\ UNCHANGED <<process, catalog, saved>>
    BY <1>14 DEF Dispatched, Held, Unlock
  <2>2. lock.keyed = "yes" => catalog[r].answers["start"] = "ok"
    BY <2>1 DEF PendingAnswer, Pending, Creating, Starting
  <2>3. catalog[r] = saved[r]
    BY <2>1 DEF LockInv, SavedInv, Unsaved, Loading
  <2>4. lock'.keyed = "no"
    BY <2>1 DEF Unlocked
  <2>5. (\A a \in told : Given(a)') /\ Keyed(catalog)' /\ Keyed(saved)'
    BY <2>1, <2>4, ToldUntouched DEF Stopped
  <2>6. lock.keyed = "yes" /\ "start" = "create" => catalog[r].key # None
    BY <2>2 DEF Keyed
  <2>7. QED
    BY <2>1, <2>2, <2>3, <2>5, <2>6, ToldTold DEF Requests
<1>15. ASSUME NEW r \in Runs, Undispatched(r) PROVE ToldInv'
  <2>1. /\ lock.at = "dispatchStart" /\ lock.run = r /\ UNCHANGED <<process, saved, told>>
    BY <1>15 DEF Undispatched, Held
  <2>2. ~Stopped /\ latched = "no" /\ Pending = "start"
    BY <2>1 DEF LockInv, Pending, Creating, Starting
  <2>3. CASE Unlock
    <3>1. catalog' = catalog /\ lock'.keyed = "no"
      BY <1>15, <2>1, <2>3 DEF Undispatched, Unlock, Unlocked, Continue, Lock
    <3>2. (\A a \in told : Given(a)') /\ Keyed(catalog)' /\ Keyed(saved)'
      BY <2>1, <3>1, ToldUntouched DEF Stopped
    <3>3. QED
      BY <2>1, <3>1, <3>2, ToldSame DEF PendingAnswer
  <2>4. CASE ~Unlock
    <3>1. GivesAnswer(r, "failed", "start", lock.keyed, "failure")
      BY <1>15, <2>4, UndispatchedAnswers
    <3>2. lock' = [lock EXCEPT !.at = "persistUndispatched"]
      BY <1>15, <2>4 DEF Undispatched, Continue
    <3>3. lock'.at = "persistUndispatched" /\ lock'.run = r /\ lock'.keyed = lock.keyed
      BY <2>1, <3>2 DEF Lock
    <3>4. Pending' = "start"
      BY <3>3 DEF Pending, Creating, Starting
    <3>5. lock.keyed = "yes" => \A b \in told : b.run # r \/ b.request # "start"
      BY <2>1, <2>2 DEF Given
    <3>6. (\A a \in told : Given(a)') /\ Keyed(catalog)' /\ Keyed(saved)'
      BY <2>1, <2>2, <3>1, <3>3, <3>4, <3>5, ToldAnswered DEF Requests
    <3>7. lock.keyed = "yes" => catalog'[r].answers["start"] = "failure"
      BY <3>1 DEF GivesAnswer, Requests
    <3>8. PendingAnswer'
      BY <3>3, <3>4, <3>7 DEF PendingAnswer
    <3>9. QED
      BY <2>1, <3>6, <3>8, ToldSame
  <2>5. QED
    BY <2>3, <2>4
<1>16. ASSUME NEW r \in Runs, StopDispatched(r) PROVE ToldInv'
  <2>1. /\ lock.at = "dispatchStop" /\ lock.run = r /\ lock' = Unlocked
        /\ TellIfKeyed("stop", r, "ok") /\ UNCHANGED <<process, catalog, saved>>
    BY <1>16 DEF StopDispatched, Held, Unlock
  <2>2. lock.keyed = "yes" => catalog[r].answers["stop"] = "ok"
    BY <2>1 DEF PendingAnswer, Pending, Creating, Starting
  <2>3. catalog[r] = saved[r]
    BY <2>1 DEF LockInv, SavedInv, Unsaved, Loading
  <2>4. lock'.keyed = "no"
    BY <2>1 DEF Unlocked
  <2>5. (\A a \in told : Given(a)') /\ Keyed(catalog)' /\ Keyed(saved)'
    BY <2>1, <2>4, ToldUntouched DEF Stopped
  <2>6. lock.keyed = "yes" /\ "stop" = "create" => catalog[r].key # None
    BY <2>2 DEF Keyed
  <2>7. QED
    BY <2>1, <2>2, <2>3, <2>5, <2>6, ToldTold DEF Requests
<1>17. ASSUME NEW r \in Runs, StopUndispatched(r) PROVE ToldInv'
  <2>1. lock.at = "dispatchStop" /\ lock.run = r /\ lock' = Unlocked
    BY <1>17 DEF StopUndispatched, Held, Unlock
  <2>2. (latched' = latched /\ TellIfKeyed("stop", r, "failure")) \/ UNCHANGED told
    BY <1>17 DEF StopUndispatched, PersistOk
  <2>3. GivesAnswer(r, "running", "stop", lock.keyed, "failure")
    BY <1>17, StopUndispatchedAnswers
  <2>4. ~Stopped /\ latched = "no" /\ Pending = "stop"
    BY <2>1 DEF LockInv, Pending, Creating, Starting
  <2>5. lock.keyed = "yes" => \A b \in told : b.run # r \/ b.request # "stop"
    BY <2>1, <2>4 DEF Given
  <2>6. lock.keyed = "yes" /\ "stop" = "create" => catalog[r].key # None
    BY <2>1, <2>4 DEF PendingAnswer, Keyed, Creating
  <2>7. lock'.keyed = "no" /\ lock'.at = "free"
    BY <2>1 DEF Unlocked
  <2>8. (\A a \in told : Given(a)') /\ Keyed(catalog)' /\ Keyed(saved)'
    BY <2>1, <2>3, <2>4, <2>5, <2>6, <2>7, ToldAnswered DEF Requests
  <2>9. CASE UNCHANGED told
    BY <2>7, <2>8, <2>9, ToldSame DEF PendingAnswer
  <2>10. CASE latched' = latched /\ TellIfKeyed("stop", r, "failure")
    <3>1. /\ saved'[r] = catalog'[r] /\ catalog'[r].key = catalog[r].key
          /\ lock.keyed = "yes" => catalog'[r].answers["stop"] = "failure"
      BY <2>3, <2>4, <2>7, <2>10 DEF GivesAnswer, Unsaved, Loading, Requests
    <3>2. QED
      BY <2>1, <2>6, <2>8, <2>10, <3>1, ToldTold DEF Requests
  <2>11. QED
    BY <2>2, <2>9, <2>10
<1>18. ASSUME NEW r \in Runs, NEW status \in {"completed", "failed"}, Completes(r, status)
       PROVE ToldInv'
  <2> DEFINE e == [catalog[r] EXCEPT !.status = FinalStatus(r, status)]
  <2>1. /\ lock.at = "free" /\ ~Stopped /\ latched = "no" /\ UNCHANGED <<process, saved, told>>
        /\ catalog' = [catalog EXCEPT ![r] = e] /\ lock'.keyed = "no"
    BY <1>18 DEF Completes, Calling, Free, Alive, Stopped, Take
  <2>2. e \in Entry /\ e.key = catalog[r].key /\ e.answers = catalog[r].answers
    BY DEF FinalStatus, Entry, Statuses, Terminal
  <2> HIDE DEF e
  <2>3. e.answers["create"] # "none" => e.key # None
    BY <2>2 DEF Keyed
  <2>4. (\A a \in told : Given(a)') /\ Keyed(catalog)' /\ Keyed(saved)'
    BY <2>1, <2>2, <2>3, ToldKept
  <2>5. QED
    BY <2>1, <2>4, ToldSame DEF PendingAnswer
<1>19. ASSUME NEW r \in Runs, NEW status \in {"completed", "failed"}, CompleteFails(r, status)
       PROVE ToldInv'
  <2>1. (Stopped' <=> Stopped) /\ UNCHANGED <<lock, catalog, saved, told>>
    BY <1>19 DEF CompleteFails, Stopped, memory
  <2>2. QED
    BY <2>1, ToldFrame
<1>20. ASSUME NEW r \in Runs, CompletionPersisted(r) PROVE ToldInv'
  <2>1. /\ lock.at = "persistCompletion" /\ lock.run = r /\ lock'.keyed = "no"
        /\ PersistOk(r, catalog[r]) \/ PersistFails(r, catalog[r])
        /\ UNCHANGED <<catalog, told>>
    BY <1>20 DEF CompletionPersisted, Held, Unlock, Unlocked
  <2>2. (\A a \in told : Given(a)') /\ Keyed(catalog)' /\ Keyed(saved)'
    BY <2>1, ToldPersisted DEF Held
  <2>3. PendingAnswer'
    BY <2>1 DEF PendingAnswer
  <2>4. QED
    BY <2>1, <2>2, <2>3, ToldSame
<1>21. ASSUME NEW r \in Runs, CompletionUnpersisted(r) PROVE ToldInv'
  <2>1. /\ lock.at = "persistCompletion" /\ lock.run = r /\ lock'.keyed = "no"
        /\ PersistOk(r, catalog[r]) \/ PersistFails(r, catalog[r])
        /\ UNCHANGED <<catalog, told>>
    BY <1>21 DEF CompletionUnpersisted, Held, Unlock, Unlocked
  <2>2. (\A a \in told : Given(a)') /\ Keyed(catalog)' /\ Keyed(saved)'
    BY <2>1, ToldPersisted DEF Held
  <2>3. PendingAnswer'
    BY <2>1 DEF PendingAnswer
  <2>4. QED
    BY <2>1, <2>2, <2>3, ToldSame
<1>22. ASSUME NEW r \in Runs, AppendEvent(r) PROVE ToldInv'
  <2>1. (Stopped' <=> Stopped) /\ UNCHANGED <<lock, catalog, saved, told>>
    BY <1>22 DEF AppendEvent, Stopped, memory
  <2>2. QED
    BY <2>1, ToldFrame
<1>23. ASSUME NEW r \in Runs, AppendEventFails(r) PROVE ToldInv'
  <2>1. (Stopped' <=> Stopped) /\ UNCHANGED <<lock, catalog, saved, told>>
    BY <1>23 DEF AppendEventFails, Stopped, memory
  <2>2. QED
    BY <2>1, ToldFrame
<1>24. ASSUME NEW r \in Runs, SealRun(r) PROVE ToldInv'
  <2>1. (Stopped' <=> Stopped) /\ UNCHANGED <<lock, catalog, saved, told>>
    BY <1>24 DEF SealRun, Stopped, memory
  <2>2. QED
    BY <2>1, ToldFrame
<1>25. ASSUME NEW r \in Runs, SealRunFails(r) PROVE ToldInv'
  <2>1. (Stopped' <=> Stopped) /\ UNCHANGED <<lock, catalog, saved, told>>
    BY <1>25 DEF SealRunFails, Stopped, memory
  <2>2. QED
    BY <2>1, ToldFrame
<1>26. ASSUME NEW r \in Runs, NEW v \in DriverVerdicts(r), SetEvidenceVerification(r, v)
       PROVE ToldInv'
  <2> DEFINE e == [catalog[r] EXCEPT !.verdict = v]
  <2>1. lock.at = "free" /\ ~Stopped /\ UNCHANGED <<process, lock, told>>
    BY <1>26, Zenon DEF SetEvidenceVerification, Calling, Free, Alive, Stopped
  <2>2. Pending' = "none" /\ PendingAnswer'
    BY <2>1 DEF Pending, PendingAnswer, Creating, Starting
  <2>3. \/ UNCHANGED <<catalog, saved>>
        \/ /\ latched = "no" /\ catalog' = [catalog EXCEPT ![r] = e]
           /\ PersistOk(r, e) \/ PersistFails(r, e)
    BY <1>26, Zenon DEF SetEvidenceVerification
  <2>4. CASE UNCHANGED <<catalog, saved>>
    BY <2>1, <2>2, <2>4, ToldFree, ToldSame
  <2>5. CASE latched = "no" /\ catalog' = [catalog EXCEPT ![r] = e] /\ (PersistOk(r, e) \/ PersistFails(r, e))
    <3>1. e \in Entry /\ e.key = catalog[r].key /\ e.answers = catalog[r].answers
      BY VerdictsToSet DEF Entry
    <3> HIDE DEF e
    <3>2. saved' \in {saved, [saved EXCEPT ![r] = e]}
      BY <2>5 DEF PersistOk, PersistFails, State
    <3>3. e.answers["create"] # "none" => e.key # None
      BY <3>1 DEF Keyed
    <3>4. (\A a \in told : Given(a)') /\ Keyed(catalog)' /\ Keyed(saved)'
      BY <2>1, <2>2, <2>5, <3>1, <3>2, <3>3, ToldKept
    <3>5. QED
      BY <2>1, <2>2, <3>4, ToldSame
  <2>6. QED
    BY <2>3, <2>4, <2>5
<1>27. ASSUME NEW r \in Runs, NEW v \in DriverVerdicts(r), SetEvidenceVerificationFails(r, v)
       PROVE ToldInv'
  <2> DEFINE e == [catalog[r] EXCEPT !.verdict = v]
  <2>1. lock.at = "free" /\ ~Stopped /\ UNCHANGED <<process, lock, told>>
    BY <1>27, Zenon DEF SetEvidenceVerificationFails, Calling, Free, Alive, Stopped
  <2>2. Pending' = "none" /\ PendingAnswer'
    BY <2>1 DEF Pending, PendingAnswer, Creating, Starting
  <2>3. \/ UNCHANGED <<catalog, saved>>
        \/ /\ latched = "no" /\ catalog' = [catalog EXCEPT ![r] = e]
           /\ PersistOk(r, e) \/ PersistFails(r, e)
    BY <1>27, Zenon DEF SetEvidenceVerificationFails
  <2>4. CASE UNCHANGED <<catalog, saved>>
    BY <2>1, <2>2, <2>4, ToldFree, ToldSame
  <2>5. CASE latched = "no" /\ catalog' = [catalog EXCEPT ![r] = e] /\ (PersistOk(r, e) \/ PersistFails(r, e))
    <3>1. e \in Entry /\ e.key = catalog[r].key /\ e.answers = catalog[r].answers
      BY VerdictsToSet DEF Entry
    <3> HIDE DEF e
    <3>2. saved' \in {saved, [saved EXCEPT ![r] = e]}
      BY <2>5 DEF PersistOk, PersistFails, State
    <3>3. e.answers["create"] # "none" => e.key # None
      BY <3>1 DEF Keyed
    <3>4. (\A a \in told : Given(a)') /\ Keyed(catalog)' /\ Keyed(saved)'
      BY <2>1, <2>2, <2>5, <3>1, <3>2, <3>3, ToldKept
    <3>5. QED
      BY <2>1, <2>2, <3>4, ToldSame
  <2>6. QED
    BY <2>3, <2>4, <2>5
<1>28. ASSUME NEW r \in Runs, RecoverFinishes(r) PROVE ToldInv'
  <2> DEFINE e == AsInterrupted(catalog[r])
  <2>1. /\ lock.at = "free" /\ process = "recovering" /\ UNCHANGED <<process, saved, told>>
        /\ catalog' = [catalog EXCEPT ![r] = e] /\ lock'.keyed = "no"
    BY <1>28 DEF RecoverFinishes, Recovering, Free, Take
  <2>2. e \in Entry /\ e.key = catalog[r].key /\ e.answers = catalog[r].answers
    BY FlatIsVerdict DEF AsInterrupted, Entry, Statuses, Terminal, Verdicts
  <2> HIDE DEF e
  <2>3. ~Stopped /\ latched = "no"
    BY <2>1 DEF Stopped, LockInv
  <2>4. e.answers["create"] # "none" => e.key # None
    BY <2>2 DEF Keyed
  <2>5. (\A a \in told : Given(a)') /\ Keyed(catalog)' /\ Keyed(saved)'
    BY <2>1, <2>2, <2>3, <2>4, ToldKept
  <2>6. QED
    BY <2>1, <2>5, ToldSame DEF PendingAnswer
<1>29. ASSUME NEW r \in Runs, RecoverSeals(r) PROVE ToldInv'
  <2>1. lock.at = "recoverSeal" /\ lock' = [lock EXCEPT !.at = "recoverPersist"]
        /\ UNCHANGED <<process, catalog, saved, told>>
    BY <1>29 DEF RecoverSeals, Held, Continue
  <2>2. lock'.at = "recoverPersist"
    BY <2>1 DEF Lock
  <2>3. Pending' = "none" /\ PendingAnswer'
    BY <2>2 DEF Pending, PendingAnswer, Creating, Starting
  <2>4. QED
    BY <2>1, <2>3, ToldFree, ToldSame DEF Stopped
<1>30. ASSUME NEW r \in Runs, RecoverPersists(r) PROVE ToldInv'
  <2>1. /\ lock.at = "recoverPersist" /\ lock.run = r /\ lock'.keyed = "no"
        /\ PersistOk(r, catalog[r]) \/ PersistFails(r, catalog[r])
        /\ UNCHANGED <<catalog, told>>
    BY <1>30 DEF RecoverPersists, Held, Unlock, Unlocked
  <2>2. (\A a \in told : Given(a)') /\ Keyed(catalog)' /\ Keyed(saved)'
    BY <2>1, ToldPersisted DEF Held
  <2>3. PendingAnswer'
    BY <2>1 DEF PendingAnswer
  <2>4. QED
    BY <2>1, <2>2, <2>3, ToldSame
<1>31. ASSUME NEW r \in Runs, RecoveryFails(r) PROVE ToldInv'
  <2>1. /\ ~Stopped /\ process' = "refused" /\ lock' = Unlocked /\ told' = told
        /\ catalog' = [s \in Runs |-> Absent]
    BY <1>31 DEF RecoveryFails, Refuse, Unlock, Stopped
  <2>2. CASE saved' = saved
    BY <2>1, <2>2, ToldForgotten DEF Stopped
  <2>3. CASE Held("recoverPersist", r) /\ saved' = [saved EXCEPT ![r] = catalog[r]]
    <3>1. \A s \in Runs : catalog[s] = saved[s] \/ s = r
      BY <2>1, <2>3 DEF SavedInv, LockInv, Held
    <3>2. \A s \in Runs : saved'[s] = catalog[s]
      BY <2>3, <3>1
    <3>3. QED
      BY <2>1, <3>2, ToldSavedAll DEF Stopped
  <2>4. QED
    BY <1>31, <2>2, <2>3 DEF RecoveryFails, State
<1>32. CASE OpenStore
  <2>1. \A s \in Runs : catalog'[s] = saved[s]
    BY <1>32 DEF OpenStore, SavedInv
  <2>2. UNCHANGED <<lock, saved, told>> /\ Stopped
    BY <1>32 DEF OpenStore, storage
  <2>3. lock.at = "free"
    BY <2>2 DEF LockInv
  <2>4. Pending' = "none" /\ PendingAnswer'
    BY <2>2, <2>3 DEF Pending, PendingAnswer, Creating, Starting
  <2>5. Keyed(catalog)' /\ Keyed(saved)'
    BY <2>1, <2>2 DEF Keyed
  <2>6. \A b \in told : Given(b)'
    <3>1. \A b \in told : b.run \in Runs /\ b.request \in Requests
      BY DEF TypeOK, Told
    <3>2. QED
      BY <2>1, <2>2, <2>4, <3>1 DEF Given, Requests
  <2>7. QED
    BY <2>2, <2>4, <2>5, <2>6, ToldSame
<1>33. CASE OpenStoreRefuses
  <2>1. (Stopped' <=> Stopped) /\ UNCHANGED <<lock, catalog, saved, told>>
    BY <1>33 DEF OpenStoreRefuses, Recovering, Stopped, storage
  <2>2. QED
    BY <2>1, ToldFrame
<1>34. CASE Serve
  <2>1. (Stopped' <=> Stopped) /\ UNCHANGED <<lock, catalog, saved, told>>
    BY <1>34 DEF Serve, Recovering, Stopped, storage
  <2>2. QED
    BY <2>1, ToldFrame
<1>35. CASE Reject
  <2>1. Stopped' /\ lock' = Unlocked /\ catalog' = [s \in Runs |-> Absent] /\ UNCHANGED <<saved, told>>
    BY <1>35 DEF Reject, MemoryLost, Refuse, Unlock, Stopped, storage
  <2>2. QED
    BY <2>1, ToldForgotten
<1>36. CASE Drain
  <2>1. (Stopped' <=> Stopped) /\ UNCHANGED <<lock, catalog, saved, told>>
    BY <1>36 DEF Drain, Recovering, Stopped, storage
  <2>2. QED
    BY <2>1, ToldFrame
<1>37. CASE Close
  <2>1. (Stopped' <=> Stopped) /\ UNCHANGED <<lock, catalog, saved, told>>
    BY <1>37 DEF Close, Recovering, Stopped, storage
  <2>2. QED
    BY <2>1, ToldFrame
<1>38. CASE Exit
  <2>1. Stopped' /\ lock' = Unlocked /\ catalog' = [s \in Runs |-> Absent] /\ UNCHANGED <<saved, told>>
    BY <1>38 DEF Exit, MemoryLost, Refuse, Unlock, Stopped, storage
  <2>2. QED
    BY <2>1, ToldForgotten
<1>39. CASE Crash
  <2>1. Stopped' /\ lock' = Unlocked /\ catalog' = [s \in Runs |-> Absent] /\ UNCHANGED <<saved, told>>
    BY <1>39 DEF Crash, MemoryLost, Refuse, Unlock, Stopped, storage
  <2>2. QED
    BY <2>1, ToldForgotten
<1>40. ASSUME NEW r \in Runs, CrashInSeal(r) PROVE ToldInv'
  <2>1. Stopped' /\ lock' = Unlocked /\ catalog' = [s \in Runs |-> Absent] /\ UNCHANGED <<saved, told>>
    BY <1>40 DEF CrashInSeal, MemoryLost, Unlock, Stopped
  <2>2. QED
    BY <2>1, ToldForgotten
<1>41. QED
  BY <1>1, <1>2, <1>3, <1>4, <1>5, <1>6, <1>7, <1>8, <1>9, <1>10, <1>11, <1>12, <1>13, <1>14,
         <1>15, <1>16, <1>17, <1>18, <1>19, <1>20, <1>21, <1>22, <1>23, <1>24, <1>25, <1>26,
         <1>27, <1>28, <1>29, <1>30, <1>31, <1>32, <1>33, <1>34, <1>35, <1>36, <1>37, <1>38, <1>39,
         <1>40
     DEF Next, ClientStep, DriverAnswers, DriverCalls, Recovery, ProcessStep, DriverVerdicts

-----------------------------------------------------------------------------
(* The theorems.                                                             *)

LEMMA InitStore == Init => StoreInv
<1> SUFFICES ASSUME Init PROVE StoreInv
  OBVIOUS
<1>1. process = "down" /\ lock = Unlocked /\ latched = "no" /\ dirs = {} /\ told = {}
      /\ faults = 0 /\ crashes = 0
  BY DEF Init
<1>2. \A r \in Runs : /\ catalog[r] = Absent /\ saved[r] = Absent
                      /\ events[r] = <<>> /\ file[r] = <<>>
  BY DEF Init
<1>3. <<>> \in Seq(Frame) /\ Len(<<>>) = 0 /\ Absent \in Entry
  BY EmptySeq, AbsentIsEntry
<1>4. NoMarker \in Marker /\ Unlocked \in Lock
  BY <1>3 DEF NoMarker, Marker, Unlocked, Lock
<1>5. TypeOK
  BY <1>1, <1>3, <1>4 DEF Init, TypeOK
<1>6. LockInv
  BY <1>1 DEF LockInv, Unlocked, Loading, Creating, Starting
<1>7. SavedInv
  BY <1>1, <1>2 DEF SavedInv, Stopped
<1>8. LogInv
  BY <1>1, <1>2, <1>3 DEF LogInv, RunLogInv, ValidFrames, AtMostOneFinish, Stopped, Alive
<1>9. ToldInv
  BY <1>1, <1>2 DEF ToldInv, Keyed, PendingAnswer, Unlocked, Absent, Requests
<1>10. QED
  BY <1>5, <1>6, <1>7, <1>8, <1>9 DEF StoreInv

LEMMA StoreStep == StoreInv /\ [Next]_vars => StoreInv'
<1>1. StoreInv /\ Next => StoreInv'
  BY TypeStep, LockStep, SavedStep, LogStep, ToldStep, Zenon DEF StoreInv
<1>2. StoreInv /\ UNCHANGED vars => StoreInv'
  <2> SUFFICES ASSUME StoreInv, UNCHANGED vars PROVE StoreInv'
    OBVIOUS
  <2>1. UNCHANGED <<process, lock, latched, catalog, events, sealed, dirs, saved, stamps,
                    file, marker, told, faults, crashes>>
    BY DEF vars, memory, storage
  <2>2. TypeOK' /\ LockInv' /\ SavedInv' /\ LogInv'
    BY <2>1 DEF StoreInv, TypeOK, LockInv, SavedInv, LogInv, RunLogInv, Alive, Stopped
  <2>3. ToldInv'
    BY <2>1, ToldFrame DEF Stopped
  <2>4. QED
    BY <2>2, <2>3 DEF StoreInv
<1>3. QED
  BY <1>1, <1>2

LEMMA Invariance == Spec => []StoreInv
  BY InitStore, StoreStep, PTL DEF Spec

\* Every variable keeps its type: no idempotency key is recorded that is not one, and
\* nothing but frames reaches a log.
THEOREM Types == Spec => []TypeOK
<1>1. StoreInv => TypeOK
  BY DEF StoreInv
<1>2. QED
  BY <1>1, Invariance, PTL

\* However stops, failed starts, completions, failed appends, crashes and recoveries
\* follow each other, the log that an Appender acknowledges has one run/finish at most.
THEOREM OneEnd == Spec => []OneFinish
<1>1. StoreInv => OneFinish
  BY DEF StoreInv, LogInv, RunLogInv, AtMostOneFinish, OneFinish
<1>2. QED
  BY <1>1, Invariance, PTL

\* Between two calls, and until a write of state.json fails, a restart would find every
\* run as clients see it: no method leaves a change in memory only.
THEOREM Reload == Spec => []CatalogIsSaved
<1>1. StoreInv => CatalogIsSaved
  BY DEF StoreInv, SavedInv, CatalogIsSaved, Free, Stopped, Unsaved, Loading
<1>2. QED
  BY <1>1, Invariance, PTL

\* A keyed request that has been answered once is answered the same for good, whatever
\* fails, crashes and restarts afterwards: no answer is given before it is on disk, and
\* none that is on disk and was given is replaced.
THEOREM SameAnswer == Spec => []AnswersAgree
<1>1. StoreInv => AnswersAgree
  <2> SUFFICES ASSUME StoreInv, NEW a \in told, NEW b \in told,
                      a.request = b.request, a.subject = b.subject
               PROVE a.run = b.run /\ a.is = b.is
    BY DEF AnswersAgree
  <2>1. Given(a) /\ Given(b) /\ Keyed(saved)
    BY DEF StoreInv, ToldInv
  <2>2. a.run \in Runs /\ b.run \in Runs
    BY DEF StoreInv, TypeOK, Told
  <2>3. a.run = b.run
    BY <2>1, <2>2 DEF Given, Keyed
  <2>4. QED
    BY <2>1, <2>3 DEF Given
<1>2. QED
  BY <1>1, Invariance, PTL

\* Once a write of state.json has failed, no method that runs to its end changes what
\* clients see of any run until the process ends.
THEOREM Frozen == Spec => LatchedCatalogIsFrozen
<1>1. StoreInv /\ [Next]_vars =>
        [latched = "yes" /\ Free /\ latched' = "yes" => catalog' = catalog]_vars
  <2> SUFFICES ASSUME StoreInv, Next, latched = "yes", lock.at = "free", latched' = "yes"
               PROVE catalog' = catalog
    BY DEF Free
  <2>1. LockInv
    BY DEF StoreInv
  <2> USE DEF Serving, Held, Recovering, storage, memory, vars
  <2> USE <2>1 DEF LockInv, Stopped
  <2>2. ASSUME NEW r \in Runs, NEW k \in Keys \cup {None}, Create(r, k) PROVE catalog' = catalog
    BY <2>2 DEF Create
  <2>3. ASSUME NEW r \in Runs, CreateFails(r) PROVE catalog' = catalog
    BY <2>3 DEF CreateFails
  <2>4. ASSUME NEW r \in Runs, CreatedPersisted(r) PROVE catalog' = catalog
    BY <2>4 DEF CreatedPersisted
  <2>5. ASSUME NEW r \in Runs, CreatedUnpersisted(r) PROVE catalog' = catalog
    BY <2>5 DEF CreatedUnpersisted
  <2>6. ASSUME NEW r \in Runs, NEW keyed \in {"yes", "no"}, Start(r, keyed) PROVE catalog' = catalog
    BY <2>6 DEF Start
  <2>7. ASSUME NEW r \in Runs, StartFails(r) PROVE catalog' = catalog
    BY <2>7 DEF StartFails
  <2>8. ASSUME NEW r \in Runs, StartPersisted(r) PROVE catalog' = catalog
    BY <2>8 DEF StartPersisted
  <2>9. ASSUME NEW r \in Runs, StartUnpersisted(r) PROVE catalog' = catalog
    BY <2>9 DEF StartUnpersisted
  <2>10. ASSUME NEW r \in Runs, UndispatchedPersists(r) PROVE catalog' = catalog
    BY <2>10 DEF UndispatchedPersists
  <2>11. ASSUME NEW r \in Runs, NEW keyed \in {"yes", "no"}, Stop(r, keyed) PROVE catalog' = catalog
    BY <2>11 DEF Stop
  <2>12. ASSUME NEW r \in Runs, NEW q \in Requests, Replay(q, r) PROVE catalog' = catalog
    BY <2>12 DEF Replay
  <2>13. ASSUME NEW r \in Runs, Prepared(r) PROVE catalog' = catalog
    BY <2>13 DEF Prepared
  <2>14. ASSUME NEW r \in Runs, Unprepared(r) PROVE catalog' = catalog
    BY <2>14 DEF Unprepared
  <2>15. ASSUME NEW r \in Runs, Dispatched(r) PROVE catalog' = catalog
    BY <2>15 DEF Dispatched
  <2>16. ASSUME NEW r \in Runs, Undispatched(r) PROVE catalog' = catalog
    BY <2>16 DEF Undispatched
  <2>17. ASSUME NEW r \in Runs, StopDispatched(r) PROVE catalog' = catalog
    BY <2>17 DEF StopDispatched
  <2>18. ASSUME NEW r \in Runs, StopUndispatched(r) PROVE catalog' = catalog
    BY <2>18 DEF StopUndispatched
  <2>19. ASSUME NEW r \in Runs, NEW status \in {"completed", "failed"}, Completes(r, status)
         PROVE catalog' = catalog
    BY <2>19 DEF Completes
  <2>20. ASSUME NEW r \in Runs, NEW status \in {"completed", "failed"}, CompleteFails(r, status)
         PROVE catalog' = catalog
    BY <2>20 DEF CompleteFails
  <2>21. ASSUME NEW r \in Runs, CompletionPersisted(r) PROVE catalog' = catalog
    BY <2>21 DEF CompletionPersisted
  <2>22. ASSUME NEW r \in Runs, CompletionUnpersisted(r) PROVE catalog' = catalog
    BY <2>22 DEF CompletionUnpersisted
  <2>23. ASSUME NEW r \in Runs, AppendEvent(r) PROVE catalog' = catalog
    BY <2>23 DEF AppendEvent
  <2>24. ASSUME NEW r \in Runs, AppendEventFails(r) PROVE catalog' = catalog
    BY <2>24 DEF AppendEventFails
  <2>25. ASSUME NEW r \in Runs, SealRun(r) PROVE catalog' = catalog
    BY <2>25 DEF SealRun
  <2>26. ASSUME NEW r \in Runs, SealRunFails(r) PROVE catalog' = catalog
    BY <2>26 DEF SealRunFails
  <2>27. ASSUME NEW r \in Runs, NEW v \in DriverVerdicts(r), SetEvidenceVerification(r, v)
         PROVE catalog' = catalog
    BY <2>27 DEF SetEvidenceVerification
  <2>28. ASSUME NEW r \in Runs, NEW v \in DriverVerdicts(r), SetEvidenceVerificationFails(r, v)
         PROVE catalog' = catalog
    BY <2>28 DEF SetEvidenceVerificationFails
  <2>29. ASSUME NEW r \in Runs, RecoverFinishes(r) PROVE catalog' = catalog
    BY <2>29 DEF RecoverFinishes
  <2>30. ASSUME NEW r \in Runs, RecoverSeals(r) PROVE catalog' = catalog
    BY <2>30 DEF RecoverSeals
  <2>31. ASSUME NEW r \in Runs, RecoverPersists(r) PROVE catalog' = catalog
    BY <2>31 DEF RecoverPersists
  <2>32. ASSUME NEW r \in Runs, RecoveryFails(r) PROVE catalog' = catalog
    BY <2>32 DEF RecoveryFails, Refuse
  <2>33. CASE OpenStore
    BY <2>33 DEF OpenStore
  <2>34. CASE OpenStoreRefuses
    BY <2>34 DEF OpenStoreRefuses
  <2>35. CASE Serve
    BY <2>35 DEF Serve
  <2>36. CASE Reject
    BY <2>36 DEF Reject, Refuse
  <2>37. CASE Drain
    BY <2>37 DEF Drain
  <2>38. CASE Close
    BY <2>38 DEF Close
  <2>39. CASE Exit
    BY <2>39 DEF Exit, MemoryLost
  <2>40. CASE Crash
    BY <2>40 DEF Crash, MemoryLost
  <2>41. ASSUME NEW r \in Runs, CrashInSeal(r) PROVE catalog' = catalog
    BY <2>41 DEF CrashInSeal, MemoryLost
  <2>42. QED
    BY <2>2, <2>3, <2>4, <2>5, <2>6, <2>7, <2>8, <2>9, <2>10, <2>11, <2>12, <2>13, <2>14, <2>15,
           <2>16, <2>17, <2>18, <2>19, <2>20, <2>21, <2>22, <2>23, <2>24, <2>25, <2>26, <2>27,
           <2>28, <2>29, <2>30, <2>31, <2>32, <2>33, <2>34, <2>35, <2>36, <2>37, <2>38, <2>39,
           <2>40, <2>41
       DEF Next, ClientStep, DriverAnswers, DriverCalls, Recovery, ProcessStep, DriverVerdicts
<1>2. QED
  BY <1>1, Invariance, PTL DEF Spec, LatchedCatalogIsFrozen
=============================================================================
