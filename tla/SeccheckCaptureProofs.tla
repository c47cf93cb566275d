----------------------- MODULE SeccheckCaptureProofs -----------------------
(***************************************************************************)
(* What the SecCheck source promises, for any number of packets and        *)
(* failures: a capture accepted as drained has no silent hole, and what is *)
(* kept of a capture that failed is evidence the validator accepts.        *)
(***************************************************************************)
EXTENDS SeccheckCapture, SequenceTheorems, TLAPS

Packet == [n : Nat, size : {"fits", "oversize"}, dropped : Nat]
Status == [frames : Nat, oversize : Nat, dropped : Nat]
Source == [drops : Nat, parseFailures : Nat, degraded : {"yes", "no"}]

TypeOK ==
  /\ connection \in {"open", "closed", "lost"}
  /\ socket \in Seq(Packet)
  /\ produced \in Nat /\ dropped \in Nat
  /\ capture \in {"none", "open", "synced"}
  /\ status \in Status
  /\ frames \in Seq(Packet) /\ copied \in Seq(Packet)
  /\ records \in Seq(Packet) /\ rest \in Seq(Packet)
  /\ source \in Source

\* How many packets have left the socket, received or not.
Gone == produced - dropped - Len(socket)

\* A packet tells by its number and its count of drops how many came before it.
SocketNumbered ==
  /\ Gone \in Nat
  /\ \A i \in 1 .. Len(socket) : socket[i].n = socket[i].dropped + Gone + i
  /\ connection = "lost" => socket = <<>>

\* The collector's counters are those of its frames, and an open capture has
\* missed no packet.
CaptureCounts ==
  /\ status.frames = Len(frames)
  /\ frames # <<>> => status.dropped = Last(frames).dropped
  /\ status.frames + status.oversize <= Gone
  /\ capture # "none" \/ doneFile # "absent" =>
       frames # <<>> /\ status.frames + status.oversize = Gone
  /\ capture = "synced" \/ doneFile # "absent" =>
       socket = <<>> /\ connection # "open"
  /\ doneFile # "absent" => capture # "open"

\* While the backend waits and copies nothing has gone wrong yet.
CopiesInOrder ==
  /\ at \in {"running", "polling", "found", "status copied", "copied"} =>
       records = <<>> /\ rest = <<>> /\ raw = "exact"
  /\ at # "collected" => source.drops = 0 /\ source.degraded = "yes" /\ verdict = "none"
  /\ at \in {"running", "polling", "found"} => evidence = {}
  /\ at \in {"found", "status copied", "copied", "appending"} => doneFile # "absent"
  /\ at = "status copied" => evidence = {"done"}
  /\ at \in {"copied", "appending"} => evidence = {"done", "frames"} /\ copied = frames
  /\ at = "appending" =>
       /\ raw = "exact" => records \o rest = copied
       /\ raw # "exact" => Len(records) + Len(rest) < Len(copied)

Complete ==
  /\ evidence = {"done", "frames"} /\ doneFile # "absent" /\ raw = "exact"
  /\ records = copied /\ copied = frames
  /\ source.drops = status.oversize + status.dropped /\ source.degraded = "no"

Incomplete ==
  /\ evidence \subseteq {"partial", "partial-status"}
  /\ source.degraded = "yes" /\ source.drops + source.parseFailures > 0
  /\ raw = "exact" /\ records # <<>> => "partial" \in evidence /\ records = copied

Outcome ==
  /\ at = "collected" => Complete \/ Incomplete
  /\ verdict = "refused" => raw # "exact"

CaptureInv ==
  TypeOK /\ SocketNumbered /\ CaptureCounts /\ CopiesInOrder /\ Outcome

-----------------------------------------------------------------------------
(* The invariant is inductive *)

LEMMA InitCapture == Init => CaptureInv
  BY DEF Init, CaptureInv, TypeOK, Packet, Status, Source, Gone, SocketNumbered, CaptureCounts,
         CopiesInOrder, Outcome


\* What the socket is after its first packet has been taken.
LEMMA SocketShifts ==
  ASSUME TypeOK, socket # <<>>, socket' = Tail(socket)
  PROVE  /\ Head(socket) \in Packet /\ Head(socket) = socket[1]
         /\ socket' \in Seq(Packet) /\ Len(socket) \in Nat \ {0}
         /\ Len(socket') = Len(socket) - 1
         /\ \A i \in 1 .. Len(socket') : socket'[i] = socket[i + 1]
  BY HeadTailProperties, EmptySeq DEF TypeOK

\* What the counters are after a packet has been kept.
LEMMA FrameIsCounted ==
  ASSUME TypeOK, NEW p \in Packet
  PROVE  LET s == [status EXCEPT !.frames = @ + 1, !.dropped = p.dropped]
         IN /\ Append(frames, p) \in Seq(Packet) /\ Append(frames, p) # <<>>
            /\ Len(Append(frames, p)) = Len(frames) + 1
            /\ Last(Append(frames, p)) = p
            /\ s \in Status /\ s.dropped = p.dropped
            /\ s.frames = status.frames + 1 /\ s.oversize = status.oversize
<1>1. frames \in Seq(Packet) /\ status \in Status /\ p.dropped \in Nat
  BY DEF TypeOK, Packet
<1>2. /\ Append(frames, p) \in Seq(Packet) /\ Append(frames, p) # <<>>
      /\ Len(Append(frames, p)) = Len(frames) + 1
      /\ Append(frames, p)[Len(frames) + 1] = p
  BY <1>1, AppendProperties
<1>3. \A q \in Nat : [status EXCEPT !.frames = q, !.dropped = p.dropped] \in Status
  BY <1>1 DEF Status
<1>4. status.frames + 1 \in Nat
  BY <1>1 DEF Status
<1>5. [status EXCEPT !.frames = @ + 1, !.dropped = p.dropped] \in Status
  BY <1>3, <1>4
<1>6. LET s == [status EXCEPT !.frames = @ + 1, !.dropped = p.dropped]
      IN /\ s.dropped = p.dropped
         /\ s.frames = status.frames + 1 /\ s.oversize = status.oversize
  BY <1>1 DEF Status
<1> QED
  BY <1>2, <1>5, <1>6 DEF Last

LEMMA HeadThenTail ==
  ASSUME NEW s \in Seq(Packet), s # <<>>
  PROVE  <<Head(s)>> \o Tail(s) = s
<1>1. /\ Head(s) \in Packet /\ Tail(s) \in Seq(Packet) /\ Len(Tail(s)) = Len(s) - 1
      /\ \A i \in 1 .. Len(Tail(s)) : Tail(s)[i] = s[i + 1]
  BY HeadTailProperties
<1>2. /\ <<Head(s)>> \in Seq(Packet) /\ Len(<<Head(s)>>) = 1 /\ <<Head(s)>>[1] = s[1]
      /\ Len(s) \in Nat \ {0}
  BY <1>1, EmptySeq
<1>3. /\ <<Head(s)>> \o Tail(s) \in Seq(Packet)
      /\ Len(<<Head(s)>> \o Tail(s)) = Len(s)
      /\ \A i \in 1 .. Len(s) : (<<Head(s)>> \o Tail(s))[i] =
                               IF i <= 1 THEN <<Head(s)>>[i] ELSE Tail(s)[i - 1]
  BY <1>1, <1>2, ConcatProperties
<1>4. \A i \in 1 .. Len(s) : (<<Head(s)>> \o Tail(s))[i] = s[i]
  BY <1>1, <1>2, <1>3
<1> QED
  BY <1>3, <1>4, SeqEqual

LEMMA OversizeIsCounted ==
  ASSUME TypeOK
  PROVE  LET s == [status EXCEPT !.oversize = @ + 1]
         IN /\ s \in Status /\ s.dropped = status.dropped
            /\ s.frames = status.frames /\ s.oversize = status.oversize + 1
<1>1. status \in Status
  BY DEF TypeOK
<1> QED
  BY <1>1 DEF Status

\* A packet received is counted, kept, or not looked at because nothing is open.
CountsOversize ==
  capture = "open" /\ status' = [status EXCEPT !.oversize = @ + 1] /\ UNCHANGED <<capture, frames>>
Keeps ==
  /\ capture = "open" \/ Head(socket).n = 1
  /\ capture' = "open"
  /\ frames' = Append(frames, Head(socket))
  /\ status' = [status EXCEPT !.frames = @ + 1, !.dropped = Head(socket).dropped]
Ignores == capture # "open" /\ UNCHANGED <<capture, status, frames>>

LEMMA ReceivedIsKnown ==
  TypeOK /\ Receives =>
    /\ socket # <<>> /\ socket' = Tail(socket)
    /\ CountsOversize \/ Keeps \/ Ignores
    /\ UNCHANGED <<connection, produced, dropped, tail, doneFile, backend>>
<1> SUFFICES ASSUME TypeOK, Receives
             PROVE  /\ socket # <<>> /\ socket' = Tail(socket)
                    /\ CountsOversize \/ Keeps \/ Ignores
                    /\ UNCHANGED <<connection, produced, dropped, tail, doneFile, backend>>
  OBVIOUS
<1>1. /\ socket # <<>> /\ socket' = Tail(socket)
      /\ UNCHANGED <<connection, produced, dropped, tail, doneFile, backend>>
  BY Zenon DEF Receives
<1>2. CASE Head(socket).size = "oversize" /\ capture = "open"
  BY <1>2 DEF Receives, CountsOversize
<1>3. CASE Head(socket).size = "oversize" /\ capture # "open"
  BY <1>3 DEF Receives, Ignores
<1>4. CASE Head(socket).size = "fits" /\ (capture = "open" \/ Head(socket).n = 1)
  BY <1>4 DEF Receives, Keeps
<1>5. CASE /\ Head(socket).size # "oversize"
           /\ ~(Head(socket).size = "fits" /\ (capture = "open" \/ Head(socket).n = 1))
  <2>0. Head(socket).size \in {"fits", "oversize"}
    BY <1>1, SocketShifts DEF Packet
  <2>1. UNCHANGED <<capture, status, frames>>
    BY <1>5 DEF Receives
  <2>2. capture # "open"
    BY <1>5, <2>0
  <2> QED
    BY <1>1, <2>1, <2>2 DEF Ignores
<1> QED
  BY <1>1, <1>2, <1>3, <1>4, <1>5

\* What is counted against the source.
LEMMA LossIsCounted ==
  ASSUME TypeOK
  PROVE  /\ Dropped => /\ source' \in Source /\ source'.drops = source.drops + 1
                       /\ source'.parseFailures = source.parseFailures
                       /\ source'.degraded = source.degraded
         /\ ParseFailed => /\ source' \in Source /\ source'.drops = source.drops
                           /\ source'.parseFailures = source.parseFailures + 1
                           /\ source'.degraded = source.degraded
  BY DEF TypeOK, Source, Dropped, ParseFailed


\* The losses the collector reports go into the health of the source.
LEMMA DrainIsCounted ==
  ASSUME TypeOK
  PROVE  LET s == [source EXCEPT !.drops = @ + status.oversize + status.dropped, !.degraded = "no"]
         IN /\ s \in Source /\ s.degraded = "no"
            /\ s.drops = source.drops + status.oversize + status.dropped
<1>1. source \in Source /\ status.oversize \in Nat /\ status.dropped \in Nat
  BY DEF TypeOK, Status
<1>2. \A q \in Nat : [source EXCEPT !.drops = q, !.degraded = "no"] \in Source
  BY <1>1 DEF Source
<1>3. source.drops + status.oversize + status.dropped \in Nat
  BY <1>1 DEF Source
<1>4. [source EXCEPT !.drops = @ + status.oversize + status.dropped, !.degraded = "no"] \in Source
  BY <1>2, <1>3
<1>5. LET s == [source EXCEPT !.drops = @ + status.oversize + status.dropped, !.degraded = "no"]
      IN /\ s.degraded = "no"
         /\ s.drops = source.drops + status.oversize + status.dropped
  BY <1>1 DEF Source
<1> QED
  BY <1>4, <1>5

\* What either outcome leaves is what the validator's rules ask for.
LEMMA KeptIsValid ==
  ASSUME TypeOK, CaptureCounts, raw = "exact", Complete \/ Incomplete
  PROVE  Valid
<1>1. records \in Seq(Packet) /\ copied \in Seq(Packet) /\ Len(records) \in Nat
  BY LenProperties DEF TypeOK
<1>2. records = copied => IsPrefix(records, copied)
  BY <1>1 DEF IsPrefix
<1>3. CASE Complete
  <2>1. /\ records # <<>> /\ records = copied /\ status.frames = Len(records)
    BY <1>3 DEF Complete, CaptureCounts
  <2>2. source.drops >= status.oversize + status.dropped
    BY <1>3 DEF Complete, TypeOK, Status
  <2> QED
    BY <1>2, <1>3, <2>1, <2>2 DEF Complete, Valid, Drained
<1>4. CASE Incomplete
  BY <1>2, <1>4 DEF Incomplete, Valid, Drained
<1> QED
  BY <1>3, <1>4

LEMMA TypeStep == CaptureInv /\ [Next]_vars => TypeOK'
<1> SUFFICES ASSUME CaptureInv, [Next]_vars PROVE TypeOK'
  OBVIOUS
<1>0. TypeOK /\ SocketNumbered /\ CaptureCounts /\ CopiesInOrder /\ Outcome
  BY DEF CaptureInv
<1> USE DEF TypeOK, vars, sandbox, collector, copies, backend
<1>1. CASE Sends
  <2>1. PICK size \in {"fits", "oversize"} :
          socket' = Append(socket, [n |-> produced + 1, size |-> size, dropped |-> dropped])
    BY <1>0, <1>1 DEF Sends
  <2>2. [n |-> produced + 1, size |-> size, dropped |-> dropped] \in Packet
    BY <1>0 DEF Packet
  <2>3. socket' \in Seq(Packet) /\ produced' \in Nat
    BY <1>0, <1>1, <2>1, <2>2, AppendProperties DEF Sends
  <2> QED
    BY <1>0, <1>1, <2>3 DEF Sends
<1>2. CASE Drops
  BY <1>0, <1>2 DEF Drops
<1>3. CASE ContainerExits
  BY <1>0, <1>3 DEF ContainerExits
<1>4. CASE Receives
  <2>1. socket' \in Seq(Packet) /\ Head(socket) \in Packet
    BY <1>0, <1>4, ReceivedIsKnown, SocketShifts
  <2>2. frames' \in Seq(Packet) /\ status' \in Status /\ capture' \in {"none", "open", "synced"}
    BY <1>0, <1>4, <2>1, ReceivedIsKnown, FrameIsCounted, OversizeIsCounted
       DEF CountsOversize, Keeps, Ignores
  <2> QED
    BY <1>0, <1>4, <2>1, <2>2, ReceivedIsKnown
<1>5. CASE WriteFails
  BY <1>0, <1>5 DEF WriteFails, Fault, NoFault
<1>6. CASE Syncs
  BY <1>0, <1>6 DEF Syncs, Fault, NoFault
<1>7. CASE WritesStatus
  BY <1>0, <1>7 DEF WritesStatus, Fault, NoFault
<1>8. CASE ConnectionFails
  BY <1>0, <1>8 DEF ConnectionFails, Fault, NoFault
<1>9. CASE Finds
  BY <1>0, <1>9 DEF Finds, Static, Appending, NoFault
<1>10. CASE TimesOut
  <2>1. source' \in Source
    BY <1>0, <1>10, LossIsCounted DEF TimesOut
  <2>2. /\ copied' \in Seq(Packet) /\ records' \in Seq(Packet) /\ rest' \in Seq(Packet)
        /\ UNCHANGED <<sandbox, collector>>
    BY <1>0, <1>10 DEF TimesOut, Static, Appending
  <2> QED
    BY <1>0, <2>1, <2>2
<1>11. CASE CopiesStatus
  <2>1. source' \in Source
    BY <1>0, <1>11, LossIsCounted DEF CopiesStatus
  <2>2. /\ copied' \in Seq(Packet) /\ records' \in Seq(Packet) /\ rest' \in Seq(Packet)
        /\ UNCHANGED <<sandbox, collector>>
    BY <1>0, <1>11 DEF CopiesStatus, Static, Appending
  <2> QED
    BY <1>0, <2>1, <2>2
<1>12. CASE CopiesFrames
  <2>1. source' \in Source
    BY <1>0, <1>12, LossIsCounted DEF CopiesFrames
  <2>2. /\ copied' \in Seq(Packet) /\ records' \in Seq(Packet) /\ rest' \in Seq(Packet)
        /\ UNCHANGED <<sandbox, collector>>
    BY <1>0, <1>12 DEF CopiesFrames, Static, Appending
  <2> QED
    BY <1>0, <2>1, <2>2
<1>13. CASE ParsesStatus
  <2>1. source' \in Source
    BY <1>0, <1>13, LossIsCounted DEF ParsesStatus
  <2>2. /\ copied' \in Seq(Packet) /\ records' \in Seq(Packet) /\ rest' \in Seq(Packet)
        /\ UNCHANGED <<sandbox, collector>>
    BY <1>0, <1>13 DEF ParsesStatus, Static, Appending
  <2> QED
    BY <1>0, <2>1, <2>2
<1>14. CASE AppendsFrame
  <2>1. source' \in Source
    BY <1>0, <1>14, LossIsCounted DEF AppendsFrame
  <2>2. Head(rest) \in Packet /\ rest' \in Seq(Packet)
    BY <1>0, <1>14, HeadTailProperties DEF AppendsFrame
  <2>3. records' \in Seq(Packet)
    <3>1. records \in Seq(Packet)
      BY <1>0
    <3>2. Append(records, Head(rest)) \in Seq(Packet)
      BY <2>2, <3>1, AppendProperties
    <3> QED
      BY <1>0, <1>14, <3>1, <3>2 DEF AppendsFrame
  <2> QED
    BY <1>0, <1>14, <2>1, <2>2, <2>3 DEF AppendsFrame, Static
<1>15. CASE Collected
  <2>1. source' \in Source
    BY <1>0, <1>15, LossIsCounted, DrainIsCounted DEF Collected
  <2>2. UNCHANGED <<sandbox, collector, copied, rest, records>>
    BY <1>0, <1>15 DEF Collected, Static, Appending
  <2> QED
    BY <1>0, <2>1, <2>2
<1>16. CASE Validates
  BY <1>0, <1>16 DEF Validates
<1>17. CASE GivesUp
  <2>1. source' \in Source
    BY <1>0, <1>17, LossIsCounted DEF GivesUp
  <2>2. /\ copied' \in Seq(Packet) /\ records' \in Seq(Packet) /\ rest' \in Seq(Packet)
        /\ UNCHANGED <<sandbox, collector>>
    BY <1>0, <1>17 DEF GivesUp, Static, Appending
  <2> QED
    BY <1>0, <2>1, <2>2
<1>18. CASE DeadlinePasses
  BY <1>0, <1>18 DEF DeadlinePasses
<1>19. CASE UNCHANGED vars
  BY <1>0, <1>19
<1> QED
  BY <1>1, <1>2, <1>3, <1>4, <1>5, <1>6, <1>7, <1>8, <1>9, <1>10, <1>11, <1>12, <1>13, <1>14,
         <1>15, <1>16, <1>17, <1>18, <1>19
     DEF Next, SandboxStep, CollectorStep, BackendStep

\* Taking a packet keeps the numbers of those behind it in step.
LEMMA NumbersShift ==
  ASSUME TypeOK, SocketNumbered, socket # <<>>, socket' = Tail(socket),
         UNCHANGED <<produced, dropped, connection>>
  PROVE  SocketNumbered'
<1>1. /\ Len(socket) \in Nat \ {0} /\ Len(socket') = Len(socket) - 1
      /\ \A i \in 1 .. Len(socket') : socket'[i] = socket[i + 1]
  BY SocketShifts
<1>2. Gone' = Gone + 1 /\ Gone \in Nat /\ connection' # "lost"
  BY <1>1 DEF SocketNumbered, Gone, TypeOK
<1>3. ASSUME NEW i \in 1 .. Len(socket')
      PROVE  socket'[i].n = socket'[i].dropped + Gone' + i
  <2>1. i + 1 \in 1 .. Len(socket) /\ socket'[i] = socket[i + 1] /\ i \in Int
    BY <1>1
  <2>2. socket[i + 1] \in Packet
    BY <2>1, ElementOfSeq DEF TypeOK
  <2>3. socket[i + 1].dropped \in Nat
    BY <2>2 DEF Packet
  <2>4. socket[i + 1].n = socket[i + 1].dropped + Gone + (i + 1)
    BY <2>1 DEF SocketNumbered
  <2>5. \A a, g \in Nat : a + g + (i + 1) = a + (g + 1) + i
    BY <2>1
  <2>6. socket[i + 1].n = socket[i + 1].dropped + (Gone + 1) + i
    BY <1>2, <2>3, <2>4, <2>5
  <2> QED
    BY <1>2, <2>1, <2>6
<1> QED
  BY <1>2, <1>3 DEF SocketNumbered

LEMMA SocketStep == CaptureInv /\ [Next]_vars => SocketNumbered'
<1> SUFFICES ASSUME CaptureInv, [Next]_vars PROVE SocketNumbered'
  OBVIOUS
<1>0. TypeOK /\ SocketNumbered /\ CaptureCounts /\ CopiesInOrder /\ Outcome
  BY DEF CaptureInv
<1> USE DEF TypeOK, SocketNumbered, Gone, vars, sandbox, collector, copies, backend
<1>1. CASE Sends
  <2>1. PICK size \in {"fits", "oversize"} :
          socket' = Append(socket, [n |-> produced + 1, size |-> size, dropped |-> dropped])
    BY <1>0, <1>1 DEF Sends
  <2> DEFINE p == [n |-> produced + 1, size |-> size, dropped |-> dropped]
  <2>2. p \in Packet /\ p.n = produced + 1 /\ p.dropped = dropped
    BY <1>0 DEF Packet
  <2>3. p \in Packet
    BY <2>2
  <2> HIDE DEF p
  <2>4. /\ Len(socket') = Len(socket) + 1 /\ socket'[Len(socket) + 1] = p
        /\ \A i \in 1 .. Len(socket) : socket'[i] = socket[i]
    BY <2>1, <2>3, AppendProperties DEF p
  <2>5. /\ produced' = produced + 1 /\ dropped' = dropped /\ connection' = connection
        /\ connection = "open" /\ Len(socket) \in Nat /\ produced \in Nat /\ dropped \in Nat
    BY <1>0, <1>1, LenProperties DEF Sends
  <2>6. Gone' = Gone
    BY <1>0, <2>4, <2>5
  <2>7. \A i \in 1 .. Len(socket') : socket'[i].n = socket'[i].dropped + Gone + i
    <3> SUFFICES ASSUME NEW i \in 1 .. Len(socket')
                 PROVE  socket'[i].n = socket'[i].dropped + Gone + i
      OBVIOUS
    <3>1. CASE i = Len(socket) + 1
      <4>1. produced + 1 = dropped + Gone + i
        BY <2>5, <3>1
      <4> QED
        BY <2>2, <2>4, <3>1, <4>1
    <3>2. CASE i \in 1 .. Len(socket)
      BY <1>0, <2>4, <3>2
    <3> QED
      BY <2>4, <2>5, <3>1, <3>2
  <2> HIDE DEF Gone
  <2> QED
    BY <1>0, <2>5, <2>6, <2>7
<1>2. CASE Drops
  BY <1>0, <1>2 DEF Drops
<1>3. CASE ContainerExits
  BY <1>0, <1>3 DEF ContainerExits
<1>4. CASE Receives
  BY <1>0, <1>4, ReceivedIsKnown, NumbersShift
<1>5. CASE WriteFails
  <2>1. socket # <<>> /\ socket' = Tail(socket) /\ UNCHANGED <<produced, dropped, connection>>
    BY <1>5 DEF WriteFails
  <2> QED
    BY <1>0, <2>1, NumbersShift
<1>6. CASE Syncs
  BY <1>0, <1>6 DEF Syncs, Fault, NoFault
<1>7. CASE WritesStatus
  BY <1>0, <1>7 DEF WritesStatus, Fault, NoFault
<1>8. CASE ConnectionFails
  BY <1>0, <1>8 DEF ConnectionFails, Fault, NoFault
<1>9. CASE Finds
  BY <1>0, <1>9 DEF Finds, Static, Appending, NoFault
<1>10. CASE TimesOut
  BY <1>0, <1>10 DEF TimesOut, Static, Appending, NoFault, Dropped
<1>11. CASE CopiesStatus
  BY <1>0, <1>11 DEF CopiesStatus, Static, Appending, NoFault, Dropped
<1>12. CASE CopiesFrames
  BY <1>0, <1>12 DEF CopiesFrames, Static, Appending, NoFault, Dropped, Retain
<1>13. CASE ParsesStatus
  BY <1>0, <1>13 DEF ParsesStatus, Static, Appending, NoFault, ParseFailed, Retain
<1>14. CASE AppendsFrame
  BY <1>0, <1>14 DEF AppendsFrame, Static, Appending, NoFault, ParseFailed
<1>15. CASE Collected
  BY <1>0, <1>15 DEF Collected, Static, Appending, NoFault, ParseFailed, Retain
<1>16. CASE Validates
  BY <1>0, <1>16 DEF Validates
<1>17. CASE GivesUp
  BY <1>0, <1>17 DEF GivesUp, Static, Appending, NoFault, Dropped
<1>18. CASE DeadlinePasses
  BY <1>0, <1>18 DEF DeadlinePasses
<1>19. CASE UNCHANGED vars
  BY <1>0, <1>19
<1> QED
  BY <1>1, <1>2, <1>3, <1>4, <1>5, <1>6, <1>7, <1>8, <1>9, <1>10, <1>11, <1>12, <1>13, <1>14,
         <1>15, <1>16, <1>17, <1>18, <1>19
     DEF Next, SandboxStep, CollectorStep, BackendStep

LEMMA CountStep == CaptureInv /\ [Next]_vars => CaptureCounts'
<1> SUFFICES ASSUME CaptureInv, [Next]_vars PROVE CaptureCounts'
  OBVIOUS
<1>0. TypeOK /\ SocketNumbered /\ CaptureCounts /\ CopiesInOrder /\ Outcome
  BY DEF CaptureInv
<1> USE DEF TypeOK, SocketNumbered, CaptureCounts, Gone, vars, sandbox, collector, copies, backend
<1>1. CASE Sends
  BY <1>0, <1>1 DEF Sends
<1>2. CASE Drops
  BY <1>0, <1>2 DEF Drops
<1>3. CASE ContainerExits
  BY <1>0, <1>3 DEF ContainerExits
<1>4. CASE Receives
  <2>1. /\ Head(socket) \in Packet /\ Head(socket) = socket[1] /\ socket # <<>>
        /\ Len(socket) \in Nat \ {0} /\ Len(socket') = Len(socket) - 1
    BY <1>0, <1>4, ReceivedIsKnown, SocketShifts
  <2>2. UNCHANGED <<produced, dropped, connection, doneFile>>
    BY <1>0, <1>4, ReceivedIsKnown
  <2>3. doneFile = "absent" /\ capture # "synced"
    BY <1>0, <2>1
  <2>4. Gone' = Gone + 1
    BY <1>0, <2>1, <2>2
  <2>5. /\ Len(frames) \in Nat /\ status.frames \in Nat /\ status.oversize \in Nat
        /\ Gone \in Nat
    BY <1>0, LenProperties DEF Status
  <2> HIDE DEF Gone
  <2>6. Head(socket).n = Head(socket).dropped + Gone + 1 /\ Head(socket).dropped \in Nat
    <3>1. socket[1].n = socket[1].dropped + Gone + 1
      BY <1>0, <2>1
    <3>2. Head(socket).dropped \in Nat
      BY <2>1 DEF Packet
    <3> QED
      BY <2>1, <3>1, <3>2
  <2>0. /\ status.frames = Len(frames) /\ status.frames + status.oversize <= Gone
        /\ frames # <<>> => status.dropped = Last(frames).dropped
        /\ capture = "open" => frames # <<>> /\ status.frames + status.oversize = Gone
    BY <1>0
  <2>7. CASE CountsOversize
    <3>1. /\ status'.dropped = status.dropped /\ status'.frames = status.frames
          /\ status'.oversize = status.oversize + 1 /\ frames' = frames
          /\ capture' = "open" /\ capture = "open"
      BY <2>7, OversizeIsCounted DEF CountsOversize
    <3> QED
      BY <2>0, <2>2, <2>3, <2>4, <2>5, <3>1
  <2>8. CASE Ignores
    BY <1>0, <2>2, <2>3, <2>4, <2>5, <2>8 DEF Ignores
  <2>9. CASE Keeps
    <3>1. /\ frames' # <<>> /\ Len(frames') = Len(frames) + 1
          /\ Last(frames') = Head(socket) /\ status'.dropped = Head(socket).dropped
          /\ status'.frames = status.frames + 1 /\ status'.oversize = status.oversize
      BY <1>0, <2>1, <2>9, FrameIsCounted DEF Keeps
    <3>2. status.frames + status.oversize = Gone
      <4>1. CASE capture = "open"
        BY <2>0, <4>1
      <4>2. CASE Head(socket).n = 1
        <5>1. Gone = 0
          BY <2>5, <2>6, <4>2
        <5> QED
          BY <2>0, <2>5, <5>1
      <4> QED
        BY <2>9, <4>1, <4>2 DEF Keeps
    <3>3. capture' = "open"
      BY <2>9 DEF Keeps
    <3> QED
      BY <2>0, <2>2, <2>3, <2>4, <2>5, <3>1, <3>2, <3>3
  <2> QED
    BY <1>0, <1>4, <2>7, <2>8, <2>9, ReceivedIsKnown
<1>5. CASE WriteFails
  <2>1. socket # <<>> /\ Len(socket) \in Nat \ {0} /\ Len(socket') = Len(socket) - 1
    BY <1>0, <1>5, SocketShifts DEF WriteFails
  <2>2. UNCHANGED <<produced, dropped, doneFile, status, frames>> /\ capture' = "none"
    BY <1>0, <1>5 DEF WriteFails
  <2>3. Gone' = Gone + 1 /\ Gone \in Nat
    BY <1>0, <2>1, <2>2
  <2> HIDE DEF Gone
  <2> QED
    BY <1>0, <2>1, <2>2, <2>3 DEF Status
<1>6. CASE Syncs
  BY <1>0, <1>6 DEF Syncs, Fault, NoFault
<1>7. CASE WritesStatus
  BY <1>0, <1>7 DEF WritesStatus, Fault, NoFault
<1>8. CASE ConnectionFails
  <2>1. Len(socket) \in Nat /\ Len(socket') = 0
    BY <1>0, <1>8, LenProperties, EmptySeq DEF ConnectionFails
  <2>2. /\ UNCHANGED <<produced, dropped, doneFile, status, frames>>
        /\ capture' = "none" /\ socket' = <<>> /\ connection' = "lost"
    BY <1>0, <1>8 DEF ConnectionFails
  <2>3. Gone' >= Gone /\ Gone' \in Int /\ Gone \in Int /\ (socket = <<>> => Gone' = Gone)
    <3>1. Gone' = produced - dropped
      BY <1>0, <2>1, <2>2
    <3>2. socket = <<>> => Len(socket) = 0
      OBVIOUS
    <3>3. produced \in Nat /\ dropped \in Nat /\ Len(socket) \in Nat
      BY <1>0, <2>1
    <3>4. Gone = produced - dropped - Len(socket)
      OBVIOUS
    <3> HIDE DEF Gone
    <3> QED
      BY <3>1, <3>2, <3>3, <3>4
  <2> HIDE DEF Gone
  <2> QED
    BY <1>0, <2>2, <2>3 DEF Status
<1>9. CASE Finds
  BY <1>0, <1>9 DEF Finds, Static, Appending, NoFault
<1>10. CASE TimesOut
  BY <1>0, <1>10 DEF TimesOut, Static, Appending, NoFault, Dropped
<1>11. CASE CopiesStatus
  BY <1>0, <1>11 DEF CopiesStatus, Static, Appending, NoFault, Dropped
<1>12. CASE CopiesFrames
  BY <1>0, <1>12 DEF CopiesFrames, Static, Appending, NoFault, Dropped, Retain
<1>13. CASE ParsesStatus
  BY <1>0, <1>13 DEF ParsesStatus, Static, Appending, NoFault, ParseFailed, Retain
<1>14. CASE AppendsFrame
  BY <1>0, <1>14 DEF AppendsFrame, Static, Appending, NoFault, ParseFailed
<1>15. CASE Collected
  BY <1>0, <1>15 DEF Collected, Static, Appending, NoFault, ParseFailed, Retain
<1>16. CASE Validates
  BY <1>0, <1>16 DEF Validates
<1>17. CASE GivesUp
  BY <1>0, <1>17 DEF GivesUp, Static, Appending, NoFault, Dropped
<1>18. CASE DeadlinePasses
  BY <1>0, <1>18 DEF DeadlinePasses
<1>19. CASE UNCHANGED vars
  BY <1>0, <1>19
<1> QED
  BY <1>1, <1>2, <1>3, <1>4, <1>5, <1>6, <1>7, <1>8, <1>9, <1>10, <1>11, <1>12, <1>13, <1>14,
         <1>15, <1>16, <1>17, <1>18, <1>19
     DEF Next, SandboxStep, CollectorStep, BackendStep

LEMMA CopiesStep == CaptureInv /\ [Next]_vars => CopiesInOrder'
<1> SUFFICES ASSUME CaptureInv, [Next]_vars PROVE CopiesInOrder'
  OBVIOUS
<1>0. TypeOK /\ SocketNumbered /\ CaptureCounts /\ CopiesInOrder /\ Outcome
  BY DEF CaptureInv
<1> USE DEF TypeOK, CaptureCounts, CopiesInOrder, vars, sandbox, collector, copies, backend
<1>1. CASE Sends
  BY <1>0, <1>1 DEF Sends
<1>2. CASE Drops
  BY <1>0, <1>2 DEF Drops
<1>3. CASE ContainerExits
  BY <1>0, <1>3 DEF ContainerExits
<1>4. CASE Receives
  BY <1>0, <1>4 DEF Receives
<1>5. CASE WriteFails
  BY <1>0, <1>5 DEF WriteFails, Fault, NoFault
<1>6. CASE Syncs
  BY <1>0, <1>6 DEF Syncs, Fault, NoFault
<1>7. CASE WritesStatus
  BY <1>0, <1>7 DEF WritesStatus, Fault, NoFault
<1>8. CASE ConnectionFails
  BY <1>0, <1>8 DEF ConnectionFails, Fault, NoFault
<1>9. CASE Finds
  BY <1>0, <1>9 DEF Finds, Static, Appending, NoFault
<1>10. CASE TimesOut
  BY <1>0, <1>10 DEF TimesOut, Static, Appending, NoFault, Dropped
<1>11. CASE CopiesStatus
  BY <1>0, <1>11 DEF CopiesStatus, Static, Appending, NoFault, Dropped
<1>12. CASE CopiesFrames
  BY <1>0, <1>12 DEF CopiesFrames, Static, Appending, NoFault, Dropped, Retain
<1>13. CASE ParsesStatus
  <2>1. /\ at = "copied" /\ records' = <<>> /\ raw' = raw /\ raw = "exact"
        /\ UNCHANGED <<doneFile, frames, verdict, copied>>
    BY <1>0, <1>13 DEF ParsesStatus, Static, Appending
  <2>2. CASE at' = "collected"
    BY <2>1, <2>2
  <2>3. CASE at' = "appending" /\ rest' = copied /\ UNCHANGED <<evidence, source>>
    <3>1. records' \o rest' = copied'
      BY <2>1, <2>3, ConcatEmptySeq
    <3> QED
      BY <1>0, <2>1, <2>3, <3>1
  <2> QED
    BY <1>0, <1>13, <2>2, <2>3 DEF ParsesStatus
<1>14. CASE AppendsFrame
  <2>1. /\ at = "appending" /\ rest # <<>> /\ rest' = Tail(rest)
        /\ UNCHANGED <<at, copies, doneFile, frames, verdict>>
    BY <1>0, <1>14 DEF AppendsFrame, Static
  <2>0. rest \in Seq(Packet) /\ records \in Seq(Packet) /\ copied \in Seq(Packet)
    BY <1>0
  <2>2. /\ Head(rest) \in Packet /\ rest' \in Seq(Packet) /\ Len(rest') = Len(rest) - 1
        /\ Len(rest) \in Nat /\ Len(records) \in Nat /\ Len(copied) \in Nat
    BY <2>0, <2>1, HeadTailProperties, LenProperties
  <2>5. raw # "exact" => Len(records) + Len(rest) < Len(copied)
    BY <1>0, <2>1
  <2>3. CASE records' = Append(records, Head(rest)) /\ UNCHANGED <<raw, source>>
    <3>1. Len(records') = Len(records) + 1
      BY <2>0, <2>2, <2>3, AppendProperties
    <3>2. records' \o rest' = records \o rest
      <4>1. records' = records \o <<Head(rest)>> /\ <<Head(rest)>> \in Seq(Packet)
        BY <2>0, <2>2, <2>3, AppendIsConcat
      <4>2. <<Head(rest)>> \o rest' = rest
        BY <2>0, <2>1, <2>2, HeadThenTail
      <4> QED
        <5>1. (records \o <<Head(rest)>>) \o rest' = records \o (<<Head(rest)>> \o rest')
          BY <2>0, <2>2, <4>1, ConcatAssociative
        <5> QED
          BY <4>1, <4>2, <5>1
    <3>3. raw' # "exact" => Len(records') + Len(rest') < Len(copied')
      <4>1. copied' = copied /\ raw' = raw
        BY <2>1, <2>3
      <4>2. Len(records') + Len(rest') = Len(records) + Len(rest)
        BY <2>2, <3>1
      <4> QED
        BY <2>5, <4>1, <4>2
    <3>4. raw' = "exact" => records' \o rest' = copied'
      BY <1>0, <2>1, <2>3, <3>2
    <3> QED
      BY <1>0, <2>1, <2>3, <3>3, <3>4
  <2>4. CASE ParseFailed /\ raw' # "exact" /\ UNCHANGED records
    <3>1. source'.drops = source.drops /\ source'.degraded = source.degraded
      BY <1>0, <2>4, LossIsCounted
    <3>2. raw = "exact" => Len(records) + Len(rest) = Len(copied)
      BY <1>0, <2>0, <2>1, ConcatProperties
    <3>3. records' = records /\ copied' = copied
      BY <2>1, <2>4
    <3>4. Len(records) + Len(rest) <= Len(copied)
      BY <2>2, <2>5, <3>2
    <3>5. Len(records') + Len(rest') < Len(copied')
      BY <2>2, <3>3, <3>4
    <3> QED
      BY <1>0, <2>1, <2>4, <3>1, <3>5
  <2> QED
    BY <1>0, <1>14, <2>3, <2>4 DEF AppendsFrame
<1>15. CASE Collected
  BY <1>0, <1>15 DEF Collected, Static, Appending, NoFault, ParseFailed, Retain
<1>16. CASE Validates
  BY <1>0, <1>16 DEF Validates
<1>17. CASE GivesUp
  BY <1>0, <1>17 DEF GivesUp, Static, Appending, NoFault, Dropped
<1>18. CASE DeadlinePasses
  BY <1>0, <1>18 DEF DeadlinePasses
<1>19. CASE UNCHANGED vars
  BY <1>0, <1>19
<1> QED
  BY <1>1, <1>2, <1>3, <1>4, <1>5, <1>6, <1>7, <1>8, <1>9, <1>10, <1>11, <1>12, <1>13, <1>14,
         <1>15, <1>16, <1>17, <1>18, <1>19
     DEF Next, SandboxStep, CollectorStep, BackendStep

LEMMA OutcomeStep == CaptureInv /\ [Next]_vars => Outcome'
<1> SUFFICES ASSUME CaptureInv, [Next]_vars PROVE Outcome'
  OBVIOUS
<1>0. TypeOK /\ SocketNumbered /\ CaptureCounts /\ CopiesInOrder /\ Outcome
  BY DEF CaptureInv
<1> USE DEF TypeOK, CaptureCounts, CopiesInOrder, Outcome, Complete, Incomplete, vars, sandbox,
       collector, copies, backend
<1>1. CASE Sends
  BY <1>0, <1>1 DEF Sends
<1>2. CASE Drops
  BY <1>0, <1>2 DEF Drops
<1>3. CASE ContainerExits
  BY <1>0, <1>3 DEF ContainerExits
<1>4. CASE Receives
  BY <1>0, <1>4 DEF Receives
<1>5. CASE WriteFails
  BY <1>0, <1>5 DEF WriteFails, Fault, NoFault
<1>6. CASE Syncs
  BY <1>0, <1>6 DEF Syncs, Fault, NoFault
<1>7. CASE WritesStatus
  BY <1>0, <1>7 DEF WritesStatus, Fault, NoFault
<1>8. CASE ConnectionFails
  BY <1>0, <1>8 DEF ConnectionFails, Fault, NoFault
<1>9. CASE Finds
  BY <1>0, <1>9 DEF Finds, Static, Appending, NoFault
<1>10. CASE TimesOut
  <2>1. CASE at' # "collected"
    BY <1>0, <1>10, <2>1 DEF TimesOut, Static, Appending
  <2>2. CASE at' = "collected"
    <3>1. Dropped /\ records' = <<>> /\ verdict' = verdict /\ raw' = raw /\ verdict = "none"
      BY <1>0, <1>10, <2>2 DEF TimesOut, Static, Appending
    <3>2. source'.degraded = "yes" /\ source'.drops + source'.parseFailures > 0
      <4>1. source.degraded = "yes" /\ source.drops \in Nat /\ source.parseFailures \in Nat
        BY <1>0, <1>10 DEF TimesOut, Source
      <4> QED
        <5>1. \/ /\ source'.drops = source.drops + 1 /\ source'.degraded = source.degraded
                 /\ source'.parseFailures = source.parseFailures
              \/ /\ source'.drops = source.drops /\ source'.degraded = source.degraded
                 /\ source'.parseFailures = source.parseFailures + 1
          BY <1>0, <3>1, LossIsCounted
        <5> QED
          BY <4>1, <5>1
    <3>3. evidence' \subseteq {"partial", "partial-status"}
      BY <1>0, <1>10, <2>2 DEF TimesOut, Retain
    <3> QED
      BY <3>1, <3>2, <3>3
  <2> QED
    BY <2>1, <2>2
<1>11. CASE CopiesStatus
  <2>1. CASE at' # "collected"
    BY <1>0, <1>11, <2>1 DEF CopiesStatus, Static, Appending
  <2>2. CASE at' = "collected"
    <3>1. Dropped /\ records' = <<>> /\ verdict' = verdict /\ raw' = raw /\ verdict = "none"
      BY <1>0, <1>11, <2>2 DEF CopiesStatus, Static, Appending
    <3>2. source'.degraded = "yes" /\ source'.drops + source'.parseFailures > 0
      <4>1. source.degraded = "yes" /\ source.drops \in Nat /\ source.parseFailures \in Nat
        BY <1>0, <1>11 DEF CopiesStatus, Source
      <4> QED
        <5>1. \/ /\ source'.drops = source.drops + 1 /\ source'.degraded = source.degraded
                 /\ source'.parseFailures = source.parseFailures
              \/ /\ source'.drops = source.drops /\ source'.degraded = source.degraded
                 /\ source'.parseFailures = source.parseFailures + 1
          BY <1>0, <3>1, LossIsCounted
        <5> QED
          BY <4>1, <5>1
    <3>3. evidence' \subseteq {"partial", "partial-status"}
      BY <1>0, <1>11, <2>2 DEF CopiesStatus, Retain
    <3> QED
      BY <3>1, <3>2, <3>3
  <2> QED
    BY <2>1, <2>2
<1>12. CASE CopiesFrames
  <2>1. CASE at' # "collected"
    BY <1>0, <1>12, <2>1 DEF CopiesFrames, Static, Appending
  <2>2. CASE at' = "collected"
    <3>1. Dropped /\ records' = <<>> /\ verdict' = verdict /\ raw' = raw /\ verdict = "none"
      BY <1>0, <1>12, <2>2 DEF CopiesFrames, Static, Appending
    <3>2. source'.degraded = "yes" /\ source'.drops + source'.parseFailures > 0
      <4>1. source.degraded = "yes" /\ source.drops \in Nat /\ source.parseFailures \in Nat
        BY <1>0, <1>12 DEF CopiesFrames, Source
      <4> QED
        <5>1. \/ /\ source'.drops = source.drops + 1 /\ source'.degraded = source.degraded
                 /\ source'.parseFailures = source.parseFailures
              \/ /\ source'.drops = source.drops /\ source'.degraded = source.degraded
                 /\ source'.parseFailures = source.parseFailures + 1
          BY <1>0, <3>1, LossIsCounted
        <5> QED
          BY <4>1, <5>1
    <3>3. evidence' \subseteq {"partial", "partial-status"}
      BY <1>0, <1>12, <2>2 DEF CopiesFrames, Retain
    <3> QED
      BY <3>1, <3>2, <3>3
  <2> QED
    BY <2>1, <2>2
<1>13. CASE ParsesStatus
  <2>1. CASE at' # "collected"
    BY <1>0, <1>13, <2>1 DEF ParsesStatus, Static, Appending
  <2>2. CASE at' = "collected"
    <3>1. ParseFailed /\ records' = <<>> /\ verdict' = verdict /\ raw' = raw /\ verdict = "none"
      BY <1>0, <1>13, <2>2 DEF ParsesStatus, Static, Appending
    <3>2. source'.degraded = "yes" /\ source'.drops + source'.parseFailures > 0
      <4>1. source.degraded = "yes" /\ source.drops \in Nat /\ source.parseFailures \in Nat
        BY <1>0, <1>13 DEF ParsesStatus, Source
      <4> QED
        <5>1. \/ /\ source'.drops = source.drops + 1 /\ source'.degraded = source.degraded
                 /\ source'.parseFailures = source.parseFailures
              \/ /\ source'.drops = source.drops /\ source'.degraded = source.degraded
                 /\ source'.parseFailures = source.parseFailures + 1
          BY <1>0, <3>1, LossIsCounted
        <5> QED
          BY <4>1, <5>1
    <3>3. evidence' \subseteq {"partial", "partial-status"}
      BY <1>0, <1>13, <2>2 DEF ParsesStatus, Retain
    <3> QED
      BY <3>1, <3>2, <3>3
  <2> QED
    BY <2>1, <2>2
<1>14. CASE AppendsFrame
  BY <1>0, <1>14 DEF AppendsFrame, Static, Appending, NoFault, ParseFailed
<1>15. CASE Collected
  <2>1. /\ at = "appending" /\ rest = <<>> /\ at' = "collected"
        /\ UNCHANGED <<status, frames, doneFile, copied, records, raw, verdict>>
        /\ verdict = "none"
    BY <1>0, <1>15 DEF Collected, Static, Appending
  <2>2. raw = "exact" => records = copied
    BY <1>0, <2>1, ConcatEmptySeq
  <2>3. CASE /\ Len(records) = status.frames /\ UNCHANGED evidence
             /\ source' = [source EXCEPT !.drops = @ + status.oversize + status.dropped,
                                         !.degraded = "no"]
    <3>1. raw = "exact"
      BY <1>0, <2>1, <2>3, LenProperties, EmptySeq
    <3>2. source'.drops = status.oversize + status.dropped /\ source'.degraded = "no"
      <4>1. source.drops = 0 /\ status.oversize \in Nat /\ status.dropped \in Nat
        BY <1>0, <2>1 DEF Status
      <4>2. /\ source'.degraded = "no"
            /\ source'.drops = source.drops + status.oversize + status.dropped
        BY <1>0, <2>3, DrainIsCounted
      <4> QED
        BY <4>1, <4>2
    <3> QED
      BY <1>0, <2>1, <2>2, <2>3, <3>1, <3>2
  <2>4. CASE ParseFailed /\ evidence' = Retain
    <3>1. source'.degraded = "yes" /\ source'.drops + source'.parseFailures > 0
      BY <1>0, <2>1, <2>4, LossIsCounted DEF Source
    <3>2. evidence' \subseteq {"partial", "partial-status"} /\ "partial" \in evidence'
      BY <1>0, <2>1, <2>4 DEF Retain
    <3> QED
      BY <2>1, <2>2, <3>1, <3>2
  <2> QED
    BY <1>0, <1>15, <2>3, <2>4, Zenon DEF Collected
<1>16. CASE Validates
  <2>1. /\ at = "collected" /\ UNCHANGED <<at, collector, copies, source, records, raw>>
        /\ verdict' = IF Valid THEN "accepted" ELSE "refused"
    BY <1>0, <1>16, Zenon DEF Validates, backend
  <2>2. raw = "exact" => Valid
    BY <2>1, KeptIsValid DEF CaptureInv
  <2> QED
    BY <1>0, <2>1, <2>2
<1>17. CASE GivesUp
  <2>1. CASE at' # "collected"
    BY <1>0, <1>17, <2>1 DEF GivesUp, Static, Appending
  <2>2. CASE at' = "collected"
    <3>1. Dropped /\ records' = <<>> /\ verdict' = verdict /\ raw' = raw /\ verdict = "none"
      BY <1>0, <1>17, <2>2 DEF GivesUp, Static, Appending
    <3>2. source'.degraded = "yes" /\ source'.drops + source'.parseFailures > 0
      <4>1. source.degraded = "yes" /\ source.drops \in Nat /\ source.parseFailures \in Nat
        BY <1>0, <1>17 DEF GivesUp, Source
      <4> QED
        <5>1. \/ /\ source'.drops = source.drops + 1 /\ source'.degraded = source.degraded
                 /\ source'.parseFailures = source.parseFailures
              \/ /\ source'.drops = source.drops /\ source'.degraded = source.degraded
                 /\ source'.parseFailures = source.parseFailures + 1
          BY <1>0, <3>1, LossIsCounted
        <5> QED
          BY <4>1, <5>1
    <3>3. evidence' \subseteq {"partial", "partial-status"}
      BY <1>0, <1>17, <2>2 DEF GivesUp, Retain
    <3> QED
      BY <3>1, <3>2, <3>3
  <2> QED
    BY <2>1, <2>2
<1>18. CASE DeadlinePasses
  BY <1>0, <1>18 DEF DeadlinePasses
<1>19. CASE UNCHANGED vars
  BY <1>0, <1>19
<1> QED
  BY <1>1, <1>2, <1>3, <1>4, <1>5, <1>6, <1>7, <1>8, <1>9, <1>10, <1>11, <1>12, <1>13, <1>14,
         <1>15, <1>16, <1>17, <1>18, <1>19
     DEF Next, SandboxStep, CollectorStep, BackendStep

LEMMA Invariance == Spec => []CaptureInv
<1>1. CaptureInv /\ [Next]_vars => CaptureInv'
  BY TypeStep, SocketStep, CountStep, CopiesStep, OutcomeStep DEF CaptureInv
<1> QED
  BY InitCapture, <1>1, PTL DEF Spec

-----------------------------------------------------------------------------
(* What follows *)

\* However a capture ends, what collectSeccheckLocked keeps of it is evidence that
\* bundle.Validate accepts, unless a raw record could not be appended.
THEOREM KeptIsAccepted == Spec => []CollectedIsAccepted
<1>1. CaptureInv => CollectedIsAccepted
  BY DEF CaptureInv, Outcome, CollectedIsAccepted
<1> QED
  BY Invariance, <1>1, PTL

\* The packets of a capture that is accepted as drained are its records, the losses
\* its source reports, and those dropped after the last packet it received: the
\* numbers in the packet headers and the collector's counters leave no other hole.
THEOREM NoSilentHole == Spec => []DrainedAccountsForAll
<1>1. CaptureInv => DrainedAccountsForAll
  <2> SUFFICES ASSUME CaptureInv, verdict = "accepted", Drained
               PROVE  produced = Len(records) + source.drops + (dropped - Last(records).dropped)
    BY DEF DrainedAccountsForAll
  <2>1. at = "collected" /\ source.degraded = "no"
    BY DEF CaptureInv, TypeOK, CopiesInOrder, Drained
  <2>2. Complete
    BY <2>1 DEF CaptureInv, Outcome, Incomplete
  <2>3. /\ records = frames /\ socket = <<>> /\ status.frames = Len(frames)
        /\ source.drops = status.oversize + status.dropped
        /\ status.dropped = Last(frames).dropped
        /\ status.frames + status.oversize = Gone
    BY <2>2 DEF CaptureInv, CaptureCounts, Complete
  <2>4. Gone = produced - dropped - 0
    BY <2>3 DEF Gone
  <2>5. /\ produced \in Nat /\ dropped \in Nat /\ status.frames \in Nat
        /\ status.oversize \in Nat /\ status.dropped \in Nat
    BY DEF CaptureInv, TypeOK, Status
  <2>6. Last(records).dropped = status.dropped /\ Len(records) = status.frames
    BY <2>3
  <2>7. \A p, d, f, o, l \in Nat : f + o = p - d - 0 => p = f + (o + l) + (d - l)
    OBVIOUS
  <2>8. status.frames + status.oversize = produced - dropped - 0
    BY <2>3, <2>4
  <2>9. produced = status.frames + (status.oversize + status.dropped) + (dropped - status.dropped)
    BY <2>5, <2>7, <2>8
  <2> QED
    BY <2>3, <2>6, <2>9
<1> QED
  BY Invariance, <1>1, PTL
=============================================================================
