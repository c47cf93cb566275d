-------------------------- MODULE TrackedLogProofs --------------------------
(***************************************************************************)
(* Theorems about TrackedLog for every set of payloads and every bound.    *)
(*                                                                         *)
(* IInv is inductive.  Its heart is AcknowledgedOnDisk: the acknowledged   *)
(* frames are a prefix of the synced part of the file, or the synced part  *)
(* is Broken, that is, Open will never accept it again, or a power loss    *)
(* has taken the file while its name was not on disk.  A failed append     *)
(* leaves bytes behind the events in memory; the next acknowledged frame   *)
(* then sits at a position other than its seq, which is what makes the     *)
(* file Broken rather than silently wrong.                                 *)
(***************************************************************************)
EXTENDS TrackedLog, TLAPS

\* The empty log satisfies the invariant.
LEMMA InitIInv == Init => IInv
<1> SUFFICES ASSUME Init PROVE IInv
  OBVIOUS
<1>0. <<>> \in Seq(Frame) /\ NoMarker \in Marker
  BY DEF NoMarker, Marker
<1>1. TypeOK
  <2>1. sealed \in BOOLEAN /\ faulted \in BOOLEAN /\ vanished \in BOOLEAN
    BY Zenon DEF Init
  <2>2. QED
    BY <1>0, <2>1, SMT DEF Init, TypeOK
<1>2. AcknowledgedOnDisk
  BY DEF Init, AcknowledgedOnDisk, Prefix
<1>3. MemoryAgrees /\ SealBinds
  BY DEF Init, MemoryAgrees, SealBinds, Live
<1>4. CleanLogAgrees
  BY DEF Init, CleanLogAgrees, ValidFrames, Live
<1>5. QED
  BY <1>1, <1>2, <1>3, <1>4 DEF IInv

\* A frame of which a part is lost is still a frame.
LEMMA TornType == \A f \in Frame : Torn(f) \in Frame
  BY DEF Torn, Frame

\* A frame added behind the events is a frame, and stays one when torn.
LEMMA NewFrameType ==
  ASSUME TypeOK, NEW p \in Payloads
  PROVE  NewFrame(p) \in Frame /\ Torn(NewFrame(p)) \in Frame
<1>1. NewFrame(p) \in Frame
  BY DEF TypeOK, NewFrame, Frame
<1>2. QED
  BY <1>1, TornType

\* Whatever survives a power loss begins with the synced part of the file.
LEMMA SurvivorsKeepSynced ==
  ASSUME TypeOK, NEW k \in synced .. Len(file), synced <= Len(file),
         NEW f \in Survivors(k)
  PROVE  /\ f \in Seq(Frame)
         /\ synced <= Len(f)
         /\ \A i \in 1 .. synced : f[i] = file[i]
<1>1. k \in Nat /\ k <= Len(file)
  BY DEF TypeOK
<1>2. SubSeq(file, 1, k) \in Seq(Frame) /\ Len(SubSeq(file, 1, k)) = k
  BY <1>1 DEF TypeOK
<1>3. \A i \in 1 .. k : SubSeq(file, 1, k)[i] = file[i]
  BY <1>1 DEF TypeOK
<1>4. CASE f = SubSeq(file, 1, k)
  BY <1>1, <1>2, <1>3, <1>4 DEF TypeOK
<1>5. CASE k < Len(file) /\ f = Append(SubSeq(file, 1, k), Torn(file[k + 1]))
  <2>1. Torn(file[k + 1]) \in Frame
    BY <1>1, <1>5, TornType DEF TypeOK
  <2>2. QED
    BY <1>1, <1>2, <1>3, <1>5, <2>1 DEF TypeOK
<1>6. QED
  BY <1>4, <1>5 DEF Survivors

-----------------------------------------------------------------------------
(* One lemma per operation: the operation preserves the invariant. *)

\* A file that Open accepts becomes the events of the new Appender.
LEMMA OpenRecoversIInv == IInv /\ OpenRecovers => IInv'
<1> SUFFICES ASSUME IInv, OpenRecovers PROVE IInv'
  OBVIOUS
<1> USE DEF IInv, OpenRecovers, FileCreated, history
<1>1. TypeOK'
  BY DEF TypeOK
<1>2. AcknowledgedOnDisk' /\ ~Broken
  <2>1. ~Broken
    <3>1. synced \in Nat /\ synced <= Len(file) /\ file \in Seq(Frame)
      BY DEF TypeOK, AcknowledgedOnDisk
    <3>2. \A i \in 1 .. synced : i \in 1 .. Len(file)
      BY <3>1
    <3>3. \A i \in 1 .. Len(file) : file[i].form = "whole" /\ file[i].seq = i
      BY DEF ValidFrames
    <3>4. QED
      BY <3>2, <3>3 DEF Broken
  <2>2. entry' # "absent" /\ synced <= Len(file)
    BY DEF AcknowledgedOnDisk
  <2>3. QED
    BY <2>1, <2>2 DEF AcknowledgedOnDisk, Prefix
<1>3. MemoryAgrees'
  <2>1. vanished \/ Prefix(acked, file)
    BY <1>2 DEF AcknowledgedOnDisk
  <2>2. Prefix(file, file)
    BY DEF Prefix, TypeOK
  <2>3. QED
    BY <2>1, <2>2 DEF MemoryAgrees, Prefix, Broken
<1>4. SealBinds'
  <2>1. CASE sealing = "wrote"
    <3>1. marker.state = "whole" /\ marker.head = sealLog
      BY <2>1 DEF SealBinds
    <3>2. marker.head = file /\ sealed'
      BY <3>1 DEF MarkerAgrees
    <3>3. QED
      BY <2>1, <3>1, <3>2 DEF SealBinds
  <2>2. CASE sealing # "wrote"
    BY <2>2 DEF SealBinds
  <2>3. QED
    BY <2>1, <2>2
<1>5. CleanLogAgrees'
  <2>1. ASSUME marker # NoMarker, ~faulted PROVE sealed'
    <3>1. marker.state # "absent"
      BY <2>1 DEF CleanLogAgrees
    <3>2. QED
      BY <3>1, Zenon
  <2>2. QED
    BY <2>1 DEF CleanLogAgrees, ValidFrames, Live
<1>6. QED
  BY <1>1, <1>2, <1>3, <1>4, <1>5

\* An acknowledged frame is synced, and behind all the earlier ones.
LEMMA AppendAcknowledgedIInv ==
  ASSUME NEW p \in Payloads
  PROVE  IInv /\ AppendAcknowledged(p) => IInv'
<1> SUFFICES ASSUME IInv, AppendAcknowledged(p) PROVE IInv'
  OBVIOUS
<1> USE DEF IInv, AppendAcknowledged, Appendable
<1>1. NewFrame(p) \in Frame
  BY NewFrameType
<1>2. TypeOK'
  <2>1. vanished' \in BOOLEAN
    BY Zenon
  <2>2. QED
    BY <1>1, <2>1 DEF TypeOK
<1>3. /\ Len(file') = Len(file) + 1
      /\ \A i \in 1 .. Len(file) : file'[i] = file[i]
      /\ file'[Len(file) + 1] = NewFrame(p)
  BY <1>1 DEF TypeOK
<1>4. /\ Len(events') = Len(events) + 1
      /\ \A i \in 1 .. Len(events) : events'[i] = events[i]
      /\ events'[Len(events) + 1] = NewFrame(p)
  BY <1>1 DEF TypeOK
<1>5. nextSeq = Len(events) + 1
  BY DEF MemoryAgrees, Live
<1>6. Broken' \/ Prefix(events', file')
  <2>1. CASE Broken
    <3>1. synced \in Nat /\ synced <= Len(file) /\ synced' = Len(file) + 1
      BY <1>3 DEF TypeOK, AcknowledgedOnDisk
    <3>2. \A i \in 1 .. synced : file'[i] = file[i] /\ i \in 1 .. synced'
      BY <1>3, <3>1
    <3>3. QED
      BY <2>1, <3>2 DEF Broken
  <2>2. CASE Prefix(events, file) /\ Len(events) = Len(file)
    BY <1>3, <1>4, <2>2 DEF Prefix, TypeOK
  <2>3. CASE Prefix(events, file) /\ Len(events) # Len(file)
    <3>1. file'[synced'].seq # synced' /\ synced' \in 1 .. synced'
      BY <1>3, <1>5, <2>3 DEF TypeOK, NewFrame
    <3>2. QED
      BY <3>1 DEF Broken
  <2>4. QED
    BY <2>1, <2>2, <2>3 DEF MemoryAgrees, Live
<1>7. AcknowledgedOnDisk'
  <2>1. synced' = Len(file') /\ acked' = events' /\ entry' = entry /\ entry # "absent"
    BY DEF MemoryAgrees, Live
  <2>2. Len(file') \in Nat
    BY <1>2 DEF TypeOK
  <2>3. Broken' \/ (Len(acked') <= synced' /\ Prefix(acked', file'))
    BY <1>6, <2>1 DEF Prefix
  <2>4. QED
    BY <2>1, <2>2, <2>3 DEF AcknowledgedOnDisk
<1>8. MemoryAgrees'
  <2>1. nextSeq' = Len(events') + 1
    BY <1>2, <1>4, <1>5 DEF TypeOK
  <2>2. Prefix(acked', events') /\ entry' # "absent"
    BY <1>2 DEF Prefix, TypeOK, MemoryAgrees, Live
  <2>3. QED
    BY <1>6, <2>1, <2>2 DEF MemoryAgrees
<1>9. SealBinds'
  BY DEF SealBinds, Live
<1>10. CleanLogAgrees'
  <2>1. ASSUME ~faulted PROVE ValidFrames(file')
    BY <1>3, <1>5, <2>1 DEF CleanLogAgrees, ValidFrames, NewFrame, Live, TypeOK
  <2>2. ASSUME ~faulted PROVE marker = NoMarker /\ events = file
    BY <2>2 DEF CleanLogAgrees, Live
  <2>3. QED
    BY <2>1, <2>2 DEF CleanLogAgrees, ValidFrames, NoMarker, Live
<1>11. QED
  BY <1>2, <1>7, <1>8, <1>9, <1>10

\* What a failed Append leaves lies behind what was acknowledged.
LEMMA AppendFailsIInv ==
  ASSUME NEW p \in Payloads
  PROVE  IInv /\ AppendFails(p) => IInv'
<1> SUFFICES ASSUME IInv, AppendFails(p) PROVE IInv'
  OBVIOUS
<1> USE DEF IInv, AppendFails, Appendable, memory
<1>1. NewFrame(p) \in Frame /\ Torn(NewFrame(p)) \in Frame
  BY NewFrameType
<1>2. /\ file' \in Seq(Frame)
      /\ Len(file) <= Len(file')
      /\ \A i \in 1 .. Len(file) : file'[i] = file[i]
  <2>1. CASE file' = file
    BY <2>1 DEF TypeOK
  <2>2. ASSUME NEW f \in Frame, file' = Append(file, f)
        PROVE  /\ file' \in Seq(Frame)
               /\ Len(file) <= Len(file')
               /\ \A i \in 1 .. Len(file) : file'[i] = file[i]
    BY <2>2 DEF TypeOK
  <2>3. QED
    BY <1>1, <2>1, <2>2
<1>3. TypeOK'
  BY <1>2 DEF TypeOK
<1>4. Broken => Broken'
  <2>1. synced \in Nat /\ synced <= Len(file) /\ synced' = synced
    BY DEF TypeOK, AcknowledgedOnDisk
  <2>2. \A i \in 1 .. synced : file'[i] = file[i]
    BY <1>2, <2>1
  <2>3. QED
    BY <2>1, <2>2 DEF Broken
<1>5. AcknowledgedOnDisk'
  <2>1. entry' # "absent" /\ synced' = synced /\ acked' = acked /\ vanished' = vanished
    BY DEF MemoryAgrees, Live
  <2>2. Prefix(acked, file) => Prefix(acked, file')
    BY <1>2 DEF Prefix, TypeOK
  <2>3. synced' <= Len(file')
    BY <1>2, <2>1 DEF AcknowledgedOnDisk, TypeOK
  <2>4. QED
    BY <1>4, <2>1, <2>2, <2>3 DEF AcknowledgedOnDisk
<1>6. MemoryAgrees'
  BY <1>2, <1>4 DEF MemoryAgrees, Live, Prefix, TypeOK
<1>7. SealBinds'
  BY DEF SealBinds, Live
<1>8. CleanLogAgrees'
  BY DEF CleanLogAgrees
<1>9. QED
  BY <1>3, <1>5, <1>6, <1>7, <1>8

\* What a Sync of the file does to the invariant, for the calls that do it
\* and leave the bytes and the events alone.
LEMMA SyncedFurther ==
  ASSUME IInv, mode = "open", file' = file, events' = events, nextSeq' = nextSeq,
         acked' = acked, vanished' = vanished, entry' \in {entry, "synced"},
         synced' \in {synced, Len(file)}
  PROVE  AcknowledgedOnDisk' /\ MemoryAgrees'
<1>1. synced' \in Nat /\ synced <= synced' /\ synced' <= Len(file)
  BY DEF IInv, TypeOK, AcknowledgedOnDisk
<1>2. Broken => Broken'
  BY <1>1 DEF Broken, IInv, TypeOK
<1>3. entry' # "absent"
  BY DEF IInv, MemoryAgrees, Live
<1>4. AcknowledgedOnDisk'
  BY <1>1, <1>2, <1>3 DEF IInv, AcknowledgedOnDisk, Prefix, TypeOK
<1>5. MemoryAgrees'
  BY <1>2, <1>3 DEF IInv, MemoryAgrees, Live, Prefix
<1>6. QED
  BY <1>4, <1>5

\* Each outcome of Seal leaves a marker that agrees with the log, or a failure.
LEMMA SealIInv ==
  IInv /\ (SealWritesMarker \/ SealFindsMarker \/ SealAgain \/ SealFails) => IInv'
<1> SUFFICES ASSUME IInv,
                    SealWritesMarker \/ SealFindsMarker \/ SealAgain \/ SealFails
             PROVE  IInv'
  OBVIOUS
<1> USE DEF IInv, Sealable, disk, memory
<1>1. /\ mode = "open" /\ file' = file /\ events' = events /\ nextSeq' = nextSeq
      /\ acked' = acked /\ synced' \in {synced, Len(file)} /\ mode' = mode
      /\ vanished' = vanished /\ entry' \in {entry, "synced"}
  BY DEF SealWritesMarker, SealFindsMarker, SealAgain, SealFails
<1>2. marker' \in Marker
  <2>1. marker \in Marker /\ events \in Seq(Frame)
    BY DEF TypeOK
  <2>2. \A c, e \in {"synced", "unsynced"} : Written(c, e) \in Marker
    BY <2>1 DEF Marker, Written
  <2>3. PartialMarker("unsynced") \in Marker
    BY DEF Marker, PartialMarker
  <2>4. [marker EXCEPT !.entry = "synced"] \in Marker
    BY <2>1 DEF Marker
  <2>5. CASE SealWritesMarker
    BY <2>2, <2>5 DEF SealWritesMarker
  <2>6. CASE SealFindsMarker
    BY <2>4, <2>6 DEF SealFindsMarker
  <2>7. CASE SealAgain
    BY <2>1, <2>7 DEF SealAgain
  <2>8. CASE SealFails
    BY <2>1, <2>2, <2>3, <2>8 DEF SealFails
  <2>9. QED
    BY <2>5, <2>6, <2>7, <2>8
<1>3. sealed' \in BOOLEAN /\ sealing' \in {"none", "wrote", "found"}
      /\ sealLog' \in Seq(Frame) /\ faulted' \in BOOLEAN
  BY DEF SealWritesMarker, SealFindsMarker, SealAgain, SealFails, TypeOK
<1>4. TypeOK'
  <2>1. entry' \in {"absent", "unsynced", "synced"} /\ vanished' \in BOOLEAN
    BY <1>1 DEF TypeOK
  <2>2. synced' \in Nat
    BY <1>1 DEF TypeOK
  <2>3. QED
    BY <1>1, <1>2, <1>3, <2>1, <2>2 DEF TypeOK
<1>5. AcknowledgedOnDisk' /\ MemoryAgrees'
  BY <1>1, SyncedFurther
<1>6. SealBinds'
  <2>1. CASE SealWritesMarker
    BY <2>1 DEF SealWritesMarker, SealBinds, Live, Written
  <2>2. CASE SealFindsMarker
    BY <2>2 DEF SealFindsMarker, SealBinds, Live
  <2>3. CASE SealAgain
    BY <2>3 DEF SealAgain, SealBinds, Live
  <2>4. CASE SealFails
    BY <2>4 DEF SealFails, SealBinds, Live
  <2>5. QED
    BY <2>1, <2>2, <2>3, <2>4
<1>7. CleanLogAgrees'
  <2>1. CASE SealWritesMarker
    BY <2>1 DEF SealWritesMarker, CleanLogAgrees, ValidFrames, Live, Written
  <2>2. CASE SealFindsMarker
    BY <2>2 DEF SealFindsMarker, CleanLogAgrees, ValidFrames, Live, NoMarker,
                MarkerMatchesHead
  <2>3. CASE SealAgain
    BY <2>3 DEF SealAgain, CleanLogAgrees, ValidFrames, Live
  <2>4. CASE SealFails
    BY <2>4 DEF SealFails, CleanLogAgrees
  <2>5. QED
    BY <2>1, <2>2, <2>3, <2>4
<1>8. QED
  BY <1>4, <1>5, <1>6, <1>7

\* Close syncs the file and changes nothing else on disk.
LEMMA CloseIInv == IInv /\ Close => IInv'
<1> SUFFICES ASSUME IInv, Close PROVE IInv'
  OBVIOUS
<1> USE DEF IInv, Close, history
<1>1. TypeOK'
  BY DEF TypeOK
<1>2. AcknowledgedOnDisk' /\ MemoryAgrees'
  BY SyncedFurther
<1>3. SealBinds'
  BY DEF SealBinds, Live
<1>4. CleanLogAgrees'
  BY DEF CleanLogAgrees, ValidFrames, Live
<1>5. QED
  BY <1>1, <1>2, <1>3, <1>4

\* Without an open Appender only the disk is left to agree with the history.
LEMMA DownIInv == IInv /\ (OpenRefuses \/ ProcessExits) => IInv'
<1> SUFFICES ASSUME IInv, OpenRefuses \/ ProcessExits PROVE IInv'
  OBVIOUS
<1> USE DEF IInv, OpenRefuses, ProcessExits, MemoryLost, FileCreated, disk, history
<1>1. ~Live'
  BY DEF Live
<1>2. TypeOK'
  <2>1. CASE OpenRefuses
    BY <2>1 DEF TypeOK
  <2>2. CASE ProcessExits
    <3>1. <<>> \in Seq(Frame)
      OBVIOUS
    <3>2. sealed' \in BOOLEAN
      BY <2>2, Zenon
    <3>3. QED
      BY <2>2, <3>1, <3>2, SMT DEF TypeOK
  <2>3. QED
    BY <2>1, <2>2
<1>3. AcknowledgedOnDisk'
  BY DEF AcknowledgedOnDisk, Broken, Prefix
<1>4. MemoryAgrees' /\ SealBinds'
  BY <1>1 DEF MemoryAgrees, SealBinds
<1>5. CleanLogAgrees'
  <2>1. ASSUME ~faulted PROVE MarkerAgrees
    BY <2>1 DEF CleanLogAgrees, MarkerAgrees, NoMarker
  <2>2. QED
    BY <1>1, <2>1 DEF CleanLogAgrees, ValidFrames
<1>6. QED
  BY <1>2, <1>3, <1>4, <1>5

\* A sync of the directory, by the Store, can only make names durable.
LEMMA StateWrittenIInv == IInv /\ StateWritten => IInv'
<1> SUFFICES ASSUME IInv, StateWritten PROVE IInv'
  OBVIOUS
<1> USE DEF IInv, StateWritten, memory, history
<1>1. marker' \in Marker
  BY DEF TypeOK, Marker
<1>2. TypeOK'
  BY <1>1 DEF TypeOK
<1>3. AcknowledgedOnDisk' /\ MemoryAgrees'
  BY DEF AcknowledgedOnDisk, MemoryAgrees, Broken, Live, Prefix
<1>4. SealBinds'
  BY DEF SealBinds, Live
<1>5. CleanLogAgrees'
  <2>1. ASSUME ~faulted PROVE marker' = marker
    BY <2>1 DEF CleanLogAgrees, NoMarker
  <2>2. QED
    BY <2>1 DEF CleanLogAgrees, ValidFrames, Live
<1>6. QED
  BY <1>2, <1>3, <1>4, <1>5

\* When all of the file is synced, a power loss takes nothing from it.
LEMMA NothingUnsynced ==
  ASSUME TypeOK, PowerLost, synced = Len(file)
  PROVE  file' = file
<1>1. file' \in Survivors(Len(file))
  BY DEF PowerLost, TypeOK
<1>2. file' = SubSeq(file, 1, Len(file))
  BY <1>1 DEF Survivors, TypeOK
<1>3. SubSeq(file, 1, Len(file)) = file
  BY DEF TypeOK
<1>4. QED
  BY <1>2, <1>3

\* What a power loss leaves of the marker is a marker.
LEMMA SurvivingMarkersType ==
  ASSUME TypeOK, NEW m \in SurvivingMarkers
  PROVE  m \in Marker
<1>1. Settled(marker) \in Marker
  BY DEF TypeOK, Marker, Settled
<1>2. NoMarker \in Marker /\ PartialMarker("synced") \in Marker
  BY DEF Marker, NoMarker, PartialMarker
<1>3. QED
  BY <1>1, <1>2 DEF SurvivingMarkers

\* A power loss takes at most what was not synced.
LEMMA PowerLostIInv == IInv /\ PowerLost => IInv'
<1> SUFFICES ASSUME IInv, PowerLost PROVE IInv'
  OBVIOUS
<1> USE DEF IInv, PowerLost, MemoryLost, history
<1>1. /\ file' \in Seq(Frame)
      /\ synced <= Len(file')
      /\ \A i \in 1 .. synced : file'[i] = file[i]
  BY SurvivorsKeepSynced DEF AcknowledgedOnDisk
<1>2. marker' \in Marker
  BY SurvivingMarkersType
<1>3. TypeOK'
  <2>1. <<>> \in Seq(Frame) /\ Len(file') \in Nat
    BY <1>1
  <2>2. sealed' \in BOOLEAN
    BY Zenon
  <2>3. QED
    BY <1>1, <1>2, <2>1, <2>2, SMT DEF TypeOK
<1>4. Broken => Broken'
  BY <1>1 DEF Broken, TypeOK
<1>5. AcknowledgedOnDisk'
  <2>1. ASSUME entry = "absent" PROVE file' = file
    BY <2>1, NothingUnsynced DEF AcknowledgedOnDisk
  <2>2. entry' = "absent" => synced' = 0 /\ file' = <<>>
    BY <1>3, <2>1 DEF AcknowledgedOnDisk, TypeOK
  <2>3. synced' = Len(file')
    OBVIOUS
  <2>4. QED
    BY <1>1, <1>4, <2>2, <2>3 DEF AcknowledgedOnDisk, Prefix, TypeOK
<1>6. ~Live'
  BY DEF Live
<1>7. SealBinds'
  <2>1. CASE sealing = "wrote"
    <3>1. marker' = Settled(marker)
      BY <2>1 DEF SealBinds, SurvivingMarkers
    <3>2. marker' = marker
      <4>1. marker = [state |-> "whole", head |-> sealLog,
                      content |-> "synced", entry |-> "synced"]
        BY <2>1 DEF SealBinds
      <4>2. QED
        BY <3>1, <4>1 DEF Settled
    <3>3. synced' = Len(file')
      OBVIOUS
    <3>4. QED
      BY <1>6, <3>2, <3>3 DEF SealBinds
  <2>2. CASE sealing # "wrote"
    BY <2>2 DEF SealBinds
  <2>3. QED
    BY <2>1, <2>2
<1>8. CleanLogAgrees'
  <2>1. ASSUME ~faulted
        PROVE  file' = file /\ synced' = Len(file') /\ marker' = marker
    <3>1. file' = file
      BY <2>1, NothingUnsynced DEF CleanLogAgrees
    <3>2. marker \in {NoMarker, [state |-> "whole", head |-> file,
                                content |-> "synced", entry |-> "synced"]}
      BY <2>1 DEF CleanLogAgrees
    <3>3. Settled(marker) = marker /\ SurvivingMarkers = {Settled(marker)}
      BY <3>2 DEF SurvivingMarkers, Settled, NoMarker
    <3>4. QED
      BY <3>1, <3>3
  <2>2. QED
    BY <1>6, <2>1 DEF CleanLogAgrees, ValidFrames
<1>9. QED
  BY <1>3, <1>5, <1>6, <1>7, <1>8 DEF MemoryAgrees

\* A power loss that takes the whole file leaves what the first Open would find,
\* or a marker that a failed Seal has left behind.
LEMMA PowerLostWithFileIInv == IInv /\ PowerLostWithFile => IInv'
<1> SUFFICES ASSUME IInv, PowerLostWithFile PROVE IInv'
  OBVIOUS
<1> USE DEF IInv, PowerLostWithFile, MemoryLost
<1>1. marker' \in Marker
  BY SurvivingMarkersType
<1>2. TypeOK'
  <2>1. <<>> \in Seq(Frame)
    OBVIOUS
  <2>2. sealed' \in BOOLEAN /\ vanished' \in BOOLEAN
    BY Zenon
  <2>3. QED
    BY <1>1, <2>1, <2>2, SMT DEF TypeOK
<1>3. AcknowledgedOnDisk'
  BY DEF AcknowledgedOnDisk
<1>4. MemoryAgrees'
  BY DEF MemoryAgrees, Live
<1>5. SealBinds'
  BY DEF SealBinds
<1>6. CleanLogAgrees'
  <2>1. ASSUME ~faulted PROVE marker' = NoMarker
    <3>1. marker = NoMarker
      BY <2>1 DEF CleanLogAgrees
    <3>2. QED
      BY <3>1 DEF SurvivingMarkers, Settled, NoMarker
  <2>2. QED
    BY <2>1 DEF CleanLogAgrees, ValidFrames, Live
<1>7. QED
  BY <1>2, <1>3, <1>4, <1>5, <1>6

\* A stuttering step.
LEMMA StutterIInv == IInv /\ UNCHANGED vars => IInv'
  BY DEF IInv, TypeOK, AcknowledgedOnDisk, MemoryAgrees, SealBinds, CleanLogAgrees,
         Broken, Live, Prefix, ValidFrames, vars, disk, memory, history

-----------------------------------------------------------------------------

\* IInv holds in every reachable state of the log.
THEOREM Invariance == Spec => []IInv
<1>1. IInv /\ [Next]_vars => IInv'
  BY OpenRecoversIInv, AppendAcknowledgedIInv, AppendFailsIInv, SealIInv, CloseIInv,
     StateWrittenIInv, DownIInv, PowerLostIInv, PowerLostWithFileIInv, StutterIInv DEF Next
<1>2. QED
  BY InitIInv, <1>1, PTL DEF Spec

\* The variables of the log keep their types.
THEOREM Typing == Spec => []TypeOK
<1>1. IInv => TypeOK
  BY DEF IInv
<1>2. QED
  BY <1>1, Invariance, PTL

\* No acknowledged frame is ever lost, moved or changed by failed writes, process
\* exits and power losses: every Appender that opens has them all, unless since
\* the last of them a power loss took a file whose name was never synced.
THEOREM Durability == Spec => []AcknowledgedSurvives
<1>1. IInv => AcknowledgedSurvives
  BY DEF IInv, MemoryAgrees, AcknowledgedSurvives
<1>2. QED
  BY <1>1, Invariance, PTL

\* A Seal that wrote its marker holds for every later Appender.
THEOREM SealDurability == Spec => []SealSurvives
<1>1. IInv => SealSurvives
  BY DEF IInv, SealBinds, SealSurvives
<1>2. QED
  BY <1>1, Invariance, PTL

\* After such a Seal the log file never changes again.
THEOREM SealIsFinal == Spec => SealedFileIsFinal
<1>1. IInv /\ [Next]_vars => [sealing = "wrote" => file' = file]_vars
  <2> SUFFICES ASSUME IInv, Next, sealing = "wrote" PROVE file' = file
    BY DEF vars
  <2> USE DEF IInv, SealBinds
  <2>1. CASE OpenRecovers \/ OpenRefuses \/ ProcessExits
    BY <2>1 DEF OpenRecovers, OpenRefuses, ProcessExits, FileCreated, disk
  <2>2. ASSUME NEW p \in Payloads, AppendAcknowledged(p) \/ AppendFails(p)
        PROVE  FALSE
    BY <2>2 DEF AppendAcknowledged, AppendFails, Appendable, Live
  <2>3. CASE \/ SealWritesMarker \/ SealFindsMarker \/ SealAgain \/ SealFails
             \/ Close \/ StateWritten
    BY <2>3 DEF SealWritesMarker, SealFindsMarker, SealAgain, SealFails, Close,
                StateWritten, disk
  <2>4. CASE PowerLost
    BY <2>4, NothingUnsynced
  <2>5. CASE PowerLostWithFile
    BY <2>5 DEF PowerLostWithFile
  <2>6. QED
    BY <2>1, <2>2, <2>3, <2>4, <2>5 DEF Next
<1>2. QED
  BY <1>1, Invariance, PTL DEF Spec, SealedFileIsFinal

\* Open refuses a log only after a write or a sync of it has failed.
THEOREM CleanReopening == Spec => []CleanLogReopens
<1>1. IInv => CleanLogReopens
  BY DEF IInv, CleanLogAgrees, CleanLogReopens
<1>2. QED
  BY <1>1, Invariance, PTL
=============================================================================
