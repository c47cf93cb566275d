----------------------------- MODULE TrackedLog -----------------------------
(***************************************************************************)
(* The durable TrackedEvent log of one run: internal/appender/appender.go. *)
(*                                                                         *)
(* The log is a JSONL file of frames, a seal marker beside it, and the     *)
(* Appender object that is its only writer.  Every call runs under the     *)
(* Appender's mutex, so a call is one action here, and each call has the   *)
(* outcomes its write and sync calls can have.  Two failures end an        *)
(* Appender: the process exits (the page cache survives) or the machine    *)
(* loses power (what was not synced may be lost, or survive in part).      *)
(* Open creates the file and syncs no directory, so until someone does, a  *)
(* loss of power may take the file itself with all the frames synced into  *)
(* it.  The directory is taken to outlive the power loss: one that Open    *)
(* has to create first (MkdirAll) stands or falls with its parents, which  *)
(* neither Open nor Seal syncs.                                            *)
(*                                                                         *)
(* A frame is [seq, payload, form]; form = "torn" is a frame of which      *)
(* only a part reached the file.  What a later write puts after a torn     *)
(* frame lands on the same line, which is no JSON: the torn entry in the   *)
(* middle of `file' stands for that line.  The SHA-256 chain head is the   *)
(* sequence of frames it was computed over, so two heads are equal exactly *)
(* when the logs are (the hash is taken to be free of collisions).         *)
(***************************************************************************)
EXTENDS Integers, Sequences

CONSTANTS
  Payloads,   \* the events callers may append, already valid
  MaxFrames   \* bound on the frames the file may hold

ASSUME MaxFramesAssumption == MaxFrames \in Nat

VARIABLES
  file,    \* the frames in the log file, as a reader of the file sees them
  entry,   \* the file's name in its directory: "absent", "unsynced" or "synced"
  synced,  \* how many of them a successful Sync has covered
  marker,  \* the seal marker file, and which of its parts have been synced
  mode,    \* the Appender: "down" (none), "open", "closed", "refused" (Open failed)
  events,  \* Appender.events, of which Appender.head is the chain head
  nextSeq, \* Appender.nextSeq
  sealed,  \* Appender.sealed
  acked,   \* history: the log as the last successful Append acknowledged it
  sealing, \* history: what Seal has reported, "none", "wrote" or "found" a marker
  sealLog, \* history: the log that the Seal which wrote the marker bound
  vanished,\* history: a power loss took the file after the last acknowledged Append
  faulted  \* history: some write or sync has failed or was cut short

disk == <<file, entry, synced, marker>>
memory == <<mode, events, nextSeq, sealed>>
history == <<acked, sealing, sealLog, vanished, faulted>>
vars == <<disk, memory, history>>

Frame == [seq : Nat \ {0}, payload : Payloads, form : {"whole", "torn"}]
Marker == [state : {"absent", "partial", "whole"}, head : Seq(Frame),
           content : {"synced", "unsynced"}, entry : {"synced", "unsynced"}]

NoMarker ==
  [state |-> "absent", head |-> <<>>, content |-> "synced", entry |-> "synced"]
PartialMarker(durable) ==
  [state |-> "partial", head |-> <<>>, content |-> durable, entry |-> durable]

Prefix(s, t) == Len(s) <= Len(t) /\ \A i \in 1 .. Len(s) : s[i] = t[i]
Live == mode \in {"open", "closed"}

TypeOK ==
  /\ file \in Seq(Frame)
  /\ entry \in {"absent", "unsynced", "synced"}
  /\ synced \in Nat
  /\ marker \in Marker
  /\ mode \in {"down", "open", "closed", "refused"}
  /\ events \in Seq(Frame)
  /\ nextSeq \in Nat \ {0}
  /\ sealed \in BOOLEAN
  /\ acked \in Seq(Frame)
  /\ sealing \in {"none", "wrote", "found"}
  /\ sealLog \in Seq(Frame)
  /\ vanished \in BOOLEAN
  /\ faulted \in BOOLEAN

Init ==
  /\ file = <<>> /\ entry = "absent" /\ synced = 0 /\ marker = NoMarker
  /\ mode = "down" /\ events = <<>> /\ nextSeq = 1 /\ sealed = FALSE
  /\ acked = <<>> /\ sealing = "none" /\ sealLog = <<>>
  /\ vanished = FALSE /\ faulted = FALSE

-----------------------------------------------------------------------------
(* Open *)

\* ValidateFrames: every line is a complete frame whose seq is its position.
ValidFrames(b) == \A i \in 1 .. Len(b) : b[i].form = "whole" /\ b[i].seq = i

\* The marker Open accepts: none, or the exact chain head of the file.
MarkerAgrees == marker.state = "absent" \/ (marker.state = "whole" /\ marker.head = file)

\* O_CREATE: the file is there from now on, its name not yet on disk.
FileCreated ==
  /\ entry' = IF entry = "absent" THEN "unsynced" ELSE entry
  /\ UNCHANGED <<file, synced, marker>>

\* A bug that would not restore the seal.
OpenForgetsSeal ==
  /\ mode = "down"
  /\ ValidFrames(file) /\ MarkerAgrees
  /\ mode' = "open"
  /\ events' = file
  /\ nextSeq' = Len(file) + 1
  /\ sealed' = FALSE
  /\ FileCreated
  /\ UNCHANGED history

OpenRecovers ==
  /\ mode = "down"
  /\ ValidFrames(file) /\ MarkerAgrees
  /\ mode' = "open"
  /\ events' = file
  /\ nextSeq' = Len(file) + 1
  /\ sealed' = (marker.state # "absent")
  /\ FileCreated
  /\ UNCHANGED history

OpenRefuses ==
  /\ mode = "down"
  /\ ~(ValidFrames(file) /\ MarkerAgrees)
  /\ mode' = "refused"
  /\ FileCreated
  /\ UNCHANGED <<events, nextSeq, sealed, history>>

-----------------------------------------------------------------------------
(* Append *)

\* A bug that would number frames from zero.
NewFrameFromZero(p) == [seq |-> nextSeq - 1, payload |-> p, form |-> "whole"]

NewFrame(p) == [seq |-> nextSeq, payload |-> p, form |-> "whole"]
Torn(f) == [f EXCEPT !.form = "torn"]
Appendable == mode = "open" /\ ~sealed /\ Len(file) < MaxFrames

\* A bug that would acknowledge a frame before it is synced.
AppendWithoutSync(p) ==
  /\ Appendable
  /\ file' = Append(file, NewFrame(p))
  /\ events' = Append(events, NewFrame(p))
  /\ nextSeq' = nextSeq + 1
  /\ acked' = events' /\ vanished' = FALSE
  /\ UNCHANGED <<entry, synced, marker, mode, sealed, sealing, sealLog, faulted>>

\* A bug that would leave nextSeq where it was.
AppendKeepsSeq(p) ==
  /\ Appendable
  /\ file' = Append(file, NewFrame(p))
  /\ synced' = Len(file')
  /\ events' = Append(events, NewFrame(p))
  /\ acked' = events' /\ vanished' = FALSE
  /\ UNCHANGED <<entry, marker, mode, nextSeq, sealed, sealing, sealLog, faulted>>

\* The frame is written and synced, and only then acknowledged.
AppendAcknowledged(p) ==
  /\ Appendable
  /\ file' = Append(file, NewFrame(p))
  /\ synced' = Len(file')
  /\ events' = Append(events, NewFrame(p))
  /\ nextSeq' = nextSeq + 1
  /\ acked' = events' /\ vanished' = FALSE
  /\ UNCHANGED <<entry, marker, mode, sealed, sealing, sealLog, faulted>>

\* The write fails with nothing or a part of the frame in the file, or the
\* whole frame is there and the sync fails.  The caller gets an error; the
\* file is not truncated and nothing is latched.
AppendFails(p) ==
  /\ Appendable
  /\ file' \in {file, Append(file, Torn(NewFrame(p))), Append(file, NewFrame(p))}
  /\ faulted' = TRUE
  /\ UNCHANGED <<entry, synced, marker, memory, acked, sealing, sealLog, vanished>>

-----------------------------------------------------------------------------
(* Seal *)

Sealable == mode = "open" /\ ~sealed
MarkerMatchesHead == marker.state = "whole" /\ marker.head = events
Written(content, name) ==
  [state |-> "whole", head |-> events, content |-> content, entry |-> name]

\* A bug that would skip the sync of the marker's directory.
SealSkipsDirectorySync ==
  /\ Sealable
  /\ marker.state = "absent"
  /\ synced' = Len(file)
  /\ marker' = Written("synced", "unsynced")
  /\ sealed' = TRUE
  /\ sealing' = "wrote" /\ sealLog' = events
  /\ UNCHANGED <<file, entry, mode, events, nextSeq, acked, vanished, faulted>>

\* No marker yet: sync the log, write and sync the marker, sync the directory,
\* which holds the names of both.
SealWritesMarker ==
  /\ Sealable
  /\ marker.state = "absent"
  /\ synced' = Len(file)
  /\ marker' = Written("synced", "synced")
  /\ entry' = "synced"
  /\ sealed' = TRUE
  /\ sealing' = "wrote" /\ sealLog' = events
  /\ UNCHANGED <<file, mode, events, nextSeq, acked, vanished, faulted>>

\* A marker of an earlier, failed Seal is there and holds this very head: its
\* directory entry is synced again, its content is not.
SealFindsMarker ==
  /\ Sealable
  /\ MarkerMatchesHead
  /\ synced' = Len(file)
  /\ marker' = [marker EXCEPT !.entry = "synced"]
  /\ entry' = "synced"
  /\ sealed' = TRUE
  /\ sealing' = IF sealing = "none" THEN "found" ELSE sealing
  /\ UNCHANGED <<file, mode, events, nextSeq, acked, sealLog, vanished, faulted>>

\* The log is sealed as far as this Appender knows: Seal returns at once.
SealAgain ==
  /\ mode = "open" /\ sealed
  /\ sealing = "none"
  /\ sealing' = "found"
  /\ UNCHANGED <<disk, memory, acked, sealLog, vanished, faulted>>

\* The first sync fails; or creating, writing or syncing the marker, or
\* syncing its directory; or a marker is there that holds something else.
SealFails ==
  /\ Sealable
  /\ \/ UNCHANGED <<synced, marker>>
     \/ /\ synced' = Len(file)
        /\ marker.state = "absent"
        /\ marker' \in {marker, PartialMarker("unsynced"), Written("unsynced", "unsynced"),
                        Written("synced", "unsynced")}
     \/ synced' = Len(file) /\ marker.state # "absent" /\ UNCHANGED marker
  /\ faulted' = TRUE
  /\ UNCHANGED <<file, entry, memory, acked, sealing, sealLog, vanished>>

-----------------------------------------------------------------------------
(* Close, process exit, power loss *)

Close ==
  /\ mode = "open"
  /\ mode' = "closed"
  /\ synced' = Len(file)
  /\ UNCHANGED <<file, entry, marker, events, nextSeq, sealed, history>>

\* The Store writes state.json into the same directory and syncs that.
StateWritten ==
  /\ Live
  /\ entry' = "synced"
  /\ marker' = [marker EXCEPT !.entry = "synced"]
  /\ UNCHANGED <<file, synced, memory, history>>

MemoryLost ==
  /\ mode' = "down" /\ events' = <<>> /\ nextSeq' = 1 /\ sealed' = FALSE

ProcessExits ==
  /\ mode # "down"
  /\ MemoryLost
  /\ UNCHANGED <<disk, history>>

\* The first k frames survive, and possibly a part of the next one.
Survivors(k) ==
  {SubSeq(file, 1, k)} \cup
    (IF k < Len(file) THEN {Append(SubSeq(file, 1, k), Torn(file[k + 1]))} ELSE {})

\* A marker all of which survived.
Settled(m) == [state |-> m.state, head |-> m.head, content |-> "synced", entry |-> "synced"]

\* What is left of a marker whose directory entry or content was not synced.
SurvivingMarkers ==
  {Settled(marker)}
    \cup (IF marker.entry = "synced" THEN {} ELSE {NoMarker})
    \cup (IF marker.content = "synced" THEN {} ELSE {PartialMarker("synced")})

PowerLost ==
  /\ MemoryLost
  /\ \E k \in synced .. Len(file) : file' \in Survivors(k)
  /\ synced' = Len(file')
  /\ entry' = IF entry = "absent" THEN "absent" ELSE "synced"
  /\ marker' \in SurvivingMarkers
  /\ UNCHANGED history

\* The file's name was not on disk: the file is gone, however much of it was synced.
PowerLostWithFile ==
  /\ entry = "unsynced"
  /\ MemoryLost
  /\ file' = <<>> /\ entry' = "absent" /\ synced' = 0
  /\ marker' \in SurvivingMarkers
  /\ vanished' = TRUE
  /\ UNCHANGED <<acked, sealing, sealLog, faulted>>

-----------------------------------------------------------------------------

Next ==
  \/ OpenRecovers
  \/ OpenRefuses
  \/ \E p \in Payloads : AppendAcknowledged(p) \/ AppendFails(p)
  \/ SealWritesMarker
  \/ SealFindsMarker
  \/ SealAgain
  \/ SealFails
  \/ Close
  \/ StateWritten
  \/ ProcessExits
  \/ PowerLost
  \/ PowerLostWithFile

Spec == Init /\ [][Next]_vars

-----------------------------------------------------------------------------
(* What the log promises *)

\* The synced part of the file can never be read back.
Broken == \E i \in 1 .. synced : file[i].form = "torn" \/ file[i].seq # i

\* What Append acknowledged is still on disk, in place, unless bytes of an
\* unacknowledged frame were buried under it and Open refuses the file, or a
\* power loss took the whole file.
AcknowledgedOnDisk ==
  /\ synced <= Len(file)
  /\ entry = "absent" => synced = 0 /\ file = <<>>
  /\ Broken \/ vanished \/ (Len(acked) <= synced /\ Prefix(acked, file))

\* The Appender's memory is the readable start of the file it writes to.
MemoryAgrees ==
  Live => /\ nextSeq = Len(events) + 1
          /\ entry # "absent"
          /\ Broken \/ Prefix(events, file)
          /\ vanished \/ Prefix(acked, events)

\* A marker that Seal wrote to the end binds the log from then on.
SealBinds ==
  sealing = "wrote" =>
    /\ marker = [state |-> "whole", head |-> sealLog,
                 content |-> "synced", entry |-> "synced"]
    /\ entry = "synced"
    /\ synced = Len(file)
    /\ Live => sealed /\ events = sealLog

\* Without a failure the file is the log, all of it synced, and a marker is
\* whole and binds it, and neither goes without the other.
CleanLogAgrees ==
  ~faulted =>
    /\ ValidFrames(file) /\ synced = Len(file)
    /\ marker \in {NoMarker, [state |-> "whole", head |-> file,
                              content |-> "synced", entry |-> "synced"]}
    /\ marker # NoMarker => entry = "synced"
    /\ mode # "refused"
    /\ Live => events = file /\ (sealed \/ marker = NoMarker)

\* The inductive invariant behind the theorems of TrackedLogProofs.
IInv == TypeOK /\ AcknowledgedOnDisk /\ MemoryAgrees /\ SealBinds /\ CleanLogAgrees

\* A frame that Append acknowledged is in every later Appender of this log, at
\* its place and unchanged, whatever failed writes, exits and power losses came
\* between (appender.go:28 "does not acknowledge a record until its exact frame
\* has been synced to storage"), except that a power loss may take a file whose
\* directory no one has synced since Open created it: see PowerLostWithFile.
AcknowledgedSurvives == Live => vanished \/ Prefix(acked, events)

\* Once Seal has written its marker, every later Appender of the log is sealed
\* and holds exactly the sealed events (appender.go:241 "no further event may
\* be appended, including after a restart").
SealSurvives == sealing = "wrote" /\ Live => sealed /\ events = sealLog

\* Once Seal has written its marker, no byte is added to the log file or lost
\* from it, by any later Appender or failure.
SealedFileIsFinal == [][sealing = "wrote" => file' = file]_vars

\* If no write or sync ever failed or was cut short, the log can always be opened
\* again, after an exit between two calls and after any power loss between them,
\* one that takes the file included.  (An exit in the middle of a call cuts a
\* write short: it is a failed call here, with an exit behind it.)
CleanLogReopens == ~faulted => mode # "refused"

(* What the code's comments say and the code does not do *)

\* "Seal durably records that no further event may be appended, including
\* after a restart" (appender.go:241), for every Seal that returned nil.
EverySealSurvives == sealing # "none" /\ mode = "open" => sealed
=============================================================================
