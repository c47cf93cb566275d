-------------------------- MODULE EvidencePipeline --------------------------
(***************************************************************************)
(* From what sensors observe to a bundle that is accepted: raw records and *)
(* their chains (internal/evidence/raw.go), the normalizers that make an   *)
(* event of each (internal/normalizer), and the validator of the published *)
(* bundle (internal/bundle/bundle.go, internal/verification,               *)
(* internal/plaintext).                                                    *)
(*                                                                         *)
(* A hash is what it is a hash of: the sha of a record is its source and   *)
(* place when it was written, a chain head the number of records in the    *)
(* chain (0, the seed), the sha of a flow its bytes.  A byte is its place  *)
(* in its stream, and a chunk of plaintext has one, or none and the end.   *)
(***************************************************************************)
EXTENDS Integers, FiniteSets, SequencesExt

CONSTANTS
  Backends,   \* the backends a run may have
  Streams,    \* one direction of one connection each
  Datagram,   \* those whose transport has no byte offsets
  Width,      \* bits of a source sequence number
  MaxRecords, \* bound on the records of a run
  MaxFaults   \* bound on what goes wrong

ASSUME EvidenceAssumption ==
  /\ Backends \subseteq {"compat-local-process", "mock-data", "gvisor-container"}
  /\ Datagram \subseteq Streams
  /\ Width \in Nat /\ MaxRecords \in Nat /\ MaxFaults \in Nat
  /\ MaxRecords < 2 ^ Width - 1

Modulus == 2 ^ Width
Sensors == {"workload", "boundary"}

VARIABLES
  backend,    \* of the run
  at,         \* "capturing", "captured", "appended", "failed", "accepted", "refused"
  connection, \* of each stream: "new", "open", "closed", "denied", "reported"
  sent,       \* how many bytes it has carried
  captured,   \* how many chunks of it the sensor has recorded
  unended,    \* history: the streams that closed and had no chunk to say so
  wrote,      \* history: the records of each sensor
  records,    \* the records of the run, in the order they came
  heads,      \* the chain head of each sensor
  observed,   \* the observedEnd of each sensor in the health report
  log,        \* the tracked events
  faults

wire == <<connection, sent, captured, unended>>
bundle == <<records, heads, observed, log>>
vars == <<backend, at, wire, wrote, bundle, faults>>

Fault == faults < MaxFaults /\ faults' = faults + 1

\* The place of the k-th smallest value of v; equal values keep their order.
Place(v, k) ==
  CHOOSE i \in DOMAIN v :
    Cardinality({j \in DOMAIN v : v[j] < v[i] \/ (v[j] = v[i] /\ j <= i)}) = k

\* All of q by a key of each element, and the elements of q at some places.
Sorted(q, key) == [k \in DOMAIN q |-> q[Place(key, k)]]
Pick(q, places) == [k \in 1 .. Cardinality(places) |-> q[Place([i \in places |-> i], k)]]

Of(sensor, rs) == Pick(rs, {i \in DOMAIN rs : rs[i].sensor = sensor})

-----------------------------------------------------------------------------
(* Capture.                                                                  *)

Sha(r) == [sensor |-> r.sensor, seq |-> r.seq]

\* A sensor appends a record to its chain.
Writes(sensor, type, body) ==
  LET n == Len(wrote[sensor]) + 1
      r == [sensor |-> sensor, seq |-> n, prev |-> n - 1, type |-> type, body |-> body,
            sha |-> [sensor |-> sensor, seq |-> n]]
  IN /\ Len(wrote["workload"]) + Len(wrote["boundary"]) < MaxRecords
     /\ wrote' = [wrote EXCEPT ![sensor] = Append(@, r)]
     /\ records' = Append(records, r)

Capturing == at = "capturing" /\ UNCHANGED <<backend, at, heads, observed, log>>

\* The workload prints something.
Outputs ==
  /\ Capturing
  /\ Writes("workload", "output", <<>>)
  /\ UNCHANGED <<wire, faults>>

\* A chunk passes the boundary: a byte, the last byte, or the end of the stream alone.
Transfers(s) ==
  /\ Capturing
  /\ backend # "compat-local-process"
  /\ connection[s] \in {"new", "open"}
  /\ \E bytes \in {<<>>, <<sent[s]>>}, eof \in BOOLEAN :
       /\ bytes = <<>> => eof
       /\ connection' = [connection EXCEPT ![s] = IF eof THEN "closed" ELSE "open"]
       /\ sent' = [sent EXCEPT ![s] = @ + Len(bytes)]
       /\ Writes("workload", "network/plaintext",
                 [stream |-> s, n |-> captured[s] + 1, bytes |-> bytes, eof |-> eof,
                  offset |-> IF s \in Datagram THEN 0 ELSE sent[s]])
  /\ captured' = [captured EXCEPT ![s] = @ + 1]
  /\ UNCHANGED <<unended, faults>>

\* A connection closes, perhaps without a byte, and no chunk says so.
Vanishes(s) ==
  /\ Capturing
  /\ backend # "compat-local-process"
  /\ connection[s] \in {"new", "open"}
  /\ connection' = [connection EXCEPT ![s] = "closed"]
  /\ unended' = unended \cup {s}
  /\ UNCHANGED <<sent, captured, wrote, records, faults>>

\* A byte passes the boundary and is not recorded.
Misses(s) ==
  /\ Capturing /\ Fault
  /\ backend # "compat-local-process"
  /\ connection[s] \in {"new", "open"}
  /\ \E eof \in BOOLEAN :
       connection' = [connection EXCEPT ![s] = IF eof THEN "closed" ELSE "open"]
  /\ sent' = [sent EXCEPT ![s] = @ + 1]
  /\ UNCHANGED <<captured, unended, wrote, records>>

Denies(s) ==
  /\ Capturing
  /\ backend # "compat-local-process"
  /\ connection[s] = "new"
  /\ connection' = [connection EXCEPT ![s] = "denied"]
  /\ UNCHANGED <<sent, captured, unended, wrote, records, faults>>

\* The boundary accounts for a stream that has ended, or was denied.
ReportsFlow(s) ==
  /\ Capturing
  /\ connection[s] \in {"closed", "denied"}
  /\ connection' = [connection EXCEPT ![s] = "reported"]
  /\ Writes("boundary", "network/flow",
            [stream |-> s, bytes |-> [i \in 1 .. sent[s] |-> i - 1],
             denied |-> connection[s] = "denied"])
  /\ UNCHANGED <<sent, captured, unended, faults>>

\* FinalizeEvidence.
Ends ==
  /\ at = "capturing" /\ at' = "captured"
  /\ \A s \in Streams : connection[s] \in {"new", "reported"}
  /\ records # <<>>
  /\ heads' = [s \in Sensors |-> Len(wrote[s])]
  /\ observed' = heads'
  /\ UNCHANGED <<backend, wire, wrote, records, log, faults>>

-----------------------------------------------------------------------------
(* internal/evidence/raw.go.                                                 *)

\* RawRecord.Validate: a hash of other content is not the hash of this record.
ValidRecord(r) == r.seq # 0 /\ r \in ToSet(wrote[r.sensor])

\* The sequence of one source's records.
InLineage(chain) ==
  \A i \in DOMAIN chain :
    /\ ValidRecord(chain[i])
    /\ chain[i].seq = i
    /\ chain[i].prev = IF i = 1 THEN 0 ELSE chain[i - 1].sha.seq

\* A bug that would not look at the manifest's chain head.
ValidChainOfAnyHead(chain, head) == InLineage(chain)

\* ValidateChain, and the comparison of the head it computes.
ValidChain(chain, head) == InLineage(chain) /\ head = Len(chain)

\* A bug that would take the end of a range as excluded.
HalfOpen(c) == c.end - c.start

\* How many numbers a range has, in Width bits.
Wide(c) == (c.end - c.start + 1) % Modulus

\* A range takes the numbers that follow the first pos of them; -1 is an error.
Covers(have, pos, c) ==
  IF \/ pos < 0 \/ pos >= Len(have) \/ Wide(c) > Len(have) - pos
     \/ \E i \in 0 .. Wide(c) - 1 : have[pos + i + 1] # c.start + i
  THEN -1 ELSE pos + Wide(c)

\* How many numbers the first ranges take, one after the other.
Consumed(have, ranges) ==
  LET pos[n \in 0 .. Len(ranges)] == IF n = 0 THEN 0 ELSE Covers(have, pos[n - 1], ranges[n])
  IN pos

\* ValidateRawCoverage for one source: ranges and sequence numbers are both sorted.
ValidCoverage(seqs, ranges) ==
  /\ \A c \in ToSet(ranges) : c.start # 0 /\ c.end >= c.start
  /\ 0 \notin ToSet(seqs) /\ (seqs = <<>>) = (ranges = <<>>)
  /\ LET sorted == Sorted(ranges, [i \in DOMAIN ranges |-> ranges[i].start])
         have == Sorted(seqs, seqs)
     IN /\ \A i \in 2 .. Len(sorted) : sorted[i].start > sorted[i - 1].end
        /\ \A i \in 2 .. Len(have) : have[i] # have[i - 1]
        /\ Consumed(have, sorted)[Len(sorted)] = Len(have)

Seqs(sensor) == LET rs == Of(sensor, records) IN [i \in DOMAIN rs |-> rs[i].seq]

\* The events that refer to records, and the ranges of one source they refer to.
Normalized == Pick(log, {i \in DOMAIN log : log[i].type \notin {"run/start", "run/finish"}})
Ranges(sensor) == LET es == Of(sensor, Normalized)
                  IN [i \in DOMAIN es |-> [start |-> es[i].start, end |-> es[i].end]]

-----------------------------------------------------------------------------
(* internal/normalizer, and the driver that appends the events.              *)

EventOf(r) == [type |-> r.type, sensor |-> r.sensor, start |-> r.seq, end |-> r.seq,
               sha |-> r.sha, details |-> r.body]
Mark(type) == [type |-> type, sensor |-> "none"]

\* NormalizeCompat, NormalizeMock: one event for each record; a gVisor run has none.
Normalizes ==
  /\ at = "captured"
  /\ LET normal == IF backend = "gvisor-container" THEN <<>>
                   ELSE [i \in DOMAIN records |-> EventOf(records[i])]
     IN IF backend = "gvisor-container" \/ \A s \in Sensors : InLineage(Of(s, records))
        THEN /\ at' = "appended"
             /\ log' = <<Mark("run/start")>> \o normal \o <<Mark("run/finish")>>
        ELSE at' = "failed" /\ UNCHANGED log
  /\ UNCHANGED <<backend, wire, wrote, records, heads, observed, faults>>

-----------------------------------------------------------------------------
(* What goes wrong on the way.                                               *)

\* One element is lost, comes twice, or changes places with the next.
Disturbed(q) ==
  {RemoveAt(q, i) : i \in DOMAIN q}
  \cup {InsertAt(q, i, q[i]) : i \in DOMAIN q}
  \cup {[q EXCEPT ![i] = q[i + 1], ![i + 1] = q[i]] : i \in 1 .. Len(q) - 1}

RecordsDisturbed ==
  /\ at \in {"captured", "appended"} /\ Fault
  /\ \/ records' \in Disturbed(records)
     \/ \E i \in DOMAIN records :
          records' = [records EXCEPT ![i].seq = (@ + 1) % Modulus]
  /\ UNCHANGED <<backend, at, wire, wrote, heads, observed, log>>

\* The ranges an event may come to refer to, in Width bits.
Misread(e) ==
  LET next(n) == (n + 1) % Modulus
  IN {[e EXCEPT !.start = 0], [e EXCEPT !.end = (@ - 1) % Modulus],
      [e EXCEPT !.end = next(@)], [e EXCEPT !.start = next(@), !.end = next(@)],
      [e EXCEPT !.end = Modulus - 1]}

EventsDisturbed ==
  /\ at = "appended" /\ Fault
  /\ \/ log' \in Disturbed(log)
     \/ \E i \in DOMAIN log :
          /\ log[i].sensor # "none"
          /\ \E e \in Misread(log[i]) : log' = [log EXCEPT ![i] = e]
  /\ UNCHANGED <<backend, at, wire, wrote, records, heads, observed>>

HealthMisreported ==
  /\ at \in {"captured", "appended"} /\ Fault
  /\ \E s \in Sensors : observed' = [observed EXCEPT ![s] = @ + 1]
  /\ UNCHANGED <<backend, at, wire, wrote, records, heads, log>>

-----------------------------------------------------------------------------
(* internal/plaintext/assembler.go.                                          *)

NoStream == [known |-> FALSE, next |-> 1, offset |-> 0, closed |-> FALSE, bytes |-> <<>>]

\* Assembler.Add: chunks come in order, without a hole, and none after the last.
Add(a, p) ==
  LET s == a.streams[p.stream]
      ok == /\ a.ok /\ ~s.closed /\ p.n = s.next
            /\ p.stream \in Datagram \/ p.offset = s.offset
  IN IF ok
     THEN [a EXCEPT !.streams[p.stream] =
             [known |-> TRUE, next |-> s.next + 1, closed |-> p.eof,
              offset |-> IF p.stream \in Datagram THEN s.offset ELSE s.offset + Len(p.bytes),
              bytes |-> s.bytes \o p.bytes]]
     ELSE [a EXCEPT !.ok = FALSE]

\* After each number of events.
Assembly(es) ==
  LET after[n \in 0 .. Len(es)] ==
        IF n = 0 THEN [ok |-> TRUE, streams |-> [s \in Streams |-> NoStream]]
        ELSE IF es[n].type = "network/plaintext" THEN Add(after[n - 1], es[n].details)
             ELSE after[n - 1]
  IN after

Assembled == Assembly(log)[Len(log)]

Flows == LET rs == Pick(records, {i \in DOMAIN records : records[i].type = "network/flow"})
         IN [i \in DOMAIN rs |-> rs[i].body]

\* A bug that would ask a denied connection for a stream, too.
ReconcileAllFlows(streams) ==
  /\ \A i, j \in DOMAIN Flows : i # j => Flows[i].stream # Flows[j].stream
  /\ \A f \in ToSet(Flows) :
       LET s == streams[f.stream] IN s.known /\ s.closed /\ s.bytes = f.bytes
  /\ \A s \in Streams : streams[s].known => \E f \in ToSet(Flows) : f.stream = s

\* ReconcileFlows.
ReconcileFlows(streams) ==
  /\ \A i, j \in DOMAIN Flows : i # j => Flows[i].stream # Flows[j].stream
  /\ \A f \in ToSet(Flows) :
       LET s == streams[f.stream]
       IN IF f.denied THEN ~s.known ELSE s.known /\ s.closed /\ s.bytes = f.bytes
  /\ \A s \in Streams : streams[s].known => \E f \in ToSet(Flows) : f.stream = s

-----------------------------------------------------------------------------
(* bundle.Validate.                                                          *)

\* The trajectory starts at most once and ends with its only run/finish.
ValidTrajectory ==
  /\ Cardinality({i \in DOMAIN log : log[i].type = "run/start"}) <= 1
  /\ {i \in DOMAIN log : log[i].type = "run/finish"} = {Len(log)}
  /\ log # <<>>

\* Each record has a sequence number of its own.
ValidRecords ==
  \A s \in Sensors : LET seqs == Seqs(s) IN Cardinality(ToSet(seqs)) = Len(seqs)

Sources == {s \in Sensors : Of(s, records) # <<>>}

\* The sources the manifest names a head for: a gVisor run names its empty ones as well.
Named == IF backend = "gvisor-container" THEN Sensors ELSE {s \in Sensors : heads[s] # 0}

\* An event's reference: the whole range is there, and begins with the record it names.
ValidReference(e) ==
  /\ e.sensor \in Sources
  /\ e.start # 0 /\ e.end >= e.start
  /\ e.start .. e.end \subseteq ToSet(Seqs(e.sensor))
  /\ \A r \in ToSet(records) : r.sensor = e.sensor /\ r.seq = e.start => r.sha = e.sha

\* The raw-only branch for gVisor.
ValidGvisor ==
  /\ \E i \in DOMAIN log : log[i].type = "run/start"
  /\ records # <<>> /\ Normalized = <<>>
  /\ \A s \in Sources : ValidChain(Of(s, records), heads[s])
  /\ \A s \in Sensors \ Sources : heads[s] = 0
  /\ \A s \in Sensors : observed[s] = Len(Of(s, records))

\* verification.Verify: plaintext and flows, coverage, chains.
Verify ==
  /\ Assembled.ok /\ ReconcileFlows(Assembled.streams)
  /\ \A s \in Sensors : ValidCoverage(Seqs(s), Ranges(s))
  /\ \A s \in Sources : ValidChain(Of(s, records), heads[s])

Valid ==
  /\ ValidTrajectory /\ ValidRecords
  /\ Sources \subseteq Named
  /\ IF backend = "gvisor-container" THEN ValidGvisor
     ELSE /\ Sources = Named
          /\ \A e \in ToSet(Normalized) : ValidReference(e)
          /\ Verify

Validates ==
  /\ at = "appended"
  /\ at' = IF Valid THEN "accepted" ELSE "refused"
  /\ UNCHANGED <<backend, wire, wrote, bundle, faults>>

-----------------------------------------------------------------------------

Init ==
  /\ backend \in Backends /\ at = "capturing"
  /\ connection = [s \in Streams |-> "new"]
  /\ sent = [s \in Streams |-> 0] /\ captured = [s \in Streams |-> 0]
  /\ unended = {}
  /\ wrote = [s \in Sensors |-> <<>>] /\ records = <<>>
  /\ heads = [s \in Sensors |-> 0] /\ observed = [s \in Sensors |-> 0]
  /\ log = <<>> /\ faults = 0

Next ==
  \/ Outputs \/ Ends \/ Normalizes \/ Validates
  \/ \E s \in Streams :
       Transfers(s) \/ Vanishes(s) \/ Misses(s) \/ Denies(s) \/ ReportsFlow(s)
  \/ RecordsDisturbed \/ EventsDisturbed \/ HealthMisreported

Spec == Init /\ [][Next]_vars

-----------------------------------------------------------------------------

\* Whatever was lost, repeated, reordered or misread on the way, a bundle that is
\* accepted has the records its sensors wrote, each of them in the range of exactly one
\* event, and its plaintext events give the bytes that passed the boundary, in their
\* order (verifier.go:66, bundle.go:260).
AcceptedIsFaithful ==
  at = "accepted" =>
    /\ \A s \in Sensors : Of(s, records) = wrote[s]
    /\ backend # "gvisor-container" =>
         /\ \A r \in ToSet(records) :
              Cardinality({i \in DOMAIN log :
                log[i].sensor = r.sensor /\ log[i].start <= r.seq /\ r.seq <= log[i].end}) = 1
         /\ \A s \in Streams : Assembled.streams[s].bytes = [i \in 1 .. sent[s] |-> i - 1]

\* When nothing was lost on the way, a run whose plaintext is checked is accepted if the
\* end of every connection was recorded, with the last byte or by a chunk with no bytes,
\* and refused if one was not, also when it carried nothing; a denied connection has no
\* chunk to wait for, and a gVisor run no plaintext (assembler.go:129, bundle.go:506).
HonestIsAccepted ==
  faults = 0 /\ at \in {"failed", "accepted", "refused"} =>
    (at = "accepted" <=> backend = "gvisor-container" \/ unended = {})

\* What ValidateRawCoverage accepts by walking through sorted intervals is what it is
\* there to prove, that every record is in exactly one range and every range is of
\* records, up to the largest sequence number (raw.go:183).
CoverageIsExact ==
  at = "appended" => \A s \in Sensors :
    LET seqs == Seqs(s)
        ranges == Ranges(s)
        over(seq) == {i \in DOMAIN ranges : ranges[i].start <= seq /\ seq <= ranges[i].end}
        exact == /\ \A i, j \in DOMAIN seqs : i # j => seqs[i] # seqs[j]
                 /\ \A i \in DOMAIN seqs : seqs[i] # 0 /\ Cardinality(over(seqs[i])) = 1
                 /\ \A c \in ToSet(ranges) :
                      c.start <= c.end /\ c.start .. c.end \subseteq ToSet(seqs)
    IN ValidCoverage(seqs, ranges) <=> exact
=============================================================================
