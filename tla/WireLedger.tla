------------------------------ MODULE WireLedger ------------------------------
(***************************************************************************)
(* campaigns/nl6-flow-emission-shape: what reconcile-report.py and         *)
(* analyse-pcap.py conclude from a capture of the datagrams of a fleet and *)
(* from the ledger of the nl6 scenario that ran meanwhile.  The run is the *)
(* behaviour: exporters send in ticks, tcpdump writes the frames it does   *)
(* not lose, nl6 keeps its ledger, rightly or wrongly.  The programs read  *)
(* both once the run is over; their conclusions are operators of its       *)
(* state, so they are judged at every length of the run.                   *)
(***************************************************************************)
EXTENDS Integers, FiniteSets, Sequences, FiniteSetsExt, Series

CONSTANTS
    Devices,       \* exporters, each with its own source address
    Burst,         \* data records of one datagram of a device
    Offset,        \* when in a tick a device sends
    TickLen,       \* units of time per tick
    Refresh,       \* each Refresh-th datagram of a device carries the template
    T0, T1, DrainEnd,
    LastTick,      \* bound: length of the run
    MaxFaults      \* bound: frames lost and entries miscounted

ASSUME FleetAssumption ==
    /\ IsFiniteSet(Devices)
    /\ Burst \in [Devices -> Nat \ {0}] /\ Refresh \in Nat \ {0}
    /\ LastTick \in Nat /\ MaxFaults \in Nat
\* Datagrams of one tick are closer together than half a tick is long, and the
\* silence between ticks is longer than that ("the gap separates them
\* unambiguously"); a quarter either way keeps round() from a tie.
ASSUME ClockAssumption ==
    /\ TickLen \in Nat \ {0} /\ Offset \in [Devices -> Nat]
    /\ \A d \in Devices : 4 * Offset[d] <= TickLen
    /\ T0 \in Nat /\ T1 \in Nat /\ DrainEnd \in Nat /\ T0 <= T1 /\ T1 <= DrainEnd

VARIABLES
    tick,
    sent,    \* history: the datagrams that left the exporters, in order
    frames,  \* the capture
    ledger,  \* the report: in_window of each device and of the fleet, and drain
    faults   \* history: frames lost and entries miscounted

wire == <<tick, sent, frames, ledger, faults>>

EmitInit ==
    /\ tick = 0 /\ sent = <<>> /\ frames = <<>> /\ faults = 0
    /\ ledger = [in_window |-> [d \in Devices |-> 0], total |-> 0, drain |-> 0]

-----------------------------------------------------------------------------
(* The run. *)

From(d, rows) == {i \in DOMAIN rows : rows[i].src = d}
Payload(row) == row.count - (IF row.template THEN 1 ELSE 0)

\* The header counts the template as a record.
NextDatagram(d, records) ==
    LET seq == Cardinality(From(d, sent))
        template == seq % Refresh = 0
    IN [ts |-> TickLen * tick + Offset[d], src |-> d, seq |-> seq, template |-> template,
        count |-> records + (IF template THEN 1 ELSE 0)]

\* A datagram larger than the MTU is a first fragment and others.
FramesOf(g) ==
    LET frame(first) == [ts |-> g.ts, src |-> g.src, count |-> g.count,
                         template |-> g.template, seq |-> g.seq, first |-> first]
    IN IF Payload(g) > 1 THEN <<frame(TRUE), frame(FALSE)>> ELSE <<frame(TRUE)>>

Book(l, d, g) ==
    IF g.ts >= T0 /\ g.ts < T1 THEN [l EXCEPT !.in_window[d] = @ + Payload(g), !.total = @ + Payload(g)]
    ELSE IF g.ts >= T1 /\ g.ts < DrainEnd THEN [l EXCEPT !.drain = @ + Payload(g)]
    ELSE l

\* One datagram of d in this tick: it carries data or, when the template is due,
\* nothing but the template.  The capture may lose it, all but its first frame or
\* its first frame; nl6 may book it to the wrong device, to the device or the fleet
\* alone, or not at all.
Export(d) ==
    /\ sent # <<>> => sent[Len(sent)].ts < TickLen * tick + Offset[d]
    /\ \E records \in {0, Burst[d]} :
         LET g == NextDatagram(d, records) IN
         /\ records > 0 \/ g.template
         /\ sent' = Append(sent, g)
         /\ \/ /\ frames' = frames \o FramesOf(g)
               /\ ledger' = Book(ledger, d, g)
               /\ UNCHANGED faults
            \/ /\ faults < MaxFaults /\ faults' = faults + 1
               /\ \/ /\ \E kept \in {<<>>, Tail(FramesOf(g)), <<Head(FramesOf(g))>>} :
                          frames' = frames \o kept
                     /\ ledger' = Book(ledger, d, g)
                  \/ /\ frames' = frames \o FramesOf(g)
                     /\ \/ UNCHANGED ledger
                        \/ \E e \in Devices \ {d} : ledger' = Book(ledger, e, g)
                        \/ ledger' = [Book(ledger, d, g) EXCEPT !.total = ledger.total]
                        \/ ledger' = [Book(ledger, d, g) EXCEPT !.in_window = ledger.in_window]
    /\ UNCHANGED tick

Tick ==
    /\ tick < LastTick /\ tick' = tick + 1
    /\ UNCHANGED <<sent, frames, ledger, faults>>

Emit == Tick \/ \E d \in Devices : Export(d)
EmitSpec == EmitInit /\ [][Emit]_wire

-----------------------------------------------------------------------------
(* analyse-pcap.py: datagrams.                                                 *)

\* Mutant: later fragments are parsed as datagrams.
DatagramsAndFragments(capture) == capture

\* Non-first fragments are no datagrams.
Datagrams(capture) ==
    LET rows[i \in 0..Len(capture)] ==
          IF i = 0 THEN <<>>
          ELSE IF capture[i].first THEN Append(rows[i - 1], capture[i])
          ELSE rows[i - 1]
    IN  rows[Len(capture)]

\* Mutant: the template counts.
DataRecordsOfHeader(row) == row.count

\* The header count minus the template.
DataRecords(row) == IF row.template THEN row.count - 1 ELSE row.count

Rows == Datagrams(frames)

\* The records of the rows at the positions S.
Total(rows, S) == SumOver([i \in DOMAIN rows |-> DataRecords(rows[i])], S)

-----------------------------------------------------------------------------
(* analyse-pcap.py: tick_groups and report.                                    *)

\* round(gap / tick), ties to even.
Ticks(gap) ==
    LET whole == gap \div TickLen
        rest == 2 * (gap % TickLen)
    IN IF rest > TickLen \/ (rest = TickLen /\ whole % 2 = 1) THEN whole + 1 ELSE whole

\* Mutant: a template alone occupies a tick.
OccupiedByTemplate(row) == TRUE

Occupied(row) == DataRecords(row) > 0

Starts(previous, row) == previous # -1 /\ 2 * (row.ts - previous) > TickLen

Grouped(acc, row) ==
    IF ~Occupied(row) THEN acc
    ELSE IF Starts(acc.previous, row)
      THEN [series |-> Append(acc.series, acc.current),
            skipped |-> acc.skipped + Ticks(row.ts - acc.previous) - 1,
            current |-> DataRecords(row), previous |-> row.ts]
      ELSE [series |-> acc.series, skipped |-> acc.skipped,
            current |-> acc.current + DataRecords(row), previous |-> row.ts]

Group0 == [series |-> <<>>, skipped |-> 0, current |-> 0, previous |-> -1]

\* The loop of tick_groups, after the last row.
Groups(rows) ==
    LET acc[i \in 0..Len(rows)] == IF i = 0 THEN Group0 ELSE Grouped(acc[i - 1], rows[i])
    IN  acc[Len(rows)]

\* tick_groups: records per tick, and the ticks in which nothing was sent.
TickGroups(rows) ==
    LET end == Groups(rows) IN [series |-> Append(end.series, end.current), skipped |-> end.skipped]

Seqs(d, rows) == {rows[i].seq : i \in From(d, rows)}

\* Per exporter; a single datagram of one says nothing.
Missing(d, rows) ==
    IF Cardinality(From(d, rows)) <= 1 THEN 0
    ELSE Max(Seqs(d, rows)) - Min(Seqs(d, rows)) + 1 - Cardinality(From(d, rows))

\* Mutant: one sequence for the whole fleet.
LossSeenPooled(rows) ==
    /\ rows # <<>>
    /\ LET seqs == {rows[i].seq : i \in DOMAIN rows} IN Max(seqs) - Min(seqs) + 1 > Len(rows)

LossSeen(rows) == \E d \in Devices : Missing(d, rows) > 0

-----------------------------------------------------------------------------
(* reconcile-report.py: bucket and the verdict of main.                        *)

\* Mutant: the window includes its end.
InWindowClosed(row) == T0 <= row.ts /\ row.ts <= T1

InWindow(row) == T0 <= row.ts /\ row.ts < T1
InDrain(row) == T1 <= row.ts /\ row.ts < DrainEnd

PerSource(d, rows) == Total(rows, {i \in From(d, rows) : InWindow(rows[i])})

\* Mutant: only the totals are compared.
MismatchedByNobody(rows) == {}

\* "A fleet total can hide two devices disagreeing in opposite directions."
Mismatched(rows) == {d \in Devices : PerSource(d, rows) # ledger.in_window[d]}

\* The exit status is 0.
Exact(rows) ==
    /\ Total(rows, {i \in DOMAIN rows : InWindow(rows[i])}) = ledger.total
    /\ Total(rows, {i \in DOMAIN rows : InDrain(rows[i])}) = ledger.drain
    /\ Mismatched(rows) = {}

-----------------------------------------------------------------------------
(* What the conclusions are worth. *)

\* The records of the datagrams S that left the exporters, and what a right ledger
\* says of them.
Left(S) == SumOver([i \in DOMAIN sent |-> Payload(sent[i])], S)
SentIn(d) == Left({i \in From(d, sent) : sent[i].ts \in T0..(T1 - 1)})
RightLedger ==
    /\ \A d \in Devices : ledger.in_window[d] = SentIn(d)
    /\ ledger.total = Left({i \in DOMAIN sent : sent[i].ts \in T0..(T1 - 1)})
    /\ ledger.drain = Left({i \in DOMAIN sent : sent[i].ts \in T1..(DrainEnd - 1)})

Captured(g) == \E r \in Range(Rows) : r.src = g.src /\ r.seq = g.seq

\* On a capture without loss the verdict "ledger exact" is the truth about nl6's
\* ledger, device by device and at both edges of the window: templates and
\* fragments do not count as records, and opposite errors do not cancel.
VerdictIsRight ==
    (\A i \in DOMAIN sent : Captured(sent[i])) => (Exact(Rows) <=> RightLedger)

\* "Sequence numbers are PER EXPORTER": loss is reported if and only if a datagram
\* is missing between two that were captured from the same exporter, and none is
\* ever negative ("a multi-device capture reported -93 missing").
InteriorLossIsSeen ==
    /\ \A d \in Devices : Missing(d, Rows) >= 0
    /\ LossSeen(Rows) <=>
        \E i, j, k \in DOMAIN sent :
            /\ i < j /\ j < k /\ sent[i].src = sent[j].src /\ sent[j].src = sent[k].src
            /\ Captured(sent[i]) /\ ~Captured(sent[j]) /\ Captured(sent[k])

\* The datagrams with data in the capture, the ticks they left in, and what left in each.
Carried == {i \in DOMAIN sent : Captured(sent[i]) /\ Payload(sent[i]) > 0}
TickOf(i) == sent[i].ts \div TickLen
Busy == {TickOf(i) : i \in Carried}
RecordsIn(t) == Left({i \in Carried : TickOf(i) = t})

\* tick_groups gives the records of each tick that carried data in the capture,
\* and counts the ticks between them that carried none ("a tick that emitted
\* NOTHING" is silent, though a template left in it).
ShapeIsTheTicks ==
    Busy # {} =>
        /\ TickGroups(Rows).skipped = Cardinality((Min(Busy)..Max(Busy)) \ Busy)
        /\ TickGroups(Rows).series = [k \in 1..Cardinality(Busy) |-> RecordsIn(Ascending(Busy)[k])]
=============================================================================
