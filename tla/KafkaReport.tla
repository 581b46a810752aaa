----------------------------- MODULE KafkaReport -----------------------------
(***************************************************************************)
(* kafka_metrics_report.py: a batch consumer that captures the bounds of   *)
(* every partition and reads up to them, while the topic is written to and *)
(* retention deletes its oldest records.  A report leaves a sidecar, and   *)
(* --replay reads the offsets of one again.                                *)
(***************************************************************************)
EXTENDS Integers, FiniteSets, FiniteSetsExt

CONSTANTS
    Partitions,  \* the number of partitions of the topic
    Top,         \* bound: no partition has more than Top offsets
    MaxGaps,     \* bound: offsets that hold no record
    MaxRuns      \* bound: reports in a behaviour

ASSUME SizesAssumption ==
    Partitions \in Nat \ {0} /\ Top \in Nat \ {0} /\ MaxGaps \in Nat /\ MaxRuns \in Nat

Parts == 1..Partitions
Offsets == 0..Top

VARIABLES
    low, high,  \* the watermarks of each partition
    gaps,       \* offsets that hold no record: a transaction marker, or compacted
    pc,
    mode,       \* "all", "from" (--start-offsets) or "replay"
    cursor,     \* bounded_slice: the next partition whose watermarks are read
    requested,  \* the start the caller asked for
    start, end, \* bounds
    position,   \* the consumer's position in each partition
    remaining,
    records,
    warned,     \* errors is not empty
    counted,    \* history: the offsets counted in records
    rc,
    sidecar,    \* the bounds in the JSON file, with what a clean report counted
    runs        \* history: reports begun

topic == <<low, high, gaps>>
slice == <<mode, cursor, requested, start, end>>
reading == <<position, remaining, records, warned, counted>>
vars == <<topic, pc, slice, reading, rc, sidecar, runs>>

PerPart(S) == [Parts -> S]
Slots == Parts \X Offsets

TypeOK ==
    /\ low \in PerPart(Offsets) /\ high \in PerPart(Offsets)
    /\ \A p \in Parts : low[p] <= high[p]
    /\ gaps \subseteq Slots
    /\ pc \in {"idle", "capture", "read", "report", "done"}
    /\ mode \in {"all", "from", "replay"}
    /\ cursor \in 1..(Partitions + 1)
    /\ requested \in PerPart(Offsets) /\ start \in PerPart(Offsets) /\ end \in PerPart(Offsets)
    /\ position \in PerPart(Offsets)
    /\ remaining \subseteq Parts
    /\ records \in 0..(Partitions * (Top + 1))
    /\ warned \in BOOLEAN
    /\ counted \subseteq Slots
    /\ rc \in {"none", "0", "1", "2"}
    /\ sidecar.start \in PerPart(Offsets) /\ sidecar.end \in PerPart(Offsets)
    /\ sidecar.counted \subseteq Slots /\ sidecar.rc \in {"none", "0", "1"}
    /\ runs \in 0..MaxRuns

Zeros == [p \in Parts |-> 0]

Init ==
    /\ low = Zeros /\ high = Zeros /\ gaps = {}
    /\ pc = "idle"
    /\ mode = "all" /\ cursor = 1 /\ requested = Zeros /\ start = Zeros /\ end = Zeros
    /\ position = Zeros /\ remaining = {} /\ records = 0 /\ warned = FALSE /\ counted = {}
    /\ rc = "none"
    /\ sidecar = [start |-> Zeros, end |-> Zeros, counted |-> {}, rc |-> "none"]
    /\ runs = 0

-----------------------------------------------------------------------------
(* The topic. *)

Produce(p) ==
    /\ high[p] < Top
    /\ high' = [high EXCEPT ![p] = @ + 1]
    /\ gaps' \in {gaps} \cup {g \in {gaps \cup {<<p, high[p]>>}} : Cardinality(g) <= MaxGaps}
    /\ UNCHANGED <<low, pc, slice, reading, rc, sidecar, runs>>

\* Retention deletes whole records from the old end.
Expire(p) ==
    /\ low[p] < high[p]
    /\ low' = [low EXCEPT ![p] = @ + 1]
    /\ UNCHANGED <<high, gaps, pc, slice, reading, rc, sidecar, runs>>

Records(p, from) == {o \in from..(high[p] - 1) : <<p, o>> \notin gaps}

Oldest(offsets) == {o \in offsets : \A other \in offsets : o <= other}

\* The record the consumer may be handed next.  Where retention has passed its
\* position it goes on from the oldest record (auto.offset.reset: earliest),
\* unless the deleted ones had been fetched before.
Handed(p) ==
    UNION {Oldest(Records(p, from)) : from \in {position[p], Max({position[p], low[p]})}}

-----------------------------------------------------------------------------
(* main() and bounded_slice() *)

Begin ==
    /\ pc \in {"idle", "done"}
    /\ runs < MaxRuns
    /\ runs' = runs + 1
    /\ pc' = "capture"
    /\ mode' \in IF sidecar.rc = "none" THEN {"all", "from"} ELSE {"all", "from", "replay"}
    /\ rc' = "none"
    /\ UNCHANGED <<topic, cursor, requested, start, end, reading, sidecar>>

\* The process ends, and what it knew ends with it.
Exit(code) ==
    /\ pc' = "done"
    /\ rc' = code
    /\ mode' = "all" /\ cursor' = 1 /\ requested' = Zeros /\ start' = Zeros /\ end' = Zeros
    /\ position' = Zeros /\ remaining' = {} /\ records' = 0 /\ warned' = FALSE /\ counted' = {}

\* parser.error, or an offsets file that cannot be read.
BadArguments ==
    /\ pc = "capture" /\ cursor = 1
    /\ \E code \in {"1", "2"} : Exit(code)
    /\ UNCHANGED <<topic, sidecar, runs>>

\* Mutant: a replay reads up to the present end.
EndToPresent(p) == high[p]

\* The captured end of partition p.
EndOf(p) == IF mode = "replay" THEN sidecar.end[p] ELSE high[p]

Requests(p) ==
    CASE mode = "all" -> {low[p]}
      [] mode = "from" -> 0..high[p]
      [] mode = "replay" -> {sidecar.start[p]}

\* Mutant: a start that has aged out is replaced by the record after the oldest.
ClampPastOldest(asked, oldest) == IF asked < oldest THEN oldest + 1 ELSE asked

\* Kafka can only serve from the oldest surviving record.
Clamp(asked, oldest) == Max({asked, oldest})

\* Mutant: the request is clamped without saying so.
LostSilently(asked, oldest) == FALSE

Lost(asked, oldest) == mode # "all" /\ asked < oldest

\* One turn of the loop over the partitions.  Other partitions are written to
\* between two turns.
CaptureBounds ==
    /\ pc = "capture" /\ cursor \in Parts
    /\ \E asked \in Requests(cursor) :
         /\ requested' = [requested EXCEPT ![cursor] = asked]
         /\ start' = [start EXCEPT ![cursor] = Clamp(asked, low[cursor])]
         /\ warned' = (warned \/ Lost(asked, low[cursor]))
    /\ end' = [end EXCEPT ![cursor] = EndOf(cursor)]
    /\ cursor' = cursor + 1
    /\ UNCHANGED <<topic, pc, mode, position, remaining, records, counted, rc, sidecar, runs>>

\* consumer.assign, and the first line of consume().
Assign ==
    /\ pc = "capture" /\ cursor = Partitions + 1
    /\ pc' = "read"
    /\ position' = start
    /\ remaining' = {p \in Parts : end[p] > start[p]}
    /\ UNCHANGED <<topic, slice, records, warned, counted, rc, sidecar, runs>>

\* No broker, no topic, or a broker lost half way: no report.
TransportFails ==
    /\ pc \in {"capture", "read"}
    /\ pc = "read" => remaining # {}
    /\ Exit("2")
    /\ UNCHANGED <<topic, sidecar, runs>>

-----------------------------------------------------------------------------
(* consume(): one turn of its loop. *)

\* A partition read to its bound is paused; one that had nothing to read from
\* the start is not, and is skipped record by record.
Paused(p) == end[p] > start[p] /\ p \notin remaining

\* Mutant: the bound is tracked but not enforced per record.
InSliceByPartition(p, o) == p \in remaining

InSlice(p, o) == p \in remaining /\ o < end[p]

Last(p, o) == o >= end[p] - 1

Poll(p) ==
    /\ pc = "read" /\ remaining # {}
    /\ ~Paused(p)
    /\ \E o \in Handed(p) :
         /\ position' = [position EXCEPT ![p] = o + 1]
         /\ IF InSlice(p, o)
              THEN /\ records' = records + 1
                   /\ counted' = counted \cup {<<p, o>>}
                   /\ warned' \in {warned, TRUE}
                   /\ remaining' = IF Last(p, o) THEN remaining \ {p} ELSE remaining
              ELSE UNCHANGED <<records, counted, warned, remaining>>
    /\ UNCHANGED <<topic, pc, slice, rc, sidecar, runs>>

\* Mutant: a timeout ends the read like its bound does.
TimeoutWarningDropped == FALSE

TimeoutWarning == TRUE

\* Nothing was handed over within --timeout.
PollTimeout ==
    /\ pc = "read" /\ remaining # {}
    /\ warned' = (warned \/ TimeoutWarning)
    /\ pc' = "report"
    /\ UNCHANGED <<topic, slice, position, remaining, records, counted, rc, sidecar, runs>>

\* Mutant: the loop goes on until every partition runs dry.
ReadDonePausedToo == remaining = {} /\ \A p \in Parts : Handed(p) = {}

ReadDone == remaining = {}

EndRead ==
    /\ pc = "read" /\ ReadDone
    /\ pc' = "report"
    /\ UNCHANGED <<topic, slice, reading, rc, sidecar, runs>>

\* main(): summarise, write the sidecar, and the exit status.
Report ==
    /\ pc = "report"
    /\ Exit(IF warned THEN "1" ELSE "0")
    /\ sidecar' = [start |-> start, end |-> end, rc |-> rc',
                    counted |-> IF rc' = "0" THEN counted ELSE {}]
    /\ UNCHANGED <<topic, runs>>

Consume == (\E p \in Parts : Poll(p)) \/ EndRead
Run == BadArguments \/ CaptureBounds \/ Assign \/ TransportFails \/ PollTimeout \/ Consume \/ Report

Next ==
    \/ \E p \in Parts : Produce(p) \/ Expire(p)
    \/ Begin
    \/ Run

Spec == Init /\ [][Next]_vars

\* The process goes on: poll returns within its timeout.
FairSpec == Spec /\ WF_vars(Run)

-----------------------------------------------------------------------------
(* What a report may be read for. *)

\* The totals agree with the offsets the report prints: every record counted
\* lies within the bounds of its partition and is counted once, although a
\* partition "keeps receiving newly produced messages while its siblings are
\* still catching up" (consume).
CountsMatchBounds ==
    /\ records = Cardinality(counted)
    /\ \A p \in Parts, o \in Offsets : <<p, o>> \in counted => start[p] <= o /\ o < end[p]

\* A report without warnings, exit 0, says the slice is the one that was asked
\* for: no start was clamped, and every record of it that retention has spared
\* was counted.
CleanMeansAllKeptRecords ==
    pc = "report" /\ ~warned =>
        \A p \in Parts :
            /\ start[p] = requested[p]
            /\ \A o \in requested[p]..(end[p] - 1) :
                 o >= low[p] /\ <<p, o>> \notin gaps => <<p, o>> \in counted

\* A clean replay of a clean report counts no record that report did not, and
\* misses only what retention deleted in between (--replay).
ReplayCountsTheSame ==
    [][Report /\ mode = "replay" /\ rc' = "0" /\ sidecar.rc = "0" =>
          /\ counted \subseteq sidecar.counted
          /\ \A p \in Parts, o \in Offsets :
               <<p, o>> \in sidecar.counted /\ o >= low[p] => <<p, o>> \in counted]_vars

\* On a topic whose writers stop, a report ends.
ReportEnds == pc = "capture" ~> pc = "done"
=============================================================================
