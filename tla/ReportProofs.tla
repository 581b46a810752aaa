-------------------------- MODULE ReportProofs ----------------------------
(***************************************************************************)
(* The safety properties of the programs that report on what was captured: *)
(* KafkaReport and SampleReport (kafka_metrics_report.py) and WireLedger   *)
(* (analyse-pcap.py, reconcile-report.py).                                 *)
(*                                                                         *)
(* KafkaReport, for any number of partitions, offsets, gaps and reports:   *)
(* per partition the argument follows the consumer's position: what lies   *)
(* before it and was kept has been counted (Behind), and nothing at or     *)
(* after it has.  For --replay the same is kept of the sidecar (Kept).     *)
(* SampleReport, for any messages: what the samples say at any time is     *)
(* what the messages say (ReadInv).  WireLedger, for any fleet, run and    *)
(* number of faults: the rows of the capture are some of the datagrams     *)
(* sent, in their order (WireInv).                                         *)
(***************************************************************************)
EXTENDS KafkaReport, SampleReport, WireLedger, FiniteSetTheorems, WellFoundedInduction, TLAPS

\* TypeOK, the number of records apart.
Typed ==
    /\ low \in PerPart(Offsets) /\ high \in PerPart(Offsets)
    /\ \A p \in Parts : low[p] <= high[p]
    /\ gaps \subseteq Slots
    /\ pc \in {"idle", "capture", "read", "report", "done"}
    /\ mode \in {"all", "from", "replay"}
    /\ cursor \in 1..(Partitions + 1)
    /\ requested \in PerPart(Offsets) /\ start \in PerPart(Offsets) /\ end \in PerPart(Offsets)
    /\ position \in PerPart(Offsets)
    /\ remaining \subseteq Parts
    /\ warned \in BOOLEAN
    /\ counted \subseteq Slots
    /\ rc \in {"none", "0", "1", "2"}
    /\ sidecar.start \in PerPart(Offsets) /\ sidecar.end \in PerPart(Offsets)
    /\ sidecar.counted \subseteq Slots /\ sidecar.rc \in {"none", "0", "1"}
    /\ runs \in 0..MaxRuns

Count == IsFiniteSet(counted) /\ records = Cardinality(counted)

\* Between reports, and before the first record is read, nothing is counted.
Clear ==
    /\ pc \in {"idle", "done"} => cursor = 1
    /\ pc \in {"idle", "capture", "done"} => counted = {}
    /\ pc \in {"read", "report"} => cursor = Partitions + 1

\* What is counted exists, and lies in the slice.
InBounds ==
    /\ \A p \in Parts, o \in Offsets : <<p, o>> \in counted =>
         start[p] <= o /\ o < end[p] /\ o < high[p] /\ <<p, o>> \notin gaps
    /\ \A p \in Parts, o \in Offsets : <<p, o>> \in sidecar.counted =>
         /\ sidecar.start[p] <= o /\ o < sidecar.end[p]
         /\ o < high[p] /\ <<p, o>> \notin gaps

\* The captured partitions: the slice is the one asked for, or there is a warning.
Bounded ==
    \A p \in Parts : p < cursor =>
        /\ ~warned => start[p] = requested[p]
        /\ mode = "replay" => requested[p] = sidecar.start[p] /\ end[p] = sidecar.end[p]
        /\ mode = "replay" /\ sidecar.rc = "0" =>
             \A o \in Offsets : start[p] <= o /\ o < end[p] /\ <<p, o>> \notin gaps =>
                 <<p, o>> \in sidecar.counted

\* While it reads, what was kept before the position has been counted, and nothing after.
Behind ==
    pc = "read" => \A p \in Parts :
        /\ start[p] <= position[p]
        /\ p \notin remaining /\ start[p] < end[p] => end[p] <= position[p]
        /\ \A o \in Offsets : <<p, o>> \in counted => o < position[p]
        /\ ~warned => \A o \in Offsets :
             start[p] <= o /\ o < end[p] /\ o < position[p] /\ low[p] <= o /\ <<p, o>> \notin gaps =>
                 <<p, o>> \in counted

\* A clean reading has counted what was kept.
Clean ==
    pc = "report" /\ ~warned => \A p \in Parts, o \in Offsets :
        start[p] <= o /\ o < end[p] /\ low[p] <= o /\ <<p, o>> \notin gaps => <<p, o>> \in counted

\* So has the report of a clean sidecar.
Kept ==
    sidecar.rc = "0" => \A p \in Parts, o \in Offsets :
        sidecar.start[p] <= o /\ o < sidecar.end[p] /\ low[p] <= o /\ <<p, o>> \notin gaps =>
            <<p, o>> \in sidecar.counted

IInv == Typed /\ Count /\ Clear /\ InBounds /\ Bounded /\ Behind /\ Clean /\ Kept

-----------------------------------------------------------------------------
(* Lemmas. *)

\* The larger of two numbers.
LEMMA MaxOfTwo ==
    ASSUME NEW a \in Nat, NEW b \in Nat
    PROVE  Max({a, b}) \in {a, b} /\ a <= Max({a, b}) /\ b <= Max({a, b})
<1>1. \E x \in {a, b} : \A y \in {a, b} : x >= y
  <2>1. CASE a >= b BY <2>1
  <2>2. CASE b >= a BY <2>2
  <2> QED BY <2>1, <2>2
<1> QED BY <1>1 DEF Max

\* Offsets are natural numbers.
LEMMA OffsetsAreNat == Offsets \subseteq Nat /\ Top \in Nat /\ Partitions \in Nat /\ Parts \subseteq Nat
BY SizesAssumption DEF Offsets, Parts

\* The values of a partition are offsets.
LEMMA Marks ==
    ASSUME Typed, NEW p \in Parts
    PROVE  /\ low[p] \in Nat /\ high[p] \in Nat /\ low[p] <= high[p] /\ high[p] \in Offsets
           /\ start[p] \in Nat /\ end[p] \in Nat /\ position[p] \in Nat
           /\ requested[p] \in Nat
<1>1. /\ low[p] \in Offsets /\ high[p] \in Offsets /\ low[p] <= high[p]
      /\ start[p] \in Offsets /\ end[p] \in Offsets /\ position[p] \in Offsets
      /\ requested[p] \in Offsets
  BY DEF Typed, PerPart
<1> QED BY <1>1, OffsetsAreNat

\* The record that is handed over is there, and none before it is still kept.
LEMMA HandedIsNext ==
    ASSUME Typed, NEW p \in Parts, NEW o \in Handed(p)
    PROVE  /\ o \in Offsets /\ o + 1 \in Offsets
           /\ position[p] <= o /\ o < high[p] /\ <<p, o>> \notin gaps
           /\ \A q \in Offsets : position[p] <= q /\ q < o /\ low[p] <= q => <<p, q>> \in gaps
<1>1. position[p] \in Nat /\ low[p] \in Nat /\ high[p] \in Nat /\ high[p] \in Offsets
  BY Marks
<1>2. PICK from \in {position[p], Max({position[p], low[p]})} : o \in Oldest(Records(p, from))
  BY DEF Handed
<1>3. /\ from \in Nat /\ position[p] <= from
      /\ \A q \in Nat : position[p] <= q /\ low[p] <= q => from <= q
  <2>1. /\ Max({position[p], low[p]}) \in {position[p], low[p]}
        /\ position[p] <= Max({position[p], low[p]})
    BY <1>1, MaxOfTwo
  <2> QED BY <1>1, <1>2, <2>1
<1>4. o \in from..(high[p] - 1) /\ <<p, o>> \notin gaps
  BY <1>2 DEF Oldest, Records
<1>5. ASSUME NEW q \in Offsets, position[p] <= q, q < o, low[p] <= q, <<p, q>> \notin gaps
      PROVE  FALSE
  <2>1. q \in from..(high[p] - 1)
    BY <1>1, <1>3, <1>4, <1>5, OffsetsAreNat
  <2>2. q \in Records(p, from)
    BY <1>5, <2>1 DEF Records
  <2>3. o <= q
    BY <1>2, <2>2 DEF Oldest
  <2> QED BY <1>3, <1>4, <1>5, <2>3, OffsetsAreNat
<1>6. o \in Offsets /\ o + 1 \in Offsets /\ position[p] <= o /\ o < high[p]
  BY <1>1, <1>3, <1>4, SizesAssumption DEF Offsets
<1> QED BY <1>4, <1>5, <1>6

\* The topic only moves on: new gaps are made where nothing was written before.
LEMMA TopicMoves ==
    ASSUME Typed, Next
    PROVE  /\ low' \in PerPart(Offsets) /\ high' \in PerPart(Offsets) /\ gaps' \subseteq Slots
           /\ \A p \in Parts : low[p] <= low'[p] /\ high[p] <= high'[p] /\ low'[p] <= high'[p]
           /\ gaps \subseteq gaps'
           /\ \A p \in Parts, o \in Offsets : <<p, o>> \in gaps' => <<p, o>> \in gaps \/ high[p] <= o
<1>1. ASSUME NEW p \in Parts, Produce(p)
      PROVE  /\ low' \in PerPart(Offsets) /\ high' \in PerPart(Offsets) /\ gaps' \subseteq Slots
             /\ \A q \in Parts : low[q] <= low'[q] /\ high[q] <= high'[q] /\ low'[q] <= high'[q]
             /\ gaps \subseteq gaps'
             /\ \A q \in Parts, o \in Offsets : <<q, o>> \in gaps' => <<q, o>> \in gaps \/ high[q] <= o
  <2>1. /\ high[p] \in Offsets /\ high[p] < Top /\ low' = low
        /\ high' = [high EXCEPT ![p] = high[p] + 1]
        /\ gaps' = gaps \/ gaps' = gaps \cup {<<p, high[p]>>}
    BY <1>1 DEF Produce, Typed, PerPart
  <2>2. high[p] + 1 \in Offsets
    BY <2>1, SizesAssumption DEF Offsets
  <2>3. high' \in PerPart(Offsets) /\ \A q \in Parts : high'[q] = IF q = p THEN high[p] + 1 ELSE high[q]
    BY <2>1, <2>2 DEF Typed, PerPart
  <2>4. gaps' \subseteq Slots
    BY <2>1 DEF Typed, Slots
  <2>5. ASSUME NEW q \in Parts
        PROVE  low[q] \in Nat /\ high[q] \in Nat /\ low[q] <= high[q]
    BY OffsetsAreNat DEF Typed, PerPart
  <2>6. \A q \in Parts : low[q] <= low'[q] /\ high[q] <= high'[q] /\ low'[q] <= high'[q]
    BY <2>1, <2>3, <2>5
  <2>7. \A q \in Parts, o \in Offsets : <<q, o>> \in gaps' => <<q, o>> \in gaps \/ high[q] <= o
    BY <2>1, <2>5
  <2> QED BY <2>1, <2>3, <2>4, <2>6, <2>7 DEF Typed
<1>2. ASSUME NEW p \in Parts, Expire(p)
      PROVE  /\ low' \in PerPart(Offsets) /\ UNCHANGED <<high, gaps>>
             /\ \A q \in Parts : low[q] <= low'[q] /\ low'[q] <= high[q]
  <2>1. low[p] \in Offsets /\ high[p] \in Offsets /\ low[p] < high[p]
        /\ low' = [low EXCEPT ![p] = low[p] + 1] /\ UNCHANGED <<high, gaps>>
    BY <1>2 DEF Expire, Typed, PerPart
  <2>2. low[p] + 1 \in Offsets
    BY <2>1, SizesAssumption DEF Offsets
  <2>3. low' \in PerPart(Offsets) /\ \A q \in Parts : low'[q] = IF q = p THEN low[p] + 1 ELSE low[q]
    BY <2>1, <2>2 DEF Typed, PerPart
  <2>4. ASSUME NEW q \in Parts
        PROVE  low[q] \in Nat /\ high[q] \in Nat /\ low[q] <= high[q]
    BY OffsetsAreNat DEF Typed, PerPart
  <2> QED BY <2>1, <2>3, <2>4
<1>3. ASSUME UNCHANGED topic
      PROVE  /\ low' = low /\ high' = high /\ gaps' = gaps
             /\ \A q \in Parts : low[q] <= low[q] /\ high[q] <= high[q] /\ low[q] <= high[q]
  <2>1. \A q \in Parts : low[q] \in Nat /\ high[q] \in Nat /\ low[q] <= high[q]
    BY Marks
  <2> QED BY <1>3, <2>1 DEF topic
<1>4. \/ \E p \in Parts : Produce(p) \/ Expire(p)
      \/ UNCHANGED topic
  BY DEF Next, Run, Consume, Begin, BadArguments, CaptureBounds, Assign, TransportFails,
         PollTimeout, Poll, EndRead, Report
<1>5. CASE \E p \in Parts : Produce(p)
  BY <1>1, <1>5
<1>6. ASSUME NEW p \in Parts, Expire(p)
      PROVE  /\ high' \in PerPart(Offsets) /\ gaps' \subseteq Slots /\ gaps \subseteq gaps'
             /\ \A q \in Parts : high[q] <= high'[q]
             /\ low' \in PerPart(Offsets)
             /\ \A q \in Parts : low[q] <= low'[q] /\ low'[q] <= high'[q]
             /\ gaps' = gaps
  <2>1. \A q \in Parts : high[q] \in Nat
    BY Marks
  <2> QED BY <1>2, <1>6, <2>1 DEF Typed
<1>7. CASE \E p \in Parts : Expire(p)
  BY <1>2, <1>6, <1>7
<1>8. CASE UNCHANGED topic
  BY <1>3, <1>8 DEF Typed
<1> QED BY <1>4, <1>5, <1>7, <1>8

\* The slots are finitely many.
LEMMA SlotsFinite ==
    IsFiniteSet(Slots) /\ Cardinality(Slots) = Partitions * (Top + 1)
<1>1. IsFiniteSet(Parts) /\ Cardinality(Parts) = Partitions
  BY FS_Interval, SizesAssumption DEF Parts
<1>2. IsFiniteSet(Offsets) /\ Cardinality(Offsets) = Top + 1
  BY FS_Interval, SizesAssumption DEF Offsets
<1> QED BY <1>1, <1>2, FS_Product DEF Slots

\* What one turn of the loop of consume() does.
LEMMA PollCases ==
    ASSUME Typed, NEW p \in Parts, Poll(p)
    PROVE  \E o \in Handed(p) :
             /\ position' = [position EXCEPT ![p] = o + 1]
             /\ pc = "read" /\ ~Paused(p) /\ UNCHANGED <<topic, pc, slice, rc, sidecar, runs>>
             /\ \/ /\ InSlice(p, o)
                   /\ records' = records + 1 /\ counted' = counted \cup {<<p, o>>}
                   /\ warned' = warned \/ warned' = TRUE
                   /\ remaining' = remaining \/ (remaining' = remaining \ {p} /\ Last(p, o))
                \/ /\ ~InSlice(p, o)
                   /\ UNCHANGED <<records, counted, warned, remaining>>
<1>1. pc = "read" /\ ~Paused(p) /\ UNCHANGED <<topic, pc, slice, rc, sidecar, runs>>
  BY DEF Poll
<1>2. PICK o \in Handed(p) :
         /\ position' = [position EXCEPT ![p] = o + 1]
         /\ IF InSlice(p, o)
              THEN /\ records' = records + 1
                   /\ counted' = counted \cup {<<p, o>>}
                   /\ warned' \in {warned, TRUE}
                   /\ remaining' = IF Last(p, o) THEN remaining \ {p} ELSE remaining
              ELSE UNCHANGED <<records, counted, warned, remaining>>
  BY DEF Poll
<1>3. CASE InSlice(p, o)
  <2>1. /\ records' = records + 1 /\ counted' = counted \cup {<<p, o>>}
        /\ warned' = warned \/ warned' = TRUE
        /\ remaining' = remaining \/ (remaining' = remaining \ {p} /\ Last(p, o))
    BY <1>2, <1>3
  <2> QED BY <1>1, <1>2, <1>3, <2>1
<1>4. CASE ~InSlice(p, o)
  <2>1. UNCHANGED <<records, counted, warned, remaining>>
    BY <1>2, <1>4
  <2> QED BY <1>1, <1>2, <1>4, <2>1
<1> QED BY <1>3, <1>4

\* The captured start is an offset.
LEMMA ClampTyped ==
    ASSUME NEW a \in Offsets, NEW b \in Offsets
    PROVE  Clamp(a, b) \in Offsets /\ a <= Clamp(a, b) /\ b <= Clamp(a, b)
           /\ (b <= a => Clamp(a, b) = a)
<1>1. a \in Nat /\ b \in Nat
  BY OffsetsAreNat
<1> QED BY <1>1, MaxOfTwo DEF Clamp

\* What one turn of the loop over the partitions does.
LEMMA CaptureCases ==
    ASSUME Typed, CaptureBounds
    PROVE  \E asked \in Offsets :
             /\ pc = "capture" /\ pc' = "capture" /\ cursor \in Parts /\ cursor' = cursor + 1
             /\ requested' = [requested EXCEPT ![cursor] = asked]
             /\ start' = [start EXCEPT ![cursor] = Clamp(asked, low[cursor])]
             /\ end' = [end EXCEPT ![cursor] = EndOf(cursor)]
             /\ Clamp(asked, low[cursor]) \in Offsets /\ EndOf(cursor) \in Offsets
             /\ warned' \in BOOLEAN /\ (warned => warned')
             /\ ~warned' => Clamp(asked, low[cursor]) = asked
             /\ mode = "replay" => asked = sidecar.start[cursor]
             /\ UNCHANGED <<topic, mode, position, remaining, records, counted, rc, sidecar, runs>>
<1>1. cursor \in Parts /\ low[cursor] \in Offsets /\ high[cursor] \in Offsets
  BY DEF CaptureBounds, Typed, PerPart
<1>2. PICK asked \in Requests(cursor) :
         /\ requested' = [requested EXCEPT ![cursor] = asked]
         /\ start' = [start EXCEPT ![cursor] = Clamp(asked, low[cursor])]
         /\ warned' = (warned \/ Lost(asked, low[cursor]))
  BY DEF CaptureBounds
<1>3. sidecar.start[cursor] \in Offsets /\ sidecar.end[cursor] \in Offsets
  BY <1>1 DEF Typed, PerPart
<1>4. /\ asked \in Offsets
      /\ mode = "replay" => asked = sidecar.start[cursor]
      /\ mode = "all" => asked = low[cursor]
  <2>1. CASE mode = "all" BY <1>1, <1>2, <2>1 DEF Requests
  <2>2. CASE mode = "replay" BY <1>2, <1>3, <2>2 DEF Requests
  <2>3. CASE mode = "from"
    <3>1. asked \in 0..high[cursor]
      BY <1>2, <2>3 DEF Requests
    <3> QED BY <1>1, <2>3, <3>1, SizesAssumption DEF Offsets
  <2> QED BY <2>1, <2>2, <2>3 DEF Typed
<1>5. warned' \in BOOLEAN /\ (warned => warned') /\ (~warned' => ~Lost(asked, low[cursor]))
  BY <1>2, Zenon DEF Typed
<1>6. asked \in Nat /\ low[cursor] \in Nat
  BY <1>1, <1>4, OffsetsAreNat
<1>7. ~warned' => Clamp(asked, low[cursor]) = asked
  <2>1. mode = "all" => low[cursor] <= asked
    BY <1>4, <1>6
  <2>2. ~Lost(asked, low[cursor]) => low[cursor] <= asked
    BY <1>6, <2>1 DEF Lost
  <2> QED BY <1>1, <1>4, <1>5, <2>2, ClampTyped
<1>8. EndOf(cursor) \in Offsets
  BY <1>1, <1>3 DEF EndOf
<1> QED BY <1>1, <1>2, <1>4, <1>5, <1>7, <1>8, ClampTyped DEF CaptureBounds

-----------------------------------------------------------------------------
(* The type invariant. *)

\* A report's end leaves nothing of it.
LEMMA ExitTyped ==
    ASSUME NEW code \in {"0", "1", "2"}, Exit(code)
    PROVE  /\ pc' = "done" /\ mode' = "all" /\ cursor' = 1 /\ remaining' = {} /\ records' = 0
           /\ warned' = FALSE /\ counted' = {} /\ rc' = code
           /\ requested' \in PerPart(Offsets) /\ start' \in PerPart(Offsets)
           /\ end' \in PerPart(Offsets) /\ position' \in PerPart(Offsets)
BY SizesAssumption DEF Exit, Zeros, PerPart, Offsets

LEMMA TypedStep ==
    ASSUME Typed, Next
    PROVE  Typed'
<1>1. /\ low' \in PerPart(Offsets) /\ high' \in PerPart(Offsets) /\ gaps' \subseteq Slots
      /\ \A p \in Parts : low'[p] <= high'[p]
  BY TopicMoves
<1>2. Partitions \in Nat /\ Parts = 1..Partitions /\ 1 \in 1..(Partitions + 1)
  BY SizesAssumption DEF Parts
<1> USE <1>1 DEF slice, reading
<1>3. CASE \E p \in Parts : Produce(p) \/ Expire(p)
  BY <1>3 DEF Typed, Produce, Expire
<1>4. CASE Begin
  <2>1. runs' \in 0..MaxRuns
    BY <1>4, SizesAssumption DEF Typed, Begin
  <2> QED BY <1>4, <2>1 DEF Typed, Begin
<1>5. CASE BadArguments
  <2>1. UNCHANGED <<sidecar, runs>> /\ \E code \in {"0", "1", "2"} : Exit(code)
    BY <1>5 DEF BadArguments
  <2> QED BY <1>2, <2>1, ExitTyped DEF Typed
<1>6. CASE CaptureBounds
  <2>1. PICK asked \in Offsets :
             /\ pc = "capture" /\ pc' = "capture" /\ cursor \in Parts /\ cursor' = cursor + 1
             /\ requested' = [requested EXCEPT ![cursor] = asked]
             /\ start' = [start EXCEPT ![cursor] = Clamp(asked, low[cursor])]
             /\ end' = [end EXCEPT ![cursor] = EndOf(cursor)]
             /\ Clamp(asked, low[cursor]) \in Offsets /\ EndOf(cursor) \in Offsets
             /\ warned' \in BOOLEAN
             /\ UNCHANGED <<topic, mode, position, remaining, records, counted, rc, sidecar, runs>>
    BY <1>6, CaptureCases
  <2>2. requested' \in PerPart(Offsets) /\ start' \in PerPart(Offsets) /\ end' \in PerPart(Offsets)
    BY <2>1 DEF Typed, PerPart
  <2>3. cursor' \in 1..(Partitions + 1)
    BY <1>2, <2>1
  <2> QED BY <2>1, <2>2, <2>3 DEF Typed
<1>7. CASE Assign BY <1>7 DEF Typed, Assign
<1>8. CASE TransportFails
  <2>1. UNCHANGED <<sidecar, runs>> /\ Exit("2")
    BY <1>8 DEF TransportFails
  <2> QED BY <1>2, <2>1, ExitTyped DEF Typed
<1>9. CASE PollTimeout
  <2>1. warned' \in BOOLEAN
    BY <1>9, Zenon DEF PollTimeout, TimeoutWarning
  <2> QED BY <1>9, <2>1 DEF Typed, PollTimeout
<1>10. ASSUME NEW p \in Parts, Poll(p) PROVE Typed'
  <2>1. PICK o \in Handed(p) :
          /\ position' = [position EXCEPT ![p] = o + 1]
          /\ pc = "read" /\ UNCHANGED <<topic, pc, slice, rc, sidecar, runs>>
          /\ \/ counted' = counted \cup {<<p, o>>} \/ counted' = counted
          /\ warned' = warned \/ warned' = TRUE
          /\ remaining' = remaining \/ remaining' = remaining \ {p}
    BY <1>10, PollCases
  <2>2. o \in Offsets /\ o + 1 \in Offsets
    BY HandedIsNext
  <2>3. position' \in PerPart(Offsets)
    BY <2>1, <2>2 DEF Typed, PerPart
  <2>4. counted' \subseteq Slots
    BY <2>1, <2>2 DEF Typed, Slots
  <2> QED BY <2>1, <2>3, <2>4 DEF Typed
<1>11. CASE EndRead BY <1>11 DEF Typed, EndRead
<1>12. CASE Report
  <2>1. /\ runs' = runs
        /\ sidecar' = [start |-> start, end |-> end, rc |-> rc',
                       counted |-> IF rc' = "0" THEN counted ELSE {}]
        /\ Exit(IF warned THEN "1" ELSE "0")
    BY <1>12 DEF Report
  <2>2. (IF warned THEN "1" ELSE "0") \in {"0", "1"}
    OBVIOUS
  <2>3. rc' \in {"0", "1"}
    BY <2>1, <2>2 DEF Exit
  <2>4. /\ sidecar'.start \in PerPart(Offsets) /\ sidecar'.end \in PerPart(Offsets)
        /\ sidecar'.counted \subseteq Slots /\ sidecar'.rc \in {"none", "0", "1"}
    BY <2>1, <2>3 DEF Typed
  <2> QED BY <1>2, <2>1, <2>2, <2>3, <2>4, ExitTyped DEF Typed
<1> QED BY <1>3, <1>4, <1>5, <1>6, <1>7, <1>8, <1>9, <1>10, <1>11, <1>12 DEF Next, Run, Consume

-----------------------------------------------------------------------------
(* What is counted. *)

\* Between reports, and before the first record is read, nothing is counted.
LEMMA ClearStep ==
    ASSUME Typed, Clear, Next
    PROVE  Clear'
<1> USE DEF Clear, slice, reading
<1>3. CASE \E p \in Parts : Produce(p) \/ Expire(p) BY <1>3 DEF Produce, Expire
<1>4. CASE Begin BY <1>4 DEF Begin
<1>5. CASE BadArguments BY <1>5 DEF BadArguments, Exit
<1>6. CASE CaptureBounds BY <1>6 DEF CaptureBounds
<1>7. CASE Assign BY <1>7 DEF Assign
<1>8. CASE TransportFails BY <1>8 DEF TransportFails, Exit
<1>9. CASE PollTimeout BY <1>9 DEF PollTimeout
<1>10. CASE \E p \in Parts : Poll(p) BY <1>10 DEF Poll
<1>11. CASE EndRead BY <1>11 DEF EndRead
<1>12. CASE Report BY <1>12 DEF Report, Exit
<1> QED BY <1>3, <1>4, <1>5, <1>6, <1>7, <1>8, <1>9, <1>10, <1>11, <1>12 DEF Next, Run, Consume

\* A record is counted once, since it lies at or after the position and what was counted
\* before it.
LEMMA CountStep ==
    ASSUME Typed, Count, Behind, Next
    PROVE  Count'
<1> USE FS_EmptySet DEF Count, slice, reading
<1>3. CASE \E p \in Parts : Produce(p) \/ Expire(p) BY <1>3 DEF Produce, Expire
<1>4. CASE Begin BY <1>4 DEF Begin
<1>5. CASE BadArguments BY <1>5 DEF BadArguments, Exit
<1>6. CASE CaptureBounds BY <1>6 DEF CaptureBounds
<1>7. CASE Assign BY <1>7 DEF Assign
<1>8. CASE TransportFails BY <1>8 DEF TransportFails, Exit
<1>9. CASE PollTimeout BY <1>9 DEF PollTimeout
<1>10. ASSUME NEW p \in Parts, Poll(p) PROVE Count'
  <2>1. PICK o \in Handed(p) :
          /\ pc = "read"
          /\ \/ records' = records + 1 /\ counted' = counted \cup {<<p, o>>}
             \/ UNCHANGED <<records, counted>>
    BY <1>10, PollCases
  <2>2. o \in Offsets /\ position[p] <= o /\ o \in Nat /\ position[p] \in Nat
    BY HandedIsNext, Marks, OffsetsAreNat
  <2>3. <<p, o>> \notin counted
    <3>1. <<p, o>> \in counted => o < position[p]
      BY <2>1, <2>2 DEF Behind
    <3> QED BY <2>2, <3>1
  <2>4. IsFiniteSet(counted \cup {<<p, o>>})
        /\ Cardinality(counted \cup {<<p, o>>}) = Cardinality(counted) + 1
    BY <2>3, FS_AddElement
  <2>5. CASE records' = records + 1 /\ counted' = counted \cup {<<p, o>>}
    BY <2>4, <2>5
  <2>6. CASE UNCHANGED <<records, counted>>
    BY <2>6
  <2> QED BY <2>1, <2>5, <2>6
<1>11. CASE EndRead BY <1>11 DEF EndRead
<1>12. CASE Report BY <1>12 DEF Report, Exit
<1> QED BY <1>3, <1>4, <1>5, <1>6, <1>7, <1>8, <1>9, <1>10, <1>11, <1>12 DEF Next, Run, Consume

\* What is counted, and what the sidecar counted, was there and lies in its slice.
LEMMA InBoundsStep ==
    ASSUME Typed, Clear, InBounds, Behind, Next
    PROVE  InBounds'
<1>1. /\ \A p \in Parts : high[p] \in Nat /\ high[p] <= high'[p]
      /\ \A p \in Parts : high'[p] \in Nat
      /\ \A p \in Parts, o \in Offsets : <<p, o>> \in gaps' => <<p, o>> \in gaps \/ high[p] <= o
      /\ Offsets \subseteq Nat
  <2>1. \A p \in Parts : high'[p] \in Offsets
    BY TopicMoves DEF PerPart
  <2> QED BY <2>1, Marks, TopicMoves, OffsetsAreNat
<1>2. ASSUME NEW p \in Parts, NEW o \in Offsets, o < high[p], <<p, o>> \notin gaps
      PROVE  o < high'[p] /\ <<p, o>> \notin gaps'
  BY <1>1, <1>2
<1>a. ASSUME UNCHANGED <<start, end, counted, sidecar>> PROVE InBounds'
  BY <1>2, <1>a DEF InBounds
<1>b. ASSUME counted' = {}, UNCHANGED sidecar PROVE InBounds'
  BY <1>2, <1>b DEF InBounds
<1> USE DEF slice, reading
<1>3. CASE \E p \in Parts : Produce(p) \/ Expire(p) BY <1>3, <1>a DEF Produce, Expire
<1>4. CASE Begin BY <1>4, <1>a DEF Begin
<1>5. CASE BadArguments BY <1>5, <1>b DEF BadArguments, Exit
<1>6. CASE CaptureBounds BY <1>6, <1>b DEF CaptureBounds, Clear
<1>7. CASE Assign BY <1>7, <1>a DEF Assign
<1>8. CASE TransportFails BY <1>8, <1>b DEF TransportFails, Exit
<1>9. CASE PollTimeout BY <1>9, <1>a DEF PollTimeout
<1>10. ASSUME NEW p \in Parts, Poll(p) PROVE InBounds'
  <2>1. PICK o \in Handed(p) :
          /\ pc = "read" /\ UNCHANGED <<topic, slice, sidecar>>
          /\ \/ InSlice(p, o) /\ counted' = counted \cup {<<p, o>>}
             \/ UNCHANGED counted
    BY <1>10, PollCases
  <2>2. o \in Offsets /\ position[p] <= o /\ o < high[p] /\ <<p, o>> \notin gaps
        /\ o \in Nat /\ position[p] \in Nat /\ start[p] \in Nat
    BY HandedIsNext, Marks, OffsetsAreNat
  <2>3. CASE UNCHANGED counted
    BY <1>a, <2>1, <2>3
  <2>4. CASE InSlice(p, o) /\ counted' = counted \cup {<<p, o>>}
    <3>1. start[p] <= o /\ o < end[p]
      BY <2>1, <2>2, <2>4 DEF Behind, InSlice
    <3> QED BY <2>1, <2>2, <2>4, <3>1 DEF InBounds, topic
  <2> QED BY <2>1, <2>3, <2>4
<1>11. CASE EndRead BY <1>11, <1>a DEF EndRead
<1>12. CASE Report
  <2>1. /\ counted' = {} /\ UNCHANGED topic
        /\ sidecar' = [start |-> start, end |-> end, rc |-> rc',
                       counted |-> IF rc' = "0" THEN counted ELSE {}]
    BY <1>12 DEF Report, Exit
  <2>2. sidecar'.start = start /\ sidecar'.end = end /\ sidecar'.counted \subseteq counted
    BY <2>1
  <2> QED BY <2>1, <2>2 DEF InBounds, topic
<1> QED BY <1>3, <1>4, <1>5, <1>6, <1>7, <1>8, <1>9, <1>10, <1>11, <1>12 DEF Next, Run, Consume

-----------------------------------------------------------------------------
(* What a clean report has counted. *)

\* What is kept after a step was kept before it.
LEMMA KeptBefore ==
    ASSUME Typed, Next, NEW p \in Parts, NEW o \in Offsets
    PROVE  /\ low'[p] <= o => low[p] <= o
           /\ <<p, o>> \notin gaps' => <<p, o>> \notin gaps
<1>1. low[p] \in Nat /\ low'[p] \in Nat /\ o \in Nat /\ low[p] <= low'[p]
  <2>1. low'[p] \in Offsets
    BY TopicMoves DEF PerPart
  <2> QED BY <2>1, Marks, TopicMoves, OffsetsAreNat
<1> QED BY <1>1, TopicMoves

\* A replay's slice holds nothing that a clean sidecar's report did not count.
LEMMA CapturedStep ==
    ASSUME Typed, Clear, Bounded, Kept, Next
    PROVE  Bounded'
<1>1. ASSUME UNCHANGED <<start, end, requested, mode, cursor, sidecar>>, warned => warned'
      PROVE  Bounded'
  BY <1>1, KeptBefore DEF Bounded
<1>2. ASSUME cursor' = 1 PROVE Bounded'
  BY <1>2, OffsetsAreNat DEF Bounded, Parts
<1> USE DEF slice, reading
<1>3. CASE \E p \in Parts : Produce(p) \/ Expire(p) BY <1>3, <1>1 DEF Produce, Expire
<1>4. CASE Begin BY <1>4, <1>2 DEF Begin, Clear
<1>5. CASE BadArguments BY <1>5, <1>2 DEF BadArguments, Exit
<1>6. CASE CaptureBounds
  <2>1. PICK asked \in Offsets :
             /\ pc = "capture" /\ cursor \in Parts /\ cursor' = cursor + 1
             /\ requested' = [requested EXCEPT ![cursor] = asked]
             /\ start' = [start EXCEPT ![cursor] = Clamp(asked, low[cursor])]
             /\ end' = [end EXCEPT ![cursor] = EndOf(cursor)]
             /\ (warned => warned')
             /\ ~warned' => Clamp(asked, low[cursor]) = asked
             /\ mode = "replay" => asked = sidecar.start[cursor]
             /\ UNCHANGED <<topic, mode, sidecar>>
    BY <1>6, CaptureCases
  <2>2. /\ \A p \in Parts : requested'[p] = IF p = cursor THEN asked ELSE requested[p]
        /\ \A p \in Parts : start'[p] = IF p = cursor THEN Clamp(asked, low[cursor]) ELSE start[p]
        /\ \A p \in Parts : end'[p] = IF p = cursor THEN EndOf(cursor) ELSE end[p]
    BY <2>1 DEF Typed, PerPart
  <2>3. \A p \in Parts : p < cursor' => p = cursor \/ p < cursor
    BY <2>1, OffsetsAreNat
  <2>4. low[cursor] \in Offsets /\ low[cursor] \in Nat /\ asked \in Nat
    BY <2>1, OffsetsAreNat DEF Typed, PerPart
  <2>5. /\ Clamp(asked, low[cursor]) \in Nat
        /\ asked <= Clamp(asked, low[cursor]) /\ low[cursor] <= Clamp(asked, low[cursor])
    BY <2>4, ClampTyped, OffsetsAreNat
  <2>6. mode = "replay" => EndOf(cursor) = sidecar.end[cursor]
    BY DEF EndOf
  <2>7. ASSUME mode = "replay", sidecar.rc = "0", NEW o \in Offsets,
               Clamp(asked, low[cursor]) <= o, o < sidecar.end[cursor], <<cursor, o>> \notin gaps
        PROVE  <<cursor, o>> \in sidecar.counted
    <3>0. o \in Nat /\ asked = sidecar.start[cursor]
      BY <2>1, <2>7, OffsetsAreNat
    <3>1. sidecar.start[cursor] <= o /\ low[cursor] <= o
      <4>1. asked <= o /\ low[cursor] <= o
        BY <2>4, <2>5, <2>7, <3>0
      <4> QED BY <3>0, <4>1
    <3> QED BY <2>1, <2>7, <3>0, <3>1 DEF Kept
  <2>8. ASSUME NEW p \in Parts, p = cursor
        PROVE  /\ ~warned' => start'[p] = requested'[p]
               /\ mode' = "replay" => requested'[p] = sidecar'.start[p] /\ end'[p] = sidecar'.end[p]
               /\ mode' = "replay" /\ sidecar'.rc = "0" =>
                    \A o \in Offsets : start'[p] <= o /\ o < end'[p] /\ <<p, o>> \notin gaps' =>
                        <<p, o>> \in sidecar'.counted
    BY <2>1, <2>2, <2>6, <2>7, <2>8 DEF topic
  <2>9. ASSUME NEW p \in Parts, p < cursor, p # cursor
        PROVE  /\ ~warned' => start'[p] = requested'[p]
               /\ mode' = "replay" => requested'[p] = sidecar'.start[p] /\ end'[p] = sidecar'.end[p]
               /\ mode' = "replay" /\ sidecar'.rc = "0" =>
                    \A o \in Offsets : start'[p] <= o /\ o < end'[p] /\ <<p, o>> \notin gaps' =>
                        <<p, o>> \in sidecar'.counted
    BY <2>1, <2>2, <2>9 DEF Bounded, topic
  <2> QED BY <2>3, <2>8, <2>9 DEF Bounded
<1>7. CASE Assign BY <1>7, <1>1 DEF Assign
<1>8. CASE TransportFails BY <1>8, <1>2 DEF TransportFails, Exit
<1>9. CASE PollTimeout BY <1>9, <1>1 DEF PollTimeout
<1>10. ASSUME NEW p \in Parts, Poll(p) PROVE Bounded'
  <2>1. UNCHANGED <<slice, sidecar>> /\ (warned => warned')
    BY <1>10, PollCases
  <2> QED BY <1>1, <2>1
<1>11. CASE EndRead BY <1>11, <1>1 DEF EndRead
<1>12. CASE Report BY <1>12, <1>2 DEF Report, Exit
<1> QED BY <1>3, <1>4, <1>5, <1>6, <1>7, <1>8, <1>9, <1>10, <1>11, <1>12 DEF Next, Run, Consume

\* The next record leaves nothing kept behind it that is not counted.
LEMMA BehindStep ==
    ASSUME Typed, Clear, Behind, Next
    PROVE  Behind'
<1>1. ASSUME pc' # "read" PROVE Behind'
  BY <1>1 DEF Behind
<1> USE DEF slice, reading
<1>3. CASE \E p \in Parts : Produce(p) \/ Expire(p)
  <2>1. UNCHANGED <<pc, slice, reading>>
    BY <1>3 DEF Produce, Expire
  <2> QED BY <2>1, KeptBefore DEF Behind
<1>4. CASE Begin BY <1>4, <1>1 DEF Begin
<1>5. CASE BadArguments BY <1>5, <1>1 DEF BadArguments, Exit
<1>6. CASE CaptureBounds BY <1>6, <1>1 DEF CaptureBounds
<1>7. CASE Assign
  <2>1. /\ position' = start /\ remaining' = {p \in Parts : end[p] > start[p]} /\ counted' = {}
        /\ UNCHANGED <<start, end>>
    BY <1>7 DEF Assign, Clear
  <2>2. ASSUME NEW p \in Parts
        PROVE  /\ start'[p] <= position'[p]
               /\ p \notin remaining' /\ start'[p] < end'[p] => end'[p] <= position'[p]
               /\ \A o \in Offsets : ~(start'[p] <= o /\ o < position'[p])
    BY <2>1, Marks, OffsetsAreNat
  <2> QED BY <2>1, <2>2 DEF Behind
<1>8. CASE TransportFails BY <1>8, <1>1 DEF TransportFails, Exit
<1>9. CASE PollTimeout BY <1>9, <1>1 DEF PollTimeout
<1>10. ASSUME NEW p \in Parts, Poll(p) PROVE Behind'
  <2>1. PICK o \in Handed(p) :
             /\ position' = [position EXCEPT ![p] = o + 1]
             /\ pc = "read" /\ ~Paused(p) /\ UNCHANGED <<topic, pc, slice>>
             /\ \/ /\ InSlice(p, o)
                   /\ counted' = counted \cup {<<p, o>>}
                   /\ warned' = warned \/ warned' = TRUE
                   /\ remaining' = remaining \/ (remaining' = remaining \ {p} /\ Last(p, o))
                \/ /\ ~InSlice(p, o)
                   /\ UNCHANGED <<counted, warned, remaining>>
    BY <1>10, PollCases
  <2>2. /\ o \in Nat /\ o \in Offsets /\ position[p] <= o /\ <<p, o>> \notin gaps
        /\ \A q \in Offsets : position[p] <= q /\ q < o /\ low[p] <= q => <<p, q>> \in gaps
        /\ start[p] \in Nat /\ end[p] \in Nat /\ position[p] \in Nat /\ low[p] \in Nat
    BY HandedIsNext, Marks, OffsetsAreNat
  <2>3. \A q \in Parts : position'[q] = IF q = p THEN o + 1 ELSE position[q]
    BY <2>1 DEF Typed, PerPart
  <2>4. /\ warned => warned'
        /\ \A q \in Parts : q # p => (q \in remaining <=> q \in remaining')
        /\ \A q \in Parts, f \in Offsets : q # p => (<<q, f>> \in counted <=> <<q, f>> \in counted')
        /\ counted \subseteq counted'
    BY <2>1
  <2>5. ASSUME NEW q \in Parts, q # p
        PROVE  /\ start'[q] <= position'[q]
               /\ q \notin remaining' /\ start'[q] < end'[q] => end'[q] <= position'[q]
               /\ \A f \in Offsets : <<q, f>> \in counted' => f < position'[q]
               /\ ~warned' => \A f \in Offsets :
                    start'[q] <= f /\ f < end'[q] /\ f < position'[q] /\ low'[q] <= f
                      /\ <<q, f>> \notin gaps' => <<q, f>> \in counted'
    BY <2>1, <2>3, <2>4, <2>5 DEF Behind, topic
  <2>6. start[p] <= position[p] /\ start'[p] <= position'[p] /\ position'[p] = o + 1
    BY <2>1, <2>2, <2>3 DEF Behind
  <2>7. p \notin remaining' /\ start[p] < end[p] => end[p] <= o + 1
    <3>1. CASE p \in remaining
      <4>1. p \notin remaining' => Last(p, o)
        BY <2>1, <3>1
      <4>2. Last(p, o) => end[p] <= o + 1
        BY <2>2 DEF Last
      <4> QED BY <4>1, <4>2
    <3>2. CASE p \notin remaining
      BY <2>1, <2>2, <3>2 DEF Behind
    <3> QED BY <3>1, <3>2
  <2>8. \A f \in Offsets : <<p, f>> \in counted' => f < o + 1
    <3>1. \A f \in Offsets : <<p, f>> \in counted => f < position[p]
      BY <2>1 DEF Behind
    <3>2. \A f \in Offsets : <<p, f>> \in counted' => <<p, f>> \in counted \/ f = o
      BY <2>1
    <3> QED BY <2>2, <3>1, <3>2, OffsetsAreNat
  <2>9. ASSUME ~warned', NEW f \in Offsets, start[p] <= f, f < end[p], f < o + 1, low[p] <= f,
               <<p, f>> \notin gaps
        PROVE  <<p, f>> \in counted'
    <3>1. f \in Nat
      BY OffsetsAreNat
    <3>2. CASE f < position[p]
      <4>1. <<p, f>> \in counted
        BY <2>1, <2>4, <2>9, <3>2 DEF Behind
      <4> QED BY <2>4, <4>1
    <3>3. CASE position[p] <= f
      <4>1. f = o
        BY <2>2, <2>9, <3>1, <3>3
      <4>2. p \in remaining
        BY <2>1, <2>2, <2>9, <3>1 DEF Paused
      <4>3. InSlice(p, o)
        BY <2>9, <4>1, <4>2 DEF InSlice
      <4> QED BY <2>1, <4>1, <4>3
    <3> QED BY <2>2, <3>1, <3>2, <3>3
  <2>10. ASSUME NEW q \in Parts, q = p
         PROVE  /\ start'[q] <= position'[q]
                /\ q \notin remaining' /\ start'[q] < end'[q] => end'[q] <= position'[q]
                /\ \A f \in Offsets : <<q, f>> \in counted' => f < position'[q]
                /\ ~warned' => \A f \in Offsets :
                     start'[q] <= f /\ f < end'[q] /\ f < position'[q] /\ low'[q] <= f
                       /\ <<q, f>> \notin gaps' => <<q, f>> \in counted'
    BY <2>1, <2>6, <2>7, <2>8, <2>9, <2>10 DEF topic
  <2> QED BY <2>5, <2>10 DEF Behind
<1>11. CASE EndRead BY <1>11, <1>1 DEF EndRead
<1>12. CASE Report BY <1>12, <1>1 DEF Report, Exit
<1> QED BY <1>3, <1>4, <1>5, <1>6, <1>7, <1>8, <1>9, <1>10, <1>11, <1>12 DEF Next, Run, Consume

\* A reading without a warning ends when every position has reached its end.
LEMMA CleanStep ==
    ASSUME Typed, Behind, Clean, Next
    PROVE  Clean'
<1>1. ASSUME pc' # "report" \/ warned' PROVE Clean'
  BY <1>1 DEF Clean
<1> USE DEF slice, reading
<1>3. CASE \E p \in Parts : Produce(p) \/ Expire(p)
  <2>1. UNCHANGED <<pc, slice, reading>>
    BY <1>3 DEF Produce, Expire
  <2> QED BY <2>1, KeptBefore DEF Clean
<1>4. CASE Begin BY <1>4, <1>1 DEF Begin
<1>5. CASE BadArguments BY <1>5, <1>1 DEF BadArguments, Exit
<1>6. CASE CaptureBounds BY <1>6, <1>1 DEF CaptureBounds
<1>7. CASE Assign BY <1>7, <1>1 DEF Assign
<1>8. CASE TransportFails BY <1>8, <1>1 DEF TransportFails, Exit
<1>9. CASE PollTimeout
  <2>1. warned'
    BY <1>9, Zenon DEF PollTimeout, TimeoutWarning
  <2> QED BY <1>1, <2>1
<1>10. CASE \E p \in Parts : Poll(p) BY <1>10, <1>1 DEF Poll
<1>11. CASE EndRead
  <2>1. pc = "read" /\ remaining = {} /\ UNCHANGED <<topic, slice, reading>>
    BY <1>11 DEF EndRead, ReadDone
  <2>2. ASSUME ~warned, NEW p \in Parts, NEW o \in Offsets, start[p] <= o, o < end[p],
               low[p] <= o, <<p, o>> \notin gaps
        PROVE  <<p, o>> \in counted
    <3>1. start[p] \in Nat /\ end[p] \in Nat /\ position[p] \in Nat /\ o \in Nat
      BY Marks, OffsetsAreNat
    <3>2. o < position[p]
      BY <2>1, <2>2, <3>1 DEF Behind
    <3> QED BY <2>1, <2>2, <3>2 DEF Behind
  <2> QED BY <2>1, <2>2 DEF Clean, topic
<1>12. CASE Report BY <1>12, <1>1 DEF Report, Exit
<1> QED BY <1>3, <1>4, <1>5, <1>6, <1>7, <1>8, <1>9, <1>10, <1>11, <1>12 DEF Next, Run, Consume

\* A clean report writes what it counted beside its bounds.
LEMMA KeptStep ==
    ASSUME Typed, Clean, Kept, Next
    PROVE  Kept'
<1>1. ASSUME UNCHANGED sidecar PROVE Kept'
  BY <1>1, KeptBefore DEF Kept
<1>2. CASE Report
  <2>1. /\ pc = "report" /\ UNCHANGED topic
        /\ rc' = (IF warned THEN "1" ELSE "0")
        /\ sidecar' = [start |-> start, end |-> end, rc |-> rc',
                       counted |-> IF rc' = "0" THEN counted ELSE {}]
    BY <1>2 DEF Report, Exit
  <2>2. /\ sidecar'.start = start /\ sidecar'.end = end
        /\ sidecar'.rc = "0" => ~warned /\ sidecar'.counted = counted
    BY <2>1
  <2> QED BY <2>1, <2>2 DEF Kept, Clean, topic
<1>3. UNCHANGED sidecar \/ Report
  BY DEF Next, Run, Consume, Produce, Expire, Begin, BadArguments, CaptureBounds, Assign,
         TransportFails, PollTimeout, Poll, EndRead
<1> QED BY <1>1, <1>2, <1>3

-----------------------------------------------------------------------------
(* The theorems. *)

\* IInv holds initially.
LEMMA InitIInv == Init => IInv
<1> SUFFICES ASSUME Init PROVE IInv
  OBVIOUS
<1>1. Zeros \in PerPart(Offsets) /\ 1 \in 1..(Partitions + 1) /\ 0 \in 0..MaxRuns
      /\ \A p \in Parts : Zeros[p] = 0
  BY SizesAssumption DEF Zeros, PerPart, Offsets
<1>2. /\ sidecar.start = Zeros /\ sidecar.end = Zeros /\ sidecar.counted = {} /\ sidecar.rc = "none"
      /\ counted = {} /\ cursor = 1 /\ pc = "idle" /\ records = 0 /\ remaining = {}
      /\ low = Zeros /\ high = Zeros /\ gaps = {} /\ warned = FALSE
  BY DEF Init
<1>3. Typed
  <2>1. low \in PerPart(Offsets) /\ high \in PerPart(Offsets)
    BY <1>1, <1>2
  <2>2. \A p \in Parts : low[p] <= high[p]
    BY <1>1, <1>2
  <2>3. /\ requested \in PerPart(Offsets) /\ start \in PerPart(Offsets) /\ end \in PerPart(Offsets)
        /\ position \in PerPart(Offsets)
    BY <1>1 DEF Init
  <2>4. sidecar.start \in PerPart(Offsets) /\ sidecar.end \in PerPart(Offsets)
    BY <1>1, <1>2
  <2>5. /\ mode \in {"all", "from", "replay"} /\ rc \in {"none", "0", "1", "2"} /\ runs \in 0..MaxRuns
        /\ cursor \in 1..(Partitions + 1)
    BY <1>1, <1>2 DEF Init
  <2>6. /\ gaps \subseteq Slots /\ remaining \subseteq Parts /\ warned \in BOOLEAN
        /\ counted \subseteq Slots /\ sidecar.counted \subseteq Slots
        /\ pc \in {"idle", "capture", "read", "report", "done"}
        /\ sidecar.rc \in {"none", "0", "1"}
    BY <1>2
  <2> QED BY <2>1, <2>2, <2>3, <2>4, <2>5, <2>6 DEF Typed
<1>4. Count
  BY <1>2, FS_EmptySet DEF Count
<1>5. Bounded
  BY <1>2, OffsetsAreNat DEF Bounded, Parts
<1>6. Clear /\ InBounds /\ Behind /\ Clean /\ Kept
  BY <1>2 DEF Clear, InBounds, Behind, Clean, Kept
<1> QED BY <1>3, <1>4, <1>5, <1>6 DEF IInv

\* Every step keeps IInv.
LEMMA StepIInv == IInv /\ [Next]_vars => IInv'
<1> SUFFICES ASSUME IInv, [Next]_vars PROVE IInv'
  OBVIOUS
<1>1. CASE Next
  BY <1>1, TypedStep, CountStep, ClearStep, InBoundsStep, CapturedStep, BehindStep, CleanStep,
     KeptStep DEF IInv
<1>2. CASE UNCHANGED vars
  <2>1. UNCHANGED <<low, high, gaps, pc, mode, cursor, requested, start, end, position, remaining,
                    records, warned, counted, rc, sidecar, runs>>
    BY <1>2 DEF vars, topic, slice, reading
  <2> QED BY <2>1 DEF IInv, Typed, Count, Clear, InBounds, Bounded, Behind, Clean, Kept
<1> QED BY <1>1, <1>2

\* The inductive invariant holds in every behaviour: what lies behind the consumer's
\* position, and what the sidecar says of the report that wrote it.
THEOREM Invariance == Spec => []IInv
<1> QED BY InitIInv, StepIInv, PTL DEF Spec

\* Type correctness of the report and of the topic.
THEOREM TypeCorrect == Spec => []TypeOK
<1>1. ASSUME IInv PROVE TypeOK
  <2>1. Typed /\ counted \subseteq Slots /\ records = Cardinality(counted)
    BY <1>1 DEF IInv, Typed, Count
  <2>2. IsFiniteSet(counted) /\ Cardinality(counted) <= Partitions * (Top + 1)
    BY <2>1, SlotsFinite, FS_Subset
  <2>3. Cardinality(counted) \in Nat
    BY <2>2, FS_CardinalityType
  <2>4. Partitions * (Top + 1) \in Nat
    BY SizesAssumption
  <2>5. records \in 0..(Partitions * (Top + 1))
    BY <2>1, <2>2, <2>3, <2>4
  <2> QED BY <2>1, <2>5 DEF Typed, TypeOK
<1> QED BY Invariance, <1>1, PTL

\* The totals of a report agree with the offsets it prints: every record counted lies
\* within the bounds of its partition and is counted once, for any number of partitions,
\* however much is written and deleted meanwhile.
THEOREM CountsHold == Spec => []CountsMatchBounds
<1>1. IInv => CountsMatchBounds
  BY DEF IInv, Count, InBounds, CountsMatchBounds
<1> QED BY Invariance, <1>1, PTL

\* A report without warnings counted every record of the slice that was asked for and that
\* retention has spared.
THEOREM CleanHolds == Spec => []CleanMeansAllKeptRecords
<1>1. ASSUME IInv PROVE CleanMeansAllKeptRecords
  <2> SUFFICES ASSUME pc = "report", ~warned, NEW p \in Parts
               PROVE  /\ start[p] = requested[p]
                      /\ \A o \in requested[p]..(end[p] - 1) :
                           o >= low[p] /\ <<p, o>> \notin gaps => <<p, o>> \in counted
    BY DEF CleanMeansAllKeptRecords
  <2>1. p < cursor
    BY <1>1, SizesAssumption DEF IInv, Clear, Parts
  <2>2. start[p] = requested[p]
    BY <1>1, <2>1 DEF IInv, Bounded
  <2>3. ASSUME NEW o \in requested[p]..(end[p] - 1), o >= low[p], <<p, o>> \notin gaps
        PROVE  <<p, o>> \in counted
    <3>1. end[p] \in Offsets
      BY <1>1 DEF IInv, Typed, PerPart
    <3>2. requested[p] \in Nat /\ end[p] \in Nat /\ low[p] \in Nat
      BY <1>1, Marks DEF IInv
    <3>3. o \in Offsets /\ start[p] <= o /\ o < end[p] /\ low[p] <= o
      BY <2>2, <2>3, <3>1, <3>2, SizesAssumption DEF Offsets
    <3> QED BY <1>1, <2>3, <3>3 DEF IInv, Clean
  <2> QED BY <2>2, <2>3
<1> QED BY Invariance, <1>1, PTL

\* A clean replay of a clean report counts no record that report did not, and misses only
\* what retention deleted in between.
THEOREM ReplayHolds == Spec => ReplayCountsTheSame
<1>1. ASSUME IInv, Report, mode = "replay", rc' = "0", sidecar.rc = "0"
      PROVE  /\ counted \subseteq sidecar.counted
             /\ \A p \in Parts, o \in Offsets :
                  <<p, o>> \in sidecar.counted /\ o >= low[p] => <<p, o>> \in counted
  <2>1. pc = "report" /\ ~warned
    BY <1>1 DEF Report, Exit
  <2>2. \A p \in Parts : p < cursor
    BY <1>1, <2>1, SizesAssumption DEF IInv, Clear, Parts
  <2>3. ASSUME NEW p \in Parts, NEW o \in Offsets, <<p, o>> \in counted
        PROVE  <<p, o>> \in sidecar.counted
    <3>1. start[p] <= o /\ o < end[p] /\ <<p, o>> \notin gaps
      BY <1>1, <2>3 DEF IInv, InBounds
    <3> QED BY <1>1, <2>2, <3>1 DEF IInv, Bounded
  <2>4. counted \subseteq sidecar.counted
    BY <1>1, <2>3 DEF IInv, Typed, Slots
  <2>5. ASSUME NEW p \in Parts, NEW o \in Offsets, <<p, o>> \in sidecar.counted, o >= low[p]
        PROVE  <<p, o>> \in counted
    <3>1. start[p] = sidecar.start[p] /\ end[p] = sidecar.end[p]
      BY <1>1, <2>1, <2>2 DEF IInv, Bounded
    <3>2. sidecar.start[p] <= o /\ o < sidecar.end[p] /\ <<p, o>> \notin gaps
      BY <1>1, <2>5 DEF IInv, InBounds
    <3>3. low[p] <= o
      <4>1. low[p] \in Nat /\ o \in Nat
        BY <1>1, Marks, OffsetsAreNat DEF IInv
      <4> QED BY <2>5, <4>1
    <3> QED BY <1>1, <2>1, <3>1, <3>2, <3>3 DEF IInv, Clean
  <2> QED BY <2>4, <2>5
<1> QED BY Invariance, <1>1, PTL DEF Spec, ReplayCountsTheSame
-----------------------------------------------------------------------------
(* SampleReport, which reads the records one by one.  A row of the report     *)
(* keeps no trace of its record, so the invariant compares sums: at           *)
(* whatever set of times, the rows hold what the records there hold           *)
(* (SameSums).  A timeline asks for the times of one bucket, the total for    *)
(* all times.                                                                 *)

\* A set of numbers that is not empty has a least one.
LEMMA Least ==
    ASSUME NEW T \in SUBSET Nat, T # {}
    PROVE  \E n \in T : \A m \in T : n <= m
<1>1. IsWellFoundedOn(OpToRel(<, Nat), Nat)
  BY NatLessThanWellFounded
<1>2. PICK x \in T : \A y \in T : ~(<<y, x>> \in OpToRel(<, Nat))
  BY <1>1, WFMin
<1>3. \A y \in T : ~(y < x)
  BY <1>2 DEF OpToRel
<1> QED BY <1>3

\* What sum holds the partial sums of the first n entries of f at the positions in S.
Partial(sum, f, S, n) ==
    /\ sum \in [0..n -> Nat] /\ sum[0] = 0
    /\ \A i \in 1..n : sum[i] = sum[i - 1] + (IF i \in S THEN f[i] ELSE 0)

\* The recursion of SumOver has a solution, its partial sums.
LEMMA SumDef ==
    ASSUME NEW n \in Nat, NEW f \in [1..n -> Nat], NEW S
    PROVE  \E sum : Partial(sum, f, S, n) /\ SumOver(f, S) = sum[n]
<1> DEFINE G(k, g) == g = [i \in 0..k |-> IF i = 0 THEN 0 ELSE g[i - 1] + (IF i \in S THEN f[i] ELSE 0)]
           Ok(k) == \E g : G(k, g) /\ Partial(g, f, S, k)
           Bad == {k \in Nat : k <= n /\ ~Ok(k)}
<1>1. Bad = {}
  <2> SUFFICES ASSUME Bad # {} PROVE FALSE
    OBVIOUS
  <2>1. PICK k \in Bad : \A m \in Bad : k <= m
    BY Least
  <2>2. CASE k = 0
    <3> DEFINE z == [i \in 0..0 |-> 0]
    <3>1. G(0, z) /\ Partial(z, f, S, 0)
      BY DEF Partial
    <3> QED BY <2>1, <2>2, <3>1
  <2>3. CASE k # 0
    <3>1. k \in 1..n /\ k - 1 \in 0..n /\ Ok(k - 1)
      <4> HIDE DEF Ok
      <4> QED BY <2>1, <2>3
    <3>2. PICK g : G(k - 1, g) /\ Partial(g, f, S, k - 1)
      BY <3>1
    <3>a. g \in [0..(k - 1) -> Nat] /\ f \in [1..n -> Nat]
      BY <3>2 DEF Partial
    <3> DEFINE h == [i \in 0..k |-> IF i <= k - 1 THEN g[i] ELSE g[k - 1] + (IF k \in S THEN f[k] ELSE 0)]
    <3>3. ASSUME NEW i \in 0..k
          PROVE  h[i] = (IF i = 0 THEN 0 ELSE h[i - 1] + (IF i \in S THEN f[i] ELSE 0)) /\ h[i] \in Nat
      <4>1. CASE i = 0
        BY <3>1, <3>2, <4>1 DEF Partial
      <4>2. CASE i # 0 /\ i # k
        <5>1. i \in 1..(k - 1) /\ i \in 0..(k - 1) /\ i - 1 \in 0..(k - 1)
          BY <3>1, <4>2
        <5>2. g[i] = g[i - 1] + (IF i \in S THEN f[i] ELSE 0) /\ g[i] \in Nat
          BY <3>2, <5>1 DEF Partial
        <5> QED BY <3>1, <4>2, <5>1, <5>2
      <4>3. CASE i = k
        <5>1. g[k - 1] \in Nat /\ f[k] \in Nat /\ k - 1 \in 0..k /\ k \in 0..k /\ k # 0
          BY <3>1, <3>a
        <5>2. h[k] = g[k - 1] + (IF k \in S THEN f[k] ELSE 0) /\ h[k - 1] = g[k - 1]
          BY <3>1, <5>1
        <5> HIDE DEF h
        <5> QED BY <4>3, <5>1, <5>2
      <4> QED BY <4>1, <4>2, <4>3
    <3>4. G(k, h)
      BY <3>3
    <3>5. Partial(h, f, S, k)
      <4> HIDE DEF h
      <4>1. DOMAIN h = 0..k /\ h = [i \in 0..k |-> h[i]]
        BY <3>4
      <4>2. h \in [0..k -> Nat]
        BY <3>3, <4>1
      <4>3. 0 \in 0..k /\ \A i \in 1..k : i \in 0..k /\ i # 0
        BY <3>1
      <4> QED BY <3>3, <4>2, <4>3 DEF Partial
    <3> HIDE DEF h
    <3> QED BY <2>1, <3>4, <3>5
  <2> QED BY <2>2, <2>3
<1>2. Len(f) = n
  OBVIOUS
<1> DEFINE s == CHOOSE g : G(n, g)
<1>3. Ok(n)
  <2> HIDE DEF Ok
  <2> QED BY <1>1
<1>4. G(n, s)
  <2> HIDE DEF G
  <2> QED BY <1>3
<1>5. SumOver(f, S) = s[n]
  BY <1>2 DEF SumOver
<1>6. Partial(s, f, S, n)
  <2> HIDE DEF s
  <2>1. s[0] = 0 /\ \A i \in 1..n : s[i] = s[i - 1] + (IF i \in S THEN f[i] ELSE 0)
    BY <1>4
  <2>2. \A i \in 0..n : s[i] \in Nat
    <3> DEFINE Off == {i \in Nat : i <= n /\ s[i] \notin Nat}
    <3> SUFFICES ASSUME Off # {} PROVE FALSE
      OBVIOUS
    <3>1. PICK i \in Off : \A j \in Off : i <= j
      BY Least
    <3>2. i # 0 /\ i \in 1..n /\ i - 1 \in 0..n
      BY <2>1, <3>1
    <3>3. s[i - 1] \in Nat
      BY <3>1, <3>2
    <3>4. s[i] = s[i - 1] + (IF i \in S THEN f[i] ELSE 0) /\ f[i] \in Nat
      BY <2>1, <3>2
    <3> QED BY <3>1, <3>3, <3>4
  <2>3. DOMAIN s = 0..n
    BY <1>4
  <2>4. s \in [0..n -> Nat]
    BY <1>4, <2>2
  <2> QED BY <2>1, <2>4 DEF Partial
<1> QED BY <1>5, <1>6

\* A sum over a sequence that goes on with one more entry.
LEMMA SumStep ==
    ASSUME NEW n \in Nat, NEW f \in [1..n -> Nat], NEW g \in [1..(n + 1) -> Nat], NEW S, NEW T,
           \A i \in 1..n : (IF i \in S THEN f[i] ELSE 0) = (IF i \in T THEN g[i] ELSE 0)
    PROVE  SumOver(g, T) = SumOver(f, S) + (IF n + 1 \in T THEN g[n + 1] ELSE 0)
<1>1. PICK s : Partial(s, f, S, n) /\ SumOver(f, S) = s[n]
  BY SumDef
<1>2. PICK t : Partial(t, g, T, n + 1) /\ SumOver(g, T) = t[n + 1]
  BY SumDef
<1> DEFINE Off == {i \in Nat : i <= n /\ s[i] # t[i]}
<1>3. Off = {}
  <2> SUFFICES ASSUME Off # {} PROVE FALSE
    OBVIOUS
  <2>1. PICK i \in Off : \A j \in Off : i <= j
    BY Least
  <2>2. i # 0 /\ i \in 1..n /\ i - 1 \in 0..n
    BY <1>1, <1>2, <2>1 DEF Partial
  <2>3. s[i - 1] = t[i - 1]
    <3>1. i \in Nat /\ i - 1 \in Nat /\ i - 1 <= n /\ ~(i <= i - 1)
      BY <2>2
    <3> QED BY <2>1, <3>1
  <2>4. s[i] = s[i - 1] + (IF i \in S THEN f[i] ELSE 0)
    BY <1>1, <2>2 DEF Partial
  <2>5. t[i] = t[i - 1] + (IF i \in T THEN g[i] ELSE 0)
    BY <1>2, <2>2 DEF Partial
  <2> QED BY <2>1, <2>2, <2>3, <2>4, <2>5
<1>4. s[n] = t[n] /\ n + 1 \in 1..(n + 1)
  BY <1>3
<1> QED BY <1>1, <1>2, <1>4 DEF Partial

\* A sum is a number, and depends on the entries at its positions only.
LEMMA SumSame ==
    ASSUME NEW n \in Nat, NEW f \in [1..n -> Nat], NEW S, NEW T,
           \A i \in 1..n : i \in S <=> i \in T
    PROVE  SumOver(f, S) = SumOver(f, T) /\ SumOver(f, S) \in Nat
<1>1. PICK s : Partial(s, f, S, n) /\ SumOver(f, S) = s[n]
  BY SumDef
<1>2. PICK t : Partial(t, f, T, n) /\ SumOver(f, T) = t[n]
  BY SumDef
<1> DEFINE Off == {i \in Nat : i <= n /\ s[i] # t[i]}
<1>3. Off = {}
  <2> SUFFICES ASSUME Off # {} PROVE FALSE
    OBVIOUS
  <2>1. PICK i \in Off : \A j \in Off : i <= j
    BY Least
  <2>2. i # 0 /\ i \in 1..n /\ i - 1 \in 0..n
    BY <1>1, <1>2, <2>1 DEF Partial
  <2>3. s[i - 1] = t[i - 1]
    <3>1. i \in Nat /\ i - 1 \in Nat /\ i - 1 <= n /\ ~(i <= i - 1)
      BY <2>2
    <3> QED BY <2>1, <3>1
  <2>4. s[i] = s[i - 1] + (IF i \in S THEN f[i] ELSE 0)
    BY <1>1, <2>2 DEF Partial
  <2>5. t[i] = t[i - 1] + (IF i \in T THEN f[i] ELSE 0)
    BY <1>2, <2>2 DEF Partial
  <2> QED BY <2>1, <2>2, <2>3, <2>4, <2>5
<1>4. s[n] = t[n]
  BY <1>3
<1>5. n \in 0..n /\ s[n] \in Nat
  BY <1>1 DEF Partial
<1> QED BY <1>1, <1>2, <1>4, <1>5

\* A sum of numbers is 0 when all of them are.
LEMMA SumZero ==
    ASSUME NEW n \in Nat, NEW f \in [1..n -> Nat], NEW S
    PROVE  SumOver(f, S) > 0 <=> \E i \in 1..n : i \in S /\ f[i] > 0
<1>1. PICK s : Partial(s, f, S, n) /\ SumOver(f, S) = s[n]
  BY SumDef
<1> DEFINE Good(m) == s[m] > 0 <=> \E i \in 1..m : i \in S /\ f[i] > 0
           Off == {m \in Nat : m <= n /\ ~Good(m)}
<1>2. Off = {}
  <2> SUFFICES ASSUME Off # {} PROVE FALSE
    OBVIOUS
  <2>1. PICK m \in Off : \A j \in Off : m <= j
    BY Least
  <2>2. m # 0 /\ m \in 1..n /\ m - 1 \in 0..n
    BY <1>1, <2>1 DEF Partial
  <2>3. Good(m - 1)
    BY <2>1, <2>2
  <2>4. s[m] = s[m - 1] + (IF m \in S THEN f[m] ELSE 0) /\ s[m - 1] \in Nat /\ f[m] \in Nat
    BY <1>1, <2>2 DEF Partial
  <2>5. (\E i \in 1..m : i \in S /\ f[i] > 0)
          <=> (\E i \in 1..(m - 1) : i \in S /\ f[i] > 0) \/ (m \in S /\ f[m] > 0)
    BY <2>2
  <2> QED BY <2>1, <2>3, <2>4, <2>5
<1>3. Good(n)
  BY <1>2
<1> QED BY <1>1, <1>3

\* A finite set of numbers that is not empty has a largest and a smallest.
LEMMA Extremes ==
    ASSUME NEW S \in SUBSET Nat, IsFiniteSet(S), S # {}
    PROVE  /\ Max(S) \in S /\ \A x \in S : x <= Max(S)
           /\ Min(S) \in S /\ \A x \in S : Min(S) <= x
<1>1. \E x \in S : \A y \in S : x <= y
  BY Least
<1>2. \E x \in S : \A y \in S : x >= y
  <2> DEFINE rank == [x \in S |-> Cardinality({y \in S : y > x})]
             Ranks == {rank[x] : x \in S}
  <2>1. \A x \in S : IsFiniteSet({y \in S : y > x}) /\ rank[x] \in Nat
    <3> TAKE x \in S
    <3>1. {y \in S : y > x} \in SUBSET S
      OBVIOUS
    <3> QED BY <3>1, FS_Subset, FS_CardinalityType
  <2>2. Ranks \in SUBSET Nat /\ Ranks # {}
    <3> HIDE DEF rank
    <3> QED BY <2>1
  <2>3. PICK r \in Ranks : \A q \in Ranks : r <= q
    BY <2>2, Least
  <2>4. PICK x \in S : r = rank[x]
    BY <2>3
  <2>5. ASSUME NEW z \in S, z > x PROVE FALSE
    <3> DEFINE X == {y \in S : y > x}
               Z == {y \in S : y > z}
    <3>1. IsFiniteSet(X) /\ Z \in SUBSET X /\ z \in X /\ z \notin Z
      BY <2>1, <2>4, <2>5
    <3>2. Cardinality(Z) <= Cardinality(X) /\ Cardinality(X) # Cardinality(Z)
      BY <3>1, FS_Subset
    <3>3. rank[x] = Cardinality(X) /\ rank[z] = Cardinality(Z) /\ rank[x] \in Nat /\ rank[z] \in Nat
      BY <2>1, <2>4, <2>5
    <3>4. rank[x] <= rank[z]
      BY <2>3, <2>4, <2>5
    <3> HIDE DEF X, Z, rank
    <3> QED BY <3>2, <3>3, <3>4
  <2> QED BY <2>4, <2>5
<1> QED BY <1>1, <1>2 DEF Max, Min

\* Ascending lists a finite set, each element once and in order.
LEMMA AscendingLists ==
    ASSUME NEW S \in SUBSET Nat, IsFiniteSet(S)
    PROVE  /\ Cardinality(S) \in Nat /\ DOMAIN Ascending(S) = 1..Cardinality(S)
           /\ \A i \in 1..Cardinality(S) : Ascending(S)[i] \in S
           /\ \A i \in 1..Cardinality(S) : Cardinality({l \in S : l < Ascending(S)[i]}) = i - 1
           /\ \A i \in 2..Cardinality(S) : Ascending(S)[i] > Ascending(S)[i - 1]
           /\ \A k \in S : \E i \in 1..Cardinality(S) : Ascending(S)[i] = k
<1> DEFINE Less(k) == {l \in S : l < k}
           rank == [k \in S |-> Cardinality(Less(k))]
           c == Cardinality(S)
           at == Ascending(S)
<1>1. c \in Nat
  BY FS_CardinalityType
<1>2. ASSUME NEW k \in S
      PROVE  IsFiniteSet(Less(k)) /\ rank[k] \in 0..(c - 1)
  <2>1. Less(k) \in SUBSET S /\ k \notin Less(k)
    OBVIOUS
  <2>2. IsFiniteSet(Less(k)) /\ Cardinality(Less(k)) <= c /\ Cardinality(Less(k)) # c
    BY <2>1, FS_Subset
  <2>3. Cardinality(Less(k)) \in Nat
    BY <2>2, FS_CardinalityType
  <2> HIDE DEF c, Less
  <2> QED BY <1>1, <2>2, <2>3
<1>3. ASSUME NEW k \in S, NEW l \in S, k < l
      PROVE  rank[k] < rank[l]
  <2>1. Less(k) \in SUBSET Less(l) /\ k \in Less(l) /\ k \notin Less(k)
    <3>1. k \in Nat /\ l \in Nat /\ \A j \in S : j \in Nat
      OBVIOUS
    <3>2. \A j \in S : j < k => j < l
      BY <1>3, <3>1
    <3>3. ~(k < k)
      BY <3>1
    <3> QED BY <1>3, <3>2, <3>3
  <2>2. Cardinality(Less(k)) <= Cardinality(Less(l)) /\ Cardinality(Less(l)) # Cardinality(Less(k))
    BY <1>2, <2>1, FS_Subset
  <2>3. rank[k] = Cardinality(Less(k)) /\ rank[l] = Cardinality(Less(l)) /\ rank[k] \in Nat /\ rank[l] \in Nat
    BY <1>1, <1>2
  <2> HIDE DEF rank, Less
  <2> QED BY <2>2, <2>3
<1>4. rank \in Injection(S, 0..(c - 1))
  <2>1. rank \in [S -> 0..(c - 1)]
    BY <1>2
  <2>2. \A k, l \in S : rank[k] = rank[l] => k = l
    <3> TAKE k, l \in S
    <3>1. k \in Nat /\ l \in Nat /\ rank[k] \in Nat /\ rank[l] \in Nat
      BY <1>1, <1>2
    <3> HIDE DEF rank
    <3> QED BY <1>3, <3>1
  <2> HIDE DEF rank
  <2> QED BY <2>1, <2>2 DEF Injection, IsInjective
<1>5. rank \in Surjection(S, 0..(c - 1))
  <2>1. IsFiniteSet(0..(c - 1)) /\ Cardinality(0..(c - 1)) = c
    <3>1. c - 1 \in Int /\ 0 \in Int
      BY <1>1
    <3>2. IsFiniteSet(0..(c - 1)) /\ Cardinality(0..(c - 1)) = IF 0 > c - 1 THEN 0 ELSE (c - 1) - 0 + 1
      BY <3>1, FS_Interval
    <3> HIDE DEF c
    <3> QED BY <1>1, <3>2
  <2> HIDE DEF rank
  <2> QED BY <1>4, <2>1, FS_Injection
<1>6. ASSUME NEW i \in 1..c
      PROVE  at[i] \in S /\ rank[at[i]] = i - 1
  <2>1. i - 1 \in 0..(c - 1)
    BY <1>1
  <2>2. \E k \in S : rank[k] = i - 1
    <3> HIDE DEF rank
    <3> QED BY <1>5, <2>1 DEF Surjection
  <2>3. \E k \in S : Cardinality(Less(k)) = i - 1
    BY <2>2
  <2>4. at[i] = CHOOSE k \in S : Cardinality(Less(k)) = i - 1
    BY DEF Ascending
  <2>5. at[i] \in S /\ Cardinality(Less(at[i])) = i - 1
    <3> HIDE DEF at
    <3> QED BY <2>3, <2>4
  <2> QED BY <2>5
<1>7. DOMAIN at = 1..c
  BY DEF Ascending
<1>8. ASSUME NEW i \in 2..c
      PROVE  at[i] > at[i - 1]
  <2>1. i \in 1..c /\ i - 1 \in 1..c /\ i \in Nat
    BY <1>1
  <2>2. at[i] \in S /\ at[i - 1] \in S /\ rank[at[i]] = i - 1 /\ rank[at[i - 1]] = i - 2
    BY <1>6, <2>1
  <2> HIDE DEF at, rank
  <2>3. at[i] \in Nat /\ at[i - 1] \in Nat
    BY <2>2
  <2>4. at[i] # at[i - 1] /\ ~(at[i] < at[i - 1])
    <3>1. i - 1 # i - 2 /\ ~(i - 1 < i - 2)
      BY <2>1
    <3>2. ~(at[i] < at[i - 1])
      <4> SUFFICES ASSUME at[i] < at[i - 1] PROVE FALSE
        OBVIOUS
      <4>1. rank[at[i]] < rank[at[i - 1]]
        BY <1>3, <2>2
      <4> QED BY <2>2, <3>1, <4>1
    <3> QED BY <2>2, <3>1, <3>2
  <2> QED BY <2>3, <2>4
<1>9. ASSUME NEW k \in S
      PROVE  \E i \in 1..c : at[i] = k
  <2>1. rank[k] + 1 \in 1..c /\ rank[k] \in 0..(c - 1)
    BY <1>1, <1>2
  <2>2. at[rank[k] + 1] \in S /\ rank[at[rank[k] + 1]] = rank[k]
    BY <1>6, <2>1
  <2> HIDE DEF at, rank
  <2>3. at[rank[k] + 1] = k
    BY <1>4, <2>2 DEF Injection, IsInjective
  <2> QED BY <2>1, <2>3
<1>11. \A i \in 1..c : Cardinality({l \in S : l < at[i]}) = i - 1
  <2> TAKE i \in 1..c
  <2>1. at[i] \in S /\ rank[at[i]] = i - 1
    BY <1>6
  <2> HIDE DEF at
  <2> QED BY <2>1
<1> HIDE DEF c, at
<1>10. \A i \in 1..c : at[i] \in S
  BY <1>6
<1> QED BY <1>1, <1>7, <1>8, <1>9, <1>10, <1>11 DEF c, at

Row == [collection : Nat \ {0}, accepted : Nat, count : Nat]
Logged == read \in Seq(Messages) /\ samples \in Seq(Row)

\* At whatever set of times, the rows hold the samples of the records that can be placed.
SameSums ==
    \A clock \in Clocks : \A T \in SUBSET Nat :
        CountOf({i \in DOMAIN samples : samples[i][clock] \in T}) = SamplesOf({j \in Placed : read[j][clock] \in T})

\* The rows have the times of these records.
SameTimes ==
    \A clock \in Clocks :
        /\ \A i \in DOMAIN samples : \E j \in Placed : samples[i][clock] = read[j][clock]
        /\ \A j \in Placed : \E i \in DOMAIN samples : samples[i][clock] = read[j][clock]

\* The nodes are those these records were collected from.
SeenNodes ==
    /\ \A n \in nodes : \E i \in Placed : \E r \in Resources(read[i]) : Collected(r) /\ r.node = n
    /\ \A i \in Placed : \A r \in Resources(read[i]) :
         /\ Collected(r) => r.node \in nodes
         /\ r.shape = "unset" => errors # {}

\* Without a warning, no record was left out that has samples.
NothingLeftOut == errors = {} => WithSamples \subseteq Placed /\ \A i \in DOMAIN read : read[i].decodes

ReadInv == Logged /\ SameSums /\ SameTimes /\ SeenNodes /\ NothingLeftOut

\* What a message is.
LEMMA MessageType ==
    ASSUME NEW m \in Messages
    PROVE  /\ m.decodes \in BOOLEAN /\ m.collection \in Nat /\ m.accepted \in Nat \cup {NoTime}
           /\ \A r \in Resources(m) : r \in [shape: Shapes, node: Nat, numeric: Nat]
           /\ Numeric(m) \in Nat
           /\ Numeric(m) > 0 <=> \E r \in Resources(m) : r.numeric > 0
<1> DEFINE s == m.resource
           f == [i \in DOMAIN s |-> s[i].numeric]
<1>1. /\ m.decodes \in BOOLEAN /\ m.collection \in Nat /\ m.accepted \in Nat \cup {NoTime}
      /\ s \in Seq([shape: Shapes, node: Nat, numeric: Nat])
  BY ReportAssumption
<1>2. /\ Len(s) \in Nat /\ DOMAIN s = 1..Len(s)
      /\ \A i \in 1..Len(s) : s[i] \in [shape: Shapes, node: Nat, numeric: Nat]
  <2> HIDE DEF s
  <2> DEFINE R == [shape: Shapes, node: Nat, numeric: Nat]
  <2>1. s \in Seq(R)
    BY <1>1
  <2> HIDE DEF R
  <2>2. Len(s) \in Nat /\ DOMAIN s = 1..Len(s) /\ \A i \in 1..Len(s) : s[i] \in R
    BY <2>1
  <2> QED BY <2>2 DEF R
<1>3. f \in [1..Len(s) -> Nat] /\ \A i \in 1..Len(s) : f[i] = s[i].numeric
  BY <1>2
<1>4. Resources(m) = {s[i] : i \in 1..Len(s)} /\ Numeric(m) = SumOver(f, DOMAIN s)
  BY <1>2 DEF Resources, Numeric
<1> HIDE DEF s, f
<1>5. Numeric(m) \in Nat
  BY <1>2, <1>3, <1>4, SumSame
<1>6. Numeric(m) > 0 <=> \E i \in 1..Len(s) : f[i] > 0
  <2> DEFINE D == 1..Len(s)
  <2> HIDE DEF D
  <2>1. f \in [1..Len(s) -> Nat] /\ Len(s) \in Nat
    BY <1>2, <1>3
  <2>2. SumOver(f, D) > 0 <=> \E i \in 1..Len(s) : i \in D /\ f[i] > 0
    BY <2>1, SumZero
  <2>3. Numeric(m) = SumOver(f, D)
    BY <1>2, <1>4 DEF D
  <2> QED BY <2>2, <2>3 DEF D
<1> QED BY <1>1, <1>2, <1>3, <1>4, <1>5, <1>6

\* What reading one more record adds to the records with samples, and to those that can be placed.
LEMMA OneMore ==
    ASSUME Logged, NEW m \in Messages, Reads(m)
    PROVE  /\ read' \in Seq(Messages) /\ Len(read) \in Nat /\ DOMAIN read = 1..Len(read) /\ DOMAIN read' = 1..(Len(read) + 1)
           /\ read'[Len(read) + 1] = m /\ \A i \in 1..Len(read) : read'[i] = read[i] /\ read[i] \in Messages
           /\ WithSamples \subseteq 1..Len(read) /\ Placed \subseteq WithSamples
           /\ WithSamples' = WithSamples \cup (IF m.decodes /\ Numeric(m) > 0 THEN {Len(read) + 1} ELSE {})
           /\ Placed' = Placed \cup (IF m.decodes /\ Numeric(m) > 0 /\ Excluded(m) = "none" THEN {Len(read) + 1} ELSE {})
<1> DEFINE n == Len(read)
<1>1. /\ n \in Nat /\ read' \in Seq(Messages) /\ Len(read') = n + 1 /\ DOMAIN read = 1..n
      /\ DOMAIN read' = 1..(n + 1) /\ read'[n + 1] = m /\ \A i \in 1..n : read'[i] = read[i] /\ read[i] \in Messages
  BY DEF Reads, Logged
<1>2. Numeric(m) > 0 <=> \E r \in Resources(m) : r.numeric > 0
  BY MessageType
<1>3. WithSamples \subseteq 1..n /\ Placed \subseteq WithSamples
  BY <1>1 DEF WithSamples, Placed
<1>4. \A i : i \in WithSamples' <=> i \in 1..(n + 1) /\ read'[i].decodes /\ \E r \in Resources(read'[i]) : r.numeric > 0
  BY <1>1 DEF WithSamples, Resources
<1>5. \A i : i \in WithSamples <=> i \in 1..n /\ read[i].decodes /\ \E r \in Resources(read[i]) : r.numeric > 0
  BY <1>1 DEF WithSamples
<1>6. \A i : i \in 1..(n + 1) <=> i \in 1..n \/ i = n + 1
  BY <1>1
<1>7. n + 1 \notin 1..n
  BY <1>1
<1> HIDE DEF n
<1>8. \A i : i \in WithSamples' <=> i \in WithSamples \/ (i = n + 1 /\ m.decodes /\ Numeric(m) > 0)
  BY <1>1, <1>2, <1>4, <1>5, <1>6, <1>7
<1>9. \A i : i \in Placed' <=> i \in WithSamples' /\ read'[i].accepted # NoTime /\ read'[i].collection > 0
  BY DEF Placed, NoTime
<1>10. \A i : i \in Placed <=> i \in WithSamples /\ read[i].accepted # NoTime /\ read[i].collection > 0
  BY DEF Placed
<1>11. Excluded(m) = "none" <=> m.accepted # NoTime /\ m.collection > 0
  BY MessageType DEF Excluded
<1>12. \A i : i \in Placed' <=> i \in Placed \/ (i = n + 1 /\ m.decodes /\ Numeric(m) > 0 /\ Excluded(m) = "none")
  BY <1>1, <1>3, <1>7, <1>8, <1>9, <1>10, <1>11
<1>13. WithSamples' = WithSamples \cup (IF m.decodes /\ Numeric(m) > 0 THEN {n + 1} ELSE {})
  BY <1>8
<1>14. Placed' = Placed \cup (IF m.decodes /\ Numeric(m) > 0 /\ Excluded(m) = "none" THEN {n + 1} ELSE {})
  BY <1>12
<1> QED BY <1>1, <1>3, <1>13, <1>14 DEF n

\* The samples of a set of records, when one more is read.
LEMMA OneMoreSum ==
    ASSUME Logged, NEW m \in Messages, Reads(m), NEW S \in SUBSET DOMAIN read,
           NEW T \in SUBSET DOMAIN read', T \in {S, S \cup {Len(read) + 1}}
    PROVE  /\ SumOver([i \in DOMAIN read' |-> Numeric(read'[i])], T)
                = SamplesOf(S) + (IF T = S THEN 0 ELSE Numeric(m))
           /\ SamplesOf(S) \in Nat
<1> DEFINE n == Len(read)
           f == [i \in DOMAIN read |-> Numeric(read[i])]
           g == [i \in DOMAIN read' |-> Numeric(read'[i])]
<1>1. /\ n \in Nat /\ read' \in Seq(Messages) /\ DOMAIN read = 1..n
      /\ DOMAIN read' = 1..(n + 1) /\ read'[n + 1] = m /\ \A i \in 1..n : read'[i] = read[i] /\ read[i] \in Messages
  BY OneMore
<1>2. \A i \in 1..(n + 1) : read'[i] \in Messages
  BY <1>1
<1>3. \A x \in Messages : Numeric(x) \in Nat
  BY MessageType
<1>4. f \in [1..n -> Nat] /\ g \in [1..(n + 1) -> Nat] /\ g[n + 1] = Numeric(m) /\ \A i \in 1..n : f[i] = g[i]
  BY <1>1, <1>2, <1>3
<1> HIDE DEF f, g
<1>5. n + 1 \notin S /\ \A i \in 1..n : i \in S <=> i \in T
  BY <1>1
<1>6. \A i \in 1..n : (IF i \in S THEN f[i] ELSE 0) = (IF i \in T THEN g[i] ELSE 0)
  BY <1>4, <1>5
<1>7. SumOver(g, T) = SumOver(f, S) + (IF n + 1 \in T THEN g[n + 1] ELSE 0)
  BY <1>1, <1>4, <1>6, SumStep
<1>8. SumOver(f, S) \in Nat
  BY <1>1, <1>4, SumSame
<1>9. n + 1 \in T <=> T # S
  BY <1>5
<1>10. SamplesOf(S) = SumOver(f, S)
  BY DEF SamplesOf, f
<1> QED BY <1>4, <1>7, <1>8, <1>9, <1>10 DEF g

\* The records at a set of times that can be placed, on one of the clocks.
At(clock, T) == {j \in Placed : read[j][clock] \in T}

\* Those, when one more record is read.
LEMMA OneMoreAt ==
    ASSUME Logged, NEW m \in Messages, Reads(m), NEW clock, NEW T,
           NEW new \in BOOLEAN, new <=> m.decodes /\ Numeric(m) > 0 /\ Excluded(m) = "none"
    PROVE  /\ At(clock, T) \subseteq DOMAIN read /\ At(clock, T)' \subseteq DOMAIN read'
           /\ Len(read) + 1 \notin At(clock, T)
           /\ At(clock, T)' = IF new /\ m[clock] \in T THEN At(clock, T) \cup {Len(read) + 1} ELSE At(clock, T)
<1> DEFINE n == Len(read)
<1>1. /\ n \in Nat /\ DOMAIN read = 1..n /\ DOMAIN read' = 1..(n + 1)
      /\ read'[n + 1] = m /\ \A i \in 1..n : read'[i] = read[i]
      /\ Placed \subseteq 1..n
      /\ Placed' = Placed \cup (IF new THEN {n + 1} ELSE {})
  BY OneMore
<1>2. n + 1 \notin 1..n /\ 1..n \subseteq 1..(n + 1) /\ n + 1 \in 1..(n + 1)
  BY <1>1
<1> HIDE DEF n
<1>3. At(clock, T)' = {j \in Placed' : read'[j][clock] \in T}
  BY DEF At
<1>4. \A j : j \in At(clock, T)' <=> j \in At(clock, T) \/ (j = n + 1 /\ new /\ m[clock] \in T)
  BY <1>1, <1>2, <1>3 DEF At
<1>5. At(clock, T) \subseteq DOMAIN read /\ At(clock, T)' \subseteq DOMAIN read' /\ n + 1 \notin At(clock, T)
  BY <1>1, <1>2, <1>3 DEF At
<1> QED BY <1>4, <1>5 DEF n

\* A record that is not counted keeps the invariant.
LEMMA LeavesOut ==
    ASSUME ReadInv, NEW m \in Messages, Reads(m), UNCHANGED <<samples, nodes>>, errors \subseteq errors',
           ~(m.decodes /\ Numeric(m) > 0 /\ Excluded(m) = "none"),
           errors' = {} => m.decodes /\ Numeric(m) = 0
    PROVE  ReadInv'
<1> DEFINE n == Len(read)
<1>1. /\ n \in Nat /\ DOMAIN read = 1..n /\ DOMAIN read' = 1..(n + 1) /\ read' \in Seq(Messages)
      /\ read'[n + 1] = m /\ \A i \in 1..n : read'[i] = read[i]
      /\ Placed \subseteq 1..n /\ Placed' = Placed
  BY OneMore DEF ReadInv
<1>2. WithSamples' = WithSamples \cup (IF m.decodes /\ Numeric(m) > 0 THEN {n + 1} ELSE {})
  BY OneMore DEF ReadInv
<1> HIDE DEF n
<1>3. Logged'
  BY <1>1 DEF Logged, ReadInv
<1>4. SameSums'
  <2> SUFFICES ASSUME NEW clock \in Clocks, NEW T \in SUBSET Nat
               PROVE  CountOf({i \in DOMAIN samples : samples[i][clock] \in T})' = SamplesOf(At(clock, T))'
    BY DEF SameSums, At
  <2>1. /\ At(clock, T) \subseteq DOMAIN read /\ At(clock, T)' \subseteq DOMAIN read' /\ At(clock, T)' = At(clock, T)
    BY OneMoreAt DEF ReadInv
  <2>2. SumOver([i \in DOMAIN read' |-> Numeric(read'[i])], At(clock, T)') = SamplesOf(At(clock, T)) + 0 /\ SamplesOf(At(clock, T)) \in Nat
    BY <2>1, OneMoreSum DEF ReadInv
  <2>3. SamplesOf(At(clock, T))' = SamplesOf(At(clock, T))
    BY <2>2 DEF SamplesOf
  <2>4. CountOf({i \in DOMAIN samples : samples[i][clock] \in T})' = CountOf({i \in DOMAIN samples : samples[i][clock] \in T})
    BY DEF CountOf
  <2>5. CountOf({i \in DOMAIN samples : samples[i][clock] \in T}) = SamplesOf(At(clock, T))
    BY DEF ReadInv, SameSums, At
  <2> QED BY <2>3, <2>4, <2>5
<1>5. SameTimes'
  <2> SUFFICES ASSUME NEW clock \in Clocks
               PROVE  /\ \A i \in DOMAIN samples' : \E j \in Placed' : samples'[i][clock] = read'[j][clock]
                      /\ \A j \in Placed' : \E i \in DOMAIN samples' : samples'[i][clock] = read'[j][clock]
    BY DEF SameTimes
  <2>1. /\ \A i \in DOMAIN samples : \E j \in Placed : samples[i][clock] = read[j][clock]
        /\ \A j \in Placed : \E i \in DOMAIN samples : samples[i][clock] = read[j][clock]
    BY DEF ReadInv, SameTimes
  <2>2. \A j \in Placed : read'[j] = read[j]
    BY <1>1
  <2> QED BY <1>1, <2>1, <2>2
<1>6. SeenNodes'
  BY <1>1 DEF ReadInv, SeenNodes, Resources, Collected
<1>7. NothingLeftOut'
  <2> SUFFICES ASSUME errors' = {} PROVE WithSamples' \subseteq Placed' /\ \A i \in DOMAIN read' : read'[i].decodes
    BY DEF NothingLeftOut
  <2>1. errors = {} /\ m.decodes /\ Numeric(m) = 0
    OBVIOUS
  <2>2. WithSamples \subseteq Placed /\ \A i \in 1..n : read[i].decodes
    BY <1>1, <2>1 DEF ReadInv, NothingLeftOut
  <2>3. \A i \in 1..(n + 1) : i \in 1..n \/ i = n + 1
    BY <1>1
  <2> QED BY <1>1, <1>2, <2>1, <2>2, <2>3
<1> QED BY <1>3, <1>4, <1>5, <1>6, <1>7 DEF ReadInv

\* A record that is counted keeps the invariant.
LEMMA Counts ==
    ASSUME ReadInv, NEW m \in Messages, Counted(m)
    PROVE  ReadInv'
<1> DEFINE n == Len(read)
           k == Len(samples)
           row == [collection |-> m.collection, accepted |-> m.accepted, count |-> Numeric(m)]
<1>1. Reads(m) /\ m.decodes /\ Numeric(m) > 0 /\ Excluded(m) = "none"
  BY DEF Counted, Decodes
<1>2. /\ n \in Nat /\ DOMAIN read = 1..n /\ DOMAIN read' = 1..(n + 1) /\ read' \in Seq(Messages)
      /\ read'[n + 1] = m /\ \A i \in 1..n : read'[i] = read[i]
      /\ WithSamples \subseteq 1..n /\ Placed \subseteq 1..n
      /\ Placed' = Placed \cup {n + 1} /\ WithSamples' = WithSamples \cup {n + 1}
  BY <1>1, OneMore DEF ReadInv
<1>3. row \in Row
  BY <1>1, MessageType DEF Row, Excluded, NoTime
<1>4. samples \in Seq(Row) /\ samples' = Append(samples, row)
  BY DEF ReadInv, Logged, Counted
<1> HIDE DEF row
<1>5. /\ k \in Nat /\ samples' \in Seq(Row) /\ DOMAIN samples = 1..k /\ DOMAIN samples' = 1..(k + 1)
      /\ samples'[k + 1] = row /\ \A i \in 1..k : samples'[i] = samples[i] /\ samples[i] \in Row
  BY <1>3, <1>4
<1>6. \A clock \in Clocks : row[clock] = m[clock]
  BY DEF row, Clocks
<1>7. row.count = Numeric(m)
  BY DEF row
<1> HIDE DEF n, k
<1>8. /\ nodes' = nodes \cup NodesOf(m)
      /\ errors' = errors \cup {"unknown_resource_shape" : r \in {s \in Resources(m) : s.shape = "unset"}}
  BY DEF Counted
<1>9. /\ n + 1 \notin 1..n /\ k + 1 \notin 1..k
      /\ \A i : i \in 1..(n + 1) <=> i \in 1..n \/ i = n + 1
      /\ \A i : i \in 1..(k + 1) <=> i \in 1..k \/ i = k + 1
  BY <1>2, <1>5
<1>10. Logged'
  BY <1>2, <1>5 DEF Logged
<1>11. SameSums'
  <2> SUFFICES ASSUME NEW clock \in Clocks, NEW T \in SUBSET Nat
               PROVE  CountOf({i \in DOMAIN samples : samples[i][clock] \in T})' = SamplesOf(At(clock, T))'
    BY DEF SameSums, At
  <2> DEFINE S == {i \in DOMAIN samples : samples[i][clock] \in T}
             U == {i \in DOMAIN samples' : samples'[i][clock] \in T}
             f == [i \in DOMAIN samples |-> samples[i].count]
             g == [i \in DOMAIN samples' |-> samples'[i].count]
  <2>1. f \in [1..k -> Nat] /\ g \in [1..(k + 1) -> Nat] /\ g[k + 1] = Numeric(m) /\ \A i \in 1..k : f[i] = g[i]
    <3>1. \A i \in 1..(k + 1) : samples'[i] \in Row
      BY <1>3, <1>5, <1>9
    <3> QED BY <1>5, <1>7, <1>9, <3>1 DEF Row
  <2>2. (\A i \in 1..k : i \in S <=> i \in U) /\ (k + 1 \in U <=> m[clock] \in T)
    BY <1>5, <1>6, <1>9
  <2>3. CountOf({i \in DOMAIN samples : samples[i][clock] \in T}) = SumOver(f, S)
    BY DEF CountOf
  <2>4. CountOf({i \in DOMAIN samples : samples[i][clock] \in T})' = SumOver(g, U)
    BY DEF CountOf
  <2>5. CountOf({i \in DOMAIN samples : samples[i][clock] \in T}) = SamplesOf(At(clock, T))
    BY DEF ReadInv, SameSums, At
  <2> HIDE DEF S, U, f, g
  <2>6. SumOver(g, U) = SumOver(f, S) + (IF k + 1 \in U THEN g[k + 1] ELSE 0)
    <3>1. \A i \in 1..k : (IF i \in S THEN f[i] ELSE 0) = (IF i \in U THEN g[i] ELSE 0)
      BY <2>1, <2>2
    <3> QED BY <1>5, <2>1, <3>1, SumStep
  <2>7. /\ At(clock, T) \subseteq DOMAIN read /\ At(clock, T)' \subseteq DOMAIN read'
        /\ Len(read) + 1 \notin At(clock, T)
        /\ At(clock, T)' = IF m[clock] \in T THEN At(clock, T) \cup {Len(read) + 1} ELSE At(clock, T)
    BY <1>1, OneMoreAt DEF ReadInv
  <2>8. SumOver([i \in DOMAIN read' |-> Numeric(read'[i])], At(clock, T)')
          = SamplesOf(At(clock, T)) + (IF At(clock, T)' = At(clock, T) THEN 0 ELSE Numeric(m))
    BY <1>1, <2>7, OneMoreSum DEF ReadInv
  <2>9. SamplesOf(At(clock, T))' = SumOver([i \in DOMAIN read' |-> Numeric(read'[i])], At(clock, T)')
    BY DEF SamplesOf
  <2>10. At(clock, T)' = At(clock, T) <=> m[clock] \notin T
    BY <2>7
  <2> QED BY <2>1, <2>2, <2>3, <2>4, <2>5, <2>6, <2>8, <2>9, <2>10
<1>12. SameTimes'
  <2> SUFFICES ASSUME NEW clock \in Clocks
               PROVE  /\ \A i \in DOMAIN samples' : \E j \in Placed' : samples'[i][clock] = read'[j][clock]
                      /\ \A j \in Placed' : \E i \in DOMAIN samples' : samples'[i][clock] = read'[j][clock]
    BY DEF SameTimes
  <2>1. /\ \A i \in 1..k : \E j \in Placed : samples[i][clock] = read[j][clock]
        /\ \A j \in Placed : \E i \in 1..k : samples[i][clock] = read[j][clock]
    BY <1>5 DEF ReadInv, SameTimes
  <2>2. samples'[k + 1][clock] = read'[n + 1][clock]
    BY <1>2, <1>5, <1>6
  <2>3. \A j \in Placed : read'[j] = read[j] /\ j \in Placed'
    BY <1>2
  <2>4. n + 1 \in Placed' /\ k + 1 \in 1..(k + 1) /\ \A i \in 1..k : i \in 1..(k + 1)
    BY <1>2, <1>9, <1>5
  <2>5. ASSUME NEW i \in 1..(k + 1) PROVE \E j \in Placed' : samples'[i][clock] = read'[j][clock]
    <3>1. CASE i = k + 1
      BY <2>2, <2>4, <3>1
    <3>2. CASE i \in 1..k
      BY <1>5, <2>1, <2>3, <3>2
    <3> QED BY <1>9, <3>1, <3>2
  <2>6. ASSUME NEW j \in Placed' PROVE \E i \in 1..(k + 1) : samples'[i][clock] = read'[j][clock]
    <3>1. CASE j = n + 1
      BY <2>2, <2>4, <3>1
    <3>2. CASE j \in Placed
      <4>1. PICK i \in 1..k : samples[i][clock] = read[j][clock]
        BY <2>1, <3>2
      <4>2. samples'[i] = samples[i] /\ read'[j] = read[j] /\ i \in 1..(k + 1)
        BY <1>5, <2>3, <2>4, <3>2
      <4> QED BY <4>1, <4>2
    <3> QED BY <1>2, <3>1, <3>2
  <2> QED BY <1>5, <2>5, <2>6
<1>13. SeenNodes'
  <2>1. NodesOf(m) = {r.node : r \in {s \in Resources(m) : Collected(s)}}
    BY DEF NodesOf
  <2>2. \A i \in Placed : Resources(read'[i]) = Resources(read[i])
    BY <1>2
  <2>3. \A x \in nodes' : \E i \in Placed' : \E r \in Resources(read'[i]) : Collected(r) /\ r.node = x
    BY <1>2, <1>8, <2>1, <2>2 DEF ReadInv, SeenNodes
  <2>4. ASSUME NEW i \in Placed', NEW r \in Resources(read'[i])
        PROVE  (Collected(r) => r.node \in nodes') /\ (r.shape = "unset" => errors' # {})
    <3>1. CASE i \in Placed
      BY <1>8, <2>2, <2>4, <3>1 DEF ReadInv, SeenNodes
    <3>2. CASE i = n + 1
      BY <1>2, <1>8, <2>1, <2>4, <3>2
    <3> QED BY <1>2, <3>1, <3>2
  <2> QED BY <2>3, <2>4 DEF SeenNodes, Resources, Collected
<1>14. NothingLeftOut'
  <2> SUFFICES ASSUME errors' = {} PROVE WithSamples' \subseteq Placed' /\ \A i \in DOMAIN read' : read'[i].decodes
    BY DEF NothingLeftOut
  <2>1. errors = {}
    BY <1>8
  <2>2. WithSamples \subseteq Placed /\ \A i \in 1..n : read[i].decodes
    BY <1>2, <2>1 DEF ReadInv, NothingLeftOut
  <2> QED BY <1>1, <1>2, <1>9, <2>2
<1> QED BY <1>10, <1>11, <1>12, <1>13, <1>14 DEF ReadInv

\* The invariant holds in every behaviour.
THEOREM ReadInvariance == ReadSpec => []ReadInv
<1>1. ReadInit => ReadInv
  <2> SUFFICES ASSUME ReadInit PROVE ReadInv
    OBVIOUS
  <2>1. read = <<>> /\ samples = <<>> /\ nodes = {} /\ errors = {}
    BY DEF ReadInit
  <2>2. WithSamples = {} /\ Placed = {}
    BY <2>1 DEF WithSamples, Placed
  <2>3. ASSUME NEW S, NEW f \in [1..0 -> Nat] PROVE SumOver(f, S) = 0
    <3> DEFINE k == 0
    <3> HIDE DEF k
    <3>0. k \in Nat /\ f \in [1..k -> Nat] /\ \A i \in 1..k : FALSE
      BY <2>3 DEF k
    <3>1. SumOver(f, S) \in Nat /\ ~(SumOver(f, S) > 0)
      BY <3>0, SumSame, SumZero
    <3> QED BY <3>1
  <2>4. SameSums
    <3>1. /\ [i \in DOMAIN samples |-> samples[i].count] \in [1..0 -> Nat]
          /\ [i \in DOMAIN read |-> Numeric(read[i])] \in [1..0 -> Nat]
      BY <2>1
    <3>2. \A S : CountOf(S) = 0 /\ SamplesOf(S) = 0
      BY <2>3, <3>1 DEF CountOf, SamplesOf
    <3> QED BY <3>2 DEF SameSums
  <2>5. Logged
    BY <2>1 DEF Logged
  <2>6. SameTimes /\ SeenNodes /\ NothingLeftOut
    BY <2>1, <2>2 DEF SameTimes, SeenNodes, NothingLeftOut
  <2> QED BY <2>4, <2>5, <2>6 DEF ReadInv
<1>2. ReadInv /\ [ReadNext]_readVars => ReadInv'
  <2> SUFFICES ASSUME ReadInv, [ReadNext]_readVars PROVE ReadInv'
    OBVIOUS
  <2>1. ASSUME NEW m \in Messages, Undecodable(m) PROVE ReadInv'
    BY <2>1, LeavesOut DEF Undecodable
  <2>2. ASSUME NEW m \in Messages, NothingNumeric(m) PROVE ReadInv'
    BY <2>2, LeavesOut DEF NothingNumeric, Decodes
  <2>3. ASSUME NEW m \in Messages, LeftOut(m) PROVE ReadInv'
    BY <2>3, LeavesOut DEF LeftOut, Decodes
  <2>4. ASSUME NEW m \in Messages, Counted(m) PROVE ReadInv'
    BY <2>4, Counts
  <2>5. ASSUME UNCHANGED readVars PROVE ReadInv'
    <3>1. read' = read /\ samples' = samples /\ nodes' = nodes /\ errors' = errors
      BY <2>5 DEF readVars
    <3>2. WithSamples' = WithSamples /\ Placed' = Placed
      BY <3>1 DEF WithSamples, Placed
    <3>3. (\A S : CountOf(S)' = CountOf(S)) /\ (\A S : SamplesOf(S)' = SamplesOf(S))
      BY <3>1 DEF CountOf, SamplesOf
    <3>4. SameSums'
      BY <3>1, <3>2 DEF ReadInv, SameSums, CountOf, SamplesOf
    <3>5. Logged' /\ SameTimes' /\ SeenNodes' /\ NothingLeftOut'
      BY <3>1, <3>2 DEF ReadInv, Logged, SameTimes, SeenNodes, NothingLeftOut
    <3> QED BY <3>4, <3>5 DEF ReadInv
  <2> QED BY <2>1, <2>2, <2>3, <2>4, <2>5 DEF ReadNext
<1> QED BY <1>1, <1>2, PTL DEF ReadSpec

\* The records that can be placed.
LEMMA PlacedRecords ==
    ASSUME ReadInv
    PROVE  /\ IsFiniteSet(Placed) /\ Placed \subseteq WithSamples /\ Placed \subseteq DOMAIN read
           /\ \A j \in Placed : \A clock \in Clocks : read[j][clock] \in Nat
<1>1. Len(read) \in Nat /\ DOMAIN read = 1..Len(read) /\ \A i \in 1..Len(read) : read[i] \in Messages
  BY DEF ReadInv, Logged
<1>2. Placed \subseteq WithSamples /\ WithSamples \subseteq 1..Len(read)
  BY <1>1 DEF WithSamples, Placed
<1>3. IsFiniteSet(1..Len(read))
  BY <1>1, FS_Interval
<1>4. Placed \in SUBSET (1..Len(read))
  BY <1>2
<1>5. IsFiniteSet(Placed)
  BY <1>3, <1>4, FS_Subset
<1>6. ASSUME NEW j \in Placed PROVE read[j].collection \in Nat /\ read[j].accepted \in Nat
  <2>1. read[j] \in Messages /\ read[j].accepted # NoTime
    BY <1>1, <1>2 DEF Placed
  <2> QED BY <2>1, MessageType
<1> QED BY <1>1, <1>2, <1>5, <1>6 DEF Clocks

\* The stamps on a clock are the times of these records.
LEMMA StampsAre ==
    ASSUME ReadInv, NEW clock \in Clocks
    PROVE  /\ Stamps(clock) \in SUBSET Nat /\ IsFiniteSet(Stamps(clock))
           /\ \A t : t \in Stamps(clock) <=> \E j \in Placed : t = read[j][clock]
           /\ samples = <<>> <=> Stamps(clock) = {}
<1> DEFINE f == [j \in Placed |-> read[j][clock]]
<1>1. \A t : t \in Stamps(clock) <=> \E j \in Placed : t = read[j][clock]
  BY DEF ReadInv, SameTimes, Stamps
<1>2. f \in Surjection(Placed, Stamps(clock))
  BY <1>1 DEF Surjection
<1>3. IsFiniteSet(Stamps(clock))
  <2> HIDE DEF f
  <2> QED BY <1>2, PlacedRecords, FS_Surjection
<1>4. samples = <<>> <=> Stamps(clock) = {}
  <2>1. samples \in Seq(Row)
    BY DEF ReadInv, Logged
  <2>2. samples # <<>> => 1 \in DOMAIN samples
    BY <2>1
  <2>3. samples = <<>> => DOMAIN samples = {}
    BY <2>1
  <2>4. Stamps(clock) = {} <=> DOMAIN samples = {}
    BY DEF Stamps
  <2> QED BY <2>2, <2>3, <2>4
<1> QED BY <1>1, <1>3, <1>4, PlacedRecords

\* CoverageIsOfTheCounted holds of every slice, whatever its records hold.
THEOREM CoverageHolds == ReadSpec => []CoverageIsOfTheCounted
<1>1. ASSUME ReadInv PROVE CoverageIsOfTheCounted
  <2>1. \A x \in nodes : \E i \in Placed : \E r \in Resources(read[i]) : r.node = x /\ r.shape \notin {"response", "unset"}
    BY <1>1 DEF ReadInv, SeenNodes, Collected
  <2>2. ASSUME ExitStatus = 0
        PROVE  /\ CountOf(DOMAIN samples) = SamplesOf(WithSamples)
               /\ \A i \in WithSamples : \A r \in Resources(read[i]) : r.shape # "response" => r.node \in nodes
               /\ MeanRate # NoRate <=> \E i, j \in WithSamples : read[i].accepted # read[j].accepted
    <3>1. errors = {}
      BY <2>2 DEF ExitStatus, Warnings
    <3>2. WithSamples = Placed
      BY <1>1, <3>1, PlacedRecords DEF ReadInv, NothingLeftOut
    <3>3. CountOf(DOMAIN samples) = SamplesOf(WithSamples)
      <4>1. samples \in Seq(Row) /\ DOMAIN samples = 1..Len(samples)
        BY <1>1 DEF ReadInv, Logged
      <4>2. {i \in DOMAIN samples : samples[i]["accepted"] \in Nat} = DOMAIN samples
        <5>1. \A i \in DOMAIN samples : samples[i] \in Row
          BY <4>1
        <5>2. \A r \in Row : r["accepted"] \in Nat
          BY DEF Row
        <5> QED BY <5>1, <5>2
      <4>3. {j \in Placed : read[j]["accepted"] \in Nat} = Placed
        BY <1>1, PlacedRecords DEF Clocks
      <4>4. CountOf({i \in DOMAIN samples : samples[i]["accepted"] \in Nat}) = SamplesOf({j \in Placed : read[j]["accepted"] \in Nat})
        BY <1>1 DEF ReadInv, SameSums, Clocks
      <4> QED BY <3>2, <4>2, <4>3, <4>4
    <3>4. ASSUME NEW i \in WithSamples, NEW r \in Resources(read[i]), r.shape # "response"
          PROVE  r.node \in nodes
      <4>1. read[i] \in Messages
        BY <1>1 DEF ReadInv, Logged, WithSamples
      <4>2. r.shape \in Shapes
        BY <4>1, MessageType
      <4>3. r.shape # "unset"
        BY <1>1, <3>1, <3>2 DEF ReadInv, SeenNodes
      <4>4. Collected(r)
        BY <3>4, <4>2, <4>3 DEF Collected, Shapes
      <4> QED BY <1>1, <3>2, <4>4 DEF ReadInv, SeenNodes
    <3>5. MeanRate # NoRate <=> \E i, j \in WithSamples : read[i].accepted # read[j].accepted
      <4> DEFINE S == Stamps("accepted")
      <4>1. /\ S \in SUBSET Nat /\ IsFiniteSet(S)
            /\ \A t : t \in S <=> \E j \in Placed : t = read[j].accepted
            /\ samples = <<>> <=> S = {}
        BY <1>1, StampsAre DEF Clocks
      <4>2. MeanRate # NoRate <=> Span("accepted") > 0
        BY DEF MeanRate, NoRate
      <4> HIDE DEF S
      <4>3. CASE S = {}
        <5>1. Span("accepted") = 0 /\ Placed = {}
          BY <4>1, <4>3 DEF Span
        <5> QED BY <3>2, <4>2, <5>1
      <4>4. CASE S # {}
        <5>1. Span("accepted") = Max(S) - Min(S)
          BY <4>1, <4>4 DEF Span, S
        <5>2. /\ Max(S) \in S /\ \A x \in S : x <= Max(S)
              /\ Min(S) \in S /\ \A x \in S : Min(S) <= x
          BY <4>1, <4>4, Extremes
        <5>3. Max(S) \in Nat /\ Min(S) \in Nat
          BY <4>1, <5>2
        <5>4. Span("accepted") > 0 <=> \E s, t \in S : s # t
          <6>1. ASSUME NEW s \in S, NEW t \in S, s # t PROVE Max(S) - Min(S) > 0
            BY <4>1, <5>2, <5>3, <6>1
          <6>2. ASSUME Max(S) - Min(S) > 0 PROVE \E s, t \in S : s # t
            BY <5>2, <5>3, <6>2
          <6> QED BY <5>1, <6>1, <6>2
        <5>5. (\E s, t \in S : s # t) <=> \E i, j \in Placed : read[i].accepted # read[j].accepted
          <6>1. ASSUME NEW s \in S, NEW t \in S, s # t PROVE \E i, j \in Placed : read[i].accepted # read[j].accepted
            <7>1. PICK i \in Placed : s = read[i].accepted
              BY <4>1
            <7>2. PICK j \in Placed : t = read[j].accepted
              BY <4>1
            <7> QED BY <6>1, <7>1, <7>2
          <6>2. ASSUME NEW i \in Placed, NEW j \in Placed, read[i].accepted # read[j].accepted
                PROVE  \E s, t \in S : s # t
            BY <4>1, <6>2
          <6> QED BY <6>1, <6>2
        <5> QED BY <3>2, <4>2, <5>4, <5>5
      <4> QED BY <4>3, <4>4
    <3> QED BY <3>3, <3>4, <3>5
  <2> QED BY <2>1, <2>2 DEF CoverageIsOfTheCounted
<1> QED BY <1>1, ReadInvariance, PTL

\* More is a bucket more, at least.
LEMMA BucketApart ==
    ASSUME NEW a \in Nat, NEW b \in Nat, a < b
    PROVE  a * Width + Width <= b * Width /\ a * Width \in Nat /\ b * Width \in Nat
<1>1. Width \in Nat
  BY ReportAssumption
<1>2. PICK d \in Nat : b = a + 1 + d
  <2>1. b - a - 1 \in Nat /\ b = a + 1 + (b - a - 1)
    OBVIOUS
  <2> QED BY <2>1
<1>3. b * Width = a * Width + Width + d * Width
  BY <1>1, <1>2
<1>4. a * Width \in Nat /\ b * Width \in Nat /\ d * Width \in Nat
  BY <1>1, <1>2
<1> QED BY <1>1, <1>3, <1>4

\* A time is in the bucket that begins at most Width before it.
LEMMA BucketOf ==
    ASSUME NEW t \in Nat
    PROVE  /\ t \div Width \in Nat /\ Bucket(t) = (t \div Width) * Width
           /\ \A q \in Nat : Bucket(t) = q * Width <=> t \in (q * Width)..(q * Width + Width - 1)
<1>1. Width \in Nat /\ Width > 0
  BY ReportAssumption
<1> DEFINE d == t \div Width
<1>2. d \in Nat /\ d * Width <= t /\ t < d * Width + Width /\ d * Width \in Nat
  BY <1>1
<1>3. Bucket(t) = d * Width
  BY DEF Bucket
<1> HIDE DEF d
<1>4. ASSUME NEW q \in Nat
      PROVE  Bucket(t) = q * Width <=> t \in (q * Width)..(q * Width + Width - 1)
  <2>1. q * Width \in Nat
    BY <1>1
  <2>2. CASE d = q
    BY <1>1, <1>2, <1>3, <2>1, <2>2
  <2>3. CASE d < q
    <3>1. d * Width + Width <= q * Width
      BY <1>2, <2>3, BucketApart
    <3> QED BY <1>1, <1>2, <1>3, <2>1, <3>1
  <2>4. CASE d > q
    <3>1. q * Width + Width <= d * Width
      BY <1>2, <2>4, BucketApart
    <3> QED BY <1>1, <1>2, <1>3, <2>1, <3>1
  <2> QED BY <1>2, <2>2, <2>3, <2>4
<1> QED BY <1>2, <1>3, <1>4 DEF d

\* The number of steps from one bucket to the last.
LEMMA DenseIs ==
    ASSUME NEW a \in Nat, NEW c \in Nat, a <= c
    PROVE  /\ Dense(a * Width, c * Width) = [i \in 1..(c - a + 1) |-> a * Width + (i - 1) * Width]
           /\ (c * Width - a * Width) \div Width = c - a
<1>1. Width \in Nat /\ Width > 0 /\ a * Width \in Nat /\ c * Width \in Nat
  BY ReportAssumption
<1>2. c * Width - a * Width = (c - a) * Width
  BY <1>1
<1>3. (c - a) \in Nat /\ (c - a) * Width \in Nat
  BY <1>1
<1> DEFINE e == c - a
<1>4. (c * Width + Width) - a * Width + Width - 1 = (e + 1) * Width + (Width - 1)
  BY <1>1, <1>2
<1>5. \A x \in Nat : \A y \in 0..(Width - 1) : (x * Width + y) \div Width = x
  BY <1>1
<1>6. ((e + 1) * Width + (Width - 1)) \div Width = e + 1
  <2>1. e + 1 \in Nat /\ Width - 1 \in 0..(Width - 1)
    BY <1>1, <1>3
  <2> HIDE DEF e
  <2> QED BY <1>5, <2>1
<1>7. (c * Width - a * Width) \div Width = e
  <2>1. 0 \in 0..(Width - 1) /\ e \in Nat /\ c * Width - a * Width = e * Width + 0
    BY <1>1, <1>2, <1>3
  <2> HIDE DEF e
  <2> QED BY <1>5, <2>1
<1>8. Dense(a * Width, c * Width) = [i \in 1..(((c * Width + Width) - a * Width + Width - 1) \div Width) |-> a * Width + (i - 1) * Width]
  BY DEF Dense, Steps
<1> QED BY <1>4, <1>6, <1>7, <1>8

\* The buckets that are observed on a clock.
LEMMA BucketsAre ==
    ASSUME ReadInv, NEW clock \in Clocks
    PROVE  /\ Buckets(clock) \in SUBSET Nat /\ IsFiniteSet(Buckets(clock))
           /\ Cardinality(Buckets(clock)) <= Cardinality(Placed)
           /\ \A b \in Buckets(clock) : \E q \in Nat : b = q * Width
           /\ \A j \in Placed : Bucket(read[j][clock]) \in Buckets(clock)
           /\ samples = <<>> <=> Buckets(clock) = {}
           /\ samples = <<>> <=> Placed = {}
<1> DEFINE f == [j \in Placed |-> Bucket(read[j][clock])]
<1>1. /\ Stamps(clock) \in SUBSET Nat
      /\ \A t : t \in Stamps(clock) <=> \E j \in Placed : t = read[j][clock]
      /\ samples = <<>> <=> Stamps(clock) = {}
  BY StampsAre
<1>2. /\ \A j \in Placed : Bucket(read[j][clock]) \in Buckets(clock)
      /\ \A b \in Buckets(clock) : \E j \in Placed : b = Bucket(read[j][clock])
  BY <1>1 DEF Buckets
<1>3. f \in Surjection(Placed, Buckets(clock))
  BY <1>2 DEF Surjection
<1>4. IsFiniteSet(Buckets(clock)) /\ Cardinality(Buckets(clock)) <= Cardinality(Placed)
  <2> HIDE DEF f
  <2> QED BY <1>3, PlacedRecords, FS_Surjection
<1>5. \A b \in Buckets(clock) : \E q \in Nat : b = q * Width
  <2> TAKE b \in Buckets(clock)
  <2>1. PICK t \in Nat : b = Bucket(t)
    BY <1>1 DEF Buckets
  <2>2. t \div Width \in Nat /\ b = (t \div Width) * Width
    BY <2>1, BucketOf
  <2> QED BY <2>2
<1>6. Buckets(clock) \in SUBSET Nat
  <2>1. Width \in Nat
    BY ReportAssumption
  <2>2. \A q \in Nat : q * Width \in Nat
    BY <2>1
  <2> QED BY <1>5, <2>2
<1>7. samples = <<>> <=> Buckets(clock) = {}
  BY <1>1 DEF Buckets
<1>8. samples = <<>> <=> Placed = {}
  BY <1>1
<1> QED BY <1>2, <1>4, <1>5, <1>6, <1>7, <1>8

\* L keys on a clock: whole buckets, all that are observed, in order, and few.
ListsBuckets(K, L, clock) ==
    /\ DOMAIN K = 1..L
    /\ \A i \in 1..L : \E q \in Nat : K[i] = q * Width
    /\ \A b \in Buckets(clock) : \E i \in 1..L : K[i] = b
    /\ \A i \in 2..L : K[i] > K[i - 1] /\ (~Sparse(clock) => K[i] = K[i - 1] + Width)
    /\ L <= MAX_DENSE_BUCKETS \/ L <= Cardinality(Placed)

\* The keys of a timeline are such.
LEMMA KeysAre ==
    ASSUME ReadInv, NEW clock \in Clocks
    PROVE  \E L \in Nat : ListsBuckets(Keys(clock), L, clock)
<1> DEFINE B == Buckets(clock)
<1>1. /\ B \in SUBSET Nat /\ IsFiniteSet(B) /\ Cardinality(B) <= Cardinality(Placed)
      /\ \A b \in B : \E q \in Nat : b = q * Width
      /\ samples = <<>> <=> B = {}
  BY BucketsAre
<1>2. Width \in Nat /\ Width > 0 /\ MAX_DENSE_BUCKETS \in Nat
  BY ReportAssumption
<1> HIDE DEF B
<1>3. CASE samples = <<>>
  <2>1. DOMAIN Keys(clock) = 1..0
    BY <1>3 DEF Keys
  <2>2. 0 <= MAX_DENSE_BUCKETS /\ 0 \in Nat /\ B = {}
    BY <1>1, <1>2, <1>3
  <2>3. 1..0 = {} /\ 2..0 = {}
    OBVIOUS
  <2> QED BY <2>1, <2>2, <2>3 DEF B, ListsBuckets
<1>4. CASE samples # <<>> /\ Sparse(clock)
  <2> DEFINE c == Cardinality(B)
             at == Ascending(B)
  <2>1. Keys(clock) = at
    BY <1>4 DEF Keys, B
  <2>2. /\ c \in Nat /\ DOMAIN at = 1..c
        /\ \A i \in 1..c : at[i] \in B
        /\ \A i \in 2..c : at[i] > at[i - 1]
        /\ \A k \in B : \E i \in 1..c : at[i] = k
    BY <1>1, AscendingLists
  <2> HIDE DEF at
  <2>3. c <= Cardinality(Placed)
    BY <1>1
  <2> HIDE DEF c
  <2> QED BY <1>1, <1>4, <2>1, <2>2, <2>3 DEF B, ListsBuckets
<1>5. CASE samples # <<>> /\ ~Sparse(clock)
  <2>1. /\ Max(B) \in B /\ \A x \in B : x <= Max(B)
        /\ Min(B) \in B /\ \A x \in B : Min(B) <= x
    BY <1>1, <1>5, Extremes
  <2>2. PICK a \in Nat : Min(B) = a * Width
    BY <1>1, <2>1
  <2>3. PICK c \in Nat : Max(B) = c * Width
    BY <1>1, <2>1
  <2>4. ASSUME NEW p \in Nat, NEW q \in Nat, p * Width <= q * Width PROVE p <= q
    <3> SUFFICES ASSUME q < p PROVE FALSE
      OBVIOUS
    <3>1. q * Width + Width <= p * Width /\ p * Width \in Nat /\ q * Width \in Nat
      BY BucketApart
    <3> QED BY <1>2, <2>4, <3>1
  <2>5. a <= c
    BY <2>1, <2>2, <2>3, <2>4
  <2> DEFINE L == c - a + 1
             dense == [i \in 1..L |-> a * Width + (i - 1) * Width]
  <2>6. Keys(clock) = dense /\ (Max(B) - Min(B)) \div Width = c - a
    <3>1. Keys(clock) = Dense(Min(B), Max(B))
      BY <1>5 DEF Keys, B
    <3> QED BY <2>2, <2>3, <2>5, <3>1, DenseIs
  <2>7. L \in Nat /\ L <= MAX_DENSE_BUCKETS
    <3>1. ~((Max(B) - Min(B)) \div Width + 1 > MAX_DENSE_BUCKETS)
      BY <1>5 DEF Sparse, B
    <3> QED BY <1>2, <2>5, <2>6, <3>1
  <2>8. ASSUME NEW i \in 1..L
        PROVE  dense[i] = a * Width + (i - 1) * Width /\ dense[i] = (a + (i - 1)) * Width /\ a + (i - 1) \in Nat
    BY <1>2, <2>7
  <2>9. ASSUME NEW i \in 2..L
        PROVE  dense[i] = dense[i - 1] + Width /\ dense[i] > dense[i - 1]
    <3>1. i \in 1..L /\ i - 1 \in 1..L /\ i \in Nat
      BY <2>7
    <3>2. dense[i] = (a + (i - 1)) * Width /\ dense[i - 1] = (a + (i - 2)) * Width
      BY <2>8, <3>1
    <3>3. a + (i - 2) \in Nat
      BY <3>1
    <3>4. (a + (i - 1)) * Width = (a + (i - 2)) * Width + Width /\ (a + (i - 2)) * Width \in Nat
      <4> DEFINE x == a + (i - 2)
      <4>1. a + (i - 1) = x + 1
        BY <3>1
      <4> HIDE DEF x
      <4>2. x \in Nat
        BY <3>3 DEF x
      <4>3. (x + 1) * Width = x * Width + Width /\ x * Width \in Nat
        BY <1>2, <4>2
      <4> QED BY <4>1, <4>3 DEF x
    <3> HIDE DEF dense
    <3> QED BY <1>2, <3>2, <3>4
  <2>10. ASSUME NEW b \in B
         PROVE  \E i \in 1..L : dense[i] = b
    <3>1. PICK q \in Nat : b = q * Width
      BY <1>1
    <3>2. a * Width <= q * Width /\ q * Width <= c * Width
      BY <2>1, <2>2, <2>3, <3>1
    <3>3. a <= q /\ q <= c
      BY <2>4, <3>2
    <3>4. q - a + 1 \in 1..L /\ a + ((q - a + 1) - 1) = q
      BY <3>3
    <3>5. dense[q - a + 1] = q * Width
      BY <2>8, <3>4
    <3> HIDE DEF dense, L
    <3> QED BY <3>1, <3>4, <3>5
  <2>11. DOMAIN dense = 1..L
    OBVIOUS
  <2>12. \A i \in 1..L : \E q \in Nat : dense[i] = q * Width
    BY <2>8
  <2> HIDE DEF dense, L
  <2> QED BY <2>6, <2>7, <2>9, <2>10, <2>11, <2>12 DEF B, ListsBuckets
<1> QED BY <1>3, <1>4, <1>5

\* TimelineIsTheSamples holds of every slice, for any width and number of buckets.
THEOREM TimelineHolds == ReadSpec => []TimelineIsTheSamples
<1>1. ASSUME ReadInv PROVE TimelineIsTheSamples
  <2> SUFFICES ASSUME NEW clock \in Clocks
               PROVE  LET line == Timeline(clock) IN
                 /\ \A i \in DOMAIN line :
                      line[i].count = SamplesOf({j \in Placed : read[j][clock] \in line[i].t..(line[i].t + Width - 1)})
                 /\ \A j \in Placed : \E i \in DOMAIN line : read[j][clock] \in line[i].t..(line[i].t + Width - 1)
                 /\ \A i \in 2..Len(line) :
                      IF "sparse_timeline" \in Warnings THEN line[i].t > line[i - 1].t
                      ELSE line[i].t = line[i - 1].t + Width
                 /\ Len(line) <= MAX_DENSE_BUCKETS \/ Len(line) <= Cardinality(Placed)
    BY DEF TimelineIsTheSamples
  <2> DEFINE line == Timeline(clock)
             K == Keys(clock)
  <2>0. PICK L \in Nat : ListsBuckets(Keys(clock), L, clock)
    BY <1>1, KeysAre
  <2>1. /\ DOMAIN K = 1..L
        /\ \A i \in 1..L : \E q \in Nat : K[i] = q * Width
        /\ \A b \in Buckets(clock) : \E i \in 1..L : K[i] = b
        /\ \A i \in 2..L : K[i] > K[i - 1] /\ (~Sparse(clock) => K[i] = K[i - 1] + Width)
        /\ L <= MAX_DENSE_BUCKETS \/ L <= Cardinality(Placed)
    BY <2>0 DEF ListsBuckets
  <2>2. line = [i \in 1..L |-> [t |-> K[i], count |-> CountOf(InBucket(clock, K[i]))]]
    BY <2>1 DEF Timeline
  <2> HIDE DEF line, K
  <2>3. /\ DOMAIN line = 1..L /\ Len(line) = L
        /\ \A i \in 1..L : line[i].t = K[i] /\ line[i].count = CountOf(InBucket(clock, K[i]))
    BY <2>2
  <2>4. ASSUME NEW i \in 1..L, NEW t \in Nat
        PROVE  Bucket(t) = K[i] <=> t \in K[i]..(K[i] + Width - 1)
    BY <2>1, BucketOf
  <2>5. ASSUME NEW i \in 1..L
        PROVE  line[i].count = SamplesOf({j \in Placed : read[j][clock] \in line[i].t..(line[i].t + Width - 1)})
    <3> DEFINE T == {t \in Nat : Bucket(t) = K[i]}
    <3>1. samples \in Seq(Row) /\ \A r \in Row : r[clock] \in Nat
      BY <1>1 DEF ReadInv, Logged, Row, Clocks
    <3>2. InBucket(clock, K[i]) = {n \in DOMAIN samples : samples[n][clock] \in T}
      BY <3>1 DEF InBucket
    <3>3. {j \in Placed : read[j][clock] \in T} = {j \in Placed : read[j][clock] \in K[i]..(K[i] + Width - 1)}
      BY <1>1, <2>4, PlacedRecords
    <3>4. T \in SUBSET Nat
      OBVIOUS
    <3> HIDE DEF T
    <3>5. CountOf({n \in DOMAIN samples : samples[n][clock] \in T}) = SamplesOf({j \in Placed : read[j][clock] \in T})
      BY <1>1, <3>4 DEF ReadInv, SameSums
    <3> QED BY <2>3, <3>2, <3>3, <3>5
  <2>6. ASSUME NEW j \in Placed
        PROVE  \E i \in 1..L : read[j][clock] \in line[i].t..(line[i].t + Width - 1)
    <3>1. read[j][clock] \in Nat /\ Bucket(read[j][clock]) \in Buckets(clock)
      BY <1>1, PlacedRecords, BucketsAre
    <3>2. PICK i \in 1..L : K[i] = Bucket(read[j][clock])
      BY <2>1, <3>1
    <3> QED BY <2>3, <2>4, <3>1, <3>2
  <2>7. ASSUME NEW i \in 2..L
        PROVE  IF "sparse_timeline" \in Warnings THEN line[i].t > line[i - 1].t
               ELSE line[i].t = line[i - 1].t + Width
    <3>1. Sparse(clock) => "sparse_timeline" \in Warnings
      BY DEF Warnings
    <3>2. i \in 1..L /\ i - 1 \in 1..L
      OBVIOUS
    <3> QED BY <2>1, <2>3, <3>1, <3>2
  <2> QED BY <2>1, <2>3, <2>5, <2>6, <2>7 DEF line
<1> QED BY <1>1, ReadInvariance, PTL

-----------------------------------------------------------------------------
(* The capture and the ledger.  What left the exporters is in the order of     *)
(* time and each device counts its own (SentInv); the rows of the capture are  *)
(* some of those datagrams, in that order (RowsInv), all of them when none is  *)
(* lost (WholeInv); and what the loop of tick_groups knows after the last row  *)
(* is the ticks of the rows with data (ShapeInv).                              *)

Datagram == [ts: Nat, src: Devices, seq: Nat, template: BOOLEAN, count: Nat]
Frame == [ts: Nat, src: Devices, seq: Nat, template: BOOLEAN, count: Nat, first: BOOLEAN]

\* The recursion of Datagrams has a solution, what is kept of the first i frames.
Keeps(kept, capture, n) ==
    kept = [i \in 0..n |-> IF i = 0 THEN <<>>
                           ELSE IF capture[i].first THEN Append(kept[i - 1], capture[i])
                           ELSE kept[i - 1]]

\* There is one, and its last value is what Datagrams keeps.
LEMMA DatagramsDef ==
    ASSUME NEW capture, Len(capture) \in Nat
    PROVE  \E kept : Keeps(kept, capture, Len(capture)) /\ Datagrams(capture) = kept[Len(capture)]
<1> DEFINE Bad == {n \in Nat : ~ \E g : Keeps(g, capture, n)}
<1>1. Bad = {}
  <2> SUFFICES ASSUME Bad # {} PROVE FALSE
    OBVIOUS
  <2>1. PICK n \in Bad : \A m \in Bad : n <= m
    BY Least
  <2>2. CASE n = 0
    <3>1. Keeps([i \in 0..0 |-> <<>>], capture, 0)
      BY DEF Keeps
    <3> QED BY <2>1, <2>2, <3>1
  <2>3. CASE n # 0
    <3>1. n - 1 \in Nat /\ n - 1 \notin Bad
      BY <2>1, <2>3
    <3>2. PICK g : Keeps(g, capture, n - 1)
      BY <3>1
    <3> DEFINE next == IF capture[n].first THEN Append(g[n - 1], capture[n]) ELSE g[n - 1]
               h == [i \in 0..n |-> IF i <= n - 1 THEN g[i] ELSE next]
    <3>3. ASSUME NEW i \in 0..n
          PROVE  h[i] = IF i = 0 THEN <<>> ELSE IF capture[i].first THEN Append(h[i - 1], capture[i]) ELSE h[i - 1]
      <4>0. n \in Nat /\ n \in 0..n /\ n - 1 \in 0..n /\ n - 1 # n /\ ~(n <= n - 1)
        BY <3>1, <2>3
      <4>1. h[n] = next /\ h[n - 1] = g[n - 1]
        <5> HIDE DEF next
        <5> QED BY <4>0
      <4>2. CASE i = n
        <5> HIDE DEF h
        <5> QED BY <2>3, <4>1, <4>2
      <4>3. CASE i # n /\ i # 0
        <5>1. i \in 0..(n - 1) /\ i - 1 \in 0..(n - 1) /\ i <= n - 1 /\ i - 1 <= n - 1 /\ i - 1 \in 0..n
          BY <4>0, <4>3
        <5>2. g[i] = IF capture[i].first THEN Append(g[i - 1], capture[i]) ELSE g[i - 1]
          BY <3>2, <4>3, <5>1 DEF Keeps
        <5>3. h[i] = g[i] /\ h[i - 1] = g[i - 1]
          <6> HIDE DEF next
          <6> QED BY <5>1
        <5> HIDE DEF h
        <5> QED BY <4>3, <5>2, <5>3
      <4>4. CASE i = 0
        <5>1. 0 \in 0..(n - 1) /\ g[0] = <<>>
          BY <3>1, <3>2 DEF Keeps
        <5>2. h[0] = g[0]
          <6> HIDE DEF next
          <6> QED BY <4>0, <5>1
        <5> HIDE DEF h
        <5> QED BY <4>4, <5>1, <5>2
      <4> QED BY <4>2, <4>3, <4>4
    <3>4. Keeps(h, capture, n)
      BY <3>3 DEF Keeps
    <3> QED BY <2>1, <3>4
  <2> QED BY <2>2, <2>3
<1>2. \E g : Keeps(g, capture, Len(capture))
  BY <1>1
<1> QED BY <1>2 DEF Datagrams, Keeps

\* One more frame.
LEMMA DatagramsStep ==
    ASSUME NEW capture \in Seq(Frame), NEW f \in Frame
    PROVE  Datagrams(Append(capture, f)) =
             IF f.first THEN Append(Datagrams(capture), f) ELSE Datagrams(capture)
<1> DEFINE n == Len(capture)
           more == Append(capture, f)
<1>1. n \in Nat /\ Len(more) = n + 1 /\ more[n + 1] = f /\ \A i \in 1..n : more[i] = capture[i]
  OBVIOUS
<1>2. PICK g : Keeps(g, capture, n) /\ Datagrams(capture) = g[n]
  BY <1>1, DatagramsDef
<1> HIDE DEF n, more
<1>3. PICK h : Keeps(h, more, n + 1) /\ Datagrams(more) = h[n + 1]
  <2>1. Len(more) \in Nat
    BY <1>1
  <2>2. \E h : Keeps(h, more, Len(more)) /\ Datagrams(more) = h[Len(more)]
    BY <2>1, DatagramsDef
  <2> QED BY <1>1, <2>2
<1> DEFINE Off == {i \in Nat : i <= n /\ g[i] # h[i]}
<1>4. Off = {}
  <2> SUFFICES ASSUME Off # {} PROVE FALSE
    OBVIOUS
  <2>1. PICK i \in Off : \A j \in Off : i <= j
    BY Least
  <2>2. i # 0 /\ i \in 1..n /\ i - 1 \in 0..n /\ i \in 0..n /\ i \in 0..(n + 1)
    BY <1>1, <1>2, <1>3, <2>1 DEF Keeps
  <2>3. g[i - 1] = h[i - 1]
    <3>1. i \in Nat /\ i - 1 \in Nat /\ i - 1 <= n /\ ~(i <= i - 1)
      BY <2>2
    <3> QED BY <2>1, <3>1
  <2>4. g[i] = IF capture[i].first THEN Append(g[i - 1], capture[i]) ELSE g[i - 1]
    BY <1>2, <2>2 DEF Keeps
  <2>5. h[i] = IF more[i].first THEN Append(h[i - 1], more[i]) ELSE h[i - 1]
    BY <1>3, <2>2 DEF Keeps
  <2> QED BY <1>1, <2>1, <2>2, <2>3, <2>4, <2>5
<1>5. g[n] = h[n] /\ n + 1 \in 0..(n + 1) /\ n + 1 # 0 /\ (n + 1) - 1 = n
  BY <1>1, <1>4
<1>6. h[n + 1] = IF more[n + 1].first THEN Append(h[n], more[n + 1]) ELSE h[n]
  BY <1>3, <1>5 DEF Keeps
<1> QED BY <1>1, <1>2, <1>3, <1>5, <1>6 DEF more

\* The recursion of Groups has a solution, what is known after i rows.
Follows(acc, rows, n) == acc = [i \in 0..n |-> IF i = 0 THEN Group0 ELSE Grouped(acc[i - 1], rows[i])]

\* There is one, and its last value is what Groups knows.
LEMMA GroupsDef ==
    ASSUME NEW rows, Len(rows) \in Nat
    PROVE  \E acc : Follows(acc, rows, Len(rows)) /\ Groups(rows) = acc[Len(rows)]
<1> DEFINE Bad == {n \in Nat : ~ \E g : Follows(g, rows, n)}
<1>1. Bad = {}
  <2> SUFFICES ASSUME Bad # {} PROVE FALSE
    OBVIOUS
  <2>1. PICK n \in Bad : \A m \in Bad : n <= m
    BY Least
  <2>2. CASE n = 0
    <3>1. Follows([i \in 0..0 |-> Group0], rows, 0)
      BY DEF Follows
    <3> QED BY <2>1, <2>2, <3>1
  <2>3. CASE n # 0
    <3>1. n - 1 \in Nat /\ n - 1 \notin Bad
      BY <2>1, <2>3
    <3>2. PICK g : Follows(g, rows, n - 1)
      BY <3>1
    <3> DEFINE h == [i \in 0..n |-> IF i <= n - 1 THEN g[i] ELSE Grouped(g[n - 1], rows[n])]
    <3>3. ASSUME NEW i \in 0..n PROVE h[i] = IF i = 0 THEN Group0 ELSE Grouped(h[i - 1], rows[i])
      BY <3>1, <3>2 DEF Follows
    <3>4. Follows(h, rows, n)
      BY <3>3 DEF Follows
    <3> QED BY <2>1, <3>4
  <2> QED BY <2>2, <2>3
<1>2. \E g : Follows(g, rows, Len(rows))
  BY <1>1
<1> QED BY <1>2 DEF Groups, Follows

\* One more row.
LEMMA GroupsStep ==
    ASSUME NEW rows \in Seq(Frame), NEW r \in Frame
    PROVE  Groups(Append(rows, r)) = Grouped(Groups(rows), r)
<1> DEFINE n == Len(rows)
           more == Append(rows, r)
<1>1. n \in Nat /\ Len(more) = n + 1 /\ more[n + 1] = r /\ \A i \in 1..n : more[i] = rows[i]
  OBVIOUS
<1>2. PICK g : Follows(g, rows, n) /\ Groups(rows) = g[n]
  BY <1>1, GroupsDef
<1> HIDE DEF n, more
<1>3. PICK h : Follows(h, more, n + 1) /\ Groups(more) = h[n + 1]
  <2>1. Len(more) \in Nat
    BY <1>1
  <2>2. \E h : Follows(h, more, Len(more)) /\ Groups(more) = h[Len(more)]
    BY <2>1, GroupsDef
  <2> QED BY <1>1, <2>2
<1> DEFINE Off == {i \in Nat : i <= n /\ g[i] # h[i]}
<1>4. Off = {}
  <2> SUFFICES ASSUME Off # {} PROVE FALSE
    OBVIOUS
  <2>1. PICK i \in Off : \A j \in Off : i <= j
    BY Least
  <2>2. i # 0 /\ i \in 1..n /\ i - 1 \in 0..n /\ i \in 0..n /\ i \in 0..(n + 1)
    BY <1>1, <1>2, <1>3, <2>1 DEF Follows
  <2>3. g[i - 1] = h[i - 1]
    <3>1. i \in Nat /\ i - 1 \in Nat /\ i - 1 <= n /\ ~(i <= i - 1)
      BY <2>2
    <3> QED BY <2>1, <3>1
  <2>4. g[i] = Grouped(g[i - 1], rows[i])
    BY <1>2, <2>2 DEF Follows
  <2>5. h[i] = Grouped(h[i - 1], more[i])
    BY <1>3, <2>2 DEF Follows
  <2> QED BY <1>1, <2>1, <2>2, <2>3, <2>4, <2>5
<1>5. g[n] = h[n] /\ n + 1 \in 0..(n + 1) /\ n + 1 # 0 /\ (n + 1) - 1 = n
  BY <1>1, <1>4
<1>6. h[n + 1] = Grouped(h[n], more[n + 1])
  BY <1>3, <1>5 DEF Follows
<1> QED BY <1>1, <1>2, <1>3, <1>5, <1>6 DEF more

\* Nothing is kept of no frame, and nothing is known of no row.
LEMMA NothingYet == Datagrams(<<>>) = <<>> /\ Groups(<<>>) = Group0
<1>1. Len(<<>>) = 0 /\ 0 \in 0..0 /\ 0 \in Nat
  OBVIOUS
<1>2. PICK g : Keeps(g, <<>>, 0) /\ Datagrams(<<>>) = g[0]
  BY <1>1, DatagramsDef
<1>3. PICK h : Follows(h, <<>>, 0) /\ Groups(<<>>) = h[0]
  BY <1>1, GroupsDef
<1> QED BY <1>1, <1>2, <1>3 DEF Keeps, Follows

\* Where a time lies in the ticks.
LEMMA TickIs ==
    ASSUME NEW k \in Nat, NEW o \in Nat, o < TickLen
    PROVE  (TickLen * k + o) \div TickLen = k /\ (TickLen * k + o) % TickLen = o
<1>1. TickLen \in Nat /\ TickLen > 0
  BY ClockAssumption
<1> QED BY <1>1

\* Datagrams of one tick are close, those of others are not, and round() counts
\* the ticks between them.
LEMMA TicksBetween ==
    ASSUME NEW p \in Nat, NEW q \in Nat, NEW a \in Nat, NEW b \in Nat, 4 * a <= TickLen, 4 * b <= TickLen,
           NEW gap \in Int, gap = (TickLen * q + b) - (TickLen * p + a)
    PROVE  /\ p = q => ~(2 * gap > TickLen)
           /\ p < q => 2 * gap > TickLen /\ Ticks(gap) = q - p
<1> DEFINE k == q - p
<1>1. TickLen \in Nat /\ TickLen > 0 /\ TickLen * q \in Nat /\ TickLen * p \in Nat
  BY ClockAssumption
<1>2. TickLen * q - TickLen * p = TickLen * k
  BY <1>1
<1>3. gap = TickLen * k + (b - a)
  BY <1>1, <1>2
<1>4. p = q => ~(2 * gap > TickLen)
  BY <1>1
<1>5. ASSUME p < q
      PROVE  2 * gap > TickLen /\ Ticks(gap) = k
  <2>1. k \in Nat /\ k - 1 \in Nat /\ TickLen * k \in Nat /\ TickLen * (k - 1) \in Nat
    BY <1>1, <1>5
  <2>2. TickLen * k = TickLen * (k - 1) + TickLen
    BY <1>1, <2>1
  <2> HIDE DEF k
  <2>3. 2 * gap > TickLen
    BY <1>1, <1>3, <2>1, <2>2
  <2>4. CASE b >= a
    <3>1. b - a \in Nat /\ b - a < TickLen /\ 2 * (b - a) < TickLen
      BY <1>1, <2>4
    <3>2. gap \div TickLen = k /\ gap % TickLen = b - a
      BY <1>3, <2>1, <3>1, TickIs
    <3> QED BY <1>1, <2>1, <2>3, <3>1, <3>2 DEF Ticks
  <2>5. CASE b < a
    <3> DEFINE e == TickLen - (a - b)
    <3>1. e \in Nat /\ e < TickLen /\ 2 * e > TickLen
      BY <1>1, <2>5
    <3>2. gap = TickLen * (k - 1) + e
      BY <1>1, <1>3, <2>1, <2>2
    <3> HIDE DEF e
    <3>3. gap \div TickLen = k - 1 /\ gap % TickLen = e
      BY <2>1, <3>1, <3>2, TickIs
    <3> QED BY <1>1, <2>1, <2>3, <3>1, <3>3 DEF Ticks
  <2> QED BY <2>3, <2>4, <2>5
<1> QED BY <1>4, <1>5

\* What has left the exporters: in the order of time, each device counting its own.
SentInv ==
    /\ tick \in Nat /\ sent \in Seq(Datagram)
    /\ \A i \in 1..Len(sent) :
         /\ Payload(sent[i]) \in Nat /\ TickOf(i) \in 0..tick
         /\ sent[i].ts = TickLen * TickOf(i) + Offset[sent[i].src]
    /\ \A i, j \in 1..Len(sent) : i < j =>
         /\ sent[i].ts < sent[j].ts
         /\ sent[i].src = sent[j].src => sent[i].seq < sent[j].seq
    /\ \A d \in Devices : Seqs(d, sent) = 0..(Cardinality(From(d, sent)) - 1)

Like(row, g) ==
    /\ row.src = g.src /\ row.seq = g.seq /\ row.ts = g.ts
    /\ row.count = g.count /\ row.template = g.template

\* The rows of the capture are datagrams that were sent, in their order.
RowsInv ==
    /\ frames \in Seq(Frame) /\ Rows \in Seq(Frame)
    /\ \A i \in 1..Len(Rows) : \E k \in 1..Len(sent) : Like(Rows[i], sent[k])
    /\ \A i, j \in 1..Len(Rows) : i < j => Rows[i].ts < Rows[j].ts

\* Device d sends g, which gives one row or none.
Exported(d, g, row) ==
    /\ g \in Datagram /\ row \in Frame /\ Like(row, g)
    /\ tick' = tick /\ sent' = Append(sent, g)
    /\ g.src = d /\ g.seq = Cardinality(From(d, sent)) /\ Payload(g) \in Nat
    /\ g.ts = TickLen * tick + Offset[d] /\ (Len(sent) > 0 => sent[Len(sent)].ts < g.ts)
    /\ frames' \in Seq(Frame) /\ Rows' \in {Rows, Append(Rows, row)}

\* A device's datagrams are finitely many.
LEMMA FromFinite ==
    ASSUME NEW d, NEW rows, Len(rows) \in Nat, DOMAIN rows = 1..Len(rows)
    PROVE  IsFiniteSet(From(d, rows)) /\ Cardinality(From(d, rows)) \in Nat /\ From(d, rows) \subseteq 1..Len(rows)
<1>1. IsFiniteSet(1..Len(rows)) /\ From(d, rows) \in SUBSET (1..Len(rows))
  BY FS_Interval DEF From
<1> QED BY <1>1, FS_Subset, FS_CardinalityType

\* What Export does to the datagrams and the rows, whatever the capture loses.
LEMMA ExportIs ==
    ASSUME SentInv, RowsInv, NEW d \in Devices, Export(d)
    PROVE  \E g, row : Exported(d, g, row)
<1>1. PICK amount \in {0, Burst[d]} :
        LET g == NextDatagram(d, amount) IN
        /\ sent' = Append(sent, g)
        /\ frames' \in {frames \o FramesOf(g), frames \o <<>>, frames \o Tail(FramesOf(g)), frames \o <<Head(FramesOf(g))>>}
  BY DEF Export
<1>2. tick' = tick /\ (sent # <<>> => sent[Len(sent)].ts < TickLen * tick + Offset[d])
  BY DEF Export
<1>3. amount \in Nat /\ Offset[d] \in Nat /\ TickLen \in Nat /\ Refresh \in Nat /\ Refresh > 0
  BY FleetAssumption, ClockAssumption
<1>4. tick \in Nat /\ sent \in Seq(Datagram) /\ frames \in Seq(Frame) /\ Rows \in Seq(Frame)
  BY DEF SentInv, RowsInv
<1>5. Cardinality(From(d, sent)) \in Nat
  BY <1>4, FromFinite
<1> DEFINE g == NextDatagram(d, amount)
           row == [ts |-> g.ts, src |-> g.src, count |-> g.count, template |-> g.template, seq |-> g.seq, first |-> TRUE]
           rest == [ts |-> g.ts, src |-> g.src, count |-> g.count, template |-> g.template, seq |-> g.seq, first |-> FALSE]
<1>6. g \in Datagram /\ Payload(g) = amount /\ g.src = d /\ g.seq = Cardinality(From(d, sent))
      /\ g.ts = TickLen * tick + Offset[d]
  <2>1. TickLen * tick + Offset[d] \in Nat
    BY <1>3, <1>4
  <2> DEFINE c == Cardinality(From(d, sent))
             template == c % Refresh = 0
             count == amount + (IF template THEN 1 ELSE 0)
  <2>2. template \in BOOLEAN /\ count \in Nat /\ count - (IF template THEN 1 ELSE 0) = amount
    BY <1>3
  <2>3. g = [ts |-> TickLen * tick + Offset[d], src |-> d, seq |-> c, template |-> template, count |-> count]
    BY DEF NextDatagram
  <2> HIDE DEF g, c, template, count
  <2>4. c \in Nat
    BY <1>5 DEF c
  <2>5. g \in Datagram /\ Payload(g) = amount /\ g.src = d /\ g.seq = c /\ g.ts = TickLen * tick + Offset[d]
    BY <2>1, <2>2, <2>3, <2>4 DEF Datagram, Payload
  <2> QED BY <2>5 DEF c
<1>7. FramesOf(g) = IF Payload(g) > 1 THEN <<row, rest>> ELSE <<row>>
  BY DEF FramesOf
<1>8. sent' = Append(sent, g)
  BY <1>1
<1>9. frames' \in {frames \o FramesOf(g), frames \o <<>>, frames \o Tail(FramesOf(g)), frames \o <<Head(FramesOf(g))>>}
  BY <1>1
<1> HIDE DEF g
<1>10. row \in Frame /\ rest \in Frame /\ Like(row, g) /\ row.first /\ ~rest.first
  BY <1>6 DEF Frame, Datagram, Like
<1> HIDE DEF row, rest
<1>11. frames' \in {frames, Append(frames, row), Append(frames, rest), Append(Append(frames, row), rest)}
  <2>1. FramesOf(g) \in {<<row, rest>>, <<row>>}
    BY <1>7
  <2>2. /\ frames \o <<row, rest>> = Append(Append(frames, row), rest)
        /\ frames \o <<row>> = Append(frames, row) /\ frames \o <<rest>> = Append(frames, rest)
        /\ frames \o <<>> = frames
    BY <1>4, <1>10
  <2>3. /\ Tail(<<row, rest>>) = <<rest>> /\ Tail(<<row>>) = <<>>
        /\ Head(<<row, rest>>) = row /\ Head(<<row>>) = row
    OBVIOUS
  <2> QED BY <1>9, <2>1, <2>2, <2>3
<1>12. /\ Datagrams(Append(frames, row)) = Append(Datagrams(frames), row)
       /\ Datagrams(Append(frames, rest)) = Datagrams(frames)
       /\ Append(frames, row) \in Seq(Frame) /\ Append(frames, rest) \in Seq(Frame)
  BY <1>4, <1>10, DatagramsStep
<1>13. Datagrams(Append(Append(frames, row), rest)) = Append(Datagrams(frames), row)
       /\ Append(Append(frames, row), rest) \in Seq(Frame)
  <2> DEFINE one == Append(frames, row)
  <2>1. one \in Seq(Frame) /\ Datagrams(one) = Append(Datagrams(frames), row)
    BY <1>12
  <2> HIDE DEF one
  <2>2. Datagrams(Append(one, rest)) = Datagrams(one) /\ Append(one, rest) \in Seq(Frame)
    BY <1>10, <2>1, DatagramsStep
  <2> QED BY <2>1, <2>2 DEF one
<1>14. frames' \in Seq(Frame) /\ Rows' \in {Rows, Append(Rows, row)}
  BY <1>4, <1>11, <1>12, <1>13 DEF Rows
<1>15. Len(sent) > 0 => sent[Len(sent)].ts < g.ts
  BY <1>2, <1>4, <1>6
<1> QED BY <1>2, <1>3, <1>6, <1>8, <1>10, <1>14, <1>15 DEF Exported

\* What one more datagram, and perhaps a row, adds.
LEMMA ExportedIs ==
    ASSUME SentInv, RowsInv, NEW d \in Devices, NEW g, NEW row, Exported(d, g, row)
    PROVE  /\ Len(sent) \in Nat /\ Len(sent') = Len(sent) + 1 /\ sent' \in Seq(Datagram)
           /\ DOMAIN sent = 1..Len(sent) /\ DOMAIN sent' = 1..(Len(sent) + 1)
           /\ sent'[Len(sent) + 1] = g /\ \A i \in 1..Len(sent) : sent'[i] = sent[i] /\ sent[i] \in Datagram
           /\ Len(Rows) \in Nat /\ DOMAIN Rows = 1..Len(Rows) /\ Rows' \in Seq(Frame)
           /\ Rows' # Rows =>
                /\ Len(Rows') = Len(Rows) + 1 /\ DOMAIN Rows' = 1..(Len(Rows) + 1)
                /\ Rows'[Len(Rows) + 1] = row /\ \A i \in 1..Len(Rows) : Rows'[i] = Rows[i]
<1>1. sent \in Seq(Datagram) /\ g \in Datagram /\ sent' = Append(sent, g)
  BY DEF SentInv, Exported
<1>2. Rows \in Seq(Frame) /\ row \in Frame /\ Rows' \in {Rows, Append(Rows, row)}
  BY DEF RowsInv, Exported
<1>3. /\ Len(sent) \in Nat /\ Len(sent') = Len(sent) + 1 /\ sent' \in Seq(Datagram)
      /\ DOMAIN sent = 1..Len(sent) /\ DOMAIN sent' = 1..(Len(sent) + 1)
      /\ sent'[Len(sent) + 1] = g /\ \A i \in 1..Len(sent) : sent'[i] = sent[i] /\ sent[i] \in Datagram
  BY <1>1
<1>4. Len(Rows) \in Nat /\ DOMAIN Rows = 1..Len(Rows)
  BY <1>2
<1> DEFINE S == Rows
           T == Rows'
<1> HIDE DEF S, T
<1>5. ASSUME T # S
      PROVE  /\ Len(T) = Len(S) + 1 /\ DOMAIN T = 1..(Len(S) + 1)
             /\ T[Len(S) + 1] = row /\ \A i \in 1..Len(S) : T[i] = S[i]
  <2>1. S \in Seq(Frame) /\ T = Append(S, row)
    BY <1>2, <1>5 DEF S, T
  <2> QED BY <1>2, <2>1
<1>6. Rows' \in Seq(Frame)
  BY <1>2
<1> QED BY <1>3, <1>4, <1>5, <1>6 DEF S, T

\* The tick a datagram leaves in.
LEMMA TickOfNew ==
    ASSUME SentInv, RowsInv, NEW d \in Devices, NEW g, NEW row, Exported(d, g, row)
    PROVE  /\ g.ts \div TickLen = tick /\ \A i \in 1..Len(sent) : TickOf(i)' = TickOf(i)
           /\ \A i : i = Len(sent) + 1 => TickOf(i)' = tick
           /\ g.ts = TickLen * tick + Offset[d]
<1>1. Offset[d] \in Nat /\ Offset[d] < TickLen /\ tick \in Nat
  BY ClockAssumption DEF SentInv
<1>2. g.ts = TickLen * tick + Offset[d]
  BY DEF Exported
<1>3. g.ts \div TickLen = tick
  BY <1>1, <1>2, TickIs
<1> QED BY <1>2, <1>3, ExportedIs DEF TickOf

\* The datagrams of each device after one more.
LEMMA FromNew ==
    ASSUME SentInv, RowsInv, NEW d \in Devices, NEW g, NEW row, Exported(d, g, row), NEW e \in Devices
    PROVE  /\ From(e, sent)' = From(e, sent) \cup (IF e = d THEN {Len(sent) + 1} ELSE {})
           /\ Cardinality(From(e, sent)') = Cardinality(From(e, sent)) + (IF e = d THEN 1 ELSE 0)
           /\ Cardinality(From(e, sent)) \in Nat
<1>1. /\ Len(sent) \in Nat /\ DOMAIN sent = 1..Len(sent) /\ DOMAIN sent' = 1..(Len(sent) + 1)
      /\ sent'[Len(sent) + 1].src = d /\ \A i \in 1..Len(sent) : sent'[i] = sent[i]
  BY ExportedIs DEF Exported
<1>2. From(e, sent)' = From(e, sent) \cup (IF e = d THEN {Len(sent) + 1} ELSE {})
  <2>1. \A i : i \in 1..(Len(sent) + 1) <=> i \in 1..Len(sent) \/ i = Len(sent) + 1
    BY <1>1
  <2> QED BY <1>1, <2>1 DEF From
<1>3. IsFiniteSet(From(e, sent)) /\ Cardinality(From(e, sent)) \in Nat /\ Len(sent) + 1 \notin From(e, sent)
  <2>1. Len(sent) + 1 \notin 1..Len(sent)
    BY <1>1
  <2> QED BY <1>1, <2>1, FromFinite
<1>4. Cardinality(From(e, sent) \cup {Len(sent) + 1}) = Cardinality(From(e, sent)) + 1
  BY <1>3, FS_AddElement
<1>5. CASE e = d
  BY <1>2, <1>3, <1>4, <1>5
<1>6. CASE e # d
  BY <1>2, <1>3, <1>6
<1> QED BY <1>5, <1>6, <1>2, <1>3

\* SentInv is kept when a device sends.
LEMMA SentKeeps ==
    ASSUME SentInv, RowsInv, NEW d \in Devices, NEW g, NEW row, Exported(d, g, row)
    PROVE  SentInv'
<1> DEFINE n == Len(sent)
<1>1. /\ n \in Nat /\ Len(sent') = n + 1 /\ sent' \in Seq(Datagram)
      /\ sent'[n + 1] = g /\ \A i \in 1..n : sent'[i] = sent[i] /\ sent[i] \in Datagram
  BY ExportedIs
<1>2. \A i : i \in 1..(n + 1) <=> i \in 1..n \/ i = n + 1
  BY <1>1
<1>3. (\A i : i = n + 1 => TickOf(i)' = tick) /\ (\A i \in 1..n : TickOf(i)' = TickOf(i)) /\ g.ts = TickLen * tick + Offset[d]
  BY TickOfNew
<1>4. /\ tick' = tick /\ g.src = d /\ g.seq = Cardinality(From(d, sent)) /\ Payload(g) \in Nat
      /\ (n > 0 => sent[n].ts < g.ts) /\ g \in Datagram
  BY DEF Exported
<1>5. tick \in Nat
  BY DEF SentInv
<1> HIDE DEF n
<1>6. ASSUME NEW i \in 1..(n + 1)
      PROVE  /\ Payload(sent'[i]) \in Nat /\ TickOf(i)' \in 0..tick
             /\ sent'[i].ts = TickLen * TickOf(i)' + Offset[sent'[i].src]
  <2>1. CASE i = n + 1
    BY <1>1, <1>3, <1>4, <1>5, <2>1
  <2>2. CASE i \in 1..n
    <3>1. Payload(sent[i]) \in Nat /\ TickOf(i) \in 0..tick /\ sent[i].ts = TickLen * TickOf(i) + Offset[sent[i].src]
      BY <2>2 DEF SentInv, n
    <3> QED BY <1>1, <1>3, <2>2, <3>1
  <2> QED BY <1>2, <2>1, <2>2
<1>7. ASSUME NEW i \in 1..(n + 1), NEW j \in 1..(n + 1), i < j
      PROVE  sent'[i].ts < sent'[j].ts /\ (sent'[i].src = sent'[j].src => sent'[i].seq < sent'[j].seq)
  <2>1. i \in 1..n /\ n > 0 /\ n \in 1..n
    BY <1>1, <1>7
  <2>2. CASE j \in 1..n
    <3>1. sent[i].ts < sent[j].ts /\ (sent[i].src = sent[j].src => sent[i].seq < sent[j].seq)
      BY <1>7, <2>1, <2>2 DEF SentInv, n
    <3> QED BY <1>1, <2>1, <2>2, <3>1
  <2>3. CASE j = n + 1
    <3>1. sent[i].ts <= sent[n].ts /\ sent[i].ts \in Nat /\ sent[n].ts \in Nat /\ g.ts \in Nat
      <4>1. sent[i].ts \in Nat /\ sent[n].ts \in Nat /\ g.ts \in Nat
        BY <1>1, <1>4, <2>1 DEF Datagram
      <4>2. CASE i = n
        BY <4>1, <4>2
      <4>3. CASE i # n
        <5>1. i < n
          BY <1>1, <2>1, <4>3
        <5>2. sent[i].ts < sent[n].ts
          BY <2>1, <5>1 DEF SentInv, n
        <5> QED BY <4>1, <5>2
      <4> QED BY <4>1, <4>2, <4>3
    <3>2. sent[i].ts < g.ts
      BY <1>4, <2>1, <3>1
    <3>3. ASSUME sent[i].src = d
          PROVE  sent[i].seq < g.seq
      <4>1. i \in From(d, sent)
        BY <2>1, <3>3, ExportedIs DEF From, n
      <4>2. sent[i].seq \in Seqs(d, sent)
        BY <4>1 DEF Seqs
      <4>3. sent[i].seq \in 0..(Cardinality(From(d, sent)) - 1) /\ Cardinality(From(d, sent)) \in Nat
        BY <4>2, FromNew DEF SentInv
      <4> QED BY <1>4, <4>3
    <3> QED BY <1>1, <1>4, <2>1, <2>3, <3>2, <3>3
  <2> QED BY <1>2, <2>2, <2>3
<1>8. ASSUME NEW e \in Devices
      PROVE  Seqs(e, sent)' = 0..(Cardinality(From(e, sent)') - 1)
  <2> DEFINE F == From(e, sent)
             c == Cardinality(From(e, sent))
  <2>1. From(e, sent)' = F \cup (IF e = d THEN {n + 1} ELSE {}) /\ c \in Nat
        /\ Cardinality(From(e, sent)') = c + (IF e = d THEN 1 ELSE 0)
    BY FromNew DEF n
  <2>2. Seqs(e, sent) = 0..(c - 1)
    BY DEF SentInv
  <2>3. F \subseteq 1..n
    BY ExportedIs DEF From, n
  <2>4. Seqs(e, sent)' = {sent'[i].seq : i \in From(e, sent)'} /\ Seqs(e, sent) = {sent[i].seq : i \in F}
    BY DEF Seqs
  <2> DEFINE G == From(e, sent)'
  <2>5. e = d => g.seq = c
    BY <1>4
  <2> HIDE DEF F, c, G
  <2>6. CASE e = d
    <3>1. Seqs(e, sent)' = Seqs(e, sent) \cup {c}
      <4>1. G = F \cup {n + 1} /\ Seqs(e, sent)' = {sent'[i].seq : i \in G} /\ sent'[n + 1].seq = c
        BY <1>1, <2>1, <2>4, <2>5, <2>6 DEF G
      <4>2. \A i \in F : sent'[i].seq = sent[i].seq
        BY <1>1, <2>3
      <4> HIDE DEF G
      <4> QED BY <2>4, <4>1, <4>2
    <3>2. 0..(c - 1) \cup {c} = 0..c /\ (c + 1) - 1 = c
      BY <2>1
    <3> QED BY <2>1, <2>2, <2>6, <3>1, <3>2
  <2>7. CASE e # d
    <3>1. Seqs(e, sent)' = Seqs(e, sent)
      BY <1>1, <2>1, <2>3, <2>4, <2>7 DEF G
    <3> QED BY <2>1, <2>2, <2>7, <3>1
  <2> QED BY <2>6, <2>7
<1>9. \A e \in Devices : Seqs(e, sent)' = 0..(Cardinality(From(e, sent)') - 1)
  BY <1>8
<1> QED BY <1>1, <1>4, <1>5, <1>6, <1>7, <1>9 DEF SentInv

\* RowsInv is kept when a device sends.
LEMMA RowsKeeps ==
    ASSUME SentInv, RowsInv, NEW d \in Devices, NEW g, NEW row, Exported(d, g, row)
    PROVE  RowsInv'
<1> DEFINE n == Len(sent)
           m == Len(Rows)
<1>1. /\ n \in Nat /\ Len(sent') = n + 1
      /\ sent'[n + 1] = g /\ \A i \in 1..n : sent'[i] = sent[i] /\ sent[i] \in Datagram
      /\ m \in Nat /\ Rows' \in Seq(Frame)
      /\ Rows' # Rows => Len(Rows') = m + 1 /\ Rows'[m + 1] = row /\ \A i \in 1..m : Rows'[i] = Rows[i]
  BY ExportedIs
<1>2. Like(row, g) /\ frames' \in Seq(Frame) /\ g \in Datagram /\ (n > 0 => sent[n].ts < g.ts)
  BY DEF Exported
<1>3. /\ \A i \in 1..m : \E k \in 1..n : Like(Rows[i], sent[k])
      /\ \A i, j \in 1..m : i < j => Rows[i].ts < Rows[j].ts
      /\ \A i, j \in 1..n : i < j => sent[i].ts < sent[j].ts
  BY DEF RowsInv, SentInv
<1>4. \A k \in 1..n : sent[k].ts < g.ts
  <2> TAKE k \in 1..n
  <2>1. n > 0 /\ n \in 1..n /\ (k < n \/ k = n)
    BY <1>1
  <2>2. sent[k].ts \in Nat /\ sent[n].ts \in Nat /\ g.ts \in Nat
    BY <1>1, <1>2, <2>1 DEF Datagram
  <2>3. sent[n].ts < g.ts /\ (k < n => sent[k].ts < sent[n].ts)
    BY <1>2, <1>3, <2>1
  <2> HIDE DEF n
  <2> QED BY <2>1, <2>2, <2>3
<1> HIDE DEF n, m
<1>5. \A k \in 1..n : k \in 1..(n + 1) /\ sent'[k] = sent[k]
  BY <1>1
<1>6. n + 1 \in 1..(n + 1)
  BY <1>1
<1>7. CASE Rows' = Rows
  <2>1. \A i \in 1..m : \E k \in 1..(n + 1) : Like(Rows[i], sent'[k])
    BY <1>3, <1>5
  <2> QED BY <1>1, <1>2, <1>3, <1>7, <2>1 DEF RowsInv, m
<1>8. CASE Rows' # Rows
  <2>1. ASSUME NEW i \in 1..(m + 1)
        PROVE  \E k \in 1..(n + 1) : Like(Rows'[i], sent'[k])
    <3>1. CASE i = m + 1
      BY <1>1, <1>2, <1>6, <1>8, <3>1
    <3>2. CASE i # m + 1
      <4>1. i \in 1..m
        BY <1>1, <3>2
      <4> QED BY <1>1, <1>3, <1>5, <1>8, <4>1
    <3> QED BY <3>1, <3>2
  <2>2. ASSUME NEW i \in 1..(m + 1), NEW j \in 1..(m + 1), i < j
        PROVE  Rows'[i].ts < Rows'[j].ts
    <3>1. i \in 1..m
      BY <1>1, <2>2
    <3>2. CASE j = m + 1
      <4>1. PICK k \in 1..n : Like(Rows[i], sent[k])
        BY <1>3, <3>1
      <4> QED BY <1>1, <1>2, <1>4, <1>8, <3>1, <3>2, <4>1 DEF Like
    <3>3. CASE j # m + 1
      <4>1. j \in 1..m
        BY <1>1, <3>3
      <4> QED BY <1>1, <1>3, <1>8, <2>2, <3>1, <4>1
    <3> QED BY <3>2, <3>3
  <2> QED BY <1>1, <1>2, <1>8, <2>1, <2>2 DEF RowsInv
<1> QED BY <1>7, <1>8

\* Two datagrams of a device have different numbers.
LEMMA SeqApart ==
    ASSUME SentInv, NEW i \in 1..Len(sent), NEW j \in 1..Len(sent),
           sent[i].src = sent[j].src, sent[i].seq = sent[j].seq
    PROVE  i = j
<1>0. Len(sent) \in Nat /\ sent[i] \in Datagram /\ sent[j] \in Datagram
  BY DEF SentInv
<1>1. sent[i].seq \in Nat /\ sent[j].seq \in Nat
  BY <1>0 DEF Datagram
<1>2. (i < j => sent[i].seq < sent[j].seq) /\ (j < i => sent[j].seq < sent[i].seq)
  BY DEF SentInv
<1> QED BY <1>0, <1>1, <1>2

\* A datagram is in the capture when a row is like it.
LEMMA CapturedIs ==
    ASSUME SentInv, RowsInv, NEW i \in 1..Len(sent)
    PROVE  Captured(sent[i]) <=> \E k \in 1..Len(Rows) : Like(Rows[k], sent[i])
<1>1. DOMAIN Rows = 1..Len(Rows)
  BY DEF RowsInv
<1>2. Captured(sent[i]) <=> \E k \in 1..Len(Rows) : Rows[k].src = sent[i].src /\ Rows[k].seq = sent[i].seq
  BY <1>1 DEF Captured, Range
<1>3. ASSUME NEW k \in 1..Len(Rows), Rows[k].src = sent[i].src, Rows[k].seq = sent[i].seq
      PROVE  Like(Rows[k], sent[i])
  <2>1. PICK j \in 1..Len(sent) : Like(Rows[k], sent[j])
    BY DEF RowsInv
  <2>2. i = j
    BY <1>3, <2>1, SeqApart DEF Like
  <2> QED BY <2>1, <2>2
<1> QED BY <1>2, <1>3 DEF Like

\* What is captured stays so, what is lost stays lost.
LEMMA CapturedNew ==
    ASSUME SentInv, RowsInv, NEW d \in Devices, NEW g, NEW row, Exported(d, g, row)
    PROVE  /\ \A i \in 1..Len(sent) : Captured(sent[i])' <=> Captured(sent[i])
           /\ \A i : i = Len(sent) + 1 => (Captured(sent[i])' <=> Rows' # Rows)
<1> DEFINE n == Len(sent)
           m == Len(Rows)
           S == Rows
           T == Rows'
<1>1. /\ n \in Nat /\ Len(sent') = n + 1 /\ sent'[n + 1] = g /\ \A i \in 1..n : sent'[i] = sent[i]
      /\ m \in Nat /\ DOMAIN S = 1..m
      /\ T # S => DOMAIN T = 1..(m + 1) /\ T[m + 1] = row /\ \A i \in 1..m : T[i] = S[i]
  BY ExportedIs
<1>2. SentInv'
  BY SentKeeps
<1>3. Like(row, g)
  BY DEF Exported
<1>4. \A i \in 1..n : sent[i].src = g.src => sent[i].seq # g.seq
  <2> TAKE i \in 1..n
  <2>1. i \in 1..(n + 1) /\ n + 1 \in 1..(n + 1) /\ i < n + 1
    BY <1>1
  <2>2. sent'[i].src = sent'[n + 1].src => sent'[i].seq < sent'[n + 1].seq
    <3> HIDE DEF n
    <3> QED BY <1>1, <1>2, <2>1 DEF SentInv
  <2>0. sent[i] \in Datagram
    BY DEF SentInv
  <2>3. sent[i].seq \in Nat
    BY <2>0 DEF Datagram
  <2>4. sent'[i] = sent[i] /\ sent'[n + 1] = g
    BY <1>1
  <2> HIDE DEF n
  <2>5. ASSUME sent[i].src = g.src PROVE sent[i].seq < g.seq
    BY <2>2, <2>4, <2>5
  <2> QED BY <2>3, <2>5
<1>5. \A k \in 1..m : \E i \in 1..n : Like(S[k], sent[i])
  BY DEF RowsInv
<1>6. \A i : Captured(sent[i])' <=> \E k \in DOMAIN T : T[k].src = sent'[i].src /\ T[k].seq = sent'[i].seq
  BY DEF Captured, Range
<1>7. \A i : Captured(sent[i]) <=> \E k \in DOMAIN S : S[k].src = sent[i].src /\ S[k].seq = sent[i].seq
  BY DEF Captured, Range
<1> HIDE DEF n, m, S, T
<1>8. \A i \in 1..n : Captured(sent[i])' <=> Captured(sent[i])
  <2> TAKE i \in 1..n
  <2>1. CASE T = S
    BY <1>1, <1>6, <1>7, <2>1
  <2>2. CASE T # S
    <3>1. ~(row.src = sent[i].src /\ row.seq = sent[i].seq)
      BY <1>3, <1>4 DEF Like
    <3>2. \A k : k \in 1..(m + 1) <=> k \in 1..m \/ k = m + 1
      BY <1>1
    <3> QED BY <1>1, <1>6, <1>7, <2>2, <3>1, <3>2
  <2> QED BY <2>1, <2>2
<1>9. ASSUME NEW i, i = n + 1 PROVE Captured(sent[i])' <=> T # S
  <2>1. CASE T = S
    <3>1. \A k \in 1..m : ~(S[k].src = g.src /\ S[k].seq = g.seq)
      BY <1>4, <1>5 DEF Like
    <3> QED BY <1>1, <1>6, <1>9, <2>1, <3>1
  <2>2. CASE T # S
    <3>1. m + 1 \in DOMAIN T
      BY <1>1, <2>2
    <3> QED BY <1>1, <1>3, <1>6, <1>9, <2>2, <3>1 DEF Like
  <2> QED BY <2>1, <2>2
<1> QED BY <1>8, <1>9 DEF n, S, T

\* While nothing is lost the rows are the datagrams.
WholeInv ==
    (\A i \in 1..Len(sent) : Captured(sent[i])) =>
        Len(Rows) = Len(sent) /\ \A i \in 1..Len(sent) : Like(Rows[i], sent[i])

\* It does, whether the new datagram is captured or not.
LEMMA WholeKeeps ==
    ASSUME SentInv, RowsInv, WholeInv, NEW d \in Devices, NEW g, NEW row, Exported(d, g, row)
    PROVE  WholeInv'
<1> DEFINE n == Len(sent)
           S == Rows
           T == Rows'
<1>1. /\ n \in Nat /\ Len(sent') = n + 1 /\ sent'[n + 1] = g /\ \A i \in 1..n : sent'[i] = sent[i]
      /\ T # S => Len(T) = Len(S) + 1 /\ T[Len(S) + 1] = row /\ \A i \in 1..Len(S) : T[i] = S[i]
  BY ExportedIs
<1>2. Like(row, g)
  BY DEF Exported
<1>3. /\ \A i \in 1..n : Captured(sent[i])' <=> Captured(sent[i])
      /\ \A i : i = n + 1 => (Captured(sent[i])' <=> T # S)
  BY CapturedNew
<1>4. (\A i \in 1..n : Captured(sent[i])) => Len(S) = n /\ \A i \in 1..n : Like(S[i], sent[i])
  BY DEF WholeInv
<1> HIDE DEF n, S, T
<1>5. ASSUME \A i \in 1..(n + 1) : Captured(sent[i])'
      PROVE  Len(T) = n + 1 /\ \A i \in 1..(n + 1) : Like(T[i], sent'[i])
  <2>1. n + 1 \in 1..(n + 1) /\ \A i \in 1..n : i \in 1..(n + 1)
    BY <1>1
  <2>2. T # S /\ \A i \in 1..n : Captured(sent[i])
    BY <1>3, <1>5, <2>1
  <2>3. Len(S) = n /\ \A i \in 1..n : Like(S[i], sent[i])
    BY <1>4, <2>2
  <2>4. \A i \in 1..n : T[i] = S[i] /\ sent'[i] = sent[i]
    BY <1>1, <2>2, <2>3
  <2>5. T[n + 1] = row /\ sent'[n + 1] = g /\ Len(T) = n + 1
    BY <1>1, <2>2, <2>3
  <2>6. \A i \in 1..(n + 1) : i \in 1..n \/ i = n + 1
    BY <1>1
  <2> QED BY <1>2, <2>3, <2>4, <2>5, <2>6
<1>6. (\A i \in 1..(n + 1) : Captured(sent[i])') => Len(T) = n + 1 /\ \A i \in 1..(n + 1) : Like(T[i], sent'[i])
  BY <1>5
<1> QED BY <1>1, <1>6 DEF WholeInv, T

\* The verdict of reconcile-report.py on such a capture.
LEMMA WholeIsRight ==
    ASSUME SentInv, RowsInv, WholeInv
    PROVE  VerdictIsRight
<1> DEFINE n == Len(sent)
<1>1. n \in Nat /\ DOMAIN sent = 1..n /\ DOMAIN Rows = 1..Len(Rows) /\ \A i \in 1..n : sent[i] \in Datagram
  BY DEF SentInv, RowsInv
<1> SUFFICES ASSUME \A i \in DOMAIN sent : Captured(sent[i])
             PROVE  Exact(Rows) <=> RightLedger
  BY DEF VerdictIsRight
<1>2. DOMAIN Rows = 1..n /\ \A i \in 1..n : Like(Rows[i], sent[i])
  BY <1>1 DEF WholeInv
<1>3. \A i \in 1..n : DataRecords(Rows[i]) = Payload(sent[i])
  BY <1>1, <1>2 DEF Like, DataRecords, Payload, Datagram
<1>4. [i \in DOMAIN Rows |-> DataRecords(Rows[i])] = [i \in DOMAIN sent |-> Payload(sent[i])]
  BY <1>1, <1>2, <1>3
<1>5. \A S : Total(Rows, S) = Left(S)
  BY <1>4 DEF Total, Left
<1>6. T0 \in Nat /\ T1 \in Nat /\ DrainEnd \in Nat
  BY ClockAssumption
<1>7. \A i \in 1..n : /\ InWindow(Rows[i]) <=> sent[i].ts \in T0..(T1 - 1)
                      /\ InDrain(Rows[i]) <=> sent[i].ts \in T1..(DrainEnd - 1)
  <2> TAKE i \in 1..n
  <2>1. Rows[i].ts = sent[i].ts /\ sent[i].ts \in Nat
    BY <1>1, <1>2 DEF Like, Datagram
  <2> QED BY <1>6, <2>1 DEF InWindow, InDrain
<1>8. /\ {i \in DOMAIN Rows : InWindow(Rows[i])} = {i \in DOMAIN sent : sent[i].ts \in T0..(T1 - 1)}
      /\ {i \in DOMAIN Rows : InDrain(Rows[i])} = {i \in DOMAIN sent : sent[i].ts \in T1..(DrainEnd - 1)}
  BY <1>1, <1>2, <1>7
<1>9. ASSUME NEW d \in Devices PROVE PerSource(d, Rows) = SentIn(d)
  <2>1. From(d, Rows) = From(d, sent) /\ From(d, sent) \subseteq 1..n
    BY <1>1, <1>2 DEF From, Like
  <2>2. {i \in From(d, Rows) : InWindow(Rows[i])} = {i \in From(d, sent) : sent[i].ts \in T0..(T1 - 1)}
    BY <1>7, <2>1
  <2> QED BY <1>5, <2>2 DEF PerSource, SentIn
<1>10. Mismatched(Rows) = {} <=> \A d \in Devices : ledger.in_window[d] = SentIn(d)
  BY <1>9 DEF Mismatched
<1> QED BY <1>5, <1>8, <1>10 DEF Exact, RightLedger

\* The numbers of a device's rows are those of its datagrams in the capture.
LEMMA SeqsAre ==
    ASSUME SentInv, RowsInv, NEW d \in Devices
    PROVE  \A x : x \in Seqs(d, Rows) <=> \E i \in 1..Len(sent) : sent[i].src = d /\ sent[i].seq = x /\ Captured(sent[i])
<1>1. DOMAIN Rows = 1..Len(Rows) /\ \A k \in 1..Len(Rows) : \E i \in 1..Len(sent) : Like(Rows[k], sent[i])
  BY DEF RowsInv
<1>2. \A x : x \in Seqs(d, Rows) <=> \E k \in 1..Len(Rows) : Rows[k].src = d /\ Rows[k].seq = x
  BY <1>1 DEF Seqs, From
<1>3. \A i \in 1..Len(sent) : Captured(sent[i]) <=> \E k \in 1..Len(Rows) : Like(Rows[k], sent[i])
  BY CapturedIs
<1> QED BY <1>1, <1>2, <1>3 DEF Like

\* A device has as many rows as numbers.
LEMMA SeqsCount ==
    ASSUME SentInv, RowsInv, NEW d \in Devices
    PROVE  /\ IsFiniteSet(Seqs(d, Rows)) /\ Seqs(d, Rows) \in SUBSET Nat
           /\ Cardinality(Seqs(d, Rows)) = Cardinality(From(d, Rows)) /\ Cardinality(From(d, Rows)) \in Nat
<1> DEFINE P == From(d, Rows)
           Q == Seqs(d, Rows)
           f == [k \in P |-> Rows[k].seq]
<1>1. Len(Rows) \in Nat /\ DOMAIN Rows = 1..Len(Rows) /\ Rows \in Seq(Frame)
  BY DEF RowsInv
<1>2. IsFiniteSet(P) /\ Cardinality(P) \in Nat /\ P \subseteq 1..Len(Rows)
  BY <1>1, FromFinite
<1>3. Q = {Rows[k].seq : k \in P} /\ \A k \in P : Rows[k].src = d
  BY DEF Seqs, From
<1>4. Q \in SUBSET Nat
  <2>1. \A k \in 1..Len(Rows) : Rows[k] \in Frame
    BY <1>1
  <2> HIDE DEF P, Q
  <2> QED BY <1>2, <1>3, <2>1 DEF Frame
<1>5. ASSUME NEW k \in P, NEW l \in P, Rows[k].seq = Rows[l].seq PROVE k = l
  <2>1. k \in 1..Len(Rows) /\ l \in 1..Len(Rows)
    BY <1>2
  <2>2. PICK i \in 1..Len(sent) : Like(Rows[k], sent[i])
    BY <2>1 DEF RowsInv
  <2>3. PICK j \in 1..Len(sent) : Like(Rows[l], sent[j])
    BY <2>1 DEF RowsInv
  <2>4. i = j
    BY <1>3, <1>5, <2>2, <2>3, SeqApart DEF Like
  <2>5. Rows[k].ts = Rows[l].ts /\ Rows[k] \in Frame /\ Rows[l] \in Frame
    BY <1>1, <2>1, <2>2, <2>3, <2>4 DEF Like
  <2>6. ~(Rows[k].ts < Rows[l].ts) /\ ~(Rows[l].ts < Rows[k].ts)
    BY <2>5 DEF Frame
  <2>7. ~(k < l) /\ ~(l < k)
    BY <2>1, <2>6 DEF RowsInv
  <2> QED BY <1>1, <2>1, <2>7
<1> HIDE DEF P, Q
<1>6. f \in Surjection(P, Q) /\ f \in Injection(P, Q)
  BY <1>3, <1>5 DEF Surjection, Injection, IsInjective
<1>7. IsFiniteSet(Q) /\ Cardinality(Q) = Cardinality(P)
  <2> HIDE DEF f
  <2> QED BY <1>2, <1>6, FS_Surjection
<1> QED BY <1>2, <1>4, <1>7 DEF P, Q

\* The datagrams missing of a device are holes in its numbers.
LEMMA MissingIs ==
    ASSUME SentInv, RowsInv, NEW d \in Devices
    PROVE  /\ Missing(d, Rows) \in Nat
           /\ Missing(d, Rows) > 0 <=>
                \E a, b \in Seqs(d, Rows) : \E x \in Nat : a < x /\ x < b /\ x \notin Seqs(d, Rows)
<1> DEFINE P == From(d, Rows)
           Q == Seqs(d, Rows)
           c == Cardinality(From(d, Rows))
<1>1. IsFiniteSet(Q) /\ Q \in SUBSET Nat /\ Cardinality(Q) = c /\ c \in Nat
  BY SeqsCount
<1>2. Missing(d, Rows) = IF c <= 1 THEN 0 ELSE Max(Q) - Min(Q) + 1 - c
  BY DEF Missing
<1> HIDE DEF P, Q, c
<1>3. CASE c <= 1
  <2>1. c = 0 \/ c = 1
    BY <1>1, <1>3
  <2>2. Q = {} \/ \E x : Q = {x}
    BY <1>1, <2>1, FS_EmptySet, FS_Singleton
  <2>3. \A a, b \in Q : ~(\E x \in Nat : a < x /\ x < b)
    BY <1>1, <2>2
  <2> QED BY <1>2, <1>3, <2>3 DEF Q
<1>4. CASE c > 1
  <2>1. Q # {}
    BY <1>1, <1>4, FS_EmptySet
  <2> DEFINE lo == Min(Q)
             hi == Max(Q)
  <2>2. lo \in Q /\ hi \in Q /\ \A x \in Q : lo <= x /\ x <= hi
    BY <1>1, <2>1, Extremes
  <2> HIDE DEF lo, hi
  <2>3. lo \in Nat /\ hi \in Nat /\ lo <= hi /\ Q \in SUBSET (lo..hi)
    BY <1>1, <2>2
  <2>4. IsFiniteSet(lo..hi) /\ Cardinality(lo..hi) = hi - lo + 1
    BY <2>3, FS_Interval
  <2>5. c <= hi - lo + 1 /\ (c = hi - lo + 1 => Q = lo..hi)
    BY <1>1, <2>3, <2>4, FS_Subset
  <2>6. Q = lo..hi => c = hi - lo + 1
    BY <1>1, <2>4
  <2>7. Missing(d, Rows) = hi - lo + 1 - c
    BY <1>1, <1>2, <1>4 DEF lo, hi
  <2>8. Q # lo..hi <=> \E a, b \in Q : \E x \in Nat : a < x /\ x < b /\ x \notin Q
    <3>1. ASSUME Q # lo..hi PROVE \E x \in Nat : lo < x /\ x < hi /\ x \notin Q
      <4>1. PICK x \in lo..hi : x \notin Q
        BY <2>3, <3>1
      <4>2. x # lo /\ x # hi /\ x \in Nat
        BY <2>2, <2>3, <4>1
      <4> QED BY <2>3, <4>1, <4>2
    <3>2. ASSUME NEW a \in Q, NEW b \in Q, NEW x \in Nat, a < x, x < b, x \notin Q PROVE x \in lo..hi
      BY <2>2, <2>3, <3>2
    <3> QED BY <2>2, <3>1, <3>2
  <2>9. Missing(d, Rows) \in Nat /\ (Missing(d, Rows) > 0 <=> Q # lo..hi)
    BY <1>1, <2>3, <2>5, <2>6, <2>7
  <2> QED BY <2>8, <2>9 DEF Q
<1> QED BY <1>1, <1>3, <1>4

\* What analyse-pcap.py says of loss.
LEMMA LossIsRight ==
    ASSUME SentInv, RowsInv
    PROVE  InteriorLossIsSeen
<1> DEFINE n == Len(sent)
           Hole(d, i, j, k) ==
             /\ i < j /\ j < k /\ sent[i].src = d /\ sent[j].src = d /\ sent[k].src = d
             /\ Captured(sent[i]) /\ ~Captured(sent[j]) /\ Captured(sent[k])
<1>1. n \in Nat /\ DOMAIN sent = 1..n /\ \A i \in 1..n : sent[i] \in Datagram
  BY DEF SentInv
<1>2. \A i \in 1..n : sent[i].src \in Devices /\ sent[i].seq \in Nat
  BY <1>1 DEF Datagram
<1>3. \A i, j \in 1..n : sent[i].src = sent[j].src => (i < j <=> sent[i].seq < sent[j].seq)
  <2> TAKE i, j \in 1..n
  <2>1. /\ i < j /\ sent[i].src = sent[j].src => sent[i].seq < sent[j].seq
        /\ j < i /\ sent[i].src = sent[j].src => sent[j].seq < sent[i].seq
    BY DEF SentInv
  <2>2. i = j => sent[i].seq = sent[j].seq
    OBVIOUS
  <2>3. i \in Nat /\ j \in Nat /\ sent[i].seq \in Nat /\ sent[j].seq \in Nat
    BY <1>1, <1>2
  <2> HIDE DEF n
  <2> QED BY <2>1, <2>2, <2>3
<1>4. ASSUME NEW d \in Devices
      PROVE  Missing(d, Rows) > 0 <=> \E i, j, k \in 1..n : Hole(d, i, j, k)
  <2> DEFINE Q == Seqs(d, Rows)
  <2>1. Missing(d, Rows) > 0 <=> \E a, b \in Q : \E x \in Nat : a < x /\ x < b /\ x \notin Q
    BY MissingIs
  <2>2. \A x : x \in Q <=> \E i \in 1..n : sent[i].src = d /\ sent[i].seq = x /\ Captured(sent[i])
    BY SeqsAre
  <2> HIDE DEF Q, n
  <2>3. ASSUME NEW a \in Q, NEW b \in Q, NEW x \in Nat, a < x, x < b, x \notin Q
        PROVE  \E i, j, k \in 1..n : Hole(d, i, j, k)
    <3>1. PICK i \in 1..n : sent[i].src = d /\ sent[i].seq = a /\ Captured(sent[i])
      BY <2>2
    <3>2. PICK k \in 1..n : sent[k].src = d /\ sent[k].seq = b /\ Captured(sent[k])
      BY <2>2
    <3>3. k \in From(d, sent) /\ Seqs(d, sent) = 0..(Cardinality(From(d, sent)) - 1)
      BY <1>1, <3>2 DEF From, SentInv
    <3>4. b \in 0..(Cardinality(From(d, sent)) - 1) /\ Cardinality(From(d, sent)) \in Nat
      <4>1. sent[k].seq \in Seqs(d, sent)
        BY <3>3 DEF Seqs
      <4>2. Cardinality(From(d, sent)) \in Nat
        BY <1>1, FromFinite DEF n
      <4> QED BY <3>2, <3>3, <4>1, <4>2
    <3>5. x \in Seqs(d, sent)
      BY <2>3, <3>3, <3>4
    <3>6. PICK j \in 1..n : sent[j].src = d /\ sent[j].seq = x
      BY <1>1, <3>5 DEF Seqs, From
    <3>7. ~Captured(sent[j])
      BY <2>2, <2>3, <3>6
    <3>8. i < j /\ j < k
      BY <1>3, <2>3, <3>1, <3>2, <3>6
    <3>9. Hole(d, i, j, k)
      BY <3>1, <3>2, <3>6, <3>7, <3>8
    <3> HIDE DEF Hole
    <3> QED BY <3>9
  <2>4. ASSUME NEW i \in 1..n, NEW j \in 1..n, NEW k \in 1..n, Hole(d, i, j, k)
        PROVE  \E a, b \in Q : \E x \in Nat : a < x /\ x < b /\ x \notin Q
    <3>1. sent[i].seq \in Q /\ sent[k].seq \in Q
      BY <2>2, <2>4
    <3>2. sent[j].seq \in Nat /\ sent[i].seq < sent[j].seq /\ sent[j].seq < sent[k].seq
      BY <1>2, <1>3, <2>4
    <3>3. sent[j].seq \notin Q
      <4> SUFFICES ASSUME sent[j].seq \in Q PROVE FALSE
        OBVIOUS
      <4>1. PICK l \in 1..n : sent[l].src = d /\ sent[l].seq = sent[j].seq /\ Captured(sent[l])
        BY <2>2
      <4>2. l = j
        BY <2>4, <4>1, SeqApart DEF n
      <4> QED BY <2>4, <4>1, <4>2
    <3> QED BY <3>1, <3>2, <3>3
  <2> QED BY <2>1, <2>3, <2>4
<1>5. \A d \in Devices : Missing(d, Rows) \in Nat
  BY MissingIs
<1>6. LossSeen(Rows) <=> \E d \in Devices : \E i, j, k \in 1..n : Hole(d, i, j, k)
  BY <1>4 DEF LossSeen
<1>7. (\E i, j, k \in DOMAIN sent :
            /\ i < j /\ j < k /\ sent[i].src = sent[j].src /\ sent[j].src = sent[k].src
            /\ Captured(sent[i]) /\ ~Captured(sent[j]) /\ Captured(sent[k]))
       <=> \E d \in Devices : \E i, j, k \in 1..n : Hole(d, i, j, k)
  <2> HIDE DEF n
  <2> QED BY <1>1, <1>2
<1>8. \A d \in Devices : Missing(d, Rows) >= 0
  BY <1>5
<1> HIDE DEF Hole, n
<1> QED BY <1>6, <1>7, <1>8 DEF InteriorLossIsSeen

\* How many busy ticks come before tick t.
Earlier(t) == Cardinality({l \in Busy : l < t})

\* What the loop knows when datagram i was the last with data and tick lo the first.
Shaped(acc, i, lo) ==
    /\ i \in Carried /\ lo \in Busy /\ \A t \in Busy : lo <= t /\ t <= TickOf(i)
    /\ acc \in [series: Seq(Nat), skipped: Int, current: Nat, previous: Nat]
    /\ acc.previous = sent[i].ts
    /\ Len(acc.series) + 1 = Cardinality(Busy)
    /\ acc.skipped = TickOf(i) - lo + 1 - Cardinality(Busy)
    /\ \A t \in Busy : Append(acc.series, acc.current)[Earlier(t) + 1] = RecordsIn(t)

ShapeInv ==
    IF Carried = {} THEN Groups(Rows) = Group0 ELSE \E i, lo : Shaped(Groups(Rows), i, lo)

\* The ranks of a finite set of numbers.
LEMMA RankIs ==
    ASSUME NEW B \in SUBSET Nat, IsFiniteSet(B), NEW hi \in B, \A t \in B : t <= hi
    PROVE  /\ Cardinality(B) \in Nat \ {0} /\ Cardinality({l \in B : l < hi}) = Cardinality(B) - 1
           /\ \A t \in B : t # hi => Cardinality({l \in B : l < t}) \in 0..(Cardinality(B) - 2)
<1>1. Cardinality(B) \in Nat
  BY FS_CardinalityType
<1>2. {l \in B : l < hi} = B \ {hi} /\ IsFiniteSet(B \ {hi}) /\ Cardinality(B \ {hi}) = Cardinality(B) - 1
  <2>0. \A l \in B : l < hi <=> l # hi
    <3> TAKE l \in B
    <3>1. l \in Nat /\ hi \in Nat /\ l <= hi
      OBVIOUS
    <3> QED BY <3>1
  <2>1. {l \in B : l < hi} = B \ {hi}
    BY <2>0
  <2> QED BY <2>1, FS_RemoveElement
<1>3. Cardinality(B \ {hi}) \in Nat
  BY <1>2, FS_CardinalityType
<1>4. ASSUME NEW t \in B, t # hi
      PROVE  Cardinality({l \in B : l < t}) \in 0..(Cardinality(B) - 2)
  <2> DEFINE E == {l \in B : l < t}
             R == B \ {hi}
  <2>1. E \in SUBSET R /\ t \in R /\ t \notin E
    BY <1>4
  <2>2. IsFiniteSet(R) /\ Cardinality(R) = Cardinality(B) - 1
    BY <1>2
  <2> HIDE DEF E, R
  <2>3. IsFiniteSet(E) /\ Cardinality(E) <= Cardinality(R) /\ Cardinality(E) # Cardinality(R)
    BY <2>1, <2>2, FS_Subset
  <2>4. Cardinality(E) \in Nat
    BY <2>3, FS_CardinalityType
  <2> QED BY <1>1, <2>2, <2>3, <2>4 DEF E
<1>5. Cardinality(B) \in Nat \ {0}
  BY <1>1, <1>2, <1>3
<1>6. Cardinality({l \in B : l < hi}) = Cardinality(B) - 1
  BY <1>2
<1> QED BY <1>4, <1>5, <1>6

\* The busy ticks are finitely many, none later than now.
LEMMA BusyIs ==
    ASSUME SentInv
    PROVE  /\ Busy \in SUBSET Nat /\ IsFiniteSet(Busy) /\ \A t \in Busy : t <= tick
           /\ Cardinality(Busy) \in Nat /\ Carried \subseteq 1..Len(sent)
<1>1. DOMAIN sent = 1..Len(sent) /\ tick \in Nat /\ \A i \in 1..Len(sent) : TickOf(i) \in 0..tick
  BY DEF SentInv
<1>2. Carried \subseteq 1..Len(sent)
  BY <1>1 DEF Carried
<1>3. Busy \in SUBSET (0..tick)
  BY <1>1, <1>2 DEF Busy
<1>4. IsFiniteSet(0..tick)
  BY <1>1, FS_Interval
<1>5. IsFiniteSet(Busy)
  BY <1>3, <1>4, FS_Subset
<1> QED BY <1>1, <1>2, <1>3, <1>5, FS_CardinalityType

\* What is carried, in which ticks, and how much, after one more datagram.
LEMMA CarriedNew ==
    ASSUME SentInv, RowsInv, NEW d \in Devices, NEW g, NEW row, Exported(d, g, row)
    PROVE  LET carried == Rows' # Rows /\ Payload(g) > 0 IN
           /\ Carried' = Carried \cup (IF carried THEN {Len(sent) + 1} ELSE {})
           /\ Busy' = Busy \cup (IF carried THEN {tick} ELSE {})
           /\ \A t : RecordsIn(t)' = RecordsIn(t) + (IF carried /\ t = tick THEN Payload(g) ELSE 0)
           /\ \A t : RecordsIn(t) \in Nat
           /\ \A t : t \notin Busy => RecordsIn(t) = 0
<1> DEFINE n == Len(sent)
           carried == Rows' # Rows /\ Payload(g) > 0
           new == n + 1
           C == Carried
           f == [i \in DOMAIN sent |-> Payload(sent[i])]
           h == [i \in DOMAIN sent' |-> Payload(sent'[i])]
           In(t) == {i \in Carried : TickOf(i) = t}
           InNext(t) == {i \in Carried' : TickOf(i)' = t}
<1>1. /\ n \in Nat /\ DOMAIN sent = 1..n /\ DOMAIN sent' = 1..(n + 1) /\ sent'[n + 1] = g
      /\ \A i \in 1..n : sent'[i] = sent[i]
  BY ExportedIs
<1>2. /\ \A i \in 1..n : Captured(sent[i])' <=> Captured(sent[i])
      /\ \A i : i = n + 1 => (Captured(sent[i])' <=> Rows' # Rows)
  BY CapturedNew
<1>3. /\ \A i \in 1..n : TickOf(i)' = TickOf(i)
      /\ \A i : i = n + 1 => TickOf(i)' = tick
  BY TickOfNew
<1>4. Payload(g) \in Nat /\ \A i \in 1..n : Payload(sent[i]) \in Nat
  BY DEF Exported, SentInv
<1>5. C \subseteq 1..n
  BY BusyIs
<1>6. Carried' = {i \in 1..(n + 1) : Captured(sent[i])' /\ Payload(sent'[i]) > 0}
      /\ C = {i \in 1..n : Captured(sent[i]) /\ Payload(sent[i]) > 0}
  BY <1>1 DEF Carried
<1>7. \A i : i \in 1..(n + 1) <=> i \in 1..n \/ i = new
  BY <1>1
<1>8. new \notin 1..n
  BY <1>1
<1>9. Carried' = C \cup (IF carried THEN {new} ELSE {})
  <2>1. \A i \in 1..n : i \in Carried' <=> i \in C
    BY <1>1, <1>2, <1>6, <1>7
  <2>2. new \in Carried' <=> carried
    BY <1>1, <1>2, <1>6, <1>7
  <2>3. \A i \in Carried' : i \in 1..n \/ i = new
    BY <1>6, <1>7
  <2> HIDE DEF n, new, C, carried
  <2> QED BY <1>5, <1>8, <2>1, <2>2, <2>3
<1>10. Busy' = {TickOf(i)' : i \in Carried'} /\ Busy = {TickOf(i) : i \in C}
  BY DEF Busy
<1>11. Busy' = Busy \cup (IF carried THEN {tick} ELSE {})
  <2> DEFINE X == Carried'
             Y == Busy'
  <2>1. X = C \cup (IF carried THEN {new} ELSE {}) /\ Y = {TickOf(i)' : i \in X}
    BY <1>9, <1>10
  <2>2. \A i : i = new => TickOf(i)' = tick
    BY <1>3
  <2>3. \A i \in C : TickOf(i)' = TickOf(i)
    BY <1>3, <1>5
  <2> HIDE DEF n, new, C, carried, X, Y
  <2>4. CASE carried
    BY <1>10, <2>1, <2>2, <2>3, <2>4 DEF Y
  <2>5. CASE ~carried
    BY <1>10, <2>1, <2>3, <2>5 DEF Y
  <2> QED BY <2>4, <2>5 DEF Y
<1>12. \A t : RecordsIn(t) = SumOver(f, In(t)) /\ RecordsIn(t)' = SumOver(h, InNext(t))
  BY DEF RecordsIn, Left
<1>13. f \in [1..n -> Nat] /\ h \in [1..(n + 1) -> Nat] /\ h[n + 1] = Payload(g) /\ \A i \in 1..n : h[i] = f[i]
  BY <1>1, <1>4, <1>7
<1>14. \A t, i : i \in In(t) <=> i \in C /\ TickOf(i) = t
  OBVIOUS
<1>15. \A t : /\ \A i \in 1..n : i \in InNext(t) <=> i \in In(t)
              /\ new \in InNext(t) <=> carried /\ t = tick
  <2> TAKE t
  <2>1. \A i : i \in InNext(t) <=> i \in Carried' /\ TickOf(i)' = t
    OBVIOUS
  <2>2. \A i \in 1..n : i \in Carried' <=> i \in C
    BY <1>8, <1>9
  <2>3. new \in Carried' <=> carried
    BY <1>5, <1>8, <1>9
  <2>4. \A i : i = new => TickOf(i)' = tick
    BY <1>3
  <2> HIDE DEF InNext, In, C, new, n, carried
  <2> QED BY <1>3, <1>14, <2>1, <2>2, <2>3, <2>4
<1> HIDE DEF f, h, In, InNext, n, C, carried
<1>16. \A t : SumOver(h, InNext(t)) = SumOver(f, In(t)) + (IF carried /\ t = tick THEN Payload(g) ELSE 0)
  <2> TAKE t
  <2>1. \A i \in 1..n : (IF i \in In(t) THEN f[i] ELSE 0) = (IF i \in InNext(t) THEN h[i] ELSE 0)
    BY <1>13, <1>15
  <2>2. SumOver(h, InNext(t)) = SumOver(f, In(t)) + (IF n + 1 \in InNext(t) THEN h[n + 1] ELSE 0)
    BY <1>1, <1>13, <2>1, SumStep
  <2> QED BY <1>13, <1>15, <2>2
<1>17. \A t : SumOver(f, In(t)) \in Nat
  BY <1>1, <1>13, SumSame
<1>18. ASSUME NEW t, t \notin Busy PROVE SumOver(f, In(t)) = 0
  <2>1. In(t) = {}
    BY <1>10, <1>14, <1>18
  <2>2. ~(SumOver(f, In(t)) > 0)
    BY <1>1, <1>13, <2>1, SumZero
  <2> QED BY <1>17, <2>2
<1> QED BY <1>9, <1>11, <1>12, <1>16, <1>17, <1>18 DEF n, C, carried

\* The shape after one more datagram.
LEMMA ShapeKeeps ==
    ASSUME SentInv, RowsInv, ShapeInv, NEW d \in Devices, NEW g, NEW row, Exported(d, g, row)
    PROVE  ShapeInv'
<1> DEFINE carried == Rows' # Rows /\ Payload(g) > 0
           acc == Groups(Rows)
           next == Groups(Rows')
           new == Len(sent) + 1
<1>1. /\ Carried' = Carried \cup (IF carried THEN {new} ELSE {})
      /\ Busy' = Busy \cup (IF carried THEN {tick} ELSE {})
      /\ \A t : RecordsIn(t)' = RecordsIn(t) + (IF carried /\ t = tick THEN Payload(g) ELSE 0)
      /\ \A t : RecordsIn(t) \in Nat
      /\ \A t : t \notin Busy => RecordsIn(t) = 0
  BY CarriedNew
<1>2. /\ Busy \in SUBSET Nat /\ IsFiniteSet(Busy) /\ (\A t \in Busy : t <= tick) /\ Carried \subseteq 1..Len(sent)
      /\ Cardinality(Busy) \in Nat
  BY BusyIs
<1>3. /\ Len(sent) \in Nat /\ sent'[new] = g /\ \A i \in 1..Len(sent) : sent'[i] = sent[i]
  BY ExportedIs
<1>4. /\ \A i \in 1..Len(sent) : TickOf(i)' = TickOf(i)
      /\ \A i : i = new => TickOf(i)' = tick
      /\ g.ts = TickLen * tick + Offset[d]
  BY TickOfNew
<1>5. /\ Rows' \in {Rows, Append(Rows, row)} /\ Rows \in Seq(Frame) /\ row \in Frame /\ Like(row, g) /\ g \in Datagram
      /\ Payload(g) \in Nat /\ tick \in Nat /\ g.ts \in Nat
  <2>1. g \in Datagram
    BY DEF Exported
  <2>2. g.ts \in Nat
    BY <2>1 DEF Datagram
  <2> QED BY <2>1, <2>2 DEF Exported, RowsInv, SentInv
<1>6. DataRecords(row) = Payload(g) /\ row.ts = g.ts
  BY <1>5 DEF Like, DataRecords, Payload, Datagram
<1>7. Rows' # Rows => next = Grouped(acc, row)
  BY <1>5, GroupsStep
<1>8. \A t : Earlier(t)' = Cardinality({l \in Busy' : l < t})
  BY DEF Earlier
<1>9. ShapeInv' = IF Carried' = {} THEN next = Group0 ELSE \E i, lo : Shaped(Groups(Rows), i, lo)'
  BY DEF ShapeInv
<1>10. ASSUME NEW i, NEW lo
       PROVE  Shaped(Groups(Rows), i, lo)' <=>
                /\ i \in Carried' /\ lo \in Busy' /\ \A t \in Busy' : lo <= t /\ t <= TickOf(i)'
                /\ next \in [series: Seq(Nat), skipped: Int, current: Nat, previous: Nat]
                /\ next.previous = sent'[i].ts
                /\ Len(next.series) + 1 = Cardinality(Busy')
                /\ next.skipped = TickOf(i)' - lo + 1 - Cardinality(Busy')
                /\ \A t \in Busy' : Append(next.series, next.current)[Earlier(t)' + 1] = RecordsIn(t)'
  BY DEF Shaped
<1>11. ASSUME NEW i, NEW lo, Shaped(acc, i, lo)
       PROVE  /\ i \in Carried /\ lo \in Busy /\ \A t \in Busy : lo <= t /\ t <= TickOf(i)
              /\ acc \in [series: Seq(Nat), skipped: Int, current: Nat, previous: Nat]
              /\ acc.previous = sent[i].ts
              /\ Len(acc.series) + 1 = Cardinality(Busy)
              /\ acc.skipped = TickOf(i) - lo + 1 - Cardinality(Busy)
              /\ \A t \in Busy : Append(acc.series, acc.current)[Earlier(t) + 1] = RecordsIn(t)
              /\ TickOf(i) \in Nat /\ TickOf(i) \in Busy /\ lo \in Nat
              /\ sent[i].ts = TickLen * TickOf(i) + Offset[sent[i].src] /\ sent[i].src \in Devices
  <2>1. /\ i \in Carried /\ lo \in Busy /\ \A t \in Busy : lo <= t /\ t <= TickOf(i)
        /\ acc \in [series: Seq(Nat), skipped: Int, current: Nat, previous: Nat]
        /\ acc.previous = sent[i].ts
        /\ Len(acc.series) + 1 = Cardinality(Busy)
        /\ acc.skipped = TickOf(i) - lo + 1 - Cardinality(Busy)
        /\ \A t \in Busy : Append(acc.series, acc.current)[Earlier(t) + 1] = RecordsIn(t)
    BY <1>11 DEF Shaped
  <2>2. TickOf(i) \in Busy
    BY <2>1 DEF Busy
  <2>3. i \in 1..Len(sent)
    BY <1>2, <2>1
  <2>4. sent[i] \in Datagram /\ sent[i].ts = TickLen * TickOf(i) + Offset[sent[i].src]
    BY <2>3 DEF SentInv
  <2>5. sent[i].src \in Devices
    BY <2>4 DEF Datagram
  <2> QED BY <1>2, <2>1, <2>2, <2>4, <2>5
<1>12. Carried # {} => \E i, lo : Shaped(acc, i, lo)
  BY DEF ShapeInv, acc
<1>13. Carried = {} => acc = Group0 /\ Busy = {}
  BY DEF ShapeInv, acc, Busy
<1>14. carried => next = Grouped(acc, row) /\ Occupied(row) /\ Payload(g) > 0
  BY <1>6, <1>7 DEF Occupied
<1>15. ~carried => next = acc
  <2> SUFFICES ASSUME ~carried PROVE next = acc
    OBVIOUS
  <2>1. CASE Rows' = Rows
    BY <2>1 DEF next, acc
  <2>2. CASE Rows' # Rows
    <3>1. Payload(g) = 0
      BY <1>5, <2>2 DEF carried
    <3> QED BY <1>6, <1>7, <2>2, <3>1 DEF Grouped, Occupied
  <2> QED BY <2>1, <2>2
<1>16. TickLen \in Nat /\ TickLen > 0 /\ \A e \in Devices : Offset[e] \in Nat /\ 4 * Offset[e] <= TickLen
  BY ClockAssumption
<1> HIDE DEF carried, acc, next, new
<1>17. CASE ~carried
  <2>1. Carried' = Carried /\ Busy' = Busy /\ next = acc /\ \A t : RecordsIn(t)' = RecordsIn(t)
    BY <1>1, <1>15, <1>17
  <2>2. CASE Carried = {}
    BY <1>9, <1>13, <2>1, <2>2
  <2>3. CASE Carried # {}
    <3>1. PICK i, lo : Shaped(acc, i, lo)
      BY <1>12, <2>3
    <3>2. i \in 1..Len(sent)
      BY <1>2, <1>11, <3>1
    <3>3. TickOf(i)' = TickOf(i) /\ sent'[i] = sent[i]
      BY <1>3, <1>4, <3>2
    <3>4. \A t : Earlier(t)' = Earlier(t)
      BY <1>8, <2>1 DEF Earlier
    <3>5. /\ i \in Carried' /\ lo \in Busy' /\ \A t \in Busy' : lo <= t /\ t <= TickOf(i)'
          /\ next \in [series: Seq(Nat), skipped: Int, current: Nat, previous: Nat]
          /\ next.previous = sent'[i].ts
          /\ Len(next.series) + 1 = Cardinality(Busy')
          /\ next.skipped = TickOf(i)' - lo + 1 - Cardinality(Busy')
      BY <1>11, <2>1, <3>1, <3>3
    <3>6. \A t \in Busy : Append(acc.series, acc.current)[Earlier(t) + 1] = RecordsIn(t)
      BY <1>11, <3>1
    <3>7. \A t \in Busy' : Append(next.series, next.current)[Earlier(t)' + 1] = RecordsIn(t)'
      <4> TAKE t \in Busy'
      <4>1. t \in Busy /\ Earlier(t)' = Earlier(t) /\ RecordsIn(t)' = RecordsIn(t)
        BY <2>1, <3>4
      <4> QED BY <2>1, <3>6, <4>1
    <3>8. Shaped(Groups(Rows), i, lo)'
      BY <1>10, <3>5, <3>7
    <3> QED BY <1>9, <2>1, <2>3, <3>8
  <2> QED BY <2>2, <2>3
<1>18. CASE carried /\ Carried = {}
  <2>1. Carried' = {new} /\ Busy' = {tick}
    BY <1>1, <1>13, <1>18
  <2>2. \A t : t = tick => RecordsIn(t)' = Payload(g)
    <3>1. \A t : t = tick => RecordsIn(t) = 0
      BY <1>1, <1>13, <1>18
    <3> QED BY <1>1, <1>5, <1>18, <3>1
  <2>3. next = [series |-> <<>>, skipped |-> 0, current |-> Payload(g), previous |-> g.ts]
    <3>1. next = Grouped(Group0, row) /\ Occupied(row)
      BY <1>13, <1>14, <1>18
    <3>2. ~Starts(Group0.previous, row)
      BY DEF Starts, Group0
    <3>3. next = [series |-> Group0.series, skipped |-> Group0.skipped,
                  current |-> Group0.current + DataRecords(row), previous |-> row.ts]
      BY <3>1, <3>2 DEF Grouped
    <3> QED BY <1>5, <1>6, <3>3 DEF Group0
  <2>4. Cardinality(Busy') = 1 /\ \A t : t = tick => Earlier(t)' = 0
    <3>1. \A t : t = tick => {l \in Busy' : l < t} = {}
      BY <1>5, <2>1
    <3> QED BY <1>8, <2>1, <3>1, FS_EmptySet, FS_Singleton
  <2>5. PICK i : i = new
    OBVIOUS
  <2>6. PICK lo : lo = tick
    OBVIOUS
  <2>7. /\ i \in Carried' /\ lo \in Busy' /\ TickOf(i)' = tick
        /\ \A t \in Busy' : lo <= t /\ t <= TickOf(i)'
    BY <1>4, <1>5, <2>1, <2>5, <2>6
  <2>8. next \in [series: Seq(Nat), skipped: Int, current: Nat, previous: Nat]
    BY <1>5, <2>3
  <2>9. next.previous = sent'[i].ts
    BY <1>3, <2>3, <2>5
  <2>10. Len(next.series) + 1 = Cardinality(Busy') /\ next.skipped = TickOf(i)' - lo + 1 - Cardinality(Busy')
    BY <1>5, <2>3, <2>4, <2>6, <2>7
  <2>11. \A t \in Busy' : Append(next.series, next.current)[Earlier(t)' + 1] = RecordsIn(t)'
    <3> TAKE t \in Busy'
    <3>1. t = tick /\ Earlier(t)' = 0 /\ RecordsIn(t)' = Payload(g)
      BY <2>1, <2>2, <2>4
    <3>2. Append(next.series, next.current)[1] = Payload(g)
      BY <2>3
    <3> QED BY <3>1, <3>2
  <2>12. Shaped(Groups(Rows), i, lo)'
    BY <1>10, <2>7, <2>8, <2>9, <2>10, <2>11
  <2> QED BY <1>9, <2>1, <2>12
<1>19. CASE carried /\ Carried # {}
  <2>1. PICK i, lo : Shaped(acc, i, lo)
    BY <1>12, <1>19
  <2>2. /\ i \in Carried /\ lo \in Busy /\ \A t \in Busy : lo <= t /\ t <= TickOf(i)
        /\ acc \in [series: Seq(Nat), skipped: Int, current: Nat, previous: Nat]
        /\ acc.previous = sent[i].ts
        /\ Len(acc.series) + 1 = Cardinality(Busy)
        /\ acc.skipped = TickOf(i) - lo + 1 - Cardinality(Busy)
        /\ \A t \in Busy : Append(acc.series, acc.current)[Earlier(t) + 1] = RecordsIn(t)
        /\ TickOf(i) \in Nat /\ TickOf(i) \in Busy /\ lo \in Nat
        /\ sent[i].ts = TickLen * TickOf(i) + Offset[sent[i].src] /\ sent[i].src \in Devices
    BY <1>11, <2>1
  <2> DEFINE hi == TickOf(i)
             gap == g.ts - acc.previous
             whole == Append(acc.series, acc.current)
             c == Cardinality(Busy)
  <2>3. hi \in Nat /\ hi \in Busy /\ hi <= tick
    BY <1>2, <2>2
  <2>4. /\ hi = tick => ~(2 * gap > TickLen)
        /\ hi < tick => 2 * gap > TickLen /\ Ticks(gap) = tick - hi
    <3>1. gap = (TickLen * tick + Offset[d]) - (TickLen * hi + Offset[sent[i].src])
      BY <1>4, <2>2
    <3>2. gap \in Int /\ Offset[d] \in Nat /\ Offset[sent[i].src] \in Nat
          /\ 4 * Offset[d] <= TickLen /\ 4 * Offset[sent[i].src] <= TickLen
      <4>1. acc.previous \in Nat
        BY <2>2
      <4>2. gap \in Int
        BY <1>5, <4>1
      <4> HIDE DEF gap
      <4> QED BY <1>16, <2>2, <4>2
    <3> HIDE DEF gap, hi
    <3>3. /\ hi = tick => ~(2 * gap > TickLen)
          /\ hi < tick => 2 * gap > TickLen /\ Ticks(gap) = tick - hi
      BY <1>5, <2>3, <3>1, <3>2, TicksBetween
    <3> QED BY <3>3
  <2>5. /\ acc.series \in Seq(Nat) /\ acc.skipped \in Int /\ acc.current \in Nat /\ acc.previous \in Nat
        /\ acc = [series |-> acc.series, skipped |-> acc.skipped, current |-> acc.current, previous |-> acc.previous]
    BY <2>2
  <2>6. /\ Len(acc.series) \in Nat /\ c = Len(acc.series) + 1 /\ whole \in Seq(Nat) /\ Len(whole) = c
        /\ whole[c] = acc.current /\ \A k \in 1..(c - 1) : whole[k] = acc.series[k]
    BY <2>2, <2>5
  <2>7. Starts(acc.previous, row) <=> 2 * gap > TickLen
    BY <1>6, <2>5 DEF Starts
  <2>8. /\ 2 * gap > TickLen =>
             next = [series |-> whole, skipped |-> acc.skipped + Ticks(gap) - 1, current |-> Payload(g), previous |-> g.ts]
        /\ ~(2 * gap > TickLen) =>
             next = [series |-> acc.series, skipped |-> acc.skipped, current |-> acc.current + Payload(g), previous |-> g.ts]
    <3>1. /\ Starts(acc.previous, row) =>
               next = [series |-> whole, skipped |-> acc.skipped + Ticks(row.ts - acc.previous) - 1,
                       current |-> DataRecords(row), previous |-> row.ts]
          /\ ~Starts(acc.previous, row) =>
               next = [series |-> acc.series, skipped |-> acc.skipped,
                       current |-> acc.current + DataRecords(row), previous |-> row.ts]
      BY <1>14, <1>19 DEF Grouped
    <3> QED BY <1>6, <2>7, <3>1
  <2>9. /\ Cardinality({l \in Busy : l < hi}) = c - 1
        /\ \A t \in Busy : t # hi => Cardinality({l \in Busy : l < t}) \in 0..(c - 2)
    BY <1>2, <2>2, <2>3, RankIs
  <2>10. \A t \in Busy : Earlier(t) \in 0..(c - 1) /\ (t = hi <=> Earlier(t) = c - 1)
    <3> TAKE t \in Busy
    <3>1. Earlier(t) = Cardinality({l \in Busy : l < t})
      BY DEF Earlier
    <3>2. c \in Nat /\ c > 0
      BY <2>6
    <3> HIDE DEF hi, c
    <3> QED BY <2>9, <3>1, <3>2
  <2>11. PICK j : j = new
    OBVIOUS
  <2>12. j \in Carried' /\ TickOf(j)' = tick /\ sent'[j].ts = g.ts
    BY <1>1, <1>3, <1>4, <1>19, <2>11
  <2> HIDE DEF hi, gap, whole, c
  <2>13. CASE hi = tick
    <3>1. next = [series |-> acc.series, skipped |-> acc.skipped, current |-> acc.current + Payload(g), previous |-> g.ts]
      BY <2>4, <2>8, <2>13
    <3>2. Busy' = Busy /\ \A t : Earlier(t)' = Earlier(t)
      <4>1. Busy' = Busy
        BY <1>1, <1>19, <2>3, <2>13
      <4> QED BY <1>8, <4>1 DEF Earlier
    <3>3. \A t \in Busy' : lo <= t /\ t <= TickOf(j)'
      BY <1>2, <2>2, <2>12, <3>2
    <3>4. next \in [series: Seq(Nat), skipped: Int, current: Nat, previous: Nat] /\ next.previous = sent'[j].ts
      BY <1>5, <2>5, <2>12, <3>1
    <3>5. Len(next.series) + 1 = Cardinality(Busy') /\ next.skipped = TickOf(j)' - lo + 1 - Cardinality(Busy')
      <4>1. acc.skipped = tick - lo + 1 - Cardinality(Busy)
        BY <2>2, <2>13 DEF hi
      <4> QED BY <2>2, <2>12, <3>1, <3>2, <4>1
    <3>6. ASSUME NEW t \in Busy'
          PROVE  Append(next.series, next.current)[Earlier(t)' + 1] = RecordsIn(t)'
      <4>1. t \in Busy /\ Earlier(t)' = Earlier(t) /\ Earlier(t) \in 0..(c - 1) /\ (t = hi <=> Earlier(t) = c - 1)
        BY <2>10, <3>2
      <4>2. RecordsIn(t)' = RecordsIn(t) + (IF t = tick THEN Payload(g) ELSE 0) /\ RecordsIn(t) \in Nat
        BY <1>1, <1>19
      <4>3. whole[Earlier(t) + 1] = RecordsIn(t)
        BY <2>2, <4>1 DEF whole
      <4> DEFINE w == Append(acc.series, acc.current + Payload(g))
      <4>4. w[c] = acc.current + Payload(g) /\ \A k \in 1..(c - 1) : w[k] = acc.series[k]
        BY <1>5, <2>5, <2>6
      <4>5. Append(next.series, next.current) = w
        BY <3>1
      <4> HIDE DEF w
      <4>6. CASE t = tick
        <5>1. Earlier(t) + 1 = c
          BY <2>6, <2>13, <4>1, <4>6
        <5>2. RecordsIn(t) = acc.current
          BY <2>6, <4>3, <5>1
        <5> QED BY <4>1, <4>2, <4>4, <4>5, <4>6, <5>1, <5>2
      <4>7. CASE t # tick
        <5>1. Earlier(t) + 1 \in 1..(c - 1)
          BY <2>6, <2>13, <4>1, <4>7
        <5>2. w[Earlier(t) + 1] = whole[Earlier(t) + 1]
          BY <2>6, <4>4, <5>1
        <5> QED BY <4>1, <4>2, <4>3, <4>5, <4>7, <5>2
      <4> QED BY <4>6, <4>7
    <3>7. lo \in Busy'
      BY <2>2, <3>2
    <3>8. Shaped(Groups(Rows), j, lo)'
      BY <1>10, <2>12, <3>3, <3>4, <3>5, <3>6, <3>7
    <3> QED BY <1>9, <2>12, <3>8
  <2>14. CASE hi < tick
    <3>1. next = [series |-> whole, skipped |-> acc.skipped + (tick - hi) - 1, current |-> Payload(g), previous |-> g.ts]
      BY <2>4, <2>8, <2>14
    <3>2. Busy' = Busy \cup {tick} /\ tick \notin Busy
      <4>1. \A t \in Busy : t <= hi
        BY <2>2 DEF hi
      <4> QED BY <1>1, <1>5, <1>19, <2>3, <2>14, <4>1
    <3>3. Cardinality(Busy') = c + 1 /\ c \in Nat
      BY <1>2, <3>2, FS_AddElement DEF c
    <3>4. (\A t \in Busy : Earlier(t)' = Earlier(t)) /\ \A t : t = tick => Earlier(t)' = c
      <4>1. ASSUME NEW t \in Busy PROVE {l \in Busy' : l < t} = {l \in Busy : l < t}
        <5>1. t \in Nat /\ ~(tick < t)
          BY <1>2, <1>5
        <5> QED BY <3>2, <5>1
      <4>2. \A t : t = tick => {l \in Busy' : l < t} = Busy
        <5>1. \A l \in Busy : l < tick
          <6> TAKE l \in Busy
          <6>1. l \in Nat /\ l <= tick /\ l # tick
            BY <1>2, <3>2
          <6> QED BY <1>5, <6>1
        <5> QED BY <1>5, <3>2, <5>1
      <4> QED BY <1>8, <4>1, <4>2 DEF Earlier, c
    <3>5. \A t \in Busy' : lo <= t /\ t <= TickOf(j)'
      <4>1. lo <= tick
        BY <1>2, <2>2
      <4> QED BY <1>2, <1>5, <2>2, <2>12, <3>2, <4>1
    <3>6. next \in [series: Seq(Nat), skipped: Int, current: Nat, previous: Nat] /\ next.previous = sent'[j].ts
      BY <1>5, <2>3, <2>5, <2>6, <2>12, <3>1
    <3>7. Len(next.series) + 1 = Cardinality(Busy') /\ next.skipped = TickOf(j)' - lo + 1 - Cardinality(Busy')
      <4>1. acc.skipped = hi - lo + 1 - c
        BY <2>2 DEF hi, c
      <4>2. next.series = whole /\ next.skipped = acc.skipped + (tick - hi) - 1
        BY <3>1
      <4>3. TickOf(j)' = tick
        BY <2>12
      <4>4. Len(next.series) + 1 = Cardinality(Busy')
        BY <2>6, <3>3, <4>2
      <4>5. lo \in Nat /\ hi \in Nat /\ tick \in Nat /\ c \in Nat
        BY <1>5, <2>2, <2>3, <3>3
      <4>6. acc.skipped + (tick - hi) - 1 = tick - lo + 1 - (c + 1)
        <5> HIDE DEF acc
        <5> QED BY <4>1, <4>5
      <4> QED BY <3>3, <4>2, <4>3, <4>4, <4>6
    <3>8. ASSUME NEW t \in Busy'
          PROVE  Append(next.series, next.current)[Earlier(t)' + 1] = RecordsIn(t)'
      <4> DEFINE w == Append(whole, Payload(g))
      <4>1. w[c + 1] = Payload(g) /\ \A k \in 1..c : w[k] = whole[k]
        BY <1>5, <2>6
      <4>2. Append(next.series, next.current) = w
        BY <3>1
      <4>3. RecordsIn(t)' = RecordsIn(t) + (IF t = tick THEN Payload(g) ELSE 0) /\ RecordsIn(t) \in Nat
        BY <1>1, <1>19
      <4> HIDE DEF w
      <4>4. CASE t = tick
        <5>1. Earlier(t)' + 1 = c + 1
          BY <3>4, <4>4
        <5>2. RecordsIn(t) = 0
          BY <1>1, <3>2, <4>4
        <5> QED BY <1>5, <4>1, <4>2, <4>3, <4>4, <5>1, <5>2
      <4>5. CASE t \in Busy
        <5>1. Earlier(t)' = Earlier(t) /\ Earlier(t) \in 0..(c - 1)
          BY <2>10, <3>4, <4>5
        <5>2. whole[Earlier(t) + 1] = RecordsIn(t)
          BY <2>2, <4>5 DEF whole
        <5>3. Earlier(t) + 1 \in 1..c
          BY <3>3, <5>1
        <5>4. t # tick
          BY <3>2, <4>5
        <5> QED BY <4>1, <4>2, <4>3, <5>1, <5>2, <5>3, <5>4
      <4> QED BY <3>2, <4>4, <4>5
    <3>9. lo \in Busy'
      BY <2>2, <3>2
    <3>10. Shaped(Groups(Rows), j, lo)'
      BY <1>10, <2>12, <3>5, <3>6, <3>7, <3>8, <3>9
    <3> QED BY <1>9, <2>12, <3>10
  <2> QED BY <1>5, <2>3, <2>13, <2>14
<1> QED BY <1>17, <1>18, <1>19

\* What tick_groups says of the ticks.
LEMMA ShapeIsRight ==
    ASSUME SentInv, ShapeInv
    PROVE  ShapeIsTheTicks
<1> SUFFICES ASSUME Busy # {}
             PROVE  /\ TickGroups(Rows).skipped = Cardinality((Min(Busy)..Max(Busy)) \ Busy)
                    /\ TickGroups(Rows).series = [k \in 1..Cardinality(Busy) |-> RecordsIn(Ascending(Busy)[k])]
  BY DEF ShapeIsTheTicks
<1> DEFINE acc == Groups(Rows)
           whole == Append(acc.series, acc.current)
           c == Cardinality(Busy)
           B == Busy
<1>1. Carried # {}
  BY DEF Busy
<1>2. PICK i, lo : Shaped(acc, i, lo)
  BY <1>1 DEF ShapeInv
<1>3. B \in SUBSET Nat /\ IsFiniteSet(B) /\ c \in Nat /\ c = Cardinality(B)
  BY BusyIs
<1> DEFINE hi == TickOf(i)
<1>4. /\ lo \in B /\ hi \in B /\ \A t \in B : lo <= t /\ t <= hi
      /\ acc.series \in Seq(Nat) /\ acc.current \in Nat /\ Len(acc.series) + 1 = c
      /\ acc.skipped = hi - lo + 1 - c
      /\ \A t \in B : whole[Earlier(t) + 1] = RecordsIn(t)
  BY <1>2 DEF Shaped, Busy
<1>5. TickGroups(Rows).series = whole /\ TickGroups(Rows).skipped = acc.skipped
  BY DEF TickGroups
<1>6. \A t : Earlier(t) = Cardinality({l \in B : l < t})
  BY DEF Earlier
<1> HIDE DEF acc, c, B, hi
<1>7. whole = [k \in 1..c |-> whole[k]]
  <2>1. whole \in Seq(Nat) /\ Len(whole) = c
    BY <1>3, <1>4
  <2> HIDE DEF whole
  <2> QED BY <2>1
<1>8. ASSUME NEW k \in 1..c PROVE whole[k] = RecordsIn(Ascending(B)[k])
  <2>1. Ascending(B)[k] \in B /\ Cardinality({l \in B : l < Ascending(B)[k]}) = k - 1
    BY <1>3, AscendingLists
  <2>2. Earlier(Ascending(B)[k]) = k - 1 /\ (k - 1) + 1 = k
    BY <1>3, <1>6, <2>1
  <2> QED BY <1>4, <2>1, <2>2
<1>9. whole = [k \in 1..c |-> RecordsIn(Ascending(B)[k])]
  <2> HIDE DEF whole
  <2> QED BY <1>7, <1>8
<1>10. Min(B) = lo /\ Max(B) = hi
  <2>1. Max(B) \in B /\ Min(B) \in B /\ \A x \in B : x <= Max(B) /\ Min(B) <= x
    BY <1>3, <1>4, Extremes
  <2>2. Max(B) \in Nat /\ Min(B) \in Nat /\ lo \in Nat /\ hi \in Nat
    BY <1>3, <1>4, <2>1
  <2> QED BY <1>4, <2>1, <2>2
<1>11. Cardinality((lo..hi) \ B) = hi - lo + 1 - c
  <2>1. lo \in Nat /\ hi \in Nat /\ lo <= hi
    BY <1>3, <1>4
  <2>2. IsFiniteSet(lo..hi) /\ Cardinality(lo..hi) = hi - lo + 1
    BY <2>1, FS_Interval
  <2>3. (lo..hi) \cap B = B
    <3>1. \A t \in B : t \in lo..hi
      <4> TAKE t \in B
      <4>1. t \in Nat /\ lo <= t /\ t <= hi
        BY <1>3, <1>4
      <4> QED BY <2>1, <4>1
    <3> QED BY <3>1
  <2>4. Cardinality((lo..hi) \ B) = Cardinality(lo..hi) - Cardinality((lo..hi) \cap B)
    BY <2>2, FS_Difference
  <2>5. Cardinality((lo..hi) \ B) = Cardinality(lo..hi) - c
    BY <1>3, <2>3, <2>4
  <2> QED BY <1>3, <2>1, <2>2, <2>5
<1> HIDE DEF whole
<1> QED BY <1>4, <1>5, <1>9, <1>10, <1>11 DEF B, c

-----------------------------------------------------------------------------
(* The invariant of the run, and what it says of the conclusions. *)

WireInv == SentInv /\ RowsInv /\ WholeInv /\ ShapeInv

\* Before the first datagram.
LEMMA WireBegins == EmitInit => WireInv
<1> SUFFICES ASSUME EmitInit PROVE WireInv
  OBVIOUS
<1>1. tick = 0 /\ sent = <<>> /\ frames = <<>> /\ Len(<<>>) = 0 /\ DOMAIN <<>> = {} /\ 1..0 = {}
  BY DEF EmitInit
<1>2. Rows = <<>> /\ Groups(Rows) = Group0
  BY <1>1, NothingYet DEF Rows
<1>3. \A d : From(d, sent) = {}
  BY <1>1 DEF From
<1>4. \A d : Seqs(d, sent) = 0..(Cardinality(From(d, sent)) - 1)
  <2>1. \A d : Seqs(d, sent) = {}
    BY <1>3 DEF Seqs
  <2>2. Cardinality({}) = 0 /\ 0..(0 - 1) = {}
    BY FS_EmptySet
  <2> QED BY <1>3, <2>1, <2>2
<1>5. SentInv
  BY <1>1, <1>4 DEF SentInv
<1>6. RowsInv
  BY <1>1, <1>2 DEF RowsInv
<1>7. WholeInv
  BY <1>1, <1>2 DEF WholeInv
<1>8. ShapeInv
  <2>1. Carried = {}
    BY <1>1 DEF Carried
  <2> QED BY <1>2, <2>1 DEF ShapeInv
<1> QED BY <1>5, <1>6, <1>7, <1>8 DEF WireInv

\* Nothing that was sent or captured changes.
LEMMA WireRests ==
    ASSUME WireInv, sent' = sent, frames' = frames, tick' \in Nat, tick <= tick'
    PROVE  WireInv'
<1>1. Rows' = Rows
  BY DEF Rows
<1>2. \A i : TickOf(i)' = TickOf(i) /\ (Captured(sent[i])' <=> Captured(sent[i]))
  BY <1>1 DEF TickOf, Captured
<1>3. Carried' = Carried
  BY <1>2 DEF Carried
<1>4. Busy' = Busy
  BY <1>2, <1>3 DEF Busy
<1>5. SentInv'
  <2>1. /\ tick \in Nat /\ sent' \in Seq(Datagram)
        /\ \A i \in 1..Len(sent') :
             /\ Payload(sent'[i]) \in Nat /\ TickOf(i)' \in 0..tick
             /\ sent'[i].ts = TickLen * TickOf(i)' + Offset[sent'[i].src]
        /\ \A i, j \in 1..Len(sent') : i < j =>
             /\ sent'[i].ts < sent'[j].ts
             /\ sent'[i].src = sent'[j].src => sent'[i].seq < sent'[j].seq
        /\ \A d \in Devices : Seqs(d, sent') = 0..(Cardinality(From(d, sent')) - 1)
    BY <1>2 DEF WireInv, SentInv
  <2>2. \A t \in 0..tick : t \in 0..tick'
    BY <2>1
  <2> QED BY <2>1, <2>2 DEF SentInv
<1>6. RowsInv'
  BY <1>1 DEF WireInv, RowsInv
<1>7. WholeInv'
  BY <1>1, <1>2 DEF WireInv, WholeInv
<1>8. ShapeInv'
  <2>1. \A t : RecordsIn(t)' = RecordsIn(t)
    BY <1>2, <1>3 DEF RecordsIn, Left
  <2>2. \A t : Earlier(t)' = Earlier(t)
    BY <1>4 DEF Earlier
  <2>3. \A i, lo : Shaped(Groups(Rows), i, lo)' <=> Shaped(Groups(Rows), i, lo)
    BY <1>1, <1>2, <1>3, <1>4, <2>1, <2>2 DEF Shaped
  <2> QED BY <1>1, <1>3, <2>3 DEF WireInv, ShapeInv
<1> QED BY <1>5, <1>6, <1>7, <1>8 DEF WireInv

\* What was sent, what of it is in the rows, and what the loop of tick_groups makes
\* of them, at every length of the run, whatever the capture loses and nl6 miscounts.
THEOREM WireInvariance == EmitSpec => []WireInv
<1>1. EmitInit => WireInv
  BY WireBegins
<1>2. WireInv /\ [Emit]_wire => WireInv'
  <2> SUFFICES ASSUME WireInv, [Emit]_wire PROVE WireInv'
    OBVIOUS
  <2>1. tick \in Nat
    BY DEF WireInv, SentInv
  <2>2. CASE Tick
    <3>1. sent' = sent /\ frames' = frames /\ tick' = tick + 1
      BY <2>2 DEF Tick
    <3>2. tick' \in Nat /\ tick <= tick'
      BY <2>1, <3>1
    <3> QED BY <3>1, <3>2, WireRests
  <2>3. ASSUME NEW d \in Devices, Export(d) PROVE WireInv'
    <3>1. SentInv /\ RowsInv /\ WholeInv /\ ShapeInv
      BY DEF WireInv
    <3>2. PICK g, row : Exported(d, g, row)
      BY <2>3, <3>1, ExportIs
    <3>3. SentInv' /\ RowsInv'
      BY <3>1, <3>2, SentKeeps, RowsKeeps
    <3>4. WholeInv'
      BY <3>1, <3>2, WholeKeeps
    <3>5. ShapeInv'
      BY <3>1, <3>2, ShapeKeeps
    <3> QED BY <3>3, <3>4, <3>5 DEF WireInv
  <2>4. CASE UNCHANGED wire
    <3>1. sent' = sent /\ frames' = frames /\ tick' = tick
      BY <2>4 DEF wire
    <3> QED BY <2>1, <3>1, WireRests
  <2> QED BY <2>2, <2>3, <2>4 DEF Emit
<1> QED BY <1>1, <1>2, PTL DEF EmitSpec

\* reconcile-report.py: on a capture without loss the exit status is 0 if and only
\* if nl6's ledger is right of every device, of the fleet and of the drain.
THEOREM LedgerVerdictHolds == EmitSpec => []VerdictIsRight
<1>1. WireInv => VerdictIsRight
  BY WholeIsRight DEF WireInv
<1> QED BY <1>1, WireInvariance, PTL

\* analyse-pcap.py: missing datagrams are reported if and only if one is missing
\* between two captured ones of its own exporter, and no count is negative.
THEOREM LossHolds == EmitSpec => []InteriorLossIsSeen
<1>1. WireInv => InteriorLossIsSeen
  BY LossIsRight DEF WireInv
<1> QED BY <1>1, WireInvariance, PTL

\* analyse-pcap.py: the series of tick_groups is the records of each tick that
\* carried data, and the ticks between them without any are counted.
THEOREM ShapeHolds == EmitSpec => []ShapeIsTheTicks
<1>1. WireInv => ShapeIsTheTicks
  BY ShapeIsRight DEF WireInv
<1> QED BY <1>1, WireInvariance, PTL
=============================================================================
