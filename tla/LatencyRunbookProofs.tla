------------------------ MODULE LatencyRunbookProofs ------------------------
(***************************************************************************)
(* What a row of LatencyRunbook is of, for any plans, services and number  *)
(* of runs.  RowsOfTheirOwnWindow: the bounds of a phase pass through      *)
(* three files that are older than the phase, and Following says which of  *)
(* them is the phase's own at which point, and how old the others are.     *)
(* DurationsAreOfTheWindow: after each line that durations.py reads, its   *)
(* list holds, each once, the begins and ends between which it has read    *)
(* nothing of the same service (LinePaired, FilePaired); two files that    *)
(* are read in one go are one stretch of the log (OneStretch), and there   *)
(* such pairs are the collections that took place (LogInv).                *)
(***************************************************************************)
EXTENDS LatencyRunbook, FiniteSetTheorems, SequenceTheorems, WellFoundedInduction, TLAPS

\* The files have an entry for every phase, none of what is yet to come, and the run is
\* at one of its phases.
Place ==
    /\ IsFiniteSet(done)
    /\ plan \in Plans
    /\ pc \in Running => phase \in DOMAIN plan
    /\ base \in [Tags -> Nat \cup {None}] /\ DOMAIN side = Tags /\ start \in Nat
    /\ \A tag \in Tags : base[tag] <= EndOffset
    /\ \A tag \in Tags : side[tag] # <<>> => side[tag] \in Nat \X Nat /\ side[tag][2] <= EndOffset
    /\ from \in Nat /\ to \in Nat
    /\ opened \in Nat \cup {None} /\ closed \in Nat \cup {None}

Measuring == {"base", "derive", "window", "report", "read"}

\* What a report of this phase has written since t0, and since t1; without it, what is
\* there is from before t0.
Following ==
    /\ pc \in Measuring => from <= EndOffset /\ (opened # None => from <= opened /\ opened <= EndOffset)
    /\ pc = "base" => opened = None /\ base[Tag] <= from
    /\ pc = "derive" => IF opened = None THEN base[Tag] <= from ELSE base[Tag] = opened
    /\ pc \in {"window", "report", "read"} => IF opened = None THEN start <= from ELSE start = opened
    /\ pc \in {"report", "read"} => to <= EndOffset /\ (opened # None => opened <= to)
    /\ pc \in Measuring \ {"read"} => closed = None
    /\ pc \in Measuring /\ closed = None => (side[Tag] # <<>> => side[Tag][2] <= from)
    /\ pc = "read" /\ closed # None => side[Tag] = <<start, closed>> /\ to <= closed /\ closed <= EndOffset

\* The windows of earlier rows had ended when this one began.
Behind ==
    \A i \in Fresh :
        /\ rows[i].bounds[1] \in Nat /\ rows[i].bounds[2] \in Nat
        /\ rows[i].bounds[2] <= EndOffset
        /\ pc \in Measuring => rows[i].bounds[2] <= from

Listed == \E S : rows \in Seq(S)

IInv == Place /\ Following /\ Behind /\ Listed /\ RowsOfTheirOwnWindow

-----------------------------------------------------------------------------
(* Lemmas. *)

\* The topic only grows.
LEMMA TopicGrows ==
    ASSUME Place, Next
    PROVE  IsFiniteSet(done') /\ EndOffset \in Nat /\ EndOffset' \in Nat /\ EndOffset <= EndOffset'
<1>1. IsFiniteSet(done) /\ EndOffset \in Nat
  BY FS_CardinalityType DEF Place, EndOffset
<1>2. CASE UNCHANGED done
  BY <1>1, <1>2 DEF EndOffset
<1>3. CASE \E c : done' = done \cup {c}
  <2>1. PICK c : done' = done \cup {c}
    BY <1>3
  <2>2. IsFiniteSet(done \cup {c}) /\ Cardinality(done \cup {c}) \in {EndOffset, EndOffset + 1}
    BY <1>1, FS_AddElement DEF EndOffset
  <2> QED BY <1>1, <2>1, <2>2 DEF EndOffset
<1>4. (UNCHANGED done) \/ \E c : done' = done \cup {c}
  BY DEF Next, Collectd, Phase, CollectionBegins, CollectionEnds, CollectdRestarts, Begin, Shape,
         Settle, BaseReport, DeriveOffsets, Window, WindowReport, Read, Killed, lab
<1> QED BY <1>2, <1>3, <1>4

\* The phase a run is at has its entries under /tmp.
LEMMA TagTyped ==
    ASSUME Place, pc \in Running
    PROVE  Tag \in Tags /\ phase \in Nat /\ Len(plan) \in Nat /\ DOMAIN plan = 1..Len(plan)
BY RunbookAssumption DEF Place, Tag, Tags

\* A row that was appended is the last one, and the rows before it are as they were.
LEMMA Appended ==
    ASSUME NEW S, NEW s \in Seq(S), NEW e, NEW t, t = Append(s, e)
    PROVE  /\ t \in Seq(S \cup {e}) /\ Len(s) \in Nat /\ DOMAIN t = 1..(Len(s) + 1)
           /\ DOMAIN s = 1..Len(s)
           /\ \A i \in 1..Len(s) : t[i] = s[i]
           /\ t[Len(s) + 1] = e
<1>1. s \in Seq(S \cup {e}) /\ e \in S \cup {e}
  BY SeqMonotonic
<1> QED BY <1>1

\* A step that leaves the rows leaves what they say.
LEMMA RowsKept ==
    ASSUME Listed, RowsOfTheirOwnWindow, UNCHANGED rows
    PROVE  Listed' /\ RowsOfTheirOwnWindow'
BY DEF Listed, RowsOfTheirOwnWindow, Fresh

-----------------------------------------------------------------------------
(* The steps. *)

LEMMA PlaceStep ==
    ASSUME Place, Next
    PROVE  Place'
<1>1. IsFiniteSet(done') /\ EndOffset \in Nat /\ EndOffset' \in Nat /\ EndOffset <= EndOffset'
  BY TopicGrows
<1>2. pc \in Running => Tag \in Tags
  BY TagTyped
<1>3. /\ plan' \in Plans /\ (pc' \in Running => phase' \in DOMAIN plan')
      /\ start' \in Nat /\ from' \in Nat /\ to' \in Nat
      /\ opened' \in Nat \cup {None} /\ closed' \in Nat \cup {None}
  <2> USE <1>1 DEF Place, Running, Goto, lab, tmp, measuring
  <2>1. CASE \E k \in Keys : CollectionBegins(k) \/ CollectionEnds(k)
    BY <2>1 DEF CollectionBegins, CollectionEnds
  <2>2. CASE CollectdRestarts BY <2>2 DEF CollectdRestarts
  <2>3. CASE Begin
    <3>1. \A p \in Plans : 1 \in DOMAIN p
      BY RunbookAssumption
    <3> QED BY <2>3, <3>1 DEF Begin
  <2>4. CASE Shape BY <2>4 DEF Shape
  <2>5. CASE Settle BY <2>5 DEF Settle
  <2>6. CASE BaseReport BY <2>6 DEF BaseReport
  <2>7. CASE DeriveOffsets
    <3>1. base[Tag] # None => base[Tag] \in Nat
      BY <1>2, <2>7 DEF DeriveOffsets
    <3> QED BY <2>7, <3>1 DEF DeriveOffsets
  <2>8. CASE Window BY <2>8 DEF Window
  <2>9. CASE WindowReport BY <2>9 DEF WindowReport
  <2>10. CASE Read
    <3>1. phase \in Nat /\ Len(plan) \in Nat /\ DOMAIN plan = 1..Len(plan)
      BY <2>10, TagTyped DEF Read
    <3>2. phase \in 1..Len(plan)
      BY <2>10, <3>1 DEF Read
    <3>3. /\ UNCHANGED <<plan, start, from, to, opened, closed>>
          /\ \/ phase' = phase
             \/ phase' = phase + 1 /\ phase # Len(plan)
      BY <2>10 DEF Read, LastPhase
    <3>4. phase \in DOMAIN plan /\ (phase # Len(plan) => phase + 1 \in DOMAIN plan)
      <4>1. ASSUME NEW n \in Nat, NEW m \in 1..n, m # n PROVE m + 1 \in 1..n
        BY <4>1
      <4>2. phase # Len(plan) => phase + 1 \in 1..Len(plan)
        BY <3>1, <3>2, <4>1
      <4> QED BY <3>1, <3>2, <4>2
    <3> QED BY <3>3, <3>4
  <2>11. CASE Killed BY <2>11 DEF Killed
  <2> QED BY <2>1, <2>2, <2>3, <2>4, <2>5, <2>6, <2>7, <2>8, <2>9, <2>10, <2>11
          DEF Next, Collectd, Phase
<1>4. base' \in [Tags -> Nat \cup {None}] /\ \A tag \in Tags : base'[tag] <= EndOffset'
  <2> DEFINE m == EndOffset
             n == EndOffset'
  <2>3. m \in Nat /\ n \in Nat /\ m <= n
    BY <1>1
  <2>4. base \in [Tags -> Nat \cup {None}] /\ \A tag \in Tags : base[tag] <= m
    BY DEF Place
  <2> HIDE DEF m, n
  <2>1. CASE UNCHANGED base
    <3>1. \A tag \in Tags : base[tag] <= n
      BY <2>3, <2>4 DEF None
    <3> QED BY <2>1, <2>4, <3>1 DEF n
  <2>2. CASE BaseReport /\ ~UNCHANGED base
    <3>1. base' = [base EXCEPT ![Tag] = EndOffset] /\ Tag \in Tags
      BY <1>2, <2>2 DEF BaseReport, Running
    <3>2. \A tag \in Tags : IF tag = Tag THEN base'[tag] = m ELSE base'[tag] = base[tag]
      BY <2>4, <3>1 DEF m
    <3>3. base' \in [Tags -> Nat \cup {None}]
      BY <1>1, <2>4, <3>1
    <3>4. \A tag \in Tags : base'[tag] <= n
      BY <2>3, <2>4, <3>2 DEF None
    <3> QED BY <3>3, <3>4 DEF n
  <2> QED BY <2>1, <2>2 DEF Next, Collectd, Phase, CollectionBegins, CollectionEnds,
          CollectdRestarts, Begin, Shape, Settle, BaseReport, DeriveOffsets, Window, WindowReport,
          Read, Killed, tmp
<1>5. /\ DOMAIN side' = Tags
      /\ \A tag \in Tags : side'[tag] # <<>> => side'[tag] \in Nat \X Nat /\ side'[tag][2] <= EndOffset'
  <2>1. CASE UNCHANGED side
    BY <1>1, <2>1 DEF Place
  <2>2. CASE WindowReport /\ ~UNCHANGED side
    <3>1. side' = [side EXCEPT ![Tag] = <<start, EndOffset>>] /\ Tag \in Tags
      BY <1>2, <2>2 DEF WindowReport, Running
    <3>2. <<start, EndOffset>> \in Nat \X Nat /\ <<start, EndOffset>>[2] = EndOffset
      BY <1>1 DEF Place
    <3> QED BY <1>1, <3>1, <3>2 DEF Place
  <2> QED BY <2>1, <2>2 DEF Next, Collectd, Phase, CollectionBegins, CollectionEnds,
          CollectdRestarts, Begin, Shape, Settle, BaseReport, DeriveOffsets, Window, WindowReport,
          Read, Killed, tmp
<1> QED BY <1>1, <1>3, <1>4, <1>5 DEF Place

LEMMA FollowingStep ==
    ASSUME Place, Following, Next
    PROVE  Following'
<1>1. EndOffset \in Nat /\ EndOffset' \in Nat /\ EndOffset <= EndOffset'
  BY TopicGrows
<1>2. pc \in Running => Tag \in Tags
  BY TagTyped
<1>3. from \in Nat /\ to \in Nat /\ opened \in Nat \cup {None} /\ closed \in Nat \cup {None}
  BY DEF Place
<1> USE <1>1, <1>3 DEF Following, Measuring, Running, Goto, tmp, measuring
<1>4. CASE Collectd
  BY <1>4 DEF Collectd, CollectdRestarts, CollectionBegins, CollectionEnds, Tag
<1>5. CASE Begin BY <1>5 DEF Begin
<1>6. CASE Shape BY <1>6 DEF Shape
<1>7. CASE Settle
  <2>1. /\ pc = "settle" /\ pc' = "base" /\ from' = EndOffset /\ opened' = None /\ closed' = None
        /\ Tag' = Tag /\ EndOffset' = EndOffset /\ UNCHANGED <<base, side>>
    BY <1>7 DEF Settle, lab, EndOffset, Tag
  <2>2. base[Tag] <= EndOffset /\ (side[Tag] # <<>> => side[Tag][2] <= EndOffset)
    BY <1>2, <2>1 DEF Place
  <2> QED BY <2>1, <2>2
<1>8. CASE BaseReport
  <2>1. pc = "base" /\ pc' = "derive" /\ Tag' = Tag /\ EndOffset' = EndOffset
        /\ UNCHANGED <<from, closed, side>>
        /\ \/ base' = [base EXCEPT ![Tag] = EndOffset] /\ opened' = EndOffset
           \/ UNCHANGED <<base, opened>>
    BY <1>8 DEF BaseReport, lab, EndOffset, Tag
  <2>2. CASE base' = [base EXCEPT ![Tag] = EndOffset] /\ opened' = EndOffset
    <3>1. base'[Tag] = EndOffset
      BY <1>2, <2>1, <2>2 DEF Place
    <3>2. base'[Tag'] = opened' /\ from' <= EndOffset'
      BY <2>1, <2>2, <3>1
    <3>3. opened' # None /\ from' <= opened' /\ opened' <= EndOffset'
      BY <2>1, <2>2, <3>2 DEF None
    <3> QED BY <2>1, <3>2, <3>3
  <2>3. CASE UNCHANGED <<base, opened>>
    BY <2>1, <2>3
  <2> QED BY <2>1, <2>2, <2>3
<1>9. CASE DeriveOffsets BY <1>9 DEF DeriveOffsets, lab, EndOffset, Tag
<1>10. CASE Window BY <1>10 DEF Window, lab, EndOffset, Tag
<1>11. CASE WindowReport
  <2>1. pc = "report" /\ pc' = "read" /\ Tag' = Tag /\ EndOffset' = EndOffset
        /\ UNCHANGED <<from, to, opened, start>>
        /\ \/ side' = [side EXCEPT ![Tag] = <<start, EndOffset>>] /\ closed' = EndOffset
           \/ UNCHANGED <<side, closed>>
    BY <1>11 DEF WindowReport, lab, EndOffset, Tag
  <2>2. CASE side' = [side EXCEPT ![Tag] = <<start, EndOffset>>] /\ closed' = EndOffset
    <3>1. side'[Tag] = <<start, EndOffset>>
      BY <1>2, <2>1, <2>2 DEF Place
    <3>2. EndOffset # None
      BY DEF None
    <3> QED BY <2>1, <2>2, <3>1, <3>2
  <2>3. CASE UNCHANGED <<side, closed>>
    BY <2>1, <2>3
  <2> QED BY <2>1, <2>2, <2>3
<1>12. CASE Read BY <1>12 DEF Read
<1>13. CASE Killed BY <1>13 DEF Killed
<1> QED BY <1>4, <1>5, <1>6, <1>7, <1>8, <1>9, <1>10, <1>11, <1>12, <1>13 DEF Next, Phase

\* Only Read appends a row, and only Begin empties the list.
LEMMA RowsOf ==
    ASSUME Next
    PROVE  UNCHANGED rows \/ Begin \/ Read
BY DEF Next, Collectd, Phase, CollectionBegins, CollectionEnds, CollectdRestarts, Shape,
       Settle, BaseReport, DeriveOffsets, Window, WindowReport, Killed

\* After t0 the run does not come back to it without a new t0.
LEMMA FromOf ==
    ASSUME Next, pc' \in Measuring
    PROVE  \/ from' = EndOffset
           \/ from' = from /\ pc \in Measuring
BY DEF Measuring, Next, Collectd, Phase, CollectionBegins, CollectionEnds, CollectdRestarts, Begin, Shape,
       Settle, BaseReport, DeriveOffsets, Window, WindowReport, Read, Killed, Goto, measuring

\* What Read appends, if it does.
LEMMA ReadAppends ==
    ASSUME Read, ~UNCHANGED rows
    PROVE  /\ pc = "read" /\ side[Tag] # <<>> /\ UNCHANGED <<lab, measuring>>
           /\ pc' \in {"complete", "shape"}
           /\ \E files \in [backfill : Stretches, capture : Stretches] : \E e :
                /\ rows' = Append(rows, e) /\ e.bounds = side[Tag]
                /\ e.from = from /\ e.to = to /\ e.opened = opened /\ e.closed = closed
                /\ e.seen = SeenOf(files) /\ e.inOneGo = InOneGo(files)
                /\ e.collected = Durations(log, files, t0, t1)
<1>1. PICK files \in [backfill : Stretches, capture : Stretches] :
        rows' = Append(rows,
          [tag |-> Tag, qdisc |-> shown, bounds |-> side[Tag],
           from |-> from, to |-> to, opened |-> opened, closed |-> closed,
           seen |-> SeenOf(files), inOneGo |-> InOneGo(files),
           collected |-> Durations(log, files, t0, t1)])
  BY DEF Read
<1> DEFINE row == [tag |-> Tag, qdisc |-> shown, bounds |-> side[Tag],
                   from |-> from, to |-> to, opened |-> opened, closed |-> closed,
                   seen |-> SeenOf(files), inOneGo |-> InOneGo(files),
                   collected |-> Durations(log, files, t0, t1)]
<1>2. /\ rows' = Append(rows, row) /\ row.bounds = side[Tag]
      /\ row.from = from /\ row.to = to /\ row.opened = opened /\ row.closed = closed
      /\ row.seen = SeenOf(files) /\ row.inOneGo = InOneGo(files)
      /\ row.collected = Durations(log, files, t0, t1)
  BY <1>1
<1>3. pc = "read" /\ side[Tag] # <<>> /\ UNCHANGED <<lab, measuring>> /\ pc' \in {"complete", "shape"}
  BY DEF Read, Goto
<1> QED BY <1>2, <1>3

\* A row that Read appends is of this phase, and its window began after those before it.
LEMMA RowsStep ==
    ASSUME Place, Following, Behind, Listed, RowsOfTheirOwnWindow, Next
    PROVE  Behind' /\ Listed' /\ RowsOfTheirOwnWindow'
<1>1. EndOffset \in Nat /\ EndOffset' \in Nat /\ EndOffset <= EndOffset'
  BY TopicGrows
<1>2. CASE UNCHANGED rows
  <2>1. Behind'
    <3>1. ASSUME NEW i \in Fresh
          PROVE  /\ rows[i].bounds[1] \in Nat /\ rows[i].bounds[2] \in Nat
                 /\ rows[i].bounds[2] <= EndOffset'
                 /\ pc' \in Measuring => rows[i].bounds[2] <= from'
      BY <1>1, <3>1, FromOf DEF Behind
    <3> QED BY <1>2, <3>1 DEF Behind, Fresh
  <2> QED BY <1>2, <2>1, RowsKept
<1>3. CASE Begin
  <2>1. rows' = <<>>
    BY <1>3 DEF Begin
  <2>2. rows' \in Seq({}) /\ DOMAIN rows' = {}
    BY <2>1
  <2> QED BY <2>2 DEF Behind, Listed, RowsOfTheirOwnWindow, Fresh
<1>4. CASE Read /\ ~UNCHANGED rows
  <2>1. /\ pc = "read" /\ side[Tag] # <<>> /\ UNCHANGED <<lab, measuring>> /\ pc' \in {"complete", "shape"}
        /\ \E e : /\ rows' = Append(rows, e) /\ e.bounds = side[Tag]
                  /\ e.from = from /\ e.to = to /\ e.opened = opened /\ e.closed = closed
    BY <1>4, ReadAppends
  <2>2. PICK row : /\ rows' = Append(rows, row) /\ row.bounds = side[Tag]
                   /\ row.from = from /\ row.to = to /\ row.opened = opened /\ row.closed = closed
    BY <2>1
  <2> DEFINE n == Len(rows)
  <2>3. PICK S : rows \in Seq(S)
    BY DEF Listed
  <2>4. /\ rows' \in Seq(S \cup {row}) /\ n \in Nat /\ DOMAIN rows' = 1..(n + 1) /\ DOMAIN rows = 1..n
        /\ \A i \in 1..n : rows'[i] = rows[i]
        /\ rows'[n + 1] = row
    BY <2>2, <2>3, Appended
  <2> HIDE DEF n
  <2>5. /\ row.from \in Nat /\ row.to \in Nat
        /\ row.opened \in Nat \cup {None} /\ row.closed \in Nat \cup {None}
        /\ side[Tag] \in Nat \X Nat /\ row.bounds[1] \in Nat /\ row.bounds[2] \in Nat
        /\ row.bounds[2] <= EndOffset
    <3>1. Tag \in Tags
      BY <2>1, TagTyped DEF Running
    <3>2. side[Tag] \in Nat \X Nat /\ side[Tag][2] <= EndOffset
      BY <2>1, <3>1 DEF Place
    <3> QED BY <2>2, <3>2 DEF Place
  <2>6. /\ row.closed = None => row.bounds[2] <= row.from
        /\ row.closed # None =>
             /\ row.bounds = <<start, row.closed>> /\ row.to <= row.closed
             /\ IF row.opened = None THEN start <= row.from
                ELSE start = row.opened /\ row.from <= row.opened /\ row.opened <= row.to
    BY <2>1, <2>2 DEF Following, Measuring
  <2>7. /\ row.closed # None => row.bounds[1] = start /\ row.bounds[2] = row.closed
        /\ row.opened # None /\ row.closed # None =>
             /\ row.bounds = <<row.opened, row.closed>> /\ row.bounds[1] = row.opened
             /\ row.from <= row.opened /\ row.opened <= row.to /\ row.to <= row.closed
    BY <2>6
  <2>8. \A i \in 1..n : rows[i].opened # None /\ rows[i].closed # None =>
          /\ rows[i].bounds[1] \in Nat /\ rows[i].bounds[2] \in Nat
          /\ rows[i].bounds[2] <= EndOffset /\ rows[i].bounds[2] <= from
    BY <2>1, <2>4 DEF Behind, Fresh, Measuring
  <2>9. EndOffset' = EndOffset
    BY <2>1 DEF EndOffset, lab
  <2>10. Behind'
    <3>1. ASSUME NEW i \in 1..(n + 1), rows'[i].opened # None, rows'[i].closed # None
          PROVE  /\ rows'[i].bounds[1] \in Nat /\ rows'[i].bounds[2] \in Nat
                 /\ rows'[i].bounds[2] <= EndOffset
      <4>1. CASE i = n + 1 BY <2>4, <2>5, <4>1
      <4>2. CASE i # n + 1
        <5>1. i \in 1..n /\ rows'[i] = rows[i]
          BY <2>4, <4>2
        <5> QED BY <2>8, <3>1, <5>1
      <4> QED BY <4>1, <4>2
    <3>2. pc' \notin Measuring
      BY <2>1 DEF Measuring
    <3> QED BY <2>4, <2>9, <3>1, <3>2 DEF Behind, Fresh
  <2>11. RowsOfTheirOwnWindow'
    <3> DEFINE Own(r) ==
           /\ r.opened # None /\ r.closed # None =>
                /\ r.bounds = <<r.opened, r.closed>>
                /\ r.from <= r.opened /\ r.opened <= r.to /\ r.to <= r.closed
           /\ r.opened = None /\ r.closed # None => r.bounds[1] <= r.from /\ r.bounds[2] = r.closed
           /\ r.closed = None => r.bounds[2] <= r.from
    <3>1. ASSUME NEW i \in 1..(n + 1) PROVE Own(rows'[i])
      <4>1. CASE i = n + 1
        <5>1. Own(row)
          BY <2>5, <2>6, <2>7
        <5> QED BY <2>4, <4>1, <5>1
      <4>2. CASE i # n + 1
        <5>1. i \in 1..n /\ rows'[i] = rows[i]
          BY <2>4, <4>2
        <5>2. Own(rows[i])
          BY <2>4, <5>1 DEF RowsOfTheirOwnWindow, Fresh
        <5> QED BY <5>1, <5>2
      <4> QED BY <4>1, <4>2
    <3>2. ASSUME NEW i \in 1..(n + 1), NEW j \in 1..(n + 1), i < j,
                 rows'[i].opened # None, rows'[i].closed # None,
                 rows'[j].opened # None, rows'[j].closed # None
          PROVE  rows'[i].bounds[2] <= rows'[j].bounds[1]
      <4>1. i \in 1..n /\ rows'[i] = rows[i]
        BY <2>4, <3>2
      <4>2. CASE j = n + 1
        <5>1. rows'[j] = row
          BY <2>4, <4>2
        <5> QED BY <2>2, <2>5, <2>7, <2>8, <3>2, <4>1, <5>1
      <4>3. CASE j # n + 1
        <5>1. j \in 1..n /\ rows'[j] = rows[j]
          BY <2>4, <4>3
        <5> QED BY <2>4, <3>2, <4>1, <5>1 DEF RowsOfTheirOwnWindow, Fresh
      <4> QED BY <4>2, <4>3
    <3> QED BY <2>4, <3>1, <3>2 DEF RowsOfTheirOwnWindow, Fresh
  <2> QED BY <2>4, <2>10, <2>11 DEF Listed
<1> QED BY <1>2, <1>3, <1>4, RowsOf

-----------------------------------------------------------------------------
(* The theorems. *)

\* IInv holds initially.
LEMMA InitIInv == Init => IInv
<1> SUFFICES ASSUME Init PROVE IInv
  OBVIOUS
<1>1. Place
  <2>1. base \in [Tags -> Nat \cup {None}]
    BY DEF Init
  <2>2. IsFiniteSet(done)
    BY FS_EmptySet DEF Init
  <2>3. DOMAIN side = Tags /\ plan \in Plans /\ pc \notin Running
    BY DEF Init, Running
  <2>4. EndOffset = 0
    BY FS_EmptySet DEF Init, EndOffset
  <2>5. /\ \A tag \in Tags : base[tag] = None /\ side[tag] = <<>>
        /\ start = 0 /\ from = 0 /\ to = 0 /\ opened = None /\ closed = None
    BY DEF Init
  <2>6. \A tag \in Tags : base[tag] <= EndOffset
    BY <2>4, <2>5 DEF None
  <2> QED BY <2>1, <2>2, <2>3, <2>5, <2>6 DEF Place
<1>2. Following
  BY DEF Init, Following, Measuring
<1>3. rows = <<>>
  BY DEF Init
<1>4. rows \in Seq({}) /\ DOMAIN rows = {}
  BY <1>3
<1> QED BY <1>1, <1>2, <1>4 DEF IInv, Behind, Listed, RowsOfTheirOwnWindow, Fresh

\* Every step keeps IInv.
LEMMA StepIInv == IInv /\ [Next]_vars => IInv'
<1> SUFFICES ASSUME IInv, [Next]_vars PROVE IInv'
  OBVIOUS
<1>1. CASE Next
  BY <1>1, PlaceStep, FollowingStep, RowsStep DEF IInv
<1>2. CASE UNCHANGED vars
  <2>1. UNCHANGED <<done, plan, phase, pc, base, side, start, from, to, opened, closed, rows>>
    BY <1>2 DEF vars, lab, tmp, measuring
  <2> QED BY <2>1 DEF IInv, Place, Following, Behind, Listed, RowsOfTheirOwnWindow, Fresh,
                      EndOffset, Tag
<1> QED BY <1>1, <1>2

\* The inductive invariant holds in every behaviour: which of the files under /tmp are of
\* the phase, and that the rows' windows lie behind it.
THEOREM Invariance == Spec => []IInv
<1> QED BY InitIInv, StepIInv, PTL DEF Spec

\* For any plans, services and number of runs, whatever earlier runs left under /tmp: the
\* bounds of a row are the two reports of its phase when both worked, and its window lies
\* behind those of the rows before it; without the base report they reach back before t0, and
\* without the window's they end there (read_window, capture_offsets of runbook_exec.py).
THEOREM WindowsHold == Spec => []RowsOfTheirOwnWindow
<1>1. IInv => RowsOfTheirOwnWindow
  BY DEF IInv
<1> QED BY Invariance, <1>1, PTL

-----------------------------------------------------------------------------
(* The pairing of durations.py.  Induction over the lines goes by the least *)
(* number of lines for which a claim would fail.                            *)

\* A set of numbers that is not empty has a least one.
LEMMA Least ==
    ASSUME NEW T \in SUBSET Nat, T # {}
    PROVE  \E n \in T : \A m \in T : n <= m
<1>1. IsWellFoundedOn(OpToRel(<, Nat), Nat)
  BY NatLessThanWellFounded
<1>2. PICK x \in T : \A y \in T : ~(<<y, x>> \in OpToRel(<, Nat))
  BY <1>1, WFMin
<1>3. \A y \in T : ~(y < x)
  BY <1>2 DEF OpToRel
<1> QED BY <1>3

\* The recursion of Parsed defines a function.
LEMMA ParsedDef ==
    ASSUME NEW acc, NEW lines, Len(lines) \in Nat, NEW held, NEW first, NEW last
    PROVE  LET parsed == Parsed(acc, lines, held, first, last) IN
           parsed = [t \in 0..Len(lines) |->
                       IF t = 0 THEN acc
                       ELSE IF t \in held THEN Pairs(parsed[t - 1], lines[t], t, first, last)
                       ELSE parsed[t - 1]]
<1> DEFINE Then(a, t) == IF t \in held THEN Pairs(a, lines[t], t, first, last) ELSE a
           G(n, g) == g = [t \in 0..n |-> IF t = 0 THEN acc ELSE Then(g[t - 1], t)]
           Bad == {n \in Nat : ~ \E g : G(n, g)}
<1>1. Bad = {}
  <2> SUFFICES ASSUME Bad # {} PROVE FALSE
    OBVIOUS
  <2> HIDE DEF Then
  <2>1. PICK n \in Bad : \A m \in Bad : n <= m
    BY Least
  <2>2. CASE n = 0
    <3>1. G(0, [t \in 0..0 |-> acc])
      OBVIOUS
    <3> QED BY <2>1, <2>2, <3>1
  <2>3. CASE n # 0
    <3>1. n - 1 \in Nat /\ n - 1 \notin Bad
      BY <2>1, <2>3
    <3>2. PICK g : G(n - 1, g)
      BY <3>1
    <3> DEFINE h == [t \in 0..n |-> IF t <= n - 1 THEN g[t] ELSE Then(g[n - 1], n)]
    <3>3. G(n, h)
      <4>1. ASSUME NEW t \in 0..n
            PROVE  h[t] = IF t = 0 THEN acc ELSE Then(h[t - 1], t)
        BY <3>1, <3>2
      <4> QED BY <4>1
    <3> QED BY <2>1, <3>3
  <2> QED BY <2>2, <2>3
<1>2. \E g : G(Len(lines), g)
  BY <1>1
<1> QED BY <1>2 DEF Parsed

Lines == [verb: {"begin", "end"}, key: Keys]

\* Line b of the log begins a collection that line e ends: nothing of the service is between.
Matched(lines, k, b, e) ==
    /\ b < e
    /\ lines[b] = [verb |-> "begin", key |-> k] /\ lines[e] = [verb |-> "end", key |-> k]
    /\ \A i \in (b + 1)..(e - 1) : lines[i].key # k

Matches(lines, n, first, last) ==
    {c \in Keys \X (1..n) \X (1..n) : first <= c[2] /\ c[3] <= last /\ Matched(lines, c[1], c[2], c[3])}

\* The begins that are open when the lines of S have been read, in order, and what they
\* have been paired to.
OpenIn(lines, S, open) ==
    /\ open \in [Keys -> {None} \cup S]
    /\ \A k \in Keys : open[k] # None =>
         /\ lines[open[k]] = [verb |-> "begin", key |-> k]
         /\ \A i \in S : open[k] < i => lines[i].key # k
    /\ \A k \in Keys, b \in S :
         /\ lines[b] = [verb |-> "begin", key |-> k]
         /\ \A i \in S : b < i => lines[i].key # k
         => open[k] = b

MatchedIn(lines, S, k, b, e) ==
    /\ b < e
    /\ lines[b] = [verb |-> "begin", key |-> k] /\ lines[e] = [verb |-> "end", key |-> k]
    /\ \A i \in S : b < i /\ i < e => lines[i].key # k

MatchesIn(lines, S) == {c \in Keys \X S \X S : MatchedIn(lines, S, c[1], c[2], c[3])}

EachOnce(seq) == \A m, n \in DOMAIN seq : m # n => seq[m] # seq[n]

PairedIn(lines, S, acc) ==
    /\ acc = [open |-> acc.open, durs |-> acc.durs]
    /\ OpenIn(lines, S, acc.open)
    /\ acc.durs \in Seq(MatchesIn(lines, S)) /\ Range(acc.durs) = MatchesIn(lines, S)
    /\ EachOnce(acc.durs)

\* A list that takes in what it had not keeps each once.
LEMMA AppendOnce ==
    ASSUME NEW T, NEW seq \in Seq(T), Range(seq) = T, EachOnce(seq), NEW e, e \notin T
    PROVE  /\ Append(seq, e) \in Seq(T \cup {e}) /\ Range(Append(seq, e)) = T \cup {e}
           /\ EachOnce(Append(seq, e))
<1> DEFINE t == Append(seq, e)
           n == Len(seq)
<1>1. /\ t \in Seq(T \cup {e}) /\ n \in Nat /\ DOMAIN t = 1..(n + 1) /\ DOMAIN seq = 1..n
      /\ \A i \in 1..n : t[i] = seq[i]
      /\ t[n + 1] = e
  BY Appended
<1> HIDE DEF t, n
<1>2. \A i \in 1..n : seq[i] \in T
  BY <1>1 DEF Range
<1>3. Range(t) = T \cup {e}
  <2>1. ASSUME NEW i \in 1..(n + 1) PROVE t[i] \in T \cup {e}
    BY <1>1, <1>2
  <2>2. ASSUME NEW x \in T PROVE \E i \in 1..(n + 1) : t[i] = x
    <3>1. PICK i \in 1..n : seq[i] = x
      BY <1>1 DEF Range
    <3> QED BY <1>1, <3>1
  <2>3. \E i \in 1..(n + 1) : t[i] = e
    BY <1>1
  <2> QED BY <1>1, <2>1, <2>2, <2>3 DEF Range
<1>4. EachOnce(t)
  <2>1. ASSUME NEW i \in 1..(n + 1), NEW j \in 1..(n + 1), i # j PROVE t[i] # t[j]
    <3>1. CASE i = n + 1
      <4>1. j \in 1..n
        BY <1>1, <2>1, <3>1
      <4> QED BY <1>1, <1>2, <3>1, <4>1
    <3>2. CASE j = n + 1
      <4>1. i \in 1..n
        BY <1>1, <2>1, <3>2
      <4> QED BY <1>1, <1>2, <3>2, <4>1
    <3>3. CASE i # n + 1 /\ j # n + 1
      <4>1. i \in 1..n /\ j \in 1..n
        BY <1>1, <3>3
      <4> QED BY <1>1, <2>1, <4>1 DEF EachOnce
    <3> QED BY <3>1, <3>2, <3>3
  <2> QED BY <1>1, <2>1 DEF EachOnce
<1> QED BY <1>1, <1>3, <1>4 DEF t

\* parse, one line: it is read after those of S, and lies in the window.
LEMMA LinePaired ==
    ASSUME NEW lines \in Seq(Lines), NEW S \in SUBSET (1..Len(lines)), NEW acc,
           PairedIn(lines, S, acc),
           NEW t \in 1..Len(lines), \A i \in S : i < t,
           NEW first, NEW last, ~Outside(t, first, last)
    PROVE  PairedIn(lines, S \cup {t}, Pairs(acc, lines[t], t, first, last))
<1> DEFINE o == acc.open
           d == acc.durs
           k == lines[t].key
           St == S \cup {t}
           Old == MatchesIn(lines, S)
<1>1. /\ lines[t] \in Lines /\ k \in Keys /\ t \in Nat /\ S \subseteq Nat /\ t \notin S
      /\ lines[t] = [verb |-> lines[t].verb, key |-> k] /\ lines[t].verb \in {"begin", "end"}
      /\ Len(lines) \in Nat
  <2>1. Len(lines) \in Nat /\ t \in Nat /\ S \subseteq Nat /\ t \notin S
    OBVIOUS
  <2>2. lines[t] \in Lines
    OBVIOUS
  <2>3. /\ lines[t] = [verb |-> lines[t].verb, key |-> lines[t].key]
        /\ lines[t].verb \in {"begin", "end"} /\ lines[t].key \in Keys
    BY <2>2 DEF Lines
  <2> QED BY <2>1, <2>2, <2>3
<1>2. /\ acc = [open |-> o, durs |-> d] /\ OpenIn(lines, S, o)
      /\ d \in Seq(Old) /\ Range(d) = Old /\ EachOnce(d)
  BY DEF PairedIn
<1> HIDE DEF o, d
<1>3. o \in [Keys -> {None} \cup S] /\ None \notin S /\ None \notin St
  BY <1>1, <1>2 DEF OpenIn, None
<1>4. \A j \in Keys, b \in S : \A e \in S : MatchedIn(lines, St, j, b, e) <=> MatchedIn(lines, S, j, b, e)
  <2> SUFFICES ASSUME NEW j \in Keys, NEW b \in S, NEW e \in S
               PROVE  MatchedIn(lines, St, j, b, e) <=> MatchedIn(lines, S, j, b, e)
    OBVIOUS
  <2>1. ~(t < e)
    BY <1>1
  <2> QED BY <2>1 DEF MatchedIn
<1>5. ASSUME NEW c
      PROVE  c \in MatchesIn(lines, St) <=>
               c \in Old \/ (c \in Keys \X S \X {t} /\ MatchedIn(lines, St, c[1], c[2], c[3]))
  <2>1. ASSUME NEW j \in Keys, NEW e \in St PROVE ~MatchedIn(lines, St, j, t, e)
    BY <1>1 DEF MatchedIn
  <2>2. ASSUME c \in MatchesIn(lines, St)
        PROVE  c \in Old \/ (c \in Keys \X S \X {t} /\ MatchedIn(lines, St, c[1], c[2], c[3]))
    <3>1. /\ c = <<c[1], c[2], c[3]>> /\ c[1] \in Keys /\ c[2] \in St /\ c[3] \in St
          /\ MatchedIn(lines, St, c[1], c[2], c[3])
      BY <2>2 DEF MatchesIn
    <3>2. c[2] \in S
      BY <2>1, <3>1
    <3>3. CASE c[3] = t
      BY <3>1, <3>2, <3>3
    <3>4. CASE c[3] \in S
      <4>1. MatchedIn(lines, S, c[1], c[2], c[3])
        BY <1>4, <3>1, <3>2, <3>4
      <4>2. c \in Keys \X S \X S
        BY <3>1, <3>2, <3>4
      <4> QED BY <4>1, <4>2 DEF MatchesIn
    <3> QED BY <3>1, <3>3, <3>4
  <2>3. ASSUME c \in Old PROVE c \in MatchesIn(lines, St)
    <3>1. /\ c \in Keys \X S \X S /\ c[1] \in Keys /\ c[2] \in S /\ c[3] \in S
          /\ MatchedIn(lines, S, c[1], c[2], c[3])
      BY <2>3 DEF MatchesIn
    <3>2. MatchedIn(lines, St, c[1], c[2], c[3])
      BY <1>4, <3>1
    <3>3. c \in Keys \X St \X St
      BY <3>1
    <3> QED BY <3>2, <3>3 DEF MatchesIn
  <2>4. ASSUME c \in Keys \X S \X {t}, MatchedIn(lines, St, c[1], c[2], c[3])
        PROVE  c \in MatchesIn(lines, St)
    <3>1. c \in Keys \X St \X St
      BY <2>4
    <3> QED BY <2>4, <3>1 DEF MatchesIn
  <2> QED BY <2>2, <2>3, <2>4
<1>6. CASE lines[t].verb = "begin"
  <2> DEFINE w == [o EXCEPT ![k] = t]
  <2>1. Pairs(acc, lines[t], t, first, last) = [open |-> w, durs |-> d]
    BY <1>2, <1>6 DEF Pairs, Opens
  <2>2. OpenIn(lines, St, w)
    <3>1. w \in [Keys -> {None} \cup St] /\ w[k] = t /\ \A j \in Keys : j # k => w[j] = o[j]
      BY <1>1, <1>3
    <3> HIDE DEF w
    <3>2. ASSUME NEW j \in Keys, w[j] # None
          PROVE  /\ lines[w[j]] = [verb |-> "begin", key |-> j]
                 /\ \A i \in St : w[j] < i => lines[i].key # j
      <4>1. CASE j = k
        BY <1>1, <1>6, <3>1, <4>1
      <4>2. CASE j # k
        BY <1>2, <3>1, <3>2, <4>2 DEF OpenIn
      <4> QED BY <4>1, <4>2
    <3>3. ASSUME NEW j \in Keys, NEW b \in St, lines[b] = [verb |-> "begin", key |-> j],
                 \A i \in St : b < i => lines[i].key # j
          PROVE  w[j] = b
      <4>1. CASE b = t
        BY <1>1, <3>1, <3>3, <4>1
      <4>2. CASE b # t
        <5>1. b \in S /\ b < t /\ j # k
          BY <3>3, <4>2
        <5>2. o[j] = b
          BY <1>2, <3>3, <5>1 DEF OpenIn
        <5> QED BY <3>1, <5>1, <5>2
      <4> QED BY <4>1, <4>2
    <3> QED BY <3>1, <3>2, <3>3 DEF OpenIn
  <2>3. MatchesIn(lines, St) = Old
    <3>1. \A j, b : ~MatchedIn(lines, St, j, b, t)
      BY <1>1, <1>6 DEF MatchedIn
    <3>2. ASSUME NEW c, c \in Keys \X S \X {t} PROVE ~MatchedIn(lines, St, c[1], c[2], c[3])
      BY <3>1, <3>2
    <3> QED BY <1>5, <3>2
  <2> HIDE DEF w, Old, St
  <2> QED BY <1>2, <2>1, <2>2, <2>3 DEF PairedIn, St
<1>7. CASE lines[t].verb = "end" /\ o[k] = None
  <2>1. Pairs(acc, lines[t], t, first, last) = acc
    <3>1. lines[t].verb # "begin" /\ acc.open = o
      BY <1>2, <1>7
    <3> QED BY <1>7, <3>1 DEF Pairs
  <2>2. OpenIn(lines, St, o)
    <3>1. ASSUME NEW j \in Keys, o[j] # None
          PROVE  /\ lines[o[j]] = [verb |-> "begin", key |-> j]
                 /\ \A i \in St : o[j] < i => lines[i].key # j
      BY <1>2, <1>7, <3>1 DEF OpenIn
    <3>2. ASSUME NEW j \in Keys, NEW b \in St, lines[b] = [verb |-> "begin", key |-> j],
                 \A i \in St : b < i => lines[i].key # j
          PROVE  o[j] = b
      <4>1. b \in S
        BY <1>1, <1>7, <3>2
      <4> QED BY <1>2, <3>2, <4>1 DEF OpenIn
    <3>3. o \in [Keys -> {None} \cup St]
      BY <1>3
    <3> QED BY <3>1, <3>2, <3>3 DEF OpenIn
  <2>3. MatchesIn(lines, St) = Old
    <3>1. ASSUME NEW j \in Keys, NEW b \in S, MatchedIn(lines, St, j, b, t) PROVE FALSE
      <4>1. j = k
        BY <1>1, <3>1 DEF MatchedIn
      <4>2. \A i \in S : b < i => lines[i].key # j
        BY <1>1, <3>1 DEF MatchedIn
      <4>3. o[j] = b
        BY <1>2, <3>1, <4>2 DEF OpenIn, MatchedIn
      <4> QED BY <1>3, <1>7, <4>1, <4>3
    <3>2. ASSUME NEW c, c \in Keys \X S \X {t} PROVE ~MatchedIn(lines, St, c[1], c[2], c[3])
      BY <3>1, <3>2
    <3> QED BY <1>5, <3>2
  <2>4. acc.open = o /\ acc.durs = d
    BY <1>2
  <2> HIDE DEF Old, St
  <2> QED BY <1>2, <2>1, <2>2, <2>3, <2>4 DEF PairedIn, St
<1>8. CASE lines[t].verb = "end" /\ o[k] # None
  <2> DEFINE w == [o EXCEPT ![k] = None]
             c0 == <<k, o[k], t>>
  <2>1. Pairs(acc, lines[t], t, first, last) = [open |-> w, durs |-> Append(d, c0)]
    <3>1. lines[t].verb # "begin" /\ acc.open = o /\ acc.durs = d
      BY <1>2, <1>8
    <3> QED BY <1>8, <3>1 DEF Pairs
  <2>2. OpenIn(lines, St, w)
    <3>1. w \in [Keys -> {None} \cup St] /\ w[k] = None /\ \A j \in Keys : j # k => w[j] = o[j]
      BY <1>1, <1>3
    <3> HIDE DEF w
    <3>2. ASSUME NEW j \in Keys, w[j] # None
          PROVE  /\ lines[w[j]] = [verb |-> "begin", key |-> j]
                 /\ \A i \in St : w[j] < i => lines[i].key # j
      <4>1. j # k /\ w[j] = o[j]
        BY <3>1, <3>2
      <4> QED BY <1>2, <3>2, <4>1 DEF OpenIn
    <3>3. ASSUME NEW j \in Keys, NEW b \in St, lines[b] = [verb |-> "begin", key |-> j],
                 \A i \in St : b < i => lines[i].key # j
          PROVE  w[j] = b
      <4>1. b # t
        BY <1>8, <3>3
      <4>2. b \in S /\ b < t /\ j # k
        BY <3>3, <4>1
      <4>3. o[j] = b
        BY <1>2, <3>3, <4>2 DEF OpenIn
      <4> QED BY <3>1, <4>2, <4>3
    <3> QED BY <3>1, <3>2, <3>3 DEF OpenIn
  <2>3. /\ o[k] \in S /\ lines[o[k]] = [verb |-> "begin", key |-> k]
        /\ \A i \in S : o[k] < i => lines[i].key # k
    BY <1>1, <1>2, <1>3, <1>8 DEF OpenIn
  <2>4. MatchedIn(lines, St, k, o[k], t)
    <3>1. o[k] < t /\ lines[t] = [verb |-> "end", key |-> k]
      BY <1>1, <1>8, <2>3
    <3>2. \A i \in St : o[k] < i /\ i < t => lines[i].key # k
      BY <1>1, <2>3
    <3> QED BY <2>3, <3>1, <3>2 DEF MatchedIn
  <2>5. ASSUME NEW j \in Keys, NEW b \in S, MatchedIn(lines, St, j, b, t)
        PROVE  j = k /\ b = o[k]
    <3>1. j = k
      BY <1>1, <2>5 DEF MatchedIn
    <3>2. \A i \in S : b < i => lines[i].key # j
      BY <1>1, <2>5 DEF MatchedIn
    <3>3. o[j] = b
      BY <1>2, <2>5, <3>2 DEF OpenIn, MatchedIn
    <3> QED BY <3>1, <3>3
  <2>6. MatchesIn(lines, St) = Old \cup {c0}
    <3>1. ASSUME NEW c PROVE (c \in Keys \X S \X {t} /\ MatchedIn(lines, St, c[1], c[2], c[3])) <=> c = c0
      <4>1. ASSUME c \in Keys \X S \X {t}, MatchedIn(lines, St, c[1], c[2], c[3]) PROVE c = c0
        <5>1. c = <<c[1], c[2], c[3]>> /\ c[1] \in Keys /\ c[2] \in S /\ c[3] = t
          BY <4>1
        <5>2. c[1] = k /\ c[2] = o[k]
          BY <2>5, <4>1, <5>1
        <5> QED BY <5>1, <5>2
      <4>2. c0 \in Keys \X S \X {t} /\ c0[1] = k /\ c0[2] = o[k] /\ c0[3] = t
        BY <1>1, <2>3
      <4> QED BY <2>4, <4>1, <4>2
    <3> HIDE DEF c0
    <3> QED BY <1>5, <3>1
  <2>7. c0 \notin Old
    <3>1. c0[3] = t /\ \A c \in Old : c[3] \in S
      BY DEF MatchesIn
    <3> QED BY <1>1, <3>1
  <2> HIDE DEF c0, w, Old, St
  <2>8. /\ Append(d, c0) \in Seq(Old \cup {c0}) /\ Range(Append(d, c0)) = Old \cup {c0}
        /\ EachOnce(Append(d, c0))
    BY <1>2, <2>7, AppendOnce
  <2>9. ASSUME NEW d2, d2 \in Seq(Old \cup {c0}), Range(d2) = Old \cup {c0}, EachOnce(d2)
        PROVE  PairedIn(lines, St, [open |-> w, durs |-> d2])
    BY <2>2, <2>6, <2>9 DEF PairedIn
  <2>10. PairedIn(lines, St, [open |-> w, durs |-> Append(d, c0)])
    BY <2>8, <2>9
  <2> QED BY <2>1, <2>10 DEF St
<1>9. lines[t].verb = "begin" \/ lines[t].verb = "end"
  BY <1>1, Zenon
<1> HIDE DEF k
<1> QED BY <1>6, <1>7, <1>8, <1>9

\* parse, one file: its lines within the window come after those of S.
LEMMA FilePaired ==
    ASSUME NEW lines \in Seq(Lines), NEW S \in SUBSET (1..Len(lines)), NEW acc,
           PairedIn(lines, S, acc),
           NEW held, NEW first, NEW last,
           \A i \in S : \A t \in 1..Len(lines) : t \in held /\ ~Outside(t, first, last) => i < t,
           NEW n \in 0..Len(lines)
    PROVE  PairedIn(lines, S \cup {t \in 1..n : t \in held /\ ~Outside(t, first, last)},
                    Parsed(acc, lines, held, first, last)[n])
<1> DEFINE P(m) == Parsed(acc, lines, held, first, last)[m]
           ReadTo(m) == S \cup {t \in 1..m : t \in held /\ ~Outside(t, first, last)}
           Good(m) == PairedIn(lines, ReadTo(m), P(m))
           Bad == {m \in 0..Len(lines) : ~Good(m)}
<1>1. Len(lines) \in Nat
  OBVIOUS
<1>2. P(0) = acc
  <2> DEFINE parsed == Parsed(acc, lines, held, first, last)
  <2>1. 0 \in 0..Len(lines)
    BY <1>1
  <2>2. parsed = [t \in 0..Len(lines) |->
                    IF t = 0 THEN acc
                    ELSE IF t \in held THEN Pairs(parsed[t - 1], lines[t], t, first, last)
                    ELSE parsed[t - 1]]
    BY <1>1, ParsedDef
  <2> HIDE DEF parsed
  <2>3. parsed[0] = acc
    BY <2>1, <2>2
  <2> QED BY <2>3 DEF parsed
<1>3. ASSUME NEW m \in 1..Len(lines)
      PROVE  P(m) = IF m \in held THEN Pairs(P(m - 1), lines[m], m, first, last) ELSE P(m - 1)
  <2>1. m \in 0..Len(lines) /\ m # 0
    BY <1>1
  <2> QED BY <1>1, <2>1, ParsedDef
<1> HIDE DEF P
<1>4. Good(0)
  <2>1. ReadTo(0) = S
    OBVIOUS
  <2> HIDE DEF ReadTo
  <2> QED BY <1>2, <2>1
<1>5. ASSUME NEW m \in 1..Len(lines), Good(m - 1) PROVE Good(m)
  <2>1. ReadTo(m - 1) \in SUBSET (1..Len(lines))
    <3>1. \A t \in 1..(m - 1) : t \in 1..Len(lines)
      BY <1>1
    <3> QED BY <3>1
  <2>2. CASE m \in held /\ ~Outside(m, first, last)
    <3>1. P(m) = Pairs(P(m - 1), lines[m], m, first, last)
      BY <1>3, <2>2
    <3>2. \A i \in ReadTo(m - 1) : i < m
      BY <1>1, <2>2
    <3>3. ReadTo(m) = ReadTo(m - 1) \cup {m}
      BY <1>1, <2>2
    <3> HIDE DEF ReadTo
    <3> QED BY <1>5, <2>1, <2>2, <3>1, <3>2, <3>3, LinePaired
  <2>3. CASE ~(m \in held /\ ~Outside(m, first, last))
    <3>1. P(m) = P(m - 1)
      BY <1>3, <2>3 DEF Pairs
    <3>2. ReadTo(m) = ReadTo(m - 1)
      BY <1>1, <2>3
    <3> HIDE DEF ReadTo
    <3> QED BY <1>5, <3>1, <3>2
  <2> QED BY <2>2, <2>3
<1>6. Bad = {}
  <2> SUFFICES ASSUME Bad # {} PROVE FALSE
    OBVIOUS
  <2> HIDE DEF Good
  <2>1. PICK m \in Bad : \A j \in Bad : m <= j
    <3>1. Bad \in SUBSET Nat
      BY <1>1
    <3> HIDE DEF Bad
    <3> QED BY <3>1, Least
  <2>2. m # 0 /\ m \in 1..Len(lines)
    BY <1>1, <1>4, <2>1
  <2>3. m - 1 \in 0..Len(lines) /\ m - 1 \notin Bad
    BY <1>1, <2>1, <2>2
  <2> QED BY <1>5, <2>1, <2>2, <2>3
<1> QED BY <1>6 DEF P

-----------------------------------------------------------------------------
(* The collections and the log. *)

\* What has been collected is what matches in the log, and a service that is being
\* collected has its begin as the last of its lines.
LogInv ==
    /\ log \in Seq(Lines) /\ collecting \in [Keys -> {None} \cup 1..Now]
    /\ \A k \in Keys : collecting[k] # None =>
         /\ log[collecting[k]] = [verb |-> "begin", key |-> k]
         /\ \A i \in (collecting[k] + 1)..Now : log[i].key # k
    /\ done = Matches(log, Now, 0, Now)

\* A row has the collections that began and ended in what was read, each once.
Kept(row, C) ==
    /\ Range(row.collected) = {c \in C : c[2] \in row.seen /\ c[3] \in row.seen}
    /\ EachOnce(row.collected)

\* What was read for a row had been logged.
RowsInv ==
    /\ t0 \in Nat /\ t1 \in Nat /\ t1 <= Now
    /\ \A i \in DOMAIN rows :
         rows[i].seen \subseteq 1..Now /\ (rows[i].inOneGo => Kept(rows[i], done))

Ending(lines, n) == {c \in Keys \X (1..n) \X {n} : Matched(lines, c[1], c[2], n)}

\* A line is appended: no line before it changes, and a match that is new ends with it.
LEMMA MatchesOfAppend ==
    ASSUME NEW s, NEW t, NEW n \in Nat, \A i \in 1..n : t[i] = s[i]
    PROVE  Matches(t, n + 1, 0, n + 1) = Matches(s, n, 0, n) \cup Ending(t, n + 1)
<1>1. \A k : \A b \in 1..n, e \in 1..n : Matched(t, k, b, e) <=> Matched(s, k, b, e)
  BY DEF Matched
<1>2. ASSUME NEW c PROVE c \in Matches(t, n + 1, 0, n + 1) <=>
              \/ c \in Matches(s, n, 0, n)
              \/ c \in Ending(t, n + 1)
  <2>1. CASE c \in Keys \X (1..(n + 1)) \X (1..(n + 1))
    <3>1. c = <<c[1], c[2], c[3]>> /\ c[1] \in Keys /\ c[2] \in 1..(n + 1) /\ c[3] \in 1..(n + 1)
      BY <2>1
    <3>2. CASE c[3] = n + 1
      BY <3>1, <3>2 DEF Matches, Ending
    <3>3. CASE c[3] # n + 1
      <4>1. c[3] \in 1..n /\ c[3] <= n /\ c[3] <= n + 1 /\ 0 <= c[2]
        BY <3>1, <3>3
      <4>2. CASE c[2] \in 1..n
        <5>1. c \in Matches(t, n + 1, 0, n + 1) <=> Matched(t, c[1], c[2], c[3])
          BY <2>1, <4>1 DEF Matches
        <5>2. c \in Keys \X (1..n) \X (1..n)
          BY <3>1, <4>1, <4>2
        <5>3. c \in Matches(s, n, 0, n) <=> Matched(s, c[1], c[2], c[3])
          BY <4>1, <5>2 DEF Matches
        <5>4. c \notin Ending(t, n + 1)
          BY <3>3 DEF Ending
        <5> QED BY <1>1, <4>1, <4>2, <5>1, <5>3, <5>4
      <4>3. CASE c[2] \notin 1..n
        <5>1. ~Matched(t, c[1], c[2], c[3])
          BY <3>1, <4>1, <4>3 DEF Matched
        <5> QED BY <3>1, <3>3, <4>3, <5>1 DEF Matches, Ending
      <4> QED BY <4>2, <4>3
    <3> QED BY <3>2, <3>3
  <2>2. CASE c \notin Keys \X (1..(n + 1)) \X (1..(n + 1))
    <3>1. \A i : (i \in 1..n => i \in 1..(n + 1)) /\ n + 1 \in 1..(n + 1)
      OBVIOUS
    <3>2. ASSUME c \in Keys \X (1..n) \X (1..n) PROVE FALSE
      BY <2>2, <3>1, <3>2
    <3>3. ASSUME c \in Keys \X (1..(n + 1)) \X {n + 1} PROVE FALSE
      BY <2>2, <3>1, <3>3
    <3> QED BY <2>2, <3>2, <3>3 DEF Matches, Ending
  <2> QED BY <2>1, <2>2
<1> QED BY <1>2

\* Collectd logs a begin and an end of what it collects; a restart logs nothing.
LEMMA LogStep ==
    ASSUME LogInv, Next
    PROVE  /\ LogInv' /\ Now \in Nat /\ Now <= Now' /\ Now' \in Nat
           /\ done \subseteq done' /\ \A c \in done' \ done : c[3] = Now + 1
<1>1. Now \in Nat
  BY DEF LogInv, Now
<1>2. ASSUME NEW k \in Keys, CollectionBegins(k)
      PROVE  LogInv' /\ Now' = Now + 1 /\ done' = done
  <2>1. /\ log' = Append(log, [verb |-> "begin", key |-> k]) /\ done' = done
        /\ collecting' = [collecting EXCEPT ![k] = Now + 1]
    BY <1>2 DEF CollectionBegins, Say
  <2>2. [verb |-> "begin", key |-> k] \in Lines
    BY DEF Lines
  <2> DEFINE x == [verb |-> "begin", key |-> k]
  <2>3. /\ log' \in Seq(Lines) /\ Now' = Now + 1
        /\ log'[Now + 1] = [verb |-> "begin", key |-> k] /\ \A i \in 1..Now : log'[i] = log[i]
        /\ Matches(log', Now + 1, 0, Now + 1) = Matches(log, Now, 0, Now) \cup Ending(log', Now + 1)
    <3>1. log \in Seq(Lines) /\ Now = Len(log) /\ Now' = Len(log')
      BY DEF LogInv, Now
    <3>2. log' = Append(log, x) /\ x \in Lines
      BY <2>1, <2>2
    <3> HIDE DEF x
    <3>3. /\ log' \in Seq(Lines) /\ Len(log') = Now + 1
          /\ log'[Now + 1] = x /\ \A i \in 1..Now : log'[i] = log[i]
          /\ Matches(log', Now + 1, 0, Now + 1) = Matches(log, Now, 0, Now) \cup Ending(log', Now + 1)
      <4>1. /\ log' \in Seq(Lines) /\ Len(log') = Now + 1
            /\ log'[Now + 1] = x /\ \A i \in 1..Now : log'[i] = log[i]
        BY <3>1, <3>2
      <4> QED BY <1>1, <4>1, MatchesOfAppend
    <3> QED BY <3>1, <3>3 DEF x
  <2>4. \A j, b : ~Matched(log', j, b, Now + 1)
    BY <2>3 DEF Matched
  <2>5. done' = Matches(log', Now', 0, Now')
    BY <2>1, <2>3, <2>4 DEF LogInv, Ending
  <2>6. collecting' \in [Keys -> {None} \cup 1..Now']
    BY <1>1, <2>1, <2>3 DEF LogInv
  <2>7. \A j \in Keys : collecting'[j] # None =>
          /\ log'[collecting'[j]] = [verb |-> "begin", key |-> j]
          /\ \A i \in (collecting'[j] + 1)..Now' : log'[i].key # j
    <3>1. log'[Now + 1].key = k
      BY <2>3
    <3>2. collecting'[k] = Now + 1 /\ \A j \in Keys : j # k => collecting'[j] = collecting[j]
      BY <2>1 DEF LogInv
    <3>3. \A j \in Keys : j # k /\ collecting'[j] # None =>
            /\ log'[collecting'[j]] = [verb |-> "begin", key |-> j]
            /\ \A i \in (collecting'[j] + 1)..Now : log'[i].key # j
      <4>1. ASSUME NEW j \in Keys, j # k, collecting'[j] # None
            PROVE  /\ log'[collecting'[j]] = [verb |-> "begin", key |-> j]
                   /\ \A i \in (collecting'[j] + 1)..Now : log'[i].key # j
        <5>1. collecting[j] = collecting'[j] /\ collecting[j] \in 1..Now
          BY <3>2, <4>1 DEF LogInv
        <5>2. \A i \in (collecting[j] + 1)..Now : i \in 1..Now
          BY <1>1, <5>1
        <5> QED BY <2>3, <4>1, <5>1, <5>2 DEF LogInv
      <4> QED BY <4>1
    <3>4. \A i \in ((Now + 1) + 1)..(Now + 1) : FALSE
      BY <1>1
    <3>5. \A c \in 1..Now : \A i \in (c + 1)..(Now + 1) : i \in (c + 1)..Now \/ i = Now + 1
      BY <1>1
    <3> QED BY <1>1, <2>3, <3>1, <3>2, <3>3, <3>4, <3>5 DEF LogInv
  <2> QED BY <2>1, <2>3, <2>5, <2>6, <2>7 DEF LogInv
<1>3. ASSUME NEW k \in Keys, CollectionEnds(k)
      PROVE  LogInv' /\ Now' = Now + 1 /\ done \subseteq done' /\ \A c \in done' \ done : c[3] = Now + 1
  <2> DEFINE b0 == collecting[k]
  <2>1. /\ log' = Append(log, [verb |-> "end", key |-> k]) /\ b0 # None
        /\ done' = done \cup {<<k, b0, Now + 1>>}
        /\ collecting' = [collecting EXCEPT ![k] = None]
    BY <1>3 DEF CollectionEnds, Say
  <2>2. [verb |-> "end", key |-> k] \in Lines
    BY DEF Lines
  <2> DEFINE x == [verb |-> "end", key |-> k]
  <2>3. /\ log' \in Seq(Lines) /\ Now' = Now + 1
        /\ log'[Now + 1] = [verb |-> "end", key |-> k] /\ \A i \in 1..Now : log'[i] = log[i]
        /\ Matches(log', Now + 1, 0, Now + 1) = Matches(log, Now, 0, Now) \cup Ending(log', Now + 1)
    <3>1. log \in Seq(Lines) /\ Now = Len(log) /\ Now' = Len(log')
      BY DEF LogInv, Now
    <3>2. log' = Append(log, x) /\ x \in Lines
      BY <2>1, <2>2
    <3> HIDE DEF x
    <3>3. /\ log' \in Seq(Lines) /\ Len(log') = Now + 1
          /\ log'[Now + 1] = x /\ \A i \in 1..Now : log'[i] = log[i]
          /\ Matches(log', Now + 1, 0, Now + 1) = Matches(log, Now, 0, Now) \cup Ending(log', Now + 1)
      <4>1. /\ log' \in Seq(Lines) /\ Len(log') = Now + 1
            /\ log'[Now + 1] = x /\ \A i \in 1..Now : log'[i] = log[i]
        BY <3>1, <3>2
      <4> QED BY <1>1, <4>1, MatchesOfAppend
    <3> QED BY <3>1, <3>3 DEF x
  <2>4. /\ b0 \in 1..Now /\ log[b0] = [verb |-> "begin", key |-> k]
        /\ \A i \in (b0 + 1)..Now : log[i].key # k
    BY <2>1 DEF LogInv
  <2>5. Matched(log', k, b0, Now + 1)
    BY <1>1, <2>3, <2>4 DEF Matched
  <2>6. ASSUME NEW j \in Keys, NEW b \in 1..(Now + 1), Matched(log', j, b, Now + 1)
        PROVE  j = k /\ b = b0
    <3>1. j = k /\ b \in 1..Now /\ log[b] = [verb |-> "begin", key |-> k]
      BY <1>1, <2>3, <2>6 DEF Matched
    <3>2. ~(b < b0)
      BY <1>1, <2>3, <2>4, <2>6, <3>1 DEF Matched
    <3>3. ~(b > b0)
      BY <1>1, <2>4, <3>1
    <3> QED BY <2>4, <3>1, <3>2, <3>3
  <2>7. Ending(log', Now + 1) = {<<k, b0, Now + 1>>}
    <3>1. <<k, b0, Now + 1>> \in Keys \X (1..(Now + 1)) \X {Now + 1}
      BY <1>1, <2>4
    <3> QED BY <2>5, <2>6, <3>1 DEF Ending
  <2>8. done' = Matches(log', Now', 0, Now')
    BY <2>1, <2>3, <2>7 DEF LogInv
  <2>9. collecting' \in [Keys -> {None} \cup 1..Now']
    BY <1>1, <2>1, <2>3 DEF LogInv
  <2>10. \A j \in Keys : collecting'[j] # None =>
          /\ log'[collecting'[j]] = [verb |-> "begin", key |-> j]
          /\ \A i \in (collecting'[j] + 1)..Now' : log'[i].key # j
    <3>1. log'[Now + 1].key = k
      BY <2>3
    <3>2. collecting'[k] = None /\ \A j \in Keys : j # k => collecting'[j] = collecting[j]
      BY <2>1 DEF LogInv
    <3>3. \A c \in 1..Now : \A i \in (c + 1)..(Now + 1) : i \in (c + 1)..Now \/ i = Now + 1
      BY <1>1
    <3>4. ASSUME NEW j \in Keys, collecting'[j] # None
          PROVE  /\ log'[collecting'[j]] = [verb |-> "begin", key |-> j]
                 /\ \A i \in (collecting'[j] + 1)..Now' : log'[i].key # j
      <4>1. j # k /\ collecting[j] = collecting'[j] /\ collecting[j] \in 1..Now
        BY <3>2, <3>4 DEF LogInv
      <4>2. \A i \in (collecting[j] + 1)..Now : i \in 1..Now
        BY <1>1, <4>1
      <4>3. log[collecting[j]] = [verb |-> "begin", key |-> j] /\ \A i \in (collecting[j] + 1)..Now : log[i].key # j
        BY <3>4, <4>1 DEF LogInv
      <4>4. \A i \in (collecting[j] + 1)..Now : log'[i].key # j
        BY <2>3, <4>2, <4>3
      <4>5. \A i \in (collecting[j] + 1)..(Now + 1) : log'[i].key # j
        BY <3>1, <3>3, <4>1, <4>4
      <4> QED BY <2>3, <4>1, <4>3, <4>5
    <3> QED BY <3>4
  <2>11. LogInv'
    BY <2>3, <2>8, <2>9, <2>10 DEF LogInv
  <2>12. <<k, b0, Now + 1>>[3] = Now + 1
    OBVIOUS
  <2> QED BY <2>1, <2>3, <2>11, <2>12
<1>4. CASE UNCHANGED log /\ done' = done /\ (collecting' = collecting \/ collecting' = [k \in Keys |-> None])
  BY <1>1, <1>4 DEF LogInv, Now
<1>5. CASE \E k \in Keys : CollectionBegins(k) \/ CollectionEnds(k)
  BY <1>1, <1>2, <1>3, <1>5
<1>6. \/ \E k \in Keys : CollectionBegins(k) \/ CollectionEnds(k)
      \/ UNCHANGED log /\ done' = done /\ (collecting' = collecting \/ collecting' = [k \in Keys |-> None])
  BY DEF Next, Collectd, Phase, CollectdRestarts, Begin, Shape, Settle, BaseReport, DeriveOffsets,
         Window, WindowReport, Read, Killed, lab
<1> QED BY <1>1, <1>4, <1>5, <1>6

\* Two files that are read in one go are read as one stretch of the log.
LEMMA OneStretch ==
    ASSUME Now \in Nat, t0 \in Nat, t1 \in Nat,
           NEW files \in [backfill : Stretches, capture : Stretches], InOneGo(files)
    PROVE  /\ InWindow(files.backfill) \subseteq 1..Now /\ InWindow(files.capture) \subseteq 1..Now
           /\ \A i \in InWindow(files.backfill), j \in InWindow(files.capture) : i < j
           /\ \A b \in SeenOf(files), e \in SeenOf(files), i \in Nat :
                b < i /\ i < e => i \in SeenOf(files)
<1> DEFINE A == InWindow(files.backfill)
           B == InWindow(files.capture)
<1>1. \A held \in Stretches :
        /\ InWindow(held) \subseteq 1..Now
        /\ \A b \in InWindow(held), e \in InWindow(held), i \in Nat : b < i /\ i < e => i \in InWindow(held)
  <2> SUFFICES ASSUME NEW first \in 1..(Now + 1), NEW last \in 0..Now
               PROVE  /\ InWindow(first..last) \subseteq 1..Now
                      /\ \A b \in InWindow(first..last), e \in InWindow(first..last), i \in Nat :
                           b < i /\ i < e => i \in InWindow(first..last)
    BY DEF Stretches
  <2> QED BY DEF InWindow
<1>2. files.backfill \in Stretches /\ files.capture \in Stretches
  OBVIOUS
<1>3. \A i \in A, j \in B : i < j /\ i..j \subseteq SeenOf(files)
  BY DEF InOneGo
<1>4. A \subseteq 1..Now /\ B \subseteq 1..Now /\ SeenOf(files) = A \cup B
  BY <1>1, <1>2 DEF SeenOf
<1>5. /\ \A b \in A, e \in A, i \in Nat : b < i /\ i < e => i \in A
      /\ \A b \in B, e \in B, i \in Nat : b < i /\ i < e => i \in B
  BY <1>1, <1>2
<1> HIDE DEF A, B
<1>6. ASSUME NEW b \in SeenOf(files), NEW e \in SeenOf(files), NEW i \in Nat, b < i, i < e
      PROVE  i \in SeenOf(files)
  <2>1. CASE b \in A /\ e \in A
    BY <1>4, <1>5, <1>6, <2>1
  <2>2. CASE b \in B /\ e \in B
    BY <1>4, <1>5, <1>6, <2>2
  <2>3. CASE b \in A /\ e \in B
    <3>1. b \in Nat /\ e \in Nat /\ i \in b..e
      BY <1>4, <1>6, <2>3
    <3> QED BY <1>3, <2>3, <3>1
  <2>4. CASE b \in B /\ e \in A
    <3>1. e < b /\ b \in Nat /\ e \in Nat
      BY <1>3, <1>4, <2>4
    <3> QED BY <1>6, <3>1
  <2> QED BY <1>4, <2>1, <2>2, <2>3, <2>4
<1> QED BY <1>3, <1>4, <1>6 DEF A, B

\* What durations.py finds is what was collected within what it read.
LEMMA DurationsSound ==
    ASSUME LogInv, t0 \in Nat, t1 \in Nat,
           NEW files \in [backfill : Stretches, capture : Stretches], InOneGo(files)
    PROVE  LET durs == Durations(log, files, t0, t1) IN
           /\ Range(durs) = {c \in done : c[2] \in SeenOf(files) /\ c[3] \in SeenOf(files)}
           /\ EachOnce(durs)
<1> DEFINE A == InWindow(files.backfill)
           B == InWindow(files.capture)
           S == SeenOf(files)
           backfilled == Parsed(NothingRead, log, files.backfill, t0, t1)[Now]
           all == Parsed(backfilled, log, files.capture, t0, t1)[Now]
<1>1. Now \in Nat /\ Now = Len(log) /\ Now \in 0..Len(log) /\ log \in Seq(Lines)
  BY DEF LogInv, Now
<1>2. /\ A \subseteq 1..Now /\ B \subseteq 1..Now /\ S = A \cup B
      /\ \A i \in A, j \in B : i < j
      /\ \A b \in S, e \in S, i \in Nat : b < i /\ i < e => i \in S
  BY <1>1, OneStretch DEF SeenOf
<1>3. ASSUME NEW held \in SUBSET Nat, InWindow(held) \subseteq 1..Now
      PROVE  InWindow(held) = {t \in 1..Now : t \in held /\ ~Outside(t, t0, t1)}
  BY <1>1, <1>3 DEF InWindow, Outside
<1>4. files.backfill \in SUBSET Nat /\ files.capture \in SUBSET Nat
  <2>1. \A held \in Stretches : held \in SUBSET Nat
    BY <1>1 DEF Stretches
  <2>2. files.backfill \in Stretches /\ files.capture \in Stretches
    OBVIOUS
  <2> QED BY <2>1, <2>2
<1>5. /\ A = {t \in 1..Now : t \in files.backfill /\ ~Outside(t, t0, t1)}
      /\ B = {t \in 1..Now : t \in files.capture /\ ~Outside(t, t0, t1)}
  BY <1>2, <1>3, <1>4
<1>6. PairedIn(log, {}, NothingRead)
  <2>1. MatchesIn(log, {}) = {}
    BY DEF MatchesIn
  <2>2. NothingRead = [open |-> NothingRead.open, durs |-> NothingRead.durs]
        /\ NothingRead.durs = <<>> /\ NothingRead.open = [k \in Keys |-> None]
    BY DEF NothingRead
  <2>3. OpenIn(log, {}, NothingRead.open)
    BY <2>2 DEF OpenIn
  <2>4. <<>> \in Seq({}) /\ DOMAIN <<>> = {}
    OBVIOUS
  <2> QED BY <2>1, <2>2, <2>3, <2>4 DEF PairedIn, EachOnce, Range
<1> HIDE DEF A, B, S
<1>7. PairedIn(log, {} \cup A, backfilled)
  <2>1. {} \in SUBSET (1..Len(log))
    OBVIOUS
  <2>2. PairedIn(log, {} \cup {t \in 1..Now : t \in files.backfill /\ ~Outside(t, t0, t1)}, backfilled)
    BY <1>1, <1>6, <2>1, FilePaired
  <2> QED BY <1>5, <2>2
<1> HIDE DEF backfilled
<1>8. PairedIn(log, S, all)
  <2>1. A \in SUBSET (1..Len(log)) /\ PairedIn(log, A, backfilled)
    <3>1. {} \cup A = A
      OBVIOUS
    <3> QED BY <1>1, <1>2, <1>7, <3>1
  <2>2. \A i \in A : \A t \in 1..Len(log) : t \in files.capture /\ ~Outside(t, t0, t1) => i < t
    BY <1>1, <1>2, <1>5
  <2>3. PairedIn(log, A \cup {t \in 1..Now : t \in files.capture /\ ~Outside(t, t0, t1)}, all)
    BY <1>1, <2>1, <2>2, FilePaired
  <2> QED BY <1>2, <1>5, <2>3
<1>9. Durations(log, files, t0, t1) = all.durs
  BY <1>1 DEF Durations, backfilled
<1>10. MatchesIn(log, S) = {c \in done : c[2] \in S /\ c[3] \in S}
  <2>1. S \subseteq 1..Now
    BY <1>2
  <2>2. ASSUME NEW k \in Keys, NEW b \in S, NEW e \in S
        PROVE  MatchedIn(log, S, k, b, e) <=> Matched(log, k, b, e)
    <3>1. b \in Nat /\ e \in Nat
      BY <2>1
    <3>2. \A i \in S : b < i /\ i < e => i \in (b + 1)..(e - 1)
      BY <2>1, <3>1
    <3>3. \A i \in (b + 1)..(e - 1) : i \in Nat /\ b < i /\ i < e
      BY <3>1
    <3>4. \A i \in (b + 1)..(e - 1) : i \in S
      BY <1>2, <3>3
    <3> QED BY <3>2, <3>3, <3>4 DEF MatchedIn, Matched
  <2>3. ASSUME NEW c PROVE c \in MatchesIn(log, S) <=> (c \in done /\ c[2] \in S /\ c[3] \in S)
    <3>1. CASE c \in MatchesIn(log, S)
      <4>1. /\ c = <<c[1], c[2], c[3]>> /\ c[1] \in Keys /\ c[2] \in S /\ c[3] \in S
            /\ MatchedIn(log, S, c[1], c[2], c[3])
        BY <3>1 DEF MatchesIn
      <4>2. Matched(log, c[1], c[2], c[3])
        BY <2>2, <4>1
      <4>3. c[2] \in 1..Now /\ c[3] \in 1..Now /\ 0 <= c[2] /\ c[3] <= Now
        BY <1>1, <2>1, <4>1
      <4>4. c \in Keys \X (1..Now) \X (1..Now)
        BY <4>1, <4>3
      <4> QED BY <3>1, <4>1, <4>2, <4>3, <4>4 DEF Matches, LogInv
    <3>2. CASE c \in done /\ c[2] \in S /\ c[3] \in S
      <4>1. c \in Keys \X (1..Now) \X (1..Now) /\ Matched(log, c[1], c[2], c[3])
        BY <3>2 DEF Matches, LogInv
      <4>2. c = <<c[1], c[2], c[3]>> /\ c[1] \in Keys
        BY <4>1
      <4>3. c \in Keys \X S \X S
        BY <3>2, <4>2
      <4>4. MatchedIn(log, S, c[1], c[2], c[3])
        BY <2>2, <3>2, <4>1, <4>2
      <4> QED BY <3>2, <4>3, <4>4 DEF MatchesIn
    <3> QED BY <3>1, <3>2
  <2> QED BY <2>3
<1> QED BY <1>8, <1>9, <1>10 DEF PairedIn, S

\* Only the window sets t1, to the present, and only the settle t0.
LEMMA TimesOf ==
    ASSUME Next
    PROVE  t0' \in {0, t0, Now} /\ t1' \in {0, t1, Now}
BY DEF Next, Collectd, Phase, CollectionBegins, CollectionEnds, CollectdRestarts, Begin, Shape,
       Settle, BaseReport, DeriveOffsets, Window, WindowReport, Read, Killed, measuring

\* What is collected later has ended after all that was read for a row.
LEMMA RowsInvStep ==
    ASSUME LogInv, RowsInv, Listed, Next
    PROVE  RowsInv'
<1>1. /\ LogInv' /\ Now \in Nat /\ Now <= Now' /\ Now' \in Nat
      /\ done \subseteq done' /\ \A c \in done' \ done : c[3] = Now + 1
  BY LogStep
<1>2. t0' \in Nat /\ t1' \in Nat /\ t1' <= Now'
  BY <1>1, TimesOf DEF RowsInv
<1>3. ASSUME NEW row, row.seen \subseteq 1..Now
      PROVE  row.seen \subseteq 1..Now' /\ (Kept(row, done) => Kept(row, done'))
  <2>1. Now + 1 \notin row.seen
    BY <1>1, <1>3
  <2>2. {c \in done' : c[2] \in row.seen /\ c[3] \in row.seen}
          = {c \in done : c[2] \in row.seen /\ c[3] \in row.seen}
    BY <1>1, <2>1
  <2>3. \A i \in 1..Now : i \in 1..Now'
    BY <1>1
  <2> QED BY <1>3, <2>2, <2>3 DEF Kept
<1>4. CASE UNCHANGED rows
  BY <1>2, <1>3, <1>4 DEF RowsInv
<1>5. CASE Begin
  <2>1. rows' = <<>>
    BY <1>5 DEF Begin
  <2>2. DOMAIN rows' = {}
    BY <2>1
  <2> QED BY <1>2, <2>2 DEF RowsInv
<1>6. CASE Read /\ ~UNCHANGED rows
  <2> DEFINE n == Len(rows)
  <2>0. PICK files \in [backfill : Stretches, capture : Stretches] :
          \E e : /\ rows' = Append(rows, e)
                /\ e.seen = SeenOf(files) /\ e.inOneGo = InOneGo(files)
                /\ e.collected = Durations(log, files, t0, t1)
    BY <1>6, ReadAppends
  <2>1. PICK row :
          /\ rows' = Append(rows, row)
          /\ row.seen = SeenOf(files) /\ row.inOneGo = InOneGo(files)
          /\ row.collected = Durations(log, files, t0, t1)
    BY <2>0
  <2>2. row.seen \subseteq 1..Now
    <3>1. \A held \in Stretches : InWindow(held) \subseteq 1..Now
      BY <1>1 DEF Stretches, InWindow
    <3>2. files.backfill \in Stretches /\ files.capture \in Stretches
      OBVIOUS
    <3> QED BY <2>1, <3>1, <3>2 DEF SeenOf
  <2>3. row.inOneGo => Kept(row, done)
    BY <2>1, DurationsSound DEF RowsInv, Kept
  <2>4. PICK S : rows \in Seq(S)
    BY DEF Listed
  <2>5. /\ n \in Nat /\ DOMAIN rows' = 1..(n + 1) /\ DOMAIN rows = 1..n
        /\ \A i \in 1..n : rows'[i] = rows[i]
        /\ rows'[n + 1] = row
    BY <2>1, <2>4, Appended
  <2> HIDE DEF n
  <2>6. ASSUME NEW i \in 1..(n + 1)
        PROVE  rows'[i].seen \subseteq 1..Now' /\ (rows'[i].inOneGo => Kept(rows'[i], done'))
    <3>1. CASE i = n + 1
      BY <1>3, <2>2, <2>3, <2>5, <3>1
    <3>2. CASE i # n + 1
      <4>1. i \in 1..n /\ rows'[i] = rows[i]
        BY <2>5, <3>2
      <4>2. rows[i].seen \subseteq 1..Now /\ (rows[i].inOneGo => Kept(rows[i], done))
        BY <2>5, <4>1 DEF RowsInv
      <4> QED BY <1>3, <4>1, <4>2
    <3> QED BY <3>1, <3>2
  <2> QED BY <1>2, <2>5, <2>6 DEF RowsInv
<1> QED BY <1>4, <1>5, <1>6, RowsOf

\* The log is the record of what was collected, and every row read what had been logged.
LEMMA Pairing == Spec => [](LogInv /\ RowsInv)
<1>1. ASSUME Init PROVE LogInv /\ RowsInv
  <2>1. log = <<>> /\ log \in Seq(Lines) /\ Now = 0
    <3>1. <<>> \in Seq(Lines) /\ Len(<<>>) = 0
      OBVIOUS
    <3> QED BY <1>1, <3>1 DEF Init, Now
  <2>2. collecting \in [Keys -> {None} \cup 1..Now] /\ \A k \in Keys : collecting[k] = None
    BY <1>1 DEF Init
  <2>3. done = {} /\ Matches(log, Now, 0, Now) = {}
    <3>1. ASSUME NEW c \in Matches(log, 0, 0, 0) PROVE FALSE
      <4>1. c[2] \in 1..0
        BY <3>1 DEF Matches
      <4> QED BY <4>1
    <3> QED BY <1>1, <2>1, <3>1 DEF Init
  <2>4. RowsInv
    <3>1. rows = <<>> /\ t0 = 0 /\ t1 = 0
      BY <1>1 DEF Init
    <3>2. DOMAIN rows = {}
      BY <3>1
    <3> QED BY <2>1, <3>1, <3>2 DEF RowsInv
  <2> QED BY <2>1, <2>2, <2>3, <2>4 DEF LogInv
<1>2. ASSUME LogInv, RowsInv, IInv, [Next]_vars PROVE LogInv' /\ RowsInv'
  <2>1. CASE Next
    BY <1>2, <2>1, LogStep, RowsInvStep DEF IInv
  <2>2. CASE UNCHANGED vars
    <3>1. UNCHANGED <<log, collecting, done, t0, t1, rows>>
      BY <2>2 DEF vars, lab, measuring
    <3> QED BY <1>2, <3>1 DEF LogInv, RowsInv, Now
  <2> QED BY <1>2, <2>1, <2>2
<1> QED BY <1>1, <1>2, Invariance, PTL DEF Spec

\* The service times of a row are those of the collections that began and ended within what
\* was read of its window, each once, for any log and any two stretches of it that are read in
\* one go: restarts of OpenNMS, repeated begins, lines outside the window and files that are
\* cut short, empty or missing add none and repeat none (parse of durations.py).
THEOREM DurationsHold == Spec => []DurationsAreOfTheWindow
<1>1. RowsInv => DurationsAreOfTheWindow
  BY DEF RowsInv, DurationsAreOfTheWindow, Kept, EachOnce
<1> QED BY <1>1, Pairing, PTL
=============================================================================
