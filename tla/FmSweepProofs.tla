---------------------------- MODULE FmSweepProofs ----------------------------
(***************************************************************************)
(* The safety properties of FmSweep, for any rate lists, counts, limits    *)
(* and number of plays.  Three parts, which need each other only through   *)
(* Place: the reference (Referenced), the order of the rows (Ordered), and *)
(* who wrote the ledgers of /tmp and what of (Written, Apart, Asked) and   *)
(* which of them a rung read (Reads, Sourced).                             *)
(***************************************************************************)
EXTENDS FmSweep, TLAPS

Statuses == {"none", "0", "1", "2", "killed"}
Rec == [rate: Nat, sent: Nat, expected: Nat, armed: Nat, events: Nat, rc: Statuses,
        ledger: Nat \X Nat]
Ledger == [sent: Nat, expected: Nat, armed: Nat, by: Nat \X Nat]
InRung == {"before", "load", "after", "record"}
AfterSweep == {"corroborate", "verdict", "ok"}

Typed ==
    /\ rates \in Seq(Nat \ {0}) /\ fm_results \in Seq(Rec)
    /\ window \in Nat /\ load_rc \in Statuses
    /\ rung \in Nat /\ background \in Nat /\ raw \in Nat /\ play \in Nat
    /\ DOMAIN files \subseteq Nat /\ \A l \in DOMAIN files : files[l] \in Ledger

\* Where the play is: the rung under way is the next row of the table.
Place ==
    /\ pc \in {"idle", "start", "baseline", "captured", "failed"} \cup InRung \cup AfterSweep
    /\ pc \in {"baseline", "captured"} \cup InRung \cup AfterSweep => RatesAscend(rates)
    /\ pc \in {"start", "baseline"} => rung = 0 /\ fm_results = <<>>
    /\ pc \in InRung => rung <= Len(rates) /\ Len(fm_results) = rung
    /\ pc = "idle" => fm_results = <<>> /\ rung = 0
    /\ pc = "captured" => rung = 0 /\ Len(fm_results) = 1
    /\ pc \in AfterSweep => rung > 0 /\ Len(fm_results) = Len(rates) + 1
    /\ rung > 0 /\ pc # "failed" => fm_sweep_from = 1

\* The label a row was measured under.
LabelAt(j) == IF j = 1 THEN RefLabel ELSE rates[j - 1]

\* The rows are the reference and then the rates, in their order.
Ordered ==
    /\ Len(fm_results) <= Len(rates) + 1
    /\ \A j \in DOMAIN fm_results :
         fm_results[j].rate = IF j = 1 THEN rates[1] ELSE rates[j - 1]

\* A play goes beyond a reference that carries a signal only.
Referenced == rung > 0 /\ pc # "failed" => Len(fm_results) > 0 /\ CarriesSignal(fm_results[1])

\* No file of /tmp is of a rung that is still to be loaded.
Written ==
    /\ \A l \in DOMAIN files : files[l].by[1] <= play
    /\ pc \in {"start", "baseline", "before", "load"} =>
         \A l \in DOMAIN files : files[l].by[1] = play => files[l].by[2] < rung
    /\ pc \in {"after", "record", "captured"} =>
         \A l \in DOMAIN files : files[l].by[1] = play => files[l].by[2] <= rung

\* Every rung has written at most one file.
Apart == \A l, m \in DOMAIN files : files[l].by = files[m].by => l = m

Distinct == \A j, k \in DOMAIN rates : rates[j] = rates[k] => j = k

\* With distinct rates, the file a rung has read is as it was.
Reads ==
    Distinct => \A j \in DOMAIN fm_results :
        fm_results[j].ledger # NoLedger =>
            LabelAt(j) \in DOMAIN files /\ fm_results[j].ledger = files[LabelAt(j)].by

\* The rate of a row.
RateAt(j) == IF j = 1 THEN rates[1] ELSE rates[j - 1]

\* A file under "ref" is of a reference, a file of this play was asked for what its rung
\* asks of the devices it armed, and a load that ended with 0 left one.
Asked ==
    /\ pc # "idle" => play > 0 /\ window > 0
    /\ \A l \in DOMAIN files :
         /\ files[l].by[1] > 0
         /\ l = RefLabel => files[l].by[2] = 0
         /\ files[l].by[1] = play =>
              /\ files[l].expected = RateAt(files[l].by[2] + 1) * window * files[l].armed
              /\ files[l].armed > 0
    /\ pc \in {"after", "record"} /\ load_rc = "0" =>
         Label \in DOMAIN files /\ files[Label].by = <<play, rung>>

\* Where a row has its ledger from.
From(j, row) ==
    /\ row.ledger = <<play, j - 1>> =>
         row.expected = RateAt(j) * window * row.armed /\ row.armed > 0
    /\ row.rc = "0" => row.ledger = <<play, j - 1>>
    /\ row.ledger = NoLedger => row.sent = 0
    /\ j = 1 /\ row.ledger # NoLedger =>
         row.ledger[1] \in 1..play /\ row.ledger[2] = 0

Sourced == \A j \in DOMAIN fm_results : From(j, fm_results[j])

IInv == Typed /\ Place /\ Ordered /\ Referenced /\ Written /\ Apart /\ Asked /\ Reads /\ Sourced

-----------------------------------------------------------------------------
(* Lemmas. *)

\* What Append does, by index.
LEMMA Appended ==
    ASSUME NEW S, NEW s \in Seq(S), NEW x \in S
    PROVE  /\ Append(s, x) \in Seq(S) /\ Len(Append(s, x)) = Len(s) + 1 /\ Len(s) \in Nat
           /\ DOMAIN s = 1..Len(s) /\ DOMAIN Append(s, x) = 1..(Len(s) + 1)
           /\ \A j \in 1..Len(s) : Append(s, x)[j] = s[j]
           /\ Append(s, x)[Len(s) + 1] = x
OBVIOUS

\* A list of rates that passes the assertion has a first and a second one.
LEMMA RatesTyped ==
    ASSUME Typed
    PROVE  /\ Len(rates) \in Nat /\ DOMAIN rates = 1..Len(rates)
           /\ \A k \in DOMAIN rates : rates[k] \in Nat \ {0}
           /\ RatesAscend(rates) => Len(rates) > 1
BY DEF Typed, RatesAscend

\* The label and the rate of the rung under way.
LEMMA LabelTyped ==
    ASSUME Typed, Place, pc \in InRung
    PROVE  /\ Label \in Nat /\ RungRate \in Nat
           /\ RungRate = IF rung = 0 THEN rates[1] ELSE rates[rung]
           /\ Label = LabelAt(rung + 1)
<1>1. rung \in Nat /\ rung <= Len(rates) /\ RatesAscend(rates)
  BY DEF Typed, Place, InRung
<1>2. Len(rates) > 1 /\ (rung > 0 => rung \in DOMAIN rates) /\ 1 \in DOMAIN rates
  BY <1>1, RatesTyped
<1>3. RungRate \in Nat
  BY <1>1, <1>2, RatesTyped DEF RungRate
<1>4. Label = LabelAt(rung + 1)
  BY <1>1 DEF Label, LabelAt, RungRate, RefLabel
<1> QED BY <1>1, <1>3, <1>4 DEF Label, RefLabel, RungRate

\* What is asked of the rung under way.
LEMMA OfferedTyped ==
    ASSUME Typed, Place, pc \in InRung
    PROVE  \A n \in Nat : Offered(n) \in Nat /\ Offered(n) = RateAt(rung + 1) * window * n
<1>1. /\ RungRate \in Nat /\ window \in Nat /\ rung \in Nat
      /\ RungRate = IF rung = 0 THEN rates[1] ELSE rates[rung]
  BY LabelTyped DEF Typed
<1>2. RateAt(rung + 1) = RungRate
  BY <1>1 DEF RateAt
<1>3. \A a, b \in Nat : a * b \in Nat
  OBVIOUS
<1> QED BY <1>1, <1>2, <1>3 DEF Offered

\* A row of the table, and where its ledger is from.
LEMMA RowTyped ==
    ASSUME Typed, Place, pc \in InRung
    PROVE  /\ RungRecord \in Rec /\ RungRecord.rate = RungRate
           /\ RungRecord.ledger # NoLedger =>
                Label \in DOMAIN files /\ RungRecord.ledger = files[Label].by
<1>1. Corrected(raw) \in Nat
  BY DEF Corrected, Typed
<1>2. RungRate \in Nat /\ NoLedger \in Nat \X Nat /\ load_rc \in Statuses
  BY LabelTyped DEF NoLedger, Typed
<1>3. CASE Label \in DOMAIN files
  <2>1. /\ files[Label].sent \in Nat /\ files[Label].expected \in Nat
        /\ files[Label].armed \in Nat /\ files[Label].by \in Nat \X Nat
    BY <1>3 DEF Typed, Ledger
  <2>2. RungRecord = [rate |-> RungRate, sent |-> files[Label].sent,
                      expected |-> files[Label].expected, armed |-> files[Label].armed,
                      events |-> Corrected(raw), rc |-> load_rc, ledger |-> files[Label].by]
    BY <1>3 DEF RungRecord
  <2> QED BY <1>1, <1>2, <1>3, <2>1, <2>2 DEF Rec
<1>4. CASE Label \notin DOMAIN files
  <2>1. RungRecord = [rate |-> RungRate, sent |-> 0, expected |-> 0, armed |-> 0,
                      events |-> Corrected(raw), rc |-> load_rc, ledger |-> NoLedger]
    BY <1>4 DEF RungRecord
  <2> QED BY <1>1, <1>2, <2>1 DEF Rec
<1> QED BY <1>3, <1>4

\* The exit statuses, and which of them go with a ledger.
LEMMA OutcomeOf ==
    ASSUME NEW o \in Loadtest!Outcomes
    PROVE  /\ o[1] \in Statuses /\ o[2] \in BOOLEAN
           /\ o[2] = FALSE => o[1] # "0"
<1>1. \/ \E r \in {"0", "1", "2", "killed"} : o = <<r, TRUE>>
      \/ \E r \in {"1", "2", "killed"} : o = <<r, FALSE>>
  BY Zenon DEF Loadtest!Outcomes
<1>2. ASSUME NEW r \in {"0", "1", "2", "killed"}, o = <<r, TRUE>>
      PROVE  o[1] \in Statuses /\ o[2] = TRUE
  BY <1>2 DEF Statuses
<1>3. ASSUME NEW r \in {"1", "2", "killed"}, o = <<r, FALSE>>
      PROVE  o[1] \in Statuses /\ o[2] = FALSE /\ o[1] # "0"
  BY <1>3 DEF Statuses
<1> QED BY <1>1, <1>2, <1>3

\* The step of /tmp in Load, and what it comes to.
Leaves(sent, n) ==
    files' = [l \in DOMAIN files \cup {Label} |-> IF l = Label THEN Sidecar(sent, n) ELSE files[l]]

\* What /tmp is after a load that has left a ledger.
Wrote(sent, n) ==
    /\ DOMAIN files' = DOMAIN files \cup {Label}
    /\ files'[Label] = Sidecar(sent, n)
    /\ \A l \in DOMAIN files : l # Label => files'[l] = files[l]

\* A load writes the ledger of its own label, or none.
LEMMA LoadCases ==
    ASSUME Load
    PROVE  /\ pc = "load" /\ pc' \in {"after", "failed"} /\ load_rc' \in Statuses
           /\ UNCHANGED <<rates, window, rung, background, raw, fm_results, fm_sweep_from, play>>
           /\ \/ UNCHANGED files /\ load_rc' # "0"
              \/ \E n \in 1..MaxArmed : \E sent \in Sendings(n) : Wrote(sent, n)
<1>1. PICK outcome \in Loadtest!Outcomes :
         /\ load_rc' = outcome[1]
         /\ \/ UNCHANGED files /\ outcome[2] = FALSE
            \/ \E n \in 1..MaxArmed : \E sent \in Sendings(n) : Leaves(sent, n)
         /\ pc' = "failed" \/ pc' = "after"
  <2>1. PICK outcome \in Loadtest!Outcomes :
         /\ load_rc' = outcome[1]
         /\ IF outcome[2]
              THEN \E n \in 1..MaxArmed : \E sent \in Sendings(n) :
                     /\ outcome[1] = "0" => sent = Offered(n)
                     /\ Leaves(sent, n)
              ELSE UNCHANGED files
         /\ IF outcome[1] = "2" THEN Fail ELSE pc' = "after"
    BY Zenon DEF Load, Leaves
  <2>2. outcome[2] \in BOOLEAN
    BY OutcomeOf
  <2> QED BY <2>1, <2>2 DEF Fail
<1>2. outcome[1] \in Statuses /\ (outcome[2] = FALSE => outcome[1] # "0")
  BY OutcomeOf
<1>3. /\ pc = "load"
      /\ UNCHANGED <<rates, window, rung, background, raw, fm_results, fm_sweep_from, play>>
  BY DEF Load, playvars
<1>4. ASSUME NEW n, NEW sent, Leaves(sent, n)
      PROVE  Wrote(sent, n)
  BY <1>4 DEF Leaves, Wrote
<1> QED BY <1>1, <1>2, <1>3, <1>4

\* A row is appended, and the next rung is begun or the sweep is over.
LEMMA RecordCases ==
    ASSUME Record
    PROVE  /\ pc = "record" /\ fm_results' = Append(fm_results, RungRecord)
           /\ UNCHANGED <<load_rc, raw, files, rates, window, background, fm_sweep_from, play>>
           /\ \/ rung = 0 /\ pc' = "captured" /\ UNCHANGED rung
              \/ rung # 0 /\ rung < Len(rates) /\ pc' = "before" /\ rung' = rung + 1
              \/ rung # 0 /\ ~(rung < Len(rates)) /\ pc' = "corroborate" /\ UNCHANGED rung
BY DEF Record, playvars

\* The steps that write no row and no ledger.
LEMMA Straight ==
    ASSUME AssertRates \/ ProbeBefore \/ LedgerUnreadable \/ Verdict
    PROVE  /\ UNCHANGED <<rates, window, rung, background, load_rc, raw, files, fm_results, fm_sweep_from,
                       play>>
           /\ pc # "idle"
           /\ \/ pc' = "failed"
              \/ pc = "start" /\ RatesAscend(rates) /\ pc' = "baseline"
              \/ pc = "before" /\ pc' = "load"
              \/ pc = "verdict" /\ pc' = "ok"
BY DEF AssertRates, ProbeBefore, LedgerUnreadable, Verdict, Fail, playvars

-----------------------------------------------------------------------------
(* Each part of the invariant. *)

\* The facts of a play keep their types.
LEMMA TypedStep ==
    ASSUME Typed, Place, Next
    PROVE  Typed'
<1>1. CASE Begin
  BY <1>1, RateListsAssumption, SizesAssumption DEF Begin, Typed, Statuses
<1>2. CASE AssertRates \/ ProbeBefore \/ LedgerUnreadable \/ Verdict
  BY <1>2, Straight DEF Typed
<1>3. CASE MeasureBackground
  BY <1>3, BackgroundsAssumption DEF MeasureBackground, Fail, Typed
<1>4. CASE Load
  <2>1. /\ UNCHANGED <<rates, window, rung, background, raw, fm_results, play>>
        /\ load_rc' \in Statuses /\ Label \in Nat /\ rung \in Nat /\ play \in Nat
    BY <1>4, LoadCases, LabelTyped DEF InRung, Typed
  <2>3. \A n \in Nat : Offered(n) \in Nat
    BY <1>4, LoadCases, OfferedTyped DEF InRung
  <2>2. DOMAIN files' \subseteq Nat /\ \A l \in DOMAIN files' : files'[l] \in Ledger
    <3>1. CASE UNCHANGED files
      BY <3>1 DEF Typed
    <3>2. CASE \E n \in 1..MaxArmed : \E sent \in Sendings(n) : Wrote(sent, n)
      <4>1. files'[Label] \in Ledger /\ DOMAIN files' = DOMAIN files \cup {Label}
            /\ \A l \in DOMAIN files : l # Label => files'[l] = files[l]
        BY <2>1, <2>3, <3>2, SizesAssumption DEF Ledger, Wrote, Sidecar, Sendings
      <4> QED BY <2>1, <4>1 DEF Typed
    <3> QED BY <1>4, <3>1, <3>2, LoadCases
  <2> QED BY <2>1, <2>2 DEF Typed
<1>5. CASE ProbeAfter
  BY <1>5, SizesAssumption DEF ProbeAfter, Fail, Typed, playvars
<1>6. CASE Record
  <2>1. /\ UNCHANGED <<load_rc, raw, files, rates, window, background, play>>
        /\ rung' \in {rung, rung + 1}
        /\ fm_results' = Append(fm_results, RungRecord) /\ fm_results \in Seq(Rec)
        /\ RungRecord \in Rec
    BY <1>6, RecordCases, RowTyped DEF InRung, Typed
  <2>2. fm_results' \in Seq(Rec)
    BY <2>1, Appended
  <2> QED BY <2>1, <2>2 DEF Typed
<1>7. CASE AssertReference
  BY <1>7 DEF AssertReference, Fail, Typed
<1>8. CASE Corroborate
  BY <1>8 DEF Corroborate, Typed
<1> QED BY <1>1, <1>2, <1>3, <1>4, <1>5, <1>6, <1>7, <1>8 DEF Next

\* The rung under way is the next row.
LEMMA PlaceStep ==
    ASSUME Typed, Place, Next
    PROVE  Place'
<1> USE DEF InRung, AfterSweep
<1>1. CASE Begin
  BY <1>1 DEF Begin, Place
<1>2. CASE AssertRates \/ ProbeBefore \/ LedgerUnreadable \/ Verdict
  BY <1>2, Straight DEF Place
<1>3. CASE MeasureBackground
  <2>1. Len(<<>>) = 0 /\ Len(rates) \in Nat
    BY DEF Typed
  <2> QED BY <1>3, <2>1 DEF MeasureBackground, Fail, Place
<1>4. CASE Load
  BY <1>4, LoadCases DEF Place
<1>5. CASE ProbeAfter
  BY <1>5 DEF ProbeAfter, Fail, Place, playvars
<1>6. CASE Record
  <2>1. Len(fm_results') = Len(fm_results) + 1 /\ Len(fm_results) = rung /\ rung <= Len(rates)
    BY <1>6, RecordCases, RowTyped, Appended DEF Typed, Place
  <2>2. rung \in Nat /\ Len(rates) \in Nat
    BY DEF Typed
  <2> QED BY <1>6, <2>1, <2>2, RecordCases DEF Place
<1>7. CASE AssertReference
  <2>1. Len(fm_results) = 1 /\ RatesAscend(rates) /\ Len(rates) > 1 /\ Len(rates) \in Nat
    BY <1>7, RatesTyped DEF AssertReference, Place
  <2> QED BY <1>7, <2>1 DEF AssertReference, Fail, Place, SweepBegins
<1>8. CASE Corroborate
  BY <1>8 DEF Corroborate, Place
<1> QED BY <1>1, <1>2, <1>3, <1>4, <1>5, <1>6, <1>7, <1>8 DEF Next

\* Only Begin and Record change the table.
LEMMA TableKept ==
    ASSUME Next, ~Begin, ~Record
    PROVE  UNCHANGED <<fm_results, rates, play>>
BY LoadCases, Straight
   DEF Next, MeasureBackground, ProbeAfter, AssertReference, Corroborate, playvars

\* A row is of the rate at its place.
LEMMA OrderedStep ==
    ASSUME Typed, Place, Ordered, Next
    PROVE  Ordered'
<1>1. CASE Begin
  <2>1. fm_results' = <<>> /\ Len(rates') \in Nat
    BY <1>1, TypedStep DEF Begin, Typed
  <2> QED BY <2>1 DEF Ordered
<1>2. CASE Record
  <2>1. /\ UNCHANGED rates /\ Len(fm_results) = rung /\ rung <= Len(rates) /\ rung \in Nat
        /\ RungRecord.rate = RungRate /\ Len(rates) \in Nat
        /\ RungRate = IF rung = 0 THEN rates[1] ELSE rates[rung]
    BY <1>2, RecordCases, RowTyped, LabelTyped DEF InRung, Place, Typed
  <2>2. /\ Len(fm_results') = rung + 1 /\ DOMAIN fm_results' = 1..(rung + 1)
        /\ DOMAIN fm_results = 1..rung
        /\ \A j \in 1..rung : fm_results'[j] = fm_results[j]
        /\ fm_results'[rung + 1] = RungRecord
    <3>1. fm_results' = Append(fm_results, RungRecord) /\ RungRecord \in Rec /\ fm_results \in Seq(Rec)
      BY <1>2, RecordCases, RowTyped DEF InRung, Typed
    <3> QED BY <2>1, <3>1, Appended
  <2>3. ASSUME NEW j \in DOMAIN fm_results'
        PROVE  fm_results'[j].rate = IF j = 1 THEN rates[1] ELSE rates[j - 1]
    <3>1. CASE j \in 1..rung
      BY <2>2, <3>1 DEF Ordered
    <3>2. CASE j = rung + 1
      BY <2>1, <2>2, <3>2
    <3> QED BY <2>1, <2>2, <3>1, <3>2
  <2> QED BY <2>1, <2>2, <2>3 DEF Ordered
<1> QED BY <1>1, <1>2, TableKept DEF Ordered

\* What the reference was when it was asserted, it stays.
LEMMA ReferencedStep ==
    ASSUME Typed, Place, Referenced, Next
    PROVE  Referenced'
<1> USE DEF InRung, AfterSweep
<1>1. CASE Begin
  BY <1>1 DEF Begin, Referenced
<1>2. CASE Record
  <2>1. CASE rung > 0
    <3>1. Len(fm_results) > 0 /\ CarriesSignal(fm_results[1])
      BY <1>2, <2>1, RecordCases DEF Referenced
    <3>2. Len(fm_results') > 0 /\ fm_results'[1] = fm_results[1]
      BY <1>2, <3>1, RecordCases, RowTyped, Appended DEF Typed
    <3> QED BY <3>1, <3>2 DEF Referenced
  <2>2. CASE rung = 0
    BY <1>2, <2>2, RecordCases DEF Referenced
  <2> QED BY <2>1, <2>2 DEF Typed
<1>3. CASE AssertReference
  <2>1. Len(fm_results) = 1
    BY <1>3 DEF AssertReference, Place
  <2> QED BY <1>3, <2>1 DEF AssertReference, Fail, Place, Referenced, fm_reference
<1>4. CASE AssertRates \/ ProbeBefore \/ LedgerUnreadable \/ Verdict
  BY <1>4, Straight DEF Referenced
<1>5. CASE MeasureBackground
  BY <1>5 DEF MeasureBackground, Fail, Referenced, Place
<1>6. CASE Load
  BY <1>6, LoadCases DEF Referenced
<1>7. CASE ProbeAfter
  BY <1>7 DEF ProbeAfter, Fail, Referenced
<1>8. CASE Corroborate
  BY <1>8 DEF Corroborate, Referenced
<1> QED BY <1>1, <1>2, <1>3, <1>4, <1>5, <1>6, <1>7, <1>8 DEF Next

\* A rung writes its file once, and no earlier than it is loaded.
LEMMA WrittenStep ==
    ASSUME Typed, Place, Written, Next
    PROVE  Written'
<1>0. /\ play \in Nat /\ rung \in Nat
      /\ \A l \in DOMAIN files : files[l].by[1] \in Nat /\ files[l].by[2] \in Nat
  BY DEF Typed, Ledger
<1> USE DEF InRung, AfterSweep
<1>1. CASE Begin
  <2>1. play' = play + 1 /\ UNCHANGED files /\ pc' = "start"
    BY <1>1 DEF Begin
  <2> QED BY <1>0, <2>1 DEF Written
<1>2. CASE AssertRates \/ ProbeBefore \/ LedgerUnreadable \/ Verdict
  BY <1>2, Straight DEF Written
<1>3. CASE MeasureBackground
  BY <1>3 DEF MeasureBackground, Fail, Written
<1>4. CASE Load
  <2>1. CASE UNCHANGED files
    BY <1>0, <1>4, <2>1, LoadCases DEF Written
  <2>2. CASE \E n \in 1..MaxArmed : \E sent \in Sendings(n) : Wrote(sent, n)
    <3>1. files'[Label].by[1] = play /\ files'[Label].by[2] = rung
      BY <2>2 DEF Wrote, Sidecar
    <3>2. \A l \in DOMAIN files' : l # Label => l \in DOMAIN files /\ files'[l] = files[l]
      BY <2>2 DEF Wrote
    <3>3. pc = "load" /\ pc' \in {"after", "failed"} /\ UNCHANGED <<play, rung>>
      BY <1>4, LoadCases
    <3>4. \A l \in DOMAIN files' :
            files'[l].by[1] <= play /\ (files'[l].by[1] = play => files'[l].by[2] <= rung)
      BY <1>0, <3>1, <3>2, <3>3 DEF Written
    <3> QED BY <3>3, <3>4 DEF Written
  <2> QED BY <1>4, <2>1, <2>2, LoadCases
<1>5. CASE ProbeAfter
  BY <1>5 DEF ProbeAfter, Fail, Written, playvars
<1>6. CASE Record
  <2>1. \A l \in DOMAIN files : files[l].by[1] = play => files[l].by[2] <= rung
    BY <1>6, RecordCases DEF Written
  <2> QED BY <1>0, <1>6, <2>1, RecordCases DEF Written
<1>7. CASE AssertReference
  <2>1. /\ pc = "captured" /\ UNCHANGED <<files, play>>
        /\ pc' = "failed" \/ (pc' = "before" /\ rung' = 1)
    BY <1>7 DEF AssertReference, Fail
  <2>2. \A l \in DOMAIN files : files[l].by[1] = play => files[l].by[2] <= 0
    BY <2>1 DEF Written, Place
  <2> QED BY <1>0, <2>1, <2>2 DEF Written
<1>8. CASE Corroborate
  BY <1>8 DEF Corroborate, Written
<1> QED BY <1>1, <1>2, <1>3, <1>4, <1>5, <1>6, <1>7, <1>8 DEF Next

\* Only Load changes /tmp.
LEMMA FilesKept ==
    ASSUME Next, ~Load
    PROVE  UNCHANGED files
BY RecordCases, Straight
   DEF Next, Begin, MeasureBackground, ProbeAfter, AssertReference, Corroborate

\* The file a rung writes is of no other rung.
LEMMA ApartStep ==
    ASSUME Typed, Written, Apart, Next
    PROVE  Apart'
<1>1. CASE UNCHANGED files
  BY <1>1 DEF Apart
<1>2. CASE Load /\ \E n \in 1..MaxArmed : \E sent \in Sendings(n) : Wrote(sent, n)
  <2>1. \A l \in DOMAIN files : files[l].by # <<play, rung>>
    <3>1. \A l \in DOMAIN files : files[l].by[1] = play => files[l].by[2] < rung
      BY <1>2, LoadCases DEF Written
    <3>2. rung \in Nat
      BY DEF Typed
    <3> QED BY <3>1, <3>2
  <2>2. files'[Label].by = <<play, rung>>
    BY <1>2 DEF Wrote, Sidecar
  <2>3. \A l \in DOMAIN files' : l # Label => l \in DOMAIN files /\ files'[l] = files[l]
    BY <1>2 DEF Wrote
  <2> QED BY <2>1, <2>2, <2>3 DEF Apart
<1> QED BY <1>1, <1>2, FilesKept, LoadCases

\* With distinct rates the rows have distinct labels.
LEMMA LabelsDiffer ==
    ASSUME Typed, Distinct, NEW i \in 1..(Len(rates) + 1), NEW j \in 1..(Len(rates) + 1),
           LabelAt(i) = LabelAt(j)
    PROVE  i = j
<1>1. /\ Len(rates) \in Nat /\ DOMAIN rates = 1..Len(rates)
      /\ \A k \in DOMAIN rates : rates[k] # 0
  BY RatesTyped
<1>2. /\ i # 1 => i - 1 \in DOMAIN rates
      /\ j # 1 => j - 1 \in DOMAIN rates
  BY <1>1
<1>3. CASE i = 1 \/ j = 1
  BY <1>1, <1>2, <1>3 DEF LabelAt, RefLabel
<1>4. CASE i # 1 /\ j # 1
  <2>1. i - 1 = j - 1
    BY <1>2, <1>4 DEF LabelAt, Distinct
  <2> QED BY <2>1
<1> QED BY <1>3, <1>4

\* The files of the rows are not written again.
LEMMA ReadsStep ==
    ASSUME Typed, Place, Ordered, Reads, Next
    PROVE  Reads'
<1>0. Len(rates) \in Nat /\ Len(fm_results) \in Nat /\ DOMAIN fm_results = 1..Len(fm_results)
  BY DEF Typed
<1>1. CASE Begin
  BY <1>1 DEF Begin, Reads
<1>2. CASE Record
  <2>1. /\ UNCHANGED <<files, rates>> /\ Len(fm_results) = rung /\ Label = LabelAt(rung + 1)
        /\ RungRecord.ledger # NoLedger =>
             Label \in DOMAIN files /\ RungRecord.ledger = files[Label].by
    BY <1>2, RecordCases, RowTyped, LabelTyped DEF InRung, Place
  <2>2. /\ DOMAIN fm_results' = 1..(rung + 1)
        /\ \A j \in 1..rung : fm_results'[j] = fm_results[j]
        /\ fm_results'[rung + 1] = RungRecord
    <3>1. fm_results' = Append(fm_results, RungRecord) /\ RungRecord \in Rec /\ fm_results \in Seq(Rec)
      BY <1>2, RecordCases, RowTyped DEF InRung, Typed
    <3> QED BY <2>1, <3>1, Appended
  <2>3. \A j \in DOMAIN fm_results' : j \in DOMAIN fm_results \/ j = rung + 1
    BY <1>0, <2>1, <2>2
  <2>4. \A j \in DOMAIN fm_results : fm_results'[j] = fm_results[j]
    BY <1>0, <2>1, <2>2
  <2>5. Distinct' = Distinct /\ \A j : LabelAt(j)' = LabelAt(j)
    BY <2>1 DEF Distinct, LabelAt
  <2> QED BY <2>1, <2>2, <2>3, <2>4, <2>5 DEF Reads, LabelAt
<1>3. CASE Load
  <2>1. UNCHANGED <<rates, rung, fm_results>> /\ Len(fm_results) = rung /\ rung <= Len(rates)
        /\ Label = LabelAt(rung + 1) /\ rung \in Nat
    BY <1>3, LoadCases, LabelTyped DEF InRung, Place, Typed
  <2>2. ASSUME Distinct, NEW j \in DOMAIN fm_results
        PROVE  LabelAt(j) # Label
    <3>1. j \in 1..(Len(rates) + 1) /\ rung + 1 \in 1..(Len(rates) + 1) /\ j # rung + 1
      BY <1>0, <2>1
    <3> QED BY <2>1, <2>2, <3>1, LabelsDiffer
  <2>3. ASSUME Distinct, NEW j \in DOMAIN fm_results, LabelAt(j) \in DOMAIN files
        PROVE  LabelAt(j) \in DOMAIN files' /\ files'[LabelAt(j)] = files[LabelAt(j)]
    BY <1>3, <2>2, <2>3, LoadCases DEF Wrote
  <2> QED BY <2>1, <2>3 DEF Reads, Distinct, LabelAt
<1>4. CASE ~Begin /\ ~Record /\ ~Load
  BY <1>4, TableKept, FilesKept DEF Reads, Distinct, LabelAt
<1> QED BY <1>1, <1>2, <1>3, <1>4

\* A load writes what was asked of its own rung.
LEMMA AskedStep ==
    ASSUME Typed, Place, Written, Asked, Next
    PROVE  Asked'
<1>0. /\ play \in Nat /\ rung \in Nat
      /\ \A l \in DOMAIN files : files[l].by[1] \in Nat /\ files[l].by[1] <= play
  BY DEF Typed, Ledger, Written
<1>1. CASE Begin
  BY <1>0, <1>1, SizesAssumption DEF Begin, Asked
<1>2. CASE AssertRates \/ ProbeBefore \/ LedgerUnreadable \/ Verdict
  BY <1>2, Straight DEF Asked, RateAt, Label, RungRate
<1>3. CASE MeasureBackground
  BY <1>3 DEF MeasureBackground, Fail, Asked, RateAt
<1>4. CASE Load
  <2>1. /\ pc = "load" /\ play > 0 /\ UNCHANGED <<rates, window, rung, play>>
        /\ Label' = Label /\ \A j : RateAt(j)' = RateAt(j)
    BY <1>4, LoadCases DEF Asked, Label, RungRate, RateAt
  <2>2. CASE UNCHANGED files /\ load_rc' # "0"
    BY <2>1, <2>2 DEF Asked
  <2>3. CASE \E n \in 1..MaxArmed : \E sent \in Sendings(n) : Wrote(sent, n)
    <3>0. PICK n \in 1..MaxArmed : \E sent \in Sendings(n) : Wrote(sent, n)
      BY <2>3
    <3>1. /\ files'[Label].by = <<play, rung>> /\ files'[Label].expected = Offered(n)
          /\ files'[Label].armed = n /\ Label \in DOMAIN files'
      BY <3>0 DEF Wrote, Sidecar
    <3>2. \A l \in DOMAIN files' : l # Label => l \in DOMAIN files /\ files'[l] = files[l]
      BY <2>3 DEF Wrote
    <3>3. Offered(n) = RateAt(rung + 1) * window * n /\ n > 0
      BY <2>1, OfferedTyped, SizesAssumption DEF InRung
    <3>4. Label = RefLabel => rung = 0
      <4>1. rung # 0 => rung \in DOMAIN rates
        BY <1>0, <2>1, RatesTyped DEF Place, InRung
      <4> QED BY <4>1, RatesTyped DEF Label, RungRate, RefLabel
    <3>5. ASSUME NEW l \in DOMAIN files'
          PROVE  /\ files'[l].by[1] > 0
                 /\ l = RefLabel => files'[l].by[2] = 0
                 /\ files'[l].by[1] = play =>
                      /\ files'[l].expected = RateAt(files'[l].by[2] + 1) * window * files'[l].armed
                      /\ files'[l].armed > 0
      <4>1. CASE l = Label
        BY <2>1, <3>1, <3>3, <3>4, <4>1
      <4>2. CASE l # Label
        BY <3>2, <4>2 DEF Asked
      <4> QED BY <4>1, <4>2
    <3> QED BY <2>1, <3>1, <3>5 DEF Asked
  <2> QED BY <1>4, <2>2, <2>3, LoadCases
<1>5. CASE ProbeAfter
  BY <1>5 DEF ProbeAfter, Fail, Asked, playvars, RateAt, Label, RungRate
<1>6. CASE Record
  BY <1>6, RecordCases DEF Asked, RateAt
<1>7. CASE AssertReference
  BY <1>7 DEF AssertReference, Fail, Asked, RateAt
<1>8. CASE Corroborate
  BY <1>8 DEF Corroborate, Asked, RateAt
<1> QED BY <1>1, <1>2, <1>3, <1>4, <1>5, <1>6, <1>7, <1>8 DEF Next

\* Only Begin draws a window, and Record keeps it.
LEMMA WindowKept ==
    ASSUME Next, ~Begin
    PROVE  UNCHANGED window
BY LoadCases, RecordCases, Straight
   DEF Next, MeasureBackground, ProbeAfter, AssertReference, Corroborate, playvars

\* From, by the number of the rung.
LEMMA FromOf ==
    ASSUME NEW j, NEW k, j - 1 = k, NEW row,
           row.ledger = <<play, k>> =>
             row.expected = RateAt(j) * window * row.armed /\ row.armed > 0,
           row.rc = "0" => row.ledger = <<play, k>>,
           row.ledger = NoLedger => row.sent = 0,
           j = 1 /\ row.ledger # NoLedger => row.ledger[1] \in 1..play /\ row.ledger[2] = 0
    PROVE  From(j, row)
BY Zenon DEF From

\* A row that is recorded has its ledger from the file that is there.
LEMMA SourcedStep ==
    ASSUME Typed, Place, Written, Asked, Sourced, Next
    PROVE  Sourced'
<1>1. CASE Begin
  <2>1. fm_results' = <<>>
    BY <1>1 DEF Begin
  <2> QED BY <2>1 DEF Sourced
<1>2. CASE Record
  <2>1. /\ pc = "record" /\ UNCHANGED <<files, rates, window, play>> /\ Len(fm_results) = rung
        /\ rung \in Nat /\ play \in Nat /\ play > 0
        /\ Label = LabelAt(rung + 1)
    BY <1>2, RecordCases, LabelTyped DEF InRung, Place, Asked, Typed
  <2>2. /\ DOMAIN fm_results' = 1..(rung + 1) /\ DOMAIN fm_results = 1..rung
        /\ \A j \in 1..rung : fm_results'[j] = fm_results[j]
        /\ fm_results'[rung + 1] = RungRecord
    <3>1. fm_results' = Append(fm_results, RungRecord) /\ RungRecord \in Rec /\ fm_results \in Seq(Rec)
      BY <1>2, RecordCases, RowTyped DEF InRung, Typed
    <3> QED BY <2>1, <3>1, Appended
  <2>3. From(rung + 1, RungRecord)
    <3> SUFFICES
          /\ RungRecord.ledger = <<play, rung>> =>
               /\ RungRecord.expected = RateAt(rung + 1) * window * RungRecord.armed
               /\ RungRecord.armed > 0
          /\ RungRecord.rc = "0" => RungRecord.ledger = <<play, rung>>
          /\ RungRecord.ledger = NoLedger => RungRecord.sent = 0
          /\ rung + 1 = 1 /\ RungRecord.ledger # NoLedger =>
               RungRecord.ledger[1] \in 1..play /\ RungRecord.ledger[2] = 0
      <4>1. (rung + 1) - 1 = rung
        BY <2>1
      <4> QED BY <4>1, FromOf
    <3>1. <<play, rung>> # NoLedger /\ RungRecord.rc = load_rc
      BY <2>1 DEF NoLedger, RungRecord
    <3>2. CASE Label \in DOMAIN files
      <4>1. /\ RungRecord.ledger = files[Label].by
            /\ RungRecord.expected = files[Label].expected
            /\ RungRecord.armed = files[Label].armed
        BY <3>2 DEF RungRecord
      <4>2. /\ files[Label].by \in Nat \X Nat
            /\ files[Label].by[1] > 0 /\ files[Label].by[1] <= play
            /\ Label = RefLabel => files[Label].by[2] = 0
            /\ files[Label].by[1] = play =>
                 /\ files[Label].expected = RateAt(files[Label].by[2] + 1) * window * files[Label].armed
                 /\ files[Label].armed > 0
        BY <3>2 DEF Asked, Written, Typed, Ledger
      <4>3. load_rc = "0" => files[Label].by = <<play, rung>>
        BY <2>1 DEF Asked
      <4>4. files[Label].by # NoLedger
        BY <4>2 DEF NoLedger
      <4>5. rung + 1 = 1 => Label = RefLabel
        BY <2>1 DEF Label
      <4>6. files[Label].by = <<play, rung>> =>
              /\ files[Label].expected = RateAt(rung + 1) * window * files[Label].armed
              /\ files[Label].armed > 0
        BY <4>2
      <4>7. rung + 1 = 1 => files[Label].by[1] \in 1..play /\ files[Label].by[2] = 0
        BY <2>1, <4>2, <4>5
      <4> QED BY <3>1, <4>1, <4>3, <4>4, <4>6, <4>7
    <3>3. CASE Label \notin DOMAIN files
      <4>1. RungRecord.ledger = NoLedger /\ RungRecord.sent = 0
        BY <3>3 DEF RungRecord
      <4>2. load_rc # "0"
        BY <2>1, <3>3 DEF Asked
      <4> QED BY <3>1, <4>1, <4>2
    <3> QED BY <3>2, <3>3
  <2>4. ASSUME NEW j \in DOMAIN fm_results' PROVE From(j, fm_results'[j])
    <3>1. j = rung + 1 \/ (j \in 1..rung)
      BY <2>1, <2>2
    <3> QED BY <2>2, <2>3, <3>1 DEF Sourced
  <2> QED BY <2>1, <2>4 DEF Sourced, From, RateAt
<1>3. CASE ~Begin /\ ~Record
  BY <1>3, TableKept, WindowKept DEF Sourced, From, RateAt
<1> QED BY <1>1, <1>2, <1>3

-----------------------------------------------------------------------------
(* The theorems. *)

\* IInv holds initially.
LEMMA InitIInv == Init => IInv
<1> SUFFICES ASSUME Init PROVE IInv
  OBVIOUS
<1>1. /\ pc = "idle" /\ rates = <<>> /\ window = 0 /\ rung = 0 /\ background = 0 /\ load_rc = "none"
      /\ raw = 0 /\ play = 0 /\ DOMAIN files = {} /\ fm_results = <<>>
  BY DEF Init
<1>2. Typed
  BY <1>1 DEF Typed, Statuses
<1>3. Place /\ Ordered /\ Referenced
  BY <1>1 DEF Place, Ordered, Referenced, InRung, AfterSweep
<1>4. Written /\ Apart /\ Asked /\ Reads /\ Sourced
  BY <1>1 DEF Written, Apart, Asked, Reads, Sourced
<1> QED BY <1>2, <1>3, <1>4 DEF IInv

\* Every step keeps IInv.
LEMMA StepIInv == IInv /\ [Next]_vars => IInv'
<1> SUFFICES ASSUME IInv, [Next]_vars PROVE IInv'
  OBVIOUS
<1>1. CASE Next
  BY <1>1, TypedStep, PlaceStep, OrderedStep, ReferencedStep, WrittenStep, ApartStep, AskedStep,
     ReadsStep, SourcedStep DEF IInv
<1>2. CASE UNCHANGED vars
  <2>1. UNCHANGED <<pc, rates, window, rung, background, load_rc, raw, files, fm_results,
                     fm_sweep_from, play>>
    BY <1>2 DEF vars
  <2>2. Typed' /\ Place' /\ Ordered' /\ Referenced' /\ Written' /\ Apart'
    BY <2>1 DEF IInv, Typed, Place, Ordered, Referenced, Written, Apart
  <2>3. Asked'
    BY <2>1 DEF IInv, Asked, RateAt, Label, RungRate
  <2>4. Reads' /\ Sourced'
    BY <2>1 DEF IInv, Reads, Sourced, From, Distinct, LabelAt, RateAt
  <2> QED BY <2>2, <2>3, <2>4 DEF IInv
<1> QED BY <1>1, <1>2

\* The inductive invariant of the plays: which rung is under way, what the table
\* holds of it, and who wrote the ledgers that outlive it in /tmp.
THEOREM Invariance == Spec => []IInv
<1> QED BY InitIInv, StepIInv, PTL DEF Spec

\* Multiplication by a window, or by the devices, keeps the order.
LEMMA Scaled ==
    ASSUME NEW a \in Nat, NEW b \in Nat, a <= b, NEW w \in Nat
    PROVE  /\ a * w <= b * w /\ w * a <= w * b
           /\ a * w \in Nat /\ b * w \in Nat /\ w * a \in Nat /\ w * b \in Nat
<1>1. PICK d \in Nat : b = a + d
  <2>1. b - a \in Nat /\ b = a + (b - a)
    OBVIOUS
  <2> QED BY <2>1
<1>2. (a + d) * w = a * w + d * w /\ a * w \in Nat /\ d * w \in Nat
  OBVIOUS
<1>3. a * w = w * a /\ (a + d) * w = w * (a + d)
  OBVIOUS
<1> QED BY <1>1, <1>2, <1>3

\* For any rate lists, windows, armed devices, limits and number of plays: the reference of a
\* sweep was asked for the least of all rungs that have a ledger of their own and armed no fewer
\* devices, and delivered its share of what this play asked of the devices it armed; or its load
\* ended with another status than 0 and its ledger is that of an earlier play's reference.
THEOREM ReferenceHolds == Spec => []ReferenceIsLeastLoaded
<1>1. ASSUME IInv PROVE ReferenceIsLeastLoaded
  <2> SUFFICES ASSUME InSweep
               PROVE  /\ fm_reference.events > 0
                      /\ \/ /\ Own(1)
                            /\ fm_reference.sent * 100
                                 >= rates[1] * window * fm_reference.armed * MinDelivery
                            /\ \A k \in DOMAIN fm_results :
                                 Own(k) /\ fm_reference.armed <= fm_results[k].armed
                                   => fm_reference.expected <= fm_results[k].expected
                         \/ /\ fm_reference.rc # "0"
                            /\ fm_reference.ledger[1] \in 1..(play - 1)
                            /\ fm_reference.ledger[2] = 0
    BY DEF ReferenceIsLeastLoaded
  <2>1. rung > 0 /\ pc # "failed" /\ Len(rates) \in Nat /\ Len(fm_results) \in Nat
    BY <1>1 DEF IInv, InSweep, Place, AfterSweep, Typed
  <2>2. Len(fm_results) > 0 /\ CarriesSignal(fm_results[1]) /\ 1 \in DOMAIN fm_results
    BY <1>1, <2>1 DEF IInv, Referenced, Typed
  <2>3. /\ From(1, fm_results[1]) /\ fm_results[1].ledger \in Nat \X Nat
        /\ fm_results[1].sent \in Nat /\ fm_results[1].armed \in Nat /\ play \in Nat /\ window \in Nat
    <3>1. fm_results \in Seq(Rec) /\ play \in Nat /\ window \in Nat
      BY <1>1 DEF IInv, Typed
    <3>2. fm_results[1] \in Rec
      BY <2>2, <3>1
    <3> QED BY <1>1, <2>2, <3>1, <3>2 DEF IInv, Sourced, Rec
  <2>4. /\ fm_results[1].ledger[1] \in 1..play /\ fm_results[1].ledger[2] = 0
        /\ fm_results[1].rc = "0" => fm_results[1].ledger = <<play, 0>>
    BY <2>2, <2>3 DEF From, CarriesSignal
  <2>5. CASE fm_results[1].ledger = <<play, 0>>
    <3>1. fm_results[1].expected = rates[1] * window * fm_results[1].armed /\ fm_results[1].armed > 0
      BY <2>3, <2>5 DEF From, RateAt
    <3>2. RatesAscend(rates)
      BY <1>1, <2>1 DEF IInv, Place, InRung, AfterSweep
    <3>3. /\ DOMAIN rates = 1..Len(rates) /\ Len(rates) > 1
          /\ \A k \in DOMAIN rates : rates[k] \in Nat \ {0}
      BY <1>1, <3>2, RatesTyped DEF IInv
    <3>4. fm_results[1].sent * 100 >= rates[1] * window * fm_results[1].armed * MinDelivery
      <4>1. window > 0 /\ rates[1] \in Nat \ {0} /\ fm_results[1].expected # 0
        <5>1. window > 0 /\ rates[1] \in Nat \ {0}
          BY <1>1, <2>1, <3>3, <2>3 DEF IInv, Asked, InSweep, Place
        <5>2. \A a, b \in Nat \ {0} : a * b \in Nat \ {0}
          OBVIOUS
        <5>3. rates[1] * window \in Nat \ {0}
          BY <2>3, <5>1, <5>2
        <5>4. fm_results[1].armed \in Nat \ {0}
          BY <2>3, <3>1
        <5>5. rates[1] * window * fm_results[1].armed \in Nat \ {0}
          BY <5>2, <5>3, <5>4
        <5> QED BY <3>1, <5>1, <5>5
      <4> QED BY <2>2, <3>1, <4>1 DEF CarriesSignal
    <3>5. ASSUME NEW k \in DOMAIN fm_results, Own(k), fm_results[1].armed <= fm_results[k].armed
          PROVE  fm_results[1].expected <= fm_results[k].expected
      <4>1. k \in 1..Len(fm_results) /\ Len(fm_results) <= Len(rates) + 1
        BY <1>1 DEF IInv, Ordered, Typed
      <4>2. /\ fm_results[k].expected = RateAt(k) * window * fm_results[k].armed
            /\ fm_results[k].armed \in Nat
        <5>1. fm_results[k] \in Rec
          BY <1>1 DEF IInv, Typed
        <5> QED BY <1>1, <3>5, <5>1 DEF IInv, Sourced, From, Own, Rec
      <4>3. RateAt(k) \in Nat /\ rates[1] <= RateAt(k)
        <5>1. k # 1 => k - 1 \in DOMAIN rates
          BY <2>1, <3>3, <4>1
        <5>2. 1 \in DOMAIN rates /\ \A i \in DOMAIN rates : i = 1 \/ 1 < i
          BY <3>3
        <5>3. \A i \in DOMAIN rates : rates[1] <= rates[i]
          BY <3>2, <3>3, <5>2 DEF RatesAscend
        <5> QED BY <3>3, <5>1, <5>2, <5>3 DEF RateAt
      <4>4. rates[1] * window <= RateAt(k) * window
        BY <2>3, <3>3, <4>3, Scaled
      <4>5. rates[1] * window \in Nat /\ RateAt(k) * window \in Nat
        BY <2>3, <3>3, <4>3, Scaled
      <4>6. /\ rates[1] * window * fm_results[1].armed <= RateAt(k) * window * fm_results[1].armed
            /\ RateAt(k) * window * fm_results[1].armed <= RateAt(k) * window * fm_results[k].armed
            /\ RateAt(k) * window * fm_results[1].armed \in Nat
            /\ RateAt(k) * window * fm_results[k].armed \in Nat
            /\ rates[1] * window * fm_results[1].armed \in Nat
        BY <2>3, <3>5, <4>2, <4>4, <4>5, Scaled
      <4> QED BY <3>1, <4>2, <4>6
    <3> QED BY <2>2, <2>5, <3>4, <3>5 DEF fm_reference, Own, CarriesSignal
  <2>6. CASE fm_results[1].ledger # <<play, 0>>
    <3>1. fm_results[1].ledger[1] # play
      BY <2>3, <2>4, <2>6
    <3> QED BY <2>2, <2>3, <2>4, <2>6, <3>1 DEF fm_reference, CarriesSignal
  <2> QED BY <2>5, <2>6
<1> QED BY <1>1, Invariance, PTL

\* The reference is corroborated by another row of the same rate, and the table
\* has one row per rate, in the order of the list.
THEOREM RepeatHolds == Spec => []RepeatIsSecondMeasurement
<1>1. ASSUME IInv PROVE RepeatIsSecondMeasurement
  <2> SUFFICES ASSUME pc \in AfterSweep
               PROVE  /\ Len(fm_results) = Len(rates) + 1
                      /\ \A k \in DOMAIN rates : fm_results[k + 1].rate = rates[k]
                      /\ fm_sweep_from + 1 # 1 /\ repeat.rate = fm_reference.rate
    BY DEF RepeatIsSecondMeasurement, AfterSweep
  <2>1. /\ rung > 0 /\ pc # "failed" /\ Len(fm_results) = Len(rates) + 1 /\ RatesAscend(rates)
        /\ fm_sweep_from = 1
    BY <1>1 DEF IInv, Place, AfterSweep
  <2>2. /\ Len(rates) \in Nat /\ DOMAIN rates = 1..Len(rates) /\ Len(rates) > 1
        /\ DOMAIN fm_results = 1..(Len(rates) + 1)
    BY <1>1, <2>1, RatesTyped DEF IInv, Typed
  <2>3. \A j \in DOMAIN fm_results : fm_results[j].rate = IF j = 1 THEN rates[1] ELSE rates[j - 1]
    BY <1>1 DEF IInv, Ordered
  <2>4. ASSUME NEW k \in DOMAIN rates PROVE fm_results[k + 1].rate = rates[k]
    <3>1. k + 1 \in DOMAIN fm_results /\ k + 1 # 1 /\ (k + 1) - 1 = k
      BY <2>2
    <3> QED BY <2>3, <3>1
  <2>5. fm_results[1].rate = rates[1] /\ fm_results[1 + 1].rate = rates[1] /\ 1 + 1 # 1
    BY <2>2, <2>3, <2>4
  <2> QED BY <2>1, <2>4, <2>5 DEF repeat, fm_reference
<1> QED BY <1>1, Invariance, PTL

\* Whatever a load or an earlier play left in /tmp, no ledger counts for two rungs
\* of a play whose rates differ.
THEOREM LedgersHold == Spec => []NoLedgerReadTwice
<1>1. ASSUME IInv PROVE NoLedgerReadTwice
  <2> SUFFICES ASSUME Distinct, NEW j \in DOMAIN fm_results, NEW k \in DOMAIN fm_results,
                      fm_results[j].ledger = fm_results[k].ledger, fm_results[j].ledger # NoLedger
               PROVE  j = k
    BY DEF NoLedgerReadTwice, Distinct
  <2>1. LabelAt(j) = LabelAt(k)
    BY <1>1 DEF IInv, Reads, Apart
  <2>2. j \in 1..(Len(rates) + 1) /\ k \in 1..(Len(rates) + 1)
    BY <1>1 DEF IInv, Ordered, Typed
  <2> QED BY <1>1, <2>1, <2>2, LabelsDiffer DEF IInv
<1> QED BY <1>1, Invariance, PTL
=============================================================================
