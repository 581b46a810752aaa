------------------------------- MODULE FmSweep -------------------------------
(***************************************************************************)
(* The fault-management sweeps, experiments/fm-syslog and fm-snmptrap (the *)
(* same play but for names).  A play measures a reference rung, then one   *)
(* rung per rate, and compares the reference with its repeat.  Each rung   *)
(* runs nl6-loadtest between two counts of the events table and reads the  *)
(* sent-ledger from a file of /tmp, which outlives the play.               *)
(***************************************************************************)
EXTENDS Integers, Sequences

CONSTANTS
    RateLists,    \* the values of fm_rates a play may be given
    Windows,      \* the values fm_window may have in a play
    MaxArmed,     \* bound: devices a load may arm
    MaxExcess,    \* bound: messages a load sends beyond what was asked of it
    MaxShort,     \* bound: messages a load falls short, unless it sends none
    MaxRaw,       \* bound: rows a bracket adds to the events table
    Backgrounds,  \* what the idle fleet may be measured to add to a bracket
    MinDelivery,  \* fm_reference_min_delivery, in percent
    Tolerance,    \* fm_reference_tolerance, in percent
    MaxPlays      \* bound: plays in a behaviour

ASSUME RateListsAssumption == RateLists \subseteq Seq(Nat \ {0})
ASSUME BackgroundsAssumption == Backgrounds \subseteq Nat /\ Backgrounds # {}
ASSUME SizesAssumption ==
    /\ Windows \subseteq Nat \ {0} /\ MaxArmed \in Nat \ {0}
    /\ MaxExcess \in Nat /\ MaxShort \in Nat /\ MaxRaw \in Nat /\ MaxPlays \in Nat
    /\ MinDelivery \in 1..100 /\ Tolerance \in 1..100

VARIABLES
    pc,
    rates,       \* fm_rates of this play
    window,      \* fm_window of this play
    rung,        \* the rung under way: 0 is the reference, k the k-th rate
    background,  \* the correction of one bracket, from the idle measurement
    load_rc,     \* fm_load.rc of the rung under way
    raw,         \* fm_events_after - fm_events_before of the rung under way
    files,       \* the ledgers in /tmp, by label
    fm_results,
    fm_sweep_from,
    corroboration_failed,  \* fm_corroboration.failed
    play         \* history: plays begun

vars == <<pc, rates, window, rung, background, load_rc, raw, files, fm_results, fm_sweep_from,
          corroboration_failed, play>>
playvars == <<rates, window, background, fm_sweep_from, corroboration_failed, play>>

RefLabel == 0

\* Who wrote a ledger: the play and the rung.
NoLedger == <<0, 0>>

\* What LoadtestRun lets the caller of nl6-loadtest see.
Loadtest == INSTANCE LoadtestRun WITH status <- pc, rc <- load_rc, fresh <- TRUE

Init ==
    /\ pc = "idle" /\ rates = <<>> /\ window = 0 /\ rung = 0 /\ background = 0
    /\ load_rc = "none" /\ raw = 0
    /\ files = [l \in {} |-> 0]
    /\ fm_results = <<>> /\ fm_sweep_from = 0 /\ corroboration_failed = FALSE
    /\ play = 0

-----------------------------------------------------------------------------
(* experiment.yml, up to the reference. *)

Fail == pc' = "failed"

\* A play starts without facts, but /tmp is as the last play left it.
Begin ==
    /\ pc \in {"idle", "ok", "failed"}
    /\ play < MaxPlays
    /\ play' = play + 1
    /\ pc' = "start"
    /\ rates' \in RateLists /\ window' \in Windows
    /\ rung' = 0 /\ background' = 0 /\ load_rc' = "none" /\ raw' = 0
    /\ fm_results' = <<>> /\ fm_sweep_from' = 0 /\ corroboration_failed' = FALSE
    /\ UNCHANGED files

\* Mutant: only the length of the list is checked.
RatesAscendUnsorted(r) == Len(r) > 1

\* Equal neighbours pass: the list is compared with its sorted self.
RatesAscend(r) == Len(r) > 1 /\ \A j, k \in DOMAIN r : j < k => r[j] <= r[k]

\* Or the fleet cannot be built, or a tool is not installed.
AssertRates ==
    /\ pc = "start"
    /\ (RatesAscend(rates) /\ pc' = "baseline") \/ Fail
    /\ UNCHANGED <<rung, load_rc, raw, files, fm_results, playvars>>

\* psql fails, or the count went down and the rate is not a number.
MeasureBackground ==
    /\ pc = "baseline"
    /\ \/ pc' = "before" /\ background' \in Backgrounds
       \/ Fail /\ UNCHANGED background
    /\ UNCHANGED <<rates, window, rung, load_rc, raw, files, fm_results, fm_sweep_from,
                   corroboration_failed, play>>

-----------------------------------------------------------------------------
(* rate.yml: one rung. *)

RungRate == IF rung = 0 THEN rates[1] ELSE rates[rung]

\* Mutant: the reference uses the label of its rate.
LabelOfRate == RungRate

Label == IF rung = 0 THEN RefLabel ELSE RungRate

\* The sink offset or the event count cannot be read.
ProbeBefore ==
    /\ pc = "before"
    /\ pc' = "load" \/ Fail
    /\ UNCHANGED <<rung, load_rc, raw, files, fm_results, playvars>>

\* What a load asks for, int(rate * window * n), of the n devices it has armed: a device
\* that is excluded at arm is a warning, and n is then less than fm_device_count.
Offered(n) == RungRate * window * n

Sidecar(sent, n) == [sent |-> sent, expected |-> Offered(n), armed |-> n, by |-> <<play, rung>>]

\* What a load of n devices may send.
Sendings(n) == {sent \in 0..(Offered(n) + MaxExcess) : sent = 0 \/ sent + MaxShort >= Offered(n)}

\* nl6-loadtest writes /tmp/fm-<label>.json in the runs that have a ledger: what was
\* sent and what was asked of this run.  Exit 0 is only for a ledger without shortfall.
\* failed_when: rc > 1, and the return code of a killed process is negative.
Load ==
    /\ pc = "load"
    /\ \E outcome \in Loadtest!Outcomes :
         /\ load_rc' = outcome[1]
         /\ IF outcome[2]
              THEN \E n \in 1..MaxArmed : \E sent \in Sendings(n) :
                     /\ outcome[1] = "0" => sent = Offered(n)
                     /\ files' = [l \in DOMAIN files \cup {Label} |->
                                    IF l = Label THEN Sidecar(sent, n) ELSE files[l]]
              ELSE UNCHANGED files
         /\ IF outcome[1] = "2" THEN Fail ELSE pc' = "after"
    /\ UNCHANGED <<rung, raw, fm_results, playvars>>

\* After the fixed drain.  The rows may be this rung's, an earlier rung's or
\* the idle fleet's.
ProbeAfter ==
    /\ pc = "after"
    /\ \/ pc' = "record" /\ raw' \in 0..MaxRaw
       \/ Fail /\ UNCHANGED raw
    /\ UNCHANGED <<rung, load_rc, files, fm_results, playvars>>

\* raw minus background, floored at zero.
Corrected(r) == IF r > background THEN r - background ELSE 0

\* A slurp that finds no file is not a failure: the rung has sent nothing.  What was
\* sent and what was expected are both of the ledger found, whoever wrote it.
RungRecord ==
    LET found == Label \in DOMAIN files IN
    [rate |-> RungRate,
     sent |-> IF found THEN files[Label].sent ELSE 0,
     expected |-> IF found THEN files[Label].expected ELSE 0,
     armed |-> IF found THEN files[Label].armed ELSE 0,
     events |-> Corrected(raw),
     rc |-> load_rc,
     ledger |-> IF found THEN files[Label].by ELSE NoLedger]

\* Half a ledger, of a driver killed while it wrote it, is not JSON.
LedgerUnreadable ==
    /\ pc = "record" /\ Label \in DOMAIN files
    /\ Fail
    /\ UNCHANGED <<rung, load_rc, raw, files, fm_results, playvars>>

Record ==
    /\ pc = "record"
    /\ fm_results' = Append(fm_results, RungRecord)
    /\ IF rung = 0
         THEN pc' = "captured" /\ UNCHANGED rung
         ELSE IF rung < Len(rates)
                THEN pc' = "before" /\ rung' = rung + 1
                ELSE pc' = "corroborate" /\ UNCHANGED rung
    /\ UNCHANGED <<load_rc, raw, files, playvars>>

-----------------------------------------------------------------------------
(* experiment.yml, from the reference on. *)

fm_reference == fm_results[1]

\* Mutant: a reference that was delivered in part will do.
CarriesAnySignal(r) == r.sent > 0 /\ r.events > 0

CarriesSignal(r) ==
    /\ r.sent > 0
    /\ r.events > 0
    /\ r.expected = 0 \/ r.sent * 100 >= r.expected * MinDelivery

\* Mutant: where the sweep begins is taken one rung too early.
SweepBeginsEarly == Len(fm_results) - 1

SweepBegins == Len(fm_results)

AssertReference ==
    /\ pc = "captured"
    /\ fm_sweep_from' = SweepBegins
    /\ IF CarriesSignal(fm_reference) THEN pc' = "before" /\ rung' = 1 ELSE Fail /\ UNCHANGED rung
    /\ UNCHANGED <<rates, window, background, load_rc, raw, files, fm_results, corroboration_failed, play>>

\* fm_results[fm_sweep_from]
repeat == fm_results[fm_sweep_from + 1]

PerSent(r) == IF r.sent > 1 THEN r.sent ELSE 1

\* | repeat.ratio / reference.ratio - 1 | < tolerance, over a common denominator.
Corroborates(r, ref) ==
    LET mine == r.events * PerSent(ref)
        his  == ref.events * PerSent(r)
        gap  == IF mine > his THEN mine - his ELSE his - mine
    IN  r.events > 0 /\ gap * 100 < Tolerance * his

\* Ansible: a failed_when takes the place of the task's own verdict in the
\* variable the task registers.
Registered(failed, failed_when) == failed_when

\* With failed_when: false.
Corroborate ==
    /\ pc = "corroborate"
    /\ corroboration_failed' = Registered(~Corroborates(repeat, fm_reference), FALSE)
    /\ pc' = "verdict"
    /\ UNCHANGED <<rates, window, rung, background, load_rc, raw, files, fm_results, fm_sweep_from, play>>

\* The sink offsets moved or not: the last assertions.
Verdict ==
    /\ pc = "verdict"
    /\ IF corroboration_failed THEN Fail ELSE pc' \in {"ok", "failed"}
    /\ UNCHANGED <<rung, load_rc, raw, files, fm_results, playvars>>

Next ==
    \/ Begin \/ AssertRates \/ MeasureBackground \/ ProbeBefore \/ Load \/ ProbeAfter
    \/ LedgerUnreadable \/ Record \/ AssertReference \/ Corroborate \/ Verdict

Spec == Init /\ [][Next]_vars

-----------------------------------------------------------------------------
(* What the table may be read for. *)

InSweep == pc \in {"corroborate", "verdict", "ok"} \/ (rung > 0 /\ pc # "failed")

\* The row at k was measured with the ledger of its own load.
Own(k) == fm_results[k].ledger = <<play, k - 1>>

\* The reference every vs-ref figure is divided by (experiment.yml, "Assert the sweep
\* rates ascend" and "Assert the reference carries a signal"; rate.yml:37, 73).  It
\* persisted something, and with a ledger of its own it delivered the least share of
\* what this play's lowest rate asks of the devices armed, and was asked no more than any
\* other rung with a ledger of its own.  Two exceptions.  A rung that armed fewer devices
\* than the reference may have been asked for less: the play compares with the fleet it
\* meant to load (rate.yml:113) and never looks at how many were armed.  And when the
\* reference's load ended with another status than 0, its ledger may be the one an
\* earlier play left under the label "ref", with that play's rate, window and devices;
\* never that of a rung of a sweep.
ReferenceIsLeastLoaded ==
    InSweep =>
        /\ fm_reference.events > 0
        /\ \/ /\ Own(1)
              /\ fm_reference.sent * 100 >= rates[1] * window * fm_reference.armed * MinDelivery
              /\ \A k \in DOMAIN fm_results :
                    Own(k) /\ fm_reference.armed <= fm_results[k].armed
                        => fm_reference.expected <= fm_results[k].expected
           \/ /\ fm_reference.rc # "0"
              /\ fm_reference.ledger[1] \in 1..(play - 1) /\ fm_reference.ledger[2] = 0

\* A play that reaches its verdict has one rung per rate, in the order of the
\* list, and corroborates the reference with a second measurement of its rate:
\* never with itself ("the same measurement taken twice").
RepeatIsSecondMeasurement ==
    pc \in {"corroborate", "verdict", "ok"} =>
        /\ Len(fm_results) = Len(rates) + 1
        /\ \A k \in DOMAIN rates : fm_results[k + 1].rate = rates[k]
        /\ fm_sweep_from + 1 # 1 /\ repeat.rate = fm_reference.rate

\* No ledger is read for two rungs of a play whose rates differ, even when a
\* load ends without writing one: the reference has a label of its own "so the
\* reference and the identical sweep rung cannot overwrite each other's ledger".
NoLedgerReadTwice ==
    (\A j, k \in DOMAIN rates : rates[j] = rates[k] => j = k) =>
        \A j, k \in DOMAIN fm_results :
            fm_results[j].ledger = fm_results[k].ledger /\ fm_results[j].ledger # NoLedger
                => j = k
=============================================================================
