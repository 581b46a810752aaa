---------------------------- MODULE LatencyRunbook ----------------------------
(***************************************************************************)
(* runbook_exec.py: a phase shapes the simulated network, brackets a       *)
(* window of the metrics topic with two kafka-metrics-report runs on the   *)
(* monitoring host, and has durations.py pair the collections in the       *)
(* instrumentation log of the Core.  The bounds travel through files under *)
(* /tmp that are named after the phase and are never removed.              *)
(***************************************************************************)
EXTENDS Integers, FiniteSets, Sequences, SequencesExt

CONSTANTS
    Plans,     \* the sequences of phases of one invocation
    Keys,      \* services that are collected
    MaxLog,    \* bound: lines of the instrumentation log
    MaxRuns    \* bound: invocations

ASSUME RunbookAssumption ==
    /\ MaxLog \in Nat /\ MaxRuns \in Nat
    /\ IsFiniteSet(Keys)
    /\ \A p \in Plans : Len(p) \in Nat \ {0} /\ DOMAIN p = 1..Len(p)

Tags == UNION {{plan[i] : i \in DOMAIN plan} : plan \in Plans}
None == -1

VARIABLES
    log,        \* the instrumentation log; the number of a line is its time
    collecting, \* services being collected, with the time each began
    done,       \* history: <<service, begin, end>> of the collections that ended
    qdisc,      \* what shapes the simulated network: "none" or the spec of a phase
    base, side, \* the sidecars in /tmp, by tag: the end offset, and <<start, end>>
    start,      \* the offset in /tmp/<tag>-start.json, written anew in each phase
    pc,
    plan, phase,\* the phases of this run, and the one it is at
    shown,      \* set_qdisc: what tc showed, or nothing
    t0, t1,
    from,       \* history: the end of the topic at t0
    to,         \* history: the end of the topic at t1
    opened,     \* history: the end of the topic at the base report, if it worked
    closed,     \* history: the end of the topic at the window's report, if it worked
    rows,       \* rows of this run in results.jsonl
    runs        \* history: invocations

lab == <<log, collecting, done>>
tmp == <<base, side, start>>
measuring == <<shown, t0, t1, from, to, opened, closed>>
vars == <<lab, qdisc, tmp, pc, plan, phase, measuring, rows, runs>>

Now == Len(log)

\* The sample of a collection is in the topic when its end is logged.
EndOffset == Cardinality(done)

Tag == plan[phase]
SpecOf(tag) == IF tag = "p0-control" THEN "none" ELSE tag
Running == {"shape", "settle", "base", "derive", "window", "report", "read"}

Init ==
    /\ log = <<>> /\ done = {} /\ collecting = [k \in Keys |-> None]
    /\ qdisc = "none"
    /\ base = [tag \in Tags |-> None] /\ start = 0 /\ side = [tag \in Tags |-> <<>>]
    /\ pc = "idle" /\ plan \in Plans /\ phase = 1
    /\ shown = "" /\ t0 = 0 /\ t1 = 0 /\ from = 0 /\ to = 0 /\ opened = None /\ closed = None
    /\ rows = <<>> /\ runs = 0

Goto(label) == pc' = label

-----------------------------------------------------------------------------
(* Collectd. *)

Say(verb, k) == log' = Append(log, [verb |-> verb, key |-> k])

CollectionBegins(k) ==
    /\ Now < MaxLog /\ collecting[k] = None
    /\ Say("begin", k)
    /\ collecting' = [collecting EXCEPT ![k] = Now + 1]
    /\ UNCHANGED <<done, qdisc, tmp, pc, plan, phase, measuring, rows, runs>>

CollectionEnds(k) ==
    /\ Now < MaxLog /\ collecting[k] # None
    /\ Say("end", k)
    /\ done' = done \cup {<<k, collecting[k], Now + 1>>}
    /\ collecting' = [collecting EXCEPT ![k] = None]
    /\ UNCHANGED <<qdisc, tmp, pc, plan, phase, measuring, rows, runs>>

\* A restart of OpenNMS: what it was collecting never ends.
CollectdRestarts ==
    /\ collecting' = [k \in Keys |-> None]
    /\ UNCHANGED <<log, done, qdisc, tmp, pc, plan, phase, measuring, rows, runs>>

-----------------------------------------------------------------------------
(* durations.py: parse. *)

\* Mutant: lines before the window are seen.
OutsideEnd(t, first, last) == t > last
Outside(t, first, last) == t < first \/ t > last

\* Mutant: a repeated begin does not replace the one before it.
OpensOnce(open, k, t) == IF open[k] # None THEN open ELSE [open EXCEPT ![k] = t]

\* d[key] = ts: a begin that is repeated replaces the one before it.
Opens(open, k, t) == [open EXCEPT ![k] = t]

\* A line outside the window is not seen at all, and an end without a begin is skipped.
Pairs(acc, line, t, first, last) ==
    IF Outside(t, first, last) THEN acc
    ELSE IF line.verb = "begin" THEN [acc EXCEPT !.open = Opens(@, line.key, t)]
    ELSE IF acc.open[line.key] = None THEN acc
    ELSE [open |-> [acc.open EXCEPT ![line.key] = None],
          durs |-> Append(acc.durs, <<line.key, acc.open[line.key], t>>)]

NothingRead == [open |-> [k \in Keys |-> None], durs |-> <<>>]

\* What has been read after each line of the log, of which a file holds some.
Parsed(acc, lines, held, first, last) ==
    LET parsed[t \in 0..Len(lines)] ==
          IF t = 0 THEN acc
          ELSE IF t \in held THEN Pairs(parsed[t - 1], lines[t], t, first, last)
          ELSE parsed[t - 1]
    IN parsed

\* The files are read in turn, and begins stay open from one to the next.
Durations(lines, files, first, last) ==
    LET n == Len(lines)
        backfilled == Parsed(NothingRead, lines, files.backfill, first, last)[n]
    IN Parsed(backfilled, lines, files.capture, first, last)[n].durs

-----------------------------------------------------------------------------
(* runbook_exec.py. *)

Begin ==
    /\ pc \notin Running /\ runs < MaxRuns /\ runs' = runs + 1
    /\ plan' \in Plans /\ phase' = 1 /\ rows' = <<>>
    /\ Goto("shape")
    /\ start' = 0 /\ shown' = "" /\ t0' = 0 /\ t1' = 0 /\ from' = 0 /\ to' = 0 /\ opened' = None /\ closed' = None
    /\ UNCHANGED <<lab, qdisc, base, side>>

\* set_qdisc.  Neither the status of ssh nor that of tc is read: what is recorded
\* is the line tc shows afterwards, or nothing.
Shape ==
    /\ pc = "shape"
    /\ \/ qdisc' = SpecOf(Tag) /\ shown' = SpecOf(Tag)
       \/ UNCHANGED qdisc /\ shown' \in {""} \cup (IF SpecOf(Tag) = "none" THEN {qdisc} ELSE {})
    /\ Goto("settle")
    /\ UNCHANGED <<lab, tmp, plan, phase, t0, t1, from, to, opened, closed, rows, runs>>

\* The settle, and t0.
Settle ==
    /\ pc = "settle"
    /\ t0' = Now /\ from' = EndOffset /\ opened' = None /\ closed' = None
    /\ Goto("base")
    /\ UNCHANGED <<lab, qdisc, tmp, plan, phase, shown, t1, to, rows, runs>>

\* Mutant: the slice starts where the topic does.
BaseReportStart ==
    /\ pc = "base"
    /\ \/ base' = [base EXCEPT ![Tag] = 0] /\ opened' = EndOffset
       \/ UNCHANGED <<base, opened>>
    /\ Goto("derive")
    /\ UNCHANGED <<lab, qdisc, side, start, plan, phase, shown, t0, t1, from, to, closed, rows, runs>>

\* capture_offsets: the report whose bounds open the window.  Its status is not read.
BaseReport ==
    /\ pc = "base"
    /\ \/ base' = [base EXCEPT ![Tag] = EndOffset] /\ opened' = EndOffset
       \/ UNCHANGED <<base, opened>>
    /\ Goto("derive")
    /\ UNCHANGED <<lab, qdisc, side, start, plan, phase, shown, t0, t1, from, to, closed, rows, runs>>

\* The start offsets are the ends of that report: of whichever wrote the file.
DeriveOffsets ==
    /\ pc = "derive"
    /\ \/ /\ base[Tag] # None
          /\ start' = base[Tag]
          /\ Goto("window")
       \/ UNCHANGED start /\ Goto("failed")
    /\ UNCHANGED <<lab, qdisc, base, side, plan, phase, measuring, rows, runs>>

\* The window, and t1.
Window ==
    /\ pc = "window"
    /\ t1' = Now /\ to' = EndOffset
    /\ Goto("report")
    /\ UNCHANGED <<lab, qdisc, tmp, plan, phase, shown, t0, from, opened, closed, rows, runs>>

\* Mutant: the start offsets are not passed on.
WindowReportOfTopic ==
    /\ pc = "report"
    /\ \/ side' = [side EXCEPT ![Tag] = <<0, EndOffset>>] /\ closed' = EndOffset
       \/ UNCHANGED <<side, closed>>
    /\ Goto("read")
    /\ UNCHANGED <<lab, qdisc, base, start, plan, phase, shown, t0, t1, from, to, opened, rows, runs>>

\* read_window: the status that comes back is the one of echo.
WindowReport ==
    /\ pc = "report"
    /\ \/ side' = [side EXCEPT ![Tag] = <<start, EndOffset>>] /\ closed' = EndOffset
       \/ UNCHANGED <<side, closed>>
    /\ Goto("read")
    /\ UNCHANGED <<lab, qdisc, base, start, plan, phase, shown, t0, t1, from, to, opened, rows, runs>>

\* "A silent zero in the harness, not a result."
NoSamples(bounds) == bounds[2] = bounds[1]

LastPhase == phase = Len(plan)

\* What a file holds of the log when it is read: a stretch that may end before the
\* window does, or nothing when it cannot be opened.  A call that fails leaves what
\* two such files leave, no durations: its status and its errors are dropped.
Stretches == {first..last : first \in 1..(Now + 1), last \in 0..Now}

\* The lines of the window that were read, and whether that was line by line: no
\* line twice, none skipped between two others, and none before an earlier one.
InWindow(held) == {t \in held : t0 <= t /\ t <= t1}
SeenOf(files) == InWindow(files.backfill) \cup InWindow(files.capture)
InOneGo(files) ==
    \A i \in InWindow(files.backfill), j \in InWindow(files.capture) :
        i < j /\ i..j \subseteq SeenOf(files)

\* The rest of phase: no sidecar, an unreadable Prometheus or no samples end the
\* run before the row is appended.  No durations do not.
Read ==
    /\ pc = "read"
    /\ \/ Goto("failed") /\ UNCHANGED <<phase, rows>>
       \/ /\ side[Tag] # <<>> /\ ~NoSamples(side[Tag])
          /\ \E files \in [backfill : Stretches, capture : Stretches] :
               rows' = Append(rows,
                 [tag |-> Tag, qdisc |-> shown, bounds |-> side[Tag],
                  from |-> from, to |-> to, opened |-> opened, closed |-> closed,
                  seen |-> SeenOf(files), inOneGo |-> InOneGo(files),
                  collected |-> Durations(log, files, t0, t1)])
          /\ IF LastPhase
               THEN UNCHANGED phase /\ Goto("complete")
               ELSE phase' = phase + 1 /\ Goto("shape")
    /\ UNCHANGED <<lab, qdisc, tmp, plan, measuring, runs>>

\* A call over ssh takes longer than its 300 s, or the operator ends the run.
Killed ==
    /\ pc \in Running
    /\ Goto("failed")
    /\ UNCHANGED <<lab, qdisc, tmp, plan, phase, measuring, rows, runs>>

Phase == Shape \/ Settle \/ BaseReport \/ DeriveOffsets \/ Window \/ WindowReport \/ Read
Collectd == CollectdRestarts \/ \E k \in Keys : CollectionBegins(k) \/ CollectionEnds(k)
Next == Collectd \/ Begin \/ Phase \/ Killed

Spec == Init /\ [][Next]_vars

-----------------------------------------------------------------------------
(* What a row may be read for. *)

\* The phases whose two reports worked.
Fresh == {i \in DOMAIN rows : rows[i].opened # None /\ rows[i].closed # None}

\* Which samples a row counts, whatever earlier runs left under /tmp.  When both
\* reports of its phase worked: what came between the two, which is all that came
\* from the base report to t1 and none that was there at t0 or that such a row of
\* the run counts; what came between t0 and the base report is in no row, and what
\* came between t1 and the report is counted.  A base report that failed lets the
\* row reach back over samples from before its window, and a window report that
\* failed leaves it with an earlier window altogether.
RowsOfTheirOwnWindow ==
    /\ \A i \in DOMAIN rows :
         LET row == rows[i] IN
           /\ i \in Fresh =>
                /\ row.bounds = <<row.opened, row.closed>>
                /\ row.from <= row.opened /\ row.opened <= row.to /\ row.to <= row.closed
           /\ row.opened = None /\ row.closed # None =>
                row.bounds[1] <= row.from /\ row.bounds[2] = row.closed
           /\ row.closed = None => row.bounds[2] <= row.from
    /\ \A i, j \in Fresh : i < j => rows[i].bounds[2] <= rows[j].bounds[1]

\* The service times of a row are those of the collections that began and ended
\* within what was read of its window, each once ("W that Little's Law only
\* estimates"), when the backfill and the capture were read in one go.  A line that
\* is in both, or a gap between them, pairs a begin with the end of another
\* collection; a capture that lags or a call that fails leaves collections out, and
\* the row does not tell.
DurationsAreOfTheWindow ==
    \A i \in DOMAIN rows :
        LET row == rows[i] IN
          row.inOneGo =>
            /\ Range(row.collected) = {c \in done : c[2] \in row.seen /\ c[3] \in row.seen}
            /\ \A m, n \in DOMAIN row.collected : m # n => row.collected[m] # row.collected[n]
===============================================================================
