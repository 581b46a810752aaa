--------------------------- MODULE PoolSweepProofs ---------------------------
(***************************************************************************)
(* The safety properties of PoolSweep, for any cap, steps, throughputs and *)
(* number of sweeps.  Two invariants, each inductive with TypeOK: InStep   *)
(* says how far the lab has followed the rung, and Ladder what the rows    *)
(* and last_pass say of the climb.  Last, that a sweep has finitely many   *)
(* steps.                                                                  *)
(***************************************************************************)
EXTENDS PoolSweep, TLAPS

Rungs == {"backup", "write", "lint", "restart", "steady", "measure"}
Climbing == {"limits", "check", "prepare"} \cup Rungs

\* The file follows the rung, and the running OpenNMS the file.
InStep ==
    /\ pc = "write" => backup = file
    /\ pc = "lint" => file \in {Damaged, threads}
    /\ pc \in {"restart", "steady", "measure", "handed"} => file = threads
    /\ pc \in {"steady", "measure", "handed"} /\ restarted =>
         jvm = threads /\ (prepared => capped)
    /\ prepared => dropin = "loaded"
    /\ \A i \in DOMAIN rows : rows[i].restarted =>
         rows[i].ran = rows[i].threads /\ (prepared => rows[i].capped)

\* Every row is of a smaller pool, and none of them ended the climb.
Climb ==
    pc \in Climbing =>
        /\ \A i \in DOMAIN rows : rows[i].threads < threads /\ ~rows[i].stopped
        /\ \A i, j \in DOMAIN rows : i < j /\ rows[i].PASS => rows[j].PASS

LastPass ==
    pc \in Climbing \cup {"complete"} =>
        /\ \A i \in DOMAIN rows : rows[i].PASS => rows[i].threads <= last_pass
        /\ last_pass # None => \E i \in DOMAIN rows : rows[i].PASS /\ rows[i].threads = last_pass

Rising ==
    \A i, j \in DOMAIN rows : i < j =>
        /\ rows[i].threads < rows[j].threads
        /\ ~rows[i].stopped
        /\ rows[i].PASS /\ j < Len(rows) => rows[j].PASS

\* No rung has run before the first one.
NotBegun == pc \in {"limits", "check", "prepare"} =>
    rows = <<>> /\ last_pass = None /\ threads = Start

Ladder == Climb /\ LastPass /\ Rising /\ NotBegun
IInv == TypeOK /\ InStep /\ Ladder

-----------------------------------------------------------------------------
(* Lemmas. *)

\* A step that leaves the rows and the ladder, and does not return to the climb
\* or to its beginning, leaves what they say.
LEMMA LadderKept ==
    ASSUME Ladder, UNCHANGED <<rows, ladder>>,
           pc' \in Climbing => pc \in Climbing,
           pc' = "complete" => pc \in Climbing \cup {"complete"},
           pc' \in {"limits", "check", "prepare"} => pc \in {"limits", "check", "prepare"}
    PROVE  Ladder'
BY DEF Ladder, Climb, LastPass, Rising, NotBegun, ladder

\* The next rung is a larger pool.
LEMMA Rises ==
    ASSUME NEW n \in Nat \ {0}, step \in Nat
    PROVE  NextRung(n) \in Nat /\ NextRung(n) > n
BY DEF NextRung

\* Constants and the type of the arguments.
LEMMA Typed == TypeOK => step \in Nat /\ Cap \in Nat /\ Start \in Nat \ {0}
BY PoolAssumption DEF TypeOK

\* No rows are rows.
LEMMA EmptyTyped == <<>> \in Seq(Row)
OBVIOUS

\* A row that was appended is the last one, and the rows before it are as they were.
LEMMA Appended ==
    ASSUME NEW S, NEW s \in Seq(S), NEW e \in S, NEW t, t = Append(s, e)
    PROVE  /\ t \in Seq(S) /\ Len(s) \in Nat /\ Len(t) = Len(s) + 1 /\ DOMAIN t = 1..(Len(s) + 1)
           /\ DOMAIN s = 1..Len(s)
           /\ \A i \in 1..Len(s) : t[i] = s[i]
           /\ t[Len(s) + 1] = e
OBVIOUS

-----------------------------------------------------------------------------
(* The step that appends a row. *)

\* A window's row is of the type of the rows.
LEMMA RowTyped ==
    ASSUME TypeOK, pc = "measure", NEW tput \in 0..MaxTput,
           NEW pass \in BOOLEAN, NEW limit \in BOOLEAN, NEW absorbed \in BOOLEAN
    PROVE  WindowRow(tput, pass, limit, absorbed) \in Row
<1>1. LowGain(prev, tput) \in BOOLEAN
  BY Zenon DEF LowGain
<1>2. Stopped(limit, LowGain(prev, tput), absorbed) \in BOOLEAN
  BY Zenon DEF Stopped
<1>3. threads \in Pools /\ jvm \in {Down} \cup Pools /\ restarted \in BOOLEAN /\ capped \in BOOLEAN
  BY DEF TypeOK, Running
<1> QED BY <1>2, <1>3 DEF WindowRow, Row

\* What the step of a window does to the rows and the ladder.
LEMMA MeasureCases ==
    ASSUME TypeOK, Measure
    PROVE  \/ pc' = "failed" /\ UNCHANGED <<rows, ladder>>
           \/ \E row \in Row :
                /\ row.threads = threads /\ row.ran = jvm
                /\ row.restarted = restarted /\ row.capped = capped
                /\ Record(row)
<1>1. CASE pc' = "failed" /\ UNCHANGED <<rows, ladder>>
  BY <1>1
<1>2. CASE \E tput \in 0..MaxTput, pass, limit, absorbed \in BOOLEAN :
             Record(WindowRow(tput, pass, limit, absorbed))
  <2>1. PICK tput \in 0..MaxTput, pass, limit, absorbed \in BOOLEAN :
             Record(WindowRow(tput, pass, limit, absorbed))
    BY <1>2
  <2>2. WindowRow(tput, pass, limit, absorbed) \in Row
    BY RowTyped DEF Measure
  <2>3. /\ WindowRow(tput, pass, limit, absorbed).threads = threads
        /\ WindowRow(tput, pass, limit, absorbed).ran = jvm
        /\ WindowRow(tput, pass, limit, absorbed).restarted = restarted
        /\ WindowRow(tput, pass, limit, absorbed).capped = capped
    BY DEF WindowRow
  <2> QED BY <2>1, <2>2, <2>3
<1> QED BY <1>1, <1>2 DEF Measure, Goto

-----------------------------------------------------------------------------
(* The type invariant. *)

LEMMA TypeInit == Init => TypeOK
<1> SUFFICES ASSUME Init PROVE TypeOK
  OBVIOUS
<1> USE PoolAssumption DEF Init, Pools, Damaged, Down, None, Running
<1>1. file \in {Damaged} \cup Pools /\ backup \in {Damaged} \cup Pools /\ jvm \in {Down} \cup Pools
  OBVIOUS
<1>2. capped \in BOOLEAN /\ dropin \in {"absent", "written", "loaded"}
  OBVIOUS
<1>3. single \in BOOLEAN /\ step \in Steps \cup {0} /\ detach \in BOOLEAN
  OBVIOUS
<1>4. threads \in Nat /\ prev \in 0..MaxTput /\ last_pass \in {None} \cup Pools
  OBVIOUS
<1>5. prepared \in BOOLEAN /\ restarted \in BOOLEAN
  OBVIOUS
<1>6. sweeps \in 0..MaxSweeps
  OBVIOUS
<1> QED BY <1>1, <1>2, <1>3, <1>4, <1>5, <1>6, EmptyTyped DEF TypeOK

LEMMA TypeStep ==
    ASSUME TypeOK, NotBegun, Next
    PROVE  TypeOK'
<1> USE Typed, EmptyTyped DEF Pools, Damaged, Down, None, Running, Goto, lab, config, opennms, arguments,
                  ladder, history
<1>1. CASE Begin
  <2>1. prepared' \in BOOLEAN /\ restarted' \in BOOLEAN
    BY <1>1, Zenon DEF Begin
  <2>2. sweeps' \in 0..MaxSweeps
    BY <1>1, PoolAssumption DEF Begin, TypeOK
  <2>3. /\ UNCHANGED <<file, backup, dropin, jvm, capped>>
        /\ prev' = 0 /\ last_pass' = 0 /\ rows' = <<>>
    BY <1>1 DEF Begin
  <2>4. prev' \in 0..MaxTput /\ last_pass' \in {None} \cup Pools /\ rows' \in Seq(Row)
    BY <2>3, PoolAssumption
  <2>5. single' \in BOOLEAN /\ detach' \in BOOLEAN /\ step' \in Steps \cup {0}
    BY <1>1 DEF Begin, BeginSweep, BeginSingle
  <2>6. /\ threads' \in Nat
        /\ pc' = "limits" \/ (pc' = "backup" /\ threads' \in Pools)
    BY <1>1 DEF Begin, BeginSweep, BeginSingle
  <2> QED BY <2>1, <2>2, <2>3, <2>4, <2>5, <2>6 DEF TypeOK
<1>2. CASE ReadLimits BY <1>2 DEF ReadLimits, TypeOK
<1>3. CASE Check BY <1>3 DEF Check, TypeOK
<1>4. CASE Prepare
  <2>1. prepared' \in BOOLEAN
    <3>1. prepared' = (dropin' = "loaded") \/ prepared' = prepared
      BY <1>4 DEF Prepare
    <3>2. (dropin' = "loaded") \in BOOLEAN
      BY Zenon
    <3> QED BY <3>1, <3>2 DEF TypeOK
  <2>2. dropin' \in {"absent", "written", "loaded"} /\ threads' = threads
    BY <1>4 DEF Prepare, TypeOK
  <2>3. /\ UNCHANGED <<config, opennms, arguments, ladder, rows, restarted, sweeps>>
        /\ pc' \in {"backup", "complete", "failed"}
        /\ pc' = "backup" => WithinCap(Start)
        /\ threads = Start
    BY <1>4 DEF Prepare, NotBegun
  <2> QED BY <2>1, <2>2, <2>3 DEF TypeOK, WithinCap
<1>5. CASE Backup BY <1>5 DEF Backup, TypeOK
<1>6. CASE WriteFile BY <1>6 DEF WriteFile, TypeOK
<1>7. CASE Lint BY <1>7 DEF Lint, TypeOK
<1>8. CASE Restart BY <1>8 DEF Restart, TypeOK
<1>9. CASE WaitSteady BY <1>9 DEF WaitSteady, TypeOK
<1>10. CASE Measure
  <2>1. UNCHANGED <<lab, arguments, history>> /\ threads \in Pools /\ pc = "measure"
    BY <1>10 DEF Measure, TypeOK
  <2>2. CASE pc' = "failed" /\ UNCHANGED <<rows, ladder>>
    BY <2>1, <2>2 DEF TypeOK
  <2>3. ASSUME NEW row \in Row, row.threads = threads, Record(row)
        PROVE  TypeOK'
    <3>1. NextRung(threads) \in Nat /\ NextRung(threads) > threads
      BY <2>1, Rises
    <3>2. rows' \in Seq(Row) /\ row.tput \in 0..MaxTput /\ row.threads \in Pools
      BY <2>3 DEF TypeOK, Row, Record, Continue
    <3>3. last_pass' \in {None} \cup Pools
      BY <2>3, <3>2 DEF TypeOK, Passes, Record, Continue
    <3>4. prev' \in 0..MaxTput /\ threads' \in Nat
      BY <2>1, <2>3, <3>1, <3>2 DEF TypeOK, Record, Continue
    <3>5. pc' \in {"failed", "backup", "complete"} /\ (pc' = "backup" => threads' \in Pools)
      BY <2>1, <2>3, <3>1 DEF WithinCap, Record, Continue
    <3> QED BY <2>1, <3>2, <3>3, <3>4, <3>5 DEF TypeOK
  <2> QED BY <1>10, MeasureCases, <2>2, <2>3
<1>11. CASE Killed BY <1>11 DEF Killed, TypeOK
<1>12. CASE CoreReboots
  <2>1. capped' \in BOOLEAN
    BY <1>12, Zenon DEF CoreReboots
  <2> QED BY <1>12, <2>1 DEF CoreReboots, TypeOK
<1> QED BY <1>1, <1>2, <1>3, <1>4, <1>5, <1>6, <1>7, <1>8, <1>9, <1>10, <1>11, <1>12 DEF Next, Run, Rung

-----------------------------------------------------------------------------
(* The lab follows the rung. *)

LEMMA InStepStep ==
    ASSUME TypeOK, InStep, NotBegun, Next
    PROVE  InStep'
<1> USE DEF Goto, lab, config, opennms, arguments, ladder, history, Running
<1>1. CASE Begin
  <2>1. rows' = <<>> /\ prepared' = FALSE /\ restarted' = FALSE /\ pc' \in {"limits", "backup"}
    BY <1>1 DEF Begin, BeginSweep, BeginSingle
  <2> QED BY <2>1 DEF InStep
<1>2. CASE ReadLimits BY <1>2 DEF ReadLimits, InStep
<1>3. CASE Check BY <1>3 DEF Check, InStep
<1>4. CASE Prepare
  <2>1. /\ pc = "prepare" /\ pc' \in {"backup", "complete", "failed"}
        /\ UNCHANGED <<config, opennms, arguments, ladder, rows, restarted, sweeps>>
        /\ \/ prepared' = (dropin' = "loaded")
           \/ UNCHANGED <<prepared, dropin>>
    BY <1>4 DEF Prepare
  <2>2. prepared' => dropin' = "loaded"
    BY <2>1, Zenon DEF InStep
  <2>3. rows' = <<>>
    BY <2>1 DEF NotBegun
  <2> QED BY <2>1, <2>2, <2>3 DEF InStep
<1>5. CASE Backup BY <1>5 DEF Backup, InStep
<1>6. CASE WriteFile BY <1>6 DEF WriteFile, InStep
<1>7. CASE Lint BY <1>7 DEF Lint, InStep
<1>8. CASE Restart
  <2>1. CASE restarted' = FALSE
    BY <1>8, <2>1 DEF Restart, InStep
  <2>2. CASE jvm' = file /\ capped' = (dropin = "loaded") /\ pc' \in {"steady", "failed"}
    <3>1. prepared => capped'
      BY <2>2, Zenon DEF InStep
    <3> QED BY <1>8, <2>2, <3>1 DEF Restart, InStep
  <2> QED BY <1>8, <2>1, <2>2 DEF Restart
<1>9. CASE WaitSteady BY <1>9 DEF WaitSteady, InStep
<1>10. CASE Measure
  <2>1. UNCHANGED <<lab, arguments, history>> /\ pc = "measure"
    BY <1>10 DEF Measure
  <2>2. CASE pc' = "failed" /\ UNCHANGED <<rows, ladder>>
    BY <2>1, <2>2 DEF InStep
  <2>3. ASSUME NEW row \in Row, row.threads = threads, row.ran = jvm, row.restarted = restarted,
               row.capped = capped, Record(row)
        PROVE  InStep'
    <3>1. pc' \in {"failed", "backup", "complete"}
      BY <2>3 DEF Record, Continue
    <3>2. /\ DOMAIN rows' = 1..(Len(rows) + 1) /\ DOMAIN rows = 1..Len(rows) /\ Len(rows) \in Nat
          /\ \A i \in 1..Len(rows) : rows'[i] = rows[i]
          /\ rows'[Len(rows) + 1] = row
      BY <2>3, Appended DEF TypeOK, Record
    <3>3. restarted => jvm = threads /\ (prepared => capped)
      BY <2>1 DEF InStep
    <3>4. ASSUME NEW i \in DOMAIN rows', rows'[i].restarted
          PROVE  rows'[i].ran = rows'[i].threads /\ (prepared => rows'[i].capped)
      BY <2>3, <3>2, <3>3, <3>4 DEF InStep
    <3> QED BY <2>1, <3>1, <3>4 DEF InStep
  <2> QED BY <1>10, MeasureCases, <2>2, <2>3
<1>11. CASE Killed BY <1>11 DEF Killed, InStep
<1>12. CASE CoreReboots
  <2>1. /\ UNCHANGED <<config, pc, arguments, ladder, rows, history>>
        /\ jvm' = file /\ dropin' = IF dropin = "absent" THEN "absent" ELSE "loaded"
    BY <1>12 DEF CoreReboots
  <2>2. prepared => capped'
    BY <1>12, Zenon DEF CoreReboots, InStep
  <2> QED BY <2>1, <2>2 DEF InStep
<1> QED BY <1>1, <1>2, <1>3, <1>4, <1>5, <1>6, <1>7, <1>8, <1>9, <1>10, <1>11, <1>12 DEF Next, Run, Rung

-----------------------------------------------------------------------------
(* The climb. *)

LEMMA LadderStep ==
    ASSUME TypeOK, Ladder, Next
    PROVE  Ladder'
<1> USE DEF Goto, lab, arguments, history, Running, Climbing, Rungs
<1>1. CASE Begin
  <2>1. rows' = <<>> /\ last_pass' = None /\ pc' \in {"limits", "backup"}
        /\ (pc' = "limits" => threads' = Start)
    BY <1>1 DEF Begin, BeginSweep, BeginSingle
  <2> QED BY <2>1 DEF Ladder, Climb, LastPass, Rising, NotBegun
<1>2. CASE ReadLimits BY <1>2, LadderKept DEF ReadLimits
<1>3. CASE Check BY <1>3, LadderKept DEF Check
<1>4. CASE Prepare BY <1>4, LadderKept DEF Prepare
<1>5. CASE Backup BY <1>5, LadderKept DEF Backup
<1>6. CASE WriteFile BY <1>6, LadderKept DEF WriteFile
<1>7. CASE Lint BY <1>7, LadderKept DEF Lint
<1>8. CASE Restart BY <1>8, LadderKept DEF Restart
<1>9. CASE WaitSteady BY <1>9, LadderKept DEF WaitSteady
<1>10. CASE Measure
  <2>1. pc = "measure" /\ UNCHANGED <<lab, arguments, history>> /\ threads \in Pools
    BY <1>10 DEF Measure, TypeOK
  <2>2. CASE pc' = "failed" /\ UNCHANGED <<rows, ladder>>
    BY <2>1, <2>2, LadderKept
  <2>3. ASSUME NEW row \in Row, row.threads = threads, Record(row)
        PROVE  Ladder'
    <3> DEFINE n == Len(rows)
    <3>1. /\ DOMAIN rows' = 1..(n + 1) /\ DOMAIN rows = 1..n /\ n \in Nat /\ Len(rows') = n + 1
          /\ \A i \in 1..n : rows'[i] = rows[i]
          /\ rows'[n + 1] = row
      BY <2>3, Appended DEF TypeOK, Record
    <3>2. /\ \A i \in 1..n : rows[i].threads < threads /\ ~rows[i].stopped
          /\ \A i, j \in 1..n : i < j /\ rows[i].PASS => rows[j].PASS
      BY <2>1, <3>1 DEF Ladder, Climb
    <3>3. /\ \A i \in 1..n : rows[i].PASS => rows[i].threads <= last_pass
          /\ last_pass # None => \E i \in 1..n : rows[i].PASS /\ rows[i].threads = last_pass
      BY <2>1, <3>1 DEF Ladder, LastPass
    <3>4. /\ threads \in Nat \ {0} /\ last_pass \in Nat
          /\ \A i \in 1..n : rows[i].threads \in Nat /\ rows[i].threads # None
      <4>1. \A i \in 1..n : rows[i] \in Row
        BY <3>1 DEF TypeOK
      <4> QED BY <2>1, <4>1, Typed DEF TypeOK, Row, Pools, None
    <3> HIDE DEF n
    <3>5. Rising'
      <4>1. ASSUME NEW i \in 1..(n + 1), NEW j \in 1..(n + 1), i < j
            PROVE  /\ rows'[i].threads < rows'[j].threads
                   /\ ~rows'[i].stopped
                   /\ rows'[i].PASS /\ j < n + 1 => rows'[j].PASS
        <5>1. i \in 1..n /\ rows'[i] = rows[i]
          BY <3>1, <4>1
        <5>2. CASE j = n + 1
          BY <2>3, <3>1, <3>2, <5>1, <5>2
        <5>3. CASE j # n + 1
          <6>1. j \in 1..n /\ rows'[j] = rows[j]
            BY <3>1, <5>3
          <6>2. rows[i].threads < rows[j].threads
            BY <3>1, <4>1, <5>1, <6>1 DEF Ladder, Rising
          <6> QED BY <3>2, <4>1, <5>1, <6>1, <6>2
        <5> QED BY <5>2, <5>3
      <4> QED BY <3>1, <4>1 DEF Rising
    <3>6. CASE pc' = "failed" /\ UNCHANGED ladder
      BY <3>5, <3>6 DEF Ladder, Climb, LastPass, NotBegun
    <3>7. CASE Continue(row)
      <4>1. last_pass' = Passes(row) /\ pc' \in {"backup", "complete"}
            /\ (pc' = "backup" => GoesOn(row) /\ threads' = NextRung(threads))
        BY <3>7 DEF Continue
      <4>2. LastPass'
        <5>1. \A i \in 1..(n + 1) : rows'[i].PASS => rows'[i].threads <= last_pass'
          BY <2>3, <3>1, <3>2, <3>3, <3>4, <4>1 DEF Passes
        <5>2. last_pass' # None =>
                \E i \in 1..(n + 1) : rows'[i].PASS /\ rows'[i].threads = last_pass'
          BY <2>3, <3>1, <3>3, <4>1 DEF Passes
        <5> QED BY <3>1, <5>1, <5>2 DEF LastPass
      <4>3. ASSUME pc' = "backup"
            PROVE  Climb'
        <5>1. ~row.stopped /\ (last_pass' # None => row.PASS) /\ threads' > threads
              /\ threads' \in Nat
          BY <3>4, <4>1, <4>3, Rises, Typed DEF GoesOn
        <5>2. \A i \in 1..n : rows[i].PASS => last_pass' # None
          BY <2>3, <3>3, <3>4, <4>1 DEF Passes, None
        <5>3. \A i \in 1..(n + 1) : rows'[i].threads < threads' /\ ~rows'[i].stopped
          BY <2>3, <3>1, <3>2, <3>4, <5>1
        <5>4. ASSUME NEW i \in 1..(n + 1), NEW j \in 1..(n + 1), i < j, rows'[i].PASS
              PROVE  rows'[j].PASS
          <6>1. i \in 1..n /\ rows[i].PASS
            BY <3>1, <5>4
          <6> QED BY <3>1, <3>2, <5>1, <5>2, <5>4, <6>1
        <5> QED BY <3>1, <5>3, <5>4 DEF Climb
      <4>4. CASE pc' = "complete"
        BY <3>5, <4>2, <4>4 DEF Ladder, Climb, NotBegun
      <4> QED BY <3>5, <4>1, <4>2, <4>3, <4>4 DEF Ladder, NotBegun
    <3> QED BY <2>3, <3>6, <3>7 DEF Record
  <2> QED BY <1>10, MeasureCases, <2>2, <2>3
<1>11. CASE Killed BY <1>11, LadderKept DEF Killed
<1>12. CASE CoreReboots BY <1>12, LadderKept DEF CoreReboots
<1> QED BY <1>1, <1>2, <1>3, <1>4, <1>5, <1>6, <1>7, <1>8, <1>9, <1>10, <1>11, <1>12 DEF Next, Run, Rung

-----------------------------------------------------------------------------
(* The theorems. *)

\* IInv holds initially.
LEMMA InitIInv == Init => IInv
<1> SUFFICES ASSUME Init PROVE IInv
  OBVIOUS
<1>1. pc = "idle" /\ rows = <<>> /\ prepared = FALSE /\ restarted = FALSE
  BY DEF Init
<1>2. InStep
  BY <1>1 DEF InStep
<1>3. Ladder
  BY <1>1 DEF Ladder, Climb, LastPass, Rising, NotBegun, Climbing, Rungs
<1> QED BY TypeInit, <1>2, <1>3 DEF IInv

\* Every step keeps IInv.
LEMMA StepIInv == IInv /\ [Next]_vars => IInv'
<1> SUFFICES ASSUME IInv, [Next]_vars PROVE IInv'
  OBVIOUS
<1>1. CASE Next
  BY <1>1, TypeStep, InStepStep, LadderStep DEF IInv, Ladder
<1>2. CASE UNCHANGED vars
  BY <1>2 DEF IInv, TypeOK, InStep, Ladder, Climb, LastPass, Rising, NotBegun,
              vars, lab, config, opennms, arguments, ladder, history
<1> QED BY <1>1, <1>2

\* The inductive invariant holds in every behaviour: how far the lab has followed the
\* rung, and what the rows and last_pass say of the climb.
THEOREM Invariance == Spec => []IInv
<1> QED BY InitIInv, StepIInv, PTL DEF Spec

\* A row labelled with a pool size was measured under it, and so is the window handed to
\* knee_search: for any cap, steps and number of sweeps, reboots of the Core at any point
\* and calls over ssh that were not carried out.
THEOREM RowsHold == Spec => []RowsOfTheRunningPool
<1>1. IInv => RowsOfTheRunningPool
  BY DEF IInv, InStep, RowsOfTheRunningPool
<1> QED BY Invariance, <1>1, PTL

\* The largest completing pool a sweep reports is the largest that a row of it passed
\* with, and no rung was tried after a stop signal or a pool that stopped completing.
THEOREM CeilingHolds == Spec => []CeilingIsTheLadders
<1>1. IInv => CeilingIsTheLadders
  BY DEF IInv, Ladder, LastPass, Rising, CeilingIsTheLadders, Climbing
<1> QED BY Invariance, <1>1, PTL

\* Whatever step breaks collectd-configuration.xml, the backup beside it is the file as it
\* was before.
THEOREM BackupHolds == Spec => DamageLeavesBackup
<1>1. ASSUME IInv, [Next]_vars
      PROVE  [file # Damaged /\ file' = Damaged => backup' = file]_vars
  <2> SUFFICES ASSUME Next, file # Damaged, file' = Damaged PROVE backup' = file
    BY <1>1 DEF vars, lab, config
  <2> USE DEF lab, config
  <2>1. CASE WriteFile
    <3>1. backup = file /\ threads # Damaged
      BY <1>1, <2>1, PoolAssumption DEF IInv, InStep, WriteFile, TypeOK, Running, Pools, Damaged
    <3> QED BY <2>1, <3>1 DEF WriteFile
  <2>2. CASE Lint BY <2>2 DEF Lint
  <2>3. CASE Begin \/ ReadLimits \/ Check \/ Prepare \/ Backup \/ Restart \/ WaitSteady \/ Measure
             \/ Killed \/ CoreReboots
    BY <2>3 DEF Begin, ReadLimits, Check, Prepare, Backup, Restart, WaitSteady, Measure, Killed,
                CoreReboots
  <2> QED BY <2>1, <2>2, <2>3 DEF Next, Run, Rung
<1> QED BY Invariance, <1>1, PTL DEF Spec, DamageLeavesBackup

-----------------------------------------------------------------------------
(* That a run ends.  Fairness is not needed to say that its steps are numbered: *)
(* each makes smaller what is left of it, first the pools above the rung and    *)
(* then the calls of the rung.                                                  *)

PoolsLeft == IF threads <= Cap THEN Cap - threads ELSE 0

CallsLeft ==
    CASE pc = "limits" -> 9 [] pc = "check" -> 8 [] pc = "prepare" -> 7
      [] pc = "backup" -> 6 [] pc = "write" -> 5 [] pc = "lint" -> 4
      [] pc = "restart" -> 3 [] pc = "steady" -> 2 [] pc = "measure" -> 1
      [] OTHER -> 0

Shorter ==
    /\ PoolsLeft' \in Nat /\ CallsLeft' \in Nat
    /\ PoolsLeft' < PoolsLeft \/ (PoolsLeft' = PoolsLeft /\ CallsLeft' < CallsLeft)

\* Nothing but a new run makes it longer, and the Core cannot.
RunsShorten == [][Begin \/ Shorter \/ (~Run /\ UNCHANGED <<PoolsLeft, CallsLeft>>)]_vars

\* What remains up to a bound, of a number and of a larger one.
LEMMA Remains ==
    ASSUME NEW t \in Nat, NEW u \in Nat, NEW c \in Nat, u > t
    PROVE  /\ (IF u <= c THEN c - u ELSE 0) \in Nat
           /\ u <= c => c - u < c - t
OBVIOUS

\* A step within a rung leaves the pools and takes a call.
LEMMA WithinRung ==
    ASSUME threads \in Nat, threads' = threads, CallsLeft' \in Nat, CallsLeft' < CallsLeft
    PROVE  Shorter
<1>1. PoolsLeft' = PoolsLeft /\ PoolsLeft \in Nat
  BY PoolAssumption DEF PoolsLeft
<1> QED BY <1>1 DEF Shorter

\* Each step of pool_sweep and of rung_threads, and each that ends one, makes what is left
\* smaller, whatever the Core answers; no other step but a new run makes it larger.  So a run
\* makes at most nine calls for its first rung and six for each that can follow.
THEOREM RunsAreFinite == Spec => RunsShorten
<1>1. ASSUME IInv, [Next]_vars
      PROVE  [Begin \/ Shorter \/ (~Run /\ UNCHANGED <<PoolsLeft, CallsLeft>>)]_vars
  <2> SUFFICES ASSUME Next PROVE Begin \/ Shorter \/ (~Run /\ UNCHANGED <<PoolsLeft, CallsLeft>>)
    BY <1>1
  <2>1. threads \in Nat /\ (pc \in Rungs => threads \in Pools) /\ pc \in Running \cup {"idle", "failed", "complete", "handed"}
    BY <1>1 DEF IInv, TypeOK, Running, Rungs
  <2> USE DEF Goto, ladder, Running
  <2>2. ASSUME pc \in Running, pc' \notin Running, threads' = threads
        PROVE  Shorter
    BY <2>1, <2>2, WithinRung DEF CallsLeft
  <2>3. CASE ReadLimits \/ Check
    <3>1. CallsLeft' \in Nat /\ CallsLeft' < CallsLeft /\ threads' = threads
      BY <2>3 DEF ReadLimits, Check, CallsLeft
    <3> QED BY <2>1, <3>1, WithinRung
  <2>4. CASE Prepare \/ Backup \/ WriteFile \/ Lint
    <3>1. CallsLeft' \in Nat /\ CallsLeft' < CallsLeft /\ threads' = threads
      BY <2>4 DEF Prepare, Backup, WriteFile, Lint, CallsLeft
    <3> QED BY <2>1, <3>1, WithinRung
  <2>5. CASE Restart \/ WaitSteady \/ Killed
    <3>1. CallsLeft' \in Nat /\ CallsLeft' < CallsLeft /\ threads' = threads
      BY <2>5 DEF Restart, WaitSteady, Killed, CallsLeft
    <3> QED BY <2>1, <3>1, WithinRung
  <2>6. CASE Measure
    <3>1. pc = "measure" /\ threads \in Pools
      BY <2>1, <2>6 DEF Measure, Rungs
    <3>2. CASE pc' = "failed" /\ UNCHANGED <<rows, ladder>>
      BY <2>2, <3>1, <3>2
    <3>3. ASSUME NEW row \in Row, Record(row)
          PROVE  Shorter
      <4>1. CASE threads' = threads /\ pc' \in {"failed", "complete"}
        BY <2>2, <3>1, <4>1
      <4>2. CASE threads' = NextRung(threads) /\ pc' = IF WithinCap(threads') THEN "backup" ELSE "complete"
        <5>1. threads' \in Nat /\ threads' > threads /\ Cap \in Nat /\ threads \in Nat /\ threads <= Cap
          BY <1>1, <3>1, <4>2, Rises, Typed DEF IInv, Pools
        <5>2. PoolsLeft = Cap - threads /\ PoolsLeft' \in Nat
          <6>1. PoolsLeft = Cap - threads
            BY <5>1 DEF PoolsLeft
          <6>2. PoolsLeft' = IF threads' <= Cap THEN Cap - threads' ELSE 0
            BY DEF PoolsLeft
          <6> QED BY <5>1, <6>1, <6>2, Remains
        <5>3. CallsLeft' \in {6, 0} /\ CallsLeft = 1
          BY <3>1, <4>2 DEF CallsLeft
        <5>4. CASE threads' <= Cap
          <6>1. PoolsLeft' = Cap - threads'
            BY <5>4 DEF PoolsLeft
          <6>2. PoolsLeft' < PoolsLeft
            BY <5>1, <5>2, <5>4, <6>1, Remains
          <6> QED BY <5>2, <5>3, <6>2 DEF Shorter
        <5>5. CASE ~(threads' <= Cap)
          <6>1. PoolsLeft' = 0 /\ CallsLeft' = 0
            BY <4>2, <5>1, <5>5 DEF PoolsLeft, WithinCap, CallsLeft
          <6> QED BY <5>1, <5>2, <5>3, <6>1 DEF Shorter
        <5> QED BY <5>4, <5>5
      <4> QED BY <3>3, <4>1, <4>2 DEF Record, Continue
    <3> QED BY <1>1, <2>6, <3>2, <3>3, MeasureCases DEF IInv
  <2>7. CASE CoreReboots
    <3>1. pc' = pc /\ threads' = threads
      BY <2>7 DEF CoreReboots
    <3>2. UNCHANGED <<PoolsLeft, CallsLeft>>
      BY <3>1 DEF PoolsLeft, CallsLeft
    <3>3. CASE ~Run
      BY <3>2, <3>3
    <3>4. CASE Run
      BY <2>3, <2>4, <2>5, <2>6, <3>4 DEF Run, Rung
    <3> QED BY <3>3, <3>4
  <2> QED BY <2>3, <2>4, <2>5, <2>6, <2>7 DEF Next, Run, Rung
<1> QED BY Invariance, <1>1, PTL DEF Spec, RunsShorten
=============================================================================
