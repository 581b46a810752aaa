------------------------------ MODULE PoolSweep ------------------------------
(***************************************************************************)
(* pool_sweep.py: raise the Collectd thread pool rung by rung.  Each rung  *)
(* edits collectd-configuration.xml on the Core by a script sent over ssh, *)
(* restarts OpenNMS, waits, measures one window and reads the stop         *)
(* signals.  rung_threads.py: the same up to the window, for one size,     *)
(* which knee_search then measures.  What ssh could not do is not seen by  *)
(* sh(): it returns the output, and drops the status.                      *)
(***************************************************************************)
EXTENDS Integers, Sequences

CONSTANTS
    Start, Cap,     \* --start and --cap
    Steps,          \* the values of --step; 0 doubles
    Stock,          \* the pool the lab is installed with
    MaxTput,        \* bound: throughput of a window
    MaxSweeps       \* bound: runs of either program

ASSUME PoolAssumption ==
    /\ Start \in Nat \ {0} /\ Cap \in Nat /\ Steps \subseteq Nat /\ Stock \in 1..Cap
    /\ MaxTput \in Nat /\ MaxSweeps \in Nat

VARIABLES
    file, backup,  \* collectd-configuration.xml and its .pool-sweep-bak, as the pool they set
    dropin,        \* malloc-arena.conf: "absent", "written" or "loaded" by systemd
    jvm,           \* the pool the running OpenNMS read when it started
    capped,        \* whether it runs with MALLOC_ARENA_MAX
    pc,
    single,        \* rung_threads rather than pool_sweep
    step, detach,  \* --step and whether --detach is given
    threads,       \* the rung
    prev,          \* throughput of the rung before, 0 for none
    last_pass,     \* 0 for none
    prepared,      \* history: prepare_jvm found or left the drop-in loaded
    restarted,     \* history: the restart of this rung was carried out
    rows,          \* the rows this run appended to pool-sweep.jsonl
    sweeps         \* history: runs begun

config == <<file, backup>>
opennms == <<jvm, capped>>
lab == <<file, backup, dropin, opennms>>
history == <<prepared, restarted, sweeps>>
arguments == <<single, step, detach>>
ladder == <<threads, prev, last_pass>>
vars == <<lab, pc, arguments, ladder, rows, history>>

Damaged == 0    \* of file and backup: it does not parse; of backup also: none
Down == 0       \* of jvm
None == 0       \* of prev and last_pass
Pools == 1..Cap
Running == {"limits", "check", "prepare", "backup", "write", "lint", "restart", "steady", "measure"}

Row == [threads: Pools, ran: {Down} \cup Pools, restarted: BOOLEAN, capped: BOOLEAN,
        tput: 0..MaxTput, PASS: BOOLEAN, stopped: BOOLEAN]

TypeOK ==
    /\ file \in {Damaged} \cup Pools /\ backup \in {Damaged} \cup Pools
    /\ dropin \in {"absent", "written", "loaded"}
    /\ jvm \in {Down} \cup Pools /\ capped \in BOOLEAN
    /\ pc \in Running \cup {"idle", "failed", "complete", "handed"}
    /\ single \in BOOLEAN /\ step \in Steps \cup {0} /\ detach \in BOOLEAN
    /\ threads \in Nat /\ (pc \in Running \ {"limits", "check", "prepare"} => threads \in Pools)
    /\ prev \in 0..MaxTput /\ last_pass \in {None} \cup Pools
    /\ rows \in Seq(Row)
    /\ prepared \in BOOLEAN /\ restarted \in BOOLEAN /\ sweeps \in 0..MaxSweeps

Init ==
    /\ file = Stock /\ backup = Damaged /\ dropin = "absent" /\ jvm = Stock /\ capped = FALSE
    /\ pc = "idle" /\ single = FALSE /\ step = 0 /\ detach = FALSE
    /\ threads = Start /\ prev = None /\ last_pass = None
    /\ rows = <<>> /\ prepared = FALSE /\ restarted = FALSE /\ sweeps = 0

Goto(label) == pc' = label

\* while threads <= a.cap
WithinCap(n) == n <= Cap

-----------------------------------------------------------------------------
(* The Core, apart from what the programs ask of it. *)

\* It comes up with what is on its disk.
CoreReboots ==
    /\ jvm' = file /\ capped' = (dropin # "absent")
    /\ dropin' = IF dropin = "absent" THEN "absent" ELSE "loaded"
    /\ UNCHANGED <<config, pc, arguments, ladder, rows, history>>

-----------------------------------------------------------------------------
(* Before the first rung. *)

BeginSweep ==
    /\ \E s \in Steps, d \in BOOLEAN : step' = s /\ detach' = d
    /\ single' = FALSE /\ threads' = Start
    /\ Goto("limits")

BeginSingle ==
    /\ single' = TRUE /\ step' = 0 /\ detach' = FALSE
    /\ threads' \in Pools
    /\ Goto("backup")

Begin ==
    /\ pc \notin Running /\ sweeps < MaxSweeps /\ sweeps' = sweeps + 1
    /\ BeginSweep \/ BeginSingle
    /\ prev' = None /\ last_pass' = None /\ rows' = <<>>
    /\ prepared' = FALSE /\ restarted' = FALSE
    /\ UNCHANGED lab

\* read_limits raises on a line that is not key=value.
ReadLimits ==
    /\ pc = "limits"
    /\ pc' \in {"check", "failed"}
    /\ UNCHANGED <<lab, arguments, ladder, rows, history>>

\* The injected latency and the size of the fleet are asserted once, before the
\* sweep has changed anything.
Check ==
    /\ pc = "check"
    /\ pc' \in {"prepare", "failed"}
    /\ UNCHANGED <<lab, arguments, ladder, rows, history>>

\* prepare_jvm.  The drop-in that is there is taken to be loaded, and the status
\* of the script is not read; the scp before it is checked.
Prepare ==
    /\ pc = "prepare"
    /\ \/ /\ dropin' \in IF dropin = "absent" THEN {"absent", "written", "loaded"} ELSE {dropin}
          /\ prepared' = (dropin' = "loaded")
          /\ Goto(IF WithinCap(Start) THEN "backup" ELSE "complete")
       \/ Goto("failed") /\ UNCHANGED <<dropin, prepared>>
    /\ UNCHANGED <<config, opennms, arguments, ladder, rows, restarted, sweeps>>

-----------------------------------------------------------------------------
(* set_threads.  What the script prints is asserted to be the new size, so     *)
(* whatever keeps it from printing ends the run.                               *)

\* shutil.copy, then the regex, which may not find the root element in a
\* damaged file.
Backup ==
    /\ pc = "backup"
    /\ \/ backup' = file /\ Goto("write")
       \/ file = Damaged /\ backup' = file /\ Goto("failed")
       \/ UNCHANGED backup /\ Goto("failed")          \* scp or ssh failed
    /\ UNCHANGED <<file, dropin, opennms, arguments, ladder, rows, history>>

\* Mutant: the copy is made of the new file.
WriteThenBackup ==
    /\ pc = "write"
    /\ \/ file' = (IF file = Damaged THEN Damaged ELSE threads) /\ backup' = file' /\ Goto("lint")
       \/ file' = Damaged /\ backup' = file' /\ Goto("failed")
    /\ UNCHANGED <<dropin, opennms, arguments, ladder, rows, history>>

\* Mutant: the file is not written.
WriteUnchanged ==
    /\ pc = "write"
    /\ Goto("lint")
    /\ UNCHANGED <<lab, arguments, ladder, rows, history>>

\* open(p, 'w') empties the file; an error then, a full disk, ends the script.
WriteFile ==
    /\ pc = "write"
    /\ \/ file' = (IF file = Damaged THEN Damaged ELSE threads) /\ Goto("lint")
       \/ file' = Damaged /\ Goto("failed")
    /\ UNCHANGED <<backup, dropin, opennms, arguments, ladder, rows, history>>

\* Mutant: a restored file is edited again.
LintRetries ==
    /\ pc = "lint"
    /\ IF file = Damaged
         THEN file' = backup /\ Goto("backup")
         ELSE UNCHANGED file /\ pc' \in {"restart", "failed"}
    /\ UNCHANGED <<backup, dropin, opennms, arguments, ladder, rows, history>>

\* xmllint; the answer may be lost on its way back.
Lint ==
    /\ pc = "lint"
    /\ IF file = Damaged
         THEN file' = backup /\ Goto("failed")
         ELSE UNCHANGED file /\ pc' \in {"restart", "failed"}
    /\ UNCHANGED <<backup, dropin, opennms, arguments, ladder, rows, history>>

-----------------------------------------------------------------------------
(* restart_and_wait and wait_steady. *)

\* systemctl restart reads the drop-ins that systemd has loaded and the file as
\* it is.  Its status is dropped: when ssh could not do it, the OpenNMS that
\* answers login.jsp is the one from before.
Restart ==
    /\ pc = "restart"
    /\ \/ /\ jvm' = file /\ capped' = (dropin = "loaded") /\ restarted' = TRUE
          /\ pc' \in {"steady", "failed"}
       \/ /\ UNCHANGED opennms /\ restarted' = FALSE
          /\ pc' \in IF jvm = Down THEN {"failed"} ELSE {"steady", "failed"}
    /\ UNCHANGED <<config, dropin, arguments, ladder, rows, prepared, sweeps>>

\* A cycle, at most 40 readings of the queue, and a settle: it goes on whether
\* or not the queue was seen at zero, unless a reading raises.
WaitSteady ==
    /\ pc = "steady"
    /\ pc' \in {"failed", IF single THEN "handed" ELSE "measure"}
    /\ UNCHANGED <<lab, arguments, ladder, rows, history>>

-----------------------------------------------------------------------------
(* measure and the rest of the loop of __main__. *)

\* gain_vs_prev below MIN_GAIN; a first rung, or one after a throughput of
\* zero, has no gain.
LowGain(before, tput) == before # 0 /\ 5 * tput < 6 * before

NextRung(n) == IF step # 0 THEN n + step ELSE 2 * n

\* One constraint of the host, a low gain or, with --detach instead of the gain,
\* a peak below the pool.
Stopped(limit, low_gain, absorbed) == limit \/ (IF detach THEN absorbed ELSE low_gain)

\* Mutant: the first completing pool is kept, not the last.
PassesFirst(row) == IF row.PASS /\ last_pass = None THEN row.threads ELSE last_pass

Passes(row) == IF row.PASS THEN row.threads ELSE last_pass

\* Mutant: a pool that stops completing does not end the climb.
GoesOnAfterRegression(row) == ~row.stopped

GoesOn(row) ==
    /\ ~row.stopped
    /\ Passes(row) # None => row.PASS

\* The row of a window: pool, throughput, PASS and whether a stop signal fired.
WindowRow(tput, pass, limit, absorbed) ==
    [threads |-> threads, ran |-> jvm, restarted |-> restarted, capped |-> capped,
     tput |-> tput, PASS |-> pass,
     stopped |-> Stopped(limit, LowGain(prev, tput), absorbed)]

\* What the loop makes of a row: the next rung, or the end.
Continue(row) ==
    /\ last_pass' = Passes(row)
    /\ IF GoesOn(row)
         THEN /\ prev' = row.tput /\ threads' = NextRung(threads)
              /\ Goto(IF WithinCap(NextRung(threads)) THEN "backup" ELSE "complete")
         ELSE UNCHANGED <<prev, threads>> /\ Goto("complete")

\* The row is appended, and the line logged after it may raise.
Record(row) ==
    /\ rows' = Append(rows, row)
    /\ (Goto("failed") /\ UNCHANGED ladder) \/ Continue(row)

\* The window's series may be missing: of the completed collections, and the row
\* cannot be made; of the services or the active threads, and the line logged
\* after the row was appended raises.
Measure ==
    /\ pc = "measure"
    /\ \/ Goto("failed") /\ UNCHANGED <<rows, ladder>>
       \/ \E tput \in 0..MaxTput, pass, limit, absorbed \in BOOLEAN :
            Record(WindowRow(tput, pass, limit, absorbed))
    /\ UNCHANGED <<lab, arguments, history>>

-----------------------------------------------------------------------------

\* The operator, ssh or the workstation ends the program between two calls.
Killed ==
    /\ pc \in Running
    /\ Goto("failed")
    /\ UNCHANGED <<lab, arguments, ladder, rows, history>>

Rung == Backup \/ WriteFile \/ Lint \/ Restart \/ WaitSteady \/ Measure
Run == ReadLimits \/ Check \/ Prepare \/ Rung
Next == Begin \/ Run \/ Killed \/ CoreReboots

Spec == Init /\ [][Next]_vars

\* Each wait of the program has a limit, so it goes on.
FairSpec == Spec /\ WF_vars(Run)

-----------------------------------------------------------------------------
(* What the sweep must not do to the lab. *)

\* Whatever breaks the file, the backup beside it is the file as it was ("a backup
\* first").
DamageLeavesBackup == [][file # Damaged /\ file' = Damaged => backup' = file]_vars

(* What a row may be read for. *)

\* A row labelled with a pool size was measured under it, if the restart was
\* carried out at all, reboots of the Core included, and with the arenas capped if
\* prepare_jvm did that; so is the window that is handed to knee_search.
RowsOfTheRunningPool ==
    /\ \A i \in DOMAIN rows : rows[i].restarted =>
         rows[i].ran = rows[i].threads /\ (prepared => rows[i].capped)
    /\ pc = "handed" /\ restarted => jvm = threads

\* "The largest completing pool": it is the largest pool that any row passed
\* with, no rung was tried after a stop signal or after a pool that stopped
\* completing, and pools rise from row to row.
CeilingIsTheLadders ==
    /\ pc = "complete" =>
         /\ \A i \in DOMAIN rows : rows[i].PASS => rows[i].threads <= last_pass
         /\ last_pass # None => \E i \in DOMAIN rows : rows[i].PASS /\ rows[i].threads = last_pass
    /\ \A i, j \in DOMAIN rows : i < j =>
         /\ rows[i].threads < rows[j].threads
         /\ ~rows[i].stopped
         /\ rows[i].PASS /\ j < Len(rows) => rows[j].PASS

\* A sweep ends, and so does a single rung.
SweepEnds == pc \in Running ~> pc \notin Running
=============================================================================
