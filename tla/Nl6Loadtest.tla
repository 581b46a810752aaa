----------------------------- MODULE Nl6Loadtest -----------------------------
(***************************************************************************)
(* nl6_loadtest.py: several operators, experiments or cells drive the same *)
(* nl6.  A run submits a scenario, arms it, starts it, sleeps through the  *)
(* window, stops it and fetches the report; a failure inside the protected *)
(* part discards the scenario.  A call ends with an accepted reply, with a *)
(* refusal, or without a reply; nl6 may still carry out a call its caller  *)
(* gave up on, at any later time.                                          *)
(***************************************************************************)
EXTENDS Nl6, FiniteSets

CONSTANTS
    Drivers,    \* the places nl6-loadtest is run from, one run at a time each
    Profiled,   \* the drivers that pass --rate-profile
    PerDevice,  \* rate * window: the records a constant profile asks of a device
    MaxLate     \* bound: the calls given up on that nl6 may still carry out

ASSUME ProfiledAssumption == Profiled \subseteq Drivers
ASSUME PerDeviceAssumption == PerDevice \in Nat
ASSUME MaxLateAssumption == MaxLate \in Nat

VARIABLES
    pc,       \* where run_scenario, discard_scenario or main is
    sid,      \* the scenario of the current run
    stopped,  \* discard_scenario: its stop call was accepted
    report,   \* the summary the last report call returned
    rc,       \* the exit status of the last run
    sidecar,  \* the scenario whose ledger the driver's JSON file holds
    late,     \* calls given up on that nl6 has neither carried out nor dropped
    fate      \* history: how the run that owns a scenario let go of it

vars == <<phase, participants_armed, ledger, pc, sid, stopped, report, rc, sidecar, late, fate>>
runvars == <<pc, sid, stopped, report, rc, sidecar>>

Steps == {"submit", "arm", "start", "wait", "stop", "report", "write", "exit",
          "discardStop", "discardDelete"}
Fates == {"none", "owned", "complete", "discarded", "warned", "killed", "unclaimed"}
Calls == [op : {"arm", "start", "stop", "delete", "report"}, s : Scenarios]
           \cup {[op |-> "submit", s |-> NoScenario]}

TypeOK ==
    /\ Nl6TypeOK
    /\ pc \in [Drivers -> Steps \cup {"idle", "exited"}]
    /\ sid \in [Drivers -> Scenarios \cup {NoScenario}]
    /\ stopped \in [Drivers -> BOOLEAN]
    /\ report \in [Drivers -> Ledgers \cup {EmptyLedger}]
    /\ rc \in [Drivers -> {"none", "0", "1", "2", "killed"}]
    /\ sidecar \in [Drivers -> Scenarios \cup {NoScenario}]
    /\ late \in SUBSET Calls
    /\ fate \in [Scenarios -> Fates]

Init ==
    /\ Nl6Init
    /\ pc = [d \in Drivers |-> "idle"]
    /\ sid = [d \in Drivers |-> NoScenario]
    /\ stopped = [d \in Drivers |-> FALSE]
    /\ report = [d \in Drivers |-> EmptyLedger]
    /\ rc = [d \in Drivers |-> "none"]
    /\ sidecar = [d \in Drivers |-> NoScenario]
    /\ late = {}
    /\ fate = [s \in Scenarios |-> "none"]

-----------------------------------------------------------------------------
(* api(): one call of driver d, ending in one of three ways. *)

Accepted(op, s) == Serve(op, s) /\ UNCHANGED late

GivenUp(op, s) ==
    /\ Cardinality(late) < MaxLate
    /\ late' = late \cup {[op |-> op, s |-> s]}
    /\ UNCHANGED nl6vars

Failed(op, s) ==
    \/ Refuses(op, s) /\ UNCHANGED <<phase, participants_armed, ledger, late>>
    \/ GivenUp(op, s)

Goto(d, step) == pc' = [pc EXCEPT ![d] = step]

Exit(d, code) ==
    /\ Goto(d, "exited")
    /\ rc' = [rc EXCEPT ![d] = code]

-----------------------------------------------------------------------------
(* main(): a run begins with parse_args, and may end there. *)

Begin(d) ==
    /\ pc[d] \in {"idle", "exited"}
    /\ Goto(d, "submit")
    /\ sid' = [sid EXCEPT ![d] = NoScenario]
    /\ rc' = [rc EXCEPT ![d] = "none"]
    /\ stopped' = [stopped EXCEPT ![d] = FALSE]
    /\ report' = [report EXCEPT ![d] = EmptyLedger]
    /\ UNCHANGED <<phase, participants_armed, ledger, sidecar, late, fate>>

\* parser.error exits 2; a device range outside the simulated network, 1.
BadArguments(d) ==
    /\ pc[d] = "submit"
    /\ \E code \in {"1", "2"} : Exit(d, code)
    /\ UNCHANGED <<phase, participants_armed, ledger, sid, stopped, report, sidecar, late, fate>>

(* run_scenario() *)

Submit(d) ==
    /\ pc[d] = "submit"
    /\ \E s \in Scenarios :
         /\ ServeSubmit(s)
         /\ sid' = [sid EXCEPT ![d] = s]
         /\ fate' = [fate EXCEPT ![s] = "owned"]
    /\ Goto(d, "arm")
    /\ UNCHANGED <<stopped, report, rc, sidecar, late>>

\* Refused (409: another scenario is active), or no reply.  The call stands
\* before the try block: nothing is cleaned up.
SubmitFails(d) ==
    /\ pc[d] = "submit"
    /\ \/ ~NoneActive /\ UNCHANGED <<phase, participants_armed, ledger, late>>
       \/ GivenUp("submit", NoScenario)
    /\ Exit(d, "1")
    /\ UNCHANGED <<sid, stopped, report, sidecar, fate>>

\* No device armed is an error of its own, raised inside the try block.
Arm(d) ==
    /\ pc[d] = "arm"
    /\ Accepted("arm", sid[d])
    /\ Goto(d, IF participants_armed'[sid[d]] = 0 THEN "discardStop" ELSE "start")
    /\ UNCHANGED <<sid, stopped, report, rc, sidecar, fate>>

\* Mutant: a failed start call is not noticed.
StartUnchecked(d) ==
    /\ pc[d] = "start"
    /\ Accepted("start", sid[d]) \/ Failed("start", sid[d])
    /\ Goto(d, "wait")
    /\ UNCHANGED <<sid, stopped, report, rc, sidecar, fate>>

Start(d) ==
    /\ pc[d] = "start"
    /\ Accepted("start", sid[d])
    /\ Goto(d, "wait")
    /\ UNCHANGED <<sid, stopped, report, rc, sidecar, fate>>

Sleep(d) ==
    /\ pc[d] = "wait"
    /\ Goto(d, "stop")
    /\ UNCHANGED <<phase, participants_armed, ledger, sid, stopped, report, rc, sidecar, late, fate>>

Stop(d) ==
    /\ pc[d] = "stop"
    /\ Accepted("stop", sid[d])
    /\ Goto(d, "report")
    /\ fate' = [fate EXCEPT ![sid[d]] = "complete"]
    /\ UNCHANGED <<sid, stopped, report, rc, sidecar>>

\* Mutant: except Exception, which neither SystemExit nor an interrupt is.
TryFailsUncaught(d) ==
    /\ \/ pc[d] \in {"arm", "start", "stop"} /\ Failed(pc[d], sid[d])
       \/ pc[d] = "wait" /\ UNCHANGED <<phase, participants_armed, ledger, late>>
    /\ Exit(d, "1")
    /\ UNCHANGED <<sid, stopped, report, sidecar, fate>>

\* except BaseException: any failed call of the try block, or an interrupt
\* while it sleeps, goes to discard_scenario.
TryFails(d) ==
    /\ \/ pc[d] \in {"arm", "start", "stop"} /\ Failed(pc[d], sid[d])
       \/ pc[d] = "wait" /\ UNCHANGED <<phase, participants_armed, ledger, late>>
    /\ Goto(d, "discardStop")
    /\ UNCHANGED <<sid, stopped, report, rc, sidecar, fate>>

\* Outside the try block: a failed fetch leaves the scenario as it is.
FetchReport(d) ==
    /\ pc[d] = "report"
    /\ Accepted("report", sid[d])
    /\ report' = [report EXCEPT ![d] = ledger[sid[d]]]
    /\ Goto(d, "write")
    /\ UNCHANGED <<sid, stopped, rc, sidecar, fate>>

\* Mutant: the report is fetched inside the try block.
FetchFailsInTry(d) ==
    /\ pc[d] = "report"
    /\ Failed("report", sid[d])
    /\ Goto(d, "discardStop")
    /\ UNCHANGED <<sid, stopped, report, rc, sidecar, fate>>

\* Mutant: a report that cannot be fetched is not an error.
FetchFailsQuietly(d) ==
    /\ pc[d] = "report"
    /\ Failed("report", sid[d])
    /\ Exit(d, "0")
    /\ UNCHANGED <<sid, stopped, report, sidecar, fate>>

FetchFails(d) ==
    /\ pc[d] = "report"
    /\ Failed("report", sid[d])
    /\ Exit(d, "1")
    /\ UNCHANGED <<sid, stopped, report, sidecar, fate>>

(* discard_scenario(): each call may fail, and both are always made. *)

DiscardStop(d) ==
    /\ pc[d] = "discardStop"
    /\ \/ Accepted("stop", sid[d]) /\ stopped' = [stopped EXCEPT ![d] = TRUE]
       \/ Failed("stop", sid[d]) /\ UNCHANGED stopped
    /\ Goto(d, "discardDelete")
    /\ UNCHANGED <<sid, report, rc, sidecar, fate>>

\* Mutant: the message does not depend on what was accepted.
ToldAnyway(accepted) == "discarded"

\* What the operator is told: "discarded" when either call was accepted.
Told(accepted) == IF accepted THEN "discarded" ELSE "warned"

DiscardDelete(d) ==
    /\ pc[d] = "discardDelete"
    /\ \/ /\ Accepted("delete", sid[d])
          /\ fate' = [fate EXCEPT ![sid[d]] = Told(TRUE)]
       \/ /\ Failed("delete", sid[d])
          /\ fate' = [fate EXCEPT ![sid[d]] = Told(stopped[d])]
    /\ Exit(d, "1")
    /\ UNCHANGED <<sid, stopped, report, sidecar>>

(* main() again: the sidecar, then the exit status. *)

LedgerSum(l) ==
    l["in_window"] + l["drain"] + l["send_failures"] + l["dropped"] + l["suppressed_pre_window"]

\* check_ledger
Holds(l) == LedgerSum(l) = l["emitted"]

Sent(l) == l["in_window"] + l["drain"]

\* The load that was asked of the armed devices was not sent in full.
FellShort(d, l) ==
    \/ l["send_failures"] > 0
    \/ l["dropped"] > 0
    \/ d \notin Profiled /\ Sent(l) # PerDevice * participants_armed[sid[d]]

\* Mutant: the ledger identity is not verified.
ExitStatusTrusting(d, l) == IF FellShort(d, l) THEN "1" ELSE "0"

\* Mutant: a status callers have no meaning for.
ExitStatusThree(d, l) ==
    IF ~Holds(l) THEN "2" ELSE IF l["dropped"] > 0 THEN "3" ELSE "0"

ExitStatus(d, l) ==
    IF ~Holds(l) THEN "2" ELSE IF FellShort(d, l) THEN "1" ELSE "0"

WriteSidecar(d) ==
    /\ pc[d] = "write"
    /\ sidecar' = [sidecar EXCEPT ![d] = sid[d]]
    /\ Goto(d, "exit")
    /\ UNCHANGED <<phase, participants_armed, ledger, sid, stopped, report, rc, late, fate>>

Finish(d) ==
    /\ pc[d] = "exit"
    /\ Exit(d, ExitStatus(d, report[d]))
    /\ UNCHANGED <<phase, participants_armed, ledger, sid, stopped, report, sidecar, late, fate>>

-----------------------------------------------------------------------------
(* The environment. *)

\* The process goes without an exception: SIGKILL, or the session that ran it.
Kill(d) ==
    /\ pc[d] \in Steps
    /\ Exit(d, "killed")
    /\ fate' = [s \in Scenarios |->
                  IF s = sid[d] /\ fate[s] = "owned" THEN "killed" ELSE fate[s]]
    /\ UNCHANGED <<phase, participants_armed, ledger, sid, stopped, report, sidecar, late>>

\* A call its caller gave up on is carried out after all ...
LateServed ==
    /\ \E c \in late :
         /\ late' = late \ {c}
         /\ \/ Serve(c.op, c.s) /\ UNCHANGED fate
            \/ /\ c.op = "submit"
               /\ \E s \in Scenarios :
                    /\ ServeSubmit(s)
                    /\ fate' = [fate EXCEPT ![s] = "unclaimed"]
    /\ UNCHANGED runvars

\* ... or never is.
LateDropped ==
    /\ \E c \in late : late' = late \ {c}
    /\ UNCHANGED <<phase, participants_armed, ledger, pc, sid, stopped, report, rc, sidecar, fate>>

\* The operator follows the printed advice: curl -X DELETE .../<sid>.
OperatorClears(s) ==
    /\ fate[s] = "warned"
    /\ ServeDelete(s)
    /\ UNCHANGED <<pc, sid, stopped, report, rc, sidecar, late, fate>>

Nl6Step ==
    /\ \/ \E s \in Scenarios : AutoClose(s)
       \/ Restart
    /\ UNCHANGED <<pc, sid, stopped, report, rc, sidecar, late, fate>>

\* What the program itself does once it has begun.
Run(d) ==
    \/ BadArguments(d) \/ Submit(d) \/ SubmitFails(d) \/ Arm(d) \/ Start(d) \/ Sleep(d)
    \/ Stop(d) \/ TryFails(d) \/ FetchReport(d) \/ FetchFails(d) \/ DiscardStop(d)
    \/ DiscardDelete(d) \/ WriteSidecar(d) \/ Finish(d)

Next ==
    \/ \E d \in Drivers : Begin(d) \/ Run(d) \/ Kill(d)
    \/ LateServed
    \/ LateDropped
    \/ \E s \in Scenarios : OperatorClears(s)
    \/ Nl6Step

Spec == Init /\ [][Next]_vars

\* Every call has a timeout and the sleep is bounded, so a run that has begun
\* keeps going.  Nothing is assumed of nl6, of late calls or of operators.
FairSpec == Spec /\ \A d \in Drivers : WF_vars(Run(d))

-----------------------------------------------------------------------------
(* What the driver promises. *)

\* A run that ended with its stop accepted, or that told the operator it had
\* discarded its scenario "so the next run can start", has left nothing active
\* behind, whatever late calls nl6 carries out afterwards (discard_scenario).
ReleasedMeansFree ==
    \A s \in Scenarios : fate[s] \in {"complete", "discarded"} => phase[s] \notin Active

\* Once a run has seen its stop accepted, its ledger is final and only a
\* restart of nl6 can take it away: a report fetch that fails does not delete
\* it, and no late call of any driver does (run_scenario, after the try).
StoppedLedgerSurvives ==
    [][\A s \in Scenarios : fate[s] = "complete" =>
          \/ phase'[s] = "lost"
          \/ phase[s] \in Terminal /\ phase'[s] = phase[s] /\ ledger'[s] = ledger[s]]_vars

\* While a driver sleeps through its window its scenario runs, or has closed by
\* itself, or nl6 restarted: no other driver, operator or late call cuts it
\* short, which would be charged to the generator as a shortfall.
WindowUndisturbed ==
    \A d \in Drivers : pc[d] = "wait" => phase[sid[d]] \in {"running", "closed", "lost"}

\* Exit status 0 is a statement about the ledger in the sidecar: it is this
\* run's, everything nl6 emitted was sent or suppressed before the window, and
\* a constant profile was sent in full to every armed device.
ExitZeroMeansDelivered ==
    \A d \in Drivers : rc[d] = "0" =>
        /\ sidecar[d] = sid[d] /\ sid[d] # NoScenario
        /\ report[d]["emitted"] = Sent(report[d]) + report[d]["suppressed_pre_window"]
        /\ d \notin Profiled => Sent(report[d]) = PerDevice * participants_armed[sid[d]]

\* nl6 does not stay blocked in silence: an active scenario stops being active,
\* or its operator was told it could not be discarded, or its driver died or
\* never learned that its submission was accepted.
LabFreesUp ==
    \A s \in Scenarios :
        phase[s] \in Active ~>
            (phase[s] \notin Active \/ fate[s] \in {"warned", "killed", "unclaimed"})

\* The caller's view of driver d: Begin, one sidecar at most, an exit status.
Observed(d) ==
    INSTANCE LoadtestRun WITH
        status <- CASE pc[d] = "idle" -> "idle" [] pc[d] = "exited" -> "done" [] OTHER -> "running",
        rc <- rc[d],
        fresh <- sid[d] # NoScenario /\ sidecar[d] = sid[d]

\* Every driver's runs are runs of LoadtestRun: no exit 0 without a sidecar of
\* this very run, no sidecar after the exit.
RunsAsObserved ==
    /\ \A d \in Drivers : Observed(d)!Init
    /\ [][\A d \in Drivers : [Observed(d)!Next]_(Observed(d)!vars)]_vars
=============================================================================
