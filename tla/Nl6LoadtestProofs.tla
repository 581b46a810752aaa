-------------------------- MODULE Nl6LoadtestProofs --------------------------
(***************************************************************************)
(* Nl6Loadtest, for any number of drivers and scenarios, any ledgers and   *)
(* any number of late calls: type correctness, what a run that let go of   *)
(* its scenario leaves behind (IInv), whose calls may fall into a window   *)
(* (WInv), what exit 0 says (ZInv), and that every driver implements       *)
(* LoadtestRun (WrittenAtEnd).                                             *)
(***************************************************************************)
EXTENDS Nl6Loadtest, TLAPS

Protected == {"arm", "start", "wait", "stop", "discardStop", "discardDelete"}
Settled == {"report", "write", "exit"}

\* A run inside the try block owns its scenario; after it, the scenario is
\* complete.
OwnerKnown ==
    \A d \in Drivers :
        /\ pc[d] = "submit" => sid[d] = NoScenario
        /\ pc[d] \in Protected => sid[d] \in Scenarios /\ fate[sid[d]] = "owned"
        /\ pc[d] \in Settled => sid[d] \in Scenarios /\ fate[sid[d]] = "complete"

\* No two runs hold the same scenario.
OwnerUnique ==
    \A d, e \in Drivers :
        pc[d] \in Protected \cup Settled /\ pc[e] \in Protected \cup Settled /\ sid[d] = sid[e]
            => d = e

\* Only a scenario nl6 has not handed out has no history.
FateKnown == \A s \in Scenarios : fate[s] = "none" <=> phase[s] = "absent"

\* discard_scenario remembers a stop call only after nl6 accepted it.
StopRemembered ==
    \A d \in Drivers :
        /\ pc[d] \in Steps \ {"discardDelete"} => stopped[d] = FALSE
        /\ pc[d] = "discardDelete" /\ stopped[d] => phase[sid[d]] \notin Active

CompleteIsTerminal ==
    \A s \in Scenarios : fate[s] = "complete" => phase[s] \in Terminal \cup {"lost"}

\* A DELETE nl6 may still carry out belongs to a discarded scenario.
LateDeletes ==
    \A c \in late : c.op = "delete" => fate[c.s] \in {"discarded", "warned"}

IInv ==
    /\ TypeOK
    /\ OwnerKnown
    /\ OwnerUnique
    /\ FateKnown
    /\ StopRemembered
    /\ ReleasedMeansFree
    /\ CompleteIsTerminal
    /\ LateDeletes

-----------------------------------------------------------------------------
(* What a step of nl6 may do to the scenarios. *)

\* No scenario is handed out, none becomes active again, and a final ledger
\* goes only with a restart or a DELETE on a member of D.
Calm(D) ==
    \A s \in Scenarios :
        /\ phase'[s] = "absent" <=> phase[s] = "absent"
        /\ phase[s] \notin Active => phase'[s] \notin Active
        /\ phase[s] \in Terminal \cup {"lost"} /\ s \notin D =>
              phase'[s] = "lost" \/ (phase'[s] = phase[s] /\ ledger'[s] = ledger[s])

CallOps == {"arm", "start", "stop", "delete", "report"}

\* An accepted call keeps nl6 well typed and Calm, and only "delete" is unsafe
\* for the ledger of the scenario it names.
LEMMA ServeStep ==
  ASSUME Nl6TypeOK, NEW s \in Scenarios, NEW op \in CallOps, Serve(op, s)
  PROVE  /\ Nl6TypeOK'
         /\ Calm(IF op = "delete" THEN {s} ELSE {})
         /\ op \in {"stop", "delete"} => phase'[s] \notin Active
  <1>1. CASE op = "arm" /\ ServeArm(s)
    BY <1>1 DEF ServeArm, Nl6TypeOK, Calm, Phases, Active, Terminal
  <1>2. CASE op = "start" /\ ServeStart(s)
    BY <1>2 DEF ServeStart, Nl6TypeOK, Calm, Phases, Active, Terminal
  <1>3. CASE op = "stop" /\ ServeStop(s)
    <2>1. CASE phase[s] \in Active
      BY <1>3, <2>1 DEF ServeStop, Nl6TypeOK, Calm, Phases, Active, Terminal
    <2>2. CASE phase[s] \notin Active
      BY <1>3, <2>2 DEF ServeStop, Nl6TypeOK, Calm, Phases, Active, Terminal
    <2> QED BY <2>1, <2>2
  <1>4. CASE op = "delete" /\ ServeDelete(s)
    BY <1>4 DEF ServeDelete, Nl6TypeOK, Calm, Phases, Active, Terminal
  <1>5. CASE op = "report" /\ ServeReport(s)
    BY <1>5 DEF ServeReport, nl6vars, Nl6TypeOK, Calm, Phases, Active, Terminal
  <1> QED BY <1>1, <1>2, <1>3, <1>4, <1>5 DEF Serve

\* So does a call that is refused or given up on, which changes no scenario.
LEMMA FailedStep ==
  ASSUME TypeOK, NEW s \in Scenarios, NEW op \in CallOps, Failed(op, s)
  PROVE  /\ Nl6TypeOK' /\ Calm({}) /\ phase' = phase
         /\ late' = late \/ late' = late \cup {[op |-> op, s |-> s]}
         /\ late' \in SUBSET Calls
  <1>1. UNCHANGED nl6vars
    BY DEF Failed, GivenUp, nl6vars
  <1>2. late' = late \/ late' = late \cup {[op |-> op, s |-> s]}
    BY DEF Failed, GivenUp
  <1>3. Nl6TypeOK' /\ Calm({}) /\ phase' = phase
    BY <1>1 DEF TypeOK, Nl6TypeOK, nl6vars, Calm
  <1>4. [op |-> op, s |-> s] \in Calls
    BY DEF Calls, CallOps
  <1> QED BY <1>2, <1>3, <1>4 DEF TypeOK

-----------------------------------------------------------------------------
(* The invariant. *)

\* The initial state satisfies it.
LEMMA InitInv == Init => IInv
  <1> SUFFICES ASSUME Init PROVE IInv
    OBVIOUS
  <1>1. TypeOK
    BY DevicesAssumption
    DEF Init, Nl6Init, TypeOK, Nl6TypeOK, Phases, Fates, Steps, NoScenario
  <1>2. OwnerKnown /\ OwnerUnique /\ StopRemembered /\ LateDeletes
    BY DEF Init, OwnerKnown, OwnerUnique, StopRemembered, LateDeletes, Protected, Settled, Steps
  <1>3. FateKnown /\ ReleasedMeansFree /\ CompleteIsTerminal
    BY DEF Init, Nl6Init, FateKnown, ReleasedMeansFree, CompleteIsTerminal, Active
  <1> QED BY <1>1, <1>2, <1>3 DEF IInv

\* The steps of a run that leave nl6 and the fates as they are.
LEMMA LocalStep ==
  ASSUME IInv, NEW d \in Drivers,
         Begin(d) \/ BadArguments(d) \/ Sleep(d) \/ WriteSidecar(d) \/ Finish(d)
  PROVE  IInv'
  <1> USE DEF IInv
  <1>1. UNCHANGED <<phase, participants_armed, ledger, late, fate>>
    BY DEF Begin, BadArguments, Sleep, WriteSidecar, Finish
  <1>2. TypeOK'
    BY <1>1 DEF Begin, BadArguments, Sleep, WriteSidecar, Finish, Exit, Goto, TypeOK, Nl6TypeOK,
           Steps, NoScenario, ExitStatus
  <1>3. OwnerKnown' /\ OwnerUnique' /\ StopRemembered'
    BY <1>1 DEF Begin, BadArguments, Sleep, WriteSidecar, Finish, Exit, Goto, TypeOK,
           OwnerKnown, OwnerUnique, StopRemembered, Steps, Protected, Settled, NoScenario
  <1>4. FateKnown' /\ ReleasedMeansFree' /\ CompleteIsTerminal' /\ LateDeletes'
    BY <1>1 DEF FateKnown, ReleasedMeansFree, CompleteIsTerminal, LateDeletes
  <1> QED BY <1>2, <1>3, <1>4

\* A submission hands a scenario without history to the run.
LEMMA SubmitStep ==
  ASSUME IInv, NEW d \in Drivers, Submit(d)
  PROVE  IInv'
  <1> USE DEF IInv
  <1>1. PICK s \in Scenarios : /\ ServeSubmit(s)
                              /\ sid' = [sid EXCEPT ![d] = s]
                              /\ fate' = [fate EXCEPT ![s] = "owned"]
    BY DEF Submit
  <1>2. fate[s] = "none"
    BY <1>1 DEF ServeSubmit, FateKnown
  <1>3. TypeOK'
    BY <1>1 DEF Submit, ServeSubmit, Goto, TypeOK, Nl6TypeOK, Phases, Fates, Steps
  <1>4. OwnerKnown' /\ OwnerUnique'
    BY <1>1, <1>2 DEF Submit, Goto, TypeOK, OwnerKnown, OwnerUnique, Protected, Settled
  <1>5. StopRemembered'
    BY <1>1, <1>2 DEF Submit, ServeSubmit, Goto, TypeOK, Nl6TypeOK, OwnerKnown,
           StopRemembered, Steps, Protected, Active
  <1>6. FateKnown' /\ ReleasedMeansFree' /\ CompleteIsTerminal'
    BY <1>1 DEF ServeSubmit, TypeOK, Nl6TypeOK, FateKnown, ReleasedMeansFree, CompleteIsTerminal
  <1>7. LateDeletes'
    BY <1>1, <1>2 DEF Submit, TypeOK, LateDeletes
  <1> QED BY <1>3, <1>4, <1>5, <1>6, <1>7

\* The calls of the try block: the fates stay, the owner is not in cleanup yet.
LEMMA TryStep ==
  ASSUME IInv, NEW d \in Drivers, Arm(d) \/ Start(d) \/ TryFails(d)
  PROVE  IInv'
  <1> USE DEF IInv
  <1>1. pc[d] \in {"arm", "start", "wait", "stop"} /\ sid[d] \in Scenarios
    BY DEF Arm, Start, TryFails, OwnerKnown, Protected
  <1>2. Nl6TypeOK' /\ Calm({})
    <2>1. CASE Arm(d)
      BY <1>1, <2>1, ServeStep DEF Arm, Accepted, CallOps, TypeOK
    <2>2. CASE Start(d)
      BY <1>1, <2>2, ServeStep DEF Start, Accepted, CallOps, TypeOK
    <2>3. CASE TryFails(d) /\ pc[d] = "wait"
      BY <2>3 DEF TryFails, TypeOK, Nl6TypeOK, Calm
    <2>4. CASE TryFails(d) /\ pc[d] # "wait"
      BY <1>1, <2>4, FailedStep DEF TryFails, CallOps
    <2> QED BY <2>1, <2>2, <2>3, <2>4
  <1>3. /\ late' \in SUBSET Calls
        /\ \A c \in late' : c.op = "delete" => c \in late
    <2>1. CASE Arm(d) \/ Start(d)
      BY <2>1 DEF Arm, Start, Accepted, TypeOK
    <2>2. CASE TryFails(d) /\ pc[d] = "wait"
      BY <2>2 DEF TryFails, TypeOK
    <2>3. CASE TryFails(d) /\ pc[d] # "wait"
      BY <1>1, <2>3, FailedStep DEF TryFails, CallOps
    <2> QED BY <2>1, <2>2, <2>3
  <1>4. /\ pc' = [pc EXCEPT ![d] = pc'[d]]
        /\ pc'[d] \in {"start", "wait", "discardStop"}
        /\ UNCHANGED <<sid, stopped, report, rc, sidecar, fate>>
    BY DEF Arm, Start, TryFails, Goto, TypeOK
  <1>5. TypeOK'
    BY <1>2, <1>3, <1>4 DEF TypeOK, Steps
  <1>6. OwnerKnown' /\ OwnerUnique'
    BY <1>1, <1>4 DEF TypeOK, OwnerKnown, OwnerUnique, Protected, Settled
  <1>7. StopRemembered'
    BY <1>1, <1>2, <1>4 DEF TypeOK, OwnerKnown, StopRemembered, Protected, Steps, Calm
  <1>8. FateKnown' /\ ReleasedMeansFree' /\ CompleteIsTerminal'
    BY <1>2, <1>4 DEF Calm, FateKnown, ReleasedMeansFree, CompleteIsTerminal
  <1>9. LateDeletes'
    BY <1>3, <1>4 DEF LateDeletes
  <1> QED BY <1>5, <1>6, <1>7, <1>8, <1>9

\* The accepted stop call of a run, which completes its scenario.
LEMMA StopStep ==
  ASSUME IInv, NEW d \in Drivers, Stop(d)
  PROVE  IInv'
  <1> USE DEF IInv
  <1>1. pc[d] = "stop" /\ sid[d] \in Scenarios /\ fate[sid[d]] = "owned"
    BY DEF Stop, OwnerKnown, Protected
  <1>2. Nl6TypeOK' /\ Calm({}) /\ phase'[sid[d]] \in Terminal
    <2>1. ServeStop(sid[d])
      BY DEF Stop, Accepted, Serve
    <2>2. phase'[sid[d]] \in Terminal
      BY <1>1, <2>1 DEF ServeStop, TypeOK, Nl6TypeOK, Terminal
    <2>3. Nl6TypeOK' /\ Calm({})
      BY <1>1, ServeStep DEF Stop, Accepted, CallOps, TypeOK
    <2> QED BY <2>2, <2>3
  <1>3. TypeOK'
    BY <1>2 DEF Stop, Accepted, Goto, TypeOK, Steps, Fates
  <1>4. OwnerKnown' /\ OwnerUnique'
    BY <1>1 DEF Stop, Goto, TypeOK, OwnerKnown, OwnerUnique, Protected, Settled
  <1>5. StopRemembered'
    BY <1>1, <1>2 DEF Stop, Goto, TypeOK, OwnerKnown, StopRemembered, Protected, Steps, Calm
  <1>6. FateKnown' /\ ReleasedMeansFree' /\ CompleteIsTerminal'
    BY <1>1, <1>2 DEF Stop, TypeOK, Calm, FateKnown, ReleasedMeansFree, CompleteIsTerminal,
       Active, Terminal
  <1>7. LateDeletes'
    BY <1>1 DEF Stop, Accepted, TypeOK, LateDeletes
  <1> QED BY <1>3, <1>4, <1>5, <1>6, <1>7

\* The exits that leave the scenarios alone: a submission that failed, and the
\* report call, fetched or not.
LEMMA ReportStep ==
  ASSUME IInv, NEW d \in Drivers, SubmitFails(d) \/ FetchReport(d) \/ FetchFails(d)
  PROVE  IInv'
  <1> USE DEF IInv
  <1>1. /\ UNCHANGED <<phase, participants_armed, ledger, sid, stopped, sidecar, fate>>
        /\ pc' = [pc EXCEPT ![d] = pc'[d]]
        /\ \/ pc[d] = "submit" /\ pc'[d] = "exited"
           \/ pc[d] = "report" /\ pc'[d] \in {"write", "exited"}
    BY DEF SubmitFails, FetchReport, FetchFails, Failed, GivenUp, Accepted, Serve, ServeReport,
           nl6vars, Exit, Goto, TypeOK
  <1>2. pc[d] = "report" => sid[d] \in Scenarios
    BY DEF OwnerKnown, Settled
  <1>3. /\ late' \in SUBSET Calls
        /\ \A c \in late' : c.op = "delete" => c \in late
    <2>1. CASE SubmitFails(d)
      BY <2>1 DEF SubmitFails, GivenUp, TypeOK, Calls
    <2>2. CASE FetchReport(d)
      BY <2>2 DEF FetchReport, Accepted, TypeOK
    <2>3. CASE FetchFails(d)
      BY <1>2, <2>3, FailedStep DEF FetchFails, CallOps
    <2> QED BY <2>1, <2>2, <2>3
  <1>4. /\ rc' \in [Drivers -> {"none", "0", "1", "2", "killed"}]
        /\ report' \in [Drivers -> Ledgers \cup {EmptyLedger}]
    BY <1>2 DEF SubmitFails, FetchReport, FetchFails, Exit, TypeOK, Nl6TypeOK
  <1>5. TypeOK'
    BY <1>1, <1>3, <1>4 DEF TypeOK, Nl6TypeOK, Steps
  <1>6. OwnerKnown' /\ OwnerUnique' /\ StopRemembered'
    BY <1>1 DEF TypeOK, OwnerKnown, OwnerUnique, StopRemembered, Protected, Settled, Steps
  <1>7. FateKnown' /\ ReleasedMeansFree' /\ CompleteIsTerminal' /\ LateDeletes'
    BY <1>1, <1>3 DEF FateKnown, ReleasedMeansFree, CompleteIsTerminal, LateDeletes
  <1> QED BY <1>5, <1>6, <1>7

\* discard_scenario's stop call.
LEMMA DiscardStopStep ==
  ASSUME IInv, NEW d \in Drivers, DiscardStop(d)
  PROVE  IInv'
  <1> USE DEF IInv
  <1>1. pc[d] = "discardStop" /\ sid[d] \in Scenarios /\ stopped[d] = FALSE
    BY DEF DiscardStop, OwnerKnown, Protected, StopRemembered, Steps
  <1>2. /\ Nl6TypeOK' /\ Calm({})
        /\ stopped'[d] => phase'[sid[d]] \notin Active
        /\ late' \in SUBSET Calls
        /\ \A c \in late' : c.op = "delete" => c \in late
        /\ stopped' \in [Drivers -> BOOLEAN]
        /\ \A e \in Drivers \ {d} : stopped'[e] = stopped[e]
    <2>1. CASE Accepted("stop", sid[d]) /\ stopped' = [stopped EXCEPT ![d] = TRUE]
      BY <1>1, <2>1, ServeStep DEF Accepted, CallOps, TypeOK
    <2>2. CASE Failed("stop", sid[d]) /\ UNCHANGED stopped
      BY <1>1, <2>2, FailedStep DEF CallOps, TypeOK
    <2> QED BY <2>1, <2>2 DEF DiscardStop
  <1>3. pc' = [pc EXCEPT ![d] = "discardDelete"] /\ UNCHANGED <<sid, report, rc, sidecar, fate>>
    BY DEF DiscardStop, Goto
  <1>4. TypeOK'
    BY <1>2, <1>3 DEF TypeOK, Steps
  <1>5. OwnerKnown' /\ OwnerUnique'
    BY <1>1, <1>3 DEF TypeOK, OwnerKnown, OwnerUnique, Protected, Settled
  <1>6. StopRemembered'
    BY <1>1, <1>2, <1>3 DEF TypeOK, OwnerKnown, StopRemembered, Protected, Steps, Calm
  <1>7. FateKnown' /\ ReleasedMeansFree' /\ CompleteIsTerminal' /\ LateDeletes'
    BY <1>2, <1>3 DEF Calm, FateKnown, ReleasedMeansFree, CompleteIsTerminal, LateDeletes
  <1> QED BY <1>4, <1>5, <1>6, <1>7

\* discard_scenario's DELETE, and what the operator is told.
LEMMA DiscardDeleteStep ==
  ASSUME IInv, NEW d \in Drivers, DiscardDelete(d)
  PROVE  IInv'
  <1> USE DEF IInv
  <1>1. pc[d] = "discardDelete" /\ sid[d] \in Scenarios /\ fate[sid[d]] = "owned"
    BY DEF DiscardDelete, OwnerKnown, Protected
  <1>2. \E told \in {"discarded", "warned"} :
          /\ fate' = [fate EXCEPT ![sid[d]] = told]
          /\ Nl6TypeOK' /\ Calm({sid[d]})
          /\ told = "discarded" => phase'[sid[d]] \notin Active
          /\ late' \in SUBSET Calls
          /\ \A c \in late' : c.op = "delete" => c \in late \/ c.s = sid[d]
    <2>1. CASE Accepted("delete", sid[d]) /\ fate' = [fate EXCEPT ![sid[d]] = Told(TRUE)]
      BY <1>1, <2>1, ServeStep DEF Accepted, CallOps, TypeOK, Told
    <2>2. CASE Failed("delete", sid[d]) /\ fate' = [fate EXCEPT ![sid[d]] = Told(stopped[d])]
      <3>1. stopped[d] => phase[sid[d]] \notin Active
        BY <1>1 DEF StopRemembered
      <3>2. Nl6TypeOK' /\ Calm({sid[d]}) /\ phase' = phase
        BY <1>1, <2>2, FailedStep DEF CallOps, Calm
      <3>3. late' \in SUBSET Calls /\ \A c \in late' : c.op = "delete" => c \in late \/ c.s = sid[d]
        BY <1>1, <2>2, FailedStep DEF CallOps
      <3> QED BY <2>2, <3>1, <3>2, <3>3 DEF Told
    <2> QED BY <2>1, <2>2 DEF DiscardDelete
  <1>3. PICK told \in {"discarded", "warned"} :
          /\ fate' = [fate EXCEPT ![sid[d]] = told]
          /\ Nl6TypeOK' /\ Calm({sid[d]})
          /\ told = "discarded" => phase'[sid[d]] \notin Active
          /\ late' \in SUBSET Calls
          /\ \A c \in late' : c.op = "delete" => c \in late \/ c.s = sid[d]
    BY <1>2
  <1>4. /\ pc' = [pc EXCEPT ![d] = "exited"] /\ rc' = [rc EXCEPT ![d] = "1"]
        /\ UNCHANGED <<sid, stopped, report, sidecar>>
    BY DEF DiscardDelete, Exit, Goto
  <1>5. TypeOK'
    BY <1>3, <1>4 DEF TypeOK, Steps, Fates
  <1>6. OwnerKnown' /\ OwnerUnique'
    BY <1>1, <1>3, <1>4 DEF TypeOK, OwnerKnown, OwnerUnique, Protected, Settled
  <1>7. StopRemembered'
    BY <1>3, <1>4 DEF TypeOK, OwnerKnown, StopRemembered, Protected, Steps, Calm
  <1>8. FateKnown' /\ ReleasedMeansFree' /\ CompleteIsTerminal'
    BY <1>1, <1>3 DEF TypeOK, Calm, FateKnown, ReleasedMeansFree, CompleteIsTerminal
  <1>9. LateDeletes'
    BY <1>1, <1>3 DEF TypeOK, LateDeletes, Calls
  <1> QED BY <1>5, <1>6, <1>7, <1>8, <1>9

\* A run that dies keeps its scenario only if it was complete.
LEMMA KillStep ==
  ASSUME IInv, NEW d \in Drivers, Kill(d)
  PROVE  IInv'
  <1> USE DEF IInv
  <1>1. /\ UNCHANGED <<phase, participants_armed, ledger, sid, stopped, report, sidecar, late>>
        /\ pc' = [pc EXCEPT ![d] = "exited"] /\ rc' = [rc EXCEPT ![d] = "killed"]
        /\ fate' = [s \in Scenarios |->
                      IF s = sid[d] /\ fate[s] = "owned" THEN "killed" ELSE fate[s]]
        /\ pc[d] \in Steps
    BY DEF Kill, Exit, Goto
  <1>2. TypeOK'
    BY <1>1 DEF TypeOK, Nl6TypeOK, Steps, Fates
  <1>3. \A e \in Drivers \ {d} : pc[e] \in Protected => sid[e] # sid[d]
    BY <1>1 DEF OwnerKnown, OwnerUnique, Protected, Settled, Steps, NoScenario, Scenarios
  <1>4. OwnerKnown' /\ OwnerUnique'
    BY <1>1, <1>3 DEF TypeOK, OwnerKnown, OwnerUnique, Protected, Settled
  <1>5. StopRemembered'
    BY <1>1 DEF TypeOK, StopRemembered, Steps
  <1>6. FateKnown' /\ ReleasedMeansFree' /\ CompleteIsTerminal' /\ LateDeletes'
    BY <1>1 DEF TypeOK, FateKnown, ReleasedMeansFree, CompleteIsTerminal, LateDeletes, Calls
  <1> QED BY <1>2, <1>4, <1>5, <1>6

\* A late call is carried out.  A late submission has no owner.
LEMMA LateServedStep ==
  ASSUME IInv, LateServed
  PROVE  IInv'
  <1> USE DEF IInv
  <1>1. PICK c \in late :
          /\ late' = late \ {c}
          /\ \/ Serve(c.op, c.s) /\ UNCHANGED fate
             \/ /\ c.op = "submit"
                /\ \E s \in Scenarios :
                     ServeSubmit(s) /\ fate' = [fate EXCEPT ![s] = "unclaimed"]
    BY DEF LateServed
  <1>2. UNCHANGED <<pc, sid, stopped, report, rc, sidecar>>
    BY DEF LateServed, runvars
  <1>3. late' \in SUBSET Calls
    BY <1>1 DEF TypeOK
  <1>4. CASE Serve(c.op, c.s) /\ UNCHANGED fate
    <2>1. c.op \in CallOps /\ c.s \in Scenarios
      BY <1>4 DEF Serve, TypeOK, Calls, CallOps
    <2>2. Nl6TypeOK' /\ Calm(IF c.op = "delete" THEN {c.s} ELSE {})
      BY <1>4, <2>1, ServeStep DEF TypeOK
    <2>3. c.op = "delete" => fate[c.s] # "complete"
      BY <1>1 DEF LateDeletes
    <2>4. TypeOK'
      BY <1>2, <1>3, <1>4, <2>2 DEF TypeOK
    <2>5. OwnerKnown' /\ OwnerUnique'
      BY <1>2, <1>4 DEF OwnerKnown, OwnerUnique
    <2>6. StopRemembered'
      BY <1>2, <2>2 DEF OwnerKnown, StopRemembered, Protected, Calm
    <2>7. FateKnown' /\ ReleasedMeansFree' /\ LateDeletes'
      BY <1>1, <1>4, <2>2 DEF Calm, FateKnown, ReleasedMeansFree, LateDeletes
    <2>8. CompleteIsTerminal'
      BY <1>4, <2>2, <2>3 DEF Calm, CompleteIsTerminal
    <2> QED BY <2>4, <2>5, <2>6, <2>7, <2>8
  <1>5. ASSUME NEW s \in Scenarios, ServeSubmit(s), fate' = [fate EXCEPT ![s] = "unclaimed"]
        PROVE  IInv'
    <2>1. fate[s] = "none"
      BY <1>5 DEF ServeSubmit, FateKnown
    <2>2. TypeOK'
      BY <1>2, <1>3, <1>5 DEF ServeSubmit, TypeOK, Nl6TypeOK, Phases, Fates
    <2>3. OwnerKnown' /\ OwnerUnique' /\ StopRemembered'
      BY <1>2, <1>5, <2>1 DEF ServeSubmit, TypeOK, Nl6TypeOK, OwnerKnown, OwnerUnique,
             StopRemembered, Protected, Active
    <2>4. FateKnown' /\ ReleasedMeansFree' /\ CompleteIsTerminal'
      BY <1>5 DEF ServeSubmit, TypeOK, Nl6TypeOK, FateKnown, ReleasedMeansFree, CompleteIsTerminal
    <2>5. LateDeletes'
      BY <1>1, <1>5, <2>1 DEF TypeOK, LateDeletes
    <2> QED BY <2>2, <2>3, <2>4, <2>5
  <1> QED BY <1>1, <1>4, <1>5

\* The steps of nl6 itself, of the operator, and of the network.
LEMMA EnvironmentStep ==
  ASSUME IInv, LateDropped \/ Nl6Step \/ (\E s \in Scenarios : OperatorClears(s))
  PROVE  IInv'
  <1> USE DEF IInv
  <1>1. /\ UNCHANGED <<pc, sid, stopped, report, rc, sidecar, fate>>
        /\ late' \in SUBSET late
    BY DEF LateDropped, Nl6Step, OperatorClears
  <1>2. PICK D \in SUBSET Scenarios :
          Nl6TypeOK' /\ Calm(D) /\ \A s \in D : fate[s] # "complete"
    <2>1. ASSUME LateDropped
          PROVE  Nl6TypeOK' /\ Calm({})
      BY <2>1 DEF LateDropped, TypeOK, Nl6TypeOK, Calm
    <2>2. ASSUME NEW s \in Scenarios, OperatorClears(s)
          PROVE  Nl6TypeOK' /\ Calm({s}) /\ fate[s] # "complete"
      <3>1. Serve("delete", s)
        BY <2>2 DEF OperatorClears, Serve
      <3> QED BY <2>2, <3>1, ServeStep DEF OperatorClears, CallOps, TypeOK
    <2>3. ASSUME NEW s \in Scenarios, AutoClose(s)
          PROVE  Nl6TypeOK' /\ Calm({})
      BY <2>3 DEF AutoClose, TypeOK, Nl6TypeOK, Calm, Phases, Active, Terminal
    <2>4. ASSUME Restart
          PROVE  Nl6TypeOK' /\ Calm({})
      <3>1. Nl6TypeOK'
        BY <2>4 DEF Restart, TypeOK, Nl6TypeOK, Phases
      <3>2. Calm({})
        <4>1. \A s \in Scenarios :
                phase'[s] = IF phase[s] \in Active \cup Terminal THEN "lost" ELSE phase[s]
          BY <2>4 DEF Restart
        <4>2. \A s \in Scenarios : phase[s] \in Terminal \cup {"lost"} => phase'[s] = "lost"
          BY <4>1 DEF Terminal, Active
        <4> QED BY <4>1, <4>2 DEF Calm, Terminal, Active
      <3> QED BY <3>1, <3>2
    <2>5. CASE \E s \in Scenarios : OperatorClears(s)
      <3>1. PICK s \in Scenarios : OperatorClears(s)
        BY <2>5
      <3>2. Nl6TypeOK' /\ Calm({s}) /\ fate[s] # "complete"
        BY <2>2, <3>1
      <3> WITNESS {s} \in SUBSET Scenarios
      <3> QED BY <3>2
    <2>6. CASE LateDropped \/ Nl6Step
      <3>1. Nl6TypeOK' /\ Calm({})
        BY <2>1, <2>3, <2>4, <2>6 DEF Nl6Step
      <3> QED BY <3>1
    <2> QED BY <2>5, <2>6
  <1>3. TypeOK'
    BY <1>1, <1>2 DEF TypeOK
  <1>4. OwnerKnown' /\ OwnerUnique'
    BY <1>1 DEF OwnerKnown, OwnerUnique
  <1>5. StopRemembered'
    BY <1>1, <1>2 DEF OwnerKnown, StopRemembered, Protected, Calm
  <1>6. FateKnown' /\ ReleasedMeansFree' /\ CompleteIsTerminal'
    BY <1>1, <1>2 DEF Calm, FateKnown, ReleasedMeansFree, CompleteIsTerminal
  <1>7. LateDeletes'
    BY <1>1 DEF LateDeletes
  <1> QED BY <1>3, <1>4, <1>5, <1>6, <1>7

\* Every step preserves the invariant.
LEMMA StepInv == IInv /\ [Next]_vars => IInv'
  <1> SUFFICES ASSUME IInv, [Next]_vars PROVE IInv'
    OBVIOUS
  <1>1. ASSUME NEW d \in Drivers, Begin(d) \/ Run(d) \/ Kill(d)
        PROVE  IInv'
    BY <1>1, LocalStep, SubmitStep, TryStep, StopStep, ReportStep, DiscardStopStep,
       DiscardDeleteStep, KillStep DEF Run
  <1>2. CASE UNCHANGED vars
    <2>1. TypeOK'
      BY <1>2 DEF vars, IInv, TypeOK, Nl6TypeOK
    <2>2. OwnerKnown' /\ OwnerUnique' /\ StopRemembered'
      BY <1>2 DEF vars, IInv, OwnerKnown, OwnerUnique, StopRemembered
    <2>3. FateKnown' /\ ReleasedMeansFree' /\ CompleteIsTerminal' /\ LateDeletes'
      BY <1>2 DEF vars, IInv, FateKnown, ReleasedMeansFree, CompleteIsTerminal, LateDeletes
    <2> QED BY <2>1, <2>2, <2>3 DEF IInv
  <1> QED BY <1>1, <1>2, LateServedStep, EnvironmentStep DEF Next

\* The inductive invariant holds in every reachable state.
THEOREM Invariance == Spec => []IInv
  BY InitInv, StepInv, PTL DEF Spec

-----------------------------------------------------------------------------
(* The results. *)

\* Every variable keeps its type.
THEOREM TypeCorrect == Spec => []TypeOK
  <1>1. IInv => TypeOK
    BY DEF IInv
  <1> QED BY <1>1, Invariance, PTL

\* A run whose stop was accepted, or that said "discarded", leaves nothing
\* active behind, whatever nl6 does with late calls.
THEOREM ReleasedIsFree == Spec => []ReleasedMeansFree
  <1>1. IInv => ReleasedMeansFree
    BY DEF IInv
  <1> QED BY <1>1, Invariance, PTL

\* What StoppedLedgerSurvives says of one step.
LedgersKept ==
    \A s \in Scenarios : fate[s] = "complete" =>
        \/ phase'[s] = "lost"
        \/ phase[s] \in Terminal /\ phase'[s] = phase[s] /\ ledger'[s] = ledger[s]

\* A step that is Calm but for scenarios that are not complete keeps the ledgers.
LEMMA CalmKeeps ==
  ASSUME IInv, NEW D, Calm(D), \A s \in Scenarios : fate[s] = "complete" => s \notin D
  PROVE  LedgersKept
  BY DEF IInv, CompleteIsTerminal, Calm, LedgersKept, Terminal

\* A step that leaves nl6 alone keeps them.
LEMMA QuietKeeps ==
  ASSUME IInv, UNCHANGED <<phase, ledger>>
  PROVE  LedgersKept
  BY DEF IInv, CompleteIsTerminal, LedgersKept, Terminal

\* So does handing out a scenario that has no history.
LEMMA SubmitKeeps ==
  ASSUME IInv, NEW s \in Scenarios, ServeSubmit(s)
  PROVE  LedgersKept
  BY DEF IInv, TypeOK, Nl6TypeOK, CompleteIsTerminal, FateKnown, ServeSubmit, LedgersKept, Terminal

\* No step of a run does: only discard_scenario deletes, and what it deletes is
\* not complete.
LEMMA RunKeeps ==
  ASSUME IInv, NEW d \in Drivers, Run(d)
  PROVE  LedgersKept
  <1> USE DEF IInv
  <1>1. ASSUME NEW op \in CallOps, Accepted(op, sid[d]) \/ Failed(op, sid[d]),
               sid[d] \in Scenarios, op = "delete" => fate[sid[d]] # "complete"
        PROVE  LedgersKept
    <2>1. Calm(IF op = "delete" THEN {sid[d]} ELSE {}) \/ Calm({})
      BY <1>1, ServeStep, FailedStep DEF Accepted, TypeOK
    <2> QED BY <1>1, <2>1, CalmKeeps
  <1>2. CASE BadArguments(d) \/ SubmitFails(d) \/ Sleep(d) \/ WriteSidecar(d) \/ Finish(d)
             \/ (TryFails(d) /\ pc[d] = "wait")
    <2>1. UNCHANGED <<phase, ledger>>
      BY <1>2 DEF BadArguments, SubmitFails, GivenUp, nl6vars, Sleep, WriteSidecar, Finish, TryFails
    <2> QED BY <2>1, QuietKeeps
  <1>3. CASE Submit(d)
    BY <1>3, SubmitKeeps DEF Submit
  <1>4. CASE Arm(d) \/ Start(d) \/ Stop(d) \/ FetchReport(d) \/ FetchFails(d)
             \/ (TryFails(d) /\ pc[d] # "wait") \/ DiscardStop(d)
    <2>1. sid[d] \in Scenarios
      BY <1>4 DEF Arm, Start, Stop, FetchReport, FetchFails, TryFails, DiscardStop, OwnerKnown,
             Protected, Settled
    <2>2. \E op \in CallOps \ {"delete"} : Accepted(op, sid[d]) \/ Failed(op, sid[d])
      BY <1>4 DEF Arm, Start, Stop, FetchReport, FetchFails, TryFails, DiscardStop, CallOps
    <2> QED BY <1>1, <2>1, <2>2
  <1>5. CASE DiscardDelete(d)
    <2>1. sid[d] \in Scenarios /\ fate[sid[d]] = "owned"
      BY <1>5 DEF DiscardDelete, OwnerKnown, Protected
    <2>2. Accepted("delete", sid[d]) \/ Failed("delete", sid[d])
      BY <1>5 DEF DiscardDelete
    <2> QED BY <1>1, <2>1, <2>2 DEF CallOps
  <1> QED BY <1>2, <1>3, <1>4, <1>5 DEF Run

\* No step of anybody takes away the ledger of a complete run.
LEMMA StepKeeps == IInv /\ Next => LedgersKept
  <1> SUFFICES ASSUME IInv, Next PROVE LedgersKept
    OBVIOUS
  <1> USE DEF IInv
  <1>1. ASSUME NEW d \in Drivers, Begin(d) \/ Kill(d)
        PROVE  LedgersKept
    BY <1>1, QuietKeeps DEF Begin, Kill
  <1>2. CASE LateServed
    <2>1. PICK c \in late : \/ Serve(c.op, c.s)
                            \/ \E s \in Scenarios : ServeSubmit(s)
      BY <1>2 DEF LateServed
    <2>2. CASE Serve(c.op, c.s)
      <3>1. c.op \in CallOps /\ c.s \in Scenarios
        BY <2>2 DEF Serve, TypeOK, Calls, CallOps
      <3>2. Calm(IF c.op = "delete" THEN {c.s} ELSE {})
        BY <2>2, <3>1, ServeStep DEF TypeOK
      <3>3. c.op = "delete" => fate[c.s] # "complete"
        BY <2>1 DEF LateDeletes
      <3> QED BY <3>2, <3>3, CalmKeeps
    <2> QED BY <2>1, <2>2, SubmitKeeps
  <1>3. CASE LateDropped
    BY <1>3, QuietKeeps DEF LateDropped
  <1>4. ASSUME NEW s \in Scenarios, OperatorClears(s)
        PROVE  LedgersKept
    <2>1. Serve("delete", s) /\ fate[s] # "complete"
      BY <1>4 DEF OperatorClears, Serve
    <2>2. Calm({s})
      BY <2>1, ServeStep DEF TypeOK, CallOps
    <2> QED BY <2>1, <2>2, CalmKeeps
  <1>5. CASE Nl6Step
    BY <1>5 DEF Nl6Step, AutoClose, Restart, TypeOK, Nl6TypeOK, CompleteIsTerminal, LedgersKept,
           Terminal, Active
  <1> QED BY <1>1, <1>2, <1>3, <1>4, <1>5, RunKeeps DEF Next

\* The ledger of a run whose stop was accepted is final, and only a restart of
\* nl6 takes it away.
THEOREM StoppedLedgerIsKept == Spec => StoppedLedgerSurvives
  <1>1. IInv /\ [Next]_vars => [LedgersKept]_vars
    BY StepKeeps
  <1> QED BY <1>1, Invariance, PTL DEF Spec, StoppedLedgerSurvives, LedgersKept

-----------------------------------------------------------------------------
(* Windows: who may touch a scenario that is being measured. *)

Before == {"arm", "start", "wait"}

\* No call given up on is for a scenario whose run has not come to its stop.
NoneLate ==
    /\ \A c \in late : c.op # "submit" => fate[c.s] # "none"
    /\ \A c \in late, d \in Drivers : pc[d] \in Before => c.s # sid[d]

WInv == NoneLate /\ WindowUndisturbed

\* An accepted call changes no scenario but the one it names.
LEMMA ServeNames ==
  ASSUME Nl6TypeOK, NEW s \in Scenarios, NEW op \in CallOps, Serve(op, s)
  PROVE  \A t \in Scenarios : t # s => phase'[t] = phase[t]
  BY DEF Serve, ServeArm, ServeStart, ServeStop, ServeDelete, ServeReport, nl6vars, Nl6TypeOK

\* A call of a run changes no other scenario, and only the call may become late.
LEMMA CallNames ==
  ASSUME IInv, NEW s \in Scenarios, NEW op \in CallOps, Accepted(op, s) \/ Failed(op, s)
  PROVE  /\ \A t \in Scenarios : t # s => phase'[t] = phase[t]
         /\ \A c \in late' : c \in late \/ c = [op |-> op, s |-> s]
  <1>1. CASE Accepted(op, s)
    BY <1>1, ServeNames DEF Accepted, IInv, TypeOK
  <1>2. CASE Failed(op, s)
    BY <1>2, FailedStep DEF IInv
  <1> QED BY <1>1, <1>2

\* A driver's step is about its own scenario, be it one that nobody had before.
Mine(d) ==
    /\ \A e \in Drivers : e # d => pc'[e] = pc[e] /\ sid'[e] = sid[e]
    /\ \A t \in Scenarios : fate[t] # "none" => fate'[t] # "none"
    /\ \A t \in Scenarios : \/ phase'[t] = phase[t]
                            \/ fate[t] = "none"
                            \/ pc[d] \in Protected \cup Settled /\ t = sid[d]
    /\ \A c \in late' : \/ c \in late
                        \/ c.op = "submit" /\ c.s = NoScenario
                        \/ pc[d] \in Protected \cup Settled /\ c.s = sid[d]
    /\ pc'[d] \in Before =>
         /\ late' = late
         /\ \/ sid'[d] = sid[d] /\ pc[d] \in Before
            \/ sid'[d] \in Scenarios /\ fate[sid'[d]] = "none"
    /\ pc'[d] = "wait" => phase'[sid'[d]] = "running"

\* The steps of a driver that make no call.
LEMMA LocalMine ==
  ASSUME IInv, WInv, NEW d \in Drivers,
         Begin(d) \/ BadArguments(d) \/ Sleep(d) \/ WriteSidecar(d) \/ Finish(d) \/ Kill(d)
  PROVE  Mine(d)
  <1>1. UNCHANGED <<phase, late>> /\ \A t \in Scenarios : fate[t] # "none" => fate'[t] # "none"
    BY DEF Begin, BadArguments, Sleep, WriteSidecar, Finish, Kill
  <1>2. \A e \in Drivers : e # d => pc'[e] = pc[e] /\ sid'[e] = sid[e]
    BY DEF Begin, BadArguments, Sleep, WriteSidecar, Finish, Kill, Exit, Goto, IInv, TypeOK
  <1>3. pc'[d] \notin Before
    BY DEF Begin, BadArguments, Sleep, WriteSidecar, Finish, Kill, Exit, Goto, IInv, TypeOK, Before
  <1> QED BY <1>1, <1>2, <1>3 DEF Mine, Before

\* The submission, answered or not.
LEMMA SubmitMine ==
  ASSUME IInv, WInv, NEW d \in Drivers, Submit(d) \/ SubmitFails(d)
  PROVE  Mine(d)
  <1> USE DEF IInv
  <1>1. CASE Submit(d)
    <2>1. PICK s \in Scenarios : /\ ServeSubmit(s)
                                /\ sid' = [sid EXCEPT ![d] = s]
                                /\ fate' = [fate EXCEPT ![s] = "owned"]
      BY <1>1 DEF Submit
    <2>2. fate[s] = "none" /\ \A t \in Scenarios : t # s => phase'[t] = phase[t]
      BY <2>1 DEF ServeSubmit, FateKnown, TypeOK, Nl6TypeOK
    <2>3. pc' = [pc EXCEPT ![d] = "arm"] /\ UNCHANGED late
      BY <1>1 DEF Submit, Goto
    <2> QED BY <2>1, <2>2, <2>3 DEF Mine, TypeOK
  <1>2. CASE SubmitFails(d)
    <2>1. /\ UNCHANGED <<phase, sid, fate>> /\ pc' = [pc EXCEPT ![d] = "exited"]
          /\ \A c \in late' : c \in late \/ (c.op = "submit" /\ c.s = NoScenario)
      BY <1>2 DEF SubmitFails, GivenUp, nl6vars, Exit, Goto
    <2> QED BY <2>1 DEF Mine, TypeOK, Before
  <1> QED BY <1>1, <1>2

\* The calls on the run's scenario.
LEMMA CallMine ==
  ASSUME IInv, WInv, NEW d \in Drivers,
         \/ Arm(d) \/ Start(d) \/ Stop(d) \/ TryFails(d) \/ FetchReport(d) \/ FetchFails(d)
         \/ DiscardStop(d) \/ DiscardDelete(d)
  PROVE  Mine(d)
  <1> USE DEF IInv
  <1>1. pc[d] \in Protected \cup Settled /\ sid[d] \in Scenarios
    BY DEF Arm, Start, Stop, TryFails, FetchReport, FetchFails, DiscardStop, DiscardDelete,
           OwnerKnown, Protected, Settled
  <1>2. /\ \A t \in Scenarios : t # sid[d] => phase'[t] = phase[t]
        /\ \A c \in late' : c \in late \/ c.s = sid[d]
    <2>1. CASE TryFails(d) /\ pc[d] = "wait"
      BY <2>1 DEF TryFails
    <2>2. CASE ~(TryFails(d) /\ pc[d] = "wait")
      <3>1. \E op \in CallOps : Accepted(op, sid[d]) \/ Failed(op, sid[d])
        BY <2>2 DEF Arm, Start, Stop, TryFails, FetchReport, FetchFails, DiscardStop,
               DiscardDelete, CallOps
      <3> QED BY <1>1, <3>1, CallNames
    <2> QED BY <2>1, <2>2
  <1>3. /\ \A e \in Drivers : e # d => pc'[e] = pc[e]
        /\ UNCHANGED sid
        /\ \A t \in Scenarios : fate[t] # "none" => fate'[t] # "none"
    <2>1. \E step \in Steps \cup {"exited"} : pc' = [pc EXCEPT ![d] = step]
      BY DEF Arm, Start, Stop, TryFails, FetchReport, FetchFails, DiscardStop, DiscardDelete,
             Exit, Goto, Steps
    <2>2. UNCHANGED sid
      BY DEF Arm, Start, Stop, TryFails, FetchReport, FetchFails, DiscardStop, DiscardDelete
    <2>3. \A t \in Scenarios : fate[t] # "none" => fate'[t] # "none"
      <3>1. CASE Stop(d) \/ DiscardDelete(d)
        BY <1>1, <3>1 DEF Stop, DiscardDelete, Told, TypeOK
      <3>2. CASE UNCHANGED fate
        BY <3>2
      <3> QED BY <3>1, <3>2 DEF Arm, Start, TryFails, FetchReport, FetchFails, DiscardStop
    <2> QED BY <2>1, <2>2, <2>3 DEF TypeOK
  <1>4. pc'[d] \in Before => late' = late /\ pc[d] \in Before
    BY DEF Arm, Start, Stop, TryFails, FetchReport, FetchFails, DiscardStop, DiscardDelete,
           Accepted, Exit, Goto, Before, TypeOK
  <1>5. pc'[d] = "wait" => phase'[sid[d]] = "running"
    <2>1. pc'[d] = "wait" => Start(d)
      BY DEF Arm, Stop, TryFails, FetchReport, FetchFails, DiscardStop, DiscardDelete,
             Exit, Goto, TypeOK
    <2>2. Start(d) => phase'[sid[d]] = "running"
      BY <1>1 DEF Start, Accepted, Serve, ServeStart, TypeOK, Nl6TypeOK
    <2> QED BY <2>1, <2>2
  <1> QED BY <1>1, <1>2, <1>3, <1>4, <1>5 DEF Mine

\* No step of one driver reaches into the window of another.
LEMMA DriverWindows ==
  ASSUME IInv, WInv, NEW d \in Drivers, Mine(d), Next
  PROVE  WInv'
  <1>1. ASSUME NEW c \in late', c.op # "submit" PROVE fate'[c.s] # "none"
    <2>1. CASE c \in late
      <3>1. fate[c.s] # "none" /\ c.s \in Scenarios
        BY <1>1, <2>1 DEF WInv, NoneLate, IInv, TypeOK, Calls
      <3> QED BY <3>1 DEF Mine
    <2>2. CASE c \notin late
      <3>1. c.s = sid[d] /\ sid[d] \in Scenarios /\ fate[sid[d]] # "none"
        BY <1>1, <2>2 DEF Mine, IInv, OwnerKnown
      <3> QED BY <3>1 DEF Mine
    <2> QED BY <2>1, <2>2
  <1>2. ASSUME NEW e \in Drivers, e # d, pc[e] \in Before
        PROVE  /\ \A c \in late' : c.s # sid[e]
               /\ phase'[sid[e]] = phase[sid[e]]
    <2>1. sid[e] \in Scenarios /\ fate[sid[e]] = "owned" /\ sid[e] # NoScenario
      BY <1>2 DEF IInv, OwnerKnown, Before, Protected, Scenarios, NoScenario
    <2>2. ~(pc[d] \in Protected \cup Settled /\ sid[d] = sid[e])
      BY <1>2 DEF IInv, OwnerUnique, Before, Protected
    <2>3. \A c \in late : c.s # sid[e]
      BY <1>2 DEF WInv, NoneLate
    <2> QED BY <2>1, <2>2, <2>3 DEF Mine
  <1>3. ASSUME NEW e \in Drivers, pc'[e] \in Before, NEW c \in late' PROVE c.s # sid'[e]
    <2>1. CASE e # d
      BY <1>2, <1>3, <2>1 DEF Mine
    <2>2. CASE e = d
      <3>1. c \in late
        BY <1>3, <2>2 DEF Mine
      <3>2. CASE sid'[d] = sid[d] /\ pc[d] \in Before
        BY <2>2, <3>1, <3>2 DEF WInv, NoneLate
      <3>3. CASE sid'[d] \in Scenarios /\ fate[sid'[d]] = "none"
        <4>1. c.op # "submit" => fate[c.s] # "none"
          BY <3>1 DEF WInv, NoneLate
        <4>2. c.op = "submit" => c.s = NoScenario
          BY <3>1 DEF IInv, TypeOK, Calls
        <4> QED BY <2>2, <3>3, <4>1, <4>2 DEF Scenarios, NoScenario
      <3> QED BY <1>3, <2>2, <3>2, <3>3 DEF Mine
    <2> QED BY <2>1, <2>2
  <1>4. ASSUME NEW e \in Drivers, pc'[e] = "wait"
        PROVE  phase'[sid'[e]] \in {"running", "closed", "lost"}
    <2>1. CASE e = d
      BY <1>4, <2>1 DEF Mine
    <2>2. CASE e # d
      <3>1. pc[e] = "wait" /\ sid'[e] = sid[e]
        BY <1>4, <2>2 DEF Mine
      <3> QED BY <1>2, <2>2, <3>1 DEF WInv, WindowUndisturbed, Before
    <2> QED BY <2>1, <2>2
  <1> QED BY <1>1, <1>3, <1>4 DEF WInv, NoneLate, WindowUndisturbed

\* Nor does a late call, an operator who was warned, or nl6 but by ending the window.
LEMMA OtherWindows ==
  ASSUME IInv, WInv,
         LateServed \/ LateDropped \/ Nl6Step \/ (\E s \in Scenarios : OperatorClears(s))
  PROVE  WInv'
  <1> USE DEF IInv
  <1>1. UNCHANGED <<pc, sid>> /\ late' \subseteq late
    BY DEF LateServed, LateDropped, Nl6Step, OperatorClears, runvars
  <1>2. \A t \in Scenarios : fate[t] # "none" => fate'[t] # "none"
    <2>1. CASE LateServed
      BY <2>1 DEF LateServed, TypeOK
    <2>2. CASE UNCHANGED fate
      BY <2>2
    <2> QED BY <2>1, <2>2 DEF LateDropped, Nl6Step, OperatorClears
  <1>3. ASSUME NEW e \in Drivers, pc[e] = "wait"
        PROVE  phase'[sid[e]] \in {"running", "closed", "lost"}
    <2>1. /\ sid[e] \in Scenarios /\ fate[sid[e]] = "owned"
          /\ phase[sid[e]] \in {"running", "closed", "lost"}
      BY <1>3 DEF OwnerKnown, Protected, WInv, WindowUndisturbed
    <2>2. CASE LateServed
      <3>1. PICK c \in late : \/ Serve(c.op, c.s)
                              \/ \E s \in Scenarios : ServeSubmit(s)
        BY <2>2 DEF LateServed
      <3>2. CASE Serve(c.op, c.s)
        <4>1. c.op \in CallOps /\ c.s \in Scenarios /\ c.s # sid[e]
          BY <1>3, <3>2 DEF Serve, TypeOK, Calls, CallOps, WInv, NoneLate, Before
        <4> QED BY <2>1, <3>2, <4>1, ServeNames DEF TypeOK
      <3>3. CASE \E s \in Scenarios : ServeSubmit(s)
        BY <2>1, <3>3 DEF ServeSubmit, TypeOK, Nl6TypeOK
      <3> QED BY <3>1, <3>2, <3>3
    <2>3. ASSUME NEW s \in Scenarios, OperatorClears(s)
          PROVE  phase'[sid[e]] = phase[sid[e]]
      <3>1. s # sid[e] /\ Serve("delete", s)
        BY <2>1, <2>3 DEF OperatorClears, Serve
      <3> QED BY <2>1, <3>1, ServeNames DEF TypeOK, CallOps
    <2>4. CASE Nl6Step
      BY <2>1, <2>4 DEF Nl6Step, AutoClose, Restart, TypeOK, Nl6TypeOK, Active, Terminal
    <2>5. CASE LateDropped
      BY <2>1, <2>5 DEF LateDropped
    <2> QED BY <2>1, <2>2, <2>3, <2>4, <2>5
  <1>4. ASSUME NEW c \in late', c.op # "submit" PROVE fate'[c.s] # "none"
    <2>1. c.s \in Scenarios /\ fate[c.s] # "none"
      BY <1>1, <1>4 DEF WInv, NoneLate, TypeOK, Calls
    <2> QED BY <1>2, <2>1
  <1> QED BY <1>1, <1>3, <1>4 DEF WInv, NoneLate, WindowUndisturbed

\* A window is open from the reply to the start until its run stops it: no other
\* driver, no late call and no operator who was warned ends it before.
THEOREM WindowHolds == Spec => []WindowUndisturbed
  <1>1. Init => WInv
    BY DEF Init, WInv, NoneLate, WindowUndisturbed, Before
  <1>2. IInv /\ WInv /\ [Next]_vars => WInv'
    <2> SUFFICES ASSUME IInv, WInv, [Next]_vars PROVE WInv'
      OBVIOUS
    <2>1. ASSUME NEW d \in Drivers, Begin(d) \/ Run(d) \/ Kill(d), Next
          PROVE  WInv'
      <3>1. Mine(d)
        BY <2>1, LocalMine, SubmitMine, CallMine DEF Run
      <3> QED BY <2>1, <3>1, DriverWindows
    <2>2. CASE UNCHANGED vars
      BY <2>2 DEF vars, WInv, NoneLate, WindowUndisturbed
    <2> QED BY <2>1, <2>2, OtherWindows DEF Next
  <1>3. WInv => WindowUndisturbed
    BY DEF WInv
  <1> QED BY <1>1, <1>2, <1>3, Invariance, PTL DEF Spec

-----------------------------------------------------------------------------
(* Exit status 0. *)

\* A run that ended well completed its scenario, and its sidecar is of it.
EndedWell ==
    /\ \A d \in Drivers : pc[d] = "exit" => sidecar[d] = sid[d]
    /\ \A d \in Drivers : rc[d] = "0" =>
         pc[d] = "exited" /\ sid[d] \in Scenarios /\ fate[sid[d]] = "complete"

ZInv == EndedWell /\ ExitZeroMeansDelivered

\* The devices of a complete scenario are counted: no arm call is accepted any more.
LEMMA ArmedStays ==
  ASSUME IInv, Next, NEW s \in Scenarios, fate[s] = "complete"
  PROVE  participants_armed'[s] = participants_armed[s] /\ fate'[s] = "complete"
  <1> USE DEF IInv
  <1>1. phase[s] # "submitted" /\ phase[s] # "absent"
    BY DEF CompleteIsTerminal, Terminal
  <1>2. ASSUME NEW op, NEW t \in Scenarios, Serve(op, t)
        PROVE  participants_armed'[s] = participants_armed[s]
    BY <1>1, <1>2 DEF Serve, ServeArm, ServeStart, ServeStop, ServeDelete, ServeReport, nl6vars,
           TypeOK, Nl6TypeOK
  <1>3. ASSUME NEW d \in Drivers, Begin(d) \/ Run(d) \/ Kill(d)
        PROVE  participants_armed'[s] = participants_armed[s] /\ fate'[s] = "complete"
    <2>1. CASE Begin(d) \/ BadArguments(d) \/ Sleep(d) \/ WriteSidecar(d) \/ Finish(d) \/ Kill(d)
               \/ SubmitFails(d)
      BY <2>1 DEF Begin, BadArguments, Sleep, WriteSidecar, Finish, Kill, SubmitFails, GivenUp,
             nl6vars, TypeOK
    <2>2. CASE Submit(d)
      BY <1>1, <2>2 DEF Submit, ServeSubmit, TypeOK
    <2>3. CASE \/ Arm(d) \/ Start(d) \/ Stop(d) \/ TryFails(d) \/ FetchReport(d) \/ FetchFails(d)
               \/ DiscardStop(d) \/ DiscardDelete(d)
      <3>1. sid[d] \in Scenarios /\ (pc[d] \in Protected => fate[sid[d]] = "owned")
        BY <2>3 DEF Arm, Start, Stop, TryFails, FetchReport, FetchFails, DiscardStop,
               DiscardDelete, OwnerKnown, Protected, Settled
      <3>2. (\E op : Serve(op, sid[d])) \/ UNCHANGED participants_armed
        BY <2>3 DEF Arm, Start, Stop, TryFails, FetchReport, FetchFails, DiscardStop,
               DiscardDelete, Accepted, Failed, GivenUp, nl6vars
      <3>3. UNCHANGED fate \/ (sid[d] # s /\ \E told : fate' = [fate EXCEPT ![sid[d]] = told])
        BY <2>3, <3>1 DEF Arm, Start, Stop, TryFails, FetchReport, FetchFails, DiscardStop,
               DiscardDelete, Protected
      <3>4. participants_armed'[s] = participants_armed[s]
        BY <1>2, <3>1, <3>2
      <3>5. fate'[s] = "complete"
        BY <3>1, <3>3 DEF TypeOK
      <3> QED BY <3>4, <3>5
    <2> QED BY <1>3, <2>1, <2>2, <2>3 DEF Run
  <1>4. CASE LateServed
    <2>1. PICK c \in late :
            \/ Serve(c.op, c.s) /\ UNCHANGED fate
            \/ \E t \in Scenarios : ServeSubmit(t) /\ fate' = [fate EXCEPT ![t] = "unclaimed"]
      BY <1>4 DEF LateServed
    <2>2. CASE Serve(c.op, c.s) /\ UNCHANGED fate
      <3>1. c.s \in Scenarios
        BY <2>2 DEF Serve, TypeOK, Calls
      <3> QED BY <1>2, <2>2, <3>1
    <2>3. CASE \E t \in Scenarios : ServeSubmit(t) /\ fate' = [fate EXCEPT ![t] = "unclaimed"]
      BY <1>1, <2>3 DEF ServeSubmit, TypeOK
    <2> QED BY <2>1, <2>2, <2>3
  <1>5. CASE LateDropped \/ Nl6Step \/ (\E t \in Scenarios : OperatorClears(t))
    BY <1>5 DEF LateDropped, Nl6Step, AutoClose, Restart, OperatorClears, ServeDelete
  <1> QED BY <1>3, <1>4, <1>5 DEF Next

\* What the last check of main() has seen when it ends with 0.
LEMMA ZeroIsDelivered ==
  ASSUME TypeOK, NEW d \in Drivers, ExitStatus(d, report[d]) = "0"
  PROVE  /\ report[d]["emitted"] = Sent(report[d]) + report[d]["suppressed_pre_window"]
         /\ d \notin Profiled => Sent(report[d]) = PerDevice * participants_armed[sid[d]]
  <1>1. Holds(report[d]) /\ ~FellShort(d, report[d])
    BY DEF ExitStatus
  <1>2. report[d] \in [LedgerFields -> Nat]
    BY LedgersAssumption DEF TypeOK, EmptyLedger
  <1>3. report[d]["send_failures"] = 0 /\ report[d]["dropped"] = 0
    BY <1>1, <1>2 DEF FellShort, LedgerFields
  <1>4. /\ report[d]["emitted"] \in Nat /\ report[d]["in_window"] \in Nat
        /\ report[d]["drain"] \in Nat /\ report[d]["suppressed_pre_window"] \in Nat
    BY <1>2 DEF LedgerFields
  <1> QED BY <1>1, <1>3, <1>4 DEF Holds, LedgerSum, Sent, FellShort

\* A step of a driver ends well only as Finish.
LEMMA DriverEnds ==
  ASSUME IInv, ZInv, NEW d \in Drivers, Begin(d) \/ Run(d) \/ Kill(d)
  PROVE  /\ \A e \in Drivers : e # d =>
              /\ pc'[e] = pc[e] /\ sid'[e] = sid[e] /\ rc'[e] = rc[e]
              /\ sidecar'[e] = sidecar[e] /\ report'[e] = report[e]
         /\ pc'[d] = "exit" => sidecar'[d] = sid'[d]
         /\ rc'[d] = "0" => Finish(d)
  <1> USE DEF IInv, TypeOK
  <1>0. rc[d] = "0" => pc[d] = "exited"
    BY DEF ZInv, EndedWell
  <1>1. CASE Begin(d)
    BY <1>1 DEF Begin, Goto
  <1>2. CASE Kill(d)
    BY <1>2 DEF Kill, Exit, Goto
  <1>3. CASE BadArguments(d) \/ SubmitFails(d) \/ FetchFails(d) \/ DiscardDelete(d)
    BY <1>3 DEF BadArguments, SubmitFails, FetchFails, DiscardDelete, Exit, Goto
  <1>4. CASE Submit(d) \/ Arm(d) \/ Start(d) \/ Sleep(d)
    BY <1>0, <1>4 DEF Submit, Arm, Start, Sleep, Goto
  <1>5. CASE Stop(d) \/ TryFails(d) \/ FetchReport(d) \/ DiscardStop(d)
    BY <1>0, <1>5 DEF Stop, TryFails, FetchReport, DiscardStop, Goto
  <1>6. CASE WriteSidecar(d)
    BY <1>0, <1>6 DEF WriteSidecar, Goto
  <1>7. CASE Finish(d)
    BY <1>7 DEF Finish, Exit, Goto
  <1> QED BY <1>1, <1>2, <1>3, <1>4, <1>5, <1>6, <1>7 DEF Run

\* A run that has ended well stays so until the driver runs again.
LEMMA EndStays ==
  ASSUME IInv, ZInv, Next, NEW e \in Drivers,
         pc'[e] = pc[e] /\ sid'[e] = sid[e] /\ rc'[e] = rc[e],
         sidecar'[e] = sidecar[e] /\ report'[e] = report[e], rc'[e] = "0"
  PROVE  /\ pc'[e] = "exited" /\ sid'[e] \in Scenarios /\ fate'[sid'[e]] = "complete"
         /\ sidecar'[e] = sid'[e] /\ sid'[e] # NoScenario
         /\ report'[e]["emitted"] = Sent(report'[e]) + report'[e]["suppressed_pre_window"]
         /\ e \notin Profiled => Sent(report'[e]) = PerDevice * participants_armed'[sid'[e]]
  <1>1. pc[e] = "exited" /\ sid[e] \in Scenarios /\ fate[sid[e]] = "complete"
    BY DEF ZInv, EndedWell
  <1>2. participants_armed'[sid[e]] = participants_armed[sid[e]] /\ fate'[sid[e]] = "complete"
    BY <1>1, ArmedStays
  <1>3. /\ sidecar[e] = sid[e] /\ sid[e] # NoScenario
        /\ report[e]["emitted"] = Sent(report[e]) + report[e]["suppressed_pre_window"]
        /\ e \notin Profiled => Sent(report[e]) = PerDevice * participants_armed[sid[e]]
    BY DEF ZInv, ExitZeroMeansDelivered
  <1> QED BY <1>1, <1>2, <1>3

\* Exit 0 means that a sidecar of this run's scenario was written, that its ledger
\* balances, and that every armed device sent what a constant profile asks.
THEOREM ExitZeroHolds == Spec => []ExitZeroMeansDelivered
  <1>1. Init => ZInv
    BY DEF Init, ZInv, EndedWell, ExitZeroMeansDelivered
  <1>2. IInv /\ ZInv /\ Next => ZInv'
    <2> SUFFICES ASSUME IInv, ZInv, Next PROVE ZInv'
      OBVIOUS
    <2>1. ASSUME NEW d \in Drivers, Begin(d) \/ Run(d) \/ Kill(d)
          PROVE  ZInv'
      <3>1. ASSUME NEW e \in Drivers, pc'[e] = "exit" PROVE sidecar'[e] = sid'[e]
        BY <2>1, <3>1, DriverEnds DEF ZInv, EndedWell
      <3>2. ASSUME NEW e \in Drivers, rc'[e] = "0"
            PROVE  /\ pc'[e] = "exited" /\ sid'[e] \in Scenarios /\ fate'[sid'[e]] = "complete"
                   /\ sidecar'[e] = sid'[e] /\ sid'[e] # NoScenario
                   /\ report'[e]["emitted"] = Sent(report'[e]) + report'[e]["suppressed_pre_window"]
                   /\ e \notin Profiled =>
                        Sent(report'[e]) = PerDevice * participants_armed'[sid'[e]]
        <4>1. CASE e # d
          BY <2>1, <3>2, <4>1, DriverEnds, EndStays
        <4>2. CASE e = d
          <5>1. Finish(d)
            BY <2>1, <3>2, <4>2, DriverEnds
          <5>2. /\ pc[d] = "exit" /\ pc'[d] = "exited" /\ ExitStatus(d, report[d]) = "0"
                /\ UNCHANGED <<participants_armed, sid, report, sidecar, fate>>
            BY <3>2, <4>2, <5>1 DEF Finish, Exit, Goto, IInv, TypeOK
          <5>3. /\ sid[d] \in Scenarios /\ fate[sid[d]] = "complete" /\ sid[d] # NoScenario
                /\ sidecar[d] = sid[d]
            BY <5>2 DEF IInv, OwnerKnown, Settled, ZInv, EndedWell, Scenarios, NoScenario
          <5> QED BY <4>2, <5>2, <5>3, ZeroIsDelivered DEF IInv
        <4> QED BY <4>1, <4>2
      <3> QED BY <3>1, <3>2 DEF ZInv, EndedWell, ExitZeroMeansDelivered, Sent
    <2>2. CASE LateServed \/ LateDropped \/ Nl6Step \/ (\E s \in Scenarios : OperatorClears(s))
      <3>1. UNCHANGED <<pc, sid, rc, sidecar, report>>
        BY <2>2 DEF LateServed, LateDropped, Nl6Step, OperatorClears, runvars
      <3>2. ASSUME NEW e \in Drivers, rc'[e] = "0"
            PROVE  /\ pc'[e] = "exited" /\ sid'[e] \in Scenarios /\ fate'[sid'[e]] = "complete"
                   /\ sidecar'[e] = sid'[e] /\ sid'[e] # NoScenario
                   /\ report'[e]["emitted"] = Sent(report'[e]) + report'[e]["suppressed_pre_window"]
                   /\ e \notin Profiled =>
                        Sent(report'[e]) = PerDevice * participants_armed'[sid'[e]]
        BY <3>1, <3>2, EndStays
      <3>3. \A e \in Drivers : pc'[e] = "exit" => sidecar'[e] = sid'[e]
        BY <3>1 DEF ZInv, EndedWell
      <3> QED BY <3>2, <3>3 DEF ZInv, EndedWell, ExitZeroMeansDelivered, Sent
    <2> QED BY <2>1, <2>2 DEF Next
  <1>3. ZInv /\ UNCHANGED vars => ZInv'
    BY DEF vars, ZInv, EndedWell, ExitZeroMeansDelivered, Sent
  <1>4. ZInv => ExitZeroMeansDelivered
    BY DEF ZInv
  <1> QED BY <1>1, <1>2, <1>3, <1>4, Invariance, PTL DEF Spec

-----------------------------------------------------------------------------
(* The refinement of LoadtestRun. *)

\* The sidecar holds the ledger of the run under way, or of the last one.
Fresh(d) == sid[d] # NoScenario /\ sidecar[d] = sid[d]

\* A run's own sidecar is there from WriteSidecar on, and not before.
WrittenAtEnd ==
    /\ \A d \in Drivers : sidecar[d] \in Scenarios => fate[sidecar[d]] # "none"
    /\ \A d \in Drivers : pc[d] \in Steps => (Fresh(d) <=> pc[d] = "exit")

\* A run begins.
LEMMA MapsBegin ==
  ASSUME NEW d \in Drivers, pc[d] \in {"idle", "exited"}, pc'[d] = "submit",
         rc'[d] = "none", sid'[d] = NoScenario
  PROVE  Observed(d)!Begin
  BY DEF Observed!Begin

\* The sidecar is written.
LEMMA MapsWrite ==
  ASSUME NEW d \in Drivers, pc[d] \in Steps, pc'[d] \in Steps, rc'[d] = rc[d],
         ~Fresh(d), Fresh(d)'
  PROVE  Observed(d)!Write
  BY DEF Observed!Write, Steps, Fresh

\* A run ends.
LEMMA MapsEnd ==
  ASSUME NEW d \in Drivers, pc[d] \in Steps, pc'[d] = "exited",
         sid'[d] = sid[d], sidecar'[d] = sidecar[d],
         \/ rc'[d] \in {"1", "2", "killed"}
         \/ rc'[d] = "0" /\ Fresh(d)
  PROVE  Observed(d)!End
  <1>1. Fresh(d) \in BOOLEAN
    BY DEF Fresh
  <1>2. <<rc'[d], Fresh(d)>> \in Observed(d)!Outcomes
    BY <1>1 DEF Observed!Outcomes
  <1> QED BY <1>2 DEF Observed!End, Observed!Outcomes, Steps, Fresh

\* The other steps are not seen.
LEMMA MapsStutter ==
  ASSUME NEW d \in Drivers, pc'[d] = pc[d] \/ (pc[d] \in Steps /\ pc'[d] \in Steps),
         rc'[d] = rc[d], Fresh(d)' <=> Fresh(d)
  PROVE  UNCHANGED (Observed(d)!vars)
  BY DEF Observed!vars, Steps, Fresh

\* A scenario that was handed out keeps a history.
LEMMA HistoryStays ==
  ASSUME IInv, Next, NEW s \in Scenarios, fate[s] # "none"
  PROVE  fate'[s] # "none"
  <1> USE DEF IInv, TypeOK
  <1>1. ASSUME NEW d \in Drivers, Run(d) PROVE fate'[s] # "none"
    <2>1. CASE Submit(d) \/ Stop(d) \/ DiscardDelete(d)
      <3>1. Told(TRUE) # "none" /\ Told(stopped[d]) # "none"
        BY DEF Told
      <3>2. \E t, told : told # "none" /\ fate' = [fate EXCEPT ![t] = told]
        BY <2>1, <3>1 DEF Submit, Stop, DiscardDelete
      <3> QED BY <3>2
    <2>2. CASE ~(Submit(d) \/ Stop(d) \/ DiscardDelete(d))
      BY <1>1, <2>2 DEF Run, BadArguments, SubmitFails, Arm, Start, Sleep, TryFails, FetchReport,
             FetchFails, DiscardStop, WriteSidecar, Finish
    <2> QED BY <2>1, <2>2
  <1>2. ASSUME NEW d \in Drivers, Begin(d) \/ Kill(d) PROVE fate'[s] # "none"
    BY <1>2 DEF Begin, Kill
  <1>3. CASE LateServed \/ LateDropped \/ Nl6Step \/ (\E t \in Scenarios : OperatorClears(t))
    BY <1>3 DEF LateServed, LateDropped, Nl6Step, OperatorClears
  <1> QED BY <1>1, <1>2, <1>3 DEF Next

\* What a driver's step does to its own place, scenario and sidecar.
LEMMA DriverPlaces ==
  ASSUME IInv, NEW d \in Drivers, Begin(d) \/ Run(d) \/ Kill(d)
  PROVE  /\ \A e \in Drivers : e # d =>
              pc'[e] = pc[e] /\ sid'[e] = sid[e] /\ rc'[e] = rc[e] /\ sidecar'[e] = sidecar[e]
         /\ \/ /\ pc[d] \in {"idle", "exited"} /\ pc'[d] = "submit"
               /\ rc'[d] = "none" /\ sid'[d] = NoScenario /\ sidecar'[d] = sidecar[d]
            \/ /\ pc[d] = "submit" /\ pc'[d] = "arm" /\ rc'[d] = rc[d] /\ sidecar'[d] = sidecar[d]
               /\ sid'[d] \in Scenarios /\ fate[sid'[d]] = "none"
            \/ /\ pc[d] = "write" /\ pc'[d] = "exit" /\ rc'[d] = rc[d]
               /\ sid'[d] = sid[d] /\ sidecar'[d] = sid[d]
            \/ /\ pc[d] \in Steps \ {"exit"} /\ pc'[d] \in Steps \ {"exit"} /\ rc'[d] = rc[d]
               /\ sid'[d] = sid[d] /\ sidecar'[d] = sidecar[d]
            \/ /\ pc[d] \in Steps /\ pc'[d] = "exited" /\ sid'[d] = sid[d] /\ sidecar'[d] = sidecar[d]
               /\ rc'[d] \in {"1", "2", "killed"} \/ (rc'[d] = "0" /\ pc[d] = "exit")
  <1> USE DEF IInv, TypeOK
  <1>1. CASE Begin(d)
    BY <1>1 DEF Begin, Goto
  <1>2. CASE Kill(d)
    BY <1>2 DEF Kill, Exit, Goto
  <1>3. CASE BadArguments(d) \/ SubmitFails(d) \/ FetchFails(d) \/ DiscardDelete(d)
    BY <1>3 DEF BadArguments, SubmitFails, FetchFails, DiscardDelete, Exit, Goto, Steps
  <1>4. CASE Submit(d)
    BY <1>4 DEF Submit, ServeSubmit, FateKnown, Goto
  <1>5. CASE Arm(d) \/ Start(d) \/ Sleep(d)
    BY <1>5 DEF Arm, Start, Sleep, Goto, Steps
  <1>6. CASE Stop(d) \/ TryFails(d) \/ FetchReport(d) \/ DiscardStop(d)
    BY <1>6 DEF Stop, TryFails, FetchReport, DiscardStop, Goto, Steps
  <1>7. CASE WriteSidecar(d)
    BY <1>7 DEF WriteSidecar, Goto
  <1>8. CASE Finish(d)
    <2>1. ExitStatus(d, report[d]) \in {"0", "1", "2"}
      BY DEF ExitStatus
    <2> QED BY <1>8, <2>1 DEF Finish, Exit, Goto, Steps
  <1> QED BY <1>1, <1>2, <1>3, <1>4, <1>5, <1>6, <1>7, <1>8 DEF Run

\* A step of a driver is a step of LoadtestRun, or is not seen.
LEMMA DriverSeen ==
  ASSUME IInv, WrittenAtEnd, Next, NEW d \in Drivers, Begin(d) \/ Run(d) \/ Kill(d)
  PROVE  WrittenAtEnd' /\ \A e \in Drivers : [Observed(e)!Next]_(Observed(e)!vars)
  <1>1. ASSUME NEW e \in Drivers, e # d
        PROVE  /\ sidecar'[e] \in Scenarios => fate'[sidecar'[e]] # "none"
               /\ pc'[e] \in Steps => (Fresh(e)' <=> pc'[e] = "exit")
               /\ UNCHANGED (Observed(e)!vars)
    <2>1. pc'[e] = pc[e] /\ rc'[e] = rc[e] /\ sidecar'[e] = sidecar[e] /\ (Fresh(e)' <=> Fresh(e))
      BY <1>1, DriverPlaces DEF Fresh
    <2> QED BY <2>1, HistoryStays, MapsStutter DEF WrittenAtEnd
  <1>2. /\ sidecar'[d] \in Scenarios => fate'[sidecar'[d]] # "none"
        /\ pc'[d] \in Steps => (Fresh(d)' <=> pc'[d] = "exit")
        /\ Observed(d)!Next \/ UNCHANGED (Observed(d)!vars)
    <2>0. sidecar'[d] = sidecar[d] => (sidecar'[d] \in Scenarios => fate'[sidecar'[d]] # "none")
      BY HistoryStays DEF WrittenAtEnd
    <2>1. CASE /\ pc[d] \in {"idle", "exited"} /\ pc'[d] = "submit"
               /\ rc'[d] = "none" /\ sid'[d] = NoScenario /\ sidecar'[d] = sidecar[d]
      <3>1. Observed(d)!Next
        BY <2>1, MapsBegin DEF Observed!Next
      <3> QED BY <2>0, <2>1, <3>1 DEF Fresh
    <2>2. CASE /\ pc[d] = "submit" /\ pc'[d] = "arm" /\ rc'[d] = rc[d] /\ sidecar'[d] = sidecar[d]
               /\ sid'[d] \in Scenarios /\ fate[sid'[d]] = "none"
      <3>1. ~Fresh(d)'
        BY <2>2 DEF Fresh, WrittenAtEnd
      <3>2. ~Fresh(d)
        BY <2>2 DEF WrittenAtEnd, Steps
      <3>3. UNCHANGED (Observed(d)!vars)
        BY <2>2, <3>1, <3>2, MapsStutter DEF Steps
      <3> QED BY <2>0, <2>2, <3>1, <3>3
    <2>3. CASE /\ pc[d] = "write" /\ pc'[d] = "exit" /\ rc'[d] = rc[d]
               /\ sid'[d] = sid[d] /\ sidecar'[d] = sid[d]
      <3>1. sid[d] \in Scenarios /\ fate[sid[d]] # "none" /\ sid[d] # NoScenario
        BY <2>3 DEF IInv, OwnerKnown, Settled, Scenarios, NoScenario
      <3>2. Fresh(d)' /\ ~Fresh(d)
        BY <2>3, <3>1 DEF Fresh, WrittenAtEnd, Steps
      <3>3. Observed(d)!Next
        BY <2>3, <3>2, MapsWrite DEF Observed!Next, Steps
      <3> QED BY <2>3, <3>1, <3>2, <3>3, HistoryStays
    <2>4. CASE /\ pc[d] \in Steps \ {"exit"} /\ pc'[d] \in Steps \ {"exit"} /\ rc'[d] = rc[d]
               /\ sid'[d] = sid[d] /\ sidecar'[d] = sidecar[d]
      <3>1. ~Fresh(d) /\ ~Fresh(d)'
        BY <2>4 DEF Fresh, WrittenAtEnd
      <3>2. UNCHANGED (Observed(d)!vars)
        BY <2>4, <3>1, MapsStutter
      <3> QED BY <2>0, <2>4, <3>1, <3>2
    <2>5. CASE /\ pc[d] \in Steps /\ pc'[d] = "exited" /\ sid'[d] = sid[d] /\ sidecar'[d] = sidecar[d]
               /\ rc'[d] \in {"1", "2", "killed"} \/ (rc'[d] = "0" /\ pc[d] = "exit")
      <3>1. rc'[d] = "0" /\ pc[d] = "exit" => Fresh(d)
        BY <2>5 DEF WrittenAtEnd
      <3>2. Observed(d)!Next
        BY <2>5, <3>1, MapsEnd DEF Observed!Next
      <3> QED BY <2>0, <2>5, <3>2 DEF Steps
    <2> QED BY <2>1, <2>2, <2>3, <2>4, <2>5, DriverPlaces
  <1>3. ASSUME NEW e \in Drivers PROVE [Observed(e)!Next]_(Observed(e)!vars)
    <2>1. CASE e = d BY <1>2, <2>1
    <2>2. CASE e # d BY <1>1, <2>2
    <2> QED BY <2>1, <2>2
  <1>4. WrittenAtEnd'
    BY <1>1, <1>2 DEF WrittenAtEnd
  <1> QED BY <1>3, <1>4

\* A step in which no driver's place and sidecar change is not seen.
LEMMA QuietSeen ==
  ASSUME IInv, WrittenAtEnd, UNCHANGED <<pc, sid, rc, sidecar>>,
         \A s \in Scenarios : fate[s] # "none" => fate'[s] # "none"
  PROVE  WrittenAtEnd' /\ \A e \in Drivers : [Observed(e)!Next]_(Observed(e)!vars)
  <1>1. \A e \in Drivers : Fresh(e)' <=> Fresh(e)
    BY DEF Fresh
  <1>2. \A e \in Drivers : UNCHANGED (Observed(e)!vars)
    BY <1>1, MapsStutter
  <1>3. WrittenAtEnd'
    BY <1>1 DEF WrittenAtEnd
  <1> QED BY <1>2, <1>3

\* Every driver implements LoadtestRun, on which the experiments rely: one sidecar
\* per run, none before a run that ends with 0, and an exit status only at the end.
THEOREM ImplementsRun == Spec => RunsAsObserved
  <1> DEFINE Starts == \A d \in Drivers : Observed(d)!Init
             Seen   == \A d \in Drivers : [Observed(d)!Next]_(Observed(d)!vars)
  <1>1. Init => WrittenAtEnd /\ Starts
    BY DEF Init, WrittenAtEnd, Fresh, Observed!Init, Scenarios, NoScenario, Steps
  <1>2. IInv /\ WrittenAtEnd /\ [Next]_vars => WrittenAtEnd' /\ [Seen]_vars
    <2> SUFFICES ASSUME IInv, WrittenAtEnd, [Next]_vars
                 PROVE  WrittenAtEnd' /\ Seen
      OBVIOUS
    <2>1. ASSUME NEW d \in Drivers, Begin(d) \/ Run(d) \/ Kill(d), Next
          PROVE  WrittenAtEnd' /\ Seen
      BY <2>1, DriverSeen
    <2>2. CASE Next /\ (LateServed \/ LateDropped \/ Nl6Step \/ \E s \in Scenarios : OperatorClears(s))
      <3>1. UNCHANGED <<pc, sid, rc, sidecar>>
        BY <2>2 DEF LateServed, LateDropped, Nl6Step, OperatorClears, runvars
      <3> QED BY <2>2, <3>1, HistoryStays, QuietSeen
    <2>3. CASE UNCHANGED vars
      <3>1. UNCHANGED <<pc, sid, rc, sidecar, fate>>
        BY <2>3 DEF vars
      <3> QED BY <3>1, QuietSeen
    <2> QED BY <2>1, <2>2, <2>3 DEF Next
  <1>3. Spec => []WrittenAtEnd /\ Starts /\ [][Seen]_vars
    <2> HIDE DEF Starts, Seen
    <2> QED BY <1>1, <1>2, Invariance, PTL DEF Spec
  <1> QED BY <1>3 DEF RunsAsObserved
=============================================================================
