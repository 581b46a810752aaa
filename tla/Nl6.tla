--------------------------------- MODULE Nl6 ---------------------------------
(***************************************************************************)
(* The scenario API of the nl6 traffic generator, as its callers see it.   *)
(* nl6 is a service outside the repository: what is modelled here is what  *)
(* deployments/roles/nl6_loadtest/files/nl6_loadtest.py relies on and what *)
(* its README states.  nl6 keeps every scenario in memory, has at most one *)
(* active scenario for the whole fleet, and forgets everything on restart. *)
(***************************************************************************)
EXTENDS Naturals

CONSTANTS
    MaxScenarios,  \* bound: the scenarios nl6 accepts in a behaviour
    Devices,       \* the number of devices a submission asks for
    Ledgers        \* the summaries a closed scenario may report

\* Identifiers, in the order nl6 hands them out; none is handed out twice.
Scenarios == 1..MaxScenarios
NoScenario == 0

LedgerFields ==
    {"emitted", "in_window", "drain", "send_failures", "dropped", "suppressed_pre_window"}

ASSUME MaxScenariosAssumption == MaxScenarios \in Nat
ASSUME DevicesAssumption == Devices \in Nat \ {0}
ASSUME LedgersAssumption ==
    /\ Ledgers # {}
    /\ Ledgers \subseteq [LedgerFields -> Nat]

VARIABLES
    phase,               \* what nl6 knows of each scenario
    participants_armed,  \* the devices the arm call reserved
    ledger               \* the summary, final once the scenario is closed

nl6vars == <<phase, participants_armed, ledger>>

\* "closed": the window and the drain ran to their end; "stopped": a stop call
\* ended the scenario first; "deleted": a DELETE; "lost": nl6 restarted.
Phases == {"absent", "submitted", "armed", "running", "closed", "stopped", "deleted", "lost"}
Active == {"submitted", "armed", "running"}
Terminal == {"closed", "stopped"}

EmptyLedger == [f \in LedgerFields |-> 0]

Nl6TypeOK ==
    /\ phase \in [Scenarios -> Phases]
    /\ participants_armed \in [Scenarios -> 0..Devices]
    /\ ledger \in [Scenarios -> Ledgers \cup {EmptyLedger}]

Nl6Init ==
    /\ phase = [s \in Scenarios |-> "absent"]
    /\ participants_armed = [s \in Scenarios |-> 0]
    /\ ledger = [s \in Scenarios |-> EmptyLedger]

NoneActive == \A s \in Scenarios : phase[s] \notin Active

-----------------------------------------------------------------------------
(* Accepted calls: each is enabled exactly when nl6 accepts the call. *)

ServeSubmit(s) ==
    /\ NoneActive
    /\ phase[s] = "absent"
    /\ \A t \in 1..(s - 1) : phase[t] # "absent"
    /\ phase' = [phase EXCEPT ![s] = "submitted"]
    /\ UNCHANGED <<participants_armed, ledger>>

\* An arm call may reserve fewer devices than were asked for, or none.
ServeArm(s) ==
    /\ phase[s] = "submitted"
    /\ phase' = [phase EXCEPT ![s] = "armed"]
    /\ \E n \in 0..Devices : participants_armed' = [participants_armed EXCEPT ![s] = n]
    /\ UNCHANGED ledger

ServeStart(s) ==
    /\ phase[s] = "armed"
    /\ phase' = [phase EXCEPT ![s] = "running"]
    /\ UNCHANGED <<participants_armed, ledger>>

\* Idempotent: a closed or stopped scenario keeps the ledger it has.
ServeStop(s) ==
    /\ phase[s] \in Active \cup Terminal
    /\ IF phase[s] \in Active
         THEN /\ phase' = [phase EXCEPT ![s] = "stopped"]
              /\ \E l \in Ledgers : ledger' = [ledger EXCEPT ![s] = l]
         ELSE UNCHANGED <<phase, ledger>>
    /\ UNCHANGED participants_armed

\* A running scenario cannot be deleted.
ServeDelete(s) ==
    /\ phase[s] \in {"submitted", "armed"} \cup Terminal
    /\ phase' = [phase EXCEPT ![s] = "deleted"]
    /\ ledger' = [ledger EXCEPT ![s] = EmptyLedger]
    /\ UNCHANGED participants_armed

ServeReport(s) ==
    /\ phase[s] \in Terminal
    /\ UNCHANGED nl6vars

Serve(op, s) ==
    \/ op = "arm" /\ ServeArm(s)
    \/ op = "start" /\ ServeStart(s)
    \/ op = "stop" /\ ServeStop(s)
    \/ op = "delete" /\ ServeDelete(s)
    \/ op = "report" /\ ServeReport(s)

\* The answers that are not 2xx.  Whether nl6 stops a scenario that never
\* started, or refuses to, is not known here: both are possible.
Refuses(op, s) ==
    \/ op = "arm" /\ phase[s] # "submitted"
    \/ op = "start" /\ phase[s] # "armed"
    \/ op = "stop" /\ phase[s] \notin {"running"} \cup Terminal
    \/ op = "delete" /\ phase[s] \notin {"submitted", "armed"} \cup Terminal
    \/ op = "report" /\ phase[s] \notin Terminal

-----------------------------------------------------------------------------
(* What nl6 does by itself. *)

\* The window and the drain are over, or the abort predicate fired.
AutoClose(s) ==
    /\ phase[s] = "running"
    /\ phase' = [phase EXCEPT ![s] = "closed"]
    /\ \E l \in Ledgers : ledger' = [ledger EXCEPT ![s] = l]
    /\ UNCHANGED participants_armed

\* A restart of the service empties its memory.
Restart ==
    /\ \E s \in Scenarios : phase[s] \in Active \cup Terminal
    /\ phase' = [s \in Scenarios |->
                   IF phase[s] \in Active \cup Terminal THEN "lost" ELSE phase[s]]
    /\ ledger' = [s \in Scenarios |-> EmptyLedger]
    /\ UNCHANGED participants_armed
=============================================================================
