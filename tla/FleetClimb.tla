------------------------------ MODULE FleetClimb ------------------------------
(***************************************************************************)
(* edge_search.py and fleet_sweep.py: two drivers of the same lab.  Both   *)
(* grow the fleet of nl6, provision it in OpenNMS, settle on the count of  *)
(* collected services, and measure; edge_search first deletes the fleet,   *)
(* since nl6 cannot shrink one, and injects latency, and retries what      *)
(* fails; fleet_sweep adds to the fleet it finds.  Sizes are counted in    *)
(* octets of 250 devices, of which OpenNMS collects one service each.      *)
(***************************************************************************)
EXTENDS Integers, FiniteSets, Sequences

CONSTANTS
    START, STEP, CAP,  \* edge_search: the first fleet, the step and the last fleet
    RUNGS,             \* fleet_sweep: targets and the octets added for each
    Attempts,          \* POSTs of one octet before edge_search gives up
    ClearPolls,        \* readings of nl6's total after the DELETE
    SettlePolls, Hold, \* rows of settle, and how many in a row are wanted
    MaxRuns,           \* bound: runs of either program
    MaxLate            \* bound: calls nl6 may still carry out at once

ASSUME ClimbAssumption ==
    /\ START \in Nat \ {0} /\ STEP \in Nat \ {0} /\ CAP \in Nat
    /\ RUNGS \in Seq([target: Nat, octets: SUBSET Nat])
    /\ \A i \in DOMAIN RUNGS : IsFiniteSet(RUNGS[i].octets)
    /\ \A i, j \in DOMAIN RUNGS : i < j => RUNGS[i].target < RUNGS[j].target
    /\ Attempts \in Nat \ {0} /\ ClearPolls \in Nat \ {0}
    /\ SettlePolls \in Nat \ {0} /\ Hold \in Nat \ {0} /\ MaxRuns \in Nat /\ MaxLate \in Nat

Octets == 0..(CAP + STEP) \cup UNION {RUNGS[i].octets : i \in DOMAIN RUNGS}
Blocks(n) == 0..(n - 1)

VARIABLES
    devices,    \* nl6: the octets that exist
    late,       \* nl6: calls given up on that it may still carry out; "DELETE" is one
    nodes,      \* OpenNMS: the octets whose services are collected
    wanted,     \* OpenNMS: the requisition that is being imported
    importing,  \* OpenNMS: "no", "asked" (prov.sh runs) or "running"
    netem,      \* the latency is injected
    pc, program,
    rung,       \* the fleet of edge_search, the index into RUNGS of fleet_sweep
    todo,       \* make_batches, grow: octets still to post
    attempt, polls, held,
    settled,    \* what settle returned; edge_search drops it
    rows,       \* the windows of this run
    lost,       \* history: devices vanished since the fleet was cleared
    imported,   \* history: the import asked for on this rung was begun
    sure,       \* history: and it had ended at the last row of settle
    runs

nl6 == <<devices, late>>
opennms == <<nodes, wanted, importing>>
counters == <<attempt, polls, held>>
vars == <<nl6, opennms, netem, pc, program, rung, todo, counters, settled, rows, lost, imported, sure, runs>>

Edge == program = "edge_search"
Target == IF Edge THEN rung ELSE RUNGS[rung].target
Running == {"delete", "clear", "grow", "provision", "settle", "inject", "measure"}
DELETE == -1

Init ==
    /\ devices = {} /\ late = {} /\ nodes = {} /\ wanted = {} /\ importing = "no"
    /\ netem = FALSE /\ pc = "idle" /\ program = "edge_search" /\ rung = 0 /\ todo = {}
    /\ attempt = 0 /\ polls = 0 /\ held = 0 /\ settled = FALSE /\ rows = <<>>
    /\ lost = FALSE /\ imported = FALSE /\ sure = FALSE /\ runs = 0

Goto(label) == pc' = label
driver == <<pc, program, rung, todo, counters, settled, rows, sure, runs>>

-----------------------------------------------------------------------------
(* nl6 and OpenNMS. *)

LateServed ==
    /\ \E call \in late :
         /\ late' = late \ {call}
         /\ devices' = IF call = DELETE THEN {} ELSE devices \cup {call}
         /\ lost' = (lost \/ (call = DELETE /\ pc \in Running \ {"delete"}))
    /\ UNCHANGED <<opennms, netem, imported, driver>>

LateDropped ==
    /\ \E call \in late : late' = late \ {call}
    /\ UNCHANGED <<devices, opennms, netem, driver, lost, imported>>

Nl6Restarts ==
    /\ devices # {}
    /\ devices' = {} /\ late' = {} /\ lost' = (lost \/ pc \in Running \ {"delete"})
    /\ UNCHANGED <<opennms, netem, imported, driver>>

\* prov.sh makes the requisition of the devices it finds, or fails; the import then
\* adds and deletes nodes.
ImportBegins ==
    /\ importing = "asked"
    /\ \/ importing' = "running" /\ wanted' = devices /\ imported' = TRUE
       \/ importing' = "no" /\ UNCHANGED <<wanted, imported>>
    /\ UNCHANGED <<nl6, nodes, netem, driver, lost>>

Import ==
    /\ importing = "running"
    /\ \/ \E o \in wanted \ nodes : nodes' = nodes \cup {o} /\ UNCHANGED importing
       \/ \E o \in nodes \ wanted : nodes' = nodes \ {o} /\ UNCHANGED importing
       \/ nodes = wanted /\ importing' = "no" /\ UNCHANGED nodes
    /\ UNCHANGED <<nl6, wanted, netem, driver, lost, imported>>

-----------------------------------------------------------------------------
(* The drivers. *)

BeginEdge ==
    /\ program' = "edge_search" /\ rung' = START /\ todo' = Blocks(START)
    /\ Goto("delete")

BeginSweep ==
    /\ RUNGS # <<>>
    /\ program' = "fleet_sweep" /\ rung' = 1 /\ todo' = RUNGS[1].octets
    /\ Goto(IF RUNGS[1].octets = {} THEN "settle" ELSE "grow")

Begin ==
    /\ pc \notin Running /\ runs < MaxRuns /\ runs' = runs + 1
    /\ BeginEdge \/ BeginSweep
    /\ attempt' = 0 /\ polls' = 0 /\ held' = 0 /\ settled' = FALSE /\ rows' = <<>>
    /\ lost' = (lost /\ devices \cup late # {}) /\ imported' = FALSE /\ sure' = FALSE
    /\ UNCHANGED <<nl6, opennms, netem>>

\* The call is lost, or will be carried out later.
GivenUp(call) == {late} \cup {more \in {late \cup {call}} : Cardinality(more) <= MaxLate}

\* A DELETE that takes too long may be carried out when the new fleet is there.
Delete ==
    /\ pc = "delete"
    /\ \/ devices' = {} /\ UNCHANGED late
       \/ late' \in GivenUp(DELETE) /\ UNCHANGED devices
    /\ Goto("clear")
    /\ UNCHANGED <<opennms, netem, program, rung, todo, counters, settled, rows, lost, imported, sure, runs>>

Cleared(total) == total = 0

\* Goes on after the last reading, whatever it says; -1 for one that failed.
AwaitClear ==
    /\ pc = "clear"
    /\ \E total \in {Cardinality(devices), -1} :
         IF Cleared(total) \/ polls + 1 = ClearPolls
           THEN polls' = 0 /\ Goto("grow")
           ELSE polls' = polls + 1 /\ UNCHANGED pc
    /\ UNCHANGED <<nl6, opennms, netem, program, rung, todo, attempt, held, settled, rows, lost, imported, sure, runs>>

NextOctet == CHOOSE o \in todo : \A other \in todo : o <= other

\* Mutant: the retries of an octet are not counted.
TriesForever == UNCHANGED <<attempt, pc>>

\* Mutant: the last failed POST of an octet does not end the program.
TriesAndGoesOn ==
    IF attempt + 1 < Attempts
      THEN attempt' = attempt + 1 /\ UNCHANGED pc
      ELSE attempt' = 0 /\ Goto("provision")

\* make_batches: a POST that was not heard to succeed is made again, four times.
TriesAgain ==
    IF attempt + 1 < Attempts
      THEN attempt' = attempt + 1 /\ UNCHANGED pc
      ELSE attempt' = 0 /\ Goto("failed")

\* grow: it ends the program.
GivesUp == UNCHANGED attempt /\ Goto("failed")

\* One POST of make_batches or grow.
Post ==
    /\ pc = "grow" /\ todo # {}
    /\ \/ /\ devices' = devices \cup {NextOctet}
          /\ todo' = todo \ {NextOctet} /\ attempt' = 0
          /\ UNCHANGED <<late, pc>>
       \/ /\ devices' \in {devices, devices \cup {NextOctet}}
          /\ late' \in GivenUp(NextOctet)
          /\ IF Edge THEN TriesAgain ELSE GivesUp
          /\ UNCHANGED todo
    /\ UNCHANGED <<opennms, netem, program, rung, polls, held, settled, rows, lost, imported, sure, runs>>

Grown ==
    /\ pc = "grow" /\ todo = {}
    /\ Goto("provision")
    /\ UNCHANGED <<nl6, opennms, netem, program, rung, todo, counters, settled, rows, lost, imported, sure, runs>>

\* prov.sh is started in the background and not waited for.
Provision ==
    /\ pc = "provision"
    /\ importing' \in {importing, IF importing = "no" THEN "asked" ELSE importing}
    /\ polls' = 0 /\ held' = 0 /\ settled' = FALSE /\ imported' = FALSE /\ sure' = FALSE
    /\ Goto("settle")
    /\ UNCHANGED <<nl6, nodes, wanted, netem, program, rung, todo, attempt, rows, lost, runs>>

\* Mutant: the services of another fleet may be there too.
CountIsExactFromBelow(services) == services >= Target

\* Half a percent is left out.  edge_search wants the count on both sides, since
\* nodes of the fleet it deleted may still be collected.
CountIsExact(services) == services = Target

\* fleet_sweep wants it from below.
CountHasArrived(services) == services >= Target

Arrived(services) == IF Edge THEN CountIsExact(services) ELSE CountHasArrived(services)

\* Where a run goes when settle has returned.
AfterSettle ==
    IF Edge /\ rows = <<>> THEN "inject"
    ELSE IF Edge /\ rung > CAP THEN "complete"
    ELSE "measure"

\* One row of settle.  A query without an answer is a 0: of the services, which
\* have then not arrived, and of the import, which has then ended.
SettleRow ==
    /\ pc = "settle"
    /\ \E services \in {Cardinality(nodes), 0}, idle \in {importing # "running", TRUE} :
         LET row == IF Arrived(services) /\ idle THEN held + 1 ELSE 0 IN
         /\ sure' = (imported /\ importing = "no")
         /\ IF row = Hold \/ polls + 1 = SettlePolls
              THEN /\ polls' = 0 /\ held' = 0 /\ settled' = (row = Hold)
                   /\ Goto(AfterSettle)
              ELSE /\ polls' = polls + 1 /\ held' = row
                   /\ UNCHANGED <<settled, pc>>
    /\ UNCHANGED <<nl6, opennms, netem, program, rung, todo, attempt, rows, lost, imported, runs>>

\* tc, over ssh: what it prints is logged and not read.
Inject ==
    /\ pc = "inject"
    /\ netem' \in {netem, TRUE}
    /\ Goto("measure")
    /\ UNCHANGED <<nl6, opennms, program, rung, todo, counters, settled, rows, lost, imported, sure, runs>>

\* What a window can show: a series that Prometheus does not have is "unread".
Windows == [queue: {"drains", "full", "unread"}, ratio: {"whole", "short", "unread"}, pressed: BOOLEAN]

\* Mutant: a window without the queue's series passes.
CompletesUnlessFull(w) == w.queue # "full" /\ w.ratio = "whole"

\* edge_search: what was not read does not pass.
Completes(w) == w.queue = "drains" /\ w.ratio = "whole"

\* fleet_sweep: what was not read is no knee; a host that is pressed is.
Knee(w) == w.queue = "full" \/ w.ratio = "short" \/ w.pressed

\* Mutant: a knee does not end the sweep.
GoesOnAfterKnee(pass) == rung < Len(RUNGS)

\* A knee ends the sweep, as does the last rung; an edge ends the search, which
\* still grows past its last fleet.
GoesOn(pass) == pass /\ rung < Len(RUNGS)
More(pass) == IF Edge THEN pass ELSE GoesOn(pass)

NextOctets == IF Edge THEN rung..(rung + STEP - 1) ELSE RUNGS[rung + 1].octets

\* measure, with a Prometheus that answers, and the rest of the loop.
Measure ==
    /\ pc = "measure"
    /\ \E w \in Windows :
         LET pass == IF Edge THEN Completes(w) ELSE ~Knee(w) IN
         /\ rows' = Append(rows, [fleet |-> Target, PASS |-> pass, drains |-> w.queue = "drains"])
         /\ IF More(pass)
              THEN /\ rung' = (IF Edge THEN rung + STEP ELSE rung + 1)
                   /\ todo' = NextOctets
                   /\ Goto(IF NextOctets = {} THEN "settle" ELSE "grow")
              ELSE UNCHANGED <<rung, todo>> /\ Goto("complete")
    /\ UNCHANGED <<nl6, opennms, netem, program, counters, settled, lost, imported, sure, runs>>

\* A query or a call over ssh raises, or the operator ends the program.
Killed ==
    /\ pc \in Running
    /\ Goto("failed")
    /\ UNCHANGED <<nl6, opennms, netem, program, rung, todo, counters, settled, rows, lost, imported, sure, runs>>

Drive == Delete \/ AwaitClear \/ Post \/ Grown \/ Provision \/ SettleRow \/ Inject \/ Measure
Lab == LateServed \/ LateDropped \/ Nl6Restarts \/ ImportBegins \/ Import
Next == Lab \/ Begin \/ Drive \/ Killed

Spec == Init /\ [][Next]_vars

\* Each wait of the drivers is bounded.
FairSpec == Spec /\ WF_vars(Drive)

-----------------------------------------------------------------------------
(* What a window may be read for. *)

\* A fleet that edge_search settled on, when the import of the rung had been made
\* and nl6 has lost no device, is exactly the rung: OpenNMS collects it and nothing
\* else, although the DELETE may have been lost and calls given up on may still have
\* been carried out.
SettledFleetIsTheRung ==
    pc \in {"inject", "measure"} /\ Edge /\ settled /\ sure /\ ~lost =>
        nodes = Blocks(rung) /\ Blocks(rung) \subseteq devices

\* The edge is one step above a fleet whose queue was seen to drain, or the first,
\* and a sweep ends at its knee: no row follows one that did not pass, and fleets
\* rise.
RowsEndAtTheEdge ==
    \A i, j \in DOMAIN rows : i < j =>
        /\ rows[i].fleet < rows[j].fleet
        /\ rows[i].PASS
        /\ Edge => rows[i].drains

\* A run ends, whatever nl6 and OpenNMS do.
ClimbEnds == pc \in Running ~> pc \notin Running
=============================================================================
