------------------------------ MODULE KneeSearch ------------------------------
(***************************************************************************)
(* knee_search.py: grow the simulated fleet rung by rung, provision it in  *)
(* OpenNMS, wait until the database shows it scanned, and measure, until a *)
(* rung fails.  Sizes are counted in blocks of 250 devices, one /24 each:  *)
(* block o stands for the devices of octet o in nl6 and for their nodes in *)
(* OpenNMS.                                                                *)
(***************************************************************************)
EXTENDS Integers, FiniteSets

CONSTANTS
    Start, Cap,           \* --start and --cap
    Step,                 \* --step
    FineAbove, FineStep,  \* --fine-above (0: never) and --fine-step
    Attempts,             \* POSTs of one octet before the search gives up
    MaxPolls,             \* rows wait_scans reads before it gives up
    StuckLimit,           \* rows without progress before it repairs
    PerBlock,             \* interfaces the nodes of a block hold when all is well
    MaxIfs,               \* bound: interfaces found on the nodes of a block
    MaxOthers,            \* bound: interfaces of nodes of other requisitions
    MaxLate,              \* bound: POSTs given up on that nl6 may still carry out
    MaxSearches           \* bound: searches in a behaviour

ASSUME LadderAssumption ==
    /\ Start \in Nat /\ Cap \in Nat /\ FineAbove \in Nat
    /\ Step \in Nat \ {0} /\ FineStep \in Nat \ {0}
ASSUME LimitsAssumption ==
    /\ Attempts \in Nat \ {0} /\ MaxPolls \in Nat \ {0} /\ StuckLimit \in Nat \ {0}
    /\ MaxLate \in Nat /\ MaxSearches \in Nat
    /\ PerBlock \in Nat /\ MaxIfs \in Nat /\ MaxOthers \in Nat

VARIABLES
    devices,      \* nl6: the octets that exist
    late,         \* POSTs without a reply that nl6 may still carry out
    requisition,  \* OpenNMS: the octets of the requisition
    importing,    \* OpenNMS: nodes a running import has still to add
    doomed,       \* OpenNMS: nodes whose DELETE was accepted and not carried out yet
    node,         \* OpenNMS: what the database holds of each octet
    found,        \* OpenNMS: the SNMP interfaces of the nodes of each octet
    others,       \* OpenNMS: those of the nodes of other requisitions
    pc,
    fleet,        \* the last rung reached
    target,       \* the fleet grown to or waited for
    octet,        \* grow: the octet posted next
    attempt,      \* grow: POSTs of it that failed
    polls, stuck, \* wait_scans
    reconciled,   \* history: what wait_scans returned; its callers drop it
    passed, knee, \* the rungs of this search that passed, and the one that did not
    lost,         \* history: nl6 restarted under a search and was not emptied since
    searches      \* history: searches begun

nl6 == <<devices, late>>
opennms == <<requisition, importing, doomed, node, found, others>>
ladder == <<fleet, passed, knee>>
growth == <<octet, attempt>>
waiting == <<polls, stuck, reconciled>>
vars == <<nl6, opennms, ladder, growth, waiting, pc, target, lost, searches>>

Max2(a, b) == IF a > b THEN a ELSE b
TopFleet == Max2(Start, Cap)
Octets == 0..(TopFleet - 1)
Blocks(n) == 0..(n - 1)

\* While lastcapsdpoll is null a node is "queued" for its scan, "scanning", or
\* "raced": no scan will come.
NodeStates == {"absent", "queued", "scanning", "raced", "scanned"}
Unscanned(o) == node[o] \in {"queued", "scanning", "raced"}
Running == {"begin", "post", "provision", "scan", "repair", "reimport", "quiet", "window"}
NoKnee == -1

TypeOK ==
    /\ devices \subseteq Octets /\ late \subseteq Octets
    /\ requisition \subseteq Octets /\ importing \subseteq Octets /\ doomed \subseteq Octets
    /\ node \in [Octets -> NodeStates]
    /\ found \in [Octets -> 0..MaxIfs] /\ others \in 0..MaxOthers
    /\ pc \in Running \cup {"idle", "failed", "complete"}
    /\ fleet \in 0..TopFleet /\ target \in 0..TopFleet
    /\ octet \in -1..TopFleet /\ attempt \in 0..(Attempts - 1)
    /\ polls \in 0..(MaxPolls - 1) /\ stuck \in 0..(StuckLimit - 1)
    /\ reconciled \in BOOLEAN
    /\ passed \subseteq 0..Cap /\ knee \in {NoKnee} \cup 0..Cap
    /\ lost \in BOOLEAN /\ searches \in 0..MaxSearches

Init ==
    /\ devices = {} /\ late = {}
    /\ requisition = {} /\ importing = {} /\ doomed = {}
    /\ node = [o \in Octets |-> "absent"]
    /\ found = [o \in Octets |-> 0] /\ others = 0
    /\ pc = "idle" /\ fleet = 0 /\ target = 0
    /\ octet = 0 /\ attempt = 0 /\ polls = 0 /\ stuck = 0 /\ reconciled = FALSE
    /\ passed = {} /\ knee = NoKnee
    /\ lost = FALSE /\ searches = 0

-----------------------------------------------------------------------------
(* nl6: nothing of it is persisted. *)

LateServed ==
    /\ \E o \in late : late' = late \ {o} /\ devices' = devices \cup {o}
    /\ UNCHANGED <<opennms, ladder, growth, waiting, pc, target, lost, searches>>

LateDropped ==
    /\ \E o \in late : late' = late \ {o}
    /\ UNCHANGED <<devices, opennms, ladder, growth, waiting, pc, target, lost, searches>>

Nl6Restart ==
    /\ devices # {}
    /\ devices' = {} /\ late' = {} /\ lost' = (pc \in Running)
    /\ UNCHANGED <<opennms, ladder, growth, waiting, pc, target, searches>>

-----------------------------------------------------------------------------
(* OpenNMS: imports, scans and deletions are carried out in the background. *)

\* The import race: a node that is added may never get its initial scan.
AddNode ==
    /\ \E o \in importing :
         /\ importing' = importing \ {o}
         /\ IF node[o] = "absent"
              THEN \E s \in {"queued", "raced"} : node' = [node EXCEPT ![o] = s]
              ELSE UNCHANGED node
    /\ UNCHANGED <<nl6, requisition, doomed, found, others, ladder, growth, waiting, pc, target, lost, searches>>

\* A scan writes the interfaces it finds as it goes: some, none when it cannot
\* reach the simulated network, or more than the devices are to have.
ScanNode ==
    /\ \E o \in Octets :
         \/ node[o] = "queued" /\ node' = [node EXCEPT ![o] = "scanning"] /\ UNCHANGED found
         \/ node[o] = "scanning" /\ node' = [node EXCEPT ![o] = "scanned"] /\ UNCHANGED found
         \/ /\ node[o] = "scanning"
            /\ \E n \in 0..MaxIfs : found' = [found EXCEPT ![o] = n]
            /\ UNCHANGED node
    /\ UNCHANGED <<nl6, requisition, importing, doomed, others, ladder, growth, waiting, pc, target, lost, searches>>

DeleteNode ==
    /\ \E o \in doomed :
         /\ doomed' = doomed \ {o}
         /\ node' = [node EXCEPT ![o] = "absent"]
         /\ found' = [found EXCEPT ![o] = 0]
    /\ UNCHANGED <<nl6, requisition, importing, others, ladder, growth, waiting, pc, target, lost, searches>>

\* The Core monitors other nodes than the fleet, and what it knows of them changes.
OtherNodes ==
    /\ others' \in 0..MaxOthers
    /\ UNCHANGED <<nl6, requisition, importing, doomed, node, found, ladder, growth, waiting, pc, target, lost, searches>>

-----------------------------------------------------------------------------
(* __main__, up to the first rung. *)

Goto(step) == pc' = step

\* The search appends to its files, and keeps nothing else of an earlier one.
Begin ==
    /\ pc \in {"idle", "failed", "complete"}
    /\ searches < MaxSearches
    /\ searches' = searches + 1
    /\ Goto("begin")
    /\ fleet' = 0 /\ target' = 0 /\ octet' = 0 /\ attempt' = 0
    /\ polls' = 0 /\ stuck' = 0 /\ reconciled' = FALSE
    /\ passed' = {} /\ knee' = NoKnee /\ lost' = (lost /\ devices \cup late # {})
    /\ UNCHANGED <<nl6, opennms>>

\* nl6_total: -1 when the answer cannot be read.
Totals == {Cardinality(devices), -1}

\* The assertions are over; fleet // 250 is where growth goes on.
ReadFleet ==
    /\ pc = "begin"
    /\ \E total \in Totals :
         CASE total > Start ->
                Goto("failed") /\ UNCHANGED <<target, octet>>
           [] total < Start ->
                Goto("post") /\ target' = Start /\ octet' = total
           [] total = Start ->
                Goto("scan") /\ target' = Start /\ UNCHANGED octet
    /\ UNCHANGED <<nl6, opennms, ladder, attempt, waiting, lost, searches>>

-----------------------------------------------------------------------------
(* grow() *)

NextOctet ==
    /\ attempt' = 0
    /\ IF octet + 1 = target
         THEN Goto("provision") /\ UNCHANGED octet
         ELSE octet' = octet + 1 /\ UNCHANGED pc

\* An octet that exists may be refused, or answered with success.
Posted ==
    /\ pc = "post" /\ octet >= 0
    /\ devices' = devices \cup {octet}
    /\ NextOctet
    /\ UNCHANGED <<late, opennms, ladder, waiting, target, lost, searches>>

\* Mutant: the octet is skipped when its attempts are used up.
GiveUpSkips ==
    IF attempt + 1 < Attempts THEN attempt' = attempt + 1 /\ UNCHANGED <<octet, pc>>
    ELSE NextOctet

\* Mutant: one attempt too many.
GiveUpLater ==
    IF attempt < Attempts
      THEN attempt' = attempt + 1 /\ UNCHANGED <<octet, pc>>
      ELSE Goto("failed") /\ UNCHANGED <<attempt, octet>>

\* Mutant: the attempts start over and the octet is posted for ever.
GiveUpNever == attempt' = (attempt + 1) % Attempts /\ UNCHANGED <<octet, pc>>

\* Retry, and in the end FATAL.
GiveUp ==
    IF attempt + 1 < Attempts
      THEN attempt' = attempt + 1 /\ UNCHANGED <<octet, pc>>
      ELSE Goto("failed") /\ UNCHANGED <<attempt, octet>>

\* nl6 says no, or nothing came back and nl6 has created the octet, will create
\* it later, or never does.
PostFails ==
    /\ pc = "post"
    /\ \/ UNCHANGED nl6
       \/ octet >= 0 /\ devices' = devices \cup {octet} /\ UNCHANGED late
       \/ /\ octet >= 0 /\ Cardinality(late) < MaxLate
          /\ late' = late \cup {octet} /\ UNCHANGED devices
    /\ GiveUp
    /\ UNCHANGED <<opennms, ladder, waiting, target, lost, searches>>

-----------------------------------------------------------------------------
(* provision(): a script that makes a requisition of nl6's devices and has it *)
(* imported, if it is there; only its last line is logged.                    *)

Imported ==
    /\ requisition' = devices
    /\ importing' = {o \in devices : node[o] = "absent"}
    /\ node' = [o \in Octets |-> IF o \in devices THEN node[o] ELSE "absent"]
    /\ found' = [o \in Octets |-> IF o \in devices THEN found[o] ELSE 0]
    /\ UNCHANGED others
    /\ doomed' = doomed \cap devices

Provision ==
    /\ pc = "provision"
    /\ \/ Imported
       \/ UNCHANGED opennms
    /\ Goto("scan")
    /\ polls' = 0 /\ stuck' = 0
    /\ UNCHANGED <<nl6, ladder, growth, reconciled, target, lost, searches>>

-----------------------------------------------------------------------------
(* wait_scans(): one row of three counts per turn. *)

active == Cardinality({o \in Octets : node[o] # "absent"})
unscanned == Cardinality({o \in Octets : Unscanned(o)})

\* The interfaces of the octets below each, with those of the other requisitions:
\* the third count joins every node, whatever requisition it came from.
IfsBelow[o \in 0..TopFleet] == IF o = 0 THEN others ELSE IfsBelow[o - 1] + found[o - 1]
ifs == IfsBelow[TopFleet]

\* Mutant: the service gauge's view, which counts nodes only.
ShowsScannedByNodes(expected) == active = expected /\ unscanned = 0

ShowsScanned(expected) == active = expected /\ unscanned = 0 /\ ifs = expected * PerBlock

\* "Scans done everywhere else": one sum, that scans under way can add up to as well.
ShowsStuck(expected) ==
    active = expected /\ unscanned > 0 /\ ifs = (expected - unscanned) * PerBlock

\* The result reaches nobody: after the last row the search goes on as well.
Return(result) ==
    /\ reconciled' = result
    /\ Goto("quiet")
    /\ polls' = 0 /\ stuck' = 0

NextTurn(rows) ==
    IF polls + 1 = MaxPolls THEN Return(FALSE)
    ELSE polls' = polls + 1 /\ stuck' = rows /\ Goto("scan") /\ UNCHANGED reconciled

\* The row does not parse: no answer, or not three numbers.
PollUnread ==
    /\ pc = "scan"
    /\ NextTurn(stuck)
    /\ UNCHANGED <<nl6, opennms, ladder, growth, target, lost, searches>>

Poll ==
    /\ pc = "scan"
    /\ IF ShowsScanned(target)
         THEN Return(TRUE)
         ELSE IF ~ShowsStuck(target) THEN NextTurn(0)
         ELSE IF stuck + 1 < StuckLimit THEN NextTurn(stuck + 1)
         ELSE Goto("repair") /\ stuck' = 0 /\ UNCHANGED <<polls, reconciled>>
    /\ UNCHANGED <<nl6, opennms, ladder, growth, target, lost, searches>>

\* fix_unscanned(): every node without a scan, of which OpenNMS accepts the
\* deletion of some.  Deletions are carried out later.
DeleteUnscanned ==
    /\ pc = "repair"
    /\ \E accepted \in SUBSET {o \in Octets : Unscanned(o)} : doomed' = doomed \cup accepted
    /\ Goto("reimport")
    /\ UNCHANGED <<nl6, requisition, importing, node, found, others, ladder, growth, waiting, target, lost, searches>>

\* Five seconds later: an import without rescan adds what is absent now.
Reimport ==
    /\ pc = "reimport"
    /\ \/ importing' = importing \cup {o \in requisition : node[o] = "absent"}
       \/ UNCHANGED importing
    /\ NextTurn(0)
    /\ UNCHANGED <<nl6, requisition, doomed, node, found, others, ladder, growth, target, lost, searches>>

-----------------------------------------------------------------------------
(* wait_quiet() and measure() *)

\* Provisiond was seen idle, or it was not within half an hour.
WaitQuiet ==
    /\ pc = "quiet"
    /\ fleet' = target
    /\ Goto(IF target <= Cap THEN "window" ELSE "complete")
    /\ UNCHANGED <<nl6, opennms, passed, knee, growth, waiting, target, lost, searches>>

NextRung(f) == f + (IF FineAbove # 0 /\ f >= FineAbove THEN FineStep ELSE Step)

\* The verdict of the window: the queue drained and 97% was collected.
Passes ==
    /\ passed' = passed \cup {fleet}
    /\ UNCHANGED knee
    /\ IF NextRung(fleet) > Cap
         THEN Goto("complete") /\ UNCHANGED <<octet, target>>
         ELSE Goto("post") /\ octet' = fleet /\ target' = NextRung(fleet)

\* Mutant: the search goes on above its knee.
FailsAndGoesOn ==
    /\ knee' = fleet
    /\ UNCHANGED passed
    /\ IF NextRung(fleet) > Cap
         THEN Goto("complete") /\ UNCHANGED <<octet, target>>
         ELSE Goto("post") /\ octet' = fleet /\ target' = NextRung(fleet)

Fails ==
    /\ knee' = fleet
    /\ Goto("complete")
    /\ UNCHANGED <<passed, octet, target>>

Measure ==
    /\ pc = "window"
    /\ Passes \/ Fails
    /\ UNCHANGED <<nl6, opennms, fleet, attempt, waiting, lost, searches>>

\* An ssh that takes longer than its limit, a query Prometheus does not answer,
\* a mean of no samples, or a signal.
Dies ==
    /\ pc \in Running
    /\ Goto("failed")
    /\ UNCHANGED <<nl6, opennms, ladder, growth, waiting, target, lost, searches>>

Search ==
    \/ ReadFleet \/ Posted \/ PostFails \/ Provision \/ PollUnread \/ Poll
    \/ DeleteUnscanned \/ Reimport \/ WaitQuiet \/ Measure

World ==
    \/ LateServed \/ LateDropped \/ Nl6Restart
    \/ AddNode \/ ScanNode \/ DeleteNode \/ OtherNodes

Next == Begin \/ Search \/ Dies \/ World

Spec == Init /\ [][Next]_vars

\* Every wait of the program is bounded, so it goes on; nothing is assumed of
\* nl6 or OpenNMS.
FairSpec == Spec /\ WF_vars(Search)

-----------------------------------------------------------------------------
(* What a rung may be read for. *)

\* A window opens on a fleet that is there: every octet below the rung exists in
\* nl6, through retries, lost replies and searches that died, unless nl6 itself
\* restarted meanwhile (grow's FATAL, and the total read at the start).
FleetIsThere == pc = "window" /\ ~lost => Blocks(fleet) \subseteq devices

FullyScanned(o) == node[o] = "scanned" /\ found[o] = PerBlock

\* When wait_scans says so, each octet grown to is scanned and holds its interfaces
\* ("reconcile interfaces against nodes rather than trust the gauge"), unless the
\* sum was made up elsewhere: the row compares one number, so the interfaces of
\* another requisition, or those of an octet with too many, stand in for those an
\* octet of the fleet lacks, and it cannot tell the nodes of a larger fleet from
\* its own.
ReconciledMeansScanned ==
    [][Poll /\ pc' = "quiet" /\ reconciled' =>
          \/ others > 0
          \/ \E o \in Octets : found[o] > PerBlock \/ (o >= target /\ node[o] # "absent")
          \/ \A o \in Blocks(target) : FullyScanned(o)]_vars

\* The knee is one step above a rung that passed, or the first rung, and no rung
\* passed above it.
KneeIsBracketed ==
    knee # NoKnee =>
        /\ knee = Start \/ \E f \in passed : knee = NextRung(f)
        /\ \A f \in passed : f < knee

\* A search ends, whatever the rest of the lab does.
SearchEnds == pc = "begin" ~> pc \in {"failed", "complete"}

\* wait_scans, line 91: "Every fleet node must hold 144 SNMP interfaces before a
\* window opens."
WindowOnScannedFleet == pc = "window" => \A o \in Blocks(fleet) : FullyScanned(o)
=============================================================================
