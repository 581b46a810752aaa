-------------------------- MODULE KneeSearchProofs --------------------------
(***************************************************************************)
(* KneeSearch: type correctness, that a window opens on a fleet that is    *)
(* there, that a reconciled fleet is scanned, that the knee is bracketed,  *)
(* and that a search has finitely many steps, for every ladder of rungs,   *)
(* any number of attempts, polls, late POSTs and searches.                 *)
(***************************************************************************)
EXTENDS KneeSearch, FiniteSetTheorems, WellFoundedInduction, TLAPS

Waiting == {"provision", "scan", "repair", "reimport", "quiet"}

\* The program counts octets; what it counts has no hole.  A POST that may still
\* be carried out makes none either.
NoHoles == \A o \in devices \cup late : Blocks(o) \subseteq devices

\* How far growth has come, by where the search is.
Grown ==
    /\ pc = "post" => octet < target /\ (octet >= 0 => Blocks(octet) \subseteq devices)
    /\ pc \in Waiting => Blocks(target) \subseteq devices
    /\ pc = "window" => Blocks(fleet) \subseteq devices

GrowthInv == lost \/ (NoHoles /\ Grown)

\* Where the arithmetic of the ladder stands.
LadderInv ==
    /\ pc = "begin" => passed = {}
    /\ pc = "post" => octet < target
    /\ pc \in Running => knee = NoKnee
    /\ pc \in Waiting \cup {"post"} =>
          /\ target = Start \/ \E f \in passed : target = NextRung(f)
          /\ \A f \in passed : f < target
    /\ pc = "window" =>
          /\ fleet <= Cap
          /\ fleet = Start \/ \E f \in passed : fleet = NextRung(f)
          /\ \A f \in passed : f < fleet

IInv == TypeOK /\ GrowthInv /\ LadderInv /\ KneeIsBracketed

-----------------------------------------------------------------------------
(* Operators. *)

\* The bound of the model is a number no smaller than either parameter.
LEMMA TopFleetIsBound == TopFleet \in Nat /\ Start <= TopFleet /\ Cap <= TopFleet
  BY LadderAssumption DEF TopFleet, Max2

\* A set of octets without holes consists of the first Cardinality(S) octets, so
\* the number of devices says which octet comes next (nl6_total, then grow).
LEMMA CountIsNext ==
  ASSUME NEW S \in SUBSET Octets, \A o \in S : Blocks(o) \subseteq S
  PROVE  /\ Cardinality(S) \in Nat
         /\ Blocks(Cardinality(S)) \subseteq S
  <1>1. TopFleet \in Nat
    BY TopFleetIsBound
  <1>2. IsFiniteSet(Octets)
    BY <1>1, FS_Interval DEF Octets
  <1>3. IsFiniteSet(S)
    BY <1>2, FS_Subset
  <1>4. Cardinality(S) \in Nat
    BY <1>3, FS_CardinalityType
  <1>5. ASSUME NEW j \in Blocks(Cardinality(S)), j \notin S
        PROVE  FALSE
    <2>1. j \in Nat /\ j < Cardinality(S)
      BY <1>4, <1>5 DEF Blocks
    <2>2. \A o \in S : o < j
      <3>1. ASSUME NEW o \in S, ~(o < j)
            PROVE  FALSE
        <4>1. o \in Nat /\ o # j /\ j < o
          BY <1>1, <1>5, <2>1, <3>1 DEF Octets
        <4>2. j \in Blocks(o)
          BY <2>1, <4>1 DEF Blocks
        <4> QED BY <1>5, <4>2
      <3> QED BY <3>1
    <2>3. S \subseteq 0..(j - 1)
      BY <1>1, <2>1, <2>2 DEF Octets
    <2>4. IsFiniteSet(0..(j - 1)) /\ Cardinality(0..(j - 1)) = j
      <3>1. 0 \in Int /\ j - 1 \in Int /\ (0 > j - 1 <=> j = 0) /\ (j - 1) - 0 + 1 = j
        BY <2>1
      <3>2. IsFiniteSet(0..(j - 1)) /\ Cardinality(0..(j - 1)) = IF 0 > j - 1 THEN 0 ELSE (j - 1) - 0 + 1
        BY <3>1, FS_Interval
      <3> QED BY <3>1, <3>2
    <2>5. Cardinality(S) <= j
      BY <2>3, <2>4, FS_Subset
    <2> QED BY <1>4, <2>1, <2>5
  <1> QED BY <1>4, <1>5

\* Growing by one block at the end makes no hole.
LEMMA BlocksGrow ==
  ASSUME NEW o \in Nat, NEW S, Blocks(o) \subseteq S
  PROVE  Blocks(o + 1) \subseteq S \cup {o}
  BY DEF Blocks

\* A rung is followed by a greater one.
LEMMA NextRungIsGreater ==
  ASSUME NEW f \in Nat
  PROVE  NextRung(f) \in Nat /\ f < NextRung(f)
  BY LadderAssumption DEF NextRung

-----------------------------------------------------------------------------
(* The invariant. *)

\* The initial state satisfies it.
LEMMA InitInv == Init => IInv
  <1> SUFFICES ASSUME Init PROVE IInv
    OBVIOUS
  <1> USE LadderAssumption, LimitsAssumption, TopFleetIsBound
  <1>1. TypeOK
    <2>1. node \in [Octets -> NodeStates] /\ found \in [Octets -> 0..MaxIfs] /\ others \in 0..MaxOthers
      BY DEF Init, NodeStates
    <2>2. /\ pc \in Running \cup {"idle", "failed", "complete"}
          /\ fleet \in 0..TopFleet /\ target \in 0..TopFleet
          /\ octet \in -1..TopFleet /\ attempt \in 0..(Attempts - 1)
      BY DEF Init
    <2>3. /\ polls \in 0..(MaxPolls - 1) /\ stuck \in 0..(StuckLimit - 1)
          /\ knee \in {NoKnee} \cup 0..Cap /\ searches \in 0..MaxSearches
      BY DEF Init
    <2> QED BY <2>1, <2>2, <2>3 DEF Init, TypeOK
  <1>2. GrowthInv
    BY DEF Init, GrowthInv, NoHoles, Grown, Waiting
  <1>3. LadderInv /\ KneeIsBracketed
    BY DEF Init, LadderInv, KneeIsBracketed, Waiting, Running
  <1> QED BY <1>1, <1>2, <1>3 DEF IInv

\* What the lab does in the background keeps it.
LEMMA WorldInv == IInv /\ World => IInv'
  <1> SUFFICES ASSUME IInv, World PROVE IInv'
    OBVIOUS
  <1> USE LadderAssumption, TopFleetIsBound DEF IInv, nl6, opennms, ladder, growth, waiting
  <1>1. UNCHANGED <<ladder, growth, waiting, pc, target, searches>>
    BY DEF World, LateServed, LateDropped, Nl6Restart, AddNode, ScanNode, DeleteNode, OtherNodes
  <1>2. LadderInv' /\ KneeIsBracketed'
    BY <1>1 DEF LadderInv, KneeIsBracketed
  <1>3. CASE LateServed
    <2>1. PICK o \in late : late' = late \ {o} /\ devices' = devices \cup {o}
      BY <1>3 DEF LateServed
    <2>2. TypeOK'
      BY <1>3, <2>1 DEF LateServed, TypeOK
    <2>3. GrowthInv'
      <3>1. CASE lost
        BY <1>3, <3>1 DEF LateServed, GrowthInv
      <3>2. CASE ~lost
        <4>1. NoHoles'
          BY <2>1, <3>2 DEF GrowthInv, NoHoles
        <4>2. Grown'
          BY <1>1, <2>1, <3>2 DEF GrowthInv, Grown
        <4> QED BY <4>1, <4>2 DEF GrowthInv
      <3> QED BY <3>1, <3>2
    <2> QED BY <1>2, <2>2, <2>3
  <1>4. CASE LateDropped
    <2>1. TypeOK'
      BY <1>4 DEF LateDropped, TypeOK
    <2>2. GrowthInv'
      BY <1>4 DEF LateDropped, GrowthInv, NoHoles, Grown
    <2> QED BY <1>2, <2>1, <2>2
  <1>5. CASE Nl6Restart
    <2>1. TypeOK'
      BY <1>5 DEF Nl6Restart, TypeOK
    <2>2. GrowthInv'
      <3>1. CASE pc \in Running
        BY <1>5, <3>1 DEF Nl6Restart, GrowthInv
      <3>2. CASE pc \notin Running
        BY <1>5, <3>2 DEF Nl6Restart, GrowthInv, NoHoles, Grown, Running, Waiting
      <3> QED BY <3>1, <3>2
    <2> QED BY <1>2, <2>1, <2>2
  <1>6. CASE AddNode \/ ScanNode \/ DeleteNode \/ OtherNodes
    <2>1. TypeOK'
      <3>1. CASE AddNode
        BY <3>1 DEF AddNode, TypeOK, NodeStates
      <3>2. CASE ScanNode
        BY <3>2 DEF ScanNode, TypeOK, NodeStates
      <3>3. CASE DeleteNode
        BY <3>3, LimitsAssumption DEF DeleteNode, TypeOK, NodeStates
      <3>4. CASE OtherNodes
        BY <3>4 DEF OtherNodes, TypeOK
      <3> QED BY <1>6, <3>1, <3>2, <3>3, <3>4
    <2>2. UNCHANGED <<devices, late, lost>>
      BY <1>6 DEF AddNode, ScanNode, DeleteNode, OtherNodes
    <2>3. GrowthInv'
      BY <1>1, <2>2 DEF GrowthInv, NoHoles, Grown
    <2> QED BY <1>2, <2>1, <2>3
  <1> QED BY <1>3, <1>4, <1>5, <1>6 DEF World

\* A search begins, or ends without an exception handler.
LEMMA BeginDiesInv == IInv /\ (Begin \/ Dies) => IInv'
  <1> SUFFICES ASSUME IInv, Begin \/ Dies PROVE IInv'
    OBVIOUS
  <1> USE LadderAssumption, LimitsAssumption, TopFleetIsBound
      DEF IInv, nl6, opennms, ladder, growth, waiting, Goto
  <1>1. CASE Begin
    <2>1. TypeOK'
      <3>1. lost' \in BOOLEAN
        <4>1. lost' = (lost /\ devices \cup late # {})
          BY <1>1 DEF Begin
        <4> HIDE DEF IInv
        <4> QED BY ONLY <4>1, Zenon
      <3>2. searches' \in 0..MaxSearches
        BY <1>1 DEF Begin, TypeOK
      <3>3. /\ fleet' \in 0..TopFleet /\ target' \in 0..TopFleet
            /\ octet' \in -1..TopFleet /\ attempt' \in 0..(Attempts - 1)
            /\ polls' \in 0..(MaxPolls - 1) /\ stuck' \in 0..(StuckLimit - 1)
        BY <1>1 DEF Begin
      <3>4. pc' \in Running /\ knee' \in {NoKnee} /\ passed' = {} /\ reconciled' \in BOOLEAN
        BY <1>1 DEF Begin, Running
      <3>5. UNCHANGED <<devices, late, requisition, importing, doomed, node, found, others>>
        BY <1>1 DEF Begin
      <3> QED BY <3>1, <3>2, <3>3, <3>4, <3>5 DEF TypeOK
    <2>2. GrowthInv'
      <3>1. CASE lost
        BY <1>1, <3>1 DEF Begin, GrowthInv, NoHoles, Grown, Waiting
      <3>2. CASE ~lost
        BY <1>1, <3>2 DEF Begin, GrowthInv, NoHoles, Grown, Waiting
      <3> QED BY <3>1, <3>2
    <2>3. LadderInv' /\ KneeIsBracketed'
      BY <1>1 DEF Begin, LadderInv, KneeIsBracketed, Waiting, NoKnee
    <2> QED BY <2>1, <2>2, <2>3
  <1>2. CASE Dies
    <2>1. TypeOK'
      BY <1>2 DEF Dies, TypeOK
    <2>2. GrowthInv'
      BY <1>2 DEF Dies, GrowthInv, NoHoles, Grown, Waiting
    <2>3. LadderInv' /\ KneeIsBracketed'
      BY <1>2 DEF Dies, LadderInv, KneeIsBracketed, Waiting, Running
    <2> QED BY <2>1, <2>2, <2>3
  <1> QED BY <1>1, <1>2

\* The first total decides which octet growth begins with.
LEMMA ReadFleetInv == IInv /\ ReadFleet => IInv'
  <1> SUFFICES ASSUME IInv, ReadFleet PROVE IInv'
    OBVIOUS
  <1> USE LadderAssumption, LimitsAssumption, TopFleetIsBound
      DEF IInv, nl6, opennms, ladder, growth, waiting, Goto
  <1>1. PICK total \in Totals :
          \/ total > Start /\ pc' = "failed" /\ UNCHANGED <<target, octet>>
          \/ total < Start /\ pc' = "post" /\ target' = Start /\ octet' = total
          \/ total = Start /\ pc' = "scan" /\ target' = Start /\ UNCHANGED octet
    <2>1. devices \in SUBSET Octets /\ IsFiniteSet(Octets)
      BY FS_Interval DEF Octets, TypeOK
    <2>2. Cardinality(devices) \in Nat
      BY <2>1, FS_Subset, FS_CardinalityType
    <2>3. PICK total \in Totals :
            CASE total > Start -> pc' = "failed" /\ UNCHANGED <<target, octet>>
              [] total < Start -> pc' = "post" /\ target' = Start /\ octet' = total
              [] total = Start -> pc' = "scan" /\ target' = Start /\ UNCHANGED octet
      BY DEF ReadFleet
    <2>4. total \in Int
      BY <2>2 DEF Totals
    <2>5. total > Start \/ total < Start \/ total = Start
      BY <2>4
    <2> QED BY <2>3, <2>4, <2>5
  <1>2. UNCHANGED <<devices, late, lost, requisition, importing, doomed, node, found, others, fleet, passed,
                    knee, attempt, polls, stuck, reconciled, searches>> /\ pc = "begin"
    BY DEF ReadFleet
  <1>3. devices \in SUBSET Octets /\ Cardinality(devices) \in Nat
    <2>1. IsFiniteSet(Octets)
      BY FS_Interval DEF Octets
    <2> QED BY <2>1, FS_Subset, FS_CardinalityType DEF TypeOK
  <1>4. total = -1 \/ total \in Nat
    BY <1>3 DEF Totals
  <1>5. TypeOK'
    BY <1>1, <1>2, <1>4 DEF TypeOK, Running
  <1>6. GrowthInv'
    <2>1. CASE lost
      BY <1>2, <2>1 DEF GrowthInv
    <2>2. CASE ~lost
      <3>1. NoHoles'
        BY <1>2, <2>2 DEF GrowthInv, NoHoles
      <3>2. Blocks(Cardinality(devices)) \subseteq devices
        BY <1>3, <2>2, CountIsNext DEF GrowthInv, NoHoles
      <3>3. total >= 0 => Blocks(total) \subseteq devices
        BY <1>3, <3>2 DEF Totals
      <3>4. Grown'
        BY <1>1, <1>2, <1>4, <3>3 DEF Grown, Waiting
      <3> QED BY <3>1, <3>4 DEF GrowthInv
    <2> QED BY <2>1, <2>2
  <1>7. LadderInv' /\ KneeIsBracketed'
    BY <1>1, <1>2, <1>4 DEF LadderInv, KneeIsBracketed, Waiting, Running, TypeOK
  <1> QED BY <1>5, <1>6, <1>7

\* A POST that was answered: the octet is there, and the next one is posted.
LEMMA PostedInv == IInv /\ Posted => IInv'
  <1> SUFFICES ASSUME IInv, Posted PROVE IInv'
    OBVIOUS
  <1> USE LadderAssumption, LimitsAssumption, TopFleetIsBound
      DEF IInv, nl6, opennms, ladder, growth, waiting, Goto
  <1>1. octet < target /\ target <= TopFleet /\ octet \in Nat /\ target \in Nat /\ octet \in Octets
    BY DEF Posted, LadderInv, TypeOK, Octets
  <1>2. /\ attempt' = 0
        /\ \/ octet + 1 = target /\ pc' = "provision" /\ UNCHANGED octet
           \/ octet + 1 # target /\ octet' = octet + 1 /\ UNCHANGED pc
    BY DEF Posted, NextOctet
  <1>3. /\ pc = "post" /\ devices' = devices \cup {octet}
        /\ UNCHANGED <<late, requisition, importing, doomed, node, found, others, fleet, passed, knee, polls,
                       stuck, reconciled, target, lost, searches>>
    BY DEF Posted
  <1>4. TypeOK'
    <2>1. octet' \in -1..TopFleet /\ attempt' \in 0..(Attempts - 1)
      BY <1>1, <1>2
    <2> QED BY <1>1, <1>2, <1>3, <2>1 DEF TypeOK, Running
  <1>5. GrowthInv'
    <2>1. CASE lost
      BY <1>3, <2>1 DEF GrowthInv
    <2>2. CASE ~lost
      <3>1. NoHoles /\ Blocks(octet) \subseteq devices
        BY <1>1, <1>3, <2>2 DEF GrowthInv, Grown
      <3>2. NoHoles'
        BY <1>3, <3>1 DEF NoHoles
      <3>3. Blocks(octet + 1) \subseteq devices'
        BY <1>1, <1>3, <3>1, BlocksGrow
      <3>4. Grown'
        BY <1>1, <1>2, <1>3, <3>3 DEF Grown, Waiting
      <3> QED BY <3>2, <3>4 DEF GrowthInv
    <2> QED BY <2>1, <2>2
  <1>6. LadderInv' /\ KneeIsBracketed'
    BY <1>1, <1>2, <1>3 DEF LadderInv, KneeIsBracketed, Waiting, Running
  <1> QED BY <1>4, <1>5, <1>6

\* A POST that failed, whatever nl6 made of it.
LEMMA PostFailsInv == IInv /\ PostFails => IInv'
  <1> SUFFICES ASSUME IInv, PostFails PROVE IInv'
    OBVIOUS
  <1> USE LadderAssumption, LimitsAssumption, TopFleetIsBound
      DEF IInv, nl6, opennms, ladder, growth, waiting, Goto
  <1>1. octet < target /\ target <= TopFleet /\ octet \in Int /\ target \in Nat
    BY DEF PostFails, LadderInv, TypeOK
  <1>2. /\ octet' = octet
        /\ \/ attempt + 1 < Attempts /\ attempt' = attempt + 1 /\ UNCHANGED pc
           \/ pc' = "failed" /\ UNCHANGED attempt
    BY DEF PostFails, GiveUp
  <1>3. /\ pc = "post"
        /\ UNCHANGED <<requisition, importing, doomed, node, found, others, fleet, passed, knee, polls,
                       stuck, reconciled, target, lost, searches>>
    BY DEF PostFails
  <1>4. \/ UNCHANGED <<devices, late>>
        \/ octet >= 0 /\ devices' = devices \cup {octet} /\ UNCHANGED late
        \/ octet >= 0 /\ late' = late \cup {octet} /\ UNCHANGED devices
    BY DEF PostFails
  <1>5. TypeOK'
    <2>1. devices' \subseteq Octets /\ late' \subseteq Octets
      <3>1. octet >= 0 => octet \in Octets
        BY <1>1 DEF Octets
      <3> QED BY <1>4, <3>1 DEF TypeOK
    <2>2. attempt' \in 0..(Attempts - 1)
      BY <1>2 DEF TypeOK
    <2> QED BY <1>2, <1>3, <2>1, <2>2 DEF TypeOK, Running
  <1>6. GrowthInv'
    <2>1. CASE lost
      BY <1>3, <2>1 DEF GrowthInv
    <2>2. CASE ~lost
      <3>1. NoHoles /\ (octet >= 0 => Blocks(octet) \subseteq devices)
        BY <1>3, <2>2 DEF GrowthInv, Grown
      <3>2. NoHoles'
        BY <1>4, <3>1 DEF NoHoles
      <3>3. Grown'
        BY <1>1, <1>2, <1>3, <1>4, <3>1 DEF Grown, Waiting
      <3> QED BY <3>2, <3>3 DEF GrowthInv
    <2> QED BY <2>1, <2>2
  <1>7. LadderInv' /\ KneeIsBracketed'
    BY <1>1, <1>2, <1>3 DEF LadderInv, KneeIsBracketed, Waiting, Running
  <1> QED BY <1>5, <1>6, <1>7

\* A turn of wait_scans, or its end, keeps the counters typed.
LEMMA TurnTyped ==
  ASSUME TypeOK, pc \in {"scan", "reimport"}, NEW rows \in 0..(StuckLimit - 1),
         NextTurn(rows)
  PROVE  /\ polls' \in 0..(MaxPolls - 1) /\ stuck' \in 0..(StuckLimit - 1)
         /\ reconciled' \in BOOLEAN /\ pc' \in {"scan", "quiet"}
  <1> USE LimitsAssumption
  <1>1. CASE polls + 1 = MaxPolls
    <2>1. Return(FALSE)
      BY <1>1, Zenon DEF NextTurn
    <2>2. polls' = 0 /\ stuck' = 0 /\ pc' = "quiet" /\ reconciled' = FALSE
      BY <2>1 DEF Return, Goto
    <2>3. 0 \in 0..(MaxPolls - 1) /\ 0 \in 0..(StuckLimit - 1)
      OBVIOUS
    <2> QED BY <2>2, <2>3, Zenon
  <1>2. CASE polls + 1 # MaxPolls
    <2>1. polls' = polls + 1 /\ stuck' = rows /\ pc' = "scan" /\ UNCHANGED reconciled
      BY <1>2 DEF NextTurn, Goto
    <2> QED BY <1>2, <2>1 DEF TypeOK
  <1> QED BY <1>1, <1>2

\* Provisioning and waiting change neither the fleet nor the ladder.
LEMMA WaitInv ==
  IInv /\ (Provision \/ PollUnread \/ Poll \/ DeleteUnscanned \/ Reimport) => IInv'
  <1> SUFFICES ASSUME IInv, Provision \/ PollUnread \/ Poll \/ DeleteUnscanned \/ Reimport
               PROVE  IInv'
    OBVIOUS
  <1> USE LadderAssumption, LimitsAssumption
      DEF IInv, nl6, opennms, ladder, growth, waiting
  <1>1. pc \in Waiting /\ pc # "quiet"
    BY DEF Provision, PollUnread, Poll, DeleteUnscanned, Reimport, Waiting
  <1>2. UNCHANGED <<devices, late, fleet, passed, knee, octet, attempt, target, lost, searches>>
    BY DEF Provision, PollUnread, Poll, DeleteUnscanned, Reimport
  <1>3. /\ polls' \in 0..(MaxPolls - 1) /\ stuck' \in 0..(StuckLimit - 1)
        /\ reconciled' \in BOOLEAN /\ pc' \in Waiting
        /\ requisition' \subseteq Octets /\ importing' \subseteq Octets /\ doomed' \subseteq Octets
        /\ node' \in [Octets -> NodeStates]
        /\ found' \in [Octets -> 0..MaxIfs] /\ others' \in 0..MaxOthers
    <2>1. CASE Provision
      <3>1. requisition' \subseteq Octets /\ importing' \subseteq Octets /\ doomed' \subseteq Octets
        BY <2>1 DEF Provision, Imported, TypeOK
      <3>2. node' \in [Octets -> NodeStates] /\ found' \in [Octets -> 0..MaxIfs] /\ others' \in 0..MaxOthers
        BY <2>1 DEF Provision, Imported, TypeOK, NodeStates
      <3> QED BY <2>1, <3>1, <3>2 DEF Provision, Goto, TypeOK, Waiting
    <2>2. CASE PollUnread
      <3>1. stuck \in 0..(StuckLimit - 1) /\ NextTurn(stuck) /\ pc = "scan"
        BY <2>2 DEF PollUnread, TypeOK
      <3> QED BY <2>2, <3>1, TurnTyped DEF PollUnread, TypeOK, Waiting
    <2>3. CASE Poll
      <3>1. CASE ShowsScanned(target)
        BY <2>3, <3>1 DEF Poll, Return, Goto, TypeOK, Waiting
      <3>2. CASE ~ShowsScanned(target) /\ ~ShowsStuck(target)
        <4>1. NextTurn(0) /\ pc = "scan"
          BY <2>3, <3>2, Zenon DEF Poll
        <4>2. 0 \in 0..(StuckLimit - 1)
          OBVIOUS
        <4> QED BY <2>3, <4>1, <4>2, TurnTyped DEF Poll, TypeOK, Waiting
      <3>3. CASE ~ShowsScanned(target) /\ ShowsStuck(target) /\ stuck + 1 < StuckLimit
        <4>1. NextTurn(stuck + 1) /\ pc = "scan"
          BY <2>3, <3>3, Zenon DEF Poll
        <4>2. stuck + 1 \in 0..(StuckLimit - 1)
          BY <3>3 DEF TypeOK
        <4> QED BY <2>3, <4>1, <4>2, TurnTyped DEF Poll, TypeOK, Waiting
      <3>4. CASE ~ShowsScanned(target) /\ ShowsStuck(target) /\ ~(stuck + 1 < StuckLimit)
        BY <2>3, <3>4 DEF Poll, Goto, TypeOK, Waiting
      <3> QED BY <3>1, <3>2, <3>3, <3>4
    <2>4. CASE DeleteUnscanned
      <3>1. doomed' \subseteq Octets
        BY <2>4 DEF DeleteUnscanned, TypeOK
      <3> QED BY <2>4, <3>1 DEF DeleteUnscanned, Goto, TypeOK, Waiting
    <2>5. CASE Reimport
      <3>1. NextTurn(0) /\ pc = "reimport"
        BY <2>5, Zenon DEF Reimport
      <3>2. importing' \subseteq Octets
        BY <2>5 DEF Reimport, TypeOK
      <3>3. 0 \in 0..(StuckLimit - 1)
        OBVIOUS
      <3> QED BY <2>5, <3>1, <3>2, <3>3, TurnTyped DEF Reimport, TypeOK, Waiting
    <2> QED BY <2>1, <2>2, <2>3, <2>4, <2>5
  <1>4. TypeOK'
    BY <1>2, <1>3 DEF TypeOK, Waiting, Running
  <1>5. GrowthInv'
    BY <1>1, <1>2, <1>3 DEF GrowthInv, NoHoles, Grown, Waiting
  <1>6. LadderInv' /\ KneeIsBracketed'
    BY <1>1, <1>2, <1>3 DEF LadderInv, KneeIsBracketed, Waiting, Running
  <1> QED BY <1>4, <1>5, <1>6

\* The rung grown to is the one measured, if it is within the cap.
LEMMA WaitQuietInv == IInv /\ WaitQuiet => IInv'
  <1> SUFFICES ASSUME IInv, WaitQuiet PROVE IInv'
    OBVIOUS
  <1> USE LadderAssumption, LimitsAssumption, TopFleetIsBound
      DEF IInv, nl6, opennms, ladder, growth, waiting, Goto
  <1>1. /\ pc = "quiet" /\ fleet' = target
        /\ \/ target <= Cap /\ pc' = "window"
           \/ pc' = "complete"
        /\ UNCHANGED <<devices, late, requisition, importing, doomed, node, found, others, passed, knee, octet,
                       attempt, polls, stuck, reconciled, target, lost, searches>>
    BY DEF WaitQuiet
  <1>2. TypeOK'
    BY <1>1 DEF TypeOK, Running
  <1>3. GrowthInv'
    BY <1>1 DEF GrowthInv, NoHoles, Grown, Waiting
  <1>4. LadderInv' /\ KneeIsBracketed'
    BY <1>1 DEF LadderInv, KneeIsBracketed, Waiting, Running
  <1> QED BY <1>2, <1>3, <1>4

\* A rung that passes is followed by a greater one within the cap; one that
\* fails is the knee.
LEMMA MeasureInv == IInv /\ Measure => IInv'
  <1> SUFFICES ASSUME IInv, Measure PROVE IInv'
    OBVIOUS
  <1> USE LadderAssumption, LimitsAssumption, TopFleetIsBound
      DEF IInv, nl6, opennms, ladder, growth, waiting, Goto
  <1>1. /\ pc = "window"
        /\ UNCHANGED <<devices, late, requisition, importing, doomed, node, found, others, fleet, attempt,
                       polls, stuck, reconciled, lost, searches>>
    BY DEF Measure
  <1>2. /\ fleet \in Nat /\ fleet <= Cap
        /\ fleet = Start \/ \E f \in passed : fleet = NextRung(f)
        /\ \A f \in passed : f < fleet
        /\ passed \subseteq 0..Cap /\ knee = NoKnee
    BY <1>1 DEF LadderInv, TypeOK, Running
  <1>3. NextRung(fleet) \in Nat /\ fleet < NextRung(fleet)
    BY <1>2, NextRungIsGreater
  <1>4. CASE Passes
    <2>1. /\ passed' = passed \cup {fleet} /\ knee' = NoKnee
          /\ \/ pc' = "complete" /\ UNCHANGED <<octet, target>>
             \/ /\ NextRung(fleet) <= Cap /\ pc' = "post"
                /\ octet' = fleet /\ target' = NextRung(fleet)
      BY <1>2, <1>3, <1>4 DEF Passes
    <2>2. TypeOK'
      <3>1. passed' \subseteq 0..Cap
        BY <1>2, <2>1
      <3>2. target' \in 0..TopFleet /\ octet' \in -1..TopFleet
        BY <1>2, <1>3, <2>1 DEF TypeOK
      <3>3. pc' \in Running \cup {"idle", "failed", "complete"} /\ knee' \in {NoKnee}
        BY <2>1 DEF Running
      <3> QED BY <1>1, <3>1, <3>2, <3>3 DEF TypeOK
    <2>3. GrowthInv'
      BY <1>1, <1>2, <1>3, <2>1 DEF GrowthInv, NoHoles, Grown, Waiting
    <2>4. LadderInv'
      <3>1. \A f \in passed' : f < NextRung(fleet)
        BY <1>2, <1>3, <2>1
      <3>2. fleet \in passed'
        BY <2>1
      <3> QED BY <1>2, <1>3, <2>1, <3>1, <3>2 DEF LadderInv, Waiting, Running
    <2>5. KneeIsBracketed'
      BY <2>1 DEF KneeIsBracketed
    <2> QED BY <2>2, <2>3, <2>4, <2>5
  <1>5. CASE Fails
    <2>1. knee' = fleet /\ pc' = "complete" /\ UNCHANGED <<passed, octet, target>>
      BY <1>5 DEF Fails
    <2>2. TypeOK'
      <3>1. knee' \in 0..Cap
        BY <1>2, <2>1
      <3> QED BY <1>1, <2>1, <3>1 DEF TypeOK
    <2>3. GrowthInv'
      BY <1>1, <2>1 DEF GrowthInv, NoHoles, Grown, Waiting
    <2>4. LadderInv' /\ KneeIsBracketed'
      BY <1>2, <2>1 DEF LadderInv, KneeIsBracketed, Waiting, Running
    <2> QED BY <2>2, <2>3, <2>4
  <1> QED BY <1>4, <1>5 DEF Measure

\* Every step of the search and of the lab keeps the invariant.
LEMMA StepInv == IInv /\ [Next]_vars => IInv'
  <1> SUFFICES ASSUME IInv, [Next]_vars PROVE IInv'
    OBVIOUS
  <1>1. CASE Begin \/ Dies
    BY <1>1, BeginDiesInv
  <1>2. CASE Search
    BY <1>2, ReadFleetInv, PostedInv, PostFailsInv, WaitInv, WaitQuietInv, MeasureInv DEF Search
  <1>3. CASE World
    BY <1>3, WorldInv
  <1>4. CASE UNCHANGED vars
    BY <1>4 DEF vars, nl6, opennms, ladder, growth, waiting, IInv, TypeOK, GrowthInv, NoHoles,
                Grown, LadderInv, KneeIsBracketed
  <1> QED BY <1>1, <1>2, <1>3, <1>4 DEF Next

\* The inductive invariant holds in every reachable state of every instance.
THEOREM Invariance == Spec => []IInv
  <1> QED BY InitInv, StepInv, PTL DEF Spec

\* Type correctness of the search and of what it can see of the lab.
THEOREM TypeCorrect == Spec => []TypeOK
  <1>1. IInv => TypeOK
    BY DEF IInv
  <1> QED BY <1>1, Invariance, PTL

\* A window opens on a fleet that is there: the devices of every octet below the
\* rung exist, unless nl6 restarted (grow, nl6_total).
THEOREM FleetThere == Spec => []FleetIsThere
  <1>1. IInv => FleetIsThere
    BY DEF IInv, GrowthInv, Grown, FleetIsThere
  <1> QED BY <1>1, Invariance, PTL

\* The knee is the first rung or one step above a rung that passed, and no rung
\* passed above it (the loop of __main__).
THEOREM KneeBracketed == Spec => []KneeIsBracketed
  <1>1. IInv => KneeIsBracketed
    BY DEF IInv
  <1> QED BY <1>1, Invariance, PTL

-----------------------------------------------------------------------------
(* The three counts of wait_scans. *)

\* The interfaces of a node go with it.
AbsentHoldsNone == \A o \in Octets : node[o] = "absent" => found[o] = 0

\* No step leaves interfaces behind.
LEMMA NoneLeftBehind == Spec => []AbsentHoldsNone
  <1>1. Init => AbsentHoldsNone
    BY DEF Init, AbsentHoldsNone
  <1>2. ASSUME IInv, AbsentHoldsNone, [Next]_vars
        PROVE  AbsentHoldsNone'
    <2> USE <1>2 DEF IInv, TypeOK, AbsentHoldsNone, NodeStates
    <2>1. CASE UNCHANGED <<node, found>>
      BY <2>1
    <2>2. CASE AddNode
      BY <2>2 DEF AddNode
    <2>3. CASE ScanNode
      BY <2>3 DEF ScanNode
    <2>4. CASE DeleteNode
      BY <2>4, LimitsAssumption DEF DeleteNode
    <2>5. CASE Imported
      BY <2>5 DEF Imported
    <2>6. \/ UNCHANGED <<node, found>>
          \/ AddNode \/ ScanNode \/ DeleteNode \/ Imported
      BY DEF Next, Search, World, Begin, Dies, ReadFleet, Posted, PostFails, Provision, PollUnread,
             Poll, DeleteUnscanned, Reimport, WaitQuiet, Measure, LateServed, LateDropped,
             Nl6Restart, OtherNodes, opennms, vars
    <2> QED BY <2>1, <2>2, <2>3, <2>4, <2>5, <2>6
  <1> QED BY <1>1, <1>2, Invariance, PTL DEF Spec

\* A set of numbers that is not empty has a least one.
LEMMA Least ==
  ASSUME NEW T \in SUBSET Nat, T # {}
  PROVE  \E n \in T : \A m \in T : n <= m
  <1>1. IsWellFoundedOn(OpToRel(<, Nat), Nat)
    BY NatLessThanWellFounded
  <1>2. PICK x \in T : \A y \in T : ~(<<y, x>> \in OpToRel(<, Nat))
    BY <1>1, WFMin
  <1>3. \A y \in T : ~(y < x)
    BY <1>2 DEF OpToRel
  <1> QED BY <1>3

\* The recursion of IfsBelow adds up the octets one by one.
LEMMA IfsBelowDef ==
  ASSUME TypeOK
  PROVE  /\ IfsBelow[0] = others
         /\ \A o \in 1..TopFleet : IfsBelow[o] = IfsBelow[o - 1] + found[o - 1]
  <1> DEFINE G(n, g) == g = [o \in 0..n |-> IF o = 0 THEN others ELSE g[o - 1] + found[o - 1]]
             Bad == {n \in Nat : ~ \E g : G(n, g)}
  <1>1. Bad = {}
    <2> SUFFICES ASSUME Bad # {} PROVE FALSE
      OBVIOUS
    <2>1. PICK n \in Bad : \A m \in Bad : n <= m
      BY Least
    <2>2. CASE n = 0
      <3>1. G(0, [o \in 0..0 |-> others])
        OBVIOUS
      <3> QED BY <2>1, <2>2, <3>1
    <2>3. CASE n # 0
      <3>1. n - 1 \in Nat /\ n - 1 \notin Bad
        BY <2>1, <2>3
      <3>2. PICK g : G(n - 1, g)
        BY <3>1
      <3> DEFINE h == [o \in 0..n |-> IF o <= n - 1 THEN g[o] ELSE g[n - 1] + found[n - 1]]
      <3>3. G(n, h)
        <4>1. ASSUME NEW o \in 0..n
              PROVE  h[o] = IF o = 0 THEN others ELSE h[o - 1] + found[o - 1]
          BY <3>1, <3>2
        <4> QED BY <4>1
      <3> QED BY <2>1, <3>3
    <2> QED BY <2>2, <2>3
  <1>2. TopFleet \in Nat /\ \E g : G(TopFleet, g)
    BY <1>1, TopFleetIsBound
  <1>3. G(TopFleet, IfsBelow)
    BY <1>2 DEF IfsBelow
  <1> QED BY <1>2, <1>3

\* One more block of p interfaces.
LEMMA OneBlockMore ==
  ASSUME NEW n \in Nat, NEW p \in Nat
  PROVE  n * p \in Nat /\ (n + 1) * p = n * p + p
  OBVIOUS

\* When no octet has too many interfaces and none beyond the fleet has any, the sum is
\* at most that of a full fleet, and it is that only if each octet is full.
LEMMA SumSuffices ==
  ASSUME TypeOK, others = 0,
         \A o \in Octets : found[o] <= PerBlock /\ (o >= target => found[o] = 0),
         ifs = target * PerBlock
  PROVE  \A o \in Blocks(target) : found[o] = PerBlock
  <1> USE LimitsAssumption, TopFleetIsBound
  <1>1. target \in 0..TopFleet /\ TopFleet \in Nat /\ PerBlock \in Nat
    BY DEF TypeOK
  <1>2. \A o \in 0..(TopFleet - 1) : found[o] \in Nat /\ found[o] <= PerBlock /\ (o >= target => found[o] = 0)
    BY DEF TypeOK, Octets
  <1>3. IfsBelow[0] = 0 /\ \A o \in 1..TopFleet : IfsBelow[o] = IfsBelow[o - 1] + found[o - 1]
    BY IfsBelowDef
  <1> DEFINE Full(n) == n * PerBlock
             Good(n) ==
               /\ IfsBelow[n] \in Nat /\ IfsBelow[n] <= Full(n)
               /\ IfsBelow[n] = Full(n) => \A o \in 0..(n - 1) : found[o] = PerBlock
             Bad == {n \in 0..target : ~Good(n)}
             Off == {n \in target..TopFleet : IfsBelow[n] # IfsBelow[target]}
  <1>4. Full(0) = 0 /\ \A n \in Nat : Full(n) \in Nat /\ Full(n + 1) = Full(n) + PerBlock
    BY <1>1, OneBlockMore
  <1> HIDE DEF Full
  <1>5. Bad = {}
    <2> SUFFICES ASSUME Bad # {} PROVE FALSE
      OBVIOUS
    <2>1. PICK n \in Bad : \A m \in Bad : n <= m
      <3>1. Bad \in SUBSET Nat
        BY <1>1
      <3> QED BY <3>1, Least
    <2>2. CASE n = 0
      BY <1>3, <1>4, <2>1, <2>2
    <2>3. CASE n # 0
      <3> DEFINE k == n - 1
      <3>1. k \in Nat /\ k \in 0..target /\ k \in 0..(TopFleet - 1) /\ n = k + 1 /\ n \in 1..TopFleet /\ ~(n <= k)
        BY <1>1, <2>1, <2>3
      <3>2. Good(k)
        BY <2>1, <3>1
      <3>3. IfsBelow[n] = IfsBelow[k] + found[k] /\ found[k] \in Nat /\ found[k] <= PerBlock
        BY <1>2, <1>3, <3>1
      <3>4. Full(n) = Full(k) + PerBlock /\ Full(k) \in Nat
        BY <1>4, <3>1
      <3>5. IfsBelow[n] \in Nat /\ IfsBelow[n] <= Full(n)
        BY <1>1, <3>2, <3>3, <3>4
      <3>6. IfsBelow[n] = Full(n) => found[k] = PerBlock /\ IfsBelow[k] = Full(k)
        BY <1>1, <3>2, <3>3, <3>4
      <3>7. \A o \in 0..(n - 1) : o \in 0..(k - 1) \/ o = k
        BY <3>1
      <3>8. Good(n)
        BY <3>2, <3>5, <3>6, <3>7
      <3> QED BY <2>1, <3>8
    <2> QED BY <2>2, <2>3
  <1>6. Off = {}
    <2> SUFFICES ASSUME Off # {} PROVE FALSE
      OBVIOUS
    <2>1. PICK n \in Off : \A m \in Off : n <= m
      <3>1. Off \in SUBSET Nat
        BY <1>1
      <3> QED BY <3>1, Least
    <2>2. n \in Nat /\ n > target /\ n - 1 \in target..TopFleet /\ n - 1 \in 0..(TopFleet - 1)
          /\ n \in 1..TopFleet /\ ~(n <= n - 1) /\ n - 1 >= target
      BY <1>1, <2>1
    <2>3. IfsBelow[n - 1] = IfsBelow[target]
      BY <2>1, <2>2
    <2>4. found[n - 1] = 0 /\ IfsBelow[n] = IfsBelow[n - 1] + found[n - 1]
      BY <1>2, <1>3, <2>2
    <2>5. IfsBelow[target] \in Nat
      BY <1>1, <1>5
    <2> QED BY <2>1, <2>3, <2>4, <2>5
  <1>7. Good(target) /\ IfsBelow[TopFleet] = IfsBelow[target]
    BY <1>1, <1>5, <1>6
  <1>8. IfsBelow[target] = Full(target)
    BY <1>7 DEF ifs, Full
  <1> QED BY <1>7, <1>8 DEF Blocks

\* As many nodes as the fleet is to have, none of them unscanned, and the interfaces of
\* so many: when nothing makes up for a missing one, each node is there and full.
LEMMA CountsSuffice ==
  ASSUME TypeOK, AbsentHoldsNone, ShowsScanned(target), others = 0,
         \A o \in Octets : found[o] <= PerBlock /\ (o >= target => node[o] = "absent")
  PROVE  \A o \in Blocks(target) : FullyScanned(o)
  <1> DEFINE Present == {o \in Octets : node[o] # "absent"}
             Late == {o \in Octets : Unscanned(o)}
  <1>1. TopFleet \in Nat /\ target \in Nat /\ target <= TopFleet
    BY TopFleetIsBound DEF TypeOK
  <1>2. IsFiniteSet(Blocks(target)) /\ Cardinality(Blocks(target)) = target
    <2>1. 0 \in Int /\ target - 1 \in Int /\ (0 > target - 1 <=> target = 0)
          /\ (target - 1) - 0 + 1 = target
      BY <1>1
    <2>2. /\ IsFiniteSet(0..(target - 1))
          /\ Cardinality(0..(target - 1)) = IF 0 > target - 1 THEN 0 ELSE (target - 1) - 0 + 1
      BY <2>1, FS_Interval
    <2> QED BY <2>1, <2>2 DEF Blocks
  <1>3. Present \subseteq Blocks(target)
    BY <1>1 DEF Octets, Blocks
  <1>4. Cardinality(Present) = target
    BY DEF ShowsScanned, active
  <1>5. Present = Blocks(target)
    BY <1>2, <1>3, <1>4, FS_Subset
  <1>6. Late = {}
    <2>1. IsFiniteSet(Octets)
      BY <1>1, FS_Interval DEF Octets
    <2>2. IsFiniteSet(Late) /\ Cardinality(Late) = 0
      BY <2>1, FS_Subset DEF ShowsScanned, unscanned
    <2> QED BY <2>2, FS_EmptySet
  <1>7. \A o \in Blocks(target) : node[o] = "scanned"
    <2>1. ASSUME NEW o \in Blocks(target) PROVE node[o] = "scanned"
      <3>1. o \in Octets /\ node[o] # "absent" /\ ~Unscanned(o)
        BY <1>5, <1>6
      <3>2. node[o] \in NodeStates
        BY <3>1 DEF TypeOK
      <3> QED BY <3>1, <3>2 DEF Unscanned, NodeStates
    <2> QED BY <2>1
  <1>8. \A o \in Blocks(target) : found[o] = PerBlock
    <2>1. \A o \in Octets : found[o] <= PerBlock /\ (o >= target => found[o] = 0)
      BY DEF AbsentHoldsNone
    <2>2. ifs = target * PerBlock
      BY DEF ShowsScanned
    <2> QED BY <2>1, <2>2, SumSuffices
  <1> QED BY <1>7, <1>8 DEF FullyScanned

\* wait_scans returns TRUE from a row that shows the fleet scanned only.
LEMMA ReturnsTrue ==
  ASSUME Poll, pc' = "quiet", reconciled'
  PROVE  ShowsScanned(target)
  <1> SUFFICES ASSUME ~ShowsScanned(target) PROVE FALSE
    OBVIOUS
  <1>1. PICK rows : NextTurn(rows) \/ Goto("repair")
    BY Zenon DEF Poll
  <1>2. NextTurn(rows)
    BY <1>1 DEF Goto
  <1>3. Return(FALSE)
    <2>1. CASE polls + 1 = MaxPolls
      BY <1>2, <2>1, Zenon DEF NextTurn
    <2>2. CASE polls + 1 # MaxPolls
      BY <1>2, <2>2 DEF NextTurn, Goto
    <2> QED BY <2>1, <2>2
  <1> QED BY <1>3 DEF Return

\* When wait_scans says so, each octet grown to is scanned and holds its interfaces: with any
\* number of octets and interfaces to each, the sum it compares is made up elsewhere or
\* nowhere (wait_scans).  What makes it up is another requisition, an octet with too many or
\* a node of a larger fleet, and nothing else: no node half scanned, deleted or raced.
THEOREM ReconciledScanned == Spec => ReconciledMeansScanned
  <1> DEFINE Sound == Poll /\ pc' = "quiet" /\ reconciled' =>
                        \/ others > 0
                        \/ \E o \in Octets : found[o] > PerBlock \/ (o >= target /\ node[o] # "absent")
                        \/ \A o \in Blocks(target) : FullyScanned(o)
  <1>1. ASSUME TypeOK, AbsentHoldsNone, Poll, pc' = "quiet", reconciled', ~(others > 0),
               ~ \E o \in Octets : found[o] > PerBlock \/ (o >= target /\ node[o] # "absent")
        PROVE  \A o \in Blocks(target) : FullyScanned(o)
    <2>1. ShowsScanned(target)
      BY <1>1, ReturnsTrue
    <2>2. others = 0
      BY <1>1, LimitsAssumption DEF TypeOK
    <2>3. \A o \in Octets : found[o] \in Nat /\ PerBlock \in Nat
      BY <1>1, LimitsAssumption DEF TypeOK
    <2>4. \A o \in Octets : found[o] <= PerBlock /\ (o >= target => node[o] = "absent")
      BY <1>1, <2>3
    <2> QED BY <1>1, <2>1, <2>2, <2>4, CountsSuffice
  <1>2. TypeOK /\ AbsentHoldsNone /\ [Next]_vars => [Sound]_vars
    BY <1>1
  <1> QED BY <1>2, TypeCorrect, NoneLeftBehind, PTL DEF Spec, ReconciledMeansScanned

-----------------------------------------------------------------------------
(* That a search ends.  Each of its steps makes smaller what is left of it: the *)
(* fleets above the rung, the stages of the rung, the octets or rows of the     *)
(* stage, and the attempts of an octet or the steps of a repair, in that order. *)

FleetLeft == TopFleet - target

StagesLeft ==
    CASE pc = "begin" -> 6 [] pc = "post" -> 5 [] pc = "provision" -> 4
      [] pc \in {"scan", "repair", "reimport"} -> 3
      [] pc = "quiet" -> 2 [] pc = "window" -> 1 [] OTHER -> 0

TurnsLeft ==
    CASE pc = "post" -> target - octet
      [] pc \in {"scan", "repair", "reimport"} -> MaxPolls - polls
      [] OTHER -> 0

TriesLeft ==
    CASE pc = "post" -> Attempts - attempt [] pc = "scan" -> 2 [] pc = "repair" -> 1 [] OTHER -> 0

AreLeft == {FleetLeft, StagesLeft, TurnsLeft, TriesLeft} \subseteq Nat

Shorter ==
    /\ AreLeft'
    /\ \/ FleetLeft' < FleetLeft
       \/ FleetLeft' = FleetLeft /\ StagesLeft' < StagesLeft
       \/ FleetLeft' = FleetLeft /\ StagesLeft' = StagesLeft /\ TurnsLeft' < TurnsLeft
       \/ /\ FleetLeft' = FleetLeft /\ StagesLeft' = StagesLeft /\ TurnsLeft' = TurnsLeft
          /\ TriesLeft' < TriesLeft

\* Nothing but a new search makes it longer, and nl6 and OpenNMS cannot.
SearchesShorten ==
    [][Begin \/ Shorter \/ (~Search /\ UNCHANGED <<FleetLeft, StagesLeft, TurnsLeft, TriesLeft>>)]_vars

\* Where the search stands in its ladder: before it reads the fleet it has grown to
\* none, and a window is of the fleet it has grown to.
AtRung == (pc = "begin" => target = 0) /\ (pc = "window" => fleet = target)

\* Where the first total sends the search.
LEMMA ReadFleetGoes ==
  ASSUME TypeOK, ReadFleet
  PROVE  \/ pc' = "failed" /\ UNCHANGED target
         \/ pc' \in {"post", "scan"} /\ target' = Start
  <1>1. Cardinality(devices) \in Nat
    <2>1. IsFiniteSet(Octets)
      BY TopFleetIsBound, FS_Interval DEF Octets
    <2> QED BY <2>1, FS_Subset, FS_CardinalityType DEF TypeOK
  <1>2. PICK total \in Totals :
          CASE total > Start -> Goto("failed") /\ UNCHANGED <<target, octet>>
            [] total < Start -> Goto("post") /\ target' = Start /\ octet' = total
            [] total = Start -> Goto("scan") /\ target' = Start /\ UNCHANGED octet
    BY DEF ReadFleet
  <1>3. total > Start \/ total < Start \/ total = Start
    BY <1>1, LadderAssumption DEF Totals
  <1> QED BY <1>2, <1>3 DEF Goto

\* Where a row of wait_scans, or the import of a repair, sends it.
LEMMA Turns ==
  ASSUME PollUnread \/ Poll \/ Reimport
  PROVE  \/ polls' = polls + 1 /\ pc' = "scan"
         \/ pc' = "quiet"
         \/ pc = "scan" /\ pc' = "repair" /\ polls' = polls
  <1>1. \/ \E rows : NextTurn(rows)
        \/ \E result : Return(result)
        \/ pc = "scan" /\ Goto("repair") /\ UNCHANGED polls
    BY Zenon DEF PollUnread, Poll, Reimport
  <1>2. ASSUME NEW rows, NextTurn(rows)
        PROVE  (polls' = polls + 1 /\ pc' = "scan") \/ \E result : Return(result)
    BY <1>2, Zenon DEF NextTurn, Goto
  <1> QED BY <1>1, <1>2 DEF Return, Goto

\* It stands there in every reachable state.
LEMMA StandsAtRung == Spec => []AtRung
  <1>1. Init => AtRung
    BY DEF Init, AtRung
  <1>2. ASSUME IInv, AtRung, [Next]_vars
        PROVE  AtRung'
    <2> USE <1>2 DEF Goto, growth, waiting, ladder
    <2>1. CASE Begin
      BY <2>1 DEF Begin, AtRung
    <2>2. CASE ReadFleet
      <3>1. pc' \in {"failed", "post", "scan"}
        BY <1>2, <2>2, ReadFleetGoes DEF IInv
      <3> QED BY <3>1 DEF AtRung
    <2>3. CASE Posted \/ PostFails
      BY <2>3 DEF Posted, PostFails, NextOctet, GiveUp, AtRung
    <2>4. CASE Provision \/ DeleteUnscanned
      BY <2>4 DEF Provision, DeleteUnscanned, AtRung
    <2>5. CASE PollUnread \/ Poll \/ Reimport
      <3>1. pc' \in {"scan", "quiet", "repair"}
        BY <2>5, Turns DEF IInv
      <3> QED BY <3>1 DEF AtRung
    <2>6. CASE WaitQuiet
      BY <2>6 DEF WaitQuiet, AtRung
    <2>7. CASE Measure
      BY <2>7 DEF Measure, Passes, Fails, AtRung
    <2>8. CASE Dies
      BY <2>8 DEF Dies, AtRung
    <2>9. CASE World \/ UNCHANGED vars
      <3>1. UNCHANGED <<fleet, target, pc>>
        BY <2>9 DEF World, LateServed, LateDropped, Nl6Restart, AddNode, ScanNode, DeleteNode, OtherNodes, vars
      <3> QED BY <3>1 DEF AtRung
    <2> QED BY <2>1, <2>2, <2>3, <2>4, <2>5, <2>6, <2>7, <2>8, <2>9 DEF Next, Search
  <1> QED BY <1>1, <1>2, Invariance, PTL DEF Spec

\* What is left of a search is counted in numbers.
LEMMA LeftIsCounted == IInv => AreLeft
  <1> SUFFICES ASSUME IInv PROVE AreLeft
    OBVIOUS
  <1> USE LimitsAssumption, TopFleetIsBound DEF IInv, TypeOK
  <1>1. FleetLeft \in Nat
    BY DEF FleetLeft
  <1>2. StagesLeft \in Nat
    BY DEF StagesLeft, Running
  <1>3. TurnsLeft \in Nat
    BY DEF TurnsLeft, LadderInv
  <1>4. TriesLeft \in Nat
    BY DEF TriesLeft
  <1> QED BY <1>1, <1>2, <1>3, <1>4 DEF AreLeft

\* Of two numbers up to a bound the larger leaves less.
LEMMA LargerLeavesLess ==
  ASSUME NEW m \in Int, NEW a \in Int, NEW b \in Int, a < b
  PROVE  m - b < m - a
  OBVIOUS

\* A stage ends.
LEMMA StageEnds ==
  ASSUME AreLeft', target' = target, StagesLeft' < StagesLeft
  PROVE  Shorter
  BY DEF Shorter, FleetLeft

\* A search ends where it runs.
LEMMA SearchStops ==
  ASSUME AreLeft', target' = target, pc \in Running, pc' \in {"failed", "complete"}
  PROVE  Shorter
  <1>1. StagesLeft' = 0 /\ StagesLeft > 0
    BY DEF StagesLeft, Running
  <1> QED BY <1>1, StageEnds

\* A turn of wait_scans makes what is left smaller, as does the end of the waiting.
LEMMA TurnShortens ==
  ASSUME IInv, AreLeft', UNCHANGED target, pc \in {"scan", "reimport"},
         (polls' = polls + 1 /\ pc' = "scan") \/ pc' = "quiet"
  PROVE  Shorter
  <1>1. CASE pc' = "quiet"
    <2>1. StagesLeft' = 2 /\ StagesLeft = 3
      BY <1>1 DEF StagesLeft
    <2> QED BY <2>1, StageEnds
  <1>2. CASE polls' = polls + 1 /\ pc' = "scan"
    <2>1. StagesLeft' = 3 /\ StagesLeft = 3
      BY <1>2 DEF StagesLeft
    <2>2. TurnsLeft' = MaxPolls - (polls + 1) /\ TurnsLeft = MaxPolls - polls
      BY <1>2 DEF TurnsLeft
    <2>3. MaxPolls \in Int /\ polls \in Int
      BY LimitsAssumption DEF IInv, TypeOK
    <2>4. TurnsLeft' < TurnsLeft
      BY <2>2, <2>3, LargerLeavesLess
    <2> QED BY <2>1, <2>4 DEF Shorter, FleetLeft
  <1> QED BY <1>1, <1>2

\* Each step of the search, and each that ends it, makes what is left smaller.
LEMMA StepShortens ==
  ASSUME IInv, AtRung, AreLeft, AreLeft', Search \/ Dies
  PROVE  Shorter
  <1> USE DEF Goto, growth, waiting, ladder
  <1>1. CASE Dies
    BY <1>1, SearchStops DEF Dies
  <1>2. CASE ReadFleet
    <2>1. pc = "begin" /\ target = 0 /\ StagesLeft = 6
      BY <1>2 DEF ReadFleet, AtRung, StagesLeft
    <2>2. CASE pc' = "failed" /\ UNCHANGED target
      BY <2>1, <2>2, SearchStops DEF Running
    <2>3. CASE pc' \in {"post", "scan"} /\ target' = Start
      <3>1. StagesLeft' \in {5, 3}
        BY <2>3 DEF StagesLeft
      <3>2. CASE Start = 0
        BY <2>1, <2>3, <3>1, <3>2, StageEnds
      <3>3. CASE Start > 0
        <4>1. FleetLeft' = TopFleet - Start /\ FleetLeft = TopFleet - 0
          BY <2>1, <2>3 DEF FleetLeft
        <4>2. FleetLeft' < FleetLeft
          BY <3>3, <4>1, LadderAssumption, TopFleetIsBound, LargerLeavesLess
        <4> QED BY <4>2 DEF Shorter
      <3> QED BY <3>2, <3>3, LadderAssumption
    <2> QED BY <1>2, <2>2, <2>3, ReadFleetGoes DEF IInv
  <1>3. CASE Posted
    <2>1. pc = "post" /\ target' = target /\ StagesLeft = 5 /\ octet \in Int /\ target \in Int
      BY <1>3 DEF Posted, StagesLeft, IInv, TypeOK
    <2>2. CASE pc' = "provision"
      <3>1. StagesLeft' = 4
        BY <2>2 DEF StagesLeft
      <3> QED BY <2>1, <3>1, StageEnds
    <2>3. CASE octet' = octet + 1 /\ pc' = pc
      <3>1. StagesLeft' = 5
        BY <2>1, <2>3 DEF StagesLeft
      <3>2. TurnsLeft' = target - (octet + 1) /\ TurnsLeft = target - octet
        BY <2>1, <2>3 DEF TurnsLeft
      <3>3. TurnsLeft' < TurnsLeft
        BY <2>1, <3>2, LargerLeavesLess
      <3> QED BY <2>1, <3>1, <3>3 DEF Shorter, FleetLeft
    <2> QED BY <1>3, <2>2, <2>3 DEF Posted, NextOctet
  <1>4. CASE PostFails
    <2>1. pc = "post" /\ target' = target /\ StagesLeft = 5 /\ octet' = octet
      BY <1>4 DEF PostFails, GiveUp, StagesLeft
    <2>2. CASE pc' = "failed"
      BY <2>1, <2>2, SearchStops DEF Running
    <2>3. CASE attempt' = attempt + 1 /\ pc' = pc
      <3>1. StagesLeft' = 5
        BY <2>1, <2>3 DEF StagesLeft
      <3>2. TurnsLeft' = TurnsLeft
        BY <2>1, <2>3 DEF TurnsLeft
      <3>3. TriesLeft' = Attempts - (attempt + 1) /\ TriesLeft = Attempts - attempt
        BY <2>1, <2>3 DEF TriesLeft
      <3>4. Attempts \in Int /\ attempt \in Int
        BY LimitsAssumption DEF IInv, TypeOK
      <3>5. TriesLeft' < TriesLeft
        BY <3>3, <3>4, LargerLeavesLess
      <3> QED BY <2>1, <3>1, <3>2, <3>5 DEF Shorter, FleetLeft
    <2> QED BY <1>4, <2>2, <2>3 DEF PostFails, GiveUp
  <1>5. CASE Provision
    <2>1. StagesLeft' = 3 /\ StagesLeft = 4 /\ target' = target
      BY <1>5 DEF Provision, StagesLeft
    <2> QED BY <2>1, StageEnds
  <1>6. CASE PollUnread \/ Poll \/ Reimport
    <2>1. pc \in {"scan", "reimport"} /\ target' = target
      BY <1>6 DEF PollUnread, Poll, Reimport
    <2>2. CASE (polls' = polls + 1 /\ pc' = "scan") \/ pc' = "quiet"
      BY <2>1, <2>2, TurnShortens
    <2>3. CASE pc = "scan" /\ pc' = "repair" /\ polls' = polls
      <3>1. StagesLeft' = 3 /\ StagesLeft = 3 /\ TurnsLeft' = TurnsLeft
        BY <2>3 DEF StagesLeft, TurnsLeft
      <3>2. TriesLeft' = 1 /\ TriesLeft = 2
        BY <2>3 DEF TriesLeft
      <3> QED BY <2>1, <3>1, <3>2 DEF Shorter, FleetLeft
    <2> QED BY <1>6, <2>2, <2>3, Turns
  <1>7. CASE DeleteUnscanned
    <2>1. pc = "repair" /\ pc' = "reimport" /\ target' = target /\ polls' = polls
      BY <1>7 DEF DeleteUnscanned
    <2>2. StagesLeft' = 3 /\ StagesLeft = 3 /\ TurnsLeft' = TurnsLeft
      BY <2>1 DEF StagesLeft, TurnsLeft
    <2>3. TriesLeft' = 0 /\ TriesLeft = 1
      BY <2>1 DEF TriesLeft
    <2> QED BY <2>1, <2>2, <2>3 DEF Shorter, FleetLeft
  <1>8. CASE WaitQuiet
    <2>1. pc = "quiet" /\ pc' \in {"window", "complete"} /\ target' = target
      BY <1>8 DEF WaitQuiet
    <2>2. StagesLeft' \in {1, 0} /\ StagesLeft = 2
      BY <2>1 DEF StagesLeft
    <2> QED BY <2>1, <2>2, StageEnds
  <1>9. CASE Measure
    <2>1. pc = "window" /\ fleet = target /\ target \in Nat
      BY <1>9 DEF Measure, AtRung, IInv, TypeOK
    <2>2. CASE pc' = "complete" /\ target' = target
      BY <2>1, <2>2, SearchStops DEF Running
    <2>3. CASE target' = NextRung(fleet)
      <3>1. FleetLeft' = TopFleet - NextRung(fleet) /\ FleetLeft = TopFleet - target
        BY <2>3 DEF FleetLeft
      <3>2. target < NextRung(fleet) /\ NextRung(fleet) \in Nat
        BY <2>1, NextRungIsGreater
      <3>3. FleetLeft' < FleetLeft
        BY <2>1, <3>1, <3>2, TopFleetIsBound, LargerLeavesLess
      <3> QED BY <3>3 DEF Shorter
    <2> QED BY <1>9, <2>2, <2>3 DEF Measure, Passes, Fails
  <1> QED BY <1>1, <1>2, <1>3, <1>4, <1>5, <1>6, <1>7, <1>8, <1>9 DEF Search

\* Each step of knee_search makes what is left of the search smaller: a fleet above the
\* rung, a stage of it, an octet or a row of a stage, an attempt or a step of a repair.  So
\* no answer of nl6 or of OpenNMS, and no order of the two, keeps a search going for ever.
THEOREM SearchesAreFinite == Spec => SearchesShorten
  <1>1. ASSUME IInv, AtRung, AreLeft, AreLeft', [Next]_vars
        PROVE  [Begin \/ Shorter \/ (~Search /\ UNCHANGED <<FleetLeft, StagesLeft, TurnsLeft, TriesLeft>>)]_vars
    <2>1. CASE Search \/ Dies
      BY <1>1, <2>1, StepShortens
    <2>2. CASE World /\ ~Search
      <3>1. UNCHANGED <<target, pc, octet, polls, attempt>>
        BY <2>2 DEF World, LateServed, LateDropped, Nl6Restart, AddNode, ScanNode, DeleteNode, OtherNodes, growth, waiting
      <3>2. UNCHANGED <<FleetLeft, StagesLeft, TurnsLeft, TriesLeft>>
        BY <3>1 DEF FleetLeft, StagesLeft, TurnsLeft, TriesLeft
      <3> QED BY <2>2, <3>2
    <2> QED BY <1>1, <2>1, <2>2 DEF Next
  <1> QED BY <1>1, Invariance, StandsAtRung, LeftIsCounted, PTL DEF Spec, SearchesShorten
=============================================================================
