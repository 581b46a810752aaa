-------------------------- MODULE FleetClimbProofs --------------------------
(***************************************************************************)
(* The safety properties of FleetClimb, for any fleets, steps, attempts    *)
(* and number of runs and late calls.  What makes a settled fleet exact is *)
(* not in any one counter: nl6 has every octet of the rung (Grew), the     *)
(* import took its devices from nl6 after the rung had grown (Importing),  *)
(* and a count that equals the rung leaves no room for anything else.      *)
(* Last, that a run has finitely many steps.                               *)
(***************************************************************************)
EXTENDS FleetClimb, FiniteSetTheorems, WellFoundedInduction, TLAPS

Finite == IsFiniteSet(devices) /\ IsFiniteSet(wanted) /\ IsFiniteSet(nodes)

\* Where a run is.
Place ==
    /\ lost \in BOOLEAN
    /\ pc \in Running =>
         /\ Edge => rung \in Nat \ {0}
         /\ ~Edge => rung \in DOMAIN RUNGS /\ pc \notin {"delete", "clear"}

\* nl6 has the octets that were posted.
Grew ==
    pc \in Running /\ Edge /\ ~lost =>
        /\ pc \in {"delete", "clear"} => Blocks(rung) \subseteq todo
        /\ pc = "grow" => Blocks(rung) \subseteq devices \cup todo
        /\ pc \in {"provision", "settle", "inject", "measure"} => Blocks(rung) \subseteq devices

\* The import of a rung is of the fleet as it had grown, and after it the nodes are too.
Importing ==
    /\ imported => importing # "asked" /\ (importing = "no" => nodes = wanted)
    /\ sure => imported /\ importing = "no"
    /\ pc \in {"settle", "inject", "measure"} /\ Edge /\ ~lost /\ imported =>
         Blocks(rung) \subseteq wanted

\* A settled fleet was counted.
Counted ==
    pc \in {"inject", "measure"} /\ Edge /\ settled /\ sure => Cardinality(nodes) = rung

Row == [fleet: Nat, PASS: BOOLEAN, drains: BOOLEAN]

\* Every window so far was of a smaller fleet and let the climb go on.
Rising ==
    /\ rows \in Seq(Row)
    /\ pc \in Running => \A i \in DOMAIN rows :
         rows[i].fleet < Target /\ rows[i].PASS /\ (Edge => rows[i].drains)

IInv == Finite /\ Place /\ Grew /\ Importing /\ Counted /\ Rising /\ RowsEndAtTheEdge

-----------------------------------------------------------------------------
(* Lemmas. *)

\* A set of as many octets as the rung that has the rung's octets is the rung.
LEMMA CountIsSet ==
    ASSUME NEW S, IsFiniteSet(S), NEW n \in Nat, Blocks(n) \subseteq S, Cardinality(S) = n
    PROVE  S = Blocks(n)
<1>1. Cardinality(Blocks(n)) = n
  BY FS_Interval DEF Blocks
<1> QED BY <1>1, FS_Subset

\* The next rung of edge_search has the octets of the rung and those to be posted.
LEMMA NextBlocks ==
    ASSUME NEW n \in Nat
    PROVE  /\ Blocks(n + STEP) \subseteq Blocks(n) \cup (n..(n + STEP - 1))
           /\ n..(n + STEP - 1) # {}
           /\ n + STEP \in Nat \ {0} /\ n + STEP > n
<1>1. STEP \in Nat /\ STEP > 0
  BY ClimbAssumption
<1>2. n \in n..(n + STEP - 1)
  BY <1>1
<1>3. Blocks(n + STEP) \subseteq Blocks(n) \cup (n..(n + STEP - 1))
  BY <1>1 DEF Blocks
<1> QED BY <1>1, <1>2, <1>3

\* Adding and removing an octet keeps a set finite.
LEMMA OneMore == \A S, x : IsFiniteSet(S) => IsFiniteSet(S \cup {x}) /\ IsFiniteSet(S \ {x})
BY FS_AddElement, FS_RemoveElement

\* A sequence has an element at each of its places.
LEMMA Places ==
    ASSUME NEW S, NEW s \in Seq(S)
    PROVE  DOMAIN s = 1..Len(s) /\ Len(s) \in Nat /\ \A i \in DOMAIN s : s[i] \in S
OBVIOUS

\* A rung of fleet_sweep has a target, and the next one a larger.
LEMMA Targets ==
    ASSUME NEW i \in DOMAIN RUNGS
    PROVE  /\ RUNGS[i].target \in Nat
           /\ i < Len(RUNGS) => i + 1 \in DOMAIN RUNGS /\ RUNGS[i].target < RUNGS[i + 1].target
<1>1. DOMAIN RUNGS = 1..Len(RUNGS) /\ Len(RUNGS) \in Nat /\ RUNGS[i] \in [target: Nat, octets: SUBSET Nat]
  BY ClimbAssumption, Places
<1>2. i < Len(RUNGS) => i + 1 \in DOMAIN RUNGS /\ i < i + 1
  BY <1>1
<1> QED BY <1>1, <1>2, ClimbAssumption

\* What Target is at a rung.
LEMMA TargetTyped ==
    ASSUME Place, pc \in Running
    PROVE  Target \in Nat
BY Targets DEF Place, Target

-----------------------------------------------------------------------------
(* nl6 and the import. *)

\* The sets stay finite.
LEMMA FiniteStep ==
    ASSUME Finite, Next
    PROVE  Finite'
<1> USE OneMore, FS_EmptySet DEF Finite, nl6, opennms, driver
<1>1. CASE LateServed BY <1>1 DEF LateServed
<1>2. CASE LateDropped BY <1>2 DEF LateDropped
<1>3. CASE Nl6Restarts BY <1>3 DEF Nl6Restarts
<1>4. CASE ImportBegins BY <1>4 DEF ImportBegins
<1>5. CASE Import
  <2>1. UNCHANGED <<devices, wanted>>
    BY <1>5 DEF Import
  <2>2. nodes' = nodes \/ (\E o : nodes' = nodes \cup {o}) \/ (\E o : nodes' = nodes \ {o})
    BY <1>5 DEF Import
  <2>3. IsFiniteSet(nodes)
    BY DEF Finite
  <2>4. ASSUME NEW o PROVE IsFiniteSet(nodes \cup {o}) /\ IsFiniteSet(nodes \ {o})
    BY <2>3, FS_AddElement, FS_RemoveElement
  <2> HIDE OneMore, FS_EmptySet
  <2>5. IsFiniteSet(nodes')
    BY <2>2, <2>3, <2>4
  <2> QED BY <2>1, <2>5
<1>6. CASE Begin BY <1>6 DEF Begin
<1>7. CASE Delete BY <1>7 DEF Delete
<1>8. CASE AwaitClear BY <1>8 DEF AwaitClear
<1>9. CASE Post
  <2>1. UNCHANGED <<wanted, nodes>>
    BY <1>9 DEF Post
  <2>2. devices' = devices \/ devices' = devices \cup {NextOctet}
    BY <1>9 DEF Post
  <2>3. IsFiniteSet(devices)
    BY DEF Finite
  <2>4. IsFiniteSet(devices \cup {NextOctet})
    BY <2>3, FS_AddElement
  <2> HIDE OneMore, FS_EmptySet
  <2>5. IsFiniteSet(devices')
    BY <2>2, <2>3, <2>4
  <2> QED BY <2>1, <2>5
<1>10. CASE Grown BY <1>10 DEF Grown
<1>11. CASE Provision BY <1>11 DEF Provision
<1>12. CASE SettleRow BY <1>12 DEF SettleRow
<1>13. CASE Inject BY <1>13 DEF Inject
<1>14. CASE Measure BY <1>14 DEF Measure
<1>15. CASE Killed BY <1>15 DEF Killed
<1> QED BY <1>1, <1>2, <1>3, <1>4, <1>5, <1>6, <1>7, <1>8, <1>9, <1>10, <1>11, <1>12, <1>13, <1>14, <1>15 DEF Next, Lab, Drive

\* Where a run is and what lost says.
LEMMA PlaceStep ==
    ASSUME Place, Next
    PROVE  Place'
<1> USE DEF Place, Edge, Running, Goto, nl6, opennms, driver, counters
<1>1. CASE LateServed
  <2>1. PICK call \in late : lost' = (lost \/ (call = DELETE /\ pc \in Running \ {"delete"}))
    BY <1>1 DEF LateServed
  <2>2. lost' \in BOOLEAN
    BY <2>1, Zenon
  <2> QED BY <1>1, <2>2 DEF LateServed
<1>2. CASE LateDropped BY <1>2 DEF LateDropped
<1>3. CASE Nl6Restarts
  <2>1. lost' \in BOOLEAN
    BY <1>3, Zenon DEF Nl6Restarts
  <2> QED BY <1>3, <2>1 DEF Nl6Restarts
<1>4. CASE ImportBegins BY <1>4 DEF ImportBegins
<1>5. CASE Import BY <1>5 DEF Import
<1>6. CASE Begin
  <2>1. lost' \in BOOLEAN
    BY <1>6, Zenon DEF Begin
  <2>2. CASE BeginEdge
    BY <1>6, <2>1, <2>2, ClimbAssumption DEF BeginEdge
  <2>3. CASE BeginSweep
    <3>1. 1 \in DOMAIN RUNGS
      BY <2>3, ClimbAssumption DEF BeginSweep
    <3> QED BY <2>1, <2>3, <3>1 DEF BeginSweep
  <2> QED BY <1>6, <2>2, <2>3 DEF Begin
<1>7. CASE Delete BY <1>7 DEF Delete
<1>8. CASE AwaitClear BY <1>8 DEF AwaitClear
<1>9. CASE Post BY <1>9 DEF Post, TriesAgain, GivesUp
<1>10. CASE Grown BY <1>10 DEF Grown
<1>11. CASE Provision BY <1>11 DEF Provision
<1>12. CASE SettleRow BY <1>12 DEF SettleRow, AfterSettle
<1>13. CASE Inject BY <1>13 DEF Inject
<1>14. CASE Measure
  <2>1. /\ pc = "measure" /\ UNCHANGED <<program, lost>>
        /\ \/ pc' = "complete"
           \/ /\ pc' \in {"settle", "grow"}
              /\ rung' = IF Edge THEN rung + STEP ELSE rung + 1
              /\ ~Edge => rung < Len(RUNGS)
    BY <1>14 DEF Measure, More, GoesOn
  <2>2. Edge => rung + STEP \in Nat \ {0}
    BY <2>1, NextBlocks
  <2>3. ~Edge /\ rung < Len(RUNGS) => rung + 1 \in DOMAIN RUNGS
    BY <2>1, Targets
  <2> QED BY <2>1, <2>2, <2>3
<1>15. CASE Killed BY <1>15 DEF Killed
<1> QED BY <1>1, <1>2, <1>3, <1>4, <1>5, <1>6, <1>7, <1>8, <1>9, <1>10, <1>11, <1>12, <1>13, <1>14, <1>15 DEF Next, Lab, Drive

\* Every octet of the rung was posted before the rung is provisioned, and none of them
\* is gone while nothing was lost.
LEMMA GrewStep ==
    ASSUME Place, Grew, Next
    PROVE  Grew'
<1> USE DEF Grew, Edge, Running, Goto, nl6, opennms, driver, counters
<1>1. CASE LateServed
  <2>1. PICK call \in late :
          /\ devices' = IF call = DELETE THEN {} ELSE devices \cup {call}
          /\ lost' = (lost \/ (call = DELETE /\ pc \in Running \ {"delete"}))
    BY <1>1 DEF LateServed
  <2>2. ~lost' => ~lost /\ (call # DELETE \/ pc \notin Running \ {"delete"})
    BY <2>1, Zenon
  <2>3. UNCHANGED driver
    BY <1>1 DEF LateServed
  <2> QED BY <2>1, <2>2, <2>3
<1>2. CASE LateDropped BY <1>2 DEF LateDropped
<1>3. CASE Nl6Restarts
  <2>1. ~lost' => ~lost /\ pc \notin Running \ {"delete"}
    BY <1>3, Zenon DEF Nl6Restarts
  <2> QED BY <1>3, <2>1 DEF Nl6Restarts
<1>4. CASE ImportBegins BY <1>4 DEF ImportBegins
<1>5. CASE Import BY <1>5 DEF Import
<1>6. CASE Begin BY <1>6 DEF Begin, BeginEdge, BeginSweep
<1>7. CASE Delete BY <1>7 DEF Delete
<1>8. CASE AwaitClear BY <1>8 DEF AwaitClear
<1>9. CASE Post
  <2>1. /\ pc = "grow" /\ UNCHANGED <<rung, program, lost>>
        /\ \/ devices' = devices \cup {NextOctet} /\ todo' = todo \ {NextOctet} /\ pc' = pc
           \/ /\ devices' = devices \/ devices' = devices \cup {NextOctet}
              /\ todo' = todo /\ pc' \in {"grow", "failed"}
    BY <1>9 DEF Post, TriesAgain, GivesUp
  <2> QED BY <2>1
<1>10. CASE Grown BY <1>10 DEF Grown
<1>11. CASE Provision BY <1>11 DEF Provision
<1>12. CASE SettleRow BY <1>12 DEF SettleRow, AfterSettle
<1>13. CASE Inject BY <1>13 DEF Inject
<1>14. CASE Measure
  <2>1. /\ pc = "measure" /\ UNCHANGED <<program, lost, devices>>
        /\ \/ pc' = "complete"
           \/ /\ pc' = IF NextOctets = {} THEN "settle" ELSE "grow"
              /\ rung' = IF Edge THEN rung + STEP ELSE rung + 1
              /\ todo' = NextOctets
    BY <1>14 DEF Measure
  <2>2. SUFFICES ASSUME pc' \in Running, Edge, ~lost
                 PROVE  Grew'
    BY <2>1
  <2>3. /\ Blocks(rung + STEP) \subseteq Blocks(rung) \cup NextOctets
        /\ NextOctets # {}
    BY <2>1, <2>2, NextBlocks DEF Place, NextOctets
  <2>4. Blocks(rung) \subseteq devices
    BY <2>1, <2>2
  <2> QED BY <2>1, <2>2, <2>3, <2>4
<1>15. CASE Killed BY <1>15 DEF Killed
<1> QED BY <1>1, <1>2, <1>3, <1>4, <1>5, <1>6, <1>7, <1>8, <1>9, <1>10, <1>11, <1>12, <1>13, <1>14, <1>15 DEF Next, Lab, Drive

\* The import that a rung's settle waits for was of a fleet with every octet of the rung.
LEMMA ImportingStep ==
    ASSUME Place, Grew, Importing, Next
    PROVE  Importing'
<1> USE DEF Importing, Edge, Running, Goto, nl6, opennms, driver, counters
<1>1. CASE LateServed
  <2>1. PICK call \in late : lost' = (lost \/ (call = DELETE /\ pc \in Running \ {"delete"}))
    BY <1>1 DEF LateServed
  <2>2. ~lost' => ~lost
    BY <2>1, Zenon
  <2> QED BY <1>1, <2>2 DEF LateServed
<1>2. CASE LateDropped BY <1>2 DEF LateDropped
<1>3. CASE Nl6Restarts
  <2>1. ~lost' => ~lost
    BY <1>3, Zenon DEF Nl6Restarts
  <2> QED BY <1>3, <2>1 DEF Nl6Restarts
<1>4. CASE ImportBegins
  <2>1. importing = "asked" /\ UNCHANGED <<driver, lost, devices, nodes>>
    BY <1>4 DEF ImportBegins
  <2>2. CASE importing' = "running" /\ wanted' = devices /\ imported' = TRUE
    BY <2>1, <2>2 DEF Grew
  <2>3. CASE importing' = "no" /\ UNCHANGED <<wanted, imported>>
    BY <2>1, <2>3
  <2> QED BY <1>4, <2>2, <2>3 DEF ImportBegins
<1>5. CASE Import BY <1>5 DEF Import
<1>6. CASE Begin BY <1>6 DEF Begin
<1>7. CASE Delete BY <1>7 DEF Delete
<1>8. CASE AwaitClear BY <1>8 DEF AwaitClear
<1>9. CASE Post BY <1>9 DEF Post, TriesAgain, GivesUp
<1>10. CASE Grown BY <1>10 DEF Grown
<1>11. CASE Provision BY <1>11 DEF Provision
<1>12. CASE SettleRow
  <2>1. /\ UNCHANGED <<nl6, opennms, program, rung, lost, imported>>
        /\ pc = "settle"
    BY <1>12 DEF SettleRow
  <2>2. sure' = (imported /\ importing = "no")
    BY <1>12 DEF SettleRow
  <2>3. sure' => imported /\ importing = "no"
    BY <2>2, Zenon
  <2> QED BY <2>1, <2>3
<1>13. CASE Inject BY <1>13 DEF Inject
<1>14. CASE Measure
  <2>1. /\ pc = "measure" /\ UNCHANGED <<program, lost, opennms, imported, sure>>
        /\ \/ pc' = "complete"
           \/ /\ pc' = IF NextOctets = {} THEN "settle" ELSE "grow"
              /\ Edge => NextOctets = rung..(rung + STEP - 1)
    BY <1>14 DEF Measure, NextOctets
  <2>2. Edge => NextOctets # {}
    BY <2>1, NextBlocks DEF Place, NextOctets
  <2> QED BY <2>1, <2>2
<1>15. CASE Killed BY <1>15 DEF Killed
<1> QED BY <1>1, <1>2, <1>3, <1>4, <1>5, <1>6, <1>7, <1>8, <1>9, <1>10, <1>11, <1>12, <1>13, <1>14, <1>15 DEF Next, Lab, Drive

-----------------------------------------------------------------------------
(* The drivers. *)

\* What was counted at the last row of settle is still so at the window.
LEMMA CountedStep ==
    ASSUME Place, Importing, Counted, Next
    PROVE  Counted'
<1> USE DEF Counted, Edge, Goto, nl6, opennms, driver, counters
<1>1. CASE LateServed BY <1>1 DEF LateServed
<1>2. CASE LateDropped BY <1>2 DEF LateDropped
<1>3. CASE Nl6Restarts BY <1>3 DEF Nl6Restarts
<1>4. CASE ImportBegins BY <1>4 DEF ImportBegins
<1>5. CASE Import BY <1>5 DEF Import, Importing
<1>6. CASE Begin BY <1>6 DEF Begin
<1>7. CASE Delete BY <1>7 DEF Delete
<1>8. CASE AwaitClear BY <1>8 DEF AwaitClear
<1>9. CASE Post BY <1>9 DEF Post, TriesAgain, GivesUp
<1>10. CASE Grown BY <1>10 DEF Grown
<1>11. CASE Provision BY <1>11 DEF Provision
<1>12. CASE SettleRow
  <2>1. /\ UNCHANGED <<nodes, program, rung>>
        /\ pc = "settle"
    BY <1>12 DEF SettleRow
  <2>2. PICK services \in {Cardinality(nodes), 0}, idle \in {importing # "running", TRUE} :
          LET row == IF Arrived(services) /\ idle THEN held + 1 ELSE 0 IN
          IF row = Hold \/ polls + 1 = SettlePolls
            THEN polls' = 0 /\ held' = 0 /\ settled' = (row = Hold) /\ pc' = AfterSettle
            ELSE polls' = polls + 1 /\ held' = row /\ UNCHANGED <<settled, pc>>
    BY <1>12 DEF SettleRow
  <2>3. SUFFICES ASSUME pc' \in {"inject", "measure"}, Edge, settled'
                 PROVE  Cardinality(nodes) = rung
    BY <2>1
  <2>4. settled' = ((IF Arrived(services) /\ idle THEN held + 1 ELSE 0) = Hold)
    BY <2>1, <2>2, <2>3
  <2>5. Hold # 0 /\ rung \in Nat \ {0}
    BY <2>1, <2>3, ClimbAssumption DEF Place, Running
  <2>6. Arrived(services)
    BY <2>3, <2>4, <2>5
  <2>7. services = rung
    BY <2>3, <2>6 DEF Arrived, CountIsExact, Target
  <2> QED BY <2>2, <2>5, <2>7
<1>13. CASE Inject BY <1>13 DEF Inject
<1>14. CASE Measure BY <1>14 DEF Measure
<1>15. CASE Killed BY <1>15 DEF Killed
<1> QED BY <1>1, <1>2, <1>3, <1>4, <1>5, <1>6, <1>7, <1>8, <1>9, <1>10, <1>11, <1>12, <1>13, <1>14, <1>15 DEF Next, Lab, Drive

\* A step that leaves the rows and the rung, and does not begin a climb, leaves what
\* the rows say.
LEMMA RowsKept ==
    ASSUME Rising, RowsEndAtTheEdge, UNCHANGED <<rows, rung, program>>,
           pc' \in Running => pc \in Running
    PROVE  Rising' /\ RowsEndAtTheEdge'
BY DEF Rising, RowsEndAtTheEdge, Target, Edge

\* A row that was appended is the last one, and the rows before it are as they were.
LEMMA Appended ==
    ASSUME NEW S, NEW s \in Seq(S), NEW e \in S, NEW t, t = Append(s, e)
    PROVE  /\ t \in Seq(S) /\ Len(s) \in Nat /\ DOMAIN t = 1..(Len(s) + 1)
           /\ DOMAIN s = 1..Len(s)
           /\ \A i \in 1..Len(s) : t[i] = s[i]
           /\ t[Len(s) + 1] = e
OBVIOUS

\* A row of either driver is of the type of the rows.
LEMMA RowTyped ==
    ASSUME Place, pc = "measure", NEW w \in Windows
    PROVE  [fleet |-> Target, PASS |-> IF Edge THEN Completes(w) ELSE ~Knee(w),
            drains |-> w.queue = "drains"] \in Row
<1>1. (w.queue = "drains") \in BOOLEAN /\ Completes(w) \in BOOLEAN /\ (~Knee(w)) \in BOOLEAN
  BY Zenon DEF Completes
<1>2. Target \in Nat
  BY TargetTyped DEF Running
<1> QED BY <1>1, <1>2 DEF Row

\* A next rung is of a larger fleet.
LEMMA RungRises ==
    ASSUME Place, pc = "measure", UNCHANGED program,
           rung' = IF Edge THEN rung + STEP ELSE rung + 1, ~Edge => rung < Len(RUNGS)
    PROVE  Target \in Nat /\ Target' \in Nat /\ Target < Target'
<1>1. CASE Edge
  BY <1>1, NextBlocks DEF Place, Running, Target, Edge
<1>2. CASE ~Edge
  BY <1>2, Targets DEF Place, Running, Target, Edge
<1> QED BY <1>1, <1>2

\* The rows say that fleets rose and that each window but the last let the climb go on.
LEMMA RowsStep ==
    ASSUME Place, Rising, RowsEndAtTheEdge, Next
    PROVE  Rising' /\ RowsEndAtTheEdge'
<1> USE DEF Goto, nl6, opennms, driver, counters, Running
<1>1. CASE LateServed BY <1>1, RowsKept DEF LateServed
<1>2. CASE LateDropped BY <1>2, RowsKept DEF LateDropped
<1>3. CASE Nl6Restarts BY <1>3, RowsKept DEF Nl6Restarts
<1>4. CASE ImportBegins BY <1>4, RowsKept DEF ImportBegins
<1>5. CASE Import BY <1>5, RowsKept DEF Import
<1>6. CASE Begin
  <2>1. rows' = <<>>
    BY <1>6 DEF Begin
  <2>2. rows' \in Seq(Row) /\ DOMAIN rows' = {}
    BY <2>1
  <2> QED BY <2>2 DEF Rising, RowsEndAtTheEdge
<1>7. CASE Delete BY <1>7, RowsKept DEF Delete
<1>8. CASE AwaitClear BY <1>8, RowsKept DEF AwaitClear
<1>9. CASE Post BY <1>9, RowsKept DEF Post
<1>10. CASE Grown BY <1>10, RowsKept DEF Grown
<1>11. CASE Provision BY <1>11, RowsKept DEF Provision
<1>12. CASE SettleRow BY <1>12, RowsKept DEF SettleRow
<1>13. CASE Inject BY <1>13, RowsKept DEF Inject
<1>14. CASE Measure
  <2>1. PICK w \in Windows :
          LET pass == IF Edge THEN Completes(w) ELSE ~Knee(w) IN
          /\ rows' = Append(rows, [fleet |-> Target, PASS |-> pass, drains |-> w.queue = "drains"])
          /\ IF More(pass)
               THEN /\ rung' = (IF Edge THEN rung + STEP ELSE rung + 1)
                    /\ todo' = NextOctets
                    /\ pc' = IF NextOctets = {} THEN "settle" ELSE "grow"
               ELSE UNCHANGED <<rung, todo>> /\ pc' = "complete"
    BY <1>14 DEF Measure
  <2> DEFINE row == [fleet |-> Target, PASS |-> IF Edge THEN Completes(w) ELSE ~Knee(w),
                     drains |-> w.queue = "drains"]
             n == Len(rows)
  <2>2. pc = "measure" /\ UNCHANGED program /\ rows \in Seq(Row)
    BY <1>14 DEF Measure, Rising
  <2>3. row \in Row
    BY <2>2, RowTyped
  <2>4. rows' = Append(rows, row)
    BY <2>1
  <2>5. row.fleet = Target /\ row.PASS = (IF Edge THEN Completes(w) ELSE ~Knee(w))
        /\ row.drains = (w.queue = "drains")
    OBVIOUS
  <2>6. pc' = "complete" \/ /\ rung' = (IF Edge THEN rung + STEP ELSE rung + 1)
                            /\ More(IF Edge THEN Completes(w) ELSE ~Knee(w))
    BY <2>1
  <2>7. More(IF Edge THEN Completes(w) ELSE ~Knee(w)) =>
          row.PASS /\ (Edge => row.drains) /\ (~Edge => rung < Len(RUNGS))
    BY <2>5, Zenon DEF More, GoesOn, Completes
  <2> HIDE DEF row
  <2>8. /\ rows' \in Seq(Row) /\ DOMAIN rows' = 1..(n + 1) /\ DOMAIN rows = 1..n /\ n \in Nat
        /\ \A i \in 1..n : rows'[i] = rows[i]
        /\ rows'[n + 1] = row
    BY <2>2, <2>3, <2>4, Appended
  <2> HIDE DEF n
  <2>9. \A i \in 1..n : /\ rows[i].fleet \in Nat /\ rows[i].fleet < Target
                        /\ rows[i].PASS /\ (Edge => rows[i].drains)
    <3>1. \A i \in 1..n : rows[i] \in Row
      BY <2>2, <2>8
    <3> QED BY <2>2, <2>8, <3>1 DEF Rising, Row
  <2>10. RowsEndAtTheEdge'
    <3>1. ASSUME NEW i \in 1..(n + 1), NEW j \in 1..(n + 1), i < j
          PROVE  rows'[i].fleet < rows'[j].fleet /\ rows'[i].PASS /\ (Edge => rows'[i].drains)
      <4>1. i \in 1..n /\ rows'[i] = rows[i]
        BY <2>8, <3>1
      <4>2. CASE j = n + 1
        BY <2>5, <2>8, <2>9, <4>1, <4>2
      <4>3. CASE j # n + 1
        <5>1. j \in 1..n /\ rows'[j] = rows[j]
          BY <2>8, <4>3
        <5> QED BY <2>8, <2>9, <3>1, <4>1, <5>1 DEF RowsEndAtTheEdge
      <4> QED BY <4>2, <4>3
    <3> QED BY <2>2, <2>8, <3>1 DEF RowsEndAtTheEdge, Edge
  <2>11. CASE pc' = "complete"
    BY <2>8, <2>10, <2>11 DEF Rising
  <2>12. CASE /\ rung' = (IF Edge THEN rung + STEP ELSE rung + 1)
              /\ More(IF Edge THEN Completes(w) ELSE ~Knee(w))
    <3>1. Target \in Nat /\ Target' \in Nat /\ Target < Target'
      BY <2>2, <2>7, <2>12, RungRises
    <3>2. ASSUME NEW i \in 1..(n + 1)
          PROVE  rows'[i].fleet < Target' /\ rows'[i].PASS /\ (Edge => rows'[i].drains)
      <4>1. CASE i = n + 1
        BY <2>5, <2>7, <2>8, <2>12, <3>1, <4>1
      <4>2. CASE i # n + 1
        <5>1. i \in 1..n /\ rows'[i] = rows[i]
          BY <2>8, <4>2
        <5> QED BY <2>9, <3>1, <5>1
      <4> QED BY <4>1, <4>2
    <3> QED BY <2>2, <2>8, <2>10, <3>2 DEF Rising, Edge
  <2> QED BY <2>6, <2>11, <2>12
<1>15. CASE Killed BY <1>15, RowsKept DEF Killed
<1> QED BY <1>1, <1>2, <1>3, <1>4, <1>5, <1>6, <1>7, <1>8, <1>9, <1>10, <1>11, <1>12, <1>13, <1>14, <1>15 DEF Next, Lab, Drive

-----------------------------------------------------------------------------
(* The theorems. *)

\* IInv holds initially.
LEMMA InitIInv == Init => IInv
<1> SUFFICES ASSUME Init PROVE IInv
  OBVIOUS
<1> USE DEF Init
<1>1. Finite
  BY FS_EmptySet DEF Finite
<1>2. Place /\ Grew /\ Importing /\ Counted
  BY DEF Place, Grew, Importing, Counted, Running
<1>3. rows \in Seq(Row) /\ DOMAIN rows = {}
  OBVIOUS
<1> QED BY <1>1, <1>2, <1>3 DEF IInv, Rising, RowsEndAtTheEdge

\* Every step keeps IInv.
LEMMA StepIInv == IInv /\ [Next]_vars => IInv'
<1> SUFFICES ASSUME IInv, [Next]_vars PROVE IInv'
  OBVIOUS
<1>1. CASE Next
  BY <1>1, FiniteStep, PlaceStep, GrewStep, ImportingStep, CountedStep, RowsStep DEF IInv
<1>2. CASE UNCHANGED vars
  BY <1>2 DEF IInv, Finite, Place, Grew, Importing, Counted, Rising, RowsEndAtTheEdge,
              Target, Edge, vars, nl6, opennms, counters
<1> QED BY <1>1, <1>2

\* The inductive invariant holds in every behaviour: what nl6 has, of what the import
\* was made, what settle counted and what the rows say.
THEOREM Invariance == Spec => []IInv
<1> QED BY InitIInv, StepIInv, PTL DEF Spec

\* A fleet that edge_search settled on is exactly the rung when its import had been made
\* and nl6 lost no device, whatever calls were lost or carried out late: for any fleets,
\* attempts, polls and number of runs.
THEOREM SettledHolds == Spec => []SettledFleetIsTheRung
<1>1. ASSUME IInv PROVE SettledFleetIsTheRung
  <2> SUFFICES ASSUME pc \in {"inject", "measure"}, Edge, settled, sure, ~lost
               PROVE  nodes = Blocks(rung) /\ Blocks(rung) \subseteq devices
    BY DEF SettledFleetIsTheRung
  <2>1. IsFiniteSet(nodes) /\ rung \in Nat
    BY <1>1 DEF IInv, Finite, Place, Running
  <2>2. Blocks(rung) \subseteq devices
    BY <1>1 DEF IInv, Grew, Running
  <2>3. Blocks(rung) \subseteq nodes
    BY <1>1 DEF IInv, Importing
  <2>4. Cardinality(nodes) = rung
    BY <1>1 DEF IInv, Counted
  <2> QED BY <2>1, <2>2, <2>3, <2>4, CountIsSet
<1> QED BY Invariance, <1>1, PTL

\* The edge is one step above a fleet whose queue was seen to drain, and a sweep ends at
\* its knee, for any sequence of rising fleets.
THEOREM EdgeHolds == Spec => []RowsEndAtTheEdge
<1>1. IInv => RowsEndAtTheEdge
  BY DEF IInv
<1> QED BY Invariance, <1>1, PTL

-----------------------------------------------------------------------------
(* That a run ends.  Each of its steps makes smaller what is left of it: the    *)
(* rungs, the stages of the rung, the octets or rows of the stage, and the      *)
(* attempts of an octet, in that order.                                         *)

RungsLeft == IF Edge THEN (IF rung <= START + CAP + STEP THEN START + CAP + STEP - rung ELSE 0)
             ELSE Len(RUNGS) - rung

StagesLeft ==
    CASE pc = "delete" -> 7 [] pc = "clear" -> 6 [] pc = "grow" -> 5 [] pc = "provision" -> 4
      [] pc = "settle" -> 3 [] pc = "inject" -> 2 [] pc = "measure" -> 1 [] OTHER -> 0

TurnsLeft ==
    CASE pc = "clear" -> ClearPolls - polls [] pc = "grow" -> Cardinality(todo)
      [] pc = "settle" -> SettlePolls - polls [] OTHER -> 0

TriesLeft == IF pc = "grow" THEN Attempts - attempt ELSE 0

AreLeft == {RungsLeft, StagesLeft, TurnsLeft, TriesLeft} \subseteq Nat

Shorter ==
    /\ AreLeft'
    /\ \/ RungsLeft' < RungsLeft
       \/ RungsLeft' = RungsLeft /\ StagesLeft' < StagesLeft
       \/ RungsLeft' = RungsLeft /\ StagesLeft' = StagesLeft /\ TurnsLeft' < TurnsLeft
       \/ /\ RungsLeft' = RungsLeft /\ StagesLeft' = StagesLeft /\ TurnsLeft' = TurnsLeft
          /\ TriesLeft' < TriesLeft

\* Nothing but a new run makes it longer, and nl6 and OpenNMS cannot.
RunsShorten ==
    [][Begin \/ Shorter \/ (~Drive /\ UNCHANGED <<RungsLeft, StagesLeft, TurnsLeft, TriesLeft>>)]_vars

\* The octets still to post.
ToPost == IsFiniteSet(todo) /\ todo \subseteq Nat

\* Where a run stands: its counters within their bounds, and beyond its first window no
\* fleet above the last one is measured.
Course ==
    /\ rung \in Nat
    /\ ~Edge => rung \in DOMAIN RUNGS
    /\ pc \in Running =>
         /\ attempt \in 0..(Attempts - 1)
         /\ polls \in 0..((CASE pc = "clear" -> ClearPolls [] pc = "settle" -> SettlePolls [] OTHER -> 1) - 1)
         /\ Edge /\ rows = <<>> => rung = START
         /\ Edge /\ pc \in {"inject", "measure"} => rung <= CAP \/ rung = START

\* What the next rung has to post is finite.
LEMMA NextOctetsFinite ==
    ASSUME rung \in Nat, ~Edge => rung \in DOMAIN RUNGS /\ rung < Len(RUNGS)
    PROVE  IsFiniteSet(NextOctets) /\ NextOctets \subseteq Nat
<1>1. CASE Edge
  <2>1. STEP \in Nat /\ NextOctets = rung..(rung + STEP - 1)
    BY <1>1, ClimbAssumption DEF NextOctets
  <2> QED BY <2>1, FS_Interval
<1>2. CASE ~Edge
  <2>1. rung + 1 \in DOMAIN RUNGS /\ NextOctets = RUNGS[rung + 1].octets
    BY <1>2, Targets DEF NextOctets
  <2>2. RUNGS[rung + 1].octets \subseteq Nat
    <3>1. RUNGS[rung + 1] \in [target: Nat, octets: SUBSET Nat]
      BY <2>1, ClimbAssumption, Places
    <3> QED BY <3>1
  <2> QED BY <2>1, <2>2, ClimbAssumption
<1> QED BY <1>1, <1>2

\* A set of numbers that is not empty has a least one.
LEMMA Least ==
    ASSUME NEW T \in SUBSET Nat, T # {}
    PROVE  \E n \in T : \A m \in T : n <= m
<1>1. IsWellFoundedOn(OpToRel(<, Nat), Nat)
  BY NatLessThanWellFounded
<1>2. PICK n \in T : \A m \in T : ~(<<m, n>> \in OpToRel(<, Nat))
  BY <1>1, WFMin
<1>3. \A m \in T : ~(m < n)
  BY <1>2 DEF OpToRel
<1> QED BY <1>3

\* Of the octets to post there is a next one.
LEMMA NextOctetIsOne ==
    ASSUME ToPost, todo # {}
    PROVE  NextOctet \in todo
BY Least DEF NextOctet, ToPost

\* They stay so.
LEMMA ToPostStep ==
    ASSUME Course, ToPost, [Next]_vars
    PROVE  ToPost'
<1> USE DEF ToPost
<1>1. CASE Begin
  <2>1. CASE BeginEdge
    <3>1. START \in Nat /\ todo' = 0..(START - 1)
      BY <2>1, ClimbAssumption DEF BeginEdge, Blocks
    <3> QED BY <3>1, FS_Interval
  <2>2. CASE BeginSweep
    <3>1. 1 \in DOMAIN RUNGS /\ todo' = RUNGS[1].octets
      BY <2>2, ClimbAssumption DEF BeginSweep
    <3>2. RUNGS[1].octets \subseteq Nat
      <4>1. RUNGS[1] \in [target: Nat, octets: SUBSET Nat]
        BY <3>1, ClimbAssumption, Places
      <4> QED BY <4>1
    <3> QED BY <3>1, <3>2, ClimbAssumption
  <2> QED BY <1>1, <2>1, <2>2 DEF Begin
<1>2. CASE Post
  <2>1. todo' = todo \/ todo' = todo \ {NextOctet}
    BY <1>2 DEF Post
  <2> QED BY <2>1, FS_Subset
<1>3. CASE Measure
  <2>1. todo' = todo \/ (todo' = NextOctets /\ (~Edge => rung < Len(RUNGS)))
    BY <1>3 DEF Measure, More, GoesOn
  <2> QED BY <2>1, NextOctetsFinite DEF Course
<1>4. CASE UNCHANGED todo
  BY <1>4
<1>5. Lab \/ Delete \/ AwaitClear \/ Grown \/ Provision \/ SettleRow \/ Inject \/ Killed \/ UNCHANGED vars => UNCHANGED todo
  BY DEF Lab, LateServed, LateDropped, Nl6Restarts, ImportBegins, Import, driver, Delete,
         AwaitClear, Grown, Provision, SettleRow, Inject, Killed, vars
<1> QED BY <1>1, <1>2, <1>3, <1>4, <1>5 DEF Next, Drive

\* A sequence to which something was appended is not empty.
LEMMA AppendedIsNotEmpty ==
    ASSUME NEW S, NEW s \in Seq(S), NEW e
    PROVE  Append(s, e) # <<>>
<1>1. s \in Seq(S \cup {e})
  BY Places
<1>2. DOMAIN Append(s, e) = 1..(Len(s) + 1) /\ Len(s) \in Nat
  BY <1>1, Appended
<1> QED BY <1>2

\* Where a run stands after a step.
LEMMA CourseStep ==
    ASSUME Course, Rising, [Next]_vars
    PROVE  Course'
<1> USE ClimbAssumption DEF Course, Edge, Goto, Running, counters
<1>1. CASE Begin
  <2>1. attempt' = 0 /\ polls' = 0 /\ rows' = <<>>
    BY <1>1 DEF Begin
  <2>2. CASE BeginEdge
    BY <2>1, <2>2 DEF BeginEdge
  <2>3. CASE BeginSweep
    BY <2>1, <2>3 DEF BeginSweep
  <2> QED BY <1>1, <2>2, <2>3 DEF Begin
<1>2. CASE Delete
  BY <1>2 DEF Delete
<1>3. CASE AwaitClear
  <2>1. /\ pc = "clear" /\ UNCHANGED <<program, rung, rows, attempt>>
        /\ \/ polls' = 0 /\ pc' = "grow"
           \/ polls + 1 # ClearPolls /\ polls' = polls + 1 /\ pc' = pc
    BY <1>3 DEF AwaitClear
  <2> QED BY <2>1
<1>4. CASE Post
  <2>1. /\ pc = "grow" /\ UNCHANGED <<program, rung, rows, polls>>
        /\ \/ attempt' = 0 /\ pc' = pc
           \/ attempt + 1 < Attempts /\ attempt' = attempt + 1 /\ pc' = pc
           \/ pc' = "failed"
    BY <1>4 DEF Post, TriesAgain, GivesUp
  <2> QED BY <2>1
<1>5. CASE Grown
  BY <1>5 DEF Grown
<1>6. CASE Provision
  BY <1>6 DEF Provision
<1>7. CASE SettleRow
  <2>1. /\ pc = "settle" /\ UNCHANGED <<program, rung, rows, attempt>>
        /\ \/ polls' = 0 /\ pc' = AfterSettle
           \/ polls + 1 # SettlePolls /\ polls' = polls + 1 /\ pc' = pc
    BY <1>7 DEF SettleRow
  <2>2. CASE polls' = 0 /\ pc' = AfterSettle
    BY <2>1, <2>2 DEF AfterSettle
  <2>3. CASE polls + 1 # SettlePolls /\ polls' = polls + 1 /\ pc' = pc
    BY <2>1, <2>3
  <2> QED BY <2>1, <2>2, <2>3
<1>8. CASE Inject
  BY <1>8 DEF Inject
<1>9. CASE Measure
  <2>1. /\ pc = "measure" /\ UNCHANGED <<program, attempt, polls>>
        /\ \E r : rows' = Append(rows, r)
        /\ \/ pc' = "complete" /\ rung' = rung
           \/ /\ pc' \in {"settle", "grow"}
              /\ rung' = IF Edge THEN rung + STEP ELSE rung + 1
              /\ ~Edge => rung < Len(RUNGS)
    BY <1>9 DEF Measure, More, GoesOn
  <2>2. rows' # <<>>
    BY <2>1, AppendedIsNotEmpty DEF Rising
  <2>3. ~Edge /\ rung < Len(RUNGS) => rung + 1 \in DOMAIN RUNGS
    BY Targets
  <2>4. rung' \in Nat /\ (~Edge => rung' \in DOMAIN RUNGS)
    <3>1. rung + STEP \in Nat /\ rung + 1 \in Nat
      OBVIOUS
    <3>2. UNCHANGED program
      BY <2>1
    <3> QED BY ONLY <2>1, <2>3, <3>1, <3>2, Course DEF Course, Edge
  <2>5. CASE pc' = "complete"
    <3>1. pc' \notin Running /\ Edge' = Edge
      BY <2>1, <2>5
    <3> HIDE DEF Running, Edge
    <3> QED BY ONLY <2>4, <3>1, Zenon DEF Course
  <2>6. CASE pc' \in {"settle", "grow"}
    <3>1. attempt' \in 0..(Attempts - 1) /\ polls' = 0
      BY <2>1
    <3>2. polls' \in 0..((CASE pc' = "clear" -> ClearPolls [] pc' = "settle" -> SettlePolls [] OTHER -> 1) - 1)
      <4>1. CASE pc' = "settle"
        BY <3>1, <4>1
      <4>2. CASE pc' = "grow"
        BY <3>1, <4>2
      <4> QED BY <2>6, <4>1, <4>2
    <3>3. pc' \notin {"inject", "measure"} /\ Edge' = Edge
      BY <2>1, <2>6
    <3> HIDE DEF Running, Edge
    <3> QED BY ONLY <2>2, <2>4, <3>1, <3>2, <3>3, Zenon DEF Course
  <2> QED BY <2>1, <2>5, <2>6
<1>10. CASE Killed
  BY <1>10 DEF Killed
<1>11. CASE Lab \/ UNCHANGED vars
  <2>1. UNCHANGED <<pc, program, rung, attempt, polls, rows>>
    BY <1>11 DEF Lab, LateServed, LateDropped, Nl6Restarts, ImportBegins, Import, driver, vars
  <2> QED BY <2>1
<1> QED BY <1>1, <1>2, <1>3, <1>4, <1>5, <1>6, <1>7, <1>8, <1>9, <1>10, <1>11 DEF Next, Drive

\* A run stays on its course.
LEMMA OnCourse == Spec => [](Course /\ ToPost)
<1>1. Init => Course /\ ToPost
  BY FS_EmptySet DEF Init, Course, ToPost, Running, Edge
<1>2. IInv /\ Course /\ ToPost /\ [Next]_vars => Course' /\ ToPost'
  BY CourseStep, ToPostStep DEF IInv
<1> QED BY <1>1, <1>2, Invariance, PTL DEF Spec

\* What is left of a run is counted in numbers.
LEMMA LeftIsCounted == Course /\ ToPost => AreLeft
<1> SUFFICES ASSUME Course, ToPost PROVE AreLeft
  OBVIOUS
<1> USE ClimbAssumption DEF Course, Running
<1>1. RungsLeft \in Nat
  <2>1. CASE Edge
    BY <2>1 DEF RungsLeft
  <2>2. CASE ~Edge
    <3>1. DOMAIN RUNGS = 1..Len(RUNGS) /\ Len(RUNGS) \in Nat
      OBVIOUS
    <3> QED BY <2>2, <3>1 DEF RungsLeft
  <2> QED BY <2>1, <2>2
<1>2. StagesLeft \in Nat
  BY DEF StagesLeft
<1>3. TurnsLeft \in Nat
  BY FS_CardinalityType DEF TurnsLeft, ToPost
<1>4. TriesLeft \in Nat
  BY DEF TriesLeft
<1> QED BY <1>1, <1>2, <1>3, <1>4 DEF AreLeft

\* Of two numbers the larger leaves less of a bound.
LEMMA LargerLeavesLess ==
    ASSUME NEW m \in Int, NEW a \in Int, NEW b \in Int, a < b
    PROVE  m - b < m - a
OBVIOUS

\* A stage ends.
LEMMA StageEnds ==
    ASSUME AreLeft', UNCHANGED <<rung, program>>, StagesLeft' < StagesLeft
    PROVE  Shorter
BY DEF Shorter, RungsLeft, Edge

\* A run ends where it runs.
LEMMA RunStops ==
    ASSUME AreLeft', UNCHANGED <<rung, program>>, pc \in Running, pc' \in {"failed", "complete"}
    PROVE  Shorter
<1>1. StagesLeft' = 0 /\ StagesLeft > 0
  BY DEF StagesLeft, Running
<1> QED BY <1>1, StageEnds

\* A turn within a stage leaves the rung and the stage.
LEMMA TurnTaken ==
    ASSUME AreLeft', UNCHANGED <<rung, program, pc>>,
           TurnsLeft' < TurnsLeft \/ (TurnsLeft' = TurnsLeft /\ TriesLeft' < TriesLeft)
    PROVE  Shorter
BY DEF Shorter, RungsLeft, StagesLeft, Edge

\* The next rung leaves fewer.
LEMMA RungShortens ==
    ASSUME Course, AreLeft', pc = "measure", UNCHANGED program,
           rung' = IF Edge THEN rung + STEP ELSE rung + 1, ~Edge => rung < Len(RUNGS)
    PROVE  Shorter
<1> USE ClimbAssumption DEF Course, Running
<1>1. CASE Edge
  <2> DEFINE top == START + CAP + STEP
  <2>1. rung + STEP <= top /\ rung < rung + STEP /\ rung \in Nat /\ top \in Nat
    BY <1>1
  <2>2. RungsLeft = top - rung /\ RungsLeft' = top - (rung + STEP)
    <3>1. RungsLeft = IF rung <= top THEN top - rung ELSE 0
      BY <1>1 DEF RungsLeft
    <3>2. RungsLeft' = IF rung' <= top THEN top - rung' ELSE 0
      BY <1>1 DEF RungsLeft, Edge
    <3>3. rung' = rung + STEP /\ rung <= top
      BY <1>1, <2>1
    <3> HIDE DEF top
    <3> QED BY ONLY <2>1, <3>1, <3>2, <3>3
  <2> HIDE DEF top
  <2>3. top - (rung + STEP) < top - rung
    BY <2>1
  <2>4. RungsLeft' < RungsLeft
    BY ONLY <2>2, <2>3
  <2> QED BY <2>4 DEF Shorter
<1>2. CASE ~Edge
  <2>1. RungsLeft = Len(RUNGS) - rung /\ RungsLeft' = Len(RUNGS) - (rung + 1)
    BY <1>2 DEF RungsLeft, Edge
  <2>2. Len(RUNGS) - (rung + 1) < Len(RUNGS) - rung
    BY <1>2
  <2>3. RungsLeft' < RungsLeft
    BY ONLY <2>1, <2>2
  <2> QED BY <2>3 DEF Shorter
<1> QED BY <1>1, <1>2

\* Each step of either driver, and each that ends it, makes what is left smaller.
LEMMA StepShortens ==
    ASSUME Course, ToPost, AreLeft', Drive \/ Killed
    PROVE  Shorter
<1> USE DEF Goto, counters
<1>1. CASE Killed
  BY <1>1, RunStops DEF Killed
<1>2. CASE Delete
  <2>1. StagesLeft' = 6 /\ StagesLeft = 7 /\ UNCHANGED <<rung, program>>
    BY <1>2 DEF Delete, StagesLeft
  <2> QED BY <2>1, StageEnds
<1>3. CASE AwaitClear
  <2>1. /\ pc = "clear" /\ UNCHANGED <<rung, program>>
        /\ pc' = "grow" \/ (polls' = polls + 1 /\ pc' = pc)
    BY <1>3 DEF AwaitClear
  <2>2. CASE pc' = "grow"
    <3>1. StagesLeft' = 5 /\ StagesLeft = 6
      BY <2>1, <2>2 DEF StagesLeft
    <3> QED BY <2>1, <3>1, StageEnds
  <2>3. CASE polls' = polls + 1 /\ pc' = pc
    <3>1. TurnsLeft = ClearPolls - polls /\ TurnsLeft' = ClearPolls - (polls + 1)
      BY <2>1, <2>3 DEF TurnsLeft
    <3>2. TurnsLeft' < TurnsLeft
      <4>1. ClearPolls - (polls + 1) < ClearPolls - polls
        BY <2>1, ClimbAssumption DEF Course, Running
      <4> QED BY ONLY <3>1, <4>1
    <3> QED BY <2>1, <2>3, <3>2, TurnTaken
  <2> QED BY <2>1, <2>2, <2>3
<1>4. CASE Post
  <2>1. /\ pc = "grow" /\ todo # {} /\ UNCHANGED <<rung, program>>
        /\ \/ todo' = todo \ {NextOctet} /\ pc' = pc
           \/ todo' = todo /\ attempt' = attempt + 1 /\ pc' = pc
           \/ pc' = "failed"
    BY <1>4 DEF Post, TriesAgain, GivesUp
  <2>2. CASE todo' = todo \ {NextOctet} /\ pc' = pc
    <3>1. /\ Cardinality(todo \ {NextOctet}) = Cardinality(todo) - 1
          /\ Cardinality(todo) \in Nat
      BY <2>1, NextOctetIsOne, FS_RemoveElement, FS_CardinalityType DEF ToPost
    <3>2. TurnsLeft = Cardinality(todo) /\ TurnsLeft' = Cardinality(todo \ {NextOctet})
      BY <2>1, <2>2 DEF TurnsLeft
    <3>3. TurnsLeft' < TurnsLeft
      <4>1. Cardinality(todo) - 1 < Cardinality(todo)
        BY <3>1
      <4> QED BY ONLY <3>1, <3>2, <4>1
    <3> QED BY <2>1, <2>2, <3>3, TurnTaken
  <2>3. CASE todo' = todo /\ attempt' = attempt + 1 /\ pc' = pc
    <3>1. TurnsLeft' = TurnsLeft /\ TriesLeft = Attempts - attempt /\ TriesLeft' = Attempts - (attempt + 1)
      BY <2>1, <2>3 DEF TurnsLeft, TriesLeft
    <3>2. TriesLeft' < TriesLeft
      <4>1. Attempts - (attempt + 1) < Attempts - attempt
        BY <2>1, ClimbAssumption DEF Course, Running
      <4> QED BY ONLY <3>1, <4>1
    <3> QED BY <2>1, <2>3, <3>1, <3>2, TurnTaken
  <2>4. CASE pc' = "failed"
    BY <2>1, <2>4, RunStops DEF Running
  <2> QED BY <2>1, <2>2, <2>3, <2>4
<1>5. CASE Grown
  <2>1. StagesLeft' = 4 /\ StagesLeft = 5 /\ UNCHANGED <<rung, program>>
    BY <1>5 DEF Grown, StagesLeft
  <2> QED BY <2>1, StageEnds
<1>6. CASE Provision
  <2>1. StagesLeft' = 3 /\ StagesLeft = 4 /\ UNCHANGED <<rung, program>>
    BY <1>6 DEF Provision, StagesLeft
  <2> QED BY <2>1, StageEnds
<1>7. CASE SettleRow
  <2>1. /\ pc = "settle" /\ UNCHANGED <<rung, program>>
        /\ pc' = AfterSettle \/ (polls' = polls + 1 /\ pc' = pc)
    BY <1>7 DEF SettleRow
  <2>2. CASE pc' = AfterSettle
    <3>1. StagesLeft' \in {2, 1, 0} /\ StagesLeft = 3
      BY <2>1, <2>2 DEF StagesLeft, AfterSettle
    <3> QED BY <2>1, <3>1, StageEnds
  <2>3. CASE polls' = polls + 1 /\ pc' = pc
    <3>1. TurnsLeft = SettlePolls - polls /\ TurnsLeft' = SettlePolls - (polls + 1)
      BY <2>1, <2>3 DEF TurnsLeft
    <3>2. TurnsLeft' < TurnsLeft
      <4>1. SettlePolls - (polls + 1) < SettlePolls - polls
        BY <2>1, ClimbAssumption DEF Course, Running
      <4> QED BY ONLY <3>1, <4>1
    <3> QED BY <2>1, <2>3, <3>2, TurnTaken
  <2> QED BY <2>1, <2>2, <2>3
<1>8. CASE Inject
  <2>1. StagesLeft' = 1 /\ StagesLeft = 2 /\ UNCHANGED <<rung, program>>
    BY <1>8 DEF Inject, StagesLeft
  <2> QED BY <2>1, StageEnds
<1>9. CASE Measure
  <2>1. /\ pc = "measure" /\ UNCHANGED program
        /\ \/ pc' = "complete" /\ rung' = rung
           \/ /\ rung' = IF Edge THEN rung + STEP ELSE rung + 1
              /\ ~Edge => rung < Len(RUNGS)
    BY <1>9 DEF Measure, More, GoesOn
  <2> QED BY <2>1, RunStops, RungShortens DEF Running
<1> QED BY <1>1, <1>2, <1>3, <1>4, <1>5, <1>6, <1>7, <1>8, <1>9 DEF Drive

\* Each step of edge_search and of fleet_sweep makes what is left of the run smaller: a
\* rung, a stage of it, an octet or a row of a stage, an attempt of an octet.  So no answer
\* of nl6 or of OpenNMS, and no order of the two, keeps a run going for ever; an edge search
\* in particular measures no fleet above its last one but the first.
THEOREM RunsAreFinite == Spec => RunsShorten
<1>1. ASSUME Course, ToPost, AreLeft', [Next]_vars
      PROVE  [Begin \/ Shorter \/ (~Drive /\ UNCHANGED <<RungsLeft, StagesLeft, TurnsLeft, TriesLeft>>)]_vars
  <2>1. CASE Drive \/ Killed
    BY <1>1, <2>1, StepShortens
  <2>2. CASE Lab /\ ~Drive
    <3>1. UNCHANGED <<pc, program, rung, todo, attempt, polls>>
      BY <2>2 DEF Lab, LateServed, LateDropped, Nl6Restarts, ImportBegins, Import, driver, counters
    <3>2. UNCHANGED <<RungsLeft, StagesLeft, TurnsLeft, TriesLeft>>
      BY <3>1 DEF RungsLeft, StagesLeft, TurnsLeft, TriesLeft, Edge
    <3> QED BY <2>2, <3>2
  <2> QED BY <1>1, <2>1, <2>2 DEF Next
<1>2. Spec => []AreLeft
  BY OnCourse, LeftIsCounted, PTL
<1> QED BY OnCourse, <1>1, <1>2, PTL DEF Spec, RunsShorten
=============================================================================
