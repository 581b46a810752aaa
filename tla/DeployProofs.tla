----------------------------- MODULE DeployProofs -----------------------------
(***************************************************************************)
(* What deploy.sh and validate-collections.py promise.                     *)
(*                                                                         *)
(* Deploy, for any providers, deployments, images and number of runs.  A   *)
(* run works on what its own provider has, so the inductive invariant is a *)
(* conjunction over the providers (Orderly): what an apply has done is     *)
(* recorded step by step, from the guard to the end.                       *)
(*                                                                         *)
(* CollectionClosure, at the end, for any manifest and any tree.           *)
(***************************************************************************)
EXTENDS Deploy, CollectionClosure, WellFoundedInduction, TLAPS

\* The tfvars file and the override are values of the provider's own variable.
SettingsKnown(p) == setting[p] \in Settings(p) /\ extra[p] \in Settings(p) \cup {Unset}

Backed(p) == disks[p] \subseteq bases[p]

\* An apply that goes on was not rejected, and its base volume is there.
BaseMade(p) ==
    pc[p] \in {"disks", "prune"} =>
        ~Rejected(p) /\ (pc[p] = "disks" => Image(p) \subseteq bases[p])

\* Once the hosts are converged the run works on one image and its own topology.
Converged(p) ==
    pc[p] \in {"prune", "discover"} \cup Plays =>
        disks[p] \subseteq Image(p) /\ hosts[p] = Shape(p)

Guarded(p) ==
    p \in Pinned /\ pc[p] = "base" /\ resolved[p] # Unset /\ extra[p] = Unset =>
        disks[p] \subseteq {Applied(p)} \/ Rejected(p)

\* The inventory a run goes on with is the one its last apply wrote.
InventoryWritten(p) ==
    /\ pc[p] \in {"discover"} \cup Plays =>
         inventory[p].of = p /\ inventory[p].shape = Shape(p)
    /\ pc[p] \in Plays /\ HasJumpHost(p) /\ jump[p] \notin {"missing", "unread"} => inventory[p].jump

Stacked(p) == pc[p] = "endpoints" => stack[p] = PlaybookOf(p)

EndedWell(p) ==
    pc[p] = "ok" =>
        /\ stack[p] = (IF hosts[p] \in OwnPlaybook THEN hosts[p] ELSE Shared)
        /\ manifest[p].of = p /\ manifest[p].shape = hosts[p]
        /\ p \in SpecDriven /\ slug[p] # Unset => manifest[p].deployment = hosts[p]

Orderly(p) ==
    /\ SettingsKnown(p) /\ Backed(p) /\ BaseMade(p) /\ Converged(p) /\ Guarded(p)
    /\ InventoryWritten(p) /\ Stacked(p) /\ EndedWell(p)

IInv == TypeOK /\ \A p \in Providers : Orderly(p)

Step(p) ==
    \/ Begin(p) \/ Guard(p) \/ CreateBase(p)
    \/ ConvergeHosts(p) \/ Prune(p) \/ Discover(p) \/ Bootstrap(p) \/ DeployStack(p)
    \/ PublishEndpoints(p) \/ Destroy(p) \/ DestroyFails(p) \/ RemoveFiles(p) \/ Fails(p)

\* Nothing of provider p changes.
Unmoved(p) ==
    /\ setting'[p] = setting[p] /\ bases'[p] = bases[p] /\ disks'[p] = disks[p]
    /\ hosts'[p] = hosts[p] /\ stack'[p] = stack[p]
    /\ inventory'[p] = inventory[p] /\ manifest'[p] = manifest[p] /\ pc'[p] = pc[p]
    /\ slug'[p] = slug[p] /\ extra'[p] = extra[p] /\ resolved'[p] = resolved[p]
    /\ jump'[p] = jump[p]

-----------------------------------------------------------------------------
(* Providers do not meet. *)

\* What a run changes is of its own provider, the generated files included.
LEMMA OthersKeep ==
    ASSUME TypeOK, NEW q \in Providers, Step(q), NEW p \in Providers, p # q
    PROVE  Unmoved(p)
<1> USE DEF TypeOK, Unmoved, FileOf, Goto, Ends, GoesOn, MayRender, lab, files, args
<1>1. CASE Begin(q) BY <1>1 DEF Begin
<1>2. CASE Guard(q) BY <1>2 DEF Guard
<1>3. CASE CreateBase(q) BY <1>3 DEF CreateBase
<1>4. CASE ConvergeHosts(q) BY <1>4 DEF ConvergeHosts
<1>5. CASE Prune(q) BY <1>5 DEF Prune, AfterApply
<1>6. CASE Discover(q) BY <1>6 DEF Discover
<1>7. CASE Bootstrap(q) BY <1>7 DEF Bootstrap
<1>8. CASE DeployStack(q) BY <1>8 DEF DeployStack
<1>9. CASE PublishEndpoints(q) BY <1>9 DEF PublishEndpoints
<1>10. CASE Destroy(q) BY <1>10 DEF Destroy
<1>11. CASE DestroyFails(q) BY <1>11 DEF DestroyFails
<1>12. CASE RemoveFiles(q) BY <1>12 DEF RemoveFiles
<1>13. CASE Fails(q) BY <1>13 DEF Fails
<1> QED BY <1>1, <1>2, <1>3, <1>4, <1>5, <1>6, <1>7, <1>8, <1>9, <1>10, <1>11, <1>12, <1>13 DEF Step

\* So a provider that was in order stays in order.
LEMMA SameStaysOrderly ==
    ASSUME NEW p \in Providers, Unmoved(p), Orderly(p)
    PROVE  Orderly(p)'
BY DEF Unmoved, Orderly, SettingsKnown, Backed, BaseMade, Converged, Guarded, InventoryWritten,
       Stacked, EndedWell, Rejected, Applied, Image, Shape, Aware, HasJumpHost, PlaybookOf

-----------------------------------------------------------------------------
(* The helpers. *)

\* A deployment's topology is one of the known ones.
LEMMA ShapeTyped == ASSUME TypeOK, NEW p \in Providers PROVE Shape(p) \in Slugs
BY SlugsAssumption DEF TypeOK, Shape, Aware

\* An apply that was not rejected uses an image that names content.
LEMMA ImageTyped ==
    ASSUME NEW p \in Providers, SettingsKnown(p), ~Rejected(p)
    PROVE  Image(p) \subseteq Images
BY ProvidersAssumption, ValuesAssumption DEF SettingsKnown, Rejected, Image, Applied, Settings

\* Settings of a provider are among all of them.
LEMMA SettingsTyped == \A p \in Providers : Settings(p) \subseteq AllSettings
BY DEF AllSettings

\* The inventory an apply renders is of the type of inventories.
LEMMA RenderedTyped ==
    ASSUME TypeOK, NEW p \in Providers
    PROVE  Rendered(p) \in [of : Providers, shape : Slugs, jump : BOOLEAN]
<1>1. (p \notin Jumping \/ jump[p] = "found") \in BOOLEAN
  BY Zenon
<1> QED BY <1>1, ShapeTyped DEF Rendered

-----------------------------------------------------------------------------
(* One lemma per action: the type invariant, and the order of the run's own *)
(* provider.                                                                 *)

\* Begin: a run starts with settings of its provider's variable.
LEMMA BeginKeeps ==
    ASSUME IInv, NEW p \in Providers, Begin(p)
    PROVE  TypeOK' /\ Orderly(p)'
<1> USE DEF IInv, Begin, Goto, lab, files
<1>1. TypeOK'
  BY SettingsTyped, MaxRunsAssumption DEF TypeOK, Steps
<1>2. SettingsKnown(p)'
  BY DEF TypeOK, SettingsKnown, Settings
<1>3. pc'[p] \in {"guard", "destroy"} /\ Backed(p)'
  BY DEF TypeOK, Orderly, Backed
<1> QED BY <1>1, <1>2, <1>3 DEF Orderly, BaseMade, Converged, Guarded, InventoryWritten, Stacked,
                                EndedWell, Plays

\* Guard: a console that answers without an override answers what will be applied,
\* and a lab on another image, or on two, is refused.
LEMMA GuardKeeps ==
    ASSUME IInv, NEW p \in Providers, Guard(p)
    PROVE  TypeOK' /\ Orderly(p)'
<1> USE DEF IInv, Guard, Goto, Ends, lab, files
<1>1. TypeOK'
  BY DEF TypeOK, Steps
<1>2. SettingsKnown(p)' /\ Backed(p)'
  BY DEF TypeOK, Orderly, SettingsKnown, Settings, Backed
<1>3. Guarded(p)'
  BY DEF TypeOK, Guarded, Refuses, Applied, Rejected
<1>4. pc'[p] \in {"base", "failed"}
  BY DEF TypeOK
<1> QED BY <1>1, <1>2, <1>3, <1>4 DEF Orderly, BaseMade, Converged, InventoryWritten, Stacked,
                                      EndedWell, Plays

\* CreateBase: what is applied has a volume, unless it was rejected.
LEMMA CreateBaseKeeps ==
    ASSUME IInv, NEW p \in Providers, CreateBase(p)
    PROVE  TypeOK' /\ Orderly(p)'
<1> USE DEF IInv, CreateBase, Goto, Ends, GoesOn, MayRender, FileOf, args
<1>1. ~Rejected(p) => Image(p) \subseteq Images
  BY ImageTyped DEF Orderly
<1>2. TypeOK'
  BY <1>1, RenderedTyped DEF TypeOK, Steps, BasesBesides
<1>3. SettingsKnown(p)' /\ Backed(p)'
  BY DEF TypeOK, Orderly, SettingsKnown, Settings, Backed, BasesBesides
<1>4. BaseMade(p)'
  BY DEF TypeOK, BaseMade, BasesBesides, Image, Rejected, Applied
<1>5. pc'[p] \in {"disks", "failed"}
  BY DEF TypeOK
<1> QED BY <1>2, <1>3, <1>4, <1>5 DEF Orderly, Converged, Guarded, InventoryWritten, Stacked,
                                      EndedWell, Plays

\* ConvergeHosts: the disks are overlays of the new base, or the old ones stay.
LEMMA ConvergeHostsKeeps ==
    ASSUME IInv, NEW p \in Providers, ConvergeHosts(p)
    PROVE  TypeOK' /\ Orderly(p)'
<1> USE DEF IInv, ConvergeHosts, Goto, Ends, GoesOn, MayRender, FileOf, args
<1>1. ~Rejected(p) /\ Image(p) \subseteq bases[p] /\ Image(p) \subseteq Images
  BY ImageTyped DEF Orderly, BaseMade
<1>2. \A kept \in Kept(p) : kept \subseteq disks[p]
  BY DEF Kept
<1>3. TypeOK'
  <2>1. disks' \in [Providers -> SUBSET Images]
    BY <1>1, <1>2 DEF TypeOK
  <2>2. hosts' \in [Providers -> Slugs \cup {Unset, Partial}]
    BY ShapeTyped DEF TypeOK
  <2>3. inventory' \in [Providers -> {NoFile} \cup [of : Providers, shape : Slugs, jump : BOOLEAN]]
    BY RenderedTyped DEF TypeOK
  <2> QED BY <2>1, <2>2, <2>3 DEF TypeOK, Steps
<1>4. SettingsKnown(p)'
  BY DEF TypeOK, Orderly, SettingsKnown, Settings
<1>5. Backed(p)'
  BY <1>1, <1>2 DEF TypeOK, Orderly, Backed
<1>6. BaseMade(p)' /\ Converged(p)'
  BY <1>1 DEF TypeOK, BaseMade, Converged, Image, Rejected, Applied, Shape, Aware, Plays
<1>7. pc'[p] \in {"prune", "failed"}
  BY DEF TypeOK
<1> QED BY <1>3, <1>4, <1>5, <1>6, <1>7 DEF Orderly, Guarded, InventoryWritten, Stacked,
                                            EndedWell, Plays

\* Prune: only bases no disk is an overlay of are removed, and the inventory is
\* the last thing that is certain.
LEMMA PruneKeeps ==
    ASSUME IInv, NEW p \in Providers, Prune(p)
    PROVE  TypeOK' /\ Orderly(p)'
<1> USE DEF IInv, Prune, Goto, FileOf, args
<1>1. ~Rejected(p) /\ Image(p) \subseteq Images /\ disks[p] \subseteq Image(p) /\ hosts[p] = Shape(p)
  BY ImageTyped DEF Orderly, BaseMade, Converged
<1>2. /\ pc'[p] \in {"discover", "bootstrap"}
      /\ jump'[p] \in {jump[p], "unread"}
      /\ pc'[p] = "bootstrap" /\ HasJumpHost(p) => jump'[p] # "unset"
  BY DEF TypeOK, AfterApply
<1>3. TypeOK'
  BY <1>1, <1>2, RenderedTyped DEF TypeOK, Steps, Plays, AfterApply
<1>4. SettingsKnown(p)' /\ Backed(p)'
  BY <1>1 DEF TypeOK, Orderly, SettingsKnown, Settings, Backed
<1>5. Converged(p)'
  BY <1>1 DEF TypeOK, Converged, Image, Applied, Shape, Aware
<1>6. InventoryWritten(p)'
  <2>1. inventory'[p] = Rendered(p)
    BY DEF TypeOK
  <2>2. Rendered(p).of = p /\ Rendered(p).shape = Shape(p)
    BY DEF Rendered
  <2>3. jump[p] \in {"unset", "found", "missing", "unread"} /\ jump'[p] \in {jump[p], "unread"}
    BY <1>2 DEF TypeOK
  <2>4. jump[p] = "found" => Rendered(p).jump
    BY DEF Rendered
  <2>5. Shape(p)' = Shape(p) /\ HasJumpHost(p)' = HasJumpHost(p)
    BY DEF Shape, Aware, HasJumpHost
  <2> QED BY <1>2, <2>1, <2>2, <2>3, <2>4, <2>5 DEF InventoryWritten, Plays
<1> QED BY <1>2, <1>3, <1>4, <1>5, <1>6 DEF Orderly, BaseMade, Guarded, Stacked, EndedWell

\* Discover: the second apply is of the image the first one left.
LEMMA DiscoverKeeps ==
    ASSUME IInv, NEW p \in Providers, Discover(p)
    PROVE  TypeOK' /\ Orderly(p)'
<1> USE DEF IInv, Discover, Goto, lab, files, args
<1>1. TypeOK'
  BY DEF TypeOK, Steps, Plays
<1>2. SettingsKnown(p)' /\ Backed(p)'
  BY DEF Orderly, SettingsKnown, Settings, Backed
<1>3. /\ disks[p] \subseteq Image(p) /\ hosts[p] = Shape(p)
      /\ inventory[p].of = p /\ inventory[p].shape = Shape(p)
  BY DEF Orderly, Converged, InventoryWritten
<1>4. Guarded(p)'
  BY <1>3 DEF Guarded, Image, Applied
<1>5. Converged(p)' /\ InventoryWritten(p)'
  BY <1>3 DEF TypeOK, Converged, InventoryWritten, Image, Applied, Shape, Aware, HasJumpHost, Plays
<1>6. pc'[p] \in {"base", "bootstrap"}
  BY DEF TypeOK
<1> QED BY <1>1, <1>2, <1>4, <1>5, <1>6 DEF Orderly, BaseMade, Stacked, EndedWell

\* Bootstrap: nothing but the step.
LEMMA BootstrapKeeps ==
    ASSUME IInv, NEW p \in Providers, Bootstrap(p)
    PROVE  TypeOK' /\ Orderly(p)'
<1> USE DEF IInv, Bootstrap, Goto, lab, files, args
<1>1. TypeOK'
  BY DEF TypeOK, Steps, Plays
<1>2. pc[p] = "bootstrap" /\ pc'[p] = "stack"
  BY DEF TypeOK
<1> QED BY <1>1, <1>2 DEF Orderly, SettingsKnown, Settings, Backed, BaseMade, Converged, Guarded,
             InventoryWritten, Stacked, EndedWell, Plays, Image, Applied, Shape, Aware, HasJumpHost

\* DeployStack: the playbook is the one of the hosts' own topology.
LEMMA DeployStackKeeps ==
    ASSUME IInv, NEW p \in Providers, DeployStack(p)
    PROVE  TypeOK' /\ Orderly(p)'
<1> USE DEF IInv, DeployStack, Goto, files, args
<1>1. PlaybookOf(p) \in Slugs \cup {Shared}
  BY SlugsAssumption DEF PlaybookOf
<1>2. TypeOK'
  BY <1>1 DEF TypeOK, Steps, Plays
<1>3. pc[p] = "stack" /\ pc'[p] = "endpoints" /\ Stacked(p)'
  BY DEF TypeOK, Stacked, PlaybookOf, Aware
<1> QED BY <1>2, <1>3 DEF Orderly, SettingsKnown, Settings, Backed, BaseMade, Converged, Guarded,
             InventoryWritten, EndedWell, Plays, Image, Applied, Shape, Aware, HasJumpHost

\* PublishEndpoints: the manifest says what was put on which hosts.
LEMMA PublishEndpointsKeeps ==
    ASSUME IInv, NEW p \in Providers, PublishEndpoints(p)
    PROVE  TypeOK' /\ Orderly(p)'
<1> USE DEF IInv, PublishEndpoints, Goto, Ends, GoesOn, FileOf, lab, args
<1>1. /\ hosts[p] = Shape(p) /\ inventory[p].shape = Shape(p) /\ stack[p] = PlaybookOf(p)
  BY DEF Orderly, Converged, InventoryWritten, Stacked, Plays
<1>2. TypeOK'
  BY <1>1, ShapeTyped DEF TypeOK
<1>3. SettingsKnown(p)' /\ Backed(p)'
  BY DEF TypeOK, Orderly, SettingsKnown, Settings, Backed
<1>4. EndedWell(p)'
  <2>1. PlaybookOf(p) = IF Shape(p) \in OwnPlaybook THEN Shape(p) ELSE Shared
    BY SlugsAssumption DEF PlaybookOf, Shape, Aware
  <2>2. /\ manifest'[p].of = p /\ manifest'[p].shape = Shape(p) /\ manifest'[p].deployment = slug[p]
    BY <1>1 DEF TypeOK
  <2>3. pc'[p] = "ok" => slug'[p] = slug[p]
    BY DEF TypeOK
  <2> QED BY <1>1, <2>1, <2>2, <2>3 DEF EndedWell, Shape, Aware
<1>5. pc'[p] \in {"ok", "failed"}
  BY DEF TypeOK
<1> QED BY <1>2, <1>3, <1>4, <1>5 DEF Orderly, BaseMade, Converged, Guarded, InventoryWritten, Stacked,
                                      Plays

\* Destroy: no disk and no base is left.
LEMMA DestroyKeeps ==
    ASSUME IInv, NEW p \in Providers, Destroy(p)
    PROVE  TypeOK' /\ Orderly(p)'
<1> USE DEF IInv, Destroy, Goto, FileOf, args
<1>1. TypeOK'
  BY DEF TypeOK, Steps
<1>2. pc'[p] = "cleanup" /\ SettingsKnown(p)' /\ Backed(p)'
  BY DEF TypeOK, Orderly, SettingsKnown, Settings, Backed
<1> QED BY <1>1, <1>2 DEF Orderly, BaseMade, Converged, Guarded, InventoryWritten, Stacked, EndedWell,
                          Plays

\* DestroyFails: while a disk is left no base is removed.
LEMMA DestroyFailsKeeps ==
    ASSUME IInv, NEW p \in Providers, DestroyFails(p)
    PROVE  TypeOK' /\ Orderly(p)'
<1> USE DEF IInv, DestroyFails, Goto, Ends, FileOf
<1>1. TypeOK'
  BY DEF TypeOK
<1>2. pc'[p] = "failed" /\ SettingsKnown(p)' /\ Backed(p)'
  BY DEF TypeOK, Orderly, SettingsKnown, Settings, Backed
<1> QED BY <1>1, <1>2 DEF Orderly, BaseMade, Converged, Guarded, InventoryWritten, Stacked, EndedWell,
                          Plays

\* RemoveFiles: the lab is gone, and its files with it.
LEMMA RemoveFilesKeeps ==
    ASSUME IInv, NEW p \in Providers, RemoveFiles(p)
    PROVE  TypeOK' /\ Orderly(p)'
<1> USE DEF IInv, RemoveFiles, Goto, Ends, FileOf, lab
<1>1. TypeOK'
  BY DEF TypeOK
<1>2. pc'[p] = "destroyed" /\ SettingsKnown(p)' /\ Backed(p)'
  BY DEF TypeOK, Orderly, SettingsKnown, Settings, Backed
<1> QED BY <1>1, <1>2 DEF Orderly, BaseMade, Converged, Guarded, InventoryWritten, Stacked, EndedWell,
                          Plays

\* Fails: a disk that an interrupted apply created has its base, which came first.
LEMMA FailsKeeps ==
    ASSUME IInv, NEW p \in Providers, Fails(p)
    PROVE  TypeOK' /\ Orderly(p)'
<1> USE DEF IInv, Fails, Goto, Ends, MayRender, FileOf
<1>1. pc[p] = "disks" => Image(p) \subseteq bases[p] /\ Image(p) \subseteq Images
  BY ImageTyped DEF Orderly, BaseMade
<1>2. TypeOK'
  BY <1>1, RenderedTyped DEF TypeOK
<1>3. pc'[p] = "failed" /\ SettingsKnown(p)' /\ Backed(p)'
  BY <1>1 DEF TypeOK, Orderly, SettingsKnown, Settings, Backed
<1> QED BY <1>2, <1>3 DEF Orderly, BaseMade, Converged, Guarded, InventoryWritten, Stacked, EndedWell,
                          Plays

-----------------------------------------------------------------------------
(* The invariant and what follows from it. *)

\* A run's own action keeps the type and its provider in order.
LEMMA StepKeeps ==
    ASSUME IInv, NEW p \in Providers, Step(p)
    PROVE  TypeOK' /\ Orderly(p)'
BY BeginKeeps, GuardKeeps, CreateBaseKeeps, ConvergeHostsKeeps, PruneKeeps, DiscoverKeeps,
   BootstrapKeeps, DeployStackKeeps, PublishEndpointsKeeps, DestroyKeeps, DestroyFailsKeeps,
   RemoveFilesKeeps, FailsKeeps DEF Step

\* In every behaviour every provider's run is in order.
THEOREM Invariance == Spec => []IInv
<1>1. Init => IInv
  BY MaxRunsAssumption DEF Init, IInv, TypeOK, Orderly, SettingsKnown, Backed, BaseMade, Converged,
     Guarded, InventoryWritten, Stacked, EndedWell, Plays, Settings
<1>2. IInv /\ [Next]_vars => IInv'
  <2> SUFFICES ASSUME IInv, [Next]_vars PROVE IInv'
    OBVIOUS
  <2>1. CASE UNCHANGED vars
    <3>1. TypeOK'
      BY <2>1 DEF IInv, TypeOK, vars, lab, files, args
    <3>2. \A p \in Providers : Unmoved(p)
      BY <2>1 DEF Unmoved, vars, lab, files, args
    <3> QED BY <3>1, <3>2, SameStaysOrderly DEF IInv
  <2>2. CASE Next
    <3>1. PICK q \in Providers : Step(q)
      BY <2>2 DEF Next, Step
    <3>2. TypeOK' /\ Orderly(q)'
      BY <3>1, StepKeeps
    <3>3. ASSUME NEW p \in Providers, p # q PROVE Orderly(p)'
      BY <3>1, <3>3, OthersKeep, SameStaysOrderly DEF IInv
    <3> QED BY <3>2, <3>3 DEF IInv
  <2> QED BY <2>1, <2>2
<1> QED BY <1>1, <1>2, PTL DEF Spec

\* Type correctness of deploy.sh's runs and of what they leave.
THEOREM TypeCorrect == Spec => []TypeOK
<1>1. IInv => TypeOK
  BY DEF IInv
<1> QED BY <1>1, Invariance, PTL

\* No apply, refused, failed or interrupted, and no destroy leaves an OS disk
\* without its base volume (create_before_destroy in the compute module).
THEOREM BackingHolds == Spec => []BackingIntact
<1>1. IInv => BackingIntact
  BY DEF IInv, Orderly, Backed, BackingIntact
<1> QED BY <1>1, Invariance, PTL

\* Unless the pin was overridden or the console failed, no apply begins with
\* another image under a lab (check_base_image_pin, check-base-image-pin.py).
THEOREM NoBump == Spec => []NoBumpUnderLab
<1>1. IInv => NoBumpUnderLab
  BY ProvidersAssumption DEF IInv, Orderly, Guarded, NoBumpUnderLab
<1> QED BY <1>1, Invariance, PTL

\* A playbook reads the inventory of its own provider and hosts (INVENTORY, and
\* the second tf_apply).
THEOREM PlaysRead == Spec => []PlaysReadThisLab
<1>1. IInv => PlaysReadThisLab
  BY DEF IInv, Orderly, Converged, InventoryWritten, PlaysReadThisLab, FileOf
<1> QED BY <1>1, Invariance, PTL

\* A run that ended well has built and published what it was asked for
\* (deployment_aware, DEPLOYMENT_PLAYBOOK, endpoints-playbook.yml).
THEOREM OkIsAsAsked == Spec => []OkMeansAsAsked
<1>1. IInv => OkMeansAsAsked
  BY DEF IInv, Orderly, EndedWell, OkMeansAsAsked, FileOf
<1> QED BY <1>1, Invariance, PTL

-----------------------------------------------------------------------------
(* CollectionClosure.  Two walks are behind the verdict: load_declared over    *)
(* the entries and main over the installed collections.  Each is described by  *)
(* what it knows after any number of steps, whatever their order (ReadOf,      *)
(* Claims); padding before comparing is the order of versions (LessIsBefore).  *)

\* A set of numbers that is not empty has a least one.
LEMMA Least ==
    ASSUME NEW T \in SUBSET Nat, T # {}
    PROVE  \E n \in T : \A m \in T : n <= m
<1>1. IsWellFoundedOn(OpToRel(<, Nat), Nat)
  BY NatLessThanWellFounded
<1>2. PICK x \in T : \A y \in T : ~(<<y, x>> \in OpToRel(<, Nat))
  BY <1>1, WFMin
<1>3. \A y \in T : ~(y < x)
  BY <1>2 DEF OpToRel
<1> QED BY <1>3

Version == Seq(Nat)

\* What a version is at a position.
LEMMA AtIs ==
    ASSUME NEW u \in Version, NEW v \in Version
    PROVE  /\ Longer(u, v) \in Nat /\ Longer(v, u) = Longer(u, v) /\ Len(u) \in Nat /\ Len(u) <= Longer(u, v)
           /\ Positions(u, v) = 1..Longer(u, v) /\ Positions(v, u) = Positions(u, v)
           /\ \A i \in Nat \ {0} : At(u, i) \in Nat
           /\ Pad(u, Longer(u, v)) = [i \in 1..Longer(u, v) |-> At(u, i)]
<1>1. Len(u) \in Nat /\ Len(v) \in Nat /\ \A i \in 1..Len(u) : u[i] \in Nat
  BY DEF Version
<1>2. Longer(u, v) \in Nat /\ Longer(v, u) = Longer(u, v) /\ Len(u) <= Longer(u, v)
  BY <1>1 DEF Longer
<1>3. \A i \in Nat \ {0} : At(u, i) \in Nat
  BY <1>1 DEF At
<1>4. Pad(u, Longer(u, v)) = [i \in 1..Longer(u, v) |-> At(u, i)]
  BY DEF Pad, At
<1> QED BY <1>1, <1>2, <1>3, <1>4 DEF Positions

\* Comparing padded tuples is comparing versions.
LEMMA LessIsBefore ==
    ASSUME NEW u \in Version, NEW v \in Version
    PROVE  (Less(u, v) <=> Before(u, v)) /\ (Same(u, v) <=> Equal(u, v))
<1> DEFINE w == Longer(u, v)
           p == Pad(u, w)
           q == Pad(v, w)
<1>1. w \in Nat /\ Positions(u, v) = 1..w /\ Longer(v, u) = w
  BY AtIs
<1>2. p = [i \in 1..w |-> At(u, i)] /\ q = [i \in 1..w |-> At(v, i)]
  BY AtIs
<1> HIDE DEF w, p, q
<1>3. Len(p) = w /\ Len(q) = w /\ \A i \in 1..w : p[i] = At(u, i) /\ q[i] = At(v, i)
  BY <1>1, <1>2
<1>4. Longer(p, q) = w
  BY <1>1, <1>3 DEF Longer
<1>5. TupleLess(p, q) <=> \E i \in 1..w : p[i] < q[i] /\ \A j \in 1..(i - 1) : p[j] = q[j]
  <2>1. \A i \in 1..w : i <= w /\ ~(i > w) /\ \A j \in 1..(i - 1) : j <= w
    BY <1>1
  <2> QED BY <1>3, <1>4, <2>1 DEF TupleLess
<1>6. \A i \in 1..w : \A j \in 1..(i - 1) : j \in 1..w
  BY <1>1
<1>7. TupleLess(p, q) <=> Before(u, v)
  BY <1>1, <1>3, <1>5, <1>6 DEF Before
<1>8. p = q <=> Equal(u, v)
  BY <1>1, <1>2, <1>3 DEF Equal
<1> QED BY <1>1, <1>7, <1>8 DEF Less, Same, w, p, q

\* Of two versions that are not equal one is before the other.
LEMMA Trichotomy ==
    ASSUME NEW u \in Version, NEW v \in Version
    PROVE  /\ ~Before(u, v) <=> Before(v, u) \/ Equal(u, v)
           /\ Equal(u, v) <=> Equal(v, u)
<1> DEFINE w == Longer(u, v)
<1>1. w \in Nat /\ Positions(u, v) = 1..w /\ Positions(v, u) = 1..w
  BY AtIs
<1>2. \A i \in 1..w : At(u, i) \in Nat /\ At(v, i) \in Nat
  BY <1>1, AtIs
<1> HIDE DEF w
<1>3. Equal(u, v) <=> Equal(v, u)
  BY <1>1 DEF Equal
<1>4. Equal(u, v) => ~Before(u, v)
  BY <1>1, <1>2 DEF Equal, Before
<1>5. ASSUME Before(v, u), Before(u, v) PROVE FALSE
  <2>1. PICK i \in 1..w : At(u, i) < At(v, i) /\ \A j \in 1..(i - 1) : At(u, j) = At(v, j)
    BY <1>1, <1>5 DEF Before
  <2>2. PICK k \in 1..w : At(v, k) < At(u, k) /\ \A j \in 1..(k - 1) : At(v, j) = At(u, j)
    BY <1>1, <1>5 DEF Before
  <2>3. i < k => i \in 1..(k - 1)
    BY <1>1
  <2>4. k < i => k \in 1..(i - 1)
    BY <1>1
  <2> QED BY <1>1, <1>2, <2>1, <2>2, <2>3, <2>4
<1>6. ASSUME ~Equal(u, v) PROVE Before(u, v) \/ Before(v, u)
  <2> DEFINE T == {i \in Nat : i \in 1..w /\ At(u, i) # At(v, i)}
  <2>1. T # {}
    BY <1>1, <1>6 DEF Equal
  <2>2. PICK i \in T : \A j \in T : i <= j
    BY <2>1, Least
  <2>3. ASSUME NEW j \in 1..(i - 1) PROVE At(u, j) = At(v, j)
    <3>1. j \in 1..w /\ j \in Nat /\ ~(i <= j)
      BY <1>1, <2>2
    <3> QED BY <2>2, <3>1
  <2>4. i \in 1..w /\ At(u, i) # At(v, i)
    BY <2>2
  <2>5. At(u, i) < At(v, i) \/ At(v, i) < At(u, i)
    BY <1>2, <2>4
  <2> QED BY <1>1, <2>3, <2>4, <2>5 DEF Before
<1> QED BY <1>3, <1>4, <1>5, <1>6

\* ~= is a prefix with a floor.
LEMMA CeilingIsPrefix ==
    ASSUME NEW v \in Version, NEW want \in Version, Len(want) >= 2
    PROVE  ~Before(v, want) /\ Before(v, Ceiling(want)) <=> Compatible(v, want)
<1> DEFINE c == Ceiling(want)
           m == Len(want) - 1
<1>1. Len(want) \in Nat /\ m \in Nat /\ m >= 1 /\ \A i \in 1..Len(want) : want[i] \in Nat
  BY DEF Version
<1>2. c = [i \in 1..m |-> IF i = m THEN want[i] + 1 ELSE want[i]]
  BY DEF Ceiling
<1> HIDE DEF c
<1>3. \A i \in 1..m : want[i] \in Nat
  BY <1>1
<1>4. c \in Version /\ Len(c) = m
  <2>1. c \in [1..m -> Nat]
    BY <1>2, <1>3
  <2> HIDE DEF m
  <2> QED BY <1>1, <2>1 DEF Version
<1> DEFINE w == Longer(v, c)
           z == Longer(v, want)
<1>5. /\ w \in Nat /\ Positions(v, c) = 1..w /\ m <= w
      /\ z \in Nat /\ Positions(v, want) = 1..z /\ Len(want) <= z
      /\ \A i \in Nat \ {0} : At(v, i) \in Nat
  BY <1>4, AtIs
<1> HIDE DEF w, z
<1>6. /\ \A i \in 1..(m - 1) : At(c, i) = want[i] /\ At(want, i) = want[i]
      /\ At(c, m) = want[m] + 1 /\ At(want, m) = want[m]
      /\ \A i \in Nat : i > m => At(c, i) = 0
  <2>1. ASSUME NEW i \in 1..(m - 1) PROVE At(c, i) = want[i] /\ At(want, i) = want[i]
    <3>1. i \in 1..m /\ i # m /\ i <= m /\ i <= Len(want)
      BY <1>1
    <3> HIDE DEF m
    <3> QED BY <1>2, <1>4, <3>1 DEF At
  <2>2. At(c, m) = want[m] + 1 /\ At(want, m) = want[m]
    <3>1. m \in 1..m /\ m <= m /\ m <= Len(want)
      BY <1>1
    <3> HIDE DEF m
    <3> QED BY <1>2, <1>4, <3>1 DEF At
  <2>3. ASSUME NEW i \in Nat, i > m PROVE At(c, i) = 0
    BY <1>1, <1>4, <2>3 DEF At
  <2> QED BY <2>1, <2>2, <2>3
<1>7. ASSUME Compatible(v, want) PROVE ~Before(v, want) /\ Before(v, c)
  <2>1. ~Before(v, want) /\ \A i \in 1..m : At(v, i) = want[i]
    BY <1>7 DEF Compatible
  <2>2. m \in 1..w /\ m \in 1..m /\ \A j \in 1..(m - 1) : j \in 1..m
    BY <1>1, <1>5
  <2>3. At(v, m) < At(c, m)
    BY <1>3, <1>6, <2>1, <2>2
  <2>4. \A j \in 1..(m - 1) : At(v, j) = At(c, j)
    BY <1>6, <2>1, <2>2
  <2> QED BY <1>5, <2>1, <2>2, <2>3, <2>4 DEF Before
<1>8. ASSUME ~Before(v, want), Before(v, c) PROVE Compatible(v, want)
  <2>1. PICK i \in 1..w : At(v, i) < At(c, i) /\ \A j \in 1..(i - 1) : At(v, j) = At(c, j)
    BY <1>5, <1>8 DEF Before
  <2>2. i \in Nat \ {0} /\ At(v, i) \in Nat
    BY <1>5
  <2>3. i <= m
    BY <1>1, <1>6, <2>1, <2>2
  <2>4. i \in 1..z /\ \A j \in 1..(i - 1) : j \in 1..(m - 1)
    BY <1>1, <1>5, <2>2, <2>3
  <2>5. \A j \in 1..(i - 1) : At(v, j) = At(want, j)
    BY <1>6, <2>1, <2>4
  <2>6. ~(At(v, i) < At(want, i))
    BY <1>5, <1>8, <2>4, <2>5 DEF Before
  <2>7. i = m
    <3>1. i # m => i \in 1..(m - 1)
      BY <1>1, <2>2, <2>3
    <3> QED BY <1>6, <2>1, <2>6, <3>1
  <2>8. At(v, m) = want[m]
    <3>1. want[m] \in Nat
      BY <1>1, <1>3
    <3> QED BY <1>6, <2>1, <2>2, <2>6, <2>7, <3>1
  <2>9. \A j \in 1..(m - 1) : At(v, j) = want[j]
    BY <1>6, <2>5, <2>7
  <2>10. \A j \in 1..m : At(v, j) = want[j]
    <3>1. \A j \in 1..m : j = m \/ j \in 1..(m - 1)
      BY <1>1
    <3> QED BY <2>8, <2>9, <3>1
  <2> QED BY <1>8, <2>10 DEF Compatible
<1> QED BY <1>7, <1>8 DEF c

\* satisfies says what a constraint allows.
LEMMA SatisfiesIsWithin ==
    ASSUME NEW v \in Version, NEW k \in Seq(Clauses)
    PROVE  Satisfies(v, k) = "yes" <=> Within(v, k)
<1>1. ASSUME NEW c \in Clauses
      PROVE  ~Raises(c) /\ Meets(v, c) <=> Allowed(v, c)
  <2> DEFINE want == c.want
  <2>1. want \in Version /\ c.op \in {">=", "<=", ">", "<", "==", "!=", "~=", "unreadable"} /\ Len(want) \in Nat
    BY DEF Clauses, Version
  <2>2. /\ Less(v, want) <=> Before(v, want)
        /\ Less(want, v) <=> Before(want, v)
        /\ Same(v, want) <=> Equal(v, want)
        /\ ~Before(v, want) <=> Before(want, v) \/ Equal(v, want)
        /\ ~Before(want, v) <=> Before(v, want) \/ Equal(v, want)
    BY <2>1, LessIsBefore, Trichotomy
  <2>3. CASE c.op = ">="
    BY <2>2, <2>3 DEF Meets, Allowed, Raises
  <2>4. CASE c.op = "<="
    BY <2>2, <2>4 DEF Meets, Allowed, Raises
  <2>5. CASE c.op = ">"
    BY <2>2, <2>5 DEF Meets, Allowed, Raises
  <2>6. CASE c.op = "<"
    BY <2>2, <2>6 DEF Meets, Allowed, Raises
  <2>7. CASE c.op = "=="
    BY <2>2, <2>7 DEF Meets, Allowed, Raises
  <2>8. CASE c.op = "!="
    BY <2>2, <2>8 DEF Meets, Allowed, Raises
  <2>9. CASE c.op = "unreadable"
    BY <2>9 DEF Allowed, Raises
  <2>10. CASE c.op = "~="
    <3>1. Raises(c) <=> Len(want) < 2
      BY <2>10 DEF Raises
    <3>2. Meets(v, c) <=> ~Less(v, want) /\ Less(v, Ceiling(want))
      BY <2>10 DEF Meets
    <3>3. Allowed(v, c) <=> Len(want) > 1 /\ Compatible(v, want)
      BY <2>10 DEF Allowed
    <3> HIDE DEF want
    <3>4. CASE Len(want) < 2
      BY <2>1, <3>1, <3>3, <3>4
    <3>5. CASE Len(want) >= 2
      <4>1. Ceiling(want) \in Version
        <5>1. \A i \in 1..(Len(want) - 1) : want[i] \in Nat /\ want[i] + 1 \in Nat
          BY <2>1 DEF Version
        <5> DEFINE n == Len(want) - 1
        <5>2. Ceiling(want) \in [1..n -> Nat] /\ n \in Nat
          BY <2>1, <3>5, <5>1 DEF Ceiling
        <5> HIDE DEF n
        <5> QED BY <5>2 DEF Version
      <4>2. Less(v, Ceiling(want)) <=> Before(v, Ceiling(want))
        BY <4>1, LessIsBefore
      <4>3. ~Before(v, want) /\ Before(v, Ceiling(want)) <=> Compatible(v, want)
        BY <2>1, <3>5, CeilingIsPrefix
      <4> QED BY <2>1, <2>2, <3>1, <3>2, <3>3, <3>5, <4>2, <4>3
    <3> QED BY <2>1, <3>4, <3>5
  <2> QED BY <2>1, <2>3, <2>4, <2>5, <2>6, <2>7, <2>8, <2>9, <2>10
<1> DEFINE decides == {i \in DOMAIN k : Raises(k[i]) \/ ~Meets(v, k[i])}
<1>2. Satisfies(v, k) = "yes" <=> decides = {}
  BY DEF Satisfies
<1>3. \A i \in DOMAIN k : k[i] \in Clauses
  OBVIOUS
<1>4. decides = {} <=> \A i \in DOMAIN k : Allowed(v, k[i])
  BY <1>1, <1>3
<1> QED BY <1>2, <1>4 DEF Within

-----------------------------------------------------------------------------
\* requirements.yml and the tree are of their kinds, and a collection is installed once.
Tree ==
    /\ requirements \in Seq(Entries) /\ installed \subseteq Catalogue /\ core \in Cores
    /\ \A c, d \in installed : c.fqcn = d.fqcn => c = d

\* A sequence without one of its entries.
LEMMA RemoveAtType ==
    ASSUME NEW S, NEW s \in Seq(S), NEW i \in DOMAIN s
    PROVE  RemoveAt(s, i) \in Seq(S)
<1>1. i \in 1..Len(s) /\ Len(s) \in Nat
  OBVIOUS
<1>2. SubSeq(s, 1, i - 1) \in Seq(S) /\ SubSeq(s, i + 1, Len(s)) \in Seq(S)
  BY <1>1
<1> QED BY <1>2 DEF RemoveAt

\* It stays so.
THEOREM TreeTyped == TreeSpec => []Tree
<1>1. TreeInit => Tree
  BY DEF TreeInit, Tree
<1>2. Tree /\ [Edit]_tree => Tree'
  <2> SUFFICES ASSUME Tree, [Edit]_tree PROVE Tree'
    OBVIOUS
  <2>1. CASE Declare
    BY <2>1 DEF Declare, Tree
  <2>2. CASE Undeclare
    BY <2>2, RemoveAtType DEF Undeclare, Tree
  <2>3. CASE Install
    BY <2>3 DEF Install, Tree
  <2>4. CASE Uninstall
    BY <2>4 DEF Uninstall, Tree
  <2>5. CASE PinCore
    BY <2>5 DEF PinCore, Tree
  <2>6. CASE UNCHANGED tree
    BY <2>6 DEF tree, Tree
  <2> QED BY <2>1, <2>2, <2>3, <2>4, <2>5, <2>6 DEF Edit
<1> QED BY <1>1, <1>2, PTL DEF TreeSpec

\* The recursions of Loaded and Resolved define functions.
LEMMA LoadedDef ==
    ASSUME Len(requirements) \in Nat
    PROVE  Loaded = [i \in 0..Len(requirements) |-> IF i = 0 THEN Read0 ELSE Read(Loaded[i - 1], requirements[i])]
<1> DEFINE zero == Read0
           G(n, g) == g = [i \in 0..n |-> IF i = 0 THEN zero ELSE Read(g[i - 1], requirements[i])]
           Bad == {n \in Nat : ~ \E g : G(n, g)}
<1>1. Bad = {}
  <2> SUFFICES ASSUME Bad # {} PROVE FALSE
    OBVIOUS
  <2> HIDE DEF zero
  <2>1. PICK n \in Bad : \A m \in Bad : n <= m
    BY Least
  <2>2. CASE n = 0
    <3>1. G(0, [i \in 0..0 |-> zero])
      OBVIOUS
    <3> QED BY <2>1, <2>2, <3>1
  <2>3. CASE n # 0
    <3>1. n - 1 \in Nat /\ n - 1 \notin Bad
      BY <2>1, <2>3
    <3>2. PICK g : G(n - 1, g)
      BY <3>1
    <3> DEFINE h == [i \in 0..n |-> IF i <= n - 1 THEN g[i] ELSE Read(g[n - 1], requirements[n])]
    <3>3. G(n, h)
      <4>1. ASSUME NEW i \in 0..n PROVE h[i] = IF i = 0 THEN zero ELSE Read(h[i - 1], requirements[i])
        BY <3>1, <3>2
      <4> QED BY <4>1
    <3> QED BY <2>1, <3>3
  <2> QED BY <2>2, <2>3
<1>2. \E g : G(Len(requirements), g)
  BY <1>1
<1> QED BY <1>2 DEF Loaded

\* One step of the walk over Order.
Walk(acc, n) == IF n \in Names THEN Resolve(acc, Item(n)) ELSE acc

\* Resolved is the function its recursion describes.
LEMMA ResolvedDef ==
    ASSUME Len(Order) \in Nat
    PROVE  Resolved = [i \in 0..Len(Order) |-> IF i = 0 THEN Loaded[Len(requirements)] ELSE Walk(Resolved[i - 1], Order[i])]
<1> DEFINE zero == Loaded[Len(requirements)]
           G(n, g) == g = [i \in 0..n |-> IF i = 0 THEN zero ELSE Walk(g[i - 1], Order[i])]
           Bad == {n \in Nat : ~ \E g : G(n, g)}
<1>1. Bad = {}
  <2> SUFFICES ASSUME Bad # {} PROVE FALSE
    OBVIOUS
  <2> HIDE DEF zero
  <2>1. PICK n \in Bad : \A m \in Bad : n <= m
    BY Least
  <2>2. CASE n = 0
    <3>1. G(0, [i \in 0..0 |-> zero])
      OBVIOUS
    <3> QED BY <2>1, <2>2, <3>1
  <2>3. CASE n # 0
    <3>1. n - 1 \in Nat /\ n - 1 \notin Bad
      BY <2>1, <2>3
    <3>2. PICK g : G(n - 1, g)
      BY <3>1
    <3> DEFINE h == [i \in 0..n |-> IF i <= n - 1 THEN g[i] ELSE Walk(g[n - 1], Order[n])]
    <3>3. G(n, h)
      <4>1. ASSUME NEW i \in 0..n PROVE h[i] = IF i = 0 THEN zero ELSE Walk(h[i - 1], Order[i])
        BY <3>1, <3>2
      <4> QED BY <4>1
    <3> QED BY <2>1, <3>3
  <2> QED BY <2>2, <2>3
<1>2. \E g : G(Len(Order), g)
  BY <1>1
<1>3. Resolved = CHOOSE g : G(Len(Order), g)
  BY DEF Resolved, Walk
<1> HIDE DEF zero
<1> QED BY <1>2, <1>3 DEF zero

\* What the program knows once it has read the entries E.
ReadOf(acc, E) ==
    /\ DOMAIN acc.declared = {KeyOf(e) : e \in E}
    /\ acc.git = {e.name : e \in {f \in E : f.type = "git"}}
    /\ acc.presence = {KeyOf(e) : e \in {f \in E : f.type # "galaxy"}}
    /\ \A k \in DOMAIN acc.declared : \E e \in E :
         KeyOf(e) = k /\ acc.declared[k] = IF e.type = "galaxy" THEN e.version ELSE NoVersion

\* Reading one more entry.
LEMMA ReadMore ==
    ASSUME NEW acc, NEW E, ReadOf(acc, E), NEW e
    PROVE  ReadOf(Read(acc, e), E \cup {e})
<1> DEFINE new == Read(acc, e)
           key == KeyOf(e)
           value == IF e.type = "galaxy" THEN e.version ELSE NoVersion
<1>1. /\ new.declared = Put(acc.declared, key, value)
      /\ new.git = IF e.type = "git" THEN acc.git \cup {e.name} ELSE acc.git
      /\ new.presence = IF e.type = "galaxy" THEN acc.presence ELSE acc.presence \cup {key}
  BY DEF Read
<1>2. DOMAIN new.declared = DOMAIN acc.declared \cup {key}
  BY <1>1 DEF Put
<1>3. \A k \in DOMAIN new.declared : new.declared[k] = IF k = key THEN value ELSE acc.declared[k]
  BY <1>1, <1>2 DEF Put
<1> HIDE DEF new
<1>4. ASSUME NEW k \in DOMAIN new.declared
      PROVE  \E d \in E \cup {e} : KeyOf(d) = k /\ new.declared[k] = IF d.type = "galaxy" THEN d.version ELSE NoVersion
  <2>1. CASE k = key
    BY <1>3, <2>1
  <2>2. CASE k # key
    BY <1>2, <1>3, <2>2 DEF ReadOf
  <2> QED BY <2>1, <2>2
<1>5. DOMAIN new.declared = {KeyOf(d) : d \in E \cup {e}}
  BY <1>2 DEF ReadOf
<1>6. e.type = "git" => e.type # "galaxy"
  OBVIOUS
<1>7. new.git = {d.name : d \in {f \in E \cup {e} : f.type = "git"}}
  BY <1>1 DEF ReadOf
<1>8. new.presence = {KeyOf(d) : d \in {f \in E \cup {e} : f.type # "galaxy"}}
  BY <1>1 DEF ReadOf
<1> QED BY <1>4, <1>5, <1>7, <1>8 DEF ReadOf, new

\* load_declared has read every entry.
LEMMA LoadedAll ==
    ASSUME Tree
    PROVE  ReadOf(Loaded[Len(requirements)], Range(requirements))
<1> DEFINE n == Len(requirements)
           E(m) == {requirements[i] : i \in 1..m}
           Bad == {m \in Nat : m <= n /\ ~ReadOf(Loaded[m], E(m))}
<1>1. n \in Nat /\ DOMAIN requirements = 1..n
  BY DEF Tree
<1>2. Loaded[0] = Read0 /\ \A m \in 1..n : Loaded[m] = Read(Loaded[m - 1], requirements[m])
  <2>1. Loaded = [i \in 0..n |-> IF i = 0 THEN Read0 ELSE Read(Loaded[i - 1], requirements[i])]
    BY <1>1, LoadedDef
  <2>2. 0 \in 0..n /\ \A m \in 1..n : m \in 0..n /\ m # 0
    BY <1>1
  <2> QED BY <2>1, <2>2
<1> HIDE DEF n
<1>3. Bad = {}
  <2> SUFFICES ASSUME Bad # {} PROVE FALSE
    OBVIOUS
  <2>1. PICK m \in Bad : \A j \in Bad : m <= j
    BY Least
  <2>2. CASE m = 0
    <3>1. E(0) = {}
      OBVIOUS
    <3>2. Read0.declared = <<>> /\ Read0.git = {} /\ Read0.presence = {} /\ DOMAIN Read0.declared = {}
      BY DEF Read0
    <3> HIDE DEF E
    <3>3. ReadOf(Read0, E(0))
      BY <3>1, <3>2 DEF ReadOf
    <3> QED BY <1>2, <2>1, <2>2, <3>3
  <2>3. CASE m # 0
    <3>1. m \in 1..n /\ m - 1 \in Nat /\ m - 1 <= n /\ ~(m <= m - 1)
      BY <1>1, <2>1, <2>3
    <3>2. ReadOf(Loaded[m - 1], E(m - 1))
      BY <2>1, <3>1
    <3>3. E(m) = E(m - 1) \cup {requirements[m]}
      <4>1. \A i : i \in 1..m <=> i \in 1..(m - 1) \/ i = m
        BY <3>1
      <4> QED BY <4>1
    <3> HIDE DEF E
    <3>4. ReadOf(Read(Loaded[m - 1], requirements[m]), E(m))
      BY <3>2, <3>3, ReadMore
    <3> QED BY <1>2, <2>1, <3>1, <3>4
  <2> QED BY <2>2, <2>3
<1>4. ReadOf(Loaded[n], E(n))
  <2> HIDE DEF E
  <2>1. n \in Nat /\ n <= n
    BY <1>1
  <2> QED BY <1>3, <2>1
<1>5. Range(requirements) = E(n)
  BY <1>1 DEF Range
<1> QED BY <1>4, <1>5 DEF n

Repositories(C) == {c.repository : c \in C}
Fqcns(C) == {c.fqcn : c \in C}

\* The collections C took the git entries of base, once those named in P have been looked at.
Claims(C, acc, base, P) ==
    /\ \A c \in C : c.fqcn \in P /\ c.repository \in base.git
    /\ \A c \in installed : c.fqcn \in P /\ c.repository \in base.git => c.repository \in Repositories(C)
    /\ acc.git = base.git \ Repositories(C)
    /\ DOMAIN acc.declared = (DOMAIN base.declared \ Repositories(C)) \cup Fqcns(C)
    /\ acc.presence = (base.presence \ Repositories(C)) \cup Fqcns(C)
    /\ \A k \in DOMAIN acc.declared : acc.declared[k] = IF k \in Fqcns(C) THEN NoVersion ELSE base.declared[k]

\* Looking at one more name.
LEMMA ClaimMore ==
    ASSUME Tree, NEW C \in SUBSET installed, NEW acc, NEW base, base.git \subseteq URLs, NEW P, Claims(C, acc, base, P),
           NEW n
    PROVE  \E B \in SUBSET installed : Claims(B, Walk(acc, n), base, P \cup {n})
<1>1. CASE n \notin Names
  <2>1. Walk(acc, n) = acc
    BY <1>1 DEF Walk
  <2>2. \A c \in installed : c.fqcn \in P \cup {n} => c.fqcn \in P
    BY <1>1 DEF Names
  <2>3. Claims(C, acc, base, P \cup {n})
    BY <2>2 DEF Claims
  <2> QED BY <2>1, <2>3
<1>2. CASE n \in Names
  <2> DEFINE c == Item(n)
             new == Walk(acc, n)
             r == c.repository
  <2>1. c \in installed /\ c.fqcn = n
    BY <1>2 DEF Names, Item
  <2>2. new = Resolve(acc, c)
    BY <1>2 DEF Walk
  <2>3. \A d \in installed : d.fqcn = n => d = c
    BY <2>1 DEF Tree
  <2> HIDE DEF c, new
  <2>4. CASE r \notin acc.git
    <3>1. new = acc
      BY <2>2, <2>4 DEF Resolve
    <3>2. r \in base.git => r \in Repositories(C)
      BY <2>4 DEF Claims
    <3>3. Claims(C, acc, base, P \cup {n})
      BY <2>1, <2>3, <3>2 DEF Claims
    <3> QED BY <3>1, <3>3 DEF new
  <2>5. CASE r \in acc.git
    <3> DEFINE B == C \cup {c}
    <3>1. /\ new.declared = Put(Drop(acc.declared, r), n, NoVersion)
          /\ new.git = acc.git \ {r}
          /\ new.presence = (acc.presence \ {r}) \cup {n}
      BY <2>1, <2>2, <2>5 DEF Resolve
    <3>2. Repositories(B) = Repositories(C) \cup {r} /\ Fqcns(B) = Fqcns(C) \cup {n}
      BY <2>1 DEF Repositories, Fqcns
    <3>3. r \in base.git /\ r \notin Repositories(C)
      BY <2>5 DEF Claims
    <3>4. r \notin Fqcns(C) /\ r # n
      <4>1. Fqcns(C) \cup {n} \subseteq FQCNs
        BY <2>1 DEF Fqcns, FQCNs, Tree
      <4> QED BY <3>3, <4>1, ClosureAssumption
    <3>5. /\ DOMAIN new.declared = (DOMAIN acc.declared \ {r}) \cup {n}
          /\ \A k \in DOMAIN new.declared : new.declared[k] = IF k = n THEN NoVersion ELSE acc.declared[k]
      BY <3>1 DEF Put, Drop
    <3> HIDE DEF B
    <3>6. B \in SUBSET installed /\ \A d \in B : d.fqcn \in P \cup {n} /\ d.repository \in base.git
      BY <2>1, <3>3 DEF B, Claims
    <3>7. \A d \in installed : d.fqcn \in P \cup {n} /\ d.repository \in base.git => d.repository \in Repositories(B)
      BY <2>3, <3>2 DEF Claims
    <3>8. new.git = base.git \ Repositories(B) /\ new.presence = (base.presence \ Repositories(B)) \cup Fqcns(B)
      BY <3>1, <3>2, <3>4 DEF Claims
    <3>9. DOMAIN new.declared = (DOMAIN base.declared \ Repositories(B)) \cup Fqcns(B)
      BY <3>2, <3>4, <3>5 DEF Claims
    <3>10. ASSUME NEW k \in DOMAIN new.declared
           PROVE  new.declared[k] = IF k \in Fqcns(B) THEN NoVersion ELSE base.declared[k]
      <4>1. CASE k = n
        BY <3>2, <3>5, <4>1
      <4>2. CASE k # n
        <5>1. k \in DOMAIN acc.declared /\ new.declared[k] = acc.declared[k]
          BY <3>5, <4>2
        <5>2. k \in Fqcns(B) <=> k \in Fqcns(C)
          BY <3>2, <4>2
        <5> QED BY <5>1, <5>2 DEF Claims
      <4> QED BY <4>1, <4>2
    <3>11. Claims(B, new, base, P \cup {n})
      BY <3>6, <3>7, <3>8, <3>9, <3>10 DEF Claims
    <3> QED BY <3>6, <3>11 DEF new
  <2> QED BY <2>4, <2>5
<1> QED BY <1>1, <1>2

\* Every installed collection is looked at.
LEMMA ResolvedAll ==
    ASSUME Tree, Loaded[Len(requirements)].git \subseteq URLs
    PROVE  \E C \in SUBSET installed : Claims(C, Declared, Loaded[Len(requirements)], Names)
<1> DEFINE n == Len(Order)
           base == Loaded[Len(requirements)]
           P(m) == {Order[i] : i \in 1..m}
           Good(m) == \E C \in SUBSET installed : Claims(C, Resolved[m], base, P(m))
           Bad == {m \in Nat : m <= n /\ ~Good(m)}
<1>1. n \in Nat /\ DOMAIN Order = 1..n
  BY ClosureAssumption
<1>2. Resolved[0] = base /\ \A m \in 1..n : Resolved[m] = Walk(Resolved[m - 1], Order[m])
  <2>1. Resolved = [i \in 0..n |-> IF i = 0 THEN base ELSE Walk(Resolved[i - 1], Order[i])]
    BY <1>1, ResolvedDef
  <2> HIDE DEF base
  <2>2. 0 \in 0..n /\ \A m \in 1..n : m \in 0..n /\ m # 0
    BY <1>1
  <2> QED BY <2>1, <2>2
<1>3. base.git \subseteq URLs
  OBVIOUS
<1> HIDE DEF n, base
<1>4. Good(0)
  <2>1. P(0) = {}
    OBVIOUS
  <2> HIDE DEF P
  <2>2. Claims({}, base, base, P(0))
    BY <2>1 DEF Claims, Repositories, Fqcns
  <2> QED BY <1>2, <2>2
<1>5. ASSUME NEW m \in 1..n, Good(m - 1) PROVE Good(m)
  <2>1. PICK C \in SUBSET installed : Claims(C, Resolved[m - 1], base, P(m - 1))
    BY <1>5
  <2>2. P(m) = P(m - 1) \cup {Order[m]}
    <3>1. \A i : i \in 1..m <=> i \in 1..(m - 1) \/ i = m
      BY <1>1
    <3> QED BY <3>1
  <2> HIDE DEF P
  <2>3. \E B \in SUBSET installed : Claims(B, Walk(Resolved[m - 1], Order[m]), base, P(m - 1) \cup {Order[m]})
    BY <1>3, <2>1, ClaimMore
  <2> QED BY <1>2, <2>2, <2>3
<1> HIDE DEF Good
<1>6. Bad = {}
  <2> SUFFICES ASSUME Bad # {} PROVE FALSE
    OBVIOUS
  <2>1. PICK m \in Bad : \A j \in Bad : m <= j
    BY Least
  <2>2. m # 0 => m \in 1..n /\ m - 1 \in Nat /\ m - 1 <= n /\ ~(m <= m - 1)
    BY <1>1, <2>1
  <2>3. m # 0 => Good(m - 1)
    BY <2>1, <2>2
  <2> QED BY <1>4, <1>5, <2>1, <2>2, <2>3
<1>7. Good(n)
  BY <1>1, <1>6
<1>8. PICK C \in SUBSET installed : Claims(C, Declared, base, P(n))
  BY <1>7 DEF Good, Declared, n
<1>9. \A c \in installed : c.fqcn \in P(n)
  <2> TAKE c \in installed
  <2>1. \E i \in DOMAIN Order : Order[i] = c.fqcn
    BY ClosureAssumption DEF Tree
  <2> QED BY <1>1, <2>1
<1> HIDE DEF P
<1>10. Claims(C, Declared, base, Names)
  BY <1>8, <1>9 DEF Claims, Names
<1> QED BY <1>10 DEF base

\* What is declared in the end, entry by entry.
LEMMA DeclaredIs ==
    ASSUME Tree
    PROVE  \E C \in SUBSET installed :
             /\ ReadOf(Loaded[Len(requirements)], Range(requirements))
             /\ Claims(C, Declared, Loaded[Len(requirements)], Names)
             /\ Repositories(C) \subseteq URLs
             /\ \A e \in Range(requirements) : e \in Entries /\ e.type \in {"galaxy", "git", "dir"}
<1>1. ReadOf(Loaded[Len(requirements)], Range(requirements))
  BY LoadedAll
<1>2. \A e \in Range(requirements) : e \in Entries /\ e.type \in {"galaxy", "git", "dir"}
  BY ClosureAssumption DEF Tree, Range
<1>3. Loaded[Len(requirements)].git \subseteq URLs
  BY <1>1, <1>2 DEF ReadOf, URLs
<1>4. PICK C \in SUBSET installed : Claims(C, Declared, Loaded[Len(requirements)], Names)
  BY <1>3, ResolvedAll
<1>5. Repositories(C) \subseteq URLs
  BY <1>3, <1>4 DEF Claims, Repositories
<1> QED BY <1>1, <1>2, <1>4, <1>5

\* The key of an entry is the collection it names, unless that is in a repository or nowhere.
LEMMA KeysApart ==
    ASSUME NEW e \in Entries, e.type \in {"galaxy", "git", "dir"}
    PROVE  /\ KeyOf(e) \in FQCNs => e.type # "git"
           /\ KeyOf(e) \in FQCNs /\ e.type = "dir" => KeyOf(e) = Checkout[e.name]
           /\ e.type # "git" => KeyOf(e) \notin URLs
           /\ e.type = "git" => KeyOf(e) = e.name /\ e.name \in URLs
           /\ e.type = "galaxy" => KeyOf(e) = e.name
           /\ e.type = "dir" /\ Checkout[e.name] # NoName => KeyOf(e) = Checkout[e.name]
<1>1. e.type = "git" => e.name \in URLs
  BY DEF URLs
<1>2. e.type = "galaxy" => e.name \in FQCNs
  BY DEF FQCNs
<1>3. e.type = "dir" => e.name \in Paths
  BY DEF Paths
<1>4. e.type = "dir" /\ Checkout[e.name] # NoName => Checkout[e.name] \in FQCNs
  BY DEF FQCNs
<1> QED BY <1>1, <1>2, <1>3, <1>4, ClosureAssumption DEF KeyOf

\* Exit 0 means that the tree is the declared closure.
LEMMA ZeroIsClosed ==
    ASSUME Tree, ExitStatus = 0
    PROVE  Closed
<1> DEFINE base == Loaded[Len(requirements)]
           D == Declared.declared
           E == Range(requirements)
<1>1. /\ VersionFindings(Declared) = {} /\ AbsentFindings(Declared) = {}
      /\ DependencyFindings(Declared) = {} /\ CoreFindings = {}
  BY DEF ExitStatus, Findings
<1>2. \A c \in installed :
        /\ c.fqcn \in DOMAIN D
        /\ D[c.fqcn] = NoVersion => c.fqcn \in Declared.presence
        /\ D[c.fqcn] # NoVersion => D[c.fqcn] = c.version
  BY <1>1 DEF VersionFindings
<1>3. DOMAIN D \subseteq Names
  BY <1>1 DEF AbsentFindings
<1>4. PICK C \in SUBSET installed :
        /\ ReadOf(base, E) /\ Claims(C, Declared, base, Names) /\ Repositories(C) \subseteq URLs
        /\ \A e \in E : e \in Entries /\ e.type \in {"galaxy", "git", "dir"}
  BY DeclaredIs
<1>5. Names \subseteq FQCNs /\ FQCNs \cap URLs = {} /\ NoName \notin FQCNs
  BY ClosureAssumption DEF Names, FQCNs, Tree
<1> HIDE DEF base, D, E
<1>6. /\ DOMAIN base.declared = {KeyOf(e) : e \in E}
      /\ base.git = {e.name : e \in {f \in E : f.type = "git"}}
      /\ base.presence = {KeyOf(e) : e \in {f \in E : f.type # "galaxy"}}
      /\ \A k \in DOMAIN base.declared : \E e \in E :
           KeyOf(e) = k /\ base.declared[k] = IF e.type = "galaxy" THEN e.version ELSE NoVersion
  BY <1>4 DEF ReadOf
<1>7. /\ \A c \in C : c.repository \in base.git
      /\ DOMAIN D = (DOMAIN base.declared \ Repositories(C)) \cup Fqcns(C)
      /\ Declared.presence = (base.presence \ Repositories(C)) \cup Fqcns(C)
      /\ \A k \in DOMAIN D : D[k] = IF k \in Fqcns(C) THEN NoVersion ELSE base.declared[k]
  BY <1>4 DEF Claims, D
<1>8. ASSUME NEW c \in installed
      PROVE  \E e \in E : Pins(e, c)
  <2> DEFINE k == c.fqcn
  <2>a. k \in Names
    BY DEF Names
  <2>b. /\ k \in DOMAIN D
        /\ D[k] = NoVersion => k \in Declared.presence
        /\ D[k] # NoVersion => D[k] = c.version
    BY <1>2
  <2>1. k \in FQCNs /\ k \in DOMAIN D
    BY <1>5, <2>a, <2>b
  <2>2. CASE k \in Fqcns(C)
    <3>1. c \in C
      BY <2>2 DEF Fqcns, Tree
    <3>2. PICK e \in E : e.type = "git" /\ e.name = c.repository
      BY <1>6, <1>7, <3>1
    <3> QED BY <3>2 DEF Pins, Refers
  <2>3. CASE k \notin Fqcns(C)
    <3>1. k \in DOMAIN base.declared /\ D[k] = base.declared[k]
      BY <1>7, <2>1, <2>3
    <3>2. CASE D[k] = NoVersion
      <4>1. k \in base.presence
        BY <1>7, <2>3, <2>b, <3>2
      <4>2. PICK e \in E : e.type # "galaxy" /\ KeyOf(e) = k
        BY <1>6, <4>1
      <4>3. e \in Entries /\ e.type \in {"galaxy", "git", "dir"} /\ KeyOf(e) \in FQCNs
        BY <1>4, <2>1, <4>2
      <4>4. e.type # "git"
        BY <4>3, KeysApart
      <4>5. e.type = "dir"
        BY <4>2, <4>3, <4>4
      <4>6. KeyOf(e) = Checkout[e.name]
        BY <4>3, <4>5, KeysApart
      <4> QED BY <4>2, <4>5, <4>6 DEF Pins, Refers
    <3>3. CASE D[k] # NoVersion
      <4>1. PICK e \in E : KeyOf(e) = k /\ base.declared[k] = IF e.type = "galaxy" THEN e.version ELSE NoVersion
        BY <1>6, <3>1
      <4>2. e.type = "galaxy" /\ e.version = c.version
        <5>1. D[k] = c.version /\ D[k] = base.declared[k]
          BY <2>b, <3>1, <3>3
        <5>2. e.type = "galaxy"
          BY <3>3, <4>1, <5>1
        <5> QED BY <4>1, <5>1, <5>2
      <4>3. e.name = k
        BY <1>4, <4>1, <4>2, KeysApart
      <4> QED BY <4>2, <4>3 DEF Pins, Refers
    <3> QED BY <3>2, <3>3
  <2> QED BY <2>2, <2>3
<1>9. ASSUME NEW e \in E
      PROVE  \E c \in installed : Refers(e, c)
  <2>1. e \in Entries /\ e.type \in {"galaxy", "git", "dir"} /\ KeyOf(e) \in DOMAIN base.declared
    BY <1>4, <1>6
  <2>2. CASE e.type = "git"
    <3>1. e.name \in URLs /\ KeyOf(e) = e.name
      BY <2>1, <2>2, KeysApart
    <3>2. e.name \in Repositories(C)
      BY <1>3, <1>5, <1>7, <2>1, <3>1
    <3> QED BY <2>2, <3>2 DEF Repositories, Refers
  <2>3. CASE e.type # "git"
    <3>1. KeyOf(e) \notin URLs
      BY <2>1, <2>3, KeysApart
    <3>2. KeyOf(e) \in Names
      BY <1>3, <1>4, <1>7, <2>1, <3>1
    <3>3. PICK c \in installed : c.fqcn = KeyOf(e)
      BY <3>2 DEF Names
    <3>4. KeyOf(e) \in FQCNs
      BY <1>5, <3>2
    <3>5. e.type = "galaxy" => KeyOf(e) = e.name
      BY <2>1, KeysApart
    <3>6. e.type = "dir" => KeyOf(e) = Checkout[e.name]
      BY <2>1, <3>4, KeysApart
    <3> QED BY <2>1, <2>3, <3>3, <3>5, <3>6 DEF Refers
  <2> QED BY <2>2, <2>3
<1>10. ASSUME NEW c \in installed, NEW n \in DOMAIN c.dependencies
       PROVE  \E d \in installed : d.fqcn = n /\ Within(d.version, c.dependencies[n])
  <2>1. /\ n \in DOMAIN Declared.declared
        /\ ~(n \in Names /\ Satisfies(Item(n).version, c.dependencies[n]) # "yes")
    BY <1>1 DEF DependencyFindings
  <2>2. n \in Names
    BY <1>3, <2>1 DEF D
  <2>3. Item(n) \in installed /\ Item(n).fqcn = n
    BY <2>2 DEF Names, Item
  <2>4. Item(n).version \in Version /\ c.dependencies[n] \in Seq(Clauses)
    BY <2>3, ClosureAssumption DEF Tree, Version
  <2>5. Within(Item(n).version, c.dependencies[n])
    BY <2>1, <2>2, <2>4, SatisfiesIsWithin
  <2> QED BY <2>3, <2>5
<1>11. ASSUME NEW c \in installed PROVE Within(core, c.requires_ansible)
  <2>1. Satisfies(core, c.requires_ansible) = "yes"
    BY <1>1 DEF CoreFindings
  <2>2. core \in Version /\ c.requires_ansible \in Seq(Clauses)
    BY ClosureAssumption DEF Tree, Version
  <2> QED BY <2>1, <2>2, SatisfiesIsWithin
<1> QED BY <1>8, <1>9, <1>10, <1>11 DEF Closed, E

\* A tree that is the closure, with one entry for each collection, has no findings.
LEMMA ClosedIsZero ==
    ASSUME Tree, Closed, OneEach
    PROVE  ExitStatus = 0
<1> DEFINE base == Loaded[Len(requirements)]
           D == Declared.declared
           E == Range(requirements)
<1>1. PICK C \in SUBSET installed :
        /\ ReadOf(base, E) /\ Claims(C, Declared, base, Names) /\ Repositories(C) \subseteq URLs
        /\ \A e \in E : e \in Entries /\ e.type \in {"galaxy", "git", "dir"}
  BY DeclaredIs
<1>2. Names \subseteq FQCNs /\ FQCNs \cap URLs = {} /\ NoName \notin FQCNs /\ NoName \notin URLs
  BY ClosureAssumption DEF Names, FQCNs, Tree
<1> HIDE DEF base, D, E
<1>3. /\ DOMAIN base.declared = {KeyOf(e) : e \in E}
      /\ base.git = {e.name : e \in {f \in E : f.type = "git"}}
      /\ base.presence = {KeyOf(e) : e \in {f \in E : f.type # "galaxy"}}
      /\ \A k \in DOMAIN base.declared : \E e \in E :
           KeyOf(e) = k /\ base.declared[k] = IF e.type = "galaxy" THEN e.version ELSE NoVersion
  BY <1>1 DEF ReadOf
<1>4. /\ \A c \in installed : c.fqcn \in Names
      /\ \A c \in installed : c.repository \in base.git => c.repository \in Repositories(C)
      /\ DOMAIN D = (DOMAIN base.declared \ Repositories(C)) \cup Fqcns(C)
      /\ Declared.presence = (base.presence \ Repositories(C)) \cup Fqcns(C)
      /\ \A k \in DOMAIN D : D[k] = IF k \in Fqcns(C) THEN NoVersion ELSE base.declared[k]
  BY <1>1 DEF Claims, D, Names
<1>5. /\ \A c \in installed : \E e \in E : Pins(e, c)
      /\ \A e \in E : \E c \in installed : Refers(e, c)
      /\ \A c \in installed : \A e, f \in E : Refers(e, c) /\ Refers(f, c) => e = f
      /\ \A c, d \in installed : c.repository = d.repository /\ c.repository # NoName => c = d
  BY DEF Closed, OneEach, E, Tree
<1>6. ASSUME NEW c \in installed
      PROVE  /\ c.fqcn \in DOMAIN D
             /\ D[c.fqcn] = NoVersion => c.fqcn \in Declared.presence
             /\ D[c.fqcn] # NoVersion => D[c.fqcn] = c.version
  <2> DEFINE k == c.fqcn
  <2>1. k \in FQCNs /\ k \notin Repositories(C)
    BY <1>1, <1>2, <1>4
  <2>2. CASE c \in C
    <3>1. k \in Fqcns(C)
      BY <2>2 DEF Fqcns
    <3> QED BY <1>4, <3>1
  <2>3. CASE c \notin C
    <3>1. k \notin Fqcns(C)
      BY <2>3 DEF Fqcns, Tree
    <3>2. c.repository \notin base.git
      <4> SUFFICES ASSUME c.repository \in base.git PROVE FALSE
        OBVIOUS
      <4>1. PICK d \in C : d.repository = c.repository
        BY <1>4 DEF Repositories
      <4>2. c.repository # NoName
        BY <1>1, <1>2, <4>1 DEF Repositories
      <4> QED BY <1>5, <2>3, <4>1, <4>2
    <3>3. PICK e \in E : Pins(e, c)
      BY <1>5
    <3>4. e.type # "git"
      BY <1>3, <3>2, <3>3 DEF Pins, Refers
    <3>5. KeyOf(e) = k
      BY <1>1, <1>2, <2>1, <3>3, <3>4, KeysApart DEF Pins, Refers
    <3>6. k \in DOMAIN base.declared /\ k \in DOMAIN D /\ D[k] = base.declared[k]
      BY <1>3, <1>4, <2>1, <3>1, <3>5
    <3>7. PICK f \in E : KeyOf(f) = k /\ base.declared[k] = IF f.type = "galaxy" THEN f.version ELSE NoVersion
      BY <1>3, <3>6
    <3>8. f = e
      <4>0. f \in Entries /\ f.type \in {"galaxy", "git", "dir"} /\ KeyOf(f) \in FQCNs
        BY <1>1, <2>1, <3>7
      <4>a. f.type # "git" /\ (f.type = "galaxy" => KeyOf(f) = f.name) /\ (f.type = "dir" => KeyOf(f) = Checkout[f.name])
        BY <4>0, KeysApart
      <4>1. Refers(f, c)
        BY <3>7, <4>0, <4>a DEF Refers
      <4> QED BY <1>5, <3>3, <4>1 DEF Pins
    <3>9. CASE e.type = "galaxy"
      <4>1. D[k] = c.version
        BY <3>3, <3>6, <3>7, <3>8, <3>9 DEF Pins
      <4>2. c.version # NoVersion
        BY ClosureAssumption DEF Tree, NoVersion
      <4> QED BY <3>6, <4>1, <4>2
    <3>10. CASE e.type # "galaxy"
      <4>1. D[k] = NoVersion
        BY <3>6, <3>7, <3>8, <3>10
      <4>2. k \in Declared.presence
        BY <1>3, <1>4, <2>1, <3>5, <3>10
      <4> QED BY <3>6, <4>1, <4>2
    <3> QED BY <3>9, <3>10
  <2> QED BY <2>2, <2>3
<1>7. DOMAIN D \subseteq Names
  <2> SUFFICES ASSUME NEW k \in DOMAIN D PROVE k \in Names
    OBVIOUS
  <2>1. CASE k \in Fqcns(C)
    BY <1>4, <2>1 DEF Fqcns
  <2>2. CASE k \notin Fqcns(C)
    <3>1. k \in DOMAIN base.declared /\ k \notin Repositories(C)
      BY <1>4, <2>2
    <3>2. PICK e \in E : KeyOf(e) = k
      BY <1>3, <3>1
    <3>3. PICK c \in installed : Refers(e, c)
      BY <1>5
    <3>4. c.fqcn \in Names
      BY <1>4
    <3>5. e.type # "git"
      <4> SUFFICES ASSUME e.type = "git" PROVE FALSE
        OBVIOUS
      <4>1. e.name = c.repository /\ e.name = k /\ e.name \in base.git
        BY <1>1, <1>3, <3>2, <3>3, KeysApart DEF Refers
      <4> QED BY <1>4, <3>1, <4>1
    <3>6. k = c.fqcn
      BY <1>1, <1>2, <3>2, <3>3, <3>4, <3>5, KeysApart DEF Refers
    <3> QED BY <3>4, <3>6
  <2> QED BY <2>1, <2>2
<1>8. VersionFindings(Declared) = {}
  BY <1>6 DEF VersionFindings, D
<1>9. AbsentFindings(Declared) = {}
  BY <1>7 DEF AbsentFindings, D
<1>10. DependencyFindings(Declared) = {}
  <2>1. ASSUME NEW c \in installed, NEW n \in DOMAIN c.dependencies
        PROVE  n \in DOMAIN D /\ ~(n \in Names /\ Satisfies(Item(n).version, c.dependencies[n]) # "yes")
    <3>1. PICK d \in installed : d.fqcn = n /\ Within(d.version, c.dependencies[n])
      BY DEF Closed
    <3>2. Item(n) \in installed /\ Item(n).fqcn = n
      BY <3>1 DEF Item
    <3>3. Item(n) = d
      BY <3>1, <3>2 DEF Tree
    <3>4. d.version \in Version /\ c.dependencies[n] \in Seq(Clauses)
      BY ClosureAssumption DEF Tree, Version
    <3>5. Satisfies(d.version, c.dependencies[n]) = "yes"
      BY <3>1, <3>4, SatisfiesIsWithin
    <3> QED BY <1>6, <3>1, <3>3, <3>5
  <2> QED BY <2>1 DEF DependencyFindings, D
<1>11. CoreFindings = {}
  <2>1. ASSUME NEW c \in installed PROVE Satisfies(core, c.requires_ansible) = "yes"
    <3>1. core \in Version /\ c.requires_ansible \in Seq(Clauses)
      BY ClosureAssumption DEF Tree, Version
    <3>2. Within(core, c.requires_ansible)
      BY DEF Closed
    <3> QED BY <3>1, <3>2, SatisfiesIsWithin
  <2> QED BY <2>1 DEF CoreFindings
<1> QED BY <1>8, <1>9, <1>10, <1>11 DEF ExitStatus, Findings

\* VerdictIsTheClosure holds of every manifest and tree: any number of entries,
\* collections and clauses, and versions of any length.
THEOREM VerdictHolds == TreeSpec => []VerdictIsTheClosure
<1>1. Tree => VerdictIsTheClosure
  BY ZeroIsClosed, ClosedIsZero DEF VerdictIsTheClosure
<1> QED BY <1>1, TreeTyped, PTL
=============================================================================
