-------------------------------- MODULE Deploy --------------------------------
(***************************************************************************)
(* deploy.sh: bring a lab up with Terraform and Ansible, or tear it down.  *)
(* Runs on different providers may overlap in one checkout; a run may fail *)
(* or be interrupted at every step, and the next run finds what it left:   *)
(* Terraform's state, the generated inventory and the endpoints manifest.  *)
(***************************************************************************)
EXTENDS Naturals

CONSTANTS
    Providers,
    SpecDriven,  \* those that read deployments/<slug>/ (deployment_aware)
    Jumping,     \* those whose jump host has an address only after boot
    Pinned,      \* those with a base image pin (kvm)
    Billed,      \* those with a cost profile (aws)
    Slugs, Baseline,
    OwnPlaybook, \* the slugs that ship a playbook.yml
    JumpSlugs,   \* the slugs with a public_ip node
    Images,      \* pins that name immutable content, each the tag it yields
    Profiles,    \* cost profiles
    Floating,    \* a pin the compute module's precondition rejects
    Unset,
    MaxRuns      \* bound: runs in a behaviour

ASSUME ProvidersAssumption ==
    /\ SpecDriven \subseteq Providers /\ Jumping \subseteq Providers
    /\ Pinned \subseteq Providers \cap Jumping /\ Billed \subseteq Providers \ Jumping
ASSUME SlugsAssumption ==
    Baseline \in Slugs \ OwnPlaybook /\ OwnPlaybook \subseteq Slugs /\ JumpSlugs \subseteq Slugs
ASSUME ValuesAssumption ==
    /\ Floating \notin Images /\ Images # {} /\ Profiles # {}
    /\ Unset \notin Providers \cup Slugs \cup Images \cup Profiles \cup {Floating}
ASSUME MaxRunsAssumption == MaxRuns \in Nat

VARIABLES
    setting,    \* <provider>.tfvars: ubuntu_cloud_image, or cost_profile
    bases,      \* base image volumes in the pool, by tag
    disks,      \* recorded_tags: the images the OS disks are backed by
    hosts,      \* the topology the hosts were last converged to
    stack,      \* the stack playbook that last finished on them
    inventory, manifest,  \* the generated files, by name
    pc,
    slug,       \* --deployment
    extra,      \* --tf-args "-var ...": the same variable, overridden
    resolved,   \* what terraform console answered
    jump,       \* the discovered jump host: "missing" with a warning, "unread" with none
    runs        \* history: runs begun

lab == <<bases, disks, hosts, stack>>
files == <<inventory, manifest>>
args == <<slug, extra, resolved>>
vars == <<setting, lab, files, pc, args, jump, runs>>

Partial == "partial"
Shared == "shared"
NoFile == [of |-> Unset, shape |-> Unset, jump |-> FALSE]
NoManifest == [of |-> Unset, deployment |-> Unset, shape |-> Unset]

Settings(p) ==
    IF p \in Pinned THEN Images \cup {Floating} ELSE IF p \in Billed THEN Profiles ELSE {Unset}
AllSettings == UNION {Settings(p) : p \in Providers}

Plays == {"bootstrap", "stack", "endpoints"}
Steps == {"guard", "base", "disks", "prune", "discover", "destroy", "cleanup"} \cup Plays

TypeOK ==
    /\ setting \in [Providers -> AllSettings]
    /\ bases \in [Providers -> SUBSET Images] /\ disks \in [Providers -> SUBSET Images]
    /\ hosts \in [Providers -> Slugs \cup {Unset, Partial}]
    /\ stack \in [Providers -> Slugs \cup {Unset, Partial, Shared}]
    /\ inventory \in [Providers -> {NoFile} \cup [of : Providers, shape : Slugs, jump : BOOLEAN]]
    /\ manifest \in [Providers ->
                      {NoManifest} \cup [of : Providers, deployment : Slugs \cup {Unset},
                                         shape : Slugs \cup {Unset}]]
    /\ pc \in [Providers -> Steps \cup {"idle", "ok", "destroyed", "failed"}]
    /\ slug \in [Providers -> Slugs \cup {Unset}]
    /\ extra \in [Providers -> AllSettings \cup {Unset}]
    /\ resolved \in [Providers -> AllSettings \cup {Unset}]
    /\ jump \in [Providers -> {"unset", "found", "missing", "unread"}]
    /\ runs \in 0..MaxRuns

Init ==
    /\ setting \in {s \in [Providers -> AllSettings] : \A p \in Providers : s[p] \in Settings(p)}
    /\ bases = [p \in Providers |-> {}] /\ disks = [p \in Providers |-> {}]
    /\ hosts = [p \in Providers |-> Unset] /\ stack = [p \in Providers |-> Unset]
    /\ inventory = [p \in Providers |-> NoFile] /\ manifest = [p \in Providers |-> NoManifest]
    /\ pc = [p \in Providers |-> "idle"]
    /\ slug = [p \in Providers |-> Unset] /\ extra = [p \in Providers |-> Unset]
    /\ resolved = [p \in Providers |-> Unset] /\ jump = [p \in Providers |-> "unset"]
    /\ runs = 0

-----------------------------------------------------------------------------
(* What a run works with. *)

Goto(p, step) == pc' = [pc EXCEPT ![p] = step]

\* The process ends without success, and what it knew ends with it.
Ends(p, how) ==
    /\ Goto(p, how)
    /\ slug' = [slug EXCEPT ![p] = Unset] /\ extra' = [extra EXCEPT ![p] = Unset]
    /\ resolved' = [resolved EXCEPT ![p] = Unset] /\ jump' = [jump EXCEPT ![p] = "unset"]

GoesOn(p, step) == Goto(p, step) /\ UNCHANGED <<args, jump>>

Over(p) == pc[p] \notin Steps

\* deployment_aware()
Aware(p) == slug[p] # Unset /\ p \in SpecDriven

\* What Terraform builds: without a deployment, the fixed layout.
Shape(p) == IF Aware(p) THEN slug[p] ELSE Baseline

\* Mutant: the provider list is repeated and one provider is missing.
PlaybookOfListed(p) ==
    IF slug[p] \in OwnPlaybook /\ p \in SpecDriven \ Billed THEN slug[p] ELSE Shared

\* DEPLOYMENT_PLAYBOOK
PlaybookOf(p) == IF Aware(p) /\ slug[p] \in OwnPlaybook THEN slug[p] ELSE Shared

\* Mutant: one inventory and one manifest for every provider.
OneFile(p) == CHOOSE q \in Providers : TRUE

\* ansible-inventory.<provider>.yml and lab-endpoints.<provider>.yml
FileOf(p) == p

\* Mutant: the apply is not given the provider's tfvars file.
AppliedExtra(p) == extra[p]

\* What an apply uses: the extra arguments come last on its command line.
Applied(p) == IF extra[p] # Unset THEN extra[p] ELSE setting[p]

\* The inventory an apply writes; elsewhere Terraform knows the jump host's address.
Rendered(p) ==
    [of |-> p, shape |-> Shape(p), jump |-> p \notin Jumping \/ jump[p] = "found"]

\* On kvm an empty answer means there is no jump host.
HasJumpHost(p) == p \in Jumping /\ (p \in Pinned => Shape(p) \in JumpSlugs)

-----------------------------------------------------------------------------
(* Up to the first apply. *)

\* Between two runs an operator may edit the tfvars file.  Bad arguments end the
\* run before it has touched anything, as does what precedes the guard:
\* ensure_aws_credentials, tf_init and set_provider_vars.
Begin(p) ==
    /\ Over(p)
    /\ runs < MaxRuns
    /\ runs' = runs + 1
    /\ \E step \in {"guard", "destroy"} : Goto(p, step)
    /\ \E v \in Settings(p) : setting' = [setting EXCEPT ![p] = v]
    /\ \E s \in Slugs \cup {Unset} : slug' = [slug EXCEPT ![p] = s]
    /\ \E v \in Settings(p) \cup {Unset} : extra' = [extra EXCEPT ![p] = v]
    /\ resolved' = [resolved EXCEPT ![p] = Unset]
    /\ jump' = [jump EXCEPT ![p] = "unset"]
    /\ UNCHANGED <<lab, files>>

\* Mutant: any recorded tag will do.
RefusesUnknown(p, tag) == disks[p] # {} /\ tag # Floating /\ tag \notin disks[p]

\* check-base-image-pin.py: there is a lab, the pin yields a tag, and the lab was
\* not built from that image alone.
Refuses(p, tag) == disks[p] # {} /\ tag # Floating /\ disks[p] # {tag}

\* check_base_image_pin, and the cost profile: a console sees the tfvars file,
\* not the extra arguments, and its failure skips the check with a warning.
Guard(p) ==
    /\ pc[p] = "guard"
    /\ \E answer \in {setting[p], Unset} :
         IF p \in Pinned /\ answer # Unset /\ Refuses(p, answer)
           THEN Ends(p, "failed")
           ELSE /\ resolved' = [resolved EXCEPT ![p] = answer]
                /\ Goto(p, "base")
                /\ UNCHANGED <<slug, extra, jump>>
    /\ UNCHANGED <<setting, lab, files, runs>>

-----------------------------------------------------------------------------
(* tf_apply: the new base volume, the OS disks and hosts, then what is left *)
(* over (create_before_destroy).  The inventory depends on none of them.    *)

MayRender(p) ==
    \/ UNCHANGED inventory
    \/ inventory' = [inventory EXCEPT ![FileOf(p)] = Rendered(p)]

Rejected(p) == p \in Pinned /\ Applied(p) = Floating
Image(p) == IF p \in Pinned THEN {Applied(p)} ELSE {}

\* Mutant: without create_before_destroy.
BasesReplaced(p) == Image(p)

BasesBesides(p) == bases[p] \cup Image(p)

CreateBase(p) ==
    /\ pc[p] = "base"
    /\ IF Rejected(p)
         THEN Ends(p, "failed") /\ UNCHANGED <<bases, inventory>>
         ELSE /\ bases' = [bases EXCEPT ![p] = BasesBesides(p)]
              /\ MayRender(p)
              /\ GoesOn(p, "disks")
    /\ UNCHANGED <<setting, disks, hosts, stack, manifest, runs>>

\* The disks of hosts that stay; another shape may have none of the old hosts.
Kept(p) == IF hosts[p] = Shape(p) THEN {disks[p]} ELSE SUBSET disks[p]

\* A disk whose backing file changes needs an update, which the provider refuses.
ConvergeHosts(p) ==
    /\ pc[p] = "disks"
    /\ \E kept \in Kept(p) :
         IF kept \subseteq Image(p)
           THEN /\ disks' = [disks EXCEPT ![p] = Image(p)]
                /\ hosts' = [hosts EXCEPT ![p] = Shape(p)]
                /\ GoesOn(p, "prune")
           ELSE /\ \E new \in {{}, Image(p)} : disks' = [disks EXCEPT ![p] = kept \cup new]
                /\ hosts' = [hosts EXCEPT ![p] = Partial]
                /\ Ends(p, "failed")
    /\ MayRender(p)
    /\ UNCHANGED <<setting, bases, stack, manifest, runs>>

\* Mutant: discovery is not followed by a second apply.
AfterApplyOnce(p) == Goto(p, "bootstrap") /\ UNCHANGED jump

\* The addresses that discovery needs are outputs of Terraform, and an output that
\* cannot be read is as empty as one that is not there: nothing is said of it.
AfterApply(p) ==
    IF HasJumpHost(p) /\ jump[p] = "unset"
      THEN \/ Goto(p, "discover") /\ UNCHANGED jump
           \/ Goto(p, "bootstrap") /\ jump' = [jump EXCEPT ![p] = "unread"]
      ELSE Goto(p, "bootstrap") /\ UNCHANGED jump

Prune(p) ==
    /\ pc[p] = "prune"
    /\ bases' = [bases EXCEPT ![p] = Image(p)]
    /\ inventory' = [inventory EXCEPT ![FileOf(p)] = Rendered(p)]
    /\ AfterApply(p)
    /\ UNCHANGED <<setting, disks, hosts, stack, manifest, args, runs>>

\* Found: apply again, with the jump host.  Not found in two minutes: a warning.
Discover(p) ==
    /\ pc[p] = "discover"
    /\ \/ jump' = [jump EXCEPT ![p] = "found"] /\ Goto(p, "base")
       \/ jump' = [jump EXCEPT ![p] = "missing"] /\ Goto(p, "bootstrap")
    /\ UNCHANGED <<setting, lab, files, args, runs>>

-----------------------------------------------------------------------------
(* The playbooks. *)

\* install-collections and bootstrap/site.yml
Bootstrap(p) ==
    /\ pc[p] = "bootstrap"
    /\ Goto(p, "stack")
    /\ UNCHANGED <<setting, lab, files, args, jump, runs>>

DeployStack(p) ==
    /\ pc[p] = "stack"
    /\ stack' = [stack EXCEPT ![p] = PlaybookOf(p)]
    /\ Goto(p, "endpoints")
    /\ UNCHANGED <<setting, bases, disks, hosts, files, args, jump, runs>>

\* Rendered from the inventory; lab_deployment is the argument as it was given.
\* The copy to the monitoring host may fail after the file is written.
PublishEndpoints(p) ==
    /\ pc[p] = "endpoints"
    /\ manifest' = [manifest EXCEPT ![FileOf(p)] =
                      [of |-> p, deployment |-> slug[p], shape |-> inventory[FileOf(p)].shape]]
    /\ GoesOn(p, "ok") \/ Ends(p, "failed")
    /\ UNCHANGED <<setting, lab, inventory, runs>>

-----------------------------------------------------------------------------
(* The destroy path.  Its guard is none: it is the remedy for a refused pin. *)

Destroy(p) ==
    /\ pc[p] = "destroy"
    /\ bases' = [bases EXCEPT ![p] = {}] /\ disks' = [disks EXCEPT ![p] = {}]
    /\ hosts' = [hosts EXCEPT ![p] = Unset] /\ stack' = [stack EXCEPT ![p] = Unset]
    /\ inventory' = [inventory EXCEPT ![FileOf(p)] = NoFile]
    /\ Goto(p, "cleanup")
    /\ UNCHANGED <<setting, manifest, args, jump, runs>>

\* Dependents go first: no base volume while an OS disk is left.
DestroyFails(p) ==
    /\ pc[p] = "destroy"
    /\ \E left \in SUBSET disks[p] :
         /\ disks' = [disks EXCEPT ![p] = left]
         /\ IF left # {} THEN UNCHANGED bases
            ELSE \E some \in SUBSET bases[p] : bases' = [bases EXCEPT ![p] = some]
    /\ hosts' = [hosts EXCEPT ![p] = IF @ = Unset THEN Unset ELSE Partial]
    /\ UNCHANGED inventory \/ inventory' = [inventory EXCEPT ![FileOf(p)] = NoFile]
    /\ Ends(p, "failed")
    /\ UNCHANGED <<setting, stack, manifest, runs>>

RemoveFiles(p) ==
    /\ pc[p] = "cleanup"
    /\ inventory' = [inventory EXCEPT ![FileOf(p)] = NoFile]
    /\ manifest' = [manifest EXCEPT ![FileOf(p)] = NoManifest]
    /\ Ends(p, "destroyed")
    /\ UNCHANGED <<setting, lab, runs>>

\* set -e: any command that fails, or an interrupt, ends the run where it is,
\* with what the command had done.
Fails(p) ==
    /\ pc[p] \in Steps
    /\ Ends(p, "failed")
    /\ IF pc[p] = "disks"
         THEN /\ \E new \in {{}, Image(p)} : disks' = [disks EXCEPT ![p] = @ \cup new]
              /\ hosts' = [hosts EXCEPT ![p] = Partial]
         ELSE UNCHANGED <<disks, hosts>>
    /\ IF pc[p] \in {"base", "disks", "prune"} /\ ~Rejected(p)
         THEN MayRender(p) ELSE UNCHANGED inventory
    /\ stack' = [stack EXCEPT ![p] = IF pc[p] = "stack" THEN Partial ELSE @]
    /\ UNCHANGED <<setting, bases, manifest, runs>>

Next ==
    \E p \in Providers :
        \/ Begin(p) \/ Guard(p) \/ CreateBase(p)
        \/ ConvergeHosts(p) \/ Prune(p) \/ Discover(p) \/ Bootstrap(p) \/ DeployStack(p)
        \/ PublishEndpoints(p) \/ Destroy(p) \/ DestroyFails(p) \/ RemoveFiles(p) \/ Fails(p)

Spec == Init /\ [][Next]_vars

-----------------------------------------------------------------------------
(* What a run promises. *)

\* Every backing chain resolves: no OS disk of a lab loses the base volume it is
\* an overlay of, even by an apply whose changed pin the guard never saw (the
\* compute module's create_before_destroy).
BackingIntact == \A p \in Providers : disks[p] \subseteq bases[p]

\* When the console answered and nothing overrides it, an apply never begins with
\* another image under a lab, half-applied bumps of earlier runs included
\* (check_base_image_pin).
NoBumpUnderLab ==
    \A p \in Pinned :
        pc[p] = "base" /\ resolved[p] # Unset /\ extra[p] = Unset =>
            disks[p] \subseteq {Applied(p)} \/ Rejected(p)

\* A playbook reads the inventory of this provider and of the hosts as this run
\* left them, "so two labs can be deployed and operated from one checkout", and
\* with the jump host unless the run warned that it could not find it.  The exception:
\* an output of Terraform that cannot be read counts as empty, "i.e. there is no jump
\* host" (tf_output, deploy path); the search is then skipped, and the run says nothing.
PlaysReadThisLab ==
    \A p \in Providers : pc[p] \in Plays =>
        /\ inventory[FileOf(p)].of = p
        /\ inventory[FileOf(p)].shape = Shape(p) /\ hosts[p] = Shape(p)
        /\ HasJumpHost(p) /\ jump[p] \notin {"missing", "unread"} => inventory[FileOf(p)].jump

\* A run that ended well has put the stack of the hosts' own topology on them,
\* and the manifest is of this provider and of those hosts, until the next run
\* ("a deployment is spec-driven or it is not").
OkMeansAsAsked ==
    \A p \in Providers : pc[p] = "ok" =>
        /\ stack[p] = (IF hosts[p] \in OwnPlaybook THEN hosts[p] ELSE Shared)
        /\ manifest[FileOf(p)].of = p /\ manifest[FileOf(p)].shape = hosts[p]
        /\ p \in SpecDriven /\ slug[p] # Unset => manifest[FileOf(p)].deployment = hosts[p]
=============================================================================
