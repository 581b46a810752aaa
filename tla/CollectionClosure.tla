-------------------------- MODULE CollectionClosure --------------------------
(***************************************************************************)
(* validate-collections.py: do the installed Ansible collections match     *)
(* requirements.yml, are they closed under their dependencies, and does    *)
(* the pinned ansible-core suit them all.  The behaviour is what people    *)
(* and Renovate do to requirements.yml, the installed tree and the pin,    *)
(* one edit at a time; the verdict of the program is an operator of the    *)
(* state.                                                                  *)
(***************************************************************************)
EXTENDS Integers, FiniteSets, Sequences, SequencesExt

CONSTANTS
    Catalogue,   \* the MANIFEST.json of what can be installed
    Entries,     \* what can be written in requirements.yml
    Cores,       \* versions of ansible-core
    Order,       \* the names of collections, in the order of their paths
    Checkout,    \* the collection in a local directory, NoName where there is none
    NoName,
    MaxEntries   \* bound: entries of requirements.yml

Clauses == [op: {">=", "<=", ">", "<", "==", "!=", "~=", "unreadable"}, want: Seq(Nat)]

\* The names of collections, the URLs of repositories and the paths of directories.
FQCNs ==
    {c.fqcn : c \in Catalogue} \cup {e.name : e \in {f \in Entries : f.type = "galaxy"}}
    \cup {Checkout[e.name] : e \in {f \in Entries : f.type = "dir" /\ Checkout[f.name] # NoName}}
URLs == {e.name : e \in {f \in Entries : f.type = "git"}}
Paths == {e.name : e \in {f \in Entries : f.type = "dir"}}

\* A URL has a host, a path a slash: neither is the name of a collection, nor are they alike.
ASSUME ClosureAssumption ==
    /\ \A c \in Catalogue :
         /\ c.version \in Seq(Nat) \ {<<>>}
         /\ c.requires_ansible \in Seq(Clauses)
         /\ \A n \in DOMAIN c.dependencies : c.dependencies[n] \in Seq(Clauses)
    /\ \A e \in Entries : e.type \in {"galaxy", "git", "dir"}
    /\ Cores \subseteq Seq(Nat)
    /\ Order \in Seq(FQCNs) /\ \A c \in Catalogue : \E i \in DOMAIN Order : Order[i] = c.fqcn
    /\ \A i, j \in DOMAIN Order : Order[i] = Order[j] => i = j
    /\ FQCNs \cap URLs = {} /\ FQCNs \cap Paths = {} /\ URLs \cap Paths = {}
    /\ NoName \notin FQCNs \cup URLs

VARIABLES
    requirements, \* requirements.yml
    installed,    \* a set of Catalogue, one of each name
    core          \* constraints.txt

tree == <<requirements, installed, core>>

\* A version is the sequence of its numbers; a constraint is a sequence of clauses.
NoVersion == <<>>
Clause(op, want) == [op |-> op, want |-> want]
Unreadable == Clause("unreadable", NoVersion)

TreeInit == requirements = <<>> /\ installed = {} /\ core \in Cores

-----------------------------------------------------------------------------
(* What is done to the tree. *)

Declare ==
    /\ Len(requirements) < MaxEntries
    /\ \E e \in Entries : e \notin Range(requirements) /\ requirements' = Append(requirements, e)
    /\ UNCHANGED <<installed, core>>

Undeclare ==
    /\ \E i \in DOMAIN requirements : requirements' = RemoveAt(requirements, i)
    /\ UNCHANGED <<installed, core>>

\* ansible-galaxy installs over another version of the collection.
Install ==
    /\ \E c \in Catalogue \ installed :
         installed' = {d \in installed : d.fqcn # c.fqcn} \cup {c}
    /\ UNCHANGED <<requirements, core>>

Uninstall ==
    /\ \E c \in installed : installed' = installed \ {c}
    /\ UNCHANGED <<requirements, core>>

PinCore == core' \in Cores \ {core} /\ UNCHANGED <<requirements, installed>>

Edit == Declare \/ Undeclare \/ Install \/ Uninstall \/ PinCore
TreeSpec == TreeInit /\ [][Edit]_tree

-----------------------------------------------------------------------------
(* satisfies. *)

Longer(u, v) == IF Len(u) > Len(v) THEN Len(u) ELSE Len(v)

\* Mutant: 2.21 and 2.21.0 are not equal.
PadNot(v, width) == v

Pad(v, width) == [i \in 1..width |-> IF i <= Len(v) THEN v[i] ELSE 0]

\* The order of tuples: at the first difference, or the shorter one first.
TupleLess(u, v) ==
    \E i \in 1..Longer(u, v) :
        /\ \A j \in 1..(i - 1) : j <= Len(u) /\ j <= Len(v) /\ u[j] = v[j]
        /\ i <= Len(v)
        /\ i > Len(u) \/ u[i] < v[i]

Less(u, v) == TupleLess(Pad(u, Longer(u, v)), Pad(v, Longer(u, v)))
Same(u, v) == Pad(u, Longer(u, v)) = Pad(v, Longer(u, v))

\* Mutant: the ceiling of ~= is one level too low.
CeilingOfLast(want) == [want EXCEPT ![Len(want)] = @ + 1]

\* "< the next release of the component one level up."
Ceiling(want) == [i \in 1..(Len(want) - 1) |-> IF i = Len(want) - 1 THEN want[i] + 1 ELSE want[i]]

Raises(clause) == clause.op = "unreadable" \/ (clause.op = "~=" /\ Len(clause.want) < 2)

Meets(have, clause) ==
    LET want == clause.want IN
    CASE clause.op = ">=" -> ~Less(have, want)
      [] clause.op = "<=" -> ~Less(want, have)
      [] clause.op = ">" -> Less(want, have)
      [] clause.op = "<" -> Less(have, want)
      [] clause.op = "==" -> Same(have, want)
      [] clause.op = "!=" -> ~Same(have, want)
      [] clause.op = "~=" -> ~Less(have, want) /\ Less(have, Ceiling(want))

\* From the left, the first clause that fails or cannot be read decides.
Satisfies(have, constraint) ==
    LET decides == {i \in DOMAIN constraint : Raises(constraint[i]) \/ ~Meets(have, constraint[i])}
        first == CHOOSE i \in decides : \A j \in decides : i <= j
    IN IF decides = {} THEN "yes" ELSE IF Raises(constraint[first]) THEN "unreadable" ELSE "no"

-----------------------------------------------------------------------------
(* load_declared, and the resolution of the git entries in main. *)

Put(f, key, value) == [k \in DOMAIN f \cup {key} |-> IF k = key THEN value ELSE f[k]]
Drop(f, key) == [k \in DOMAIN f \ {key} |-> f[k]]

\* A local directory is known by its checkout, or by its path.
KeyOf(entry) ==
    IF entry.type = "dir" /\ Checkout[entry.name] # NoName THEN Checkout[entry.name] ELSE entry.name

\* A SHA is not a comparable version; an entry may have none.
Read(acc, entry) ==
    [declared |-> Put(acc.declared, KeyOf(entry), IF entry.type = "galaxy" THEN entry.version ELSE NoVersion),
     git |-> IF entry.type = "git" THEN acc.git \cup {entry.name} ELSE acc.git,
     presence |-> IF entry.type = "galaxy" THEN acc.presence ELSE acc.presence \cup {KeyOf(entry)}]

\* Mutant: the key of a git entry stays beside the name it was resolved to.
ResolveBeside(acc, item) ==
    IF item.repository \in acc.git
      THEN [declared |-> Put(acc.declared, item.fqcn, NoVersion),
            git |-> acc.git \ {item.repository},
            presence |-> acc.presence \cup {item.fqcn}]
      ELSE acc

\* The first installed collection of a repository is the one its git entry names.
Resolve(acc, item) ==
    IF item.repository \in acc.git
      THEN [declared |-> Put(Drop(acc.declared, item.repository), item.fqcn, NoVersion),
            git |-> acc.git \ {item.repository},
            presence |-> (acc.presence \ {item.repository}) \cup {item.fqcn}]
      ELSE acc

Names == {c.fqcn : c \in installed}
Item(n) == CHOOSE c \in installed : c.fqcn = n
Read0 == [declared |-> <<>>, git |-> {}, presence |-> {}]

\* load_declared, after each entry.
Loaded[i \in 0..Len(requirements)] == IF i = 0 THEN Read0 ELSE Read(Loaded[i - 1], requirements[i])

\* The walk over the installed collections, after each name of Order.
Resolved[i \in 0..Len(Order)] ==
    IF i = 0 THEN Loaded[Len(requirements)]
    ELSE IF Order[i] \in Names THEN Resolve(Resolved[i - 1], Item(Order[i]))
    ELSE Resolved[i - 1]

Declared == Resolved[Len(Order)]

-----------------------------------------------------------------------------
(* main: the findings, each as what it blames and why. *)

\* Mutant: an entry without a version is accepted.
VersionFindingsTrusting(d) ==
    {<<"undeclared", c.fqcn>> : c \in {i \in installed : i.fqcn \notin DOMAIN d.declared}}
    \cup {<<"version", c.fqcn>> : c \in {i \in installed :
             i.fqcn \in DOMAIN d.declared /\ d.declared[i.fqcn] \notin {NoVersion, i.version}}}

\* An entry without a version is accepted for git and dir only.
VersionFindings(d) ==
    {<<"undeclared", c.fqcn>> : c \in {i \in installed : i.fqcn \notin DOMAIN d.declared}}
    \cup {<<"version", c.fqcn>> : c \in {i \in installed :
             /\ i.fqcn \in DOMAIN d.declared
             /\ IF d.declared[i.fqcn] = NoVersion THEN i.fqcn \notin d.presence
                ELSE d.declared[i.fqcn] # i.version}}

AbsentFindings(d) == {<<"not installed", n>> : n \in DOMAIN d.declared \ Names}

\* A dependency that is declared and not installed was reported already.
DependencyFindings(d) ==
    {<<"dependency", c.fqcn>> : c \in {i \in installed : \E n \in DOMAIN i.dependencies :
         \/ n \notin DOMAIN d.declared
         \/ n \in Names /\ Satisfies(Item(n).version, i.dependencies[n]) # "yes"}}

CoreFindings == {<<"core", c.fqcn>> : c \in {i \in installed : Satisfies(core, i.requires_ansible) # "yes"}}

Findings ==
    VersionFindings(Declared) \cup AbsentFindings(Declared) \cup DependencyFindings(Declared) \cup CoreFindings

ExitStatus == IF Findings = {} THEN 0 ELSE 1

-----------------------------------------------------------------------------
(* What exit 0 is worth: "the installed Ansible collections match the declared *)
(* closure exactly".                                                           *)

\* The order of versions, without tuples: a component that is not there is zero.
At(v, i) == IF i <= Len(v) THEN v[i] ELSE 0
Positions(u, v) == 1..Longer(u, v)
Equal(u, v) == \A i \in Positions(u, v) : At(u, i) = At(v, i)
Before(u, v) == \E i \in Positions(u, v) : At(u, i) < At(v, i) /\ \A j \in 1..(i - 1) : At(u, j) = At(v, j)
Compatible(v, want) == ~Before(v, want) /\ \A i \in 1..(Len(want) - 1) : At(v, i) = want[i]

Allowed(v, clause) ==
    \/ clause.op \in {">=", ">"} /\ Before(clause.want, v)
    \/ clause.op \in {"<=", "<"} /\ Before(v, clause.want)
    \/ clause.op \in {">=", "<=", "=="} /\ Equal(v, clause.want)
    \/ clause.op = "!=" /\ ~Equal(v, clause.want)
    \/ clause.op = "~=" /\ Len(clause.want) > 1 /\ Compatible(v, clause.want)

Within(v, constraint) == \A i \in DOMAIN constraint : Allowed(v, constraint[i])

\* What entry e says of c.
Refers(e, c) ==
    \/ e.type = "galaxy" /\ e.name = c.fqcn
    \/ e.type = "git" /\ e.name = c.repository
    \/ e.type = "dir" /\ Checkout[e.name] = c.fqcn
Pins(e, c) == Refers(e, c) /\ (e.type = "galaxy" => e.version = c.version)

Closed ==
    /\ \A c \in installed : \E e \in Range(requirements) : Pins(e, c)
    /\ \A e \in Range(requirements) : \E c \in installed : Refers(e, c)
    /\ \A c \in installed : \A n \in DOMAIN c.dependencies :
         \E d \in installed : d.fqcn = n /\ Within(d.version, c.dependencies[n])
    /\ \A c \in installed : Within(core, c.requires_ansible)

\* One entry for each collection, and one collection of each repository.
OneEach ==
    /\ \A c \in Catalogue, e, f \in Range(requirements) : Refers(e, c) /\ Refers(f, c) => e = f
    /\ \A c, d \in installed : c.repository = d.repository /\ c.repository # NoName => c = d

\* Exit 0 is never given to a tree that is not the declared closure, whatever the
\* entries, their order, and the repositories collections came from; and a tree
\* that is gets it, when no collection is named twice.  Versions are compared as
\* numbers of any length, with ~= as a prefix.
VerdictIsTheClosure ==
    /\ ExitStatus = 0 => Closed
    /\ Closed /\ OneEach => ExitStatus = 0
=============================================================================
