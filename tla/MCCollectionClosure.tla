------------------------ MODULE MCCollectionClosure ------------------------
(* A collection b from Galaxy or from git that depends on a, and a collection c *)
(* that comes from the repository of b; a in versions of different lengths.     *)
EXTENDS CollectionClosure

MCOrder == <<"a", "b", "c">>
MCVersions == {<<1, 9>>, <<2>>, <<2, 0>>, <<2, 1>>, <<2, 1, 3>>, <<2, 1, 4>>, <<2, 2>>}
MCOps == {">=", "<=", ">", "<", "==", "!=", "~="}
MCClauses == {Clause(op, want) : op \in MCOps, want \in {<<2>>, <<2, 1>>, <<2, 1, 3>>}} \cup {Unreadable}
MCConstraints ==
    {<<>>, <<Clause("<", <<2>>), Unreadable>>} \cup {<<clause>> : clause \in MCClauses}
    \cup {<<Clause(">=", <<2, 0>>), clause>> :
             clause \in {Clause("<", <<2, 1, 3>>), Clause("~=", <<2, 1>>), Unreadable}}
MCCores == {<<2, 18>>, <<2, 21, 3>>}
MCRequires == <<Clause(">=", <<2, 18, 0>>), Clause("<=", <<2, 20, 99>>)>>

None(n) == [k \in {} |-> <<>>]
MCCatalogue ==
    {[fqcn |-> "a", version |-> v, repository |-> NoName, dependencies |-> None("a"), requires_ansible |-> <<>>] :
        v \in MCVersions}
    \cup {[fqcn |-> "b", version |-> <<1>>, repository |-> "repo", dependencies |-> [n \in {"a"} |-> k],
           requires_ansible |-> <<>>] : k \in MCConstraints}
    \cup {[fqcn |-> "c", version |-> <<1>>, repository |-> "repo", dependencies |-> None("c"),
           requires_ansible |-> MCRequires]}

Galaxy(n, v) == [type |-> "galaxy", name |-> n, version |-> v]
MCEntries ==
    {Galaxy("a", <<2, 1>>), Galaxy("a", <<2, 1, 3>>), Galaxy("a", NoVersion), Galaxy("b", <<1>>), Galaxy("c", <<1>>),
     [type |-> "git", name |-> "repo", version |-> NoVersion],
     [type |-> "dir", name |-> "checkout", version |-> NoVersion],
     [type |-> "dir", name |-> "empty", version |-> NoVersion]}
MCCheckout == [p \in {"checkout", "empty"} |-> IF p = "checkout" THEN "a" ELSE NoName]
=============================================================================
