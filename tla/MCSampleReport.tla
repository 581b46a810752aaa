--------------------------- MODULE MCSampleReport ---------------------------
(* Two nodes, collected and polled; times in the first buckets and far off.  *)
EXTENDS SampleReport

Resource(shape, node, numeric) == [shape |-> shape, node |-> node, numeric |-> numeric]
MCResources ==
    {<<>>, <<Resource("node", 0, 1)>>, <<Resource("interface", 1, 2)>>,
     <<Resource("response", 1, 1)>>, <<Resource("generic", 0, 0)>>, <<Resource("unset", 1, 1)>>}
Message(c, a, r) == [decodes |-> TRUE, collection |-> c, accepted |-> a, resource |-> r]
MCMessages ==
    {Message(1, 1, r) : r \in MCResources}
    \cup {Message(t[1], t[2], <<Resource("node", 0, 1)>>) :
            t \in {<<0, 1>>, <<1, NoTime>>, <<1, 2>>, <<2, 5>>, <<4, 4>>, <<3, 14>>}}
    \cup {Message(1, 20, <<Resource("interface", 1, 2)>>)}
    \cup {[decodes |-> FALSE, collection |-> 0, accepted |-> 1, resource |-> <<>>]}
=============================================================================
