----------------------------- MODULE MCPersister -----------------------------
EXTENDS Search

\* One column besides the key.
MCColumn == {"k", "v"}
MCSorts ==
    {<<>>, <<[column |-> "v", desc |-> TRUE], [column |-> "k", desc |-> FALSE]>>}

E(c, v) == [column |-> c, value |-> v]
\* Every object of at most two entries, over one value, null and undefined, and
\* both orders of two full ones.
MCObjects ==
    {<<>>}
    \cup {<<E(c, v)>> : c \in Column, v \in {-1, 0, 1, 2}}
    \cup {<<E("k", v), E("v", w)>> : v, w \in {-1, 0, 1}}
    \cup {<<E("v", v), E("k", w)>> : v, w \in {0, 2}}

\* Two rows join the value 1, none joins 2.
MCOther == <<[id |-> 1, rank |-> 2], [id |-> 1, rank |-> 1], [id |-> 3, rank |-> 3]>>

MCMeanwhile ==
    {[op |-> "create", data |-> <<E("k", 2), E("v", 1)>>, unique |-> FALSE],
     [op |-> "delete", query |-> <<E("k", 1)>>]}
    \cap Call

Filtering(name, field, op, value) ==
    [name |-> name, field |-> field, op |-> op, value |-> value]
MCFilters ==
    {<<>>, <<Filtering(2, 2, "=", <<2>>), Filtering(1, Undefined, "!=", <<Null>>)>>,
     <<Filtering(2, 1, "in", <<Null, 2>>)>>,
     <<Filtering(1, Undefined, ">", <<1>>), Filtering(2, 2, "!=", <<Null>>)>>}
    \cup {<<Filtering(1, Undefined, op, <<1, 0>>)>> : op \in {"in", "not in"}}
MCExtra == {<<>>, <<<<E("k", 1)>>>>, <<<<E("k", 1)>>, <<E("v", 2)>>>>}
\* Searches that use at most one of the features that add parameters, or all.
Features(s) ==
    <<s.extra # <<>>, s.fts, s.joined, s.q # Undefined, s.filters # <<>>>>
MCSearches ==
    {s \in [extra : MCExtra, fts : BOOLEAN, joined : BOOLEAN, sortable : BOOLEAN,
            sort : {Undefined, 1, As}, desc : BOOLEAN, q : {Undefined, 2},
            filters : MCFilters, offset : 0 .. 2, limit : {Undefined, 0, 1}] :
        /\ s.sort = Undefined => ~s.desc
        /\ s.sort = As => s.joined
        /\ s.sortable = (s.sort = As => s.extra = <<>> \/ s.fts)
        /\ s.limit # 1 => s.offset # 1
        /\ Cardinality({n \in 1 .. 5 : Features(s)[n]}) \in {0, 1, 5}}
=============================================================================
