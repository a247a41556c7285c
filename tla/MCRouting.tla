------------------------------ MODULE MCRouting ------------------------------
(* Small instances of Routing for TLC.                                     *)
EXTENDS Routing

Formats == {"chat", "responses"}
Bare(id) == [scope |-> None, id |-> id]
In(label, id) == [scope |-> label, id |-> id]
Row(at, wire, names, billing) == [at |-> at, wire |-> wire, names |-> names \cup {wire}, billing |-> billing]

\* One model under its own name; under a display name; billed apart from its
\* connection; twice under two aliases; with a wire id that holds a slash.
RowSets ==
    {{Row(1, Bare("w"), {Bare("m")}, None)},
     {Row(1, Bare("v"), {Bare("m")}, None)},
     {Row(1, Bare("w"), {Bare("m")}, "free")},
     {Row(1, Bare("w"), {Bare("m")}, None), Row(2, Bare("w"), {}, None)},
     {Row(1, In(1, "m"), {}, None)}}

NoAlternates == [f \in Formats |-> None]

\* Groups, order, visibility, plans, billing and rows vary; one format.
ChainPool ==
    {p \in {[name |-> n, group |-> g, order |-> 3 - n, hidden |-> h, here |-> TRUE, protocol |-> "chat",
             plan |-> a, provider |-> 1, credential |-> n, billing |-> "metered", default |-> None,
             alternates |-> NoAlternates, rows |-> r] :
               n \in Labels, g \in {1, 3}, h \in BOOLEAN, a \in BOOLEAN, r \in RowSets} :
        p.plan => p.rows = {Row(1, Bare("w"), {Bare("m")}, None)}}

\* Formats, regions, accounts and declared alternates vary; one model.
FormatPool ==
    {[name |-> n, group |-> g, order |-> n, hidden |-> FALSE, here |-> e, protocol |-> f,
      plan |-> FALSE, provider |-> 1, credential |-> c, billing |-> "metered", default |-> d,
      alternates |-> [x \in Formats |-> IF x = f THEN None ELSE 2],
      rows |-> {Row(1, Bare("w"), {Bare("m")}, None)}] :
        n \in Labels, g \in {2, 3}, e \in BOOLEAN, f \in Formats, c \in {1, 2}, d \in {None, "responses"}}

\* Profiles of both kinds side by side, in a group they can share.
MixedPool == ChainPool \cup {p \in FormatPool : p.group = 3}

ChainQuestions ==
    [ref : {Bare("m"), Bare("w"), In(1, "m"), In(3, "w")}, scope : {None, 1, 2}, protocol : {None}]
    \cup [ref : {Bare("m"), Bare("other")}, scope : {None, 1}, protocol : {"responses"}]

FormatQuestions ==
    [ref : {Bare("m"), In(1, "m"), Bare("other")}, scope : {None, 1}, protocol : Formats \cup {None}]
=============================================================================
