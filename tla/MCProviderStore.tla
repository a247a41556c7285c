--------------------------- MODULE MCProviderStore ---------------------------
(* Small instances of ProviderStore for TLC.  A behaviour plays one        *)
(* scenario: a set of operations and the callers that ask for them.        *)
EXTENDS ProviderStore

CONSTANTS Scenarios, p1, p2, t1, t2, t3, d1, d2, n1, n2, c1, c2, m1

VARIABLE scenario

MCOwner == [t \in Tasks |-> IF t = t1 THEN p1 ELSE p2]
MCOwnerThree == [t \in Tasks |-> IF t = t3 THEN p2 ELSE p1]
MCCatalog == [n \in Names |-> IF n = n1 THEN [conn |-> c1, models |-> {m1}] ELSE None]

Req(kind, dir, name, conn, models) ==
    [kind |-> kind, dir |-> dir, name |-> name, conn |-> conn, models |-> models]

MCCatalogBoth == [n \in Names |-> [conn |-> c1, models |-> {m1}]]

\* Two processes, one with two callers, change accounts of one directory.
SharedRequests ==
    {Req("load", d1, None, None, {}), Req("add", None, n2, c1, {m1}),
     Req("remove", None, n1, None, {})}

\* Rows that are durable only while their model is tracked.
RowRequests ==
    {Req("load", d1, None, None, {}),
     Req("track", None, None, None, {m1}),
     Req("edit", None, n2, None, {m1}), Req("protocol", None, n1, c2, {})}

\* Model directory fetches that race changes of the account.
FetchRequests ==
    {Req("load", d1, None, None, {}),
     Req("track", None, None, None, {m1}), Req("protocol", None, n1, c2, {}),
     Req("prepare", None, n1, None, {}), Req("apply", None, None, None, {})}

\* One process that reloads two directories and recreates an account.
KeyRequests ==
    {Req("load", d1, None, None, {}), Req("load", d2, None, None, {}),
     Req("add", None, n1, c1, {m1}), Req("protocol", None, n1, c2, {}),
     Req("remove", None, n1, None, {}), Req("restore", None, n1, None, {}),
     Req("track", None, None, None, {m1}), Req("untrack", None, None, None, {m1}),
     Req("bind", None, n1, None, {})}

MCListings == {[live |-> {m1}, incompatible |-> {}, compatible |-> {}]}

Operations == [shared |-> SharedRequests, rows |-> RowRequests,
               fetches |-> FetchRequests, keys |-> KeyRequests]
AllRequests == UNION {Operations[s] : s \in Scenarios}
CallBound == [shared |-> 4, rows |-> 5, fetches |-> 6, keys |-> 4]

\* Shared: of the two callers of a process, only the first loads.
\* Rows and fetches: two processes without readers or crashes, one of which
\* fetches.  Keys: one process.
Bounds ==
    /\ calls' <= CallBound[scenario]
    /\ \A t \in Tasks : op'[t] \in Operations[scenario] \cup {None}
    /\ scenario = "shared" /\ op'[t2] # None => op'[t2].kind # "load"
    /\ scenario \in {"rows", "fetches"} => crashes' = 0 /\ UNCHANGED held
    /\ scenario = "fetches" =>
          \A t \in Tasks \ {t1} :
             op'[t] \notin {r \in FetchRequests : r.kind \in {"prepare", "apply"}}
    /\ scenario = "keys" => \A t \in Tasks \ {t1} : op'[t] = None

MCInit == Init /\ scenario \in Scenarios

MCNext == Next /\ Bounds /\ UNCHANGED scenario

MCSpec == MCInit /\ [][MCNext]_<<vars, scenario>> /\ Fairness
=============================================================================
