------------------------------- MODULE Routing -------------------------------
(***************************************************************************)
(* How a model reference becomes a route (client/resolve.rs): the head     *)
(* connection and the siblings that may take over, in the immutable        *)
(* snapshot of a catalogue of profiles (client/snapshot.rs).               *)
(*                                                                         *)
(* Profile names and group names share one name space, Labels; a label's   *)
(* number is its place in the alphabet.  A reference is [scope, id]: the   *)
(* text before a slash, or None, and the rest; a model's own wire id may   *)
(* hold a slash as well.  The catalogue changes with every publication, so *)
(* the state is the catalogue, and a property speaks of every question     *)
(* that can be asked of it.                                                *)
(***************************************************************************)
EXTENDS Naturals, FiniteSets, Sequences

CONSTANTS
    Labels,         \* names of profiles and groups
    Pool,           \* profiles that can be configured
    Questions,      \* what may be asked: [ref, scope, protocol]
    MaxProfiles,    \* bound on the catalogue
    None

VARIABLE catalog    \* RuntimeSnapshot.profiles

ASSUME RoutingAssumption ==
    /\ Labels \subseteq Nat
    /\ None \notin Labels /\ None # "UnknownModel"
    /\ \A p \in Pool :
          /\ p.name \in Labels /\ p.group \in Labels
          /\ p.order \in Nat
          /\ p.hidden \in BOOLEAN
          /\ IsFiniteSet(p.rows)
          /\ \A m \in p.rows : m.at \in Nat
          /\ \A m, n \in p.rows : m.at = n.at => m = n
    /\ MaxProfiles \in Nat

-----------------------------------------------------------------------------
(* Matching.                                                               *)

\* RuntimeSnapshot::profile, among those that serve the client's region.
ServedHere(cat, label) == {p \in cat : p.name = label /\ p.here}

\* A name that is both a connection and a group means the connection.
InScope(cat, p, scope) ==
    IF ServedHere(cat, scope) # {} THEN p.name = scope ELSE p.group = scope

\* Rows are [wire, names, billing, at]; a match is a profile and one of its rows.
Matches(cat, ref, scope) ==
    {match \in UNION {{[profile |-> p, row |-> m] : m \in p.rows} : p \in cat} :
        /\ match.profile.here
        /\ scope = None \/ InScope(cat, match.profile, scope)
        /\ ref \in match.row.names}

\* Mutant: hidden profiles compete with visible ones.
AllMatches(matches, scope) == matches

\* Hidden profiles never compete with visible ones for an unscoped reference.
Visible(matches, scope) ==
    IF scope = None /\ \E x \in matches : ~x.profile.hidden
      THEN {x \in matches : ~x.profile.hidden} ELSE matches

\* The reading of "qualifier/model" as a profile or group and its model.
Qualified(cat, ref, scope) ==
    IF ref.scope # None /\ scope \in {None, ref.scope}
      THEN Matches(cat, [ref EXCEPT !.scope = None], ref.scope) ELSE {}

\* sort_matches, connection_sort_key; rows of one profile keep their order.
Before(x, y, preferVisible) ==
    LET key(z) == <<IF preferVisible /\ z.profile.hidden THEN 1 ELSE 0,
                    z.profile.order, z.profile.name, z.row.at>>
    IN  \E i \in 1 .. 4 :
            /\ key(x)[i] < key(y)[i]
            /\ \A j \in 1 .. i - 1 : key(x)[j] = key(y)[j]

\* A set sorted: the member at k has k - 1 members below it.  (Sorting and
\* filtering are written without recursion, for the proofs.)
Ranked(S, below(_, _)) ==
    [k \in 1 .. Cardinality(S) |-> CHOOSE x \in S : Cardinality({y \in S : below(y, x)}) = k - 1]

First(matches, preferVisible) ==
    CHOOSE x \in matches : \A y \in matches \ {x} : Before(x, y, preferVisible)

-----------------------------------------------------------------------------
(* The failover chain.                                                     *)

BillingModeOn(p, m) == IF m.billing = None THEN p.billing ELSE m.billing

\* Mutant: the chain leaves the way the head is billed.
SameModelRows(p, m, head) == m.wire = head.row.wire

\* The same wire model, billed the same way.
Interchangeable(p, m, head) ==
    /\ m.wire = head.row.wire
    /\ BillingModeOn(p, m) = BillingModeOn(head.profile, head.row)

\* Siblings come from the head's group, whatever the scope; a plan has none.
Siblings(cat, head) ==
    LET rows(c) == {m \in c.rows : Interchangeable(c, m, head)}
        chosen == {c \in cat :
                     /\ c.here
                     /\ c.group = head.profile.group
                     /\ c.name # head.profile.name
                     /\ ~c.plan
                     /\ ~head.profile.plan
                     /\ Cardinality(rows(c)) = 1}
        hops == {[profile |-> c, row |-> CHOOSE m \in rows(c) : TRUE] : c \in chosen}
    IN  Ranked(hops, LAMBDA x, y : Before(x, y, FALSE))

Failed(why) == [ok |-> FALSE, why |-> why, connections |-> <<>>]

Found(connections) == [ok |-> TRUE, why |-> None, connections |-> connections]

\* resolve_request_with_precedence
WithPrecedence(cat, ref, scope, preferNative) ==
    LET native == Visible(Matches(cat, ref, scope), scope)
        qualified == IF preferNative /\ native # {} THEN {} ELSE Qualified(cat, ref, scope)
        matches == IF native # {} THEN native ELSE qualified
        head == First(matches, scope = None)
    IN  CASE /\ scope = None
             /\ native # {} /\ qualified # {}
             /\ First(native, TRUE) # First(qualified, TRUE) -> Failed("AmbiguousNativeAndQualified")
          [] matches = {} -> Failed("UnknownModel")
          [] \E x, y \in matches : x.profile.group # y.profile.group -> Failed("AmbiguousAcrossGroups")
          [] \E x, y \in matches : x # y /\ x.profile.name = y.profile.name -> Failed("DuplicateOnProfile")
          [] OTHER -> Found(<<head>> \o Siblings(cat, head))

\* promote_head(0) after retain: Vec::remove panics when nothing was retained.
Retained(found, protocol) ==
    LET kept == {k \in DOMAIN found.connections : found.connections[k].profile.protocol = protocol}
        order == Ranked(kept, LAMBDA k, l : k < l)
    IN  IF ~found.ok THEN found ELSE IF kept = {} THEN Failed("panic")
        ELSE Found([k \in DOMAIN order |-> found.connections[order[k]]])

-----------------------------------------------------------------------------
(* Wire formats.                                                           *)

\* resolve_alternate_protocol
Alternate(cat, head, ref, protocol) ==
    LET label == head.alternates[protocol]
        target == {t \in cat :
                     /\ t.name = label
                     /\ t.provider = head.provider
                     /\ t.credential = head.credential
                     /\ t.protocol = protocol
                     /\ t.billing = head.billing}
    IN  IF target = {} THEN Failed("UnsupportedProtocol")
        ELSE Retained(WithPrecedence(cat, ref, label, TRUE), protocol)

Or(a, b) == IF a # None THEN a ELSE b

\* resolve_request_with_protocol for a model no profile in scope lists: the
\* account named by the caller may serve it under another format.
Unlisted(cat, ref, scope, protocol, error) ==
    LET owner == ServedHere(cat, Or(scope, ref.scope))
        head == CHOOSE p \in owner : TRUE
        format == Or(protocol, head.default)
        model == IF ref.scope = head.name THEN [ref EXCEPT !.scope = None] ELSE ref
    IN  IF owner = {} \/ format \in {None, head.protocol} THEN error
        ELSE Alternate(cat, head, model, format)

\* resolve_request_with_protocol
Resolve(cat, ref, scope, protocol) ==
    LET source == WithPrecedence(cat, ref, scope, FALSE)
        head == source.connections[1]
        format == Or(protocol, Or(head.profile.default, head.profile.protocol))
    IN  CASE source.why = "UnknownModel" -> Unlisted(cat, ref, scope, protocol, source)
          [] ~source.ok /\ source.why # "UnknownModel" -> source
          [] source.ok /\ format = head.profile.protocol -> Retained(source, format)
          [] OTHER -> Alternate(cat, head.profile, head.row.wire, format)

Answer(cat, q) == Resolve(cat, q.ref, q.scope, q.protocol)

-----------------------------------------------------------------------------
(* The catalogue.                                                          *)

Init == catalog = {}

\* Profile names are unique (DuplicateProfile, builder.rs).
Configure(p) ==
    /\ Cardinality(catalog) < MaxProfiles
    /\ \A c \in catalog : c.name # p.name
    /\ catalog' = catalog \cup {p}

Withdraw(p) ==
    /\ p \in catalog
    /\ catalog' = catalog \ {p}

Next == \E p \in Pool : Configure(p) \/ Withdraw(p)

Spec == Init /\ [][Next]_catalog

-----------------------------------------------------------------------------
(* Properties.                                                             *)

Route(q) == Answer(catalog, q).connections

\* Failing over never changes what the caller gets: every connection of a route
\* has the head's group, format, wire model and way of billing, is another
\* profile of the region, and a plan is only ever alone.
SiblingsInterchangeable ==
    \A q \in Questions : \A i, j \in DOMAIN Route(q) :
        LET x == Route(q)[i]
            y == Route(q)[j]
        IN  /\ x.profile.here
            /\ x.profile.group = y.profile.group
            /\ x.profile.protocol = y.profile.protocol
            /\ x.row.wire = y.row.wire
            /\ BillingModeOn(x.profile, x.row) = BillingModeOn(y.profile, y.row)
            /\ i # j => x.profile.name # y.profile.name /\ ~x.profile.plan

\* The format a profile is asked for by default is its own, or the region has the
\* declared target (FormatStaysOnAccount says what happens otherwise).
DefaultServed(cat, p) ==
    p.default \in {None, p.protocol} \/ ServedHere(cat, p.alternates[p.default]) # {}

\* "Hidden siblings [...] cannot make an existing unscoped model ambiguous
\* merely by adding another wire profile": configuring a hidden profile leaves
\* alone a bare model that visible profiles list.
HiddenChangesNoHead ==
    \A q \in Questions : \A p \in catalog :
        LET others == catalog \ {p}
            listed == {x \in Matches(others, q.ref, None) : ~x.profile.hidden}
            before == Answer(others, q)
            after == Answer(catalog, q)
        IN  /\ p.hidden /\ q.scope = None /\ q.ref.scope = None /\ q.protocol = None /\ before.ok
            /\ listed # {} /\ \A x \in listed : DefaultServed(others, x.profile)
            => after.ok /\ after.connections[1] = before.connections[1]

\* "Selection checks provider, credential configuration, billing product, target
\* model, and region before using the target endpoint": a question that names a
\* connection and asks for another format stays with that account, or is
\* refused with an error.
FormatStaysOnAccount ==
    \A q \in Questions : \A p \in ServedHere(catalog, q.scope) :
        q.protocol # None /\ q.protocol # p.protocol =>
            /\ Answer(catalog, q).why # "panic"
            /\ Route(q) # <<>> => Route(q)[1].profile.credential = p.credential
=============================================================================
