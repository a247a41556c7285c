--------------------------- MODULE MCConversation ---------------------------
(***************************************************************************)
(* Small instances of ConversationSession for TLC.  Identities: idR stores *)
(* responses and has sockets, idP has sockets and stores nothing, idT      *)
(* speaks Anthropic threads, idN has no continuation at all.               *)
(***************************************************************************)
EXTENDS ConversationSession

VARIABLE scenario

CONSTANTS Scenarios, idR, idP, idT, idN, u, x

MCCapability == [i \in {idR, idP, idT, idN} |->
    CASE i = idT -> "AnthropicThread" [] i = idN -> "Unsupported" [] OTHER -> "Responses"]

Ask(i, items, streamed, explicit) ==
    [identity |-> i, transport |-> "a", items |-> items, rest |-> "z", stream |-> streamed,
     store |-> TRUE, explicit |-> explicit]

Histories == {<<u>>, <<u, x, u>>}

\* Each scenario is a set of requests: two accounts on sockets, of which one
\* stores nothing; calls with and without a stream; a caller's own previous
\* response; a change of transport; threads and a route without continuation; a
\* caller's own conversation.
Scenario ==
    [sockets |-> {Ask(idR, <<u>>, TRUE, "no")} \cup {Ask(idP, items, TRUE, "no") : items \in Histories},
     stored |-> {Ask(idR, <<u>>, TRUE, "no"), Ask(idR, <<u, x, u>>, FALSE, "no")},
     branch |-> {Ask(idR, <<u>>, TRUE, "previous"), Ask(idR, <<u, x, u>>, TRUE, "no")},
     transports |-> {Ask(idR, <<u>>, TRUE, "no"),
                     [Ask(idR, <<u, x, u>>, FALSE, "no") EXCEPT !.transport = "b"]},
     threads |-> {Ask(idT, items, streamed, "no") : items \in Histories, streamed \in BOOLEAN}
                    \cup {Ask(idN, <<u>>, FALSE, "no")},
     explicit |-> {Ask(idR, items, TRUE, "conversation") : items \in Histories}]

MCRequests == UNION {Scenario[k] : k \in Scenarios}

MCInit == Init /\ scenario \in Scenarios

MCNext ==
    /\ Next
    /\ UNCHANGED scenario
    /\ call'.q # None => call'.q \in Scenario[scenario]

\* A stream only asks whether its cell, its epoch and its query are still the
\* current ones, which never come back, and whoever heard of its end knows all
\* there is to know of it: states that answer alike behave alike.
Asks(o) == IF o = None \/ o.epoch # conv.epoch THEN None ELSE [o EXCEPT !.epoch = 0]

Heard(r) ==
    CASE r = None -> None
      [] r.stage \in {"open", "released"} ->
            [r EXCEPT !.cell = @ = ws.cell, !.body = IF r.cell = ws.cell THEN @ ELSE None,
                      !.observation = Asks(@), !.query = @ = query]
      [] OTHER -> <<r.stage, Asks(r.observation), r.ending,
                    r.q.explicit = "no" => r.context = r.asked>>

Alike ==
    <<[ws EXCEPT !.cell = 0], slot, [conv EXCEPT !.epoch = 0, !.pending = Asks(@)],
      [call EXCEPT !.observation = Asks(@)], [n \in Responses |-> Heard(stream[n])],
      [n \in Responses |-> IF known[n] = None THEN None ELSE [known[n] EXCEPT !.query = @ = query]],
      calls, scenario>>

MCSpec == MCInit /\ [][MCNext]_<<vars, scenario>>
=============================================================================
