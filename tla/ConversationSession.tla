------------------------- MODULE ConversationSession -------------------------
(***************************************************************************)
(* A conversation session (client/conversation_session.rs) over HTTP and   *)
(* over its ResponsesSession: the caller passes the whole history on every *)
(* call, and the session sends only what the provider does not know yet.   *)
(*                                                                         *)
(* One call of complete_in or stream_in runs at a time; the streams of     *)
(* earlier calls end whenever they like, beside it, on the task that polls *)
(* them: no lock spans the release of the socket, the update of the socket *)
(* session and the commit of the conversation.  A response n is known to   *)
(* the provider by the context it was generated in.  What may vary in a    *)
(* continued request is not modelled: `rest` is what may not (see          *)
(* compatible), and items are compared as comparable leaves them.          *)
(***************************************************************************)
EXTENDS ResponsesSession, FiniteSets

CONSTANTS
    Requests,       \* what callers may ask for
    Capability,     \* Capability[i]: ContinuationCapability::for_profile
    SocketRoutes,   \* identities with supports_websockets and OpenAiResponses
    StoredBy,       \* identities whose responses are stored by default
    Outputs,        \* the outputs a provider may generate
    MaxResponses,   \* bound on the number of responses
    MaxCalls        \* bound on the number of calls and session operations

VARIABLES
    conv,       \* the session: its State, pending, binding, snapshot and flags
    call,       \* the running call
    stream,     \* stream[n]: the response stream n, or None
    known,      \* known[n]: what the provider keeps of response n
    query,      \* how often the caller started over
    calls

vars == <<ws, slot, conv, call, stream, known, query, calls>>

Responses == 1 .. MaxResponses
Explicit == 0           \* a response id the caller names itself

Identities == {q.identity : q \in Requests}
Transports == {q.transport : q \in Requests}
Rests == {q.rest : q \in Requests}
Items == (UNION {{q.items[i] : i \in DOMAIN q.items} : q \in Requests}) \cup Outputs \cup {None}

\* What callers may ask for, and whether they name a previous response or a
\* conversation of their own.
Request == [identity : Identities, transport : Transports, items : Seq(Items), rest : Rests,
            stream : BOOLEAN, store : BOOLEAN, explicit : {"no", "previous", "conversation"}]

\* What is sent; what an observer compares; the last completed response of the
\* conversation and of the socket; how a response ends; a response stream, from
\* its generation to the caller's last event; what the provider keeps of it.
Body == [prev : 0 .. MaxResponses \cup {None}, items : Seq(Items), rest : Rests]
Observation == [epoch : Nat, identity : Identities, items : Seq(Items), rest : Rests]
Completed == [identity : Identities, items : Seq(Items), rest : Rests, output : Seq(Items),
              id : Responses]
Ending == [kind : {"completed", "unstored", "incomplete", "failed", "lost"},
           output : Seq(Items)]
Last == [id : Responses, body : Body, output : Seq(Items)]
Stream == [q : Requests, asked : Seq(Items), context : Seq(Items), socket : Sockets \cup {None},
           cell : Nat, body : Body \cup {None}, observation : Observation \cup {None},
           query : Nat, prewarm : BOOLEAN,
           stage : {"open", "released", "observed", "closed"}, ending : Ending \cup {None}]
Known == [context : Seq(Items), socket : Sockets \cup {None}, kept : BOOLEAN,
          identity : Identities, query : Nat, late : BOOLEAN]

\* The socket session, the conversation session and the running call.
Session == [socket : Sockets \cup {None}, identity : (Identities \X Transports) \cup {None},
            cell : Nat, last : Last \cup {None}, healthy : BOOLEAN, fallback : BOOLEAN,
            used : BOOLEAN]
State == [epoch : Nat, completed : Completed \cup {None}, pending : Observation \cup {None},
          binding : BOOLEAN, mode : {"Full", "Continue", "Create", "Recreate"},
          recovery : BOOLEAN, transport : Transports \cup {None},
          capability : {Capability[i] : i \in Identities} \cup {"Unsupported", None},
          identity : Identities \cup {None}, disabled : Identities \cup {None}]
Call == [phase : {"idle", "preparing", "connecting", "prepared", "sent", "collecting"},
         q : Requests \cup {None}, attempt : {0, 1}, prewarm : BOOLEAN,
         full : Body \cup {None}, body : Body \cup {None}, socket : Sockets \cup {None},
         thread : BOOLEAN, observation : Observation \cup {None}, inferred : Nat]

ASSUME ConversationAssumption ==
    /\ Requests \subseteq Request
    /\ IsFiniteSet(Sockets)
    /\ Sockets = 1 .. Cardinality(Sockets)
    /\ MaxResponses \in Nat
    /\ MaxCalls \in Nat
    /\ None \notin Nat
    /\ None \notin Requests
    /\ None \notin Identities
    /\ None \notin Transports
    /\ None \notin Identities \X Transports
    /\ None \notin Body
    /\ None \notin Observation
    /\ None \notin Completed
    /\ None \notin Last
    /\ None \notin Ending
    /\ None \notin Stream
    /\ None \notin Known

Thread(q) == Capability[q.identity] = "AnthropicThread"
Stored(q) == q.store /\ q.identity \in StoredBy
BodyOf(q) == [prev |-> IF q.explicit = "previous" THEN Explicit ELSE None,
              items |-> q.items, rest |-> q.rest]

NoCall == [phase |-> "idle", q |-> None, attempt |-> 0, prewarm |-> FALSE, full |-> None,
           body |-> None, socket |-> None, thread |-> FALSE, observation |-> None, inferred |-> 0]

Idle == call.phase = "idle"

Init ==
    /\ ws = NewSession
    /\ slot = [s \in Sockets |-> "unused"]
    /\ conv = [epoch |-> 0, completed |-> None, pending |-> None, binding |-> FALSE,
               mode |-> "Full", recovery |-> FALSE, transport |-> None,
               capability |-> None, identity |-> None, disabled |-> None]
    /\ call = NoCall
    /\ stream = [n \in Responses |-> None]
    /\ known = [n \in Responses |-> None]
    /\ query = 0
    /\ calls = 0

-----------------------------------------------------------------------------
(* Session state.                                                          *)

\* Mutant: observers of the old history still match the epoch.
ForgottenInPlace(c) == [c EXCEPT !.completed = None, !.pending = None, !.binding = FALSE]

\* clear_history
Forgotten(c) ==
    [c EXCEPT !.epoch = @ + 1, !.completed = None, !.pending = None, !.binding = FALSE]

\* The request may start or continue an implicit chain.
Eligible(c, q) ==
    /\ Capability[q.identity] # "Unsupported"
    /\ ~(Thread(q) /\ c.disabled = q.identity)
    /\ Stored(q)
    /\ q.explicit = "no"

\* The last completed response stands for a prefix of the history: same
\* identity, compatible, prefix_matches.
Continues(done, q) ==
    /\ done # None
    /\ done.identity = q.identity
    /\ done.rest = q.rest
    /\ IsPrefixOf(done.items \o done.output, q.items)

\* The wire body of a continuation.
Shortened(done, q) ==
    [prev |-> done.id, rest |-> q.rest,
     items |-> SubSeq(q.items, Len(done.items \o done.output) + 1, Len(q.items))]

\* The epoch of the observation of a prepared call.
NextEpoch(c, fresh) == c.epoch + 1

-----------------------------------------------------------------------------
(* Preparation.                                                            *)

\* complete_in, stream_in
Begin(q) ==
    /\ Idle
    /\ calls < MaxCalls
    /\ calls' = calls + 1
    /\ call' = [NoCall EXCEPT !.phase = "preparing", !.q = q]
    /\ UNCHANGED <<ws, slot, conv, stream, known, query>>

\* prepare, up to its own await: bindings are gone, a new transport resets.
Fresh(q) ==
    LET c == [conv EXCEPT !.binding = FALSE, !.pending = None]
    IN  IF conv.transport \notin {None, q.transport}
          THEN [Forgotten(c) EXCEPT !.transport = q.transport]
          ELSE [c EXCEPT !.transport = q.transport]

SocketFresh(q) == IF conv.transport \notin {None, q.transport} THEN Detached(ws) ELSE ws

\* A route without any continuation: reset, and the request as it is.
PrepareStateless ==
    LET q == call.q
    IN  /\ call.phase = "preparing"
        /\ Capability[q.identity] = "Unsupported"
        /\ q.identity \notin SocketRoutes
        /\ conv' = [Forgotten(Fresh(q)) EXCEPT
                       !.binding = TRUE, !.mode = IF conv.recovery THEN "Recreate" ELSE "Full",
                       !.recovery = FALSE, !.capability = "Unsupported", !.identity = None]
        /\ ws' = Detached(SocketFresh(q))
        /\ slot' = Abandoned(ws, ws')
        /\ call' = [call EXCEPT !.phase = "prepared", !.body = BodyOf(q), !.thread = FALSE]
        /\ UNCHANGED <<stream, known, query, calls>>

\* The implicit chain.  An old thread may be too old to be continued.
PrepareChain ==
    LET q == call.q
        fresh == Fresh(q)
        may == Eligible(fresh, q)
    IN  /\ call.phase = "preparing"
        /\ Capability[q.identity] # "Unsupported" \/ q.identity \in SocketRoutes
        /\ \E aged \in BOOLEAN :
              LET continued == may /\ Continues(fresh.completed, q) /\ ~aged
                  mode == CASE continued -> "Continue"
                            [] ~continued /\ fresh.recovery -> "Recreate"
                            [] ~continued /\ ~fresh.recovery /\ may /\ Thread(q) -> "Create"
                            [] OTHER -> "Full"
              IN  /\ aged => Thread(q)
                  /\ conv' = [fresh EXCEPT
                        !.completed = None, !.epoch = NextEpoch(fresh, may), !.binding = TRUE,
                        !.mode = mode, !.recovery = FALSE, !.identity = q.identity,
                        !.capability = Capability[q.identity],
                        !.pending = IF may THEN [epoch |-> NextEpoch(fresh, may),
                                                 identity |-> q.identity, items |-> q.items,
                                                 rest |-> q.rest]
                                    ELSE None]
                  /\ call' = [call EXCEPT
                        !.phase = IF q.identity \in SocketRoutes /\ q.stream
                                    THEN "connecting" ELSE "prepared",
                        !.body = IF continued THEN Shortened(fresh.completed, q) ELSE BodyOf(q),
                        !.thread = may /\ Thread(q)]
        /\ ws' = SocketFresh(q)
        /\ slot' = Abandoned(ws, ws')
        /\ UNCHANGED <<stream, known, query, calls>>

\* The handshake or the draft cannot be made: what is bound is gone already.
PrepareFails ==
    /\ call.phase = "preparing"
    /\ conv' = Fresh(call.q)
    /\ ws' = SocketFresh(call.q)
    /\ slot' = Abandoned(ws, ws')
    /\ call' = NoCall
    /\ UNCHANGED <<stream, known, query, calls>>

\* ResponsesSession::prepare_using before it connects.
Endpoint(q) == <<q.identity, q.transport>>
Reachable(q) == Rebound(LeftToOthers(ws), Endpoint(q))

\* A socket is there, or a new one is opened; the body shrinks against the
\* last response of the session (record_responses_wire_request).
PrepareSocket ==
    LET w == Usable(Reachable(call.q))
        s == Cardinality(Opened) + 1
    IN  /\ call.phase = "connecting"
        /\ ~Reachable(call.q).fallback
        /\ w.socket = None => s \in Sockets
        /\ LET v == IF w.socket # None THEN w ELSE [w EXCEPT !.socket = s, !.healthy = TRUE]
               body == IF call.prewarm THEN call.body ELSE Incremental(v.last, call.body)
           IN  /\ ws' = [v EXCEPT !.used = body.prev # None]
               /\ slot' = IF w.socket # None THEN slot
                          ELSE [SlotsFor(Endpoint(call.q)) EXCEPT ![s] = "idle"]
               /\ call' = [call EXCEPT !.phase = "prepared", !.socket = v.socket, !.body = body,
                                       !.full = call.body]
               /\ conv' = IF body.prev # None /\ ~call.prewarm
                            THEN [conv EXCEPT !.mode = "Continue"] ELSE conv
        /\ UNCHANGED <<stream, known, query, calls>>

\* The endpoint has no WebSocket, now or since earlier: the draft goes over HTTP
\* as it is.  Prewarming is then an error.  The mode follows whatever the last
\* socket request did.
PrepareFallback ==
    /\ call.phase = "connecting"
    /\ LET r == Reachable(call.q)
           w == Usable(r)
           v == IF r.fallback THEN r ELSE FailedToHttp(w)
       IN  /\ r.fallback \/ w.socket = None
           /\ ws' = v
           /\ slot' = SlotsFor(Endpoint(call.q))
           /\ IF call.prewarm
                THEN call' = NoCall /\ UNCHANGED conv
                ELSE /\ call' = [call EXCEPT !.phase = "prepared"]
                     /\ conv' = IF v.used THEN [conv EXCEPT !.mode = "Continue"] ELSE conv
    /\ UNCHANGED <<stream, known, query, calls>>

\* No connection, or the caller gave up waiting for one.  The draft is still
\* bound to its preparation for HTTP, and a host may go on with it.
PrepareSocketFails ==
    /\ call.phase = "connecting"
    /\ \/ /\ ws' = WithoutIdentity(LeftToOthers(ws))
          /\ slot' = SlotsFor(None)
       \/ /\ ws' = Usable(Reachable(call.q))
          /\ ws'.socket = None
          /\ ~ws'.fallback
          /\ slot' = SlotsFor(Endpoint(call.q))
    /\ call' \in {NoCall} \cup IF call.prewarm THEN {} ELSE {[call EXCEPT !.phase = "prepared"]}
    /\ UNCHANGED <<conv, stream, known, query, calls>>

-----------------------------------------------------------------------------
(* Dispatch, and what the provider makes of it.                            *)

\* The call matches the session's latest preparation.
Bound == conv.binding

\* A draft the session no longer knows is refused.
DispatchUnbound ==
    /\ call.phase = "prepared"
    /\ ~Bound
    /\ call' = NoCall
    /\ UNCHANGED <<ws, slot, conv, stream, known, query, calls>>

\* The observation goes with the call.
Handed(c) == [c EXCEPT !.binding = FALSE, !.pending = None]

Dispatch ==
    /\ call.phase = "prepared"
    /\ Bound
    /\ conv' = Handed(conv)
    /\ call' = [call EXCEPT !.phase = "sent", !.observation = conv.pending]
    /\ IF call.socket = None THEN UNCHANGED slot
       ELSE slot[call.socket] = "idle" /\ slot' = [slot EXCEPT ![call.socket] = "busy"]
    /\ UNCHANGED <<ws, stream, known, query, calls>>

\* Admission, a closed socket or the transport refuses; nothing is replayed.
\* 426 gives up on sockets.
DispatchFails ==
    /\ \/ call.phase = "prepared" /\ Bound
       \/ call.phase = "sent"
    /\ conv' = Handed(conv)
    /\ IF call.socket = None THEN UNCHANGED <<ws, slot>>
       ELSE /\ ws' \in {[Cleared(ws, TRUE) EXCEPT !.socket = None], FailedToHttp(ws)}
            /\ slot' = [slot EXCEPT ![call.socket] = "closed"]
    /\ call' = NoCall
    /\ UNCHANGED <<stream, known, query, calls>>

\* Whether the provider can still continue from a response.
Knows(prev) ==
    prev \in Responses =>
        known[prev] # None /\ (known[prev].kept \/ known[prev].socket = call.socket)

Context(body) ==
    CASE body.prev = None -> body.items
      [] body.prev = Explicit -> <<None>> \o body.items      \* a context of the caller's own
      [] OTHER -> known[body.prev].context \o body.items

NextResponse == Cardinality({n \in Responses : stream[n] # None}) + 1

\* Inference begins.  stream_in returns the stream; complete_in collects.
Infer ==
    LET n == NextResponse
    IN  /\ call.phase = "sent"
        /\ call.body.prev # None => Knows(call.body.prev)
        /\ n \in Responses
        /\ stream' = [stream EXCEPT ![n] =
              [q |-> call.q, asked |-> call.q.items, context |-> Context(call.body),
               socket |-> call.socket, cell |-> ws.cell, body |-> call.full,
               observation |-> call.observation, query |-> query, prewarm |-> call.prewarm,
               stage |-> "open", ending |-> None]]
        /\ call' = IF call.q.stream THEN NoCall
                   ELSE [call EXCEPT !.phase = "collecting", !.inferred = @ + 1]
        /\ UNCHANGED <<ws, slot, conv, known, query, calls>>

Replayable == {"rejected", "unsupported"}

\* Mutant: any failure of a continuation is replayed.
RecoverableAlways(kind) == conv.mode = "Continue" \/ kind = "unsupported"

\* recover: exact rejections of a continuation, or of threads.
Recoverable(kind) ==
    \/ kind = "rejected" /\ conv.mode = "Continue"
    \/ /\ kind = "unsupported"
       /\ conv.capability = "AnthropicThread"
       /\ conv.mode \in {"Continue", "Create", "Recreate"}

\* The request is turned down by status or, over a socket, by the first event.
\* A continuation is rejected before inference; other failures may come after.
TurnDown(kind, inferred) ==
    /\ call.phase = "sent"
    /\ ~call.prewarm
    /\ kind \in Replayable => ~inferred
    /\ kind = "rejected" => call.body.prev # None
    /\ kind = "unsupported" => call.thread
    /\ call.socket # None => kind = "rejected"
    /\ IF call.attempt = 0 /\ Recoverable(kind)
         THEN /\ ws' = Detached(ws)
              /\ conv' = [Forgotten(conv) EXCEPT
                             !.recovery = TRUE,
                             !.disabled = IF kind = "unsupported" THEN conv.identity ELSE @]
              /\ call' = [NoCall EXCEPT !.phase = "preparing", !.q = call.q, !.attempt = 1,
                                        !.inferred = call.inferred + IF inferred THEN 1 ELSE 0]
         ELSE /\ ws' = IF call.socket = None THEN ws ELSE Cleared(ws, TRUE)
              /\ call' = NoCall
              /\ UNCHANGED conv
    /\ slot' = IF call.socket = None THEN Abandoned(ws, ws')
               ELSE AfterGeneration(ws', call.socket, TRUE)
    /\ UNCHANGED <<stream, known, query, calls>>

-----------------------------------------------------------------------------
(* Response streams.                                                       *)

\* How a response may end: completed, completed although the provider did not
\* store it, cut short, failed, or lost with its connection.
Endings(r) ==
    {[kind |-> k, output |-> o] :
        k \in {"completed"} \cup IF Stored(r.q) THEN {"unstored"} ELSE {},
        o \in IF r.prewarm THEN {<<>>} ELSE {<<i>> : i \in Outputs}}
    \cup {[kind |-> k, output |-> <<>>] :
        k \in {"incomplete", "failed"} \cup IF r.socket # None THEN {"lost"} ELSE {}}

\* Once everything below the conversation has heard of the end, all that is left
\* of it is whether the response may be remembered, and its output.
Reported(r, ending) ==
    [r EXCEPT !.stage = "observed", !.socket = None, !.cell = 0, !.body = None,
              !.ending = IF ending.kind = "completed" THEN ending ELSE None]

\* Observation::commit and invalidate: only the latest call may speak, and only
\* a complete, stored response is remembered.
Committed(c, n, observation, ending) ==
    IF observation = None \/ observation.epoch # c.epoch THEN c
    ELSE [c EXCEPT !.completed =
            IF ending = None THEN None
            ELSE [identity |-> observation.identity, items |-> observation.items,
                  rest |-> observation.rest, output |-> ending.output, id |-> n]]

\* The last frame of a stream is read, or the stream is lost or dropped: the
\* generation hands the socket back, or closes it, before anyone hears of it.
Release(n) ==
    LET r == stream[n]
    IN  /\ r # None
        /\ r.stage = "open"
        /\ \E ending \in Endings(r) :
              /\ r.socket # None /\ slot[r.socket] = "closed" => ending.kind = "lost"
              /\ known' = IF ending.kind \notin {"completed", "unstored"} THEN known
                          ELSE [known EXCEPT ![n] =
                                  [context |-> r.context \o ending.output, socket |-> r.socket,
                                   kept |-> ending.kind = "completed" /\ Stored(r.q),
                                   identity |-> r.q.identity, query |-> r.query,
                                   late |-> FALSE]]
              /\ slot' = IF r.socket = None THEN slot
                         ELSE AfterGeneration(ws, r.socket, ending.kind # "lost")
              /\ stream' = [stream EXCEPT ![n] =
                    IF r.socket # None THEN [r EXCEPT !.stage = "released", !.ending = ending]
                    ELSE Reported(r, ending)]
        /\ UNCHANGED <<ws, conv, call, query, calls>>

\* The same poll, or the drop, then tells the socket session: a lock of its own.
\* `late` records that the session has let go of the socket in between and still
\* listens to the stream.
Observe(n) ==
    LET r == stream[n]
    IN  /\ r # None
        /\ r.stage = "released"
        /\ ws' = Observed(ws, n, r, r.ending)
        /\ known' = IF known[n] = None THEN known
                    ELSE [known EXCEPT ![n].late = r.cell = ws.cell /\ r.socket # ws.socket]
        /\ stream' = [stream EXCEPT ![n] = Reported(r, r.ending)]
        /\ UNCHANGED <<slot, conv, call, query, calls>>

\* The caller takes the last event, which commits the conversation's observation,
\* or drops the stream before.
Commit(n) ==
    LET r == stream[n]
    IN  /\ r # None
        /\ r.stage = "observed"
        /\ conv' \in {conv, Committed(conv, n, r.observation, r.ending)}
        /\ stream' = [stream EXCEPT ![n] =
              [r EXCEPT !.stage = "closed", !.ending = None, !.observation = None]]
        /\ call' = IF call.phase = "collecting" /\ n = NextResponse - 1 THEN NoCall ELSE call
        /\ UNCHANGED <<ws, slot, known, query, calls>>

-----------------------------------------------------------------------------
(* The owner of the session.                                               *)

Operation ==
    /\ call.phase \in {"idle", "prepared"}
    /\ ~call.prewarm
    /\ calls < MaxCalls
    /\ calls' = calls + 1

\* reset
Reset ==
    /\ Operation
    /\ query' = query + 1
    /\ ws' = Detached(ws)
    /\ slot' = Abandoned(ws, ws')
    /\ conv' = Forgotten(conv)
    /\ UNCHANGED <<call, stream, known>>

\* close
Close ==
    /\ Operation
    /\ query' = query + 1
    /\ ws' = Detached(Detached(ws))
    /\ slot' = ClosedSlot(ws)
    /\ conv' = Forgotten(conv)
    /\ UNCHANGED <<call, stream, known>>

\* clear_history_preserving_transport
ClearHistory ==
    /\ Operation
    /\ query' = query + 1
    /\ ws' = ResetState(ws, ws.fallback)
    /\ conv' = [Forgotten(conv) EXCEPT !.recovery = FALSE, !.capability = None, !.identity = None]
    /\ UNCHANGED <<slot, call, stream, known>>

\* responses_transport_mut, then a prepared and dispatched prewarm request.
Prewarm(q) ==
    /\ Operation
    /\ Idle
    /\ q.stream
    /\ q.identity \in SocketRoutes
    /\ conv' = Handed(conv)
    /\ call' = [NoCall EXCEPT !.phase = "connecting", !.q = q, !.prewarm = TRUE, !.body = BodyOf(q)]
    /\ UNCHANGED <<ws, slot, stream, known, query>>

DispatchPrewarm ==
    /\ call.phase = "prepared"
    /\ call.prewarm
    /\ slot[call.socket] = "idle"
    /\ slot' = [slot EXCEPT ![call.socket] = "busy"]
    /\ call' = [call EXCEPT !.phase = "sent"]
    /\ UNCHANGED <<ws, conv, stream, known, query, calls>>

SocketIdleEnds ==
    /\ \E s \in Sockets : IdleEnds(s)
    /\ UNCHANGED <<conv, call, stream, known, query, calls>>

Next ==
    \/ \E q \in Requests : Begin(q) \/ Prewarm(q)
    \/ PrepareStateless \/ PrepareChain \/ PrepareFails
    \/ PrepareSocket \/ PrepareFallback \/ PrepareSocketFails
    \/ DispatchUnbound \/ Dispatch \/ DispatchPrewarm \/ DispatchFails \/ Infer
    \/ \E kind \in Replayable \cup {"failed"} : \E inferred \in BOOLEAN : TurnDown(kind, inferred)
    \/ \E n \in Responses : Release(n) \/ Observe(n) \/ Commit(n)
    \/ Reset \/ Close \/ ClearHistory \/ SocketIdleEnds

Spec == Init /\ [][Next]_vars

-----------------------------------------------------------------------------
(* Properties.                                                             *)

\* Every variable has its type.
TypeOK ==
    /\ ws \in Session
    /\ slot \in [Sockets -> {"unused", "idle", "busy", "closed"}]
    /\ conv \in State
    /\ call \in Call
    /\ stream \in [Responses -> Stream \cup {None}]
    /\ known \in [Responses -> Known \cup {None}]
    /\ query \in Nat
    /\ calls \in Nat

Sent == call.phase = "sent" /\ ~call.prewarm

\* The model answers exactly the history the caller passed, whatever was left
\* out of the request because an earlier response stands for it.
ContextIsTheHistory ==
    \A n \in Responses :
        stream[n] # None /\ stream[n].q.explicit = "no" => stream[n].context = stream[n].asked

\* A request refers only to a response of the same account and of the history
\* the caller has not cleared since ("Observers from a prior query cannot seed
\* the next query's state").
ReferencesOwnHistory ==
    Sent /\ call.body.prev \in Responses =>
        /\ known[call.body.prev] # None
        /\ known[call.body.prev].query = query
        /\ known[call.body.prev].identity = call.q.identity

\* A response the provider does not store is referred to only on the socket
\* that produced it, however calls, streams and closing sockets interleave ("the
\* continuation it carried is gone with it").  The one exception is a stream
\* that reports its end to a session which has lost the socket since the
\* generation handed it back, and kept listening.
UnstoredStaysOnItsSocket ==
    Sent /\ call.body.prev \in Responses =>
        \/ known[call.body.prev].kept
        \/ known[call.body.prev].socket = call.socket
        \/ known[call.body.prev].late

\* A new call leaves the generation of another stream alone, although it may
\* find it on the session's socket; only close interrupts.
OthersUninterrupted ==
    [][\A n \in Responses :
          stream[n] # None /\ stream[n].stage = "open" /\ stream[n].socket # None =>
              \/ slot'[stream[n].socket] = slot[stream[n].socket]
              \/ stream'[n].stage # "open"
              \/ Close]_vars

\* A call infers at most once: its one replay follows a rejection that came
\* before inference, never a failure that may have come after.
InferredOnce == call.inferred + (IF Sent THEN 1 ELSE 0) <= 1

\* The replay carries the whole history; no stream that ends meanwhile makes
\* it a continuation again.
ReplayIsFull == Sent /\ call.attempt = 1 /\ call.q.explicit = "no" => call.body.prev = None

\* "Explicit caller continuations are left intact" (prepare).
ExplicitLeftIntact == Sent /\ call.q.explicit # "no" => call.body = BodyOf(call.q)
=============================================================================
