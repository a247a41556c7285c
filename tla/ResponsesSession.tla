--------------------------- MODULE ResponsesSession ---------------------------
(***************************************************************************)
(* The WebSocket session of the Responses protocol: client/session.rs with *)
(* the continuation state of websocket.rs and the socket slots of          *)
(* transport/websocket.rs.                                                 *)
(*                                                                         *)
(* This module holds the state and the operators its owner composes; the   *)
(* owner is ConversationSession.  A body is what is sent: an optional      *)
(* previous id, the input items and everything else (`rest`).  `cell`      *)
(* numbers the Arc of the continuation state: a stream observes the cell   *)
(* it was dispatched with, so a newer cell is out of its reach.            *)
(***************************************************************************)
EXTENDS Naturals, Sequences

CONSTANTS
    Sockets,    \* numbers of the sockets that may be opened
    None

VARIABLES
    ws,     \* ResponsesSession: socket, identity, cell, last, healthy, fallback
            \* and last_wire_used_previous_response_id
    slot    \* slot[s]: the Slot of a socket that was opened

\* ResponsesSession::new
NewSession ==
    [socket |-> None, identity |-> None, cell |-> 0, last |-> None,
     healthy |-> TRUE, fallback |-> FALSE, used |-> FALSE]

-----------------------------------------------------------------------------
(* Continuation state.                                                     *)

\* reset_state: a new cell.
ResetState(w, fallback) ==
    [w EXCEPT !.cell = @ + 1, !.last = None, !.healthy = TRUE, !.fallback = fallback,
              !.used = FALSE]

\* Mutant: only the socket is let go, the last response is remembered.
DetachedSocket(w) == [w EXCEPT !.socket = None]

\* detach_connection
Detached(w) == [ResetState(w, w.fallback) EXCEPT !.socket = None]

\* reset_identity
WithoutIdentity(w) == [ResetState(w, FALSE) EXCEPT !.socket = None, !.identity = None]

\* clear_continuation
Cleared(w, unhealthy) == [w EXCEPT !.last = None, !.healthy = @ /\ ~unhealthy]

\* fail_to_http
FailedToHttp(w) == [Cleared(w, TRUE) EXCEPT !.socket = None, !.fallback = TRUE]

IsPrefixOf(s, t) == Len(s) <= Len(t) /\ SubSeq(t, 1, Len(s)) = s

\* Mutant: a response to a shortened request is taken for one to its full history.
ContinuesAny(last, body) ==
    /\ last # None
    /\ body.prev = None
    /\ last.body.rest = body.rest
    /\ IsPrefixOf(last.body.items \o last.output, body.items)

\* The conditions of incremental_responses_body: no explicit branch on either
\* side, the same body but for its input, and a replayed prefix.
ContinuesLast(last, body) ==
    /\ last # None
    /\ body.prev = None
    /\ last.body.prev = None
    /\ last.body.rest = body.rest
    /\ IsPrefixOf(last.body.items \o last.output, body.items)

\* incremental_responses_body, or the body itself.
Incremental(last, body) ==
    IF ~ContinuesLast(last, body) THEN body
    ELSE [body EXCEPT !.prev = last.id,
                      !.items = SubSeq(@, Len(last.body.items \o last.output) + 1, Len(@))]

\* observe_response_frame on a terminal frame of response n, or the drop of a
\* SessionObservation that saw none.
Observed(w, n, stream, ending) ==
    IF stream.cell # w.cell THEN w
    ELSE CASE ending.kind \in {"completed", "unstored"} ->
                 [w EXCEPT !.last = [id |-> n, body |-> stream.body, output |-> ending.output],
                           !.healthy = TRUE]
           [] ending.kind = "incomplete" -> Cleared(w, FALSE)
           [] OTHER -> Cleared(w, TRUE)

-----------------------------------------------------------------------------
(* Sockets.                                                                *)

Opened == {s \in Sockets : slot[s] # "unused"}

\* is_busy, is_closed; a socket nobody listens to any more is gone.
Busy(w) == w.socket # None /\ slot[w.socket] = "busy"
Closed(w) == w.socket # None /\ slot[w.socket] = "closed"

\* Mutant: a busy socket is shared.
LeftShared(w) == w

\* prepare_using leaves a busy socket to its own response.
LeftToOthers(w) == IF Busy(w) THEN Detached(w) ELSE w

\* prepare_using when the account, the connection or the transport changed.
Rebound(w, identity) ==
    IF w.identity = identity THEN w
    ELSE [WithoutIdentity(w) EXCEPT !.identity = identity]

\* Mutant: a new socket inherits what the closed one was asked.
Replaced(w) == IF Closed(w) \/ ~w.healthy THEN [w EXCEPT !.socket = None] ELSE w

\* prepare_using replaces a socket that was closed or spoiled.
Usable(w) ==
    LET v == IF Closed(w) THEN Detached(w) ELSE w
    IN  IF v.healthy THEN v ELSE [v EXCEPT !.socket = None]

\* Generation::finish hands a socket back to the connection it came from; any
\* other end closes the slot.  Of a dropped connection nothing is left.
AfterGeneration(w, s, terminal) ==
    [slot EXCEPT ![s] = IF terminal /\ w.socket = s THEN "idle" ELSE "closed"]

\* The sockets a step abandons: an idle one is dropped with its connection, a
\* busy one belongs to its generation.
Abandoned(w, v) ==
    IF w.socket = None \/ w.socket = v.socket \/ slot[w.socket] = "busy" THEN slot
    ELSE [slot EXCEPT ![w.socket] = "closed"]

\* The slots once prepare_using has let go of what it cannot use: the socket of
\* another identity is closed, whoever reads from it.
SlotsFor(identity) ==
    LET w == LeftToOthers(ws)
    IN  IF w.socket # None /\ w.identity # identity
          THEN [slot EXCEPT ![w.socket] = "closed"]
          ELSE Abandoned(w, Usable(w))

\* ResponsesConnection::close: an in-flight generation is cancelled too.
ClosedSlot(w) == IF w.socket = None THEN slot ELSE [slot EXCEPT ![w.socket] = "closed"]

\* IdleReader: the peer closes the socket, or it is older than MAX_CONNECTION_AGE.
IdleEnds(s) ==
    /\ slot[s] = "idle"
    /\ slot' = [slot EXCEPT ![s] = "closed"]
    /\ UNCHANGED ws
=============================================================================
