-------------------------- MODULE ConversationProofs --------------------------
(***************************************************************************)
(* What a conversation session guarantees for any number of calls, streams *)
(* and sockets, and for any histories.                                     *)
(*                                                                         *)
(* Two things stand for a part of the history: the completed response of   *)
(* the session (conv.completed) and the last response of its socket        *)
(* (ws.last).  Both are right when they are set, because the stream that   *)
(* sets them still has the epoch, or the cell, of the current history.     *)
(* The invariant says what an epoch and a cell identify, for the session,  *)
(* for the running call and for every stream that has yet to end.          *)
(***************************************************************************)
EXTENDS ConversationSession, TLAPS, FiniteSetTheorems, SequenceTheorems

USE ConversationAssumption

-----------------------------------------------------------------------------
(* The inductive invariant.                                                *)

Used(n) == stream[n] # None
Running(n) == Used(n) /\ stream[n].stage = "open"
OnSocket(n) == Running(n) /\ stream[n].socket # None

\* A stream the socket session has yet to hear of, and one whose conversation has.
Reporting(n) == Used(n) /\ stream[n].stage \in {"open", "released"} /\ stream[n].socket # None
Listening(n) == Used(n) /\ stream[n].stage # "closed" /\ stream[n].observation # None

\* The running call may still reach the provider.
Live ==
    \/ call.phase \in {"connecting", "sent"}
    \/ call.phase = "prepared" /\ (Bound \/ call.prewarm)

\* Responses are numbered as they come; what the provider makes of one is known
\* when it ends; two generations never share a socket.
StreamsInv ==
    /\ \E m \in 0 .. MaxResponses : \A n \in Responses : Used(n) <=> n <= m
    /\ \A n \in Responses : Running(n) \/ ~Used(n) => known[n] = None
    /\ \A n \in Responses : Reporting(n) =>
          /\ stream[n].body # None
          /\ stream[n].body.prev = None => stream[n].context = stream[n].body.items
    /\ \A m, n \in Responses :
          OnSocket(m) /\ OnSocket(n) /\ stream[m].socket = stream[n].socket => m = n

\* An end that nobody has heard of is known to the provider as what it will be
\* reported to be.
Good(ending) == ending # None /\ ending.kind \in {"completed", "unstored"}
Remembered(n, ending) ==
    /\ known[n] # None
    /\ known[n].context = stream[n].context \o ending.output
    /\ known[n].query = stream[n].query
    /\ known[n].identity = stream[n].q.identity
    /\ ending.kind = "completed" /\ Stored(stream[n].q) => known[n].kept
EndingInv ==
    \A n \in Responses : Used(n) =>
        /\ stream[n].stage = "released" =>
              /\ stream[n].socket # None
              /\ stream[n].ending # None
              /\ known[n] # None => known[n].socket = stream[n].socket /\ ~known[n].late
        /\ stream[n].stage \in {"released", "observed"} /\ Good(stream[n].ending) =>
              Remembered(n, stream[n].ending)
        /\ stream[n].stage = "observed" /\ stream[n].ending # None =>
              stream[n].ending.kind = "completed"

\* Sockets are numbered as they are opened, and one that generates is not idle.
SlotsInv ==
    /\ \E m \in 0 .. Cardinality(Sockets) : \A s \in Sockets : slot[s] # "unused" <=> s <= m
    /\ \A n \in Responses : OnSocket(n) => slot[stream[n].socket] \in {"busy", "closed"}
    /\ ws.socket # None => slot[ws.socket] # "unused"

\* What a call has in each of its phases.
CallInv ==
    /\ call.phase # "idle" => call.q # None
    /\ call.phase \in {"connecting", "prepared", "sent"} => call.body # None
    /\ call.phase \in {"preparing", "connecting"} => call.socket = None /\ call.full = None
    /\ call.phase = "preparing" => ~call.prewarm
    /\ call.phase \in {"preparing", "connecting", "prepared"} => call.observation = None
    /\ call.phase = "prepared" /\ call.prewarm => call.socket # None
    /\ call.socket # None => call.full # None
    /\ call.phase # "collecting" => call.inferred = 0
    /\ call.inferred <= 1

\* An observation speaks for a request that may be continued, in the history it saw.
Speaks(o, q) ==
    /\ o.identity = q.identity
    /\ o.items = q.items
    /\ q.explicit = "no"
    /\ Stored(q)

\* Epochs: an observer that is current belongs to the history that the caller
\* has not cleared.
EpochInv ==
    \A n \in Responses : Listening(n) =>
        /\ Speaks(stream[n].observation, stream[n].q)
        /\ stream[n].context = stream[n].observation.items
        /\ stream[n].observation.epoch <= conv.epoch
        /\ stream[n].observation.epoch = conv.epoch => stream[n].query = query

\* The observation of the running call is about its request.
PendingInv ==
    /\ conv.pending # None /\ call.phase \in {"connecting", "prepared"} =>
          Speaks(conv.pending, call.q) /\ conv.pending.epoch <= conv.epoch
    /\ call.observation # None /\ call.phase = "sent" =>
          Speaks(call.observation, call.q) /\ call.observation.epoch <= conv.epoch

\* No stream will report to the cell of w.
Quiet(w) == \A n \in Responses : OnSocket(n) => stream[n].cell # w.cell

\* Cells: a stream that may still set the last response belongs to the account
\* and the history of the session, and to its socket while it generates.
CellsFit(w) ==
    \A n \in Responses : Reporting(n) =>
        /\ stream[n].cell <= w.cell
        /\ stream[n].cell = w.cell =>
              /\ stream[n].stage = "open" => w.socket = stream[n].socket
              /\ stream[n].query = query
              /\ w.identity # None
              /\ w.identity[1] = stream[n].q.identity

\* The last response of the session is one the provider will find on its socket,
\* unless the provider keeps it or the session heard of it too late.
Found(id, socket) ==
    known[id].kept \/ known[id].late \/ (socket # None /\ known[id].socket = socket)
LastFits(w) ==
    w.last # None =>
        /\ w.healthy
        /\ known[w.last.id] # None
        /\ Found(w.last.id, w.socket)
        /\ known[w.last.id].query = query
        /\ w.identity # None
        /\ known[w.last.id].identity = w.identity[1]
        /\ w.last.body.prev = None =>
              known[w.last.id].context = w.last.body.items \o w.last.output

SessionInv == CellsFit(ws) /\ LastFits(ws)

\* The completed response of the conversation is one the provider keeps.
CompletedInv ==
    conv.completed # None =>
        /\ known[conv.completed.id] # None
        /\ known[conv.completed.id].kept
        /\ known[conv.completed.id].query = query
        /\ known[conv.completed.id].identity = conv.completed.identity
        /\ known[conv.completed.id].context = conv.completed.items \o conv.completed.output

\* A call on a socket has the session's, and has it for itself.
CallSocketInv ==
    Live /\ call.socket # None =>
        /\ ws.socket = call.socket
        /\ ws.identity = Endpoint(call.q)
        /\ call.phase = "sent" => slot[call.socket] = "busy"
        /\ \A n \in Responses : OnSocket(n) => stream[n].socket # call.socket

\* The reference of a body is to a response the provider will find.
Refers(body, q, socket) ==
    body.prev \in Responses =>
        /\ known[body.prev] # None
        /\ known[body.prev].query = query
        /\ known[body.prev].identity = q.identity
        /\ Found(body.prev, socket)

\* A body stands for a whole history.
StandsFor(body, items) == body.prev # Explicit /\ Context(body) = items

\* The wire body of a call stands for the history the caller passed and for the
\* body the session compares the next request with.
BodyInv ==
    Live =>
        /\ Refers(call.body, call.q, call.socket)
        /\ call.q.explicit = "no" => StandsFor(call.body, call.q.items)
        /\ call.full # None /\ call.full.prev = None => StandsFor(call.body, call.full.items)

\* Nothing that ended, and no stream that has yet to end, is a continuation.
NewHistory ==
    /\ conv.completed = None
    /\ \A n \in Responses : Listening(n) =>
          stream[n].observation.epoch < conv.epoch
NewCell(w) ==
    /\ w.last = None
    /\ \A n \in Responses : Reporting(n) => stream[n].cell < w.cell

\* While a rejected call is replayed nothing makes it a continuation again.
ReplayInv ==
    call.attempt = 1 /\ call.phase \in {"preparing", "connecting", "prepared", "sent"} =>
        /\ NewHistory
        /\ NewCell(ws)
        /\ call.phase # "preparing" /\ call.q.explicit = "no" => call.body.prev = None

ConversationInv ==
    /\ TypeOK
    /\ StreamsInv
    /\ EndingInv
    /\ SlotsInv
    /\ CallInv
    /\ EpochInv
    /\ PendingInv
    /\ SessionInv
    /\ CompletedInv
    /\ CallSocketInv
    /\ BodyInv
    /\ ReplayInv
    /\ ContextIsTheHistory

-----------------------------------------------------------------------------
(* Histories.                                                              *)

\* A prefix and the rest after it make the whole again.
LEMMA PrefixAndRest ==
    ASSUME NEW S, NEW p \in Seq(S), NEW t \in Seq(S), IsPrefixOf(p, t)
    PROVE  /\ SubSeq(t, Len(p) + 1, Len(t)) \in Seq(S)
           /\ p \o SubSeq(t, Len(p) + 1, Len(t)) = t
<1> DEFINE r == SubSeq(t, Len(p) + 1, Len(t))
<1>1. Len(p) \in Nat /\ Len(t) \in Nat /\ Len(p) <= Len(t)
  BY LenProperties DEF IsPrefixOf
<1>2. /\ r \in Seq(S)
      /\ Len(r) = Len(t) - Len(p)
      /\ \A i \in 1 .. Len(r) : r[i] = t[Len(p) + i]
  <2>1. r = [i \in 1 .. Len(t) - Len(p) |-> t[i + Len(p)]]
    BY <1>1
  <2> QED
    BY <2>1, <1>1
<1>3. \A i \in 1 .. Len(p) : p[i] = t[i]
  <2>1. SubSeq(t, 1, Len(p)) = p
    BY DEF IsPrefixOf
  <2>2. \A i \in 1 .. Len(p) : SubSeq(t, 1, Len(p))[i] = t[i]
    BY <1>1
  <2> QED
    BY <2>1, <2>2
<1> HIDE DEF r
<1>4. /\ p \o r \in Seq(S)
      /\ Len(p \o r) = Len(p) + Len(r)
      /\ \A i \in 1 .. Len(p) : (p \o r)[i] = p[i]
      /\ \A i \in Len(p) + 1 .. Len(p) + Len(r) : (p \o r)[i] = r[i - Len(p)]
  BY <1>1, <1>2, ConcatProperties
<1>5. Len(p \o r) = Len(t)
  BY <1>1, <1>2, <1>4
<1>6. \A i \in 1 .. Len(t) : (p \o r)[i] = t[i]
  BY <1>1, <1>2, <1>3, <1>4
<1>7. p \o r = t
  BY <1>4, <1>5, <1>6, SeqEqual
<1> QED
  BY <1>2, <1>7 DEF r

-----------------------------------------------------------------------------
(* The socket session.                                                     *)

\* reset_state starts a new cell.
LEMMA Resetting ==
    ASSUME NEW w \in Session, NEW fallback \in BOOLEAN
    PROVE  /\ ResetState(w, fallback) \in Session
           /\ ResetState(w, fallback).socket = w.socket
           /\ ResetState(w, fallback).identity = w.identity
           /\ ResetState(w, fallback).cell = w.cell + 1
           /\ ResetState(w, fallback).last = None
           /\ ResetState(w, fallback).healthy
<1>1. /\ w.cell + 1 \in Nat
      /\ w.cell \in Nat
  BY DEF Session
<1>2. ResetState(w, fallback) \in Session
  BY <1>1 DEF ResetState, Session
<1>3. /\ ResetState(w, fallback).socket = w.socket
      /\ ResetState(w, fallback).identity = w.identity
      /\ ResetState(w, fallback).cell = w.cell + 1
      /\ ResetState(w, fallback).last = None
  BY DEF ResetState, Session
<1>4. ResetState(w, fallback).healthy
  BY DEF ResetState, Session
<1> QED
  BY <1>2, <1>3, <1>4

\* detach_connection starts a new cell without a socket.
LEMMA Detaching ==
    ASSUME NEW w \in Session
    PROVE  /\ Detached(w) \in Session
           /\ Detached(w).socket = None
           /\ Detached(w).identity = w.identity
           /\ Detached(w).cell = w.cell + 1
           /\ Detached(w).last = None
           /\ Detached(w).healthy
<1>1. w.fallback \in BOOLEAN
  BY DEF Session
<1> DEFINE v == ResetState(w, w.fallback)
<1>2. /\ v \in Session
      /\ v.identity = w.identity
      /\ v.cell = w.cell + 1
      /\ v.last = None
      /\ v.healthy
  BY <1>1, Resetting
<1>3. Detached(w) = [v EXCEPT !.socket = None]
  BY DEF Detached
<1> HIDE DEF v
<1> QED
  BY <1>2, <1>3 DEF Session

\* reset_identity starts a new cell without a socket and an account.
LEMMA LeavingIdentity ==
    ASSUME NEW w \in Session
    PROVE  /\ WithoutIdentity(w) \in Session
           /\ WithoutIdentity(w).socket = None
           /\ WithoutIdentity(w).cell = w.cell + 1
           /\ WithoutIdentity(w).last = None
           /\ WithoutIdentity(w).healthy
<1> DEFINE v == ResetState(w, FALSE)
<1>2. /\ v \in Session
      /\ v.cell = w.cell + 1
      /\ v.last = None
      /\ v.healthy
  BY Resetting
<1>3. WithoutIdentity(w) = [v EXCEPT !.socket = None, !.identity = None]
  BY DEF WithoutIdentity
<1> HIDE DEF v
<1> QED
  BY <1>2, <1>3 DEF Session

\* clear_continuation forgets the last response.
LEMMA Clearing ==
    ASSUME NEW w \in Session, NEW unhealthy \in BOOLEAN
    PROVE  /\ Cleared(w, unhealthy) \in Session
           /\ Cleared(w, unhealthy).socket = w.socket
           /\ Cleared(w, unhealthy).identity = w.identity
           /\ Cleared(w, unhealthy).cell = w.cell
           /\ Cleared(w, unhealthy).last = None
           /\ ~unhealthy => Cleared(w, unhealthy).healthy = w.healthy
  BY DEF Cleared, Session

\* A session that starts a new cell fits whatever is still running.
LEMMA NewCellFits ==
    ASSUME NEW w \in Session, NEW v \in Session, TypeOK, CellsFit(w), v.cell > w.cell, v.last = None
    PROVE  CellsFit(v) /\ LastFits(v) /\ NewCell(v)
<1>1. ASSUME NEW n \in Responses, Reporting(n)
      PROVE  stream[n].cell < v.cell /\ stream[n].cell # v.cell /\ stream[n].cell <= v.cell
  <2>1. stream[n].cell \in Nat
    BY <1>1 DEF TypeOK, Stream, Reporting, Used
  <2>2. stream[n].cell <= w.cell
    BY <1>1 DEF CellsFit
  <2>3. w.cell \in Nat /\ v.cell \in Nat
    BY DEF Session
  <2> QED
    BY <2>1, <2>2, <2>3
<1> QED
  BY <1>1 DEF CellsFit, LastFits, NewCell

\* A session that only forgets, with nobody to report to it, fits as well.
LEMMA QuietFits ==
    ASSUME NEW w, NEW v, CellsFit(w), Quiet(w), v.cell = w.cell, v.identity = w.identity,
           v.last = None
    PROVE  /\ CellsFit(v) /\ LastFits(v)
           /\ NewCell(w) => NewCell(v)
  BY DEF CellsFit, LastFits, Quiet, NewCell, Reporting, OnSocket, Running

\* A session without a socket may be given a new one.
LEMMA Opening ==
    ASSUME NEW w, NEW v, CellsFit(w), LastFits(w), w.socket = None, v.cell = w.cell,
           v.identity = w.identity, v.last = w.last, v.healthy
    PROVE  /\ CellsFit(v) /\ LastFits(v)
           /\ NewCell(w) => NewCell(v)
  BY DEF CellsFit, LastFits, Found, NewCell, Reporting

\* What a preparation may make of the session: a session that fits what is still
\* running, at worst one without a socket.
Prepares(w, v) ==
    /\ v \in Session
    /\ CellsFit(v)
    /\ LastFits(v)
    /\ NewCell(w) => NewCell(v)
    /\ v.socket = None \/ v.socket = w.socket

\* detach_connection and reset_identity are such preparations.
LEMMA RenewedPrepares ==
    ASSUME TypeOK, NEW w \in Session, NEW v \in Session, CellsFit(w), v.cell = w.cell + 1,
           v.last = None, v.socket = None \/ v.socket = w.socket
    PROVE  Prepares(w, v) /\ NewCell(v)
<1>1. v.cell > w.cell
  BY DEF Session
<1> QED
  BY <1>1, NewCellFits DEF Prepares

\* A busy socket is left to its own response.
LEMMA Leaving ==
    ASSUME TypeOK, NEW w \in Session, CellsFit(w), LastFits(w)
    PROVE  /\ Prepares(w, LeftToOthers(w))
           /\ LeftToOthers(w).socket # None => LeftToOthers(w) = w /\ slot[w.socket] # "busy"
<1>1. CASE Busy(w)
  <2>1. LeftToOthers(w) = Detached(w)
    BY <1>1 DEF LeftToOthers
  <2> QED
    BY <2>1, Detaching, RenewedPrepares
<1>2. CASE ~Busy(w)
  <2>1. LeftToOthers(w) = w
    BY <1>2 DEF LeftToOthers
  <2> QED
    BY <2>1, <1>2 DEF Prepares, Busy
<1> QED
  BY <1>1, <1>2

\* A session of another endpoint is not taken over.
LEMMA Rebinding ==
    ASSUME TypeOK, NEW w \in Session, CellsFit(w), LastFits(w), NEW i \in Identities \X Transports
    PROVE  /\ Prepares(w, Rebound(w, i))
           /\ Rebound(w, i).identity = i
           /\ Rebound(w, i).socket # None => Rebound(w, i) = w
<1>1. CASE w.identity = i
  <2>1. Rebound(w, i) = w
    BY <1>1 DEF Rebound
  <2> QED
    BY <2>1, <1>1 DEF Prepares
<1>2. CASE w.identity # i
  <2> DEFINE v == WithoutIdentity(w)
  <2>1. /\ v \in Session /\ v.socket = None /\ v.cell = w.cell + 1 /\ v.last = None
    BY LeavingIdentity
  <2>2. Rebound(w, i) = [v EXCEPT !.identity = i]
    BY <1>2 DEF Rebound
  <2> HIDE DEF v
  <2>3. /\ Rebound(w, i) \in Session
        /\ Rebound(w, i).identity = i
        /\ Rebound(w, i).socket = None
        /\ Rebound(w, i).cell = w.cell + 1
        /\ Rebound(w, i).last = None
    BY <2>1, <2>2 DEF Session
  <2> QED
    BY <2>3, RenewedPrepares
<1> QED
  BY <1>1, <1>2

\* A socket that was closed or spoiled is replaced.
LEMMA Replacing ==
    ASSUME TypeOK, SlotsInv, NEW w \in Session, CellsFit(w), LastFits(w),
           w.socket # None => slot[w.socket] # "busy"
    PROVE  /\ Prepares(w, Usable(w))
           /\ Usable(w).identity = w.identity
           /\ Usable(w).socket # None =>
                 Usable(w) = w /\ w.healthy /\ slot[w.socket] # "closed"
           /\ Usable(w).socket = None => Quiet(Usable(w))
<1>1. CASE Closed(w)
  <2> DEFINE v == Detached(w)
  <2>1. /\ v \in Session /\ v.socket = None /\ v.identity = w.identity
        /\ v.cell = w.cell + 1 /\ v.last = None /\ v.healthy
    BY Detaching
  <2>2. Usable(w) = v
    BY <1>1, <2>1 DEF Usable
  <2> HIDE DEF v
  <2>3. Prepares(w, v) /\ NewCell(v)
    BY <2>1, RenewedPrepares
  <2>4. Quiet(v)
    <3> SUFFICES ASSUME NEW n \in Responses, OnSocket(n) PROVE stream[n].cell # v.cell
      BY DEF Quiet
    <3>1. stream[n].cell \in Nat /\ v.cell \in Nat
      BY <2>1 DEF TypeOK, Stream, OnSocket, Running, Used, Session
    <3>2. stream[n].cell < v.cell
      BY <2>3 DEF NewCell, Reporting, OnSocket, Running
    <3> QED
      BY <3>1, <3>2
  <2> QED
    BY <2>1, <2>2, <2>3, <2>4
<1>2. CASE ~Closed(w) /\ w.healthy
  <2>1. Usable(w) = w
    BY <1>2 DEF Usable
  <2>2. w.socket = None => Quiet(w)
    BY DEF CellsFit, Quiet, Reporting, OnSocket, Running
  <2> QED
    BY <2>1, <2>2, <1>2 DEF Prepares, Closed
<1>3. CASE ~Closed(w) /\ ~w.healthy
  <2>1. Usable(w) = [w EXCEPT !.socket = None]
    BY <1>3 DEF Usable
  <2>2. w.last = None /\ Quiet(w)
    <3>1. w.last = None
      BY <1>3 DEF LastFits
    <3>2. ASSUME NEW n \in Responses, OnSocket(n), stream[n].cell = w.cell PROVE FALSE
      <4>1. w.socket = stream[n].socket /\ w.socket # None
        BY <3>2 DEF CellsFit, Reporting, OnSocket, Running
      <4>2. slot[stream[n].socket] \in {"busy", "closed"}
        BY <3>2 DEF SlotsInv
      <4> QED
        BY <4>1, <4>2, <1>3 DEF Closed
    <3> QED
      BY <3>1, <3>2 DEF Quiet
  <2>3. /\ Usable(w) \in Session
        /\ Usable(w).socket = None
        /\ Usable(w).identity = w.identity
        /\ Usable(w).cell = w.cell
        /\ Usable(w).last = w.last
    BY <2>1 DEF Session
  <2>4. Quiet(Usable(w))
    BY <2>2, <2>3 DEF Quiet
  <2> QED
    BY <2>2, <2>3, <2>4, QuietFits DEF Prepares
<1> QED
  BY <1>1, <1>2, <1>3

\* prepare_using before it connects.
LEMMA Reaching ==
    ASSUME TypeOK, SlotsInv, SessionInv, NEW q \in Requests
    PROVE  /\ Endpoint(q) \in Identities \X Transports
           /\ Prepares(ws, LeftToOthers(ws))
           /\ Prepares(ws, Reachable(q))
           /\ Prepares(ws, Usable(Reachable(q)))
           /\ Reachable(q).identity = Endpoint(q)
           /\ Usable(Reachable(q)).identity = Endpoint(q)
           /\ Usable(Reachable(q)).socket # None =>
                 /\ Usable(Reachable(q)) = ws
                 /\ ws.healthy
                 /\ slot[ws.socket] \notin {"busy", "closed"}
           /\ Usable(Reachable(q)).socket = None => Quiet(Usable(Reachable(q)))
<1> DEFINE l == LeftToOthers(ws)
           r == Rebound(l, Endpoint(q))
           u == Usable(r)
<1>1. q.identity \in Identities /\ q.transport \in Transports
  BY DEF Identities, Transports
<1>2. Endpoint(q) \in Identities \X Transports
  BY <1>1 DEF Endpoint
<1>3. /\ ws \in Session
      /\ Prepares(ws, l)
      /\ l.socket # None => l = ws /\ slot[ws.socket] # "busy"
  BY Leaving DEF TypeOK, SessionInv
<1> HIDE DEF l
<1>4. /\ Prepares(l, r)
      /\ r.identity = Endpoint(q)
      /\ r.socket # None => r = l
  BY <1>2, <1>3, Rebinding DEF Prepares
<1> HIDE DEF r
<1>5. /\ Prepares(r, u)
      /\ u.identity = r.identity
      /\ u.socket # None => u = r /\ r.healthy /\ slot[r.socket] # "closed"
      /\ u.socket = None => Quiet(u)
  BY <1>3, <1>4, Replacing DEF Prepares
<1> HIDE DEF u
<1>6. Prepares(ws, r)
  BY <1>3, <1>4 DEF Prepares
<1>7. Prepares(ws, u)
  BY <1>5, <1>6 DEF Prepares
<1>8. u.socket # None => u = ws /\ ws.healthy /\ slot[ws.socket] \notin {"busy", "closed"}
  BY <1>3, <1>4, <1>5
<1>9. Reachable(q) = r /\ Usable(Reachable(q)) = u /\ l = LeftToOthers(ws)
  BY DEF Reachable, r, u, l
<1> QED
  BY <1>2, <1>3, <1>4, <1>5, <1>6, <1>7, <1>8, <1>9

-----------------------------------------------------------------------------
(* The slots.                                                              *)

Slots == [Sockets -> {"unused", "idle", "busy", "closed"}]

\* At most idle sockets are closed.
Gentle(t) ==
    /\ t \in Slots
    /\ \A s \in Sockets : t[s] # "unused" <=> slot[s] # "unused"
    /\ \A s \in Sockets : slot[s] \in {"busy", "closed"} => t[s] = slot[s]

\* Closing an open socket that is not busy is gentle.
LEMMA ClosingIdle ==
    ASSUME TypeOK, NEW s \in Sockets, slot[s] \notin {"unused", "busy"}
    PROVE  Gentle([slot EXCEPT ![s] = "closed"])
  BY DEF TypeOK, Gentle, Slots

\* What a step abandons was idle.
LEMMA Abandoning ==
    ASSUME TypeOK, NEW w, NEW v, w.socket \in Sockets \cup {None},
           w.socket # None => slot[w.socket] # "unused"
    PROVE  Gentle(Abandoned(w, v))
<1>1. CASE w.socket = None \/ w.socket = v.socket \/ slot[w.socket] = "busy"
  <2>1. Abandoned(w, v) = slot
    BY <1>1 DEF Abandoned
  <2> QED
    BY <2>1 DEF Gentle, Slots, TypeOK
<1>2. CASE ~(w.socket = None \/ w.socket = v.socket \/ slot[w.socket] = "busy")
  <2>1. Abandoned(w, v) = [slot EXCEPT ![w.socket] = "closed"]
    BY <1>2 DEF Abandoned
  <2> QED
    BY <2>1, <1>2, ClosingIdle
<1> QED
  BY <1>1, <1>2

\* prepare_using closes no socket that generates.
LEMMA LettingGo ==
    ASSUME TypeOK, SlotsInv, SessionInv, NEW i
    PROVE  Gentle(SlotsFor(i))
<1> DEFINE w == LeftToOthers(ws)
<1>1. /\ w \in Session
      /\ w.socket # None => w = ws /\ slot[ws.socket] # "busy"
  BY Leaving DEF TypeOK, SessionInv, Prepares
<1>2. SlotsFor(i) = IF w.socket # None /\ w.identity # i
                      THEN [slot EXCEPT ![w.socket] = "closed"]
                      ELSE Abandoned(w, Usable(w))
  BY DEF SlotsFor
<1> HIDE DEF w
<1>3. w.socket \in Sockets \cup {None}
  BY <1>1 DEF Session
<1>4. w.socket # None => slot[w.socket] \notin {"unused", "busy"}
  BY <1>1 DEF SlotsInv
<1>5. Gentle(Abandoned(w, Usable(w)))
  BY <1>3, <1>4, Abandoning
<1>6. w.socket # None => Gentle([slot EXCEPT ![w.socket] = "closed"])
  BY <1>3, <1>4, ClosingIdle
<1> QED
  BY <1>2, <1>5, <1>6

-----------------------------------------------------------------------------
(* What most steps leave alone.                                            *)

\* The sockets that generate are left alone.
Undisturbed ==
    \A n \in Responses : OnSocket(n) => slot'[stream[n].socket] = slot[stream[n].socket]

\* The conversation forgets, if anything.
Forgets(c, d) ==
    /\ d \in State
    /\ d.epoch >= c.epoch
    /\ d.completed = c.completed \/ d.completed = None

\* A step that starts and ends no stream, and forgets at most, keeps what is
\* said of streams and of what the session remembers.
LEMMA Frame ==
    ASSUME ConversationInv, UNCHANGED <<stream, known, query>>,
           CellsFit(ws'), LastFits(ws'), Forgets(conv, conv')
    PROVE  /\ StreamsInv' /\ EndingInv' /\ EpochInv' /\ SessionInv' /\ CompletedInv'
           /\ ContextIsTheHistory'
           /\ NewHistory => NewHistory'
           /\ NewCell(ws') => NewCell(ws)'
<1> USE DEF ConversationInv
<1>1. StreamsInv' /\ EndingInv'
  BY DEF StreamsInv, EndingInv, Good, Remembered, Stored, OnSocket, Running, Reporting, Used
<1>2. \A n \in Responses : Listening(n) => stream[n].observation.epoch \in Nat
  BY DEF TypeOK, Stream, Observation, Listening, Used
<1>3. conv.epoch \in Nat /\ conv'.epoch \in Nat /\ conv'.epoch >= conv.epoch
  BY DEF TypeOK, Forgets, State
<1>4. EpochInv'
  <2> SUFFICES ASSUME NEW n \in Responses, Listening(n)
               PROVE  /\ Speaks(stream[n].observation, stream[n].q)
                      /\ stream[n].context = stream[n].observation.items
                      /\ stream[n].observation.epoch <= conv'.epoch
                      /\ stream[n].observation.epoch = conv'.epoch => stream[n].query = query
    BY DEF EpochInv, Listening, Used, Speaks, Stored
  <2> DEFINE e == stream[n].observation.epoch
  <2>1. /\ Speaks(stream[n].observation, stream[n].q)
        /\ stream[n].context = stream[n].observation.items
        /\ e <= conv.epoch
        /\ e = conv.epoch => stream[n].query = query
    BY DEF EpochInv
  <2>2. e \in Nat
    BY <1>2
  <2> HIDE DEF e
  <2>3. e <= conv'.epoch /\ (e = conv'.epoch => e = conv.epoch)
    BY <2>1, <2>2, <1>3
  <2> QED
    BY <2>1, <2>3 DEF e
<1>5. SessionInv'
  BY DEF SessionInv, CellsFit, LastFits, Found, Reporting, Used
<1>6. CompletedInv'
  BY DEF CompletedInv, Forgets
<1>7. ContextIsTheHistory'
  BY DEF ContextIsTheHistory
<1>8. NewHistory => NewHistory'
  <2> SUFFICES ASSUME NewHistory PROVE NewHistory'
    OBVIOUS
  <2>1. conv'.completed = None
    BY DEF NewHistory, Forgets
  <2>2. ASSUME NEW n \in Responses, Listening(n)
        PROVE  stream[n].observation.epoch < conv'.epoch
    <3>1. stream[n].observation.epoch < conv.epoch
      BY <2>2 DEF NewHistory
    <3>2. stream[n].observation.epoch \in Nat
      BY <2>2, <1>2
    <3> QED
      BY <3>1, <3>2, <1>3
  <2> QED
    BY <2>1, <2>2 DEF NewHistory, Listening, Used
<1>9. NewCell(ws') => NewCell(ws)'
  BY DEF NewCell, Reporting, Used
<1> QED
  BY <1>1, <1>4, <1>5, <1>6, <1>7, <1>8, <1>9

\* A step that is gentle to the slots keeps what is said of them.
LEMMA SlotFrame ==
    ASSUME ConversationInv, UNCHANGED stream, Gentle(slot'),
           ws'.socket \in Sockets \cup {None}, ws'.socket # None => slot[ws'.socket] # "unused"
    PROVE  SlotsInv' /\ Undisturbed
<1> USE DEF ConversationInv
<1>0. \A n \in Responses : OnSocket(n) => stream[n].socket \in Sockets
  BY DEF TypeOK, Stream, OnSocket, Running, Used
<1>1. Undisturbed
  BY <1>0 DEF Undisturbed, Gentle, SlotsInv
<1>2. \E m \in 0 .. Cardinality(Sockets) : \A s \in Sockets : slot'[s] # "unused" <=> s <= m
  <2>1. PICK m \in 0 .. Cardinality(Sockets) : \A s \in Sockets : slot[s] # "unused" <=> s <= m
    BY DEF SlotsInv
  <2>2. \A s \in Sockets : slot'[s] # "unused" <=> s <= m
    BY <2>1 DEF Gentle
  <2> QED
    BY <2>2
<1>3. \A n \in Responses : OnSocket(n) => slot'[stream[n].socket] \in {"busy", "closed"}
  BY <1>1 DEF Undisturbed, SlotsInv
<1>4. ws'.socket # None => slot'[ws'.socket] # "unused"
  BY DEF Gentle
<1> QED
  BY <1>1, <1>2, <1>3, <1>4 DEF SlotsInv, OnSocket, Running, Used

\* clear_history
LEMMA Forgetting ==
    ASSUME NEW c \in State
    PROVE  /\ Forgets(c, Forgotten(c))
           /\ Forgotten(c).epoch = c.epoch + 1
           /\ Forgotten(c).completed = None
           /\ Forgotten(c).pending = None
           /\ ~Forgotten(c).binding
<1>0. c.epoch \in Nat /\ c.epoch + 1 \in Nat
  BY DEF State
<1>1. Forgotten(c) \in State
  BY <1>0 DEF Forgotten, State
<1>2. Forgotten(c).epoch = c.epoch + 1 /\ Forgotten(c).completed = None /\ Forgotten(c).pending = None
  BY DEF Forgotten, State
<1>3. ~Forgotten(c).binding
  BY DEF Forgotten, State
<1>4. c.epoch + 1 >= c.epoch
  BY DEF State
<1> QED
  BY <1>1, <1>2, <1>3, <1>4 DEF Forgets

\* A conversation that forgot in a new epoch hears of no stream any more.
LEMMA NewEpoch ==
    ASSUME TypeOK, EpochInv, NEW d \in State, d.epoch > conv.epoch
    PROVE  \A n \in Responses : Listening(n) => stream[n].observation.epoch < d.epoch
<1> SUFFICES ASSUME NEW n \in Responses, Listening(n)
             PROVE  stream[n].observation.epoch < d.epoch
  OBVIOUS
<1>1. stream[n].observation.epoch \in Nat /\ conv.epoch \in Nat /\ d.epoch \in Nat
  BY DEF TypeOK, Stream, Observation, Listening, Used, State
<1>2. stream[n].observation.epoch <= conv.epoch
  BY DEF EpochInv
<1> QED
  BY <1>1, <1>2

\* prepare, up to its own await.
LEMMA Freshening ==
    ASSUME TypeOK, SessionInv, NEW q \in Requests
    PROVE  /\ Forgets(conv, Fresh(q))
           /\ Fresh(q).pending = None
           /\ ~Fresh(q).binding
           /\ Prepares(ws, SocketFresh(q))
<1> DEFINE c == [conv EXCEPT !.binding = FALSE, !.pending = None]
<1>1. q.transport \in Transports
  BY DEF Transports
<1>2. conv \in State /\ ws \in Session
  BY DEF TypeOK
<1>3. c \in State /\ c.epoch = conv.epoch /\ c.completed = conv.completed /\ c.pending = None
  BY <1>2 DEF State
<1>4. ~c.binding
  BY <1>2 DEF State
<1>5. Fresh(q) = IF conv.transport \notin {None, q.transport}
                   THEN [Forgotten(c) EXCEPT !.transport = q.transport]
                   ELSE [c EXCEPT !.transport = q.transport]
  BY DEF Fresh
<1>6. conv.epoch \in Nat /\ conv.epoch >= conv.epoch /\ conv.epoch + 1 >= conv.epoch
  BY <1>2 DEF State
<1> HIDE DEF c
<1>7. ASSUME NEW d \in State
      PROVE  LET e == [d EXCEPT !.transport = q.transport]
             IN  /\ e \in State /\ e.epoch = d.epoch /\ e.completed = d.completed
                 /\ e.pending = d.pending /\ e.binding = d.binding
  BY <1>1 DEF State
<1>8. CASE conv.transport \notin {None, q.transport}
  <2> DEFINE d == Forgotten(c)
             e == [d EXCEPT !.transport = q.transport]
  <2>1. d \in State /\ d.epoch = conv.epoch + 1 /\ d.completed = None /\ d.pending = None /\ ~d.binding
    BY <1>3, Forgetting DEF Forgets
  <2>2. Fresh(q) = e
    BY <1>5, <1>8
  <2> HIDE DEF d
  <2>3. e \in State /\ e.epoch = d.epoch /\ e.completed = d.completed
        /\ e.pending = d.pending /\ e.binding = d.binding
    BY <2>1, <1>7
  <2>4. SocketFresh(q) = Detached(ws)
    BY <1>8 DEF SocketFresh
  <2>5. Prepares(ws, Detached(ws))
    BY <1>2, Detaching, RenewedPrepares DEF SessionInv
  <2> HIDE DEF e
  <2> QED
    BY <2>1, <2>2, <2>3, <2>4, <2>5, <1>6 DEF Forgets
<1>9. CASE ~(conv.transport \notin {None, q.transport})
  <2> DEFINE e == [c EXCEPT !.transport = q.transport]
  <2>1. Fresh(q) = e
    BY <1>5, <1>9
  <2>2. e \in State /\ e.epoch = c.epoch /\ e.completed = c.completed
        /\ e.pending = c.pending /\ e.binding = c.binding
    BY <1>3, <1>7
  <2>3. SocketFresh(q) = ws
    BY <1>9 DEF SocketFresh
  <2>4. Prepares(ws, ws)
    BY <1>2 DEF Prepares, SessionInv
  <2> HIDE DEF e
  <2> QED
    BY <2>1, <2>2, <2>3, <2>4, <1>3, <1>4, <1>6 DEF Forgets
<1> QED
  BY <1>8, <1>9

-----------------------------------------------------------------------------
(* Preparation.                                                            *)

\* What a step has to show for the running call.
CallPart == CallInv /\ PendingInv /\ CallSocketInv /\ BodyInv /\ ReplayInv

\* A step that forgets at most, and is gentle to the slots, has to show only
\* what is said of the running call.
LEMMA Combine ==
    ASSUME ConversationInv, TypeOK', UNCHANGED <<stream, known, query>>,
           CellsFit(ws'), LastFits(ws'), Forgets(conv, conv'), Gentle(slot'),
           ws'.socket # None => slot[ws'.socket] # "unused",
           CallPart'
    PROVE  ConversationInv' /\ Undisturbed
<1>1. ws'.socket \in Sockets \cup {None}
  BY DEF TypeOK, Session
<1>2. SlotsInv' /\ Undisturbed
  BY <1>1, SlotFrame
<1>3. /\ StreamsInv' /\ EndingInv' /\ EpochInv' /\ SessionInv' /\ CompletedInv'
      /\ ContextIsTheHistory'
  BY Frame
<1> QED
  BY <1>2, <1>3 DEF ConversationInv, CallPart

\* A call that cannot reach the provider has nothing to show but its own shape.
LEMMA NotLive ==
    ASSUME ~Live', CallInv', PendingInv', ReplayInv' PROVE CallPart'
  BY DEF CallPart, CallSocketInv, BodyInv

\* The idle call.
LEMMA NoCallIdle ==
    ASSUME call' = NoCall
    PROVE  call' \in Call /\ CallPart' /\ call'.phase = "idle"
<1>1. call' \in Call
  BY DEF NoCall, Call
<1>2. /\ call'.phase = "idle" /\ call'.attempt = 0 /\ call'.inferred = 0
      /\ call'.socket = None /\ call'.observation = None
  BY DEF NoCall
<1>3. ~Live'
  BY <1>2 DEF Live
<1>4. CallInv' /\ PendingInv' /\ ReplayInv'
  BY <1>2 DEF CallInv, PendingInv, ReplayInv
<1> QED
  BY <1>1, <1>2, <1>3, <1>4, NotLive

\* The session as it is prepares itself.
LEMMA SameSession ==
    ASSUME ConversationInv
    PROVE  /\ ws \in Session /\ CellsFit(ws) /\ LastFits(ws) /\ Gentle(slot) /\ Forgets(conv, conv)
           /\ ws.socket # None => slot[ws.socket] # "unused"
<1>1. conv \in State /\ conv.epoch >= conv.epoch
  BY DEF ConversationInv, TypeOK, State
<1> QED
  BY <1>1 DEF ConversationInv, TypeOK, SessionInv, Gentle, Slots, SlotsInv, Forgets

\* complete_in and stream_in start with nothing prepared.
LEMMA BeginStep ==
    ASSUME ConversationInv, NEW q \in Requests, Begin(q)
    PROVE  ConversationInv' /\ Undisturbed
<1>1. /\ call' = [NoCall EXCEPT !.phase = "preparing", !.q = q]
      /\ calls' = calls + 1
      /\ UNCHANGED <<ws, slot, conv, stream, known, query>>
  BY DEF Begin
<1>2. /\ call'.phase = "preparing" /\ call'.q = q /\ call'.attempt = 0 /\ call'.inferred = 0
      /\ call'.socket = None /\ call'.observation = None /\ call'.full = None
  BY <1>1 DEF NoCall
<1>3. call' \in Call
  BY <1>1 DEF NoCall, Call
<1>4. TypeOK'
  BY <1>1, <1>3 DEF ConversationInv, TypeOK
<1>5. ~Live'
  BY <1>2 DEF Live
<1>6. CallInv' /\ PendingInv' /\ ReplayInv'
  <2>1. ~call'.prewarm
    BY <1>1 DEF NoCall
  <2> QED
    BY <1>2, <2>1 DEF CallInv, PendingInv, ReplayInv
<1>7. CallPart'
  BY <1>5, <1>6, NotLive
<1> QED
  BY <1>1, <1>4, <1>7, SameSession, Combine

\* A preparation that fails leaves a session that has forgotten at most.
LEMMA PrepareFailsStep ==
    ASSUME ConversationInv, PrepareFails
    PROVE  ConversationInv' /\ Undisturbed
<1>1. /\ call.phase = "preparing"
      /\ conv' = Fresh(call.q)
      /\ ws' = SocketFresh(call.q)
      /\ slot' = Abandoned(ws, ws')
      /\ call' = NoCall
      /\ UNCHANGED <<stream, known, query, calls>>
  BY DEF PrepareFails
<1>2. call.q \in Requests
  BY <1>1 DEF ConversationInv, CallInv, TypeOK, Call
<1>3. Forgets(conv, conv') /\ Prepares(ws, ws')
  BY <1>1, <1>2, Freshening DEF ConversationInv
<1>4. call' \in Call /\ CallPart'
  BY <1>1, NoCallIdle
<1>5. Gentle(slot')
  BY <1>1, SameSession, Abandoning DEF Session, ConversationInv
<1>6. TypeOK'
  BY <1>1, <1>3, <1>4, <1>5 DEF ConversationInv, TypeOK, Forgets, Prepares, Gentle, Slots
<1> QED
  BY <1>1, <1>3, <1>4, <1>5, <1>6, SameSession, Combine DEF Prepares

\* The body of a request as the caller wrote it.
LEMMA OwnBody ==
    ASSUME NEW q \in Requests
    PROVE  /\ BodyOf(q) \in Body
           /\ BodyOf(q).prev \notin Responses
           /\ BodyOf(q).prev = None => BodyOf(q).prev # Explicit
           /\ q.explicit = "no" => BodyOf(q).prev = None
           /\ BodyOf(q).items = q.items
<1>1. q \in Request /\ q.rest \in Rests
  BY DEF Rests
<1>2. Explicit \in 0 .. MaxResponses /\ Explicit \notin Responses /\ None # Explicit /\ None \notin Responses
  BY DEF Explicit, Responses
<1>3. q.items \in Seq(Items)
  BY <1>1 DEF Request
<1> QED
  BY <1>1, <1>2, <1>3 DEF BodyOf, Body

\* A route without any continuation sends the request as it is.
LEMMA PrepareStatelessStep ==
    ASSUME ConversationInv, PrepareStateless
    PROVE  ConversationInv' /\ Undisturbed
<1> DEFINE q == call.q
           f == Fresh(q)
           d == Forgotten(f)
           v == SocketFresh(q)
<1>1. /\ call.phase = "preparing"
      /\ conv' = [d EXCEPT
                     !.binding = TRUE, !.mode = IF conv.recovery THEN "Recreate" ELSE "Full",
                     !.recovery = FALSE, !.capability = "Unsupported", !.identity = None]
      /\ ws' = Detached(v)
      /\ slot' = Abandoned(ws, ws')
      /\ call' = [call EXCEPT !.phase = "prepared", !.body = BodyOf(q), !.thread = FALSE]
      /\ UNCHANGED <<stream, known, query, calls>>
  BY DEF PrepareStateless
<1>2. q \in Requests
  BY <1>1 DEF ConversationInv, CallInv, TypeOK, Call
<1>3. Forgets(conv, f) /\ Prepares(ws, v)
  BY <1>2, Freshening DEF ConversationInv
<1> HIDE DEF f, v
<1>4. Forgets(f, d) /\ d.pending = None
  BY <1>3, Forgetting DEF Forgets
<1> HIDE DEF d
<1>5. /\ conv' \in State
      /\ conv'.epoch = d.epoch
      /\ conv'.completed = d.completed
      /\ conv'.pending = d.pending
  <2> DEFINE m == IF conv.recovery THEN "Recreate" ELSE "Full"
  <2>1. m \in {"Full", "Continue", "Create", "Recreate"}
    OBVIOUS
  <2>2. conv' = [d EXCEPT !.binding = TRUE, !.mode = m, !.recovery = FALSE,
                          !.capability = "Unsupported", !.identity = None]
    BY <1>1
  <2>3. d \in State
    BY <1>4 DEF Forgets
  <2> HIDE DEF m
  <2> QED
    BY <2>1, <2>2, <2>3 DEF State
<1>6. Forgets(conv, conv')
  <2>1. conv.epoch \in Nat /\ f.epoch \in Nat /\ d.epoch \in Nat
    BY <1>3, <1>4 DEF ConversationInv, TypeOK, Forgets, State
  <2>2. conv'.epoch >= conv.epoch
    BY <2>1, <1>3, <1>4, <1>5 DEF Forgets
  <2> QED
    BY <2>2, <1>3, <1>4, <1>5 DEF Forgets
<1>7. Prepares(v, ws') /\ NewCell(ws') /\ ws'.socket = None
  BY <1>1, <1>3, Detaching, RenewedPrepares DEF Prepares, ConversationInv
<1>8. Gentle(slot')
  BY <1>1, SameSession, Abandoning DEF Session, ConversationInv
<1> HIDE DEF q
<1>9. /\ call' \in Call
      /\ call'.phase = "prepared" /\ call'.q = q /\ call'.body = BodyOf(q)
      /\ call'.attempt = call.attempt /\ call'.inferred = call.inferred
      /\ call'.socket = call.socket /\ call'.full = call.full /\ call'.prewarm = call.prewarm
      /\ call'.observation = call.observation
  <2>1. call \in Call /\ BodyOf(q) \in Body
    BY <1>2, OwnBody DEF ConversationInv, TypeOK
  <2>2. call.q = q
    BY DEF q
  <2> QED
    BY <2>1, <2>2, <1>1 DEF Call
<1>10. call.socket = None /\ call.full = None /\ call.inferred = 0 /\ call.observation = None
  BY <1>1 DEF ConversationInv, CallInv
<1>11. q # None /\ BodyOf(q) # None
  BY <1>2, OwnBody
<1>12. TypeOK'
  BY <1>1, <1>5, <1>7, <1>8, <1>9 DEF ConversationInv, TypeOK, Prepares, Gentle, Slots
<1>13. CallPart'
  <2>1. CallInv'
    <3>1. ~call.prewarm
      BY <1>1 DEF ConversationInv, CallInv
    <3> QED
      BY <3>1, <1>9, <1>10, <1>11 DEF CallInv
  <2>2. PendingInv' /\ CallSocketInv'
    BY <1>4, <1>5, <1>9, <1>10 DEF PendingInv, CallSocketInv
  <2>3. Refers(call.body, call.q, call.socket)'
    BY <1>2, <1>9, OwnBody DEF Refers
  <2>4. call'.q.explicit = "no" => StandsFor(call.body, call.q.items)'
    BY <1>2, <1>9, OwnBody DEF StandsFor, Context
  <2>5. BodyInv'
    BY <2>3, <2>4, <1>9, <1>10 DEF BodyInv
  <2>6. ReplayInv'
    <3>1. SUFFICES ASSUME call'.attempt = 1 PROVE ReplayInv'
      BY DEF ReplayInv
    <3>2. NewHistory
      BY <3>1, <1>1, <1>9 DEF ConversationInv, ReplayInv
    <3>3. NewHistory' /\ NewCell(ws)'
      BY <3>2, <1>1, <1>6, <1>7, Frame DEF Prepares
    <3>4. q.explicit = "no" => call'.body.prev = None
      BY <1>2, <1>9, OwnBody
    <3> QED
      BY <3>3, <3>4, <1>9 DEF ReplayInv
  <2> QED
    BY <2>1, <2>2, <2>5, <2>6 DEF CallPart
<1> QED
  BY <1>1, <1>6, <1>7, <1>8, <1>12, <1>13, Combine DEF Prepares

\* A continuation of the completed response stands for the whole history.
LEMMA Shortening ==
    ASSUME TypeOK, CompletedInv, NEW q \in Requests, conv.completed # None,
           Continues(conv.completed, q)
    PROVE  LET b == Shortened(conv.completed, q)
           IN  b \in Body /\ Refers(b, q, None) /\ StandsFor(b, q.items)
<1> DEFINE c == conv.completed
           p == c.items \o c.output
           b == Shortened(c, q)
<1>1. q \in Request /\ q.rest \in Rests
  BY DEF Rests
<1>2. q.items \in Seq(Items)
  BY <1>1 DEF Request
<1>3. c \in Completed
  BY DEF TypeOK, State
<1>4. c.items \in Seq(Items) /\ c.output \in Seq(Items) /\ c.id \in Responses
  BY <1>3 DEF Completed
<1>5. p \in Seq(Items)
  BY <1>4
<1>6. /\ b = [prev |-> c.id, rest |-> q.rest, items |-> SubSeq(q.items, Len(p) + 1, Len(q.items))]
      /\ IsPrefixOf(p, q.items)
      /\ c.identity = q.identity
  BY DEF Shortened, Continues
<1>7. /\ known[c.id] # None /\ known[c.id].kept /\ known[c.id].query = query
      /\ known[c.id].identity = c.identity /\ known[c.id].context = p
  BY DEF CompletedInv
<1> HIDE DEF p, b, c
<1>8. /\ SubSeq(q.items, Len(p) + 1, Len(q.items)) \in Seq(Items)
      /\ p \o SubSeq(q.items, Len(p) + 1, Len(q.items)) = q.items
  BY <1>2, <1>5, <1>6, PrefixAndRest
<1>9. c.id \in 0 .. MaxResponses /\ c.id # None /\ c.id # Explicit
  BY <1>4 DEF Responses, Explicit
<1>10. b.prev = c.id /\ b.items = SubSeq(q.items, Len(p) + 1, Len(q.items)) /\ b.rest = q.rest
  BY <1>6
<1>11. b \in Body
  BY <1>1, <1>6, <1>8, <1>9 DEF Body
<1>12. Refers(b, q, None)
  BY <1>6, <1>7, <1>10 DEF Refers, Found
<1>13. Context(b) = q.items
  BY <1>7, <1>8, <1>9, <1>10 DEF Context
<1> QED
  BY <1>9, <1>10, <1>11, <1>12, <1>13 DEF StandsFor, b, c

\* The implicit chain continues the completed response or sends the request.
LEMMA PrepareChainStep ==
    ASSUME ConversationInv, PrepareChain
    PROVE  ConversationInv' /\ Undisturbed
<1> DEFINE q == call.q
           f == Fresh(q)
           may == Eligible(f, q)
<1>1. PICK aged \in BOOLEAN :
         LET continued == may /\ Continues(f.completed, q) /\ ~aged
             mode == CASE continued -> "Continue"
                       [] ~continued /\ f.recovery -> "Recreate"
                       [] ~continued /\ ~f.recovery /\ may /\ Thread(q) -> "Create"
                       [] OTHER -> "Full"
         IN  /\ conv' = [f EXCEPT
                   !.completed = None, !.epoch = NextEpoch(f, may), !.binding = TRUE,
                   !.mode = mode, !.recovery = FALSE, !.identity = q.identity,
                   !.capability = Capability[q.identity],
                   !.pending = IF may THEN [epoch |-> NextEpoch(f, may),
                                            identity |-> q.identity, items |-> q.items,
                                            rest |-> q.rest]
                               ELSE None]
             /\ call' = [call EXCEPT
                   !.phase = IF q.identity \in SocketRoutes /\ q.stream
                               THEN "connecting" ELSE "prepared",
                   !.body = IF continued THEN Shortened(f.completed, q) ELSE BodyOf(q),
                   !.thread = may /\ Thread(q)]
  BY DEF PrepareChain
<1> DEFINE continued == may /\ Continues(f.completed, q) /\ ~aged
           mode == CASE continued -> "Continue"
                     [] ~continued /\ f.recovery -> "Recreate"
                     [] ~continued /\ ~f.recovery /\ may /\ Thread(q) -> "Create"
                     [] OTHER -> "Full"
           e == f.epoch + 1
           o == IF may THEN [epoch |-> e, identity |-> q.identity, items |-> q.items,
                             rest |-> q.rest]
                ELSE None
           ph == IF q.identity \in SocketRoutes /\ q.stream THEN "connecting" ELSE "prepared"
           b == IF continued THEN Shortened(f.completed, q) ELSE BodyOf(q)
           t == may /\ Thread(q)
<1>2. /\ call.phase = "preparing"
      /\ ws' = SocketFresh(q)
      /\ slot' = Abandoned(ws, ws')
      /\ UNCHANGED <<stream, known, query, calls>>
  BY DEF PrepareChain
<1>3. q \in Requests
  BY <1>2 DEF ConversationInv, CallInv, TypeOK, Call
<1>4. /\ Forgets(conv, f) /\ Prepares(ws, ws')
  BY <1>2, <1>3, Freshening DEF ConversationInv
<1>5. /\ conv' = [f EXCEPT !.completed = None, !.epoch = e, !.binding = TRUE, !.mode = mode,
                           !.recovery = FALSE, !.identity = q.identity,
                           !.capability = Capability[q.identity], !.pending = o]
      /\ call' = [call EXCEPT !.phase = ph, !.body = b, !.thread = t]
  BY <1>1 DEF NextEpoch
<1>6. mode \in {"Full", "Continue", "Create", "Recreate"} /\ ph \in {"connecting", "prepared"}
  OBVIOUS
<1>7. t \in BOOLEAN
  OBVIOUS
<1>8. q \in Request /\ q.identity \in Identities /\ q.rest \in Rests
  BY <1>3 DEF Identities, Rests
<1>9. f \in State /\ f.epoch \in Nat /\ e \in Nat
  BY <1>4 DEF Forgets, State
<1>10. /\ o \in Observation \cup {None}
       /\ o # None => may /\ o.epoch = e /\ o.identity = q.identity /\ o.items = q.items
  <2> DEFINE x == [epoch |-> e, identity |-> q.identity, items |-> q.items, rest |-> q.rest]
  <2>1. q.items \in Seq(Items)
    BY <1>8 DEF Request
  <2> HIDE DEF e
  <2>2. x \in Observation /\ x.epoch = e /\ x.identity = q.identity /\ x.items = q.items
    BY <2>1, <1>8, <1>9 DEF Observation
  <2>3. o = IF may THEN x ELSE None
    BY DEF e
  <2> HIDE DEF o, x, may
  <2> QED
    BY <2>2, <2>3
<1>11. may => q.explicit = "no" /\ Stored(q)
  BY DEF Eligible
<1>12. \/ b = BodyOf(q)
       \/ b = Shortened(f.completed, q) /\ may /\ Continues(f.completed, q)
  BY DEF b
<1> HIDE DEF f, may, continued, mode, e, o, ph, b, t
<1>13. /\ b \in Body
       /\ Refers(b, q, None)
       /\ q.explicit = "no" => StandsFor(b, q.items)
       /\ conv.completed = None => b = BodyOf(q)
  <2>1. CASE b = BodyOf(q)
    BY <2>1, <1>3, OwnBody DEF Refers, StandsFor, Context
  <2>2. CASE b = Shortened(f.completed, q) /\ may /\ Continues(f.completed, q)
    <3>1. f.completed # None
      BY <2>2 DEF Continues
    <3>2. f.completed = conv.completed
      BY <3>1, <1>4 DEF Forgets
    <3> QED
      BY <2>2, <3>1, <3>2, <1>3, Shortening DEF ConversationInv
  <2> QED
    BY <2>1, <2>2, <1>12
<1> HIDE DEF q
<1>14. call.q = q
  BY DEF q
<1>15. /\ conv' \in State /\ conv'.epoch = e /\ conv'.completed = None /\ conv'.pending = o
  BY <1>5, <1>6, <1>8, <1>9, <1>10 DEF State
<1>16. Forgets(conv, conv')
  <2>1. conv.epoch \in Nat /\ f.epoch >= conv.epoch
    BY <1>4 DEF ConversationInv, TypeOK, Forgets, State
  <2>2. e >= conv.epoch
    BY <2>1, <1>9 DEF e
  <2> QED
    BY <2>2, <1>15 DEF Forgets
<1>17. /\ call' \in Call
       /\ call'.phase = ph /\ call'.q = q /\ call'.body = b
       /\ call'.attempt = call.attempt /\ call'.inferred = call.inferred
       /\ call'.socket = call.socket /\ call'.full = call.full /\ call'.prewarm = call.prewarm
       /\ call'.observation = call.observation
  <2>1. call \in Call
    BY DEF ConversationInv, TypeOK
  <2> QED
    BY <2>1, <1>5, <1>6, <1>7, <1>13, <1>14 DEF Call
<1>18. call.socket = None /\ call.full = None /\ call.inferred = 0 /\ ~call.prewarm
       /\ call.observation = None
  BY <1>2 DEF ConversationInv, CallInv
<1>19. q # None /\ b # None
  BY <1>3, <1>13
<1>20. Gentle(slot')
  BY <1>2, SameSession, Abandoning DEF Session, ConversationInv
<1>21. TypeOK'
  BY <1>2, <1>4, <1>15, <1>17, <1>20 DEF ConversationInv, TypeOK, Prepares, Gentle, Slots
<1>22. CallPart'
  <2>1. CallInv'
    BY <1>6, <1>17, <1>18, <1>19 DEF CallInv
  <2>2. PendingInv'
    <3>1. o # None => Speaks(o, q) /\ o.epoch = e
      BY <1>10, <1>11 DEF Speaks
    <3>2. e <= e
      BY <1>9
    <3>3. call'.phase # "sent"
      BY <1>6, <1>17
    <3> QED
      BY <3>1, <3>2, <3>3, <1>15, <1>17 DEF PendingInv, Speaks, Stored
  <2>3. CallSocketInv'
    BY <1>17, <1>18 DEF CallSocketInv
  <2>4. Refers(call.body, call.q, call.socket)'
    BY <1>2, <1>13, <1>17, <1>18 DEF Refers, Found
  <2>5. call'.q.explicit = "no" => StandsFor(call.body, call.q.items)'
    BY <1>2, <1>13, <1>17 DEF StandsFor, Context
  <2>6. BodyInv'
    BY <2>4, <2>5, <1>17, <1>18 DEF BodyInv
  <2>7. ReplayInv'
    <3>1. SUFFICES ASSUME call'.attempt = 1 PROVE ReplayInv'
      BY DEF ReplayInv
    <3>2. NewHistory /\ NewCell(ws)
      BY <3>1, <1>2, <1>17 DEF ConversationInv, ReplayInv
    <3>3. NewHistory' /\ NewCell(ws)'
      BY <3>2, <1>2, <1>4, <1>16, Frame DEF Prepares
    <3>4. q.explicit = "no" => b.prev = None
      BY <3>2, <1>3, <1>13, OwnBody DEF NewHistory
    <3> QED
      BY <3>3, <3>4, <1>17 DEF ReplayInv
  <2> QED
    BY <2>1, <2>2, <2>3, <2>6, <2>7 DEF CallPart
<1> QED
  BY <1>2, <1>4, <1>16, <1>20, <1>21, <1>22, SameSession, Combine DEF Prepares

\* Sockets are numbered.
LEMMA SocketsAreNumbers == \A s \in Sockets : s \in Nat /\ s > 0 /\ s # None
<1>1. Cardinality(Sockets) \in Nat
  BY FS_CardinalityType
<1> QED
  BY <1>1

\* The next socket is the first one that was not opened yet.
LEMMA NextSocket ==
    ASSUME TypeOK, SlotsInv, Cardinality(Opened) + 1 \in Sockets
    PROVE  /\ slot[Cardinality(Opened) + 1] = "unused"
           /\ \A t \in Sockets : slot[t] # "unused" <=> t <= Cardinality(Opened)
           /\ Cardinality(Opened) + 1 \in 0 .. Cardinality(Sockets)
           /\ Cardinality(Opened) \in Nat
<1>1. PICK m \in 0 .. Cardinality(Sockets) : \A t \in Sockets : slot[t] # "unused" <=> t <= m
  BY DEF SlotsInv
<1>2. Cardinality(Sockets) \in Nat
  BY FS_CardinalityType
<1>3. Opened = 1 .. m
  BY <1>1, <1>2 DEF Opened
<1>4. Cardinality(1 .. m) = m
  <2>1. m \in Nat /\ m \in Int /\ 1 \in Int
    BY <1>2
  <2>2. Cardinality(1 .. m) = IF 1 > m THEN 0 ELSE m - 1 + 1
    BY <2>1, FS_Interval
  <2> QED
    BY <2>1, <2>2
<1>5. Cardinality(Opened) = m /\ m \in Nat
  BY <1>2, <1>3, <1>4
<1> QED
  BY <1>1, <1>2, <1>5

\* incremental_responses_body leaves out what the last response stands for.
LEMMA Shrinking ==
    ASSUME TypeOK, NEW v \in Session, LastFits(v), NEW q \in Requests, v.identity = Endpoint(q),
           NEW b \in Body
    PROVE  LET c == Incremental(v.last, b)
           IN  /\ c \in Body
               /\ v.last = None => c = b
               /\ c = b \/ (Refers(c, q, v.socket) /\ b.prev = None /\ StandsFor(c, b.items))
<1> DEFINE l == v.last
           p == l.body.items \o l.output
           c == Incremental(l, b)
<1>1. CASE ~ContinuesLast(l, b)
  <2>1. c = b
    BY <1>1 DEF Incremental
  <2> QED
    BY <2>1
<1>2. CASE ContinuesLast(l, b)
  <2>1. /\ l # None /\ b.prev = None /\ l.body.prev = None /\ IsPrefixOf(p, b.items)
    BY <1>2 DEF ContinuesLast
  <2>2. l \in Last
    BY <2>1 DEF Session
  <2>3. l.id \in Responses /\ l.body \in Body /\ l.output \in Seq(Items)
    BY <2>2 DEF Last
  <2>4. l.body.items \in Seq(Items) /\ b.items \in Seq(Items)
    BY <2>3 DEF Body
  <2>5. p \in Seq(Items)
    BY <2>3, <2>4
  <2>6. c = [b EXCEPT !.prev = l.id, !.items = SubSeq(b.items, Len(p) + 1, Len(b.items))]
    BY <1>2 DEF Incremental
  <2>7. /\ known[l.id] # None /\ Found(l.id, v.socket) /\ known[l.id].query = query
        /\ known[l.id].identity = v.identity[1] /\ known[l.id].context = p
    BY <2>1 DEF LastFits
  <2>8. v.identity[1] = q.identity
    BY DEF Endpoint
  <2> HIDE DEF l, p, c
  <2>9. /\ SubSeq(b.items, Len(p) + 1, Len(b.items)) \in Seq(Items)
        /\ p \o SubSeq(b.items, Len(p) + 1, Len(b.items)) = b.items
    BY <2>1, <2>4, <2>5, PrefixAndRest
  <2>10. l.id \in 0 .. MaxResponses /\ l.id # None /\ l.id # Explicit
    BY <2>3 DEF Responses, Explicit
  <2>11. /\ c \in Body
         /\ c.prev = l.id
         /\ c.items = SubSeq(b.items, Len(p) + 1, Len(b.items))
    BY <2>6, <2>9, <2>10 DEF Body
  <2>12. Refers(c, q, v.socket)
    BY <2>7, <2>8, <2>11 DEF Refers
  <2>13. Context(c) = b.items
    BY <2>7, <2>9, <2>10, <2>11 DEF Context
  <2>14. StandsFor(c, b.items)
    BY <2>10, <2>11, <2>13 DEF StandsFor
  <2> QED
    BY <2>1, <2>11, <2>12, <2>14 DEF c, l
<1> QED
  BY <1>1, <1>2

\* A socket is found or opened, and the body shrinks against its last response.
LEMMA PrepareSocketStep ==
    ASSUME ConversationInv, PrepareSocket
    PROVE  ConversationInv' /\ Undisturbed
<1> DEFINE q == call.q
           w == Usable(Reachable(q))
           s == Cardinality(Opened) + 1
           v == IF w.socket # None THEN w ELSE [w EXCEPT !.socket = s, !.healthy = TRUE]
           b == IF call.prewarm THEN call.body ELSE Incremental(v.last, call.body)
<1>1. /\ call.phase = "connecting"
      /\ w.socket = None => s \in Sockets
      /\ ws' = [v EXCEPT !.used = b.prev # None]
      /\ slot' = IF w.socket # None THEN slot
                 ELSE [SlotsFor(Endpoint(q)) EXCEPT ![s] = "idle"]
      /\ call' = [call EXCEPT !.phase = "prepared", !.socket = v.socket, !.body = b,
                              !.full = call.body]
      /\ conv' = IF b.prev # None /\ ~call.prewarm THEN [conv EXCEPT !.mode = "Continue"] ELSE conv
      /\ UNCHANGED <<stream, known, query, calls>>
  BY DEF PrepareSocket
<1>2. q \in Requests /\ call.body \in Body /\ call \in Call
  BY <1>1 DEF ConversationInv, CallInv, TypeOK, Call
<1>3. /\ Prepares(ws, w)
      /\ w.identity = Endpoint(q)
      /\ w.socket # None =>
            w = ws /\ ws.healthy /\ slot[ws.socket] \notin {"busy", "closed"}
  BY <1>2, Reaching DEF ConversationInv
<1> HIDE DEF w
<1>4. /\ v \in Session /\ v.identity = Endpoint(q) /\ v.healthy /\ v.socket # None
      /\ CellsFit(v) /\ LastFits(v) /\ (NewCell(ws) => NewCell(v))
      /\ w.socket # None => v = ws
      /\ w.socket = None => v.socket = s
  <2>1. CASE w.socket # None
    BY <2>1, <1>3 DEF Prepares
  <2>2. CASE w.socket = None
    <3>0. s \in Sockets
      BY <2>2, <1>1
    <3> HIDE DEF s
    <3>1. s # None /\ s \in Sockets
      BY <3>0, SocketsAreNumbers
    <3>2. v = [w EXCEPT !.socket = s, !.healthy = TRUE]
      BY <2>2
    <3> HIDE DEF v
    <3>3. w \in Session
      BY <1>3 DEF Prepares
    <3>4. v \in Session /\ v.socket = s /\ v.cell = w.cell /\ v.last = w.last /\ v.identity = w.identity
      BY <3>1, <3>2, <3>3 DEF Session
    <3>5. v.healthy
      BY <3>2, <3>3 DEF Session
    <3>6. CellsFit(v) /\ LastFits(v) /\ (NewCell(w) => NewCell(v))
      BY <2>2, <3>4, <3>5, <1>3, Opening DEF Prepares
    <3> QED
      BY <2>2, <3>1, <3>4, <3>5, <3>6, <1>3 DEF Prepares
  <2> QED
    BY <2>1, <2>2
<1>5. v.socket \in Sockets
  BY <1>4 DEF Session
<1> HIDE DEF v
<1>6. /\ b \in Body
      /\ v.last = None => b = call.body
      /\ b = call.body \/ (Refers(b, q, v.socket) /\ call.body.prev = None
                            /\ StandsFor(b, call.body.items))
  BY <1>2, <1>4, Shrinking DEF ConversationInv
<1> HIDE DEF b, s
<1>7. /\ ws' \in Session /\ ws'.socket = v.socket /\ ws'.identity = v.identity /\ ws'.cell = v.cell
      /\ ws'.last = v.last /\ ws'.healthy = v.healthy
  BY <1>1, <1>4 DEF Session
<1>8. CellsFit(ws') /\ LastFits(ws') /\ (NewCell(ws) => NewCell(ws'))
  BY <1>4, <1>7 DEF CellsFit, LastFits, NewCell
<1>9. Forgets(conv, conv') /\ conv'.pending = conv.pending /\ conv'.binding = conv.binding
      /\ conv'.epoch = conv.epoch
  <2>1. conv \in State
    BY DEF ConversationInv, TypeOK
  <2>2. CASE conv' = conv
    BY <2>2, SameSession
  <2>3. CASE conv' = [conv EXCEPT !.mode = "Continue"]
    <3>1. /\ conv' \in State /\ conv'.epoch = conv.epoch /\ conv'.completed = conv.completed
          /\ conv'.pending = conv.pending /\ conv'.binding = conv.binding
      BY <2>1, <2>3 DEF State
    <3>2. conv.epoch >= conv.epoch
      BY <2>1 DEF State
    <3> QED
      BY <3>1, <3>2 DEF Forgets
  <2> QED
    BY <2>2, <2>3, <1>1
<1> DEFINE g == SlotsFor(Endpoint(q))
<1>10. Gentle(g)
  BY LettingGo DEF ConversationInv
<1>11. w.socket = None => slot' = [g EXCEPT ![s] = "idle"]
  BY <1>1
<1> HIDE DEF g
<1>12. \A n \in Responses : OnSocket(n) => stream[n].socket \in Sockets
                                           /\ slot[stream[n].socket] \in {"busy", "closed"}
  BY DEF ConversationInv, SlotsInv, TypeOK, Stream, OnSocket, Running, Used
<1>13. /\ slot' \in Slots
       /\ SlotsInv'
       /\ Undisturbed
       /\ \A n \in Responses : OnSocket(n) => stream[n].socket # v.socket
       /\ w.socket # None => slot[v.socket] # "busy"
  <2>1. CASE w.socket # None
    <3>1. slot' = slot /\ v = ws /\ slot[ws.socket] \notin {"busy", "closed"}
      BY <2>1, <1>1, <1>3, <1>4
    <3>2. ws'.socket \in Sockets \cup {None} /\ (ws'.socket # None => slot[ws'.socket] # "unused")
      BY <3>1, <1>5, <1>7 DEF ConversationInv, SlotsInv
    <3>3. SlotsInv' /\ Undisturbed
      BY <3>1, <3>2, <1>1, SameSession, SlotFrame
    <3> QED
      BY <2>1, <3>1, <3>3, <1>12 DEF ConversationInv, TypeOK, Slots
  <2>2. CASE w.socket = None
    <3>1. /\ s \in Sockets /\ slot[s] = "unused"
          /\ \A t \in Sockets : slot[t] # "unused" <=> t <= Cardinality(Opened)
          /\ s \in 0 .. Cardinality(Sockets) /\ s = Cardinality(Opened) + 1
          /\ Cardinality(Opened) \in Nat
      <4>1. Cardinality(Opened) + 1 \in Sockets
        BY <2>2, <1>1 DEF s
      <4> QED
        BY <4>1, NextSocket DEF ConversationInv, s
    <3>2. /\ slot' \in Slots /\ slot'[s] = "idle"
          /\ \A t \in Sockets : t # s => slot'[t] = g[t]
      BY <2>2, <3>1, <1>10, <1>11 DEF Gentle, Slots
    <3>3. \A t \in Sockets : slot'[t] # "unused" <=> t <= s
      <4> SUFFICES ASSUME NEW t \in Sockets PROVE slot'[t] # "unused" <=> t <= s
        OBVIOUS
      <4>1. t \in Nat
        BY SocketsAreNumbers
      <4>2. CASE t = s
        BY <4>1, <4>2, <3>2
      <4>3. CASE t # s
        <5>1. slot'[t] # "unused" <=> slot[t] # "unused"
          BY <4>3, <3>2, <1>10 DEF Gentle
        <5>2. slot[t] # "unused" <=> t <= Cardinality(Opened)
          BY <3>1
        <5> QED
          BY <5>1, <5>2, <4>1, <4>3, <3>1
      <4> QED
        BY <4>2, <4>3
    <3>4. \A n \in Responses : OnSocket(n) =>
             stream[n].socket # s /\ slot'[stream[n].socket] = slot[stream[n].socket]
      BY <3>1, <3>2, <1>10, <1>12 DEF Gentle
    <3>5. v.socket = s
      BY <2>2, <1>4
    <3>6. SlotsInv'
      <4>1. \E m \in 0 .. Cardinality(Sockets) : \A t \in Sockets : slot'[t] # "unused" <=> t <= m
        BY <3>1, <3>3
      <4>2. \A n \in Responses : OnSocket(n) => slot'[stream[n].socket] \in {"busy", "closed"}
        BY <3>4, <1>12
      <4>3. slot'[ws'.socket] # "unused"
        BY <3>2, <3>5, <1>7
      <4> QED
        BY <4>1, <4>2, <4>3, <1>1 DEF SlotsInv, OnSocket, Running, Used
    <3> QED
      BY <2>2, <3>2, <3>4, <3>5, <3>6 DEF Undisturbed
  <2> QED
    BY <2>1, <2>2
<1> HIDE DEF q
<1>14. call.q = q
  BY DEF q
<1>15. /\ call' \in Call
       /\ call'.phase = "prepared" /\ call'.q = q /\ call'.body = b /\ call'.full = call.body
       /\ call'.attempt = call.attempt /\ call'.inferred = call.inferred
       /\ call'.socket = v.socket /\ call'.prewarm = call.prewarm
       /\ call'.observation = call.observation
  BY <1>1, <1>2, <1>5, <1>6, <1>14 DEF Call
<1>16. TypeOK'
  BY <1>1, <1>7, <1>9, <1>13, <1>15 DEF ConversationInv, TypeOK, Forgets, Slots
<1>17. Live
  BY <1>1 DEF Live
<1>18. CallInv'
  <2>1. /\ call.inferred = 0 /\ b # None /\ q # None /\ call.body # None
        /\ call.observation = None
    BY <1>1, <1>2, <1>6 DEF ConversationInv, CallInv, q
  <2> QED
    BY <2>1, <1>4, <1>15 DEF CallInv
<1>19. PendingInv'
  BY <1>1, <1>9, <1>14, <1>15 DEF ConversationInv, PendingInv, Speaks, Stored
<1>20. CallSocketInv'
  BY <1>1, <1>4, <1>7, <1>13, <1>15 DEF CallSocketInv, OnSocket, Running, Used, Endpoint
<1>21. BodyInv'
  <2>1. /\ Refers(call.body, q, None)
        /\ q.explicit = "no" => StandsFor(call.body, q.items)
    <3>1. call.socket = None
      BY <1>1 DEF ConversationInv, CallInv
    <3> QED
      BY <3>1, <1>14, <1>17 DEF ConversationInv, BodyInv
  <2>2. Refers(b, q, v.socket)
    <3>1. CASE b = call.body
      BY <3>1, <2>1 DEF Refers, Found
    <3> QED
      BY <3>1, <1>6
  <2>3. call.body.prev = None => Context(call.body) = call.body.items /\ call.body.prev # Explicit
    BY DEF Context, Explicit
  <2>4. call.body.prev = None => StandsFor(b, call.body.items)
    BY <2>3, <1>6 DEF StandsFor
  <2>5. q.explicit = "no" => StandsFor(b, q.items)
    <3>1. CASE b = call.body
      BY <3>1, <2>1
    <3>2. CASE call.body.prev = None /\ StandsFor(b, call.body.items)
      BY <3>2, <2>1, <2>3 DEF StandsFor
    <3> QED
      BY <3>1, <3>2, <1>6
  <2> QED
    BY <2>2, <2>4, <2>5, <1>1, <1>15 DEF BodyInv, Refers, Found, StandsFor, Context
<1>22. ReplayInv'
  <2>1. SUFFICES ASSUME call'.attempt = 1 PROVE ReplayInv'
    BY DEF ReplayInv
  <2>2. /\ NewHistory /\ NewCell(ws)
        /\ q.explicit = "no" => call.body.prev = None
    BY <2>1, <1>1, <1>14, <1>15 DEF ConversationInv, ReplayInv
  <2>3. NewHistory' /\ NewCell(ws)'
    BY <2>2, <1>1, <1>8, <1>9, Frame
  <2>4. b = call.body
    BY <2>2, <1>4, <1>6 DEF NewCell
  <2> QED
    BY <2>2, <2>3, <2>4, <1>15 DEF ReplayInv
<1>23. /\ StreamsInv' /\ EndingInv' /\ EpochInv' /\ SessionInv' /\ CompletedInv'
       /\ ContextIsTheHistory'
  BY <1>1, <1>8, <1>9, Frame
<1> QED
  BY <1>13, <1>16, <1>18, <1>19, <1>20, <1>21, <1>22, <1>23 DEF ConversationInv

\* fail_to_http gives up the socket.
LEMMA GivingUp ==
    ASSUME NEW w \in Session
    PROVE  /\ FailedToHttp(w) \in Session
           /\ FailedToHttp(w).socket = None
           /\ FailedToHttp(w).identity = w.identity
           /\ FailedToHttp(w).cell = w.cell
           /\ FailedToHttp(w).last = None
<1> DEFINE v == Cleared(w, TRUE)
<1>1. v \in Session /\ v.identity = w.identity /\ v.cell = w.cell /\ v.last = None
  BY Clearing
<1>2. FailedToHttp(w) = [v EXCEPT !.socket = None, !.fallback = TRUE]
  BY DEF FailedToHttp
<1> HIDE DEF v
<1> QED
  BY <1>1, <1>2 DEF Session

\* A draft that found no socket is as good over HTTP.
LEMMA OverHttp ==
    ASSUME ConversationInv, call.phase = "connecting", ~call.prewarm,
           call' = [call EXCEPT !.phase = "prepared"], UNCHANGED <<stream, known, query>>,
           Forgets(conv, conv'), conv'.pending = conv.pending, conv'.epoch = conv.epoch,
           Prepares(ws, ws')
    PROVE  call' \in Call /\ CallPart'
<1>1. /\ call' \in Call
      /\ call'.phase = "prepared" /\ call'.q = call.q /\ call'.body = call.body
      /\ call'.attempt = call.attempt /\ call'.inferred = call.inferred
      /\ call'.socket = call.socket /\ call'.full = call.full /\ call'.prewarm = call.prewarm
      /\ call'.observation = call.observation
  BY DEF ConversationInv, TypeOK, Call
<1>2. call.socket = None /\ call.full = None /\ call.inferred = 0 /\ call.observation = None
      /\ call.q # None /\ call.body # None
  BY DEF ConversationInv, CallInv
<1>3. CallInv'
  BY <1>1, <1>2 DEF CallInv
<1>4. PendingInv'
  BY <1>1 DEF ConversationInv, PendingInv, Speaks, Stored
<1>5. CallSocketInv'
  BY <1>1, <1>2 DEF CallSocketInv
<1>6. BodyInv'
  <2>1. /\ Refers(call.body, call.q, call.socket)
        /\ call.q.explicit = "no" => StandsFor(call.body, call.q.items)
    BY DEF ConversationInv, BodyInv, Live
  <2>2. Refers(call.body, call.q, call.socket)'
    BY <2>1, <1>1 DEF Refers, Found
  <2>3. call'.q.explicit = "no" => StandsFor(call.body, call.q.items)'
    BY <2>1, <1>1 DEF StandsFor, Context
  <2> QED
    BY <2>2, <2>3, <1>1, <1>2 DEF BodyInv
<1>7. ReplayInv'
  <2>1. SUFFICES ASSUME call'.attempt = 1 PROVE ReplayInv'
    BY DEF ReplayInv
  <2>2. /\ NewHistory /\ NewCell(ws)
        /\ call.q.explicit = "no" => call.body.prev = None
    BY <2>1, <1>1 DEF ConversationInv, ReplayInv
  <2>3. NewHistory' /\ NewCell(ws)'
    BY <2>2, Frame DEF Prepares
  <2> QED
    BY <2>2, <2>3, <1>1 DEF ReplayInv
<1> QED
  BY <1>1, <1>3, <1>4, <1>5, <1>6, <1>7 DEF CallPart

\* The draft goes over HTTP as it is; a prewarm request is over.
LEMMA PrepareFallbackStep ==
    ASSUME ConversationInv, PrepareFallback
    PROVE  ConversationInv' /\ Undisturbed
<1> DEFINE q == call.q
           r == Reachable(q)
           w == Usable(r)
           v == IF r.fallback THEN r ELSE FailedToHttp(w)
<1>1. /\ call.phase = "connecting"
      /\ r.fallback \/ w.socket = None
      /\ ws' = v
      /\ slot' = SlotsFor(Endpoint(q))
      /\ IF call.prewarm
           THEN call' = NoCall /\ UNCHANGED conv
           ELSE /\ call' = [call EXCEPT !.phase = "prepared"]
                /\ conv' = IF v.used THEN [conv EXCEPT !.mode = "Continue"] ELSE conv
      /\ UNCHANGED <<stream, known, query, calls>>
  BY DEF PrepareFallback
<1>2. q \in Requests
  BY <1>1 DEF ConversationInv, CallInv, TypeOK, Call
<1>3. /\ Prepares(ws, r) /\ Prepares(ws, w)
      /\ w.socket = None => Quiet(w)
  BY <1>2, Reaching DEF ConversationInv
<1>4. Gentle(slot')
  BY <1>1, LettingGo DEF ConversationInv
<1> HIDE DEF w, r
<1>5. Prepares(ws, v)
  <2>1. CASE r.fallback
    BY <2>1, <1>3
  <2>2. CASE ~r.fallback
    <3>1. w \in Session /\ w.socket = None
      BY <2>2, <1>1, <1>3 DEF Prepares
    <3> DEFINE u == FailedToHttp(w)
    <3>2. /\ u \in Session /\ u.socket = None /\ u.identity = w.identity /\ u.cell = w.cell
          /\ u.last = None
      BY <3>1, GivingUp
    <3> HIDE DEF u
    <3>3. CellsFit(u) /\ LastFits(u) /\ (NewCell(w) => NewCell(u))
      BY <2>2, <3>1, <3>2, <1>1, <1>3, QuietFits DEF Prepares
    <3>4. Prepares(ws, u)
      BY <3>2, <3>3, <1>3 DEF Prepares
    <3> QED
      BY <3>4, <2>2 DEF u
  <2> QED
    BY <2>1, <2>2
<1> HIDE DEF v
<1>6. Prepares(ws, ws')
  BY <1>1, <1>5
<1>7. Forgets(conv, conv') /\ conv'.pending = conv.pending /\ conv'.epoch = conv.epoch
  <2>1. conv \in State
    BY DEF ConversationInv, TypeOK
  <2>2. CASE conv' = conv
    BY <2>2, SameSession
  <2>3. CASE conv' = [conv EXCEPT !.mode = "Continue"]
    <3>1. /\ conv' \in State /\ conv'.epoch = conv.epoch /\ conv'.completed = conv.completed
          /\ conv'.pending = conv.pending
      BY <2>1, <2>3 DEF State
    <3>2. conv.epoch >= conv.epoch
      BY <2>1 DEF State
    <3> QED
      BY <3>1, <3>2 DEF Forgets
  <2> QED
    BY <2>2, <2>3, <1>1
<1>8. call' \in Call /\ CallPart'
  <2>1. CASE call.prewarm
    BY <2>1, <1>1, NoCallIdle
  <2>2. CASE ~call.prewarm
    BY <2>2, <1>1, <1>6, <1>7, OverHttp
  <2> QED
    BY <2>1, <2>2
<1>9. TypeOK'
  BY <1>1, <1>4, <1>6, <1>7, <1>8 DEF ConversationInv, TypeOK, Forgets, Prepares, Gentle, Slots
<1> QED
  BY <1>1, <1>4, <1>6, <1>7, <1>8, <1>9, SameSession, Combine DEF Prepares

\* No connection: nothing is left on the session that was not there.
LEMMA PrepareSocketFailsStep ==
    ASSUME ConversationInv, PrepareSocketFails
    PROVE  ConversationInv' /\ Undisturbed
<1> DEFINE l == LeftToOthers(ws)
<1>1. /\ call.phase = "connecting"
      /\ \/ ws' = WithoutIdentity(l) /\ slot' = SlotsFor(None)
         \/ ws' = Usable(Reachable(call.q)) /\ slot' = SlotsFor(Endpoint(call.q))
      /\ call' \in {NoCall} \cup IF call.prewarm THEN {} ELSE {[call EXCEPT !.phase = "prepared"]}
      /\ UNCHANGED <<conv, stream, known, query, calls>>
  BY DEF PrepareSocketFails
<1>2. call.q \in Requests
  BY <1>1 DEF ConversationInv, CallInv, TypeOK, Call
<1>3. Prepares(ws, l) /\ Prepares(ws, Usable(Reachable(call.q)))
  BY <1>2, Reaching DEF ConversationInv
<1>4. Gentle(slot')
  BY <1>1, LettingGo DEF ConversationInv
<1> HIDE DEF l
<1>5. Prepares(ws, WithoutIdentity(l))
  <2>1. l \in Session /\ CellsFit(l)
    BY <1>3 DEF Prepares
  <2> DEFINE u == WithoutIdentity(l)
  <2>2. u \in Session /\ u.socket = None /\ u.cell = l.cell + 1 /\ u.last = None
    BY <2>1, LeavingIdentity
  <2> HIDE DEF u
  <2>3. Prepares(l, u)
    BY <2>1, <2>2, RenewedPrepares DEF ConversationInv
  <2>4. Prepares(ws, u)
    BY <2>2, <2>3, <1>3 DEF Prepares
  <2> QED
    BY <2>4 DEF u
<1>6. Prepares(ws, ws')
  BY <1>1, <1>3, <1>5
<1>7. Forgets(conv, conv') /\ conv'.pending = conv.pending /\ conv'.epoch = conv.epoch
  BY <1>1, SameSession
<1>8. call' \in Call /\ CallPart'
  <2>1. CASE call' = NoCall
    BY <2>1, NoCallIdle
  <2>2. CASE ~call.prewarm /\ call' = [call EXCEPT !.phase = "prepared"]
    BY <2>2, <1>1, <1>6, <1>7, OverHttp
  <2> QED
    BY <2>1, <2>2, <1>1
<1>9. TypeOK'
  BY <1>1, <1>4, <1>6, <1>8 DEF ConversationInv, TypeOK, Prepares, Gentle, Slots
<1> QED
  BY <1>1, <1>4, <1>6, <1>7, <1>8, <1>9, SameSession, Combine DEF Prepares

-----------------------------------------------------------------------------
(* Dispatch.                                                               *)

\* A draft the session no longer knows is refused.
LEMMA DispatchUnboundStep ==
    ASSUME ConversationInv, DispatchUnbound
    PROVE  ConversationInv' /\ Undisturbed
<1>1. call' = NoCall /\ UNCHANGED <<ws, slot, conv, stream, known, query, calls>>
  BY DEF DispatchUnbound
<1>2. call' \in Call /\ CallPart'
  BY <1>1, NoCallIdle
<1>3. TypeOK'
  BY <1>1, <1>2 DEF ConversationInv, TypeOK
<1> QED
  BY <1>1, <1>2, <1>3, SameSession, Combine

\* A call may do with its own socket as it likes.
LEMMA OwnSlot ==
    ASSUME ConversationInv, Live, call.socket # None, NEW x \in {"idle", "busy", "closed"},
           slot' = [slot EXCEPT ![call.socket] = x], UNCHANGED stream,
           ws'.socket \in {None, ws.socket}
    PROVE  slot' \in Slots /\ slot'[call.socket] = x /\ SlotsInv' /\ Undisturbed
<1>1. call.socket \in Sockets /\ slot \in Slots
  BY DEF ConversationInv, TypeOK, Call, Slots
<1>2. /\ ws.socket = call.socket
      /\ \A n \in Responses : OnSocket(n) => stream[n].socket # call.socket
  BY DEF ConversationInv, CallSocketInv
<1>3. \A n \in Responses : OnSocket(n) => stream[n].socket \in Sockets
                                          /\ slot[stream[n].socket] \in {"busy", "closed"}
  BY DEF ConversationInv, SlotsInv, TypeOK, Stream, OnSocket, Running, Used
<1>4. /\ slot' \in Slots
      /\ slot'[call.socket] = x
      /\ \A s \in Sockets : s # call.socket => slot'[s] = slot[s]
  BY <1>1 DEF Slots
<1>5. slot[call.socket] # "unused"
  BY <1>2 DEF ConversationInv, SlotsInv
<1>6. \A s \in Sockets : slot'[s] # "unused" <=> slot[s] # "unused"
  BY <1>4, <1>5
<1>7. \E m \in 0 .. Cardinality(Sockets) : \A s \in Sockets : slot'[s] # "unused" <=> s <= m
  <2>1. PICK m \in 0 .. Cardinality(Sockets) : \A s \in Sockets : slot[s] # "unused" <=> s <= m
    BY DEF ConversationInv, SlotsInv
  <2>2. \A s \in Sockets : slot'[s] # "unused" <=> s <= m
    BY <2>1, <1>6
  <2> QED
    BY <2>2
<1>8. Undisturbed
  BY <1>2, <1>3, <1>4 DEF Undisturbed
<1>9. \A n \in Responses : OnSocket(n) => slot'[stream[n].socket] \in {"busy", "closed"}
  BY <1>3, <1>8 DEF Undisturbed
<1>10. ws'.socket # None => slot'[ws'.socket] # "unused"
  BY <1>1, <1>2, <1>5, <1>6
<1> QED
  BY <1>4, <1>7, <1>8, <1>9, <1>10 DEF SlotsInv, OnSocket, Running, Used

\* The session hands the observation over.
LEMMA HandingOver ==
    ASSUME ConversationInv
    PROVE  /\ Forgets(conv, Handed(conv))
           /\ Handed(conv).epoch = conv.epoch
           /\ Handed(conv).pending = None
           /\ ~Handed(conv).binding
<1>1. conv \in State /\ conv.epoch >= conv.epoch
  BY DEF ConversationInv, TypeOK, State
<1>2. /\ Handed(conv) \in State
      /\ Handed(conv).epoch = conv.epoch
      /\ Handed(conv).completed = conv.completed
      /\ Handed(conv).pending = None
  BY <1>1 DEF Handed, State
<1>3. ~Handed(conv).binding
  BY <1>1 DEF Handed, State
<1> QED
  BY <1>1, <1>2, <1>3 DEF Forgets

\* A prepared call that may reach the provider is sent, with its observation.
LEMMA Sending ==
    ASSUME ConversationInv, Live, call.phase = "prepared", NEW o \in Observation \cup {None},
           o # None => Speaks(o, call.q) /\ o.epoch <= conv.epoch,
           call' = [call EXCEPT !.phase = "sent", !.observation = o],
           Forgets(conv, conv'), conv'.epoch = conv.epoch,
           UNCHANGED <<ws, stream, known, query, calls>>,
           IF call.socket = None THEN UNCHANGED slot
           ELSE slot' = [slot EXCEPT ![call.socket] = "busy"]
    PROVE  ConversationInv' /\ Undisturbed
<1>1. /\ call' \in Call
      /\ call'.phase = "sent" /\ call'.q = call.q /\ call'.body = call.body
      /\ call'.attempt = call.attempt /\ call'.inferred = call.inferred
      /\ call'.socket = call.socket /\ call'.full = call.full /\ call'.observation = o
  BY DEF ConversationInv, TypeOK, Call
<1>2. call.q # None /\ call.body # None /\ call.inferred = 0 /\ (call.socket # None => call.full # None)
  BY DEF ConversationInv, CallInv
<1>3. /\ slot' \in Slots /\ SlotsInv' /\ Undisturbed
      /\ call.socket # None => slot'[call.socket] = "busy"
  <2>1. CASE call.socket = None
    <3>1. slot' = slot /\ Gentle(slot') /\ ws' = ws
      BY <2>1, SameSession
    <3>2. ws'.socket \in Sockets \cup {None}
      BY <3>1 DEF ConversationInv, TypeOK, Session
    <3> QED
      BY <2>1, <3>1, <3>2, SameSession, SlotFrame DEF Gentle
  <2>2. CASE call.socket # None
    BY <2>2, OwnSlot
  <2> QED
    BY <2>1, <2>2
<1>4. /\ StreamsInv' /\ EndingInv' /\ EpochInv' /\ SessionInv' /\ CompletedInv'
      /\ ContextIsTheHistory' /\ (NewHistory => NewHistory') /\ (NewCell(ws) => NewCell(ws)')
  BY SameSession, Frame
<1>5. CallInv'
  BY <1>1, <1>2 DEF ConversationInv, CallInv
<1>6. PendingInv'
  BY <1>1 DEF PendingInv, Speaks, Stored
<1>7. CallSocketInv'
  BY <1>1, <1>3 DEF ConversationInv, CallSocketInv, OnSocket, Running, Used, Endpoint
<1>8. BodyInv'
  BY <1>1 DEF ConversationInv, BodyInv, Refers, Found, StandsFor, Context
<1>9. ReplayInv'
  BY <1>1, <1>4 DEF ConversationInv, ReplayInv
<1>10. TypeOK'
  BY <1>1, <1>3 DEF ConversationInv, TypeOK, Forgets, Slots
<1> QED
  BY <1>3, <1>4, <1>5, <1>6, <1>7, <1>8, <1>9, <1>10 DEF ConversationInv

\* dispatch
LEMMA DispatchStep ==
    ASSUME ConversationInv, Dispatch
    PROVE  ConversationInv' /\ Undisturbed
<1>1. /\ call.phase = "prepared"
      /\ Bound
      /\ conv' = Handed(conv)
      /\ call' = [call EXCEPT !.phase = "sent", !.observation = conv.pending]
      /\ IF call.socket = None THEN UNCHANGED slot
         ELSE slot[call.socket] = "idle" /\ slot' = [slot EXCEPT ![call.socket] = "busy"]
      /\ UNCHANGED <<ws, stream, known, query, calls>>
  BY DEF Dispatch
<1>2. Live
  BY <1>1 DEF Live
<1>3. Forgets(conv, conv') /\ conv'.epoch = conv.epoch
  BY <1>1, HandingOver
<1>4. /\ conv.pending \in Observation \cup {None}
      /\ conv.pending # None => Speaks(conv.pending, call.q) /\ conv.pending.epoch <= conv.epoch
  BY <1>1 DEF ConversationInv, TypeOK, State, PendingInv
<1> QED
  BY <1>1, <1>2, <1>3, <1>4, Sending

\* The prewarm request goes over its socket.
LEMMA DispatchPrewarmStep ==
    ASSUME ConversationInv, DispatchPrewarm
    PROVE  ConversationInv' /\ Undisturbed
<1>1. /\ call.phase = "prepared"
      /\ call.prewarm
      /\ slot' = [slot EXCEPT ![call.socket] = "busy"]
      /\ call' = [call EXCEPT !.phase = "sent"]
      /\ UNCHANGED <<ws, conv, stream, known, query, calls>>
  BY DEF DispatchPrewarm
<1>2. Live
  BY <1>1 DEF Live
<1>3. call.socket # None /\ call.observation = None
  BY <1>1 DEF ConversationInv, CallInv
<1>4. call' = [call EXCEPT !.phase = "sent", !.observation = None]
  BY <1>1, <1>3 DEF ConversationInv, TypeOK, Call
<1>5. Forgets(conv, conv') /\ conv'.epoch = conv.epoch
  BY <1>1, SameSession
<1> QED
  BY <1>1, <1>2, <1>3, <1>4, <1>5, Sending

\* Nobody but the running call reports to the cell of its socket.
LEMMA CallIsAlone ==
    ASSUME ConversationInv, Live, call.socket # None
    PROVE  Quiet(ws)
  BY DEF ConversationInv, CallSocketInv, SessionInv, CellsFit, Quiet, Reporting, OnSocket, Running

\* Admission, a closed socket or the transport refuses; nothing is replayed.
LEMMA DispatchFailsStep ==
    ASSUME ConversationInv, DispatchFails
    PROVE  ConversationInv' /\ Undisturbed
<1>1. /\ (call.phase = "prepared" /\ Bound) \/ call.phase = "sent"
      /\ conv' = Handed(conv)
      /\ IF call.socket = None THEN UNCHANGED <<ws, slot>>
         ELSE /\ ws' \in {[Cleared(ws, TRUE) EXCEPT !.socket = None], FailedToHttp(ws)}
              /\ slot' = [slot EXCEPT ![call.socket] = "closed"]
      /\ call' = NoCall
      /\ UNCHANGED <<stream, known, query, calls>>
  BY DEF DispatchFails
<1>2. Live
  BY <1>1 DEF Live
<1>3. Forgets(conv, conv')
  BY <1>1, HandingOver
<1>4. call' \in Call /\ CallPart'
  BY <1>1, NoCallIdle
<1>5. CASE call.socket = None
  <2>1. TypeOK'
    BY <1>1, <1>3, <1>4, <1>5 DEF ConversationInv, TypeOK, Forgets
  <2> QED
    BY <2>1, <1>1, <1>3, <1>4, <1>5, SameSession, Combine
<1>6. CASE call.socket # None
  <2>1. ws \in Session
    BY DEF ConversationInv, TypeOK
  <2>2. /\ ws' \in Session /\ ws'.socket = None /\ ws'.identity = ws.identity
        /\ ws'.cell = ws.cell /\ ws'.last = None
    <3>1. CASE ws' = FailedToHttp(ws)
      BY <3>1, <2>1, GivingUp
    <3>2. CASE ws' = [Cleared(ws, TRUE) EXCEPT !.socket = None]
      <4> DEFINE u == Cleared(ws, TRUE)
      <4>1. u \in Session /\ u.identity = ws.identity /\ u.cell = ws.cell /\ u.last = None
        BY <2>1, Clearing
      <4>2. ws' = [u EXCEPT !.socket = None]
        BY <3>2
      <4> HIDE DEF u
      <4> QED
        BY <4>1, <4>2 DEF Session
    <3> QED
      BY <3>1, <3>2, <1>1, <1>6
  <2>3. CellsFit(ws') /\ LastFits(ws')
    BY <2>2, <1>2, <1>6, CallIsAlone, QuietFits DEF ConversationInv, SessionInv
  <2>4. slot' \in Slots /\ SlotsInv' /\ Undisturbed
    BY <2>2, <1>1, <1>2, <1>6, OwnSlot
  <2>5. /\ StreamsInv' /\ EndingInv' /\ EpochInv' /\ SessionInv' /\ CompletedInv'
        /\ ContextIsTheHistory'
    BY <2>3, <1>1, <1>3, Frame
  <2>6. TypeOK'
    BY <2>2, <2>4, <1>1, <1>3, <1>4 DEF ConversationInv, TypeOK, Forgets, Slots
  <2> QED
    BY <2>4, <2>5, <2>6, <1>4 DEF ConversationInv, CallPart
<1> QED
  BY <1>5, <1>6

\* The next response is the first one that was not asked for yet.
LEMMA NextIsUnused ==
    ASSUME TypeOK, StreamsInv, NextResponse \in Responses
    PROVE  /\ ~Used(NextResponse)
           /\ NextResponse \in 0 .. MaxResponses
           /\ \A n \in Responses : Used(n) \/ n = NextResponse <=> n <= NextResponse
<1>1. PICK m \in 0 .. MaxResponses : \A n \in Responses : Used(n) <=> n <= m
  BY DEF StreamsInv
<1> DEFINE S == {n \in Responses : stream[n] # None}
<1>2. S = 1 .. m
  BY <1>1 DEF Used, Responses
<1>3. Cardinality(1 .. m) = m /\ m \in Nat
  <2>1. m \in Nat /\ m \in Int /\ 1 \in Int
    OBVIOUS
  <2>2. Cardinality(1 .. m) = IF 1 > m THEN 0 ELSE m - 1 + 1
    BY <2>1, FS_Interval
  <2> QED
    BY <2>1, <2>2
<1>4. NextResponse = m + 1
  BY <1>2, <1>3 DEF NextResponse
<1> HIDE DEF S
<1> QED
  BY <1>1, <1>3, <1>4 DEF Responses

\* Items that are not the caller's: outputs, and what a conversation of the
\* caller's own holds.
LEMMA ItemsInclude == None \in Items /\ Outputs \subseteq Items
<1> DEFINE A == UNION {{q.items[i] : i \in DOMAIN q.items} : q \in Requests}
<1>1. Items = A \cup Outputs \cup {None}
  BY DEF Items
<1> HIDE DEF A
<1> QED
  BY <1>1

\* The context of a sent body is a history.
LEMMA ContextIsAHistory ==
    ASSUME TypeOK, NEW body \in Body, body.prev \in Responses => known[body.prev] # None
    PROVE  Context(body) \in Seq(Items)
<1>1. body.prev \in 0 .. MaxResponses \cup {None} /\ body.items \in Seq(Items)
  BY DEF Body
<1>2. CASE body.prev = None
  BY <1>1, <1>2 DEF Context, Explicit
<1>3. CASE body.prev = Explicit
  <2>1. body.prev # None
    BY <1>3 DEF Explicit
  <2>2. Context(body) = <<None>> \o body.items
    BY <1>3, <2>1 DEF Context
  <2>3. None \in Items
    BY ItemsInclude
  <2>4. <<None>> \in Seq(Items)
    BY <2>3
  <2> QED
    BY <2>2, <2>4, <1>1
<1>4. CASE body.prev # None /\ body.prev # Explicit
  <2>1. body.prev \in Responses
    BY <1>1, <1>4 DEF Responses, Explicit
  <2>2. known[body.prev] \in Known
    BY <2>1 DEF TypeOK
  <2>3. known[body.prev].context \in Seq(Items)
    BY <2>2 DEF Known
  <2>4. Context(body) = known[body.prev].context \o body.items
    BY <1>4 DEF Context
  <2> QED
    BY <1>1, <2>3, <2>4
<1> QED
  BY <1>2, <1>3, <1>4

\* Inference begins, in the context the body stands for.
LEMMA InferStep ==
    ASSUME ConversationInv, Infer
    PROVE  ConversationInv' /\ Undisturbed
<1>0. PICK n \in Responses : n = NextResponse
  BY DEF Infer
<1> DEFINE q == call.q
           x == Context(call.body)
           r == [q |-> q, asked |-> q.items, context |-> x,
                 socket |-> call.socket, cell |-> ws.cell, body |-> call.full,
                 observation |-> call.observation, query |-> query, prewarm |-> call.prewarm,
                 stage |-> "open", ending |-> None]
<1>1. /\ call.phase = "sent"
      /\ stream' = [stream EXCEPT ![n] = r]
      /\ call' = IF q.stream THEN NoCall ELSE [call EXCEPT !.phase = "collecting", !.inferred = @ + 1]
      /\ UNCHANGED <<ws, slot, conv, known, query, calls>>
  BY <1>0 DEF Infer
<1>2. Live
  BY <1>1 DEF Live
<1>3. call \in Call /\ q \in Requests /\ call.body \in Body /\ call.inferred = 0
  BY <1>1 DEF ConversationInv, CallInv, TypeOK, Call
<1>4. /\ ~Used(n) /\ n \in 0 .. MaxResponses
      /\ \A m \in Responses : Used(m) \/ m = n <=> m <= n
  BY <1>0, NextIsUnused DEF ConversationInv
<1>5. /\ Refers(call.body, q, call.socket)
      /\ q.explicit = "no" => x = q.items
      /\ call.full # None /\ call.full.prev = None => x = call.full.items
  BY <1>2 DEF ConversationInv, BodyInv, StandsFor
<1>6. x \in Seq(Items)
  BY <1>3, <1>5, ContextIsAHistory DEF ConversationInv, Refers
<1>7. /\ call.observation # None => Speaks(call.observation, q) /\ call.observation.epoch <= conv.epoch
  BY <1>1 DEF ConversationInv, PendingInv
<1>8. /\ call.socket # None =>
            /\ ws.socket = call.socket /\ ws.identity = Endpoint(q)
            /\ slot[call.socket] = "busy" /\ call.full # None
            /\ \A m \in Responses : OnSocket(m) => stream[m].socket # call.socket
  BY <1>1, <1>2 DEF ConversationInv, CallSocketInv, CallInv
<1> HIDE DEF x
<1>9. /\ r.q = q /\ r.asked = q.items /\ r.context = x /\ r.socket = call.socket
      /\ r.cell = ws.cell /\ r.body = call.full /\ r.observation = call.observation
      /\ r.query = query /\ r.stage = "open"
  OBVIOUS
<1>10. r \in Stream
  <2>1. q.items \in Seq(Items)
    BY <1>3 DEF Request
  <2>2. ws.cell \in Nat /\ query \in Nat
    BY DEF ConversationInv, TypeOK, Session
  <2>3. /\ call.socket \in Sockets \cup {None} /\ call.full \in Body \cup {None}
        /\ call.observation \in Observation \cup {None}
    BY <1>3 DEF Call
  <2>4. call.prewarm \in BOOLEAN
    BY <1>3 DEF Call
  <2> HIDE DEF q
  <2> QED
    BY <2>1, <2>2, <2>3, <2>4, <1>3, <1>6 DEF Stream
<1> HIDE DEF r
<1>11. /\ stream' \in [Responses -> Stream \cup {None}]
       /\ stream'[n] = r /\ r # None
       /\ \A m \in Responses : m # n => stream'[m] = stream[m]
  BY <1>1, <1>10 DEF ConversationInv, TypeOK
<1>12. /\ \A m \in Responses : Used(m)' <=> Used(m) \/ m = n
       /\ \A m \in Responses : m # n => (Running(m)' <=> Running(m)) /\ (OnSocket(m)' <=> OnSocket(m))
       /\ \A m \in Responses : m # n =>
             (Reporting(m)' <=> Reporting(m)) /\ (Listening(m)' <=> Listening(m))
       /\ Running(n)' /\ (OnSocket(n)' <=> call.socket # None)
       /\ (Reporting(n)' <=> call.socket # None) /\ (Listening(n)' <=> call.observation # None)
  BY <1>9, <1>11 DEF Used, Running, OnSocket, Reporting, Listening
<1>13. call' \in Call /\ CallPart'
  <2>1. CASE q.stream
    BY <2>1, <1>1, NoCallIdle
  <2>2. CASE ~q.stream
    <3>1. call' = [call EXCEPT !.phase = "collecting", !.inferred = 1]
      BY <2>2, <1>1, <1>3
    <3>2. call.socket # None => call.full # None
      BY DEF ConversationInv, CallInv
    <3>3. /\ call' \in Call /\ call'.phase = "collecting" /\ call'.inferred = 1
          /\ call'.q = q /\ call'.socket = call.socket /\ call'.full = call.full
      BY <3>1, <1>3 DEF Call
    <3>4. ~Live'
      BY <3>3 DEF Live
    <3>5. CallInv' /\ PendingInv' /\ ReplayInv'
      BY <3>2, <3>3, <1>3 DEF CallInv, PendingInv, ReplayInv
    <3> QED
      BY <3>3, <3>4, <3>5, NotLive
  <2> QED
    BY <2>1, <2>2
<1>14. TypeOK'
  BY <1>1, <1>11, <1>13 DEF ConversationInv, TypeOK
<1>15. StreamsInv'
  <2>1. \E m \in 0 .. MaxResponses : \A k \in Responses : Used(k)' <=> k <= m
    BY <1>4, <1>12
  <2>2. \A k \in Responses : Running(k)' \/ ~Used(k)' => known[k] = None
    BY <1>4, <1>12 DEF ConversationInv, StreamsInv
  <2>3. \A k \in Responses : Reporting(k)' =>
            /\ stream'[k].body # None
            /\ stream'[k].body.prev = None => stream'[k].context = stream'[k].body.items
    <3> SUFFICES ASSUME NEW k \in Responses, Reporting(k)'
                 PROVE  /\ stream'[k].body # None
                        /\ stream'[k].body.prev = None => stream'[k].context = stream'[k].body.items
      OBVIOUS
    <3>1. CASE k = n
      BY <3>1, <1>5, <1>8, <1>9, <1>11, <1>12
    <3>2. CASE k # n
      BY <3>2, <1>11, <1>12 DEF ConversationInv, StreamsInv
    <3> QED
      BY <3>1, <3>2
  <2>4. ASSUME NEW j \in Responses, NEW k \in Responses, OnSocket(j)', OnSocket(k)',
               stream'[j].socket = stream'[k].socket
        PROVE  j = k
    <3>1. CASE j # n /\ k # n
      BY <2>4, <3>1, <1>11, <1>12 DEF ConversationInv, StreamsInv
    <3>2. CASE j = n /\ k # n
      BY <2>4, <3>2, <1>8, <1>9, <1>11, <1>12
    <3>3. CASE j # n /\ k = n
      BY <2>4, <3>3, <1>8, <1>9, <1>11, <1>12
    <3> QED
      BY <3>1, <3>2, <3>3
  <2> QED
    BY <2>1, <2>2, <2>3, <2>4, <1>1 DEF StreamsInv
<1>16. SlotsInv'
  <2>1. ASSUME NEW k \in Responses, OnSocket(k)' PROVE slot[stream'[k].socket] \in {"busy", "closed"}
    <3>1. CASE k = n
      BY <2>1, <3>1, <1>8, <1>9, <1>11, <1>12
    <3>2. CASE k # n
      BY <2>1, <3>2, <1>11, <1>12 DEF ConversationInv, SlotsInv
    <3> QED
      BY <3>1, <3>2
  <2>2. /\ \E m \in 0 .. Cardinality(Sockets) : \A s \in Sockets : slot'[s] # "unused" <=> s <= m
        /\ ws'.socket # None => slot'[ws'.socket] # "unused"
    BY <1>1 DEF ConversationInv, SlotsInv
  <2> QED
    BY <2>1, <2>2, <1>1 DEF SlotsInv
<1>17. EpochInv'
  <2> SUFFICES ASSUME NEW k \in Responses, Listening(k)'
               PROVE  /\ Speaks(stream'[k].observation, stream'[k].q)
                      /\ stream'[k].context = stream'[k].observation.items
                      /\ stream'[k].observation.epoch <= conv.epoch
                      /\ stream'[k].observation.epoch = conv.epoch => stream'[k].query = query
    BY <1>1 DEF EpochInv, Speaks, Stored
  <2>1. CASE k = n
    BY <2>1, <1>5, <1>7, <1>9, <1>11, <1>12 DEF Speaks
  <2>2. CASE k # n
    BY <2>2, <1>11, <1>12 DEF ConversationInv, EpochInv
  <2> QED
    BY <2>1, <2>2
<1>18. SessionInv'
  <2>1. ASSUME NEW k \in Responses, Reporting(k)'
        PROVE  /\ stream'[k].cell <= ws.cell
               /\ stream'[k].cell = ws.cell =>
                     /\ stream'[k].stage = "open" => ws.socket = stream'[k].socket
                     /\ stream'[k].query = query
                     /\ ws.identity # None
                     /\ ws.identity[1] = stream'[k].q.identity
    <3>1. CASE k = n
      <4>1. Endpoint(q) # None /\ Endpoint(q)[1] = q.identity
        <5>1. Endpoint(q) \in Identities \X Transports
          BY <1>3, Reaching DEF ConversationInv
        <5> QED
          BY <5>1 DEF Endpoint
      <4>2. ws.cell <= ws.cell
        BY DEF ConversationInv, TypeOK, Session
      <4> QED
        BY <2>1, <3>1, <4>1, <4>2, <1>8, <1>9, <1>11, <1>12
    <3>2. CASE k # n
      BY <2>1, <3>2, <1>11, <1>12 DEF ConversationInv, SessionInv, CellsFit
    <3> QED
      BY <3>1, <3>2
  <2>2. CellsFit(ws)'
    BY <2>1, <1>1 DEF CellsFit
  <2>3. LastFits(ws)'
    BY <1>1 DEF ConversationInv, SessionInv, LastFits, Found
  <2> QED
    BY <2>2, <2>3 DEF SessionInv
<1>19. CompletedInv'
  BY <1>1 DEF ConversationInv, CompletedInv
<1>20. ContextIsTheHistory'
  <2> SUFFICES ASSUME NEW k \in Responses, stream'[k] # None, stream'[k].q.explicit = "no"
               PROVE  stream'[k].context = stream'[k].asked
    BY DEF ContextIsTheHistory
  <2>1. CASE k = n
    BY <2>1, <1>5, <1>9, <1>11
  <2>2. CASE k # n
    BY <2>2, <1>11 DEF ConversationInv, ContextIsTheHistory
  <2> QED
    BY <2>1, <2>2
<1>21. Undisturbed
  BY <1>1 DEF Undisturbed
<1>22. EndingInv'
  <2> SUFFICES ASSUME NEW j \in Responses, Used(j)'
               PROVE  /\ stream'[j].stage = "released" =>
                            /\ stream'[j].socket # None
                            /\ stream'[j].ending # None
                            /\ known'[j] # None =>
                                  known'[j].socket = stream'[j].socket /\ ~known'[j].late
                      /\ stream'[j].stage \in {"released", "observed"} /\ Good(stream'[j].ending) =>
                            Remembered(j, stream[j].ending)'
                      /\ stream'[j].stage = "observed" /\ stream'[j].ending # None =>
                            stream'[j].ending.kind = "completed"
    BY DEF EndingInv, Good
  <2>1. CASE j = n
    BY <2>1, <1>9, <1>11
  <2>2. CASE j # n
    <3>1. stream'[j] = stream[j] /\ Used(j) /\ known'[j] = known[j]
      BY <2>2, <1>1, <1>11, <1>12
    <3> QED
      BY <3>1 DEF ConversationInv, EndingInv, Good, Remembered, Stored
  <2> QED
    BY <2>1, <2>2
<1> QED
  BY <1>13, <1>14, <1>15, <1>16, <1>17, <1>18, <1>19, <1>20, <1>21, <1>22
     DEF ConversationInv, CallPart

\* A request that is turned down is over, or replayed once with its whole history.
LEMMA TurnDownStep ==
    ASSUME ConversationInv, NEW kind \in Replayable \cup {"failed"}, NEW inferred \in BOOLEAN,
           TurnDown(kind, inferred)
    PROVE  ConversationInv' /\ Undisturbed
<1> DEFINE again == call.attempt = 0 /\ Recoverable(kind)
<1>1. /\ call.phase = "sent"
      /\ kind \in Replayable => ~inferred
      /\ IF again
           THEN /\ ws' = Detached(ws)
                /\ conv' = [Forgotten(conv) EXCEPT
                               !.recovery = TRUE,
                               !.disabled = IF kind = "unsupported" THEN conv.identity ELSE @]
                /\ call' = [NoCall EXCEPT !.phase = "preparing", !.q = call.q, !.attempt = 1,
                                          !.inferred = call.inferred + IF inferred THEN 1 ELSE 0]
           ELSE /\ ws' = IF call.socket = None THEN ws ELSE Cleared(ws, TRUE)
                /\ call' = NoCall
                /\ UNCHANGED conv
      /\ slot' = IF call.socket = None THEN Abandoned(ws, ws')
                 ELSE AfterGeneration(ws', call.socket, TRUE)
      /\ UNCHANGED <<stream, known, query, calls>>
  BY DEF TurnDown
<1>2. Live
  BY <1>1 DEF Live
<1>3. call.q \in Requests /\ call.inferred = 0 /\ ws \in Session /\ conv \in State
  BY <1>1 DEF ConversationInv, CallInv, TypeOK, Call
<1>4. again => ~inferred
  BY <1>1 DEF Recoverable, Replayable
<1> HIDE DEF again
<1>5. /\ ws' \in Session /\ ws'.socket \in {None, ws.socket}
      /\ CellsFit(ws') /\ LastFits(ws') /\ (again => NewCell(ws'))
  <2>1. CASE again
    <3>1. /\ ws' \in Session /\ ws'.socket = None /\ ws'.cell = ws.cell + 1 /\ ws'.last = None
      BY <2>1, <1>1, <1>3, Detaching
    <3> QED
      BY <3>1, <1>3, RenewedPrepares DEF ConversationInv, SessionInv, Prepares
  <2>2. CASE ~again /\ call.socket = None
    BY <2>2, <1>1, SameSession
  <2>3. CASE ~again /\ call.socket # None
    <3>1. /\ ws' \in Session /\ ws'.socket = ws.socket /\ ws'.identity = ws.identity
          /\ ws'.cell = ws.cell /\ ws'.last = None
      BY <2>3, <1>1, <1>3, Clearing
    <3> QED
      BY <2>3, <3>1, <1>2, CallIsAlone, QuietFits DEF ConversationInv, SessionInv
  <2> QED
    BY <2>1, <2>2, <2>3
<1>6. /\ conv' \in State /\ Forgets(conv, conv')
      /\ again => conv'.epoch > conv.epoch /\ conv'.completed = None
  <2>1. CASE again
    <3> DEFINE f == Forgotten(conv)
               d == IF kind = "unsupported" THEN conv.identity ELSE f.disabled
    <3>1. f \in State /\ f.epoch = conv.epoch + 1 /\ f.completed = None
      BY <1>3, Forgetting DEF Forgets
    <3>2. conv' = [f EXCEPT !.recovery = TRUE, !.disabled = d]
      BY <2>1, <1>1
    <3>3. d \in Identities \cup {None}
      BY <1>3, <3>1 DEF State
    <3> HIDE DEF f, d
    <3>4. conv' \in State /\ conv'.epoch = f.epoch /\ conv'.completed = f.completed
      BY <3>1, <3>2, <3>3 DEF State
    <3>5. conv.epoch \in Nat
      BY <1>3 DEF State
    <3>6. f.epoch > conv.epoch /\ f.epoch >= conv.epoch
      BY <3>1, <3>5
    <3> QED
      BY <3>1, <3>4, <3>6 DEF Forgets
  <2>2. CASE ~again
    BY <2>2, <1>1, <1>3, SameSession
  <2> QED
    BY <2>1, <2>2
<1>7. slot' \in Slots /\ SlotsInv' /\ Undisturbed
  <2>1. CASE call.socket = None
    <3>1. Gentle(slot')
      BY <2>1, <1>1, SameSession, Abandoning DEF Session, ConversationInv
    <3>2. ws'.socket \in Sockets \cup {None} /\ (ws'.socket # None => slot[ws'.socket] # "unused")
      BY <1>3, <1>5, SameSession DEF Session
    <3> QED
      BY <3>1, <3>2, <1>1, SlotFrame DEF Gentle
  <2>2. CASE call.socket # None
    <3> DEFINE x == IF TRUE /\ ws'.socket = call.socket THEN "idle" ELSE "closed"
    <3>1. slot' = [slot EXCEPT ![call.socket] = x]
      BY <2>2, <1>1 DEF AfterGeneration
    <3>2. x \in {"idle", "busy", "closed"}
      OBVIOUS
    <3> HIDE DEF x
    <3> QED
      BY <2>2, <3>1, <3>2, <1>1, <1>2, <1>5, OwnSlot
  <2> QED
    BY <2>1, <2>2
<1>8. /\ StreamsInv' /\ EndingInv' /\ EpochInv' /\ SessionInv' /\ CompletedInv'
      /\ ContextIsTheHistory' /\ (NewCell(ws') => NewCell(ws)')
  BY <1>1, <1>5, <1>6, Frame
<1>9. call' \in Call /\ CallPart'
  <2>1. CASE ~again
    BY <2>1, <1>1, NoCallIdle
  <2>2. CASE again
    <3>1. call' = [NoCall EXCEPT !.phase = "preparing", !.q = call.q, !.attempt = 1, !.inferred = 0]
      BY <2>2, <1>1, <1>3, <1>4
    <3>2. /\ call' \in Call
          /\ call'.phase = "preparing" /\ call'.q = call.q /\ call'.attempt = 1
          /\ call'.inferred = 0 /\ call'.socket = None /\ call'.full = None
          /\ call'.observation = None
      BY <3>1, <1>3 DEF NoCall, Call
    <3>3. ~call'.prewarm
      BY <3>1 DEF NoCall
    <3>4. ~Live'
      BY <3>2 DEF Live
    <3>5. CallInv' /\ PendingInv'
      BY <3>2, <3>3, <1>3 DEF CallInv, PendingInv
    <3>6. NewHistory'
      <4>1. \A n \in Responses : Listening(n) => stream[n].observation.epoch < conv'.epoch
        BY <2>2, <1>6, NewEpoch DEF ConversationInv
      <4> QED
        BY <4>1, <2>2, <1>1, <1>6 DEF NewHistory, Listening, Used
    <3>7. ReplayInv'
      BY <2>2, <3>2, <3>6, <1>5, <1>8 DEF ReplayInv
    <3> QED
      BY <3>2, <3>4, <3>5, <3>7, NotLive
  <2> QED
    BY <2>1, <2>2
<1>10. TypeOK'
  BY <1>1, <1>5, <1>6, <1>7, <1>9 DEF ConversationInv, TypeOK, Slots
<1> QED
  BY <1>7, <1>8, <1>9, <1>10 DEF ConversationInv, CallPart

-----------------------------------------------------------------------------
(* The owner of the session.                                               *)

\* An operation of the owner starts a new history and a new cell, and unbinds
\* what was prepared.
LEMMA StartingOver ==
    ASSUME ConversationInv, Operation, UNCHANGED <<call, stream, known>>, query' \in Nat,
           ws' \in Session, ws'.cell > ws.cell, ws'.last = None,
           conv' \in State, conv'.epoch > conv.epoch, conv'.completed = None, ~conv'.binding,
           conv'.pending = None, slot' \in Slots, SlotsInv'
    PROVE  ConversationInv'
<1>1. ~call.prewarm /\ call.phase \in {"idle", "prepared"} /\ calls' = calls + 1
  BY DEF Operation
<1>2. \A n \in Responses : Listening(n) =>
         stream[n].observation.epoch < conv'.epoch
  BY NewEpoch DEF ConversationInv
<1>3. NewCell(ws')
  BY NewCellFits DEF ConversationInv, TypeOK, SessionInv
<1>4. TypeOK'
  BY <1>1 DEF ConversationInv, TypeOK, Slots
<1>5. StreamsInv' /\ EndingInv'
  BY DEF ConversationInv, StreamsInv, EndingInv, Good, Remembered, Stored, OnSocket, Running,
         Reporting, Used
<1>6. CallInv'
  BY DEF ConversationInv, CallInv
<1>7. EpochInv'
  <2> SUFFICES ASSUME NEW n \in Responses, Listening(n)
               PROVE  /\ Speaks(stream[n].observation, stream[n].q)
                      /\ stream[n].context = stream[n].observation.items
                      /\ stream[n].observation.epoch <= conv'.epoch
                      /\ stream[n].observation.epoch # conv'.epoch
    BY DEF EpochInv, Listening, Used, Speaks, Stored
  <2>1. stream[n].observation.epoch \in Nat /\ conv'.epoch \in Nat
    BY DEF ConversationInv, TypeOK, Stream, Observation, Listening, Used, State
  <2>2. stream[n].observation.epoch < conv'.epoch
    BY <1>2
  <2>3. /\ stream[n].observation.epoch <= conv'.epoch
        /\ stream[n].observation.epoch # conv'.epoch
    BY <2>1, <2>2
  <2> QED
    BY <2>3 DEF ConversationInv, EpochInv
<1>8. PendingInv'
  BY <1>1 DEF PendingInv
<1>9. SessionInv'
  <2>1. ASSUME NEW n \in Responses, Reporting(n)
        PROVE  stream[n].cell <= ws'.cell /\ stream[n].cell # ws'.cell
    <3>1. stream[n].cell \in Nat /\ ws'.cell \in Nat
      BY <2>1 DEF ConversationInv, TypeOK, Stream, Reporting, Used, Session
    <3>2. stream[n].cell < ws'.cell
      BY <2>1, <1>3 DEF NewCell
    <3> QED
      BY <3>1, <3>2
  <2> QED
    BY <2>1 DEF SessionInv, CellsFit, LastFits, Reporting, Used
<1>10. CompletedInv'
  BY DEF CompletedInv
<1>11. ~Live'
  BY <1>1 DEF Live, Bound
<1>12. ReplayInv'
  <2>1. NewHistory' /\ NewCell(ws)'
    BY <1>2, <1>3 DEF NewHistory, NewCell, Reporting, Listening, Used
  <2> QED
    BY <2>1 DEF ConversationInv, ReplayInv
<1>13. CallPart'
  BY <1>6, <1>8, <1>11, <1>12, NotLive
<1>14. ContextIsTheHistory'
  BY DEF ConversationInv, ContextIsTheHistory
<1> QED
  BY <1>4, <1>5, <1>7, <1>9, <1>10, <1>13, <1>14 DEF ConversationInv, CallPart

\* reset
LEMMA ResetStep ==
    ASSUME ConversationInv, Reset
    PROVE  ConversationInv' /\ Undisturbed
<1>1. /\ Operation
      /\ query' = query + 1
      /\ ws' = Detached(ws)
      /\ slot' = Abandoned(ws, ws')
      /\ conv' = Forgotten(conv)
      /\ UNCHANGED <<call, stream, known>>
  BY DEF Reset
<1>2. ws \in Session /\ conv \in State /\ query \in Nat
  BY DEF ConversationInv, TypeOK
<1>3. /\ ws' \in Session /\ ws'.socket = None /\ ws'.cell = ws.cell + 1 /\ ws'.last = None
  BY <1>1, <1>2, Detaching
<1>4. /\ conv' \in State /\ conv'.epoch = conv.epoch + 1 /\ conv'.completed = None
      /\ conv'.pending = None /\ ~conv'.binding
  BY <1>1, <1>2, Forgetting DEF Forgets
<1>5. ws'.cell > ws.cell /\ conv'.epoch > conv.epoch /\ query' \in Nat
  BY <1>1, <1>2, <1>3, <1>4 DEF Session, State
<1>6. Gentle(slot')
  BY <1>1, SameSession, Abandoning DEF Session, ConversationInv
<1>7. SlotsInv' /\ Undisturbed
  BY <1>1, <1>3, <1>6, SlotFrame
<1> QED
  BY <1>1, <1>3, <1>4, <1>5, <1>6, <1>7, StartingOver DEF Gentle

\* clear_history_preserving_transport
LEMMA ClearHistoryStep ==
    ASSUME ConversationInv, ClearHistory
    PROVE  ConversationInv' /\ Undisturbed
<1> DEFINE f == Forgotten(conv)
<1>1. /\ Operation
      /\ query' = query + 1
      /\ ws' = ResetState(ws, ws.fallback)
      /\ conv' = [f EXCEPT !.recovery = FALSE, !.capability = None, !.identity = None]
      /\ UNCHANGED <<slot, call, stream, known>>
  BY DEF ClearHistory
<1>2. ws \in Session /\ conv \in State /\ query \in Nat
  BY DEF ConversationInv, TypeOK
<1>3. ws.fallback \in BOOLEAN
  BY <1>2 DEF Session
<1>4. /\ ws' \in Session /\ ws'.socket = ws.socket /\ ws'.cell = ws.cell + 1 /\ ws'.last = None
  BY <1>1, <1>2, <1>3, Resetting
<1>5. /\ f \in State /\ f.epoch = conv.epoch + 1 /\ f.completed = None /\ f.pending = None
      /\ ~f.binding
  BY <1>2, Forgetting DEF Forgets
<1> HIDE DEF f
<1>6. /\ conv' \in State /\ conv'.epoch = f.epoch /\ conv'.completed = f.completed
      /\ conv'.pending = f.pending /\ conv'.binding = f.binding
  BY <1>1, <1>5 DEF State
<1>7. ws'.cell > ws.cell /\ conv'.epoch > conv.epoch /\ query' \in Nat
  BY <1>1, <1>2, <1>4, <1>5, <1>6 DEF Session, State
<1>8. ws'.socket \in Sockets \cup {None}
  BY <1>4 DEF Session
<1>9. Gentle(slot') /\ SlotsInv' /\ Undisturbed
  BY <1>1, <1>4, <1>8, SameSession, SlotFrame
<1> QED
  BY <1>1, <1>4, <1>5, <1>6, <1>7, <1>9, StartingOver DEF Gentle

\* close, which interrupts a generation on the session's socket.
LEMMA CloseStep ==
    ASSUME ConversationInv, Close
    PROVE  ConversationInv'
<1> DEFINE u == Detached(ws)
<1>1. /\ Operation
      /\ query' = query + 1
      /\ ws' = Detached(u)
      /\ slot' = ClosedSlot(ws)
      /\ conv' = Forgotten(conv)
      /\ UNCHANGED <<call, stream, known>>
  BY DEF Close
<1>2. ws \in Session /\ conv \in State /\ query \in Nat /\ slot \in Slots
  BY DEF ConversationInv, TypeOK, Slots
<1>3. u \in Session /\ u.cell = ws.cell + 1
  BY <1>2, Detaching
<1> HIDE DEF u
<1>4. /\ ws' \in Session /\ ws'.socket = None /\ ws'.cell = u.cell + 1 /\ ws'.last = None
  BY <1>1, <1>3, Detaching
<1>5. /\ conv' \in State /\ conv'.epoch = conv.epoch + 1 /\ conv'.completed = None
      /\ conv'.pending = None /\ ~conv'.binding
  BY <1>1, <1>2, Forgetting DEF Forgets
<1>6. ws'.cell > ws.cell /\ conv'.epoch > conv.epoch /\ query' \in Nat
  <2>1. ws.cell \in Nat /\ conv.epoch \in Nat
    BY <1>2 DEF Session, State
  <2> QED
    BY <2>1, <1>1, <1>2, <1>3, <1>4, <1>5
<1>7. /\ slot' \in Slots
      /\ \A s \in Sockets : slot'[s] = slot[s] \/ (slot'[s] = "closed" /\ slot[s] # "unused")
  <2>1. CASE ws.socket = None
    BY <2>1, <1>1, <1>2 DEF ClosedSlot
  <2>2. CASE ws.socket # None
    <3>1. ws.socket \in Sockets /\ slot[ws.socket] # "unused"
      BY <2>2, <1>2 DEF Session, ConversationInv, SlotsInv
    <3> QED
      BY <2>2, <3>1, <1>1, <1>2 DEF ClosedSlot, Slots
  <2> QED
    BY <2>1, <2>2
<1>8. SlotsInv'
  <2>1. PICK m \in 0 .. Cardinality(Sockets) : \A s \in Sockets : slot[s] # "unused" <=> s <= m
    BY DEF ConversationInv, SlotsInv
  <2>2. \A s \in Sockets : slot'[s] # "unused" <=> s <= m
    BY <2>1, <1>7
  <2>3. \A n \in Responses : OnSocket(n) => stream[n].socket \in Sockets
                                            /\ slot[stream[n].socket] \in {"busy", "closed"}
    BY DEF ConversationInv, SlotsInv, TypeOK, Stream, OnSocket, Running, Used
  <2>4. \A n \in Responses : OnSocket(n) => slot'[stream[n].socket] \in {"busy", "closed"}
    BY <2>3, <1>7
  <2> QED
    BY <2>2, <2>4, <1>1, <1>4 DEF SlotsInv, OnSocket, Running, Used
<1> QED
  BY <1>1, <1>4, <1>5, <1>6, <1>7, <1>8, StartingOver

\* A prewarm request is the caller's own.
LEMMA PrewarmStep ==
    ASSUME ConversationInv, NEW q \in Requests, Prewarm(q)
    PROVE  ConversationInv' /\ Undisturbed
<1>1. /\ calls' = calls + 1
      /\ conv' = Handed(conv)
      /\ call' = [NoCall EXCEPT !.phase = "connecting", !.q = q, !.prewarm = TRUE,
                                !.body = BodyOf(q)]
      /\ UNCHANGED <<ws, slot, stream, known, query>>
  BY DEF Prewarm, Operation
<1>2. Forgets(conv, conv') /\ conv'.pending = None
  BY <1>1, HandingOver
<1>3. BodyOf(q) \in Body /\ BodyOf(q) # None /\ q # None
  BY OwnBody
<1>4. /\ call' \in Call
      /\ call'.phase = "connecting" /\ call'.q = q /\ call'.body = BodyOf(q)
      /\ call'.attempt = 0 /\ call'.inferred = 0 /\ call'.socket = None
      /\ call'.full = None /\ call'.observation = None
  <2> DEFINE b == BodyOf(q)
  <2>1. call' = [NoCall EXCEPT !.phase = "connecting", !.q = q, !.prewarm = TRUE, !.body = b]
    BY <1>1
  <2>2. b \in Body
    BY <1>3
  <2> HIDE DEF b
  <2>3. call' \in Call /\ call'.body = b
    BY <2>1, <2>2 DEF NoCall, Call
  <2>4. /\ call'.phase = "connecting" /\ call'.q = q
        /\ call'.attempt = 0 /\ call'.inferred = 0 /\ call'.socket = None
        /\ call'.full = None /\ call'.observation = None
    BY <2>1 DEF NoCall
  <2> QED
    BY <2>3, <2>4 DEF b
<1>5. CallInv'
  BY <1>3, <1>4 DEF CallInv
<1>6. PendingInv' /\ CallSocketInv' /\ ReplayInv'
  BY <1>2, <1>4 DEF PendingInv, CallSocketInv, ReplayInv
<1>7. BodyInv'
  <2>1. Refers(call.body, call.q, call.socket)'
    BY <1>4, OwnBody DEF Refers
  <2>2. call'.q.explicit = "no" => StandsFor(call.body, call.q.items)'
    BY <1>4, OwnBody DEF StandsFor, Context
  <2> QED
    BY <2>1, <2>2, <1>4 DEF BodyInv
<1>8. TypeOK'
  BY <1>1, <1>2, <1>4 DEF ConversationInv, TypeOK, Forgets
<1> QED
  BY <1>1, <1>2, <1>5, <1>6, <1>7, <1>8, SameSession, Combine DEF CallPart

\* The peer closes an idle socket.
LEMMA SocketIdleEndsStep ==
    ASSUME ConversationInv, SocketIdleEnds
    PROVE  ConversationInv' /\ Undisturbed
<1>1. PICK s \in Sockets : slot[s] = "idle" /\ slot' = [slot EXCEPT ![s] = "closed"]
  BY DEF SocketIdleEnds, IdleEnds
<1>2. UNCHANGED <<ws, conv, call, stream, known, query, calls>>
  BY DEF SocketIdleEnds, IdleEnds
<1>3. Gentle(slot')
  BY <1>1, ClosingIdle DEF ConversationInv
<1>4. CallInv' /\ PendingInv'
  BY <1>2 DEF ConversationInv, CallInv, PendingInv, Speaks, Stored
<1>5. Live' <=> Live
  BY <1>2 DEF Live, Bound
<1>6. CallSocketInv'
  <2>1. SUFFICES ASSUME Live, call.socket # None PROVE CallSocketInv'
    BY <1>2, <1>5 DEF CallSocketInv
  <2>2. call.socket \in Sockets
    BY <2>1 DEF ConversationInv, TypeOK, Call
  <2>3. call.phase = "sent" => slot'[call.socket] = "busy"
    BY <2>1, <2>2, <1>3 DEF ConversationInv, CallSocketInv, Gentle
  <2> QED
    BY <2>1, <2>3, <1>2 DEF ConversationInv, CallSocketInv, OnSocket, Running, Used, Endpoint
<1>7. BodyInv'
  BY <1>2, <1>5 DEF ConversationInv, BodyInv, Refers, Found, StandsFor, Context
<1>8. ReplayInv'
  BY <1>2 DEF ConversationInv, ReplayInv, NewHistory, NewCell, Reporting, Listening, Used
<1>9. TypeOK'
  BY <1>2, <1>3 DEF ConversationInv, TypeOK, Gentle, Slots
<1> QED
  BY <1>2, <1>3, <1>4, <1>6, <1>7, <1>8, <1>9, SameSession, Combine DEF CallPart

-----------------------------------------------------------------------------
(* Response streams.                                                       *)

\* What a response may end with.
LEMMA EndingsHaveOutput ==
    ASSUME NEW r \in Stream, NEW ending \in Endings(r)
    PROVE  ending \in Ending
<1>1. /\ ending.output = <<>> \/ \E i \in Outputs : ending.output = <<i>>
      /\ ending.kind \in {"completed", "unstored", "incomplete", "failed", "lost"}
      /\ ending = [kind |-> ending.kind, output |-> ending.output]
  BY DEF Endings
<1>2. <<>> \in Seq(Items)
  OBVIOUS
<1>3. \A i \in Items : <<i>> \in Seq(Items)
  OBVIOUS
<1>4. ending.output \in Seq(Items)
  BY <1>1, <1>2, <1>3, ItemsInclude
<1> QED
  BY <1>1, <1>4 DEF Ending

\* observe_response_frame: the last response is set, or the continuation cleared.
LEMMA Observing ==
    ASSUME NEW w \in Session, NEW n \in Responses, NEW r \in Stream, r.body # None,
           NEW ending \in Ending
    PROVE  LET v == Observed(w, n, r, ending)
           IN  /\ v \in Session
               /\ v.socket = w.socket /\ v.identity = w.identity /\ v.cell = w.cell
               /\ r.cell # w.cell => v = w
               /\ r.cell = w.cell =>
                     \/ v.last = None
                     \/ /\ ending.kind \in {"completed", "unstored"}
                        /\ v.healthy
                        /\ v.last.id = n /\ v.last.body = r.body /\ v.last.output = ending.output
<1> DEFINE v == Observed(w, n, r, ending)
           l == [id |-> n, body |-> r.body, output |-> ending.output]
<1>1. CASE r.cell # w.cell
  BY <1>1 DEF Observed
<1>2. CASE r.cell = w.cell /\ ending.kind \in {"completed", "unstored"}
  <2>1. v = [w EXCEPT !.last = l, !.healthy = TRUE]
    BY <1>2 DEF Observed
  <2>2. ending.output \in Seq(Items)
    BY DEF Ending
  <2>3. r.body \in Body
    BY DEF Stream
  <2>4. l \in Last
    BY <2>2, <2>3 DEF Last
  <2>5. l.id = n /\ l.body = r.body /\ l.output = ending.output
    OBVIOUS
  <2> HIDE DEF v, l
  <2>6. /\ v \in Session /\ v.socket = w.socket /\ v.identity = w.identity /\ v.cell = w.cell
        /\ v.last = l
    BY <2>1, <2>4 DEF Session
  <2>7. v.healthy
    BY <2>1 DEF Session
  <2> QED
    BY <2>5, <2>6, <2>7, <1>2 DEF v
<1>3. CASE r.cell = w.cell /\ ending.kind \notin {"completed", "unstored"}
  <2>1. v = Cleared(w, FALSE) \/ v = Cleared(w, TRUE)
    BY <1>3 DEF Observed
  <2>2. /\ v \in Session /\ v.socket = w.socket /\ v.identity = w.identity /\ v.cell = w.cell
        /\ v.last = None
    BY <2>1, Clearing
  <2> QED
    BY <2>2, <1>3
<1> QED
  BY <1>1, <1>2, <1>3

\* Observation::commit: what the conversation makes of the end of its stream.
LEMMA Committing ==
    ASSUME NEW c \in State, NEW n \in Responses, NEW o \in Observation \cup {None},
           NEW ending \in Ending \cup {None}
    PROVE  LET d == Committed(c, n, o, ending)
           IN  /\ d \in State /\ d.epoch = c.epoch /\ d.pending = c.pending /\ d.binding = c.binding
               /\ d # c => o # None /\ o.epoch = c.epoch
               /\ \/ d.completed = c.completed
                  \/ d.completed = None
                  \/ /\ ending # None /\ o # None /\ o.epoch = c.epoch
                     /\ d.completed.id = n /\ d.completed.identity = o.identity
                     /\ d.completed.items = o.items /\ d.completed.output = ending.output
<1> DEFINE d == Committed(c, n, o, ending)
           x == [identity |-> o.identity, items |-> o.items, rest |-> o.rest,
                 output |-> ending.output, id |-> n]
           y == IF ending = None THEN None ELSE x
<1>1. CASE o = None \/ o.epoch # c.epoch
  <2>1. d = c
    BY <1>1 DEF Committed
  <2> QED
    BY <2>1
<1>2. CASE o # None /\ o.epoch = c.epoch
  <2>1. d = [c EXCEPT !.completed = y]
    BY <1>2 DEF Committed
  <2>2. ending # None => ending.output \in Seq(Items)
    BY DEF Ending
  <2>3. ending # None => x \in Completed
    BY <2>2, <1>2 DEF Observation, Completed
  <2>4. x.id = n /\ x.identity = o.identity /\ x.items = o.items /\ x.output = ending.output
    OBVIOUS
  <2> HIDE DEF x
  <2>5. y \in Completed \cup {None} /\ (y = None \/ (y = x /\ ending # None))
    BY <2>3
  <2> HIDE DEF y, d
  <2>6. /\ d \in State /\ d.epoch = c.epoch /\ d.pending = c.pending /\ d.binding = c.binding
        /\ d.completed = y
    BY <2>1, <2>5 DEF State
  <2> QED
    BY <2>4, <2>5, <2>6, <1>2 DEF d
<1> QED
  BY <1>1, <1>2

\* The provider forgets nothing, and nothing it heard of too late.
KeepsKnown ==
    \A m \in Responses : known[m] # None =>
        /\ known'[m] # None
        /\ known'[m].context = known[m].context
        /\ known'[m].socket = known[m].socket
        /\ known'[m].query = known[m].query
        /\ known'[m].identity = known[m].identity
        /\ known'[m].kept = known[m].kept
        /\ known[m].late => known'[m].late

\* A stream moves on: what is said of every other stream stays true.
Moves(n, e) ==
    /\ Used(n)
    /\ e \in Stream
    /\ e.stage # "open"
    /\ e.q = stream[n].q /\ e.asked = stream[n].asked /\ e.context = stream[n].context
    /\ e.query = stream[n].query
    /\ e.stage # "closed" =>
          stream[n].stage # "closed" /\ e.observation = stream[n].observation
    /\ e.stage = "released" =>
          /\ stream[n].stage = "open" /\ e.socket = stream[n].socket
          /\ e.cell = stream[n].cell /\ e.body = stream[n].body
    /\ stream' = [stream EXCEPT ![n] = e]

LEMMA Moving ==
    ASSUME ConversationInv, NEW n \in Responses, NEW e, Moves(n, e)
    PROVE  /\ stream' \in [Responses -> Stream \cup {None}]
           /\ stream'[n] = e
           /\ \A m \in Responses : m # n => stream'[m] = stream[m]
           /\ \A m \in Responses : Used(m)' <=> Used(m)
           /\ \A m \in Responses : Running(m)' <=> Running(m) /\ m # n
           /\ \A m \in Responses : OnSocket(m)' <=> OnSocket(m) /\ m # n
           /\ \A m \in Responses : Listening(m)' =>
                 /\ Listening(m)
                 /\ stream'[m].observation = stream[m].observation
                 /\ stream'[m].q = stream[m].q
                 /\ stream'[m].context = stream[m].context
                 /\ stream'[m].query = stream[m].query
           /\ \A m \in Responses : Reporting(m)' =>
                 /\ Reporting(m)
                 /\ stream'[m].stage = "open" => stream[m].stage = "open"
                 /\ stream'[m].q = stream[m].q
                 /\ stream'[m].context = stream[m].context
                 /\ stream'[m].query = stream[m].query
                 /\ stream'[m].socket = stream[m].socket
                 /\ stream'[m].cell = stream[m].cell
                 /\ stream'[m].body = stream[m].body
           /\ ContextIsTheHistory'
<1>1. /\ stream \in [Responses -> Stream \cup {None}]
      /\ e \in Stream /\ e # None
      /\ stream' = [stream EXCEPT ![n] = e]
  BY DEF ConversationInv, TypeOK, Moves
<1>2. /\ stream' \in [Responses -> Stream \cup {None}]
      /\ stream'[n] = e
      /\ \A m \in Responses : m # n => stream'[m] = stream[m]
  BY <1>1
<1>3. /\ \A m \in Responses : Used(m)' <=> Used(m)
      /\ \A m \in Responses : Running(m)' <=> Running(m) /\ m # n
      /\ \A m \in Responses : OnSocket(m)' <=> OnSocket(m) /\ m # n
  BY <1>1, <1>2 DEF Moves, Used, Running, OnSocket
<1>4. ASSUME NEW m \in Responses, Listening(m)'
      PROVE  /\ Listening(m)
             /\ stream'[m].observation = stream[m].observation
             /\ stream'[m].q = stream[m].q
             /\ stream'[m].context = stream[m].context
             /\ stream'[m].query = stream[m].query
  <2>1. CASE m = n
    BY <2>1, <1>2, <1>4 DEF Moves, Used, Listening
  <2>2. CASE m # n
    BY <2>2, <1>2, <1>4 DEF Used, Listening
  <2> QED
    BY <2>1, <2>2
<1>5. ASSUME NEW m \in Responses, Reporting(m)'
      PROVE  /\ Reporting(m)
             /\ stream'[m].stage = "open" => stream[m].stage = "open"
             /\ stream'[m].q = stream[m].q
             /\ stream'[m].context = stream[m].context
             /\ stream'[m].query = stream[m].query
             /\ stream'[m].socket = stream[m].socket
             /\ stream'[m].cell = stream[m].cell
             /\ stream'[m].body = stream[m].body
  <2>1. CASE m = n
    BY <2>1, <1>2, <1>5 DEF Moves, Used, Reporting
  <2>2. CASE m # n
    BY <2>2, <1>2, <1>5 DEF Used, Reporting
  <2> QED
    BY <2>1, <2>2
<1>6. ContextIsTheHistory'
  <2> SUFFICES ASSUME NEW j \in Responses, stream'[j] # None, stream'[j].q.explicit = "no"
               PROVE  stream'[j].context = stream'[j].asked
    BY DEF ContextIsTheHistory
  <2>1. CASE j = n
    BY <2>1, <1>2 DEF ConversationInv, ContextIsTheHistory, Moves, Used
  <2>2. CASE j # n
    BY <2>2, <1>2 DEF ConversationInv, ContextIsTheHistory
  <2> QED
    BY <2>1, <2>2
<1> QED
  BY <1>2, <1>3, <1>4, <1>5, <1>6

\* What is said of streams and slots when a stream moves on.
LEMMA MovingKeeps ==
    ASSUME ConversationInv, NEW n \in Responses, NEW e, Moves(n, e), UNCHANGED query,
           \A m \in Responses : m # n => known'[m] = known[m],
           conv'.epoch = conv.epoch, slot' \in Slots, ws'.socket = ws.socket,
           \A s \in Sockets : slot'[s] # "unused" <=> slot[s] # "unused",
           \A m \in Responses : OnSocket(m) /\ m # n =>
               slot'[stream[m].socket] = slot[stream[m].socket]
    PROVE  StreamsInv' /\ SlotsInv' /\ EpochInv'
<1>1. /\ stream'[n] = e
      /\ \A m \in Responses : m # n => stream'[m] = stream[m]
      /\ \A m \in Responses : Used(m)' <=> Used(m)
      /\ \A m \in Responses : Running(m)' <=> Running(m) /\ m # n
      /\ \A m \in Responses : OnSocket(m)' <=> OnSocket(m) /\ m # n
  BY Moving
<1>2. StreamsInv'
  <2>1. \E m \in 0 .. MaxResponses : \A j \in Responses : Used(j)' <=> j <= m
    BY <1>1 DEF ConversationInv, StreamsInv
  <2>2. \A j \in Responses : Running(j)' \/ ~Used(j)' => known'[j] = None
    <3>1. Used(n)
      BY DEF Moves
    <3> QED
      BY <3>1, <1>1 DEF ConversationInv, StreamsInv
  <2>3. \A j \in Responses : Reporting(j)' =>
            /\ stream'[j].body # None
            /\ stream'[j].body.prev = None => stream'[j].context = stream'[j].body.items
    BY Moving DEF ConversationInv, StreamsInv
  <2>4. \A i, j \in Responses :
            OnSocket(i)' /\ OnSocket(j)' /\ stream'[i].socket = stream'[j].socket => i = j
    BY <1>1 DEF ConversationInv, StreamsInv
  <2> QED
    BY <2>1, <2>2, <2>3, <2>4 DEF StreamsInv
<1>3. SlotsInv'
  <2>1. PICK m \in 0 .. Cardinality(Sockets) : \A s \in Sockets : slot[s] # "unused" <=> s <= m
    BY DEF ConversationInv, SlotsInv
  <2>2. \A s \in Sockets : slot'[s] # "unused" <=> s <= m
    BY <2>1
  <2>3. \A j \in Responses : OnSocket(j)' => slot'[stream'[j].socket] \in {"busy", "closed"}
    BY <1>1 DEF ConversationInv, SlotsInv
  <2>4. ws'.socket # None => slot'[ws'.socket] # "unused"
    BY DEF ConversationInv, TypeOK, SlotsInv, Session
  <2> QED
    BY <2>2, <2>3, <2>4 DEF SlotsInv
<1>4. EpochInv'
  <2> SUFFICES ASSUME NEW j \in Responses, Listening(j)'
               PROVE  /\ Speaks(stream'[j].observation, stream'[j].q)
                      /\ stream'[j].context = stream'[j].observation.items
                      /\ stream'[j].observation.epoch <= conv'.epoch
                      /\ stream'[j].observation.epoch = conv'.epoch => stream'[j].query = query'
    BY DEF EpochInv, Speaks, Stored
  <2>1. /\ Listening(j)
        /\ stream'[j].observation = stream[j].observation
        /\ stream'[j].q = stream[j].q
        /\ stream'[j].context = stream[j].context
        /\ stream'[j].query = stream[j].query
    BY Moving
  <2> QED
    BY <2>1 DEF ConversationInv, EpochInv
<1> QED
  BY <1>2, <1>3, <1>4

\* A session whose socket, account and cell stay fits whatever has yet to report.
LEMMA MovingFits ==
    ASSUME ConversationInv, NEW n \in Responses, NEW e, Moves(n, e), UNCHANGED query,
           ws'.socket = ws.socket, ws'.identity = ws.identity, ws'.cell = ws.cell
    PROVE  CellsFit(ws)'
<1> SUFFICES ASSUME NEW j \in Responses, Reporting(j)'
             PROVE  /\ stream'[j].cell <= ws'.cell
                    /\ stream'[j].cell = ws'.cell =>
                          /\ stream'[j].stage = "open" => ws'.socket = stream'[j].socket
                          /\ stream'[j].query = query'
                          /\ ws'.identity # None
                          /\ ws'.identity[1] = stream'[j].q.identity
  BY DEF CellsFit
<1>1. /\ Reporting(j)
      /\ stream'[j].stage = "open" => stream[j].stage = "open"
      /\ stream'[j].q = stream[j].q /\ stream'[j].query = stream[j].query
      /\ stream'[j].socket = stream[j].socket /\ stream'[j].cell = stream[j].cell
  BY Moving
<1> QED
  BY <1>1 DEF ConversationInv, SessionInv, CellsFit

\* What the session remembers stays known.
LEMMA StillKnown ==
    ASSUME ConversationInv, KeepsKnown, UNCHANGED query
    PROVE  /\ ws' = ws => LastFits(ws)'
           /\ conv'.completed = conv.completed => CompletedInv'
<1>1. /\ ws.last # None => ws.last.id \in Responses
      /\ conv.completed # None => conv.completed.id \in Responses
  BY DEF ConversationInv, TypeOK, Session, Last, State, Completed
<1>2. ASSUME ws' = ws PROVE LastFits(ws)'
  <2> SUFFICES ASSUME ws.last # None
               PROVE  /\ ws.healthy
                      /\ known'[ws.last.id] # None
                      /\ Found(ws.last.id, ws.socket)'
                      /\ known'[ws.last.id].query = query'
                      /\ ws.identity # None
                      /\ known'[ws.last.id].identity = ws.identity[1]
                      /\ ws.last.body.prev = None =>
                            known'[ws.last.id].context = ws.last.body.items \o ws.last.output
    BY <1>2 DEF LastFits, Found
  <2>1. ws.last.id \in Responses /\ LastFits(ws)
    BY <1>1 DEF ConversationInv, SessionInv
  <2> DEFINE i == ws.last.id
  <2>2. /\ ws.healthy
        /\ known[i] # None
        /\ Found(i, ws.socket)
        /\ known[i].query = query
        /\ ws.identity # None
        /\ known[i].identity = ws.identity[1]
        /\ ws.last.body.prev = None => known[i].context = ws.last.body.items \o ws.last.output
    BY <2>1 DEF LastFits
  <2>3. /\ known'[i] # None
        /\ known'[i].context = known[i].context /\ known'[i].socket = known[i].socket
        /\ known'[i].query = known[i].query /\ known'[i].identity = known[i].identity
        /\ known'[i].kept = known[i].kept /\ (known[i].late => known'[i].late)
    BY <2>1, <2>2 DEF KeepsKnown
  <2> QED
    BY <1>2, <2>2, <2>3 DEF Found
<1>3. ASSUME conv'.completed = conv.completed PROVE CompletedInv'
  <2> DEFINE c == conv.completed
             i == c.id
  <2> SUFFICES ASSUME c # None
               PROVE  /\ known'[i] # None
                      /\ known'[i].kept
                      /\ known'[i].query = query'
                      /\ known'[i].identity = c.identity
                      /\ known'[i].context = c.items \o c.output
    BY <1>3 DEF CompletedInv
  <2>1. /\ i \in Responses
        /\ known[i] # None
        /\ known[i].kept
        /\ known[i].query = query
        /\ known[i].identity = c.identity
        /\ known[i].context = c.items \o c.output
    BY <1>1 DEF ConversationInv, CompletedInv
  <2>2. /\ known'[i] # None
        /\ known'[i].context = known[i].context /\ known'[i].kept = known[i].kept
        /\ known'[i].query = known[i].query /\ known'[i].identity = known[i].identity
    BY <2>1 DEF KeepsKnown
  <2> QED
    BY <2>1, <2>2
<1> QED
  BY <1>2, <1>3

\* The running call does not notice that a stream moves on.
LEMMA MovingCall ==
    ASSUME ConversationInv, NEW n \in Responses, NEW e, Moves(n, e), KeepsKnown,
           call' = call, UNCHANGED query, ws'.socket = ws.socket, ws'.identity = ws.identity,
           conv'.epoch = conv.epoch, conv'.pending = conv.pending, conv'.binding = conv.binding,
           \A s \in Sockets : ~(OnSocket(n) /\ stream[n].socket = s) => slot'[s] = slot[s],
           call.attempt = 1 /\ call.phase \in {"preparing", "connecting", "prepared", "sent"} =>
               ws' = ws /\ conv' = conv
    PROVE  call' \in Call /\ CallPart'
<1>0. call \in Call
  BY DEF ConversationInv, TypeOK
<1>1. CallInv' /\ PendingInv'
  BY DEF ConversationInv, CallInv, PendingInv, Speaks, Stored
<1>2. Live' <=> Live
  BY DEF Live, Bound
<1>3. CallSocketInv'
  <2>1. SUFFICES ASSUME Live, call.socket # None PROVE CallSocketInv'
    BY <1>2 DEF CallSocketInv
  <2>2. /\ ws.socket = call.socket /\ ws.identity = Endpoint(call.q)
        /\ call.phase = "sent" => slot[call.socket] = "busy"
        /\ \A m \in Responses : OnSocket(m) => stream[m].socket # call.socket
    BY <2>1 DEF ConversationInv, CallSocketInv
  <2>3. slot'[call.socket] = slot[call.socket]
    BY <2>1, <2>2, <1>0 DEF Call
  <2>4. \A m \in Responses : OnSocket(m)' => stream'[m].socket # call.socket
    BY <2>2, Moving
  <2> QED
    BY <2>2, <2>3, <2>4 DEF CallSocketInv, Endpoint
<1>4. BodyInv'
  <2>1. SUFFICES ASSUME Live PROVE BodyInv'
    BY <1>2 DEF BodyInv
  <2>2. /\ Refers(call.body, call.q, call.socket)
        /\ call.q.explicit = "no" => StandsFor(call.body, call.q.items)
        /\ call.full # None /\ call.full.prev = None => StandsFor(call.body, call.full.items)
    BY <2>1 DEF ConversationInv, BodyInv
  <2>3. call.body \in Body
    BY <2>1, <1>0 DEF Live, ConversationInv, CallInv, Call
  <2>4. Refers(call.body, call.q, call.socket)'
    BY <2>2 DEF Refers, Found, KeepsKnown
  <2>5. Context(call.body)' = Context(call.body)
    <3>1. call.body.prev \in 0 .. MaxResponses \cup {None}
      BY <2>3 DEF Body
    <3>2. call.body.prev \in {None, Explicit} \/ call.body.prev \in Responses
      BY <3>1 DEF Explicit, Responses
    <3>3. call.body.prev \in Responses => known[call.body.prev] # None
      BY <2>2 DEF Refers
    <3> QED
      BY <3>2, <3>3 DEF Context, KeepsKnown
  <2> QED
    BY <2>2, <2>4, <2>5 DEF BodyInv, StandsFor
<1>5. ReplayInv'
  <2>1. SUFFICES ASSUME call.attempt = 1, call.phase \in {"preparing", "connecting", "prepared", "sent"}
                 PROVE  ReplayInv'
    BY DEF ReplayInv
  <2>2. /\ NewHistory /\ NewCell(ws)
        /\ call.phase # "preparing" /\ call.q.explicit = "no" => call.body.prev = None
    BY <2>1 DEF ConversationInv, ReplayInv
  <2>3. ws' = ws /\ conv' = conv
    BY <2>1
  <2>4. \A m \in Responses : Listening(m)' =>
           Listening(m) /\ stream'[m].observation = stream[m].observation
    BY Moving
  <2>5. \A m \in Responses : Reporting(m)' => Reporting(m) /\ stream'[m].cell = stream[m].cell
    BY Moving
  <2>6. NewHistory' /\ NewCell(ws)'
    BY <2>2, <2>3, <2>4, <2>5 DEF NewHistory, NewCell
  <2> QED
    BY <2>2, <2>6 DEF ReplayInv
<1> QED
  BY <1>0, <1>1, <1>3, <1>4, <1>5 DEF CallPart

\* What stays of a response once it was reported.
LEMMA WhatIsReported ==
    ASSUME NEW r \in Stream, NEW ending \in Ending
    PROVE  LET e == Reported(r, ending)
           IN  /\ e \in Stream /\ e.stage = "observed"
               /\ e.q = r.q /\ e.asked = r.asked /\ e.context = r.context /\ e.query = r.query
               /\ e.observation = r.observation
               /\ e.ending # None => e.ending = ending /\ ending.kind = "completed"
<1> DEFINE x == IF ending.kind = "completed" THEN ending ELSE None
           e == Reported(r, ending)
<1>1. e = [r EXCEPT !.stage = "observed", !.socket = None, !.cell = 0, !.body = None, !.ending = x]
  BY DEF Reported
<1>2. x \in Ending \cup {None} /\ (x # None => x = ending /\ ending.kind = "completed")
  OBVIOUS
<1> HIDE DEF x, e
<1>3. /\ e \in Stream /\ e.stage = "observed"
      /\ e.q = r.q /\ e.asked = r.asked /\ e.context = r.context /\ e.query = r.query
      /\ e.observation = r.observation /\ e.ending = x
  BY <1>1, <1>2 DEF Stream
<1> QED
  BY <1>2, <1>3 DEF e

\* A generation that ends touches no socket but its own, and nobody has heard of
\* it yet.
LEMMA ReleaseStep ==
    ASSUME ConversationInv, NEW n \in Responses, Release(n)
    PROVE  /\ ConversationInv'
           /\ \A m \in Responses : OnSocket(m) /\ m # n =>
                 slot'[stream[m].socket] = slot[stream[m].socket]
           /\ stream'[n].stage # "open"
<1> DEFINE r == stream[n]
<1>1. PICK ending \in Endings(r) :
         /\ known' = IF ending.kind \notin {"completed", "unstored"} THEN known
                     ELSE [known EXCEPT ![n] =
                             [context |-> r.context \o ending.output, socket |-> r.socket,
                              kept |-> ending.kind = "completed" /\ Stored(r.q),
                              identity |-> r.q.identity, query |-> r.query, late |-> FALSE]]
         /\ slot' = IF r.socket = None THEN slot
                    ELSE AfterGeneration(ws, r.socket, ending.kind # "lost")
         /\ stream' = [stream EXCEPT ![n] =
               IF r.socket # None THEN [r EXCEPT !.stage = "released", !.ending = ending]
               ELSE Reported(r, ending)]
  BY DEF Release
<1> DEFINE e == IF r.socket # None THEN [r EXCEPT !.stage = "released", !.ending = ending]
                ELSE Reported(r, ending)
           good == ending.kind \in {"completed", "unstored"}
           k == [context |-> r.context \o ending.output, socket |-> r.socket,
                 kept |-> ending.kind = "completed" /\ Stored(r.q),
                 identity |-> r.q.identity, query |-> r.query, late |-> FALSE]
<1>2. /\ r # None /\ r.stage = "open"
      /\ stream' = [stream EXCEPT ![n] = e]
      /\ UNCHANGED <<ws, conv, call, query, calls>>
  BY <1>1 DEF Release
<1>3. /\ slot \in Slots
      /\ known \in [Responses -> Known \cup {None}]
      /\ r \in Stream
  BY <1>2 DEF ConversationInv, TypeOK, Slots
<1>4. Used(n) /\ Running(n) /\ (OnSocket(n) <=> r.socket # None)
  BY <1>2 DEF Running, OnSocket, Used
<1>5. known[n] = None
  BY <1>4 DEF ConversationInv, StreamsInv
<1>6. /\ r.q \in Requests /\ r.context \in Seq(Items) /\ r.socket \in Sockets \cup {None}
      /\ r.query \in Nat /\ r.q.identity \in Identities
  BY <1>3 DEF Stream, Identities
<1>7. ending \in Ending /\ ending # None /\ ending.output \in Seq(Items)
  <2>1. ending \in Ending
    BY <1>3, EndingsHaveOutput
  <2> QED
    BY <2>1 DEF Ending
<1>8. k \in Known
  <2> DEFINE x == r.context \o ending.output
             y == ending.kind = "completed" /\ Stored(r.q)
  <2>1. x \in Seq(Items)
    BY <1>6, <1>7
  <2>2. y \in BOOLEAN
    OBVIOUS
  <2>3. k = [context |-> x, socket |-> r.socket, kept |-> y, identity |-> r.q.identity,
             query |-> r.query, late |-> FALSE]
    OBVIOUS
  <2> HIDE DEF x, y, k, r
  <2> QED
    BY <2>1, <2>2, <2>3, <1>6 DEF Known
<1>9. /\ k.context = r.context \o ending.output /\ k.socket = r.socket
      /\ k.identity = r.q.identity /\ k.query = r.query /\ ~k.late
      /\ ending.kind = "completed" /\ Stored(r.q) => k.kept
  OBVIOUS
<1>10. /\ known' \in [Responses -> Known \cup {None}]
       /\ \A m \in Responses : m # n => known'[m] = known[m]
       /\ KeepsKnown
       /\ good => known'[n] = k /\ known'[n] # None
       /\ ~good => known'[n] = None
  <2>1. known' = known \/ known' = [known EXCEPT ![n] = k]
    BY <1>1
  <2>2. /\ good => known' = [known EXCEPT ![n] = k]
        /\ ~good => known' = known
    BY <1>1
  <2> HIDE DEF k, good
  <2> QED
    BY <2>1, <2>2, <1>3, <1>5, <1>8 DEF KeepsKnown
<1>11. /\ r.socket # None => e.stage = "released" /\ e.ending = ending
       /\ r.socket = None => /\ e.stage = "observed"
                             /\ e.ending # None => e.ending = ending /\ ending.kind = "completed"
       /\ Moves(n, e)
  <2>1. CASE r.socket # None
    <3>1. e = [r EXCEPT !.stage = "released", !.ending = ending]
      BY <2>1
    <3> HIDE DEF e
    <3>2. /\ e \in Stream /\ e.stage = "released" /\ e.ending = ending
          /\ e.q = r.q /\ e.asked = r.asked /\ e.context = r.context /\ e.query = r.query
          /\ e.observation = r.observation /\ e.socket = r.socket /\ e.cell = r.cell
          /\ e.body = r.body
      BY <3>1, <1>3, <1>7 DEF Stream
    <3> QED
      BY <3>2, <2>1, <1>2, <1>4 DEF Moves
  <2>2. CASE r.socket = None
    <3>1. e = Reported(r, ending)
      BY <2>2
    <3> HIDE DEF e
    <3>2. /\ e \in Stream /\ e.stage = "observed"
          /\ e.q = r.q /\ e.asked = r.asked /\ e.context = r.context /\ e.query = r.query
          /\ e.observation = r.observation
          /\ e.ending # None => e.ending = ending /\ ending.kind = "completed"
      BY <3>1, <1>3, <1>7, WhatIsReported
    <3> QED
      BY <3>2, <2>2, <1>2, <1>4 DEF Moves
  <2> QED
    BY <2>1, <2>2
<1> HIDE DEF e, k, good
<1>12. /\ slot' \in Slots
       /\ \A s \in Sockets : slot'[s] # "unused" <=> slot[s] # "unused"
       /\ \A s \in Sockets : s # r.socket => slot'[s] = slot[s]
  <2>1. CASE r.socket = None
    BY <2>1, <1>1, <1>3
  <2>2. CASE r.socket # None
    <3> DEFINE x == IF ending.kind # "lost" /\ ws.socket = r.socket THEN "idle" ELSE "closed"
    <3>1. slot' = [slot EXCEPT ![r.socket] = x]
      BY <2>2, <1>1 DEF AfterGeneration
    <3>2. x \in {"idle", "closed"}
      OBVIOUS
    <3>3. r.socket \in Sockets /\ slot[r.socket] # "unused"
      BY <2>2, <1>4, <1>6 DEF ConversationInv, SlotsInv
    <3> HIDE DEF x, r
    <3> QED
      BY <3>1, <3>2, <3>3, <1>3 DEF Slots
  <2> QED
    BY <2>1, <2>2
<1>13. \A s \in Sockets : ~(OnSocket(n) /\ stream[n].socket = s) => slot'[s] = slot[s]
  BY <1>4, <1>12, SocketsAreNumbers
<1> HIDE DEF r
<1>14. r = stream[n]
  BY DEF r
<1>15. \A m \in Responses : OnSocket(m) /\ m # n =>
          slot'[stream[m].socket] = slot[stream[m].socket]
  <2> SUFFICES ASSUME NEW m \in Responses, OnSocket(m), m # n
               PROVE  slot'[stream[m].socket] = slot[stream[m].socket]
    OBVIOUS
  <2>1. stream[m].socket \in Sockets
    BY DEF ConversationInv, TypeOK, Stream, OnSocket, Running, Used
  <2>2. ~(OnSocket(n) /\ stream[n].socket = stream[m].socket)
    BY DEF ConversationInv, StreamsInv
  <2> QED
    BY <2>1, <2>2, <1>13
<1>16. StreamsInv' /\ SlotsInv' /\ EpochInv'
  BY <1>2, <1>10, <1>11, <1>12, <1>15, MovingKeeps
<1>17. SessionInv' /\ CompletedInv'
  BY <1>2, <1>10, <1>11, MovingFits, StillKnown DEF SessionInv
<1>18. EndingInv'
  <2> SUFFICES ASSUME NEW j \in Responses, Used(j)'
               PROVE  /\ stream'[j].stage = "released" =>
                            /\ stream'[j].socket # None
                            /\ stream'[j].ending # None
                            /\ known'[j] # None =>
                                  known'[j].socket = stream'[j].socket /\ ~known'[j].late
                      /\ stream'[j].stage \in {"released", "observed"} /\ Good(stream'[j].ending) =>
                            Remembered(j, stream[j].ending)'
                      /\ stream'[j].stage = "observed" /\ stream'[j].ending # None =>
                            stream'[j].ending.kind = "completed"
    BY DEF EndingInv, Good
  <2>1. CASE j = n
    <3>1. stream'[n] = e
      BY <1>11, Moving
    <3>2. e.q = r.q /\ e.context = r.context /\ e.query = r.query
          /\ (e.stage = "released" => e.socket = r.socket)
      BY <1>11, <1>14 DEF Moves
    <3>3. e.ending # None => e.ending = ending
      BY <1>11
    <3>4. Good(e.ending) => Remembered(n, stream[n].ending)'
      BY <3>1, <3>2, <3>3, <1>9, <1>10 DEF Good, good, Remembered, Stored
    <3>5. e.stage = "released" =>
             /\ e.socket # None /\ e.ending # None
             /\ known'[n] # None => known'[n].socket = e.socket /\ ~known'[n].late
      BY <3>2, <1>7, <1>9, <1>10, <1>11
    <3> QED
      BY <2>1, <3>1, <3>4, <3>5, <1>11
  <2>2. CASE j # n
    <3>1. stream'[j] = stream[j] /\ known'[j] = known[j] /\ Used(j)
      BY <2>2, <1>10, <1>11, Moving
    <3> QED
      BY <3>1 DEF ConversationInv, EndingInv, Good, Remembered, Stored
  <2> QED
    BY <2>1, <2>2
<1>19. call' \in Call /\ CallPart'
  BY <1>2, <1>10, <1>11, <1>13, MovingCall
<1>20. TypeOK' /\ ContextIsTheHistory' /\ stream'[n].stage # "open"
  <2>1. stream' \in [Responses -> Stream \cup {None}] /\ ContextIsTheHistory' /\ stream'[n] = e
    BY <1>11, Moving
  <2>2. e.stage # "open"
    BY <1>11 DEF Moves
  <2> QED
    BY <2>1, <2>2, <1>2, <1>10, <1>12 DEF ConversationInv, TypeOK, Slots
<1> QED
  BY <1>15, <1>16, <1>17, <1>18, <1>19, <1>20 DEF ConversationInv, CallPart

\* The socket session hears of a response that belongs to its account and history;
\* the response is on the session's socket unless the report is late.
LEMMA ObserveStep ==
    ASSUME ConversationInv, NEW n \in Responses, Observe(n)
    PROVE  ConversationInv' /\ Undisturbed
<1> DEFINE r == stream[n]
           e == Reported(r, r.ending)
           late == r.cell = ws.cell /\ r.socket # ws.socket
<1>1. /\ r # None /\ r.stage = "released"
      /\ ws' = Observed(ws, n, r, r.ending)
      /\ known' = IF known[n] = None THEN known ELSE [known EXCEPT ![n].late = late]
      /\ stream' = [stream EXCEPT ![n] = e]
      /\ UNCHANGED <<slot, conv, call, query, calls>>
  BY DEF Observe
<1>2. /\ ws \in Session /\ conv \in State /\ slot \in Slots
      /\ known \in [Responses -> Known \cup {None}]
      /\ r \in Stream
  BY <1>1 DEF ConversationInv, TypeOK, Slots
<1>3. /\ Used(n) /\ ~OnSocket(n)
      /\ r.socket # None /\ r.ending # None
      /\ known[n] # None => known[n].socket = r.socket /\ ~known[n].late
      /\ Good(r.ending) => Remembered(n, r.ending)
  BY <1>1 DEF ConversationInv, EndingInv, Used, OnSocket, Running
<1>4. Reporting(n)
  BY <1>1, <1>3 DEF Reporting
<1>5. /\ r.body # None
      /\ r.body.prev = None => r.context = r.body.items
  BY <1>4 DEF ConversationInv, StreamsInv
<1>6. r.cell = ws.cell => /\ r.query = query
                          /\ ws.identity # None /\ ws.identity[1] = r.q.identity
  BY <1>4 DEF ConversationInv, SessionInv, CellsFit
<1>7. r.ending \in Ending
  BY <1>2, <1>3 DEF Stream
<1>8. late \in BOOLEAN
  OBVIOUS
<1>9. /\ known' \in [Responses -> Known \cup {None}]
      /\ \A m \in Responses : m # n => known'[m] = known[m]
      /\ KeepsKnown
      /\ known[n] # None => known'[n].late = late
  <2> HIDE DEF r, late
  <2>1. CASE known[n] = None
    <3>1. known' = known
      BY <2>1, <1>1
    <3> QED
      BY <2>1, <3>1, <1>2 DEF KeepsKnown
  <2>2. CASE known[n] # None
    <3> DEFINE k == [known[n] EXCEPT !.late = late]
    <3>1. known[n] \in Known
      BY <2>2, <1>2
    <3>2. /\ k \in Known /\ k # None
          /\ k.context = known[n].context /\ k.socket = known[n].socket
          /\ k.query = known[n].query /\ k.identity = known[n].identity
          /\ k.kept = known[n].kept /\ k.late = late
      BY <3>1, <1>8 DEF Known
    <3>3. known' = [known EXCEPT ![n] = k]
      BY <2>2, <1>1
    <3> HIDE DEF k
    <3>4. known'[n] = k /\ \A m \in Responses : m # n => known'[m] = known[m]
      BY <3>3, <1>2
    <3> QED
      BY <2>2, <3>2, <3>3, <3>4, <1>2, <1>3 DEF KeepsKnown
  <2> QED
    BY <2>1, <2>2
<1>10. /\ e.stage = "observed" /\ (e.ending # None => e.ending = r.ending /\ r.ending.kind = "completed")
       /\ Moves(n, e)
  <2>1. /\ e \in Stream /\ e.stage = "observed"
        /\ e.q = r.q /\ e.asked = r.asked /\ e.context = r.context /\ e.query = r.query
        /\ e.observation = r.observation
        /\ e.ending # None => e.ending = r.ending /\ r.ending.kind = "completed"
    BY <1>2, <1>7, WhatIsReported
  <2> HIDE DEF e
  <2> QED
    BY <2>1, <1>1, <1>3 DEF Moves
<1> HIDE DEF e
<1>11. /\ ws' \in Session
       /\ ws'.socket = ws.socket /\ ws'.identity = ws.identity /\ ws'.cell = ws.cell
       /\ r.cell # ws.cell => ws' = ws
       /\ r.cell = ws.cell =>
             \/ ws'.last = None
             \/ /\ r.ending.kind \in {"completed", "unstored"}
                /\ ws'.healthy
                /\ ws'.last.id = n /\ ws'.last.body = r.body /\ ws'.last.output = r.ending.output
  <2>1. ws' = Observed(ws, n, r, r.ending)
    BY <1>1
  <2> HIDE DEF r
  <2> QED
    BY <2>1, <1>2, <1>5, <1>7, Observing
<1> HIDE DEF r, late
<1>12. r = stream[n] /\ late = (r.cell = ws.cell /\ r.socket # ws.socket)
  BY DEF r, late
<1>13. /\ \A s \in Sockets : slot'[s] = slot[s]
       /\ Undisturbed
  BY <1>1 DEF Undisturbed
<1>14. StreamsInv' /\ SlotsInv' /\ EpochInv'
  BY <1>1, <1>2, <1>9, <1>10, <1>11, <1>13, MovingKeeps
<1>15. CellsFit(ws)'
  BY <1>1, <1>10, <1>11, MovingFits
<1>16. LastFits(ws)'
  <2>1. CASE r.cell # ws.cell
    BY <2>1, <1>1, <1>9, <1>11, StillKnown
  <2>2. CASE ws'.last = None
    BY <2>2 DEF LastFits
  <2>3. CASE /\ r.cell = ws.cell /\ r.ending.kind \in {"completed", "unstored"} /\ ws'.healthy
             /\ ws'.last.id = n /\ ws'.last.body = r.body /\ ws'.last.output = r.ending.output
    <3>1. Remembered(n, r.ending)
      BY <2>3, <1>3 DEF Good
    <3>2. /\ known'[n] # None
          /\ known'[n].context = r.context \o r.ending.output
          /\ known'[n].query = query
          /\ known'[n].identity = ws.identity[1]
          /\ known'[n].socket = r.socket
          /\ known'[n].late = late
      BY <2>3, <3>1, <1>3, <1>6, <1>9, <1>12 DEF Remembered, KeepsKnown
    <3>3. Found(n, ws.socket)'
      BY <2>3, <3>2, <1>3, <1>11, <1>12 DEF Found
    <3> QED
      BY <2>3, <3>2, <3>3, <1>1, <1>5, <1>6, <1>11 DEF LastFits, Found
  <2> QED
    BY <2>1, <2>2, <2>3, <1>11
<1>17. CompletedInv'
  BY <1>1, <1>9, StillKnown
<1>18. EndingInv'
  <2> SUFFICES ASSUME NEW j \in Responses, Used(j)'
               PROVE  /\ stream'[j].stage = "released" =>
                            /\ stream'[j].socket # None
                            /\ stream'[j].ending # None
                            /\ known'[j] # None =>
                                  known'[j].socket = stream'[j].socket /\ ~known'[j].late
                      /\ stream'[j].stage \in {"released", "observed"} /\ Good(stream'[j].ending) =>
                            Remembered(j, stream[j].ending)'
                      /\ stream'[j].stage = "observed" /\ stream'[j].ending # None =>
                            stream'[j].ending.kind = "completed"
    BY DEF EndingInv, Good
  <2>1. CASE j = n
    <3>1. stream'[n] = e
      BY <1>10, Moving
    <3>2. e.q = r.q /\ e.context = r.context /\ e.query = r.query
      BY <1>10, <1>12 DEF Moves
    <3>3. Good(e.ending) => e.ending = r.ending /\ Remembered(n, r.ending)
      BY <1>3, <1>10 DEF Good
    <3>4. Good(e.ending) => Remembered(n, stream[n].ending)'
      BY <3>1, <3>2, <3>3, <1>9, <1>12 DEF Remembered, Stored, KeepsKnown
    <3> QED
      BY <2>1, <3>1, <3>4, <1>10
  <2>2. CASE j # n
    <3>1. stream'[j] = stream[j] /\ known'[j] = known[j] /\ Used(j)
      BY <2>2, <1>9, <1>10, Moving
    <3> QED
      BY <3>1 DEF ConversationInv, EndingInv, Good, Remembered, Stored
  <2> QED
    BY <2>1, <2>2
<1>19. call' \in Call /\ CallPart'
  <2>1. call.attempt = 1 /\ call.phase \in {"preparing", "connecting", "prepared", "sent"} => ws' = ws
    <3> SUFFICES ASSUME call.attempt = 1, call.phase \in {"preparing", "connecting", "prepared", "sent"}
                 PROVE  r.cell # ws.cell
      BY <1>11
    <3>1. r.cell \in Nat /\ ws.cell \in Nat
      BY <1>2 DEF Stream, Session
    <3>2. r.cell < ws.cell
      BY <1>4, <1>12 DEF ConversationInv, ReplayInv, NewCell
    <3> QED
      BY <3>1, <3>2
  <2> QED
    BY <2>1, <1>1, <1>9, <1>10, <1>11, <1>13, MovingCall
<1>20. TypeOK' /\ ContextIsTheHistory'
  <2>1. stream' \in [Responses -> Stream \cup {None}] /\ ContextIsTheHistory'
    BY <1>10, Moving
  <2> QED
    BY <2>1, <1>1, <1>9, <1>11 DEF ConversationInv, TypeOK
<1> QED
  BY <1>13, <1>14, <1>15, <1>16, <1>17, <1>18, <1>19, <1>20
     DEF ConversationInv, SessionInv, CallPart

\* The conversation remembers a response of the history its epoch stands for.
LEMMA CommitStep ==
    ASSUME ConversationInv, NEW n \in Responses, Commit(n)
    PROVE  ConversationInv' /\ Undisturbed
<1> DEFINE r == stream[n]
           e == [r EXCEPT !.stage = "closed", !.ending = None, !.observation = None]
<1>1. /\ r # None /\ r.stage = "observed"
      /\ conv' \in {conv, Committed(conv, n, r.observation, r.ending)}
      /\ stream' = [stream EXCEPT ![n] = e]
      /\ call' = NoCall \/ call' = call
      /\ UNCHANGED <<ws, slot, known, query, calls>>
  BY DEF Commit
<1>2. /\ ws \in Session /\ conv \in State /\ slot \in Slots
      /\ r \in Stream
  BY <1>1 DEF ConversationInv, TypeOK, Slots
<1>3. /\ Used(n)
      /\ r.ending # None => r.ending.kind = "completed" /\ Remembered(n, r.ending)
  BY <1>1 DEF ConversationInv, EndingInv, Good, Used
<1>4. r.observation # None =>
         /\ Speaks(r.observation, r.q) /\ r.context = r.observation.items
         /\ r.observation.epoch = conv.epoch => r.query = query
  BY <1>1, <1>3 DEF ConversationInv, EpochInv, Listening
<1>5. Moves(n, e) /\ e.stage = "closed"
  <2>1. /\ e \in Stream /\ e.stage = "closed"
        /\ e.q = r.q /\ e.asked = r.asked /\ e.context = r.context /\ e.query = r.query
    BY <1>2 DEF Stream
  <2> HIDE DEF e
  <2> QED
    BY <2>1, <1>1, <1>3 DEF Moves
<1> HIDE DEF e
<1>6. /\ conv' \in State /\ conv'.epoch = conv.epoch /\ conv'.pending = conv.pending
      /\ conv'.binding = conv.binding
      /\ conv' # conv => r.observation # None /\ r.observation.epoch = conv.epoch
      /\ \/ conv'.completed = conv.completed
         \/ conv'.completed = None
         \/ /\ r.ending # None /\ r.observation # None
            /\ r.observation.epoch = conv.epoch
            /\ conv'.completed.id = n /\ conv'.completed.identity = r.observation.identity
            /\ conv'.completed.items = r.observation.items
            /\ conv'.completed.output = r.ending.output
  <2>1. r.observation \in Observation \cup {None} /\ r.ending \in Ending \cup {None}
    BY <1>2 DEF Stream
  <2>2. conv' = conv \/ conv' = Committed(conv, n, r.observation, r.ending)
    BY <1>1
  <2> HIDE DEF r
  <2> QED
    BY <2>1, <2>2, <1>2, Committing
<1> HIDE DEF r
<1>7. r = stream[n]
  BY DEF r
<1>8. KeepsKnown /\ Undisturbed
  BY <1>1 DEF KeepsKnown, Undisturbed
<1>9. StreamsInv' /\ SlotsInv' /\ EpochInv'
  BY <1>1, <1>2, <1>5, <1>6, MovingKeeps
<1>10. SessionInv'
  BY <1>1, <1>5, <1>8, MovingFits, StillKnown DEF SessionInv
<1>11. CompletedInv'
  <2>1. CASE conv'.completed = conv.completed
    BY <2>1, <1>1, <1>8, StillKnown
  <2>2. CASE conv'.completed = None
    BY <2>2 DEF CompletedInv
  <2>3. CASE /\ r.ending # None /\ r.observation # None
             /\ r.observation.epoch = conv.epoch
             /\ conv'.completed.id = n /\ conv'.completed.identity = r.observation.identity
             /\ conv'.completed.items = r.observation.items
             /\ conv'.completed.output = r.ending.output
    <3>1. /\ known[n] # None
          /\ known[n].context = r.context \o r.ending.output
          /\ known[n].query = r.query /\ known[n].identity = r.q.identity
          /\ known[n].kept
      BY <2>3, <1>3, <1>4, <1>7 DEF Remembered, Speaks
    <3>2. r.context = r.observation.items /\ r.observation.identity = r.q.identity
          /\ r.query = query
      BY <2>3, <1>4 DEF Speaks
    <3>3. known' = known /\ query' = query
      BY <1>1
    <3> QED
      BY <2>3, <3>1, <3>2, <3>3 DEF CompletedInv
  <2> QED
    BY <2>1, <2>2, <2>3, <1>6
<1>12. EndingInv'
  <2> SUFFICES ASSUME NEW j \in Responses, Used(j)'
               PROVE  /\ stream'[j].stage = "released" =>
                            /\ stream'[j].socket # None
                            /\ stream'[j].ending # None
                            /\ known'[j] # None =>
                                  known'[j].socket = stream'[j].socket /\ ~known'[j].late
                      /\ stream'[j].stage \in {"released", "observed"} /\ Good(stream'[j].ending) =>
                            Remembered(j, stream[j].ending)'
                      /\ stream'[j].stage = "observed" /\ stream'[j].ending # None =>
                            stream'[j].ending.kind = "completed"
    BY DEF EndingInv, Good
  <2>1. CASE j = n
    <3>1. stream'[n].stage = "closed"
      BY <1>5, Moving
    <3> QED
      BY <2>1, <3>1
  <2>2. CASE j # n
    <3>1. stream'[j] = stream[j] /\ Used(j) /\ known'[j] = known[j]
      BY <2>2, <1>1, <1>5, Moving
    <3> QED
      BY <3>1 DEF ConversationInv, EndingInv, Good, Remembered, Stored
  <2> QED
    BY <2>1, <2>2
<1>13. call' \in Call /\ CallPart'
  <2>1. CASE call' = NoCall
    BY <2>1, NoCallIdle
  <2>2. CASE call' = call
    <3>1. call.attempt = 1 /\ call.phase \in {"preparing", "connecting", "prepared", "sent"} =>
             conv' = conv
      <4> SUFFICES ASSUME call.attempt = 1,
                          call.phase \in {"preparing", "connecting", "prepared", "sent"},
                          r.observation # None
                   PROVE  r.observation.epoch # conv.epoch
        BY <1>6
      <4>1. r.observation.epoch \in Nat /\ conv.epoch \in Nat
        BY <1>2 DEF Stream, State, Observation
      <4>2. Listening(n)
        BY <1>1, <1>3, <1>7 DEF Listening
      <4>3. r.observation.epoch < conv.epoch
        BY <4>2, <1>7 DEF ConversationInv, ReplayInv, NewHistory
      <4> QED
        BY <4>1, <4>3
    <3> QED
      BY <2>2, <3>1, <1>1, <1>5, <1>6, <1>8, MovingCall
  <2> QED
    BY <2>1, <2>2, <1>1
<1>14. TypeOK' /\ ContextIsTheHistory'
  <2>1. stream' \in [Responses -> Stream \cup {None}] /\ ContextIsTheHistory'
    BY <1>5, Moving
  <2> QED
    BY <2>1, <1>1, <1>6, <1>13 DEF ConversationInv, TypeOK
<1> QED
  BY <1>8, <1>9, <1>10, <1>11, <1>12, <1>13, <1>14 DEF ConversationInv, CallPart

-----------------------------------------------------------------------------
(* The theorems.                                                           *)

\* A new session has nothing to continue.
LEMMA InitInv == Init => ConversationInv
<1> SUFFICES ASSUME Init PROVE ConversationInv
  OBVIOUS
<1>1. /\ ws = NewSession /\ call = NoCall /\ query = 0 /\ calls = 0
      /\ \A s \in Sockets : slot[s] = "unused"
      /\ \A n \in Responses : stream[n] = None /\ known[n] = None
      /\ conv.completed = None /\ conv.pending = None
  BY DEF Init
<1>2. TypeOK
  <2>1. ws \in Session
    BY DEF Init, NewSession, Session
  <2>2. conv \in State
    BY DEF Init, State
  <2>3. call \in Call
    BY DEF Init, NoCall, Call
  <2> QED
    BY <2>1, <2>2, <2>3 DEF Init, TypeOK
<1>3. \A n \in Responses : ~Used(n) /\ ~Running(n) /\ ~OnSocket(n) /\ ~Reporting(n) /\ ~Listening(n)
  BY <1>1 DEF Used, Running, OnSocket, Reporting, Listening
<1>4. StreamsInv
  <2>1. \A n \in Responses : Used(n) <=> n <= 0
    BY <1>3 DEF Responses
  <2>2. 0 \in 0 .. MaxResponses
    OBVIOUS
  <2> QED
    BY <2>1, <2>2, <1>1, <1>3 DEF StreamsInv
<1>5. SlotsInv
  <2>1. ASSUME NEW s \in Sockets PROVE slot[s] # "unused" <=> s <= 0
    <3>1. s \in Nat /\ s > 0
      BY SocketsAreNumbers
    <3>2. ~(s <= 0)
      BY <3>1
    <3>3. slot[s] = "unused"
      BY <1>1
    <3> QED
      BY <3>2, <3>3
  <2>2. 0 \in 0 .. Cardinality(Sockets)
    BY FS_CardinalityType
  <2>3. ws.socket = None
    BY <1>1 DEF NewSession
  <2> QED
    BY <2>1, <2>2, <2>3, <1>3 DEF SlotsInv
<1>6. /\ call.phase = "idle" /\ call.attempt = 0 /\ call.inferred = 0 /\ call.socket = None
      /\ call.observation = None
  BY <1>1 DEF NoCall
<1>7. ~Live
  BY <1>6 DEF Live
<1>8. CallInv /\ PendingInv /\ CallSocketInv /\ BodyInv /\ ReplayInv
  BY <1>1, <1>6, <1>7 DEF CallInv, PendingInv, CallSocketInv, BodyInv, ReplayInv
<1>9. EndingInv /\ EpochInv /\ CompletedInv /\ ContextIsTheHistory
  BY <1>1, <1>3 DEF EndingInv, EpochInv, CompletedInv, ContextIsTheHistory, Used
<1>10. SessionInv
  <2>1. ws.last = None
    BY <1>1 DEF NewSession
  <2> QED
    BY <2>1, <1>3 DEF SessionInv, CellsFit, LastFits
<1> QED
  BY <1>2, <1>4, <1>5, <1>8, <1>9, <1>10 DEF ConversationInv

\* Every step but close, and but the end of a generation for its own socket,
\* leaves the sockets that generate alone.
Leaves ==
    \/ Undisturbed
    \/ Close
    \/ \E n \in Responses :
          /\ stream'[n].stage # "open"
          /\ \A m \in Responses : OnSocket(m) /\ m # n =>
                slot'[stream[m].socket] = slot[stream[m].socket]

\* A step keeps the invariant and leaves the others' sockets alone.
LEMMA NextInv ==
    ASSUME ConversationInv, Next
    PROVE  ConversationInv' /\ Leaves
<1>1. ASSUME NEW q \in Requests, Begin(q) PROVE ConversationInv' /\ Leaves
  BY <1>1, BeginStep DEF Leaves
<1>2. ASSUME NEW q \in Requests, Prewarm(q) PROVE ConversationInv' /\ Leaves
  BY <1>2, PrewarmStep DEF Leaves
<1>3. CASE PrepareStateless
  BY <1>3, PrepareStatelessStep DEF Leaves
<1>4. CASE PrepareChain
  BY <1>4, PrepareChainStep DEF Leaves
<1>5. CASE PrepareFails
  BY <1>5, PrepareFailsStep DEF Leaves
<1>6. CASE PrepareSocket
  BY <1>6, PrepareSocketStep DEF Leaves
<1>7. CASE PrepareFallback
  BY <1>7, PrepareFallbackStep DEF Leaves
<1>8. CASE PrepareSocketFails
  BY <1>8, PrepareSocketFailsStep DEF Leaves
<1>9. CASE DispatchUnbound
  BY <1>9, DispatchUnboundStep DEF Leaves
<1>10. CASE Dispatch
  BY <1>10, DispatchStep DEF Leaves
<1>11. CASE DispatchPrewarm
  BY <1>11, DispatchPrewarmStep DEF Leaves
<1>12. CASE DispatchFails
  BY <1>12, DispatchFailsStep DEF Leaves
<1>13. CASE Infer
  BY <1>13, InferStep DEF Leaves
<1>14. ASSUME NEW kind \in Replayable \cup {"failed"}, NEW inferred \in BOOLEAN,
              TurnDown(kind, inferred)
       PROVE  ConversationInv' /\ Leaves
  BY <1>14, TurnDownStep DEF Leaves
<1>15. ASSUME NEW n \in Responses, Release(n) PROVE ConversationInv' /\ Leaves
  BY <1>15, ReleaseStep DEF Leaves
<1>16. CASE Reset
  BY <1>16, ResetStep DEF Leaves
<1>17. CASE Close
  BY <1>17, CloseStep DEF Leaves
<1>18. CASE ClearHistory
  BY <1>18, ClearHistoryStep DEF Leaves
<1>19. CASE SocketIdleEnds
  BY <1>19, SocketIdleEndsStep DEF Leaves
<1>20. ASSUME NEW n \in Responses, Observe(n) PROVE ConversationInv' /\ Leaves
  BY <1>20, ObserveStep DEF Leaves
<1>21. ASSUME NEW n \in Responses, Commit(n) PROVE ConversationInv' /\ Leaves
  BY <1>21, CommitStep DEF Leaves
<1> QED
  BY <1>1, <1>2, <1>3, <1>4, <1>5, <1>6, <1>7, <1>8, <1>9, <1>10, <1>11, <1>12, <1>13, <1>14,
     <1>15, <1>16, <1>17, <1>18, <1>19, <1>20, <1>21 DEF Next

\* Nothing changes in a stuttering step.
LEMMA StutterInv ==
    ASSUME ConversationInv, UNCHANGED vars
    PROVE  ConversationInv'
<1>1. UNCHANGED <<ws, slot, conv, call, stream, known, query, calls>>
  BY DEF vars
<1>2. TypeOK'
  BY <1>1 DEF ConversationInv, TypeOK
<1>3. Live' <=> Live
  BY <1>1 DEF Live, Bound
<1>4. CallInv' /\ PendingInv'
  BY <1>1 DEF ConversationInv, CallInv, PendingInv, Speaks, Stored
<1>5. CallSocketInv'
  BY <1>1, <1>3 DEF ConversationInv, CallSocketInv, OnSocket, Running, Used, Endpoint
<1>6. BodyInv'
  BY <1>1, <1>3 DEF ConversationInv, BodyInv, Refers, Found, StandsFor, Context
<1>7. ReplayInv'
  BY <1>1 DEF ConversationInv, ReplayInv, NewHistory, NewCell, Reporting, Listening, Used
<1> QED
  BY <1>1, <1>2, <1>4, <1>5, <1>6, <1>7, SameSession, Combine DEF CallPart

\* The inductive invariant: what epochs, cells, bodies and sockets stand for.
THEOREM ConversationInvariant == Spec => []ConversationInv
<1>1. ConversationInv /\ [Next]_vars => ConversationInv'
  BY NextInv, StutterInv
<1> QED
  BY <1>1, InitInv, PTL DEF Spec

\* The session, its socket session, the call and the streams keep their types.
THEOREM ConversationTypeOK == Spec => []TypeOK
<1>1. ConversationInv => TypeOK
  BY DEF ConversationInv
<1> QED
  BY <1>1, ConversationInvariant, PTL

\* However a request was shortened, by the conversation's last response or by
\* the socket's, the model answers the history the caller passed.
THEOREM ConversationContext == Spec => []ContextIsTheHistory
<1>1. ConversationInv => ContextIsTheHistory
  BY DEF ConversationInv
<1> QED
  BY <1>1, ConversationInvariant, PTL

\* A request that is sent refers to a response of its own account and history.
THEOREM ConversationReferences == Spec => []ReferencesOwnHistory
<1>1. ConversationInv => ReferencesOwnHistory
  BY DEF ConversationInv, BodyInv, Refers, Live, Sent, ReferencesOwnHistory
<1> QED
  BY <1>1, ConversationInvariant, PTL

\* What the provider does not store is referred to only on its own socket, or
\* because its stream reported its end after the session had lost that socket.
THEOREM ConversationSockets == Spec => []UnstoredStaysOnItsSocket
<1>1. ConversationInv => UnstoredStaysOnItsSocket
  BY DEF ConversationInv, BodyInv, Refers, Found, Live, Sent, UnstoredStaysOnItsSocket
<1> QED
  BY <1>1, ConversationInvariant, PTL

\* recover replays only what was not inferred.
THEOREM ConversationInfersOnce == Spec => []InferredOnce
<1>1. ConversationInv => InferredOnce
  <2> SUFFICES ASSUME ConversationInv PROVE InferredOnce
    OBVIOUS
  <2>1. call.inferred \in Nat /\ call.inferred <= 1 /\ (call.phase = "sent" => call.inferred = 0)
    BY DEF ConversationInv, TypeOK, Call, CallInv
  <2>2. CASE Sent
    BY <2>1, <2>2 DEF InferredOnce, Sent
  <2>3. CASE ~Sent
    BY <2>1, <2>3 DEF InferredOnce
  <2> QED
    BY <2>2, <2>3
<1> QED
  BY <1>1, ConversationInvariant, PTL

\* The replay after a rejection carries the whole history, although streams of
\* earlier calls end beside it.
THEOREM ConversationReplay == Spec => []ReplayIsFull
<1>1. ConversationInv => ReplayIsFull
  BY DEF ConversationInv, ReplayInv, Sent, ReplayIsFull
<1> QED
  BY <1>1, ConversationInvariant, PTL

\* No step of a call touches the socket of a stream that generates; close does.
THEOREM ConversationUninterrupted == Spec => OthersUninterrupted
<1>1. ASSUME ConversationInv, Next
      PROVE  \A n \in Responses :
                stream[n] # None /\ stream[n].stage = "open" /\ stream[n].socket # None =>
                    \/ slot'[stream[n].socket] = slot[stream[n].socket]
                    \/ stream'[n].stage # "open"
                    \/ Close
  <2>1. Leaves
    BY <1>1, NextInv
  <2> SUFFICES ASSUME NEW n \in Responses, OnSocket(n), ~Close
               PROVE  \/ slot'[stream[n].socket] = slot[stream[n].socket]
                      \/ stream'[n].stage # "open"
    BY DEF OnSocket, Running, Used
  <2>2. CASE Undisturbed
    BY <2>2 DEF Undisturbed
  <2>3. CASE \E k \in Responses :
               /\ stream'[k].stage # "open"
               /\ \A m \in Responses : OnSocket(m) /\ m # k =>
                     slot'[stream[m].socket] = slot[stream[m].socket]
    BY <2>3
  <2> QED
    BY <2>1, <2>2, <2>3 DEF Leaves
<1> QED
  BY <1>1, ConversationInvariant, PTL DEF Spec, OthersUninterrupted
=============================================================================
