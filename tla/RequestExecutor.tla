--------------------------- MODULE RequestExecutor ---------------------------
(***************************************************************************)
(* One request walking its route (client/executor.rs, run_inner): the head *)
(* connection and its siblings, the replay policy, the one repair after a  *)
(* 404, the deadline, and the leases that delete the files an attempt had  *)
(* to upload (files/lifecycle.rs).                                         *)
(*                                                                         *)
(* Each call of execute_attempt is one attempt, numbered by `attempt`; the *)
(* connection it uses is the turn-th of the route.  The provider and the   *)
(* transport choose every outcome.  Background deletions of dropped leases *)
(* run beside the request; the delays before and between them are any      *)
(* delay.  Error kinds that no trigger tells apart are one kind.           *)
(***************************************************************************)
EXTENDS Naturals, Sequences, FiniteSets

CONSTANTS
    Connections,
    Plan,               \* connections with AuthStrategy::ChatGptPlan
    Interactions,       \* connections that speak GeminiInteractions
    Unauthenticated,    \* connections with AuthStrategy::None
    Leased,             \* needs_automatic_cleanup: uploads live for one response
    Requests,           \* the requests a caller may make
    MaxRoute,           \* bound on the length of a route
    CleanupTries,       \* 3
    CleanupTimeout,     \* QWEN_CLEANUP_DEFAULT_TIMEOUT
    MaxFiles,           \* bound on the number of uploads
    MaxTime,            \* bound on the clock
    None

VARIABLES
    request,    \* the request being run
    now,
    phase,      \* where the request is
    turn,       \* attempt_index + 1
    again,      \* whether this is the repeated attempt of a repair
    attempt,    \* how many calls of execute_attempt were made
    sent,       \* every model request handed to the transport, in order
    lease,      \* lease[n]: the AutomaticFileCleanup of attempt n
    pending,    \* pending[n]: the files it still has to delete
    todo,       \* the files AutomaticFileCleanup::finish has left to try
    finishBy,   \* its deadline
    owner,      \* owner[f]: the attempt that uploaded file f
    stored,     \* the uploaded files the provider still has
    tries       \* tries[f]: background deletions of f that failed

walk == <<turn, again, attempt>>
files == <<lease, pending, todo, finishBy, owner, stored, tries>>
vars == <<request, now, phase, walk, sent, files>>

Classes == {"plain", "cached", "continuation", "remote", "stateful"}
Triggers == {"rate_limit", "overloaded", "server_error", "network", "auth"}
Kinds == {"RateLimited", "Overloaded", "ProviderInternal", "Transport", "TransportTimeout",
          "Authentication", "UnsupportedCapability", "Other"}
Attempts == 1 .. 2 * MaxRoute
FileIds == 1 .. MaxFiles

Request ==
    [route : Seq(Connections), class : Classes, triggers : SUBSET Triggers,
     stream : BOOLEAN, attachments : Nat, keys : SUBSET Connections,
     timeout : Nat \cup {None}]

\* A route names a connection once, and a plan never has siblings (resolve.rs).
\* Complete requests always have a timeout (execution_options).
ASSUME ExecutorAssumption ==
    /\ MaxRoute \in Nat
    /\ Requests \subseteq Request
    /\ \A q \in Requests :
          /\ \A i, j \in 1 .. Len(q.route) : q.route[i] = q.route[j] => i = j
          /\ \A i \in 1 .. Len(q.route) : q.route[i] \in Plan => Len(q.route) = 1
          /\ Len(q.route) <= MaxRoute
          /\ ~q.stream => q.timeout # None
    /\ CleanupTries \in Nat \ {0}
    /\ CleanupTimeout \in Nat
    /\ MaxFiles \in Nat
    /\ MaxTime \in Nat
    /\ None \notin Nat \cup Connections

-----------------------------------------------------------------------------
(* Replay policy and failover.                                             *)

\* FailoverTriggers::matches
TriggerOf ==
    [RateLimited |-> "rate_limit", Overloaded |-> "overloaded",
     ProviderInternal |-> "server_error", Transport |-> "network",
     TransportTimeout |-> "network", Authentication |-> "auth",
     UnsupportedCapability |-> None, Other |-> None]

\* Mutant: Interactions requests keep the policy of their class.
PinnedToPlan(q) == \E i \in 1 .. Len(q.route) : q.route[i] \in Plan

\* Connections on which an uncertain submission may never be repeated.
PinnedByConnection(q) == \E i \in 1 .. Len(q.route) : q.route[i] \in Plan \cup Interactions

\* replay_policy, with the overrides of run_inner.
ReplayPolicy(q) ==
    LET pinned == PinnedByConnection(q)
    IN  [pin_to_connection    |-> pinned \/ q.class # "plain",
         repair_missing_files |-> ~pinned /\ q.class \in {"plain", "cached"},
         allow_failover       |-> ~pinned /\ q.class # "stateful"]

\* attempts
AttemptCount(q) == IF ReplayPolicy(q).pin_to_connection THEN 1 ELSE Len(q.route)

\* is_attachment_capability_fallback, or a trigger of the head's connection.
MayFailover(q, kind) ==
    /\ ReplayPolicy(q).allow_failover
    /\ \/ turn > 1 /\ q.attachments > 0 /\ kind = "UnsupportedCapability"
       \/ TriggerOf[kind] \in q.triggers

Connection == request.route[turn]

\* Mutant: a sibling without a key of its own borrows the head's.
BorrowedKey(q, c) ==
    IF c \in q.keys THEN c ELSE q.route[1]

\* The credential for a connection of the route: the request's own for the
\* head, fallback_credentials for a sibling.
Key(q, c) ==
    CASE c = q.route[1] -> c
      [] c # q.route[1] /\ c \in q.keys -> c
      [] OTHER -> None

Authorized(q, c) == c = q.route[1] \/ c \in Unauthenticated \/ Key(q, c) # None

-----------------------------------------------------------------------------
(* Time.                                                                   *)

Deadline == request.timeout

\* Mutant: the last moment still counts.
ElapsedLate == Deadline # None /\ now > Deadline

Elapsed == Deadline # None /\ now >= Deadline

\* Mutant: preparation has no deadline.
TimedExchange == {"exchanging", "collecting", "streaming"}

\* The awaits under within_deadline or HttpExecutor's deadline.
Timed == {"resolving", "preparing", "exchanging", "collecting", "streaming"}

Working == {"validating", "resolving", "preparing", "exchanging", "repairing", "collecting", "cleaning"}

Over == {"answered", "failed", "closed", "dropped"}

-----------------------------------------------------------------------------
(* Leases.                                                                 *)

\* Mutant: files of a dropped lease are forgotten.
ForgottenOnDrop(n) == [lease EXCEPT ![n] = IF lease[n] = "held" THEN "gone" ELSE lease[n]]

\* Drop for AutomaticFileCleanup: a task is spawned for the files that are left.
DroppedLease(n) ==
    [lease EXCEPT ![n] =
        IF lease[n] # "held" THEN lease[n]
        ELSE IF pending[n] = <<>> THEN "gone" ELSE "background"]

\* retain, on a list that names a file once.
Without(s, f) ==
    LET p == CHOOSE i \in DOMAIN s : s[i] = f
    IN  IF \E i \in DOMAIN s : s[i] = f
          THEN SubSeq(s, 1, p - 1) \o SubSeq(s, p + 1, Len(s))
          ELSE s

-----------------------------------------------------------------------------
Init ==
    /\ request \in Requests
    /\ now = 0
    /\ phase = "validating"
    /\ turn = 1
    /\ again = FALSE
    /\ attempt = 0
    /\ sent = <<>>
    /\ lease = [n \in Attempts |-> "none"]
    /\ pending = [n \in Attempts |-> <<>>]
    /\ todo = <<>>
    /\ finishBy = 0
    /\ owner = <<>>
    /\ stored = {}
    /\ tries = [f \in FileIds |-> 0]

\* execute_attempt begins with connection i of the route.
Begin(i, repeated) ==
    /\ phase' = "preparing"
    /\ turn' = i
    /\ again' = repeated
    /\ attempt' = attempt + 1

NextConnection(kind) == turn < AttemptCount(request) /\ MayFailover(request, kind)

\* An attempt fails: its lease is dropped, and the next connection gets its
\* turn or the error is returned.
Fail(kind) ==
    /\ lease' = DroppedLease(attempt)
    /\ IF NextConnection(kind)
         THEN Begin(turn + 1, FALSE)
         ELSE phase' = "failed" /\ UNCHANGED walk
    /\ UNCHANGED <<request, now, sent, pending, todo, finishBy, owner, stored, tries>>

\* validate_host_request, and the check that the route is not empty.
Validate ==
    /\ phase = "validating"
    /\ phase' \in IF request.route = <<>> THEN {"failed"} ELSE {"failed", "resolving"}
    /\ UNCHANGED <<request, now, walk, sent, files>>

\* resolve_before_deadline reads the attachments; its errors are returned.
Resolve ==
    /\ phase = "resolving"
    /\ \/ ~Elapsed /\ Begin(1, FALSE)
       \/ phase' = "failed" /\ UNCHANGED walk
    /\ UNCHANGED <<request, now, sent, files>>

Uploaded == {f \in DOMAIN owner : owner[f] = attempt}

\* prepare: an upload to a connection that keeps files for one response only.
\* The lease is created by the attempt and tracks the file at once.
Upload ==
    LET f == Len(owner) + 1
    IN  /\ phase = "preparing"
        /\ ~Elapsed
        /\ Authorized(request, Connection)
        /\ Connection \in Leased
        /\ Cardinality(Uploaded) < request.attachments
        /\ f <= MaxFiles
        /\ owner' = Append(owner, attempt)
        /\ stored' = stored \cup {f}
        /\ lease' = [lease EXCEPT ![attempt] = "held"]
        /\ pending' = [pending EXCEPT ![attempt] = Append(@, f)]
        /\ UNCHANGED <<request, now, phase, walk, sent, todo, finishBy, tries>>

\* prepare fails: over a check, a missing credential, an upload or a refused token.
\* Nothing remote is asked before the credential is found.
PrepareFails(kind) ==
    /\ phase = "preparing"
    /\ ~Elapsed
    /\ \/ Authorized(request, Connection)
       \/ kind \in {"Authentication", "UnsupportedCapability", "Other"}
    /\ Fail(kind)

\* The prepared request goes to the transport, if time is left.
Dispatch ==
    /\ phase = "preparing"
    /\ ~Elapsed
    /\ Authorized(request, Connection)
    /\ Connection \in Leased => Cardinality(Uploaded) = request.attachments
    /\ sent' = Append(sent, [to |-> Connection, key |-> Key(request, Connection),
                             at |-> now, denied |-> FALSE])
    /\ phase' = "exchanging"
    /\ UNCHANGED <<request, now, walk, files>>

SendFails(kind) ==
    /\ phase = "exchanging"
    /\ kind \in {"Transport", "TransportTimeout"}
    /\ Fail(kind)

\* A status outside 2xx that names none of the prepared files.
Refused(kind) ==
    /\ phase = "exchanging"
    /\ Fail(kind)

Denied == [sent EXCEPT ![Len(sent)].denied = TRUE]

\* Mutant: a repaired attempt may be repaired again.
RepairableAlways == ReplayPolicy(request).repair_missing_files

Repairable == ReplayPolicy(request).repair_missing_files /\ ~again

\* missing_provider_file_uses: a 404 that names prepared files.  The lease went
\* with the failed attempt.
NotFound(kind) ==
    /\ phase = "exchanging"
    /\ request.attachments > 0
    /\ sent' = Denied
    /\ lease' = DroppedLease(attempt)
    /\ IF Repairable
         THEN phase' = "repairing" /\ UNCHANGED walk
         ELSE IF NextConnection(kind)
                THEN Begin(turn + 1, FALSE)
                ELSE phase' = "failed" /\ UNCHANGED walk
    /\ UNCHANGED <<request, now, pending, todo, finishBy, owner, stored, tries>>

\* invalidate_provider_file_cache returned; no deadline covers the wait.
Repair ==
    /\ phase = "repairing"
    /\ Begin(turn, TRUE)
    /\ UNCHANGED <<request, now, sent, files>>

\* Mutant: the lease ends with execute_attempt.
AcceptedWithoutLease ==
    /\ phase = "exchanging"
    /\ phase' = IF request.stream THEN "streaming" ELSE "collecting"
    /\ lease' = DroppedLease(attempt)
    /\ UNCHANGED <<request, now, walk, sent, pending, todo, finishBy, owner, stored, tries>>

\* A 2xx: a stream is returned with its lease, or the body is collected.
Accepted ==
    /\ phase = "exchanging"
    /\ phase' = IF request.stream THEN "streaming" ELSE "collecting"
    /\ UNCHANGED <<request, now, walk, sent, files>>

\* The body breaks off, or does not decode.
CollectFails(kind) ==
    /\ phase = "collecting"
    /\ Fail(kind)

\* AutomaticFileCleanup::finish begins.
BeginFinish ==
    /\ phase' = "cleaning"
    /\ todo' = pending[attempt]
    /\ finishBy' = IF Deadline # None THEN Deadline ELSE now + CleanupTimeout
    /\ UNCHANGED <<request, now, walk, sent, lease, pending, owner, stored, tries>>

Collected ==
    /\ phase = "collecting"
    /\ \/ lease[attempt] = "held" /\ BeginFinish
       \/ /\ lease[attempt] # "held"
          /\ phase' = "answered"
          /\ UNCHANGED <<request, now, walk, sent, files>>

\* finish keeps what it could not delete.
PendingAfter(p, f, deleted) == IF deleted THEN Without(p, f) ELSE p

\* One deletion of finish: acknowledged, refused, or done with the answer lost.
FinishDelete ==
    /\ phase = "cleaning"
    /\ todo # <<>>
    /\ now < finishBy
    /\ \E deleted, acknowledged \in BOOLEAN :
          /\ acknowledged => deleted
          /\ stored' = IF deleted THEN stored \ {Head(todo)} ELSE stored
          /\ pending' = [pending EXCEPT ![attempt] = PendingAfter(@, Head(todo), acknowledged)]
    /\ todo' = Tail(todo)
    /\ UNCHANGED <<request, now, phase, walk, sent, lease, finishBy, owner, tries>>

\* finish is over or out of time; the lease is dropped with what is left.
FinishEnds ==
    /\ phase = "cleaning"
    /\ todo = <<>> \/ now >= finishBy
    /\ lease' = DroppedLease(attempt)
    /\ todo' = <<>>
    /\ phase' = IF request.stream THEN "closed" ELSE "answered"
    /\ UNCHANGED <<request, now, walk, sent, pending, finishBy, owner, stored, tries>>

-----------------------------------------------------------------------------
(* The stream, once returned, and the caller.                              *)

\* A terminal event, an error or the end of the body (finish_transport).
StreamEnds ==
    /\ phase = "streaming"
    /\ phase' = "ended"
    /\ UNCHANGED <<request, now, walk, sent, files>>

\* The caller reads on to None, which finishes the lease first.
Drain ==
    /\ phase = "ended"
    /\ \/ lease[attempt] = "held" /\ BeginFinish
       \/ /\ lease[attempt] # "held"
          /\ phase' = "closed"
          /\ UNCHANGED <<request, now, walk, sent, files>>

\* The caller drops the future or the stream.
Abandon ==
    /\ phase \notin Over
    /\ phase' = "dropped"
    /\ lease' = IF attempt = 0 THEN lease ELSE DroppedLease(attempt)
    /\ todo' = <<>>
    /\ UNCHANGED <<request, now, walk, sent, pending, finishBy, owner, stored, tries>>

-----------------------------------------------------------------------------
(* Background deletion, deadlines, time.                                   *)

GivesUp(f) == tries[f] + 1 >= CleanupTries

\* The task spawned by Drop: up to CleanupTries deletions of each file, in order.
Background(n) ==
    LET f == Head(pending[n])
    IN  /\ lease[n] = "background"
        /\ pending[n] # <<>>
        /\ \E deleted, acknowledged \in BOOLEAN :
              /\ acknowledged => deleted
              /\ stored' = IF deleted THEN stored \ {f} ELSE stored
              /\ tries' = IF acknowledged THEN tries ELSE [tries EXCEPT ![f] = @ + 1]
              /\ pending' = IF acknowledged \/ GivesUp(f)
                              THEN [pending EXCEPT ![n] = Tail(@)] ELSE pending
        /\ lease' = [lease EXCEPT ![n] = IF pending'[n] = <<>> THEN "gone" ELSE @]
        /\ UNCHANGED <<request, now, phase, walk, sent, todo, finishBy, owner>>

\* The deadline: an error of the attempt, which may match the network trigger.
TimeOut ==
    /\ phase \in Timed
    /\ Elapsed
    /\ \/ /\ phase = "resolving"
          /\ phase' = "failed"
          /\ UNCHANGED <<request, now, walk, sent, files>>
       \/ /\ phase \in {"preparing", "exchanging", "collecting"}
          /\ Fail("TransportTimeout")
       \/ /\ phase = "streaming"
          /\ phase' = "ended"
          /\ UNCHANGED <<request, now, walk, sent, files>>

\* Timers fire before time passes them; nothing is timed while a repair waits.
\* The bound leaves finish the time it gives itself.
Tick ==
    /\ now < MaxTime \/ phase = "cleaning"
    /\ phase \in Timed => ~Elapsed
    /\ phase = "cleaning" => now < finishBy
    /\ now' = now + 1
    /\ UNCHANGED <<request, phase, walk, sent, files>>

\* What the program does by itself.
Local == Validate \/ Repair \/ FinishEnds \/ TimeOut

\* What waits for the transport or the host.
Awaited ==
    \/ Resolve \/ Upload \/ Dispatch \/ Accepted \/ Collected \/ FinishDelete \/ StreamEnds
    \/ \E kind \in Kinds :
          \/ PrepareFails(kind) \/ SendFails(kind) \/ Refused(kind)
          \/ NotFound(kind) \/ CollectFails(kind)

Next ==
    \/ Local \/ Awaited \/ Drain \/ Abandon \/ Tick
    \/ \E n \in Attempts : Background(n)

\* The request is polled, time passes and every spawned task is run, but no
\* provider is sure to answer: only what the program does by itself is fair.
Fairness ==
    /\ WF_vars(Local)
    /\ WF_vars(Tick)
    /\ \A n \in Attempts : WF_vars(Background(n))

Spec == Init /\ [][Next]_vars /\ Fairness

-----------------------------------------------------------------------------
(* Properties.                                                             *)

\* Every variable has its type.
TypeOK ==
    /\ request \in Requests
    /\ now \in Nat
    /\ phase \in Working \cup Over \cup {"streaming", "ended"}
    /\ turn \in Nat \ {0}
    /\ again \in BOOLEAN
    /\ attempt \in {0} \cup Attempts
    /\ sent \in Seq([to : Connections, key : Connections \cup {None}, at : Nat, denied : BOOLEAN])
    /\ lease \in [Attempts -> {"none", "held", "background", "gone"}]
    /\ pending \in [Attempts -> Seq(FileIds)]
    /\ todo \in Seq(FileIds)
    /\ finishBy \in Nat
    /\ owner \in Seq(Attempts)
    /\ stored \in SUBSET FileIds
    /\ tries \in [FileIds -> 0 .. CleanupTries]

\* A request that leaves something behind at the provider.
Unrepeatable(q) ==
    \/ q.class \in {"continuation", "remote", "stateful"}
    \/ \E i \in 1 .. Len(q.route) : q.route[i] \in Plan \cup Interactions

\* A request that leaves provider state behind is submitted at most once and
\* only to the head of its route, whatever failed and however often ("An
\* uncertain submission must never create a second interaction", run_inner).
SubmittedOnce ==
    Unrepeatable(request) =>
        /\ Len(sent) <= 1
        /\ \A i \in DOMAIN sent : sent[i].to = request.route[1]

\* A connection gets the request a second time only after it answered that a
\* prepared file is missing, and never a third time.
ResentOnlyToRepair ==
    \A i, j \in DOMAIN sent :
        i < j /\ sent[i].to = sent[j].to =>
            /\ sent[i].denied
            /\ j = i + 1
            /\ \A k \in DOMAIN sent : sent[k].to = sent[i].to => k \in {i, j}

\* A sibling is never sent the head's credential, nor any but its own.
OwnCredentials ==
    \A i \in DOMAIN sent :
        sent[i].key = sent[i].to \/ (sent[i].to \in Unauthenticated /\ sent[i].key = None)

\* Nothing is sent once the deadline has passed, although a repair may outlast
\* it and the timeout may itself trigger failover.
NothingSentLate ==
    Deadline # None => \A i \in DOMAIN sent : sent[i].at < Deadline

\* A file is not deleted while the attempt that uploaded it still needs it.
FilesOutliveTheirUse ==
    \A f \in DOMAIN owner :
        owner[f] = attempt /\ phase \in {"preparing", "exchanging", "collecting", "streaming"} =>
            f \in stored

\* Every file the client was told of is deleted, or its deletion was tried as
\* often as allowed, unless the caller still holds the stream or waits without
\* a deadline for a provider that never answers.
FilesCollected ==
    \A f \in FileIds :
        f \in DOMAIN owner ~>
            \/ f \notin stored
            \/ tries[f] = CleanupTries
            \/ phase \in {"streaming", "ended"}
            \/ Deadline = None /\ phase \in Working \ {"cleaning"}

\* A request with a deadline comes back even from a provider that never answers.
TimedRequestsReturn ==
    (Deadline # None /\ phase \in Working) ~> phase \notin Working
=============================================================================
