------------------------ MODULE RequestExecutorProofs ------------------------
(***************************************************************************)
(* Proofs about RequestExecutor for every set of requests, every length of *)
(* route and every number of files: what is submitted where, and how often,*)
(* with whose credential and until when, and that no uploaded file is      *)
(* deleted too early or forgotten.                                         *)
(***************************************************************************)
EXTENDS RequestExecutor, TLAPS, SequenceTheorems

USE ExecutorAssumption

-----------------------------------------------------------------------------
(* The inductive invariant.                                                *)

Starting == {"validating", "resolving"}

\* The request was handed to the connection of this turn.
Submitted == {"exchanging", "collecting", "streaming", "ended", "cleaning"}

Running == Submitted \cup {"preparing", "repairing"}

\* An attempt for each connection so far and one more for each repair: the
\* attempts fit their bound.
CountInv ==
    /\ phase \in Starting => attempt = 0 /\ turn = 1 /\ ~again
    /\ phase \in Running \cup {"resolving"} => request.route # <<>>
    /\ phase \in Running =>
          /\ attempt > 0
          /\ turn <= AttemptCount(request)
          /\ attempt <= IF again THEN 2 * turn ELSE 2 * turn - 1
    /\ phase = "repairing" => ~again
    /\ again \/ phase = "repairing" => ReplayPolicy(request).repair_missing_files

\* The last c submissions went to the connection of this turn, the earlier
\* ones to earlier connections.
Here(c) ==
    /\ c <= Len(sent)
    /\ \A i \in DOMAIN sent :
          \/ i > Len(sent) - c /\ sent[i].to = request.route[turn]
          \/ i <= Len(sent) - c /\ \E j \in 1 .. turn - 1 : sent[i].to = request.route[j]

\* How often the connection of this turn was sent the request.
SentInv ==
    /\ phase \in Starting => sent = <<>>
    /\ phase = "preparing" /\ ~again => Here(0)
    /\ phase = "preparing" /\ again => Here(1) /\ sent[Len(sent)].denied
    /\ phase = "repairing" => Here(1) /\ sent[Len(sent)].denied
    /\ phase \in Submitted /\ ~again => Here(1)
    /\ phase \in Submitted /\ again => Here(2) /\ sent[Len(sent) - 1].denied

\* s names every file once.
Once(s) == \A i, j \in DOMAIN s : s[i] = s[j] => i = j

\* The attempt may still need its files.
Using == {"preparing", "exchanging", "collecting", "streaming"}

\* The attempt still has its lease.
Leasing == Submitted \cup {"preparing"}

\* A lease holds files of its own attempt, each once, and each still to try.
LeaseInv ==
    /\ \A n \in Attempts : \A i \in DOMAIN pending[n] :
          /\ pending[n][i] \in DOMAIN owner
          /\ owner[pending[n][i]] = n
          /\ tries[pending[n][i]] < CleanupTries
    /\ \A n \in Attempts : Once(pending[n])
    /\ \A f \in DOMAIN owner : f \in FileIds /\ owner[f] <= attempt
    /\ \A f \in FileIds : f > Len(owner) => tries[f] = 0
    /\ \A n \in Attempts : n > attempt => lease[n] = "none"
    /\ phase \in Leasing => lease[attempt] \in {"none", "held"}

\* No file is forgotten: one that the provider still has waits in a lease that
\* will try to delete it, or was tried as often as allowed (track, finish and
\* the task that Drop spawns, files/lifecycle.rs).
FilesAccounted ==
    \A f \in stored :
        \/ tries[f] = CleanupTries
        \/ /\ f \in DOMAIN owner
           /\ lease[owner[f]] \in {"held", "background"}
           /\ \E i \in DOMAIN pending[owner[f]] : pending[owner[f]][i] = f

ExecutorInv ==
    /\ TypeOK
    /\ CountInv
    /\ SentInv
    /\ LeaseInv
    /\ SubmittedOnce
    /\ ResentOnlyToRepair
    /\ OwnCredentials
    /\ NothingSentLate
    /\ FilesOutliveTheirUse
    /\ FilesAccounted

-----------------------------------------------------------------------------
(* What a step may do to the walk along the route and to the submissions.  *)

\* The walk goes on at the same connection, or is over.
Stays ==
    /\ UNCHANGED <<walk, sent>>
    /\ \/ phase' = phase
       \/ phase = "validating" /\ phase' = "resolving" /\ request.route # <<>>
       \/ phase \in Submitted /\ phase' \in Submitted
       \/ phase' \in Over

Starts ==
    /\ phase = "resolving"
    /\ Begin(1, FALSE)
    /\ sent' = sent

\* The last submission may just have been denied.
Advances ==
    /\ phase \in Submitted \cup {"preparing"}
    /\ turn < AttemptCount(request)
    /\ Begin(turn + 1, FALSE)
    /\ sent' = sent \/ (phase = "exchanging" /\ sent' = Denied)

Denies ==
    /\ phase = "exchanging"
    /\ sent' = Denied
    /\ phase' = "failed" \/ (phase' = "repairing" /\ Repairable)
    /\ UNCHANGED walk

Submits == Dispatch

WalkStep ==
    /\ request' = request
    /\ now' \in {now, now + 1}
    /\ Stays \/ Starts \/ Advances \/ Denies \/ Repair \/ Submits

\* Every step of the request is one of these.
LEMMA NextWalk ==
    ASSUME [Next]_vars, TypeOK
    PROVE  WalkStep
<1> USE DEF walk, files, vars, Stays, Starts, Advances, Denies, Submits, WalkStep, Submitted, Over
<1>1. ASSUME NEW kind, Fail(kind), phase \in Submitted \cup {"preparing"}
      PROVE  WalkStep
  BY <1>1 DEF Fail, Begin, NextConnection
<1>2. CASE Validate  BY <1>2 DEF Validate
<1>3. CASE Repair  BY <1>3 DEF Repair
<1>4. CASE FinishEnds  BY <1>4 DEF FinishEnds
<1>5. CASE TimeOut  BY <1>5, <1>1 DEF TimeOut
<1>6. CASE Resolve  BY <1>6 DEF Resolve
<1>7. CASE Upload  BY <1>7 DEF Upload
<1>8. CASE Dispatch  BY <1>8 DEF Dispatch
<1>9. CASE Accepted  BY <1>9 DEF Accepted
<1>10. CASE Collected  BY <1>10 DEF Collected, BeginFinish
<1>11. CASE FinishDelete  BY <1>11 DEF FinishDelete
<1>12. CASE StreamEnds  BY <1>12 DEF StreamEnds
<1>13. ASSUME NEW kind \in Kinds, PrepareFails(kind)
       PROVE  WalkStep
  BY <1>13, <1>1 DEF PrepareFails
<1>14. ASSUME NEW kind \in Kinds, SendFails(kind)
       PROVE  WalkStep
  BY <1>14, <1>1 DEF SendFails
<1>15. ASSUME NEW kind \in Kinds, Refused(kind)
       PROVE  WalkStep
  BY <1>15, <1>1 DEF Refused
<1>16. ASSUME NEW kind \in Kinds, NotFound(kind)
       PROVE  WalkStep
  BY <1>16 DEF NotFound, Begin, NextConnection
<1>17. ASSUME NEW kind \in Kinds, CollectFails(kind)
       PROVE  WalkStep
  BY <1>17, <1>1 DEF CollectFails
<1>18. CASE Drain  BY <1>18 DEF Drain, BeginFinish
<1>19. CASE Abandon  BY <1>19 DEF Abandon
<1>20. CASE Tick  BY <1>20 DEF Tick
<1>21. ASSUME NEW n \in Attempts, Background(n)
       PROVE  WalkStep
  BY <1>21 DEF Background
<1>22. CASE UNCHANGED vars  BY <1>22
<1>23. QED
  BY <1>2, <1>3, <1>4, <1>5, <1>6, <1>7, <1>8, <1>9, <1>10, <1>11, <1>12, <1>13, <1>14, <1>15,
     <1>16, <1>17, <1>18, <1>19, <1>20, <1>21, <1>22 DEF Next, Local, Awaited

\* The route of a request: its connections, each once, and the part of it that
\* the replay policy leaves to try.
LEMMA RouteFacts ==
    ASSUME TypeOK
    PROVE  /\ request.route \in Seq(Connections)
           /\ Len(request.route) \in Nat
           /\ Len(request.route) <= MaxRoute
           /\ AttemptCount(request) \in Nat
           /\ request.route # <<>> => AttemptCount(request) >= 1
           /\ request.route # <<>> => AttemptCount(request) <= Len(request.route)
           /\ \A i, j \in 1 .. Len(request.route) : request.route[i] = request.route[j] => i = j
           /\ Unrepeatable(request) => /\ AttemptCount(request) = 1
                                       /\ ~ReplayPolicy(request).repair_missing_files
<1>1. request \in Request
  BY DEF TypeOK
<1>2. /\ request.route \in Seq(Connections)
      /\ Len(request.route) \in Nat
      /\ request.route # <<>> => Len(request.route) >= 1
  BY <1>1 DEF Request
<1>3. AttemptCount(request) \in {1, Len(request.route)}
  BY DEF AttemptCount
<1>4. Unrepeatable(request) => /\ AttemptCount(request) = 1
                               /\ ~ReplayPolicy(request).repair_missing_files
  BY DEF Unrepeatable, AttemptCount, ReplayPolicy, PinnedByConnection
<1>5. QED
  BY <1>2, <1>3, <1>4 DEF TypeOK

-----------------------------------------------------------------------------
(* The walk.                                                               *)

\* The attempts stay within their bound.
LEMMA NextCount ==
    ASSUME TypeOK, CountInv, WalkStep
    PROVE  /\ CountInv'
           /\ turn' \in Nat \ {0}
           /\ again' \in BOOLEAN
           /\ attempt' \in {0} \cup Attempts
<1>1. /\ request' = request
      /\ AttemptCount(request') = AttemptCount(request)
      /\ ReplayPolicy(request') = ReplayPolicy(request)
  BY DEF WalkStep
<1>2. /\ turn \in Nat \ {0}
      /\ again \in BOOLEAN
      /\ attempt \in {0} \cup Attempts
      /\ phase \in Working \cup Over \cup {"streaming", "ended"}
  BY DEF TypeOK
<1> USE <1>1, <1>2, RouteFacts DEF CountInv, Attempts, Starting, Running, Submitted
<1>3. CASE Stays  BY <1>3 DEF Stays, walk, Over
<1>4. CASE Starts
  <2>1. ~again' /\ again' \in BOOLEAN
    BY <1>4, Zenon DEF Starts, Begin
  <2>2. QED
    BY <1>4, <2>1 DEF Starts, Begin
<1>5. CASE Advances
  <2>1. /\ turn < AttemptCount(request) /\ attempt <= 2 * turn /\ request.route # <<>>
        /\ turn' = turn + 1 /\ attempt' = attempt + 1 /\ again' = FALSE /\ phase' = "preparing"
    BY <1>5 DEF Advances, Begin
  <2>2. attempt' \in Attempts /\ turn' \in Nat \ {0}
    BY <2>1
  <2>3. attempt' <= 2 * turn' - 1 /\ turn' <= AttemptCount(request)
    BY <2>1
  <2>4. ~again' /\ again' \in BOOLEAN
    BY <1>5, Zenon DEF Advances, Begin
  <2>5. QED
    BY <2>1, <2>2, <2>3, <2>4
<1>6. CASE Denies  BY <1>6 DEF Denies, walk, Repairable
<1>7. CASE Repair
  <2>1. /\ turn <= AttemptCount(request) /\ attempt <= 2 * turn - 1 /\ request.route # <<>>
        /\ turn' = turn /\ attempt' = attempt + 1 /\ again' = TRUE /\ phase' = "preparing"
        /\ ReplayPolicy(request).repair_missing_files
    BY <1>7 DEF Repair, Begin
  <2>2. attempt' \in Attempts
    BY <2>1
  <2>3. attempt' <= 2 * turn'
    BY <2>1
  <2>4. QED
    BY <2>1, <2>2, <2>3
<1>8. CASE Submits  BY <1>8 DEF Submits, Dispatch, walk
<1>9. QED
  BY <1>3, <1>4, <1>5, <1>6, <1>7, <1>8 DEF WalkStep

-----------------------------------------------------------------------------
(* The submissions.                                                        *)

Submission == [to : Connections, key : Connections \cup {None}, at : Nat, denied : BOOLEAN]

\* A denial marks the last submission and changes nothing else.
LEMMA DeniedFacts ==
    ASSUME sent \in Seq(Submission), sent # <<>>
    PROVE  /\ Denied \in Seq(Submission)
           /\ Len(Denied) = Len(sent)
           /\ DOMAIN Denied = DOMAIN sent
           /\ \A i \in DOMAIN sent : /\ Denied[i].to = sent[i].to
                                     /\ Denied[i].key = sent[i].key
                                     /\ Denied[i].at = sent[i].at
                                     /\ sent[i].denied => Denied[i].denied
           /\ Denied[Len(sent)].denied
<1> DEFINE n == Len(sent)
           last == [sent[n] EXCEPT !.denied = TRUE]
<1>1. n \in 1 .. Len(sent)
  BY EmptySeq, LenProperties
<1>2. sent[n] \in Submission
  BY <1>1, ElementOfSeq
<1>3. /\ last \in Submission
      /\ last.to = sent[n].to
      /\ last.key = sent[n].key
      /\ last.at = sent[n].at
      /\ last.denied
  BY <1>2, Zenon DEF Submission
<1>4. Denied = [sent EXCEPT ![n] = last]
  BY DEF Denied
<1> HIDE DEF last, n
<1>5. /\ Denied \in Seq(Submission)
      /\ Len(Denied) = Len(sent)
      /\ DOMAIN Denied = DOMAIN sent
  BY <1>1, <1>3, <1>4, ExceptSeq, LenProperties
<1>6. \A i \in DOMAIN sent : Denied[i] = IF i = n THEN last ELSE sent[i]
  BY <1>4
<1>7. QED
  BY <1>1, <1>3, <1>5, <1>6, LenProperties DEF n

\* A submission is added at the end.
LEMMA SubmitFacts ==
    ASSUME sent \in Seq(Submission), NEW m \in Submission, sent' = Append(sent, m)
    PROVE  /\ sent' \in Seq(Submission)
           /\ Len(sent) \in Nat
           /\ Len(sent') = Len(sent) + 1
           /\ DOMAIN sent = 1 .. Len(sent)
           /\ DOMAIN sent' = 1 .. Len(sent) + 1
           /\ \A i \in DOMAIN sent : sent'[i] = sent[i]
           /\ sent'[Len(sent) + 1] = m
BY AppendProperties, LenProperties

\* The connection of this turn is in the route, and may be asked.
LEMMA DispatchType ==
    ASSUME TypeOK, CountInv, Dispatch
    PROVE  /\ turn \in 1 .. Len(request.route)
           /\ Connection \in Connections
           /\ [to |-> Connection, key |-> Key(request, Connection), at |-> now, denied |-> FALSE]
                 \in Submission
<1>1. turn \in 1 .. Len(request.route)
  <2>1. turn \in Nat \ {0}
    BY DEF TypeOK
  <2>2. turn <= AttemptCount(request) /\ request.route # <<>>
    BY DEF CountInv, Dispatch, Running
  <2>3. QED
    BY <2>1, <2>2, RouteFacts
<1>2. Connection \in Connections
  BY <1>1, RouteFacts, ElementOfSeq DEF Connection
<1>3. Key(request, Connection) \in Connections \cup {None}
  BY <1>2 DEF Key
<1>4. QED
  BY <1>1, <1>2, <1>3 DEF Submission, TypeOK

\* Once the request is on its way there is a submission, and every one went to
\* a connection of the route up to this turn.
LEMMA SentAhead ==
    ASSUME TypeOK, SentInv, phase \in Running
    PROVE  /\ sent \in Seq(Submission)
           /\ phase # "preparing" => sent # <<>>
           /\ \A i \in DOMAIN sent : \E j \in 1 .. turn : sent[i].to = request.route[j]
<1>1. sent \in Seq(Submission) /\ Len(sent) \in Nat /\ turn \in Nat \ {0} /\ again \in BOOLEAN
  BY LenProperties DEF TypeOK, Submission
<1>2. \E c \in 0 .. 2 : Here(c) /\ (phase # "preparing" => c > 0)
  BY <1>1 DEF SentInv, Running, Submitted
<1>3. PICK c \in 0 .. 2 : Here(c) /\ (phase # "preparing" => c > 0)
  BY <1>2
<1>4. phase # "preparing" => sent # <<>>
  BY <1>1, <1>3, EmptySeq DEF Here
<1>5. ASSUME NEW i \in DOMAIN sent
      PROVE  \E j \in 1 .. turn : sent[i].to = request.route[j]
  BY <1>1, <1>3 DEF Here
<1>6. QED
  BY <1>1, <1>4, <1>5

\* Every step keeps count of what the connection of this turn was sent.
LEMMA NextSent ==
    ASSUME TypeOK, CountInv, SentInv, WalkStep
    PROVE  SentInv' /\ sent' \in Seq(Submission)
<1>1. /\ sent \in Seq(Submission)
      /\ turn \in Nat \ {0}
      /\ again \in BOOLEAN
      /\ request' = request
  BY DEF TypeOK, Submission, WalkStep
<1>2. CASE Stays
  <2>1. UNCHANGED <<turn, again, sent, request>>
    BY <1>1, <1>2 DEF Stays, walk
  <2>2. \A c : Here(c)' <=> Here(c)
    BY <2>1 DEF Here
  <2>3. QED
    BY <1>1, <1>2, <2>1, <2>2 DEF SentInv, Stays, Over, Starting, Submitted
<1>3. CASE Starts
  <2>1. sent' = <<>> /\ phase' = "preparing" /\ ~again'
    BY <1>3 DEF Starts, Begin, SentInv, Starting
  <2>2. Here(0)'
    BY <2>1 DEF Here
  <2>3. QED
    BY <2>1, <2>2 DEF SentInv, Starting, Submitted
<1>4. CASE Advances
  <2>1. /\ phase' = "preparing" /\ ~again' /\ turn' = turn + 1
        /\ sent' = sent \/ (phase = "exchanging" /\ sent' = Denied)
        /\ phase \in Running
    BY <1>4, Zenon DEF Advances, Begin, Running
  <2>2. /\ sent' \in Seq(Submission)
        /\ Len(sent') = Len(sent)
        /\ DOMAIN sent' = DOMAIN sent
        /\ \A i \in DOMAIN sent : sent'[i].to = sent[i].to
    BY <2>1, <1>1, SentAhead, DeniedFacts
  <2>3. \A i \in DOMAIN sent' : i \in 1 .. Len(sent')
    BY <2>2, LenProperties
  <2>4. Here(0)'
    BY <1>1, <2>1, <2>2, <2>3, LenProperties, SentAhead DEF Here
  <2>5. QED
    BY <2>1, <2>2, <2>4 DEF SentInv, Starting, Submitted
<1>5. CASE Denies
  <2>1. /\ phase = "exchanging" /\ sent' = Denied
        /\ phase' = "failed" \/ (phase' = "repairing" /\ ~again)
        /\ turn' = turn /\ again' = again
    BY <1>5 DEF Denies, Repairable, walk
  <2>2. /\ sent' \in Seq(Submission)
        /\ Len(sent') = Len(sent)
        /\ DOMAIN sent' = DOMAIN sent
        /\ \A i \in DOMAIN sent : sent'[i].to = sent[i].to
        /\ sent'[Len(sent')].denied
    BY <2>1, <1>1, SentAhead, DeniedFacts DEF Running, Submitted
  <2>3. Here(1) => Here(1)'
    BY <1>1, <2>1, <2>2 DEF Here
  <2>4. QED
    BY <2>1, <2>2, <2>3 DEF SentInv, Starting, Submitted
<1>6. CASE Repair
  <2>1. /\ phase = "repairing" /\ phase' = "preparing"
        /\ turn' = turn /\ again' = TRUE /\ sent' = sent
    BY <1>6 DEF Repair, Begin
  <2>2. Here(1) => Here(1)'
    BY <1>1, <2>1 DEF Here
  <2>3. QED
    BY <1>1, <2>1, <2>2 DEF SentInv, Starting, Submitted
<1>7. CASE Submits
  <2> DEFINE m == [to |-> Connection, key |-> Key(request, Connection), at |-> now, denied |-> FALSE]
  <2>1. /\ phase = "preparing" /\ phase' = "exchanging" /\ sent' = Append(sent, m)
        /\ turn' = turn /\ again' = again
    BY <1>7 DEF Submits, Dispatch, walk
  <2>2. m \in Submission /\ m.to = request.route[turn]
    BY <1>7, DispatchType DEF Submits, Connection
  <2> HIDE DEF m
  <2>3. /\ sent' \in Seq(Submission)
        /\ Len(sent) \in Nat
        /\ Len(sent') = Len(sent) + 1
        /\ DOMAIN sent = 1 .. Len(sent)
        /\ DOMAIN sent' = 1 .. Len(sent) + 1
        /\ \A i \in DOMAIN sent : sent'[i] = sent[i]
        /\ sent'[Len(sent) + 1] = m
    BY <1>1, <2>1, <2>2, SubmitFacts
  <2>4. Here(0) => Here(1)'
    BY <1>1, <2>1, <2>2, <2>3 DEF Here
  <2>5. Here(1) => Here(2)'
    BY <1>1, <2>1, <2>2, <2>3 DEF Here
  <2>6. again => sent'[Len(sent') - 1].denied
    <3>1. SUFFICES ASSUME again
                   PROVE  sent'[Len(sent') - 1].denied
      OBVIOUS
    <3>2. sent[Len(sent)].denied /\ Here(1)
      BY <2>1, <3>1 DEF SentInv
    <3>3. Len(sent') - 1 = Len(sent) /\ Len(sent) \in DOMAIN sent
      BY <2>3, <3>2 DEF Here
    <3>4. QED
      BY <2>3, <3>2, <3>3
  <2>7. QED
    BY <1>1, <2>1, <2>3, <2>4, <2>5, <2>6 DEF SentInv, Starting, Submitted
<1>8. QED
  BY <1>2, <1>3, <1>4, <1>5, <1>6, <1>7 DEF WalkStep

\* What a step adds to the submissions, if anything.
LEMMA SentChanges ==
    ASSUME TypeOK, CountInv, SentInv, WalkStep
    PROVE  \/ /\ sent' \in Seq(Submission)
              /\ Len(sent') = Len(sent)
              /\ DOMAIN sent' = DOMAIN sent
              /\ \A i \in DOMAIN sent : /\ sent'[i].to = sent[i].to
                                        /\ sent'[i].key = sent[i].key
                                        /\ sent'[i].at = sent[i].at
                                        /\ sent[i].denied => sent'[i].denied
           \/ Submits
<1>1. sent \in Seq(Submission)
  BY DEF TypeOK, Submission
<1>2. CASE sent' = sent
  BY <1>1, <1>2
<1>3. CASE phase = "exchanging" /\ sent' = Denied
  BY <1>1, <1>3, SentAhead, DeniedFacts DEF Running, Submitted
<1>4. QED
  BY <1>2, <1>3 DEF WalkStep, Stays, Starts, Advances, Denies, Repair

\* A step sends the request only with the connection's own credential, in time.
LEMMA NextCredentials ==
    ASSUME TypeOK, CountInv, SentInv, WalkStep, OwnCredentials, NothingSentLate
    PROVE  OwnCredentials' /\ NothingSentLate'
<1>1. request' = request
  BY DEF WalkStep
<1>2. CASE /\ DOMAIN sent' = DOMAIN sent
           /\ \A i \in DOMAIN sent : /\ sent'[i].to = sent[i].to
                                     /\ sent'[i].key = sent[i].key
                                     /\ sent'[i].at = sent[i].at
  BY <1>1, <1>2 DEF OwnCredentials, NothingSentLate, Deadline
<1>3. CASE Submits
  <2> DEFINE m == [to |-> Connection, key |-> Key(request, Connection), at |-> now, denied |-> FALSE]
  <2>1. sent' = Append(sent, m) /\ Authorized(request, Connection) /\ ~Elapsed
    BY <1>3 DEF Submits, Dispatch
  <2>2. m \in Submission /\ sent \in Seq(Submission)
    BY <1>3, DispatchType DEF Submits, TypeOK, Submission
  <2>3. m.key = m.to \/ (m.to \in Unauthenticated /\ m.key = None)
    BY <2>1 DEF Authorized, Key
  <2>4. Deadline # None => m.at < Deadline
    <3>1. Deadline \in Nat \cup {None} /\ now \in Nat
      BY DEF TypeOK, Deadline, Request
    <3>2. QED
      BY <2>1, <3>1 DEF Elapsed
  <2> HIDE DEF m
  <2>5. QED
    BY <1>1, <2>1, <2>2, <2>3, <2>4, SubmitFacts DEF OwnCredentials, NothingSentLate, Deadline
<1>4. QED
  BY <1>2, <1>3, SentChanges

\* A step repeats a submission only to repair it.
LEMMA NextResent ==
    ASSUME TypeOK, CountInv, SentInv, WalkStep, ResentOnlyToRepair
    PROVE  ResentOnlyToRepair'
<1>1. CASE /\ DOMAIN sent' = DOMAIN sent
           /\ \A i \in DOMAIN sent : /\ sent'[i].to = sent[i].to
                                     /\ sent[i].denied => sent'[i].denied
  BY <1>1 DEF ResentOnlyToRepair
<1>2. CASE Submits
  <2> DEFINE m == [to |-> Connection, key |-> Key(request, Connection), at |-> now, denied |-> FALSE]
             n == Len(sent)
  <2>1. /\ sent' = Append(sent, m)
        /\ phase = "preparing"
        /\ again \in BOOLEAN
        /\ turn \in 1 .. Len(request.route)
    BY <1>2, DispatchType DEF Submits, Dispatch, TypeOK
  <2>2. m \in Submission /\ sent \in Seq(Submission) /\ m.to = request.route[turn]
    BY <1>2, DispatchType DEF Submits, TypeOK, Submission, Connection
  <2> HIDE DEF m
  <2>3. /\ n \in Nat
        /\ DOMAIN sent = 1 .. n
        /\ DOMAIN sent' = 1 .. n + 1
        /\ \A i \in 1 .. n : sent'[i] = sent[i]
        /\ sent'[n + 1] = m
    BY <2>1, <2>2, SubmitFacts
  <2> HIDE DEF n
  <2>4. \A i \in 1 .. n : sent[i].to = m.to => again /\ i = n /\ sent[n].denied
    <3>1. SUFFICES ASSUME NEW i \in 1 .. n, sent[i].to = m.to
                   PROVE  again /\ i = n /\ sent[n].denied
      OBVIOUS
    <3>2. \A j \in 1 .. turn - 1 : request.route[j] # request.route[turn]
      BY <2>1, RouteFacts
    <3>3. \A c \in {0, 1} : Here(c) => i > n - c
      BY <2>2, <2>3, <3>1, <3>2 DEF Here, n
    <3>4. ~Here(0)
      BY <2>3, <3>3
    <3>5. again /\ Here(1) /\ sent[n].denied
      BY <2>1, <3>4 DEF SentInv, n
    <3>6. QED
      BY <2>3, <3>3, <3>5
  <2>5. SUFFICES ASSUME NEW i \in 1 .. n + 1, NEW j \in 1 .. n + 1, i < j,
                        sent'[i].to = sent'[j].to
                 PROVE  /\ sent'[i].denied
                        /\ j = i + 1
                        /\ \A k \in 1 .. n + 1 : sent'[k].to = sent'[i].to => k \in {i, j}
    BY <2>3 DEF ResentOnlyToRepair
  <2>6. i \in 1 .. n
    BY <2>3, <2>5
  <2>7. CASE j = n + 1
    <3>1. sent[i].to = m.to
      BY <2>3, <2>5, <2>6, <2>7
    <3>2. i = n /\ sent[i].denied
      BY <2>4, <2>6, <3>1
    <3>3. \A k \in 1 .. n + 1 : sent'[k].to = m.to => k \in {n, n + 1}
      BY <2>3, <2>4
    <3>4. QED
      BY <2>3, <2>6, <2>7, <3>1, <3>2, <3>3
  <2>8. CASE j \in 1 .. n
    <3>1. sent[i].to = sent[j].to
      BY <2>3, <2>5, <2>6, <2>8
    <3>2. sent[i].to # m.to
      BY <2>3, <2>4, <2>5, <2>6, <2>8, <3>1
    <3>3. /\ sent[i].denied
          /\ j = i + 1
          /\ \A k \in 1 .. n : sent[k].to = sent[i].to => k \in {i, j}
      BY <2>3, <2>5, <2>6, <2>8, <3>1 DEF ResentOnlyToRepair
    <3>4. QED
      BY <2>3, <2>6, <3>2, <3>3
  <2>9. QED
    BY <2>3, <2>7, <2>8
<1>3. QED
  BY <1>1, <1>2, SentChanges

\* A step submits a request that leaves state at the provider only once.
LEMMA NextSubmittedOnce ==
    ASSUME TypeOK, CountInv, SentInv, WalkStep, SubmittedOnce
    PROVE  SubmittedOnce'
<1>1. request' = request
  BY DEF WalkStep
<1>2. CASE /\ Len(sent') = Len(sent)
           /\ DOMAIN sent' = DOMAIN sent
           /\ \A i \in DOMAIN sent : sent'[i].to = sent[i].to
  BY <1>1, <1>2 DEF SubmittedOnce
<1>3. CASE Submits
  <2> DEFINE m == [to |-> Connection, key |-> Key(request, Connection), at |-> now, denied |-> FALSE]
  <2>1. SUFFICES ASSUME Unrepeatable(request)
                 PROVE  Len(sent') <= 1 /\ \A i \in DOMAIN sent' : sent'[i].to = request.route[1]
    BY <1>1 DEF SubmittedOnce
  <2>2. /\ sent' = Append(sent, m)
        /\ phase = "preparing"
        /\ again \in BOOLEAN
        /\ turn \in Nat \ {0}
    BY <1>3 DEF Submits, Dispatch, TypeOK
  <2>3. m \in Submission /\ sent \in Seq(Submission) /\ m.to = request.route[turn]
    BY <1>3, DispatchType DEF Submits, TypeOK, Submission, Connection
  <2> HIDE DEF m
  <2>4. turn <= AttemptCount(request) /\ (again => ReplayPolicy(request).repair_missing_files)
    BY <2>2 DEF CountInv, Running
  <2>5. turn = 1 /\ ~again
    BY <2>1, <2>2, <2>4, RouteFacts
  <2>6. Here(0)
    BY <2>2, <2>5 DEF SentInv
  <2>7. Len(sent) = 0
    BY <2>3, <2>5, <2>6, LenProperties DEF Here
  <2>8. QED
    BY <2>2, <2>3, <2>5, <2>7, SubmitFacts
<1>4. QED
  BY <1>2, <1>3, SentChanges

-----------------------------------------------------------------------------
(* What a step may do to the files and their leases.                       *)

\* The files are left alone.
Keeps ==
    /\ UNCHANGED <<lease, pending, owner, stored, tries>>
    /\ attempt' = attempt
    /\ phase' \in Using => phase \in Using
    /\ phase' \in Leasing => phase \in Leasing

\* Another attempt begins; the lease of the last one was dropped, or is dropped now.
Renews ==
    /\ lease' = lease \/ lease' = DroppedLease(attempt)
    /\ UNCHANGED <<pending, owner, stored, tries>>
    /\ attempt' = attempt + 1

Drops ==
    /\ lease' = DroppedLease(attempt)
    /\ UNCHANGED <<pending, owner, stored, tries>>
    /\ attempt' = attempt
    /\ phase' \notin Leasing

FileStep ==
    /\ todo' \in Seq(FileIds)
    /\ finishBy' \in Nat
    /\ phase' \in Working \cup Over \cup {"streaming", "ended"}
    /\ \/ Keeps \/ Renews \/ Drops \/ Upload \/ FinishDelete
       \/ \E n \in Attempts : Background(n)

\* Every step is one of these.
LEMMA NextFiles ==
    ASSUME [Next]_vars, TypeOK, CountInv
    PROVE  FileStep
<1> USE DEF walk, files, vars, FileStep, Leasing, Using, Submitted, Working, Over
<1>a. /\ todo \in Seq(FileIds)
      /\ <<>> \in Seq(FileIds)
      /\ finishBy \in Nat
      /\ phase \in Working \cup Over \cup {"streaming", "ended"}
  BY EmptySeq DEF TypeOK
<1>b. ASSUME BeginFinish, phase \in {"collecting", "ended"}
      PROVE  FileStep
  <2>1. attempt \in Attempts
    BY <1>b DEF CountInv, Running, TypeOK
  <2>2. todo' \in Seq(FileIds)
    BY <1>b, <2>1 DEF BeginFinish, TypeOK
  <2>3. finishBy' \in Nat
    <3>1. Deadline \in Nat \cup {None} /\ now \in Nat /\ now + CleanupTimeout \in Nat
      BY DEF TypeOK, Deadline, Request
    <3>2. QED
      BY <1>b, <3>1 DEF BeginFinish
  <2>4. QED
    BY <1>b, <2>2, <2>3 DEF BeginFinish, Keeps
<1>c. ASSUME NEW kind, Fail(kind)
      PROVE  FileStep
  BY <1>a, <1>c DEF Fail, Begin, Renews, Drops
<1>2. CASE Validate  BY <1>a, <1>2 DEF Validate, Keeps
<1>3. CASE Repair  BY <1>a, <1>3 DEF Repair, Begin, Renews
<1>4. CASE FinishEnds  BY <1>a, <1>4 DEF FinishEnds, Drops
<1>5. CASE TimeOut  BY <1>a, <1>5, <1>c DEF TimeOut, Keeps
<1>6. CASE Resolve  BY <1>a, <1>6 DEF Resolve, Begin, Renews, Keeps
<1>7. CASE Upload  BY <1>a, <1>7 DEF Upload
<1>8. CASE Dispatch  BY <1>a, <1>8 DEF Dispatch, Keeps
<1>9. CASE Accepted  BY <1>a, <1>9 DEF Accepted, Keeps
<1>10. CASE Collected  BY <1>a, <1>b, <1>10 DEF Collected, Keeps
<1>11. CASE FinishDelete
  <2>1. todo' \in Seq(FileIds)
    BY <1>a, <1>11, HeadTailProperties DEF FinishDelete
  <2>2. QED
    BY <1>a, <1>11, <2>1 DEF FinishDelete
<1>12. CASE StreamEnds  BY <1>a, <1>12 DEF StreamEnds, Keeps
<1>13. ASSUME NEW kind \in Kinds,
              PrepareFails(kind) \/ SendFails(kind) \/ Refused(kind) \/ CollectFails(kind)
       PROVE  FileStep
  BY <1>13, <1>c DEF PrepareFails, SendFails, Refused, CollectFails
<1>14. ASSUME NEW kind \in Kinds, NotFound(kind)
       PROVE  FileStep
  BY <1>a, <1>14 DEF NotFound, Begin, Renews, Drops
<1>18. CASE Drain  BY <1>a, <1>b, <1>18 DEF Drain, Keeps
<1>19. CASE Abandon  BY <1>a, <1>19 DEF Abandon, Keeps, Drops
<1>20. CASE Tick  BY <1>a, <1>20 DEF Tick, Keeps
<1>21. ASSUME NEW n \in Attempts, Background(n)
       PROVE  FileStep
  BY <1>a, <1>21 DEF Background
<1>22. CASE UNCHANGED vars  BY <1>a, <1>22 DEF Keeps
<1>23. QED
  BY <1>2, <1>3, <1>4, <1>5, <1>6, <1>7, <1>8, <1>9, <1>10, <1>11, <1>12, <1>13, <1>14,
     <1>18, <1>19, <1>20, <1>21, <1>22 DEF Next, Local, Awaited

-----------------------------------------------------------------------------
(* Lists of files without repetition.                                      *)

\* retain takes one file out of the list and keeps the others.
LEMMA WithoutFacts ==
    ASSUME NEW S, NEW s \in Seq(S), NEW f, Once(s)
    PROVE  /\ Without(s, f) \in Seq(S)
           /\ Once(Without(s, f))
           /\ \A i \in DOMAIN Without(s, f) : \E j \in DOMAIN s : Without(s, f)[i] = s[j]
           /\ \A i \in DOMAIN s : s[i] # f =>
                 \E j \in DOMAIN Without(s, f) : Without(s, f)[j] = s[i]
<1>1. CASE ~ \E i \in DOMAIN s : s[i] = f
  BY <1>1 DEF Without
<1>2. CASE \E i \in DOMAIN s : s[i] = f
  <2> DEFINE p == CHOOSE i \in DOMAIN s : s[i] = f
             n == Len(s)
             a == SubSeq(s, 1, p - 1)
             b == SubSeq(s, p + 1, n)
             w == a \o b
  <2>1. p \in 1 .. n /\ s[p] = f /\ n \in Nat /\ DOMAIN s = 1 .. n
    BY <1>2, LenProperties
  <2>2. Without(s, f) = w
    BY <1>2 DEF Without
  <2> HIDE DEF p
  <2>3. /\ a \in Seq(S) /\ Len(a) = p - 1
        /\ \A i \in 1 .. p - 1 : a[i] = s[i]
    BY <2>1, SubSeqProperties
  <2>4. /\ b \in Seq(S) /\ Len(b) = n - p
        /\ \A i \in 1 .. n - p : b[i] = s[p + i]
    <3>1. /\ p + 1 \in Int /\ n \in Int
          /\ \A i \in p + 1 .. n : s[i] \in S
      BY <2>1, ElementOfSeq
    <3>2. /\ b \in Seq(S)
          /\ Len(b) = IF p + 1 <= n THEN n - (p + 1) + 1 ELSE 0
          /\ \A i \in 1 .. n - (p + 1) + 1 : b[i] = s[p + 1 + i - 1]
      BY <3>1, SubSeqProperties
    <3> HIDE DEF b, n
    <3>3. n - (p + 1) + 1 = n - p
      BY <2>1
    <3>4. \A i \in 1 .. n - p : p + 1 + i - 1 = p + i
      BY <2>1
    <3>5. QED
      BY <2>1, <3>2, <3>3, <3>4
  <2> HIDE DEF a, b
  <2>5. /\ w \in Seq(S)
        /\ Len(w) = n - 1
        /\ \A i \in 1 .. n - 1 : w[i] = IF i < p THEN s[i] ELSE s[i + 1]
    <3>1. /\ w \in Seq(S)
          /\ Len(w) = Len(a) + Len(b)
          /\ \A i \in 1 .. Len(a) + Len(b) : w[i] = IF i <= Len(a) THEN a[i] ELSE b[i - Len(a)]
      <4>1. a \in Seq(S) /\ b \in Seq(S)
        BY <2>3, <2>4
      <4>2. QED
        BY <4>1, ConcatProperties, Zenon
    <3> HIDE DEF w, n
    <3>2. Len(w) = n - 1
      BY <2>1, <2>3, <2>4, <3>1
    <3>3. ASSUME NEW i \in 1 .. n - 1
          PROVE  w[i] = IF i < p THEN s[i] ELSE s[i + 1]
      <4>1. CASE i < p
        BY <2>1, <2>3, <2>4, <3>1, <4>1
      <4>2. CASE ~(i < p)
        <5>1. i - (p - 1) \in 1 .. n - p /\ p + (i - (p - 1)) = i + 1 /\ ~(i <= p - 1)
          BY <2>1, <4>2
        <5>2. w[i] = b[i - (p - 1)]
          BY <2>1, <2>3, <2>4, <3>1, <5>1
        <5>3. b[i - (p - 1)] = s[i + 1]
          BY <2>4, <5>1
        <5>4. QED
          BY <4>2, <5>2, <5>3
      <4>3. QED
        BY <4>1, <4>2
    <3>4. QED
      BY <3>1, <3>2, <3>3
  <2> HIDE DEF w, n
  <2>6. DOMAIN w = 1 .. n - 1
    BY <2>5, LenProperties
  <2>7. Once(w)
    <3>1. ASSUME NEW i \in 1 .. n - 1, NEW j \in 1 .. n - 1, w[i] = w[j]
          PROVE  i = j
      <4>1. \A k, l \in 1 .. n : s[k] = s[l] => k = l
        BY <2>1 DEF Once
      <4>2. i \in 1 .. n /\ i + 1 \in 1 .. n /\ j \in 1 .. n /\ j + 1 \in 1 .. n
        BY <2>1
      <4>3. (IF i < p THEN i ELSE i + 1) = (IF j < p THEN j ELSE j + 1)
        BY <2>5, <3>1, <4>1, <4>2
      <4>4. QED
        BY <2>1, <4>3
    <3>2. QED
      BY <2>6, <3>1 DEF Once
  <2>8. \A i \in DOMAIN w : \E j \in DOMAIN s : w[i] = s[j]
    <3>1. ASSUME NEW i \in 1 .. n - 1
          PROVE  \E j \in 1 .. n : w[i] = s[j]
      <4>1. i \in 1 .. n /\ i + 1 \in 1 .. n
        BY <2>1
      <4>2. QED
        BY <2>5, <4>1
    <3>2. QED
      BY <2>1, <2>6, <3>1
  <2>9. \A i \in DOMAIN s : s[i] # f => \E j \in DOMAIN w : w[j] = s[i]
    <3>1. ASSUME NEW i \in 1 .. n, s[i] # f
          PROVE  \E j \in 1 .. n - 1 : w[j] = s[i]
      <4>1. i # p
        BY <2>1, <3>1
      <4>2. CASE i < p
        <5>1. i \in 1 .. n - 1 /\ w[i] = s[i]
          BY <2>1, <2>5, <4>2
        <5>2. QED
          BY <5>1
      <4>3. CASE i > p
        <5>1. i - 1 \in 1 .. n - 1 /\ w[i - 1] = s[i]
          BY <2>1, <2>5, <4>3
        <5>2. QED
          BY <5>1
      <4>4. QED
        BY <2>1, <4>1, <4>2, <4>3
    <3>2. QED
      BY <2>1, <2>6, <3>1
  <2>10. QED
    BY <2>2, <2>5, <2>7, <2>8, <2>9
<1>3. QED
  BY <1>1, <1>2

\* The head of a list is in it, and the tail keeps the others.
LEMMA TailFacts ==
    ASSUME NEW S, NEW s \in Seq(S), s # <<>>, Once(s)
    PROVE  /\ Tail(s) \in Seq(S)
           /\ 1 \in DOMAIN s /\ Head(s) = s[1]
           /\ Once(Tail(s))
           /\ \A i \in DOMAIN Tail(s) : \E j \in DOMAIN s : Tail(s)[i] = s[j] /\ s[j] # Head(s)
           /\ \A i \in DOMAIN s : s[i] # Head(s) => \E j \in DOMAIN Tail(s) : Tail(s)[j] = s[i]
<1>1. /\ Tail(s) \in Seq(S)
      /\ Head(s) = s[1]
      /\ Len(s) \in Nat /\ Len(s) >= 1
      /\ Len(Tail(s)) = Len(s) - 1
      /\ DOMAIN s = 1 .. Len(s)
      /\ DOMAIN Tail(s) = 1 .. Len(s) - 1
      /\ \A i \in 1 .. Len(s) - 1 : Tail(s)[i] = s[i + 1]
  BY HeadTailProperties, LenProperties, EmptySeq
<1>2. Once(Tail(s))
  BY <1>1 DEF Once
<1>3. \A i \in DOMAIN Tail(s) : \E j \in DOMAIN s : Tail(s)[i] = s[j] /\ s[j] # Head(s)
  <2>1. ASSUME NEW i \in 1 .. Len(s) - 1
        PROVE  i + 1 \in 1 .. Len(s) /\ Tail(s)[i] = s[i + 1] /\ s[i + 1] # s[1]
    BY <1>1 DEF Once
  <2>2. QED
    BY <1>1, <2>1
<1>4. \A i \in DOMAIN s : s[i] # Head(s) => \E j \in DOMAIN Tail(s) : Tail(s)[j] = s[i]
  <2>1. ASSUME NEW i \in 1 .. Len(s), s[i] # s[1]
        PROVE  i - 1 \in 1 .. Len(s) - 1 /\ Tail(s)[i - 1] = s[i]
    BY <1>1, <2>1
  <2>2. QED
    BY <1>1, <2>1
<1>5. QED
  BY <1>1, <1>2, <1>3, <1>4

\* A new entry comes after the others.
LEMMA TrackFacts ==
    ASSUME NEW S, NEW s \in Seq(S), NEW f \in S, Once(s), \A i \in DOMAIN s : s[i] # f
    PROVE  /\ Append(s, f) \in Seq(S)
           /\ Once(Append(s, f))
           /\ \A i \in DOMAIN Append(s, f) : Append(s, f)[i] = f \/
                 \E j \in DOMAIN s : Append(s, f)[i] = s[j]
           /\ \A i \in DOMAIN s : \E j \in DOMAIN Append(s, f) : Append(s, f)[j] = s[i]
           /\ \E j \in DOMAIN Append(s, f) : Append(s, f)[j] = f
<1>1. /\ Append(s, f) \in Seq(S)
      /\ Len(s) \in Nat
      /\ DOMAIN s = 1 .. Len(s)
      /\ DOMAIN Append(s, f) = 1 .. Len(s) + 1
      /\ \A i \in 1 .. Len(s) : Append(s, f)[i] = s[i]
      /\ Append(s, f)[Len(s) + 1] = f
  BY AppendProperties, LenProperties
<1>2. \A i \in 1 .. Len(s) : i \in 1 .. Len(s) + 1
  BY <1>1
<1>3. Len(s) + 1 \in 1 .. Len(s) + 1
  BY <1>1
<1>4. \A i \in 1 .. Len(s) + 1 : i = Len(s) + 1 \/ i \in 1 .. Len(s)
  BY <1>1
<1>5. QED
  BY <1>1, <1>2, <1>3, <1>4 DEF Once

-----------------------------------------------------------------------------
(* The files.                                                              *)

FilesType ==
    /\ lease \in [Attempts -> {"none", "held", "background", "gone"}]
    /\ pending \in [Attempts -> Seq(FileIds)]
    /\ owner \in Seq(Attempts)
    /\ stored \in SUBSET FileIds
    /\ tries \in [FileIds -> 0 .. CleanupTries]

FilesInv == FilesType /\ LeaseInv /\ FilesOutliveTheirUse /\ FilesAccounted

\* Dropping a lease keeps every file that is left in it.
LEMMA DropKeeps ==
    ASSUME FilesInv, NEW k \in Nat, lease' = DroppedLease(k),
           UNCHANGED <<pending, owner, stored, tries>>
    PROVE  /\ FilesType'
           /\ FilesAccounted'
           /\ \A n \in Attempts : lease[n] = "none" => lease'[n] = "none"
<1>1. FilesType'
  BY DEF FilesInv, FilesType, DroppedLease
<1>2. \A n \in Attempts : lease'[n] \in {lease[n], "gone", "background"}
  BY DEF FilesInv, FilesType, DroppedLease
<1>3. ASSUME NEW n \in Attempts, lease[n] \in {"held", "background"}, pending[n] # <<>>
      PROVE  lease'[n] \in {"held", "background"}
  BY <1>3 DEF FilesInv, FilesType, DroppedLease
<1>4. ASSUME NEW n \in Attempts, lease[n] = "none"
      PROVE  lease'[n] = "none"
  BY <1>4 DEF FilesInv, FilesType, DroppedLease
<1>5. \A f \in DOMAIN owner : owner[f] \in Attempts
  BY ElementOfSeq, LenProperties DEF FilesInv, FilesType
<1>6. \A n \in Attempts : (\E i \in DOMAIN pending[n] : TRUE) => pending[n] # <<>>
  BY EmptySeq
<1>7. FilesAccounted'
  BY <1>3, <1>5, <1>6 DEF FilesInv, FilesAccounted
<1>8. QED
  BY <1>1, <1>4, <1>7

\* A new upload joins the lease of its attempt.
LEMMA UploadFiles ==
    ASSUME FilesInv, TypeOK, CountInv, Upload
    PROVE  FilesInv'
<1> DEFINE f == Len(owner) + 1
<1>1. /\ lease \in [Attempts -> {"none", "held", "background", "gone"}]
      /\ pending \in [Attempts -> Seq(FileIds)]
      /\ owner \in Seq(Attempts)
      /\ stored \in SUBSET FileIds
      /\ tries \in [FileIds -> 0 .. CleanupTries]
  BY DEF FilesInv, FilesType
<1>2. /\ attempt \in Attempts
      /\ phase = "preparing" /\ phase' = phase /\ attempt' = attempt /\ tries' = tries
      /\ owner' = Append(owner, attempt)
      /\ stored' = stored \cup {f}
      /\ lease' = [lease EXCEPT ![attempt] = "held"]
      /\ pending' = [pending EXCEPT ![attempt] = Append(@, f)]
      /\ f <= MaxFiles
  BY DEF Upload, CountInv, Running, TypeOK, walk
<1>3. /\ Len(owner) \in Nat
      /\ f \in FileIds
      /\ DOMAIN owner = 1 .. Len(owner)
      /\ f \notin DOMAIN owner
      /\ Len(owner') = Len(owner) + 1
      /\ DOMAIN owner' = DOMAIN owner \cup {f}
      /\ owner' \in Seq(Attempts)
      /\ \A g \in DOMAIN owner : owner'[g] = owner[g]
      /\ owner'[f] = attempt
  BY <1>1, <1>2, AppendProperties, LenProperties DEF FileIds
<1>4. \A g \in FileIds : g > Len(owner') => g > Len(owner)
  BY <1>3 DEF FileIds
<1>5. f > Len(owner)
  BY <1>3
<1> HIDE DEF f
<1> DEFINE s == pending[attempt]
           t == pending'[attempt]
<1>6. \A i \in DOMAIN s : s[i] # f
  BY <1>2, <1>3 DEF FilesInv, LeaseInv
<1>7. Once(s) /\ s \in Seq(FileIds)
  BY <1>1, <1>2 DEF FilesInv, LeaseInv
<1>8. t = Append(s, f) /\ \A n \in Attempts : n # attempt => pending'[n] = pending[n]
  BY <1>1, <1>2
<1>9. /\ t \in Seq(FileIds)
      /\ Once(t)
      /\ \A i \in DOMAIN t : t[i] = f \/ \E j \in DOMAIN s : t[i] = s[j]
      /\ \A i \in DOMAIN s : \E j \in DOMAIN t : t[j] = s[i]
      /\ \E j \in DOMAIN t : t[j] = f
  <2> HIDE DEF s, t
  <2>1. QED
    BY <1>3, <1>6, <1>7, <1>8, TrackFacts
<1>10. FilesType'
  <2>1. pending' \in [Attempts -> Seq(FileIds)]
    BY <1>1, <1>2, <1>8, <1>9
  <2>2. QED
    BY <1>1, <1>2, <1>3, <2>1 DEF FilesType
<1>11. \A n \in Attempts : lease'[n] = IF n = attempt THEN "held" ELSE lease[n]
  BY <1>1, <1>2
<1>12. LeaseInv'
  <2>1. ASSUME NEW n \in Attempts, NEW i \in DOMAIN pending'[n]
        PROVE  /\ pending'[n][i] \in DOMAIN owner'
               /\ owner'[pending'[n][i]] = n
               /\ tries'[pending'[n][i]] < CleanupTries
    <3>1. CASE n # attempt
      BY <1>2, <1>3, <1>8, <2>1, <3>1 DEF FilesInv, LeaseInv
    <3>2. CASE n = attempt /\ t[i] = f
      <4>1. tries[f] = 0
        BY <1>3, <1>5 DEF FilesInv, LeaseInv
      <4>2. QED
        BY <1>2, <1>3, <3>2, <4>1
    <3>3. CASE n = attempt /\ t[i] # f
      <4>1. PICK j \in DOMAIN s : t[i] = s[j]
        BY <1>9, <2>1, <3>3
      <4>2. QED
        BY <1>2, <1>3, <3>3, <4>1 DEF FilesInv, LeaseInv
    <3>4. QED
      BY <3>1, <3>2, <3>3
  <2>2. \A n \in Attempts : Once(pending'[n])
    BY <1>8, <1>9 DEF FilesInv, LeaseInv
  <2>3. \A g \in DOMAIN owner' : g \in FileIds /\ owner'[g] <= attempt'
    BY <1>2, <1>3 DEF FilesInv, LeaseInv, Attempts
  <2>4. \A g \in FileIds : g > Len(owner') => tries'[g] = 0
    BY <1>2, <1>4 DEF FilesInv, LeaseInv
  <2>5. \A n \in Attempts : n > attempt' => lease'[n] = "none"
    BY <1>2, <1>11 DEF FilesInv, LeaseInv, Attempts
  <2>6. lease'[attempt'] \in {"none", "held"}
    BY <1>2, <1>11
  <2>7. QED
    BY <2>1, <2>2, <2>3, <2>4, <2>5, <2>6 DEF LeaseInv, Once
<1>13. FilesOutliveTheirUse'
  BY <1>2, <1>3 DEF FilesInv, FilesOutliveTheirUse
<1>14. FilesAccounted'
  <2>1. ASSUME NEW g \in stored'
        PROVE  \/ tries'[g] = CleanupTries
               \/ /\ g \in DOMAIN owner'
                  /\ lease'[owner'[g]] \in {"held", "background"}
                  /\ \E i \in DOMAIN pending'[owner'[g]] : pending'[owner'[g]][i] = g
    <3>1. CASE g = f
      BY <1>2, <1>3, <1>9, <1>11, <3>1
    <3>2. CASE g # f /\ tries[g] # CleanupTries
      <4>1. /\ g \in DOMAIN owner
            /\ lease[owner[g]] \in {"held", "background"}
            /\ \E i \in DOMAIN pending[owner[g]] : pending[owner[g]][i] = g
        BY <1>2, <2>1, <3>2 DEF FilesInv, FilesAccounted
      <4>2. owner[g] \in Attempts
        BY <1>1, <1>3, <4>1, ElementOfSeq
      <4>3. QED
        BY <1>2, <1>3, <1>8, <1>9, <1>11, <4>1, <4>2
    <3>3. QED
      BY <1>2, <3>1, <3>2
  <2>2. QED
    BY <2>1 DEF FilesAccounted
<1>15. QED
  BY <1>10, <1>12, <1>13, <1>14 DEF FilesInv

\* Taking one file out of one lease keeps the files in order: it was deleted, or
\* was tried as often as allowed.
LEMMA RemoveFiles ==
    ASSUME FilesInv, NEW n \in Attempts, NEW f \in FileIds, NEW t, NEW c \in 0 .. CleanupTries,
           t \in Seq(FileIds), Once(t),
           \A i \in DOMAIN t : \E j \in DOMAIN pending[n] : t[i] = pending[n][j],
           \A i \in DOMAIN pending[n] : pending[n][i] # f =>
               \E j \in DOMAIN t : t[j] = pending[n][i],
           c # tries[f] => f \in DOMAIN owner /\ owner[f] = n /\ tries[f] < c,
           c = CleanupTries => \A i \in DOMAIN t : t[i] # f,
           tries' = [tries EXCEPT ![f] = c],
           pending' = [pending EXCEPT ![n] = t],
           stored' = stored \/ stored' = stored \ {f},
           \/ lease' = lease
           \/ t = <<>> /\ lease[n] = "background" /\ lease' = [lease EXCEPT ![n] = "gone"],
           phase \in Leasing => attempt \in Attempts,
           f \in stored' /\ (\E i \in DOMAIN pending[n] : pending[n][i] = f) =>
               c = CleanupTries \/ \E j \in DOMAIN t : t[j] = f,
           phase \in Using => n # attempt /\ f \in DOMAIN owner /\ owner[f] = n,
           UNCHANGED <<owner, attempt, phase>>
    PROVE  FilesInv'
<1>1. /\ lease \in [Attempts -> {"none", "held", "background", "gone"}]
      /\ pending \in [Attempts -> Seq(FileIds)]
      /\ owner \in Seq(Attempts)
      /\ stored \in SUBSET FileIds
      /\ tries \in [FileIds -> 0 .. CleanupTries]
  BY DEF FilesInv, FilesType
<1>2. /\ pending'[n] = t
      /\ \A m \in Attempts : m # n => pending'[m] = pending[m]
      /\ tries'[f] = c
      /\ \A g \in FileIds : g # f => tries'[g] = tries[g]
      /\ \A m \in Attempts : m # n => lease'[m] = lease[m]
      /\ \/ lease'[n] = lease[n]
         \/ t = <<>> /\ lease[n] = "background" /\ lease'[n] = "gone"
  BY <1>1
<1>3. FilesType'
  BY <1>1 DEF FilesType
<1>4. \A g \in DOMAIN owner : g \in FileIds /\ owner[g] \in Attempts
  BY <1>1, ElementOfSeq, LenProperties DEF FilesInv, LeaseInv
<1>5. LeaseInv'
  <2>1. ASSUME NEW m \in Attempts, NEW i \in DOMAIN pending'[m]
        PROVE  /\ pending'[m][i] \in DOMAIN owner'
               /\ owner'[pending'[m][i]] = m
               /\ tries'[pending'[m][i]] < CleanupTries
    <3>1. PICK j \in DOMAIN pending[m] : pending'[m][i] = pending[m][j]
      BY <1>2, <2>1
    <3>2. /\ pending[m][j] \in DOMAIN owner
          /\ owner[pending[m][j]] = m
          /\ tries[pending[m][j]] < CleanupTries
      BY <3>1 DEF FilesInv, LeaseInv
    <3>3. CASE pending[m][j] = f
      <4>1. m = n \/ c = tries[f]
        BY <3>2, <3>3
      <4>2. c # CleanupTries
        BY <1>2, <2>1, <3>1, <3>2, <3>3, <4>1
      <4>3. QED
        BY <1>2, <3>1, <3>2, <3>3, <4>2
    <3>4. CASE pending[m][j] # f
      BY <1>2, <1>4, <3>1, <3>2, <3>4
    <3>5. QED
      BY <3>3, <3>4
  <2>2. \A m \in Attempts : Once(pending'[m])
    BY <1>2 DEF FilesInv, LeaseInv
  <2>3. \A g \in DOMAIN owner' : g \in FileIds /\ owner'[g] <= attempt'
    BY DEF FilesInv, LeaseInv
  <2>4. \A g \in FileIds : g > Len(owner') => tries'[g] = 0
    <3>1. ASSUME NEW g \in FileIds, g > Len(owner)
          PROVE  tries'[g] = 0
      <4>1. g \notin DOMAIN owner
        BY <1>1, <3>1, LenProperties DEF FileIds
      <4>2. tries[g] = 0
        BY <3>1 DEF FilesInv, LeaseInv
      <4>3. QED
        BY <1>2, <4>1, <4>2
    <3>2. QED
      BY <3>1
  <2>5. \A m \in Attempts : m > attempt' => lease'[m] = "none"
    <3>1. ASSUME NEW m \in Attempts, m > attempt
          PROVE  lease'[m] = "none"
      <4>1. lease[m] = "none"
        BY <3>1 DEF FilesInv, LeaseInv
      <4>2. QED
        BY <1>2, <3>1, <4>1
    <3>2. QED
      BY <3>1
  <2>6. phase' \in Leasing => lease'[attempt'] \in {"none", "held"}
    BY <1>2 DEF FilesInv, LeaseInv
  <2>7. QED
    BY <2>1, <2>2, <2>3, <2>4, <2>5, <2>6 DEF LeaseInv, Once
<1>6. FilesOutliveTheirUse'
  BY <1>4 DEF FilesInv, FilesOutliveTheirUse, Using
<1>7. FilesAccounted'
  <2>1. ASSUME NEW g \in stored'
        PROVE  \/ tries'[g] = CleanupTries
               \/ /\ g \in DOMAIN owner'
                  /\ lease'[owner'[g]] \in {"held", "background"}
                  /\ \E i \in DOMAIN pending'[owner'[g]] : pending'[owner'[g]][i] = g
    <3>1. g \in stored /\ g \in FileIds
      BY <1>1, <2>1
    <3>2. CASE tries[g] = CleanupTries
      BY <1>2, <3>1, <3>2
    <3>3. CASE tries[g] # CleanupTries
      <4>1. /\ g \in DOMAIN owner
            /\ owner[g] \in Attempts
            /\ lease[owner[g]] \in {"held", "background"}
            /\ \E i \in DOMAIN pending[owner[g]] : pending[owner[g]][i] = g
        BY <1>4, <3>1, <3>3 DEF FilesInv, FilesAccounted
      <4>2. CASE owner[g] # n
        BY <1>2, <4>1, <4>2
      <4>3. CASE owner[g] = n /\ g # f
        <5>1. \E j \in DOMAIN t : t[j] = g
          BY <4>1, <4>3
        <5>2. t # <<>>
          BY <5>1, EmptySeq
        <5>3. QED
          BY <1>2, <4>1, <4>3, <5>1, <5>2
      <4>4. CASE owner[g] = n /\ g = f
        <5>1. CASE c = CleanupTries
          BY <1>2, <4>4, <5>1
        <5>2. CASE \E j \in DOMAIN t : t[j] = f
          <6>1. t # <<>>
            BY <5>2, EmptySeq
          <6>2. QED
            BY <1>2, <4>1, <4>4, <5>2, <6>1
        <5>3. QED
          BY <2>1, <4>1, <4>4, <5>1, <5>2
      <4>5. QED
        BY <4>2, <4>3, <4>4
    <3>4. QED
      BY <3>2, <3>3
  <2>2. QED
    BY <2>1 DEF FilesAccounted
<1>8. QED
  BY <1>3, <1>5, <1>6, <1>7 DEF FilesInv

\* A deletion by finish takes the file out of the lease once it is acknowledged.
LEMMA FinishFiles ==
    ASSUME FilesInv, TypeOK, CountInv, FinishDelete
    PROVE  FilesInv'
<1>1. /\ phase = "cleaning" /\ todo # <<>> /\ todo \in Seq(FileIds)
      /\ UNCHANGED <<lease, owner, tries, attempt, phase>>
      /\ attempt \in Attempts
  BY DEF FinishDelete, walk, TypeOK, CountInv, Running, Submitted
<1> DEFINE f == Head(todo)
           n == attempt
           s == pending[n]
<1>2. f \in FileIds
  BY <1>1, HeadTailProperties
<1>3. PICK deleted \in BOOLEAN, acknowledged \in BOOLEAN :
          /\ acknowledged => deleted
          /\ stored' = IF deleted THEN stored \ {f} ELSE stored
          /\ pending' = [pending EXCEPT ![n] = PendingAfter(@, f, acknowledged)]
  BY DEF FinishDelete
<1> DEFINE t == PendingAfter(s, f, acknowledged)
<1>4. /\ lease \in [Attempts -> {"none", "held", "background", "gone"}]
      /\ pending \in [Attempts -> Seq(FileIds)]
      /\ tries \in [FileIds -> 0 .. CleanupTries]
      /\ s \in Seq(FileIds)
      /\ Once(s)
  BY <1>1 DEF FilesInv, FilesType, LeaseInv
<1>5. pending' = [pending EXCEPT ![n] = t]
  BY <1>3
<1>6. stored' = stored \/ stored' = stored \ {f}
  BY <1>3
<1>7. tries' = [tries EXCEPT ![f] = tries[f]] /\ tries[f] \in 0 .. CleanupTries
  BY <1>1, <1>2, <1>4
<1> HIDE DEF f
<1>8. /\ t \in Seq(FileIds)
      /\ Once(t)
      /\ \A i \in DOMAIN t : \E j \in DOMAIN s : t[i] = s[j]
      /\ \A i \in DOMAIN s : s[i] # f => \E j \in DOMAIN t : t[j] = s[i]
  <2>1. CASE acknowledged
    <3>1. t = Without(s, f)
      BY <2>1 DEF PendingAfter
    <3> HIDE DEF s, t
    <3>2. QED
      BY <1>4, <3>1, WithoutFacts
  <2>2. CASE ~acknowledged
    BY <1>4, <2>2 DEF PendingAfter
  <2>3. QED
    BY <2>1, <2>2
<1>9. f \in stored' /\ (\E i \in DOMAIN s : s[i] = f) => \E j \in DOMAIN t : t[j] = f
  <2>1. CASE acknowledged
    BY <1>3, <2>1
  <2>2. CASE ~acknowledged
    BY <2>2 DEF PendingAfter
  <2>3. QED
    BY <2>1, <2>2
<1> HIDE DEF t
<1>10. tries[f] = CleanupTries => \A i \in DOMAIN t : t[i] # f
  <2>1. \A j \in DOMAIN s : tries[s[j]] < CleanupTries
    BY <1>1 DEF FilesInv, LeaseInv
  <2>2. QED
    BY <1>7, <1>8, <2>1
<1> HIDE DEF s
<1>11. phase \notin Using
  BY <1>1 DEF Using
<1> DEFINE c == tries[f]
<1>12. /\ n \in Attempts
       /\ c \in 0 .. CleanupTries
       /\ c = tries[f]
       /\ tries' = [tries EXCEPT ![f] = c]
       /\ lease' = lease
       /\ UNCHANGED <<owner, attempt, phase>>
       /\ phase \in Leasing => attempt \in Attempts
  BY <1>1, <1>7
<1>13. c = CleanupTries => \A i \in DOMAIN t : t[i] # f
  BY <1>10
<1> HIDE DEF c, n
<1>14. QED
  BY <1>2, <1>5, <1>6, <1>8, <1>9, <1>11, <1>12, <1>13, RemoveFiles DEF s

\* A background deletion takes the file out once it is acknowledged or given up.
LEMMA BackgroundFiles ==
    ASSUME FilesInv, TypeOK, CountInv, NEW n \in Attempts, Background(n)
    PROVE  FilesInv'
<1> DEFINE s == pending[n]
           f == Head(s)
<1>1. /\ lease[n] = "background" /\ s # <<>>
      /\ UNCHANGED <<owner, attempt, phase>>
      /\ lease' = [lease EXCEPT ![n] = IF pending'[n] = <<>> THEN "gone" ELSE @]
  BY DEF Background, walk
<1>2. PICK deleted \in BOOLEAN, acknowledged \in BOOLEAN :
          /\ acknowledged => deleted
          /\ stored' = IF deleted THEN stored \ {f} ELSE stored
          /\ tries' = IF acknowledged THEN tries ELSE [tries EXCEPT ![f] = @ + 1]
          /\ pending' = IF acknowledged \/ GivesUp(f)
                          THEN [pending EXCEPT ![n] = Tail(@)] ELSE pending
  BY DEF Background
<1>3. /\ lease \in [Attempts -> {"none", "held", "background", "gone"}]
      /\ pending \in [Attempts -> Seq(FileIds)]
      /\ tries \in [FileIds -> 0 .. CleanupTries]
      /\ s \in Seq(FileIds)
      /\ Once(s)
  BY DEF FilesInv, FilesType, LeaseInv
<1>4. /\ Tail(s) \in Seq(FileIds)
      /\ 1 \in DOMAIN s /\ f = s[1]
      /\ Once(Tail(s))
      /\ \A i \in DOMAIN Tail(s) : \E j \in DOMAIN s : Tail(s)[i] = s[j] /\ s[j] # f
      /\ \A i \in DOMAIN s : s[i] # f => \E j \in DOMAIN Tail(s) : Tail(s)[j] = s[i]
  BY <1>1, <1>3, TailFacts
<1>5. /\ f \in DOMAIN owner /\ owner[f] = n
      /\ tries[f] < CleanupTries
      /\ f \in FileIds
  BY <1>4 DEF FilesInv, LeaseInv
<1> DEFINE c == IF acknowledged THEN tries[f] ELSE tries[f] + 1
           t == IF acknowledged \/ GivesUp(f) THEN Tail(s) ELSE s
<1>6. /\ c \in 0 .. CleanupTries
      /\ c # tries[f] => tries[f] < c
      /\ ~acknowledged => (GivesUp(f) <=> c = CleanupTries)
      /\ acknowledged => c # CleanupTries
  BY <1>3, <1>5 DEF GivesUp
<1>7. tries' = [tries EXCEPT ![f] = c]
  BY <1>2, <1>3
<1>8. pending' = [pending EXCEPT ![n] = t]
  BY <1>2, <1>3
<1>9. pending'[n] = t
  BY <1>3, <1>8
<1>10. \/ lease' = lease
       \/ t = <<>> /\ lease[n] = "background" /\ lease' = [lease EXCEPT ![n] = "gone"]
  BY <1>1, <1>3, <1>9
<1>11. stored' = stored \/ stored' = stored \ {f}
  BY <1>2
<1>12. f \in stored' => c = CleanupTries \/ \E j \in DOMAIN t : t[j] = f
  BY <1>2, <1>4, <1>6
<1>13. c = CleanupTries => \A i \in DOMAIN t : t[i] # f
  BY <1>4, <1>6
<1>14. /\ t \in Seq(FileIds)
       /\ Once(t)
       /\ \A i \in DOMAIN t : \E j \in DOMAIN s : t[i] = s[j]
       /\ \A i \in DOMAIN s : s[i] # f => \E j \in DOMAIN t : t[j] = s[i]
  BY <1>3, <1>4
<1>15. phase \in Leasing => attempt \in Attempts
  BY DEF CountInv, Running, Leasing, TypeOK
<1>16. phase \in Using => n # attempt
  BY <1>1 DEF FilesInv, LeaseInv, Using, Leasing, Submitted
<1> HIDE DEF c, t, f, s
<1>17. QED
  BY <1>1, <1>5, <1>6, <1>7, <1>8, <1>10, <1>11, <1>12, <1>13, <1>14, <1>15, <1>16,
     RemoveFiles DEF s

\* Every step keeps the leases and the files in order.
LEMMA NextFilesInv ==
    ASSUME TypeOK, CountInv, FilesInv, FileStep, attempt' \in {0} \cup Attempts
    PROVE  FilesInv'
<1>1. attempt \in Nat
  BY DEF TypeOK, Attempts
<1>2. CASE Keeps
  BY <1>2 DEF Keeps, FilesInv, FilesType, LeaseInv, FilesOutliveTheirUse, FilesAccounted, Using, Once
<1>3. ASSUME Renews \/ Drops
      PROVE  /\ FilesType'
             /\ FilesAccounted'
             /\ \A n \in Attempts : lease[n] = "none" => lease'[n] = "none"
  <2>1. CASE lease' = lease
    BY <1>3, <2>1 DEF Renews, Drops, FilesInv, FilesType, FilesAccounted
  <2>2. CASE lease' = DroppedLease(attempt)
    BY <1>1, <1>3, <2>2, DropKeeps DEF Renews, Drops
  <2>3. QED
    BY <1>3, <2>1, <2>2 DEF Renews, Drops
<1>4. ASSUME Renews \/ Drops
      PROVE  /\ UNCHANGED <<pending, owner, stored, tries>>
             /\ \A f \in DOMAIN owner : f \in FileIds /\ owner[f] \in Attempts
             /\ attempt' \in {attempt, attempt + 1}
  BY <1>4, ElementOfSeq, LenProperties DEF Renews, Drops, FilesInv, FilesType, LeaseInv
<1>5. ASSUME Renews, attempt' \in Attempts
      PROVE  FilesInv'
  <2>1. \A f \in DOMAIN owner : owner[f] <= attempt /\ owner[f] # attempt + 1
    BY <1>1, <1>4, <1>5 DEF FilesInv, LeaseInv, Attempts
  <2>2. LeaseInv'
    BY <1>1, <1>3, <1>4, <1>5, <2>1 DEF FilesInv, LeaseInv, Once, Renews, Attempts
  <2>3. FilesOutliveTheirUse'
    BY <1>4, <1>5, <2>1 DEF FilesOutliveTheirUse, Renews
  <2>4. QED
    BY <1>3, <1>5, <2>2, <2>3 DEF FilesInv
<1>6. CASE Drops
  <2>1. LeaseInv'
    BY <1>3, <1>4, <1>6 DEF FilesInv, LeaseInv, Once, Drops
  <2>2. FilesOutliveTheirUse'
    BY <1>6 DEF FilesOutliveTheirUse, Drops, Leasing, Submitted
  <2>3. QED
    BY <1>3, <1>6, <2>1, <2>2 DEF FilesInv
<1>7. Renews => attempt' \in Attempts
  BY <1>1 DEF Renews
<1>8. QED
  BY <1>2, <1>5, <1>6, <1>7, UploadFiles, FinishFiles, BackgroundFiles DEF FileStep

-----------------------------------------------------------------------------
(* The theorems.                                                           *)

\* A request that has not begun satisfies the invariant.
LEMMA InitExecutor ==
    ASSUME Init
    PROVE  ExecutorInv
<1> USE DEF Init
<1>1. TypeOK
  <2>1. \A S : <<>> \in Seq(S)
    BY EmptySeq
  <2>2. pending \in [Attempts -> Seq(FileIds)] /\ lease \in [Attempts -> {"none", "held", "background", "gone"}]
    BY <2>1
  <2>3. again \in BOOLEAN
    BY Zenon
  <2>4. tries \in [FileIds -> 0 .. CleanupTries]
    OBVIOUS
  <2>5. QED
    BY <2>1, <2>2, <2>3, <2>4 DEF TypeOK, Working
<1>2. CountInv
  BY DEF CountInv, Starting, Running, Submitted
<1>3. SentInv
  BY DEF SentInv, Starting, Submitted
<1>4. LeaseInv
  <2>1. owner = <<>> /\ DOMAIN owner = {} /\ \A n \in Attempts : DOMAIN pending[n] = {}
    OBVIOUS
  <2>2. QED
    BY <2>1 DEF LeaseInv, Leasing, Submitted, Once
<1>5. SubmittedOnce /\ ResentOnlyToRepair /\ OwnCredentials /\ NothingSentLate
  BY DEF SubmittedOnce, ResentOnlyToRepair, OwnCredentials, NothingSentLate
<1>6. FilesOutliveTheirUse /\ FilesAccounted
  BY DEF FilesOutliveTheirUse, FilesAccounted
<1>7. QED
  BY <1>1, <1>2, <1>3, <1>4, <1>5, <1>6 DEF ExecutorInv

\* Every step of the executor, the caller, the clock and the background tasks
\* keeps it.
LEMMA NextExecutor ==
    ASSUME ExecutorInv, [Next]_vars
    PROVE  ExecutorInv'
<1> USE DEF ExecutorInv
<1>1. WalkStep
  BY NextWalk
<1>2. FileStep
  BY NextFiles
<1>3. /\ CountInv'
      /\ turn' \in Nat \ {0}
      /\ again' \in BOOLEAN
      /\ attempt' \in {0} \cup Attempts
  BY <1>1, NextCount
<1>4. SentInv' /\ sent' \in Seq(Submission)
  BY <1>1, NextSent
<1>5. OwnCredentials' /\ NothingSentLate'
  BY <1>1, NextCredentials
<1>6. ResentOnlyToRepair'
  BY <1>1, NextResent
<1>7. SubmittedOnce'
  BY <1>1, NextSubmittedOnce
<1>8. FilesInv
  BY DEF FilesInv, FilesType, TypeOK
<1>9. FilesInv'
  BY <1>2, <1>3, <1>8, NextFilesInv
<1>10. TypeOK'
  <2>1. now' \in Nat /\ request' \in Requests
    BY <1>1 DEF WalkStep, TypeOK
  <2>2. /\ todo' \in Seq(FileIds)
        /\ finishBy' \in Nat
        /\ phase' \in Working \cup Over \cup {"streaming", "ended"}
    BY <1>2 DEF FileStep
  <2>3. QED
    BY <1>3, <1>4, <1>9, <2>1, <2>2 DEF TypeOK, FilesInv, FilesType, Submission
<1>11. QED
  BY <1>3, <1>4, <1>5, <1>6, <1>7, <1>9, <1>10 DEF FilesInv

\* So every state of the executor satisfies it.
LEMMA ExecutorInvariant == Spec => []ExecutorInv
BY InitExecutor, NextExecutor, PTL DEF Spec

\* Every variable of the executor keeps its type; above all the attempts stay
\* within two for each connection of the route, and a file is tried no more
\* than CleanupTries times (run_inner, Drop for AutomaticFileCleanup).
THEOREM ExecutorTypeOK == Spec => []TypeOK
BY ExecutorInvariant, PTL DEF ExecutorInv

\* A request that leaves state at the provider is submitted at most once, and
\* to the head of its route, whatever the class of the request, the route and
\* the errors (replay_policy and the overrides of run_inner).
THEOREM ExecutorSubmitsOnce == Spec => []SubmittedOnce
BY ExecutorInvariant, PTL DEF ExecutorInv

\* Any request reaches a connection a second time only after it answered that a
\* prepared file is missing, directly after that, and never a third time
\* (the repair in run_inner).
THEOREM ExecutorRepairsOnce == Spec => []ResentOnlyToRepair
BY ExecutorInvariant, PTL DEF ExecutorInv

\* A connection is sent no credential but its own (prepare).
THEOREM ExecutorOwnCredentials == Spec => []OwnCredentials
BY ExecutorInvariant, PTL DEF ExecutorInv

\* Nothing is handed to the transport at or after the deadline of the request
\* (prepare_before_deadline), however long a repair took before it.
THEOREM ExecutorNothingSentLate == Spec => []NothingSentLate
BY ExecutorInvariant, PTL DEF ExecutorInv

\* An uploaded file stays at the provider as long as the attempt that uploaded
\* it may use it, although tasks of earlier attempts delete files beside it.
THEOREM ExecutorFilesOutliveTheirUse == Spec => []FilesOutliveTheirUse
BY ExecutorInvariant, PTL DEF ExecutorInv

\* No uploaded file is forgotten: it is gone, was tried as often as allowed, or
\* is in the list of a lease that is held or being worked off.
THEOREM ExecutorFilesAccounted == Spec => []FilesAccounted
BY ExecutorInvariant, PTL DEF ExecutorInv
=============================================================================
