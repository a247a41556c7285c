-------------------------- MODULE ProviderStoreProofs --------------------------
(***************************************************************************)
(* Proofs about ProviderStore for every set of processes, callers,         *)
(* directories, accounts and operations: its inductive invariant and the   *)
(* refinement of AtomicConfig, then the cache keys and the bindings of     *)
(* published views, and what a transaction writes back to rows it has no   *)
(* business with.                                                          *)
(***************************************************************************)
EXTENDS ProviderStore, TLAPS

-----------------------------------------------------------------------------
(* The operators of the configuration keep its type.                       *)

USE NoneAssumption, ConstantsAssumption

\* Filling in the caller's definitions gives a well-formed configuration.
LEMMA EnsureDefinitionsType ==
    ASSUME NEW cfg \in SavedConfig
    PROVE  EnsureDefinitions(cfg) \in SavedConfig
BY DEF EnsureDefinitions, SavedConfig, Inherited, Account, Definition, NothingSeen

\* What the file keeps of an account is an account of the same connection, cut
\* down to the tracked models.
LEMMA PersistedAccountType ==
    ASSUME NEW a \in Account, NEW tracked
    PROVE  LET b == PersistedAccount(a, tracked)
           IN  /\ b \in Account
               /\ b.conn = a.conn
               /\ b.rows = a.rows \cap tracked
               /\ b.edited = a.edited \cap tracked
               /\ b.seen = [m \in Models |-> IF m \in tracked THEN a.seen[m] ELSE None]
<1> DEFINE fallback == a.fallback \cap tracked
           rows == a.rows \cap tracked
           edited == a.edited \cap tracked
           seen == [m \in Models |-> IF m \in tracked THEN a.seen[m] ELSE None]
<1>1. PersistedAccount(a, tracked) =
        [a EXCEPT !.fallback = fallback, !.rows = rows, !.edited = edited, !.seen = seen]
  BY DEF PersistedAccount
<1>2. fallback \in SUBSET Models /\ rows \in SUBSET Models /\ edited \in SUBSET Models
  BY DEF Account
<1>3. seen \in [Models -> Conns \cup {None}]
  BY DEF Account
<1> HIDE DEF fallback, rows, edited, seen
<1>4. [a EXCEPT !.fallback = fallback, !.rows = rows, !.edited = edited, !.seen = seen] \in Account
  BY <1>2, <1>3 DEF Account
<1>5. QED
  BY <1>1, <1>4 DEF Account, rows, edited, seen

\* What Repository::write puts in the file is a well-formed configuration.
LEMMA PersistedType ==
    ASSUME NEW cfg \in SavedConfig
    PROVE  Persisted(cfg) \in SavedConfig
<1>1. ASSUME NEW n \in Names
      PROVE  PersistedAccount(cfg.accounts[n], cfg.tracked) \in Account \cup {None}
  <2>1. CASE cfg.accounts[n] = None
    BY <2>1 DEF PersistedAccount
  <2>2. CASE cfg.accounts[n] # None
    <3>1. cfg.accounts[n] \in Account
      BY <2>2 DEF SavedConfig
    <3>2. QED
      BY <3>1, PersistedAccountType
  <2>3. QED
    BY <2>1, <2>2
<1>2. QED
  BY <1>1 DEF Persisted, SavedConfig

\* Restoring session rows gives a well-formed configuration.
LEMMA ReconcileType ==
    ASSUME NEW cfg \in SavedConfig, NEW previous \in SavedConfig
    PROVE  ReconcileSession(cfg, previous) \in SavedConfig
BY DEF ReconcileSession, SavedConfig

\* The executable view of a configuration is a well-formed set of profiles.
LEMMA ProfilesType ==
    ASSUME NEW cfg \in SavedConfig
    PROVE  Profiles(cfg) \in [Names -> Profile \cup {None}]
<1> DEFINE all == EnsureDefinitions(cfg).accounts
<1>1. all \in [Names -> Account \cup {None}]
  BY EnsureDefinitionsType DEF SavedConfig
<1>3. ASSUME NEW n \in Names, all[n] # None
      PROVE  [conn |-> all[n].conn,
              rows |-> [m \in Models |->
                  IF m \in Rows(n, all[n]) \ all[n].incompatible
                  THEN [edited |-> m \in all[n].edited, seen |-> all[n].seen[m]]
                  ELSE None]] \in Profile
  <2>1. all[n] \in Account
    BY <1>1, <1>3
  <2> HIDE DEF all
  <2>2. ASSUME NEW m \in Models
        PROVE  [edited |-> m \in all[n].edited, seen |-> all[n].seen[m]] \in Row
    <3>1. (m \in all[n].edited) \in BOOLEAN
      OBVIOUS
    <3>2. all[n].seen[m] \in Conns \cup {None}
      BY <2>1 DEF Account
    <3> QED
      BY <3>1, <3>2 DEF Row
  <2>3. QED
    BY <2>1, <2>2 DEF Account, Profile
<1> HIDE DEF all
<1>4. QED
  BY <1>3 DEF Profiles, all

\* Taking up the current definitions gives a well-formed configuration.
LEMMA RefreshType ==
    ASSUME NEW cfg \in SavedConfig
    PROVE  RefreshFallbacks(cfg) \in SavedConfig
<1>1. ASSUME NEW n \in Names, cfg.accounts[n] # None, Catalog[n] # None
      PROVE  [cfg.accounts[n] EXCEPT !.fallback = Catalog[n].models] \in Account
  <2>1. cfg.accounts[n] \in Account /\ Catalog[n].models \in SUBSET Models
    BY <1>1 DEF SavedConfig, Definition
  <2>2. QED
    BY <2>1 DEF Account
<1>2. QED
  BY <1>1 DEF RefreshFallbacks, SavedConfig

\* Editing rows keeps an account's type and its connection.
LEMMA EditedAccountType ==
    ASSUME NEW a \in Account, NEW models \in SUBSET Models
    PROVE  /\ EditedAccount(a, models) \in Account
           /\ EditedAccount(a, models).conn = a.conn
BY DEF EditedAccount, Account

\* Filing observations keeps an account's type and its connection.
LEMMA ObservedAccountType ==
    ASSUME NEW n, NEW a \in Account, NEW listing \in Listing, NEW tracked, NEW conn \in Conns
    PROVE  /\ ObservedAccount(n, a, listing, tracked, conn) \in Account
           /\ ObservedAccount(n, a, listing, tracked, conn).conn = a.conn
<1> DEFINE bad == (a.incompatible \cup listing.incompatible) \ listing.compatible
           live == (listing.live \cap tracked) \ bad
           rows == a.rows \cup (live \ Rows(n, a))
           seen == [m \in Models |-> IF m \in live THEN conn ELSE a.seen[m]]
<1>1. bad \in SUBSET Models /\ rows \in SUBSET Models
  BY DEF Account, Listing
<1>2. seen \in [Models -> Conns \cup {None}]
  BY DEF Account
<1>3. ObservedAccount(n, a, listing, tracked, conn) =
        [a EXCEPT !.incompatible = bad, !.rows = rows, !.seen = seen]
  BY DEF ObservedAccount
<1> HIDE DEF bad, rows, seen
<1>4. QED
  BY <1>1, <1>2, <1>3 DEF Account

\* The change an accepted request makes gives a well-formed configuration.
LEMMA ChangeType ==
    ASSUME NEW cfg \in SavedConfig, NEW r \in Requests,
           r.kind \in UpdateKinds, ~Rejects(r, cfg)
    PROVE  Change(r, cfg) \in SavedConfig
<1> USE DEF UpdateKinds, SavedConfig
<1>0. r \in Request
  OBVIOUS
<1>1. CASE r.kind = "add"
  <2>1. Replacement(r.conn, r.models) \in Account
    BY <1>0, <1>1 DEF Replacement, Account, Request, NothingSeen
  <2>2. QED
    BY <1>1, <2>1 DEF Change, SetAccount
<1>2. CASE r.kind = "restore"
  <2>1. Inherited(r.name) \in Account
    BY <1>0, <1>2 DEF Inherited, Account, NothingSeen, Rejects, Request, Definition
  <2>2. QED
    BY <1>2, <2>1 DEF Change, SetAccount
<1>3. CASE r.kind = "remove"
  BY <1>0, <1>3 DEF Change, Request
<1>4. CASE r.kind = "protocol"
  <2>1. [cfg.accounts[r.name] EXCEPT !.conn = r.conn] \in Account
    BY <1>0, <1>4 DEF Rejects, HasProfile, Request, Account
  <2>2. QED
    BY <1>4, <2>1 DEF Change
<1>5. CASE r.kind = "track"
  BY <1>0, <1>5 DEF Change, Request
<1>6. CASE r.kind = "untrack"
  BY <1>0, <1>6 DEF Change, Request
<1>7. CASE r.kind = "edit"
  <2>1. /\ r.name \in Names /\ r.models \in SUBSET Models
        /\ cfg.accounts[r.name] \in Account
    BY <1>0, <1>7 DEF Rejects, HasProfile, Request
  <2>2. EditedAccount(cfg.accounts[r.name], r.models) \in Account
    BY <2>1, EditedAccountType
  <2>3. QED
    BY <1>7, <2>2 DEF Change
<1>8. QED
  BY <1>1, <1>2, <1>3, <1>4, <1>5, <1>6, <1>7

\* Filing observations gives a well-formed configuration.
LEMMA ObserveType ==
    ASSUME NEW cfg \in SavedConfig, NEW k \in Ticket, k.listing # None,
           ~AccountChanged(k, cfg)
    PROVE  Observe(k, cfg) \in SavedConfig
<1>1. cfg.accounts[k.name] \in Account /\ k.listing \in Listing /\ k.conn \in Conns
  BY DEF AccountChanged, HasProfile, SavedConfig, Ticket
<1>2. ObservedAccount(k.name, cfg.accounts[k.name], k.listing, cfg.tracked, k.conn) \in Account
  BY <1>1, ObservedAccountType
<1>3. QED
  BY <1>2 DEF Observe, SavedConfig

\* A publication is a well-formed published state.
LEMMA PublicationType ==
    ASSUME NEW old \in PublishedState, NEW new \in [Names -> Profile \cup {None}],
           NEW dir \in Dirs \cup {None}, NEW switched \in BOOLEAN, NEW forced
    PROVE  Publication(old, new, dir, switched, forced) \in PublishedState
<1> DEFINE connections == ChangedConnections(old.profiles, new) \cup forced
           bindings == [n \in Names |->
                          IF switched \/ n \in connections THEN None ELSE old.bindings[n]]
           invalidated == \/ old.invalidated
                          \/ switched
                          \/ \E n \in connections : old.profiles[n] # None \/ new[n] # None
<1>1. bindings \in [Names -> Binding \cup {None}]
  BY DEF PublishedState
<1>2. invalidated \in BOOLEAN
  BY DEF PublishedState
<1>3. CacheGenerations(old, new, old.revision + 1) \in [Names -> Nat]
  BY DEF CacheGenerations, NoGeneration, PublishedState
<1>4. Publication(old, new, dir, switched, forced) =
        [revision |-> old.revision + 1, dir |-> dir, profiles |-> new,
         bindings |-> bindings, invalidated |-> invalidated,
         namespace |-> IF switched THEN old.namespace + 1 ELSE old.namespace,
         generations |-> CacheGenerations(old, new, old.revision + 1)]
  BY DEF Publication
<1> HIDE DEF bindings, invalidated
<1>5. QED
  BY <1>1, <1>2, <1>3, <1>4 DEF PublishedState

\* A client starts with a well-formed published state.
LEMMA InitialPublishedType == InitialPublished \in PublishedState
<1>1. EmptyConfig \in SavedConfig
  BY DEF EmptyConfig, SavedConfig
<1>2. Profiles(EmptyConfig) \in [Names -> Profile \cup {None}]
  BY <1>1, ProfilesType
<1>3. QED
  BY <1>2 DEF InitialPublished, PublishedState, NoGeneration

-----------------------------------------------------------------------------
(* Type correctness.                                                       *)

\* The configuration a transaction starts from is well formed.
LEMMA BaseType ==
    ASSUME TypeOK, NEW p \in Procs, repository[p] # None
    PROVE  Base(p) \in SavedConfig
<1>1. disk[repository[p]] \in SavedConfig /\ state[p] \in SavedConfig
  BY DEF TypeOK
<1>2. QED
  BY <1>1, ReconcileType, EnsureDefinitionsType DEF Base

\* A returning worker leaves the variables it sets well typed.
LEMMA ReturnType ==
    ASSUME TypeOK, NEW t \in Tasks, NEW k \in Ticket \cup {None}, Return(t, k)
    PROVE  /\ pc' \in [Tasks -> Labels]
           /\ mutex' \in [Procs -> Tasks \cup {None}]
           /\ fileLock' \in [Dirs -> Tasks \cup {None}]
           /\ op' \in [Tasks -> Requests \cup {None}]
           /\ work' \in [Tasks -> SavedConfig]
           /\ ticket' \in [Tasks -> Ticket \cup {None}]
<1>1. EmptyConfig \in SavedConfig
  BY DEF EmptyConfig, SavedConfig
<1>2. QED
  BY <1>1 DEF TypeOK, Return, Goto, Labels

LEMMA TicketLeftType ==
    ASSUME TypeOK, NEW t \in Tasks
    PROVE  TicketLeft(t) \in Ticket \cup {None}
BY DEF TypeOK, TicketLeft

LEMMA InitType == Init => TypeOK
<1>1. EmptyConfig \in SavedConfig
  BY DEF EmptyConfig, SavedConfig
<1>2. QED
  BY <1>1, InitialPublishedType DEF Init, TypeOK, Labels

\* Every step keeps every variable well typed.
LEMMA NextType ==
    ASSUME TypeOK, WorkerInv, [Next]_vars
    PROVE  TypeOK'
<1> USE DEF TypeOK, coordinator, readers, counters
<1>1. CASE UNCHANGED vars
  BY <1>1 DEF vars
<1>2. ASSUME NEW t \in Tasks, NEW r \in Requests, Call(t, r) PROVE TypeOK'
  BY <1>2 DEF Call, Goto, Labels
<1>3. ASSUME NEW t \in Tasks, Cancel(t) PROVE TypeOK'
  BY <1>3 DEF Cancel
<1>4. ASSUME NEW t \in Tasks, Fail(t) PROVE TypeOK'
  BY <1>4, ReturnType, TicketLeftType DEF Fail
<1>5. ASSUME NEW t \in Tasks, Fetch(t) PROVE TypeOK'
  <2>1. ticket' \in [Tasks -> Ticket \cup {None}]
    <3>1. CASE ticket' = [ticket EXCEPT ![t] = None]
      BY <3>1
    <3>2. ASSUME NEW l \in Listings, ticket[t] # None,
                 ticket' = [ticket EXCEPT ![t] = [ticket[t] EXCEPT !.listing = l]]
          PROVE  ticket' \in [Tasks -> Ticket \cup {None}]
      <4>1. [ticket[t] EXCEPT !.listing = l] \in Ticket
        BY <3>2 DEF Ticket
      <4>2. QED
        BY <3>2, <4>1
    <3>3. QED
      BY <1>5, <3>1, <3>2 DEF Fetch
  <2>2. QED
    BY <1>5, <2>1 DEF Fetch
<1>6. ASSUME NEW t \in Tasks, Begin(t) PROVE TypeOK'
  <2>1. CASE cancelled[t]
    BY <1>6, <2>1, ReturnType, TicketLeftType DEF Begin
  <2>2. CASE ~cancelled[t]
    BY <1>6, <2>2 DEF Begin, Goto, Labels
  <2>3. QED
    BY <2>1, <2>2
<1>7. ASSUME NEW t \in Tasks, LoadRead(t) PROVE TypeOK'
  <2>1. op[t] \in Request
    BY <1>7 DEF LoadRead, WorkerInv
  <2>2. op[t].dir \in Dirs
    BY <1>7, <2>1 DEF LoadRead, Request
  <2>3. QED
    BY <1>7, <2>2 DEF LoadRead, Goto, Labels
<1>8. ASSUME NEW t \in Tasks, LoadPublish(t) PROVE TypeOK'
  <2>1. op[t].dir \in Dirs
    BY <1>8 DEF LoadPublish, WorkerInv, Request
  <2>2. CASE cancelled[t]
    BY <1>8, <2>2, ReturnType, TicketLeftType DEF LoadPublish
  <2>3. CASE ~cancelled[t]
    <3> DEFINE p == Owner[t]
               switched == repository[p] # None /\ repository[p] # op[t].dir
               new == Publication(published[p], Profiles(work[t]), op[t].dir, switched, {})
    <3>1. new \in PublishedState
      BY <2>1, ProfilesType, PublicationType
    <3>2. published' = [published EXCEPT ![p] = new]
      BY <1>8, <2>3 DEF LoadPublish
    <3> HIDE DEF new
    <3>3. published' \in [Procs -> PublishedState]
      BY <3>1, <3>2
    <3>4. /\ generation' \in [Procs -> Nat]
          /\ repository' \in [Procs -> Dirs \cup {None}]
          /\ state' \in [Procs -> SavedConfig]
      BY <1>8, <2>1, <2>3 DEF LoadPublish
    <3>5. Return(t, TicketLeft(t)) /\ UNCHANGED <<disk, held, cancelled, counters>>
      BY <1>8 DEF LoadPublish
    <3>6. QED
      BY <3>3, <3>4, <3>5, ReturnType, TicketLeftType
  <2>4. QED
    BY <2>2, <2>3
<1>9. ASSUME NEW t \in Tasks, LockFile(t) PROVE TypeOK'
  <2>1. CASE Return(t, TicketLeft(t))
    BY <1>9, <2>1, ReturnType, TicketLeftType DEF LockFile
  <2>2. CASE ~Return(t, TicketLeft(t))
    BY <1>9, <2>2 DEF LockFile, Goto, Labels
  <2>3. QED
    BY <2>1, <2>2
<1>10. ASSUME NEW t \in Tasks, Stage(t) PROVE TypeOK'
  <2> DEFINE base == Base(Owner[t])
  <2>1. base \in SavedConfig /\ op[t] \in Requests /\ op[t].kind \in UpdateKinds \cup {"apply"}
    BY <1>10, BaseType DEF Stage, WorkerInv, Transacting
  <2>2. CASE Return(t, TicketLeft(t))
    BY <1>10, <2>2, ReturnType, TicketLeftType DEF Stage
  <2>3. CASE op[t].kind = "apply" /\ ~AccountChanged(ticket[t], base)
                /\ work' = [work EXCEPT ![t] = RefreshFallbacks(Observe(ticket[t], base))]
    <3>1. ticket[t] \in Ticket /\ ticket[t].listing # None
      BY <1>10, <2>3 DEF Stage, WorkerInv
    <3>2. RefreshFallbacks(Observe(ticket[t], base)) \in SavedConfig
      BY <2>1, <2>3, <3>1, ObserveType, RefreshType
    <3> HIDE DEF base
    <3>3. QED
      BY <1>10, <2>2, <2>3, <3>2 DEF Stage, Goto, Labels
  <2>4. CASE op[t].kind # "apply" /\ ~Rejects(op[t], base)
                /\ work' = [work EXCEPT ![t] = RefreshFallbacks(Change(op[t], base))]
    <3>1. RefreshFallbacks(Change(op[t], base)) \in SavedConfig
      BY <2>1, <2>4, ChangeType, RefreshType
    <3> HIDE DEF base
    <3>2. QED
      BY <1>10, <2>2, <2>4, <3>1 DEF Stage, Goto, Labels
  <2>5. QED
    BY <1>10, <2>2, <2>3, <2>4 DEF Stage
<1>11. ASSUME NEW t \in Tasks, CheckCancel(t) PROVE TypeOK'
  <2>1. CASE cancelled[t]
    BY <1>11, <2>1, ReturnType, TicketLeftType DEF CheckCancel
  <2>2. CASE ~cancelled[t]
    BY <1>11, <2>2 DEF CheckCancel, Goto, Labels
  <2>3. QED
    BY <2>1, <2>2
<1>12. ASSUME NEW t \in Tasks, Write(t) PROVE TypeOK'
  <2>1. Persisted(work[t]) \in SavedConfig
    BY PersistedType
  <2>2. QED
    BY <1>12, <2>1 DEF Write, Goto, Labels
<1>13. ASSUME NEW t \in Tasks, Publish(t) PROVE TypeOK'
  <2> DEFINE p == Owner[t]
             new == Publication(published[p], Profiles(work[t]), repository[p], FALSE, Forced(op[t]))
  <2>1. new \in PublishedState
    BY ProfilesType, PublicationType
  <2>2. published' = [published EXCEPT ![p] = new]
    BY <1>13 DEF Publish
  <2> HIDE DEF new
  <2>3. published' \in [Procs -> PublishedState]
    BY <2>1, <2>2
  <2>4. QED
    BY <1>13, <2>3, ReturnType, TicketLeftType DEF Publish
<1>14. ASSUME NEW t \in Tasks, BindSource(t) PROVE TypeOK'
  <2> DEFINE p == Owner[t]
             old == published[p]
             n == op[t].name
             b == [namespace |-> old.namespace, conn |-> old.profiles[n].conn]
  <2>1. published' \in [Procs -> PublishedState]
    <3>1. CASE old.profiles[n] = None
      BY <1>14, <3>1 DEF BindSource
    <3>2. CASE old.profiles[n] # None
      <4>1. n \in Names
        BY <1>14 DEF BindSource, WorkerInv, Request
      <4>2. b \in Binding
        BY <3>2, <4>1 DEF PublishedState, Profile, Binding
      <4> DEFINE new == [old EXCEPT !.revision = old.revision + 1, !.bindings = [old.bindings EXCEPT ![n] = b]]
      <4> HIDE DEF b
      <4>3. new \in PublishedState
        <5> DEFINE bound == [old.bindings EXCEPT ![n] = b]
                   next == old.revision + 1
        <5>1. old \in PublishedState
          OBVIOUS
        <5>2. bound \in [Names -> Binding \cup {None}]
          BY <4>2, <5>1 DEF PublishedState
        <5>3. next \in Nat
          BY <5>1 DEF PublishedState
        <5> HIDE DEF old, bound, next
        <5>4. [old EXCEPT !.revision = next, !.bindings = bound] \in PublishedState
          BY <5>1, <5>2, <5>3, Zenon DEF PublishedState
        <5>5. QED
          BY <5>4 DEF next, bound
      <4>4. published' = [published EXCEPT ![p] = new]
        BY <1>14, <3>2 DEF BindSource, b
      <4> HIDE DEF new
      <4>5. QED
        BY <4>3, <4>4
    <3>3. QED
      BY <3>1, <3>2
  <2>2. QED
    BY <1>14, <2>1, ReturnType, TicketLeftType DEF BindSource
<1>15. ASSUME NEW t \in Tasks, PrepareSync(t) PROVE TypeOK'
  <2> DEFINE p == Owner[t]
             n == op[t].name
             k == [dir |-> repository[p], generation |-> generation[p], name |-> n,
                   conn |-> published[p].profiles[n].conn, listing |-> None]
  <2>1. CASE Return(t, TicketLeft(t))
    BY <1>15, <2>1, ReturnType, TicketLeftType DEF PrepareSync
  <2>2. CASE ~Return(t, TicketLeft(t))
    <3>1. repository[p] # None /\ published[p].profiles[n] # None /\ Return(t, k)
      BY <1>15, <2>2 DEF PrepareSync
    <3>2. n \in Names
      BY <1>15 DEF PrepareSync, WorkerInv, Request
    <3>3. k \in Ticket
      BY <3>1, <3>2 DEF Ticket, PublishedState, Profile
    <3> HIDE DEF k
    <3>4. QED
      BY <1>15, <3>1, <3>3, ReturnType DEF PrepareSync
  <2>3. QED
    BY <2>1, <2>2
<1>16. ASSUME NEW p \in Procs, TakeSnapshot(p) PROVE TypeOK'
  BY <1>16 DEF TakeSnapshot
<1>17. ASSUME NEW p \in Procs, Crash(p) PROVE TypeOK'
  <2>1. EmptyConfig \in SavedConfig
    BY DEF EmptyConfig, SavedConfig
  <2>2. /\ fileLock' \in [Dirs -> Tasks \cup {None}]
        /\ repository' \in [Procs -> Dirs \cup {None}]
        /\ generation' \in [Procs -> Nat]
        /\ mutex' \in [Procs -> Tasks \cup {None}]
    BY <1>17 DEF Crash
  <2>3. /\ state' \in [Procs -> SavedConfig]
        /\ work' \in [Tasks -> SavedConfig]
    BY <1>17, <2>1 DEF Crash
  <2>4. /\ published' \in [Procs -> PublishedState]
        /\ held' \in [Procs -> PublishedState \cup {None}]
    BY <1>17, InitialPublishedType DEF Crash
  <2>5. /\ pc' \in [Tasks -> Labels]
        /\ op' \in [Tasks -> Requests \cup {None}]
        /\ ticket' \in [Tasks -> Ticket \cup {None}]
    BY <1>17 DEF Crash, Labels
  <2>6. cancelled' \in [Tasks -> BOOLEAN]
    BY <1>17 DEF Crash
  <2>7. disk' \in [Dirs -> SavedConfig] /\ calls' \in Nat /\ crashes' \in Nat
    BY <1>17 DEF Crash
  <2>8. QED
    BY <2>2, <2>3, <2>4, <2>5, <2>6, <2>7
<1>18. QED
  BY <1>1, <1>2, <1>3, <1>4, <1>5, <1>6, <1>7, <1>8, <1>9, <1>10, <1>11, <1>12, <1>13,
     <1>14, <1>15, <1>16, <1>17 DEF Next, Worker

-----------------------------------------------------------------------------
(* Locks.                                                                  *)

\* A returning worker takes away nobody else's locks, request or ticket.
LEMMA ReturnWorker ==
    ASSUME TypeOK, WorkerInv, NEW t \in Tasks, NEW k, Return(t, k),
           \A u \in Tasks \ {t} : mutex[Owner[u]] = u =>
               /\ repository'[Owner[u]] = repository[Owner[u]]
               /\ state'[Owner[u]] = state[Owner[u]]
    PROVE  WorkerInv'
<1> SUFFICES ASSUME NEW u \in Tasks
             PROVE  WorkerInv!(u)'
  BY DEF WorkerInv
<1>1. CASE u = t
  BY <1>1 DEF TypeOK, Return, Goto, Critical, Transacting
<1>2. CASE u # t
  <2>1. /\ pc'[u] = pc[u] /\ op'[u] = op[u] /\ ticket'[u] = ticket[u] /\ work'[u] = work[u]
        /\ mutex[Owner[u]] = u => mutex'[Owner[u]] = u
        /\ \A d \in Dirs : fileLock[d] = u => fileLock'[d] = u
    BY <1>2 DEF TypeOK, Return, Goto
  <2>2. CASE pc[u] \in Critical
    <3>1. mutex[Owner[u]] = u
      BY <2>2 DEF WorkerInv
    <3>2. QED
      BY <1>2, <2>1, <2>2, <3>1 DEF WorkerInv, TypeOK, Critical, Transacting
  <2>3. CASE pc[u] \notin Critical
    BY <2>1, <2>3 DEF WorkerInv, Critical, Transacting
  <2>4. QED
    BY <2>2, <2>3
<1>3. QED
  BY <1>1, <1>2

\* Two workers past the mutex of one process are the same worker.
LEMMA MutualExclusion ==
    ASSUME WorkerInv, NEW t \in Tasks, NEW u \in Tasks,
           pc[t] \in Critical, pc[u] \in Critical, Owner[t] = Owner[u]
    PROVE  t = u
BY DEF WorkerInv

\* Every step keeps what the workers rely on.
LEMMA NextWorker ==
    ASSUME TypeOK, WorkerInv, [Next]_vars
    PROVE  WorkerInv'
<1> USE DEF coordinator, readers, counters
<1>1. CASE UNCHANGED vars
  BY <1>1 DEF vars, WorkerInv
<1>2. ASSUME NEW t \in Tasks, NEW r \in Requests, Call(t, r) PROVE WorkerInv'
  BY <1>2 DEF Call, Goto, TypeOK, WorkerInv, Critical, Transacting
<1>3. ASSUME NEW t \in Tasks, Cancel(t) PROVE WorkerInv'
  BY <1>3 DEF Cancel, WorkerInv
<1>4. ASSUME NEW t \in Tasks, Fail(t) PROVE WorkerInv'
  BY <1>4, ReturnWorker DEF Fail
<1>5. ASSUME NEW t \in Tasks, Fetch(t) PROVE WorkerInv'
  <2>1. \A u \in Tasks \ {t} : ticket'[u] = ticket[u]
    BY <1>5 DEF Fetch, TypeOK
  <2>2. QED
    BY <1>5, <2>1 DEF Fetch, WorkerInv, Critical, Transacting
<1>6. ASSUME NEW t \in Tasks, Begin(t) PROVE WorkerInv'
  <2>1. CASE cancelled[t]
    BY <1>6, <2>1, ReturnWorker DEF Begin
  <2>2. CASE ~cancelled[t]
    BY <1>6, <2>2 DEF Begin, Goto, TypeOK, WorkerInv, Critical, Transacting
  <2>3. QED
    BY <2>1, <2>2
<1>7. ASSUME NEW t \in Tasks, LoadRead(t) PROVE WorkerInv'
  BY <1>7 DEF LoadRead, Goto, TypeOK, WorkerInv, Critical, Transacting
<1>8. ASSUME NEW t \in Tasks, LoadPublish(t) PROVE WorkerInv'
  <2>1. mutex[Owner[t]] = t
    BY <1>8 DEF LoadPublish, WorkerInv, Critical
  <2>2. ASSUME NEW u \in Tasks \ {t}, mutex[Owner[u]] = u
        PROVE  /\ repository'[Owner[u]] = repository[Owner[u]]
               /\ state'[Owner[u]] = state[Owner[u]]
    BY <1>8, <2>1, <2>2 DEF LoadPublish, TypeOK
  <2>3. Return(t, TicketLeft(t))
    BY <1>8 DEF LoadPublish
  <2>4. QED
    BY <2>2, <2>3, ReturnWorker
<1>9. ASSUME NEW t \in Tasks, LockFile(t) PROVE WorkerInv'
  <2>1. CASE Return(t, TicketLeft(t))
    BY <1>9, <2>1, ReturnWorker DEF LockFile
  <2>2. CASE ~Return(t, TicketLeft(t))
    <3> DEFINE d == repository[Owner[t]]
    <3>1. /\ pc[t] = "begun" /\ op[t].kind \in UpdateKinds \cup {"apply"}
          /\ d # None /\ fileLock[d] = None
          /\ fileLock' = [fileLock EXCEPT ![d] = t]
          /\ pc' = [pc EXCEPT ![t] = "reading"]
          /\ UNCHANGED <<mutex, op, work, ticket, repository, generation, state>>
      BY <1>9, <2>2 DEF LockFile, Goto, FileFree
    <3>2. d \in Dirs
      BY <3>1 DEF TypeOK
    <3>3. QED
      BY <3>1, <3>2 DEF TypeOK, WorkerInv, Critical, Transacting
  <2>3. QED
    BY <2>1, <2>2
<1>10. ASSUME NEW t \in Tasks, Stage(t) PROVE WorkerInv'
  <2>1. CASE Return(t, TicketLeft(t))
    BY <1>10, <2>1, ReturnWorker DEF Stage
  <2>2. CASE ~Return(t, TicketLeft(t))
    <3>1. /\ pc[t] = "reading" /\ pc' = [pc EXCEPT ![t] = "staged"]
          /\ \A u \in Tasks \ {t} : work'[u] = work[u]
          /\ UNCHANGED <<fileLock, mutex, op, ticket, repository, generation, state>>
      BY <1>10, <2>2 DEF Stage, Goto, TypeOK
    <3>2. QED
      BY <3>1 DEF TypeOK, WorkerInv, Critical, Transacting
  <2>3. QED
    BY <2>1, <2>2
<1>11. ASSUME NEW t \in Tasks, CheckCancel(t) PROVE WorkerInv'
  <2>1. CASE cancelled[t]
    BY <1>11, <2>1, ReturnWorker DEF CheckCancel
  <2>2. CASE ~cancelled[t]
    BY <1>11, <2>2 DEF CheckCancel, Goto, TypeOK, WorkerInv, Critical, Transacting
  <2>3. QED
    BY <2>1, <2>2
<1>12. ASSUME NEW t \in Tasks, Write(t) PROVE WorkerInv'
  <2> DEFINE p == Owner[t]
             d == repository[p]
  <2>1. /\ pc[t] = "writing" /\ pc' = [pc EXCEPT ![t] = "publish"]
        /\ state' = [state EXCEPT ![p] = work[t]]
        /\ fileLock' = [fileLock EXCEPT ![d] = None]
        /\ UNCHANGED <<mutex, op, work, ticket, repository>>
    BY <1>12 DEF Write, Goto
  <2>2. d \in Dirs /\ fileLock[d] = t /\ mutex[p] = t
    BY <2>1 DEF TypeOK, WorkerInv, Critical, Transacting
  <2> SUFFICES ASSUME NEW u \in Tasks PROVE WorkerInv!(u)'
    BY DEF WorkerInv
  <2>3. CASE u = t
    BY <2>1, <2>2, <2>3 DEF TypeOK, WorkerInv, Critical, Transacting
  <2>4. CASE u # t /\ pc[u] \in Critical
    <3>1. Owner[u] # p
      BY <2>2, <2>4 DEF WorkerInv
    <3>2. QED
      BY <2>1, <2>2, <2>4, <3>1 DEF TypeOK, WorkerInv, Critical, Transacting
  <2>5. CASE u # t /\ pc[u] \notin Critical
    BY <2>1, <2>5 DEF TypeOK, WorkerInv, Critical, Transacting
  <2>6. QED
    BY <2>3, <2>4, <2>5
<1>13. ASSUME NEW t \in Tasks, Publish(t) PROVE WorkerInv'
  BY <1>13, ReturnWorker DEF Publish
<1>14. ASSUME NEW t \in Tasks, BindSource(t) PROVE WorkerInv'
  BY <1>14, ReturnWorker DEF BindSource
<1>15. ASSUME NEW t \in Tasks, PrepareSync(t) PROVE WorkerInv'
  BY <1>15, ReturnWorker DEF PrepareSync
<1>16. ASSUME NEW p \in Procs, TakeSnapshot(p) PROVE WorkerInv'
  BY <1>16 DEF TakeSnapshot, WorkerInv
<1>17. ASSUME NEW p \in Procs, Crash(p) PROVE WorkerInv'
  <2> SUFFICES ASSUME NEW u \in Tasks PROVE WorkerInv!(u)'
    BY DEF WorkerInv
  <2>1. CASE Owner[u] = p
    BY <1>17, <2>1 DEF Crash, Critical, Transacting
  <2>2. CASE Owner[u] # p
    <3>1. /\ pc'[u] = pc[u] /\ op'[u] = op[u] /\ ticket'[u] = ticket[u] /\ work'[u] = work[u]
          /\ mutex'[Owner[u]] = mutex[Owner[u]]
          /\ repository'[Owner[u]] = repository[Owner[u]]
          /\ state'[Owner[u]] = state[Owner[u]]
          /\ \A d \in Dirs : fileLock[d] = u => fileLock'[d] = u
      BY <1>17, <2>2 DEF Crash, TypeOK
    <3>2. QED
      BY <3>1 DEF TypeOK, WorkerInv, Critical, Transacting
  <2>3. QED
    BY <2>1, <2>2
<1>18. QED
  BY <1>1, <1>2, <1>3, <1>4, <1>5, <1>6, <1>7, <1>8, <1>9, <1>10, <1>11, <1>12, <1>13,
     <1>14, <1>15, <1>16, <1>17 DEF Next, Worker

-----------------------------------------------------------------------------
(* Publication follows every commit.                                       *)

\* A step that leaves memory and the view alone, and neither starts nor ends a
\* publication, keeps their relation.
LEMMA QuietPublication ==
    ASSUME PublicationInv, UNCHANGED <<repository, state>>,
           \A p \in Procs : /\ published'[p].profiles = published[p].profiles
                            /\ published'[p].dir = published[p].dir,
           \A u \in Tasks : pc[u] = "publish" => pc'[u] = "publish"
    PROVE  PublicationInv'
BY DEF PublicationInv

\* Every step keeps memory and the published view together.
LEMMA NextPublication ==
    ASSUME TypeOK, WorkerInv, PublicationInv, [Next]_vars
    PROVE  PublicationInv'
<1> USE DEF coordinator, readers, counters
<1>1. CASE UNCHANGED vars
  BY <1>1, QuietPublication DEF vars
<1>2. ASSUME NEW t \in Tasks, NEW r \in Requests, Call(t, r) PROVE PublicationInv'
  BY <1>2, QuietPublication DEF Call, Goto, TypeOK
<1>3. ASSUME NEW t \in Tasks, Cancel(t) \/ Fetch(t) PROVE PublicationInv'
  BY <1>3, QuietPublication DEF Cancel, Fetch
<1>4. ASSUME NEW t \in Tasks, Fail(t) PROVE PublicationInv'
  BY <1>4, QuietPublication DEF Fail, Return, Goto, TypeOK
<1>5. ASSUME NEW t \in Tasks, Begin(t) PROVE PublicationInv'
  BY <1>5, QuietPublication DEF Begin, Return, Goto, TypeOK
<1>6. ASSUME NEW t \in Tasks, LoadRead(t) PROVE PublicationInv'
  BY <1>6, QuietPublication DEF LoadRead, Goto, TypeOK
<1>7. ASSUME NEW t \in Tasks, LoadPublish(t) PROVE PublicationInv'
  <2> DEFINE p == Owner[t]
  <2>1. /\ pc[t] = "loaded"
        /\ \A u \in Tasks : pc[u] = "publish" => pc'[u] = "publish"
    BY <1>7 DEF LoadPublish, Return, Goto, TypeOK
  <2>2. CASE cancelled[t]
    BY <1>7, <2>1, <2>2, QuietPublication DEF LoadPublish
  <2>3. CASE ~cancelled[t]
    <3>1. /\ repository' = [repository EXCEPT ![p] = op[t].dir]
          /\ state' = [state EXCEPT ![p] = work[t]]
          /\ \E sw \in BOOLEAN : published' = [published EXCEPT ![p] =
                Publication(published[p], Profiles(work[t]), op[t].dir, sw, {})]
      BY <1>7, <2>3 DEF LoadPublish
    <3>2. /\ published'[p].profiles = Profiles(work[t])
          /\ published'[p].dir = op[t].dir
          /\ \A q \in Procs \ {p} : published'[q] = published[q]
      BY <3>1 DEF Publication, TypeOK
    <3>3. QED
      BY <2>1, <3>1, <3>2 DEF PublicationInv, TypeOK
  <2>4. QED
    BY <2>2, <2>3
<1>8. ASSUME NEW t \in Tasks, LockFile(t) PROVE PublicationInv'
  BY <1>8, QuietPublication DEF LockFile, Return, Goto, TypeOK
<1>9. ASSUME NEW t \in Tasks, Stage(t) PROVE PublicationInv'
  <2>1. pc[t] = "reading" /\ (\A u \in Tasks \ {t} : pc'[u] = pc[u])
    BY <1>9 DEF Stage, Return, Goto, TypeOK
  <2>2. QED
    BY <1>9, <2>1, QuietPublication DEF Stage
<1>10. ASSUME NEW t \in Tasks, CheckCancel(t) PROVE PublicationInv'
  BY <1>10, QuietPublication DEF CheckCancel, Return, Goto, TypeOK
<1>11. ASSUME NEW t \in Tasks, Write(t) PROVE PublicationInv'
  <2>1. /\ \A q \in Procs \ {Owner[t]} : state'[q] = state[q]
        /\ pc' = [pc EXCEPT ![t] = "publish"]
        /\ UNCHANGED <<repository, published>>
    BY <1>11 DEF Write, Goto, TypeOK
  <2>2. QED
    BY <2>1 DEF PublicationInv, TypeOK
<1>12. ASSUME NEW t \in Tasks, Publish(t) PROVE PublicationInv'
  <2> DEFINE p == Owner[t]
  <2>1. /\ pc[t] = "publish" /\ work[t] = state[p]
        /\ \A u \in Tasks \ {t} : pc'[u] = pc[u]
        /\ UNCHANGED <<repository, state>>
    BY <1>12 DEF Publish, Return, Goto, TypeOK, WorkerInv
  <2>2. /\ published'[p].profiles = Profiles(state[p])
        /\ published'[p].dir = repository[p]
        /\ \A q \in Procs \ {p} : published'[q] = published[q]
    BY <1>12, <2>1 DEF Publish, Publication, TypeOK
  <2>3. QED
    BY <2>1, <2>2 DEF PublicationInv, TypeOK
<1>13. ASSUME NEW t \in Tasks, BindSource(t) PROVE PublicationInv'
  <2>1. pc[t] = "begun" /\ (\A u \in Tasks \ {t} : pc'[u] = pc[u])
    BY <1>13 DEF BindSource, Return, Goto, TypeOK
  <2>2. \A q \in Procs : /\ published'[q].profiles = published[q].profiles
                         /\ published'[q].dir = published[q].dir
    <3>1. CASE published' = published
      BY <3>1
    <3>2. ASSUME NEW r, NEW b,
                 published' = [published EXCEPT ![Owner[t]] =
                    [published[Owner[t]] EXCEPT !.revision = r, !.bindings = b]]
          PROVE  \A q \in Procs : /\ published'[q].profiles = published[q].profiles
                                  /\ published'[q].dir = published[q].dir
      BY <3>2 DEF TypeOK, PublishedState
    <3>3. QED
      BY <1>13, <3>1, <3>2 DEF BindSource
  <2>3. QED
    BY <1>13, <2>1, <2>2, QuietPublication DEF BindSource
<1>14. ASSUME NEW t \in Tasks, PrepareSync(t) PROVE PublicationInv'
  BY <1>14, QuietPublication DEF PrepareSync, Return, Goto, TypeOK
<1>15. ASSUME NEW p \in Procs, TakeSnapshot(p) PROVE PublicationInv'
  BY <1>15, QuietPublication DEF TakeSnapshot
<1>16. ASSUME NEW p \in Procs, Crash(p) PROVE PublicationInv'
  <2>1. /\ repository'[p] = None
        /\ \A q \in Procs \ {p} : /\ repository'[q] = repository[q]
                                  /\ state'[q] = state[q]
                                  /\ published'[q] = published[q]
        /\ \A u \in Tasks : Owner[u] # p => pc'[u] = pc[u]
    BY <1>16 DEF Crash, TypeOK
  <2>2. QED
    BY <2>1 DEF PublicationInv
<1>17. QED
  BY <1>1, <1>2, <1>3, <1>4, <1>5, <1>6, <1>7, <1>8, <1>9, <1>10, <1>11, <1>12, <1>13,
     <1>14, <1>15, <1>16 DEF Next, Worker

-----------------------------------------------------------------------------
(* What the transactions do to connections.                                *)

\* ConnsOf, account by account.
ConnAt(cfg, n) ==
    IF n \in cfg.deleted THEN None
    ELSE IF cfg.accounts[n] # None THEN cfg.accounts[n].conn
    ELSE IF Catalog[n] # None THEN Catalog[n].conn ELSE None

LEMMA ConnsAt ==
    ASSUME NEW cfg \in SavedConfig
    PROVE  ConnsOf(cfg) = [n \in Names |-> ConnAt(cfg, n)]
<1>1. ASSUME NEW n \in Names
      PROVE  Profiles(cfg)[n] = None <=>
                n \in cfg.deleted \/ (cfg.accounts[n] = None /\ Catalog[n] = None)
  <2>1. CASE n \in cfg.deleted
    BY <2>1 DEF Profiles, EnsureDefinitions, SavedConfig
  <2>2. CASE n \notin cfg.deleted
    <3>1. Profiles(cfg) \in [Names -> Profile \cup {None}]
      BY ProfilesType
    <3> DEFINE all == EnsureDefinitions(cfg).accounts
               rows == [m \in Models |->
                           IF m \in Rows(n, all[n]) \ all[n].incompatible
                           THEN [edited |-> m \in all[n].edited, seen |-> all[n].seen[m]]
                           ELSE None]
    <3>2. all[n] # None => Profiles(cfg)[n] = [conn |-> all[n].conn, rows |-> rows]
      BY <2>2 DEF Profiles
    <3>3. all[n] = None => Profiles(cfg)[n] = None
      BY DEF Profiles
    <3>4. all[n] = None <=> cfg.accounts[n] = None /\ Catalog[n] = None
      <4>1. all[n] = IF cfg.accounts[n] = None /\ Catalog[n] # None THEN Inherited(n)
                     ELSE cfg.accounts[n]
        BY <2>2 DEF EnsureDefinitions, SavedConfig
      <4>2. Catalog[n] # None => Inherited(n) \in Account
        BY DEF Inherited, Account, NothingSeen, Definition
      <4> HIDE DEF all
      <4>3. QED
        BY <4>1, <4>2
    <3>5. all[n] # None => [conn |-> all[n].conn, rows |-> rows] \in Profile
      <4>1. ASSUME all[n] # None PROVE all[n] \in Account
        BY <4>1, EnsureDefinitionsType DEF SavedConfig
      <4> HIDE DEF all
      <4>2. ASSUME all[n] # None, NEW m \in Models
            PROVE  [edited |-> m \in all[n].edited, seen |-> all[n].seen[m]] \in Row
        <5>1. (m \in all[n].edited) \in BOOLEAN
          OBVIOUS
        <5>2. all[n].seen[m] \in Conns \cup {None}
          BY <4>1, <4>2 DEF Account
        <5> QED
          BY <5>1, <5>2 DEF Row
      <4>3. QED
        BY <4>1, <4>2 DEF Account, Profile
    <3> HIDE DEF all, rows
    <3>6. QED
      BY <2>2, <3>2, <3>3, <3>4, <3>5
  <2>3. QED
    BY <2>1, <2>2
<1>2. ASSUME NEW n \in Names, Profiles(cfg)[n] # None
      PROVE  Profiles(cfg)[n].conn = ConnAt(cfg, n)
  BY <1>1, <1>2 DEF Profiles, EnsureDefinitions, SavedConfig, Inherited, ConnAt
<1>3. ASSUME NEW n \in Names
      PROVE  (IF Profiles(cfg)[n] = None THEN None ELSE Profiles(cfg)[n].conn) = ConnAt(cfg, n)
  BY <1>1, <1>2 DEF ConnAt
<1>4. QED
  BY <1>3 DEF ConnsOf

\* The current definitions reach nothing of an account but its saved copy of them.
LEMMA RefreshKeeps ==
    ASSUME NEW cfg \in SavedConfig, NEW n \in Names
    PROVE  LET a == cfg.accounts[n]
               b == RefreshFallbacks(cfg).accounts[n]
           IN  /\ b = None <=> a = None
               /\ a # None => /\ b.conn = a.conn /\ b.rows = a.rows
                              /\ b.edited = a.edited /\ b.seen = a.seen
<1> DEFINE a == cfg.accounts[n]
           b == RefreshFallbacks(cfg).accounts[n]
<1>1. a \in Account \cup {None} /\ b \in Account \cup {None}
  BY RefreshType DEF SavedConfig
<1>2. b = IF a = None \/ Catalog[n] = None THEN a ELSE [a EXCEPT !.fallback = Catalog[n].models]
  BY DEF RefreshFallbacks, SavedConfig
<1>3. ASSUME a # None, Catalog[n] # None
      PROVE  [a EXCEPT !.fallback = Catalog[n].models] \in Account
  <2>1. a \in Account /\ Catalog[n].models \in SUBSET Models
    BY <1>1, <1>3 DEF Definition
  <2> HIDE DEF a
  <2>2. QED
    BY <2>1 DEF Account
<1> HIDE DEF a, b
<1>4. QED
  BY <1>1, <1>2, <1>3 DEF Account, a, b

\* Neither the definitions nor the session rows nor what is left out of the
\* file changes a connection.
LEMMA ConnsPreserved ==
    ASSUME NEW cfg \in SavedConfig, NEW previous \in SavedConfig, NEW n \in Names
    PROVE  /\ ConnAt(EnsureDefinitions(cfg), n) = ConnAt(cfg, n)
           /\ ConnAt(Persisted(cfg), n) = ConnAt(cfg, n)
           /\ ConnAt(ReconcileSession(cfg, previous), n) = ConnAt(cfg, n)
           /\ ConnAt(RefreshFallbacks(cfg), n) = ConnAt(cfg, n)
<1>1. ConnAt(EnsureDefinitions(cfg), n) = ConnAt(cfg, n)
  <2>1. EnsureDefinitions(cfg).deleted = cfg.deleted
    BY DEF EnsureDefinitions, SavedConfig
  <2>2. CASE cfg.accounts[n] = None /\ n \notin cfg.deleted /\ Catalog[n] # None
    <3>1. EnsureDefinitions(cfg).accounts[n] = Inherited(n)
      BY <2>2 DEF EnsureDefinitions, SavedConfig
    <3>2. Inherited(n) \in Account /\ Inherited(n).conn = Catalog[n].conn
      BY <2>2 DEF Inherited, Account, NothingSeen, Definition
    <3>3. QED
      BY <2>1, <2>2, <3>1, <3>2 DEF ConnAt
  <2>3. CASE ~(cfg.accounts[n] = None /\ n \notin cfg.deleted /\ Catalog[n] # None)
    <3>1. EnsureDefinitions(cfg).accounts[n] = cfg.accounts[n]
      BY <2>3 DEF EnsureDefinitions, SavedConfig
    <3>2. QED
      BY <2>1, <3>1 DEF ConnAt
  <2>4. QED
    BY <2>2, <2>3
<1>2. ASSUME NEW c \in SavedConfig
      PROVE  /\ Persisted(c).deleted = c.deleted
             /\ Persisted(c).accounts[n] = None <=> c.accounts[n] = None
             /\ c.accounts[n] # None => Persisted(c).accounts[n].conn = c.accounts[n].conn
  <2>1. Persisted(c).deleted = c.deleted
        /\ Persisted(c).accounts[n] = PersistedAccount(c.accounts[n], c.tracked)
    BY DEF Persisted, SavedConfig
  <2>2. CASE c.accounts[n] = None
    BY <2>1, <2>2 DEF PersistedAccount
  <2>3. CASE c.accounts[n] # None
    <3>1. c.accounts[n] \in Account
      BY <2>3 DEF SavedConfig
    <3>2. PersistedAccount(c.accounts[n], c.tracked) \in Account
          /\ PersistedAccount(c.accounts[n], c.tracked).conn = c.accounts[n].conn
      BY <3>1, PersistedAccountType
    <3>3. QED
      BY <2>1, <2>3, <3>2
  <2>4. QED
    BY <2>2, <2>3
<1>3. ConnAt(Persisted(cfg), n) = ConnAt(cfg, n)
  BY <1>2 DEF ConnAt
<1>4. ConnAt(ReconcileSession(cfg, previous), n) = ConnAt(cfg, n)
  <2> DEFINE rec == ReconcileSession(cfg, previous)
  <2>1. rec.deleted = cfg.deleted
        /\ (rec.accounts[n] = cfg.accounts[n]
            \/ (/\ cfg.accounts[n] # None
                /\ Persisted(previous).accounts[n] = cfg.accounts[n]
                /\ rec.accounts[n] = previous.accounts[n]))
    BY DEF ReconcileSession, SavedConfig
  <2> HIDE DEF rec
  <2>2. QED
    BY <1>2, <2>1 DEF ConnAt, rec
<1>5. ConnAt(RefreshFallbacks(cfg), n) = ConnAt(cfg, n)
  <2>1. RefreshFallbacks(cfg).deleted = cfg.deleted
    BY DEF RefreshFallbacks, SavedConfig
  <2>2. /\ RefreshFallbacks(cfg).accounts[n] = None <=> cfg.accounts[n] = None
        /\ cfg.accounts[n] # None => RefreshFallbacks(cfg).accounts[n].conn = cfg.accounts[n].conn
    BY RefreshKeeps
  <2>3. QED
    BY <2>1, <2>2 DEF ConnAt
<1>6. QED
  BY <1>1, <1>3, <1>4, <1>5

\* An accepted request changes connections as the abstract request does.
LEMMA ChangeConns ==
    ASSUME NEW cfg \in SavedConfig, NEW r \in Requests,
           r.kind \in UpdateKinds, ~Rejects(r, cfg), NEW c,
           NEW n \in Names, c[n] = ConnAt(cfg, n)
    PROVE  Atomic!Effect(r, c)[n] = ConnAt(Change(r, cfg), n)
<1> USE DEF UpdateKinds, SavedConfig
<1>0. r \in Request
  OBVIOUS
<1>1. CASE r.kind = "add"
  <2>1. Replacement(r.conn, r.models) \in Account /\ Replacement(r.conn, r.models).conn = r.conn
    BY <1>0, <1>1 DEF Replacement, Account, Request, NothingSeen
  <2>2. r.name \in Names
    BY <1>0, <1>1 DEF Request
  <2>3. QED
    BY <1>1, <2>1, <2>2 DEF Change, SetAccount, ConnAt, Atomic!Effect
<1>2. CASE r.kind = "restore"
  <2>1. /\ Inherited(r.name) \in Account
        /\ Inherited(r.name).conn = Catalog[r.name].conn
        /\ r.name \in Names /\ Catalog[r.name] # None
    BY <1>0, <1>2 DEF Inherited, Account, NothingSeen, Rejects, Request, Definition
  <2>2. QED
    BY <1>2, <2>1 DEF Change, SetAccount, ConnAt, Atomic!Effect
<1>3. CASE r.kind = "remove"
  <2>1. r.name \in Names
    BY <1>0, <1>3 DEF Request
  <2>2. QED
    BY <1>3, <2>1 DEF Change, ConnAt, Atomic!Effect
<1>4. CASE r.kind = "protocol"
  <2> DEFINE a == [cfg.accounts[r.name] EXCEPT !.conn = r.conn]
  <2>1. a \in Account /\ a.conn = r.conn /\ r.name \in Names /\ r.name \notin cfg.deleted
    BY <1>0, <1>4 DEF Rejects, HasProfile, Request, Account
  <2>2. Change(r, cfg) = [cfg EXCEPT !.accounts[r.name] = a]
    BY <1>4 DEF Change
  <2> HIDE DEF a
  <2>3. QED
    BY <1>4, <2>1, <2>2 DEF ConnAt, Atomic!Effect
<1>5. CASE r.kind = "track" \/ r.kind = "untrack"
  <2>1. r.name = None
    BY <1>0, <1>5 DEF Request
  <2>2. QED
    BY <1>5, <2>1 DEF Change, ConnAt, Atomic!Effect
<1>6. CASE r.kind = "edit"
  <2> DEFINE a == EditedAccount(cfg.accounts[r.name], r.models)
  <2>1. /\ r.name \in Names /\ r.models \in SUBSET Models /\ r.name \notin cfg.deleted
        /\ cfg.accounts[r.name] \in Account
    BY <1>0, <1>6 DEF Rejects, HasProfile, Request
  <2>2. a \in Account /\ a.conn = cfg.accounts[r.name].conn
    BY <2>1, EditedAccountType
  <2>3. Change(r, cfg) = [cfg EXCEPT !.accounts[r.name] = a]
    BY <1>6 DEF Change
  <2> HIDE DEF a
  <2>4. QED
    BY <1>6, <2>1, <2>2, <2>3 DEF ConnAt, Atomic!Effect
<1>7. QED
  BY <1>1, <1>2, <1>3, <1>4, <1>5, <1>6

\* Filing observations changes no connection, and no account is named by the request.
LEMMA ObserveConns ==
    ASSUME NEW cfg \in SavedConfig, NEW k \in Ticket, k.listing # None,
           ~AccountChanged(k, cfg), NEW r \in Requests, r.kind = "apply",
           NEW c, NEW n \in Names, c[n] = ConnAt(cfg, n)
    PROVE  Atomic!Effect(r, c)[n] = ConnAt(Observe(k, cfg), n)
<1> DEFINE a == ObservedAccount(k.name, cfg.accounts[k.name], k.listing, cfg.tracked, k.conn)
<1>1. cfg.accounts[k.name] \in Account /\ k.listing \in Listing /\ k.conn \in Conns
  BY DEF AccountChanged, HasProfile, SavedConfig, Ticket
<1>2. a \in Account /\ a.conn = cfg.accounts[k.name].conn
  BY <1>1, ObservedAccountType
<1>3. Observe(k, cfg) = [cfg EXCEPT !.accounts[k.name] = a]
  BY DEF Observe
<1>4. r.name = None
  BY DEF Request
<1>5. Atomic!Effect(r, c)[n] = c[n]
  BY <1>4 DEF Atomic!Effect
<1> HIDE DEF a
<1>6. ConnAt(Observe(k, cfg), n) = ConnAt(cfg, n)
  BY <1>1, <1>2, <1>3 DEF ConnAt, SavedConfig
<1>7. QED
  BY <1>5, <1>6

\* What Stage leaves for Write is the request's effect on the file.
LEMMA StageEffect ==
    ASSUME TypeOK, NEW p \in Procs, repository[p] # None, NEW X \in SavedConfig,
           NEW r, \A c : \A n \in Names :
               c[n] = ConnAt(Base(p), n) => Atomic!Effect(r, c)[n] = ConnAt(X, n)
    PROVE  ConnsOf(Persisted(RefreshFallbacks(X))) = Atomic!Effect(r, ConnsOf(disk[repository[p]]))
<1> DEFINE file == disk[repository[p]]
           rec == ReconcileSession(file, state[p])
           c == ConnsOf(file)
<1>1. file \in SavedConfig /\ state[p] \in SavedConfig
  BY DEF TypeOK
<1>2. rec \in SavedConfig
  BY <1>1, ReconcileType
<1> HIDE DEF file
<1>3. c = [n \in Names |-> ConnAt(file, n)]
  BY <1>1, ConnsAt
<1>4. ASSUME NEW n \in Names PROVE c[n] = ConnAt(Base(p), n)
  <2>1. ConnAt(EnsureDefinitions(rec), n) = ConnAt(rec, n)
    BY <1>1, <1>2, ConnsPreserved
  <2>2. ConnAt(rec, n) = ConnAt(file, n)
    BY <1>1, ConnsPreserved
  <2>3. Base(p) = EnsureDefinitions(rec)
    BY DEF Base, file
  <2>4. QED
    BY <1>3, <2>1, <2>2, <2>3
<1> HIDE DEF c
<1>5. ASSUME NEW n \in Names PROVE Atomic!Effect(r, c)[n] = ConnAt(X, n)
  BY <1>4
<1> DEFINE Y == RefreshFallbacks(X)
<1>6. Y \in SavedConfig /\ Persisted(Y) \in SavedConfig
  BY RefreshType, PersistedType
<1>7. ASSUME NEW n \in Names PROVE ConnAt(Y, n) = ConnAt(X, n)
  BY ConnsPreserved
<1> HIDE DEF Y
<1>8. ASSUME NEW n \in Names PROVE ConnAt(Persisted(Y), n) = Atomic!Effect(r, c)[n]
  <2>1. ConnAt(Persisted(Y), n) = ConnAt(Y, n)
    BY <1>1, <1>6, ConnsPreserved
  <2>2. QED
    BY <1>5, <1>7, <2>1
<1>9. ConnsOf(Persisted(Y)) = [n \in Names |-> Atomic!Effect(r, c)[n]]
  <2>1. ConnsOf(Persisted(Y)) = [n \in Names |-> ConnAt(Persisted(Y), n)]
    BY <1>6, ConnsAt
  <2>2. QED
    BY <1>8, <2>1
<1>10. Atomic!Effect(r, c) = [n \in Names |-> Atomic!Effect(r, c)[n]]
  BY DEF Atomic!Effect
<1>11. QED
  BY <1>9, <1>10 DEF c, file, Y

\* A step of one worker, or none, that writes no file keeps the others' staged work.
LEMMA QuietStaged ==
    ASSUME TypeOK, StagedInv, UNCHANGED disk,
           \A u \in Tasks : pc'[u] \in {"staged", "writing"} =>
               /\ pc[u] \in {"staged", "writing"}
               /\ op'[u] = op[u] /\ work'[u] = work[u]
               /\ repository'[Owner[u]] = repository[Owner[u]]
    PROVE  StagedInv'
<1> SUFFICES ASSUME NEW u \in Tasks, pc'[u] \in {"staged", "writing"}
             PROVE  ConnsOf(Persisted(work'[u])) =
                        Atomic!Effect(op'[u], ConnsOf(disk'[repository'[Owner[u]]]))
  BY DEF StagedInv
<1>1. /\ pc[u] \in {"staged", "writing"} /\ op'[u] = op[u] /\ work'[u] = work[u]
      /\ repository'[Owner[u]] = repository[Owner[u]] /\ disk' = disk
  OBVIOUS
<1>2. ConnsOf(Persisted(work[u])) = Atomic!Effect(op[u], ConnsOf(disk[repository[Owner[u]]]))
  BY <1>1 DEF StagedInv
<1>3. QED
  BY <1>1, <1>2

\* Every step keeps staged work the effect of its request on the current file.
LEMMA NextStaged ==
    ASSUME TypeOK, WorkerInv, StagedInv, [Next]_vars
    PROVE  StagedInv'
<1> USE DEF coordinator, readers, counters
<1>1. CASE UNCHANGED vars
  <2>1. UNCHANGED <<pc, op, work, disk, repository>>
    BY <1>1 DEF vars
  <2>2. QED
    BY <2>1, QuietStaged
<1>2. ASSUME NEW t \in Tasks, NEW r \in Requests, Call(t, r) PROVE StagedInv'
  <2>1. /\ pc'[t] = "queued" /\ UNCHANGED <<work, disk, repository>>
        /\ \A u \in Tasks \ {t} : pc'[u] = pc[u] /\ op'[u] = op[u]
    BY <1>2 DEF Call, Goto, TypeOK
  <2>2. QED
    BY <2>1, QuietStaged
<1>3. ASSUME NEW t \in Tasks, Cancel(t) \/ Fetch(t) PROVE StagedInv'
  <2>1. UNCHANGED <<pc, op, work, disk, repository>>
    BY <1>3 DEF Cancel, Fetch
  <2>2. QED
    BY <2>1, QuietStaged
<1>4. ASSUME NEW t \in Tasks, NEW k, Return(t, k),
             UNCHANGED <<disk, repository>>
      PROVE  StagedInv'
  <2>1. /\ pc'[t] = "idle"
        /\ \A u \in Tasks \ {t} : pc'[u] = pc[u] /\ op'[u] = op[u] /\ work'[u] = work[u]
    BY <1>4 DEF Return, Goto, TypeOK
  <2>2. QED
    BY <1>4, <2>1, QuietStaged
<1>5. ASSUME NEW t \in Tasks, Fail(t) \/ Publish(t) \/ BindSource(t) \/ PrepareSync(t)
      PROVE  StagedInv'
  BY <1>4, <1>5 DEF Fail, Publish, BindSource, PrepareSync
<1>6. ASSUME NEW t \in Tasks, Begin(t) PROVE StagedInv'
  <2>1. CASE cancelled[t]
    BY <1>4, <1>6, <2>1 DEF Begin
  <2>2. CASE ~cancelled[t]
    <3>1. /\ pc'[t] = "begun" /\ UNCHANGED <<op, work, disk, repository>>
          /\ \A u \in Tasks \ {t} : pc'[u] = pc[u]
      BY <1>6, <2>2 DEF Begin, Goto, TypeOK
    <3>2. QED
      BY <3>1, QuietStaged
  <2>3. QED
    BY <2>1, <2>2
<1>7. ASSUME NEW t \in Tasks, LoadRead(t) PROVE StagedInv'
  <2>1. /\ pc'[t] = "loaded" /\ UNCHANGED <<disk, repository>>
        /\ \A u \in Tasks \ {t} : pc'[u] = pc[u] /\ op'[u] = op[u] /\ work'[u] = work[u]
    BY <1>7 DEF LoadRead, Goto, TypeOK
  <2>2. QED
    BY <2>1, QuietStaged
<1>8. ASSUME NEW t \in Tasks, LoadPublish(t) PROVE StagedInv'
  <2>1. /\ pc'[t] = "idle" /\ UNCHANGED disk
        /\ \A u \in Tasks \ {t} : pc'[u] = pc[u] /\ op'[u] = op[u] /\ work'[u] = work[u]
    BY <1>8 DEF LoadPublish, Return, Goto, TypeOK
  <2>2. ASSUME NEW u \in Tasks \ {t}, pc[u] \in {"staged", "writing"}
        PROVE  repository'[Owner[u]] = repository[Owner[u]]
    <3>1. Owner[u] # Owner[t]
      BY <1>8, <2>2, MutualExclusion DEF LoadPublish, Critical
    <3>2. QED
      BY <1>8, <3>1 DEF LoadPublish, TypeOK
  <2>3. QED
    BY <2>1, <2>2, QuietStaged
<1>9. ASSUME NEW t \in Tasks, LockFile(t) PROVE StagedInv'
  <2>1. CASE Return(t, TicketLeft(t))
    BY <1>4, <1>9, <2>1 DEF LockFile
  <2>2. CASE ~Return(t, TicketLeft(t))
    <3>1. /\ pc'[t] = "reading" /\ UNCHANGED <<op, work, disk, repository>>
          /\ \A u \in Tasks \ {t} : pc'[u] = pc[u]
      BY <1>9, <2>2 DEF LockFile, Goto, TypeOK
    <3>2. QED
      BY <3>1, QuietStaged
  <2>3. QED
    BY <2>1, <2>2
<1>10. ASSUME NEW t \in Tasks, Stage(t) PROVE StagedInv'
  <2> DEFINE p == Owner[t]
             base == Base(p)
             d == repository[p]
  <2>1. CASE Return(t, TicketLeft(t))
    BY <1>4, <1>10, <2>1 DEF Stage
  <2>2. CASE ~Return(t, TicketLeft(t))
    <3>1. /\ base \in SavedConfig /\ op[t] \in Requests /\ d # None
          /\ op[t].kind \in UpdateKinds \cup {"apply"}
      BY <1>10, BaseType DEF Stage, WorkerInv, Transacting, TypeOK
    <3> DEFINE X == IF op[t].kind = "apply" THEN Observe(ticket[t], base)
                                            ELSE Change(op[t], base)
    <3>2. /\ work' = [work EXCEPT ![t] = RefreshFallbacks(X)]
          /\ pc' = [pc EXCEPT ![t] = "staged"]
          /\ UNCHANGED <<op, disk, repository>>
          /\ op[t].kind = "apply" => ~AccountChanged(ticket[t], base)
          /\ op[t].kind # "apply" => ~Rejects(op[t], base)
      BY <1>10, <2>2 DEF Stage, Goto
    <3>3. op[t].kind = "apply" => ticket[t] \in Ticket /\ ticket[t].listing # None
      BY <1>10 DEF Stage, WorkerInv, TypeOK
    <3>4. X \in SavedConfig
      BY <3>1, <3>2, <3>3, ObserveType, ChangeType
    <3>5. ASSUME NEW c, NEW n \in Names, c[n] = ConnAt(base, n)
          PROVE  Atomic!Effect(op[t], c)[n] = ConnAt(X, n)
      <4>1. CASE op[t].kind = "apply"
        BY <3>1, <3>2, <3>3, <3>5, <4>1, ObserveConns
      <4>2. CASE op[t].kind # "apply"
        BY <3>1, <3>2, <3>5, <4>2, ChangeConns
      <4>3. QED
        BY <4>1, <4>2
    <3> HIDE DEF X
    <3>6. ConnsOf(Persisted(RefreshFallbacks(X))) = Atomic!Effect(op[t], ConnsOf(disk[d]))
      BY <3>1, <3>4, <3>5, StageEffect
    <3>7. work'[t] = RefreshFallbacks(X) /\ op'[t] = op[t] /\ disk'[repository'[p]] = disk[d]
      BY <3>2 DEF TypeOK
    <3>8. ASSUME NEW u \in Tasks, u # t, pc'[u] \in {"staged", "writing"}
          PROVE  ConnsOf(Persisted(work'[u])) =
                   Atomic!Effect(op'[u], ConnsOf(disk'[repository'[Owner[u]]]))
      <4>1. pc'[u] = pc[u] /\ work'[u] = work[u]
        BY <3>2, <3>8 DEF TypeOK
      <4>2. ConnsOf(Persisted(work[u])) =
              Atomic!Effect(op[u], ConnsOf(disk[repository[Owner[u]]]))
        BY <3>8, <4>1 DEF StagedInv
      <4>3. QED
        BY <3>2, <4>1, <4>2
    <3>9. ConnsOf(Persisted(work'[t])) = Atomic!Effect(op'[t], ConnsOf(disk'[repository'[Owner[t]]]))
      BY <3>6, <3>7
    <3>10. QED
      BY <3>8, <3>9 DEF StagedInv
  <2>3. QED
    BY <2>1, <2>2
<1>11. ASSUME NEW t \in Tasks, CheckCancel(t) PROVE StagedInv'
  <2>1. CASE cancelled[t]
    BY <1>4, <1>11, <2>1 DEF CheckCancel
  <2>2. CASE ~cancelled[t]
    <3>1. /\ pc[t] = "staged" /\ UNCHANGED <<op, work, disk, repository>>
          /\ \A u \in Tasks \ {t} : pc'[u] = pc[u]
      BY <1>11, <2>2 DEF CheckCancel, Goto, TypeOK
    <3>2. QED
      BY <3>1, QuietStaged
  <2>3. QED
    BY <2>1, <2>2
<1>12. ASSUME NEW t \in Tasks, Write(t) PROVE StagedInv'
  <2> DEFINE d == repository[Owner[t]]
  <2>1. d \in Dirs /\ fileLock[d] = t
    BY <1>12 DEF Write, WorkerInv, Transacting, TypeOK
  <2>2. /\ disk' = [disk EXCEPT ![d] = Persisted(work[t])]
        /\ pc' = [pc EXCEPT ![t] = "publish"]
        /\ UNCHANGED <<op, work, repository>>
    BY <1>12 DEF Write, Goto
  <2> SUFFICES ASSUME NEW u \in Tasks, pc'[u] \in {"staged", "writing"}
               PROVE  ConnsOf(Persisted(work'[u])) =
                        Atomic!Effect(op'[u], ConnsOf(disk'[repository'[Owner[u]]]))
    BY DEF StagedInv
  <2>3. u # t /\ pc[u] \in {"staged", "writing"}
    BY <2>2 DEF TypeOK
  <2>4. fileLock[repository[Owner[u]]] = u /\ repository[Owner[u]] \in Dirs
    BY <2>3 DEF WorkerInv, Transacting, TypeOK
  <2>5. disk'[repository[Owner[u]]] = disk[repository[Owner[u]]]
    BY <2>1, <2>2, <2>3, <2>4 DEF TypeOK
  <2>6. ConnsOf(Persisted(work[u])) =
          Atomic!Effect(op[u], ConnsOf(disk[repository[Owner[u]]]))
    BY <2>3 DEF StagedInv
  <2>7. QED
    BY <2>2, <2>5, <2>6
<1>13. ASSUME NEW p \in Procs, TakeSnapshot(p) PROVE StagedInv'
  <2>1. UNCHANGED <<pc, op, work, disk, repository>>
    BY <1>13 DEF TakeSnapshot
  <2>2. QED
    BY <2>1, QuietStaged
<1>14. ASSUME NEW p \in Procs, Crash(p) PROVE StagedInv'
  <2> DEFINE S == {u \in Tasks : Owner[u] = p}
  <2>1. /\ UNCHANGED disk
        /\ \A u \in S : pc'[u] = "idle"
        /\ \A u \in Tasks \ S : pc'[u] = pc[u] /\ op'[u] = op[u] /\ work'[u] = work[u]
                                /\ repository'[Owner[u]] = repository[Owner[u]]
    BY <1>14 DEF Crash, TypeOK
  <2>2. QED
    BY <2>1, QuietStaged
<1>15. QED
  BY <1>1, <1>2, <1>3, <1>5, <1>6, <1>7, <1>8, <1>9, <1>10, <1>11, <1>12, <1>13, <1>14
     DEF Next, Worker

-----------------------------------------------------------------------------
(* The implementation of AtomicConfig.                                     *)

\* An untouched directory shows the catalog's connections.
LEMMA EmptyConns ==
    ConnsOf(EmptyConfig) =
        [n \in Names |-> IF Catalog[n] = None THEN None ELSE Catalog[n].conn]
<1>1. EmptyConfig \in SavedConfig
  BY DEF EmptyConfig, SavedConfig
<1>2. ConnsOf(EmptyConfig) = [n \in Names |-> ConnAt(EmptyConfig, n)]
  BY <1>1, ConnsAt
<1>3. ASSUME NEW n \in Names
      PROVE  ConnAt(EmptyConfig, n) = IF Catalog[n] = None THEN None ELSE Catalog[n].conn
  BY DEF ConnAt, EmptyConfig
<1>4. QED
  BY <1>2, <1>3

\* A step that writes no file and at most ends the call of t is a GiveUp or a stutter.
LEMMA EndIsGiveUp ==
    ASSUME NEW t \in Tasks, UNCHANGED disk,
           Pending'[t] = None,
           \A u \in Tasks \ {t} : Pending'[u] = Pending[u]
    PROVE  Atomic!Next
<1>1. Pending' = [u \in Tasks |-> IF u \in {t} THEN None ELSE Pending[u]]
  BY DEF Pending
<1>2. UNCHANGED [d \in Dirs |-> ConnsOf(disk[d])]
  OBVIOUS
<1>3. Atomic!GiveUp({t})
  BY <1>1, <1>2 DEF Atomic!GiveUp
<1>4. QED
  BY <1>3 DEF Atomic!Next

LEMMA QuietIsStutter ==
    ASSUME UNCHANGED disk, \A u \in Tasks : Pending'[u] = Pending[u]
    PROVE  UNCHANGED Atomic!vars
<1>1. Pending' = Pending
  BY DEF Pending
<1>2. UNCHANGED [d \in Dirs |-> ConnsOf(disk[d])]
  OBVIOUS
<1>3. QED
  BY <1>1, <1>2 DEF Atomic!vars

\* Every step of the store is a step of AtomicConfig or changes nothing it sees.
LEMMA NextAtomic ==
    ASSUME StoreInv, [Next]_vars
    PROVE  [Atomic!Next]_(Atomic!vars)
<1> USE DEF coordinator, readers, counters
<1>0. TypeOK /\ WorkerInv /\ StagedInv
  BY DEF StoreInv
<1>1. ASSUME UNCHANGED <<pc, op, disk>> PROVE UNCHANGED Atomic!vars
  BY <1>1, QuietIsStutter DEF Pending
<1>2. ASSUME NEW t \in Tasks, UNCHANGED <<op, disk>>, NEW l, pc' = [pc EXCEPT ![t] = l],
             l \notin {"idle", "publish"}, pc[t] \notin {"idle", "publish"}
      PROVE  UNCHANGED Atomic!vars
  BY <1>0, <1>2, QuietIsStutter DEF Pending, TypeOK
<1>3. ASSUME NEW t \in Tasks, NEW k, Return(t, k), UNCHANGED disk PROVE Atomic!Next
  <2>1. /\ Pending'[t] = None
        /\ \A u \in Tasks \ {t} : Pending'[u] = Pending[u]
    BY <1>0, <1>3 DEF Return, Goto, Pending, TypeOK
  <2>2. QED
    BY <1>3, <2>1, EndIsGiveUp
<1>4. ASSUME NEW t \in Tasks, NEW r \in Requests, Call(t, r) PROVE Atomic!Next
  <2>1. Pending[t] = None /\ Pending' = [Pending EXCEPT ![t] = r]
    BY <1>0, <1>4 DEF Call, Goto, Pending, TypeOK
  <2>2. UNCHANGED [d \in Dirs |-> ConnsOf(disk[d])]
    BY <1>4 DEF Call
  <2>3. Atomic!Submit(t, r)
    BY <2>1, <2>2 DEF Atomic!Submit
  <2>4. QED
    BY <2>3 DEF Atomic!Next
<1>5. ASSUME NEW t \in Tasks, Write(t) PROVE Atomic!Next
  <2> DEFINE d == repository[Owner[t]]
             files == [e \in Dirs |-> ConnsOf(disk[e])]
             written == Persisted(work[t])
  <2>1. d \in Dirs /\ op[t] # None
    BY <1>0, <1>5 DEF Write, WorkerInv, Transacting, TypeOK
  <2>2. Pending[t] = op[t] /\ Pending' = [Pending EXCEPT ![t] = None]
    BY <1>0, <1>5 DEF Write, Goto, Pending, TypeOK
  <2>3. disk' = [disk EXCEPT ![d] = written]
    BY <1>5 DEF Write
  <2>4. ConnsOf(written) = Atomic!Effect(op[t], ConnsOf(disk[d]))
    BY <1>0, <1>5 DEF StagedInv, Write
  <2> HIDE DEF written, d
  <2>5. files' = [files EXCEPT ![d] = ConnsOf(written)]
    BY <1>0, <2>1, <2>3 DEF TypeOK
  <2>6. files' = [files EXCEPT ![d] = Atomic!Effect(Pending[t], files[d])]
    BY <2>1, <2>2, <2>4, <2>5
  <2>7. Atomic!TakeEffect(t, d)
    BY <2>1, <2>2, <2>6 DEF Atomic!TakeEffect
  <2>8. QED
    BY <2>1, <2>7 DEF Atomic!Next
<1>6. ASSUME NEW p \in Procs, Crash(p) PROVE Atomic!Next
  <2> DEFINE S == {u \in Tasks : Owner[u] = p}
  <2>1. Pending' = [u \in Tasks |-> IF u \in S THEN None ELSE Pending[u]]
    BY <1>0, <1>6 DEF Crash, Pending, TypeOK
  <2>2. UNCHANGED [d \in Dirs |-> ConnsOf(disk[d])]
    BY <1>6 DEF Crash
  <2>3. S \in SUBSET Tasks
    OBVIOUS
  <2> HIDE DEF S
  <2>4. Atomic!GiveUp(S)
    BY <2>1, <2>2 DEF Atomic!GiveUp
  <2>5. QED
    BY <2>3, <2>4 DEF Atomic!Next
<1>7. ASSUME NEW t \in Tasks, Cancel(t) \/ Fetch(t) PROVE UNCHANGED Atomic!vars
  BY <1>1, <1>7 DEF Cancel, Fetch
<1>8. ASSUME NEW t \in Tasks,
             \/ Fail(t) \/ LoadPublish(t) \/ Publish(t) \/ BindSource(t) \/ PrepareSync(t)
      PROVE  Atomic!Next
  BY <1>3, <1>8 DEF Fail, LoadPublish, Publish, BindSource, PrepareSync
<1>9. ASSUME NEW t \in Tasks, Begin(t) PROVE Atomic!Next \/ UNCHANGED Atomic!vars
  BY <1>2, <1>3, <1>9 DEF Begin, Goto
<1>10. ASSUME NEW t \in Tasks, LoadRead(t) PROVE UNCHANGED Atomic!vars
  <2>1. pc[t] = "begun" /\ pc' = [pc EXCEPT ![t] = "loaded"] /\ UNCHANGED <<op, disk>>
    BY <1>10 DEF LoadRead, Goto
  <2>2. QED
    BY <1>0, <2>1, QuietIsStutter DEF Pending, TypeOK
<1>11. ASSUME NEW t \in Tasks, LockFile(t) PROVE Atomic!Next \/ UNCHANGED Atomic!vars
  BY <1>2, <1>3, <1>11 DEF LockFile, Goto
<1>12. ASSUME NEW t \in Tasks, Stage(t) PROVE Atomic!Next \/ UNCHANGED Atomic!vars
  BY <1>2, <1>3, <1>12 DEF Stage, Goto
<1>13. ASSUME NEW t \in Tasks, CheckCancel(t) PROVE Atomic!Next \/ UNCHANGED Atomic!vars
  BY <1>2, <1>3, <1>13 DEF CheckCancel, Goto
<1>14. ASSUME NEW p \in Procs, TakeSnapshot(p) PROVE UNCHANGED Atomic!vars
  BY <1>1, <1>14 DEF TakeSnapshot
<1>15. CASE UNCHANGED vars
  BY <1>1, <1>15 DEF vars
<1>16. QED
  BY <1>4, <1>5, <1>6, <1>7, <1>8, <1>9, <1>10, <1>11, <1>12, <1>13, <1>14, <1>15
     DEF Next, Worker

-----------------------------------------------------------------------------
(* The theorems.                                                           *)

\* The inductive invariant holds in every reachable state.
THEOREM StoreInvariant == Spec => []StoreInv
<1>1. Init => StoreInv
  <2> SUFFICES ASSUME Init PROVE StoreInv
    OBVIOUS
  <2>1. TypeOK
    BY InitType
  <2>2. WorkerInv /\ PublicationInv /\ StagedInv
    BY DEF Init, WorkerInv, PublicationInv, StagedInv, Critical, Transacting
  <2>3. QED
    BY <2>1, <2>2 DEF StoreInv
<1>2. StoreInv /\ [Next]_vars => StoreInv'
  BY NextType, NextWorker, NextPublication, NextStaged DEF StoreInv
<1>3. QED
  BY <1>1, <1>2, PTL DEF Spec

\* No operation, crash or cancellation leaves a malformed configuration,
\* published view, lock or ticket (TypeOK).
THEOREM StoreTypeOK == Spec => []TypeOK
BY StoreInvariant, PTL DEF StoreInv

\* Whenever the writer mutex is free, what is published is what was committed,
\* even if callers were dropped in the middle (CommittedIsPublished).
THEOREM StorePublishes == Spec => []CommittedIsPublished
<1>1. StoreInv => CommittedIsPublished
  <2> SUFFICES ASSUME StoreInv, NEW p \in Procs, mutex[p] = None, repository[p] # None
               PROVE  published[p].profiles = Profiles(state[p]) /\ published[p].dir = repository[p]
    BY DEF CommittedIsPublished
  <2>1. ASSUME NEW t \in Tasks, Owner[t] = p PROVE pc[t] # "publish"
    BY <2>1 DEF StoreInv, WorkerInv, Critical
  <2>2. QED
    BY <2>1 DEF StoreInv, PublicationInv
<1>2. QED
  BY <1>1, StoreInvariant, PTL

\* The store implements AtomicConfig: every transaction of every process takes
\* effect at one instant, on what the file holds then, or not at all (AtomicUpdates).
THEOREM StoreAtomic == Spec => AtomicUpdates
<1>1. Init => Atomic!Init
  <2> SUFFICES ASSUME Init PROVE Atomic!Init
    OBVIOUS
  <2>1. [d \in Dirs |-> ConnsOf(disk[d])] = [d \in Dirs |-> ConnsOf(EmptyConfig)]
    BY DEF Init
  <2>2. Pending = [t \in Tasks |-> None]
    BY DEF Init, Pending
  <2>3. QED
    BY <2>1, <2>2, EmptyConns DEF Atomic!Init
<1>2. StoreInv /\ [Next]_vars => [Atomic!Next]_(Atomic!vars)
  BY NextAtomic
<1>3. QED
  BY <1>1, <1>2, StoreInvariant, PTL DEF Spec, AtomicUpdates, Atomic!Spec

-----------------------------------------------------------------------------
(* Invariants of the views.                                                *)

\* The view a process publishes is of the directory its coordinator has.
DirInv == \A p \in Procs : published[p].dir = repository[p]

\* The generations of a view: one for every profile, none from the future.
Dated(v) ==
    \A n \in Names : v.profiles[n] # None =>
        v.generations[n] # NoGeneration /\ v.generations[n] <= v.revision

\* old is a view from which new came by publications.
Earlier(old, new) ==
    /\ old.revision <= new.revision
    /\ old.namespace <= new.namespace
    /\ old.namespace = new.namespace =>
          /\ old.dir # None => old.dir = new.dir
          /\ \A n \in Names :
                old.profiles[n] # None /\ new.profiles[n] # None
                  /\ old.generations[n] = new.generations[n] =>
                      old.profiles[n] = new.profiles[n]

\* A request's snapshot is an earlier view.
KeysInv ==
    \A p \in Procs :
        /\ Dated(published[p])
        /\ held[p] # None => Dated(held[p]) /\ Earlier(held[p], published[p])

\* What bindings of a view stand for.
Bound(v) ==
    \A n \in Names : v.bindings[n] # None =>
        /\ v.profiles[n] # None
        /\ v.bindings[n].conn = v.profiles[n].conn
        /\ v.bindings[n].namespace = v.namespace

BoundInv == \A p \in Procs : Bound(published[p])

ViewsInv == DirInv /\ KeysInv /\ BoundInv

\* A staged configuration is the request applied to the file and the memory of
\* its process as they still are.
StagedExactly ==
    \A t \in Tasks : pc[t] \in {"staged", "writing"} =>
        LET base == Base(Owner[t])
        IN  IF op[t].kind = "apply"
              THEN ~AccountChanged(ticket[t], base) /\ work[t] = RefreshFallbacks(Observe(ticket[t], base))
              ELSE ~Rejects(op[t], base) /\ work[t] = RefreshFallbacks(Change(op[t], base))

-----------------------------------------------------------------------------
(* What a step may do to the view of a process.                            *)

Binds(old, n) ==
    [old EXCEPT !.revision = old.revision + 1,
                !.bindings = [old.bindings EXCEPT ![n] =
                    [namespace |-> old.namespace, conn |-> old.profiles[n].conn]]]

SameView(p) ==
    /\ published'[p] = published[p]
    /\ held'[p] \in {held[p], published[p]}
    /\ repository'[p] = repository[p]

NewView(p) ==
    /\ held'[p] = held[p]
    /\ \E new \in [Names -> Profile \cup {None}], switched \in BOOLEAN, forced \in SUBSET Names :
          /\ published'[p] = Publication(published[p], new, repository'[p], switched, forced)
          /\ ~switched => repository[p] \in {None, repository'[p]}

NewBinding(p) ==
    /\ held'[p] = held[p]
    /\ repository'[p] = repository[p]
    /\ \E n \in Names : /\ published[p].profiles[n] # None
                        /\ published'[p] = Binds(published[p], n)

Restarts(p) ==
    /\ published'[p] = InitialPublished
    /\ held'[p] = None
    /\ repository'[p] = None

ViewStep(p) == SameView(p) \/ NewView(p) \/ NewBinding(p) \/ Restarts(p)

\* Every step changes a view by a publication, a binding or a restart.
LEMMA NextView ==
    ASSUME TypeOK, WorkerInv, [Next]_vars, NEW p \in Procs
    PROVE  ViewStep(p)
<1> USE DEF coordinator, readers, counters, ViewStep
<1>0. ASSUME UNCHANGED <<published, held, repository>> PROVE ViewStep(p)
  BY <1>0 DEF SameView
<1>1. CASE UNCHANGED vars
  BY <1>0, <1>1 DEF vars
<1>2. ASSUME NEW t \in Tasks, NEW r \in Requests, Call(t, r) PROVE ViewStep(p)
  BY <1>0, <1>2 DEF Call
<1>3. ASSUME NEW t \in Tasks,
             \/ Cancel(t) \/ Fetch(t) \/ Fail(t) \/ Begin(t) \/ LoadRead(t) \/ LockFile(t)
             \/ CheckCancel(t) \/ Write(t) \/ PrepareSync(t)
      PROVE  ViewStep(p)
  BY <1>0, <1>3 DEF Cancel, Fetch, Fail, Begin, LoadRead, LockFile, CheckCancel, Write, PrepareSync
<1>4. ASSUME NEW t \in Tasks, Stage(t) PROVE ViewStep(p)
  BY <1>0, <1>4 DEF Stage
<1>5. ASSUME NEW t \in Tasks, LoadPublish(t) PROVE ViewStep(p)
  <2> DEFINE q == Owner[t]
             switched == repository[q] # None /\ repository[q] # op[t].dir
             new == Profiles(work[t])
  <2>1. CASE cancelled[t]
    BY <1>0, <1>5, <2>1 DEF LoadPublish
  <2>2. CASE ~cancelled[t] /\ p # q
    BY <1>5, <2>2 DEF LoadPublish, SameView, TypeOK
  <2>3. CASE ~cancelled[t] /\ p = q
    <3>1. new \in [Names -> Profile \cup {None}]
      BY ProfilesType DEF TypeOK
    <3>2. /\ held' = held
          /\ repository'[q] = op[t].dir
          /\ published'[q] = Publication(published[q], new, op[t].dir, switched, {})
      BY <1>5, <2>3 DEF LoadPublish, TypeOK
    <3>3. switched \in BOOLEAN /\ (~switched => repository[q] \in {None, op[t].dir})
      OBVIOUS
    <3> HIDE DEF switched, new
    <3>4. NewView(p)
      BY <2>3, <3>1, <3>2, <3>3 DEF NewView
    <3>5. QED
      BY <3>4
  <2>4. QED
    BY <2>1, <2>2, <2>3
<1>6. ASSUME NEW t \in Tasks, Publish(t) PROVE ViewStep(p)
  <2> DEFINE q == Owner[t]
             new == Profiles(work[t])
             forced == Forced(op[t])
  <2>1. CASE p # q
    BY <1>6, <2>1 DEF Publish, SameView, TypeOK
  <2>2. CASE p = q
    <3>1. new \in [Names -> Profile \cup {None}]
      BY ProfilesType DEF TypeOK
    <3>2. /\ held' = held /\ repository' = repository
          /\ published'[q] = Publication(published[q], new, repository[q], FALSE, forced)
      BY <1>6, <2>2 DEF Publish, TypeOK
    <3>3. forced \in SUBSET Names
      BY <1>6 DEF Publish, WorkerInv, TypeOK, Forced, Request
    <3> HIDE DEF forced, new
    <3>4. NewView(p)
      BY <2>2, <3>1, <3>2, <3>3 DEF NewView
    <3>5. QED
      BY <3>4
  <2>3. QED
    BY <2>1, <2>2
<1>7. ASSUME NEW t \in Tasks, BindSource(t) PROVE ViewStep(p)
  <2> DEFINE q == Owner[t]
             n == op[t].name
  <2>1. CASE published' = published
    BY <1>0, <1>7, <2>1 DEF BindSource
  <2>2. CASE published' # published
    <3>1. /\ published[q].profiles[n] # None
          /\ published' = [published EXCEPT ![q] = Binds(published[q], n)]
          /\ held' = held /\ repository' = repository
      BY <1>7, <2>2 DEF BindSource, Binds
    <3>2. n \in Names
      BY <1>7 DEF BindSource, WorkerInv, TypeOK, Request
    <3>3. CASE p = q
      BY <3>1, <3>2, <3>3 DEF NewBinding, TypeOK
    <3>4. CASE p # q
      BY <3>1, <3>4 DEF SameView, TypeOK
    <3>5. QED
      BY <3>3, <3>4
  <2>3. QED
    BY <2>1, <2>2
<1>8. ASSUME NEW q \in Procs, TakeSnapshot(q) PROVE ViewStep(p)
  BY <1>8 DEF TakeSnapshot, SameView, TypeOK
<1>9. ASSUME NEW q \in Procs, Crash(q) PROVE ViewStep(p)
  <2>1. CASE p = q
    BY <1>9, <2>1 DEF Crash, Restarts, TypeOK
  <2>2. CASE p # q
    BY <1>9, <2>2 DEF Crash, SameView, TypeOK
  <2>3. QED
    BY <2>1, <2>2
<1>10. QED
  BY <1>1, <1>2, <1>3, <1>4, <1>5, <1>6, <1>7, <1>8, <1>9 DEF Next, Worker

-----------------------------------------------------------------------------
(* Publications, bindings and restarts keep the invariants of a view.      *)

\* A publication keeps keys and bindings sound, and every earlier view earlier.
LEMMA PublicationKeeps ==
    ASSUME NEW old \in PublishedState, NEW new \in [Names -> Profile \cup {None}],
           NEW dir \in Dirs \cup {None}, NEW switched \in BOOLEAN, NEW forced \in SUBSET Names,
           NEW view, view = Publication(old, new, dir, switched, forced),
           ~switched => old.dir \in {None, dir},
           Dated(old), Bound(old)
    PROVE  /\ Dated(view)
           /\ Bound(view)
           /\ \A past \in PublishedState : Dated(past) /\ Earlier(past, old) => Earlier(past, view)
<1>1. /\ old.revision \in Nat
      /\ old.namespace \in Nat
      /\ old.generations \in [Names -> Nat]
  BY DEF PublishedState
<1>2. /\ view.revision = old.revision + 1
      /\ view.dir = dir
      /\ view.profiles = new
      /\ view.namespace = IF switched THEN old.namespace + 1 ELSE old.namespace
      /\ \A n \in Names : view.generations[n] =
            IF new[n] = None THEN NoGeneration
            ELSE IF old.profiles[n] # new[n] THEN old.revision + 1
            ELSE old.generations[n]
      /\ \A n \in Names : view.bindings[n] # None =>
            /\ ~switched
            /\ view.bindings[n] = old.bindings[n]
            /\ old.profiles[n] # None => new[n] # None /\ old.profiles[n].conn = new[n].conn
  <2>1. /\ view.revision = old.revision + 1
        /\ view.dir = dir
        /\ view.profiles = new
        /\ view.namespace = IF switched THEN old.namespace + 1 ELSE old.namespace
        /\ view.generations = CacheGenerations(old, new, old.revision + 1)
        /\ view.bindings = [n \in Names |->
               IF switched \/ n \in ChangedConnections(old.profiles, new) \cup forced
               THEN None ELSE old.bindings[n]]
    BY DEF Publication
  <2>2. ASSUME NEW n \in Names
        PROVE  view.generations[n] =
                   IF new[n] = None THEN NoGeneration
                   ELSE IF old.profiles[n] # new[n] THEN old.revision + 1
                   ELSE old.generations[n]
    BY <2>1 DEF CacheGenerations, ChangedProfiles
  <2>3. ASSUME NEW n \in Names, view.bindings[n] # None
        PROVE  /\ ~switched
               /\ view.bindings[n] = old.bindings[n]
               /\ old.profiles[n] # None => new[n] # None /\ old.profiles[n].conn = new[n].conn
    <3>1. /\ ~(switched \/ n \in ChangedConnections(old.profiles, new) \cup forced)
          /\ view.bindings[n] = old.bindings[n]
      BY <2>1, <2>3
    <3>2. QED
      BY <3>1 DEF ChangedConnections
  <2>4. QED
    BY <2>1, <2>2, <2>3
<1>3. Dated(view)
  BY <1>1, <1>2 DEF Dated, NoGeneration
<1>4. Bound(view)
  <2>1. ASSUME NEW n \in Names, view.bindings[n] # None
        PROVE  /\ view.profiles[n] # None
               /\ view.bindings[n].conn = view.profiles[n].conn
               /\ view.bindings[n].namespace = view.namespace
    <3>1. /\ ~switched
          /\ view.bindings[n] = old.bindings[n]
          /\ view.namespace = old.namespace
      BY <1>2, <2>1
    <3>2. /\ old.profiles[n] # None
          /\ old.bindings[n].conn = old.profiles[n].conn
          /\ old.bindings[n].namespace = old.namespace
      BY <2>1, <3>1 DEF Bound
    <3>3. QED
      BY <1>2, <2>1, <3>1, <3>2
  <2>2. QED
    BY <2>1 DEF Bound
<1>5. ASSUME NEW past \in PublishedState, Dated(past), Earlier(past, old)
      PROVE  Earlier(past, view)
  <2>1. /\ past.revision \in Nat
        /\ past.namespace \in Nat
        /\ past.generations \in [Names -> Nat]
        /\ past.revision <= old.revision
        /\ past.namespace <= old.namespace
    BY <1>5 DEF PublishedState, Earlier
  <2>2. past.revision <= view.revision /\ past.namespace <= view.namespace
    BY <1>1, <1>2, <2>1
  <2>3. ASSUME past.namespace = view.namespace
        PROVE  ~switched /\ past.namespace = old.namespace
    BY <1>1, <1>2, <2>1, <2>3
  <2>4. ASSUME past.namespace = view.namespace, past.dir # None
        PROVE  past.dir = view.dir
    BY <1>2, <1>5, <2>3, <2>4 DEF Earlier
  <2>5. ASSUME past.namespace = view.namespace, NEW n \in Names,
               past.profiles[n] # None, view.profiles[n] # None,
               past.generations[n] = view.generations[n]
        PROVE  past.profiles[n] = view.profiles[n]
    <3>1. past.generations[n] <= past.revision
      BY <1>5, <2>5 DEF Dated
    <3>2. past.generations[n] # old.revision + 1
      BY <1>1, <2>1, <3>1
    <3>3. old.profiles[n] = new[n] /\ past.generations[n] = old.generations[n]
      BY <1>2, <2>5, <3>2
    <3>4. QED
      BY <1>2, <1>5, <2>3, <2>5, <3>3 DEF Earlier
  <2>6. QED
    BY <2>2, <2>4, <2>5 DEF Earlier
<1>6. QED
  BY <1>3, <1>4, <1>5

\* So does a new binding.
LEMMA BindingKeeps ==
    ASSUME NEW old \in PublishedState, NEW n \in Names, old.profiles[n] # None,
           Dated(old), Bound(old)
    PROVE  /\ Dated(Binds(old, n))
           /\ Bound(Binds(old, n))
           /\ Binds(old, n).dir = old.dir
           /\ \A past \in PublishedState : Earlier(past, old) => Earlier(past, Binds(old, n))
<1> DEFINE view == Binds(old, n)
<1>1. /\ view.revision = old.revision + 1
      /\ view.dir = old.dir
      /\ view.profiles = old.profiles
      /\ view.namespace = old.namespace
      /\ view.generations = old.generations
      /\ view.bindings = [old.bindings EXCEPT ![n] =
                            [namespace |-> old.namespace, conn |-> old.profiles[n].conn]]
  BY DEF Binds, PublishedState
<1> HIDE DEF view
<1>2. /\ old.revision \in Nat
      /\ old.generations \in [Names -> Nat]
      /\ old.bindings \in [Names -> Binding \cup {None}]
  BY DEF PublishedState
<1>3. Dated(view)
  BY <1>1, <1>2 DEF Dated
<1>4. Bound(view)
  BY <1>1, <1>2 DEF Bound
<1>5. ASSUME NEW past \in PublishedState, Earlier(past, old)
      PROVE  Earlier(past, view)
  <2>1. past.revision \in Nat
    BY DEF PublishedState
  <2>2. QED
    BY <1>1, <1>2, <1>5, <2>1 DEF Earlier
<1>6. QED
  BY <1>1, <1>3, <1>4, <1>5 DEF view

\* The view of a fresh client is sound.
LEMMA InitialView == Dated(InitialPublished) /\ Bound(InitialPublished) /\ InitialPublished.dir = None
<1> DEFINE profiles == Profiles(EmptyConfig)
<1>1. InitialPublished =
        [revision |-> 1, dir |-> None, profiles |-> profiles,
         bindings |-> [n \in Names |-> None], invalidated |-> FALSE, namespace |-> 1,
         generations |-> [n \in Names |-> IF profiles[n] = None THEN NoGeneration ELSE 1]]
  BY DEF InitialPublished
<1> HIDE DEF profiles
<1>2. QED
  BY <1>1 DEF Dated, Bound, NoGeneration

\* A view is an earlier version of itself.
LEMMA EarlierReflexive ==
    ASSUME NEW v \in PublishedState
    PROVE  Earlier(v, v)
BY DEF Earlier, PublishedState

\* Every step keeps directories, keys and bindings sound.
LEMMA NextViews ==
    ASSUME TypeOK, WorkerInv, ViewsInv, [Next]_vars
    PROVE  ViewsInv'
<1> SUFFICES ASSUME NEW p \in Procs
             PROVE  /\ published'[p].dir = repository'[p]
                    /\ Dated(published'[p])
                    /\ held'[p] # None => Dated(held'[p]) /\ Earlier(held'[p], published'[p])
                    /\ Bound(published'[p])
  BY DEF ViewsInv, DirInv, KeysInv, BoundInv, Dated, Earlier, Bound
<1>1. /\ published[p] \in PublishedState
      /\ held[p] \in PublishedState \cup {None}
      /\ repository'[p] \in Dirs \cup {None}
  BY NextType DEF TypeOK
<1>2. /\ published[p].dir = repository[p]
      /\ Dated(published[p])
      /\ held[p] # None => Dated(held[p]) /\ Earlier(held[p], published[p])
      /\ Bound(published[p])
  BY DEF ViewsInv, DirInv, KeysInv, BoundInv
<1>3. CASE SameView(p)
  BY <1>1, <1>2, <1>3, EarlierReflexive DEF SameView
<1>4. CASE NewView(p)
  <2>1. PICK new \in [Names -> Profile \cup {None}], switched \in BOOLEAN, forced \in SUBSET Names :
          /\ published'[p] = Publication(published[p], new, repository'[p], switched, forced)
          /\ ~switched => repository[p] \in {None, repository'[p]}
    BY <1>4 DEF NewView
  <2>2. /\ Dated(published'[p])
        /\ Bound(published'[p])
        /\ \A past \in PublishedState :
              Dated(past) /\ Earlier(past, published[p]) => Earlier(past, published'[p])
    <3> DEFINE old == published[p]
               view == published'[p]
               dir == repository'[p]
    <3>1. /\ old \in PublishedState /\ dir \in Dirs \cup {None}
          /\ view = Publication(old, new, dir, switched, forced)
          /\ ~switched => old.dir \in {None, dir}
          /\ Dated(old) /\ Bound(old)
      BY <1>1, <1>2, <2>1
    <3> HIDE DEF old, view, dir
    <3>2. QED
      BY <3>1, PublicationKeeps DEF old, view
  <2>3. published'[p].dir = repository'[p]
    BY <2>1 DEF Publication
  <2>4. QED
    BY <1>1, <1>2, <1>4, <2>2, <2>3 DEF NewView
<1>5. CASE NewBinding(p)
  BY <1>1, <1>2, <1>5, BindingKeeps DEF NewBinding
<1>6. CASE Restarts(p)
  BY <1>6, InitialView DEF Restarts
<1>7. QED
  BY <1>3, <1>4, <1>5, <1>6, NextView DEF ViewStep

-----------------------------------------------------------------------------
(* What a transaction has staged stays what the file calls for.            *)

\* Between staging and writing nobody changes what u's transaction rests on.
Undisturbed(u) ==
    /\ pc[u] \in {"staged", "writing"}
    /\ op'[u] = op[u] /\ work'[u] = work[u] /\ ticket'[u] = ticket[u]
    /\ repository'[Owner[u]] = repository[Owner[u]]
    /\ state'[Owner[u]] = state[Owner[u]]
    /\ disk'[repository[Owner[u]]] = disk[repository[Owner[u]]]

\* The mutex guards the memory and the file lock guards the file.
LEMMA NextUndisturbed ==
    ASSUME TypeOK, WorkerInv, [Next]_vars, NEW u \in Tasks, pc'[u] \in {"staged", "writing"}
    PROVE  Stage(u) \/ Undisturbed(u)
<1> USE DEF coordinator, readers, counters
<1>1. CASE UNCHANGED vars
  BY <1>1 DEF vars, Undisturbed
<1>2. ASSUME NEW t \in Tasks, NEW r \in Requests, Call(t, r) PROVE Undisturbed(u)
  <2>1. t # u /\ pc'[u] = pc[u] /\ op'[u] = op[u]
    BY <1>2 DEF Call, Goto, TypeOK
  <2>2. QED
    BY <1>2, <2>1 DEF Call, Undisturbed
<1>3. ASSUME NEW t \in Tasks, Cancel(t) PROVE Undisturbed(u)
  BY <1>3 DEF Cancel, Undisturbed
<1>4. ASSUME NEW t \in Tasks, Fetch(t) PROVE Undisturbed(u)
  <2>1. t # u /\ ticket'[u] = ticket[u]
    BY <1>4 DEF Fetch, TypeOK
  <2>2. QED
    BY <1>4, <2>1 DEF Fetch, Undisturbed
<1>5. ASSUME NEW t \in Tasks, NEW k, Return(t, k)
      PROVE  t # u /\ pc'[u] = pc[u] /\ op'[u] = op[u] /\ work'[u] = work[u] /\ ticket'[u] = ticket[u]
  BY <1>5 DEF Return, Goto, TypeOK
<1>6. ASSUME NEW t \in Tasks, NEW k, Return(t, k), UNCHANGED <<disk, repository, state>>
      PROVE  Undisturbed(u)
  BY <1>5, <1>6 DEF Undisturbed
<1>7. ASSUME NEW t \in Tasks, Fail(t) \/ Publish(t) \/ BindSource(t) \/ PrepareSync(t)
      PROVE  Undisturbed(u)
  BY <1>6, <1>7 DEF Fail, Publish, BindSource, PrepareSync
<1>8. ASSUME NEW t \in Tasks, NEW l, Goto(t, l), l \notin {"staged", "writing"}
      PROVE  t # u /\ pc'[u] = pc[u]
  BY <1>8 DEF Goto, TypeOK
<1>9. ASSUME NEW t \in Tasks, Begin(t) PROVE Undisturbed(u)
  <2>1. CASE cancelled[t]
    BY <1>6, <1>9, <2>1 DEF Begin
  <2>2. CASE ~cancelled[t]
    BY <1>8, <1>9, <2>2 DEF Begin, Undisturbed
  <2>3. QED
    BY <2>1, <2>2
<1>10. ASSUME NEW t \in Tasks, LoadRead(t) PROVE Undisturbed(u)
  <2>1. t # u /\ pc'[u] = pc[u]
    BY <1>8, <1>10 DEF LoadRead
  <2>2. work'[u] = work[u]
    BY <1>10, <2>1 DEF LoadRead, TypeOK
  <2>3. QED
    BY <1>10, <2>1, <2>2 DEF LoadRead, Undisturbed
<1>11. ASSUME NEW t \in Tasks, LoadPublish(t) PROVE Undisturbed(u)
  <2>1. t # u /\ pc'[u] = pc[u] /\ op'[u] = op[u] /\ work'[u] = work[u] /\ ticket'[u] = ticket[u]
    BY <1>5, <1>11 DEF LoadPublish
  <2>2. Owner[u] # Owner[t]
    BY <1>11, <2>1, MutualExclusion DEF LoadPublish, Critical
  <2>3. UNCHANGED disk /\ repository'[Owner[u]] = repository[Owner[u]] /\ state'[Owner[u]] = state[Owner[u]]
    BY <1>11, <2>2 DEF LoadPublish, TypeOK
  <2>4. QED
    BY <2>1, <2>3 DEF Undisturbed
<1>12. ASSUME NEW t \in Tasks, LockFile(t) PROVE Undisturbed(u)
  <2>1. CASE Return(t, TicketLeft(t))
    BY <1>6, <1>12, <2>1 DEF LockFile
  <2>2. CASE ~Return(t, TicketLeft(t))
    BY <1>8, <1>12, <2>2 DEF LockFile, Undisturbed
  <2>3. QED
    BY <2>1, <2>2
<1>13. ASSUME NEW t \in Tasks, Stage(t), t # u PROVE Undisturbed(u)
  <2>1. CASE Return(t, TicketLeft(t))
    BY <1>6, <1>13, <2>1 DEF Stage
  <2>2. CASE ~Return(t, TicketLeft(t))
    <3>1. \E x : work' = [work EXCEPT ![t] = x]
      BY <1>13, <2>2 DEF Stage
    <3>2. pc' = [pc EXCEPT ![t] = "staged"] /\ UNCHANGED <<op, ticket, disk, repository, state>>
      BY <1>13, <2>2 DEF Stage, Goto
    <3>3. pc'[u] = pc[u] /\ work'[u] = work[u]
      BY <1>13, <3>1, <3>2 DEF TypeOK
    <3>4. QED
      BY <3>2, <3>3 DEF Undisturbed
  <2>3. QED
    BY <2>1, <2>2
<1>14. ASSUME NEW t \in Tasks, CheckCancel(t) PROVE Undisturbed(u)
  <2>1. CASE cancelled[t]
    BY <1>6, <1>14, <2>1 DEF CheckCancel
  <2>2. CASE ~cancelled[t]
    <3>1. pc[u] \in {"staged", "writing"}
      BY <1>14, <2>2 DEF CheckCancel, Goto, TypeOK
    <3>2. QED
      BY <1>14, <2>2, <3>1 DEF CheckCancel, Undisturbed
  <2>3. QED
    BY <2>1, <2>2
<1>15. ASSUME NEW t \in Tasks, Write(t) PROVE Undisturbed(u)
  <2>1. t # u /\ pc'[u] = pc[u]
    BY <1>8, <1>15 DEF Write
  <2>2. Owner[u] # Owner[t]
    BY <1>15, <2>1, MutualExclusion DEF Write, Critical
  <2>3. repository[Owner[u]] # repository[Owner[t]]
    BY <1>15, <2>1 DEF Write, WorkerInv, Transacting
  <2>4. /\ state'[Owner[u]] = state[Owner[u]]
        /\ disk'[repository[Owner[u]]] = disk[repository[Owner[u]]]
    <3>1. repository[Owner[u]] \in Dirs
      BY <2>1 DEF WorkerInv, Transacting, TypeOK
    <3>2. QED
      BY <1>15, <2>2, <2>3, <3>1 DEF Write, TypeOK
  <2>5. QED
    BY <1>15, <2>1, <2>4 DEF Write, Undisturbed
<1>16. ASSUME NEW p \in Procs, TakeSnapshot(p) PROVE Undisturbed(u)
  BY <1>16 DEF TakeSnapshot, Undisturbed
<1>17. ASSUME NEW p \in Procs, Crash(p) PROVE Undisturbed(u)
  <2>1. Owner[u] # p
    BY <1>17 DEF Crash
  <2>2. QED
    BY <1>17, <2>1 DEF Crash, Undisturbed, TypeOK
<1>18. QED
  BY <1>1, <1>2, <1>3, <1>4, <1>7, <1>9, <1>10, <1>11, <1>12, <1>13, <1>14, <1>15, <1>16, <1>17
     DEF Next, Worker

\* Staged work stays exactly its request's effect on the current file and memory.
LEMMA NextExactly ==
    ASSUME TypeOK, WorkerInv, StagedExactly, [Next]_vars
    PROVE  StagedExactly'
<1> DEFINE Exact(o, k, w, base) ==
             IF o.kind = "apply"
               THEN ~AccountChanged(k, base) /\ w = RefreshFallbacks(Observe(k, base))
               ELSE ~Rejects(o, base) /\ w = RefreshFallbacks(Change(o, base))
<1>1. SUFFICES ASSUME NEW u \in Tasks, pc'[u] \in {"staged", "writing"}
               PROVE  Exact(op'[u], ticket'[u], work'[u], Base(Owner[u])')
  BY DEF StagedExactly
<1>2. CASE Undisturbed(u)
  <2>1. Base(Owner[u])' = Base(Owner[u])
    BY <1>2 DEF Undisturbed, Base
  <2>2. Exact(op[u], ticket[u], work[u], Base(Owner[u]))
    BY <1>2 DEF Undisturbed, StagedExactly
  <2> HIDE DEF Exact
  <2>3. QED
    BY <1>2, <2>1, <2>2 DEF Undisturbed
<1>3. CASE Stage(u)
  <2> DEFINE base == Base(Owner[u])
             rejected == IF op[u].kind = "apply" THEN AccountChanged(ticket[u], base)
                                                 ELSE Rejects(op[u], base)
             X == RefreshFallbacks(IF op[u].kind = "apply" THEN Observe(ticket[u], base)
                                                           ELSE Change(op[u], base))
  <2>1. ~Return(u, TicketLeft(u))
    BY <1>1 DEF Return, Goto, TypeOK
  <2>2. /\ ~rejected
        /\ work' = [work EXCEPT ![u] = X]
        /\ UNCHANGED <<op, ticket, disk, repository, state>>
    BY <1>3, <2>1 DEF Stage, coordinator
  <2>3. work'[u] = X
    BY <2>2 DEF TypeOK
  <2>4. Base(Owner[u])' = base
    BY <2>2 DEF Base
  <2> HIDE DEF base
  <2>5. Exact(op[u], ticket[u], work'[u], base)
    BY <2>2, <2>3
  <2> HIDE DEF Exact
  <2>6. QED
    BY <2>2, <2>4, <2>5
<1>4. QED
  BY <1>1, <1>2, <1>3, NextUndisturbed

-----------------------------------------------------------------------------
(* What a transaction starts from and what it leaves alone.                *)

\* Memory brings session rows to the transaction and overrules no row and no
\* observation of the file.
LEMMA BaseRows ==
    ASSUME NEW file \in SavedConfig, NEW memory \in SavedConfig, NEW n \in Names, NEW m \in Models,
           NEW base, base = EnsureDefinitions(ReconcileSession(file, memory))
    PROVE  /\ file.accounts[n] # None =>
                /\ base.accounts[n] # None
                /\ base.accounts[n].conn = file.accounts[n].conn
                /\ m \in file.accounts[n].rows \/ file.accounts[n].seen[m] # None =>
                      SavedModel(base.accounts[n], m) = SavedModel(file.accounts[n], m)
           /\ base.accounts[n] # None /\ base.accounts[n].seen[m] # None =>
                \/ file.accounts[n] # None /\ base.accounts[n].seen[m] = file.accounts[n].seen[m]
                \/ memory.accounts[n] # None /\ base.accounts[n].seen[m] = memory.accounts[n].seen[m]
<1> DEFINE a == file.accounts[n]
           b == memory.accounts[n]
           kept == PersistedAccount(b, memory.tracked)
           c == IF a # None /\ kept = a THEN b ELSE a
<1>1. /\ a \in Account \cup {None}
      /\ b \in Account \cup {None}
  BY DEF SavedConfig
<1>2. Persisted(memory).accounts[n] = kept
  BY DEF Persisted, SavedConfig
<1>3. ReconcileSession(file, memory).accounts[n] = c
  BY <1>2 DEF ReconcileSession, SavedConfig
<1>4. ReconcileSession(file, memory) \in SavedConfig
  BY ReconcileType
<1>5. base.accounts[n] = IF c = None /\ n \notin ReconcileSession(file, memory).deleted
                             /\ Catalog[n] # None
                         THEN Inherited(n) ELSE c
  BY <1>3, <1>4 DEF EnsureDefinitions, SavedConfig
<1>6. Inherited(n).seen[m] = None
  BY DEF Inherited, NothingSeen
<1>7. CASE a = None
  BY <1>5, <1>6, <1>7
<1>8. CASE a # None /\ kept # a
  BY <1>1, <1>5, <1>8
<1>9. CASE a # None /\ kept = a
  <2>1. b # None /\ b \in Account
    BY <1>1, <1>9 DEF PersistedAccount
  <2>2. /\ kept.conn = b.conn
        /\ kept.rows = b.rows \cap memory.tracked
        /\ kept.edited = b.edited \cap memory.tracked
        /\ kept.seen[m] = IF m \in memory.tracked THEN b.seen[m] ELSE None
    BY <2>1 DEF PersistedAccount, Account
  <2>3. base.accounts[n] = b
    BY <1>5, <1>9, <2>1
  <2> HIDE DEF kept, a, b
  <2>4. QED
    BY <1>9, <2>1, <2>2, <2>3 DEF a, b, SavedModel
<1>10. QED
  BY <1>7, <1>8, <1>9

\* An operation changes the account it names and no other.
LEMMA ChangeElsewhere ==
    ASSUME NEW cfg \in SavedConfig, NEW r \in Requests, r.kind \in UpdateKinds,
           NEW n \in Names, n # r.name
    PROVE  Change(r, cfg).accounts[n] = cfg.accounts[n]
<1>1. cfg.accounts \in [Names -> Account \cup {None}]
  BY DEF SavedConfig
<1>2. CASE r.kind \in {"add", "restore"}
  BY <1>1, <1>2 DEF Change, SetAccount, SavedConfig
<1>3. CASE r.kind \in {"remove", "protocol"}
  BY <1>1, <1>3 DEF Change, SavedConfig
<1>4. CASE r.kind \in {"track", "untrack"}
  BY <1>1, <1>4 DEF Change, SavedConfig
<1>5. CASE r.kind = "edit"
  BY <1>1, <1>5 DEF Change, SavedConfig
<1>6. QED
  BY <1>2, <1>3, <1>4, <1>5 DEF UpdateKinds

\* A sync changes the account it was fetched for and no other.
LEMMA ObserveElsewhere ==
    ASSUME NEW cfg \in SavedConfig, NEW k \in Ticket, NEW n \in Names, n # k.name
    PROVE  Observe(k, cfg).accounts[n] = cfg.accounts[n]
BY DEF Observe, SavedConfig

\* An observation that a sync changes names the connection of its account.
LEMMA ObserveRows ==
    ASSUME NEW cfg \in SavedConfig, NEW k \in Ticket, k.listing # None, ~AccountChanged(k, cfg),
           NEW m \in Models
    PROVE  /\ Observe(k, cfg).accounts[k.name] # None
           /\ Observe(k, cfg).accounts[k.name].conn = cfg.accounts[k.name].conn
           /\ \/ Observe(k, cfg).accounts[k.name].seen[m] = cfg.accounts[k.name].seen[m]
              \/ Observe(k, cfg).accounts[k.name].seen[m] = cfg.accounts[k.name].conn
<1> DEFINE a == cfg.accounts[k.name]
           o == ObservedAccount(k.name, a, k.listing, cfg.tracked, k.conn)
<1>1. /\ a \in Account /\ a.conn = k.conn
      /\ k.name \in Names /\ k.listing \in Listing /\ k.conn \in Conns
  BY DEF AccountChanged, HasProfile, SavedConfig, Ticket
<1>2. Observe(k, cfg).accounts[k.name] = o
  BY <1>1 DEF Observe, SavedConfig
<1>3. o \in Account /\ o.conn = a.conn
  BY <1>1, ObservedAccountType
<1>4. o.seen[m] = a.seen[m] \/ o.seen[m] = k.conn
  BY <1>1 DEF ObservedAccount, Account
<1> HIDE DEF o
<1>5. QED
  BY <1>1, <1>2, <1>3, <1>4

\* What a transaction is about to write.
LEMMA WriteFacts ==
    ASSUME TypeOK, WorkerInv, StagedExactly, NEW t \in Tasks, Write(t)
    PROVE  LET p == Owner[t]
               d == repository[p]
               base == EnsureDefinitions(ReconcileSession(disk[d], state[p]))
           IN  /\ p \in Procs /\ d \in Dirs
               /\ disk[d] \in SavedConfig /\ state[p] \in SavedConfig /\ base \in SavedConfig
               /\ work[t] \in SavedConfig
               /\ disk'[d].tracked = work[t].tracked
               /\ \A n \in Names :
                     /\ disk'[d].accounts[n] = PersistedAccount(work[t].accounts[n], work[t].tracked)
               /\ op[t] \in Requests
               /\ op[t].kind \in UpdateKinds \cup {"apply"}
               /\ op[t].kind = "apply" =>
                     /\ ticket[t] \in Ticket /\ ticket[t].listing # None
                     /\ ~AccountChanged(ticket[t], base)
                     /\ work[t] = RefreshFallbacks(Observe(ticket[t], base))
               /\ op[t].kind # "apply" => ~Rejects(op[t], base) /\ work[t] = RefreshFallbacks(Change(op[t], base))
<1> DEFINE p == Owner[t]
           d == repository[p]
           base == EnsureDefinitions(ReconcileSession(disk[d], state[p]))
<1>1. pc[t] = "writing" /\ disk' = [disk EXCEPT ![d] = Persisted(work[t])]
  BY DEF Write
<1>2. /\ p \in Procs /\ d \in Dirs
      /\ op[t] \in Requests
      /\ op[t].kind \in UpdateKinds \cup {"apply"}
      /\ op[t].kind = "apply" => ticket[t] \in Ticket /\ ticket[t].listing # None
  BY <1>1 DEF TypeOK, WorkerInv, Transacting
<1>3. disk[d] \in SavedConfig /\ state[p] \in SavedConfig /\ work[t] \in SavedConfig
  BY <1>2 DEF TypeOK
<1>4. base \in SavedConfig
  BY <1>3, ReconcileType, EnsureDefinitionsType
<1>5. disk'[d] = Persisted(work[t])
  BY <1>1, <1>2 DEF TypeOK
<1>6. /\ disk'[d].tracked = work[t].tracked
      /\ \A n \in Names :
            disk'[d].accounts[n] = PersistedAccount(work[t].accounts[n], work[t].tracked)
  BY <1>3, <1>5 DEF Persisted, SavedConfig
<1>7. /\ op[t].kind = "apply" => ~AccountChanged(ticket[t], base) /\ work[t] = RefreshFallbacks(Observe(ticket[t], base))
      /\ op[t].kind # "apply" => ~Rejects(op[t], base) /\ work[t] = RefreshFallbacks(Change(op[t], base))
  BY <1>1 DEF StagedExactly, Base
<1> HIDE DEF base, d, p
<1>8. QED
  BY <1>2, <1>3, <1>4, <1>6, <1>7 DEF base, d, p

\* Only tracked rows and observations are written, as they were staged.
LEMMA PersistedRow ==
    ASSUME NEW cfg \in SavedConfig, NEW n \in Names, NEW m \in Models
    PROVE  LET a == PersistedAccount(cfg.accounts[n], cfg.tracked)
               b == cfg.accounts[n]
           IN  /\ a # None <=> b # None
               /\ a # None =>
                     /\ a.conn = b.conn
                     /\ m \in cfg.tracked => SavedModel(a, m) = SavedModel(b, m)
                     /\ a.seen[m] = IF m \in cfg.tracked THEN b.seen[m] ELSE None
<1>1. cfg.accounts[n] \in Account \cup {None}
  BY DEF SavedConfig
<1>2. CASE cfg.accounts[n] = None
  BY <1>2 DEF PersistedAccount
<1>3. CASE cfg.accounts[n] # None
  <2> DEFINE a == PersistedAccount(cfg.accounts[n], cfg.tracked)
             b == cfg.accounts[n]
  <2>1. b \in Account
    BY <1>1, <1>3
  <2>2. /\ a \in Account /\ a.conn = b.conn
        /\ a.rows = b.rows \cap cfg.tracked
        /\ a.edited = b.edited \cap cfg.tracked
        /\ a.seen = [x \in Models |-> IF x \in cfg.tracked THEN b.seen[x] ELSE None]
    BY <2>1, PersistedAccountType
  <2> HIDE DEF a, b
  <2>3. QED
    BY <2>1, <2>2 DEF SavedModel, a, b
<1>4. QED
  BY <1>2, <1>3

-----------------------------------------------------------------------------
(* The theorems.                                                           *)

StoreViewsInv == StoreInv /\ ViewsInv /\ StagedExactly

\* The inductive invariant of the store, with its views and staged work.
LEMMA ViewsInvariant == Spec => []StoreViewsInv
<1>1. Init => StoreViewsInv
  <2> SUFFICES ASSUME Init PROVE StoreViewsInv
    OBVIOUS
  <2>1. StoreInv
    <3>1. TypeOK
      BY InitType
    <3>2. WorkerInv /\ PublicationInv /\ StagedInv
      BY DEF Init, WorkerInv, PublicationInv, StagedInv, Critical, Transacting
    <3>3. QED
      BY <3>1, <3>2 DEF StoreInv
  <2>2. DirInv /\ KeysInv /\ BoundInv
    BY InitialView DEF Init, DirInv, KeysInv, BoundInv
  <2>3. StagedExactly
    BY DEF Init, StagedExactly
  <2>4. QED
    BY <2>1, <2>2, <2>3 DEF StoreViewsInv, ViewsInv
<1>2. StoreViewsInv /\ [Next]_vars => StoreViewsInv'
  BY NextType, NextWorker, NextPublication, NextStaged, NextViews, NextExactly
     DEF StoreViewsInv, StoreInv
<1>3. QED
  BY <1>1, <1>2, PTL DEF Spec

\* However many publications, removals, recreations and switches of directory
\* lie between the snapshot of a request and the current view, they share a key
\* of the file cache only for one and the same profile of one directory
\* (publish, profile_cache_generations).
THEOREM StoreCacheKeys == Spec => []CacheKeyIdentifiesProfile
<1>1. StoreViewsInv => CacheKeyIdentifiesProfile
  BY DEF StoreViewsInv, ViewsInv, KeysInv, Earlier, CacheKeyIdentifiesProfile
<1>2. QED
  BY <1>1, ViewsInvariant, PTL

\* The executor's lookup of a profile's cache generation never fails.
THEOREM StoreGenerations == Spec => []ProfilesHaveGenerations
<1>1. StoreViewsInv => ProfilesHaveGenerations
  BY DEF StoreViewsInv, ViewsInv, KeysInv, Dated, ProfilesHaveGenerations
<1>2. QED
  BY <1>1, ViewsInvariant, PTL

\* No account source outlives the connection or the directory it was bound to
\* (register_profile_account_source, publish).
THEOREM StoreBindings == Spec => []BindingsMatchConnections
<1>1. StoreViewsInv => BindingsMatchConnections
  BY DEF StoreViewsInv, ViewsInv, BoundInv, Bound, BindingsMatchConnections
<1>2. QED
  BY <1>1, ViewsInvariant, PTL

\* A transaction writes the rows and observations of other accounts back as the
\* file has them, the rows inherited from a definition included, whatever its
\* process remembers (persisted, reconcile_session, Coordinator::update).
THEOREM StoreDurableRows == Spec => DurableRowsSurvive
<1>1. ASSUME StoreViewsInv, NEW t \in Tasks, Write(t)
      PROVE  LET d == repository[Owner[t]]
                 mine == IF op[t].kind = "apply" THEN ticket[t].name ELSE op[t].name
             IN  \A n \in Names \ {mine} : \A m \in disk'[d].tracked :
                   LET before == disk[d].accounts[n]
                       after == disk'[d].accounts[n]
                   IN  before # None /\ (m \in before.rows \/ before.seen[m] # None) =>
                           after # None /\ SavedModel(after, m) = SavedModel(before, m)
  <2> DEFINE p == Owner[t]
             d == repository[p]
             base == EnsureDefinitions(ReconcileSession(disk[d], state[p]))
             mine == IF op[t].kind = "apply" THEN ticket[t].name ELSE op[t].name
  <2>1. /\ disk[d] \in SavedConfig /\ state[p] \in SavedConfig /\ base \in SavedConfig
        /\ work[t] \in SavedConfig
        /\ disk'[d].tracked = work[t].tracked
        /\ \A n \in Names :
              disk'[d].accounts[n] = PersistedAccount(work[t].accounts[n], work[t].tracked)
        /\ op[t] \in Requests
        /\ op[t].kind \in UpdateKinds \cup {"apply"}
        /\ op[t].kind = "apply" =>
              /\ ticket[t] \in Ticket /\ ticket[t].listing # None
              /\ ~AccountChanged(ticket[t], base)
              /\ work[t] = RefreshFallbacks(Observe(ticket[t], base))
        /\ op[t].kind # "apply" => ~Rejects(op[t], base) /\ work[t] = RefreshFallbacks(Change(op[t], base))
    BY <1>1, WriteFacts DEF StoreViewsInv, StoreInv
  <2>2. SUFFICES ASSUME NEW n \in Names \ {mine}, NEW m \in disk'[d].tracked,
                        disk[d].accounts[n] # None,
                        m \in disk[d].accounts[n].rows \/ disk[d].accounts[n].seen[m] # None
                 PROVE  /\ disk'[d].accounts[n] # None
                        /\ SavedModel(disk'[d].accounts[n], m) = SavedModel(disk[d].accounts[n], m)
    BY Zenon
  <2>3. m \in Models /\ m \in work[t].tracked
    BY <2>1, <2>2 DEF SavedConfig
  <2>4. base.accounts[n] # None
        /\ SavedModel(base.accounts[n], m) = SavedModel(disk[d].accounts[n], m)
    BY <2>1, <2>2, <2>3, BaseRows
  <2>5. work[t].accounts[n] # None
        /\ SavedModel(work[t].accounts[n], m) = SavedModel(base.accounts[n], m)
    <3> DEFINE X == IF op[t].kind = "apply" THEN Observe(ticket[t], base) ELSE Change(op[t], base)
    <3>1. X \in SavedConfig
      BY <2>1, ObserveType, ChangeType
    <3>2. X.accounts[n] = base.accounts[n]
      <4> HIDE DEF base, d, p
      <4>1. CASE op[t].kind = "apply"
        BY <2>1, <2>2, <4>1, ObserveElsewhere
      <4>2. CASE op[t].kind # "apply"
        BY <2>1, <2>2, <4>2, ChangeElsewhere
      <4>3. QED
        BY <4>1, <4>2
    <3>3. work[t] = RefreshFallbacks(X)
      BY <2>1
    <3> HIDE DEF X, base, d, p
    <3>4. QED
      BY <2>2, <2>4, <3>1, <3>2, <3>3, RefreshKeeps DEF SavedModel
  <2> HIDE DEF base, d, p
  <2>6. QED
    BY <2>1, <2>2, <2>3, <2>4, <2>5, PersistedRow
<1>2. StoreViewsInv /\ [Next]_vars =>
        [\A t \in Tasks : Write(t) =>
          LET d == repository[Owner[t]]
              mine == IF op[t].kind = "apply" THEN ticket[t].name ELSE op[t].name
          IN  \A n \in Names \ {mine} : \A m \in disk'[d].tracked :
                LET before == disk[d].accounts[n]
                    after == disk'[d].accounts[n]
                IN  before # None /\ (m \in before.rows \/ before.seen[m] # None) =>
                        after # None /\ SavedModel(after, m) = SavedModel(before, m)]_vars
  BY <1>1
<1>3. QED
  BY <1>2, ViewsInvariant, PTL DEF Spec, DurableRowsSurvive

\* A fetch is filed under the connection it was made over, whatever changed
\* between preparing, fetching and applying it (apply_provider_sync, commit).
THEOREM StoreObservations == Spec => ObservationsMatchConnection
<1>1. ASSUME StoreViewsInv, NEW t \in Tasks, Write(t), op[t].kind = "apply",
             NEW n \in Names, NEW m \in Models
      PROVE  LET before == disk[repository[Owner[t]]].accounts[n]
                 after == disk'[repository[Owner[t]]].accounts[n]
                 remembered == state[Owner[t]].accounts[n]
             IN  (/\ after # None
                  /\ after.seen[m] # None
                  /\ before # None => after.seen[m] # before.seen[m])
                 => \/ /\ after.seen[m] = after.conn
                       /\ before # None => before.conn = after.conn
                    \/ remembered # None /\ after.seen[m] = remembered.seen[m]
  <2> DEFINE p == Owner[t]
             d == repository[p]
             base == EnsureDefinitions(ReconcileSession(disk[d], state[p]))
             before == disk[d].accounts[n]
             after == disk'[d].accounts[n]
             remembered == state[p].accounts[n]
             k == ticket[t]
  <2>1. /\ disk[d] \in SavedConfig /\ state[p] \in SavedConfig /\ base \in SavedConfig
        /\ work[t] \in SavedConfig
        /\ after = PersistedAccount(work[t].accounts[n], work[t].tracked)
        /\ k \in Ticket /\ k.listing # None
        /\ ~AccountChanged(k, base)
        /\ work[t] = RefreshFallbacks(Observe(k, base))
    BY <1>1, WriteFacts DEF StoreViewsInv, StoreInv
  <2>2. SUFFICES ASSUME after # None, after.seen[m] # None,
                        before # None => after.seen[m] # before.seen[m]
                 PROVE  \/ /\ after.seen[m] = after.conn
                           /\ before # None => before.conn = after.conn
                        \/ remembered # None /\ after.seen[m] = remembered.seen[m]
    BY Zenon
  <2>3. /\ before # None => base.accounts[n].conn = before.conn
        /\ base.accounts[n] # None /\ base.accounts[n].seen[m] # None =>
              \/ before # None /\ base.accounts[n].seen[m] = before.seen[m]
              \/ remembered # None /\ base.accounts[n].seen[m] = remembered.seen[m]
    BY <2>1, BaseRows
  <2> HIDE DEF base, before, after, remembered, d, p, k
  <2>4. /\ work[t].accounts[n] # None
        /\ after.conn = work[t].accounts[n].conn
        /\ after.seen[m] = work[t].accounts[n].seen[m]
    BY <2>1, <2>2, PersistedRow
  <2> DEFINE o == Observe(k, base)
  <2>5. /\ o.accounts[n] # None
        /\ after.conn = o.accounts[n].conn
        /\ after.seen[m] = o.accounts[n].seen[m]
    <3>1. o \in SavedConfig /\ work[t] = RefreshFallbacks(o)
      BY <2>1, ObserveType
    <3> HIDE DEF o
    <3>2. QED
      BY <2>4, <3>1, RefreshKeeps
  <2>6. CASE n # k.name
    <3>1. o.accounts[n] = base.accounts[n]
      BY <2>1, <2>6, ObserveElsewhere
    <3>2. QED
      BY <2>2, <2>3, <2>5, <3>1
  <2>7. CASE n = k.name
    <3>1. /\ o.accounts[n].conn = base.accounts[n].conn
          /\ \/ o.accounts[n].seen[m] = base.accounts[n].seen[m]
             \/ o.accounts[n].seen[m] = base.accounts[n].conn
      BY <2>1, <2>7, ObserveRows
    <3>2. base.accounts[n] # None
      BY <2>1, <2>7 DEF AccountChanged, HasProfile
    <3>3. QED
      BY <2>2, <2>3, <2>5, <3>1, <3>2
  <2>8. QED
    BY <2>6, <2>7
<1>2. StoreViewsInv /\ [Next]_vars =>
        [\A t \in Tasks : Write(t) /\ op[t].kind = "apply" =>
          \A n \in Names : \A m \in Models :
              LET before == disk[repository[Owner[t]]].accounts[n]
                  after == disk'[repository[Owner[t]]].accounts[n]
                  remembered == state[Owner[t]].accounts[n]
              IN  (/\ after # None
                   /\ after.seen[m] # None
                   /\ before # None => after.seen[m] # before.seen[m])
                  => \/ /\ after.seen[m] = after.conn
                        /\ before # None => before.conn = after.conn
                     \/ remembered # None /\ after.seen[m] = remembered.seen[m]]_vars
  BY <1>1
<1>3. QED
  BY <1>2, ViewsInvariant, PTL DEF Spec, ObservationsMatchConnection
=============================================================================
