---------------------------- MODULE ProviderStore ----------------------------
(***************************************************************************)
(* Configuration transactions of ClientConfigManager (client/store.rs)     *)
(* over the Coordinator, Repository and sync code of configuration/, and   *)
(* the PublishedState that requests read (runtime.rs).                     *)
(*                                                                         *)
(* A task is one asynchronous caller of a manager.  Each call runs on a    *)
(* blocking worker that takes the manager's mutex, then (for a             *)
(* transaction) the file lock of the directory, and survives its caller:   *)
(* dropping the caller only sets a flag that the worker reads twice.       *)
(* Processes share directories, and may crash between any two steps.       *)
(*                                                                         *)
(* Abstractions.  A connection is a value of Conns: everything of a        *)
(* ProviderProfile except its models.  All accounts are of one provider    *)
(* id, so tracked_models is one set.  An account keeps which models have a *)
(* row of their own, which of these rows override a field, and, apart from *)
(* the rows, the connection each model's observation was fetched over; the *)
(* field-by-field merge of rows is not modelled.                           *)
(***************************************************************************)
EXTENDS Naturals, FiniteSets

CONSTANTS
    Procs,      \* processes, each with one client and one manager
    Tasks,      \* asynchronous callers
    Owner,      \* Owner[t] is the process of task t
    Dirs,       \* configuration directories
    Names,      \* profile names
    Conns,      \* connection settings
    Models,     \* wire model ids
    Catalog,    \* Catalog[n]: the definition of n, or None
    Requests,   \* the operations callers may ask for
    Listings,   \* the answers a provider's model directory may give
    Readers,    \* the processes with a request that pins a snapshot
    MaxCalls,   \* bound on the number of calls
    MaxCrashes, \* bound on the number of crashes
    None

VARIABLES
    disk,       \* disk[d]: the saved configuration of directory d
    fileLock,   \* fileLock[d]: the task holding d's lock file, or None
    repository, \* repository[p]: the directory of p's coordinator, or None
    generation, \* generation[p]: how many directories p has loaded
    state,      \* state[p]: the coordinator's SavedConfig
    mutex,      \* mutex[p]: the task whose worker holds p's writer mutex
    published,  \* published[p]: the PublishedState requests read
    held,       \* held[p]: a snapshot some request of p still uses, or None
    pc, op, cancelled, work, ticket,   \* one entry per task
    calls, crashes

coordinator == <<repository, generation, state>>
readers == <<published, held>>
counters == <<calls, crashes>>
vars == <<disk, fileLock, coordinator, mutex, readers,
          pc, op, cancelled, work, ticket, counters>>

-----------------------------------------------------------------------------
(* Saved configuration.                                                    *)

Definition == [conn : Conns, models : SUBSET Models]

\* SavedProfile: models with a saved row, those whose row has overrides, and the
\* connection of each model's observation.
Account == [conn : Conns, fallback : SUBSET Models, replace : BOOLEAN,
            rows : SUBSET Models, edited : SUBSET Models,
            seen : [Models -> Conns \cup {None}], incompatible : SUBSET Models]

SavedConfig == [accounts : [Names -> Account \cup {None}],
                deleted : SUBSET Names, tracked : SUBSET Models]

Row == [edited : BOOLEAN, seen : Conns \cup {None}]

Profile == [conn : Conns, rows : [Models -> Row \cup {None}]]

Kinds == {"load", "add", "remove", "protocol", "restore", "track", "untrack",
          "edit", "bind", "prepare", "apply"}

\* The operations of ClientConfigManager with the arguments each of them takes.
Request ==
    {r \in [kind : Kinds, dir : Dirs \cup {None}, name : Names \cup {None},
            conn : Conns \cup {None}, models : SUBSET Models] :
        /\ r.kind = "load" => r.dir \in Dirs
        /\ r.kind \notin {"load", "track", "untrack", "apply"} => r.name \in Names
        /\ r.kind \in {"load", "track", "untrack", "apply"} => r.name = None
        /\ r.kind \in {"add", "protocol"} => r.conn \in Conns}

Listing == [live : SUBSET Models, incompatible : SUBSET Models,
            compatible : SUBSET Models]

Ticket == [dir : Dirs, generation : Nat, name : Names, conn : Conns,
           listing : Listing \cup {None}]

ASSUME NoneAssumption ==
    None \notin Procs \cup Tasks \cup Dirs \cup Names \cup Conns \cup Row
                \cup Account \cup Definition \cup Profile \cup Request
                \cup Listing \cup Ticket

ASSUME ConstantsAssumption ==
    /\ Owner \in [Tasks -> Procs]
    /\ Catalog \in [Names -> Definition \cup {None}]
    /\ Requests \subseteq Request
    /\ Listings \subseteq Listing
    /\ Readers \subseteq Procs
    /\ MaxCalls \in Nat
    /\ MaxCrashes \in Nat

NothingSeen == [m \in Models |-> None]

EmptyConfig == [accounts |-> [n \in Names |-> None], deleted |-> {}, tracked |-> {}]

DefinitionModels(n) == IF Catalog[n] = None THEN {} ELSE Catalog[n].models

\* SavedProfile::inherited: a row without overrides for every model of the definition.
Inherited(n) ==
    [conn |-> Catalog[n].conn, fallback |-> Catalog[n].models, replace |-> FALSE,
     rows |-> Catalog[n].models, edited |-> {}, seen |-> NothingSeen, incompatible |-> {}]

\* SavedProfile::replacement: every supplied row is an explicit override.
Replacement(c, models) ==
    [conn |-> c, fallback |-> models, replace |-> TRUE,
     rows |-> models, edited |-> models, seen |-> NothingSeen, incompatible |-> {}]

\* SavedProfile::rows: saved rows, then the definition's missing rows.
Rows(n, a) == a.rows \cup (IF a.replace THEN {} ELSE DefinitionModels(n))

\* SavedConfig::ensure_definitions
EnsureDefinitions(cfg) ==
    [cfg EXCEPT !.accounts = [n \in Names |->
        IF cfg.accounts[n] = None /\ n \notin cfg.deleted /\ Catalog[n] # None
        THEN Inherited(n) ELSE cfg.accounts[n]]]

\* SavedConfig::profiles(_, executable = true)
Profiles(cfg) ==
    LET all == EnsureDefinitions(cfg).accounts
    IN  [n \in Names |->
            IF all[n] = None \/ n \in cfg.deleted THEN None
            ELSE [conn |-> all[n].conn,
                  rows |-> [m \in Models |->
                      IF m \in Rows(n, all[n]) \ all[n].incompatible
                      THEN [edited |-> m \in all[n].edited, seen |-> all[n].seen[m]]
                      ELSE None]]]

\* SavedConfig::refresh_fallbacks: a definition that exists replaces its saved copy.
RefreshFallbacks(cfg) ==
    [cfg EXCEPT !.accounts = [n \in Names |->
        IF cfg.accounts[n] = None \/ Catalog[n] = None THEN cfg.accounts[n]
        ELSE [cfg.accounts[n] EXCEPT !.fallback = Catalog[n].models]]]

\* SavedConfig::persisted: only tracked rows and observations reach the file.
PersistedAccount(a, tracked) ==
    IF a = None THEN None
    ELSE [a EXCEPT !.fallback = a.fallback \cap tracked,
                   !.rows = a.rows \cap tracked,
                   !.edited = a.edited \cap tracked,
                   !.seen = [m \in Models |-> IF m \in tracked THEN a.seen[m] ELSE None]]

Persisted(cfg) ==
    [cfg EXCEPT !.accounts = [n \in Names |->
        PersistedAccount(cfg.accounts[n], cfg.tracked)]]

\* Mutant: the remembered account always wins over the file.
ReconcileAlways(cfg, previous) ==
    [cfg EXCEPT !.accounts = [n \in Names |->
        IF cfg.accounts[n] # None /\ previous.accounts[n] # None
        THEN previous.accounts[n] ELSE cfg.accounts[n]]]

\* SavedConfig::reconcile_session
ReconcileSession(cfg, previous) ==
    [cfg EXCEPT !.accounts = [n \in Names |->
        IF cfg.accounts[n] # None /\ Persisted(previous).accounts[n] = cfg.accounts[n]
        THEN previous.accounts[n] ELSE cfg.accounts[n]]]

-----------------------------------------------------------------------------
(* The change each operation makes to a configuration with its definitions.*)

HasProfile(cfg, n) == n \notin cfg.deleted /\ cfg.accounts[n] # None

SetAccount(cfg, n, a) ==
    [cfg EXCEPT !.accounts[n] = a, !.deleted = cfg.deleted \ {n}]

\* set_model_override over SavedProfile::ensure_row: the row gets saved, and overridden.
EditedAccount(a, models) ==
    [a EXCEPT !.rows = a.rows \cup models, !.edited = a.edited \cup models]

\* The closures of store.rs, as the error they return and the state they leave.
Rejects(r, cfg) ==
    \/ r.kind \in {"remove", "protocol", "edit"} /\ ~HasProfile(cfg, r.name)
    \/ r.kind = "edit" /\ HasProfile(cfg, r.name)
       /\ ~(r.models \subseteq Rows(r.name, cfg.accounts[r.name]))
    \/ r.kind = "restore" /\ Catalog[r.name] = None
    \/ r.kind = "untrack" /\ ~(r.models \subseteq cfg.tracked)

Change(r, cfg) ==
    CASE r.kind = "add"      -> SetAccount(cfg, r.name, Replacement(r.conn, r.models))
      [] r.kind = "restore"  -> SetAccount(cfg, r.name, Inherited(r.name))
      [] r.kind = "remove"   -> [cfg EXCEPT !.accounts[r.name] = None,
                                            !.deleted = cfg.deleted \cup {r.name}]
      [] r.kind = "protocol" -> [cfg EXCEPT !.accounts[r.name] =
                                    [cfg.accounts[r.name] EXCEPT !.conn = r.conn]]
      [] r.kind = "track"    -> [cfg EXCEPT !.tracked = r.models]
      [] r.kind = "untrack"  -> [cfg EXCEPT !.tracked = cfg.tracked \ r.models]
      [] OTHER               -> [cfg EXCEPT !.accounts[r.name] =
                                    EditedAccount(cfg.accounts[r.name], r.models)]

\* ProviderSyncResult::commit: tracked, compatible live models are observed, and
\* those without a row get one.
ObservedAccount(n, a, listing, tracked, conn) ==
    LET bad == (a.incompatible \cup listing.incompatible) \ listing.compatible
        live == (listing.live \cap tracked) \ bad
    IN  [a EXCEPT !.incompatible = bad,
                  !.rows = a.rows \cup (live \ Rows(n, a)),
                  !.seen = [m \in Models |-> IF m \in live THEN conn ELSE a.seen[m]]]

Observe(k, cfg) ==
    [cfg EXCEPT !.accounts[k.name] =
        ObservedAccount(k.name, cfg.accounts[k.name], k.listing, cfg.tracked, k.conn)]

-----------------------------------------------------------------------------
(* Publication.                                                            *)

Binding == [namespace : Nat, conn : Conns]

PublishedState ==
    [revision : Nat, dir : Dirs \cup {None}, profiles : [Names -> Profile \cup {None}],
     bindings : [Names -> Binding \cup {None}], invalidated : BOOLEAN,
     namespace : Nat, generations : [Names -> Nat]]

NoGeneration == 0

\* Mutant: only profiles of both views are compared.
ChangedInBoth(old, new) == {n \in Names : old[n] # None /\ new[n] # None /\ old[n] # new[n]}

\* Mutant: a connection counts as changed only when its profile comes or goes.
AddedOrRemoved(old, new) == {n \in Names : (old[n] = None) # (new[n] = None)}

\* ChangeSet::between: profiles that differ at all, and those whose connection does.
ChangedProfiles(old, new) == {n \in Names : old[n] # new[n]}

ChangedConnections(old, new) ==
    {n \in Names : /\ old[n] # None \/ new[n] # None
                   /\ ~(old[n] # None /\ new[n] # None /\ old[n].conn = new[n].conn)}

\* build_runtime: every caller profile starts in cache generation 1.
InitialPublished ==
    LET profiles == Profiles(EmptyConfig)
    IN  [revision |-> 1, dir |-> None, profiles |-> profiles,
         bindings |-> [n \in Names |-> None], invalidated |-> FALSE, namespace |-> 1,
         generations |-> [n \in Names |-> IF profiles[n] = None THEN NoGeneration ELSE 1]]

\* Mutant: a changed profile counts up from its last generation.
CacheGenerationsCounted(old, new, revision) ==
    [n \in Names |->
        IF new[n] = None THEN NoGeneration
        ELSE IF n \in ChangedProfiles(old.profiles, new) THEN old.generations[n] + 1
        ELSE old.generations[n]]

\* publish: a changed profile moves to the generation of this revision; the
\* generation of a removed profile is forgotten.
CacheGenerations(old, new, revision) ==
    [n \in Names |->
        IF new[n] = None THEN NoGeneration
        ELSE IF n \in ChangedProfiles(old.profiles, new) THEN revision
        ELSE old.generations[n]]

\* ClientConfigManager::publish.  "dir" records the repository the view came from.
Publication(old, new, dir, switched, forced) ==
    LET revision == old.revision + 1
        connections == ChangedConnections(old.profiles, new) \cup forced
    IN  [revision |-> revision, dir |-> dir, profiles |-> new,
         bindings |-> [n \in Names |->
             IF switched \/ n \in connections THEN None ELSE old.bindings[n]],
         invalidated |->
             \/ old.invalidated
             \/ switched
             \/ \E n \in connections : old.profiles[n] # None \/ new[n] # None,
         namespace |-> IF switched THEN old.namespace + 1 ELSE old.namespace,
         generations |-> CacheGenerations(old, new, revision)]

\* The name whose binding an operation drops even when nothing changed.
Forced(r) == IF r.kind \in {"add", "protocol", "restore"} THEN {r.name} ELSE {}

-----------------------------------------------------------------------------
(* Calls.                                                                  *)

Init ==
    /\ disk = [d \in Dirs |-> EmptyConfig]
    /\ fileLock = [d \in Dirs |-> None]
    /\ repository = [p \in Procs |-> None]
    /\ generation = [p \in Procs |-> 0]
    /\ state = [p \in Procs |-> EmptyConfig]
    /\ mutex = [p \in Procs |-> None]
    /\ published = [p \in Procs |-> InitialPublished]
    /\ held = [p \in Procs |-> None]
    /\ pc = [t \in Tasks |-> "idle"]
    /\ op = [t \in Tasks |-> None]
    /\ cancelled = [t \in Tasks |-> FALSE]
    /\ work = [t \in Tasks |-> EmptyConfig]
    /\ ticket = [t \in Tasks |-> None]
    /\ calls = 0
    /\ crashes = 0

\* Mutant: the lock file is opened and never locked.
FileFreeUnlocked(d) == TRUE

\* Repository::lock blocks until no other process or worker holds the lock file.
FileFree(d) == fileLock[d] = None

Goto(t, l) == pc' = [pc EXCEPT ![t] = l]

\* Mutant: an error path keeps the lock file locked.
ReturnKeepingLock(t, k) ==
    /\ Goto(t, "idle")
    /\ mutex' = [p \in Procs |-> IF mutex[p] = t THEN None ELSE mutex[p]]
    /\ UNCHANGED fileLock
    /\ op' = [op EXCEPT ![t] = None]
    /\ work' = [work EXCEPT ![t] = EmptyConfig]
    /\ ticket' = [ticket EXCEPT ![t] = k]

\* Applying a sync result consumes it.
TicketLeft(t) == IF op[t].kind = "apply" THEN None ELSE ticket[t]

\* The worker returns: it drops the mutex and, if it has it, the file lock.
\* A finished call leaves ticket k with its caller.
Return(t, k) ==
    /\ Goto(t, "idle")
    /\ mutex' = [p \in Procs |-> IF mutex[p] = t THEN None ELSE mutex[p]]
    /\ fileLock' = [d \in Dirs |-> IF fileLock[d] = t THEN None ELSE fileLock[d]]
    /\ op' = [op EXCEPT ![t] = None]
    /\ work' = [work EXCEPT ![t] = EmptyConfig]
    /\ ticket' = [ticket EXCEPT ![t] = k]

\* run: the closure is handed to a blocking worker.  A sync result is applied once.
Call(t, r) ==
    /\ pc[t] = "idle"
    /\ calls < MaxCalls
    /\ r.kind = "apply" => ticket[t] # None /\ ticket[t].listing # None
    /\ Goto(t, "queued")
    /\ op' = [op EXCEPT ![t] = r]
    /\ cancelled' = [cancelled EXCEPT ![t] = FALSE]
    /\ calls' = calls + 1
    /\ UNCHANGED <<disk, fileLock, coordinator, mutex, readers, work, ticket, crashes>>

\* CancelCommit::drop: the caller's future is dropped while its worker runs.
Cancel(t) ==
    /\ pc[t] # "idle"
    /\ ~cancelled[t]
    /\ cancelled' = [cancelled EXCEPT ![t] = TRUE]
    /\ UNCHANGED <<disk, fileLock, coordinator, mutex, readers, pc, op, work, ticket, counters>>

\* The worker gets the mutex; a caller already gone ends the call.
Begin(t) ==
    /\ pc[t] = "queued"
    /\ mutex[Owner[t]] = None
    /\ IF cancelled[t]
         THEN Return(t, TicketLeft(t))
         ELSE /\ Goto(t, "begun")
              /\ mutex' = [mutex EXCEPT ![Owner[t]] = t]
              /\ UNCHANGED <<fileLock, op, work, ticket>>
    /\ UNCHANGED <<disk, coordinator, readers, cancelled, counters>>

\* An I/O, JSON or validation error, or a worker panic, before anything is durable.
Fail(t) ==
    /\ pc[t] \in {"begun", "reading", "staged", "writing", "loaded"}
    /\ Return(t, TicketLeft(t))
    /\ UNCHANGED <<disk, coordinator, readers, cancelled, counters>>

-----------------------------------------------------------------------------
(* set_config_dir.                                                         *)

\* Coordinator::load up to the file read, which holds the lock only for itself.
LoadRead(t) ==
    /\ pc[t] = "begun"
    /\ op[t].kind = "load"
    /\ FileFree(op[t].dir)
    /\ work' = [work EXCEPT ![t] = disk[op[t].dir]]
    /\ Goto(t, "loaded")
    /\ UNCHANGED <<disk, fileLock, coordinator, mutex, readers, op, cancelled, ticket, counters>>

LoadPublish(t) ==
    LET p == Owner[t]
        switched == repository[p] # None /\ repository[p] # op[t].dir
    IN  /\ pc[t] = "loaded"
        /\ IF cancelled[t]
             THEN UNCHANGED <<coordinator, published>>
             ELSE /\ generation' = [generation EXCEPT ![p] = generation[p] + 1]
                  /\ repository' = [repository EXCEPT ![p] = op[t].dir]
                  /\ state' = [state EXCEPT ![p] = work[t]]
                  /\ published' = [published EXCEPT ![p] =
                        Publication(published[p], Profiles(work[t]), op[t].dir, switched, {})]
        /\ Return(t, TicketLeft(t))
        /\ UNCHANGED <<disk, held, cancelled, counters>>

-----------------------------------------------------------------------------
(* Transactions: Coordinator::update and ProviderSyncResult::commit.       *)

UpdateKinds == {"add", "remove", "protocol", "restore", "track", "untrack", "edit"}

\* apply_provider_sync: the result must belong to the view being published.
StaleResult(p, k) ==
    \/ repository[p] # k.dir
    \/ generation[p] # k.generation
    \/ published[p].profiles[k.name] = None
    \/ published[p].profiles[k.name].conn # k.conn

\* Repository::lock, after NotConfigured or ProfileChanged.
LockFile(t) ==
    LET p == Owner[t]
    IN  /\ pc[t] = "begun"
        /\ op[t].kind \in UpdateKinds \cup {"apply"}
        /\ \/ /\ repository[p] = None \/ (op[t].kind = "apply" /\ StaleResult(p, ticket[t]))
              /\ Return(t, TicketLeft(t))
           \/ /\ repository[p] # None
              /\ op[t].kind = "apply" => ~StaleResult(p, ticket[t])
              /\ FileFree(repository[p])
              /\ fileLock' = [fileLock EXCEPT ![repository[p]] = t]
              /\ Goto(t, "reading")
              /\ UNCHANGED <<mutex, op, work, ticket>>
        /\ UNCHANGED <<disk, coordinator, readers, cancelled, counters>>

\* What the transaction starts from: the file, session rows and definitions.
Base(p) == EnsureDefinitions(ReconcileSession(disk[repository[p]], state[p]))

\* Mutant: any account of that name will do.
AccountMissing(k, cfg) == ~HasProfile(cfg, k.name)

\* commit: the account must still exist, unchanged, in the file.
AccountChanged(k, cfg) ==
    ~HasProfile(cfg, k.name) \/ cfg.accounts[k.name].conn # k.conn

Stage(t) ==
    LET base == Base(Owner[t])
        rejected == IF op[t].kind = "apply" THEN AccountChanged(ticket[t], base)
                                            ELSE Rejects(op[t], base)
    IN  /\ pc[t] = "reading"
        /\ \/ rejected /\ Return(t, TicketLeft(t))
           \/ /\ ~rejected
              /\ work' = [work EXCEPT ![t] = RefreshFallbacks(
                    IF op[t].kind = "apply" THEN Observe(ticket[t], base)
                                            ELSE Change(op[t], base))]
              /\ Goto(t, "staged")
              /\ UNCHANGED <<fileLock, mutex, op, ticket>>
        /\ UNCHANGED <<disk, coordinator, readers, cancelled, counters>>

\* The last look at the cancellation flag.
CheckCancel(t) ==
    /\ pc[t] = "staged"
    /\ IF cancelled[t]
         THEN Return(t, TicketLeft(t))
         ELSE Goto(t, "writing") /\ UNCHANGED <<mutex, fileLock, op, work, ticket>>
    /\ UNCHANGED <<disk, coordinator, readers, cancelled, counters>>

\* Repository::write (an atomic rename), Coordinator::install, the lock file closed.
Write(t) ==
    LET p == Owner[t]
    IN  /\ pc[t] = "writing"
        /\ disk' = [disk EXCEPT ![repository[p]] = Persisted(work[t])]
        /\ state' = [state EXCEPT ![p] = work[t]]
        /\ fileLock' = [fileLock EXCEPT ![repository[p]] = None]
        /\ Goto(t, "publish")
        /\ UNCHANGED <<repository, generation, mutex, readers, op, cancelled, work, ticket, counters>>

\* Mutant: publication, too, gives up when the caller is gone.
PublishUnlessCancelled(t) ==
    LET p == Owner[t]
    IN  /\ pc[t] = "publish"
        /\ IF cancelled[t] THEN UNCHANGED published
           ELSE published' = [published EXCEPT ![p] =
              Publication(published[p], Profiles(work[t]), repository[p], FALSE, Forced(op[t]))]
        /\ Return(t, TicketLeft(t))
        /\ UNCHANGED <<disk, coordinator, held, cancelled, counters>>

\* update_configuration, apply_provider_sync: the commit is published, whoever waits.
Publish(t) ==
    LET p == Owner[t]
    IN  /\ pc[t] = "publish"
        /\ published' = [published EXCEPT ![p] =
              Publication(published[p], Profiles(work[t]), repository[p], FALSE, Forced(op[t]))]
        /\ Return(t, TicketLeft(t))
        /\ UNCHANGED <<disk, coordinator, held, cancelled, counters>>

-----------------------------------------------------------------------------
(* Account bindings, directory fetches, request snapshots, crashes.        *)

\* register_profile_account_source
BindSource(t) ==
    LET p == Owner[t]
        old == published[p]
    IN  /\ pc[t] = "begun"
        /\ op[t].kind = "bind"
        /\ IF old.profiles[op[t].name] = None
             THEN UNCHANGED published
             ELSE published' = [published EXCEPT ![p] =
                    [old EXCEPT !.revision = old.revision + 1,
                                !.bindings = [old.bindings EXCEPT ![op[t].name] =
                                    [namespace |-> old.namespace,
                                     conn |-> old.profiles[op[t].name].conn]]]]
        /\ Return(t, TicketLeft(t))
        /\ UNCHANGED <<disk, coordinator, held, cancelled, counters>>

\* Mutant: a fetch may be prepared before any directory is loaded.
PrepareUnconfigured(t) ==
    LET p == Owner[t]
        n == op[t].name
    IN  /\ pc[t] = "begun"
        /\ op[t].kind = "prepare"
        /\ IF cancelled[t] \/ published[p].profiles[n] = None
             THEN Return(t, TicketLeft(t))
             ELSE Return(t, [dir |-> repository[p], generation |-> generation[p], name |-> n,
                             conn |-> published[p].profiles[n].conn, listing |-> None])
        /\ UNCHANGED <<disk, coordinator, readers, cancelled, counters>>

\* prepare_provider_sync: nothing is delivered to a caller that is gone.
PrepareSync(t) ==
    LET p == Owner[t]
        n == op[t].name
    IN  /\ pc[t] = "begun"
        /\ op[t].kind = "prepare"
        /\ IF cancelled[t] \/ repository[p] = None \/ published[p].profiles[n] = None
             THEN Return(t, TicketLeft(t))
             ELSE Return(t, [dir |-> repository[p], generation |-> generation[p], name |-> n,
                             conn |-> published[p].profiles[n].conn, listing |-> None])
        /\ UNCHANGED <<disk, coordinator, readers, cancelled, counters>>

\* ProviderSyncOperation::fetch: the file is checked, then the pages are read
\* with no lock held.  It ends with a listing or an error, or is dropped.
Fetch(t) ==
    LET k == ticket[t]
    IN  /\ pc[t] = "idle"
        /\ k # None
        /\ k.listing = None
        /\ \/ /\ FileFree(k.dir)
              /\ ~AccountChanged(k, EnsureDefinitions(disk[k.dir]))
              /\ \E l \in Listings : ticket' = [ticket EXCEPT ![t] = [k EXCEPT !.listing = l]]
           \/ ticket' = [ticket EXCEPT ![t] = None]
        /\ UNCHANGED <<disk, fileLock, coordinator, mutex, readers, pc, op, cancelled, work, counters>>

\* A request pins the view it will use for all of its attempts.
TakeSnapshot(p) ==
    /\ p \in Readers
    /\ held' = [held EXCEPT ![p] = published[p]]
    /\ UNCHANGED <<disk, fileLock, coordinator, mutex, published,
                   pc, op, cancelled, work, ticket, counters>>

\* The process dies and starts again; the kernel drops its file locks.
Crash(p) ==
    /\ crashes < MaxCrashes
    /\ crashes' = crashes + 1
    /\ fileLock' = [d \in Dirs |-> IF fileLock[d] # None /\ Owner[fileLock[d]] = p
                                   THEN None ELSE fileLock[d]]
    /\ repository' = [repository EXCEPT ![p] = None]
    /\ generation' = [generation EXCEPT ![p] = 0]
    /\ state' = [state EXCEPT ![p] = EmptyConfig]
    /\ mutex' = [mutex EXCEPT ![p] = None]
    /\ published' = [published EXCEPT ![p] = InitialPublished]
    /\ held' = [held EXCEPT ![p] = None]
    /\ pc' = [t \in Tasks |-> IF Owner[t] = p THEN "idle" ELSE pc[t]]
    /\ op' = [t \in Tasks |-> IF Owner[t] = p THEN None ELSE op[t]]
    /\ cancelled' = [t \in Tasks |-> IF Owner[t] = p THEN FALSE ELSE cancelled[t]]
    /\ work' = [t \in Tasks |-> IF Owner[t] = p THEN EmptyConfig ELSE work[t]]
    /\ ticket' = [t \in Tasks |-> IF Owner[t] = p THEN None ELSE ticket[t]]
    /\ UNCHANGED <<disk, calls>>

Worker(t) ==
    \/ Begin(t) \/ LoadRead(t) \/ LoadPublish(t) \/ LockFile(t) \/ Stage(t)
    \/ CheckCancel(t) \/ Write(t) \/ Publish(t) \/ BindSource(t) \/ PrepareSync(t)

Next ==
    \/ \E t \in Tasks : \E r \in Requests : Call(t, r)
    \/ \E t \in Tasks : Cancel(t) \/ Fail(t) \/ Fetch(t) \/ Worker(t)
    \/ \E p \in Procs : TakeSnapshot(p) \/ Crash(p)

\* A spawned blocking worker runs to its end; callers need not call, cancel or crash.
Fairness == \A t \in Tasks : WF_vars(Worker(t))

Spec == Init /\ [][Next]_vars /\ Fairness

-----------------------------------------------------------------------------
(* Properties.                                                             *)

Labels == {"idle", "queued", "begun", "reading", "staged", "writing", "publish", "loaded"}

\* Every variable has its type: no operation leaves a malformed configuration,
\* published view, ticket or lock behind.
TypeOK ==
    /\ disk \in [Dirs -> SavedConfig]
    /\ fileLock \in [Dirs -> Tasks \cup {None}]
    /\ repository \in [Procs -> Dirs \cup {None}]
    /\ generation \in [Procs -> Nat]
    /\ state \in [Procs -> SavedConfig]
    /\ mutex \in [Procs -> Tasks \cup {None}]
    /\ published \in [Procs -> PublishedState]
    /\ held \in [Procs -> PublishedState \cup {None}]
    /\ pc \in [Tasks -> Labels]
    /\ op \in [Tasks -> Requests \cup {None}]
    /\ cancelled \in [Tasks -> BOOLEAN]
    /\ work \in [Tasks -> SavedConfig]
    /\ ticket \in [Tasks -> Ticket \cup {None}]
    /\ calls \in Nat
    /\ crashes \in Nat

\* Whoever gets the writer mutex finds memory and the published view in
\* agreement: a commit that reached the file has been published by then, even
\* when its caller was dropped halfway (ClientConfigManager's contract).
CommittedIsPublished ==
    \A p \in Procs :
        mutex[p] = None /\ repository[p] # None =>
            /\ published[p].profiles = Profiles(state[p])
            /\ published[p].dir = repository[p]

\* Provider files are cached under (namespace, generation) of the snapshot a
\* request pinned.  An older snapshot and the current one share such a key for
\* a profile only if the profile, and the directory it came from, are the same;
\* removing and recreating an account, or switching back, never revives a key.
CacheKeyIdentifiesProfile ==
    \A p \in Procs : \A n \in Names :
        LET old == held[p]
            new == published[p]
        IN  (/\ old # None
             /\ old.profiles[n] # None
             /\ new.profiles[n] # None
             /\ old.namespace = new.namespace
             /\ old.generations[n] = new.generations[n])
            => /\ old.profiles[n] = new.profiles[n]
               /\ old.dir # None => old.dir = new.dir

\* Every published profile has a cache generation: the executor indexes
\* cache_generations by name and would panic without one.
ProfilesHaveGenerations ==
    \A p \in Procs : \A n \in Names :
        published[p].profiles[n] # None => published[p].generations[n] # NoGeneration

\* An account source stays bound only while its profile keeps the connection,
\* and the directory, it was bound under.
BindingsMatchConnections ==
    \A p \in Procs : \A n \in Names :
        LET b == published[p].bindings[n]
        IN  b # None => /\ published[p].profiles[n] # None
                        /\ b.conn = published[p].profiles[n].conn
                        /\ b.namespace = published[p].namespace

\* What the file keeps of a model of an account.
SavedModel(a, m) ==
    [row |-> m \in a.rows, edited |-> m \in a.edited, seen |-> a.seen[m]]

\* A transaction on one account writes back the rows and observations of every
\* other account as the file has them, inherited rows included, whatever this
\* process remembers of an older version of the file: nothing that is still
\* tracked is lost or rolled back.
DurableRowsSurvive ==
    [][\A t \in Tasks : Write(t) =>
          LET d == repository[Owner[t]]
              mine == IF op[t].kind = "apply" THEN ticket[t].name ELSE op[t].name
          IN  \A n \in Names \ {mine} : \A m \in disk'[d].tracked :
                LET before == disk[d].accounts[n]
                    after == disk'[d].accounts[n]
                IN  before # None /\ (m \in before.rows \/ before.seen[m] # None) =>
                        after # None /\ SavedModel(after, m) = SavedModel(before, m)]_vars

\* The connections a reader of the file would see.
ConnsOf(cfg) ==
    [n \in Names |-> IF Profiles(cfg)[n] = None THEN None ELSE Profiles(cfg)[n].conn]

Pending == [t \in Tasks |-> IF pc[t] \in {"idle", "publish"} THEN None ELSE op[t]]

Atomic == INSTANCE AtomicConfig WITH
              conns <- [d \in Dirs |-> ConnsOf(disk[d])],
              pending <- Pending,
              DefaultConn <- [n \in Names |-> IF Catalog[n] = None THEN None
                                              ELSE Catalog[n].conn]

\* Transactions of all processes are linearizable: each takes effect once, at
\* the rename, on the accounts the file holds then, or not at all.
AtomicUpdates == Atomic!Spec

\* Observations fetched over one connection are never filed under another: an
\* observation that a sync changes in the file names the connection the account
\* has there, before and after, or is one that this process remembers.
ObservationsMatchConnection ==
    [][\A t \in Tasks : Write(t) /\ op[t].kind = "apply" =>
          \A n \in Names : \A m \in Models :
              LET before == disk[repository[Owner[t]]].accounts[n]
                  after == disk'[repository[Owner[t]]].accounts[n]
                  remembered == state[Owner[t]].accounts[n]
              IN  (/\ after # None
                   /\ after.seen[m] # None
                   /\ before # None => after.seen[m] # before.seen[m])
                  => \/ /\ after.seen[m] = after.conn
                        /\ before # None => before.conn = after.conn
                     \/ remembered # None /\ after.seen[m] = remembered.seen[m]]_vars

\* Every call returns: the two locks are always taken in the same order and a
\* worker ends, so nobody waits for ever on the mutex or the file lock.
CallsReturn == \A t \in Tasks : pc[t] = "queued" ~> pc[t] = "idle"

-----------------------------------------------------------------------------
(* The inductive invariant behind the safety properties.                   *)

Critical == {"begun", "reading", "staged", "writing", "publish", "loaded"}
Transacting == {"reading", "staged", "writing"}

\* What a worker may rely on at each of its steps: the locks it holds, the
\* directory it works on, the request and the ticket it was given.
WorkerInv ==
    \A t \in Tasks :
        /\ pc[t] # "idle" =>
             /\ op[t] # None
             /\ op[t].kind = "apply" => ticket[t] # None /\ ticket[t].listing # None
        /\ pc[t] \in Critical => mutex[Owner[t]] = t
        /\ pc[t] = "loaded" => op[t].kind = "load"
        /\ pc[t] \in Transacting =>
             /\ op[t].kind \in UpdateKinds \cup {"apply"}
             /\ repository[Owner[t]] # None
             /\ fileLock[repository[Owner[t]]] = t
        /\ pc[t] = "publish" =>
             /\ repository[Owner[t]] # None
             /\ work[t] = state[Owner[t]]

\* Memory and the published view differ only while a worker has a commit to publish.
PublicationInv ==
    \A p \in Procs :
        repository[p] # None /\ (\A t \in Tasks : Owner[t] = p => pc[t] # "publish") =>
            /\ published[p].profiles = Profiles(state[p])
            /\ published[p].dir = repository[p]

\* A staged configuration is the request's effect on the file as it is now.
StagedInv ==
    \A t \in Tasks :
        pc[t] \in {"staged", "writing"} =>
            ConnsOf(Persisted(work[t])) =
                Atomic!Effect(op[t], ConnsOf(disk[repository[Owner[t]]]))

StoreInv == TypeOK /\ WorkerInv /\ PublicationInv /\ StagedInv
=============================================================================
