------------------------------ MODULE FileCache ------------------------------
(***************************************************************************)
(* The provider file cache of AttachmentManager (client/attachments/) as   *)
(* concurrent requests use it: the single-flight upload of an attachment,  *)
(* the expiry and the capacity of the cache, and the one repair after the  *)
(* provider answers 404 for a file (client/executor.rs, run_inner).        *)
(*                                                                         *)
(* A job is one attachment of one request.  KeyOf gives the FileCacheKey   *)
(* of a job, fixed by the snapshot its request pinned, or None when the    *)
(* request has no stable account scope.  The map of Weak upload locks is   *)
(* one mutex per key: a lock that can still be upgraded is one that some   *)
(* job holds or waits for, so all jobs of a key always meet at one lock.   *)
(* Model requests to the provider, other errors and cancellation end a     *)
(* request at any await.  Time is a counter; a timer fires before time     *)
(* passes its deadline.                                                    *)
(***************************************************************************)
EXTENDS Naturals, FiniteSets

CONSTANTS
    Requests,       \* concurrent requests of one client
    Attachments,
    Uses,           \* Uses[r]: the attachments of r that are uploaded
    Keys,           \* cache keys
    KeyOf,          \* KeyOf[r][a]: the key of attachment a in request r, or None
    Concurrency,    \* ATTACHMENT_CONCURRENCY
    MaxEntries,     \* MAX_PROVIDER_FILE_CACHE_ENTRIES
    Retentions,     \* what automatic_file_cache_ttl or the plan may give, or None
    Lifetimes,      \* how long a provider keeps a new file, or None
    Timeout,        \* Timeout[r]: RequestOptions.total_timeout, or None
    MaxUploads,     \* bound on the number of uploads
    MaxTime,        \* bound on the clock
    None

VARIABLES
    now,
    cache,      \* cache[k]: the CachedProviderFile of key k, or None
    lock,       \* lock[k]: the job that holds k's upload lock, or None
    uploads,    \* how many files were uploaded: the last file id
    expiry,     \* expiry[f]: the provider's expires_at of file f, or None
    alive,      \* the files the provider still has
    phase,      \* phase[r]: where request r is
    job,        \* job[r][a]: where the preparation of a is
    used,       \* used[r][a]: the file prepared for a, or None
    missing,    \* missing[r]: attachments whose file the 404 named, still to invalidate
    repaired,   \* repaired[r]: whether the attempt was already repeated
    rejected,   \* rejected[r]: the files a 404 to r named
    begun,      \* begun[r]: when r started, for its deadline
    since       \* since[r]: when r's current pass over its attachments started

provider == <<uploads, expiry, alive>>
history == <<rejected, begun, since>>
vars == <<now, cache, lock, provider, phase, job, used, missing, repaired, history>>

Time == 0 .. MaxTime
FileIds == 1 .. MaxUploads
Entry == [file : FileIds, expires : Nat \cup {None}, at : Time]
Jobs == {<<r, a>> : r \in Requests, a \in Attachments}

ASSUME FileCacheAssumption ==
    /\ Uses \in [Requests -> SUBSET Attachments]
    /\ KeyOf \in [Requests -> [Attachments -> Keys \cup {None}]]
    /\ Concurrency \in Nat \ {0}
    /\ MaxEntries \in Nat \ {0}
    /\ Retentions \subseteq Nat \cup {None}
    /\ Lifetimes \subseteq (Nat \ {0}) \cup {None}
    /\ Timeout \in [Requests -> Nat \cup {None}]
    /\ MaxUploads \in Nat
    /\ MaxTime \in Nat
    /\ None \notin Nat \cup Keys \cup Entry \cup Jobs
    /\ IsFiniteSet(Keys)

-----------------------------------------------------------------------------
(* The cache.                                                              *)

Expired(e, t) == e # None /\ e <= t

After(d, t) == IF d = None THEN None ELSE t + d

Entries(c) == {k \in Keys : c[k] # None}

\* prune_expired_provider_files
Pruned(c, t) ==
    [k \in Keys |-> IF c[k] # None /\ Expired(c[k].expires, t) THEN None ELSE c[k]]

\* Mutant: only the retention period is checked.
CachedFilesRetained(c, k, t) == Pruned(c, t)

\* cached_file: what is left after pruning and after evicting a file whose
\* provider lifetime is over.
CachedFiles(c, k, t) ==
    LET p == Pruned(c, t)
    IN  IF p[k] # None /\ Expired(expiry[p[k].file], t) THEN [p EXCEPT ![k] = None] ELSE p

\* cap_provider_file_cache: the oldest entry goes.  One insertion exceeds the
\* capacity by at most one; entries of the same age are told apart by their key.
Overflow(c) ==
    IF Cardinality(Entries(c)) <= MaxEntries THEN {{}}
    ELSE {{k} : k \in {o \in Entries(c) : \A e \in Entries(c) : c[o].at <= c[e].at}}

\* cache_file: prune, insert, cap.
CacheFile(k, f, retention) ==
    LET c == [Pruned(cache, now) EXCEPT
                 ![k] = [file |-> f, expires |-> After(retention, now), at |-> now]]
    IN  \E evicted \in Overflow(c) :
            cache' = [e \in Keys |-> IF e \in evicted THEN None ELSE c[e]]

-----------------------------------------------------------------------------
(* Requests.                                                               *)

Init ==
    /\ now = 0
    /\ cache = [k \in Keys |-> None]
    /\ lock = [k \in Keys |-> None]
    /\ uploads = 0
    /\ expiry = [f \in FileIds |-> None]
    /\ alive = {}
    /\ phase = [r \in Requests |-> "idle"]
    /\ job = [r \in Requests |-> [a \in Attachments |-> "new"]]
    /\ used = [r \in Requests |-> [a \in Attachments |-> None]]
    /\ missing = [r \in Requests |-> {}]
    /\ repaired = [r \in Requests |-> FALSE]
    /\ rejected = [r \in Requests |-> {}]
    /\ begun = [r \in Requests |-> 0]
    /\ since = [r \in Requests |-> 0]

Active == {"preparing", "sending", "repairing"}

\* Mutant: a guard is forgotten rather than dropped.
NothingReleased(r) == lock

\* Dropping a request's futures drops their guards.
Released(r) ==
    [k \in Keys |-> IF lock[k] # None /\ lock[k][1] = r THEN None ELSE lock[k]]

\* The pass over the attachments starts from nothing.
Fresh(r) ==
    /\ phase' = [phase EXCEPT ![r] = "preparing"]
    /\ job' = [job EXCEPT ![r] = [a \in Attachments |-> "new"]]
    /\ used' = [used EXCEPT ![r] = [a \in Attachments |-> None]]
    /\ since' = [since EXCEPT ![r] = now]

\* An error, a timeout or the caller ends the request.
End(r, outcome) ==
    /\ phase' = [phase EXCEPT ![r] = outcome]
    /\ lock' = Released(r)
    /\ UNCHANGED <<job, used, missing, repaired, history>>

\* run_inner
Start(r) ==
    /\ phase[r] = "idle"
    /\ Fresh(r)
    /\ begun' = [begun EXCEPT ![r] = now]
    /\ UNCHANGED <<now, cache, lock, provider, missing, repaired, rejected>>

\* buffer_unordered: a bounded number of jobs is polled at a time.
StartJob(r, a) ==
    /\ phase[r] = "preparing"
    /\ job[r][a] = "new"
    /\ Cardinality({b \in Uses[r] : job[r][b] \in {"waiting", "uploading"}}) < Concurrency
    /\ job' = [job EXCEPT ![r][a] = IF KeyOf[r][a] = None THEN "uploading" ELSE "waiting"]
    /\ UNCHANGED <<now, cache, lock, provider, phase, used, missing, repaired, history>>

\* Mutant: whoever comes looks at the cache without waiting.
UnlockedFor(k) == TRUE

LockFree(k) == lock[k] = None

\* The upload lock is taken and the cache consulted, with no await in between.
LookUp(r, a) ==
    LET k == KeyOf[r][a]
        c == CachedFiles(cache, k, now)
    IN  /\ phase[r] = "preparing"
        /\ job[r][a] = "waiting"
        /\ LockFree(k)
        /\ cache' = c
        /\ IF c[k] # None
             THEN /\ job' = [job EXCEPT ![r][a] = "ready"]
                  /\ used' = [used EXCEPT ![r][a] = c[k].file]
                  /\ UNCHANGED lock
             ELSE /\ job' = [job EXCEPT ![r][a] = "uploading"]
                  /\ lock' = [lock EXCEPT ![k] = <<r, a>>]
                  /\ UNCHANGED used
        /\ UNCHANGED <<now, provider, phase, missing, repaired, history>>

\* upload_automatic succeeds: the file is cached and the lock released.
Upload(r, a) ==
    LET k == KeyOf[r][a]
        f == uploads + 1
    IN  /\ phase[r] = "preparing"
        /\ job[r][a] = "uploading"
        /\ uploads < MaxUploads
        /\ uploads' = f
        /\ alive' = alive \cup {f}
        /\ \E life \in Lifetimes : expiry' = [expiry EXCEPT ![f] = After(life, now)]
        /\ IF k = None
             THEN UNCHANGED <<cache, lock>>
             ELSE /\ \E ttl \in Retentions : CacheFile(k, f, ttl)
                  /\ lock' = [lock EXCEPT ![k] = None]
        /\ job' = [job EXCEPT ![r][a] = "ready"]
        /\ used' = [used EXCEPT ![r][a] = f]
        /\ UNCHANGED <<now, phase, missing, repaired, history>>

\* A failed upload ends the pass, and with it every other job of the request.
UploadFails(r) ==
    /\ phase[r] = "preparing"
    /\ \E a \in Uses[r] : job[r][a] = "uploading"
    /\ End(r, "failed")
    /\ UNCHANGED <<now, cache, provider>>

AllReady(r) == phase[r] = "preparing" /\ \A a \in Uses[r] : job[r][a] = "ready"

ExpiredUses(r) == {a \in Uses[r] : Expired(expiry[used[r][a]], now)}

\* validate_prepared_file_expirations, repeated up to the model write.
ExpiredPreflight(r) ==
    /\ AllReady(r)
    /\ ExpiredUses(r) # {}
    /\ End(r, "failed")
    /\ UNCHANGED <<now, cache, provider>>

Send(r) ==
    /\ AllReady(r)
    /\ ExpiredUses(r) = {}
    /\ phase' = [phase EXCEPT ![r] = "sending"]
    /\ UNCHANGED <<now, cache, lock, provider, job, used, missing, repaired, history>>

DeadUses(r) == {a \in Uses[r] : used[r][a] \notin alive}

\* The provider answers, or refuses for a reason that names no file.
Answer(r) ==
    /\ phase[r] = "sending"
    /\ \/ DeadUses(r) = {} /\ End(r, "done")
       \/ End(r, "failed")
    /\ UNCHANGED <<now, cache, provider>>

\* missing_provider_file_uses: a 404 whose body names some of the files.
\* The same attempt is made once more, whatever the outcome of the second.
NotFound(r) ==
    /\ phase[r] = "sending"
    /\ DeadUses(r) # {}
    /\ ~repaired[r]
    /\ \E named \in SUBSET Uses[r] \ {{}} :
          /\ missing' = [missing EXCEPT ![r] = named]
          /\ rejected' = [rejected EXCEPT ![r] = {used[r][a] : a \in named}]
    /\ phase' = [phase EXCEPT ![r] = "repairing"]
    /\ UNCHANGED <<now, cache, lock, provider, job, used, repaired, begun, since>>

\* Mutant: the entry goes, whichever file it holds by now.
InvalidatedByKey(c, k, f) == [Pruned(c, now) EXCEPT ![k] = None]

\* Mutant: the entry is believed to be somebody else's newer file.
NeverInvalidated(c, k, f) == Pruned(c, now)

\* invalidate_provider_file_cache removes an entry only if it still holds the file.
Invalidated(c, k, f) ==
    LET p == Pruned(c, now)
    IN  IF p[k] # None /\ p[k].file = f THEN [p EXCEPT ![k] = None] ELSE p

\* One round of its loop, which waits for the upload lock of the key.
Invalidate(r) ==
    LET a == CHOOSE b \in missing[r] : TRUE
        k == KeyOf[r][a]
    IN  /\ phase[r] = "repairing"
        /\ missing[r] # {}
        /\ \/ k = None /\ UNCHANGED cache
           \/ k # None /\ LockFree(k) /\ cache' = Invalidated(cache, k, used[r][a])
        /\ missing' = [missing EXCEPT ![r] = missing[r] \ {a}]
        /\ UNCHANGED <<now, lock, provider, phase, job, used, repaired, history>>

Repeat(r) ==
    /\ phase[r] = "repairing"
    /\ missing[r] = {}
    /\ Fresh(r)
    /\ repaired' = [repaired EXCEPT ![r] = TRUE]
    /\ UNCHANGED <<now, cache, lock, provider, missing, rejected, begun>>

\* The caller drops the request.
Drop(r) ==
    /\ phase[r] \in Active
    /\ End(r, "dropped")
    /\ UNCHANGED <<now, cache, provider>>

-----------------------------------------------------------------------------
(* Time and the provider.                                                  *)

Deadline(r) == IF Timeout[r] = None THEN None ELSE begun[r] + Timeout[r]

\* within_deadline covers preparation and the exchange, not the invalidation.
TimerRuns(r) == phase[r] \in {"preparing", "sending"} /\ Deadline(r) # None

TimeOut(r) ==
    /\ TimerRuns(r)
    /\ now >= Deadline(r)
    /\ End(r, "failed")
    /\ UNCHANGED <<now, cache, provider>>

\* A repair takes time only while it waits for somebody's upload.
RepairWaits(r) ==
    /\ missing[r] # {}
    /\ LET k == KeyOf[r][CHOOSE b \in missing[r] : TRUE] IN k # None /\ ~LockFree(k)

Tick ==
    /\ now < MaxTime
    /\ \A r \in Requests : TimerRuns(r) => now < Deadline(r)
    /\ \A r \in Requests : phase[r] = "repairing" => RepairWaits(r)
    /\ now' = now + 1
    /\ UNCHANGED <<cache, lock, provider, phase, job, used, missing, repaired, history>>

\* The provider deletes a file early.
Lose(f) ==
    /\ f \in alive
    /\ alive' = alive \ {f}
    /\ UNCHANGED <<now, cache, lock, uploads, expiry, phase, job, used, missing, repaired, history>>

Step(r) ==
    \/ \E a \in Uses[r] : StartJob(r, a) \/ LookUp(r, a) \/ Upload(r, a)
    \/ UploadFails(r) \/ ExpiredPreflight(r) \/ Send(r) \/ Answer(r) \/ NotFound(r)
    \/ Invalidate(r) \/ Repeat(r) \/ TimeOut(r)

Next ==
    \/ \E r \in Requests : Start(r) \/ Step(r) \/ Drop(r)
    \/ \E f \in FileIds : Lose(f)
    \/ Tick

\* A request that is polled takes its steps; the transport ends every upload
\* and every exchange, with an error if nothing else.
Fairness == \A r \in Requests : WF_vars(Step(r))

Spec == Init /\ [][Next]_vars /\ Fairness

-----------------------------------------------------------------------------
(* Properties.                                                             *)

\* Every variable has its type.
TypeOK ==
    /\ now \in Time
    /\ cache \in [Keys -> Entry \cup {None}]
    /\ lock \in [Keys -> Jobs \cup {None}]
    /\ uploads \in 0 .. MaxUploads
    /\ expiry \in [FileIds -> Nat \cup {None}]
    /\ alive \in SUBSET FileIds
    /\ phase \in [Requests -> Active \cup {"idle", "done", "failed", "dropped"}]
    /\ job \in [Requests -> [Attachments -> {"new", "waiting", "uploading", "ready"}]]
    /\ used \in [Requests -> [Attachments -> FileIds \cup {None}]]
    /\ missing \in [Requests -> SUBSET Attachments]
    /\ repaired \in [Requests -> BOOLEAN]
    /\ rejected \in [Requests -> SUBSET FileIds]
    /\ begun \in [Requests -> Time]
    /\ since \in [Requests -> Time]

\* An attachment is not uploaded twice under one key: whatever was dropped,
\* evicted or invalidated meanwhile, the entry is still empty when an upload
\* ends, and no file another request just paid for is overwritten.
UploadsNeverCollide ==
    [][\A r \in Requests : \A a \in Uses[r] :
          Upload(r, a) /\ KeyOf[r][a] # None => cache[KeyOf[r][a]] = None]_vars

\* The repeated attempt never sends a file the provider has just denied.
RepairUsesAnotherFile ==
    \A r \in Requests : repaired[r] =>
        \A a \in Uses[r] : used[r][a] \notin rejected[r]

\* A late 404 about an old file does not evict the file that replaced it.
InvalidationSparesNewFiles ==
    [][\A r \in Requests : Invalidate(r) =>
          \A k \in Keys :
              cache[k] # None /\ cache'[k] = None /\ ~Expired(cache[k].expires, now) =>
                  cache[k].file \in rejected[r]]_vars

\* Preflight refuses a request only over a file that aged while the request
\* was being prepared: a cached file that is already over is uploaded again
\* (cached_file's comment), so the same error cannot come back for ever.
PreflightFailsOnlyOnAging ==
    [][\A r \in Requests : ExpiredPreflight(r) =>
          \A a \in ExpiredUses(r) : expiry[used[r][a]] > since[r]]_vars

\* The cache never exceeds its capacity, whatever the mix of insertions and expiry.
CacheBounded == Cardinality(Entries(cache)) <= MaxEntries

\* Every request ends, so that again and again none is under way: no upload lock
\* outlives its request, and requests that take several of them one by one never
\* wait for each other in a circle.
RequestsEnd == []<>(\A r \in Requests : phase[r] \notin Active)

\* RequestOptions.total_timeout: "Total request deadline, including response
\* body reads" (options.rs).
EndsByDeadline ==
    \A r \in Requests : phase[r] \in Active /\ Deadline(r) # None => now <= Deadline(r)
=============================================================================
