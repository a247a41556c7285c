--------------------------- MODULE AttachmentProofs ---------------------------
(***************************************************************************)
(* What the two caches of the AttachmentManager guarantee for any number   *)
(* of requests, attachments, keys and contents.                            *)
(*                                                                         *)
(* The provider file cache: uploads of one key never collide, the repeated *)
(* attempt uses no file a 404 has named, a late 404 spares newer files,    *)
(* preflight refuses only what aged meanwhile, and the capacity holds.     *)
(* The argument follows the upload lock.  A job that uploads under a key   *)
(* holds the key's lock and the entry is empty until it is released        *)
(* (LocksInv).  So a file enters the cache once, under one key, with an id *)
(* that nobody has used before (FilesInv), and an entry that holds a file  *)
(* some 404 named is one that the repair has yet to visit (RepairInv).     *)
(*                                                                         *)
(* The content cache keeps its limits and counts its bytes, and with the   *)
(* file cache beside it so does the whole manager.                         *)
(***************************************************************************)
EXTENDS ContentCache, TLAPS, FiniteSetTheorems, WellFoundedInduction

USE FileCacheAssumption

-----------------------------------------------------------------------------
(* The inductive invariant.                                                *)

\* The job of an attachment, as the locks name it.
Job(r, a) == <<r, a>>

\* A lock is held exactly by the job that uploads under its key, and nothing is
\* cached under the key meanwhile.
LocksInv ==
    /\ \A k \in Keys : \A r \in Requests : \A a \in Attachments :
          lock[k] = Job(r, a) =>
              /\ phase[r] = "preparing"
              /\ a \in Uses[r]
              /\ job[r][a] = "uploading"
              /\ KeyOf[r][a] = k
    /\ \A r \in Requests : \A a \in Uses[r] :
          phase[r] = "preparing" /\ job[r][a] = "uploading" /\ KeyOf[r][a] # None =>
              lock[KeyOf[r][a]] = Job(r, a)
    /\ \A k \in Keys : lock[k] # None => cache[k] = None

\* A job that waits has a key to wait for, an attachment that is ready has its
\* file, and a request that was sent has all of them.
ReadyInv ==
    \A r \in Requests :
        /\ \A a \in Attachments : job[r][a] = "waiting" => KeyOf[r][a] # None
        /\ \A a \in Attachments : job[r][a] = "ready" => used[r][a] # None
        /\ phase[r] \in {"sending", "repairing"} => \A a \in Uses[r] : job[r][a] = "ready"
        /\ phase[r] = "repairing" => missing[r] \subseteq Uses[r]

\* Files are numbered in the order of their upload, and a file is cached only
\* under the key it was uploaded under.
FilesInv ==
    /\ \A k \in Keys : cache[k] # None => cache[k].file <= uploads
    /\ \A r \in Requests : \A a \in Attachments : used[r][a] # None => used[r][a] <= uploads
    /\ \A r \in Requests : \A f \in rejected[r] : f <= uploads
    /\ \A j, k \in Keys :
          cache[j] # None /\ cache[k] # None /\ cache[j].file = cache[k].file => j = k
    /\ \A r \in Requests : \A a \in Uses[r] : \A k \in Keys :
          cache[k] # None /\ cache[k].file = used[r][a] => KeyOf[r][a] = k

\* A file that a 404 to r named stays in the cache at most until the repair has
\* visited the attachment it was prepared for.
RepairInv ==
    \A r \in Requests :
        /\ phase[r] = "repairing" => \A a \in missing[r] : used[r][a] \in rejected[r]
        /\ phase[r] = "repairing" =>
              \A k \in Keys : cache[k] # None /\ cache[k].file \in rejected[r] =>
                  \E a \in missing[r] : KeyOf[r][a] = k /\ used[r][a] = cache[k].file
        /\ repaired[r] => \A k \in Keys : cache[k] # None => cache[k].file \notin rejected[r]
        /\ repaired[r] => \A a \in Uses[r] : used[r][a] \notin rejected[r]

\* A file that a pass prepared was not over when the pass began.
AgeInv ==
    \A r \in Requests :
        /\ since[r] <= now
        /\ \A a \in Uses[r] :
              job[r][a] = "ready" /\ expiry[used[r][a]] # None =>
                  expiry[used[r][a]] > since[r]

FileCacheInv ==
    TypeOK /\ LocksInv /\ ReadyInv /\ FilesInv /\ RepairInv /\ AgeInv /\ CacheBounded

-----------------------------------------------------------------------------
(* What the operations of the cache do to its entries.                     *)

Caches == [Keys -> Entry \cup {None}]

\* d keeps entries of c as they are or drops them.
Shrinks(c, d) == d \in Caches /\ \A k \in Keys : d[k] = c[k] \/ d[k] = None

\* prune_expired_provider_files only drops entries.
LEMMA Pruning ==
    ASSUME NEW c \in Caches, NEW t PROVE Shrinks(c, Pruned(c, t))
  BY DEF Shrinks, Pruned, Caches

\* cached_file only drops entries, and leaves no file that is over.
LEMMA Consulting ==
    ASSUME NEW c \in Caches, NEW k \in Keys, NEW t
    PROVE  /\ Shrinks(c, CachedFiles(c, k, t))
           /\ CachedFiles(c, k, t)[k] # None =>
                 ~Expired(expiry[CachedFiles(c, k, t)[k].file], t)
<1> DEFINE p == Pruned(c, t)
<1>1. Shrinks(c, p)
  BY Pruning
<1>2. CachedFiles(c, k, t) =
         IF p[k] # None /\ Expired(expiry[p[k].file], t) THEN [p EXCEPT ![k] = None] ELSE p
  BY DEF CachedFiles
<1> HIDE DEF p
<1> QED
  BY <1>1, <1>2 DEF Shrinks, Caches

\* invalidate_provider_file_cache only drops entries; of those that are not over
\* only the one that holds the file, which goes.
LEMMA Invalidating ==
    ASSUME NEW c \in Caches, NEW k \in Keys, NEW f
    PROVE  /\ Shrinks(c, Invalidated(c, k, f))
           /\ Invalidated(c, k, f)[k] # None => Invalidated(c, k, f)[k].file # f
           /\ \A j \in Keys :
                 c[j] # None /\ Invalidated(c, k, f)[j] = None /\ ~Expired(c[j].expires, now) =>
                     c[j].file = f
<1> DEFINE p == Pruned(c, now)
<1>1. Shrinks(c, p)
  BY Pruning
<1>2. Invalidated(c, k, f) =
         IF p[k] # None /\ p[k].file = f THEN [p EXCEPT ![k] = None] ELSE p
  BY DEF Invalidated
<1>3. \A j \in Keys : c[j] # None /\ p[j] = None => Expired(c[j].expires, now)
  BY DEF Pruned
<1> HIDE DEF p
<1>4. \A j \in Keys : p[j] # None => p[j] = c[j]
  BY <1>1 DEF Shrinks
<1>5. p \in Caches
  BY <1>1 DEF Shrinks
<1>6. CASE p[k] # None /\ p[k].file = f
  <2>1. Invalidated(c, k, f) = [p EXCEPT ![k] = None]
    BY <1>2, <1>6
  <2> QED
    BY <2>1, <1>1, <1>3, <1>4, <1>5, <1>6 DEF Shrinks, Caches
<1>7. CASE ~(p[k] # None /\ p[k].file = f)
  <2>1. Invalidated(c, k, f) = p
    BY <1>2, <1>7
  <2> QED
    BY <2>1, <1>1, <1>3, <1>7 DEF Shrinks
<1> QED
  BY <1>6, <1>7

\* cache_file drops entries and adds one, and the capacity holds afterwards.
LEMMA Caching ==
    ASSUME TypeOK, CacheBounded, NEW k \in Keys, NEW f \in FileIds,
           NEW ttl \in Retentions, CacheFile(k, f, ttl)
    PROVE  /\ cache' \in Caches
           /\ \A j \in Keys : cache'[j] # None =>
                 cache'[j] = cache[j] \/ (j = k /\ cache'[j].file = f)
           /\ Cardinality(Entries(cache')) <= MaxEntries
<1> DEFINE p == Pruned(cache, now)
           e == [file |-> f, expires |-> After(ttl, now), at |-> now]
           c == [p EXCEPT ![k] = e]
<1>1. Shrinks(cache, p)
  BY Pruning DEF TypeOK, Caches
<1>2. After(ttl, now) \in Nat \cup {None}
  BY DEF TypeOK, After, Time
<1>3. e \in Entry
  BY <1>2 DEF TypeOK, Entry
<1>4. PICK evicted \in Overflow(c) :
         cache' = [j \in Keys |-> IF j \in evicted THEN None ELSE c[j]]
  BY DEF CacheFile
<1>5. e.file = f
  OBVIOUS
<1> HIDE DEF p, e
<1>6. c \in Caches
  BY <1>1, <1>3 DEF Shrinks, Caches
<1>7. \A j \in Keys : c[j] # None => c[j] = cache[j] \/ (j = k /\ c[j].file = f)
  BY <1>1, <1>5 DEF Shrinks, Caches
<1> HIDE DEF c
<1>8. cache' \in Caches
  BY <1>4, <1>6 DEF Caches
<1>9. \A j \in Keys : cache'[j] # None =>
         cache'[j] = cache[j] \/ (j = k /\ cache'[j].file = f)
  BY <1>4, <1>7
<1>10. /\ IsFiniteSet(Entries(cache))
       /\ IsFiniteSet(Entries(c))
       /\ IsFiniteSet(Entries(cache'))
  BY FS_Subset DEF Entries
<1>11. Cardinality(Entries(c)) <= MaxEntries + 1
  <2>1. Entries(c) \subseteq Entries(cache) \cup {k}
    BY <1>7, <1>3 DEF Entries
  <2>2. /\ IsFiniteSet(Entries(cache) \cup {k})
        /\ Cardinality(Entries(cache) \cup {k}) <= Cardinality(Entries(cache)) + 1
    <3>1. /\ IsFiniteSet(Entries(cache) \cup {k})
          /\ \/ Cardinality(Entries(cache) \cup {k}) = Cardinality(Entries(cache))
             \/ Cardinality(Entries(cache) \cup {k}) = Cardinality(Entries(cache)) + 1
      BY <1>10, FS_AddElement, Zenon
    <3>2. Cardinality(Entries(cache)) \in Nat
      BY <1>10, FS_CardinalityType
    <3> QED
      BY <3>1, <3>2
  <2>3. Cardinality(Entries(c)) <= Cardinality(Entries(cache) \cup {k})
    BY <2>1, <2>2, FS_Subset
  <2> QED
    BY <2>2, <2>3, <1>10, FS_CardinalityType DEF CacheBounded
<1>12. Cardinality(Entries(cache')) <= MaxEntries
  <2>1. CASE Cardinality(Entries(c)) <= MaxEntries
    <3>1. Entries(cache') \subseteq Entries(c)
      BY <1>4 DEF Entries
    <3> QED
      BY <2>1, <3>1, <1>10, FS_Subset, FS_CardinalityType
  <2>2. CASE ~(Cardinality(Entries(c)) <= MaxEntries)
    <3>1. PICK o \in Entries(c) : evicted = {o}
      BY <2>2, <1>4 DEF Overflow
    <3>2. Entries(cache') = Entries(c) \ {o}
      BY <3>1, <1>4 DEF Entries
    <3>3. Cardinality(Entries(c) \ {o}) = Cardinality(Entries(c)) - 1
      BY <3>1, <1>10, FS_RemoveElement
    <3> QED
      BY <3>2, <3>3, <1>10, <1>11, FS_CardinalityType
  <2> QED
    BY <2>1, <2>2
<1> QED
  BY <1>8, <1>9, <1>12

\* The files of the entries are numbers, and None is none of them.
LEMMA FilesAreNumbers ==
    ASSUME TypeOK
    PROVE  /\ FileIds \subseteq Nat
           /\ None \notin FileIds
           /\ \A k \in Keys : cache[k] # None => cache[k].file \in FileIds
           /\ \A r \in Requests : Uses[r] \subseteq Attachments
  BY DEF TypeOK, Entry, FileIds

\* Changing what one attachment of one request has.
LEMMA TableUpdate ==
    ASSUME NEW S, NEW f \in [Requests -> [Attachments -> S]],
           NEW r \in Requests, NEW a \in Attachments, NEW v \in S
    PROVE  /\ [f EXCEPT ![r][a] = v] \in [Requests -> [Attachments -> S]]
           /\ [f EXCEPT ![r][a] = v][r][a] = v
           /\ \A q \in Requests : \A b \in Attachments :
                 ~(q = r /\ b = a) => [f EXCEPT ![r][a] = v][q][b] = f[q][b]
  OBVIOUS

\* Jobs are told apart by their request and their attachment.
LEMMA JobsAreTold ==
    /\ \A j \in Jobs : \E r \in Requests : \E a \in Attachments : j = Job(r, a)
    /\ \A r \in Requests : \A a \in Attachments :
          /\ Job(r, a) \in Jobs
          /\ Job(r, a) # None
          /\ Job(r, a)[1] = r
          /\ \A q \in Requests : \A b \in Attachments : Job(r, a) = Job(q, b) => r = q /\ a = b
  BY DEF Jobs, Job

-----------------------------------------------------------------------------
(* The steps of a request.                                                 *)

\* The end of a request, however it comes, releases its locks and nothing else.
LEMMA EndStep ==
    ASSUME FileCacheInv, NEW r \in Requests, NEW outcome \in {"done", "failed", "dropped"},
           End(r, outcome), UNCHANGED <<now, cache, provider>>
    PROVE  FileCacheInv'
<1> USE DEF FileCacheInv
<1>1. /\ lock' \in [Keys -> Jobs \cup {None}]
      /\ \A k \in Keys : lock'[k] = lock[k] \/ lock'[k] = None
  BY DEF TypeOK, End, Released
<1>2. ASSUME NEW k \in Keys, NEW q \in Requests, NEW a \in Attachments
      PROVE  /\ lock'[k] = Job(q, a) => lock[k] = Job(q, a) /\ q # r
             /\ lock[k] = Job(q, a) /\ q # r => lock'[k] = Job(q, a)
  <2>1. lock'[k] = IF lock[k] # None /\ lock[k][1] = r THEN None ELSE lock[k]
    BY DEF End, Released
  <2>2. Job(q, a) # None
    BY JobsAreTold
  <2>3. Job(q, a)[1] = q
    BY JobsAreTold
  <2>4. lock'[k] = Job(q, a) => lock[k] = Job(q, a) /\ q # r
    BY <2>1, <2>2, <2>3, Zenon
  <2>5. lock[k] = Job(q, a) /\ q # r => lock'[k] = Job(q, a)
    BY <2>1, <2>2, <2>3, Zenon
  <2> QED
    BY <2>4, <2>5
<1>3. /\ phase' = [phase EXCEPT ![r] = outcome]
      /\ UNCHANGED <<job, cache>>
  BY DEF End
<1>4. \A q \in Requests : phase'[q] = "preparing" => q # r /\ phase[q] = "preparing"
  BY <1>3 DEF TypeOK
<1>5. \A q \in Requests : q # r => phase'[q] = phase[q]
  BY <1>3 DEF TypeOK
<1>20. TypeOK'
  BY <1>1 DEF TypeOK, End, history, provider, Active
<1>21. LocksInv'
  <2>1. ASSUME NEW k \in Keys, NEW q \in Requests, NEW a \in Attachments, lock'[k] = Job(q, a)
        PROVE  phase'[q] = "preparing" /\ a \in Uses[q] /\ job'[q][a] = "uploading" /\ KeyOf[q][a] = k
    BY <2>1, <1>2, <1>3, <1>5 DEF LocksInv
  <2>2. ASSUME NEW q \in Requests, NEW a \in Uses[q], phase'[q] = "preparing",
               job'[q][a] = "uploading", KeyOf[q][a] # None
        PROVE  lock'[KeyOf[q][a]] = Job(q, a)
    <3>1. a \in Attachments /\ KeyOf[q][a] \in Keys
      BY <2>2
    <3>2. q # r /\ phase[q] = "preparing" /\ job[q][a] = "uploading"
      BY <2>2, <1>3, <1>4
    <3>3. lock[KeyOf[q][a]] = Job(q, a)
      BY <3>2, <2>2 DEF LocksInv
    <3> QED
      BY <3>1, <3>2, <3>3, <1>2
  <2>3. \A k \in Keys : lock'[k] # None => cache'[k] = None
    BY <1>1, <1>3 DEF LocksInv
  <2>4. \A k \in Keys : \A q \in Requests : \A a \in Attachments :
           lock'[k] = Job(q, a) =>
               /\ phase'[q] = "preparing"
               /\ a \in Uses[q]
               /\ job'[q][a] = "uploading"
               /\ KeyOf[q][a] = k
    BY <2>1
  <2>5. \A q \in Requests : \A a \in Uses[q] :
           phase'[q] = "preparing" /\ job'[q][a] = "uploading" /\ KeyOf[q][a] # None =>
               lock'[KeyOf[q][a]] = Job(q, a)
    BY <2>2
  <2> QED
    BY <2>3, <2>4, <2>5 DEF LocksInv
<1>22. ReadyInv'
  BY DEF TypeOK, ReadyInv, End, history, provider, Active
<1>23. FilesInv'
  BY DEF TypeOK, FilesInv, End, history, provider, Active
<1>24. RepairInv'
  BY DEF TypeOK, RepairInv, End, history, provider, Active
<1>25. AgeInv'
  BY DEF TypeOK, AgeInv, End, history, provider, Active
<1>26. CacheBounded'
  BY DEF CacheBounded, End, history, provider, Active
<1> QED
  BY <1>20, <1>21, <1>22, <1>23, <1>24, <1>25, <1>26

\* A request that starts has nothing prepared.
LEMMA StartStep ==
    ASSUME FileCacheInv, NEW r \in Requests, Start(r)
    PROVE  FileCacheInv'
<1> USE DEF FileCacheInv
<1>1. /\ used' = [used EXCEPT ![r] = [a \in Attachments |-> None]]
      /\ job' = [job EXCEPT ![r] = [a \in Attachments |-> "new"]]
      /\ since' = [since EXCEPT ![r] = now]
      /\ phase' = [phase EXCEPT ![r] = "preparing"]
      /\ UNCHANGED <<now, cache, uploads, expiry, missing, rejected>>
  BY DEF Start, Fresh, provider
<1>2. /\ \A a \in Attachments : used'[r][a] = None /\ job'[r][a] = "new"
      /\ \A q \in Requests : q # r =>
            used'[q] = used[q] /\ job'[q] = job[q] /\ since'[q] = since[q] /\ phase'[q] = phase[q]
      /\ since'[r] = now
      /\ phase'[r] = "preparing"
  BY <1>1 DEF TypeOK
<1>20. TypeOK'
  BY DEF TypeOK, Start, Fresh, history, provider, Active
<1>21. LocksInv'
  BY DEF TypeOK, LocksInv, Start, Fresh, history, provider, Active
<1>22. ReadyInv'
  BY DEF TypeOK, ReadyInv, Start, Fresh, history, provider, Active
<1>23. FilesInv'
  <2>1. \A k \in Keys : cache[k] # None => cache[k].file # None
    BY FilesAreNumbers
  <2> QED
    BY <1>1, <1>2, <2>1, FilesAreNumbers DEF FilesInv
<1>24. RepairInv'
  <2>1. None \notin rejected[r]
    BY FilesAreNumbers DEF TypeOK
  <2>2. UNCHANGED repaired
    BY DEF Start, TypeOK
  <2> QED
    BY <1>1, <1>2, <2>1, <2>2, FilesAreNumbers DEF RepairInv
<1>25. AgeInv'
  <2>1. now <= now
    BY DEF TypeOK, Time
  <2> QED
    BY <1>1, <1>2, <2>1, FilesAreNumbers DEF AgeInv
<1>26. CacheBounded'
  BY DEF CacheBounded, Start, Fresh, history, provider, Active
<1> QED
  BY <1>20, <1>21, <1>22, <1>23, <1>24, <1>25, <1>26

\* The repeated pass starts from nothing, after the repair has visited every file.
LEMMA RepeatStep ==
    ASSUME FileCacheInv, NEW r \in Requests, Repeat(r)
    PROVE  FileCacheInv'
<1> USE DEF FileCacheInv
<1>1. /\ used' = [used EXCEPT ![r] = [a \in Attachments |-> None]]
      /\ job' = [job EXCEPT ![r] = [a \in Attachments |-> "new"]]
      /\ since' = [since EXCEPT ![r] = now]
      /\ phase' = [phase EXCEPT ![r] = "preparing"]
      /\ UNCHANGED <<now, cache, uploads, expiry, missing, rejected>>
  BY DEF Repeat, Fresh, provider
<1>2. /\ \A a \in Attachments : used'[r][a] = None /\ job'[r][a] = "new"
      /\ \A q \in Requests : q # r =>
            used'[q] = used[q] /\ job'[q] = job[q] /\ since'[q] = since[q] /\ phase'[q] = phase[q]
      /\ since'[r] = now
      /\ phase'[r] = "preparing"
  BY <1>1 DEF TypeOK
<1>20. TypeOK'
  BY DEF TypeOK, Repeat, Fresh, history, provider, Active
<1>21. LocksInv'
  BY DEF TypeOK, LocksInv, Repeat, Fresh, history, provider, Active
<1>22. ReadyInv'
  BY DEF TypeOK, ReadyInv, Repeat, Fresh, history, provider, Active
<1>23. FilesInv'
  <2>1. \A k \in Keys : cache[k] # None => cache[k].file # None
    BY FilesAreNumbers
  <2> QED
    BY <1>1, <1>2, <2>1, FilesAreNumbers DEF FilesInv
<1>24. RepairInv'
  <2>1. None \notin rejected[r]
    BY FilesAreNumbers DEF TypeOK
  <2>2. /\ phase[r] = "repairing" /\ missing[r] = {}
        /\ \A q \in Requests : q # r => repaired'[q] = repaired[q]
    BY DEF Repeat, TypeOK
  <2> QED
    BY <1>1, <1>2, <2>1, <2>2, FilesAreNumbers DEF RepairInv
<1>25. AgeInv'
  <2>1. now <= now
    BY DEF TypeOK, Time
  <2> QED
    BY <1>1, <1>2, <2>1, FilesAreNumbers DEF AgeInv
<1>26. CacheBounded'
  BY DEF CacheBounded, Repeat, Fresh, history, provider, Active
<1> QED
  BY <1>20, <1>21, <1>22, <1>23, <1>24, <1>25, <1>26

\* A job without a key uploads at once, any other waits for its lock.
LEMMA StartJobStep ==
    ASSUME FileCacheInv, NEW r \in Requests, NEW a \in Uses[r], StartJob(r, a)
    PROVE  FileCacheInv'
<1> USE DEF FileCacheInv
<1>20. TypeOK'
  BY DEF TypeOK, StartJob, history, provider, Active
<1>21. LocksInv'
  BY DEF TypeOK, LocksInv, StartJob, history, provider, Active
<1>22. ReadyInv'
  BY DEF TypeOK, ReadyInv, StartJob, history, provider, Active
<1>23. FilesInv'
  BY DEF TypeOK, FilesInv, StartJob, history, provider, Active
<1>24. RepairInv'
  BY DEF TypeOK, RepairInv, StartJob, history, provider, Active
<1>25. AgeInv'
  BY DEF TypeOK, AgeInv, StartJob, history, provider, Active
<1>26. CacheBounded'
  BY DEF CacheBounded, StartJob, history, provider, Active
<1> QED
  BY <1>20, <1>21, <1>22, <1>23, <1>24, <1>25, <1>26

\* A request is sent with every attachment ready.
LEMMA SendStep ==
    ASSUME FileCacheInv, NEW r \in Requests, Send(r)
    PROVE  FileCacheInv'
<1> USE DEF FileCacheInv
<1>20. TypeOK'
  BY DEF TypeOK, Send, AllReady, history, provider, Active
<1>21. LocksInv'
  BY DEF TypeOK, LocksInv, Send, AllReady, history, provider, Active
<1>22. ReadyInv'
  BY DEF TypeOK, ReadyInv, Send, AllReady, history, provider, Active
<1>23. FilesInv'
  BY DEF TypeOK, FilesInv, Send, AllReady, history, provider, Active
<1>24. RepairInv'
  BY DEF TypeOK, RepairInv, Send, AllReady, history, provider, Active
<1>25. AgeInv'
  BY DEF TypeOK, AgeInv, Send, AllReady, history, provider, Active
<1>26. CacheBounded'
  BY DEF CacheBounded, Send, AllReady, history, provider, Active
<1> QED
  BY <1>20, <1>21, <1>22, <1>23, <1>24, <1>25, <1>26

\* A 404 names files that were prepared for the request.
LEMMA NotFoundStep ==
    ASSUME FileCacheInv, NEW r \in Requests, NotFound(r)
    PROVE  FileCacheInv'
<1> USE DEF FileCacheInv
<1>20. TypeOK'
  BY DEF TypeOK, NotFound, ReadyInv, history, provider, Active
<1>21. LocksInv'
  BY DEF TypeOK, LocksInv, NotFound, ReadyInv, history, provider, Active
<1>22. ReadyInv'
  BY DEF TypeOK, ReadyInv, NotFound, ReadyInv, history, provider, Active
<1>23. FilesInv'
  BY DEF TypeOK, FilesInv, NotFound, ReadyInv, history, provider, Active
<1>24. RepairInv'
  <2>1. PICK named \in SUBSET Uses[r] \ {{}} :
           /\ missing' = [missing EXCEPT ![r] = named]
           /\ rejected' = [rejected EXCEPT ![r] = {used[r][a] : a \in named}]
    BY DEF NotFound
  <2>2. /\ ~repaired[r]
        /\ phase' = [phase EXCEPT ![r] = "repairing"]
        /\ UNCHANGED <<cache, used, repaired>>
    BY DEF NotFound
  <2>3. ASSUME NEW q \in Requests, q # r
        PROVE  missing'[q] = missing[q] /\ rejected'[q] = rejected[q] /\ phase'[q] = phase[q]
    BY <2>1, <2>2, <2>3 DEF TypeOK
  <2>4. /\ missing'[r] = named
        /\ rejected'[r] = {used[r][a] : a \in named}
    BY <2>1 DEF TypeOK
  <2>5. ASSUME NEW k \in Keys, cache[k] # None, cache[k].file \in rejected'[r]
        PROVE  \E a \in named : KeyOf[r][a] = k /\ used[r][a] = cache[k].file
    BY <2>4, <2>5 DEF FilesInv
  <2>6. phase'[r] = "repairing"
    BY <2>2 DEF TypeOK
  <2>7. \A a \in missing'[r] : used'[r][a] \in rejected'[r]
    BY <2>2, <2>4
  <2>8. \A k \in Keys : cache'[k] # None /\ cache'[k].file \in rejected'[r] =>
           \E a \in missing'[r] : KeyOf[r][a] = k /\ used'[r][a] = cache'[k].file
    BY <2>2, <2>4, <2>5
  <2> QED
    BY <2>2, <2>3, <2>7, <2>8 DEF RepairInv
<1>25. AgeInv'
  BY DEF TypeOK, AgeInv, NotFound, ReadyInv, history, provider, Active
<1>26. CacheBounded'
  BY DEF CacheBounded, NotFound, ReadyInv, history, provider, Active
<1> QED
  BY <1>20, <1>21, <1>22, <1>23, <1>24, <1>25, <1>26

\* Time passes.
LEMMA TickStep ==
    ASSUME FileCacheInv, Tick
    PROVE  FileCacheInv'
<1> USE DEF FileCacheInv
<1>20. TypeOK'
  BY DEF TypeOK, Tick, Time, history, provider
<1>21. LocksInv'
  BY DEF TypeOK, LocksInv, Tick, Time, history, provider
<1>22. ReadyInv'
  BY DEF TypeOK, ReadyInv, Tick, Time, history, provider
<1>23. FilesInv'
  BY DEF TypeOK, FilesInv, Tick, Time, history, provider
<1>24. RepairInv'
  BY DEF TypeOK, RepairInv, Tick, Time, history, provider
<1>25. AgeInv'
  BY DEF TypeOK, AgeInv, Tick, Time, history, provider
<1>26. CacheBounded'
  BY DEF CacheBounded, Tick, Time, history, provider
<1> QED
  BY <1>20, <1>21, <1>22, <1>23, <1>24, <1>25, <1>26

\* The provider deletes a file.
LEMMA LoseStep ==
    ASSUME FileCacheInv, NEW f \in FileIds, Lose(f)
    PROVE  FileCacheInv'
<1> USE DEF FileCacheInv
<1>20. TypeOK'
  BY DEF TypeOK, Lose, history, provider
<1>21. LocksInv'
  BY DEF TypeOK, LocksInv, Lose, history, provider
<1>22. ReadyInv'
  BY DEF TypeOK, ReadyInv, Lose, history, provider
<1>23. FilesInv'
  BY DEF TypeOK, FilesInv, Lose, history, provider
<1>24. RepairInv'
  BY DEF TypeOK, RepairInv, Lose, history, provider
<1>25. AgeInv'
  BY DEF TypeOK, AgeInv, Lose, history, provider
<1>26. CacheBounded'
  BY DEF CacheBounded, Lose, history, provider
<1> QED
  BY <1>20, <1>21, <1>22, <1>23, <1>24, <1>25, <1>26

\* A job that has the lock takes what is cached, or keeps the lock and uploads.
LEMMA LookUpStep ==
    ASSUME FileCacheInv, NEW r \in Requests, NEW a \in Uses[r], LookUp(r, a)
    PROVE  FileCacheInv'
<1> USE DEF FileCacheInv
<1> DEFINE k == KeyOf[r][a]
<1>1. a \in Attachments /\ k \in Keys
  BY DEF LookUp, ReadyInv
<1>2. /\ phase[r] = "preparing"
      /\ job[r][a] = "waiting"
      /\ lock[k] = None
      /\ cache' = CachedFiles(cache, k, now)
      /\ UNCHANGED <<now, uploads, expiry, alive, phase, missing, repaired, rejected, begun, since>>
  BY DEF LookUp, LockFree, provider, history
<1>3. /\ Shrinks(cache, cache')
      /\ cache'[k] # None => ~Expired(expiry[cache'[k].file], now)
  BY <1>1, <1>2, Consulting DEF TypeOK, Caches
<1>4. \/ /\ cache'[k] # None
         /\ job' = [job EXCEPT ![r][a] = "ready"]
         /\ used' = [used EXCEPT ![r][a] = cache'[k].file]
         /\ UNCHANGED lock
      \/ /\ cache'[k] = None
         /\ job' = [job EXCEPT ![r][a] = "uploading"]
         /\ lock' = [lock EXCEPT ![k] = Job(r, a)]
         /\ UNCHANGED used
  BY DEF LookUp, Job
<1>5. /\ cache' \in Caches
      /\ \A j \in Keys : cache'[j] = cache[j] \/ cache'[j] = None
  BY <1>3 DEF Shrinks
<1>6. cache'[k] # None => cache'[k].file \in FileIds
  BY <1>1, <1>5, FilesAreNumbers
<1>7. Job(r, a) \in Jobs /\ Job(r, a) # None
  BY <1>1, JobsAreTold
<1> HIDE DEF k
<1>8. KeyOf[r][a] = k
  BY DEF k
<1>9. \A q \in Requests : \A b \in Attachments :
         ~(q = r /\ b = a) => job'[q][b] = job[q][b] /\ used'[q][b] = used[q][b]
  BY <1>1, <1>4 DEF TypeOK
<1>10. \/ /\ cache'[k] # None
          /\ job'[r][a] = "ready"
          /\ used'[r][a] = cache'[k].file
          /\ UNCHANGED lock
       \/ /\ cache'[k] = None
          /\ job'[r][a] = "uploading"
          /\ lock'[k] = Job(r, a)
          /\ \A j \in Keys : j # k => lock'[j] = lock[j]
          /\ used'[r][a] = used[r][a]
  BY <1>1, <1>4 DEF TypeOK
<1>20. TypeOK'
  <2>1. lock' \in [Keys -> Jobs \cup {None}]
    BY <1>1, <1>4, <1>7 DEF TypeOK
  <2>2. used' \in [Requests -> [Attachments -> FileIds \cup {None}]]
    <3>1. used \in [Requests -> [Attachments -> FileIds \cup {None}]]
      BY DEF TypeOK
    <3>2. CASE UNCHANGED used
      BY <3>1, <3>2
    <3>3. CASE cache'[k] # None /\ used' = [used EXCEPT ![r][a] = cache'[k].file]
      <4> DEFINE v == cache'[k].file
      <4>1. v \in FileIds \cup {None}
        BY <3>3, <1>6
      <4>2. used' = [used EXCEPT ![r][a] = v]
        BY <3>3
      <4> HIDE DEF v
      <4> QED
        BY <4>1, <4>2, <3>1, <1>1, TableUpdate
    <3> QED
      BY <3>2, <3>3, <1>4
  <2>3. job' \in [Requests -> [Attachments -> {"new", "waiting", "uploading", "ready"}]]
    <3> DEFINE J == {"new", "waiting", "uploading", "ready"}
    <3>1. job \in [Requests -> [Attachments -> J]]
      BY DEF TypeOK
    <3>2. [job EXCEPT ![r][a] = "ready"] \in [Requests -> [Attachments -> J]]
      BY <3>1, <1>1, TableUpdate
    <3>3. [job EXCEPT ![r][a] = "uploading"] \in [Requests -> [Attachments -> J]]
      BY <3>1, <1>1, TableUpdate
    <3> QED
      BY <3>2, <3>3, <1>4
  <2> QED
    BY <2>1, <2>2, <2>3, <1>2, <1>5 DEF TypeOK, Caches
<1>21. LocksInv'
  <2>1. ASSUME NEW j \in Keys, NEW q \in Requests, NEW b \in Attachments, lock'[j] = Job(q, b)
        PROVE  phase'[q] = "preparing" /\ b \in Uses[q] /\ job'[q][b] = "uploading" /\ KeyOf[q][b] = j
    <3>1. CASE q = r /\ b = a
      <4>1. lock[j] # Job(q, b)
        BY <3>1, <1>2 DEF LocksInv
      <4> QED
        BY <4>1, <3>1, <2>1, <1>2, <1>8, <1>10
    <3>2. CASE ~(q = r /\ b = a)
      <4>1. Job(q, b) # Job(r, a)
        BY <3>2, <1>1, JobsAreTold
      <4>2. lock[j] = Job(q, b)
        BY <4>1, <2>1, <1>10
      <4> QED
        BY <4>2, <3>2, <1>2, <1>9 DEF LocksInv
    <3> QED
      BY <3>1, <3>2
  <2>2. ASSUME NEW q \in Requests, NEW b \in Uses[q], phase'[q] = "preparing",
               job'[q][b] = "uploading", KeyOf[q][b] # None
        PROVE  lock'[KeyOf[q][b]] = Job(q, b)
    <3>1. b \in Attachments /\ KeyOf[q][b] \in Keys
      BY <2>2
    <3>2. CASE q = r /\ b = a
      BY <3>2, <2>2, <1>8, <1>10
    <3>3. CASE ~(q = r /\ b = a)
      <4>1. lock[KeyOf[q][b]] = Job(q, b)
        BY <3>1, <3>3, <2>2, <1>2, <1>9 DEF LocksInv
      <4>2. KeyOf[q][b] # k
        BY <4>1, <3>1, <1>2, JobsAreTold
      <4> QED
        BY <4>1, <4>2, <3>1, <1>10
    <3> QED
      BY <3>2, <3>3
  <2>3. \A j \in Keys : lock'[j] # None => cache'[j] = None
    BY <1>1, <1>2, <1>5, <1>10 DEF LocksInv
  <2> QED
    BY <2>1, <2>2, <2>3 DEF LocksInv
<1>22. ReadyInv'
  <2>1. cache'[k] # None => cache'[k].file # None
    BY <1>6, FilesAreNumbers
  <2>2. ASSUME NEW q \in Requests, NEW b \in Attachments
        PROVE  /\ job'[q][b] = "waiting" => job[q][b] = "waiting"
               /\ job'[q][b] = "ready" => used'[q][b] # None
    <3>1. CASE q = r /\ b = a
      BY <3>1, <2>1, <1>10
    <3>2. CASE ~(q = r /\ b = a)
      BY <3>2, <1>9 DEF ReadyInv
    <3> QED
      BY <3>1, <3>2
  <2>3. ASSUME NEW q \in Requests, phase[q] \in {"sending", "repairing"}
        PROVE  \A b \in Uses[q] : job'[q][b] = "ready"
    BY <2>3, <1>2, <1>9 DEF ReadyInv
  <2> QED
    BY <2>2, <2>3, <1>2 DEF ReadyInv
<1>23. FilesInv'
  <2>1. \A j \in Keys : cache'[j] # None => cache[j] # None /\ cache'[j].file = cache[j].file
    BY <1>5
  <2>2. used'[r][a] = used[r][a] \/ (cache[k] # None /\ used'[r][a] = cache[k].file)
    BY <2>1, <1>1, <1>10
  <2> QED
    <3>1. \A q \in Requests : \A b \in Attachments :
             \/ used'[q][b] = used[q][b]
             \/ q = r /\ b = a /\ cache[k] # None /\ used'[q][b] = cache[k].file
      BY <2>2, <1>9
    <3>2. \A q \in Requests : \A b \in Attachments : used'[q][b] # None => used'[q][b] <= uploads
      BY <3>1, <1>1 DEF FilesInv
    <3>3. ASSUME NEW q \in Requests, NEW b \in Uses[q], NEW j \in Keys,
                 cache'[j] # None, cache'[j].file = used'[q][b]
          PROVE  KeyOf[q][b] = j
      <4>1. cache[j] # None /\ cache[j].file = used'[q][b] /\ b \in Attachments
        BY <3>3, <2>1
      <4>2. CASE used'[q][b] = used[q][b]
        BY <4>1, <4>2 DEF FilesInv
      <4>3. CASE q = r /\ b = a /\ cache[k] # None /\ used'[q][b] = cache[k].file
        BY <4>1, <4>3, <1>1, <1>8 DEF FilesInv
      <4> QED
        BY <4>1, <4>2, <4>3, <3>1
    <3> QED
      BY <3>2, <3>3, <2>1, <1>2 DEF FilesInv
<1>24. RepairInv'
  <2>1. \A j \in Keys : cache'[j] # None => cache[j] # None /\ cache'[j].file = cache[j].file
    BY <1>5
  <2>2. used'[r][a] = used[r][a] \/ (cache[k] # None /\ used'[r][a] = cache[k].file)
    BY <2>1, <1>1, <1>10
  <2>3. \A q \in Requests : phase[q] = "repairing" => q # r
    BY <1>2
  <2>4. \A q \in Requests : missing[q] \subseteq Attachments
    BY DEF TypeOK
  <2> QED
    BY <2>1, <2>2, <2>3, <2>4, <1>1, <1>2, <1>9, FilesAreNumbers DEF RepairInv
<1>25. AgeInv'
  <2>1. cache'[k] # None /\ expiry[cache'[k].file] # None => expiry[cache'[k].file] > since[r]
    <3>1. /\ now \in Nat /\ since[r] \in Nat /\ since[r] <= now
          /\ cache'[k] # None => expiry[cache'[k].file] \in Nat \cup {None}
      BY <1>6 DEF TypeOK, AgeInv, Time
    <3> QED
      BY <3>1, <1>3 DEF Expired
  <2> QED
    BY <2>1, <1>1, <1>2, <1>9, <1>10, FilesAreNumbers DEF AgeInv
<1>26. CacheBounded'
  <2>1. Entries(cache') \subseteq Entries(cache) /\ IsFiniteSet(Entries(cache))
    BY <1>5, FS_Subset DEF Entries
  <2> QED
    BY <2>1, FS_Subset, FS_CardinalityType DEF CacheBounded
<1> QED
  BY <1>20, <1>21, <1>22, <1>23, <1>24, <1>25, <1>26

\* An upload brings a file nobody has seen, caches it under the job's key, whose
\* entry was empty, and releases the lock.
LEMMA UploadStep ==
    ASSUME FileCacheInv, NEW r \in Requests, NEW a \in Uses[r], Upload(r, a)
    PROVE  FileCacheInv'
<1> USE DEF FileCacheInv
<1> DEFINE k == KeyOf[r][a]
           f == uploads + 1
<1>1. a \in Attachments /\ k \in Keys \cup {None}
  OBVIOUS
<1>2. /\ phase[r] = "preparing"
      /\ job[r][a] = "uploading"
      /\ uploads' = f
      /\ alive' = alive \cup {f}
      /\ UNCHANGED <<now, phase, missing, repaired, rejected, begun, since>>
  BY DEF Upload, history
<1>3. f \in FileIds /\ uploads \in Nat /\ f > uploads
  BY DEF Upload, TypeOK, FileIds
<1>4. PICK life \in Lifetimes : expiry' = [expiry EXCEPT ![f] = After(life, now)]
  BY DEF Upload
<1>5. /\ After(life, now) \in Nat \cup {None}
      /\ After(life, now) # None => After(life, now) > now
  BY DEF After, TypeOK, Time
<1>6. \/ k = None /\ UNCHANGED <<cache, lock>>
      \/ /\ k \in Keys
         /\ \E ttl \in Retentions : CacheFile(k, f, ttl)
         /\ lock' = [lock EXCEPT ![k] = None]
  BY <1>1 DEF Upload
<1>7. /\ cache' \in Caches
      /\ \A j \in Keys : cache'[j] # None =>
            cache'[j] = cache[j] \/ (j = k /\ cache'[j].file = f)
      /\ CacheBounded'
  <2>1. CASE k = None /\ UNCHANGED <<cache, lock>>
    BY <2>1 DEF TypeOK, Caches, CacheBounded, Entries
  <2>2. CASE k \in Keys /\ \E ttl \in Retentions : CacheFile(k, f, ttl)
    <3>1. PICK ttl \in Retentions : CacheFile(k, f, ttl)
      BY <2>2
    <3> HIDE DEF k, f
    <3> QED
      BY <2>2, <3>1, <1>3, Caching DEF CacheBounded
  <2> QED
    BY <2>1, <2>2, <1>6
<1>8. job' = [job EXCEPT ![r][a] = "ready"] /\ used' = [used EXCEPT ![r][a] = f]
  BY DEF Upload
<1> DEFINE J == {"new", "waiting", "uploading", "ready"}
<1>9. job \in [Requests -> [Attachments -> J]] /\ used \in [Requests -> [Attachments -> FileIds \cup {None}]]
  BY DEF TypeOK
<1> HIDE DEF k, f, J
<1>10. KeyOf[r][a] = k
  BY DEF k
<1>11. f \in FileIds \cup {None} /\ "ready" \in J
  BY <1>3 DEF J
<1>12. /\ job' \in [Requests -> [Attachments -> J]]
       /\ job'[r][a] = "ready"
       /\ \A q \in Requests : \A b \in Attachments : ~(q = r /\ b = a) => job'[q][b] = job[q][b]
  BY <1>1, <1>8, <1>9, <1>11, TableUpdate
<1>13. /\ used' \in [Requests -> [Attachments -> FileIds \cup {None}]]
       /\ used'[r][a] = f
       /\ \A q \in Requests : \A b \in Attachments : ~(q = r /\ b = a) => used'[q][b] = used[q][b]
  BY <1>1, <1>8, <1>9, <1>11, TableUpdate
<1>14. /\ lock' \in [Keys -> Jobs \cup {None}]
       /\ k \in Keys => lock'[k] = None
       /\ \A j \in Keys : j # k => lock'[j] = lock[j]
  BY <1>6 DEF TypeOK
<1>15. \A q \in Requests : Uses[q] \subseteq Attachments
  OBVIOUS
<1>20. TypeOK'
  <2>1. job' \in [Requests -> [Attachments -> {"new", "waiting", "uploading", "ready"}]]
    BY <1>12 DEF J
  <2>2. expiry' \in [FileIds -> Nat \cup {None}] /\ alive' \in SUBSET FileIds
    BY <1>2, <1>3, <1>4, <1>5 DEF TypeOK
  <2>3. uploads' \in 0 .. MaxUploads
    BY <1>2, <1>3 DEF FileIds
  <2> QED
    BY <2>1, <2>2, <2>3, <1>2, <1>7, <1>13, <1>14 DEF TypeOK, Caches
<1>21. LocksInv'
  <2>1. ASSUME NEW j \in Keys, NEW q \in Requests, NEW b \in Attachments, lock'[j] = Job(q, b)
        PROVE  phase'[q] = "preparing" /\ b \in Uses[q] /\ job'[q][b] = "uploading" /\ KeyOf[q][b] = j
    <3>1. j # k
      BY <2>1, <1>14, JobsAreTold
    <3>2. lock[j] = Job(q, b)
      BY <3>1, <2>1, <1>14
    <3>3. phase[q] = "preparing" /\ b \in Uses[q] /\ job[q][b] = "uploading" /\ KeyOf[q][b] = j
      BY <3>2 DEF LocksInv
    <3>4. ~(q = r /\ b = a)
      BY <3>1, <3>3, <1>10
    <3> QED
      BY <3>3, <3>4, <1>2, <1>12
  <2>2. ASSUME NEW q \in Requests, NEW b \in Uses[q], phase'[q] = "preparing",
               job'[q][b] = "uploading", KeyOf[q][b] # None
        PROVE  lock'[KeyOf[q][b]] = Job(q, b)
    <3>1. b \in Attachments /\ KeyOf[q][b] \in Keys
      BY <2>2
    <3>2. ~(q = r /\ b = a)
      BY <2>2, <1>12
    <3>3. lock[KeyOf[q][b]] = Job(q, b)
      <4>1. phase[q] = "preparing" /\ job[q][b] = "uploading"
        BY <3>1, <3>2, <2>2, <1>2, <1>12
      <4> QED
        BY <4>1, <2>2 DEF LocksInv
    <3>4. KeyOf[q][b] # k
      <4>1. SUFFICES ASSUME KeyOf[q][b] = k PROVE FALSE
        OBVIOUS
      <4>2. lock[k] = Job(r, a)
        BY <4>1, <2>2, <1>2, <1>10 DEF LocksInv
      <4> QED
        BY <4>1, <4>2, <3>1, <3>2, <3>3, <1>1, JobsAreTold
    <3> QED
      BY <3>1, <3>3, <3>4, <1>14
  <2>3. \A j \in Keys : lock'[j] # None => cache'[j] = None
    BY <1>7, <1>14 DEF LocksInv
  <2> QED
    BY <2>1, <2>2, <2>3 DEF LocksInv
<1>22. ReadyInv'
  <2>1. f # None
    BY <1>3, FilesAreNumbers
  <2>2. ASSUME NEW q \in Requests, NEW b \in Attachments
        PROVE  /\ job'[q][b] = "waiting" => job[q][b] = "waiting"
               /\ job'[q][b] = "ready" => used'[q][b] # None
    <3>1. CASE q = r /\ b = a
      BY <3>1, <2>1, <1>12, <1>13
    <3>2. CASE ~(q = r /\ b = a)
      <4>1. job'[q][b] = job[q][b] /\ used'[q][b] = used[q][b]
        BY <3>2, <1>12, <1>13
      <4> QED
        BY <4>1 DEF ReadyInv
    <3> QED
      BY <3>1, <3>2
  <2>3. ASSUME NEW q \in Requests, phase[q] \in {"sending", "repairing"}
        PROVE  \A b \in Uses[q] : job'[q][b] = "ready"
    BY <2>3, <1>2, <1>12, <1>15 DEF ReadyInv
  <2> QED
    BY <2>2, <2>3, <1>2 DEF ReadyInv
<1>23. FilesInv'
  <2>1. \A j \in Keys : cache'[j] # None =>
           \/ cache[j] # None /\ cache'[j].file = cache[j].file /\ cache[j].file \in Nat
              /\ cache[j].file <= uploads
           \/ j = k /\ cache'[j].file = f
    BY <1>7, FilesAreNumbers DEF FilesInv
  <2>2. \A q \in Requests : \A b \in Attachments :
           \/ used'[q][b] = used[q][b] /\ ~(q = r /\ b = a)
              /\ (used[q][b] # None => used[q][b] \in Nat /\ used[q][b] <= uploads)
           \/ q = r /\ b = a /\ used'[q][b] = f
    BY <1>13, <1>9, FilesAreNumbers DEF FilesInv
  <2>3. \A q \in Requests : \A g \in rejected[q] : g \in Nat /\ g <= uploads
    BY FilesAreNumbers DEF FilesInv, TypeOK
  <2>4. f \in Nat /\ f # None
    BY <1>3, FilesAreNumbers
  <2>5. \A j \in Keys : cache'[j] # None => cache'[j].file <= uploads'
    BY <2>1, <2>4, <1>2, <1>3
  <2>6. \A q \in Requests : \A b \in Attachments : used'[q][b] # None => used'[q][b] <= uploads'
    BY <2>2, <2>4, <1>2, <1>3
  <2>7. \A q \in Requests : \A g \in rejected'[q] : g <= uploads'
    BY <2>3, <2>4, <1>2, <1>3
  <2>8. \A i, j \in Keys :
           cache'[i] # None /\ cache'[j] # None /\ cache'[i].file = cache'[j].file => i = j
    BY <2>1, <1>3 DEF FilesInv
  <2>9. ASSUME NEW q \in Requests, NEW b \in Uses[q], NEW j \in Keys,
               cache'[j] # None, cache'[j].file = used'[q][b]
        PROVE  KeyOf[q][b] = j
    <3>1. b \in Attachments
      OBVIOUS
    <3>2. CASE cache[j] # None /\ cache'[j].file = cache[j].file /\ cache[j].file \in Nat
               /\ cache[j].file <= uploads
      <4>1. used'[q][b] # f
        BY <3>2, <2>9, <1>3
      <4>2. used'[q][b] = used[q][b]
        BY <4>1, <3>1, <2>2
      <4>3. cache[j] # None /\ cache[j].file = used[q][b]
        BY <4>2, <3>2, <2>9
      <4> QED
        BY <4>3 DEF FilesInv
    <3>3. CASE j = k /\ cache'[j].file = f
      <4>1. ~(used[q][b] # None /\ used[q][b] \in Nat /\ used[q][b] <= uploads /\ used[q][b] = f)
        BY <1>3
      <4>2. q = r /\ b = a
        BY <4>1, <3>1, <3>3, <2>2, <2>4, <2>9
      <4> QED
        BY <4>2, <3>3, <1>10
    <3> QED
      BY <3>2, <3>3, <2>1, <2>9
  <2> QED
    BY <2>5, <2>6, <2>7, <2>8, <2>9 DEF FilesInv
<1>24. RepairInv'
  <2>1. \A q \in Requests : f \notin rejected[q]
    BY <1>3, FilesAreNumbers DEF FilesInv, TypeOK
  <2>2. \A j \in Keys : \A q \in Requests :
           cache'[j] # None /\ cache'[j].file \in rejected[q] =>
               cache[j] # None /\ cache'[j].file = cache[j].file
    BY <2>1, <1>7
  <2>3. \A q \in Requests : \A b \in Attachments :
           used'[q][b] \in rejected[q] => used'[q][b] = used[q][b]
    BY <2>1, <1>13
  <2>4. \A q \in Requests : phase[q] = "repairing" => q # r
    BY <1>2
  <2>5. \A q \in Requests : missing[q] \subseteq Attachments
    BY DEF TypeOK
  <2>6. ASSUME NEW q \in Requests, phase[q] = "repairing"
        PROVE  /\ \A b \in missing[q] : used'[q][b] \in rejected[q]
               /\ \A j \in Keys : cache'[j] # None /\ cache'[j].file \in rejected[q] =>
                     \E b \in missing[q] : KeyOf[q][b] = j /\ used'[q][b] = cache'[j].file
    <3>1. \A b \in missing[q] : used'[q][b] = used[q][b]
      BY <2>4, <2>5, <2>6, <1>13
    <3> QED
      BY <3>1, <2>2, <2>6 DEF RepairInv
  <2>7. ASSUME NEW q \in Requests, repaired[q]
        PROVE  /\ \A j \in Keys : cache'[j] # None => cache'[j].file \notin rejected[q]
               /\ \A b \in Uses[q] : used'[q][b] \notin rejected[q]
    BY <2>2, <2>3, <2>7, <1>15 DEF RepairInv
  <2> QED
    BY <2>6, <2>7, <1>2 DEF RepairInv
<1>25. AgeInv'
  <2>1. \A q \in Requests : \A b \in Attachments :
           used[q][b] # None => used[q][b] \in FileIds /\ used[q][b] # f
    BY <1>3, <1>9, FilesAreNumbers DEF FilesInv
  <2>2. \A g \in FileIds : g # f => expiry'[g] = expiry[g]
    BY <1>4 DEF TypeOK
  <2>3. expiry'[f] # None => expiry'[f] > since[r]
    <3>1. expiry'[f] = After(life, now)
      BY <1>3, <1>4 DEF TypeOK
    <3>2. since[r] <= now /\ since[r] \in Nat /\ now \in Nat
      BY DEF AgeInv, TypeOK, Time
    <3> QED
      BY <3>1, <3>2, <1>5
  <2>4. ASSUME NEW q \in Requests, NEW b \in Uses[q], job'[q][b] = "ready",
               expiry'[used'[q][b]] # None
        PROVE  expiry'[used'[q][b]] > since[q]
    <3>1. b \in Attachments
      OBVIOUS
    <3>2. CASE q = r /\ b = a
      BY <3>2, <2>3, <2>4, <1>13
    <3>3. CASE ~(q = r /\ b = a)
      <4>1. job[q][b] = "ready" /\ used'[q][b] = used[q][b]
        BY <3>1, <3>3, <2>4, <1>12, <1>13
      <4>2. used[q][b] # None
        BY <4>1, <3>1 DEF ReadyInv
      <4>3. expiry'[used'[q][b]] = expiry[used[q][b]]
        BY <4>1, <4>2, <3>1, <2>1, <2>2
      <4> QED
        BY <4>1, <4>3, <2>4 DEF AgeInv
    <3> QED
      BY <3>2, <3>3
  <2> QED
    BY <2>4, <1>2 DEF AgeInv
<1> QED
  BY <1>7, <1>20, <1>21, <1>22, <1>23, <1>24, <1>25

\* One round of the repair, with the attachment it visits named.
LEMMA Round ==
    ASSUME FileCacheInv, NEW r \in Requests, Invalidate(r)
    PROVE  /\ phase[r] = "repairing"
           /\ UNCHANGED <<now, lock, provider, phase, job, used, repaired, history>>
           /\ \E a \in missing[r] :
                 /\ a \in Uses[r]
                 /\ missing' = [missing EXCEPT ![r] = missing[r] \ {a}]
                 /\ \/ KeyOf[r][a] = None /\ UNCHANGED cache
                    \/ /\ KeyOf[r][a] \in Keys
                       /\ cache' = Invalidated(cache, KeyOf[r][a], used[r][a])
<1> DEFINE a == CHOOSE b \in missing[r] : TRUE
<1>1. a \in missing[r]
  BY DEF Invalidate
<1>2. phase[r] = "repairing"
  BY DEF Invalidate
<1>3. a \in Uses[r]
  BY <1>1, <1>2 DEF FileCacheInv, ReadyInv
<1>4. /\ missing' = [missing EXCEPT ![r] = missing[r] \ {a}]
      /\ \/ KeyOf[r][a] = None /\ UNCHANGED cache
         \/ KeyOf[r][a] # None /\ cache' = Invalidated(cache, KeyOf[r][a], used[r][a])
  BY DEF Invalidate
<1>5. UNCHANGED <<now, lock, provider, phase, job, used, repaired, history>>
  BY DEF Invalidate
<1> HIDE DEF a
<1>6. KeyOf[r][a] \in Keys \cup {None}
  BY <1>3
<1> QED
  BY <1>1, <1>2, <1>3, <1>4, <1>5, <1>6

\* The round drops the entry of its attachment if that still holds the file the
\* 404 named, and otherwise only entries that are over.
LEMMA InvalidateStep ==
    ASSUME FileCacheInv, NEW r \in Requests, Invalidate(r)
    PROVE  /\ FileCacheInv'
           /\ \A k \in Keys :
                 cache[k] # None /\ cache'[k] = None /\ ~Expired(cache[k].expires, now) =>
                     cache[k].file \in rejected[r]
<1> USE DEF FileCacheInv
<1>1. PICK a \in missing[r] :
         /\ a \in Uses[r]
         /\ missing' = [missing EXCEPT ![r] = missing[r] \ {a}]
         /\ \/ KeyOf[r][a] = None /\ UNCHANGED cache
            \/ /\ KeyOf[r][a] \in Keys
               /\ cache' = Invalidated(cache, KeyOf[r][a], used[r][a])
  BY Round
<1>2. /\ phase[r] = "repairing"
      /\ UNCHANGED <<now, lock, uploads, expiry, alive, phase, job, used, repaired,
                     rejected, begun, since>>
  BY Round DEF provider, history
<1>3. cache \in Caches
  BY DEF TypeOK, Caches
<1>4. Shrinks(cache, cache')
  BY <1>1, <1>3, Invalidating DEF Shrinks
<1>5. /\ cache' \in Caches
      /\ \A k \in Keys : cache'[k] = cache[k] \/ cache'[k] = None
  BY <1>4 DEF Shrinks
<1>6. KeyOf[r][a] \in Keys /\ cache'[KeyOf[r][a]] # None =>
         cache'[KeyOf[r][a]].file # used[r][a]
  BY <1>1, <1>3, Invalidating
<1>7. \A k \in Keys :
         cache[k] # None /\ cache'[k] = None /\ ~Expired(cache[k].expires, now) =>
             cache[k].file = used[r][a]
  BY <1>1, <1>3, Invalidating
<1>8. used[r][a] \in rejected[r]
  BY <1>1, <1>2 DEF RepairInv
<1>9. /\ missing'[r] = missing[r] \ {a}
      /\ \A q \in Requests : q # r => missing'[q] = missing[q]
  BY <1>1 DEF TypeOK
<1>20. TypeOK'
  BY <1>1, <1>2, <1>5 DEF TypeOK, Caches
<1>21. LocksInv'
  BY <1>2, <1>5 DEF LocksInv
<1>22. ReadyInv'
  BY <1>2, <1>9 DEF ReadyInv
<1>23. FilesInv'
  <2>1. \A k \in Keys : cache'[k] # None => cache[k] # None /\ cache'[k].file = cache[k].file
    BY <1>5
  <2> QED
    BY <2>1, <1>2 DEF FilesInv
<1>24. RepairInv'
  <2>1. \A k \in Keys : cache'[k] # None => cache[k] # None /\ cache'[k].file = cache[k].file
    BY <1>5
  <2>2. ASSUME NEW q \in Requests, phase[q] = "repairing", NEW k \in Keys,
               cache'[k] # None, cache'[k].file \in rejected[q]
        PROVE  \E b \in missing'[q] : KeyOf[q][b] = k /\ used[q][b] = cache'[k].file
    <3>1. PICK b \in missing[q] : KeyOf[q][b] = k /\ used[q][b] = cache'[k].file
      BY <2>1, <2>2 DEF RepairInv
    <3>2. CASE q = r /\ b = a
      BY <3>1, <3>2, <2>2, <1>6
    <3>3. CASE ~(q = r /\ b = a)
      BY <3>1, <3>3, <1>9
    <3> QED
      BY <3>2, <3>3
  <2>3. \A q \in Requests : phase[q] = "repairing" => \A b \in missing'[q] : used[q][b] \in rejected[q]
    BY <1>9 DEF RepairInv
  <2>4. \A q \in Requests : repaired[q] =>
           /\ \A k \in Keys : cache'[k] # None => cache'[k].file \notin rejected[q]
           /\ \A b \in Uses[q] : used[q][b] \notin rejected[q]
    BY <2>1 DEF RepairInv
  <2> QED
    BY <2>2, <2>3, <2>4, <1>2 DEF RepairInv
<1>25. AgeInv'
  BY <1>2 DEF AgeInv
<1>26. CacheBounded'
  <2>1. Entries(cache') \subseteq Entries(cache) /\ IsFiniteSet(Entries(cache))
    BY <1>5, FS_Subset DEF Entries
  <2> QED
    BY <2>1, FS_Subset, FS_CardinalityType DEF CacheBounded
<1> QED
  BY <1>7, <1>8, <1>20, <1>21, <1>22, <1>23, <1>24, <1>25, <1>26

-----------------------------------------------------------------------------
(* Initially, and by every step.                                           *)

\* Nothing is cached, held or prepared at first.
LEMMA InitInv == Init => FileCacheInv
<1> SUFFICES ASSUME Init PROVE FileCacheInv
  OBVIOUS
<1>1. TypeOK
  BY DEF Init, TypeOK, Time, FileIds, Active
<1>2. LocksInv
  BY JobsAreTold DEF Init, LocksInv
<1>3. ReadyInv
  BY DEF Init, ReadyInv
<1>4. FilesInv
  BY DEF Init, FilesInv
<1>5. RepairInv
  BY DEF Init, RepairInv
<1>6. AgeInv
  BY DEF Init, AgeInv
<1>7. CacheBounded
  <2>1. Entries(cache) = {}
    BY DEF Init, Entries
  <2> QED
    BY <2>1, FS_EmptySet DEF CacheBounded
<1> QED
  BY <1>1, <1>2, <1>3, <1>4, <1>5, <1>6, <1>7 DEF FileCacheInv

\* Every step of a request, of time and of the provider preserves the invariant.
LEMMA NextInv == FileCacheInv /\ [Next]_vars => FileCacheInv'
<1> SUFFICES ASSUME FileCacheInv, [Next]_vars PROVE FileCacheInv'
  OBVIOUS
<1>1. CASE UNCHANGED vars
  BY <1>1 DEF vars, provider, history, FileCacheInv, TypeOK, LocksInv, ReadyInv, FilesInv,
              RepairInv, AgeInv, CacheBounded, Entries
<1>2. ASSUME NEW r \in Requests, Start(r) PROVE FileCacheInv'
  BY <1>2, StartStep
<1>3. ASSUME NEW r \in Requests, Drop(r) PROVE FileCacheInv'
  BY <1>3, EndStep DEF Drop
<1>4. ASSUME NEW r \in Requests, Step(r) PROVE FileCacheInv'
  <2>1. CASE \E a \in Uses[r] : StartJob(r, a)
    BY <2>1, StartJobStep
  <2>2. CASE \E a \in Uses[r] : LookUp(r, a)
    BY <2>2, LookUpStep
  <2>3. CASE \E a \in Uses[r] : Upload(r, a)
    BY <2>3, UploadStep
  <2>4. CASE UploadFails(r)
    BY <2>4, EndStep DEF UploadFails
  <2>5. CASE ExpiredPreflight(r)
    BY <2>5, EndStep DEF ExpiredPreflight
  <2>6. CASE Send(r)
    BY <2>6, SendStep
  <2>7. CASE Answer(r)
    BY <2>7, EndStep DEF Answer
  <2>8. CASE NotFound(r)
    BY <2>8, NotFoundStep
  <2>9. CASE Invalidate(r)
    BY <2>9, InvalidateStep
  <2>10. CASE Repeat(r)
    BY <2>10, RepeatStep
  <2>11. CASE TimeOut(r)
    BY <2>11, EndStep DEF TimeOut
  <2> QED
    BY <1>4, <2>1, <2>2, <2>3, <2>4, <2>5, <2>6, <2>7, <2>8, <2>9, <2>10, <2>11 DEF Step
<1>5. ASSUME NEW f \in FileIds, Lose(f) PROVE FileCacheInv'
  BY <1>5, LoseStep
<1>6. CASE Tick
  BY <1>6, TickStep
<1> QED
  BY <1>1, <1>2, <1>3, <1>4, <1>5, <1>6 DEF Next

-----------------------------------------------------------------------------
(* Theorems.                                                               *)

\* The invariant of the file cache, from which the theorems below follow.
THEOREM FileCacheInvariant == Spec => []FileCacheInv
  BY InitInv, NextInv, PTL DEF Spec

\* Every variable of the file cache and of its requests keeps its type.
THEOREM FileCacheTypeOK == Spec => []TypeOK
<1>1. FileCacheInv => TypeOK
  BY DEF FileCacheInv
<1> QED
  BY <1>1, FileCacheInvariant, PTL

\* cap_provider_file_cache keeps the cache within MAX_PROVIDER_FILE_CACHE_ENTRIES.
THEOREM FileCacheCapacity == Spec => []CacheBounded
<1>1. FileCacheInv => CacheBounded
  BY DEF FileCacheInv
<1> QED
  BY <1>1, FileCacheInvariant, PTL

\* The repeated attempt of run_inner never sends a file the 404 had named.
THEOREM FileCacheRepair == Spec => []RepairUsesAnotherFile
<1>1. FileCacheInv => RepairUsesAnotherFile
  BY DEF FileCacheInv, RepairInv, RepairUsesAnotherFile
<1> QED
  BY <1>1, FileCacheInvariant, PTL

\* The single flight of an upload: its key's entry is empty when it ends.
THEOREM FileCacheSingleFlight == Spec => UploadsNeverCollide
<1>1. FileCacheInv =>
        \A r \in Requests : \A a \in Uses[r] :
            Upload(r, a) /\ KeyOf[r][a] # None => cache[KeyOf[r][a]] = None
  <2> SUFFICES ASSUME FileCacheInv, NEW r \in Requests, NEW a \in Uses[r], Upload(r, a),
                      KeyOf[r][a] # None
               PROVE  cache[KeyOf[r][a]] = None
    OBVIOUS
  <2>1. a \in Attachments /\ KeyOf[r][a] \in Keys
    OBVIOUS
  <2>2. phase[r] = "preparing" /\ job[r][a] = "uploading"
    BY DEF Upload
  <2>3. lock[KeyOf[r][a]] = Job(r, a)
    BY <2>2 DEF FileCacheInv, LocksInv
  <2> QED
    BY <2>1, <2>3, JobsAreTold DEF FileCacheInv, LocksInv
<1> QED
  BY <1>1, FileCacheInvariant, PTL DEF UploadsNeverCollide

\* invalidate_provider_file_cache evicts no file but the ones the 404 named.
THEOREM FileCacheSparesNewFiles == Spec => InvalidationSparesNewFiles
<1>1. FileCacheInv =>
        \A r \in Requests : Invalidate(r) =>
            \A k \in Keys :
                cache[k] # None /\ cache'[k] = None /\ ~Expired(cache[k].expires, now) =>
                    cache[k].file \in rejected[r]
  BY InvalidateStep
<1> QED
  BY <1>1, FileCacheInvariant, PTL DEF InvalidationSparesNewFiles

\* validate_prepared_file_expirations refuses only what aged since the pass began.
THEOREM FileCachePreflight == Spec => PreflightFailsOnlyOnAging
<1>1. FileCacheInv =>
        \A r \in Requests : ExpiredPreflight(r) =>
            \A a \in ExpiredUses(r) : expiry[used[r][a]] > since[r]
  BY DEF FileCacheInv, AgeInv, ExpiredPreflight, AllReady, ExpiredUses, Expired
<1> QED
  BY <1>1, FileCacheInvariant, PTL DEF PreflightFailsOnlyOnAging

-----------------------------------------------------------------------------
(* The content cache.  It asks nothing of the constants of the file cache. *)

HIDE FileCacheAssumption

\* What cache_content may keep.
Small == {k \in Contents : Size[k] <= MaxContentBytes}

Distinct(s) == \A i, j \in DOMAIN s : s[i] = s[j] => i = j

-----------------------------------------------------------------------------
(* Bytes.                                                                  *)

Stored(S) == UNION {{k} \X (1 .. Size[k]) : k \in S}

\* A byte is a content and a position in it.
LEMMA StoredBytes ==
    ASSUME NEW S \in SUBSET Small
    PROVE  /\ Bytes(S) = Cardinality(Stored(S))
           /\ \A x : x \in Stored(S) <=> \E k \in S : \E b \in 1 .. Size[k] : x = <<k, b>>
<1>1. \A x : x \in Stored(S) <=> \E k \in S : x \in {k} \X (1 .. Size[k])
  BY Zenon DEF Stored
<1>2. \A x : \A k \in S : x \in {k} \X (1 .. Size[k]) <=> \E b \in 1 .. Size[k] : x = <<k, b>>
  OBVIOUS
<1> QED
  BY <1>1, <1>2 DEF Bytes, Stored

\* Finitely many contents have finitely many bytes.
LEMMA StoredFinite ==
    ASSUME NEW S \in SUBSET Small, IsFiniteSet(S)
    PROVE  IsFiniteSet(Stored(S)) /\ Bytes(S) \in Nat
<1>1. IsFiniteSet(S \X (1 .. MaxContentBytes))
  <2>1. IsFiniteSet(1 .. MaxContentBytes)
    BY FS_Interval, ContentAssumption
  <2> QED
    BY <2>1, FS_Product
<1>2. Stored(S) \subseteq S \X (1 .. MaxContentBytes)
  BY StoredBytes, ContentAssumption DEF Small
<1> QED
  BY <1>1, <1>2, FS_Subset, FS_CardinalityType, StoredBytes

\* The bytes of disjoint contents add up.
LEMMA BytesAdd ==
    ASSUME NEW S \in SUBSET Small, IsFiniteSet(S), NEW T \in SUBSET Small, IsFiniteSet(T),
           S \cap T = {}
    PROVE  /\ Bytes(S) \in Nat /\ Bytes(T) \in Nat
           /\ Bytes(S \cup T) = Bytes(S) + Bytes(T)
<1>1. Stored(S \cup T) = Stored(S) \cup Stored(T)
  BY DEF Stored
<1>2. Stored(S) \cap Stored(T) = {}
  BY StoredBytes
<1>3. /\ IsFiniteSet(Stored(S)) /\ IsFiniteSet(Stored(T))
      /\ Bytes(S) \in Nat /\ Bytes(T) \in Nat
  BY StoredFinite
<1>4. /\ Bytes(S) = Cardinality(Stored(S))
      /\ Bytes(T) = Cardinality(Stored(T))
      /\ Bytes(S \cup T) = Cardinality(Stored(S \cup T))
  BY StoredBytes
<1>5. Cardinality(Stored(S) \cup Stored(T)) =
         Cardinality(Stored(S)) + Cardinality(Stored(T)) - Cardinality(Stored(S) \cap Stored(T))
  BY <1>3, FS_Union
<1>6. Cardinality(Stored(S) \cap Stored(T)) = 0
  BY <1>2, FS_EmptySet
<1>7. Cardinality(Stored(S) \cup Stored(T)) = Cardinality(Stored(S)) + Cardinality(Stored(T))
  BY ONLY <1>3, <1>4, <1>5, <1>6
<1> QED
  BY ONLY <1>1, <1>3, <1>4, <1>7

\* A content has the bytes of its size.
LEMMA BytesOne ==
    ASSUME NEW k \in Small
    PROVE  Bytes({k}) = Size[k]
<1>1. Size[k] \in Nat
  BY ContentAssumption DEF Small
<1>2. IsFiniteSet(1 .. Size[k]) /\ Cardinality(1 .. Size[k]) = Size[k]
  <2>1. ASSUME NEW n \in Nat
        PROVE  IsFiniteSet(1 .. n) /\ Cardinality(1 .. n) = n
    <3>1. IsFiniteSet(1 .. n) /\ Cardinality(1 .. n) = IF 1 > n THEN 0 ELSE n - 1 + 1
      BY ONLY n \in Nat, FS_Interval
    <3> QED
      BY ONLY <3>1, n \in Nat
  <2> QED
    BY ONLY <1>1, <2>1
<1>3. IsFiniteSet({k}) /\ Cardinality({k}) = 1
  BY FS_Singleton
<1>4. Cardinality({k} \X (1 .. Size[k])) = Cardinality({k}) * Cardinality(1 .. Size[k])
  BY <1>2, <1>3, FS_Product
<1>5. Stored({k}) = {k} \X (1 .. Size[k])
  BY DEF Stored
<1>6. Bytes({k}) = Cardinality(Stored({k}))
  BY StoredBytes
<1>7. Cardinality({k} \X (1 .. Size[k])) = Size[k]
  BY ONLY <1>1, <1>2, <1>3, <1>4
<1> QED
  BY ONLY <1>5, <1>6, <1>7

\* Nothing has no bytes.
LEMMA BytesNone == Bytes({}) = 0
<1>1. Stored({}) = {}
  BY DEF Stored
<1> QED
  BY <1>1, StoredBytes, FS_EmptySet

-----------------------------------------------------------------------------
(* Entries.                                                                *)

\* The entries hold finitely many contents.
LEMMA HeldFinite ==
    ASSUME NEW s \in Seq(Small)
    PROVE  Held(s) \in SUBSET Small /\ IsFiniteSet(Held(s))
<1>1. s \in Surjection(1 .. Len(s), Held(s))
  BY DEF Held, Surjection
<1>2. IsFiniteSet(1 .. Len(s))
  BY FS_Interval
<1> QED
  BY <1>1, <1>2, FS_Surjection DEF Held

\* A cut divides the entries and their bytes.
LEMMA Cut ==
    ASSUME NEW s \in Seq(Small), Distinct(s), NEW n \in 0 .. Len(s)
    PROVE  LET old == SubSeq(s, 1, n)
               new == SubSeq(s, n + 1, Len(s))
           IN  /\ old \in Seq(Small) /\ new \in Seq(Small)
               /\ Distinct(new) /\ Len(new) = Len(s) - n
               /\ Held(new) \subseteq Held(s)
               /\ Bytes(Held(old)) \in Nat
               /\ Bytes(Held(new)) \in Nat
               /\ Bytes(Held(s)) =
                     Bytes(Held(old)) + Bytes(Held(new))
<1> DEFINE old == SubSeq(s, 1, n)
           new == SubSeq(s, n + 1, Len(s))
<1>1. /\ old \in Seq(Small) /\ Len(old) = n /\ \A i \in 1 .. n : old[i] = s[i]
      /\ new \in Seq(Small) /\ Len(new) = Len(s) - n /\ \A i \in 1 .. Len(s) - n : new[i] = s[n + i]
  OBVIOUS
<1> HIDE DEF old, new
<1>2. Distinct(new)
  <2> SUFFICES ASSUME NEW i \in 1 .. Len(s) - n, NEW j \in 1 .. Len(s) - n, new[i] = new[j]
               PROVE  i = j
    BY <1>1 DEF Distinct
  <2>1. n + i \in DOMAIN s /\ n + j \in DOMAIN s /\ s[n + i] = s[n + j]
    BY <1>1
  <2> QED
    BY <2>1 DEF Distinct
<1>3. \A x : x \in Held(old) <=> \E i \in 1 .. n : x = s[i]
  <2>1. DOMAIN old = 1 .. n
    BY <1>1
  <2>2. \A x : x \in Held(old) <=> \E i \in 1 .. n : x = old[i]
    BY <2>1 DEF Held
  <2> QED
    BY <1>1, <2>2
<1>4. \A x : x \in Held(new) <=> \E i \in n + 1 .. Len(s) : x = s[i]
  <2>1. \A x : x \in Held(new) <=> \E i \in 1 .. Len(s) - n : x = new[i]
    <3>1. DOMAIN new = 1 .. Len(s) - n
      BY <1>1
    <3> QED
      BY <3>1 DEF Held
  <2>2. ASSUME NEW i \in n + 1 .. Len(s)
        PROVE  i - n \in 1 .. Len(s) - n /\ new[i - n] = s[i]
    <3>1. i - n \in 1 .. Len(s) - n /\ n + (i - n) = i
      OBVIOUS
    <3> QED
      BY <1>1, <3>1
  <2>3. ASSUME NEW i \in 1 .. Len(s) - n
        PROVE  n + i \in n + 1 .. Len(s) /\ new[i] = s[n + i]
    BY <1>1
  <2>4. ASSUME NEW x
        PROVE  (\E i \in 1 .. Len(s) - n : x = new[i]) <=> \E i \in n + 1 .. Len(s) : x = s[i]
    <3>1. ASSUME NEW i \in 1 .. Len(s) - n, x = new[i]
          PROVE  \E j \in n + 1 .. Len(s) : x = s[j]
      BY <2>3, <3>1
    <3>2. ASSUME NEW i \in n + 1 .. Len(s), x = s[i]
          PROVE  \E j \in 1 .. Len(s) - n : x = new[j]
      BY <2>2, <3>2
    <3> QED
      BY <3>1, <3>2
  <2> QED
    BY <2>1, <2>4
<1>5. Held(s) = Held(old) \cup Held(new)
  <2>1. \A i : i \in DOMAIN s <=> i \in 1 .. n \/ i \in n + 1 .. Len(s)
    <3>1. Len(s) \in Nat /\ DOMAIN s = 1 .. Len(s)
      OBVIOUS
    <3> QED
      BY <3>1
  <2>2. \A x : x \in Held(s) <=> \E i \in DOMAIN s : x = s[i]
    BY DEF Held
  <2> QED
    BY <1>3, <1>4, <2>1, <2>2
<1>6. Held(old) \cap Held(new) = {}
  <2>1. ASSUME NEW i \in 1 .. n, NEW j \in n + 1 .. Len(s)
        PROVE  s[i] # s[j]
    BY DEF Distinct
  <2> QED
    BY <1>3, <1>4, <2>1
<1>7. /\ Held(old) \in SUBSET Small /\ IsFiniteSet(Held(old))
      /\ Held(new) \in SUBSET Small /\ IsFiniteSet(Held(new))
  BY <1>1, HeldFinite
<1>8. /\ Bytes(Held(old)) \in Nat
      /\ Bytes(Held(new)) \in Nat
      /\ Bytes(Held(s)) =
            Bytes(Held(old)) + Bytes(Held(new))
  BY <1>5, <1>6, <1>7, BytesAdd
<1> QED
  BY <1>1, <1>2, <1>5, <1>8 DEF old, new

\* A set of numbers that has a member has a least one.
LEMMA Least ==
    ASSUME NEW S \in SUBSET Nat, S # {}
    PROVE  \E n \in S : \A m \in S : n <= m
<1>1. PICK n \in S : \A m \in S : ~(<<m, n>> \in OpToRel(<, Nat))
  BY NatLessThanWellFounded, WFMin
<1>2. \A m \in S : ~(m < n)
  BY <1>1 DEF OpToRel
<1> QED
  BY <1>2

\* The loop stops when the new content fits, at the latest when nothing is left.
LEMMA EvictionsFit ==
    ASSUME NEW s \in Seq(Small), Distinct(s), NEW k \in Small
    PROVE  LET count == Bytes(Held(s))
               n == Evictions(s, count, Size[k])
           IN  /\ n \in 0 .. Len(s)
               /\ Len(s) - n < MaxContentEntries
               /\ count - Bytes(Held(SubSeq(s, 1, n))) + Size[k] <= MaxContentBytes
<1> DEFINE count == Bytes(Held(s))
           Rest(n) == count - Bytes(Held(SubSeq(s, 1, n)))
           Fits(n) == Len(s) - n < MaxContentEntries /\ Rest(n) + Size[k] <= MaxContentBytes
           enough == {n \in 0 .. Len(s) : Fits(n) \/ n = Len(s)}
           n == CHOOSE n \in enough : \A m \in enough : n <= m
<1>1. Evictions(s, count, Size[k]) = n
  BY DEF Evictions
<1>2. Fits(Len(s))
  <2>1. SubSeq(s, 1, Len(s)) = s
    OBVIOUS
  <2>2. count \in Nat
    BY HeldFinite, StoredFinite
  <2>3. Rest(Len(s)) = 0
    <3>1. Rest(Len(s)) = count - count
      BY <2>1
    <3> HIDE DEF Rest, count
    <3> QED
      BY <2>2, <3>1
  <2>4. Len(s) - Len(s) = 0
    OBVIOUS
  <2> QED
    BY <2>3, <2>4, ContentAssumption DEF Small
<1> HIDE DEF Fits
<1>3. enough \in SUBSET Nat /\ enough # {}
  OBVIOUS
<1>4. n \in enough
  <2>1. \E x \in enough : \A m \in enough : x <= m
    <3> HIDE DEF enough
    <3> QED
      BY <1>3, Least
  <2> QED
    BY <2>1
<1>5. n \in 0 .. Len(s) /\ Fits(n)
  BY <1>2, <1>4
<1> HIDE DEF n
<1> QED
  BY <1>1, <1>5 DEF Fits

\* A content that is not cached joins the entries.
LEMMA Joined ==
    ASSUME NEW s \in Seq(Small), Distinct(s), NEW k \in Small, k \notin Held(s)
    PROVE  LET t == Append(s, k)
           IN  /\ t \in Seq(Small) /\ Distinct(t) /\ Len(t) = Len(s) + 1
               /\ Held(t) = Held(s) \cup {k}
               /\ Bytes(Held(t)) = Bytes(Held(s)) + Size[k]
<1> DEFINE t == Append(s, k)
<1>1. /\ t \in Seq(Small) /\ Len(t) = Len(s) + 1 /\ t[Len(s) + 1] = k
      /\ \A i \in 1 .. Len(s) : t[i] = s[i]
  OBVIOUS
<1> HIDE DEF t
<1>2. DOMAIN t = DOMAIN s \cup {Len(s) + 1} /\ DOMAIN s = 1 .. Len(s)
  BY <1>1
<1>3. \A i \in DOMAIN s : s[i] # k
  BY DEF Held
<1>4. Distinct(t)
  BY <1>1, <1>2, <1>3 DEF Distinct
<1>5. Held(t) = Held(s) \cup {k}
  BY <1>1, <1>2 DEF Held
<1>6. Held(s) \in SUBSET Small /\ IsFiniteSet(Held(s))
  BY HeldFinite
<1>7. {k} \in SUBSET Small /\ IsFiniteSet({k}) /\ Held(s) \cap {k} = {}
  BY FS_Singleton
<1>8. Bytes(Held(t)) = Bytes(Held(s)) + Bytes({k})
  BY <1>5, <1>6, <1>7, BytesAdd
<1> QED
  BY <1>1, <1>4, <1>5, <1>8, BytesOne DEF t
-----------------------------------------------------------------------------
(* The content cache.                                                      *)

ReaderType ==
    {NoReader} \cup [at : {"waiting", "reading", "sharing"}, key : Contents]

\* A reader that shares what it reads is the only one, and it is not cached yet.
OneReader ==
    \A r, s \in Readers :
        reader[r].at = "sharing" /\ reader[s] = reader[r] =>
            r = s /\ reader[r].key \notin Held(entries)

ContentInv ==
    /\ entries \in Seq(Small) /\ Distinct(entries)
    /\ Len(entries) <= MaxContentEntries
    /\ total = Bytes(Held(entries)) /\ total <= MaxContentBytes
    /\ reader \in [Readers -> ReaderType]
    /\ OneReader

\* The cache is what it was.
LEMMA EntriesKept ==
    ASSUME ContentInv, UNCHANGED <<entries, total>>,
           reader' \in [Readers -> ReaderType], OneReader'
    PROVE  ContentInv'
BY DEF ContentInv, Distinct, Bytes, Held

\* cache_content keeps the limits and the count.
LEMMA CacheContentKeeps ==
    ASSUME ContentInv, NEW k \in Contents, k \notin Held(entries), CacheContent(k)
    PROVE  /\ entries' \in Seq(Small) /\ Distinct(entries')
           /\ Len(entries') <= MaxContentEntries
           /\ total' = Bytes(Held(entries')) /\ total' <= MaxContentBytes
           /\ Held(entries') \subseteq Held(entries) \cup {k}
<1> DEFINE n == Evictions(entries, total, Size[k])
           old == SubSeq(entries, 1, n)
           new == SubSeq(entries, n + 1, Len(entries))
<1>1. /\ entries \in Seq(Small) /\ Distinct(entries) /\ Len(entries) <= MaxContentEntries
      /\ total = Bytes(Held(entries)) /\ total <= MaxContentBytes
  BY DEF ContentInv
<1>2. CASE Size[k] > MaxContentBytes
  BY <1>1, <1>2 DEF CacheContent
<1>3. CASE ~(Size[k] > MaxContentBytes)
  <2>1. k \in Small /\ Size[k] \in Nat
    BY <1>3, ContentAssumption DEF Small
  <2>2. /\ entries' = Append(new, k)
        /\ total' = total - Bytes(Held(old)) + Size[k]
    BY <1>3 DEF CacheContent, Without
  <2>3. /\ n \in 0 .. Len(entries) /\ Len(entries) - n < MaxContentEntries
        /\ total - Bytes(Held(old)) + Size[k] <= MaxContentBytes
    BY <1>1, <2>1, EvictionsFit
  <2> HIDE DEF n
  <2>4. /\ new \in Seq(Small) /\ Distinct(new) /\ Len(new) = Len(entries) - n
        /\ Held(new) \subseteq Held(entries)
        /\ Bytes(Held(old)) \in Nat /\ Bytes(Held(new)) \in Nat
        /\ Bytes(Held(entries)) = Bytes(Held(old)) + Bytes(Held(new))
    BY <1>1, <2>3, Cut
  <2> HIDE DEF old, new
  <2>5. /\ entries' \in Seq(Small) /\ Distinct(entries') /\ Len(entries') = Len(new) + 1
        /\ Held(entries') = Held(new) \cup {k}
        /\ Bytes(Held(entries')) = Bytes(Held(new)) + Size[k]
    BY <2>1, <2>2, <2>4, Joined
  <2>6. total' = Bytes(Held(entries'))
    BY <1>1, <2>1, <2>2, <2>4, <2>5
  <2>7. Len(entries') <= MaxContentEntries
    <3>1. Len(entries) \in Nat /\ n \in Nat
      BY <1>1, <2>3
    <3> QED
      BY <2>3, <2>4, <2>5, <3>1, ContentAssumption
  <2>8. total' <= MaxContentBytes
    BY <2>2, <2>3
  <2> QED
    BY <2>4, <2>5, <2>6, <2>7, <2>8
<1> QED
  BY <1>2, <1>3

\* Every step keeps the invariant.
LEMMA ContentStep ==
    ASSUME ContentInv, [ContentNext]_contentVars
    PROVE  ContentInv'
<1>0. /\ reader \in [Readers -> ReaderType] /\ OneReader
  BY DEF ContentInv
<1>1. ASSUME NEW r \in Readers, NEW k \in Contents, NEW reuse \in BOOLEAN, Validate(r, k, reuse)
      PROVE  ContentInv'
  <2>1. reader' \in [Readers -> ReaderType]
    BY <1>0, <1>1 DEF Validate, ReaderType
  <2>2. reader'[r].at \in {"waiting", "reading"} /\ \A s \in Readers \ {r} : reader'[s] = reader[s]
    BY <1>0, <1>1 DEF Validate
  <2>3. OneReader'
    BY <1>0, <1>1, <2>2 DEF OneReader, Validate, Held
  <2> QED
    BY <1>1, <2>1, <2>3, EntriesKept DEF Validate
<1>2. ASSUME NEW r \in Readers, LookUpContent(r)
      PROVE  ContentInv'
  <2> DEFINE k == reader[r].key
  <2>1. reader[r] = [at |-> "waiting", key |-> k] /\ k \in Contents
    BY <1>0, <1>2 DEF LookUpContent, ReaderType, NoReader
  <2> HIDE DEF k
  <2>2. /\ \A s \in Readers : reader[s] # [at |-> "sharing", key |-> k]
        /\ reader' = [reader EXCEPT ![r] = IF k \in Held(entries) THEN NoReader
                                           ELSE [at |-> "sharing", key |-> k]]
        /\ UNCHANGED <<entries, total>>
    <3>1. [reader[r] EXCEPT !.at = "sharing"] = [at |-> "sharing", key |-> k]
      BY <2>1
    <3> QED
      BY <1>2, <3>1 DEF LookUpContent, ReadLockFree, k
  <2>3. reader' \in [Readers -> ReaderType]
    BY <1>0, <2>1, <2>2 DEF ReaderType
  <2>4. OneReader'
    <3>1. CASE k \in Held(entries)
      <4>1. reader'[r] = NoReader /\ \A s \in Readers \ {r} : reader'[s] = reader[s]
        BY <1>0, <2>2, <3>1
      <4>2. NoReader.at # "sharing"
        BY DEF NoReader
      <4> QED
        BY <1>0, <2>2, <4>1, <4>2 DEF OneReader, Held
    <3>2. CASE k \notin Held(entries)
      <4>1. /\ reader'[r] = [at |-> "sharing", key |-> k]
            /\ \A s \in Readers \ {r} : reader'[s] = reader[s] /\ reader'[s] # reader'[r]
        BY <1>0, <2>2, <3>2
      <4> QED
        BY <1>0, <2>2, <3>2, <4>1 DEF OneReader, Held
    <3> QED
      BY <3>1, <3>2
  <2> QED
    BY <2>2, <2>3, <2>4, EntriesKept
<1>3. ASSUME NEW r \in Readers, reader[r].at # "idle",
             reader' = [reader EXCEPT ![r] = NoReader], UNCHANGED <<entries, total>>
      PROVE  ContentInv'
  <2>1. reader' \in [Readers -> ReaderType]
    BY <1>0, <1>3 DEF ReaderType
  <2>2. /\ reader'[r] = NoReader /\ NoReader.at # "sharing"
        /\ \A s \in Readers \ {r} : reader'[s] = reader[s]
    BY <1>0, <1>3 DEF NoReader
  <2>3. OneReader'
    BY <1>0, <1>3, <2>2 DEF OneReader, Held
  <2> QED
    BY <1>3, <2>1, <2>3, EntriesKept
<1>4. ASSUME NEW r \in Readers, Resolve(r)
      PROVE  ContentInv'
  <2>1. CASE reader[r].at # "sharing"
    BY <1>3, <1>4, <2>1 DEF Resolve
  <2>2. CASE reader[r].at = "sharing"
    <3> DEFINE k == reader[r].key
    <3>1. /\ reader[r] = [at |-> "sharing", key |-> k] /\ k \in Contents
          /\ k \notin Held(entries)
      BY <1>0, <2>2 DEF ReaderType, NoReader, OneReader
    <3>2. CacheContent(k) /\ reader' = [reader EXCEPT ![r] = NoReader]
      BY <1>4, <2>2 DEF Resolve
    <3> HIDE DEF k
    <3>3. /\ entries' \in Seq(Small) /\ Distinct(entries')
          /\ Len(entries') <= MaxContentEntries
          /\ total' = Bytes(Held(entries')) /\ total' <= MaxContentBytes
          /\ Held(entries') \subseteq Held(entries) \cup {k}
      BY <3>1, <3>2, CacheContentKeeps
    <3>4. reader' \in [Readers -> ReaderType]
      BY <1>0, <3>2 DEF ReaderType
    <3>5. /\ reader'[r] = NoReader /\ NoReader.at # "sharing"
          /\ \A s \in Readers \ {r} : reader'[s] = reader[s]
      BY <1>0, <3>2 DEF NoReader
    <3>6. ASSUME NEW s \in Readers, s # r, reader[s].at = "sharing"
          PROVE  reader[s].key # k
      <4>1. reader[s] = [at |-> "sharing", key |-> reader[s].key]
        BY <1>0, <3>6 DEF ReaderType, NoReader
      <4>2. reader[s] # reader[r]
        BY <1>0, <2>2, <3>6 DEF OneReader
      <4> QED
        BY <3>1, <4>1, <4>2
    <3>7. ASSUME NEW s \in Readers, NEW t \in Readers,
                 reader'[s].at = "sharing", reader'[t] = reader'[s]
          PROVE  s = t /\ reader'[s].key \notin Held(entries')
      <4>1. s # r /\ t # r /\ reader'[s] = reader[s] /\ reader'[t] = reader[t]
        BY <3>5, <3>7
      <4>2. s = t /\ reader[s].key \notin Held(entries)
        BY <1>0, <3>7, <4>1 DEF OneReader
      <4>3. reader[s].key # k
        BY <3>6, <3>7, <4>1
      <4> QED
        BY <3>3, <4>1, <4>2, <4>3
    <3>8. \A s, t \in Readers :
             reader'[s].at = "sharing" /\ reader'[t] = reader'[s] =>
                 s = t /\ reader'[s].key \notin Held(entries')
      BY <3>7
    <3>9. OneReader'
      BY <3>8 DEF OneReader, Held
    <3> QED
      BY <3>3, <3>4, <3>9 DEF ContentInv, Distinct, Bytes, Held
  <2> QED
    BY <2>1, <2>2
<1>5. ASSUME NEW r \in Readers, Abandon(r)
      PROVE  ContentInv'
  BY <1>3, <1>5 DEF Abandon
<1>6. CASE UNCHANGED contentVars
  BY <1>6 DEF contentVars, ContentInv, OneReader, Distinct, Bytes, Held
<1> QED
  BY <1>1, <1>2, <1>4, <1>5, <1>6 DEF ContentNext

-----------------------------------------------------------------------------
(* The theorems.                                                           *)

\* resolve_content and cache_content keep the invariant of the content cache.
THEOREM ContentInvariant == ContentSpec => []ContentInv
<1>1. ContentInit => ContentInv
  <2> SUFFICES ASSUME ContentInit
               PROVE  ContentInv
    OBVIOUS
  <2>1. entries = <<>> /\ total = 0 /\ reader = [r \in Readers |-> NoReader]
    BY DEF ContentInit
  <2>2. Held(entries) = {}
    BY <2>1 DEF Held
  <2>3. entries \in Seq(Small) /\ Distinct(entries) /\ Len(entries) = 0
    BY <2>1 DEF Distinct
  <2>4. total = Bytes(Held(entries))
    BY <2>1, <2>2, BytesNone
  <2>5. reader \in [Readers -> ReaderType] /\ OneReader
    BY <2>1 DEF ReaderType, OneReader, NoReader
  <2> QED
    BY <2>1, <2>3, <2>4, <2>5, ContentAssumption DEF ContentInv
<1> QED
  BY <1>1, ContentStep, PTL DEF ContentSpec

\* cache_content counts the bytes it keeps and holds both limits, and the read lock
\* lets one reader at a time share what is not cached yet.
THEOREM ContentCounted == ContentSpec => []ContentExact
<1>1. ContentInv => ContentExact
  BY DEF ContentInv, ContentExact, OneReader, Distinct
<1> QED
  BY <1>1, ContentInvariant, PTL

\* Both caches of AttachmentManager keep their limits, used side by side.
THEOREM ManagerBounded == Spec /\ ContentSpec => []CachesBounded
<1>1. CacheBounded /\ ContentExact => CachesBounded
  BY DEF CachesBounded
<1> QED
  BY <1>1, FileCacheCapacity, ContentCounted, PTL
=============================================================================
