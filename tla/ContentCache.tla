----------------------------- MODULE ContentCache -----------------------------
(***************************************************************************)
(* The content cache of AttachmentManager beside its file cache:           *)
(* resolve_content (client/attachments/resolve.rs) with the read locks and *)
(* the byte and entry limits of client/attachments/cache.rs.  The two      *)
(* caches share no state.                                                  *)
(*                                                                         *)
(* A reader is one resolve_content; a content stands for a                 *)
(* ContentCacheKey, of which its size is a part.  The host's resolver      *)
(* (external) decides whether bytes may be shared, and may fail.  The      *)
(* cache lists its entries from the oldest to the newest: no two are       *)
(* inserted at one instant.  A reader that holds the read lock of its key  *)
(* is "sharing", one whose resolver opted out is "reading".                *)
(***************************************************************************)
EXTENDS FileCache, Sequences

CONSTANTS
    Readers,
    Contents,
    Size,               \* Size[k]: the size_bytes of content k
    MaxContentEntries,  \* MAX_CONTENT_CACHE_ENTRIES
    MaxContentBytes     \* MAX_CONTENT_CACHE_BYTES

VARIABLES
    entries,    \* content_cache.entries
    total,      \* content_cache.total_bytes
    reader      \* reader[r]: what r reads, and how far it is

contentVars == <<entries, total, reader>>

\* A resolver may read content beyond the limits, which is not kept.
ASSUME ContentAssumption ==
    /\ Size \in [Contents -> Nat]
    /\ MaxContentEntries \in Nat \ {0}
    /\ MaxContentBytes \in Nat

\* The contents that a list of entries holds, and what they take: each content has
\* as many bytes as its size says.
Held(cached) == {cached[i] : i \in DOMAIN cached}
Bytes(contents) == Cardinality(UNION {{k} \X (1 .. Size[k]) : k \in contents})

NoReader == [at |-> "idle"]

ContentInit ==
    /\ entries = <<>> /\ total = 0
    /\ reader = [r \in Readers |-> NoReader]

\* BTreeMap::remove of the previous entry.
Without(cached, k) ==
    LET i == CHOOSE i \in DOMAIN cached : cached[i] = k
    IN  IF k \in Held(cached) THEN SubSeq(cached, 1, i - 1) \o SubSeq(cached, i + 1, Len(cached))
        ELSE cached

\* The loop of cache_content: the oldest entries go, until the new one fits or
\* nothing is left.
Evictions(cached, count, size) ==
    LET Fits(n) == /\ Len(cached) - n < MaxContentEntries
                   /\ count - Bytes(Held(SubSeq(cached, 1, n))) + size <= MaxContentBytes
        enough == {n \in 0 .. Len(cached) : Fits(n) \/ n = Len(cached)}
    IN  CHOOSE n \in enough : \A m \in enough : n <= m

\* cache_content: bytes beyond the limit are not kept; a previous entry goes first.
CacheContent(k) ==
    LET others == Without(entries, k)
        count == IF k \in Held(entries) THEN total - Size[k] ELSE total
        n == Evictions(others, count, Size[k])
    IN  IF Size[k] > MaxContentBytes THEN UNCHANGED <<entries, total>>
        ELSE /\ entries' = Append(SubSeq(others, n + 1, Len(others)), k)
             /\ total' = count - Bytes(Held(SubSeq(others, 1, n))) + Size[k]

\* Mutant: nobody waits for another's read.
ReadLockIgnored(k) == TRUE

\* content_read_lock: the readers of a key meet at one lock.
ReadLockFree(k) == \A r \in Readers : reader[r] # [at |-> "sharing", key |-> k]

\* validate_content_reuse permits sharing or opts out.
Validate(r, k, reuse) ==
    /\ reader[r].at = "idle"
    /\ reader' = [reader EXCEPT ![r] = [at |-> IF reuse THEN "waiting" ELSE "reading", key |-> k]]
    /\ UNCHANGED <<entries, total>>

\* The read lock is taken and the cache consulted.
LookUpContent(r) ==
    LET k == reader[r].key
    IN  /\ reader[r].at = "waiting"
        /\ ReadLockFree(k)
        /\ reader' = [reader EXCEPT ![r] = IF k \in Held(entries) THEN NoReader
                                           ELSE [@ EXCEPT !.at = "sharing"]]
        /\ UNCHANGED <<entries, total>>

\* resolve returns the bytes.
Resolve(r) ==
    /\ reader[r].at \in {"reading", "sharing"}
    /\ IF reader[r].at = "sharing" THEN CacheContent(reader[r].key) ELSE UNCHANGED <<entries, total>>
    /\ reader' = [reader EXCEPT ![r] = NoReader]

\* The resolver fails or returns another length, or the caller is dropped.
Abandon(r) ==
    /\ reader[r].at # "idle"
    /\ reader' = [reader EXCEPT ![r] = NoReader]
    /\ UNCHANGED <<entries, total>>

ContentNext ==
    \E r \in Readers :
        \/ \E k \in Contents, reuse \in BOOLEAN : Validate(r, k, reuse)
        \/ LookUpContent(r) \/ Resolve(r) \/ Abandon(r)

ContentSpec == ContentInit /\ [][ContentNext]_contentVars

\* The byte counter is what the entries add up to, both limits hold, and content
\* that may be shared is read by one reader at a time and never while it is cached,
\* so that no entry is counted twice.
ContentExact ==
    /\ total = Bytes(Held(entries)) /\ total <= MaxContentBytes
    /\ Len(entries) <= MaxContentEntries
    /\ \A i, j \in DOMAIN entries : entries[i] = entries[j] => i = j
    /\ \A r, s \in Readers :
          reader[r].at = "sharing" /\ reader[s] = reader[r] =>
              r = s /\ reader[r].key \notin Held(entries)

\* Neither cache of the manager outgrows its limits: the file cache whatever the mix
\* of insertions and expiry, the content cache with its counter of bytes exact and
\* no content read twice at a time.
CachesBounded == CacheBounded /\ ContentExact
=============================================================================
