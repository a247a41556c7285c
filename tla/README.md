# Formal model of llm-client

TLA+ modules that model the concurrent and failure-prone core of the
`lingxi-llm-client` crate, TLC configurations that check them on small instances,
and TLAPS proofs for instances of any size. Paths below are relative to the
crate's `src/` directory unless they say otherwise.

To check a run: `tlc -config MCFileCache.cfg MCFileCache`.
To check the proofs: `tlapm ProviderStoreProofs.tla`, and likewise for each `*Proofs.tla`.

## 1. Inventory

The crate is a client for many LLM providers. An application builds an
`LlmClient` and, if it wants persistent settings, a `ClientConfigManager`. Every
request pins the currently published configuration, resolves a model reference
to a route (a head connection and siblings that may take over), prepares its
attachments, is encoded, authenticated and sent, and comes back as a response or
a stream.

| Component | State it keeps | Operations | What makes it correct |
|---|---|---|---|
| Configuration store (`client/store.rs`, `configuration/`, `runtime.rs`) | one JSON file per directory; per process a coordinator behind a mutex and a `PublishedState` that requests read | load a directory; add, remove, restore, re-protocol an account; track, untrack; edit rows; bind an account source; prepare, fetch and apply a model sync | transactions of several processes are atomic; what is committed is published although its caller is dropped; nothing stale is written back; cache keys and bindings never outlive what they identify |
| Provider file cache (`client/attachments/`, `files/policy.rs`) | map from cache key to provider file with expiry; map of upload locks; a cache of contents by bytes and entries, with read locks | look up, upload and cache, evict, invalidate after a 404, preflight; resolve content | one upload per key and one read per content; a repair never reuses the denied file; a late 404 spares the replacement; bounded; no request waits for ever |
| Request executor (`client/executor.rs`, `providers/dispatch.rs`) | the walk of one request: connection, repair used or not, deadline | attempt, repair, failover, stream, collect | a request that changes provider state is submitted once; no credential reaches another connection; nothing is sent after the deadline |
| Automatic file leases (`files/lifecycle.rs`) | files uploaded for one response | track, finish, delete in the background after a drop | a file is there while it is used, and is deleted afterwards |
| Routing (`client/resolve.rs`, `client/snapshot.rs`) | an immutable snapshot of profiles | resolve a reference in a scope, for a wire format | failing over does not change account terms, model or format; hidden profiles change nothing visible |
| Conversation sessions (`client/conversation_session.rs`) | epoch, completed turn, pending observation, prepared binding, mode | prepare, dispatch, recover, observe, reset, clear, close | the model answers exactly the history the caller passed; a rejected continuation is replayed once, in full, and nothing else is; streams of earlier turns change nothing later |
| Responses WebSocket sessions (`client/session.rs`, `websocket.rs`, `transport/websocket.rs`) | socket with its slot, identity, last response behind an `Arc`, health, fallback | prepare, dispatch, prewarm, observe, idle closure | a shortened body refers to a response this socket completed; a busy socket is left to its response |
| Model stream (`client/stream.rs`, `codecs/stream.rs`, `stream_assembly.rs`) | decoder, ready events, response id, completion | next, next batch, continuation, collect | events do not depend on chunks; a collected response is what the provider stated; a continuation names a complete, stored response |
| Framing (`framing/sse.rs`, `framing/eventstream.rs`) | bytes of an unfinished frame | push, finish | frames do not depend on chunks; the buffer is bounded whatever a length field claims |
| Stream decoders (`codecs/*/stream.rs`, `hosting/mod.rs`) | open blocks, tool calls and their argument fragments, held bytes, stop reason | decode a frame, finish | calls and texts come out once and whole; held bytes are accounted for; a cut stream is an error |
| Realtime sessions (`realtime/mod.rs`) | bounded channels between the application and a driver task, one shared sender, an abort signal | send, fence, close, abort, receive | close and abort return; fences are ordered and answered; no deadlock under backpressure |
| File service, accounts, directories, auth, media, encoders, pricing, token counting, provider resources | none or local to one call | one exchange or one pure function each | left to tests; see PROJECT.json, `components` |

Components meet as follows. The store publishes an immutable snapshot under a
read-write lock and every request clones the pointer once, so routing and the
executor work on one snapshot (`held` in `ProviderStore`). The snapshot's
`cache_namespace` and `cache_generations` become part of the file cache's key
(`KeyOf` in `FileCache`). The executor calls the file cache to prepare each
attempt, and `invalidate_provider_file_cache` when a 404 names a prepared file.
It hands a lease to the stream it returns, and the lease's `Drop` spawns a task.
A stream frames and decodes the bytes of its transport and, at its end, tells the
conversation session and the socket session that dispatched it what was completed;
both may have moved on by then. A realtime session stands beside all this: its
driver owns the connection and meets the application only in two channels and an
abort signal.

What is hard in this code: two processes on one configuration directory; callers
dropped while their blocking worker commits; crashes between rename and
publication; requests that use a snapshot older than the published one; uploads
shared by requests that can each be dropped or time out; an answer that is lost
after the provider did the work; deadlines that meet repair and failover;
background deletions beside a running attempt; streams that end after the session
they belong to was reset, cleared or continued; a response whose parts are stated
several times, interleaved and cut anywhere; a driver, its callers and its host
that all wait on bounded channels. PROJECT.json lists each hazard at
its line with the properties that cover it, or the reason why none does.

## 2. Modules and the code

### ProviderStore, AtomicConfig

One action for each step at which another task or process can be seen:

| Code | Actions |
|---|---|
| `ClientConfigManager::run`: spawn a blocking worker, take the mutex | `Call`, `Begin`; a dropped future (`CancelCommit`) is `Cancel` |
| `set_config_dir` | `LoadRead`, `LoadPublish` |
| `Coordinator::transact`: lock the file, read and reconcile, change, check cancellation, rename | `LockFile`, `Stage`, `CheckCancel`, `Write` |
| `ClientConfigManager::publish` | `Publish` |
| `register_profile_account_source` | `BindSource` |
| `prepare_provider_sync`, `fetch`, `apply_provider_sync` | `PrepareSync`, `Fetch`, and the transaction actions |
| errors of I/O and validation | `Fail` |
| a request clones the published state | `TakeSnapshot` |
| the process stops and starts again | `Crash` |

Every transaction kind shares these steps and differs in `Rejects` and `Change`.
A connection stands for everything in a `ProviderProfile` except its models. All
accounts belong to one provider id, so the tracked models are one set.

An account's `rows` are its explicit `ModelRow`s. `Inherited` makes one for every
model of the definition, as `SavedProfile::inherited` does; `Persisted` writes those
that are tracked; `ReconcileSession` compares what was written with what the file
holds now; a definition's row that is not among them is still shown by `Rows`. A row
keeps whether the user edited it and on which connection it was observed; the
merge of the row's single fields is left out, and so is `replace_model`, which gives
a row another model identity and is the only operation to fill `removed_defaults`.
The file is replaced by a rename,
so it is read whole; a temporary file left by a crash is never read and is not
modelled. File locks are those of the kernel and go with the process.

`AtomicConfig` is what a user of the store wants to know: a pending request
takes effect at one instant on what the directory holds then, or never.
`ProviderStore!Atomic` maps a directory to the connections that its file shows
and a task to its request from the call to the rename.

### FileCache

Several requests of one client and the cache they share. A *job* is one
attachment of one request. `StartJob`, `LookUp`, `Upload` and `UploadFails` are
the future that `prepare.rs` polls with `buffer_unordered`; taking the upload
lock and reading the cache is one action because no await lies between. `Send`,
`ExpiredPreflight`, `Answer` and `NotFound` are the attempt; `Invalidate` is one
round of the loop of `invalidate_provider_file_cache`, which takes the key's
upload lock, and `Repeat` is the second `execute_attempt`. `Drop` releases every
guard of the request. `Lose` lets the provider forget a file early. `Tick` moves
time, and never past a timer that has to fire first. The map of weak lock
references is modelled as one mutex per key: a lock that some job holds or waits
for can be upgraded, so all jobs of a key meet at the same one.

### ContentCache

The content cache of the same manager, beside the file cache; they share no state,
and the specification of the manager is `Spec /\ ContentSpec`. `Validate` is the host's check whether
bytes may be shared, `LookUpContent` takes the read lock of the key and looks,
`Resolve` is the resolver's answer and `cache_content`, `Abandon` an error or a
dropped caller. The entries are listed by age; their bytes are counted one by one, as
pairs of a content and a position in it.

### RequestExecutor

One request walking its route. `Validate`, `Resolve`, `PrepareFails`, `Upload`,
`Dispatch`, `SendFails`, `Refused`, `NotFound`, `Repair`, `Accepted`,
`CollectFails` and `Collected` are the steps of `run_inner` and
`execute_attempt`. `ReplayPolicy`, `AttemptCount` and `MayFailover` are
`dispatch.rs`'s policy with the overrides of `run_inner`. The transport chooses
every outcome: `SendFails` covers a request that was never sent as well as one
whose answer is lost. `BeginFinish`, `FinishDelete`, `FinishEnds` and
`Background` are the lease. `sent` is the history of everything handed to the
transport. Errors that no failover trigger tells apart are one kind.

### Routing

Pure selection over a catalogue that `Configure` and `Withdraw` change one
profile at a time, so that TLC visits every catalogue of the pool.
`WithPrecedence` is `resolve_request_with_precedence`, `Resolve` is
`resolve_request_with_protocol`, `Alternate` is `resolve_alternate_protocol`. A
reference is split at a slash into scope and id; names are numbers, in
alphabetical order. `Ranked` sorts a set by how many of its members come before each.

### ResponsesSession, ConversationSession

`ResponsesSession` holds the state of a socket session and the operators on it,
one for each method: `Detached`, `WithoutIdentity`, `Cleared`, `FailedToHttp`,
`Incremental` (`incremental_responses_body`), `Observed`
(`observe_response_frame`), `LeftToOthers`, `Rebound` and `Usable` (the parts of
`prepare_using`). The `Arc` of its continuation state is numbered: a stream
observes the cell it was dispatched with.

`ConversationSession` composes it:

| Code | Actions |
|---|---|
| `complete_in`, `stream_in` | `Begin`, the preparation, `Dispatch`, `Infer` or `TurnDown` |
| `prepare` | `PrepareStateless`, `PrepareChain`, then over a socket `PrepareSocket` or `PrepareFallback`; errors are `PrepareFails`, `PrepareSocketFails` |
| `dispatch` | `Dispatch`, `DispatchUnbound`, `DispatchFails`, `DispatchPrewarm` |
| `recover` and the second attempt | `TurnDown` |
| `Generation::finish` and its `Drop`: the slot becomes idle or closed | `Release` |
| `observe_response_frame`, `SessionObservation`'s `Drop` | `Observe` |
| `Observation::event`, `commit`, `invalidate` | `Commit` |
| `reset`, `close`, `clear_history_preserving_transport`, `responses_transport_mut` | `Reset`, `Close`, `ClearHistory`, `Prewarm` |
| `IdleReader` | `SocketIdleEnds` |

The session needs `&mut self`, so one call runs at a time; streams of earlier
calls end beside it, at any step, on whichever thread polls or drops them. The end of
a stream is three steps (`stage`): `Release` frees the slot and `Observe` tells the socket
session, each under its own mutex, and `Commit` is what the caller does with the last
event. Any step of a call may come between. Over HTTP there is no socket to
hand back and nobody to tell: `Release` ends the stream and `Commit` is next. What takes the session by `&mut` stays one step:
the attempt that `PrepareSocket` connects, and `TurnDown` and `DispatchFails`, which end a
call before it has a stream.

One thing can go wrong between `Release` and `Observe`. A call prepared in the gap
finds the socket usable; then it fails, or the idle socket closes, and the session
drops the socket but keeps the cell; the late `Observe` fills `last` again, and the
next call refers to it over a new socket, although the provider does not store it.
The provider rejects that call and `TurnDown` replays it in full, so the history is
right all the same. `late` marks the responses this can happen to, and
`UnstoredStaysOnItsSocket` excepts them and nothing else; without the exception TLC
refutes it.

The provider is external: it knows a response
by the context it was generated in (`known`), and answers a continuation from
that context.

### RealtimeDriver

`Send`, `BeginClose`/`PollClose`, `BeginAbort`/`SignalAbort` and `DropControls`
are the callers of one cloneable control; `TakeCommand`, `TakeInbound`, `Execute`,
`Return` and `ObserveAbort` are the driver: a `select` picks what is ready,
nondeterministically, and then a script of sends, drains and emits is worked off
one await at a time, while the abort signal may end it between any two. `Receive`,
`RefuseMarkers` and `DropReceiver` are the host. The channels are
`futures::channel::mpsc`, external code modelled by the documented behaviour the
driver relies on: a sender whose message fills the channel is parked and remembers
one waker. One provider frame decodes to one event.

### SseFraming, EventStreamFraming, the five decoders, StreamEvents, StreamAssembly, ModelStream

These are pure operators but for the last. `SseFraming` and `EventStreamFraming`
are the splitters, byte by byte. `ChatDecoder`, `ResponsesDecoder`,
`AnthropicDecoder`, `GeminiDecoder` and `InteractionsDecoder` map a decoder state
and a frame to the next state and the events; `Finish` is the end of the bytes.
`StreamEvents` has the events and `StreamAssembly` the accumulator that makes a response of them.
A frame is a record with what the decoder looks at; a JSON text of arguments is a
sequence of a few tokens, so that a fragment can end anywhere in it, `Value` drops
insignificant space and `Parses` says which sequences are whole.

`ModelStream` is the state machine: the provider writes bytes and closes or
breaks the body, a read takes any part of what was written, and the caller mixes
`next` and `next_batch`. `PushBytes` and `FinishBytes` are `SseDecoder`, or
`BedrockStreamDecoder` when the wire says so. Its properties are stated against
`Frames`, the payloads read without any decoder.

## 3. Runs

Deadlock is not checked where the system may stop: callers need not call again,
requests end, and the bounds on calls, uploads and time end every behaviour.

| Run | Instance | What it shows |
|---|---|---|
| `store_shared` | 2 processes, 3 callers, of which 2 load, 1 directory, 4 calls, 1 crash | `AtomicUpdates`, `CommittedIsPublished`, `CallsReturn` |
| `store_views` | 2 processes with 2 accounts that both define the model, 5 calls that edit rows or 6 that fetch listings; or 1 process with a pinned snapshot, 2 directories, 4 calls, 1 crash | `TypeOK`, `CacheKeyIdentifiesProfile`, `ProfilesHaveGenerations`, `BindingsMatchConnections`, `DurableRowsSurvive`, `ObservationsMatchConnection` |
| `files` | four scenarios: 3 requests over a file the provider loses; 2 requests while files and entries age; 2 requests with 2 attachments and a cache of 1; 2 readers of 4 contents | `CachesBounded`, `RepairUsesAnotherFile`, `UploadsNeverCollide`, `InvalidationSparesNewFiles`, `PreflightFailsOnlyOnAging`, `RequestsEnd` |
| `files_deadline` | the aging scenario, nothing expires | violates `EndsByDeadline` (finding 1) |
| `executor` | every class of request on routes of up to 3, no, one and all triggers, with and without sibling keys; leases of 2 files an attempt, streaming or not; a provider that need not answer | `SubmittedOnce`, `ResentOnlyToRepair`, `OwnCredentials`, `NothingSentLate`, `FilesOutliveTheirUse`, `FilesCollected`, `TimedRequestsReturn` |
| `routing_chain` | every catalogue of up to 3 profiles of a mixed pool | `SiblingsInterchangeable`, `HiddenChangesNoHead` |
| `routing_account` | catalogues that vary in format, region and account | violates `FormatStaysOnAccount` (finding 2) |
| `conversation` | five scenarios of 3 calls, 2 responses and 2 sockets: two identities with sockets, one of which stores nothing; stored responses over HTTP and sockets; a caller's own previous response; two transports; Anthropic threads and a provider without continuations | `ContextIsTheHistory`, `ReferencesOwnHistory`, `UnstoredStaysOnItsSocket`, `InferredOnce`, `ReplayIsFull`, `OthersUninterrupted` |
| `conversation_explicit` | requests that name a conversation | violates `ExplicitLeftIntact` (finding 3) |
| `realtime` | 2 callers, channels of 1, inputs of 2 frames, both receivers; one scenario with 2 inputs and 2 frames, one with sends, closes, aborts and stalls | `FenceOrder`, `CloseSendsTheQueue`, `AbortReturns`, `FencesAnswered`, `WrongReceiverEndsSession`, `UndisturbedCloseReturns` |
| `realtime_close` | the closing scenario | violates `CloseReturns` (finding 4) |
| `stream` | a scenario for each wire and kind of trouble (`MCModelStream`), server-sent events of up to 6 bytes and event streams of up to 10 cut anywhere, and responses of whole frames, each at most once | `ChunkingIrrelevant`, `ContentAsStated`, `ContinuationOfCompleteResponse`, `PendingBytesExact` |

**Bounds.** *Store.* A lost update needs two writers, and a third caller in one
process adds the contention for the mutex behind a worker that waits for the file
lock. A stale row needs a load, an edit by somebody else and a write: three
calls of five. Reviving a cache key needs load, remove and add, or load, load
elsewhere, load again, with a snapshot pinned before: four calls hold either with a
change in between. *Files.* Both sharers of a key can upload, be denied, and
upload again with four uploads and two losses; one entry of capacity makes every second key an
eviction. Two requests with two attachments each are what a circular wait would need.
Both jobs of a request may run at once (`Concurrency` = 2), as with the
`ATTACHMENT_CONCURRENCY` of 4 in the code, which two attachments do not reach; the
proofs hold for any number. *Executor.* A request visits a connection at most twice, so a route of
three has every mix of repair and failover. Three files and two attempts leave
two leases alive at once; `CleanupTries` has its real value. *Routing.* A head, a
sibling and an intruder are the three profiles that the properties relate; larger
catalogues are left to the proofs.
*Conversation.* A stale observation needs a response that is still streaming, an
operation that outdates it, and a call that could use it: three calls and two
responses. A second socket is one to detach to. The run has a `VIEW`, `Alike`: numbers
of cells, epochs and histories are only ever compared with the current ones, which do
not come back, so the view keeps just whether they are equal, and of a stream that has
told everybody what its commit still needs. States that look alike take the same steps
to states that look alike and satisfy the same properties, so nothing is missed. *Realtime.* Channels of one
message are full as soon as anything is in them; an input of two frames can be cut
in half by an abort; two callers are enough for one to take the other's waker.
*Stream.* A line, an ending in two halves and a blank line fit in six bytes, with a
limit of four that they can exceed; two messages of an event stream fit in ten.
The other scenarios write whole frames in stages, in every order within a stage:
two calls or blocks that interleave, the snapshots that confirm or contradict
them, and enough of both to exceed the eight bytes that may be held.

**Fairness.** `ProviderStore`: weak fairness of each worker, since a spawned
blocking task runs whether its caller waits or not; nobody has to call, cancel
or crash, and a fetch need not end. Weak fairness suffices although the locks
are contended because the number of calls is bounded: the result is that no
holder keeps a lock for ever, not that the operating system's lock queue is
fair. `FileCache`: weak fairness of every request's own steps, which assumes that the
transport ends each upload and exchange, if only with an error: an exchange of files is
bounded by `FILE_TIMEOUT` (`files/service.rs:1168`, two minutes; two hours for
a Gemini video), so an upload lock is
given back although its holder has no timeout of its own. `RequestExecutor`:
the client's own steps, the clock and a spawned deletion task go on; no provider is
sure to answer a model request. A background deletion ends by `FILE_TIMEOUT` too, and so
does the wait of a `Repair` for the upload lock of another request, late though that may be
(finding 1).
`RealtimeDriver`: the executor runs every task that was woken, which are the
driver, a caller inside a call and the host's loop until it stalls; nothing makes
callers call, the provider send or a stalled transport go on. `ConversationSession`
and `ModelStream` state safety only and assume no fairness.

## 4. Findings

1. **A repair can outlast its deadline** (`files_deadline`,
   `client/executor.rs:1219`). The invalidation after a 404 waits for the upload
   lock outside `within_deadline`. While another request uploads the same
   attachment, the request with a total timeout waits on beyond it, although
   `client/options.rs:115` describes a total request deadline.
   `executor` shows the damage is bounded: nothing is sent late.
2. **A change of format can leave the account** (`routing_account`,
   `client/resolve.rs:221`). The declared alternate profile is checked for
   account and billing but not for the region; if the region excludes it, its
   name is then read as a group. The route may start on another account, or the
   selection may keep nothing and `promote_head` panics. The region is the only thing
   that is missing: `RoutingFormats` proves the promise for targets that serve it.
3. **A named conversation is shortened all the same** (`conversation_explicit`,
   `websocket.rs:75`). `ConversationSession::prepare` leaves a request that names
   a conversation alone, but `incremental_responses_body` looks only for
   `previous_response_id`: over the socket such a request may get one, and lose
   the items before it.
4. **A close can wait for ever** (`realtime_close`, `realtime/mod.rs:671`). All
   clones of a control share one channel sender, and it remembers one waker. A
   send that finds the queue full, or a second close, replaces the waker of the
   first close, which nobody wakes again. `UndisturbedCloseReturns` shows that a
   close nobody disturbs returns.

The limits of `HiddenChangesNoHead`: it speaks of references without a slash. A
hidden profile whose own model id holds a slash can still make a qualified
reference ambiguous (`AmbiguousNativeAndQualified`); the comment at
`client/resolve.rs:264` promises only that unscoped models stay unambiguous. And it
speaks of models that visible profiles list and whose default formats have their
targets in the region; the proof showed that both are needed, with catalogues of
four profiles. By finding 2 a default format whose target the region excludes is looked
for in a group of that name, where a new hidden profile may come first. A model that
only hidden profiles list is decided among them, even if a default format leads to
a visible one.

## 5. Proofs

Most theorems are of the form `Spec => []P` or `Spec => [][A]_vars`, the others are
facts about the operators of a model that hold in every state, for every value
of the constants that the named assumptions allow. The assumptions give the
constants their types and say that `None` is none of the values it stands beside;
anything more is said below. TLC evaluates them in every run of the module. No
theorem uses a fairness condition.

| Module | Theorems |
|---|---|
| `ProviderStoreProofs` | `StoreTypeOK`, `StorePublishes`, `StoreAtomic` (the refinement of `AtomicConfig`), `StoreCacheKeys`, `StoreGenerations`, `StoreBindings`, `StoreDurableRows`, `StoreObservations` |
| `RequestExecutorProofs` | `ExecutorTypeOK`, `ExecutorSubmitsOnce`, `ExecutorRepairsOnce`, `ExecutorOwnCredentials`, `ExecutorNothingSentLate`, `ExecutorFilesOutliveTheirUse`, `ExecutorFilesAccounted` |
| `AttachmentProofs` | `FileCacheTypeOK`, `FileCacheCapacity`, `FileCacheRepair`, `FileCacheSingleFlight`, `FileCacheSparesNewFiles`, `FileCachePreflight`, `ContentInvariant`, `ContentCounted`, `ManagerBounded` |
| `ConversationProofs` | `ConversationInvariant`, `ConversationTypeOK`, `ConversationContext`, `ConversationReferences`, `ConversationSockets`, `ConversationInfersOnce`, `ConversationReplay`, `ConversationUninterrupted` |
| `RealtimeProofs` | `RealtimeInvariant`, `RealtimeTypeOK`, `RealtimeFences`, `RealtimeCloses` |
| `RoutingProofs` | `RoutingCatalogue`, `RoutingChains`, `RoutingHidden`, `RoutingFormats` |
| `DecoderProofs` | `InnerGoesOn`, and the lemmas for each framing and decoder that `StreamProofs` rests on |
| `StreamProofs` | `StreamInvariant`, `ChunkingIrrelevantAlways`, `PendingBytesExactAlways`; `SplitJoined`, `PushJoined` |

**ProviderStore.** `CommittedIsPublished` is not inductive: it says nothing while
a worker holds the mutex. `StoreInv` is, and has four parts.
`WorkerInv` says what a worker owns at each step: from `Begin` on its process's
mutex, in a transaction also the lock of the directory its coordinator points
to, and before `Publish` a `work` equal to the coordinator's state; so two
workers past the mutex of one process are the same (`MutualExclusion`) and a
repository never changes under a transaction. `PublicationInv` says that memory
and view agree unless some worker of the process is at `Publish`; with
`WorkerInv` that gives `CommittedIsPublished`. `StagedInv` says that staged work
still equals the request's effect on the file *as it is now*, which holds because
only the holder of the file lock writes. The refinement follows: `Write` is
`TakeEffect` by `StagedInv`; errors, rejections, cancellations and crashes are
`GiveUp`; everything else stutters. The lemmas under it say that reconciling,
filling in definitions and dropping what is not durable change no connection
(`ConnsPreserved`), and that each kind of request changes just the account it
names (`ChangeConns`, `ObserveConns`).

The second half of the module has what views and rows need. Every step changes a view by a
publication, a binding or a restart (`NextView`). `KeysInv` relates the snapshot
a request pinned to the view published now: within a namespace the directory is
the same and an equal generation means an equal profile; it is kept because a
publication gives a changed profile the new revision, which exceeds every
generation so far (`Dated`). `StagedExactly` refines `StagedInv` from connections to
whole configurations, and the two row properties are read off `Write`.

**RequestExecutor.** `ExecutorInv` counts. `CountInv` bounds the attempts by the
turn and by whether this turn was repaired; `SentInv` says how many of the last
submissions went to the connection of this turn, and that the one before a repeat
was denied. `LeaseInv` says that a lease holds files of its own attempt, each once
and each still to try, and that a running attempt still has its lease.
`FilesAccounted` is the safety half of `FilesCollected`: no file is forgotten.
`ExecutorAssumption` also says that a route names a connection once and that plan
connections have a route of their own, which `resolve.rs` ensures, and that only a
stream may lack a timeout, which `execution_options` ensures.

**FileCache.** `FileCacheInv` follows the upload lock. A job that uploads under a key
holds the key's lock and the entry is empty until it lets go (`LocksInv`); so a file
enters the cache once, under one key, with an id nobody has used (`FilesInv`), and a
cached file that a 404 named is one that the repair has yet to visit
(`RepairInv`). `AgeInv` says that a prepared file was alive when its pass began.
`FileCacheCapacity` is the file cache's half of `CachesBounded`.

**ContentCache.** `ContentInv` says that the entries are distinct and each fits by itself,
that the counter is their bytes, and that a reader who holds the read lock of a content
is the only one and finds it uncached: this is why `cache_content` adds no content twice.
Bytes are a cardinality, so they add up over disjoint sets (`BytesAdd`) and over the cut
between what is evicted and what stays (`Cut`); `EvictionsFit` says that the loop ends
with room for the new entry. With `FileCacheCapacity` this gives `ManagerBounded`.

**ConversationSession.** Two things stand for a part of the history: the completed
response of the session and the last response of its socket. `ConversationInv` says why
each is right when it is used.

- `EpochInv`: an observer whose epoch is the session's belongs to the history
  that was not cleared since, and its context is what it observed. So
  `Committed` makes `CompletedInv` true again.
- `CellsFit`, `LastFits`: a stream whose cell is the session's is on the session's
  socket, account and history, and two streams never share a socket. So
  `Observed` makes `LastFits` true again, and only a healthy socket keeps a last
  response. `Found` is where the provider finds it: stored, on this socket, or `late`.
- `EndingInv`: a stream that was released still has its socket, and what it will report
  is what the provider keeps of the response, with the output and the account it had.
  So `Observe` and `Commit` may come at any later step.
- `CallSocketInv`: a call that may still reach the provider has the session's
  socket for itself.
- `BodyInv`: its wire body stands for the history the caller passed, and for the
  body the socket session will compare the next request with.
- `ReplayInv`: while a rejected call is replayed, every older observer has an older
  epoch and an older cell.

`PrefixAndRest` is the fact about sequences all of it rests on: a prefix and the rest
after it are the whole. Most steps only forget; for these `Combine` says what is left
to show is about the running call. `ConversationUninterrupted` follows from the lemmas
of the steps, which all state `Undisturbed`, except `Close` and the stream that ends.
`ConversationAssumption` numbers the sockets from 1, in the order they are opened.

**RealtimeDriver.** The driver takes one command or frame at a time and works off a
script for it, so the commands accepted are those taken (`Done`), the one the script
still serves and those queued, in this order. `RealtimeInv` says what each of them has
left behind, as long as the script does not end in a stop (`Lasting`): after a
stop no command follows, and only what is already logged and answered counts.

- `CallInv`: a caller has one accepted close and waits for its answer or has it; a waker
  belongs to a parked caller, and who aborts sent no close.
- `IdsInv`, `QueueInv`, `ScriptInv`: inputs have distinct ids, only accepted inputs are on
  the wire or in a frame's cause, none that is still queued is, and the script is the
  rest of one command or of one frame.
- `SentInv`: every input taken before went out in `FrameCount` frames, and the last one
  too but for the frames the script has yet to send. With `CloseInv`, which says that
  an acknowledged close is followed by nothing, this gives `CloseSendsTheQueue`.
- `ArrivalInv`: a frame that arrived is inbound, at the head of the script or logged.
- `ReadyInv`: a marker waits behind a drain, or what was ready is logged.
- `MarkInv`: a fenced input that was taken is marked in the log, or will be before the
  driver takes the next command; a frame that answers one is reported after its mark.

The last three give `FenceOrder`. `RealtimeAssumption` gives the constants their types;
capacities, the fence limit and the frames per input may be any number, zero included.

**Routing.** The state is one set, so the invariant is short: names identify the profiles
of a catalogue (`Catalogue`). The work is in the operators.

- `Ranks`: a finite set with a strict total order has exactly one member of each
  rank. So `Ranked` enumerates a set in order without repetition (`RankedBy`), which
  `BeforeOrders` lets us use for offers, and `OrderKept` for the positions that
  `retain` keeps. The number of members below one is at once a bound and a rank: this
  takes the place of the recursion a sorting algorithm would need.
- `PrecedenceSound`, `RetainedSound`: every answer is a `Chain` or an error without
  connections, and stays one when a format is filtered out of it; a kept head stays
  the head. `ResolveAnswers` collects the ways a question is answered; `RoutingChains`
  is read off it.
- `SameReading`: catalogues that read a reference alike refuse it alike and start on
  the same head. `HiddenNotNative` and `ScopeOfServed` say when a further profile does
  not change the reading: for a bare model that visible profiles list, and in the scope
  of a connection that is served. With `SameAlternate` they give `RoutingHidden`.
- `ScopeHeads`: in the scope of a served connection a route starts on it. So the head
  that `retain` looks for is there, and `RoutingFormats` follows.

An earlier `HiddenChangesNoHead` did not ask what the visible profiles list. TLC found
nothing against it with three profiles; the proof stopped at `Alternate` and TLC then
refuted it with four (section 4). `RoutingAssumption` also says that names are ordered,
`order` is unsigned (`u32` in the code) and rows are finitely many and have positions.

**ModelStream.** `ChunkingIrrelevant` compares the events with those of the same
bytes read at once, so the invariant carries a second decoder along: `Whole` is
what one call of `push_bytes` makes of all bytes read so far.

- `BodyInv`: the body is bytes of the wire, and a stream that heard its end reads
  no more.
- `DecoderInv`: the decoder of the stream is the one of `Whole`, or both have ended
  (`Same`): after the last event a decoder ignores whatever it still holds, and what
  it holds then does depend on the chunks.
- `EventsInv`: the events delivered and ready are those of `Whole`, nothing follows
  the last one, and whoever got it has a stream that is finished.

The step that reads a chunk keeps this because of `PushJoined`: two calls of
`push_bytes` emit what one call with both chunks emits. It rests on `SplitJoined`,
that is on the framings. For server-sent events each byte is a turn of its own, so a
chunk boundary is between two turns and the half of a line end that is remembered
is part of the state. An event stream is harder: `feed_into` copies as much as the
frame at hand needs, so the turns of two chunks are not those of the joined one. The
proof does not compare turn by turn. `Leads` says that turns from a state end in a
given halted state; there is at most one (`LeadsOnce`), a turn taken or undone does
not change it (`LeadsOn`, `LeadsBack`), and the first state of the second chunk
leads where the joined chunk leads. That `feed_into` halts within one turn more than
there are bytes (`Left` counts them) makes the bound of the modelled loop harmless.
What was emitted before makes no difference to a turn (`SseAfter`, `TurnAfter`) or
to a frame (`Like`), so two runs can be joined.

Each decoder needs one fact besides, that it emits no error event of its own
(`InnerGoesOn`): then an error comes from a refused frame, ends the decoder and is
the last event. For Anthropic the same lemma says that the counter is exact. `Held`
says that the bytes of a decoder are a cardinality, `Retained`, of pairs of a block and
a position, so that a step which changes one block changes the sum by the difference of
its weight (`CitedChanged`, `NativeChanged`): every reservation happens before the
frame is kept, and every release gives back what the block still holds. With the limits
of both framings this gives `PendingBytesExactAlways`.

A frame, a payload and a byte are what `IsFrame`, `IsPayload` and `IsByte` say: a
record with the fields the decoder reads, some of them from an enumeration, sequences
where the wire has arrays; nothing relates one frame to another, so order, repetition
and contradiction are the provider's choice. `WiresAssumption` says that the bodies are
made of such bytes and that a wire has one of the codecs. `LimitsAssumption` says that
the limits are numbers and that an event stream's frame has room for its prelude (16 MiB
and 12 bytes in the code). `NoneAssumption` keeps the absence of an error apart from
the errors. `MaxInteractionBytes` may be anything.

The model's loops over bytes, frames and events are recursive functions on an interval.
`Loop` gives such a function for each body (by the set of lengths for which there is
one, as no induction theorem with an operator parameter can be used), and `UpTo` is the
induction over its turns; a lemma per loop says what a turn keeps.

**Only model-checked.** Liveness (`CallsReturn`, `RequestsEnd`, `FilesCollected`,
`TimedRequestsReturn`, and four properties of `RealtimeDriver`), which the prover
does not handle. Of the stream properties `ContentAsStated` and
`ContinuationOfCompleteResponse`: they relate what a decoder and the accumulator make of
a body to a reading of all its frames (`CallsStated`, `TextsStated` and `EndStated` of `ModelStream`), so their
inductive invariant would have to say for each of the five wires what every
prefix of a body has stated so far; only the wires of the run are checked for them.

## 6. Not modelled

Encoders, decoders of buffered answers, protocol types, exact JSON, token counting
and pricing are functions of large data with no state that several actors share.
Transport, authentication, directories, media services, account queries and most
provider resources are one exchange per call; their outcomes are choices of the
modules above. These make up most of the crate's lines: some ninety provider
endpoints, the policies for single providers' request fields and the message
vocabularies. An upload whose answer is lost leaves a file that no part of the
client can name; `FilesCollected` speaks of the files the client was told of. The
vendored HTTP stack is third-party code.

In the stream modules these are left out: usage, inference, search, container and
connector observations; the escapes that `ArgumentJsonDecoder` undoes; the code
interpreter events of one provider; `collect_structured_json`; the desktop
functions of the Interactions wire; collisions of Gemini's local call ids with
provider ids; collisions of checksums. The provider is assumed to use an output
index for one item only and to send no delta of a block after its stop. A function
call that appears in the terminal snapshot only is never opened by the code, and
approval items are taken from completed responses only; neither is in the inputs.

## 7. Plan

The actions are complete for the parts above. Every safety property of the runs is
proved but `ContentAsStated` and `ContinuationOfCompleteResponse`. For these the next
step is one wire, Chat Completions: `Faultless` in its lemmas becomes a relation
between the frames taken so far and the blocks of the accumulator, and `EventsInv`
already says that the events are those of the frames in their order.
