# A verification development for the model server

TLA+ modules, TLC configurations and TLAPS proofs for the core of this
repository (the `ollama` server and its fork-specific additions).  Paths are relative
to the repository, `src/` being its root; "P" and "C" below are the two loops of the
scheduler, `processPending` and `processCompleted`.

1. [Inventory](#inventory)
2. [Plan](#plan)
3. [Scheduler and RunnerPool](#scheduler-and-runnerpool)
4. [BlobDownload](#blobdownload)
5. [BlobUpload](#blobupload)
6. [ModelStore](#modelstore)
7. [PrefixCache](#prefixcache)
8. [AgentChat](#agentchat)
9. [The runs](#the-runs)
10. [The proofs](#the-proofs)
11. [Findings](#findings)
12. [Known problems without a run](#known-problems-without-a-run)
13. [Not modelled](#not-modelled)

## Inventory

| component | state it keeps | operations | who it talks to |
|---|---|---|---|
| **Scheduler** `server/sched.go` | map of loaded runners, the server being loaded, four channels, per runner a count, a keep-alive, a timer, a mutex | `getRunner`, `processPending`, `load`, `processCompleted`, `useLoadedRunner`, `needsReload`, `evictAllAndWait`, `findRunnerToUnload`, `expireRunner`, `expireRunnersForRuntimeOOM`, `unloadAllRunners`, timers | handlers through channels; runner processes; hardware discovery |
| **HTTP handlers, server start** `server/routes.go` | one context per request | `scheduleRunner`, the handlers, the signal goroutine of `Serve` | Scheduler, model store, caches |
| **Runner processes** `llm/llama_server.go` | process state, health status, exit error, stall deadline | `Load`, `WaitUntilRunning`, `Ping`, `Completion`, `Close`, the goroutine that waits for the process | Scheduler |
| **Blob download** `server/download.go`, `PullModel` | process-wide map of downloads, a reference count and cancel function each, part files and a partial file on disk | `downloadBlob`, `Prepare`, `Run`, `downloadChunk`, `Wait`, `release`, `verifyBlob` | registry, model store |
| **Blob upload** `server/upload.go`, `PushModel` | process-wide map of uploads, next-URL channel, `done`, `err` | `Prepare`, `Run`, `uploadPart`, `Wait` | registry |
| **Model store** `manifest/`, `server/images.go`, `server/create.go` | manifests and blobs on disk | `WriteManifest`, `RemoveLayers`, `deleteUnusedLayers`, `PruneLayers`, `CopyModel`, create | handlers, downloads, caches |
| **Caches** `server/model_list_cache.go`, `model_show_cache.go`, `model_recommendations.go` | entries by model, hydration state | `hydrate`, `syncManifests`, `RefreshModel`, `DeleteModel` | model store, handlers |
| **MLX prefix cache** `x/mlxrunner/prefix_cache.go`, `cache_trie.go`, `cache/` | trie of token sequences with snapshots, active path, bytes paged out; per layer a live KV or recurrent cache | `begin`, `switchToPath`, `advancePath`, `close`, eviction; `Restore`, `Snapshot`, `Split`, `Merge` | the pipeline (`pipeline.go`), MLX thread |
| **MLX thread** `x/internal/mlxthread/thread.go` | job channel, `stopping`, `done` | `Do`, `Stop` | MLX runner |
| **Tensor transfer** `x/transfer/` | work lists, progress, retries | parallel download and upload of many blobs | registry |
| **Agent** `agent/` | history of a session, pending tool calls, approvals | turn loop, tool batches, approval, compaction | server's API, chat |
| **Chat** `cmd/tui/chat/` | conversation, live history, open approval prompt, grants | start and cancel a run, read its events, answer prompts, new chat | Agent through a channel of events |
| **Streaming parsers** `thinking/`, `model/parsers/`, `tools/`, `harmony/` | buffer and state per stream | `AddContent` | handlers |
| **Desktop app** `app/` | server process, updater, settings | restart loop, update download | server, operating system |
| CLI, API compatibility, conversion, templates, discovery, cloud proxy, deployment files | none that outlives a call, or none of interest here | | |

What is hard, and what makes each component correct:

* **Scheduler.**  Every handler, P, C, one goroutine per load, one per finished request, one
  per expired timer and one per busy expiry run concurrently; locks are released between a
  test and the use of its result; events carry no identity; loads fail half-way; processes
  die.  Correct means: no more models than allowed; a runner in use is not unloaded; an
  idle one is, in the end; each request gets exactly one answer; P is never left waiting
  for an unload that will not come; no process is lost.
* **Runner processes.**  Exit of the process races a stop, a health poll and a load deadline.
  Correct: one exit is observed once, every waiter wakes, nothing is used after `Close`.
* **Downloads, uploads.**  Several requests share one transfer that outlives the first; the
  transfer may be cancelled, stalled, retried, or cut by a crash and resumed from disk.
  Correct: a blob in the store is complete and is what its digest says; every waiter returns.
* **Model store.**  Blobs are shared and garbage is collected from a snapshot of the
  manifests while others write.  Correct: the blobs of every manifest exist.
* **Caches.**  What is built outside the lock is applied later.  Correct: once the writers are
  quiet a listing shows what is on disk.
* **Prefix cache.**  Nodes are split, merged and evicted through long sequences of requests.
  Correct: edges of siblings differ, the path from the root spells what the caches hold, the
  byte counter is the sum of the snapshots.
* **Agent and chat.**  Two goroutines keep a history each; after a cancellation events between them may be
  lost.  Correct: no call stays without its result, a tool runs only with consent, no turn is lost.
* **MLX thread.**  Correct: a job accepted is run and answered once, `Stop` returns.

`PROJECT.json` lists the hazards line by line, each with the properties that would catch it.

## Plan

| # | module | contents | state |
|---|---|---|---|
| 1 | `Scheduler` | loading, sharing, eviction of runners | done but for the pure arithmetic; every safety property proved |
| 2 | `RunnerPool`, `SchedulerPool` | what the scheduler promises, and the refinement | done, proved |
| 3 | `BlobDownload` | a blob downloaded by pulls that share it | done for one blob; every safety property proved |
| 4 | `PrefixCache` | trie, active path, live caches, eviction | done; every invariant proved |
| 5 | `ModelStore` | manifests sharing blobs, collection, the list cache | done for pull, create-from, copy, delete, list; proved |
| 6 | `AgentChat` | the agent's session composed with the chat | done; every safety property proved |
| 7 | `BlobUpload` | a blob uploaded by pushes that share it | done for one blob; both safety properties proved |
| 8 | `LlamaServer`, `MlxThread`, `Placement` | inside of a runner process; the thread's `Do` against `Stop`; placement arithmetic | to do |

Which module stands on which: `SchedulerPool` extends `Scheduler` and instantiates `RunnerPool`.  `ModelStore`
takes a download as one action, whose outcomes (the right bytes, wrong ones, none) are those that
`BlobDownload` shows.  `AgentChat` composes the two components that share a channel.  `PrefixCache` composes the
trie, the caches and the pipeline, which share their offsets.  `Sums` (a counter beside the parts it counts)
serves the two transfers and the prefix cache, `Selection` (the members of a sequence outside of a set) the store and the compaction of
`AgentChat`.

Each of these modules has its proofs in a module of its own: `SchedulerProofs` (which extends `SchedulerPool`,
for the refinement), `BlobDownloadProofs`, `BlobUploadProofs`, `ModelStoreProofs`, `AgentChatProofs` and
`PrefixCacheProofs`, which `PrefixCacheLiveProofs` extends.  All but the first extend `DataProofs`, the lemmas about `Sums`
and `Selection`.

The modules declare no recursive operator, so that all of them can be proved about: what is recursive in the code, the walk
down the trie and the page-in along a path, is a function on 0 .. n that has the state of the loop after each turn.

## Scheduler and RunnerPool

`Scheduler.tla` is `server/sched.go` from the moment a handler asks for a runner to the moment
the runner's process is gone, together with `scheduleRunner` and the shutdown goroutine of
`server/routes.go`, and what of a runner process the scheduler can see.

### State

| TLA+ | code |
|---|---|
| `request[q]` | an `LlmRequest` and its handler: where the handler is, the runner it looked up, what was sent on `successCh`/`errCh`, whether the context is over, the goroutine of `useLoadedRunner` or `load` that reports its end (`watch`), `oomRetryAttempted` (`oomRetry`) |
| `runner[r]` | a `runnerRef`: `refCount`, `sessionDuration`, `expireTimer`, `refMu` with its holder, `Options # nil` (`valid`), and its process (`server`); goroutines of fired timers and of retried expiries are counted (`fired`, `retry`) |
| `loaded`, `activeLoading` | the fields of `Scheduler` guarded by `loadedMu` |
| `pendingReqCh`, `expiredCh`, `unloadedCh` | the channels; `unloadedCh` is a number, because what it carries is never looked at |
| `p`, `c` | where P and C are, with their local variables |
| `x` | a call of `expireRunner` or `expireRunnersForRuntimeOOM` in progress |
| `crashes`, `down` | what happened outside |

`finishedReqCh` is represented by the goroutines about to send to it: it is drained by C in any
order, so a channel in between changes only where a request waits.

A request installs at most one runner, so a runner is named by the request that loaded it.

### Granularity

A `loadedMu` section is one step: nothing blocks inside it that another goroutine could see
(installing a runner takes the old runner's `refMu` inside, but the theorem `LoadSlotIsFree`
shows there never is an old runner).  A `refMu` section is one step unless the code sends or
waits while holding it; then the field `refMu` names its holder and the section has several.
Everything between two lock sections is a step of its own: the map is read in `HLookup`/`PTop`,
the reload test is `HCheck`/`PCheck`, the use is `HUse`/`PUse`.

### Actions

* Handler: `HLookup`, `HCheck`, `HUse`, `HEnqueue` (getRunner, with `ErrMaxQueue`), `HFinish` and
  `HCancel` (the context ends because the handler returned or the client left).
* P: `PRecv` .. `PUse` (fast path inside the loop), `PSpace`/`PSum` (`updateFreeSpace` takes every
  `refMu`), `PCreate`, `PCreateFails`, `PPreflight`, `PInstall`, `PRequiredFull`, `PLoadOOM`,
  `PLoadFails`, `PLoadPanics` (the outcomes of `load`), `PList`/`PScan` (`findRunnerToUnload`),
  `PExpire`/`PSend`/`PWait`, `PEvictAll`/`PEvict`/`PEvictSend`/`PEvictWait`, `PStop`.
* C: `CFinished`, `CDecrement`, `CSend`, `CExpired`, `CBusy`, `CDuplicateOrOrphan`, `CUnload`,
  `CRecovered`, `CNotify`, `CStop`.
* Goroutines of a runner: `LoaderReady`, `LoaderFails`, `LoaderExpires`, `TimerFires`, `TimerLocks`,
  `TimerSends`, `RetrySends`.
* Outside: `XExpireModel`, `XRuntimeOOM`, `XMark`, `XSend`, `Crash`, `ShutdownCancels`,
  `UnloadAllRunners`.

### What is abstracted

Which outcome a load has (fits, does not fit, out of memory, fails) is a choice: the sizes that
decide it are data of the machine.  Guards that depend on state stay: the prediction is made only
next to loaded models with GPUs and not for MLX models, an out-of-memory failure is retried only
once and only if the context can shrink or another model is loaded.  Keep-alives are zero, finite
or infinite.  Options are compared, not looked into.  Time is abstract: a finite timer may fire at
any moment, and the wait for memory to come back ends at any moment, as its timeout guarantees.
Adapters and projectors, which `needsReload` compares, follow from the model.  Go's atomicity is
sequentially consistent here: the one unlocked access that matters (`activeLoading` in the failure
path of `load`) is a separate step.

### What the scheduler promises

`RunnerPool.tla` is the scheduler without its channels, locks and goroutines: a pool of at most
`MaxRunners` runners, one per model at most, and a queue served in order.  Its steps are `Ask`, `Grant`,
`Load`, `Loaded`, `Refuse`, `Skip`, `Leave` and `Unload`; a runner leaves the pool only when nobody uses it or
waits for its load.  `SchedulerPool.tla` maps `Scheduler` to it: the pool is `loaded`, the queue is the request
that P has in work followed by `pendingReqCh`, the answer is what was sent on `successCh` or `errCh`.
`ImplementsPool == Pool!Spec` is checked as a property of `reuse`.  The promise ends (`sound`) when a runner is
handed out while it is being unloaded, which is what the run `stale` shows, and at shutdown.

## BlobDownload

`BlobDownload.tla` is one blob of a pull: `downloadBlob` and everything under it in
`server/download.go`, the verification and the manifest of `PullModel`, and what the start of the
server (`PruneLayers`) makes of the files an earlier process left.

### State

| TLA+ | code |
|---|---|
| `pull[p]` | a call of `PullModel`: where it is, the `blobDownload` it holds, `cacheHit`, whether the client left |
| `dl[d]` | a `blobDownload` and the goroutine of `Run`; `parts` is `b.Parts`, `count` is `b.Completed`, `refs` is `references`, `cancelled` says that `CancelFunc` was called, `pc = "over"` that `done` is closed, `ok` that `err` is nil |
| `part[d][i]` | a `blobDownloadPart` and its goroutine: `comp` is `Completed`, `got` what the running attempt copied |
| `entry` | the digest's entry in `blobDownloadManager` |
| `data`, `meta`, `blob` | the partial file, the part files, the blob in the store |

A pull creates at most one download of the blob, so a download is named by the pull that created it.

### Actions

* `downloadBlob`: `Stat`, `LoadOrStore`; `Prepare`: `PrepareRead`, `PrepareHead`, `PrepareCreate` (one
  part file each), `PrepareFails`.
* `Wait` and after: `Acquire`, `Gets`, `Leave`, `Abandon` (with `release`), `Panic` (`release` with a nil
  `CancelFunc`), `Verify`, `WriteManifest`.
* `run`: `RunStart`, `RunFetch`, `RunFails`, `RunWaited`, `RunRemove` (one part file each), `RunRename`,
  `RunDelete`, `RunCloses`; per part `ChunkRead`, `ChunkEnds` (complete, cancelled, stalled or cut off),
  `ChunkSaves`, `ChunkSaveFails`, `ChunkBreaks`.
* Outside: `Crash`, with the restart.

The two goroutines of `downloadChunk`, transfer and stall watch, are one: whichever ends first decides
the error, and an attempt ends when both have.  A save is a step of its own, so a crash can fall
before, into or after it.

### What is abstracted

Parts have one size, and a read copies one unit.  A part of `data` counts the right bytes from its
start, which is all a digest tells.  A crash is one of the process: what was written stays.  The ages
that `PruneLayers` compares are a choice of the part files that go; the partial file is taken to be as
young as the youngest part file, which leaves out an age limit that falls between the last write
and the last save of a download.  The back-off sleeps only delay.

## BlobUpload

`BlobUpload.tla` is one blob of a push: `uploadBlob` and everything under it in `server/upload.go`.  Nothing is
on disk; the registry is its answers.

| TLA+ | code |
|---|---|
| `push[p]` | a call of `uploadBlob`: where it is, the `blobUpload` it holds, whether its client left |
| `up[u]` | a `blobUpload` and the goroutine of `Run`: `url` says that a location is in `nextURL`, `count` is `Completed`, `refs` is `references`, `stop` that `CancelFunc` is set, `err` and `done` the fields |
| `part[u][i]` | a part and its goroutine, patched or, after a redirect, put; `read` is what the attempt has counted |
| `entry`, `stored` | the entry in `blobUploadManager`; which repository has the blob |

`HeadBlob`, `LoadOrStore`, `Prepare`, `PrepareMounts` (the registry mounts the blob, there are no parts and no
channel), `PrepareFails`; `Acquire`, `Gets`, `Leave`, `Abandon` with `Release`; `RunStart`, `RunFails`, `RunNext`
(the select that launches the next part or passes over it), `RunWaited`, `RunTakes`, `RunCommits`,
`CommitFails`, `RunDeletes`; `PartReads`, `PartPatched`, `PartRedirected`, `PartPut`, `PartFails`.  `Dies` is a panic in
one of these goroutines, which ends the server.  A part is read in one step; the limit of 16 parts at a
time is above the number of parts.

## ModelStore

`ModelStore.tla` is `PullModel`, create from another model, `CopyModel` and `DeleteHandler` with the functions of
`manifest/` they call, the prune at the start, and the list cache.  The requests share nothing but files,
and no lock is held over an operation; so an action is one access to the files or to the cache.

| TLA+ | code |
|---|---|
| `manifests`, `blobs` | the manifest files (absent, torn, or their digests) and the blob files (right or wrong content) |
| `op[w]` | a writing request: where it is, the layers still to be looked at, `skipVerify` (`hits`), the old manifest (`old`), the blobs to be removed (`del`) and the manifests still to be read (`toread`) |
| `entries`, `hydrated` | `modelListCache.entries`; `ready` with `hydrateErr` |
| `scans` | `hydrate` and `List` in progress, with what they have read |

`missed`, `lost` and `disturbed` are history variables for the properties, and are named so in the module.
Writing a manifest is `Truncate` and `Encode`: a crash or a reader may come in between.  `Glob`, `Read` and
`RemoveBlob` are `RemoveLayers` and `deleteUnusedLayers`: the directory is listed, each manifest read, then
each blob removed.  A create goes through its own list of layers: those of its source that `skipVerify` does not hold, and always
the configuration it makes.  A copy, too, records in `lost` what its source has lost before it, since the source may be
gone, and the store complete again, when the copy is written.  A request whose source fails to parse goes
on (`adrift`), as the handler does.  A
client that leaves blocks the goroutine of its pull or create at its next progress report (`PullFails`,
`CreateFails`).  Which unreferenced blobs a start removes is a choice, as it depends on their age.

## PrefixCache

`PrefixCache.tla` is the prefix cache of the MLX runner: `prefix_cache.go`, `cache_trie.go`, the KV and the
recurrent cache of `cache/`, and the stages of `pipeline.go`.  One goroutine serves one request after the
other, so an action is a stage of a request: `Begin` (match, page out, rewind, page in, align, schedule),
`Prefill` (one chunk), `Attach` (one scheduled snapshot), `Seed`, `Decode` (one token), `Close` at any point where
the pipeline looks at its context, and `Evict`, one turn of the loop of `enforceEvictionPolicy`.

What a slot of the KV cache or the state of the recurrent cache holds is determined by the tokens it was
computed from, so it is represented by those tokens.  This is what a wrong restore gets wrong, and
what `RecFaithful` and `KVStaysFaithful` speak of.  A lazy snapshot has a range and no data; `CopyOf` gives it
the data that the buffer has at that time.  A snapshot's size is the number of its slots, one for a
recurrent state.  Which node is the least recently used is a choice of the evictable ones.

`Layers` gives the caches in the order of `c.caches`; the run `prefix` has a recurrent and a KV cache, as hybrid
models do, which are the ones that cannot all be rewound alike.

`FindBestMatch` and `PageIn` are loops of the code: the function in each has what the loop has after so many turns, a turn
being `Descend` or `PageInNode`.  `EachLayer` is the loop over `c.caches`.  A slice of an array never has more than the array
(`Slice`), so that a snapshot can have fewer slots than its range says; that it has all of them is what `Holds` asks.

## AgentChat

`AgentChat.tla` composes the agent's session (`agent/`), which runs in a goroutine with a history of its
own, and the chat (`cmd/tui/chat/`), which rebuilds a live history from its events and, when the run ends,
takes its result or falls back on what it has.

| TLA+ | code |
|---|---|
| `run` | `runState` and the place in `Session.Run`: history, round, the calls and results of the round, the reply to a prompt; `over` says that the context is cancelled |
| `events` | the channel made in `startRunWithMessages`; a send blocks, or fails once the context is over |
| `ui` | `chatModel`: `messages`, `liveMessages`, the open prompt, whether a read of the channel is scheduled |
| `grants` | `ApprovalState`, one object for the run and the chat until a new chat makes another |
| `compaction` | `m.compacting` as the chat will have it when it has read the events already sent (`going`), with `canceled` for what `finishManualCompaction` leaves; `st.compactionSkipNotified` (`notified`) |
| `consent` | history: what the user has allowed |

A round is `StreamText`, `StreamCalls` and `StreamEnds` (or `StreamFails`, `StreamBreaks`); `Route` says what becomes
of its calls.  They are refused one by one (`Refuse`, after a cancellation, a denial, at the limit or with
tools disabled) or planned, authorized and executed (`Plan`, `Authorize`, `TakeReply`, `ExecNext`, `CallUnknown`,
`CallStarts`, `CallEnds`).  `Compacts`, `Announce` and `LeavesHistory` are the compaction after the round, `Finish` and
`Return` the end.  The chat's are `Submit`, `Receive`, `ReceivePrompt`, `ReceiveDone`, `ReceiveClosed`, `ReceiveClosedCompacting`, `Approve`, `Deny`,
`Toggle`, `Cancel`, `NewChat`.  The text of messages is one bit, a result is whole, omitted or a notice, and whether
a compaction is due is a choice.  The events that tell of a compaction or an error change no message and are not put
in the channel; what the chat makes of those that get there is in `compaction` at once.  That is not visible before the
channel is closed, which is when the chat looks (`chat.go`, 417), and it has read all events by then.

## The runs

The modules that are checked are those named `MC*`; the configurations differ in the question.

| run | expected | states | question |
|---|---|---|---|
| `reuse` | holds | 2 605 157 | counting, expiry, eviction and unload events in all interleavings; is the scheduler a `RunnerPool` |
| `memory` | holds | 3 053 482 | the slot of the load, and the processes, under out-of-memory retries, disconnection and shutdown |
| `live` | holds | 76 507 | are all requests answered, do idle runners go away |
| `stale` | violated | | is a request ever served by a runner that was unloaded |
| `download` | holds | 439 524 | shared downloads and their files, through departures, failures and a crash |
| `resume` | violated | | does a pull go on from what the end of the process left |
| `upload` | holds | 440 701 | shared uploads, mounts, redirects and retries: progress, arrival, and an end for everyone |
| `pushcancel` | violated | | does `Run` set the error whenever it has not sent all parts |
| `store` | holds | 3 676 883 | what concurrent requests and a crash may do to the models in the store and the listing |
| `prefix` | holds | 262 908 | trie, path, counter and contents of the caches through splits, merges, eviction and cancellation |
| `prefixlazy` | violated | | do lazy snapshots keep the slots they name |
| `agent` | holds | 1 643 433 | histories, consent and the end of a run, whatever the user and the model do |

### Properties

* `TypeOK`: types; no channel exceeds its capacity, no count leaves its range.
* `MaxLoaded`: the limit of loaded models, which P reads long before it writes the map.
* `LoadSlotFree`: while P loads, nobody else installs that model, and `activeLoading` is P's.
* `NoOrphanServer`: until a shutdown signal every live process is loading or in the map.
* `NoLostWakeup`: whenever P waits for an unload, an event exists, or is coming from C, or the
  target is still loaded; for `evictAllAndWait`, as many as are still to be counted.
* `IdleHasTrigger`: a loaded idle runner has a timer, a goroutine or an event that will unload it.
* `RefCountExact`: the count of a loaded runner is the number of its unfinished requests.
* `UnloadSparesUsers`: no step unloads a runner that serves a request.
* `AnsweredOnce`: the answer of a request never changes.
* `Answered`, `UnloadedInTheEnd`: liveness.
* `ImplementsPool`: every step is one of `RunnerPool` or invisible to it.  It says more than the
  invariants together: the order of the queue, which no invariant mentions, and that whatever is
  handed out is in the pool at that moment.

Of `BlobDownload`:

* `TypeOK`: types; no part gets more bytes than it has.
* `OneWriter`: whoever works on the files is the one in the map.
* `NoHoles`: no part is believed further than the file has it.
* `ProgressExact`: the count that clients see is what the parts have, up to reads lost in failed writes.
* `ProgressKept`: what a part file records is not lowered while the file is there.
* `AbandonedIsCancelled`: a download nobody waits for has been cancelled.
* `StartedPullEnds`: a waiting pull whose client stays ends, if its download was ever started.

Of `BlobUpload`:

* `ProgressExact`: what clients see is what was sent, through retries and redirects.
* `BlobArrives`: a push goes on to its manifest only when its repository has the blob.
* `PushEnds`: a waiting push whose client stays gets its answer.
* `RunSetsErr` (violated): a `Run` that goes on to the commit has uploaded every part.

Of `ModelStore`:

* `KeepsBlobs`: no step takes a blob away from a manifest that can be read, except in three named races of
  two requests.  With one request at a time, crashes included, a model stays whole.
* `FetchedIsVerified`: a manifest is written only when every blob that the pull fetched was verified.
* `ListExact`: a listing is right for every name that no request has worked on since it began, whatever
  older hydrations, refreshes and removals have left.

Of `PrefixCache`:

* `TrieShape`: offsets add up, siblings start with different tokens.
* `PathSpells`: the active path spells what the live caches hold, at one offset for all of them.
* `BytesExact`: the counter is what the snapshots own.
* `NoPanic`: the two panics of the code are dead.
* `RecFaithful`, `KVStaysFaithful`: states, slots and snapshots were computed from the tokens they are used for.
* `ContinuationKeepsLive`: a prompt that continues the last conversation keeps all of the live caches, unless a
  snapshot is missing, misses its edge or has too few slots (`Backed`, `EdgeRanges`, `Filled`; see the known problems).
* `LazyIntact` (violated): a lazy snapshot names slots that still hold its tokens.

Of `AgentChat`:

* `CallsAnswered`: no history that is sent or kept has a call without its result, in order.
* `LiveIsHistory`: what the chat rebuilds from events is the session's history.
* `Consented`: a tool runs only if the user has allowed the call, its scope or everything.
* `EarlierTurnsKept`: however a run ends, what came before it stays.
* `RunEnds`: every run ends, unless the chat is `Stranded`: it took the end of a run for that of a compaction (see the
  known problems).

`NoHoles` speaks of downloads whose part files make a whole plan.  Those that start from a part of a
plan are what `resume` shows; their blob fails the digest and is removed.

`RefCountExact`, `UnloadSparesUsers` and `UnloadedInTheEnd` have the proviso `NoStaleHandout`: no
runner was handed out while it was being unloaded.  The run `stale` shows that the code can do
that, and what follows from it is not interesting; the proviso keeps it from hiding everything
else.  It is a statement about the present state that, once false, stays false (nothing lowers the
count of a runner that is not in the map), so it does not excuse a later state.

### Bounds, and why they are enough

* Three requests.  `reuse` and `live`: two for model `a` and one for `b`, with room for one model.
  So a request can share a runner, come back to a model being evicted, find its model replaced, or
  queue behind another; a third request for the same runner repeats these.  `memory`: three models
  with room for three, so that loads fail next to two others, and `evictAllAndWait` waits for two.
* `MaxExpires` = 1 (`reuse`): one call from outside, in every state.  `MaxCrashes` = 1: a process dies
  idle, in use or loading.  More of either multiplies the states, not the kinds of states.
* `MaxQueue` = 5 where the channels are not the question (4 in `live`, where no expiry comes from
  outside), so that a full channel does not mask other behaviour.
* `RefMod` = 8 stands for 2^64 and is larger than any count reached, so that a decrement of zero
  shows as 7.
* `download`: two pulls, of which one may leave, two parts of two units, one failure, one crash.  So a
  pull can start, join, abandon, find an abandoned download still there, start anew on its files,
  and do so after a restart; two parts are the fewest for a plan to lose some, and two units the
  fewest for an attempt to end half-way.  With one failure the tries of a part (`MaxRetries` = 2)
  do not run out one by one, but a part that gives up does occur, as after a full disk.
* `resume` has no departure and no failure: the interruption alone is at fault.
* `upload`: three pushes, two to one repository, of which one may leave and one may be mounted, and one to
  another repository; two parts, one failure.  So an upload can be shared, abandoned, mounted, joined
  from the wrong repository, and its chain of locations has a hand-over, a redirect and an overlap.
  Two pushes of three parts with three failures were checked once as well (1 271 740 states).
* `store`: two names, two models that share a layer, two requests at a time, and three of requests,
  listings and crashes together.  Two names are enough for a blob to be shared by another manifest, and
  two requests for each race; longer sequences start from stores such as `Stores` already gives.
* `prefix`: two tokens, prompts of up to three, one token generated, four requests: enough for an edge to be
  split, made longer and merged, and for a page-out, a page-in and an eviction in one behaviour.  A
  snapshot is taken every two tokens, and one byte may be paged out, so that eviction is always near.
  `prefixlazy` has a KV cache alone, as most models do.
* `agent`: two prompts, two calls, batches of a known, an unknown, and a harmless with a known tool, a channel of
  capacity one (the code's 128 only lets the session run further ahead), one round with tools, and one of a
  server error, a compaction (also one tried in vain), full access or a new chat.  The cancellation is free, and so is the
  attempt to compact a context that is full.
* `CHECK_DEADLOCK` is off in `agent`, where the user may stop asking, and in `upload` and `pushcancel`, where the system
  does stop: the `Run` of a mounted upload and a push that joined a dead upload wait for ever.
  Everywhere else a state without a step must be one where all is done.

### Fairness

`FairSpec` asks weak fairness of each handler, of P, of C, of the goroutines of each runner and of
the outside callers: the Go scheduler is fair to runnable goroutines, mutexes are not starved, and
inferences end.  `CFinished` gets strong fairness: `select` chooses uniformly among ready cases, so
a finished request is received although the 10 ms retries of an expired runner keep the other case
ready.  Nothing is assumed about clients leaving, crashes, expiries from outside or shutdown.

In `BlobDownload`, `Prepare`, `Run` with its parts, and the waiting pulls are weakly fair; a pull whose
client has left is not, since it may hang in reporting its progress to nobody.  A stalled connection
ends by the stall timer, so `ChunkRead` and `ChunkEnds` together make progress.

In `BlobUpload`, `Prepare`, `Run`, each part, and the waiting pushes whose client stays are weakly fair:
requests to the registry end, by their answer or an error.

In `AgentChat`, the session's goroutine, the chat's handling of messages and the user's answer to an open prompt
are weakly fair.  Nothing is assumed about prompts, cancellations, toggles and new chats.

## The proofs

For every value of the constants allowed by `SchedulerAssumption` (finite sets of requests and
models, a capacity and a limit of at least one, a modulus above the number of requests).

**`TypeCorrect`** (`SchedulerProofs`): `Spec => []TypeOK`.  `TypeOK` is not inductive: P in its wait must
have a target, the list that `findRunnerToUnload` walks must not be empty, a counter that
`evictAllAndWait` lowers must be positive.  `TypeInv` adds those facts (`RefsSet`, `CSet`, `PSet`).  The
proof has one lemma per group of actions (handler, P, eviction, C, goroutines, outside), each with
one step per action; lemmas about the shared steps (`UseType`, `MarkType`, `UnloadType`, `SendType`)
and about updating one record (`RunnerUpdate`, `RequestUpdate`) carry the record arithmetic.

**`LoadSlotIsFree`, `LimitHolds`, `NoServerIsLost`** (`SchedulerProofs`): `[]LoadSlotFree`, `[]MaxLoaded`,
`[]NoOrphanServer`.  The three are proved together as `LoadInv == SlotInv /\ CountInv /\ NoOrphanServer`,
on top of `TypeInv`.  `SlotInv` strengthens `LoadSlotFree` by what P's loop keeps wherever it is: a
server whose load was interrupted belongs to the pending request and its model is not in the map,
so P cannot turn to the fast path before dealing with it.  `CountInv` strengthens `MaxLoaded`: from
P's look at the map to the installation the count stays below the limit, because only P adds to the
map.  Steps are grouped by what they can disturb: those that leave the load alone (`QuietSteps`),
those by which P moves back from an attempt (`RetreatSteps`) or along one (`AttemptSteps`), and
`PCreate`, `PInstall`, `CUnload`, the failures and the shutdown on their own.  That no step other than
`PCreate` makes a process live is the action formula `NoStart`.

**`CountIsExact`, `OneAnswerOnly`, `UsersAreSpared`** (`SchedulerProofs`): `[]RefCountExact`, `AnsweredOnce`,
`UnloadSparesUsers`.  The right to answer a request is a token: its handler has it until the request is queued, then
the channel, then P, then the goroutine that loads.  `AnswerInv` and `TurnInv` say that whoever has it finds
the request unanswered and that only one has it; so an answer is never given twice.  `KnownInv` and `ValidInv` say
that every runner somebody knows was installed, and is valid exactly while it is in the map.  `ChargeInv` gives the
count of a runner: its requests that C has not seen finish and the one C is just charging.  It holds as long as
nobody was handed an unloaded runner (`NoStaleHandout`, finding 1); after that a bound is left, which suffices to
show that the counter, whose modulus is above the number of requests, does not wrap.

**`WakeupIsNeverLost`, `IdleRunnerHasTrigger`** (`SchedulerProofs`): `[]NoLostWakeup`, `[]IdleHasTrigger`.  `NoLostWakeup`
speaks of P's wait; to be inductive it must begin with the choice of the target (`WakeInv`): the runner is in the
map, or its unload event is sent or about to be sent by C, and for a wait on several runners the count that is
left is at most those events and the runners still in the map.  `TriggerInv` is `IdleHasTrigger` with what C knows of
the runner whose memory it waits for (`GoneInv`).

**`SchedulerIsPool`** (`SchedulerProofs`): `Spec => ImplementsPool`, the refinement of `RunnerPool`.  One lemma per group of
actions shows that a step installs, unloads, hands out, releases, or leaves the pool as it is.  `LoadingInv` is what
the pool needs beside the earlier invariants: a runner whose own request waits is locked by its loader.
`SchedulerPool` assumes that its words for a request without a runner are not names of requests
(`RunnersAreNoWords`), which model values are not.

**`DataProofs`**: a sum over a finite set of parts changes by what one part changes (`Total`), what `Without` leaves of
a sequence and where each entry goes (`Placed`), and that the k-th last of a set of positions exists.  The library's induction theorems cannot be used here, so induction is over a set of naturals, by the
pigeonhole principle.

**`BlobDownloadProofs`**: `TypeCorrect`, `FilesHaveOneWriter`, `BlobHasNoHoles`, `CompletedIsTheSum`,
`NobodyWaitsThenCancelled`, `RecordedIsKept`, from `IInv`.  At the core is that one download at most is at work, which the part
files are of: its plan is the set of part files there are (`PlanInv`), and no part file records more than the
partial file has when the plan is whole (`WholeInv`).  A plan that is not whole comes from a crash in `newPart`; that a
removal which stops midway does not look like a whole plan is because it deletes part file 0 first.  The
invariant holds across crashes, since it says of the files what a restart finds.

**`BlobUploadProofs`**: `TypeCorrect`, `ProgressIsExact`, `PushedBlobArrives`, from `Inv`.  An upload is untouched until its push has
prepared it (`PushInv`); then its counter is the sum of what its parts have read, whatever is repeated; one that ends
without an error has reached the commit with every part through, so that the repository has the blob.  When the server
dies in the middle (`Dies`) everything is as at the start.

**`ModelStoreProofs`**: `TypeCorrect`, `ListIsExact`, `BlobsAreKept`, `FetchesAreVerified`: `[]TypeOK`, `[]ListExact`, `KeepsBlobs`,
`FetchedIsVerified`.  The invariant has a part for each request by itself: what it has where it is (`Shape`), the blobs
it has found and needs (`Holds`), the blobs it removes and the manifests it has read (`Spares`); and one for each name
of a list (`ListInv`).  A generic lemma (`RequestKeeps`) takes any step of one request to what it does to the files;
the actions are instances of it.  This proof changed the model: `KeepsBlobs` was false for a copy that begins after a
race has broken its source and is written when the broken source has been deleted, which takes more
requests than the run has.  A copy now records what its source lacks, as the other requests do.

**`PrefixCacheProofs`**: `Typed`, `Shaped`, `PathIsSpelled`, `BytesAreExact`, `NeverPanics`, `RecIsFaithful`: `[]` of `TypeOK`,
`TrieShape`, `PathSpells`, `BytesExact`, `NoPanic`, `RecFaithful`, from `IInv`, for any alphabet, thresholds and number of
requests, and for models with KV caches, recurrent ones or both in either order.  What a node spells is defined by recursion
over the trie, which is a bad thing to have in an invariant; so the invariant says that *some* function `s` tells it (`Good`).
`Tree` ties `s` to the edges, so it is determined by the trie (`SpelledIs`), and each change of the trie is one of five
on `s` as well: a leaf more, longer or less, an edge split, a child merged (`LeafAddedTree` .. `ChildMergedTree`).  `Sound` adds
the active path, the counter as a sum over the nodes, and what every snapshot has of `s`: a recurrent state the tokens it
stands for, a lazy KV snapshot a range inside the buffer, without which its copy would be shorter than what was
counted.  `Serving` is what the phase of the request adds: the live caches at one offset, with what they hold a beginning of the
prompt and of what the path spells; the pending snapshots sorted, ahead of the caches, and those taken on the prompt too.

There is one lemma for each operation of the code (`SetSnapshots`, `CopyOut`, `Restore`, `SplitNode`, `MergeWithChild`, `Evict`,
`AdvancePath`, ...), in the order in which they call each other, and one for each stage of a request.  Two of
the invariants are not at all local.  `RecFaithful` needs that the two caches, restored separately and each from another
snapshot, never end at offsets that differ: `PageInIs` shows that whatever was restored is of the tokens matched, and `AlignIs` that
a cache which cannot go back to the least offset takes the others with it.  `BytesExact` needs that a lazy snapshot is counted when it is
copied out, at whichever later write that is, and only once; `CopyOutSound` shows it for all nodes at
a time.  `PathSpells` does not need that the caches reach the end of the path: after a failed page-in they may end
anywhere below it (`SettleIs`).

**`PrefixCacheLiveProofs`**: `ContinuationIsKept`: `ContinuationKeepsLive`, which is about what one step of `begin` does from any state with `IInv`.  The prompt agrees with all that the
active path spells, so the match is a path through it (`BestMatchPasses`): nothing is paged out, and what is left
is page-in.  `On` says what page-in has done after so many of the nodes: no cache is below where it began, the recurrent state is
no further on than the KV cache, and the KV cache has reached the end of the last node that it has a
snapshot of, or of the prompt.  Nodes of the active path, which end where the caches are or before, keep that (`AboveStep`); one below
is restored or passed over (`BelowStep`), and that needs `Backed`, `EdgeRanges` and `Filled`: without them the KV cache may stop
behind the recurrent one, and the alignment frees both.  With `On` the least offset is that of the recurrent state, and the
KV cache can be brought back to any offset before its own (`AlignLayerKeeps`, `SettleKeeps`).

And, in its second half, `KVIsKept`: `KVStaysFaithful`.  That is no consequence of an invariant of the code: what it says of a state
is lost at the first of the two excepted steps, which the code can take.  So it is shown from whatever state is faithful,
along all the steps again.  `Holding` says that a snapshot has, in the buffer or its own data, a slot for each offset of its range,
and that of the tokens of its node; `Faithful` says so of all nodes, `LiveOf` of the slots up to the offset of the cache.
`Steady(F, s, M, c)` carries them from cache to cache, with `M` for the tokens the live slots stand for and `F` for what the step
is excused from: with `F` false only `Sound` and `Clear` are left.  Changes of the trie take the snapshots along with the tokens
(`Bears`; for a merge if the two snapshots `Meet`, which `MergesApart` excepts).  A write spares what the snapshots name: the first one
after a rewind copies out what is in its way (`CopyOutFaithful`), the others meet nothing, or are an overrun (`NotOverrun`).  In
`begin` the live slots change what they stand for in the middle: the rewind leaves those that the old path and the prompt
have in common (`CommonAgrees`), and each snapshot paged in those of a node that the prompt agrees with
(`RestoreKVSteady`).  One more invariant is needed, `LInv`: a capture that waits to be attached is lazy and ends at its offset,
so it is of the live slots when it is attached.

**`AgentChatProofs`**: `TypeCorrect`, `ToolsNeedConsent`, `TurnsAreKept`: `[]TypeOK`, `Consented`, `EarlierTurnsKept`, from `Inv`
(and `CompactionInv` for the type of what the chat knows of a compaction).
That a compaction finds the turn it splits at is the lemma about k-th last positions; the limit on rounds holds
since a round whose calls are run was planned below it (`RoundInv`).  Consent: a call that waits to be run is cleared or is asked about
(`ClearInv`), and a prompt, on its way or open, is that of the session that waits for its answer or of a run that
will ask no more (`PromptInv`), so an answer never reaches another question.  Turns: the session's
history, the live one and every announced one begin with the history of the start or with a summary (`KeepInv`); the
message the chat continues is never the last of that beginning, which is a prompt or a result.

And, in its second half, `HistInvariance`, `CallsAreAnswered`, `LiveMirrors`: `[]CallsAnswered`, `[]LiveIsHistory`.  The steps of
the session are first sorted by what they do to its history (`Texts`, `Calls`, `Gives`, `Joins`, `Shortens`, ...), those of the
chat likewise.  For the session's own history the invariant is that the calls of a batch are those with results and those
left, in order (`BatchInv`), and that all other answers are whole (`TellInv`); dropping summaries and cutting at any
message keep that, because only a summary has a call of id 0 (`Plain`).  The hard part is the history the chat falls back
on when a cancelled run lost events: nothing says which were lost, and `Pending` looks for a result anywhere, while
`Complete` wants it in its place.  `FairInv` closes the gap: the live history, once the events in the channel are applied
(`Replays`), from whichever point it is begun anew (/new empties it in the middle of a run), has either a call that is lost
for good, which `Pending` sees, or only whole answers and one whose results are still to come in order.  At the end none are
to come, so a live history that is not pending is complete.  `MirrorInv` says that without losses the replayed history is the
session's with what the model has said, or the results, so far; it needs that a round begins after a message that the
chat does not continue (`TailInv`), over compactions too.

The assumptions are those of the modules on their constants (finite sets, positive sizes and limits, names that are
not each other's); none is about behaviours.  The properties of the findings' runs are not theorems, they are false.

Only model-checked: the liveness properties (`Answered`, `UnloadedInTheEnd`, `StartedPullEnds`, `PushEnds`, `RunEnds`), as
fairness is out of the prover's reach.  Every invariant and every other action property of the passing runs is proved.

## Findings

1. *A runner can be handed out after it was unloaded* (`stale`).  `needsReload` and `useLoadedRunner`
   are two critical sections; an expiry fits in between.  The request is given a runner with
   `Options == nil`, and its end is later charged to another runner of the same model.
2. *An interrupted pull can make later ones fail* (`resume`).  The end of the process within `writePart`
   leaves a part file that does not decode, between two `newPart` a prefix taken for the plan, between
   two removals part files that can no longer be removed by index.
3. *A lazy snapshot can be overwritten* (`prefixlazy`).  `appendKV` (`kvcache.go`, 65-71) copies out the lazy
   snapshots in its way on the first append after a rewind only; the next chunk or token overwrites those
   further along, and `Restore` takes their slots as valid.
4. *Cancelling a push can take the server down* (`pushcancel`).  A cancelled upload passes over parts
   (`upload.go`, 151); when no launched part fails, `Run` sees no error, goes on to the checksum and calls
   the nil hash of a part that was passed over.

## Known problems without a run

Met while modelling.  The models contain them (and the properties except exactly these steps, by name),
unless said otherwise.

Scheduler:

* `evictAllAndWait` counts unload events, which are anonymous (1639-1646); one left over from another unload
  is counted, and it may return with another model still loaded (its comment, 1604-1606, says that it waits
  for all of them).
* A request with `keep_alive` -1 for the model that is being evicted undoes the eviction (489-491), and P waits
  for ever.
* `expiredCh` has the capacity `OLLAMA_MAX_QUEUE`; with a value of 1 `processCompleted` can block on the channel that
  only it empties (398).

Transfers:

* A pull that joins a download whose `Prepare` then fails waits for ever (`download.go`, 508-511); if its client
  leaves, `release` calls a nil `CancelFunc` and panics.  The same holds of uploads (`upload.go`, 395-398, 315).
* The `Run` of a mounted upload blocks for ever on a nil channel (182), and its entry stays in the map with
  `done` set, so that every later push of the digest is told at once that it was sent.
* Uploads are shared by digest alone (390): a push of the same blob to another repository reports success without
  having uploaded it there.

Model store:

* A blob that a cancelled or failed pull left unverified counts as found for the next pull (`images.go`, 1007-1027).
* Two writing requests at a time can lose blobs: one collects what the other has just found in the store and
  not yet named in a manifest, or names in one the first has already listed.
* If a manifest vanishes while `hydrate` reads the directory its error is kept, and every listing fails until the
  next start (`model_list_cache.go`, 116-118 and 138).
* A torn manifest cannot be deleted: `DeleteHandler` (1263-1271) fails to parse it, while the hint at the start says
  "Re-pull or delete to clear" (`routes.go`, 1961).
* A copy over a model leaves the old model's layers in the store until a later start removes them.
* Create goes on after its source could not be read (`create.go`, 159-162), writes layers nobody names, and
  its goroutine waits for ever; so does that of any pull or create whose client leaves.

Prefix cache:

* A leaf without snapshots is extended in place (`prefix_cache.go`, 457-459 and `cache_trie.go`, 151-166), and the snapshot that is
  then attached covers less than its edge, against the comment at `prefix_cache.go`, 358-360.  Later a page-in
  fails and the caches are dropped, or `Merge` joins snapshots that do not meet.  `EdgeRanges` in the
  module states the comment; it does not hold.
* A merge of a node without a KV snapshot with a child that has one leaves the node without (`kvcache.go`, 275-283),
  while the child's recurrent state stays.  A page-in through it restores the recurrent cache further than the KV cache, the alignment frees both, and
  the conversation is computed anew.  `Backed` in the module excepts it.
* "eviction preserves them" (`prefix_cache.go`, 286-287) is said of user snapshots, but `enforceEvictionPolicy` does not look at `user`.

Agent and chat:

* A chat can wait for ever for a response that has ended.  A run is cancelled in its automatic compaction; the event that
  ends the compaction (`session.go`, 845) and the message that ends the run (`chat.go`, 1162-1165) both lose against the ended
  context.  The chat reads the end of the channel with `compacting` set, takes it for the end of a compaction that the user
  asked for (`chat.go`, 417-419; `compaction.go`, 71-80), and goes on running without a `cancel` and without a read; a prompt is
  answered "wait for current response" (`input.go`, 80) from then on.  `ReceiveClosedCompacting` is that step; without its
  exception for `Stranded`, TLC finds `RunEnds` violated in the run `agent` within seconds.
* `/new` is taken while a run is in progress, which it neither cancels nor detaches (`chat.go`, 984): when the run
  ends its messages become the conversation of the new chat.
* With tools disabled, calls are answered before the limit of rounds is looked at (`session.go`, 284-301), so
  `MaxToolRounds` does not end a run whose model goes on calling tools.

## Not modelled

* Placement, batch sizes and context arithmetic (`sched.go`, 796-1300): pure functions whose outcomes
  are choices in `Scheduler`; a module of their own is planned.
* Several layers per pull or push, with their manifest, in the transfer modules: layers are independent but
  for the order, which `ModelStore` has for pulls.  `PushModel`'s manifest is not modelled.
* Uploads: a redirect without a location (the second one sent would block), a redirect of the put, more than 16
  parts at a time.
* Store: create from uploaded files and safetensors, the show cache and the recommendations.
* Prefix cache: rotating caches, prompts with media, speculative decoding, the client and the HTTP server around
  the runner.
* Agent: the tools, skills, manual compaction, the queue of prompts typed during a run.
* The inside of a runner process, the MLX thread: planned, see above.  Tensor transfers (`x/transfer/`): the protocol of
  blobs without sharing between requests.
* Streaming parsers: sequential text processing, one machine per model; a reference definition would be as
  long as each parser.
* The desktop application, hardware discovery, the cloud proxy: calls to the operating system and copies of streams.
* Request parsing, rendering, templates, tokenizers, conversion, quantization, compatibility layers,
  CLI and user interfaces: data transformation without concurrent state.
* `PsHandler`'s unlocked reads: a data race that changes no state of the model.
