# QCFuse: TLA+ specifications and proofs

QCFuse answers RAG prompts by fusing precomputed KV caches.  An *offline* pass (`KVCOMPUTE`)
computes the KV of a prompt's documents and saves it on SSD; an *online* pass first computes the
query against a small digest of the documents (`QCOMPUTE`), uses its query vectors to choose the
tokens worth recomputing, and then blends the recomputed rows into the loaded KV, layer by layer,
while background threads are still reading it (`DO_BLEND`, `DO_BLEND_FINISH`).  The repository is
SGLang with this path added.  This directory models that path and, of the server around it, the
scheduler with its memory and the tokenizer manager with its locks.

Contents: [components](#components) · [modules](#modules) ·
[how the models correspond to the code](#how-the-models-correspond-to-the-code) ·
[runs](#runs) · [fairness](#fairness) · [what the code does not keep](#what-the-code-does-not-keep) ·
[proofs](#proofs) · [not modelled](#not-modelled) · [plan](#plan) · [running](#running).

## Components

Paths are relative to `src/`.

| component | source | state | operations | what is hard | correct when |
|---|---|---|---|---|---|
| KV pools | `srt/utils/cache_blender_info.py` | process-wide lists of per-layer K, V and Q tensors; index metadata | `init_buffers`, `clear`, `clear_layer`, `has_kv`, `put_kv`, `put_q`, slot assignment | shared by the scheduler thread and the loaders; lists shrink under a writer; `put_*` concatenates; in-place mutation | a slot that is read holds the KV of the reader's sample, untouched |
| KVSSDManager, online | `srt/utils/kv_ssd_manager.py` | flags, directories, one event per layer, `task_b_event`, a loader error, pinned buffers | `configure`, `reset`, `reset_layer_events`, `cleanup_runtime_state`, `start_query_cache`, `start_task_b`, `start_do_blend_prefetch`, the waits | up to five daemon threads per request; events cleared while somebody may wait; failures; directories read late | every wait ends, with the data or with the error |
| KVSSDManager, offline | same file | four files per sample | `save_all_chunk_cache`, `save_all_query_cache`, the validators | killed processes; caches shared by baselines | what is accepted as cached can be loaded and is the right one |
| Blend server | `srt/managers/schedule_batch.py` (`prepare_for_extend`), `srt/utils/cache_blender.py`, `srt/managers/tp_worker.py`, `srt/mem_cache/*_cache.py`, `srt/models/qwen3.py` | the batch's `blend_info` | preparation, one call of `blend` per layer, the cleanup after the pass and at the end of decoding, retraction | global state outlives the request that set it up; cleanup happens twice | a pass reads only what its own request prepared |
| Runner | `blend/sglang_blend_ssd.py`, `blend/qcfuse_config.py` | the cache directories | `phase1_offline`, `warmup_blend`, `phase2_online` | resuming over caches of earlier, maybe killed, runs | every sample is computed once and served |
| Digest index | `srt/utils/digest_index_manager.py`, `ContextBlendPool` | layouts, scores, rankings, positions, spans | `prepare_augmented_locs_for_request`, `build_all_indices`, `build_context_positions`, `_coalesce_sorted_positions` | three coordinate systems for one token; budgets and sinks at their limits | a digest row is the token its position says |
| Prompt splitting, batch layout, token selection | `CacheBlender.split_*`, `prepare_for_extend`, `srt/utils/indice_select.py` | chunk bounds, offsets, request boundaries | splitting at the text or at the tokens, layout of both batches, regions, budgets, top-k | two prompts of one request share no coordinates; several requests in a batch | each request recomputes rows of its own, scored with its own question |
| Scheduler and its memory | `srt/managers/scheduler.py`, `schedule_policy.py`, `schedule_batch.py`, `scheduler_output_processor_mixin.py`, `overlap_utils.py`, `srt/mem_cache/` | waiting queue, running batch, last and current batch, `chunked_req`, `result_queue`, radix tree, free lists, request rows, the ring of future tokens | both event loops, admission, chunked prefill, decode, retraction, result processing, aborts, `flush_cache`, the idle check | results one iteration late; requests that end with a decode in flight; shared prefixes; memory at its limit | a batch reads its own KV, no slot is lost or owned twice, every request ends |
| Tokenizer manager | `srt/managers/tokenizer_manager.py`, `srt/utils/aio_rwlock.py`, `scheduler_update_weights_mixin.py` | `rid_to_state`, `is_pause`, a reader/writer lock, a future | `generate_request`, aborts, disconnects, pause and continue, `update_weights_from_disk`, `handle_loop` | asyncio tasks that sleep and wake; outputs and replies on ways that do not wait for each other; retraction behind the caller's back | calls and updates exclude each other and all end |
| the rest of SGLang | `srt/`, `lang/` | | | | not modelled |

The blend components interact through process-wide class attributes only: the scheduler thread
prepares a batch (writing flags, directories, pools and events), starts loader threads, and runs
the forward pass, which waits for the events the loaders set and reads the pools the loaders fill.
Clients reach the scheduler through the tokenizer manager, which sends requests and control
messages over one queue; outputs come back through the detokenizer, replies directly.  The runner
is one client that waits for each response.  `PROJECT.json` lists the hazards of this code line by
line, with the properties that would catch each one.

## Modules

    BlendPools      the pools as values
      KVSSDManager  manager state, loader threads
        BlendServer     clients, scheduler thread, forward pass; composes everything above
          BlendProperties   what it is checked for, and the inductive invariant
            BlendProofs         TLAPS: clients in any order; one client in the runner's order
            MCBlend             TLC
    CacheStore      what the caches on disk promise
    SsdCache        cache files over killed and restarted runs; implements CacheStore
      SsdCacheProofs    TLAPS
      MCSsdCache        TLC
    DigestIndex     from the layout of a prompt to the spans of its digest
      DigestProofs      TLAPS
      MCDigest          TLC
    BlendBatch      from the prompts of a batch to the rows each request recomputes
      MCBatch           TLC
    Numbers         the n-th of a set of numbers, sorting it, totals: used by DigestIndex,
                    RadixTree and the modules above them
    RadixTree       RadixCache as a value: match, insert, split, lock, evict
      Scheduler         event loops, admission, retraction, results, aborts, flush
        SchedulerOrder    the inductive invariant about the order of results
          SchedulerProofs   TLAPS
          SchedulerMemory   the inductive invariant about the owners of slots and rows
            SchedulerMemoryProofs   TLAPS
              SchedulerReadsProofs    TLAPS: what the slots hold, with its inductive invariants
        MCScheduler       TLC
      Counting          TLAPS: facts about sequences, finite sets and totals, for
                        DigestProofs too
    RWLock          the reader/writer lock of the tokenizer manager
      TokenizerManager  calls, updates, pauses, handle_loop; the scheduler as its peer
        TokenizerProofs   TLAPS
        MCTokenizer       TLC

Operators whose name has a suffix such as `KeptOnly_All` or `Budget_Floor` are faulty variants of
the operator they are named after: the bug each property is there to catch.  No specification uses
them; replacing the original by the variant makes TLC report the property (`PROJECT.json`,
`mutants`).

## How the models correspond to the code

### BlendPools, KVSSDManager

A pool is `[len, kv]`: the length of the Python list matters, because an assignment past it raises
`IndexError` in a loader and `put_kv` grows it.  A tensor is abstracted to the sample it belongs
to and its form: `raw` (as computed, before RoPE), `blended` (rotated and partly overwritten in
place), `joined` (concatenated onto what was there) or `garbled` (bytes and metadata of different
directories, or of a cache saved wrong).  The K and the V list are always written together and are
one slot.  The positions that `restore_query_metadata` installs are read together with the digest
KV and are compared with it by length (`Mismatch` in `BlendServer`), so they have no variable.

| variable | code |
|---|---|
| `mode`, `dir` | `_online` / `_offline`; `_sample_dir_chunk`, `_sample_dir_query` |
| `ready`, `taskB`, `err` | `_layer_ready_events`, `task_b_event`, `_loader_error` |
| `hack`, `qbuf`, `ctx` | `HackBlendKVPool.k_buffer/v_buffer`, `.q_buffer`, `ContextBlendPool` |
| `disk` | the caches of a sample: absent, good, or saved wrong |
| `thr` | each loader thread: its program counter, the layers it has left, the directory whose metadata it holds, the file it reads, the layer it carries |

A loader step is what happens between two points where another thread can intervene: opening the
file, testing `has_kv`, reading a layer, writing the slot under its lock, setting the event,
recording an error, releasing the waiters.  `dir` is read at the step where the code reads
`cls._sample_dir_*`, which is not when the thread is started.  `Event.wait()` has two parts: a
thread blocked in it is woken by `set()` even if the event is cleared before it runs again, and is
orphaned when `configure()` replaces the event list.  Any open or read may fail when `IOErrors`.
Loaders of one kind share a pinned buffer and its lock; a read is one step, so the lock has no
variable.

### BlendServer

`prepare_for_extend` is `PrepareKVCompute`, `PrepareQCompute`, `FailRestore` and `PrepareBlend`;
the forward pass is one step per layer (`ForwardKVCompute`, `ForwardQCompute`, `ForwardSelect`,
`ForwardBlend`, `ForwardThrows`), a wait being the guard of the step; `PostForward` is
`_post_forward_blend_cleanup`; `Finish` and `Retract` are `cache_finished_req` at the end of
decoding and from `retract_decode`.  An exception on the scheduler thread ends the process (`Die`).
A `Submit` is what the runner sends: `KVCOMPUTE` for a sample without a cache; `QCOMPUTE`, any
number of `DO_BLEND` rounds and one `DO_BLEND_FINISH` for a sample with one.  `Deviations` lets
clients leave that order and the scheduler retract.

Deliberate abstractions:

- one blend request per batch (`BlendBatch` has the batches of several), `critical_layers` not
  empty, `select_mode` ATTN (the only one the code has), one `start` layer for all requests;
- a preparation and a cleanup are one step each.  They take no wait inside, and what loaders could
  observe in between is covered by the order of whole steps, except that a loader of an *older*
  request may read a half-changed configuration; such loaders exist only under `Deviations`;
- critical layers are loaded in ascending order;
- a retracted request is admitted again only when its own earlier prefetch has returned (threads
  are named by their request);
- requests without a blend style touch none of this state and are left out.

### SsdCache and CacheStore

A file is how many of its writes have been made.  `open(.., "wb")` truncates, so a save first
destroys what was there; closing `kv_packed_meta.json` and truncating `query_packed.bin` are two
steps (`WriteChunkMeta`, `OpenQueryBin`).  A kill (`Kill`) can come between any two writes and loses nothing already
written (a killed process, not a power failure).  `HasCache` is what the runner asks before it
skips a sample, `ChunkLoads` and `QueryLoads` what the server checks when it loads: the runner looks
at metadata only, the server compares sizes too.  Baselines share the chunk caches and the
directories; they differ in `critical_layers`, `digest_ratio` and so in the size of the query
cache.  `CacheAssumption` says that no prefix of one baseline's query cache is exactly as long as
another's whole one: nothing in the files would tell them apart.  `warmup_blend` serves samples
once more and changes no file.  The per-process cache of the query metadata (`_query_meta_cache`)
is dropped by `configure`/`reset` and has no variable.

`CacheStore` is the promise behind the files: per sample a chunk cache and at most one query cache,
which appear and disappear at once; a run serves the samples in order, each from whole caches of
its own baseline.  The refinement mapping (end of `SsdCache`) counts a chunk cache as stored when
the server could load it, and a query cache when its metadata and its bytes are of the same
baseline and complete; `served` is how far phase 2 has come.

### DigestIndex

One request, one layer.  `raw` is where `split_tokens` cut the prompt
`sys, doc, zip, doc, zip, .., query`; `layout` is what `prepare_augmented_locs_for_request`
returns; `ranked` is any order `torch.argsort` may give for the scores; `positions` and `rows` are
what `save_all_query_cache` writes; the loop of `_coalesce_sorted_positions` is one step per
position.  Scores are small integers, any assignment of them.  `digest_ratio` is a number of
quarters, which binary floating point represents exactly: the rounding of `ceil(n * 0.1)` in
floating point is outside the model.

### BlendBatch

A token is `<<part, n>>`, the n-th of a part of the prompt, so that a row can be traced back to
what it stands for.  `Split` cuts both prompts of every request; `PrepareQCompute` and
`PrepareBlend` are the layouts `prepare_for_extend` computes; `Select` is one request in
`IndiceSelector`, with any importance; an index out of range is the `IndexError` that ends the
scheduler thread.  The question is tokenized alike in both prompts.

There are two ways to cut.  A prompt that comes as text is cut at the text of the separator and each
piece is tokenized by itself (`SplitText`).  One that comes as `input_ids` was tokenized whole by the
client and is searched for the separator's tokens (`SplitTokens`), which `cache_blender.py:114-116`
calls brittle, because a tokenizer can merge the separator with the text next to it.  `Joined` is such
a tokenization: any set of separators (`merged`, at most `MaxMerged` of them) has lost an end to the
token before or, when there is no text before, after it.  The tokenizer is not part of the source and
what it merges is not known: `Joined` is that one shape of merging and leaves the text's other tokens
as they are.  `CutsAtSeparators` says what the search then finds: every separator that stayed apart
and no other.  What follows for the rest of the pipeline is in the conditions of the other properties:
a request whose question's separator stayed apart is scored with the query vectors of its own question,
and recomputes its own rows only, whatever happened to its neighbours.  A request whose question's
separator was merged has one chunk less in the `QCOMPUTE` batch, so the code takes the question of the
next request, or indexes out of range when there is none.

### RadixTree and Scheduler

The tree is a function from the text that leads to a node to its slots and its lock count, so a
node's key is its whole prefix and a split adds one entry.  The KV of a slot is the text it was
computed from: `BatchReadsOwnKV` then says that the slots of a request's row were computed from
that request's own tokens.  `pc` is where the loop stands in an iteration:

| `pc` | code |
|---|---|
| `recv`, `merge` | `process_input_requests` (`Arrive`, `Abort`, `FlushCache`), then the first half of `get_next_batch_to_run` |
| `plan`, `admit` | `get_new_batch_prefill` with `PrefillAdder`, one `add_one_req` per step |
| `decode`, `retract`, `step` | `update_running_batch`: `filter_batch`, `check_decode_mem`, `retract_decode`, `prepare_for_decode` |
| `run` | `run_batch`, with `FutureMap` |
| `process` | `process_batch_result_prefill/_decode`, one request per step, or `self_check_during_idle` |
| `dead` | an exception in the loop |

`mode` chooses `event_loop_normal` or `event_loop_overlap`, and `RadixCache` or `ChunkCache`.  In
the overlap loop the result of a batch is processed after the next launch; the GPU runs batches in
the order of their launch on one stream, so a batch writes its KV when it is launched.  Free lists
are bags: a slot freed twice is in one twice.  Which slot `alloc` takes is fixed (the lowest), which
makes a slot freed too early come back soonest.  `new_token_ratio` is a number of tenths out of
`Ratios`.  Its decay may reach any lower value of them at any decode; a retraction sets it to what
`retract_decode` estimates from the requests left, `(decoded + steps * n) / (max_new_tokens + 1)` and
1 at most, rounded down or up to a value of `Ratios` (`RetractRatio`).  Of the number of steps
(`SGLANG_RETRACT_DECODE_STEPS`) the module assumes only that it is positive: with the code's 20 and long
answers the ratio after a retraction is below 1, and the requests are admitted again with a smaller
reserve.  `MCScheduler` has 2 steps, so that both cases come.

### RWLock and TokenizerManager

A step of an asyncio task is what it does between two awaits.  The lock's methods hold an
uncontended `asyncio.Lock` between two waits on its condition, so an attempt is one step:
`EnterReader`/`EnterWriter`, or `Sleep`/`QueueWriter` until `notify_all`.

| variable | code |
|---|---|
| `task`, `update` | where each `generate_request` and each `update_weights_from_disk` stands |
| `paused`, `future` | `is_pause`, `model_update_result` |
| `rids`, `state` | the keys of `rid_to_state`; `finished` and `event` of each `ReqState` |
| `toSched`, `outputs`, `replies` | `send_to_scheduler`; what comes back through the detokenizer; what comes back directly |
| `toAbort` | calls of `/abort_request`, and of `create_abort_task` two seconds after a disconnect |
| `sched` | where the scheduler has the request, and its `to_abort` |

A stream whose client disconnects ends at once and is aborted later; another call notices at its
next poll, aborts and raises (`Disconnect`).  The scheduler's side is its `abort_request` and
`update_weights_from_disk` as they are, and an arbitrary choice of what it admits, retracts and
outputs: `Scheduler` models how it really chooses.  `SchedUpdate` has the three outcomes of a weight
update: flushed (forgetting a request in the last batch only), the assertion that kills the process,
and weights that could not be loaded.  Time has no variable: the four-second poll and the
two-second delay are steps that may come at any moment.

## Runs

| run | instance | distinct states | shows |
|---|---|---|---|
| `MCBlend` | 3 layers, critical {0, 1}, start 0, 2 samples, 4 requests, 1 client, failing reads, every context source, fairness | 45,354 | `TypeOK`; `ReadsOwnKV`: a wait that ends without an error really publishes the sample's own untouched KV; `SavedCachePure`; `NoStrayLoader`: after the cleanup nobody is left to write; `ErrorSticks`; `ComputeEnds`, `BlendEnds`: every pass ends or the server dies of an error, with two named exceptions |
| `MCBlendFree` | critical {1}, start 1, 2 clients (symmetric), 3 requests, all deviations | 352,316 | `BlendedNeverReused` whatever the order of the requests |
| `MCCache` | 2 samples, 2 baselines (4 and 9 bytes), 4 runs, kills, fairness | 19,794 | `TypeOK`, `SkippedIsLoadable`, `ServesOwnBaseline`; `ImplementsStore`: the files refine `CacheStore`; `RunSucceeds` |
| `MCDigest` | 1 or 2 documents of up to 3 tokens, empty chunks, scores {0, 1}, sinks {0, 1, 4}, ratios 0 to 1 | 122,176 | `DigestRowsAreContext`, `SameOffsetInChunk`, `BestTokensKept`, `SpansCover` |
| `MCBatch` | batches of one and two requests, no, empty and several documents, separators of one to three tokens, ratios below 0 to 1, prompts as text or as tokens with at most two merged separators | 166,837 | `TypeOK`, `CutsAtSeparators`, `CollectsQuestions`, `ScoresAligned`, `RecomputesOwn`, `OneRequestServed` |
| `MCScheduler` | 3 requests, 9 slots, 3 rows, chunks of 2, overlapped or not, radix or chunk cache, one early end, two aborts, a flush when all is answered, fairness | 263,733 | `TypeOK`, `BatchReadsOwnKV`, `TreeHoldsItsKeys`, `SlotsDisjoint`, `LocksAreHeld`, `NeverDies`, `OneResultDue`, `ResultsInOrder`, `EveryRequestEnds` |
| `MCTokenizer` | 2 calls, 2 updates, 1 pause, 1 retraction, 1 output that is not the last, fairness | 483,816 | `TypeOK`, `LockExcludes`, `UpdateMeetsAbandoned`, `AbortFindsState`, `EverythingEnds` |
| `MCStaleEvents`, `MCFirstBlend`, `MCTwoRequests`, `MCFutureRing`, `MCFlush` | see [below](#what-the-code-does-not-keep) | | a statement of the source that the code does not keep |

Why the bounds are enough.

- *MCBlend.*  Three layers are one before or at `start`, one critical and one that is neither, in
  the two placements the code distinguishes (a critical layer kept across rounds that is also
  blended, and one that is not).  Four requests are a `KVCOMPUTE`, a `QCOMPUTE` and two blend
  rounds, or two complete `QCOMPUTE`/`DO_BLEND_FINISH` sequences on different samples, which is
  where a leftover of one can reach the other; the free run needs three, a pass that leaves
  something, one that disturbs it, one that reads it.
- *MCCache.*  Four runs of the runner let a run find caches that two different killed runs left.
- *MCDigest, MCBatch.*  Two documents are enough for an offset to accumulate, three tokens for a
  gap, a run and a sink; two requests for an offset between requests.  Two merged separators are one
  in each of two prompts, of one request or of two, and two in the same prompt.
- *MCScheduler.*  Three requests whose prompts and outputs share prefixes need about twice the nine
  slots there are.  A prompt of two tokens with chunks of two is prefilled in one piece or, when
  another request has taken part of the chunk or after a retraction, in several; two requests in the batch and one that waits are enough for one to be
  retracted while its decode is in flight and to find its prefix in the tree when it returns.  What
  the bounds do not reach: a retraction down to a single request that has no slot left (the
  assertion of `retract_decode`), and the late result of a prefill of a request that has produced
  tokens before and is retracted between launch and result.
- *MCTokenizer.*  Two calls, one stream and one not, are a call that holds the lock and one that
  comes while a writer waits; two updates are a writer that holds the lock and one that queues; one
  retraction and one output that is not the last are what it takes for an output to be overtaken by
  the reply to an abort.  Only the stream's client leaves: a call without stream that leaves is
  this with the abort at once.  `/abort_request` is not called here (`Aborted` is empty); aborts
  come from the pause, the update and the disconnect.

`CHECK_DEADLOCK FALSE` is used where the system really stops: clients stop sending, the server may
die, the runs are counted, a prompt is done.  `MCScheduler` checks deadlock, since an event loop
never stops: a dead scheduler would be one.

## Fairness

`FairSpec` of `BlendServer` has weak fairness of the loader threads together (the operating system runs
some thread that can run, and each has a bounded number of steps) and of the scheduler's step as a whole (the event loop takes the next thing it can
do).  A wait is not runnable until its event is set, so a missing `set()` still shows as a pass that
never ends.  Clients have no fairness.  `FairSpec` of `SsdCache` says that a run that is started
and not killed takes its next step.  `FairSpec` of `Scheduler` says that the loop's thread moves on
from every place; requests and aborts come or do not.  `FairSpec` of `TokenizerManager` has weak
fairness of the event loop as a whole and of the scheduler as a whole: no fairness between tasks is
assumed, and none is needed, because each task takes a bounded number of steps; clients do what
they like.

## What the code does not keep

Five runs are expected to find a violation; `PROJECT.json` quotes the lines.

- `MCStaleEvents`: `DO_BLEND` clears "stale" layer events although the critical loader of the
  `QCOMPUTE` may not have looked at the event of layer 0 yet.  If it is that late, it waits for
  ever and so does `wait_task_b`.  This takes a thread that stays unscheduled through a whole
  `QCOMPUTE` pass, but nothing excludes it.  `BlendEnds` shows that it is the only way a blend pass
  hangs under the runner's protocol.
- `MCFirstBlend`: the path for a "first DO_BLEND without prior QCOMPUTE" cannot work for a ratio
  above 0: nobody sets `task_b_event` and there are no query vectors.  A retracted
  `DO_BLEND_FINISH` is admitted again in the same situation.
- `MCTwoRequests`: `_compute_request_boundaries` sums lengths that are sums already, so the second
  request of a `DO_BLEND` batch indexes out of range.
- `MCFutureRing`: the ring of future tokens closes over a request that waits for its first decode
  while a long prompt is prefilled in more than `3 * max_running_requests` chunks.
- `MCFlush`: `flush_cache` does not look at a batch that has just been prefilled, nor at
  `chunked_req`: a request there loses its slots and its row, and is never answered.

Seen in the models and stated as a condition of the properties there, or not at all:

- a contextblend `QCOMPUTE` with `context_cache_source="none"` waits for events nobody sets
  (`ComputeEnds` excludes it by name);
- with two clients, the second cleanup of a `DO_BLEND_FINISH`, when it has finished decoding,
  resets the manager under the other client's session.  The runner is a single client;
- a tokenizer that merges the separator before the question of a `QCOMPUTE` prompt sent as `input_ids`
  makes `prepare_for_extend` collect the rows of the next request, or ends the server when it is the
  last of the batch.  `CollectsQuestions` and `OneRequestServed` state it as their condition; the
  runner sends text, which is cut before it is tokenized;
- a run of another baseline that is killed while it rewrites `kv_packed.bin` leaves a truncated
  chunk cache under metadata that is still whole: the first baseline skips the sample and its
  server dies loading it.  `SkippedIsLoadable` says "unless a run of another baseline was killed";
- a weight update waits for the calls, not for the requests: a request whose client has left may
  still be running, and then the flush after the update fails its assertion and ends the server, or
  does not see the request and forgets it.  `UpdateMeetsAbandoned` says that such requests are the
  only ones an update can meet;
- an output that was sent before its request was retracted and aborted can come after the abort
  reply, which takes the shorter way; `_handle_batch_output` then sets `finished` back to false and
  the call waits for ever, inside the reader lock, and every later update and call behind it.
  `EverythingEnds` excludes it as `Reopened`, for a call that is still waiting;
- `_handle_abort_req` leaves the state of the request in `rid_to_state` for good, so that
  `sigterm_watchdog`, which waits for `rid_to_state` to empty, no longer ends by itself.

## Proofs

TLAPS checks, for every value of the constants that satisfies the modules' assumptions:

| theorem | statement | argument |
|---|---|---|
| `BlendProofs!TypeCorrect` | `Spec => []TypeOK` | from `IInv` |
| `BlendProofs!BlendedSafe` | `Spec => []BlendedNeverReused` | from `IInv` |
| `BlendProofs!ReadsOwn` | `RunnerProtocol => (Spec => []ReadsOwnKV)` | from `RunnerInv` |
| `BlendProofs!SavedPure` | `RunnerProtocol => (Spec => []SavedCachePure)` | from `RunnerInv` |
| `BlendProofs!NoLoaderLeft` | `RunnerProtocol => (Spec => []NoStrayLoader)` | from `RunnerInv` |
| `BlendProofs!ErrorKept` | `RunnerProtocol => (Spec => ErrorSticks)` | every step from `RunnerInv` |
| `SsdCacheProofs!CacheTypes` | `Spec => []TypeOK` | from `IInv` |
| `SsdCacheProofs!OwnBaselineServed` | `Spec => []ServesOwnBaseline` | from `IInv` and the lemma `SizesDiffer` |
| `SsdCacheProofs!SkippedLoads` | `Spec => []SkippedIsLoadable` | from `IInv /\ CleanInv` |
| `SsdCacheProofs!FilesImplementStore` | `Spec => ImplementsStore`, that is `Store!Spec` | every step is a step of the store or changes nothing of it, from `IInv` |
| `SchedulerProofs!ResultsApplied` | `Spec /\ FlushSparesRequests => []ResultsInOrder` | from `OrderInv` |
| `SchedulerProofs!ResultQueue` | `Spec /\ FlushSparesRequests => []OneResultDue` | from `OrderInv` |
| `SchedulerMemoryProofs!SlotsOwned` | `ChunkCacheOnly => (Spec /\ FlushSparesRequests => []SlotsDisjoint)` | from `OrderInv /\ MemInv` |
| `SchedulerMemoryProofs!LoopLives` | `ChunkCacheOnly => (Spec /\ FlushSparesRequests => []NeverDies)` | from `OrderInv /\ MemInv` |
| `SchedulerMemoryProofs!SchedulerTypes` | `ChunkCacheOnly => (Spec /\ FlushSparesRequests => []TypeOK)` | from `OrderInv /\ MemInv` |
| `SchedulerReadsProofs!BatchesReadOwn` | `ChunkCacheOnly => (Spec /\ FlushSparesRequests /\ []FuturesResolve => []BatchReadsOwnKV)` | from `OrderInv /\ MemInv /\ HoldsInv /\ LaunchedInv` |
| `SchedulerReadsProofs!TokensResolve` | no overlap `=> (Spec /\ FlushSparesRequests => []FuturesResolve)` | from `OrderInv /\ TokensInv` |
| `SchedulerReadsProofs!NormalReadsOwn` | `ChunkCacheOnly` and no overlap `=> (Spec /\ FlushSparesRequests => []BatchReadsOwnKV)` | from the two before |
| `DigestProofs!RowsAreTheContext` | `Spec => []DigestRowsAreContext` | from `DigestInv` |
| `DigestProofs!OffsetsAreKept` | `Spec => []SameOffsetInChunk` | from `DigestInv` |
| `DigestProofs!BestAreKept` | `Spec => []BestTokensKept` | from `DigestInv` |
| `DigestProofs!SpansReadAll` | `Spec => []SpansCover` | from `DigestInv` |
| `TokenizerProofs!TypeCorrect` | `Spec => []TypeOK` | from `ValuesOK /\ LockCounts` |
| `TokenizerProofs!LockCorrect` | `Spec => []LockExcludes` | from `LockCounts` |
| `TokenizerProofs!AbortCorrect` | `Spec => []AbortFindsState` | from `RequestInv` |
| `TokenizerProofs!UpdateCorrect` | `Spec => []UpdateMeetsAbandoned` | from `LockExcludes` and `RequestInv` |

`BlendServer`: `IInv == TypeOK /\ LoadersInv /\ RequestsInv /\ BlendedInv`.  `TypeOK` alone is not
inductive: that a loader's next layer is a layer needs that a loader at work has layers left
(`LoadersInv`), and that its file is a directory needs that `dir` is set while loaders live.
`BlendedNeverReused` needs to know that the pass that blends in place runs online and has got past
the layer (`RequestsInv`, `BlendedInv`), that a loader never carries blended KV (`LoadersInv`), and
that a kept layer is blended only in a last round.  The proof has a lemma per component operation,
one step per action, and uses `Deviations` nowhere, so the theorems hold for clients in any order.

The last four theorems of `BlendProofs` are about one client, as the runner is: `RunnerProtocol` says
that there is one client and that it keeps to its order; the scheduler may still retract its requests and
any read may fail.  `RunnerInv` (end of `BlendProperties`) adds to `IInv` where a session stands:
which request is under way and which sample the manager is configured for (`OneAtATime`,
`SessionInv`), what is left between sessions (`RestInv`), what each pool holds at each stage
(`PoolsInv`), which loaders are alive for which stage and what they still have to publish (`CrewInv`),
and that each of them works on its own session's directory (`OwnLoaders`).  `ReadsOwnKV` is not
inductive because it looks only at the moment a wait ends: that the pools are right then needs to
know what every loader has still to write, and that none of an earlier session is left, which in turn
rests on the pass having waited for `task_b_event` and for the last layer before it cleaned up.

`SsdCache`: `IInv == TypeOK /\ SaveInv /\ FilesInv /\ PassedInv /\ ServedInv`; `PassedInv` carries
through phase 1 that every sample passed has metadata of the running baseline, so that in phase 2
the size found can only be that baseline's.  `CleanInv` adds who has used the caches: the commitment
of all four files by the query metadata (`CommitInv`) is inductive only while one baseline used
them or no run was killed, since `BeginSave` of another baseline destroys committed files.

`Scheduler`: `ResultsInOrder` compares the length a request had when its batch was launched with the
request when the result is applied, one iteration and any number of events later.  What links the two
is the number of tokens in flight: `Due(r)` counts the results of at most two batches that owe the
request a token, `Chunks(r)` those that owe it none because its prefill goes on.  `OrderInv`
(`SchedulerOrder`) says that the item of a running request stands exactly `Due(r)` tokens behind the
request's output (`Follows`), that `req.chunks` is `Chunks(r)`, that a request never has a chunk in
flight after one that yields a token, and, for every place of the loop, which requests a batch, the
running batch, the chunked request and the adder share.  TLC found every part true on the instance of
`MCScheduler` before it was proved.  The part about the queue (`QueueInv`) holds after an exception
too.  The hypothesis is the property `FlushSparesRequests`: `MCFlush` shows that a flush can break it,
and then a result is popped from the wrong place.  The proof has a lemma for each action;
its first part and `Counting` supply that what is stored stays a tree of sequences and that the free
lists stay numbers.

The theorems about the scheduler's memory are about `ChunkCache` (`ChunkCacheOnly`:
`disable_radix_cache=True`, as `blend_common.py` starts the server), with either event loop.
`SlotsDisjoint` says only that nothing is free twice.  What makes it so is that everything has one
owner, and `MemInv` (`SchedulerMemory`) names it: an active request owns the slots of its row, or of
the prefix the cache keeps for it between two rounds of its prefill (`Held`); a request that ended or
was retracted while a batch was computing one more token for it owns the slot of that token until the
result is due (`Late`), because only then is it freed.  `SlotsInv` and `RowsInv` say that the free
lists hold exactly what nobody owns.  To keep that through a step, the invariant must know that a late
item still carries the slot and the row it was launched with (`LateOldInv`, `LateNewInv`: this is where
`OrderInv`, which knows which results are due, comes in) and how much of a row is filled (`FillInv`).

`NeverDies` is about numbers.  `RoomInv` carries what the admission calculated up to the allocation that
relies on it: while requests are admitted, the adder's offset covers the tokens and the answers promised
so far; a chunked request keeps room for the rest of its prompt over all its rounds, since what later
requests take away is in the reserve, whatever `new_token_ratio` was, the estimate after a retraction
included (no assumption relates the steps of the estimate to `max_new_tokens`); before a decode there is
a slot for each running request, because `retract_decode` goes on until there is; a late slot implies
that its request gave back others.  `PlacesInv` does the same for the rows: running and admitted
requests are never more than `max_running_requests`.  `CacheInv` has the protected size as the sum of
the prefixes kept, which the idle check compares.  `TypeOK` follows.  TLC found `MemInv` true with
`ChunkCache` on instances with up to 370,000 states before it was proved.  The proof has one lemma per
action (`StashMem`, `AdmitMem`, `LaunchMem`, `RetractMem`, ..), on top of what a bag with one owner per
element says of giving back and taking (`GivesBack`, `IsGiven`).

`BatchReadsOwnKV` is about the moment of a launch and about the positions that batch reads, which says
too little of what happens before.  `HoldsInv` (`SchedulerReadsProofs`) says at every moment and of
every active request that its slots hold the KV of its own text, all of them but those the batch about
to run is still to fill (`Written`); `LaunchedInv`, that those are exactly the slots this batch was
given.  It is inductive because of `MemInv`: an active request's slots are its own (`HeldOnce`), so
whatever another request gives back, is given or has computed, its slots are not among them; the proof
has one lemma for each way a step treats rows and slots (`StashHolds`, `LaunchHolds`, `PrepareHolds`,
`RunHolds`, `ProcessHolds`, ..).  Retraction starts a text over and a prefill in chunks writes
`SubSeq(fill_ids, ..)`, so it rests on what prefixes of texts are (`TextGoesOn`).  What a batch writes is
the text's KV only if the token it computes from is the text's, and that is `FuturesResolve`.
`MCFutureRing` shows that the overlap loop can break it, when a request waits for its first decode
while a long prompt is prefilled, so it is a hypothesis there.  In `event_loop_normal` it is a theorem,
with either cache: results are applied before the next launch, and `TokensInv` follows each token from
the batch that computed it through `last` and the running batch to its decode.  TLC found `HoldsInv`,
`LaunchedInv` and `TokensInv` true with `ChunkCache` and both loops on an instance of 79,641 states
before they were proved.

`DigestIndex`: `DigestInv` (`DigestProofs`) says at each step that what was computed is what it
should be: the layout (`Layout`), the rankings (`Ranked`), positions and rows (`Built`), and that the
spans of the loop with the run still open are a chain (`Chain`): each begins where the one before
ends in the output, reads consecutive positions, and leaves a gap before the next.  `SpansCover`
alone is not inductive, since it says of the output only where each span begins.  The rest is counting.
Sums of lengths are boundaries that never fall (`CumSumBounds`, `BoundsRise`), so every token lies in
one chunk, empty chunks included (`ChunkFacts`); what `FlattenSeq` and `\o` put together is laid out
part by part (`Counting!Laid`); so a position is that of one token of the system prompt or of one
chosen token of one document, and its row is that token (`Placed`, `PositionFacts`), in rising order
(`RowsRise`).  The zip tokens before a row are those of the documents before it, whose number is the
difference of the two layouts (`ZipsBefore`).  The first `Budget` of a ranking are distinct
(`RankingFacts`), which makes the count exact.  Where a fact goes by induction over the chunks or the
spans, it is used through the set of numbers it is true of (`Counting!EveryNumber`, from the
well-foundedness of the numbers), because an induction theorem cannot be given a formula here.
`DigestAssumption` allows any ratio, any sink count and any lengths, zero included.

`TokenizerManager`: the lock's counters count (`LockCounts`: `readers` is the number of calls
inside, `waitingWriters` that of the updates that queue), from which its exclusion follows.
`RequestInv` follows a request from its call to its last answer: it is sent at most once and has a
state from then on, only a last output takes the state away, and what a call is told of its end is
true of the scheduler, whatever was retracted or aborted in between.  An update holds the lock, so
no call is inside, and a call that is over was answered truthfully or its client has left.

All proofs assume only the `ASSUME`s of the modules (conditions on the constants: finite sets,
disjoint names, sizes), which every run also evaluates.

Model-checked only: the liveness properties (`ComputeEnds`, `BlendEnds`, `RunSucceeds`,
`EveryRequestEnds`, `EverythingEnds`: liveness under fairness is out of the prover's reach here);
of `Scheduler`, `TypeOK`, `SlotsDisjoint`, `NeverDies` and `BatchReadsOwnKV` with `RadixCache`, where
nodes of the tree own slots too, and `LocksAreHeld` and `TreeHoldsItsKeys`, which are about that tree;
and `BlendBatch`, whose properties are about pattern matching and concatenated prompts, merged
separators among them.

## Not modelled

- The numerical code: models, layers, attention kernels, quantization, RoPE, sampling, CUDA graphs,
  and the configuration of all of it.  It is by far the largest part of the repository, has no
  control that a model checker could explore, and is upstream SGLang but for the calls of the
  blender.
- Distributed serving, disaggregation, expert parallelism, speculative decoding, LoRA, grammars,
  multimodal input, front ends, the benchmark scripts: not used by QCFuse on one GPU.
- Of the scheduler: page sizes above 1, mixed chunks, priorities and preemption,
  `max_prefill_tokens`, `add_one_req_ignore_eos`, and requests with a blend style, which
  `BlendServer` has.  The runner disables the radix cache, so the two never meet.
- Of the tokenizer manager: a call that is cancelled while it is paused or waits for the lock, an
  update that is cancelled while it queues, several requests in one call, data parallelism, sessions, aborts that
  match several request ids by a common prefix, requests the scheduler itself ends with an error
  status, and `_Communicator`, through which the other control calls go (its two modes have races
  of their own: see the hazards).
- `compact_kv`, `put_query_k`, the path of contextblend without SSD, and `save`/`load` of digest
  index files: not reached by the runner.
- Power failure, file systems that reorder writes, directories deleted by hand.

## Plan

Done: `BlendServer` and `SsdCache` first, since they hold the concurrency and the crashes; then
`DigestIndex`, `BlendBatch`, `Scheduler` with `RadixTree`, the store that `SsdCache` implements, and
`TokenizerManager`.  Open, in this order:

1. `LocksAreHeld` for `RadixCache`, then the owners of slots there, the tree among them.
2. `BlendBatch`, with what `Counting` says of concatenations.
3. `_Communicator`, and `TokenizerManager` over the full `Scheduler`.
4. An abstract specification of one request's life that `BlendServer` implements under the runner's
   protocol.

## Running

    tlc -config MCBlend.cfg MCBlend
    tlc -config MCScheduler.cfg MCScheduler
    tlapm BlendProofs.tla
    tlapm SchedulerReadsProofs.tla

`PROJECT.json` names the module of every configuration.
