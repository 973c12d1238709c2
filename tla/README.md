# MTSC in TLA+

MTSC is a vLLM KV connector for disaggregated serving.  A prefill engine (P)
computes the KV cache of a prompt; a decode engine (D) loads what it can from a
shared Mooncake Store (the *pool*) and gets the rest by direct memory writes
from P (the *transfer*).  The whole difficulty is memory: KV blocks belong to
the engine's block allocator, background threads and remote machines read and
write them asynchronously, and a block that goes back to the allocator one
moment too early corrupts another request's output without any error.

This directory holds specifications of that behaviour, TLC configurations that
check them on small instances, and TLAPS proofs.  Run everything from here:

    tlc -workers 2 -config sender.cfg MCKVSender.tla
    tlapm KVSenderProofs.tla
    tlapm KVAnswersProofs.tla
    tlapm PDTransferProofs.tla
    tlapm PDProxyProofs.tla
    tlapm KVCachePoolProofs.tla
    tlapm PoolRangesProofs.tla
    tlapm StorePlanProofs.tla
    tlapm MTSCEngineProofs.tla

## 1. The system

| part | code | state | operations |
|---|---|---|---|
| Proxy | `proxy/pd_proxy.py` | `sessions`, one prefill task and one decode stream per request | `_handle`, `_run_prefill`, `_stream_decode`, `_finish`, `close` |
| Connector | `mtsc/connector.py` | which half it is | forwards vLLM's hooks |
| Scheduler | `mtsc/scheduler.py` | `_tracked_requests`, load / transfer decisions, the batch lists of one step, `_finished_waits`, `_delayed_releases` | `get_num_new_matched_tokens`, `update_state_after_alloc`, `build_connector_meta`, `request_finished`, `update_connector_output` |
| Worker (one per rank) | `mtsc/worker.py` | `_on_load_requests`, `_on_save_requests`, `_on_transfer` (POOL_LOADING, POOL_DONE, TRANSFER_LOADING), `_finished_waits`, `_load_errors` | `get_finished`, `handle_preemptions`, `wait_for_save`, `close` |
| Store pool | `mtsc/kv_cache_pool.py` | `_loads`, `_save_states` (running and pending), `_invalid` | `load`, `save`, `poll`, `take_errors`, `preempt`, `wait_for_all_saves`, `lookup`, `close` |
| Store lookup | same file | client socket and pending lookups; server thread | `lookup`, `discard`, `reset` |
| Key coordinator | same file | none | token ranges to keys and masks |
| Transfer, sender (P) | `mtsc/kv_transfer.py` | `reqs_need_send` (`SendBlockMeta`), `finished_sending_reqs`, `sender_worker_queue` | `prepare`, `send`, `cancel`, `preempt`, `poll`; `send_kv_to_decode` on `sender_loop` |
| Transfer, receiver (D) | same file | `_recv_events`, `_receive_futures`, `pull_tasks_count`, `finished_recving_reqs`, `_failed_recv`, `_invalid`, `_retired_recvs`, `_receive_error` | `recv`, `poll`, `take_errors`, `preempt`; discovery and pull tasks on `receiver_loop` |
| Bootstrap server | same file | registered workers of an engine | `/register`, `/query` |
| Control messages | `mtsc/protocol.py` | the ZMQ channel | request; CONTINUE, FINISH and ERROR answers |
| Platform helpers | `mtsc/utils.py` | none | device events, memory regions |

External: vLLM's scheduler and block allocator, Mooncake Store, the transfer
engine (TE) that does the writes, ZMQ, HTTP.

How they interact.  Once per model step the scheduler half builds one metadata
object, and every worker applies it in `get_finished`: submit loads and saves,
prepare / publish / cancel sends, then poll both back ends and aggregate.  The
worker thread calls into the transfer by `run_coroutine_threadsafe(...).result()`,
so a call is one coroutine on `sender_loop` or `receiver_loop` and blocks the
worker thread until it returns.  The loops run their own tasks between those
coroutines: that interleaving, at every `await`, is what the transfer modules
are about.  P and D share only messages and D's memory.

What makes it hard, part by part, and what correctness means there:

- *Sender.*  A task captures `SendBlockMeta` objects, awaits their publication
  and a TE write in a thread pool, then uses them again; meanwhile the worker
  thread cancels, expires, re-creates and polls them under the same transfer
  id.  Correct: no source block is released under a read; counters stay exact
  on failures and exceptions; a request is complete when all D ranks have it.
- *Receiver.*  Several P ranks answer one request in several rounds; discovery
  is shared and may fail; a silent P may still be writing.  Correct: no block is
  reused while P may write, success means everything arrived, every receive
  ends in a result or in the fatal error that stops the worker.
- *Pool.*  Saves of one request are chained and merged, loads may time out but
  can never be abandoned.  Correct: no Store I/O on a block after `preempt()`
  or the terminal result, no save lost by a merge, invalid blocks exactly cover
  what was not loaded.
- *Worker.*  Pool load then transfer load, errors of the first superseded by
  the second; a finished request waits for save and send.  Correct: blocks are
  released once, after both; a block with a failed load is reported or loaded.
- *Scheduler.*  Finish, preemption and retry of one request in one step.
  Correct: nothing is republished for a preempted request, every delayed
  release is eventually undone.
- *Proxy.*  Prefill and decode race.  Correct: one outcome per session, no
  session or task left behind, a first chunk deadline that always applies.

## 2. Plan

Order of work, the most important first.

1. **Transfer** (done): `TransferTopology`, `TransferWire`, `KVSender`,
   `KVReceiver`, composed in `PDTransfer`; the abstract contract
   `TransferLease`; proofs in `KVSenderProofs`, `KVAnswersProofs` and
   `PDTransferProofs`.
2. **Pool** (done): `KVCachePool` with the contract `StoreLease`; proofs in
   `KVCachePoolProofs`.
3. **Worker and scheduler** (done): `MTSCScheduler`, `MTSCWorker`, composed by
   `MTSCEngine` over two ranks in vLLM's steps; proofs in `MTSCEngineProofs`.
4. **Proxy** (done): `PDProxy`, with one run for safety and liveness and two
   violation runs, for the stream outcome at end of file and for a request
   without a record; proofs in `PDProxyProofs`.
5. **Pure algorithms** (done but for copy planning): `PoolRanges` and
   `StorePlan`; proofs in `PoolRangesProofs` and `StorePlanProofs`.
6. **Contracts between the modules** (done): `PoolService` and `ReceiveService`,
   kept by the back ends on one side and by the worker on the other.
7. **Proofs** (done): every safety property that a run checks is a theorem.
8. `close()` of the transfer, the lookup client and server, and bootstrap
   registration, as extensions.

## 3. The modules

| module | models |
|---|---|
| `TransferTopology` | `handshake_target_ranks` on both sides |
| `TransferWire` | requests, answers and the channel: `posted`, `replies` |
| `KVSender` | every P rank: worker thread calls, `sender_loop` tasks |
| `KVReceiver` | every D rank: worker thread calls, `receiver_loop` tasks |
| `PDTransfer` | both halves together, properties that relate them |
| `TransferLease` | what the transfer promises about memory, and nothing else |
| `ReceiveService` | what D's transfer and the worker count on from each other about a receive |
| `KVSenderProofs` | theorems about `KVSender`: objects, reads, counters |
| `KVAnswersProofs` | ... and what its tasks answer |
| `PDTransferProofs` | theorems about `PDTransfer`: both halves together, and that it implements `TransferLease` and `ReceiveService` |
| `PoolRanges` | token ranges and the blocks that hold them, used by pool and plan |
| `KVCachePool` | the Store pool of one rank: worker thread, lookup thread, executors |
| `PoolRangesProofs` | lemmas about ranges and prefixes, used for pool and plan |
| `KVCachePoolProofs` | theorems about `KVCachePool`: who holds which blocks, and what its results are worth |
| `StoreLease` | what the pool promises about memory, and nothing else |
| `PoolService` | what the pool and the worker count on from each other about a load and its saves |
| `MTSCScheduler` | the scheduler half of the connector, one action per hook |
| `MTSCWorker` | the worker half on every rank, over what pool and transfer show of themselves |
| `MTSCEngine` | both halves in vLLM's steps |
| `MTSCEngineProofs` | theorems about `MTSCEngine` |
| `StorePlan` | keys, masks, lookups and suffixes of a hybrid model, over several ranks |
| `StorePlanProofs` | theorems about `StorePlan` |
| `PDProxy` | the proxy's coroutines, tasks and metrics writer |
| `PDProxyProofs` | theorems about `PDProxy` |
| `MCKVSender`, `MCPDTransfer`, `MCKVCachePool`, `MCStorePlan` | symmetry and structured constants, for TLC |

Everything between two awaits of a loop is one action, since asyncio runs it
without interruption; the `await socket.send_multipart` of an answer is merged
with the end of its round (it only queues the message).

**KVSender.**  `slot[p][r]` is the generation of the `SendBlockMeta` object that
`reqs_need_send` holds for transfer id `r`, 0 for none; `meta[p][r][g]` is the
object itself.  Generations exist because code compares objects by identity
(`is send_meta`) while it pops by id: two objects of one id may live at once,
one in the table and one in a task's hands.  `task[m]` is the coroutine of
message `m`: the objects it captured (`ref`), the requests it still awaits
(`pending`) and those of the round under way (`round`, of which `ok` are being
written).  `phase`, `fencing` and `withdrawn` describe the worker thread and the
engine behind it: what it did with the request, the object a `cancel()` is
blocked on, and which requests the engine will abort or preempt.  `lease` and
`served` are ghosts: the object whose source blocks are pinned (from `send()`
to the end of `cancel()` / `preempt()` or the poll that reports the request),
and which D ranks were counted as served.

| code | action |
|---|---|
| `prepare`, `send` | `Prepare`, `Send` |
| `cancel`, `preempt` up to the first sleep of `_cancel_send`, and after it | `Cancel`, `Preempt`, `CancelReturn` |
| `poll` with expiry; a deadline passing | `PollSend`; `Lapse` |
| message refused; captured | `Refuse`, `Capture` |
| `asyncio.wait` timed out; returned | `WaitTimeout`; `Round` (`StartRound`) |
| TE write returned 0, returned an error, raised | `WriteEnd` (`WriteDone`, `WriteRaise`) |

**KVReceiver.**  `discovery[d][batch]` and `pull[m]` are the background tasks,
`future`, `count`, `events`, `finished`, `failed`, `invalid`, `retired` the
dictionaries of the same purpose in the code, `fatal` is `_receive_error` and
`fenced` the request a `preempt()` waits for.  The ghost `target` says whether
D's blocks are open to P's writes: from `recv()` to the poll or fence that ends
the receive.  After a fatal error every call raises and the worker stops, so no
worker action is enabled.

Both callers of `receive_kv`, the worker thread in `Recv` and the discovery task
in `Resume`, use `ReceiveKv`.  If TP sizes do not divide each other it raises, to
the caller of `recv()` or in a task that nobody awaits, and the receive has no
result: `poll()` returns without it, `preempt()` would wait for ever.  S05 puts
such sizes out of scope (`S05-pool&transfe.md`:323, 390), so the case is in the
module and under the safety theorems, but no run has it.

**Abstractions.**  Block tables, addresses and lengths are left out: planning a
request succeeds or fails nondeterministically (`bad`).  A request with nothing
to copy is modelled as a write that starts and ends at once, a superset of its
behaviours.  Each request is one transfer id, on every rank; one receive attempt
has one id, asked once of each P rank (the receiver refuses a retired id).
Timers may fire whenever they run.  A TE write ends, returns an error or raises,
but does not hang for ever.  Not modelled in the transfer: `register()`,
`close()`, the worker's registration with the bootstrap server.

**KVCachePool.**  `saves[r]` is `_save_states` (a PUT running, the pending
chain, an error seen), `put[r]` the future of the running PUT, `putLane` the
queue of the one-thread `_save_pool`; `loads`, `get`, `getLane` the same of
loads, `invalid` is `_invalid`.  `_save` rounds the end of its range down to
`lcm_block_size`, and so does `Chunks`; `PoolAssumption` says that saves end at its
multiples, as `_build_save_meta` makes them (scheduler.py:341-349, the
scheduler's `block_size` is the coordinator's `lcm_block_size`), and that group
block sizes divide it, as the coordinator asserts (kv_cache_pool.py:417-420).
Masks and striping of the selected chunks are in `StorePlan`.  Everything but the executors takes
`_task_lock`; a call that never waits under it is one action, and `lock` says
who waits for what: the fence of `preempt()` first for the PUT, then for the
GET, or a reset that drains every chain.  A pending event carries the parts it
was merged from (ghost `parts`), `owed` the blocks accepted and not stored since
the last `SaveResult`, `written` the blocks a GET filled.

| code | action |
|---|---|
| `save` with `_merge` and `_advance_save` | `Save` |
| `_save`: dequeued; nothing missing or `batch_is_exist` raises; device ready, PUT starts; PUT ends | `StartPut`, `PutSkip`, `PutRead`, `PutReturn` |
| a device event completes | `Fire` |
| `load`; `_load` dequeued, ended | `Load`; `StartGet`, `GetReturn` |
| `poll`, `take_errors` | `Poll`, `TakeErrors` |
| `preempt` up to the PUT's fence, up to the GET's, to its end | `Preempt`, `FenceLoads`, `PreemptReturn` |
| `wait_for_all_saves` | `ResetBegin`, `ResetAdvance`, `ResetEnd` |
| `close`: drop, GETs shut down, PUTs shut down | `Close`, `ShutPuts`, `CloseStore` |

**MTSCScheduler, MTSCWorker, MTSCEngine.**  Tokens are counted in blocks and
the n-th block table that vLLM gives request `r` is named `<<r, n>>`, so "these
blocks" is a name that a preempted request loses and a retry never gets back.
The scheduler's dictionaries are variables of the same purpose (`tracked`,
`loadDecision`, `xferDecision`, `traces`, `batch`, `finishedWaits`, `saving`,
`transferring`, `delayed`), each hook is one operator, and `MTSCEngine` fires
them in vLLM's order: `Lookup`, `Allocate`, `Resume`, `Continue`, `Preempt`,
`Abort` while it schedules, `Build`, then `Fence(w)` and `Execute(w)` on each
rank, then `ModelOutput`, `Stop` and `ConnectorOutput`.  `MTSCWorker` keeps per
rank what the code keeps (`onLoad`, `onSave`, `onXfer`, `waits`) and what the
back ends owe it: `getOp`, `putOp`, `pull` and `source`, whose entries end at
any time (`GetEnds`, `PutEnds`, `PullEnds`, `SourceEnds`) as `KVCachePool` and
`KVSender` / `KVReceiver` let them; `HandlePreemptions` waits until none is at
work for a preempted request.  That the back ends behave like this is not left to
comparison: `PoolService` and `ReceiveService` say what either side of
`get_finished` counts on, and both sides are shown to implement them (below).
`GetFinished` is the whole of `get_finished`: the
three updates, the polls, the error filter and both aggregations.

A lookup (`Lookup`) comes with any local prefix, empty, partial or whole, and any
pool hit, so pool loads and receives start behind a local prefix too.  The
filters of `build_connector_meta` on batch lists and decisions
(scheduler.py:408-427) are in `BuildConnectorMeta`, but in vLLM's order of hooks a
request is not preempted in the step that admits it, and they find nothing to
drop; what a preempted request does lose there is its entry in the other
dictionaries (scheduler.py:436-442).

| code | definition |
|---|---|
| `get_num_new_matched_tokens` | `Match`, `External` (in `Lookup`) |
| `update_state_after_alloc` | `UpdateStateAfterAlloc` (in `Allocate`, `Resume`) |
| `build_connector_meta`, `_build_save_meta` | `BuildConnectorMeta`, `Saves` (in `Build`) |
| `request_finished` | `RequestFinished`, `Delays` (in `Stop`, `Abort`) |
| `update_connector_output` | `UpdateConnectorOutput` (in `ConnectorOutput`) |
| `handle_preemptions` | `HandlePreemptions` (in `Fence`) |
| `get_finished`, `get_block_ids_with_load_errors`, `build_connector_worker_meta` | `GetFinished` (in `Execute`) |

**PoolService, ReceiveService.**  `MTSCEngine` over the whole `KVCachePool` and
`PDTransfer` would be far beyond TLC, so they meet in two contracts.  An item is
a request on a rank.  In `PoolService` it has one load (none, at work, done with
a prefix of its range) and its saves (none, at work, done); in `ReceiveService`
one receive (ahead, at work, a result, over).  A contract says what may begin
when, that a result stays until it is collected, that only `preempt()` (or
`close()`) makes work disappear, and that nothing is left when it returns.
`KVCachePool` (one rank) and `PDTransfer` (every D rank) map their dictionaries to
it (`LoadView`, `SaveView`, `ReceiveView`), `MTSCEngine` its own on all ranks.
Both sides are proved to keep the contracts; that they then fit together is the
usual assume-guarantee argument, made here and not itself a theorem: a load or a
receive may end in `MTSCEngine` in every way in which the contract lets it end, so
the engine's theorems cover whatever the back ends do.  P's half of the transfer has no such contract: a published source ends
when it ends, and its memory is in `TransferLease`.

vLLM is not in the repository.  `MTSCEngine` assumes of it: the hooks' order; a
request's blocks go back at once on preemption and are written by others only
after `handle_preemptions`; an aborted request that waits for a remote load
keeps its blocks until the load is over; `finished_recving` and
`finished_sending` take effect when every rank has reported; a load is cut at
its first invalid block on any rank (`kv_load_failure_policy` recompute, which
the connector requires); the engine sleeps when it has no request and
`has_pending_push_work` is false.  P requests generate one token.

**StorePlan.**  One prompt, several KV cache groups with their own block sizes
and windows.  A key is a group, a chunk and a key rank.  TP ranks save on their
own, in any cuts at multiples of the scheduler block size; a PUT may fail for
some keys, the Store may evict; then one D rank looks up (`Match`), loads
(`Load`) and computes the suffix to pull (`Pull`).  `SaveKeys` is `_save`'s
selection (masks of `_store_masks`, striping of `_process_tokens`), `HitLength`
is `_find_hit_blocks`, `LoadMask` and `StoreMask` the coordinator's, and
`SuffixBlocks` the worker's.  vLLM's cache managers are modelled by what they
promise (`AttentionGroupHit`): the longest aligned prefix whose needed blocks are
there.  Groups with the same spec are looked up together, and
`ExternalCachedBlockPool` has a hash when each of them has its block.

**PDProxy.**  `ses[s]` is one request's coroutine: the await it is suspended at
(`pc`, listed in the module's header), the states of its prefill, headers and
chunk tasks, and what it has decided.  Between two awaits nothing interrupts it,
so a step is a function of its record (`Clear`, `Reap`, `Finished`, `Took`,
...), and an action applies one of them.  `hit` has the requests that the server
cancelled; a cancellation lands at any await (`Interrupted`) and, at the
generator's `yield`, closes it.  `queue`, `writer`, `written` and `unwritten`
are the metrics writer; `closing` is the proxy's `close()`.

| code | action |
|---|---|
| `_handle` up to its first await; body converted, refused, or `_prefill_body` raises | `Arrive`; `Parse` |
| headers or P first; P failed; headers | `FirstOfTwo`, `Killed`, `AwaitD` |
| non-2xx: body read, P reaped | `ReadBadBody`, `ReapBad` |
| `_handle`'s `except` | `ClearD`, `ClearP` |
| `_stream_decode`: loop head, `asyncio.wait` returns, times out | `NextChunk`, `ChunkOrPrefill`, `FirstTokenTimeout` |
| `await next_chunk`; cancelled chunk; `await pending_prefill` | `AwaitChunk`, `DropChunk`, `AwaitPrefill` |
| its `except` clauses | `ReapP` |
| `_finish`'s `metrics.write` | `Put` |
| tasks end; the server cancels | `PrefillEnds`, `HeadersEnd`, `ChunkEnds`; `Cancel` |
| `JsonlMetricsWriter._run` | `WriterTakes`, `WriterAppends` |
| `close` of proxy and writer | `CloseBegin`, `CloseGathered`, `CloseSentinel`, `CloseJoin` |

## 4. The runs

| run | instance | distinct states | shows |
|---|---|---|---|
| `sender` | 1 P, 2 D, 2 requests, 2 tasks | 491,721 | sender safety, and the proofs' invariant |
| `sender_live` | 1 P, 3 D (one refused), 1 task | 1,719 | release and progress |
| `pd_batch` | 1 P, 1 D, 2 requests, batches, lost peers | 436,834 | no write into taken-back blocks, receives end though batches share a query |
| `pd_gather` | 2 P, 1 D, 1 request | 27,256 | success, exact counting, refinement, receives and fences end |
| `sender_cleared` | 1 P, 1 D | violated | a result that outlives `preempt()` |
| `sender_reclaimed` | 1 P, 1 D | violated | an entry that is never reclaimed |
| `pool` | 1 request, 2 groups, 3 saves, 1 load, 4 tokens, close | 374,075 | lending, merging, results, progress |
| `engine` | 1 request of either kind, 2 ranks, 3 blocks, 2 tables | 143,800 | blocks, loads, releases over the ranks |
| `proxy` | 2 requests, queue of 1, 2 chunks | 70,228 | outcomes, clean-up, metrics |
| `proxy_unrecorded` | 1 request | violated | a request that ends without a record |
| `proxy_eof` | 1 request | violated | a complete body recorded as an error |
| `plan` | 4 groups, 4 ranks, 5 tokens | 482,879 | masks, stripes, lookups, suffixes |

Sender safety: `NoReadAfterRelease` (a TE write reads only blocks pinned for the
object it captured), `SendingBalanced` (`sending` is the number of rounds that
hold the object), `PopIsOwn` (completion, which pops by id, never removes
another object), `FinishedMeansServed` (a result is put up only when each paired
D rank was written), `AnsweredOnce` (each request of a message is answered once
over all rounds).  Composition: `NoWriteAfterTerminal`, `OkMeansWritten`,
`CountExact`, `KeepsContracts` (the refinements of `TransferLease`,
`ImplementsLease`, and of `ReceiveService`).  Liveness: `SourceReleased`, `MessageEnds`,
`ReceiveEnds`, `FenceEnds`.

Pool: `KeepsContracts` (`KeepsLease`, the refinement of `StoreLease`: a PUT reads
and a GET writes only what is on loan, and neither a result, nor `preempt()`, nor
`close()` takes blocks back under a Store call; and the refinement of
`PoolService`), `ReadsReadyBlocks` (a merged PUT waits for
every device event of the saves in it), `MergesExactly` and `NoSaveLost` (a
chain holds the work it accepted, no more and no less), `SaveResultHonest` and
`LoadResultHonest` (an error is not hidden by a later success or by a late GET,
and loaded prefix and invalid blocks cover the range), `BlocksComeBack`,
`CallsReturn`.  Engine: `BlocksQuiet` (no I/O on blocks vLLM has back; Store and
P never write one request's blocks at once), `LoadedIsValid` (what vLLM counts
as loaded was loaded on every rank), `ReportsExpected` (`finished_recving` and
`finished_sending` only for requests that wait, once per rank),
`NothingRemembered`, `KeepsContracts` (the worker's side of `PoolService` and
`ReceiveService`: no load before the last one is collected, no second receive of
a request), `WaitsEnd`.  Proxy: `SuccessMeansBoth`, `LeavesNothing`,
`RecordedOnce`, `RequestsEnd`.  Plan: `HitIsLongest` against a definition by
sets, `SavedIsFound`, `SuffixCovers`.

**Bounds.**  Two D ranks per P rank are needed for completion to differ from the
first write, three for one of them to be refused; two requests for batches,
partial rounds and message overlap; two objects per id (`MaxGen`) for an object
to be replaced while a task holds the old one, a third repeats the pattern; one
or two sender tasks both saturate.  Each D rank asks a P rank once per request,
so the number of messages is bounded by the instance and no queue bound is
needed.  The bounds limit TLC only: the proofs have none but `MaxGen`'s being a
number.  Several batches wait for one bootstrap query in `pd_batch`, where two
requests come in separate batches; in `pd_gather` one request is one batch.
Symmetry of transfer ids is used in safety runs only.

In `pool` three saves are the fewest with one running and two pending, which is
where `_merge` works; ranges [0,2), [2,4) touch, overlap (a repeat) or come in
reverse, and [2,4) comes in two versions of the prompt, which must not be merged
(a request's hashes only grow, so the scheduler has one version: the second is
there for the comparison in `_merge`).  Blocks of one and of two tokens, `Lcm` two;
a load of [0,2) can fail in either group and in part.  Gaps within one version need
a third range and are left to the theorem `MergesAreExact`.  In `engine` a prompt of two blocks
has partial hits, partial local prefixes and a suffix, a third block is what D generates and saves; two
tables are one preemption or failed load with its retry; two ranks disagree.  In
`proxy` the second request is refused at once, which fills the queue of one that
the first one's record has to go through; two chunks distinguish first, later
and last.  A request is cancelled at most once.  In `plan` five tokens are two
segments and a partial block; windows of two and three tokens beside full
attention are the smallest case where one pass of the lookup is not enough, and
two groups share a window, so that they are looked up together; four ranks on two
heads stripe in pairs; two keys lost leave holes in two groups.

**Deadlock** is not checked: requests end, the pool and the proxy close, and the
bounded inputs run out; the system may then be idle.

**Fairness.**  Both event loops run, so an enabled step of a task happens; TE
writes end; a running timer fires (expiry, `asyncio.wait`'s timeout); HTTP and
ZMQ operations of the receiver end or fail.  `poll()` is fair because vLLM keeps
stepping while `has_pending_push_work` is true on P or a request waits for its
KV on D.  `CancelReturn` and `FenceReturn` are the loops' resumption of a
waiting coroutine.  Nothing makes the engine prepare, publish, withdraw or
preempt a request, or D ask for one.  A task's `Round` and `WaitTimeout` share
one fairness condition, as either ends the wait.  Pool: executor threads run,
Store calls end, the device completes its events, whoever holds the lock and
whoever closes goes on, and `poll()` is called while a request is alive or its
release delayed (`get_finished` calls it in every step).  Engine: it steps while
`HasWork` holds, ranks execute, their I/O ends; whom vLLM admits or preempts is
free.  Proxy: the event loop runs what can run, the client takes its chunks or
is cancelled, the HTTP exchanges end because aiohttp gives each a total timeout
of six hours; no request has to arrive or to be cancelled, and
`first_token_timeout` need not fire.

**Divergences from the documents.**  `preempt()` of a request that was already
sent leaves its result to be polled later, though S05 has it cleared before the
blocks may be reused (`sender_cleared`).  A D message that comes after its
request is gone leaves a placeholder without owner or deadline in
`reqs_need_send` (`sender_reclaimed`).  In the proxy `_prefill_body` raises on a
JSON object whose `min_tokens` is null or a string, before the first `try` that
could finalize the request: it has no metrics record and its session stays in
the table, though S04 promises one final record for each request
(`proxy_unrecorded`).  A body that ends while the generator awaits the chunk read
after P's success is recorded as `decode_error` and the stream is aborted, since
that await is outside the `try` for `StopAsyncIteration`; S01 has it a success
(`proxy_eof`).  The first chunk deadline does not apply at that await either, as S01 itself
says.

## 5. The proofs

`KVSenderProofs` proves about `KVSender`, for every `PTp`, `DTp`, `Req`,
`NumSenderTasks`, `MaxGen`, `BadLayout` and `WriteMayRaise` allowed by the
assumptions `TpAssumption` and `SenderAssumption`:

| theorem | property |
|---|---|
| `Inductive` | `IInv` |
| `ReadsArePinned` | `NoReadAfterRelease` |
| `FinishedServed` | `FinishedMeansServed` |
| `PopsOwn` | `PopIsOwn` |
| `SendingCounts` | `SendingBalanced` |
| `TypeCorrect` | `SenderTypeOK`, which `IInv` has as its first part |

None of the properties is inductive alone.  `NoReadAfterRelease` needs to know
that what a round holds is pinned (`RoundsPinned`), that what is ready in the
table is pinned (`ReadyPinned`, so that a starting round holds a pinned object)
and that pins are dropped only when `sending` is 0, which `SendingBalanced`
turns into "no round holds the object".  When an object has left the table, either
the worker thread is waiting for it or nobody reads it (`PinnedSent`,
`FenceShape`).  `FinishedMeansServed` and `PopIsOwn` rest on counting: `sent`
never exceeds the number of D ranks served (`SentBounded`), a question is asked
and settled once (`AskedOnce`, `ServedAsked`), so the write that makes `sent`
equal `need_send` is that of the last rank (`LastRank`), no other round of the
object is under way (`LoneRound`), and any stranger in the table was made for a
D rank that will never be served (`Strangers`).

Layout: a frame lemma per kind of step (`KeyFrame`, `OneKeyStep` for the worker
thread, `SettleStep` for the end of a question), one lemma per action
(`PrepareStep` ... `WriteDoneStep`), `InitIInv` and `NextIInv`, and the theorems
with PTL.  The run `sender` checks `IInv` on its instance too.

`KVAnswersProofs` adds one theorem about `KVSender`, and the lemmas about answers
that the composition needs:

| theorem | property |
|---|---|
| `AnswersOnce` | `AnsweredOnce` |

For a message and the state of its task, `Unsaid` is what the task still has to
answer.  `Fit` says that each answer on the wire is about other requests than
those before it and than those unsaid, that its successes were written, and that
only the last one closes the message; `Full` that all that ceased to be unsaid was
said, unless the task died or refused.  A step of a task either says nothing and
leaves `Unsaid` alone, or says one thing about requests that were unsaid and no
longer are (`Speaks`, one lemma per action): all the invariants need of a step.
`Fit` has the set that D still waits for as a parameter.  In the sender alone it
is the batch; in the composition it is what the pull task has left, and
`ReadingFits` says that it shrinks with each answer as it should.

`PDTransferProofs` proves about `PDTransfer`, for every size of the two engines,
with failing bootstraps and lost peers or without:

| theorem | property |
|---|---|
| `PDInductive` | the invariant `PDInv` |
| `PDTypeCorrect` | `PDTypeOK` |
| `WritesBeforeTerminal` | `NoWriteAfterTerminal` |
| `SuccessWasWritten` | `OkMeansWritten` |
| `CountsExact` | `CountExact` |
| `SenderStaysSafe` | `NoReadAfterRelease`, `SendingBalanced`, `FinishedMeansServed` |
| `PairingsMeet` | `GenuineAccepted`: P never refuses a message of D for the rank pairing |
| `TransferKeepsLease` | `ImplementsLease` |
| `TransferKeepsContracts` | `KeepsContracts`: `ImplementsLease` and `ReceiveService` |

A block on D is safe because three books agree.  The sender task still has the
request in its round, so by `Fit` the answer is owed and the pull task has it in
`remaining` (`PullShape`); so it is `Awaited`, hence not counted down, not
finished and not collected (`AwaitedOpen`), also when D has given the peer up,
for then D has failed as a whole.  A request is in one batch and one attempt only
(`OneAttempt`): the tasks that owe it differ in their P rank, so they are finitely
many and `count` is their number (`CountExact`), one of them leaving at each
answer.  `OkMeansWritten` follows each P rank's part through failed, owed and
written (`ResultsTrue`), and all paired P ranks are asked together
(`PulledTogether`).  D computes whom to ask and P whom to serve, each by its own
call of `handshake_target_ranks`; `PairingAgrees` is the arithmetic that the two
calls agree.  A step of P keeps `PDInv` by `SenderKeeps`, which only uses that it
speaks for one message; the steps of D have a lemma each.

For the refinement a step of the worker thread lends or takes back the blocks of
one P rank, and what it takes back is not read because `RoundsPinned` holds after
it; a TE write begins or ends copies that no other task makes (`OneCopier`, from
`AskedOnce`); `recv`, `poll` and the fence lend and take back targets that nobody
awaits; all other steps stutter.

For `ReceiveService` the ghost `target` says whether the receive is ahead, at work
or over, `finished` and `failed` what its result is.  An answer fails only
requests that are still awaited, and these have no result yet (`SettlingMoves`);
`poll` or the fence collects it (`CollectMoves`), and the worker waits for one
fence at a time (`OneFence`), so that the end of that wait takes back what it was
about.

`IInv` is an invariant of the run `sender`.  The parts of the other invariants are
defined beside the proofs; before they were proved TLC checked `GoneInv` and
`AnswerInv` on the instance of `sender`, and every part of `PDInv` on those of
`pd_gather` and `pd_batch`, on 1 P with 2 D ranks, on 3 P with 2 D ranks (a pairing
that fails) and with lossy peers.

TLC and the prover read `SUBSET S \ T` differently, so the models write
`(SUBSET S) \ T`.

`PDProxyProofs` proves about `PDProxy`, for any set of requests, any queue size
and any length of the bodies allowed by `ProxyAssumption` (which also says that a
request is not one of the writer's states or the queue's sentinel):

| theorem | property |
|---|---|
| `ProxyTypes` | `ProxyTypeOK` |
| `SuccessNeedsBoth` | `SuccessMeansBoth` |
| `EndsClean` | `LeavesNothing` |
| `OneRecord` | `RecordedOnce` |

A step of a coroutine reads its own record and, at a `put`, the queue, so the
invariant `ProxyInv` is a predicate `Good` of one record.  `PcOK` says what each
await knows of the tasks, so that the step after it needs no history: every await
of the generator comes after D's 2xx answer; while `pending` is false and the loop
goes on, P has succeeded; the await of P after the body means the body was at its
end; the exception handlers carry an outcome that is neither none nor success.
`FinalOK` says what a finalized record still holds: nothing, except that in the
generator the client is closed one step later.  Each function of the record
(`Clear`, `Reap`, `Leave`, `Finished`, `Dropped`, `Took`, `Answered`, `Woken`,
`Interrupted`) has a lemma that it yields a `Good` record, and `BecomeKeeps` lifts
these to the actions.  `OneRecord` adds that a record is handed over once: `Past`
(an outcome, and past the `put`) is stable (`PastStays`), a coroutine that is not
yet `Past` has no record anywhere, and `CountAppend` and `CountTail` follow the
number of a request's places in the queue.

`KVCachePoolProofs` proves about `KVCachePool`, for any
finite set of requests, any versions of the prompt, any `Lcm` and block sizes that
divide it, any saves that end at its multiples, any loads and any number of load
threads allowed by `PoolAssumption` and `BlockSizesAssumption`:

| theorem | property |
|---|---|
| `PoolTypes` | `PoolTypeOK` |
| `PutsReadReadyBlocks` | `ReadsReadyBlocks` |
| `MergesAreExact` | `MergesExactly` |
| `PoolKeepsLease` | `KeepsLease` |
| `PoolKeepsContracts` | `KeepsContracts`: `KeepsLease` and `PoolService` |
| `SavesAreNotLost` | `NoSaveLost` |
| `SaveResultsAreHonest` | `SaveResultHonest` |
| `LoadResultsAreHonest` | `LoadResultHonest` |

`PoolInv` says who holds what.  A PUT that exists is that of a request whose
`saves` entry is running, or the one `preempt()` waits for (`PutsHeld`); a GET
likewise (`GetsHeld`).  Each lane holds exactly jobs that are queued, each once
(`PutLaneInv`, `GetLaneInv`), so cancelling one by removing it from its lane
leaves no second copy to be started.  A caller waits only for a PUT that could
not be cancelled (`Cancelled`), after `close()` has begun there is neither
pending work nor a queued GET (`Closing`), and every event, pending or submitted,
is `Sound`: its chunks are those of its parts, with all of their signals.
`Sound` is what `_merge` must keep; `MergedSound` reduces it to the arithmetic of
partial chunks at a shared boundary.

The refinement maps `Lent` to what the dictionaries and the waiting caller
hold and `StoreIO` to the calls under way.  `IOIsOut` (from `PutsHeld` and
`GetsHeld`) says that a Store call works only for what is out; a step that gives
blocks back must then show that no call for them is under way, which
`ComesBack` turns into a step of `StoreLease`.

The results need an account besides.  `OwedInv` follows each chunk from `save()`
to the end of its PUT: while the pool is open it is pending, under way or
stored, unless a PUT of the
request failed and the failure is remembered; when `poll` finds a request over,
nothing is left in the first two places.  `LoadedInv` says that a GET that ended
has written all of its range but what it reports as bad, and that the prefix
`_loaded_prefix` computes lies before the first bad block of every group
(`PrefixIsGood`).

`PoolService` needs little more than `PoolInv`: `ServeInv` says what `preempt()`
has taken from the dictionaries while it waits for the PUT, then for the GET
(`FenceInv`), and that a GET has a range.  `ItemMoves` is a step of the contract
for one request; each action has a lemma that its requests move so (`LoadServes`,
`PollServes`, `FenceLoadsServes` ...), and `MovesServe` joins them.  Why a load's
result stays as it is until `poll` collects it is the delicate part: its deadline
is checked there once more, but a load that is over is not made late
(`ToldInRange` for the prefix told).

`MTSCEngineProofs` proves about `MTSCEngine`, for any finite sets of requests and
ranks, any length of the prompt and of what is generated, and any number of
block tables (so of preemptions and retries) allowed by `EngineAssumption`:

| theorem | property |
|---|---|
| `EngineInductive` | the invariant `EngineInv` |
| `EngineTypeCorrect` | `EngineTypeOK` |
| `BlocksStayQuiet` | `BlocksQuiet` |
| `LoadedStaysValid` | `LoadedIsValid` |
| `ReportsAreExpected` | `ReportsExpected` |
| `NothingStaysRemembered` | `NothingRemembered` |
| `EngineKeepsContracts` | `KeepsContracts`: `PoolService` and `ReceiveService` from the worker's side |

The work of a request on a rank is in one of several places at a time: in the
scheduler's batch, in metadata that this rank has not executed yet, in the
worker's books and its back ends, or in a report.  `LoadsOf`, `PlansOf`,
`SavesOf`, `ReadyOf` and `WaitsOf` are what is still to begin, the first two
places together, so that `Build` moves nothing and `Execute` of a rank moves
everything of that rank.  `EngineInv` is then a conjunction over pairs of a rank
and a request: `LoadInv` for the load (what is to begin, the GET, the plan with
its two stages, the receive), `HoldInv` for saves, sources and the release, and
`RequestInv` for what the scheduler has decided and remembers.  `OneReport` makes
`ReportsExpected` inductive: while vLLM waits, a rank is either loading or has
reported, never both.  `Covers` does so for `LoadedIsValid`: when a rank has
reported, each block vLLM counts is filled or among the step's invalid blocks,
which are cut off (`CutBelow`) before the rest of the ranks report.  `Covers` must
look at `computed`, not at the load, since an earlier rank's failure has cut it
already.  `BlocksQuiet` rests on `Gets`, `Transfers` (a receive of any blocks is
one that vLLM waits for), `SavesHeld` (an open save is in `_saving_requests`, or
its request preempted and not fenced on this rank), `OneRelease` and `Sources` (a
published source has a wait that needs it).  `IdsBounded` bounds the load ids by
the block tables handed out.

Most steps leave a pair alone, or change it only in ways that `KeepsLoad` and
`KeepsHold` allow (`FrameLoad`, `FrameCovers`, `FrameHold`); the rest of each step
has two lemmas, one about requests and types and one about the pairs.
`GetFinished` is taken apart first into what becomes of each dictionary's entry
(`GetsEntry`, `XfersEntry`, `SavesEntry`, `WaitsEntry`, `SourcesEntry`,
`OutputEntry`, `InvalidEntry`), then proved for a request without a plan, with a
new one and with an old one.  Before it was proved TLC checked `EngineInv` with
one request on two ranks and with two requests on one.

`EngineKeepsContracts` is the other half of the contracts.  That the pool is
given a load only when the last one was collected follows from `LoadInv`.  A
second receive of a request is excluded by `PlannedOnce`: while
`do_remote_prefill` is set no rank has a plan of the request, due or in its
books; the scheduler clears it when it makes the plan
(`PrefillAfter`) and nothing sets it again.  Steps of the scheduler move nothing
(`SameMoves`); `FenceMoves`, `ExecMoves` and `IOMoves` are the worker's.

`StorePlanProofs` proves about `StorePlan`, for any groups, block sizes, windows,
ranks, KV heads, prompt and losses allowed by `BlockSizesAssumption` and
`PlanAssumption`: `Lcm` is a common multiple of the block sizes, and the block
size itself when the groups have only one; TP ranks are a multiple of the KV heads
or fewer than they.

| theorem | property |
|---|---|
| `LookupFindsLongest` | `HitIsLongest` |
| `PlanInductive` | the invariant `PlanInv` |
| `SuffixIsEnough` | `SuffixCovers` |
| `SavedInductive` | the invariant `SavedInv` |
| `SavedHitsAreFound` | `SavedIsFound` |

The lookup is an algorithm, and its theorem is about data: the attention groups
are sorted, a pass is a recursive function over them, and passes repeat until
nothing changes.  Library theorems on induction take an operator as a parameter
and are of no use here, but a set of naturals has a least element (`LeastNat`,
from the well-foundedness of strict inclusion on finite sets), which is induction
for every property that can be written as a set.  `ChainExists` and
`DescentExists` derive from it that the recursive functions satisfy their
equations, `Sorted` that there is an order of the groups with full attention
first.  Then `PassSteps` and `PassHits`: a pass only goes down, never below a
prefix that all groups can load, and where it leaves a hit unchanged every group
has that hit.  `HitLengthLongest` adds that each repetition is strictly shorter,
and that one pass is enough with full attention and one other spec, since a shorter
prefix of full attention stays loadable.

`SuffixCovers` is arithmetic about three roundings (`SuffixAndLoad`): a block that
the next token needs and that is not in the suffix is within the loaded prefix, and
the load asked for it, since its window reaches back at least as far as that of the
prompt; `PlanInv` remembers which of the two origins the prefix has.  `SavedIsFound` combines `SavesJoin` (two
saves put what one would have put), `StripesCover` (each chunk has, for each key
rank, a rank whose stripe it is) and `MaskCovers` (the template of one segment,
repeated, selects every chunk that a hit of any aligned length loads).

The proof found one definition that was not the code's: the model took the least
of the groups' own hits where groups share a sliding window, and that prefix need
not be loadable in each of them; the code looks them up together, as the model now
does, and the run `plan` has two such groups.  It also found an assumption that
was missing, that `Lcm` is the block size when there is only one; the code has it
so.  Here too TLC checked the invariants before they were proved.

Model-checked only: the liveness properties of all modules (`SourceReleased`,
`MessageEnds`, `ReceiveEnds`, `FenceEnds`, `BlocksComeBack`,
`CallsReturn`, `WaitsEnd`, `RequestsEnd`), because liveness under fairness is
outside what TLAPS can prove here, and the counterexamples of the four runs that
expect a violation.  No module declares a RECURSIVE operator.

## 6. Not modelled

*Transfer*: `register()`, `close()`, registration with the bootstrap server, and
copy planning (`_build_request_transfer_params`), a pure function over region
addresses of which `KVSender` keeps whether a request can be planned.
`_retired_recvs` grows with every receive until `close()`; nothing but memory
depends on it.  *Pool*: `register()`; the two-second join of the lookup thread,
after which `close()` may close a Store handle a lookup still uses; what
`_merge` compares is the line of a prompt and the end of the range.  *Lookup*:
the client's socket, its timeout and its re-creation; a lookup's answer is any
hit in `MTSCEngine` and computed in `StorePlan`.  *Coordinator*: drafting
(`use_eagle`), DCP, PCP and PP ranks, merged hashes, Mamba.  *Scheduler*: the
`None` answer of an asynchronous lookup (a lookup that is repeated, which
`Lookup` allows in any later step), Mamba truncation, parameter validation,
`_append_blocks` (what vLLM passes for a resumed request is not in the
repository), requests that share blocks, and vLLM's asynchronous scheduling.
*Worker*: `close()`, `register_kv_caches`, timings in load reports.  *Proxy*:
bodies, headers, the choice of endpoints, `client.close()` as an await of its
own.  A cancellation between `_handle`'s return and the generator's first step,
or during the clean-up, leaves the session in the table or loses its record;
`LeavesNothing` and `RequestsEnd` except such requests, and those on which
`_prefill_body` raises (section 4).  *Platform helpers* are
memory layout and device synchronisation, whose effect is `Fire` in the pool.
