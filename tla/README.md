# Verification of the split DeepSeek server

One language model is served by two machines. The *Mac* (`src/kernels/omlx`,
`src/kernels/mlx-lm`) runs the request loop, layers 20-39, the head and the
draft model. The *box* (`src/kernels/split-nv`, a two-GPU engine) prefills
prompts, keeps each request's KV cache and computes layers 0-19 of every decode
step. A supervisor on the Mac stands in front and can continue a response when
the box is lost. This directory holds TLA+ modules of the parts that have state
and concurrency, the TLC configurations that check them, and proofs that TLAPS
checks.

Short names for directories:
BOX = `src/kernels/split-nv/src/hooks/split_nv/`,
MAC = `src/kernels/omlx/src/omlx/patches/deepseek_v41/`,
SERVE = `src/kernels/omlx/src/og_serve/`,
OMLX = `src/kernels/omlx/src/omlx/`, MLXLM = `src/kernels/mlx-lm/src/mlx_lm/`.

## 1. The system

### Parts, their state and operations

| part | state | operations | what is hard | module |
|---|---|---|---|---|
| Prefill gate, BOX `fair.py` | FIFO of tickets, the active, bypass and suspended tickets, the re-entrant prefill lock | enter, leave, prefill_yield | a mutex, a lock and two condition variables; predicates read without the mutex; a limit that changes at run time | `PrefillGate` |
| GPU job queue, BOX `front.py`, `preempt.py`, `engine.py` | priority queue, `gpu_lock`, `step_cv` with `step_waiters`, the parking place `pq_open`/`pq`, the pipe to rank 1, the preemption window of each rank | submit, run_now, gpu_loop, point, rank 1's loop | several threads and two processes; both ranks must issue the same collectives; failures in the middle of a chunk | `GpuQueue` |
| Copy-engine all-reduce, BOX `ce_allreduce.py` | flags, three staging buffers per rank, the round counter | all_reduce_async | two GPU streams with nothing but flags between them | `CEAllReduce` |
| Overlap baton, BOX `pf_overlap.py`, `preempt.py` | whose turn, the halves' saved globals and all-reduces under way, two streams per rank | enter, switch, finish, fence, all-reduce, point | two threads that pass one interpreter's globals to each other; a failure of one half; steps between the layers | `OverlapBaton` |
| Split session, MAC `pipe_wire.py`, `og_model.py`; BOX `front.py`, `engine.py`, `steprunner.py` | Mac: history, length, pending step; box: rows and base of the last step | OPEN, STEP, CLOS, presend, ensure, recv, recover, reopen | early steps, lost links, box restarts, retries, rollback | `SplitSession` |
| Box drafting, MAC `stepd.py`, `pipe_wire.py`; BOX `front.py`, `engine.py`, `dspark_wire.py` | host ring, Mac GPU ring, box ring; primed, sticky, grant | prepare, presend, resolve, redraft, RING, STEPD, taps | three copies of one window of rows, only one appended per cycle; lost replies | `RingDraft` |
| Box prefix cache, BOX `prefix_cache.py`, `front.py` | index, block references, files, each rank's commands and writer queue | lookup, restore, grid plan, snapshot, barrier, add, evict, forget_blocks, clear, load | crashes, files and index out of step, late ranks and writers, a suspended prefill | `PrefixCacheBox` |
| Engine scheduler, OMLX `scheduler.py`, MLXLM `generate.py` | waiting, prefilling and running requests, rows and uids of the batch, pending cache stores, aborts, retry counts | add, abort, step, fail_all_requests | one long step with many early returns and four recovery paths; a worker and clients beside it | `EngineScheduler` |
| Failover and splice, MAC `og_failover.py`; SERVE `og_resume.py`, `ds41_og.py` | the GPU child and its switch lock, requests in flight, tokens replayed, text delivered | ensure, forward, open, splice, resume, stop, start, check_worker | awaits between reading and acting, children that die, clients that leave, a box that flaps | `Failover` |
| Prefill planning and KV admission, BOX `front.py`, `engine.py` | KV pool, `pf_need`, last use of each session | plan_chunks, split_piece, admit, close, audit_idle | slack in estimates, aborted allocations | `ChunkPlan` (plan_chunks only) |
| Mac prefill jobs and caches, MAC `og_model.py`, `og_cache.py`, `prefix_cache.py` | job threads, row cache | start, cancel, adopt | a thread beside the engine loop | not modelled |
| Engram keep, BOX `engram_keep.py` | shared table with a header | fill, attach | a crash while filling | not modelled |

### How they interact

A client's request reaches the *supervisor*, which picks the child that can
serve it, and through it the *engine scheduler*. The scheduler's prefill opens a
*split session* on the box, its decode drives that session's steps, and
`og_failover` wraps its `step` and `fail_all_requests`: a lost box ends the
requests with a marker that makes the supervisor *resume* them on another child.
On top of the session, *box drafting* replaces a STEP by a STEPD that drafts as
well.

On the box an OPEN enters the *prefill gate*, then sends its chunks as queued
jobs to the *GPU queue* and yields at the gate between them. STEPs are run by
the connection's own thread (`run_now`), ahead of queued jobs, or parked and run
between the layers of a prefill chunk. A chunk may run as two *overlapped
halves*. Every forward, of a chunk or a step, uses an *all-reduce*. The prefix
cache is read and written around a prefill, under the gate.

### What makes each part correct

* Gate: one prefill allocates and computes at a time; at most one is suspended,
  and only for prompts that were small; equal tickets in arrival order; nobody
  waits for ever.
* Queue: each request is run exactly once and answered; both ranks run the same
  forwards in the same order; steps go before queued jobs.
* All-reduce: no buffer is written while the peer reads it; each round yields
  that round's sum.
* Overlap: the ranks issue the same collectives in one order; a half's capture is
  never switched off by the other; both halves end, also when one raises.
* Prefix cache: what a lookup returns is whole and exact on both ranks, whoever
  failed or died; a late rank finds its files; nothing is lost or left behind.
* Session: the rows the Mac verifies are those of its committed text; a lost
  session can be rebuilt; every step ends; the box frees every session
  (but one whose OPEN fails after its prefill, section 3).
* Drafting: whoever drafts has the newest committed rows; the two sides agree what
  was verified; a lost step is drafted by somebody.
* Scheduler: a request is in one place, its row belongs to it, it is answered
  once; what an exception interrupts is retried or failed, never forgotten.
* Failover: a client's text is one text; children are switched when idle, one at
  a time; every response ends.

The complete list of hazards, with the line at which each bites and the
property that covers it, is in `PROJECT.json`.

## 2. What is modelled

### PrefillGate (`MCPrefillGate`, `PrefillGateProofs`)

One thread per prefill or cache clear. `mu` is held only in short sections, so
each section is one action; the prefill lock has an owner and is its own
variable, because it is released and taken apart from them. The two wait sets
are program counters: `"parked"` waits on `cv`, `"asleep"` on `rcv`, and
`Notify` moves sleepers to their next check. The wait loop in `prefill_yield`
reads `bypass` and `active` one after the other without `mu`; so do
`PeekBypass` and `PeekActive`. Time is counted in chunks of work: `elapsed` and
`susp` of a thread grow when a chunk is computed, which is what the share
compares.

| code | action |
|---|---|
| `enter`: append ticket | `Arrive` |
| `enter`: `cv.wait_for` | `Check` |
| `enter`: lock | `Acquire` |
| re-entrant `enter` | `Reenter`, `LeaveInner` |
| a chunk of the prefill | `Chunk` |
| `prefill_yield` | `Yield`, `YieldReturn`, `Suspend`, `Sleep`, `PeekBypass`, `PeekActive`, `Reacquire`, `Resume` |
| leaving | `Leave`, `Release` |
| `limit()`, read anew by every `small()` | `Limits`, chosen from at each read |

### GpuQueue (`MCGpuQueue`, `GpuQueueProofs`)

Connection threads, the `gpu_loop` thread and rank 1. Locks are variables with an
owner. `Request` to `Answer` are a connection's steps through `submit` or
`run_now`; `Get` to `Release` are the loop's; `Layer`, `TakePoint`, `RunInline`
and `EndInline` are one point of a preemptible chunk; `Recv1`, `Point1`
and `Run1` are rank 1's. `op0` and `op1` name the forward pass a rank is in. A
forward has collectives, so it ends on one rank only with the other's (`Join`,
which stands for the GPU library). A command that raises does so before its
collectives, on both ranks. The share test of a point is arbitrary. Left out:
the idle-time `trim` job, fatal CUDA errors (the process exits), drain and
watchdog, a command that fails on one rank only.

### CEAllReduce and OverlapBaton (`AllReduce`, `MCOverlapBaton`, `OverlapBatonProofs`)

`CEAllReduce`: the two streams as two processes, one action per enqueued
operation. A copy is a begin and an end, so that an overlapping write shows as
`Torn`. `AllReduce` is the promise: a rank gives a partial and gets that round's
sum once both gave. `ImplementsAllReduce` is the refinement: `given` is `k`,
`taken` the rounds whose stream work has ended.

`OverlapBaton` extends it with who starts the rounds: a chunk that runs as two
halves, one thread each, on both ranks. An action of a half (`Segment`) is what its
thread does with the baton, from one hand-over to the next; what it enqueues goes
to the compute stream's `queue`, which `Compute` executes in order, and a round
begins (`Begin`) when its tensor is there.

| code | definition |
|---|---|
| `_Run.enter`, `_restore_globals` | `Restored` |
| `all_reduce_in_place`, `_Run.switch` | `Segment`, `Passes` |
| `_Run.finish`, the hooks' wrapper | `Finish`, `Returns` |
| `Window.point`, `_run_jobs`, `run_inline` | `Point`, `Inline`, `Steps`, `Mark` |
| `fence` | `Fence` |
| compute and comm streams | `Compute`, `ComputeStep`, `Begin`, `Reduce` |

The collective of a chunk's halves is the copy engine when
`SPLIT_NV_CE_AR_IN_OVERLAP` is set, else NCCL, whose promise is `AllReduce`.
(The comment at `pf_overlap.py` 33-37 says the copy engines diverged in overlapped chunks
in 1-2 of 40 prompts; the order of operations modelled here does not explain it.)
Left out: the attention backend and input registry of half B (set with the
globals), debug modes, and an exception on one rank only.

### SplitSession (`MCSplitSession`, `SplitSessionProofs`)

One request from the OPEN on. The Mac's loop sends early (`Presend`), asks for rows
(`Issue`), finds them in flight or not (`Ensure`, `Stale`), receives (`Recv`),
verifies (`Verify`) and on any failure drops the link and rebuilds (`Drop`, `Reopen`,
`Reopened`, `Retry`). A step's rows are represented by the token sequence
they were computed on, so "the right rows" is an equality of sequences. The box
handles a connection's frames in order (`BoxOpen`, `BoxStep`, `BoxClose`). A
`Break`, `Crash` or failed step may strike at any moment. A new connection takes a
slot whose old session is gone; the old session of a broken link may still live
in the other slot. An OPEN may also fail after its prefill (`OpenOrphans`): the answer cannot be
sent, or the snapshot raises; `orphans` counts the sessions that are then left on the box. Left out: the streamed encoder state, images, other requests on
the same box. STEPD and RING are `RingDraft`.

### RingDraft (`RingDraftProofs`)

The drafting of one request. Three rings hold rows of the newest committed
positions, named by position because what is committed does not change: `host`
(the Mac's host copy), `mring` (the Mac GPU's) and `bring` (the box's). A cycle is
*prepare*, *wait* or *resolve*, *verify*, *commit*, as the engine thread goes through
`mtp_box_prepare`, `presend`, `mtp_box_resolve` and the verify.

| code | action |
|---|---|
| `BoxDraft.prepare`: its returns, in order | `Plain`, `TooShort`, `RingGap`, `BoxDrafts`, `MacDrafts` |
| `_ring_first`, `_mac_ring` | `RingFirst`, `MacRing`, `Synced` |
| the Mac's own draft | `MacDraft` |
| `presend`, `mtp_box_resolve` when there is no draft | `Presend`, `Redraft` |
| `recv_stepd`, `on_reply` | `Receive`, `OnReply`, `Resolve` |
| the verify and its accept count | `Commit` |
| `on_lost`, `recover`, the kickoff of `resolve` | `Recover`, `StuckBy`, `Kickoff`, `End` |
| box: `ring`, `stepd`, `step_taps` | `HandleRing`, `HandleStepd`, `HandleStep` |
| `_dspark_enabled` | `KillSwitch` |

Left out: the extra draft source (it acts as the copy index), a request that is
moved to a new MTP state, exceptions inside `_box_prepare`, the bound on
reopening tries and the stale or different rows of a step (both in `SplitSession`),
blocks that would pass the context's end, a box without the STEP-taps capability.

### PrefixCacheBox and ChunkPlan (`MCPrefixCacheBox`, `PrefixCacheBoxInv`, `PrefixCacheBoxProofs`)

`ChunkPlan` is `plan_chunks` as a function, one `Repaired` per round of its loop. `PrefixCacheBox` is the cache around a
prefill with `cache=1`. `stack` holds the prefill that runs and, below it, the one
suspended at the gate; the gate itself is `PrefillGate`'s business, and any prompt
may go first here, because the estimate that decides is made before the prompt
queues. A file is its name and the token prefix whose state it holds, so "the right
contents" is an equality. Each rank has its queue of commands (rank 1 may lag; a
chunk's forward keeps the ranks together, a barrier joins them) and its writer's
queue; a file appears whole under its name or not at all, and a write that fails leaves the `.tmp` file it had begun
(`torn` counts them; a restart or a clear removes them). `dead` holds what the front thread is
about to unlink, so that a restart may strike half-way.

| code | action |
|---|---|
| `prefill`: lookup, restore | `Open`, `Restored`, `RestoreFails` |
| `prefill`: plan, chunk loop, `_grid_done` | `Plan`, `Continue`, `GridDone` |
| its failures | `Fail`, `ChunkFails`, `ReplyFails` |
| `save_snapshot` | `Snapshot`, `SaveTail`, `Register`, `Finish` |
| `evict`, `forget_blocks`, `cache_clear` | `Finish`, `Unlink`, `Clear` |
| engine commands, per rank | `ExecChunk`, `ExecSnapshot`, `ExecRestore`, `ExecBarrier` |
| `RankStore._writer`, `_atomic_save` | `Write`, `WriteFails`, `WriteTears` |
| process death and `_load` | `Restart` |

Left out: file sizes (an entry and a block count one unit of the budget), pieces
of a chunk, prefills without the cache (they touch no file), the `tok-` file apart
from the `idx-` file written right after it.

### EngineScheduler (`MCEngineScheduler`, `EngineSchedulerProofs`)

`Scheduler.step` and the batch generator it decodes with. `todo` is what the step
has left to do, so that aborts (`Abort`) and the store worker (`StoreDone`) may
come between any two of its parts; each part is an action or one per way it can
go.

| code | action |
|---|---|
| `add_request`, `abort_request` | `AddRequest`, `Abort` |
| `_process_pending_aborts`, `_do_abort_request` | `ProcessAbort` (`AbortKnown`, `AbortStored`, `AbortIgnored`, `AbortRaises`) |
| `_drain_pending_async_removes` | `DrainStep`, `Drain` |
| the choice of a single prefill or chunks | `Pick` |
| `_advance_chunked_prefills` | `StartAdvance`, `ChunkRuns`, `ChunkEnds`, `ChunkFails`, `ChunkPaused`, `ChunkGone`, `ChunkDeferred`, `AdvanceDone` |
| `_schedule_waiting` | `AdmitDone`, `AdmitHeld`, `AdmitBlocked`, `AdmitDeferred`, `Take`, then `Prefilled`, `FirstChunk`, `PrefillFails`, `PrefillPaused`, `PrefillAborted` |
| `BatchGenerator.next_generated`, `_process_batch_responses`, `_cleanup_finished` | `Decode`, `NoDecode`, `CleanUp` |
| the `except` clauses of `step`, `fail_all_requests` | `Corrupt`, `Overflow`, `Fatal`, `Retry`, `FailAll` |
| `_async_store_cache_worker` | `StoreDone` |

Clocks, memory estimates, prompt lengths and token values are arbitrary. Left out:
SpecPrefill, the drafters of vision models, Metal cache clears, the temporary uid of a
request that is prefilled in one piece, the contents of caches. The cap on pending stores is
fixed within a behaviour although the memory enforcer may move it. The clause for
`_PrefillAbortedError` in the loop over chunks (`scheduler.py` 6031) is not there: only `_do_external_prefill` (4003, the
prefill in one piece) and SpecPrefill (11209) raise it, and no chunk calls them.

### Failover (`MCFailover`, `FailoverProofs`)

The supervisor is one asyncio thread: an action runs from one `await` to the next.
A token is the number of the attempt that sampled it, so two attempts never agree
by accident, and "one text" is an order on numbers. `pc` tells where each task is
(a request, or `Keeper`, which boots and restarts children); `lock` is the switch
lock.

| code | action |
|---|---|
| `watch_box`/`probe`, the clocks of `box_ok` and `box_restarting` | `Probe`, `TimePasses` |
| `forward`, `open` | `Admit`, `Ensure`, `Connect` |
| `ensure`: lock, wait for the last upstream, look again | `Locked`, `Hold`, `Woken`, `Switch`, `Stop` |
| `stop`, `start`, its failures with and without a child | `Ends`, `Start`, `Ready`, `StartFails`, `CannotStart` |
| `check_worker` | `Restart` |
| `splice`, `Splice._skip` | `Read`, `Skip`, `Finished`, `Broken`, `Marked` |
| resume, or giving up | `Resume`, `NoResume` |
| `watched`: the client has gone | `Leave` |
| the child: replay, then its own tokens | `Works`, `Token` |
| `og_failover._fail_all`, `_step` | `BoxLost`, `EngineFails`, `OpenFails` |

A child that was told to end may still serve what reaches it (it drains) or refuse it
(`Connect`). Left out: images, tool-call deltas, keepalives, the endpoints that are not resumed,
deadlines in seconds, `guard_local_prefill`. It is assumed that a streaming
response whose client left is still iterated, as the web framework does.

### Not modelled

* Tensor code and kernels (`kernels.py`, `language.py`, `hooks.py`,
  `idx_rowsplit.py`, the model files of mlx-lm and oMLX, ...): they compute
  floating-point values. This is most of the repository's source.
* State packing and wire formats: no state of their own.
* Process supervision on the box (watchdog, drain, `hard_exit`, `stallwatch.py`): it ends the
  process, which `SplitSession` sees as `Crash` and `Restart`.
* `storage.py` and the encoder replay: they belong to the Mac-only model.
* KV admission: the pages and their count live in the engine library; a full pool is a
  failed step (`StepFails`) or a refused OPEN here.
* Mac prefill jobs, Mac row caches, the Engram table: small protocols left for an
  extension (section 5).
* Other servers and tools of the repository (oMLX's admin and CLI, mlx-lm's own `server.py`, benchmarks,
  test doubles): they are not part of the split server's path, or only measure it.

## 3. What is checked

| run | question | bounds | distinct states |
|---|---|---|---|
| `gate` | mutual exclusion, share, order, every prefill ends | 3 threads, 1-2 tokens, limit 1 or 2 at each read, 2 chunks | 455 thousand |
| `queue` | lost or doubled jobs, rank agreement, step order, every request answered | 3 connections with 1 request each, 6 kinds of job, 2 points, pipe of 2 | 125 thousand |
| `all_reduce` | torn reads, refinement of `AllReduce`, order of collectives, halves apart, both halves end | 2 all-reduces per half (4 rounds), lag 2, 8 chunks | 195 thousand |
| `session` | right rows, rebuildable, steps end, sessions end | 2 tokens, 2 slots, context of 3, 1 draft, 2 faults, 1 attempt | 366 thousand |
| `ring` | fresh rings, no refusals, agreement, every block ends | ring 2, `PRIME_CTX` 4, `MIN_CTX` 5, prompts of 2 and 5, up to 3 rows, context 9; 1 broken link, 1 failed RING, 1 kill-switch change | 243 thousand |
| `cache` | whole entries, late ranks, order of blocks, leaks | 3 prompts of 5, 5 and 7 tokens, blocks of 3, 3 block ids and 5 keys at once, budget 3, 1 fault | 2.7 million |
| `sched` | one place, one row, one answer, serial retries, every request ends | 3 requests with room for 1 store and all faults, or 2 with room for 2 and a corruption, each with 2 chunks and 1 abort; or 3 with 3 chunks and two faults in one step; batch of 2, 2 tokens, 1 retry of each kind | 452 thousand |
| `failover` | one text, idle switch, one child, every response ends | 2 requests (one streams), q3 on or off, 2 resumes, 2 tokens, 4 children, 1 loss of the box, 1 fault | 253 thousand |
| `cache_doc_blocks` | `prefix_cache.py` lines 279 and 443 | 2 block ids, 3 keys | violated |
| `sched_doc` | `scheduler.py` lines 6076 and 10366 | 2 requests, 1 fatal fault | violated |
| `sched_doc_uid` | `scheduler.py` lines 12398 and 10391 | 2 requests, 1 corruption | violated |
| `failover_doc` | `ds41_og.py` lines 10 and 963 | as `failover`, q3 on | violated |

The type invariants of the gate and the all-reduce are proved (section 4) rather than
run; the runs' properties are each about a hazard.

Why the bounds suffice.

* *Gate*: three threads are a suspended prefill, a bypassing one and one more that
  queues meanwhile; a second chunk lets a prefill yield again after it was
  suspended; each read of the limit returns 1 or 2, so a prompt of 2
  tokens may be small for one ticket of a search and long for the next (what a limit of 0,
  the bypass switched off, does to it; the proofs have every set of limits).
* *Queue*: three connections give a step that has the GPU, one that registers and
  one whose job the loop holds; two points let a step be parked before, between and
  after them; each job may be one that fails.
* *All-reduce*: a rank is never more than one round ahead, and with two all-reduces
  per half every buffer and flag is reused by both halves. The chunks have no points, points with two steps,
  or a failure in any segment of either half. (The proofs cover any number.)
* *Session*: two slots hold an old session and its rebuilt successor; two faults
  strike a rebuild that is itself a recovery; two tokens tell a wrong draft from a
  right one; a context of three is reached with a draft and without.
* *Ring*: a context of 9 crosses `PRIME_CTX`, then `MIN_CTX`, then lets both rings turn
  over more than once; a request may start below or at the threshold; one fault of each kind
  lets drafting go to the Mac and return to the box.
* *Cache*: two prompts share a block and differ after it, the third extends the
  first, so entries are resumed from, adopted, shared and evicted while another
  prefill is suspended; ids are reused once no file, command or plan names them (the
  code's are never reused), so the number of prefills is not bounded, only how many
  ids are in use at once. This run and its violated sibling allow a deadlock: ids held by leaked
  files can use up the bound.
* *Scheduler*: of three requests one decodes, one is prefilled in chunks and one waits; room
  for one store makes the gate bite, room for two lets a request be admitted beside a
  pending store; a fault of each kind, or two of a kind that is retried, use up a
  retry budget. In the third world (`Stumbling`) a chunk is requeued or rejected and a later part of the same
  step raises; three chunks each let two prefills be in one round of chunks when that happens, and no
  abort is needed for it.
* *Failover*: two requests hold each other's child; two resumes are one that works and
  one that is lost again; four children are the two of a switch, the one before and the one after.

`PlanSound` in `MCPrefixCacheBox` evaluates what the grid plan relies on for chunks of
3 to 5 rows and prompts up to 14 (`PlanCovers` and `PlanNoSingleRow` prove all of it but the
last line for every size). `failover`, `all_reduce` and `ring` end when their
requests have ended, so they do not check deadlock; what must not stop is their
liveness property.

Each property is also run against a variant of the code with one slip (the
operators that stand just before the definition they vary; `PROJECT.json`
lists the pairs): the variant violates the property.

### Fairness

* Gate: weak fairness of each thread's own steps. Arrivals need not happen. No strong fairness is asked of the lock: the code's locks
  are not fair either.
* Queue: weak fairness of each connection's, the loop's and rank 1's steps and
  of `Join`; threads run, the pipe delivers, GPU work ends. Weak fairness is enough
  although a lock that is free may be taken by another thread first: the requests
  of a run are finite in number, so a thread is overtaken finitely often.
* Overlap: the halves' threads run and each stream executes what is enqueued on it.
* Session: the Mac's loop and the box's handlers run. A crashed box need not come
  back, a broken link need not heal: the retry clock ends the wait.
* Ring: the engine thread and the box's handlers run; the kill switch and faults need not.
* Scheduler: the engine calls `step` while it has requests, a step ends, the store
  worker ends. Which request is prefilled or deferred stays arbitrary within the
  code's limits, and a client need not abort.
* Failover: tasks run, the probe runs, a child that loads is ready or fails, a
  stopped one ends, and a child with an open request goes on or loses its box. The
  box need not come back, and nothing has to fail.

### Where a comment and the code differ

* `sched_doc`. `scheduler.py` 6076 and 10366 say every rejected request gets an output, "so no client
  hangs". A request rejected early in a step is popped from every list at once and
  its output kept in a local list; if a later part of the same step raises what
  `step` does not handle (13157), the outputs are dropped, and `fail_all_requests`
  does not find the request. `OnePlace` holds for all others.
* `sched_doc_uid`. The comments at 12398 and 10391 rely on the row of a finished request staying its own
  until the store's clean-up. A recovery rebuilds the batch generator,
  whose uids begin at 0 again (`generate.py` 1587), and the clean-up at 2610 then
  removes the row of the request that has the number now. `RunningHasRow` is what
  holds: only rows taken that way (`stolen`) are missing.
* `failover_doc`. `ds41_og.py` 10 says "It owns exactly one GPU child"; 963 says the
  client's departure cancels nothing that others wait for. A non-streaming
  client that leaves while its `open` switches children cancels the switch between `stop`'s
  forgetting the child (541) and its end; the next switch starts a second child beside
  it. `OneChild` holds as long as no switch was cut off (`cut`).
* `cache_doc_blocks`. `prefix_cache.py` 279 and 443: "a block file is deleted when no
  entry references it", and `forget_blocks` is there for "the prefill failed". A
  prefill that fails while it streams (`Fail`) forgets the blocks it has recorded, not
  those of the chunk being sent and of the one in flight, nor writes still queued; a
  failure after `Front.prefill` has returned (`ReplyFails`) forgets nothing. `NoLeak`
  is what holds: without such a failure no whole file is left behind, a failed write leaves no more than its `.tmp` file, and a
  restart removes the stray blocks and the `.tmp` files. (Stray files of grid entries, `ent-` and `rows-tail-`, stay until
  the cache is cleared: `_load` looks for `blk-` and `rows-b` files only, which is why
  a restart leaves "entry" in `lost`.)

Some smaller differences have no run of their own. `fair.py` 8: "a long prefill stays
suspended for at most `share` of its own elapsed time"; the share is tested before a
suspension, and the short prompt is then served to its end. `ShareSlack` is what holds,
and is proved: the share, plus one short prompt. The same line: "Shorts are served in arrival
order". `limit()` re-reads its flag for every ticket of the search (52, 114), so when the limit is
raised between two of them, an earlier short prompt is passed over and a later, perhaps longer one
chosen. `ArrivalOrder` is what holds, and is proved: the order is kept through any change of the limit but one in the
middle of a search (`turned`). `front.py` 518: a STEP "Waits only for
the GPU job already running; ahead of queued jobs"; the loop asks for the GPU (427)
while it holds `step_cv`, so a step that arrives then waits for the queued job in the
loop's hands as well. `StepsFirst` is what holds, and is proved: steps that have registered go first.

### What the models show besides

* A session whose OPEN fails after its prefill is never closed (`orphans`). `_open` closes it when
  `self.prefill` raises (`front.py` 1127); what comes after (1131 to 1149: sending ACK and state on a
  link that is gone, the end of the stream, the snapshot) leaves `handle_open` before `handle_conn`
  has assigned `sid` (1193), so its `finally` (1259) finds nothing to close, and no idle timeout looks for
  such sessions: their pages come back with a restart. `SessionsEnd` says what holds: every other
  session ends with its connection, and there is at most one of these a fault.
* A request whose row was taken by another's clean-up cannot be aborted: the abort
  raises a `KeyError` and every request of the engine is failed (`AbortRaises`).
* Two faults in one round of chunks put a request in `waiting` twice. A chunk that runs out of memory puts its
  request back in `waiting` (`scheduler.py` 6053), while `self.prefilling`, which still names it, is
  replaced at the end of the round only (6116); if a later chunk of that round raises a cache
  corruption or an overflow, 12645 and 12741 collect every request of `prefilling` without asking
  whether it waits already, although the docstring says "Requests still in self.waiting are left
  alone". The history variable `twice`
  collects the requests this befell, and `OnePlace`, `RunningHasRow`, `NoGhostRow`, `AnsweredOnce` and `NothingLeft` except them
  by name: they may be admitted twice, have two rows, leave one of them behind and be answered twice (without
  the exception TLC finds each of the five violated in `Stumbling`). `SerialRetry`, `StoreBound` and `EveryRequestEnds` hold of
  all requests in the run. It was met when the invariant of the proof turned out not to be preserved.
* A response that is lost again before its replay is over sends an empty marker, so the next
  attempt samples from the start while the splice skips by length: the text may then change
  its continuation within what the client has (`unreplayed`, the one exception of `SameText`).
* With q3 on, a request that arrives while a child loads takes the fast path past the
  lock and gets a 503. A switch that was woken looks again at which child is wanted, not
  at whether the engine has stayed idle; `SwitchIdle` holds because both happen before the next `await`.
* `_skip_tool` (tool calls, left out) drops arguments of a new call that are split over
  several events after a resume; and the kickoff that `redraft` sends (`stepd.py` 415) is not
  guarded against an `OSError` as the others are. Both were met while reading, not by a run.

## 4. What is proved

All for every value of the constants, under the modules' named assumptions
(`GateAssumption`, `QueueAssumption`, `RoundsAssumption`, `OverlapAssumption`, `FailoverAssumption`,
`RingAssumption`, `SessionAssumption`, `SchedulerAssumption`, `CacheAssumption`). They say what kind of thing a constant
is, that the placeholder `None` is none of the values it stands beside, that `Conns` is finite, that
there is a kind of job and that a session's prompt has two tokens; of sizes they say only what the code's
own limits say (a batch has a place, a prompt a chunk, a grid block more than two rows). The scheduler's theorems speak of
behaviours up to the moment a recovery collects a request whose chunk had failed earlier in the same
round (`twice = {}`, a state the model keeps, not a hypothesis on a constant; section 3 says what happens
after it). TLC evaluates each assumption on the runs.

* `PrefillGateProofs`: `GateTypes`, `GateExclusive` and `GateSuspendedAlone`. `Exclusive`
  is not inductive: whether a thread may run depends on `active`, `bypass` and
  `suspended`, and these are cleared before the lock is released. The invariant
  relates each thread's place to the three variables and to the lock's owner; the
  proof has one lemma per action. `GateShareSlack` and `GateArrivalOrder` are about fairness in the gate's sense. The first is a potential
  argument: what a suspended prefill has waited, plus what the short prompt it waits for has
  left to compute (`Rest`), stays within the share and one short prompt (`Within`). The second
  needs that a ticket is queued once and that nothing in front of the one that is chosen was
  small for the limit it was chosen by.
* `GpuQueueProofs`: `QueueStepsFirst`. `step_waiters` is the cardinality of
  the set of registered threads; the argument is that the set changes by one
  element exactly where the counter does, and that the loop asks for the GPU only
  while it holds `step_cv`, when no thread can register or is registered. `QueueNoJobLost`
  (`PlaceInv`) counts a request's places (`jobs`, `pq`, `batch`, the loop's hands) and adds where the
  loop holds a job, where it holds steps, and that a request not yet with the loop has no answer.
  `QueueRanksAgree` (`RanksInv`): for each place of rank 0, `Stance` says which pass each rank may be in and
  which messages are on their way to rank 1.
* `OverlapBatonProofs`, on the protocol alone: `CETypes`, `CEStableReads`, `CEImplements`. The invariant ties each
  flag to its owner's place and round, and bounds how far the streams can be
  apart; from it, what each buffer holds while the peer may read it. That is
  the buffer-reuse argument of the docstring. `CEImplements` maps each step to a
  `Give`, a `Take` or a stutter.
* `OverlapBatonProofs`, on the halves: `OverlapStableReads` and `OverlapImplements`. Every step of the
  composition is a step of `CEAllReduce` or leaves its variables alone, so what was
  proved of the protocol holds for the rounds of the halves, whatever fails. `OverlapHalvesApart`
  (`Kept`): a half that has begun has its own globals, saved or set, and every segment it counts ran with
  them. `OverlapCollectivesInOrder` (`OrderedInv`, `Shared`): both ranks go along one sequence of turns,
  segments, points and calls, the later one where the other went; and a step on the compute stream has
  a wait for every round made ahead of it.
* `FailoverProofs`: `FailoverOneChild`. A living child is the current one or the one being
  stopped; a task that stops one holds the lock and finds no current child. The theorem
  excludes behaviours in which a client's departure cut a switch off, which `failover_doc` shows
  is necessary. `FailoverSwitchIdle` is an action property: `inflight` counts the
  requests that are sent or relayed, a task that was woken finds none relayed, and none is
  relayed to a child that loads (`IdleInv`). `FailoverSameText` (`TextInv`): until a response fails, the
  client's text is the beginning of what the current attempt stands for, and holds all that was read of it.
* `RingDraftProofs`: `RingMacWhole`. Of the Mac's two copies one is always whole: the
  host's, unless the Mac drafted alone, and then its GPU's. The reply to a draft request is
  never a block the Mac made, because a step's frame is the last on the wire while the Mac waits; and
  the gap that `prepare` guards against (`RingGap`) cannot occur. `RingWholeDrafts`,
  `RingNeverRefused` and `RingRingsAgree` (`AgreeInv`) relate the ring the Mac believes the box has
  to the one it has, across what is on the wire: each frame under way is one the
  box will accept and, while the Mac believes the ring current, leaves it ending where the host's copy ends.
* `SplitSessionProofs`: `SessionRows` and `SessionRebuildable`. That the box's rows are those of
  the committed text does not follow from itself: the early step that turns out stale, the link that
  is given up with a reply on it and the session the box has not yet closed all have to be in the
  invariant. While the Mac uses a link, at most one frame or one reply is on it, and the invariant
  says which (`Sent`, `Answered`, `Opening`, `Silent`) and, as long as the link is up, what the box's
  session holds (`Holds`). A step that waits at the box, on any connection, has a `keep` the
  box accepts (`Kept`), so the box's refusals of a `keep` never happen.
* `EngineSchedulerProofs`: `EngineOnePlace`, `EngineAnsweredOnce`, `EngineRunningHasRow`,
  `EngineNoGhostRow`, `EngineNothingLeft`, `EngineSerialRetry` and `EngineStoreBound`, all the safety
  properties of the `sched` run. Between the parts of a step a request is often in no
  queue or in one that is about to be replaced, so none of them is inductive. `PlacedInv` says where a request
  may be at every point of `todo` (a queue, the round's own list, the hands of `_schedule_waiting`,
  the store) and that it is in one of these. The others stand on it: `RowsInv` (the two uid maps
  are inverse to each other and every row has an owner, except the rows a clean-up took), `LoadInv` (what
  admission has promised and the store gate has room for), `SerialInv` (who may be at work while
  a request is retried alone) and `LedgerInv` (each client's answers, those still in the step's local list
  included). Each action's effect on the queues is one lemma (`..Moves`), shared by all five.
  Each invariant is proved under `Once` (`twice = {}`), for any number of faults in a step: `twice` only grows (`TwiceGrows`), so
  a step that ends with it empty began so; and in a round of chunks what has left the round but is still in
  `prefilling` (`LeftRound`) is waiting or rejected (`RoundFresh`), so a recovery that does not fill
  `twice` finds none such.
  Draining finished removals keeps the order of a queue; that `Chosen` does so is shown by an induction over
  its length.
* `PrefixCacheBoxProofs` (with the invariants in `PrefixCacheBoxInv`): all five safety properties of the `cache` run, for any prompts, grid, budget,
  numbers of ids and faults. The inductive invariant is `CacheInv`, in four parts: `Shape`, what a
  prefill's record holds at each place (`Tiled`: its chunks are those of the plan; `Counted`: how many
  blocks it has); `Proto`, that a prefill below another one is between two chunks and that a barrier is
  the last command of a rank; `SlotInv`, whose each block id and key is; `EntryInv`, that
  the files of an entry are on disk and not about to be unlinked, that references are counted right and
  that every `idx-` file is an entry's. `CacheGridOrder` follows from `Shape` and `CacheRestoreSafe` from
  `EntryInv`, because a restore asks for files of an entry and no entry leaves the index while
  a rank has a restore to execute. On top of it stand four invariants, each inductive with `CacheInv`:
    * `LeakInv`: what is named on disk, on a writer's queue or in a command belongs to an entry, to a prefill or to
      `dead`, unless `lost` says that its kind was left behind; `.tmp` files are there only while `failed` says that a write
      failed. It gives `CacheNoLeak`.
    * `HeldInv`: each block a prefill holds is its own or an entry's and is not about to be unlinked. This is
      where the condition on eviction counts (`MayEvict`): a suspended prefill holds blocks by name only.
    * `StageInv`, with `Sends`: unless a write failed, every file of an entry still to be registered is on
      disk or on its way (in a command, on a queue), and after the barrier nothing is on its way. It gives
      `CacheSkipped`.
    * `ClaimInv`: all places that speak of a block or a key (disk, queues, commands, plans) say the same prefix of
      it. With `EntryInv` it gives `CacheRestorable`: what is there is the state of exactly these tokens.

  `PlanCovers` and `PlanNoSingleRow` are about `plan_chunks` itself: it tiles `[P, n1)`, and the repair loop leaves
  no chunk of a single row unless that is the whole prefill. After `n` rounds the chunks of one row come
  after the `n`-th chunk (`Late`), so as many rounds as there are chunks are enough.

Every safety property of a passing run is a theorem. Model-checked only: the liveness properties, because the
prover does not reason about fairness and ENABLED; that between two multiples of the grid at most one chunk of a plan ends
(last line of `PlanSound`); and the four disagreements of section 3, each a counterexample. What the
theorems say of the code goes as far as the models do: section 2 lists what each leaves out.

## 5. What is left

1. Composition: a session's OPEN through the gate and the queue, which each are checked
   with arbitrary callers now.
2. `KvAdmission` (pages promised, held and freed by interleaved prefills and steps),
   `EngramKeep` (a crash between fill and header), `OpenJobs` (the OPEN's thread beside the engine loop).

The library's induction theorems take an operator, which no prover here can instantiate.
`SetInduction` (in `EngineSchedulerProofs` and `PrefixCacheBoxProofs`) states induction over the naturals for
a set and is proved from the least element; it is enough for facts about one recursive function, such as the
rounds of `PlanChunks` or the folds behind `FlattenSeq`. What a definition by recursion over other data computes
stays with TLC. No module with a theorem declares or reaches a RECURSIVE operator.
