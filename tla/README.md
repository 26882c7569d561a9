# A TLA+ model of atomr-accel

atomr-accel runs GPU work behind actors: a caller tells an actor what it wants
and receives the answer on a oneshot channel. CUDA gives this two difficulties.
A kernel is finished long after the call that started it has returned, and a
fault anywhere makes the whole CUDA context useless, so that it has to be built
again under callers that hold references into the old one. This project models
the parts of the system that deal with these two facts, the calls to the kernel
libraries that pass through them, and the actors above them that keep promises to
several callers at a time.

Paths below are relative to `src/crates/`; `cuda/` is `atomr-accel-cuda/src/`.

## 1. The system

### Components, their state and their operations

| component | state | operations |
|---|---|---|
| `DeviceActor` (`cuda/device/device_actor.rs`) | children it routes to, stash of work (`pending`) | requests (alloc, copies, gemm), snapshots, `ContextReady`, `ContextLost`, `post_stop` |
| `ContextActor` (`cuda/device/context_actor.rs`) | stream, kernel children | `Init` (`run_init`), alloc, copies, restart, stop |
| `DeviceState`, `GpuRef` (`cuda/device/state.rs`, `cuda/gpu_ref.rs`) | generation, current context, `accepting_ops`; a slice and a generation token | `bump_generation`, `install_context`, `begin_shutdown`, `access` |
| supervision (`cuda/error.rs`) | restarts within a minute | restart, stop or escalate by the tag of a panic |
| `run_kernel` and the completion strategies (`cuda/kernel/envelope.rs`, `cuda/completion/`) | one task per kernel, its keep-alive | enqueue, register, wait, reply, release |
| stream allocators (`cuda/stream/`) | cursor | `acquire` |
| `NcclWorldActor`, `CollectiveActor` (`cuda/multi_device/`, `cuda/kernel/collective/`) | devices, collectives, `built`, last generations; a bridge task per device | `ChildReady`, `DeviceContextChanged`, `AllReduceF32` |
| `PinnedBufferPool` (`cuda/host/pinned.rs`) | free slots, `in_use`, `total_minted`, `generation`; a pump task | `Acquire`, `InternalReturn`, restart |
| `SharedGpuStateCoordinator` (`atomr-accel-agents/src/shared_state.rs`) | current token, waiters, counter | `AcquireWrite`, `ReleaseWrite` |
| `DynamicBatchingServer` (`atomr-accel-patterns/src/batching.rs`) | batch, its start; timer tasks | `Submit`, `TimerFlush`, `FlushNow`, `post_stop` |
| `FairShareScheduler` (`atomr-accel-patterns/src/scheduler.rs`) | a queue and a `vfinish` per tenant, `in_flight`; a tee task per request | `Submit`, `Finished` |
| kernel libraries (`cuda/kernel/`: cuBLAS, cuBLASLt, cuSOLVER, cuSPARSE, cuTENSOR, cuFFT, cuRAND, cuDNN, NCCL) | an actor each, its handle and stream; buffers behind `Arc`s | one handler per routine: validate, unwrap, plan, launch, leave the reply to `run_kernel` |
| `CubActor` (`atomr-accel-cub/src/`) | compiled kernels by operation and type; a task per request | refuse, or spawn a task that compiles through `NvrtcActor`, then launches one to three kernels through it |
| Python classes (`atomr-accel-py/src/`) | the `GpuRef`s of the caller's buffers | a plain and an `_async` method per routine, under a timeout |
| plan caches (`cuda/kernel/tensor/`, `cuda/kernel/fft.rs`) | LRU lists of reference-counted plans | hit, build step by step, undo, evict, clear |
| `NvrtcActor` and its disk cache (`cuda/kernel/nvrtc.rs`, `cuda/nvrtc_cache.rs`) | module map, in-memory map, files shared by processes | `Compile`, `CompileAsync`, `compile_to_ptx`, `Launch` |
| `MoeRouter`, `ModelReplicaPool`, `ModelHotSwapServer` (`atomr-accel-patterns/src/`); data-, tensor- and pipeline-parallel trainers (`atomr-accel-train/src/`) | their workers; cursor, counters; the current backend | fan out and collect in a task, or forward the reply channel; add a replica, swap the backend |
| `InferenceCascade`, `SpeculativeDecoder` (`atomr-accel-patterns/src/`), `LangGraphGpuActor` (`atomr-accel-agents/src/`), pipelines (`cuda/pipeline/`) | one task, its position; two bounded channels | run the stages in order, stop early or on an error |
| `EmbeddingCache`, `CpuVectorIndex`, `RagPipeline` (`atomr-accel-agents/src/`) | map, LRU order, mailbox; entries; a task per query | lookup, insert, invalidate, search, all under timeouts |
| `AsyncParameterServer` (`atomr-accel-train/src/`) | weights, version | pull, push with the version the gradient is from |
| `P2pTopology`, `PlacementActor`, graphs, replay, FFI, CUTLASS, FlashAttention, TensorRT, telemetry, real-time kernels, build tasks | | not modelled, see section 5 |

### How they interact

Callers tell the `DeviceActor`. It forwards copies and allocations to its child,
the `ContextActor`, and kernels to the `ContextActor`'s children, whose refs it
gets in `ContextReady`; while it has none it stashes work. The `ContextActor`
builds the CUDA context in response to an `Init` it sends to itself. A panic in
it (or in a kernel actor) is judged by the supervisor: tag `ContextPoisoned`
restarts it, which sends `ContextLost` and a new `Init`; the mailbox survives.
`DeviceState` is shared memory: the `ContextActor` writes it, every `GpuRef`
reads it, and its watch channel wakes the `NcclWorldActor` and the
`P2pTopology`. Every kernel actor ends in `run_kernel`, which enqueues on a
stream and leaves a task behind that answers the caller. A Python method clones
the `GpuRef`s of its buffers into a request, tells the library's actor and waits for
the oneshot channel under a timeout; Rust code does the same without one. The tasks of
`CubActor` are callers of `NvrtcActor` in turn, one request after the other.

The orchestrators put a caller's request to worker actors, either with a oneshot per
worker that a task of theirs collects, or by passing the caller's channel on. A
worker that stops closes its channels, and that is the only way its callers learn
of it. The NVRTC caches are shared further: their directory belongs to every
process of the machine.

The actor runtime (`atomr-core`) is a library outside this repository. It is
modelled from how the code uses it: FIFO mailboxes, one message at a time, a
`tell` to a stopped actor goes nowhere, children stop with their parent, a
restart runs the factory and `post_restart` but not `pre_start`
(`ai-skills/skills/atomr-accel-supervision/SKILL.md:177-181`). Definitions that
stand for it are marked external in `PROJECT.json`.

### What is hard, and what makes each part correct

* Device: a reference that was valid when checked is used after a rebuild;
  `ContextReady` and `ContextLost` of different incarnations meet; stashed work is
  reordered, stranded, or forgotten at shutdown. Correct: no buffer is used
  outside its context, routing converges, order is kept, callers are answered as far as the GPU answers.
* Completion: several actors share a stream, strategies fail or time out. Correct: Ok
  means the kernel ran; buffers live as long as the kernel needs them.
* NCCL world: contexts change while a world is built, torn down or used. Correct:
  a built world is complete and current, an all-reduce is answered.
* Pinned pool: buffers come back through `Drop`, late, or after a restart. Correct:
  counters are exact, the pool is bounded and no place of it is lost.
* Shared state: tokens are plain numbers, releases come twice or late. Correct: one
  writer, first come first served.
* Batching: timers outlive their batch. Correct: a batch waits no longer than
  `max_wait`, responses are not mixed up, everyone is answered.
* Fair share: slots and turns. Correct: the cap holds, no slot idles, turns follow
  `vfinish`.
* Kernel calls: two dozen early returns and three owners of every buffer (caller,
  request, completion task). Correct: memory a queued kernel uses is alive, an
  answer says what happened, and unless the context faults every caller gets one and
  no buffer stays for ever.
* Plan caches: a plan is evicted while a launch uses it, or a build fails half
  way. Correct: library objects are freed exactly once and never in use, and a
  plan is the one asked for.
* Runtime compilation: crashes and other versions between the write and the rename
  of a file; a rebuild between compilation and launch. Correct: code that is loaded is
  the code asked for; a handle is not used in a context that replaced its own.
* Orchestrators: workers fail and stop while others answer. Correct: Ok stands for
  all of the work, and every request ends.
* Staged computations: early exits, errors, full channels, dropped ends. Correct: stages in
  order, none skipped, results in the order of the items.
* Retrieval: timed-out messages are still handled. Correct: map, order and size
  agree; a query uses its own embedding.
* Parameter server: gradients are late. Correct: never by more than `max_staleness`.

`PROJECT.json` lists each hazard at its line with the properties that watch it.

## 2. Modules

Every component has a module `M` with its state, one action per handler, task
step or fault, `Spec`, `FairSpec` and its properties (with a prefix, as in `PoolSpec` or
`TeamSpec`, where a run or a proof module takes several together). `MCM` instantiates it for
TLC, and each `MCM*.cfg` is one run. Operators commented as mutants are not part
of the specification: each is a changed form of the definition after it, used to
show that the properties can fail.

| module | models | remarks |
|---|---|---|
| `Device` | device, context, one kernel actor, `GpuRef`, supervision | A context is named by its generation. `run_init` is three steps (bump, install, spawn): other actors run between them. `drain_pending` is one step per element, which is how the ContextActor may see it. Sgemm is reduced to its write target. Mock mode is left out. |
| `DevicePromise` | abstract specification of a device | A request is answered at most once; it reaches the GPU at most once, before its answer, under the current generation and before shutdown. |
| `NcclWorld` | world actor, bridge tasks, collectives | Devices are reduced to generation, context and watch channel. `try_build_world` awaits one snapshot per device, so it is a step per device. |
| `Completion` | `run_kernel`, strategies, allocators, streams | A stream is a FIFO of kernels and marks; a mark is a host function, an event or the point a synchronize waits for. |
| `PinnedPool` | pool, pump and handles | Sizes are counted in units of the slot capacity: 1 fits, 2 is oversize. |
| `SharedState` | coordinator and agents | Agents may repeat a release and stop waiting. |
| `Batching` | server, timers, `BatchFn` | Time is in ticks; the age of a batch is kept up to `max_wait`. A timer that is due may be late. `BatchFn` may answer, answer too few or too many, put results in other places, or panic; which requests it misplaced is kept as history. `max_batch` and the overflow policy are chosen in `Init`. |
| `FairShare` | scheduler, tees, dispatcher | `vfinish` counts in units of `1/Scale`, exactly, where the code has `f64`. The loop of `try_dispatch` is one step per round. Ties are decided by the order of a `HashMap`, hence by choice. |
| `KernelSteps` | the steps library handlers are made of | Validate, unwrap, record, prepare (anything that may fail and leaves nothing on the stream), launch, reply. |
| `BlasOps`, `SolverOps`, `TransformOps`, `CollectiveOps` | each routine as the sequence of its steps | The order of the checks and of the unwraps is the code's; arguments and numbers are left out. |
| `CompiledOps` | the requests of `NvrtcActor` and the request sequences of the CUB families | Whether a kernel is in the cache of `CubActor` is a parameter; scratch buffers are left out. |
| `PyMethods` | each Python method, each task of `CubActor`, and the direct call from Rust | Which requests it makes one after the other, whether it checks first, what its frame keeps while it waits for the last, whether its wait is bounded. The forms for different element types are one entry. |
| `KernelCalls` | runs any entry of `PyMethods`: caller, mailbox, handler, stream, completion tasks | A buffer is the set of those who hold its `Arc`. Each request of a call has work and a completion task of its own: the keep-alive of one may outlive the request for the next. |
| `PlanCaches` | the caches of `TensorActor` and `FftActor` | Hashes are taken to be free of collisions. |
| `Nvrtc` | actor, module map, in-memory and disk cache | A context is named by its generation; a file is an entry, torn, or missing. |
| `Orchestrators` | MoE, three trainers, replica pool, hot swap | One call record per request; the collecting task sees answers in the order in which the code awaits them. |
| `StagedRuns` | cascade, speculative decoding, node graph, pipeline | Outcomes of user code are arbitrary. |
| `Rag` | embedding cache, index, queries | An embedding is the text it was computed from. |
| `ParamServer` | parameter server and workers | Weights are their own history. |
| `MCPatterns` | one instance of each of the last six components | It extends all six. They share no state: each behaviour is of one of them, so state spaces add. |
| `DeviceProofs`, `SharedStateProofs`, `NcclWorldProofs`, `BatchingProofs`, `FairShareProofs`, `KernelCallsProofs` | theorems about the module each is named after | |
| `CompletionProofs` | theorems about `Completion` and `PinnedPool` | the two parts that lend memory to the GPU |
| `PatternProofs` | theorems about the six components of `MCPatterns` | |

## 3. Runs

Ten runs pass; all but the largest, `device_safety`, and `pinned` check safety and liveness
together under fairness:

| run | shows |
|---|---|
| `device_safety` | Three requests of any kind, two failures, a stop at any time: no use of a buffer in a foreign context, routing converges, stashed work keeps its order and is not stranded. 4.6 million states. |
| `device_liveness` | Two failures, one more than the retry budget, sticky faults and failing spawns among them: `Device` implements `DevicePromise`; every caller is answered, except one whose copy was on the GPU when its context faulted and one whose request is stashed after the `ContextActor` stopped for good; while both actors run the device recovers. |
| `nccl` | A world that counts as built is complete and not older than the last change it was told of; every all-reduce is answered. |
| `completion` | Ok means executed; a kernel that can still be observed keeps its buffers; every call is answered, except on a context that has faulted under a host function or a poll without a timeout. |
| `pinned` | Until a restart `in_use` is exact, the pool bounded, and a request that fits is refused only while every place is lent, on its way back or lost to a failed allocation. |
| `shared` | One writer, in order; as long as nobody has stopped waiting, whoever waits is served. |
| `batching` | The timer of a batch is due exactly when the batch is `max_wait` old; no response goes to the wrong caller unless `BatchFn` itself put it there; everyone is answered and timers end. |
| `fair` | Slots are counted exactly until the dispatcher panics, never idle, and a panic at most doubles the load; nobody is passed by a tenant that is ahead; everyone is answered. |
| `kernel_calls` | For every kind of call, in real and in mock mode: operands live while the kernel `run_kernel` launched is queued and an answer is true; every call returns and memory comes back, unless a task waits on a context that has faulted; through dropped handles, timeouts, a stopped actor, stale buffers, failing library calls and a context fault. |
| `patterns` | Orchestrators: Ok means every share of the work was done, and every request ends. Staged computations: stages in order, none left out. Retrieval: map, LRU order and size of the cache agree, a query uses its own embedding. Parameter server: staleness is bounded, and a worker is told the version its own gradient made. Plan caches: objects are neither leaked nor freed in use, and a launch has the plan its operation asks for. Runtime compiler: loaded code was compiled for the same source, options and version; a handle minted in its own context is not launched in another. |

Two runs end in a counterexample. Each states what a comment or document says
of the code; `PROJECT.json` quotes the line:

| run | what the counterexample shows |
|---|---|
| `nccl_stale` | A settled world can hold communicators of a context that is gone. |
| `unique_writer` | A caller with the only `GpuRef` to a buffer is refused when it wants to write: the request's own `GpuRef` holds the `Arc` a second time. No routine that unwraps an operand gets past this point. |

Further claims are stated in the modules (the definitions commented `Claim`) and
have no run of their own. TLC refutes each with the constants given, the others
being those of the module's passing run:

| claim | refuted with | what happens |
|---|---|---|
| `Device!SurvivesRebuild` | `MaxRequests = 3`, `PendingCapacity = 1`, `MaxRetries = 1`, `MaxFailures = 1`, `Faults = {"poison"}` | A copy queued ahead of the restart's `Init` meets `expect("ctx not ready")`; the untagged panic takes the device down. |
| `Device!AtomicSwap` | one request | The new generation is visible before its context (`context_actor.rs:264`). |
| `Device!UniqueWriterWrites` | two requests | A write to an unshared buffer is refused: the checked `GpuRef` holds the second `Arc` (`context_actor.rs:514`). |
| `NcclWorld!EventuallyBuilt` | `MaxFaults = 0`, `FairSpec` | If a context is not up after 50 ms the world is never built. |
| `Completion!KernelsKeepInputs` | one actor, stream and kernel, `Faults = {"mark", "timeout"}` | A timeout drops the buffers of a kernel that still runs (`envelope.rs:396`). |
| `PinnedPool!FreshPoolIsFresh` | `PoolFaults = {"restart"}`, `MaxFaults = 1` | The new pool takes back buffers of the old one: both have generation 0 (`pinned.rs:406`). |
| `PinnedPool!RefusedOnlyWhenFull` | `PoolFaults = {"alloc"}` | A failed allocation uses up a place of the pool (`pinned.rs:327`). |
| `PinnedPool!DropReturns` | `PoolFaults = {"restart"}` | After a restart dropped buffers are not returned (`pinned.rs:363`). |
| `KernelCalls!WritesRecorded` | as in `kernel_calls` | A kernel launched through `NvrtcActor`, and so every kernel of CUB, leaves no record of what it writes (`nvrtc.rs:766`); `README.md:278-280` and `docs/architecture.md:182-186` of the repository let readers on other streams rely on it. |
| `FairShare!AtMostMaxInFlight` | `MaxPanics = 1` | After a panic in the dispatcher more than `max_in_flight` requests run. |
| `FairShare!SharesByWeight` | six requests | A tenant that was idle takes several turns in a row from a heavier one that waits (`scheduler.rs:147`). |

Five liveness properties carry exceptions, each of which the code needs:

* `Completion!Answered`: on a context that has faulted the driver calls no host function
  (`host_fn.rs:87`), and a poll without a timeout (`poll.rs:82`) does not end either.
* `Device!Answered`: for the same reason a caller hangs whose copy was on the GPU when its
  context faulted (`LostOnGpu`). So does one whose request is stashed when the
  `ContextActor` has stopped for good, which the `DeviceActor` does not learn
  (`StashedForGood`, `device_actor.rs:747`).
* `KernelCalls!EveryCallReturns` and `MemoryReturns`: a task on a faulted context waits for
  ever and keeps its operands (`Stuck`).
* `SharedState!Served`: everybody waits for a token that was given to an agent that had
  stopped waiting.

### Limits of the code that the models show

These are modelled as the code has them; no document promises otherwise, or the
properties above are stated so as to hold beside them.

* `nvrtc.rs:662`: the generation of a `KernelHandle` is read when the compilation ends.
  If the context was replaced meanwhile, the handle carries the new generation with a
  module of the old context, and passes the check of `handle_launch`.
  `SettledHandles` speaks of the other handles.
* `nvrtc.rs:589`: the module map of `NvrtcActor` is keyed by the hash of the source alone, so
  a second `Compile` of it with other options is given the first one's module.
  `LoadedIsOwn` speaks of the code that is loaded into a context, not of this hit.
* `fft.rs:148`: `fft_exec` with a key of `plan_many` builds a simple plan. The keys of
  the tensor operations leave out the strides; no request gets that far, since
  the output is never unwrapped.
* A launch of a compiled kernel records no write (`nvrtc.rs:766`): it does not know which arguments
  are written, so `last_write_stream` says nothing of them, nor of any result of CUB. This
  is the claim `WritesRecorded` above.
* The operands of a kernel whose completion failed are dropped whether it has run or not
  (`envelope.rs:398`), and those of a collective when it is queued. `HeldWhileQueued` speaks of the
  other kernels.
* `flush` can tell too few or too many results, not results in the wrong order
  (`batching.rs:115`). `OwnResponse` excepts the requests that `BatchFn` itself misplaced.
* The kernel cache of `CubActor` is not emptied after a rebuild (`cub/dispatch.rs:49`): a handle of the old
  generation is found again, and every launch with it is refused as stale. An error between the
  passes of a scan leaves the output half done.
* `MoeRouter` without experts panics in its task and the caller sees a closed
  channel. `LeastLoaded` of the replica pool counts dispatches, never completions.
* The cycle check of the node graph ignores edges to nodes that were never added.
* `EmbeddingCache` with capacity 0 holds one entry; a query that embedded before an
  `Invalidate` inserts after it.
* A restarted parameter server begins again with version 0, and `saturating_sub` then takes
  old gradients for fresh ones.
* `run_pipeline` supports one stage. `ModuleActor` replies to a launch before
  the kernel has ended.

### Bounds

Every bound is a constant (`Max...`, or the size of a set) in a guard; no state
constraint is used, and no symmetry.

* `Device`: three requests suffice for one that is stashed, one that overtakes
  it and one that finds the stash full, and for a buffer that is allocated, used and
  used again; two failures exceed a budget of `MaxRetries = 1` (3 in the code, which
  only changes how many failures it takes). Liveness and refinement are checked
  with two requests and two failures.
* `NcclWorld`: two devices are enough for one to be ready before the other and
  for a partial build; two faults for a loss during the rebuild after a loss.
* `Completion`: three actors on two streams make two of them share one; two kernels
  for one to be ahead of the other.
* `PinnedPool`: three clients compete for two buffers and one-shot buffers;
  `MaxLoad` bounds what is queued and lent, two faults allow a restart after a
  failed allocation.
* `SharedState`: three agents and five requests, so that an agent returns while
  another waits, and its old token is released again.
* `Batching`: five requests with `max_batch` up to 3 give two batches and a rest;
  `MaxWait = 2` lets stale timers fall before, at and after the age of a new batch.
* `FairShare`: weights 1 and 2, two slots and four requests of any tenant, so that
  both slots are taken while both tenants wait; one panic.
* `KernelCalls`: two calls and two buffers. The entries of `PyMethods` whose callers
  and handlers are the same but for the names of the operands behave alike, so one of each kind
  is run, alone; the bindings of operands to buffers include equal ones. One pair of
  calls shares the stream. A task of `CubActor` finds none of its kernels cached, or all; `MaxAsks` is the length of the longest entry, a scan
  with three kernels to compile.
* `Orchestrators`: two workers and two calls, so that one call meets the changes another
  leaves behind; batches of 0 and 3 items, the latter not divisible by the team.
  `StagedRuns`: all graphs of up to four edges on three nodes, one perhaps never
  added; a head of 2 and a tail of 0, which the code makes 1, so that four items fill both channels.
  `Rag`: capacity 1 and two texts evict each other, a third query comes back
  to an evicted text. `ParamServer`: two workers at staleness 1 and four gradients.
  `PlanCaches`: capacity 1, two launches and two plans, so that one is evicted in use.
  `Nvrtc`: two processes of different versions, two compilations, two generations.

Deadlock is not checked: clients may have nothing more to ask, and the systems
may then stop. In `PinnedPool` it is the bound that stops them: after a restart
nothing comes back, and `in_use` only grows.

### Fairness

Weak fairness of an actor's handlers (a scheduled actor with a message runs), of
tokio tasks, and of the GPU on what was enqueued as long as its context has not faulted:
after that nothing is executed and no host function called (`CompletionDue`). `Batching` adds the clock,
`SharedState` that a writer ends its write, `FairShare` that the dispatcher answers or drops
the channel, `NcclWorld` that a device finishes a rebuild, `Orchestrators` that a worker
answers, or fails, as long as it is up. Clients, faults, stops and
timeouts are never obliged to happen.

## 4. Proofs

Every safety property that a passing run checks, the refinement and the action property
(`RefusedOnlyWhenTaken`) included, is also a theorem. The theorems hold for all values of the constants that satisfy
the assumptions of the module (`DeviceAssumption` and so on, one or more per module;
`Nvrtc` needs none), which TLC evaluates in the runs.
These give the constants their types, and a little more:

* `N` and `Streams` are not zero, as a world of no devices and an allocator of no streams
  cannot be made; nor is the capacity `Cap` of a plan cache, a `NonZeroUsize`.
* The unknown tenant is none of the tenants; `Scale` is a multiple of every weight, so
  that counting `vfinish` in units of `1/Scale` is exact.
* There is a worker, and a team lists different workers. The code does not check the latter;
  whoever puts an actor into a team twice is not covered by the theorem.
* The clients of the pinned pool and the calls of `KernelCalls` are finite sets, and so are
  the nodes and edges of a graph. An edge is added once.
* Of the tables of routines and methods, `KernelCalls` assumes their form: an
  entry makes at least one request, each in the table; a handler ends with the one step that
  answers or launches (`EndsOnce`); it unwraps only what `access` gave it (`TakesClones`); a launch keeps every
  operand alive that it uses, except a collective's, and was given each by `access` (`LaunchesSafely`); a mock
  never launches. TLC evaluates this for all tables; the proof uses nothing else of them.

The bounds of the runs are constants too, so a theorem speaks of any number of requests, failures and so on.
Every proof has the same shape: `Init => IInv`, one lemma per action or group of
actions for `IInv /\ [Next]_vars => IInv'`, and what `IInv` implies.

`DeviceProofs`:

* `TypeCorrect`: `TypeOK`.
* `OwnContext`: `RunsInOwnContext`. It is not inductive: `access` compares
  generations, the property speaks of contexts. `ContextInv` adds that a stream
  and a kernel actor, if any, belong to the current generation, and that while an
  `Init` waits in the mailbox there is neither (so nothing validates between the
  bump and the new stream); `RefInv` that a slice lives on the context of its
  generation token. Together, an accepted token means that slice and stream have the
  same context.
* `Convergence`: `ChildrenConverge`, inductive together with `TypeOK`: what the
  DeviceActor will believe after the news in its mailbox is the incarnation that
  is alive.
* `NothingStranded`: `NoStrandedWork`, likewise.

The second half of `DeviceProofs` follows the requests. Its `RInv` says that every request a caller waits
for is in exactly one place (a mailbox, the stash, or running on the stream,
`PlaceInv`), that a request reaches the GPU only when it is handled (`FreshInv`), that
every queue is in order (`LineInv`), and that the `ContextActor`'s mailbox is ahead of
the stash and the stash ahead of the `DeviceActor`'s mailbox (`AheadInv`). The last
needs `NoStrandedWork`: a message may pass the stash by only if the stash is empty.

* `ArriveInOrder`: `InOrder`, from `LineInv` and `AheadInv`.
* `Implementation`: `Spec => KeepsPromise`, the refinement of `DevicePromise`. The mapping
  is the one the run checks. Each step of the actors is shown to admit one
  request, or to answer some, or to shut down, or to change nothing that callers see; that
  an answer is the only one, and follows the admission, is what `PlaceInv` and
  `FreshInv` are for.

`SharedStateProofs`:

* `MutualExclusion`: `OneWriter`. The inductive invariant `IInv` says that the
  token held is the latest (`HeldInv`), that agents have tokens issued so far, each of
  one owner (`TokenInv`, `OwnerInv`), that a writer has the token held (`WriterInv`),
  and that no release on its way matches the token of a writer (`ReleaseInv`).
  Without the last, a stale release could end somebody else's write.
* `InOrderOfRequests`: `Fifo`. It speaks of agents; what keeps it is the order of the
  messages between them. `FInv` says that the waiters are ahead of the mailbox and both are in
  order (`OrderInv`), that an agent that waits has its request in one of them
  (`PresentInv`), and that a writer asked before all of them (`FirstInv`).

`CompletionProofs`:

* `OkMeansExecuted`: `OkIsExecuted`. The answer is given when a mark is gone from the
  stream, so the invariant is about streams: a mark is behind its kernel (`MarkInv`) because an
  actor puts both on the same stream (`PlaceInv`), and an awaited kernel ran or its mark is
  still there (`AwaitingInv`).
* `InputsOutliveKernel`: `HeldUntilComplete`, from the same invariant and `TaskInv`.
* `InUseIsExact`: `InUseExact` of `PinnedPool`. It compares a counter with handles, messages and a
  channel, so `LendingInv` counts: `Balance` relates `in_use`, `total_minted` and the free list to the
  number of handles that are out, of returns in the mailbox and of returns in the channel. That each
  step moves exactly one of them needs that a client in the mailbox holds nothing and is there
  once (`Asking`), and that before a restart every return is of the current generation and every
  handle leads to the pump (`FirstGeneration`). `total_minted` counts all of these and the
  allocations that failed, exactly.
* `RefusedOnlyWhenTakenHolds`: `RefusedOnlyWhenTaken`, from that equality: at a refusal the free list is
  empty and `total_minted` has reached `max_buffers`.

`NcclWorldProofs`:

* `WorldComplete`, `WorldFresh`: `BuiltIsComplete` and `BuiltSinceLastChange`. A build is several
  steps, so `BuildInv` says what it has gathered: only while there is no world,
  and only live contexts.

`BatchingProofs`:

* `TypeCorrect`: `TypeOK`, which also ties the age of the batch to its requests.
* `NoBatchForgotten`: `WakeUpDue`.
* `OwnResponseOnly`: `OwnResponse`. It needs that a request is once in the mailbox or once
  in the batch and has no answer there (`QueuedInv`, `BatchInv`): a batch is answered as a whole, so a
  response reaches another request only where `BatchFn` put it.

`FairShareProofs`:

* `NeverIdle`: `WorkConserving`. `LeadBounded`: `LagBounded`, with `PassedInv` (nobody has
  passed a tenant that does not wait).
* `SlotsExact`: `InFlightExact`. `CountInv` relates `in_flight` to the cardinality of the
  busy requests and of the `Finished` messages, and lets every panic forget `MaxInFlight`
  of them. That a step changes a cardinality by one needs `QueueInv` and `MailInv`: a
  request is in one queue, once.

`PatternProofs`:

* `LoadsItsOwn`: `LoadedIsOwn` of `Nvrtc`. `CompilerInv` says that a file holds nothing, is torn,
  or is an entry, of whatever version, for the program it is named after (`FilesInv`): renames and
  truncations by other writers do not change that. An in-memory map holds entries of its
  own version (`MemoryInv`), and from its compilation on a job has its own entry, not what it
  published (`PtxInv`).
* `StaleHandlesRefused`: `SettledHandles` of `Nvrtc`, from `ActorInv`: a running actor has the
  context of the current generation.
* `GradientsFresh`: `StalenessBounded` of `ParamServer`. The version counts the gradients applied (`VersionInv`), and the
  version in a message or at a worker is that of the weights it has (`MailboxInv`, `LocalInv`). What a worker is told
  after a push is the place of its gradient in the history.

* `PlansAccountedFor`: `PlansAccounted` of `PlanCaches`. `PlanInv` says that a plan is cached by its own
  actor and once (`CachedInv`), that a plan under construction is nobody's yet and has exactly the objects
  of the rungs it has climbed (`BuildInv`), and that what exists belongs to a plan somebody holds,
  and a plan somebody holds is complete (`ObjectsInv`, `HeldInv`). An eviction keeps this because a
  plan is dropped only when neither the cache nor a launch has it.
* `OkMeansAllDone`: `OkMeansAll` of `Orchestrators`. `CallOk` says what a request has been through: the collecting loop
  has had Ok from every ask before the one it waits for, and the asks have the shape the request calls for
  (`Shape`; that `split_batch` and the chunks of equal length give every sample to one
  worker are lemmas about integer division). `MessagesOk` ties the messages in the mailboxes to unanswered asks, so
  that a worker's answer never goes to another ask.
* `CacheStaysHonest`: `CacheHonest` of `Rag`. Map and size are functions of the LRU order, which has no key twice
  (`CacheInv`); a message, however late it is handled, has the text of its query, and an insert the embedding of
  that text (`BoxInv`).
* `StagesKeptInOrder`: `StagesInOrder` of `StagedRuns`. For the node graph the invariant is that of Kahn's algorithm:
  degrees count the edges from nodes not yet visited, only nodes without such an edge are queued, and the
  order so far has no repetition and no node before a predecessor (`Sorting`); the run follows that
  order (`Followed`). For the pipeline, received results, tail channel, item in the pipeline and head channel
  are together the submitted items in order (`InLine`), as long as somebody receives.

`KernelCallsProofs`, for any entries in any number of calls:

* `HeldWhileQueuedHolds`: `HeldWhileQueued`. `HandlerInv` says what a handler at step `pc` has done: its
  accesses gave it clones, and it is past no unwrapping. `WorkInv` says
  of each request's work that what is awaited keeps its operands, and that what an earlier request of the
  call launched has run.
* `AnswerIsTrueHolds`: `AnswerIsTrue`, from `ReplyInv` (the channel says Ok only after the completion) and `CallerInv`.
* `UnwrapNeverSucceeds`: in every handler, at every unwrapping, the buffer has at least two owners,
  the request and the clone. It explains `unique_writer`: the refusal is not a race but the rule.

Two proofs that failed led to corrections. In `FairShare!DispatchPanics` the
arms of a `CASE` overlapped, so the formula did not determine which was meant; TLC
had silently taken the first. It is an `IF` now, as in `Orchestrators!Got`. And where a node of a
graph had several successors to queue, `SetToSeq` fixed their
order with a `CHOOSE`, while the code takes the order in which the edges were added; it is a choice of the step now, so that the theorem covers every order.

Only model-checked is liveness (`Answered` of `Device`, `Completion`, `Batching` and `FairShare`, `Recovers`,
`Served`, `TimersEnd`, `AllReduceAnswered`, `EveryCallReturns`, `MemoryReturns`, `EveryRequestAnswered`): the
prover has no rules for fairness and `ENABLED`.

## 5. Not modelled

* Numerics, kernels, FFI and the arithmetic of arguments: no protocol, or data far
  beyond a model checker.
* `P2pTopology`: a loop of driver calls, and a refresh with the race that
  `nccl_stale` shows. `PlacementActor`: a choice among the last load reports. Graphs, events,
  managed memory, the replay journal, Hopper descriptors: thin layers over
  driver objects. CUTLASS, FlashAttention and TensorRT: kernel selection behind
  the envelope that `KernelCalls` models. Telemetry, real-time kernels, build tasks: no
  protocol.
* Messages that only read (`Stats` of the patterns, `Snapshot` of the coordinator) and the
  counters they report.
* Mock mode of the device, and kernel children other than `BlasActor` in `Device`: they
  are spawned, told and stopped in the same way.
* Python constructors, getters and the bindings of patterns, training, agents and CUB.
* The growth of sleeping timers in `DynamicBatchingServer` under steady load
  (`batching.rs:187`): a property of unbounded runs.

## 6. Plan

No safety property of a passing run is left to prove. What could follow:

1. Models of `P2pTopology` and `PlacementActor`, should they come to hold more state than
   they do, and of the bindings of patterns, training and agents in Python.
2. Theorems about what holds after a restart of `PinnedBufferPool`, should its generation be made
   to survive one (`pinned.rs:406`): `FreshPoolIsFresh` would then be the property to prove.
