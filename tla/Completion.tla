----------------------------- MODULE Completion -----------------------------
(***************************************************************************)
(* run_kernel, the body every kernel actor shares: enqueue on the actor's   *)
(* stream, then a task that awaits the CompletionStrategy, sends the reply  *)
(* and only then drops the keep-alive (the Arcs to the kernel's buffers).   *)
(*                                                                          *)
(* A stream is a FIFO of kernels and marks.  A mark is the host function of *)
(* HostFnCompletion, the event of PolledCompletion or the point            *)
(* SyncCompletion blocks at; it fires when everything ahead of it is done.  *)
(***************************************************************************)
EXTENDS Naturals, Sequences

CONSTANTS
    Actors,      \* number of kernel actors
    Streams,     \* number of streams the allocator may use
    Ops,         \* number of run_kernel calls (a bound)
    Strategies,  \* subset of {"hostfn", "polled", "unbounded", "sync"}
    Allocators,  \* subset of {"single", "pooled"}
    Faults       \* subset of {"enqueue", "mark", "timeout", "poison"}

ASSUME CompletionAssumption ==
    /\ Actors \in Nat
    /\ Streams \in Nat \ {0}
    /\ Ops \in Nat
    /\ Strategies \subseteq {"hostfn", "polled", "unbounded", "sync"}
    /\ Allocators \subseteq {"single", "pooled"}
    /\ Faults \subseteq {"enqueue", "mark", "timeout", "poison"}

VARIABLES
    strategy,    \* the CompletionStrategy of the device
    allocator,   \* its StreamAllocator
    cursor,      \* PooledAllocator::cursor
    streamOf,    \* per actor: its stream, 0 before it starts
    actorOf,     \* per op: the actor that handles it, 0 before that
    stage,       \* per op: how far run_kernel and its task are
    held,        \* per op: the keep-alive exists
    reply,       \* per op: what was sent on the oneshot
    queue,       \* per stream: kernels and marks not yet reached by the GPU
    executed,    \* ops whose kernel ran to its end
    poisoned     \* a kernel has faulted, no call on the context succeeds

vars == <<strategy, allocator, cursor, streamOf, actorOf, stage, held, reply,
          queue, executed, poisoned>>
config == <<strategy, allocator>>

-----------------------------------------------------------------------------
Op == 1..Ops
Stream == 1..Streams
Actor == 1..Actors

Kernel(o) == [type |-> "kernel", op |-> o]
Mark(o)   == [type |-> "mark", op |-> o]
Entries   == [type : {"kernel", "mark"}, op : Op]
Queued(e) == \E s \in Stream : \E i \in 1..Len(queue[s]) : queue[s][i] = e

Errors  == {"driver", "library", "stale", "unrecoverable", "timeout"}
Replies == {"none", "ok"} \cup Errors

Init ==
    /\ strategy \in Strategies
    /\ allocator \in Allocators
    /\ cursor = 0
    /\ streamOf = [a \in Actor |-> 0]
    /\ actorOf = [o \in Op |-> 0]
    /\ stage = [o \in Op |-> "unused"]
    /\ held = [o \in Op |-> FALSE]
    /\ reply = [o \in Op |-> "none"]
    /\ queue = [s \in Stream |-> <<>>]
    /\ executed = {}
    /\ poisoned = FALSE

-----------------------------------------------------------------------------
(* Streams *)

\* PooledAllocator::acquire
PooledStream == (cursor % Streams) + 1

\* StreamAllocator::acquire; PerActorAllocator is a pool that is large enough.
Acquire(a) ==
    /\ streamOf[a] = 0
    /\ \/ /\ allocator = "single"
          /\ streamOf' = [streamOf EXCEPT ![a] = 1]
          /\ UNCHANGED cursor
       \/ /\ allocator = "pooled"
          /\ streamOf' = [streamOf EXCEPT ![a] = PooledStream]
          /\ cursor' = cursor + 1
    /\ UNCHANGED <<config, actorOf, stage, held, reply, queue, executed, poisoned>>

\* Mutant of MarkStream: completion is awaited on the default stream.
DefaultStream(o) == 1

MarkStream(o) == streamOf[actorOf[o]]

Push(s, e) == queue' = [queue EXCEPT ![s] = Append(@, e)]

-----------------------------------------------------------------------------
(* run_kernel, on the actor *)

\* The actor is inside run_kernel: HostFnCompletion registers its callback
\* in the call, the other strategies act in the spawned task.
Busy(a) ==
    \E o \in Op : actorOf[o] = a /\ stage[o] = "enqueued" /\ strategy = "hostfn"

\* annotate_error
Annotate(e) == IF e = "driver" THEN "library" ELSE e

IsNext(o) == stage[o] = "unused" /\ \A p \in 1..(o - 1) : stage[p] # "unused"

\* Mutant of KeepAlive: the owners are dropped when run_kernel returns.
DropsKeepAlive == FALSE

\* What enqueue() returned is moved into the task.
KeepAlive == TRUE

Enqueue(o, a) ==
    /\ IsNext(o)
    /\ streamOf[a] # 0 /\ ~Busy(a)
    /\ ~poisoned
    /\ actorOf' = [actorOf EXCEPT ![o] = a]
    /\ stage' = [stage EXCEPT ![o] = "enqueued"]
    /\ held' = [held EXCEPT ![o] = KeepAlive]
    /\ Push(streamOf[a], Kernel(o))
    /\ UNCHANGED <<config, cursor, streamOf, reply, executed, poisoned>>

\* Mutant of EnqueueReply: an error path that returns without a reply.
NoReply(e) == "none"

EnqueueReply(e) == Annotate(e)

\* enqueue() returns Err, an untyped or a typed one: nothing is on the stream, no task is spawned.
EnqueueFails(o, a) ==
    /\ IsNext(o)
    /\ streamOf[a] # 0 /\ ~Busy(a)
    /\ "enqueue" \in Faults \/ poisoned
    /\ actorOf' = [actorOf EXCEPT ![o] = a]
    /\ stage' = [stage EXCEPT ![o] = "released"]
    /\ \E e \in {"driver", "stale"} :
          reply' = [reply EXCEPT ![o] = EnqueueReply(e)]
    /\ UNCHANGED <<config, cursor, streamOf, held, queue, executed, poisoned>>

-----------------------------------------------------------------------------
(* await_completion *)

\* launch_host_function, record_event or synchronize is entered.
Register(o) ==
    /\ stage[o] = "enqueued"
    /\ ~poisoned
    /\ stage' = [stage EXCEPT ![o] = "awaiting"]
    /\ Push(MarkStream(o), Mark(o))
    /\ UNCHANGED <<config, cursor, streamOf, actorOf, held, reply, executed, poisoned>>

\* The call itself fails, and the future is an error at once.
RegisterError ==
    CASE strategy = "hostfn" -> {"driver"}
      [] strategy \in {"polled", "unbounded"} -> {"library", "unrecoverable"}
      [] strategy = "sync"   -> {"driver"}

Send(o, r) ==
    /\ reply' = [reply EXCEPT ![o] = r]
    /\ stage' = [stage EXCEPT ![o] = "replied"]
    /\ UNCHANGED <<config, cursor, streamOf, actorOf, held, queue, executed, poisoned>>

RegisterFails(o) ==
    /\ stage[o] = "enqueued"
    /\ "mark" \in Faults \/ poisoned
    /\ \E r \in RegisterError : Send(o, r)

\* The mark has fired: the callback ran, is_complete() or synchronize() is Ok.
Completes(o) ==
    /\ stage[o] = "awaiting"
    /\ ~Queued(Mark(o)) /\ ~poisoned
    /\ Send(o, "ok")

\* PolledCompletion gives up after `timeout`, 300 s by default; without one, the
\* strategy "unbounded", it polls for ever.
TimesOut(o) ==
    /\ "timeout" \in Faults \/ poisoned
    /\ strategy = "polled"
    /\ stage[o] = "awaiting"
    /\ Queued(Mark(o)) \/ poisoned
    /\ Send(o, "timeout")

\* synchronize() reports the fault.  A host function is never called on a
\* faulted context, and nobody drops its sender.
SyncFails(o) ==
    /\ strategy = "sync" /\ poisoned
    /\ stage[o] = "awaiting"
    /\ Send(o, "driver")

\* The task's last statement.
Release(o) ==
    /\ stage[o] = "replied"
    /\ stage' = [stage EXCEPT ![o] = "released"]
    /\ held' = [held EXCEPT ![o] = FALSE]
    /\ UNCHANGED <<config, cursor, streamOf, actorOf, reply, queue, executed, poisoned>>

-----------------------------------------------------------------------------
(* The GPU *)

Run(s) ==
    /\ queue[s] # <<>> /\ ~poisoned
    /\ queue' = [queue EXCEPT ![s] = Tail(@)]
    /\ executed' = executed \cup
          (IF Head(queue[s]).type = "kernel" THEN {Head(queue[s]).op} ELSE {})
    /\ UNCHANGED <<config, cursor, streamOf, actorOf, stage, held, reply, poisoned>>

\* A kernel faults; everything on the context's streams is abandoned.
Poison(s) ==
    /\ "poison" \in Faults
    /\ queue[s] # <<>> /\ Head(queue[s]).type = "kernel" /\ ~poisoned
    /\ poisoned' = TRUE
    /\ queue' = [t \in Stream |-> <<>>]
    /\ UNCHANGED <<config, cursor, streamOf, actorOf, stage, held, reply, executed>>

-----------------------------------------------------------------------------
TaskStep(o) ==
    \/ Register(o)
    \/ RegisterFails(o)
    \/ Completes(o)
    \/ TimesOut(o)
    \/ SyncFails(o)
    \/ Release(o)

Next ==
    \/ \E a \in Actor : Acquire(a)
    \/ \E o \in Op, a \in Actor : Enqueue(o, a) \/ EnqueueFails(o, a)
    \/ \E o \in Op : TaskStep(o)
    \/ \E s \in Stream : Run(s) \/ Poison(s)

Spec == Init /\ [][Next]_vars

\* tokio polls every task, the GPU makes progress on every stream.
Fairness ==
    /\ \A o \in Op : WF_vars(TaskStep(o))
    /\ \A s \in Stream : WF_vars(Run(s))

FairSpec == Spec /\ Fairness

-----------------------------------------------------------------------------
(* Properties *)

\* Every variable has its type.
TypeOK ==
    /\ strategy \in Strategies /\ allocator \in Allocators
    /\ cursor \in Nat
    /\ streamOf \in [Actor -> 0..Streams]
    /\ actorOf \in [Op -> 0..Actors]
    /\ stage \in [Op -> {"unused", "enqueued", "awaiting", "replied", "released"}]
    /\ held \in [Op -> BOOLEAN]
    /\ reply \in [Op -> Replies]
    /\ queue \in [Stream -> Seq(Entries)]
    /\ executed \subseteq Op
    /\ poisoned \in BOOLEAN

\* A caller is told Ok only of a kernel that ran to its end, also when actors
\* share a stream and the mark is set after other actors' kernels.
OkIsExecuted == \A o \in Op : reply[o] = "ok" => o \in executed

\* The envelope keeps a kernel's buffers while the kernel is on its stream,
\* unless its completion could not be observed.
HeldUntilComplete ==
    \A o \in Op : Queued(Kernel(o)) /\ reply[o] \in {"none", "ok"} => held[o]

\* Every run_kernel call is answered, whichever step of it fails.  The one
\* exception is a faulted context, under HostFnCompletion, which drops the
\* callbacks it holds without calling them, or under a PolledCompletion without
\* a timeout, whose event is never reached.
Answered ==
    \A o \in Op :
        stage[o] # "unused" ~> (reply[o] # "none" \/ (poisoned /\ strategy \in {"hostfn", "unbounded"}))

\* Claim: the owners are dropped only after completion, so that the kernel
\* can't outlive its inputs.
KernelsKeepInputs == \A o \in Op : Queued(Kernel(o)) => held[o]

=============================================================================
