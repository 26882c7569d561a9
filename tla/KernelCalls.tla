---------------------------- MODULE KernelCalls ----------------------------
(***************************************************************************)
(* What becomes of a call to a kernel library: from the caller (a Python    *)
(* method or Rust code holding an ActorRef), through the mailbox and the    *)
(* handler of the library's actor, the stream, the completion task and back *)
(* over the oneshot channels.                                               *)
(*                                                                          *)
(* The handlers are the step sequences of BlasOps, SolverOps, TransformOps, *)
(* CollectiveOps and CompiledOps, the callers those of PyMethods; this      *)
(* module runs any of them.  A caller may make several requests, one after  *)
(* the other: work <<c, i>> is what the i-th request of call c launches.    *)
(*                                                                          *)
(* The properties are about the buffers: who holds an Arc of the device     *)
(* memory at every moment, and what an answer says about the work on the    *)
(* stream.                                                                  *)
(***************************************************************************)
EXTENDS PyMethods, SequencesExt

CONSTANTS Calls,      \* calls a behaviour may make
          Buffers,    \* device buffers
          Workloads,  \* functions from Calls to entries, or "idle"
          MaxAsks     \* most requests an entry makes

ASSUME CallsAssumption == IsFiniteSet(Calls)
ASSUME MaxAsksAssumption == MaxAsks \in Nat \ {0}

\* A call runs one of the entries, or nothing.
ASSUME WorkloadsAssumption == Workloads \subseteq [Calls -> DOMAIN Entries \cup {"idle"}]

\* An entry asks for one thing after the other; a scan with three kernels to
\* compile makes most requests.  The callers of the collectives make one.
ASSUME AsksAssumption ==
    \A e \in DOMAIN Entries :
        LET asks == Entries[e].asks IN
        /\ Len(asks) \in 1 .. MaxAsks
        /\ \A i \in 1 .. Len(asks) :
            /\ asks[i] \in DOMAIN Requests
            /\ Requests[asks[i]].lib = "nccl" => Len(asks) = 1

\* A handler ends with the step that answers or leaves the answer to a task,
\* and has no such step before.
EndsOnce(prog) ==
    /\ Len(prog) \in Nat \ {0}
    /\ \A i \in 1 .. Len(prog) :
        prog[i].do \in {"launch", "answer", "refuse", "hangup"} <=> i = Len(prog)

\* A handler unwraps only operands of its request, after it has cloned their Arc.
TakesClones(prog, refs) ==
    \A i \in 1 .. Len(prog) : prog[i].do = "take" =>
        /\ prog[i].on \in refs
        /\ \E j \in 1 .. Len(prog) : j < i /\ prog[j].do = "access" /\ prog[j].on = prog[i].on

\* A handler that launches has accessed every operand of its kernel and names it
\* in the keep-alive; only the collectives are answered when they are queued.
LaunchesSafely(request) ==
    LET prog == request.prog
        launch == prog[Len(prog)]
    IN  launch.do = "launch" =>
            IF launch.then = "reply" THEN request.lib = "nccl"
            ELSE \A o \in launch.uses :
                    /\ o \in launch.keep
                    /\ \E i \in 1 .. Len(prog) : prog[i].do = "access" /\ prog[i].on = o

\* What the tables of handlers have in common.  A mock never launches, and says
\* Ok to nothing that the real handler would launch.
ASSUME HandlersAssumption ==
    \A r \in DOMAIN Requests :
        LET request == Requests[r] IN
        /\ EndsOnce(request.prog) /\ EndsOnce(request.mock)
        /\ TakesClones(request.prog, request.refs) /\ TakesClones(request.mock, request.refs)
        /\ LaunchesSafely(request)
        /\ request.mock[Len(request.mock)].do # "launch"
        /\ request.prog[Len(request.prog)].do = "launch" => request.mock[Len(request.mock)].do # "answer"

VARIABLES
    mode,      \* "real" or "mock": how the actors were spawned
    current,   \* the buffers' generation is the device's
    alive,     \* the actors run
    faulted,   \* a kernel has faulted: the context executes nothing any more
    handle,    \* handle[b]: the caller still has its GpuRef to b
    recorded,  \* buffers with a last_write_stream
    entry,     \* the entry a call runs
    bind,      \* the buffer behind each operand
    caller,    \* "idle", "waiting" or "done"
    result,    \* what the caller got
    ask,       \* which of the entry's requests is outstanding
    msg,       \* where that request is: "none", "mailbox", "handling", "gone"
    pc,        \* the handler's next step
    arcs,      \* arcs[w]: operands whose Arc<CudaSlice> the handler or the task has a clone of
    reply,     \* the request's oneshot channel
    task,      \* task[w], the completion task: "none", "awaiting", "answered", "failed", "over"
    kernel,    \* kernel[w], the launched work: "none", "queued", "executed"
    stream     \* the work that is queued, oldest first

envVars  == <<mode, current, alive, faulted>>
callVars == <<entry, bind, caller, result, ask>>
workVars == <<task, kernel, stream>>
vars == <<envVars, handle, recorded, callVars, msg, pc, arcs, reply, workVars>>

-----------------------------------------------------------------------------
Works == Calls \X (1 .. MaxAsks)

\* The work of the outstanding request.
Work(c) == <<c, ask[c]>>

EntryOf(c)   == Entries[entry[c]]
RequestOf(c) == Requests[EntryOf(c).asks[ask[c]]]
Program(c)   == IF mode = "mock" THEN RequestOf(c).mock ELSE RequestOf(c).prog
StepOf(c)    == Program(c)[pc[c]]
Handling(c, do) == msg[c] = "handling" /\ StepOf(c).do = do

\* The buffers behind some operands of a call.
BufferSet(c, os) == {bind[c][o] : o \in os}

\* The launch that ends the handler of a request.
LaunchOf(w) == Last(Requests[EntryOf(w[1]).asks[w[2]]].prog)

\* The operands in the frame of a waiting caller: all of them until the last
\* request is sent.
Kept(c) ==
    IF EntryOf(c).holds \/ ask[c] < Len(EntryOf(c).asks)
    THEN DOMAIN bind[c] ELSE EntryOf(c).keeps

\* Some GpuRef to b exists: the caller's own, one in a waiting caller's frame,
\* or one that travels in a request.
Referenced(b) ==
    \/ handle[b]
    \/ \E c \in Calls :
        \/ caller[c] = "waiting" /\ b \in BufferSet(c, Kept(c))
        \/ msg[c] \in {"mailbox", "handling"} /\ b \in BufferSet(c, RequestOf(c).refs)

\* Clones of the Arc a GpuRef holds: one per operand of a handler or task.
Clones(b) == UNION {{<<w, o>> : o \in {p \in arcs[w] : bind[w[1]][p] = b}} : w \in Works}

\* Arc::strong_count of b's CudaSlice; the memory is freed when it is zero.
StrongCount(b) == Cardinality(Clones(b)) + (IF Referenced(b) THEN 1 ELSE 0)
Freed(b) == ~Referenced(b) /\ Clones(b) = {}

-----------------------------------------------------------------------------
Init ==
    /\ mode \in {"real", "mock"}
    /\ current = TRUE
    /\ alive = TRUE
    /\ faulted = FALSE
    /\ handle = [b \in Buffers |-> TRUE]
    /\ recorded = {}
    /\ entry \in Workloads
    /\ bind = [c \in Calls |-> <<>>]
    /\ caller = [c \in Calls |-> "idle"]
    /\ result = [c \in Calls |-> "none"]
    /\ ask = [c \in Calls |-> 1]
    /\ msg = [c \in Calls |-> "none"]
    /\ pc = [c \in Calls |-> 1]
    /\ arcs = [w \in Works |-> {}]
    /\ reply = [c \in Calls |-> "none"]
    /\ task = [w \in Works |-> "none"]
    /\ kernel = [w \in Works |-> "none"]
    /\ stream = <<>>

-----------------------------------------------------------------------------
(* The caller *)

\* ActorRef::tell: a stopped actor drops the request and its reply channel.
Tell(c) ==
    /\ msg' = [msg EXCEPT ![c] = IF alive THEN "mailbox" ELSE "gone"]
    /\ reply' = [reply EXCEPT ![c] = IF alive THEN "none" ELSE "dropped"]

\* Which buffers a caller may pass: all operands on one buffer, or one of
\* them on another.
Bindings(os, bs) ==
    IF os = {} THEN {<<>>}
    ELSE {[o \in os |-> IF o = p THEN b2 ELSE b1] : p \in os, b1 \in bs, b2 \in bs}

\* The operands are cloned and the first request is sent.
Submit(c) ==
    /\ caller[c] = "idle" /\ entry[c] # "idle"
    /\ \E f \in Bindings(EntryOperands[entry[c]], {b \in Buffers : handle[b]}) :
        bind' = [bind EXCEPT ![c] = f]
    /\ caller' = [caller EXCEPT ![c] = "waiting"]
    /\ Tell(c)
    /\ UNCHANGED <<envVars, handle, recorded, entry, result, ask, pc, arcs, workVars>>

\* An option string, a length or a builder is refused before anything is sent.
RaiseArgument(c) ==
    /\ caller[c] = "idle" /\ entry[c] # "idle"
    /\ EntryOf(c).checks
    /\ caller' = [caller EXCEPT ![c] = "done"]
    /\ result' = [result EXCEPT ![c] = "argument"]
    /\ UNCHANGED <<envVars, handle, recorded, entry, bind, ask, msg, pc, arcs, reply, workVars>>

More(c) == reply[c] = "ok" /\ ask[c] < Len(EntryOf(c).asks)

\* The method goes on with its next request; the completion task of the one
\* before may not have dropped its keep-alive yet.
AskNext(c) ==
    /\ caller[c] = "waiting" /\ More(c)
    /\ ask' = [ask EXCEPT ![c] = @ + 1]
    /\ pc' = [pc EXCEPT ![c] = 1]
    /\ Tell(c)
    /\ UNCHANGED <<envVars, handle, recorded, entry, bind, caller, result, arcs, workVars>>

\* The method returns what the last request said; the first error ends it.
Deliver(c) ==
    /\ caller[c] = "waiting" /\ reply[c] # "none" /\ ~More(c)
    /\ caller' = [caller EXCEPT ![c] = "done"]
    /\ result' = [result EXCEPT ![c] = reply[c]]
    /\ UNCHANGED <<envVars, handle, recorded, entry, bind, ask, msg, pc, arcs, reply, workVars>>

\* The Python methods wait with a timeout, and a cancelled coroutine stops
\* waiting: either way the request goes on without its caller.
GiveUp(c) ==
    /\ caller[c] = "waiting" /\ EntryOf(c).bounded
    /\ caller' = [caller EXCEPT ![c] = "done"]
    /\ result' = [result EXCEPT ![c] = "timeout"]
    /\ UNCHANGED <<envVars, handle, recorded, entry, bind, ask, msg, pc, arcs, reply, workVars>>

\* The caller drops its own GpuRef.
DropHandle(b) ==
    /\ handle[b]
    /\ handle' = [handle EXCEPT ![b] = FALSE]
    /\ UNCHANGED <<envVars, recorded, callVars, msg, pc, arcs, reply, workVars>>

-----------------------------------------------------------------------------
(* The actor *)

\* One message at a time for each library.
Receive(c) ==
    /\ msg[c] = "mailbox"
    /\ \A d \in Calls : msg[d] = "handling" => RequestOf(d).lib # RequestOf(c).lib
    /\ msg' = [msg EXCEPT ![c] = "handling"]
    /\ UNCHANGED <<envVars, handle, recorded, callVars, pc, arcs, reply, workVars>>

\* The handler returns: what it still owns is dropped.
Return(c, r) ==
    /\ msg' = [msg EXCEPT ![c] = "gone"]
    /\ reply' = [reply EXCEPT ![c] = r]
    /\ arcs' = [arcs EXCEPT ![Work(c)] = {}]
    /\ UNCHANGED pc

GoOn(c) ==
    /\ pc' = [pc EXCEPT ![c] = @ + 1]
    /\ UNCHANGED <<msg, reply>>

\* GpuRef::access: stale once the generation has moved on.
AccessStep(c) ==
    /\ Handling(c, "access")
    /\ IF current
       THEN GoOn(c) /\ arcs' = [arcs EXCEPT ![Work(c)] = @ \cup {StepOf(c).on}]
       ELSE Return(c, "err")
    /\ UNCHANGED <<envVars, handle, recorded, callVars, workVars>>

\* Arc::try_unwrap
TakeStep(c) ==
    /\ Handling(c, "take")
    /\ IF StrongCount(bind[c][StepOf(c).on]) = 1
       THEN GoOn(c) /\ UNCHANGED arcs
       ELSE Return(c, "err")
    /\ UNCHANGED <<envVars, handle, recorded, callVars, workVars>>

PrepareStep(c) ==
    /\ Handling(c, "prepare")
    /\ \/ GoOn(c) /\ UNCHANGED arcs
       \/ Return(c, "err")
    /\ UNCHANGED <<envVars, handle, recorded, callVars, workVars>>

RecordStep(c) ==
    /\ Handling(c, "record")
    /\ recorded' = recorded \cup {bind[c][StepOf(c).on]}
    /\ GoOn(c)
    /\ UNCHANGED <<envVars, handle, callVars, arcs, workVars>>

\* The steps that only answer.
FinalReply(do) ==
    CASE do = "answer" -> "ok" [] do = "refuse" -> "err" [] do = "hangup" -> "dropped"

AnswerStep(c) ==
    /\ \E do \in {"answer", "refuse", "hangup"} :
        Handling(c, do) /\ Return(c, FinalReply(do))
    /\ UNCHANGED <<envVars, handle, recorded, callVars, workVars>>

\* Mutant of LaunchStep: the operands are dropped with the closure.
LaunchStepKeepsNothing(c) ==
    /\ Handling(c, "launch")
    /\ LET l == StepOf(c) IN
        /\ reply' = [reply EXCEPT ![c] = IF l.then = "reply" THEN "ok" ELSE "none"]
        /\ arcs' = [arcs EXCEPT ![Work(c)] = {}]
        /\ task' = [task EXCEPT ![Work(c)] = IF l.then = "reply" THEN "over" ELSE "awaiting"]
    /\ msg' = [msg EXCEPT ![c] = "gone"]
    /\ kernel' = [kernel EXCEPT ![Work(c)] = "queued"]
    /\ stream' = Append(stream, Work(c))
    /\ UNCHANGED <<envVars, handle, recorded, callVars, pc>>

\* Mutant of LaunchStep: nobody looks at what cuLaunchHostFunc returned, and the
\* sender it was given is never called.
LaunchStepUnchecked(c) ==
    /\ Handling(c, "launch")
    /\ LET l == StepOf(c) IN
        /\ reply' = [reply EXCEPT ![c] = IF l.then = "reply" THEN "ok" ELSE "none"]
        /\ arcs' = [arcs EXCEPT ![Work(c)] = @ \cap l.keep]
        /\ \E t \in {"awaiting", "unregistered"} :
            task' = [task EXCEPT ![Work(c)] = IF l.then = "reply" THEN "over" ELSE t]
    /\ msg' = [msg EXCEPT ![c] = "gone"]
    /\ kernel' = [kernel EXCEPT ![Work(c)] = "queued"]
    /\ stream' = Append(stream, Work(c))
    /\ UNCHANGED <<envVars, handle, recorded, callVars, pc>>

\* The enqueue closure runs in the handler.  With run_kernel the clones of its
\* operands move into the task that waits for the stream.  A launch may be accepted
\* on a context that has faulted.
LaunchStep(c) ==
    /\ Handling(c, "launch")
    /\ LET l == StepOf(c) IN
        /\ reply' = [reply EXCEPT ![c] = IF l.then = "reply" THEN "ok" ELSE "none"]
        /\ arcs' = [arcs EXCEPT ![Work(c)] = @ \cap l.keep]
        /\ task' = [task EXCEPT ![Work(c)] = IF l.then = "reply" THEN "over" ELSE "awaiting"]
    /\ msg' = [msg EXCEPT ![c] = "gone"]
    /\ kernel' = [kernel EXCEPT ![Work(c)] = "queued"]
    /\ stream' = Append(stream, Work(c))
    /\ UNCHANGED <<envVars, handle, recorded, callVars, pc>>

\* The library refuses the launch: the error is sent, the closure's operands go.
LaunchFails(c) ==
    /\ Handling(c, "launch")
    /\ Return(c, "err")
    /\ UNCHANGED <<envVars, handle, recorded, callVars, workVars>>

-----------------------------------------------------------------------------
(* The device and the completion tasks *)

\* The device works a stream off in order.
Execute ==
    /\ stream # <<>> /\ ~faulted
    /\ kernel' = [kernel EXCEPT ![Head(stream)] = "executed"]
    /\ stream' = Tail(stream)
    /\ UNCHANGED <<envVars, handle, recorded, callVars, msg, pc, arcs, reply, task>>

\* Mutant of Complete: the task answers without waiting for the stream.
CompleteAtOnce(w) ==
    /\ task[w] = "awaiting"
    /\ task' = [task EXCEPT ![w] = "answered"]
    /\ reply' = [reply EXCEPT ![w[1]] = IF LaunchOf(w).then = "forward" THEN @ ELSE "ok"]
    /\ UNCHANGED <<envVars, handle, recorded, callVars, msg, pc, arcs, kernel, stream>>

\* await_completion resolves; a host result still has to be forwarded.
Complete(w) ==
    /\ task[w] = "awaiting" /\ kernel[w] = "executed"
    /\ task' = [task EXCEPT ![w] = "answered"]
    /\ reply' = [reply EXCEPT ![w[1]] = IF LaunchOf(w).then = "forward" THEN @ ELSE "ok"]
    /\ UNCHANGED <<envVars, handle, recorded, callVars, msg, pc, arcs, kernel, stream>>

\* await_completion fails, at any time.
CompleteFails(w) ==
    /\ task[w] = "awaiting"
    /\ task' = [task EXCEPT ![w] = "failed"]
    /\ reply' = [reply EXCEPT ![w[1]] = IF LaunchOf(w).then = "forward" THEN @ ELSE "err"]
    /\ UNCHANGED <<envVars, handle, recorded, callVars, msg, pc, arcs, kernel, stream>>

\* The second task of the routines with a host result; its request is the
\* outstanding one until it sends.
Forward(w) ==
    /\ task[w] \in {"answered", "failed"} /\ w = Work(w[1])
    /\ LaunchOf(w).then = "forward" /\ reply[w[1]] = "none"
    /\ reply' = [reply EXCEPT ![w[1]] = IF task[w] = "answered" THEN "ok" ELSE "err"]
    /\ UNCHANGED <<envVars, handle, recorded, callVars, msg, pc, arcs, workVars>>

\* drop(keep_alive), after the answer.
Release(w) ==
    /\ task[w] \in {"answered", "failed"} /\ arcs[w] # {}
    /\ arcs' = [arcs EXCEPT ![w] = {}]
    /\ UNCHANGED <<envVars, handle, recorded, callVars, msg, pc, reply, workVars>>

-----------------------------------------------------------------------------
(* The environment *)

\* DeviceState::bump_generation, on any thread and at any moment.
Invalidate ==
    /\ current /\ mode = "real"
    /\ current' = FALSE
    /\ UNCHANGED <<mode, alive, faulted, handle, recorded, callVars, msg, pc, arcs, reply, workVars>>

\* The kernel that runs faults: what is queued stays so, and the host functions
\* behind it are not called.
ContextFaults ==
    /\ stream # <<>> /\ ~faulted
    /\ faulted' = TRUE
    /\ UNCHANGED <<mode, current, alive, handle, recorded, callVars, msg, pc, arcs, reply, workVars>>

\* The call's request is being handled in the actor, not in a task or a thread
\* of its own.
InActor(c) == msg[c] = "handling" /\ RequestOf(c).lib \notin {"blocking_thread", "cub_task"}

\* The actors stop between two messages: what is left in the mailbox is dropped.
Stop ==
    /\ alive
    /\ \A c \in Calls : ~InActor(c)
    /\ alive' = FALSE
    /\ msg' = [c \in Calls |-> IF msg[c] = "mailbox" THEN "gone" ELSE msg[c]]
    /\ reply' = [c \in Calls |-> IF msg[c] = "mailbox" THEN "dropped" ELSE reply[c]]
    /\ UNCHANGED <<mode, current, faulted, handle, recorded, callVars, pc, arcs, workVars>>

Handle(c) ==
    \/ AccessStep(c) \/ TakeStep(c) \/ PrepareStep(c) \/ RecordStep(c) \/ AnswerStep(c)
    \/ LaunchStep(c) \/ LaunchFails(c)

Next ==
    \/ \E c \in Calls :
        \/ Submit(c) \/ RaiseArgument(c) \/ AskNext(c) \/ Deliver(c) \/ GiveUp(c) \/ Receive(c) \/ Handle(c)
    \/ \E w \in Works : Complete(w) \/ CompleteFails(w) \/ Forward(w) \/ Release(w)
    \/ \E b \in Buffers : DropHandle(b)
    \/ Execute \/ Invalidate \/ ContextFaults \/ Stop

\* HostFnCompletion is told of a kernel that has run, unless the context faults first.
CompletionDue(w) == ~faulted /\ Complete(w)

\* The actors and the tasks run when they can; the device works its stream off and
\* calls the host functions as long as the context is sound.
Fairness ==
    /\ \A c \in Calls :
        /\ WF_vars(Receive(c)) /\ WF_vars(Handle(c))
        /\ WF_vars(AskNext(c)) /\ WF_vars(Deliver(c))
        /\ WF_vars(\E i \in 1 .. MaxAsks : CompletionDue(<<c, i>>) \/ Forward(<<c, i>>))
        /\ WF_vars(\E i \in 1 .. MaxAsks : Release(<<c, i>>))
    /\ WF_vars(Execute)

Spec == Init /\ [][Next]_vars /\ Fairness

-----------------------------------------------------------------------------
TypeOK ==
    /\ mode \in {"real", "mock"} /\ current \in BOOLEAN /\ alive \in BOOLEAN /\ faulted \in BOOLEAN
    /\ handle \in [Buffers -> BOOLEAN]
    /\ recorded \subseteq Buffers
    /\ \A c \in Calls :
        /\ entry[c] \in DOMAIN Entries \cup {"idle"}
        /\ caller[c] # "idle" /\ result[c] # "argument" =>
            /\ bind[c] \in [EntryOperands[entry[c]] -> Buffers]
            /\ ask[c] \in DOMAIN EntryOf(c).asks
            /\ pc[c] \in DOMAIN Program(c)
        /\ \A i \in 1 .. MaxAsks : arcs[<<c, i>>] \subseteq DOMAIN bind[c]
    /\ caller \in [Calls -> {"idle", "waiting", "done"}]
    /\ result \in [Calls -> {"none", "ok", "err", "dropped", "timeout", "argument"}]
    /\ msg \in [Calls -> {"none", "mailbox", "handling", "gone"}]
    /\ reply \in [Calls -> {"none", "ok", "err", "dropped"}]
    /\ task \in [Works -> {"none", "awaiting", "answered", "failed", "over"}]
    /\ kernel \in [Works -> {"none", "queued", "executed"}]
    /\ stream \in Seq(Works)

\* Whatever the caller, other calls and the device do meanwhile (handles dropped,
\* the wait given up, the actor stopped, the context faulted), the memory of a
\* kernel that run_kernel launched exists as long as it is queued: its task has the
\* operands.  Two kinds of queued kernels have no such protection.  A task whose
\* completion failed drops its operands, whether the kernel has run or not; and a
\* collective has no task, its handler drops them when the call is queued.
HeldWhileQueued ==
    \A w \in Works :
        kernel[w] = "queued" /\ task[w] # "failed" /\ LaunchOf(w).then # "reply" =>
            \A b \in BufferSet(w[1], LaunchOf(w).uses) : ~Freed(b)

\* What an answer says of the device: after Ok every kernel of the call has run,
\* after an error the request that failed has nothing on the stream, unless it
\* was the completion that failed.  NCCL calls are answered when they are queued.
AnswerIsTrue ==
    \A c \in Calls : caller[c] = "done" /\ entry[c] # "idle" /\ RequestOf(c).lib # "nccl" =>
        /\ result[c] = "ok" =>
            \A i \in 1 .. ask[c] :
                Last(Requests[EntryOf(c).asks[i]].prog).do = "launch" => kernel[<<c, i>>] = "executed"
        /\ result[c] \in {"err", "dropped", "argument"} /\ task[Work(c)] # "failed"
            => kernel[Work(c)] = "none"

\* The task of w waits for a host function that will not be called.
Stuck(w) == faulted /\ task[w] = "awaiting"

\* A call returns, without its timeout: every request is answered, or its channel
\* is dropped, whichever way the handler, the tasks and the actor end.  Only a call
\* whose kernel was queued or running when the context faulted waits for ever.
EveryCallReturns ==
    \A c \in Calls : caller[c] = "waiting" ~> caller[c] = "done" \/ Stuck(Work(c))

\* No Arc is leaked: once the caller has dropped its handle the memory goes, unless
\* it is an operand of a call whose task is stuck on a faulted context.
MemoryReturns ==
    \A b \in Buffers :
        ~handle[b] ~> Freed(b) \/ \E w \in Works : Stuck(w) /\ b \in Range(bind[w[1]])

\* The GpuRef in the message of call c is the only one to b.
Unique(c, b) ==
    /\ ~handle[b]
    /\ Cardinality({o \in DOMAIN bind[c] : bind[c][o] = b}) = 1
    /\ \A d \in Calls \ {c} : b \notin Range(bind[d])

\* What the envelope's documentation and the errors of the routines promise: a
\* caller that holds the unique GpuRef to a target can write to it.
UniqueSuffices ==
    [][\A c \in Calls : Handling(c, "take") /\ Unique(c, bind[c][StepOf(c).on])
        => reply'[c] # "err"]_vars

\* Claim: GpuRef::last_write_stream is set on every buffer a kernel writes, so that
\* a reader on another stream can wait for it.  Kernels that NvrtcActor launches,
\* those of CUB among them, record nothing.
WritesRecorded ==
    \A w \in Works : kernel[w] # "none" => BufferSet(w[1], LaunchOf(w).writes) \subseteq recorded
=============================================================================
