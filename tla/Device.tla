-------------------------------- MODULE Device --------------------------------
(***************************************************************************)
(* The two-tier device of atomr-accel-cuda: the outer DeviceActor, the      *)
(* restartable ContextActor, the BlasActor the latter spawns, the shared    *)
(* DeviceState that survives restarts, the GpuRefs minted against it and    *)
(* the completion tasks of launched copies.                                 *)
(*                                                                          *)
(* Every actor handles one message of its FIFO mailbox at a time and the    *)
(* three actors interleave.  A handler is one action, except where another  *)
(* actor can see it half done: run_init publishes the generation, then the  *)
(* context, then the children (device/context_actor.rs:264-418), and        *)
(* drain_pending sends the stashed work one message at a time.              *)
(*                                                                          *)
(* A CUDA context is named by the generation bump_generation gives it; 0 is *)
(* the None of every Option.  A request is identified by the order in which *)
(* clients submit it, and the GpuRef an Alloc mints by that Alloc.          *)
(***************************************************************************)
EXTENDS Naturals, Sequences, FiniteSets

CONSTANTS
    MaxRequests,      \* bound: how many requests the clients submit
    PendingCapacity,  \* DeviceConfig::pending_queue_capacity
    MaxRetries,       \* with_max_retries(3) of device_supervisor_strategy
    MaxFailures,      \* bound: how many times the GPU fails
    Faults            \* which of the failures below may happen

\* "poison": a panic tagged ContextPoisoned; "spawn": one tagged Unrecoverable;
\* "sticky": a kernel faults, and no actor notices.
ASSUME DeviceAssumption ==
    /\ MaxRequests \in Nat
    /\ PendingCapacity \in Nat
    /\ MaxRetries \in Nat
    /\ MaxFailures \in Nat
    /\ Faults \subseteq {"poison", "spawn", "sticky"}

VARIABLES
    \* DeviceState
    generation,     \* AtomicU64
    currentCtx,     \* ArcSwapOption<CudaContext>
    acceptingOps,   \* AtomicBool
    \* DeviceActor
    device,         \* life cycle of the actor
    deviceMailbox,
    children,       \* Option<KernelChildren>: the incarnation it belongs to
    pending,        \* VecDeque<WorkRequest>
    draining,       \* inside the loop of drain_pending
    \* ContextActor
    context,        \* life cycle of the actor
    contextMailbox,
    stream,         \* Option<CudaStream>: the context it was created on
    initStep,       \* how far run_init has come
    retries,        \* restarts counted in the supervisor's window
    \* BlasActor, the kernel child
    blas,           \* the incarnation that is alive
    blasMailbox,
    \* requests, GpuRefs and completion tasks
    submitted,      \* number of requests submitted so far
    kind, buf,      \* per request: its DeviceMsg variant, the GpuRef it uses
    reply,          \* per request: the oneshot channel of its reply
    refGen, refCtx, \* per GpuRef: the generation token and the slice's context
    validated,      \* per request: the contexts of stream and slice when access() passed
    running,        \* requests whose envelope task awaits completion
    faulted,        \* contexts in which the GPU does nothing any more
    failures,       \* GPU failures so far
    escalated       \* an untagged panic has been escalated

stateVars   == <<generation, currentCtx, acceptingOps>>
deviceVars  == <<device, deviceMailbox, children, pending, draining>>
contextVars == <<context, contextMailbox, stream, initStep, retries>>
blasVars    == <<blas, blasMailbox>>
clientVars  == <<submitted, kind, buf>>
refVars     == <<refGen, refCtx>>
runVars     == <<validated, running>>
faultVars   == <<faulted, failures, escalated>>
vars == <<stateVars, deviceVars, contextVars, blasVars, clientVars, reply,
          refVars, runVars, faultVars>>

-----------------------------------------------------------------------------
Requests == 1..MaxRequests

\* A GpuRef is named by the Alloc that minted it; 0 is none.
Refs == 0..MaxRequests

Boxed == {"Alloc", "CopyToHost", "CopyFromHost"}

\* "Snapshot" stands for SnapshotContext, SnapshotChildren, WatchGeneration
\* and Stats, which the DeviceActor answers from what it has at hand.
Kinds == Boxed \cup {"Sgemm", "SnapshotStream", "Snapshot"}

\* "unused": not submitted; "waiting": the receiver is pending; "dropped":
\* the sender was dropped, so the receiver sees an error.  The others are
\* Ok(..) and the GpuError variants; "shared" is the Unrecoverable that says
\* the write target has more than one live reference.
Replies == {"unused", "waiting", "ok", "stale", "oom", "unrecoverable",
            "shared", "library", "dropped"}

\* Mailbox entries: a request, or an internal message with the incarnation
\* it is about.
Req(r)   == [type |-> "Req", id |-> r]
Ready(g) == [type |-> "ContextReady", id |-> g]
Lost     == [type |-> "ContextLost", id |-> 0]
InitMsg  == [type |-> "Init", id |-> 0]

DeviceMsg  == [type : {"Req"}, id : Requests]
                \cup [type : {"ContextReady"}, id : Nat]
                \cup {Lost}
ContextMsg == [type : {"Req"}, id : Requests] \cup {InitMsg}

RequestsIn(mailbox) ==
    {mailbox[i].id : i \in {j \in DOMAIN mailbox : mailbox[j].type = "Req"}}

Elements(s) == {s[i] : i \in DOMAIN s}

\* The replies when the senders held by the requests in R are dropped.
Dropping(R) == [r \in Requests |-> IF r \in R THEN "dropped" ELSE reply[r]]

\* A tell to a DeviceActor that no longer runs goes nowhere.
TellDevice(msgs) ==
    deviceMailbox' = IF device = "stopped" THEN deviceMailbox
                                           ELSE deviceMailbox \o msgs

\* Mutant of Access: a missing generation test.
AccessAnyGeneration(b) == acceptingOps

\* GpuRef::access: the device accepts work and no rebuild happened since.
Access(b) == acceptingOps /\ refGen[b] = generation

\* What is known of r when its GpuRef has passed access() in an actor whose
\* stream lives on ctx.
Validation(r, ctx) == [stream |-> ctx, slice |-> refCtx[buf[r]]]

\* Strong Arcs to the slice of b once access() has been cloned: the one in
\* GpuRefInner, the clone, and those kept alive by completion tasks.
StrongCount(b) == 2 + Cardinality({r \in running : buf[r] = b})

\* Arc::try_unwrap
TryUnwrap(b) == StrongCount(b) = 1

-----------------------------------------------------------------------------
Init ==
    /\ generation = 0 /\ currentCtx = 0 /\ acceptingOps = TRUE
    /\ device = "running" /\ deviceMailbox = <<>>
    /\ children = 0 /\ pending = <<>> /\ draining = FALSE
    /\ context = "running" /\ contextMailbox = <<InitMsg>>
    /\ stream = 0 /\ initStep = "idle" /\ retries = 0
    /\ blas = 0 /\ blasMailbox = <<>>
    /\ submitted = 0
    /\ kind = [r \in Requests |-> "Snapshot"]
    /\ buf = [r \in Requests |-> 0]
    /\ reply = [r \in Requests |-> "unused"]
    /\ refGen = [b \in Refs |-> 0]
    /\ refCtx = [b \in Refs |-> 0]
    /\ validated = [r \in Requests |-> [stream |-> 0, slice |-> 0]]
    /\ running = {}
    /\ faulted = {} /\ failures = 0 /\ escalated = FALSE

-----------------------------------------------------------------------------
(* Clients *)

NeedsRef == {"CopyToHost", "CopyFromHost", "Sgemm"}

\* A client tells the DeviceActor; it owns every GpuRef minted so far.
Submit ==
    /\ submitted < MaxRequests
    /\ \E k \in Kinds, b \in Refs :
         LET r == submitted + 1 IN
         /\ IF k \in NeedsRef THEN b # 0 /\ refGen[b] # 0 ELSE b = 0
         /\ submitted' = r
         /\ kind' = [kind EXCEPT ![r] = k]
         /\ buf' = [buf EXCEPT ![r] = b]
         /\ reply' = [reply EXCEPT ![r] =
                         IF device = "stopped" THEN "dropped" ELSE "waiting"]
         /\ TellDevice(<<Req(r)>>)
    /\ UNCHANGED <<stateVars, device, children, pending, draining, contextVars,
                   blasVars, refVars, runVars, faultVars>>

-----------------------------------------------------------------------------
(* DeviceActor::handle *)

\* The handler runs on the head of the mailbox, between two messages.
Handling(t) ==
    /\ device = "running" /\ ~draining
    /\ deviceMailbox # <<>> /\ Head(deviceMailbox).type = t
    /\ deviceMailbox' = Tail(deviceMailbox)

\* context_ref.tell(..)
TellContext(r) ==
    IF context = "running"
    THEN /\ contextMailbox' = Append(contextMailbox, Req(r))
         /\ UNCHANGED reply
    ELSE /\ reply' = Dropping({r})
         /\ UNCHANGED contextMailbox

\* children.blas.tell(..): the incarnation may have been stopped meanwhile
TellBlas(r) ==
    IF blas = children
    THEN /\ blasMailbox' = Append(blasMailbox, r)
         /\ UNCHANGED reply
    ELSE /\ reply' = Dropping({r})
         /\ UNCHANGED blasMailbox

\* Mutants of EnqueuePending: the newest work in front; no return when full.
EnqueuePendingFront(r) ==
    IF Len(pending) >= PendingCapacity
    THEN reply' = Dropping({r}) /\ UNCHANGED pending
    ELSE pending' = <<r>> \o pending /\ UNCHANGED reply

EnqueuePendingNoReturn(r) ==
    /\ reply' = IF Len(pending) >= PendingCapacity THEN Dropping({r}) ELSE reply
    /\ pending' = Append(pending, r)

EnqueuePending(r) ==
    IF Len(pending) >= PendingCapacity
    THEN /\ reply' = [reply EXCEPT ![r] =
                         IF kind[r] = "Sgemm" THEN "unrecoverable" ELSE "dropped"]
         /\ UNCHANGED pending
    ELSE /\ pending' = Append(pending, r)
         /\ UNCHANGED reply

\* context_ref is set in pre_start and never cleared, so ready depends on
\* the children alone.
HandleWhenReady ==
    LET r == Head(deviceMailbox).id IN
    /\ Handling("Req")
    /\ children # 0
    /\ \/ kind[r] \in Boxed /\ TellContext(r) /\ UNCHANGED blasMailbox
       \/ kind[r] = "Sgemm" /\ TellBlas(r) /\ UNCHANGED contextMailbox
    /\ UNCHANGED <<stateVars, device, children, pending, draining, context,
                   stream, initStep, retries, blas, clientVars, refVars,
                   runVars, faultVars>>

HandleWhenNotReady ==
    LET r == Head(deviceMailbox).id IN
    /\ Handling("Req")
    /\ children = 0
    /\ kind[r] \in Boxed \cup {"Sgemm"}
    /\ EnqueuePending(r)
    /\ UNCHANGED <<stateVars, device, children, draining, contextVars,
                   blasVars, clientVars, refVars, runVars, faultVars>>

HandleSnapshot ==
    LET r == Head(deviceMailbox).id IN
    /\ Handling("Req")
    /\ \/ kind[r] = "SnapshotStream" /\ TellContext(r)
       \/ /\ kind[r] = "Snapshot"
          /\ reply' = [reply EXCEPT ![r] = "ok"]
          /\ UNCHANGED contextMailbox
    /\ UNCHANGED <<stateVars, device, children, pending, draining, context,
                   stream, initStep, retries, blasVars, clientVars, refVars,
                   runVars, faultVars>>

\* Mutant of HandleContextReady: the stashed work is forgotten.
ContextReadyNoDrain ==
    /\ Handling("ContextReady")
    /\ children' = Head(deviceMailbox).id
    /\ UNCHANGED <<stateVars, device, pending, draining, contextVars, blasVars,
                   clientVars, reply, refVars, runVars, faultVars>>

HandleContextReady ==
    /\ Handling("ContextReady")
    /\ children' = Head(deviceMailbox).id
    /\ draining' = TRUE
    /\ UNCHANGED <<stateVars, device, pending, contextVars, blasVars,
                   clientVars, reply, refVars, runVars, faultVars>>

\* One iteration of drain_pending's loop; the last one finds it empty.
DrainPending ==
    /\ device # "stopped" /\ draining
    /\ \/ /\ pending = <<>>
          /\ draining' = FALSE
          /\ UNCHANGED <<pending, contextMailbox, blasMailbox, reply>>
       \/ /\ pending # <<>>
          /\ pending' = Tail(pending)
          /\ IF kind[Head(pending)] = "Sgemm"
             THEN TellBlas(Head(pending)) /\ UNCHANGED contextMailbox
             ELSE TellContext(Head(pending)) /\ UNCHANGED blasMailbox
          /\ UNCHANGED draining
    /\ UNCHANGED <<stateVars, device, deviceMailbox, children, context, stream,
                   initStep, retries, blas, clientVars, refVars, runVars,
                   faultVars>>

\* Mutant of HandleContextLost: the children of the lost context are kept.
ContextLostKeepsChildren ==
    /\ Handling("ContextLost")
    /\ UNCHANGED <<stateVars, device, children, pending, draining, contextVars,
                   blasVars, clientVars, reply, refVars, runVars, faultVars>>

HandleContextLost ==
    /\ Handling("ContextLost")
    /\ children' = 0
    /\ UNCHANGED <<stateVars, device, pending, draining, contextVars, blasVars,
                   clientVars, reply, refVars, runVars, faultVars>>

-----------------------------------------------------------------------------
(* DeviceActor shutdown: the runtime stops the actor and its child, in an    *)
(* order the code does not rely on.                                          *)

BeginStop ==
    /\ device = "running" /\ ~draining
    /\ device' = "stopping"
    /\ UNCHANGED <<stateVars, deviceMailbox, children, pending, draining,
                   contextVars, blasVars, clientVars, reply, refVars, runVars,
                   faultVars>>

\* begin_shutdown, then the stashed work is answered; what is left in the
\* mailbox goes with the actor.
StoppedReplies ==
    [r \in Requests |->
        IF r \in Elements(pending) /\ kind[r] = "Sgemm" THEN "stale"
        ELSE IF r \in Elements(pending) \cup RequestsIn(deviceMailbox) THEN "dropped"
        ELSE reply[r]]

DevicePostStop ==
    /\ device = "stopping" /\ ~draining
    /\ device' = "stopped"
    /\ acceptingOps' = FALSE
    /\ reply' = StoppedReplies
    /\ pending' = <<>>
    /\ deviceMailbox' = <<>>
    /\ UNCHANGED <<generation, currentCtx, children, draining, contextVars,
                   blasVars, clientVars, refVars, runVars, faultVars>>

-----------------------------------------------------------------------------
(* ContextActor: supervision *)

\* The old incarnation's kernel actors stop with it.
StopBlas == blas' = 0 /\ blasMailbox' = <<>>

\* Mutant of Restarts: a budget counted down and never refilled.
RestartsLeft == retries - 1

\* How many restarts the supervisor has counted after one more.
Restarts == retries + 1

\* Mutant of PostRestart: it does not ask for a new Init.
PostRestartNoInit(mailbox) == mailbox

\* The mailbox, which survives, after post_restart's self-send.
PostRestart(mailbox) == Append(mailbox, InitMsg)

\* The factory builds a fresh instance, then post_restart tells ContextLost
\* and self-sends Init.  Whether the runtime's default
\* pre_restart delegates to post_stop is its own business: both happen.
Restart(mailbox) ==
    /\ retries' = Restarts
    /\ stream' = 0
    /\ initStep' = "idle"
    /\ contextMailbox' = PostRestart(mailbox)
    /\ \/ TellDevice(<<Lost>>) /\ UNCHANGED currentCtx
       \/ TellDevice(<<Lost, Lost>>) /\ currentCtx' = 0
    /\ reply' = Dropping(Elements(blasMailbox))
    /\ StopBlas
    /\ UNCHANGED <<generation, acceptingOps, device, children, pending,
                   draining, context, clientVars, refVars, runVars>>

\* post_stop; the mailbox goes with the actor.
StopContext(mailbox) ==
    /\ context' = "stopped"
    /\ stream' = 0
    /\ initStep' = "idle"
    /\ contextMailbox' = <<>>
    /\ currentCtx' = 0
    /\ TellDevice(<<Lost>>)
    /\ reply' = Dropping(RequestsIn(mailbox) \cup Elements(blasMailbox))
    /\ StopBlas
    /\ UNCHANGED <<generation, acceptingOps, children, pending, draining,
                   retries, clientVars, refVars, runVars>>

Fails(fault) ==
    /\ fault \in Faults
    /\ context = "running"
    /\ failures < MaxFailures
    /\ failures' = failures + 1

\* Directive::Restart inside the retry budget, a stop past it.
Poisoned(mailbox) ==
    \/ retries < MaxRetries /\ Restart(mailbox)
    \/ retries >= MaxRetries /\ StopContext(mailbox) /\ UNCHANGED device

\* with_within(60s): older restarts no longer count.
WindowElapses ==
    /\ retries > 0
    /\ retries' = 0
    /\ UNCHANGED <<stateVars, deviceVars, context, contextMailbox, stream,
                   initStep, blasVars, clientVars, reply, refVars, runVars,
                   faultVars>>

\* A kernel actor panics with "ContextPoisoned: .." after the context came up.
KernelPoisons ==
    /\ Fails("poison")
    /\ blas # 0 /\ initStep = "idle"
    /\ faulted' = faulted \cup {blas}
    /\ Poisoned(contextMailbox)
    /\ UNCHANGED escalated

\* A kernel faults.  No actor panics on it: the context is in its error state
\* until something else has the ContextActor restarted.
ContextFaults ==
    /\ Fails("sticky")
    /\ stream # 0
    /\ faulted' = faulted \cup {stream}
    /\ UNCHANGED <<stateVars, deviceVars, contextVars, blasVars, clientVars,
                   reply, refVars, runVars, escalated>>

\* The DeviceActor is stopping, so its child is stopped.
ContextPostStop ==
    /\ device # "running" /\ context = "running"
    /\ StopContext(contextMailbox)
    /\ UNCHANGED <<device, faultVars>>

-----------------------------------------------------------------------------
(* ContextActor::run_init *)

InInit(step) ==
    /\ context = "running"
    /\ contextMailbox # <<>> /\ Head(contextMailbox).type = "Init"
    /\ initStep = step

InitBump ==
    /\ InInit("idle")
    /\ generation' = generation + 1
    /\ initStep' = "bumped"
    /\ UNCHANGED <<currentCtx, acceptingOps, deviceVars, context,
                   contextMailbox, stream, retries, blasVars, clientVars,
                   reply, refVars, runVars, faultVars>>

InitInstall ==
    /\ InInit("bumped")
    /\ currentCtx' = generation
    /\ stream' = generation
    /\ initStep' = "installed"
    /\ UNCHANGED <<generation, acceptingOps, deviceVars, context,
                   contextMailbox, retries, blasVars, clientVars, reply,
                   refVars, runVars, faultVars>>

InitSpawn ==
    /\ InInit("installed")
    /\ blas' = generation
    /\ TellDevice(<<Ready(generation)>>)
    /\ contextMailbox' = Tail(contextMailbox)
    /\ initStep' = "idle"
    /\ UNCHANGED <<stateVars, device, children, pending, draining, context,
                   stream, retries, blasMailbox, clientVars, reply, refVars,
                   runVars, faultVars>>

\* CudaContext::new or new_stream fails before the bump, or the allocator's
\* acquire fails after the installation.
InitPoisoned ==
    /\ InInit("idle") \/ InInit("installed")
    /\ Fails("poison")
    /\ Poisoned(Tail(contextMailbox))
    /\ UNCHANGED <<faulted, escalated>>

\* "Unrecoverable: spawn BlasActor": Directive::Stop
InitSpawnFails ==
    /\ InInit("installed")
    /\ Fails("spawn")
    /\ StopContext(Tail(contextMailbox))
    /\ UNCHANGED <<device, faulted, escalated>>

-----------------------------------------------------------------------------
(* ContextActor::handle, the requests *)

ContextHandles(k) ==
    /\ context = "running"
    /\ contextMailbox # <<>> /\ Head(contextMailbox).type = "Req"
    /\ kind[Head(contextMailbox).id] = k

ContextUnchanged ==
    UNCHANGED <<stateVars, deviceVars, context, stream, initStep, retries,
                blasVars, clientVars, faultVars>>

\* AllocReq::run
HandleAlloc ==
    LET r == Head(contextMailbox).id IN
    /\ ContextHandles("Alloc")
    /\ contextMailbox' = Tail(contextMailbox)
    /\ \/ /\ stream = 0
          /\ reply' = [reply EXCEPT ![r] = "stale"]
          /\ UNCHANGED refVars
       \/ /\ stream # 0
          /\ reply' = [reply EXCEPT ![r] = "oom"]
          /\ UNCHANGED refVars
       \/ /\ stream # 0
          /\ refGen' = [refGen EXCEPT ![r] = generation]
          /\ refCtx' = [refCtx EXCEPT ![r] = stream]
          /\ reply' = [reply EXCEPT ![r] = "ok"]
    /\ UNCHANGED runVars
    /\ ContextUnchanged

\* run_copy_to_host with a stream at hand: validate, compare lengths,
\* enqueue the copy, spawn the completion task.
HandleCopyToHost ==
    LET r == Head(contextMailbox).id IN
    /\ ContextHandles("CopyToHost")
    /\ stream # 0
    /\ contextMailbox' = Tail(contextMailbox)
    /\ \/ /\ ~Access(buf[r])
          /\ reply' = [reply EXCEPT ![r] = "stale"]
          /\ UNCHANGED runVars
       \/ /\ Access(buf[r])
          /\ validated' = [validated EXCEPT ![r] = Validation(r, stream)]
          /\ \/ /\ \E e \in {"unrecoverable", "library"} :
                     reply' = [reply EXCEPT ![r] = e]
                /\ UNCHANGED running
             \/ running' = running \cup {r} /\ UNCHANGED reply
    /\ UNCHANGED refVars
    /\ ContextUnchanged

\* What a write target gets: single-writer enforcement through try_unwrap.
WriteReply(b) ==
    IF ~Access(b) THEN "stale"
    ELSE IF ~TryUnwrap(b) THEN "shared"
    ELSE "waiting"

StartWrite(r, ctx) ==
    /\ reply' = [reply EXCEPT ![r] = WriteReply(buf[r])]
    /\ validated' = IF Access(buf[r])
                    THEN [validated EXCEPT ![r] = Validation(r, ctx)]
                    ELSE validated
    /\ running' = IF WriteReply(buf[r]) = "waiting" THEN running \cup {r}
                                                    ELSE running

\* run_copy_from_host with a stream at hand; the first alternative is a host
\* buffer of another length than the device's.
HandleCopyFromHost ==
    LET r == Head(contextMailbox).id IN
    /\ ContextHandles("CopyFromHost")
    /\ stream # 0
    /\ contextMailbox' = Tail(contextMailbox)
    /\ \/ /\ Access(buf[r])
          /\ reply' = [reply EXCEPT ![r] = "unrecoverable"]
          /\ validated' = [validated EXCEPT ![r] = Validation(r, stream)]
          /\ UNCHANGED running
       \/ StartWrite(r, stream)
    /\ UNCHANGED refVars
    /\ ContextUnchanged

\* self.stream.clone().expect("ctx not ready"): the panic carries no tag, so
\* the decider escalates it; nobody in the crate handles it, and both actors
\* go down with the failing message.
CopyWithoutStream ==
    /\ ContextHandles("CopyToHost") \/ ContextHandles("CopyFromHost")
    /\ stream = 0
    /\ escalated' = TRUE
    /\ StopContext(contextMailbox)
    /\ device' = IF device = "running" THEN "stopping" ELSE device
    /\ UNCHANGED <<faulted, failures>>

HandleSnapshotStream ==
    LET r == Head(contextMailbox).id IN
    /\ ContextHandles("SnapshotStream")
    /\ contextMailbox' = Tail(contextMailbox)
    /\ reply' = [reply EXCEPT ![r] = "ok"]
    /\ UNCHANGED <<refVars, runVars>>
    /\ ContextUnchanged

-----------------------------------------------------------------------------
(* BlasActor and the completion tasks *)

\* dispatch_gemm, reduced to its write target c; a and b take the same access.
HandleSgemm ==
    /\ blas # 0
    /\ blasMailbox # <<>>
    /\ blasMailbox' = Tail(blasMailbox)
    /\ StartWrite(Head(blasMailbox), blas)
    /\ UNCHANGED <<stateVars, deviceVars, contextVars, blas, clientVars,
                   refVars, faultVars>>

\* envelope::run_kernel's task: the completion resolves, the reply is sent.
Complete(r) ==
    /\ r \in running
    /\ running' = running \ {r}
    /\ \E e \in {"ok", "library"} : reply' = [reply EXCEPT ![r] = e]
    /\ UNCHANGED <<stateVars, deviceVars, contextVars, blasVars, clientVars,
                   refVars, validated, faultVars>>

\* The host function of r's completion is called only on a sound context.
CompletionDue(r) == validated[r].stream \notin faulted /\ Complete(r)

-----------------------------------------------------------------------------
DeviceStep ==
    \/ HandleWhenReady
    \/ HandleWhenNotReady
    \/ HandleSnapshot
    \/ HandleContextReady
    \/ DrainPending
    \/ HandleContextLost

ContextStep ==
    \/ InitBump
    \/ InitInstall
    \/ InitSpawn
    \/ HandleAlloc
    \/ HandleCopyToHost
    \/ HandleCopyFromHost
    \/ CopyWithoutStream
    \/ HandleSnapshotStream

StopStep == DevicePostStop \/ ContextPostStop

FaultStep ==
    \/ KernelPoisons
    \/ ContextFaults
    \/ InitPoisoned
    \/ InitSpawnFails
    \/ WindowElapses

Next ==
    \/ Submit
    \/ DeviceStep
    \/ ContextStep
    \/ HandleSgemm
    \/ \E r \in Requests : Complete(r)
    \/ BeginStop
    \/ StopStep
    \/ FaultStep

Spec == Init /\ [][Next]_vars

\* The runtime schedules every actor with a message and finishes a stop it
\* has begun; the GPU finishes what it was given unless its context has faulted:
\* HostFnCompletion then waits for ever.  Clients and faults are not obliged to
\* act.
Fairness ==
    /\ WF_vars(DeviceStep)
    /\ WF_vars(ContextStep)
    /\ WF_vars(HandleSgemm)
    /\ WF_vars(DevicePostStop)
    /\ WF_vars(ContextPostStop)
    /\ \A r \in Requests : WF_vars(CompletionDue(r))

FairSpec == Spec /\ Fairness

-----------------------------------------------------------------------------
(* Properties *)

\* Every variable has its type.
TypeOK ==
    /\ generation \in Nat /\ currentCtx \in Nat /\ acceptingOps \in BOOLEAN
    /\ device \in {"running", "stopping", "stopped"}
    /\ deviceMailbox \in Seq(DeviceMsg)
    /\ children \in Nat /\ pending \in Seq(Requests) /\ draining \in BOOLEAN
    /\ context \in {"running", "stopped"}
    /\ contextMailbox \in Seq(ContextMsg)
    /\ stream \in Nat /\ initStep \in {"idle", "bumped", "installed"}
    /\ retries \in 0..MaxRetries
    /\ blas \in Nat /\ blasMailbox \in Seq(Requests)
    /\ submitted \in 0..MaxRequests
    /\ kind \in [Requests -> Kinds]
    /\ buf \in [Requests -> Refs]
    /\ reply \in [Requests -> Replies]
    /\ refGen \in [Refs -> Nat] /\ refCtx \in [Refs -> Nat]
    /\ validated \in [Requests -> [stream : Nat, slice : Nat]]
    /\ running \subseteq Requests
    /\ faulted \subseteq Nat
    /\ failures \in 0..MaxFailures /\ escalated \in BOOLEAN

\* GpuRef::access never lets a buffer of one CUDA context be used on a stream
\* of another one, however restarts interleave with copies and gemms.
RunsInOwnContext ==
    \A r \in Requests : validated[r].stream = validated[r].slice

\* Once it has handled the ContextReady and ContextLost already on their way,
\* the DeviceActor routes to exactly the kernel actor that is alive, or to
\* none: no restart leaves it with the children of a dead incarnation.
ChildrenConverge ==
    device # "stopped" =>
        \/ /\ \A i \in DOMAIN deviceMailbox : deviceMailbox[i].type = "Req"
           /\ children = blas
        \/ \E i \in DOMAIN deviceMailbox :
              /\ deviceMailbox[i].type # "Req"
              /\ deviceMailbox[i].id = blas
              /\ \A j \in DOMAIN deviceMailbox :
                    j > i => deviceMailbox[j].type = "Req"

\* How far a request still is from the ContextActor's handler.
Distance(r) ==
    IF r \in RequestsIn(deviceMailbox) THEN 3
    ELSE IF r \in Elements(pending) THEN 2
    ELSE IF r \in RequestsIn(contextMailbox) THEN 1
    ELSE 0

\* Allocations and copies reach the ContextActor in the order clients sent
\* them, whether they were stashed during a rebuild or forwarded directly;
\* only one whose reply was dropped has left the line.
InOrder ==
    \A r, s \in 1..submitted :
        r < s /\ {kind[r], kind[s]} \subseteq Boxed /\ reply[s] # "dropped"
            => Distance(r) <= Distance(s)

\* Stashed work never waits behind a DeviceActor that is ready.
NoStrandedWork ==
    pending # <<>> => children = 0 \/ draining

\* r was on the GPU when its context faulted: its host function is not called.
LostOnGpu(r) == r \in running /\ validated[r].stream \in faulted

\* r is stashed for a ContextActor that will never come back: its supervisor
\* has stopped it, and the DeviceActor is not told that.
StashedForGood(r) ==
    device = "running" /\ context = "stopped" /\ r \in Elements(pending)

\* Every request is answered, or its reply channel closed, through restarts,
\* stops and shutdown.  Two kinds of callers hang: one whose copy was on the GPU
\* when the context faulted, and one whose request is stashed after the
\* ContextActor was stopped for good.
Answered ==
    \A r \in Requests :
        reply[r] = "waiting"
            ~> reply[r] # "waiting" \/ LostOnGpu(r) \/ StashedForGood(r)

\* The device recovers: as long as neither actor stops for good, the
\* DeviceActor gets the children of the latest context, without stashed work.
Recovers ==
    (device = "running" /\ context = "running") ~>
        \/ device # "running" \/ context # "running"
        \/ children = blas /\ blas # 0 /\ pending = <<>>

-----------------------------------------------------------------------------
(* What the device promises its callers, and what is said of it *)

Open     == {r \in Requests : reply[r] = "waiting"}
Answer   == [r \in Requests |->
                IF reply[r] \in {"unused", "waiting"} THEN "none" ELSE reply[r]]
Admitted == [r \in Requests |-> validated[r].slice]

Promise == INSTANCE DevicePromise WITH
    Answers <- Replies \ {"unused", "waiting"},
    gen <- generation, accepting <- acceptingOps,
    open <- Open, answer <- Answer, admitted <- Admitted

\* Through all restarts, stashing and shutdown the device keeps its promise:
\* no oneshot reply is sent twice, no request reaches the GPU
\* twice, after its answer, after shutdown, or under an outdated generation.
KeepsPromise == Promise!Spec

\* Claim: the address survives ContextActor restarts, work is queued while the
\* context is rebuilt.  No restart leads to an escalated failure.
SurvivesRebuild == ~escalated

\* Claim: a rebuild installs the new context and bumps the generation in one
\* atomic step.
AtomicSwap ==
    [][generation' # generation => currentCtx' = generation']_vars

\* Claim: a caller with the only GpuRef to a buffer may write to it; the write
\* is refused as shared only when another operation holds the buffer.
UniqueWriterWrites ==
    [][\A r \in Requests :
          reply'[r] = "shared" /\ reply[r] # "shared"
              => \E s \in running : buf[s] = buf[r]]_vars

=============================================================================
