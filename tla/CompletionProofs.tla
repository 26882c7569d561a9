-------------------------- MODULE CompletionProofs --------------------------
(***************************************************************************)
(* OkIsExecuted and HeldUntilComplete for any number of actors, streams and *)
(* run_kernel calls, every strategy and allocator and any faults; and       *)
(* InUseExact and RefusedOnlyWhenTaken of the pool of pinned buffers for any *)
(* clients and max_buffers.                                                 *)
(***************************************************************************)
EXTENDS Completion, PinnedPool, FiniteSetTheorems, SequenceTheorems, TLAPS

-----------------------------------------------------------------------------
Places(s) == 1..Len(queue[s])

\* An op that run_kernel has begun belongs to an actor that has a stream.
ActorInv ==
    \A o \in Op : stage[o] # "unused" =>
        actorOf[o] \in Actor /\ streamOf[actorOf[o]] \in Stream

\* Only a kernel that was enqueued ran.
RanInv == \A o \in executed : stage[o] # "unused"

\* What is on a stream was put there by the actor of that stream.
PlaceInv ==
    \A s \in Stream : \A i \in Places(s) :
        /\ stage[queue[s][i].op] # "unused"
        /\ streamOf[actorOf[queue[s][i].op]] = s

\* A kernel is on its stream once, and not any more once it ran.
KernelInv ==
    \A s \in Stream : \A i \in Places(s) : queue[s][i].type = "kernel" =>
        /\ queue[s][i].op \notin executed
        /\ \A j \in Places(s) : queue[s][j] = queue[s][i] => j = i

\* A mark is behind its kernel: the actor put both on the same stream.
MarkInv ==
    \A s \in Stream : \A i \in Places(s) : queue[s][i].type = "mark" =>
        \/ queue[s][i].op \in executed
        \/ \E j \in Places(s) : j < i /\ queue[s][j] = Kernel(queue[s][i].op)

\* A kernel whose mark is not set yet ran or is on its actor's stream.
EnqueuedInv ==
    \A o \in Op : stage[o] = "enqueued" /\ ~poisoned =>
        \/ o \in executed
        \/ \E i \in Places(MarkStream(o)) : queue[MarkStream(o)][i] = Kernel(o)

\* An awaited kernel ran or its mark has not fired.
AwaitingInv ==
    \A o \in Op : stage[o] = "awaiting" /\ ~poisoned => o \in executed \/ Queued(Mark(o))

\* The task holds the keep-alive until it has replied, and replies once.
TaskInv ==
    \A o \in Op :
        /\ stage[o] \in {"enqueued", "awaiting", "replied"} => held[o]
        /\ reply[o] = "none" => stage[o] \in {"unused", "enqueued", "awaiting"}

\* The inductive invariant: OkIsExecuted alone says nothing of a kernel that
\* is still awaited, and the reply is sent when the mark is gone.
IInv ==
    /\ TypeOK
    /\ ActorInv
    /\ RanInv
    /\ PlaceInv
    /\ KernelInv
    /\ MarkInv
    /\ EnqueuedInv
    /\ AwaitingInv
    /\ TaskInv
    /\ OkIsExecuted

-----------------------------------------------------------------------------
\* Taking the first entry of a stream moves the others one place up.
LEMMA TailFacts ==
    ASSUME NEW S, NEW q \in Seq(S), q # <<>>
    PROVE  /\ Tail(q) \in Seq(S)
           /\ Head(q) = q[1] /\ Head(q) \in S /\ 1 \in 1..Len(q)
           /\ \A i \in 1..Len(Tail(q)) : i + 1 \in 1..Len(q) /\ Tail(q)[i] = q[i + 1]
           /\ \A i \in 1..Len(q) : i # 1 => i - 1 \in 1..Len(Tail(q)) /\ Tail(q)[i - 1] = q[i]
  OBVIOUS

\* Enqueueing leaves what is on the stream where it is.
LEMMA AppendFacts ==
    ASSUME NEW S, NEW q \in Seq(S), NEW e \in S
    PROVE  /\ Append(q, e) \in Seq(S)
           /\ Len(Append(q, e)) = Len(q) + 1
           /\ Append(q, e)[Len(q) + 1] = e
           /\ \A i \in 1..Len(q) : Append(q, e)[i] = q[i] /\ i \in 1..(Len(q) + 1)
           /\ \A i \in 1..(Len(q) + 1) : i \in 1..Len(q) \/ i = Len(q) + 1
  OBVIOUS

\* What is on a stream is a kernel or a mark of an op.
LEMMA EntryFacts ==
    ASSUME TypeOK
    PROVE  /\ \A s \in Stream : Len(queue[s]) \in Nat
           /\ \A s \in Stream : \A i \in Places(s) :
                 /\ queue[s][i] \in Entries
                 /\ queue[s][i].op \in Op
                 /\ queue[s][i].type \in {"kernel", "mark"}
                 /\ queue[s][i] = IF queue[s][i].type = "kernel" THEN Kernel(queue[s][i].op)
                                                                 ELSE Mark(queue[s][i].op)
  <1>1. ASSUME NEW s \in Stream
        PROVE  queue[s] \in Seq(Entries)
    BY DEF TypeOK
  <1>2. ASSUME NEW s \in Stream, NEW i \in Places(s)
        PROVE  queue[s][i] \in Entries
    BY <1>1 DEF Places
  <1>3. \A e \in Entries : /\ e.op \in Op
                           /\ e.type \in {"kernel", "mark"}
                           /\ e = IF e.type = "kernel" THEN Kernel(e.op) ELSE Mark(e.op)
    BY DEF Entries, Kernel, Mark
  <1> QED
    BY <1>1, <1>2, <1>3

\* The invariant gives the keep-alive: a queued kernel did not run, so its
\* caller was not told Ok, and a caller without a reply has a task that holds.
LEMMA IInvHeld == IInv => HeldUntilComplete
  <1> SUFFICES ASSUME IInv, NEW o \in Op, NEW s \in Stream, NEW i \in 1..Len(queue[s]),
                      queue[s][i] = Kernel(o), reply[o] \in {"none", "ok"}
               PROVE  held[o]
    BY DEF HeldUntilComplete, Queued
  <1>1. queue[s][i].op = o /\ queue[s][i].type = "kernel"
    BY DEF Kernel
  <1>2. stage[o] # "unused" /\ o \notin executed
    BY <1>1 DEF IInv, PlaceInv, KernelInv, Places
  <1>3. reply[o] = "none"
    BY <1>2 DEF IInv, OkIsExecuted
  <1> QED
    BY <1>2, <1>3 DEF IInv, TaskInv

\* A device starts with no actor, no call and nothing on its streams.
LEMMA InitInv == Init => IInv
  <1> SUFFICES ASSUME Init PROVE IInv
    OBVIOUS
  <1>1. \A s \in Stream : queue[s] = <<>> /\ Places(s) = {}
    BY DEF Init, Places
  <1>2. TypeOK
    <2>1. 0 \in 0..Streams /\ 0 \in 0..Actors /\ "none" \in Replies /\ <<>> \in Seq(Entries)
      BY CompletionAssumption DEF Replies
    <2> QED
      BY <2>1 DEF Init, TypeOK
  <1>3. ActorInv /\ RanInv /\ EnqueuedInv /\ AwaitingInv /\ TaskInv /\ OkIsExecuted
    BY DEF Init, ActorInv, RanInv, EnqueuedInv, AwaitingInv, TaskInv, OkIsExecuted
  <1>4. PlaceInv /\ KernelInv /\ MarkInv
    BY <1>1 DEF PlaceInv, KernelInv, MarkInv
  <1> QED
    BY <1>2, <1>3, <1>4 DEF IInv

-----------------------------------------------------------------------------
\* An actor gets its stream before its first call.
LEMMA AcquireStep ==
    ASSUME IInv, NEW a \in Actor, Acquire(a)
    PROVE  IInv'
  <1>1. cursor \in Nat /\ PooledStream \in 1..Streams /\ 1 \in 1..Streams
    <2>1. cursor \in Nat /\ Streams \in Nat /\ Streams > 0
      BY CompletionAssumption DEF IInv, TypeOK
    <2>2. cursor % Streams \in 0..(Streams - 1)
      BY <2>1
    <2> QED
      BY <2>1, <2>2 DEF PooledStream
  <1>2. /\ streamOf' \in [Actor -> 0..Streams] /\ cursor' \in Nat
        /\ streamOf'[a] \in Stream
        /\ \A b \in Actor : streamOf[b] # 0 => streamOf'[b] = streamOf[b]
    <2>1. PICK t \in Stream : streamOf' = [streamOf EXCEPT ![a] = t] /\ cursor' \in Nat
      BY <1>1 DEF Acquire, Stream
    <2>2. t \in 0..Streams /\ streamOf \in [Actor -> 0..Streams] /\ streamOf[a] = 0
      BY CompletionAssumption DEF IInv, TypeOK, Acquire, Stream
    <2> QED
      BY <2>1, <2>2
  <1>3. UNCHANGED <<strategy, allocator, actorOf, stage, held, reply, queue, executed, poisoned>>
    BY DEF Acquire, config
  <1>4. \A o \in Op : stage[o] # "unused" =>
            /\ actorOf[o] \in Actor
            /\ streamOf'[actorOf[o]] = streamOf[actorOf[o]]
            /\ streamOf[actorOf[o]] \in Stream
    BY <1>2 DEF IInv, ActorInv, Stream
  <1>5. TypeOK'
    BY <1>2, <1>3 DEF IInv, TypeOK
  <1>6. ActorInv' /\ RanInv'
    BY <1>3, <1>4 DEF IInv, ActorInv, RanInv
  <1>7. PlaceInv'
    BY <1>3, <1>4, EntryFacts DEF IInv, PlaceInv, Places
  <1>8. KernelInv' /\ MarkInv' /\ TaskInv' /\ OkIsExecuted'
    BY <1>3 DEF IInv, KernelInv, MarkInv, TaskInv, OkIsExecuted, Places
  <1>9. EnqueuedInv' /\ AwaitingInv'
    BY <1>3, <1>4 DEF IInv, EnqueuedInv, AwaitingInv, MarkStream, Places, Queued
  <1> QED
    BY <1>5, <1>6, <1>7, <1>8, <1>9 DEF IInv


\* A kernel is enqueued: a new last entry of its actor's stream.
LEMMA EnqueueStep ==
    ASSUME IInv, NEW o \in Op, NEW a \in Actor, Enqueue(o, a)
    PROVE  IInv'
  <1> DEFINE t == streamOf[a]
  <1>1. /\ t \in Stream /\ stage[o] = "unused" /\ ~poisoned
        /\ Kernel(o) \in Entries /\ a \in 0..Actors
    BY CompletionAssumption DEF IInv, TypeOK, Enqueue, IsNext, Stream, Kernel, Entries, Actor
  <1>2. /\ queue' = [queue EXCEPT ![t] = Append(@, Kernel(o))]
        /\ actorOf' = [actorOf EXCEPT ![o] = a]
        /\ stage' = [stage EXCEPT ![o] = "enqueued"]
        /\ held' = [held EXCEPT ![o] = TRUE]
        /\ UNCHANGED <<strategy, allocator, cursor, streamOf, reply, executed, poisoned>>
    BY DEF Enqueue, Push, KeepAlive, config
  <1>u. streamOf' = streamOf /\ executed' = executed
    BY <1>2
  <1> DEFINE q == queue[t]
  <1>3. q \in Seq(Entries) /\ Len(q) \in Nat /\ queue'[t] = Append(q, Kernel(o))
    BY <1>1, <1>2 DEF IInv, TypeOK
  <1>4. \A s \in Stream : s # t => queue'[s] = queue[s]
    BY <1>2 DEF IInv, TypeOK
  <1> HIDE DEF q, t
  <1>5. /\ queue'[t] \in Seq(Entries)
        /\ Len(queue'[t]) = Len(q) + 1 /\ queue'[t][Len(q) + 1] = Kernel(o)
        /\ \A i \in 1..Len(q) : queue'[t][i] = q[i] /\ i \in 1..(Len(q) + 1)
        /\ \A i \in 1..(Len(q) + 1) : i \in 1..Len(q) \/ i = Len(q) + 1
    BY <1>1, <1>3, AppendFacts
  <1>6. TypeOK'
    <2>1. queue' \in [Stream -> Seq(Entries)]
      BY <1>2, <1>4, <1>5 DEF IInv, TypeOK
    <2> QED
      BY <1>1, <1>2, <2>1 DEF IInv, TypeOK
  <1>7. ActorInv'
    BY <1>1, <1>2 DEF IInv, TypeOK, ActorInv, t
  \* Nothing of the new op is on a stream, so what is there keeps its op's state.
  <1>8. \A s \in Stream : \A i \in Places(s) :
            /\ queue[s][i].op \in Op /\ queue[s][i].op # o
            /\ stage'[queue[s][i].op] = stage[queue[s][i].op]
            /\ actorOf'[queue[s][i].op] = actorOf[queue[s][i].op]
    BY <1>1, <1>2, EntryFacts DEF IInv, TypeOK, PlaceInv
  <1>9. \A s \in Stream : \A i \in Places(s)' :
            \/ i \in Places(s) /\ queue'[s][i] = queue[s][i]
            \/ s = t /\ i = Len(q) + 1 /\ queue'[s][i] = Kernel(o)
    BY <1>4, <1>5 DEF Places, q
  <1>10. \A s \in Stream : \A i \in Places(s) : i \in Places(s)' /\ queue'[s][i] = queue[s][i]
    BY <1>4, <1>5 DEF Places, q
  <1>11. Kernel(o).op = o /\ Kernel(o).type = "kernel"
    BY DEF Kernel
  <1>12. PlaceInv'
    <2>1. stage'[o] = "enqueued" /\ actorOf'[o] = a /\ streamOf'[a] = t
      BY <1>2 DEF IInv, TypeOK, t
    <2>2. ASSUME NEW s \in Stream, NEW i \in Places(s)'
          PROVE  stage'[queue'[s][i].op] # "unused" /\ streamOf'[actorOf'[queue'[s][i].op]] = s
      <3>1. CASE i \in Places(s) /\ queue'[s][i] = queue[s][i]
        BY <1>u, <1>8, <3>1 DEF IInv, PlaceInv
      <3>2. CASE s = t /\ queue'[s][i] = Kernel(o)
        BY <1>11, <2>1, <3>2
      <3> QED
        BY <1>9, <3>1, <3>2
    <2> QED
      BY <2>2 DEF PlaceInv
  <1>13. RanInv' /\ o \notin executed
    BY <1>1, <1>2 DEF IInv, TypeOK, RanInv
  <1>14. KernelInv'
    <2>1. ASSUME NEW s \in Stream, NEW i \in Places(s)', queue'[s][i].type = "kernel"
          PROVE  /\ queue'[s][i].op \notin executed'
                 /\ \A j \in Places(s)' : queue'[s][j] = queue'[s][i] => j = i
      <3>1. CASE i \in Places(s) /\ queue'[s][i] = queue[s][i]
        BY <1>u, <1>8, <1>9, <1>11, <2>1, <3>1 DEF IInv, KernelInv
      <3>2. CASE s = t /\ i = Len(q) + 1 /\ queue'[s][i] = Kernel(o)
        BY <1>u, <1>8, <1>9, <1>11, <1>13, <3>2
      <3> QED
        BY <1>9, <3>1, <3>2
    <2> QED
      BY <2>1 DEF KernelInv
  <1>15. MarkInv'
    <2>1. ASSUME NEW s \in Stream, NEW i \in Places(s)', queue'[s][i].type = "mark"
          PROVE  \/ queue'[s][i].op \in executed'
                 \/ \E j \in Places(s)' : j < i /\ queue'[s][j] = Kernel(queue'[s][i].op)
      <3>1. i \in Places(s) /\ queue'[s][i] = queue[s][i]
        BY <1>9, <1>11, <2>1
      <3> QED
        BY <1>u, <1>10, <2>1, <3>1 DEF IInv, MarkInv
    <2> QED
      BY <2>1 DEF MarkInv
  <1>16. \A p \in Op : p # o => stage'[p] = stage[p] /\ MarkStream(p)' = MarkStream(p)
    BY <1>2 DEF IInv, TypeOK, MarkStream
  <1>17. EnqueuedInv'
    <2>1. MarkStream(o)' = t /\ Len(q) + 1 \in Places(t)'
      BY <1>2, <1>3, <1>5 DEF IInv, TypeOK, MarkStream, t, Places
    <2>2. \A p \in Op : stage[p] # "unused" => MarkStream(p) \in Stream
      BY DEF IInv, ActorInv, MarkStream
    <2>3. ASSUME NEW p \in Op, stage'[p] = "enqueued"
          PROVE  \/ p \in executed'
                 \/ \E i \in Places(MarkStream(p))' : queue'[MarkStream(p)'][i] = Kernel(p)
      <3>1. CASE p = o
        BY <1>5, <2>1, <3>1 DEF Places
      <3>2. CASE p # o
        BY <1>1, <1>2, <1>10, <1>16, <2>2, <2>3, <3>2 DEF IInv, EnqueuedInv, Places
      <3> QED
        BY <3>1, <3>2
    <2> QED
      BY <2>3 DEF EnqueuedInv, Places
  <1>18. AwaitingInv'
    <2>1. \A e : Queued(e) => Queued(e)'
      BY <1>10 DEF Queued, Places
    <2>2. \A p \in Op : stage'[p] = "awaiting" => stage[p] = "awaiting"
      BY <1>2 DEF IInv, TypeOK
    <2> QED
      BY <1>2, <2>1, <2>2 DEF IInv, AwaitingInv, Mark
  <1>19. TaskInv' /\ OkIsExecuted'
    BY <1>1, <1>2 DEF IInv, TypeOK, TaskInv, OkIsExecuted
  <1> QED
    BY <1>6, <1>7, <1>12, <1>13, <1>14, <1>15, <1>17, <1>18, <1>19 DEF IInv

\* A call whose enqueue() fails puts nothing on a stream and is answered.
LEMMA EnqueueFailsStep ==
    ASSUME IInv, NEW o \in Op, NEW a \in Actor, EnqueueFails(o, a)
    PROVE  IInv'
  <1>1. /\ stage[o] = "unused" /\ a \in 0..Actors /\ streamOf[a] \in Stream
        /\ actorOf' = [actorOf EXCEPT ![o] = a]
        /\ stage' = [stage EXCEPT ![o] = "released"]
        /\ UNCHANGED <<strategy, allocator, cursor, streamOf, held, queue, executed, poisoned>>
    BY CompletionAssumption DEF IInv, TypeOK, EnqueueFails, IsNext, Actor, Stream, config
  <1>2. PICK r \in {"library", "stale"} : reply' = [reply EXCEPT ![o] = r]
    BY DEF EnqueueFails, EnqueueReply, Annotate
  <1>3. r \in Replies
    BY DEF Replies, Errors
  <1>4. TypeOK'
    BY <1>1, <1>2, <1>3 DEF IInv, TypeOK
  <1>5. ActorInv' /\ RanInv'
    BY <1>1 DEF IInv, TypeOK, ActorInv, RanInv
  <1>u. queue' = queue /\ streamOf' = streamOf /\ executed' = executed /\ poisoned' = poisoned
    BY <1>1
  <1>6. \A p \in Op : p # o => stage'[p] = stage[p] /\ actorOf'[p] = actorOf[p]
    BY <1>1 DEF IInv, TypeOK
  <1>7. \A s \in Stream : \A i \in Places(s) : queue[s][i].op \in Op /\ queue[s][i].op # o
    BY <1>1, EntryFacts DEF IInv, PlaceInv
  <1>8. PlaceInv' /\ KernelInv' /\ MarkInv'
    BY <1>u, <1>6, <1>7 DEF IInv, PlaceInv, KernelInv, MarkInv, Places
  <1>9. stage'[o] = "released"
    BY <1>1 DEF IInv, TypeOK
  <1>10. EnqueuedInv'
    BY <1>u, <1>6, <1>9 DEF IInv, EnqueuedInv, MarkStream, Places
  <1>11. AwaitingInv'
    BY <1>u, <1>6, <1>9 DEF IInv, AwaitingInv, Queued
  <1>12. TaskInv' /\ OkIsExecuted'
    BY <1>1, <1>2 DEF IInv, TypeOK, TaskInv, OkIsExecuted
  <1> QED
    BY <1>4, <1>5, <1>8, <1>10, <1>11, <1>12 DEF IInv

\* The mark is set behind the kernel, on the same stream.
LEMMA RegisterStep ==
    ASSUME IInv, NEW o \in Op, Register(o)
    PROVE  IInv'
  <1> DEFINE t == MarkStream(o)
  <1>1. t \in Stream /\ stage[o] = "enqueued" /\ ~poisoned /\ Mark(o) \in Entries
    BY DEF IInv, ActorInv, Register, MarkStream, Mark, Entries
  <1>2. /\ queue' = [queue EXCEPT ![t] = Append(@, Mark(o))]
        /\ stage' = [stage EXCEPT ![o] = "awaiting"]
        /\ UNCHANGED <<strategy, allocator, cursor, streamOf, actorOf, held, reply,
                       executed, poisoned>>
    BY DEF Register, Push, config
  <1>u. streamOf' = streamOf /\ actorOf' = actorOf /\ executed' = executed /\ poisoned' = poisoned
    BY <1>2
  <1> DEFINE q == queue[t]
  <1>3. q \in Seq(Entries) /\ Len(q) \in Nat /\ queue'[t] = Append(q, Mark(o))
    BY <1>1, <1>2 DEF IInv, TypeOK
  <1>4. \A s \in Stream : s # t => queue'[s] = queue[s]
    BY <1>2 DEF IInv, TypeOK
  <1>e. streamOf[actorOf[o]] = t
    BY DEF MarkStream
  <1>k. o \in executed \/ \E i \in Places(t) : queue[t][i] = Kernel(o)
    BY <1>1 DEF IInv, EnqueuedInv
  <1> HIDE DEF q, t
  <1>5. /\ queue'[t] \in Seq(Entries)
        /\ Len(queue'[t]) = Len(q) + 1 /\ queue'[t][Len(q) + 1] = Mark(o)
        /\ \A i \in 1..Len(q) : queue'[t][i] = q[i] /\ i \in 1..(Len(q) + 1)
        /\ \A i \in 1..(Len(q) + 1) : i \in 1..Len(q) \/ i = Len(q) + 1
    BY <1>1, <1>3, AppendFacts
  <1>6. TypeOK'
    <2>1. queue' \in [Stream -> Seq(Entries)]
      BY <1>2, <1>4, <1>5 DEF IInv, TypeOK
    <2> QED
      BY <1>2, <2>1 DEF IInv, TypeOK
  <1>7. \A p \in Op : (stage'[p] = "unused") <=> (stage[p] = "unused")
    BY <1>1, <1>2 DEF IInv, TypeOK
  <1>8. ActorInv' /\ RanInv'
    BY <1>2, <1>7 DEF IInv, TypeOK, ActorInv, RanInv
  <1>9. \A s \in Stream : \A i \in Places(s)' :
            \/ i \in Places(s) /\ queue'[s][i] = queue[s][i]
            \/ s = t /\ i = Len(q) + 1 /\ queue'[s][i] = Mark(o)
    BY <1>4, <1>5 DEF Places, q
  <1>10. \A s \in Stream : \A i \in Places(s) : i \in Places(s)' /\ queue'[s][i] = queue[s][i]
    BY <1>4, <1>5 DEF Places, q
  <1>11. Mark(o).op = o /\ Mark(o).type = "mark" /\ \A p : Mark(o) # Kernel(p)
    BY DEF Kernel, Mark
  <1>12. PlaceInv'
    <2>1. ASSUME NEW s \in Stream, NEW i \in Places(s)'
          PROVE  stage'[queue'[s][i].op] # "unused" /\ streamOf'[actorOf'[queue'[s][i].op]] = s
      <3>1. CASE i \in Places(s) /\ queue'[s][i] = queue[s][i]
        BY <1>u, <1>7, <3>1, EntryFacts DEF IInv, PlaceInv
      <3>2. CASE s = t /\ queue'[s][i] = Mark(o)
        BY <1>u, <1>e, <1>1, <1>7, <1>11, <3>2
      <3> QED
        BY <1>9, <3>1, <3>2
    <2> QED
      BY <2>1 DEF PlaceInv
  <1>13. KernelInv'
    <2>1. ASSUME NEW s \in Stream, NEW i \in Places(s)', queue'[s][i].type = "kernel"
          PROVE  /\ queue'[s][i].op \notin executed'
                 /\ \A j \in Places(s)' : queue'[s][j] = queue'[s][i] => j = i
      <3>1. i \in Places(s) /\ queue'[s][i] = queue[s][i]
        BY <1>9, <1>11, <2>1
      <3> QED
        BY <1>u, <1>9, <1>11, <2>1, <3>1 DEF IInv, KernelInv
    <2> QED
      BY <2>1 DEF KernelInv
  <1>14. MarkInv'
    <2>1. ASSUME NEW s \in Stream, NEW i \in Places(s)', queue'[s][i].type = "mark"
          PROVE  \/ queue'[s][i].op \in executed'
                 \/ \E j \in Places(s)' : j < i /\ queue'[s][j] = Kernel(queue'[s][i].op)
      <3>1. CASE i \in Places(s) /\ queue'[s][i] = queue[s][i]
        BY <1>u, <1>10, <2>1, <3>1 DEF IInv, MarkInv
      <3>2. CASE s = t /\ i = Len(q) + 1 /\ queue'[s][i] = Mark(o)
        <4>1. \A j \in Places(t) : j < Len(q) + 1
          BY <1>3 DEF Places, q
        <4> QED
          BY <1>u, <1>k, <1>1, <1>10, <1>11, <3>2, <4>1
      <3> QED
        BY <1>9, <3>1, <3>2
    <2> QED
      BY <2>1 DEF MarkInv
  <1>15. EnqueuedInv'
    <2>1. \A p \in Op : stage'[p] = "enqueued" => stage[p] = "enqueued"
      BY <1>2 DEF IInv, TypeOK
    <2>2. \A p \in Op : MarkStream(p)' = MarkStream(p)
      BY <1>u DEF MarkStream
    <2>3. \A p \in Op : stage[p] = "enqueued" => MarkStream(p) \in Stream
      BY DEF IInv, ActorInv, MarkStream
    <2>4. ASSUME NEW p \in Op, stage'[p] = "enqueued"
          PROVE  \/ p \in executed'
                 \/ \E i \in Places(MarkStream(p))' : queue'[MarkStream(p)'][i] = Kernel(p)
      BY <1>u, <1>1, <1>10, <2>1, <2>2, <2>3, <2>4 DEF IInv, EnqueuedInv, Places
    <2> QED
      BY <2>4 DEF EnqueuedInv, Places
  <1>16. AwaitingInv'
    <2>1. \A e : Queued(e) => Queued(e)'
      BY <1>10 DEF Queued, Places
    <2>2. \A p \in Op : stage'[p] = "awaiting" => stage[p] = "awaiting" \/ p = o
      BY <1>2 DEF IInv, TypeOK
    <2>3. Queued(Mark(o))'
      BY <1>1, <1>3, <1>5 DEF Queued, Mark
    <2> QED
      BY <1>u, <2>1, <2>2, <2>3 DEF IInv, AwaitingInv, Mark
  <1>17. TaskInv' /\ OkIsExecuted'
    BY <1>1, <1>2 DEF IInv, TypeOK, TaskInv, OkIsExecuted
  <1> QED
    BY <1>6, <1>8, <1>12, <1>13, <1>14, <1>15, <1>16, <1>17 DEF IInv

\* A reply: Ok is sent only when the mark is gone from the stream, an error
\* says nothing of the kernel.
LEMMA SendStep ==
    ASSUME IInv, NEW o \in Op,
           RegisterFails(o) \/ Completes(o) \/ TimesOut(o) \/ SyncFails(o)
    PROVE  IInv'
  <1>1. PICK r : /\ Send(o, r) /\ stage[o] \in {"enqueued", "awaiting"}
                 /\ r \in Replies \ {"none"}
                 /\ r = "ok" => o \in executed
    <2>1. CASE RegisterFails(o)
      <3>1. strategy \in {"hostfn", "polled", "unbounded", "sync"}
        BY CompletionAssumption DEF IInv, TypeOK
      <3>2. RegisterError \subseteq {"driver", "library", "unrecoverable"}
        BY <3>1 DEF RegisterError
      <3>3. PICK r \in RegisterError : Send(o, r)
        BY <2>1 DEF RegisterFails
      <3> QED
        BY <2>1, <3>2, <3>3 DEF RegisterFails, Replies, Errors
    <2>2. CASE Completes(o)
      BY <2>2 DEF Completes, IInv, AwaitingInv, Replies
    <2>3. CASE TimesOut(o)
      BY <2>3 DEF TimesOut, Replies, Errors
    <2>4. CASE SyncFails(o)
      BY <2>4 DEF SyncFails, Replies, Errors
    <2> QED
      BY <2>1, <2>2, <2>3, <2>4
  <1>2. /\ reply' = [reply EXCEPT ![o] = r]
        /\ stage' = [stage EXCEPT ![o] = "replied"]
        /\ UNCHANGED <<strategy, allocator, cursor, streamOf, actorOf, held, queue,
                       executed, poisoned>>
    BY <1>1 DEF Send, config
  <1>3. \A p \in Op : /\ (stage'[p] = "unused") <=> (stage[p] = "unused")
                      /\ stage'[p] \in {"enqueued", "awaiting"} => stage'[p] = stage[p]
    BY <1>1, <1>2 DEF IInv, TypeOK
  <1>u. /\ queue' = queue /\ streamOf' = streamOf /\ actorOf' = actorOf
        /\ executed' = executed /\ poisoned' = poisoned
    BY <1>2
  <1>4. TypeOK'
    BY <1>1, <1>2 DEF IInv, TypeOK
  <1>5. ActorInv' /\ RanInv'
    BY <1>u, <1>3 DEF IInv, TypeOK, ActorInv, RanInv
  <1>6. PlaceInv'
    BY <1>u, <1>3, EntryFacts DEF IInv, PlaceInv, Places
  <1>7. KernelInv' /\ MarkInv'
    BY <1>u DEF IInv, KernelInv, MarkInv, Places
  <1>8. EnqueuedInv' /\ AwaitingInv'
    BY <1>u, <1>3 DEF IInv, EnqueuedInv, AwaitingInv, MarkStream, Places, Queued
  <1>9. TaskInv' /\ OkIsExecuted'
    BY <1>1, <1>2 DEF IInv, TypeOK, TaskInv, OkIsExecuted
  <1> QED
    BY <1>4, <1>5, <1>6, <1>7, <1>8, <1>9 DEF IInv

\* The keep-alive is dropped after the reply.
LEMMA ReleaseStep ==
    ASSUME IInv, NEW o \in Op, Release(o)
    PROVE  IInv'
  <1>1. /\ stage[o] = "replied"
        /\ held' = [held EXCEPT ![o] = FALSE]
        /\ stage' = [stage EXCEPT ![o] = "released"]
        /\ UNCHANGED <<strategy, allocator, cursor, streamOf, actorOf, reply, queue,
                       executed, poisoned>>
    BY DEF Release, config
  <1>2. \A p \in Op : /\ (stage'[p] = "unused") <=> (stage[p] = "unused")
                      /\ stage'[p] \in {"enqueued", "awaiting"} => stage'[p] = stage[p]
    BY <1>1 DEF IInv, TypeOK
  <1>u. /\ queue' = queue /\ streamOf' = streamOf /\ actorOf' = actorOf
        /\ executed' = executed /\ poisoned' = poisoned
    BY <1>1
  <1>3. TypeOK'
    BY <1>1 DEF IInv, TypeOK
  <1>4. ActorInv' /\ RanInv'
    BY <1>u, <1>2 DEF IInv, TypeOK, ActorInv, RanInv
  <1>5. PlaceInv'
    BY <1>u, <1>2, EntryFacts DEF IInv, PlaceInv, Places
  <1>6. KernelInv' /\ MarkInv'
    BY <1>u DEF IInv, KernelInv, MarkInv, Places
  <1>7. EnqueuedInv' /\ AwaitingInv'
    BY <1>u, <1>2 DEF IInv, EnqueuedInv, AwaitingInv, MarkStream, Places, Queued
  <1>8. TaskInv' /\ OkIsExecuted'
    BY <1>1 DEF IInv, TypeOK, TaskInv, OkIsExecuted
  <1> QED
    BY <1>3, <1>4, <1>5, <1>6, <1>7, <1>8 DEF IInv

\* The GPU finishes the first entry of a stream: a kernel has run, or a mark
\* fires whose kernel, ahead of it, has run.
LEMMA RunStep ==
    ASSUME IInv, NEW t \in Stream, Run(t)
    PROVE  IInv'
  <1> DEFINE q == queue[t]
             h == Head(queue[t])
  <1>1. /\ q \in Seq(Entries) /\ q # <<>> /\ ~poisoned
        /\ queue' = [queue EXCEPT ![t] = Tail(q)]
        /\ h.type = "kernel" => executed' = executed \cup {h.op}
        /\ h.type # "kernel" => executed' = executed
    BY DEF IInv, TypeOK, Run
  <1>u. UNCHANGED <<strategy, allocator, cursor, streamOf, actorOf, stage, held, reply, poisoned>>
    BY DEF Run, config
  <1>2. /\ queue'[t] = Tail(q)
        /\ \A s \in Stream : s # t => queue'[s] = queue[s]
    BY <1>1 DEF IInv, TypeOK
  <1>3. /\ Tail(q) \in Seq(Entries)
        /\ h = queue[t][1] /\ 1 \in Places(t)
        /\ \A i \in 1..Len(Tail(q)) : i + 1 \in Places(t) /\ Tail(q)[i] = queue[t][i + 1]
        /\ \A i \in Places(t) : i # 1 => i - 1 \in 1..Len(Tail(q)) /\ Tail(q)[i - 1] = queue[t][i]
    BY <1>1, TailFacts DEF Places
  <1> HIDE DEF q
  \* Every entry that is left was there, and every one but the head is left.
  <1>4. \A i \in Places(t)' : i + 1 \in Places(t) /\ queue'[t][i] = queue[t][i + 1]
    BY <1>2, <1>3 DEF Places
  <1>5. \A i \in Places(t) : i # 1 => i - 1 \in Places(t)' /\ queue'[t][i - 1] = queue[t][i]
    BY <1>2, <1>3 DEF Places
  <1>6. \A s \in Stream : s # t => Places(s)' = Places(s) /\ queue'[s] = queue[s]
    BY <1>2 DEF Places
  <1>7. h.op \in Op /\ h.type \in {"kernel", "mark"} /\ h = queue[t][1]
    BY <1>3, EntryFacts DEF IInv
  <1> HIDE DEF h
  <1>8. \A p \in executed : p \in executed'
    BY <1>1
  <1>9. \A p \in executed' : p \in executed \/ (h.type = "kernel" /\ p = h.op)
    BY <1>1
  <1>p. \A s \in Stream : \A i \in Places(s)' : \E j \in Places(s) :
            /\ queue'[s][i] = queue[s][j]
            /\ s = t => j = i + 1
            /\ s # t => j = i
    BY <1>4, <1>6
  <1>n. \A s \in Stream : \A i \in Places(s) \cup Places(s)' : i \in Nat /\ i > 0
    BY DEF Places
  <1>10. TypeOK'
    <2>1. executed' \subseteq Op
      BY <1>7, <1>9 DEF IInv, TypeOK
    <2>2. queue' \in [Stream -> Seq(Entries)]
      BY <1>1, <1>3 DEF IInv, TypeOK
    <2> QED
      BY <1>u, <2>1, <2>2 DEF IInv, TypeOK
  <1>11. ActorInv' /\ TaskInv'
    BY <1>u DEF IInv, ActorInv, TaskInv
  <1>12. RanInv'
    BY <1>u, <1>3, <1>7, <1>9 DEF IInv, RanInv, PlaceInv
  <1>13. PlaceInv'
    BY <1>u, <1>p DEF IInv, PlaceInv
  <1>14. KernelInv'
    <2>1. ASSUME NEW s \in Stream, NEW i \in Places(s)', queue'[s][i].type = "kernel"
          PROVE  /\ queue'[s][i].op \notin executed'
                 /\ \A j \in Places(s)' : queue'[s][j] = queue'[s][i] => j = i
      <3>1. PICK k \in Places(s) : /\ queue'[s][i] = queue[s][k]
                                   /\ s = t => k = i + 1
                                   /\ s # t => k = i
        BY <1>p
      <3>2. queue[s][k].op \notin executed /\ \A j \in Places(s) : queue[s][j] = queue[s][k] => j = k
        BY <2>1, <3>1 DEF IInv, KernelInv
      <3>3. ~(h.type = "kernel" /\ queue[s][k].op = h.op)
        <4>1. SUFFICES ASSUME h.type = "kernel", queue[s][k].op = h.op PROVE FALSE
          OBVIOUS
        <4>2. queue[s][k] = Kernel(h.op) /\ h = Kernel(h.op)
          BY <1>3, <1>7, <2>1, <3>1, <4>1, EntryFacts DEF IInv
        <4>3. s = t
          BY <1>3, <1>7, <4>1 DEF IInv, PlaceInv
        <4> QED
          BY <1>3, <1>7, <1>n, <3>1, <3>2, <4>2, <4>3
      <3>4. \A j \in Places(s)' : queue'[s][j] = queue'[s][i] => j = i
        BY <1>p, <1>n, <3>1, <3>2
      <3> QED
        BY <1>9, <3>1, <3>2, <3>3, <3>4
    <2> QED
      BY <2>1 DEF KernelInv
  <1>15. MarkInv'
    <2>1. ASSUME NEW s \in Stream, NEW i \in Places(s)', queue'[s][i].type = "mark"
          PROVE  \/ queue'[s][i].op \in executed'
                 \/ \E j \in Places(s)' : j < i /\ queue'[s][j] = Kernel(queue'[s][i].op)
      <3>1. PICK k \in Places(s) : /\ queue'[s][i] = queue[s][k]
                                   /\ s = t => k = i + 1
                                   /\ s # t => k = i
        BY <1>p
      <3> DEFINE p == queue[s][k].op
      <3>2. CASE p \in executed
        BY <1>8, <3>1, <3>2
      <3>3. CASE p \notin executed
        <4>1. PICK m \in Places(s) : m < k /\ queue[s][m] = Kernel(p)
          BY <2>1, <3>1, <3>3 DEF IInv, MarkInv
        <4>2. CASE s # t
          BY <1>6, <3>1, <4>1, <4>2
        <4>3. CASE s = t /\ m = 1
          <5>1. h.type = "kernel" /\ h.op = p
            BY <1>7, <4>1, <4>3 DEF Kernel
          <5> QED
            BY <1>1, <3>1, <5>1
        <4>4. CASE s = t /\ m # 1
          BY <1>5, <1>n, <3>1, <4>1, <4>4
        <4> QED
          BY <4>2, <4>3, <4>4
      <3> QED
        BY <3>2, <3>3
    <2> QED
      BY <2>1 DEF MarkInv
  <1>16. EnqueuedInv'
    <2>1. ASSUME NEW p \in Op, stage[p] = "enqueued", NEW s, s = MarkStream(p)
          PROVE  p \in executed' \/ \E i \in Places(s)' : queue'[s][i] = Kernel(p)
      <3>1. s \in Stream
        BY <2>1 DEF IInv, ActorInv, MarkStream
      <3>2. p \in executed \/ \E i \in Places(s) : queue[s][i] = Kernel(p)
        BY <1>1, <2>1 DEF IInv, EnqueuedInv
      <3>3. CASE p \in executed
        BY <1>8, <3>3
      <3>4. ASSUME NEW i \in Places(s), queue[s][i] = Kernel(p), s # t
            PROVE  \E j \in Places(s)' : queue'[s][j] = Kernel(p)
        BY <1>6, <3>1, <3>4
      <3>5. ASSUME NEW i \in Places(s), queue[s][i] = Kernel(p), s = t, i # 1
            PROVE  \E j \in Places(s)' : queue'[s][j] = Kernel(p)
        BY <1>5, <3>5
      <3>6. ASSUME NEW i \in Places(s), queue[s][i] = Kernel(p), s = t, i = 1
            PROVE  p \in executed'
        <4>1. h.type = "kernel" /\ h.op = p
          BY <1>7, <3>6 DEF Kernel
        <4> QED
          BY <1>1, <4>1
      <3> QED
        BY <3>2, <3>3, <3>4, <3>5, <3>6
    <2>2. \A p \in Op : MarkStream(p)' = MarkStream(p)
      BY <1>u DEF MarkStream
    <2> QED
      BY <1>u, <2>1, <2>2 DEF EnqueuedInv, Places
  <1>17. AwaitingInv'
    <2>1. ASSUME NEW p \in Op, stage[p] = "awaiting"
          PROVE  p \in executed' \/ Queued(Mark(p))'
      <3>1. CASE p \in executed
        BY <1>8, <3>1
      <3>2. CASE p \notin executed
        <4>0. PICK s \in Stream : \E i \in Places(s) : queue[s][i] = Mark(p)
          BY <1>1, <2>1, <3>2 DEF IInv, AwaitingInv, Queued, Places
        <4>1. PICK i \in Places(s) : queue[s][i] = Mark(p)
          BY <4>0
        <4>2. CASE s # t
          BY <1>6, <4>1, <4>2 DEF Queued, Places, Mark
        <4>3. CASE s = t /\ i # 1
          BY <1>5, <4>1, <4>3 DEF Queued, Places, Mark
        <4>4. CASE s = t /\ i = 1
          <5>1. queue[s][i].type = "mark" /\ queue[s][i].op = p
            BY <4>1 DEF Mark
          <5>2. \A j \in Places(s) : ~(j < i)
            BY <1>n, <4>4
          <5> QED
            BY <3>2, <5>1, <5>2 DEF IInv, MarkInv
        <4> QED
          BY <4>2, <4>3, <4>4
      <3> QED
        BY <3>1, <3>2
    <2> QED
      BY <1>u, <2>1 DEF AwaitingInv
  <1>18. OkIsExecuted'
    BY <1>u, <1>8 DEF IInv, OkIsExecuted
  <1> QED
    BY <1>10, <1>11, <1>12, <1>13, <1>14, <1>15, <1>16, <1>17, <1>18 DEF IInv

\* A fault abandons what is on the streams: nothing is promised of it.
LEMMA PoisonStep ==
    ASSUME IInv, NEW s \in Stream, Poison(s)
    PROVE  IInv'
  <1>1. /\ poisoned' = TRUE /\ queue' = [t \in Stream |-> <<>>]
        /\ UNCHANGED <<strategy, allocator, cursor, streamOf, actorOf, stage, held, reply,
                       executed>>
    BY DEF Poison, config
  <1>2. \A t \in Stream : Places(t)' = {}
    BY <1>1 DEF Places
  <1>3. TypeOK'
    BY <1>1 DEF IInv, TypeOK
  <1>4. ActorInv' /\ RanInv' /\ TaskInv' /\ OkIsExecuted'
    BY <1>1 DEF IInv, ActorInv, RanInv, TaskInv, OkIsExecuted
  <1>5. PlaceInv' /\ KernelInv' /\ MarkInv'
    BY <1>2 DEF PlaceInv, KernelInv, MarkInv
  <1>6. EnqueuedInv' /\ AwaitingInv'
    BY <1>1 DEF EnqueuedInv, AwaitingInv
  <1> QED
    BY <1>3, <1>4, <1>5, <1>6 DEF IInv

-----------------------------------------------------------------------------
\* The strengthened invariant is inductive.
LEMMA Induction == IInv /\ [Next]_vars => IInv'
  <1> SUFFICES ASSUME IInv, [Next]_vars PROVE IInv'
    OBVIOUS
  <1>1. ASSUME NEW a \in Actor, Acquire(a) PROVE IInv'
    BY <1>1, AcquireStep
  <1>2. ASSUME NEW o \in Op, NEW a \in Actor, Enqueue(o, a) PROVE IInv'
    BY <1>2, EnqueueStep
  <1>3. ASSUME NEW o \in Op, NEW a \in Actor, EnqueueFails(o, a) PROVE IInv'
    BY <1>3, EnqueueFailsStep
  <1>4. ASSUME NEW o \in Op, TaskStep(o) PROVE IInv'
    BY <1>4, RegisterStep, SendStep, ReleaseStep DEF TaskStep
  <1>5. ASSUME NEW s \in Stream, Run(s) PROVE IInv'
    BY <1>5, RunStep
  <1>6. ASSUME NEW s \in Stream, Poison(s) PROVE IInv'
    BY <1>6, PoisonStep
  <1>7. CASE UNCHANGED vars
    BY <1>7 DEF vars, IInv, TypeOK, ActorInv, RanInv, PlaceInv, KernelInv, MarkInv, EnqueuedInv,
               AwaitingInv, TaskInv, OkIsExecuted, Places, MarkStream, Queued
  <1> QED
    BY <1>1, <1>2, <1>3, <1>4, <1>5, <1>6, <1>7 DEF Next

\* Whichever actors share a stream and however their kernels, marks, timeouts
\* and faults interleave, run_kernel answers Ok only for a kernel that ran.
THEOREM OkMeansExecuted == Spec => []OkIsExecuted
  <1>1. IInv => OkIsExecuted
    BY DEF IInv
  <1> QED
    BY InitInv, Induction, <1>1, PTL DEF Spec

\* The keep-alive that run_kernel moves into its task outlives the kernel,
\* except after an error that hides the kernel's end.
THEOREM InputsOutliveKernel == Spec => []HeldUntilComplete
  BY InitInv, Induction, IInvHeld, PTL DEF Spec

-----------------------------------------------------------------------------
(* The pool of pinned buffers. *)

\* A client with a request in the mailbox has no other one there and no buffer.
Asking(q, st) ==
    /\ \A i \in 1..Len(q) : q[i].type = "Acquire" => st[q[i].client] \in {"waiting", "gone"}
    /\ \A i, j \in 1..Len(q) :
          q[i].type = "Acquire" /\ q[j].type = "Acquire" /\ q[i].client = q[j].client => i = j

\* The returns in a mailbox or channel are of the first generation.
FromStart(q) == \A i \in 1..Len(q) : q[i] \in Returns => q[i].generation = 0

\* The handles that are out are, too, and lead to the pump.
Linked(st, hs) == \A c \in Clients : st[c] = "holding" => hs[c].generation = 0 /\ hs[c].connected = TRUE

PoolSized(q) == \A i \in 1..Len(q) : ~Oversize(q[i].size)

\* Before a restart nothing is of another generation, and only pool-sized
\* slots are kept.
FirstGeneration ==
    /\ generation = 0 /\ connected = TRUE
    /\ Linked(status, handle) /\ FromStart(mailbox) /\ FromStart(pipe) /\ PoolSized(free)

\* With h handles out, b returns in the mailbox and p in the channel, hp, bp
\* and pp of them pool-sized, f slots free and e failed allocations: in_use is
\* exact, every slot and every failed allocation has a place and no other place is
\* taken, and the pool is bounded.
Balanced(h, b, p, hp, bp, pp, f, e, used, minted) ==
    /\ used = h + b + p
    /\ f + (h + b + p) + e = minted
    /\ f + hp + bp + pp <= MaxBuffers

Balance ==
    Balanced(Cardinality(Holding), Cardinality(Where(mailbox, Returns)), Len(pipe),
             Cardinality(HoldingPooled), Cardinality(Where(mailbox, PooledReturns)),
             Cardinality(Where(pipe, PooledReturns)), Len(free), faults, inUse, totalMinted)

LendingInv ==
    /\ PoolTypeOK /\ Asking(mailbox, status)
    /\ incarnation = 0 => FirstGeneration /\ Balance

Statuses == {"idle", "waiting", "gone", "holding", "refused"}

Weight(e, T) == IF e \in T THEN 1 ELSE 0

LEMMA WhereFacts ==
    ASSUME NEW S, NEW q \in Seq(S), NEW T, NEW U, T \subseteq U
    PROVE  /\ IsFiniteSet(Where(q, T)) /\ Cardinality(Where(q, T)) \in Nat
           /\ Cardinality(Where(q, T)) <= Cardinality(Where(q, U)) /\ Cardinality(Where(q, T)) <= Len(q)
<1>1. PICK n \in Nat : n = Len(q)
  OBVIOUS
<1>2. IsFiniteSet(1..n) /\ Cardinality(1..n) = n
  <2>1. 1 \in Int /\ n \in Int
    BY <1>1
  <2>2. IsFiniteSet(1..n) /\ Cardinality(1..n) = IF 1 > n THEN 0 ELSE n - 1 + 1
    BY <2>1, FS_Interval
  <2> QED
    BY <2>2, <1>1
<1>3. Where(q, T) \in SUBSET (1..n) /\ Where(q, U) \in SUBSET (1..n) /\ Where(q, T) \in SUBSET Where(q, U)
  BY <1>1 DEF Where
<1>4. IsFiniteSet(Where(q, T)) /\ Cardinality(Where(q, T)) <= n /\ IsFiniteSet(Where(q, U))
  BY <1>2, <1>3, FS_Subset
<1>5. Cardinality(Where(q, T)) <= Cardinality(Where(q, U))
  BY <1>3, <1>4, FS_Subset
<1> QED
  BY <1>1, <1>4, <1>5, FS_CardinalityType

\* A message is appended.
LEMMA WhereAppend ==
    ASSUME NEW S, NEW q \in Seq(S), NEW e \in S, NEW T, NEW new, new = Append(q, e)
    PROVE  Cardinality(Where(new, T)) = Cardinality(Where(q, T)) + Weight(e, T)
<1>1. PICK n \in Nat : n = Len(q)
  OBVIOUS
<1>2. Len(new) = n + 1 /\ new[n + 1] = e /\ \A i \in 1..n : new[i] = q[i]
  BY <1>1, AppendProperties
<1>3. PICK W : W = Where(q, T)
  OBVIOUS
<1>4. IsFiniteSet(W) /\ Cardinality(W) \in Nat
  BY <1>3, WhereFacts
<1>5. W = {i \in 1..n : q[i] \in T}
  BY <1>1, <1>3 DEF Where
<1>6. Where(new, T) = {i \in 1..n + 1 : new[i] \in T}
  BY <1>2 DEF Where
<1>7. n + 1 \notin W /\ \A i \in 1..n + 1 : i \in 1..n \/ i = n + 1
  BY <1>1, <1>5
<1>8. CASE e \in T
  <2>1. Where(new, T) = W \cup {n + 1}
    <3>1. \A i : i \in 1..n + 1 <=> i \in 1..n \/ i = n + 1
      BY <1>1
    <3> QED
      BY <3>1, <1>2, <1>5, <1>6, <1>8
  <2>2. Cardinality(W \cup {n + 1}) = Cardinality(W) + 1
    BY <1>4, <1>7, FS_AddElement
  <2> QED
    BY <2>1, <2>2, <1>3, <1>8 DEF Weight
<1>9. CASE e \notin T
  <2>1. Where(new, T) = W
    <3>1. \A i : i \in 1..n + 1 <=> i \in 1..n \/ i = n + 1
      BY <1>1
    <3> QED
      BY <3>1, <1>2, <1>5, <1>6, <1>9
  <2> QED
    BY <2>1, <1>3, <1>4, <1>9 DEF Weight
<1> QED
  BY <1>8, <1>9

\* The two counts of a mailbox.
LEMMA MailGrows ==
    ASSUME NEW q \in Seq(Messages), NEW e \in Messages
    PROVE  /\ Cardinality(Where(Append(q, e), Returns)) = Cardinality(Where(q, Returns)) + Weight(e, Returns)
           /\ Cardinality(Where(Append(q, e), PooledReturns)) =
                Cardinality(Where(q, PooledReturns)) + Weight(e, PooledReturns)
<1>1. PICK new : new = Append(q, e)
  OBVIOUS
<1>2. Cardinality(Where(new, Returns)) = Cardinality(Where(q, Returns)) + Weight(e, Returns)
  BY <1>1, WhereAppend
<1>3. Cardinality(Where(new, PooledReturns)) = Cardinality(Where(q, PooledReturns)) + Weight(e, PooledReturns)
  BY <1>1, WhereAppend
<1> QED
  BY <1>1, <1>2, <1>3

\* The first message is taken.
LEMMA WhereTail ==
    ASSUME NEW S, NEW q \in Seq(S), q # <<>>, NEW T
    PROVE  Cardinality(Where(q, T)) = Cardinality(Where(Tail(q), T)) + Weight(Head(q), T)
<1>1. PICK n \in Nat : n + 1 = Len(q)
  <2>1. Len(q) \in Nat /\ Len(q) # 0
    OBVIOUS
  <2>2. Len(q) - 1 \in Nat /\ (Len(q) - 1) + 1 = Len(q)
    BY <2>1
  <2> QED
    BY <2>2
<1>2. PICK rest : rest = Tail(q) /\ rest \in Seq(S)
  <2>1. Tail(q) \in Seq(S)
    BY HeadTailProperties
  <2> QED
    BY <2>1
<1>3. Len(rest) = n /\ Head(q) = q[1] /\ \A i \in 1..n : rest[i] = q[i + 1]
  BY <1>1, <1>2, HeadTailProperties
<1>4. PICK A : A = Where(rest, T)
  OBVIOUS
<1>5. PICK B : B = Where(q, T) \ {1}
  OBVIOUS
<1>6. A = {i \in 1..n : rest[i] \in T} /\ B = {i \in 1..n + 1 : q[i] \in T} \ {1}
  BY <1>1, <1>3, <1>4, <1>5 DEF Where
<1>7. PICK f : f = [i \in A |-> i + 1]
  OBVIOUS
<1>8. f \in Bijection(A, B)
  <2>1. \A i \in A : i \in 1..n /\ i + 1 \in 1..n + 1 /\ i + 1 # 1 /\ q[i + 1] \in T
    BY <1>1, <1>3, <1>6
  <2>2. f \in [A -> B]
    BY <2>1, <1>6, <1>7
  <2>3. \A i, j \in A : f[i] = f[j] => i = j
    BY <2>1, <1>7
  <2>4. \A k \in B : \E i \in A : f[i] = k
    <3> SUFFICES ASSUME NEW k \in B PROVE \E i \in A : f[i] = k
      OBVIOUS
    <3>1. PICK i \in 1..n : i + 1 = k
      <4>1. k \in 1..n + 1 /\ k # 1
        BY <1>6
      <4>2. k - 1 \in 1..n /\ (k - 1) + 1 = k
        BY <4>1, <1>1
      <4> QED
        BY <4>2
    <3>2. i \in A
      <4>1. q[i + 1] \in T
        BY <3>1, <1>6
      <4> QED
        BY <4>1, <1>3, <1>6
    <3> QED
      BY <3>1, <3>2, <1>7
  <2> QED
    BY <2>2, <2>3, <2>4 DEF Bijection, Injection, Surjection, IsInjective
<1>9. IsFiniteSet(A) /\ Cardinality(A) \in Nat
  BY <1>4, <1>2, WhereFacts
<1>10. Cardinality(B) = Cardinality(A)
  BY <1>8, <1>9, FS_Bijection DEF ExistsBijection
<1>11. IsFiniteSet(Where(q, T)) /\ Cardinality(Where(q, T)) \in Nat
  BY WhereFacts
<1>12. Cardinality(B) = IF 1 \in Where(q, T) THEN Cardinality(Where(q, T)) - 1 ELSE Cardinality(Where(q, T))
  BY <1>5, <1>11, FS_RemoveElement
<1>13. 1 \in Where(q, T) <=> Head(q) \in T
  <2>1. 1 \in 1..n + 1
    BY <1>1
  <2> QED
    BY <2>1, <1>1, <1>3 DEF Where
<1> QED
  BY <1>2, <1>4, <1>9, <1>10, <1>11, <1>12, <1>13 DEF Weight

-----------------------------------------------------------------------------
\* The clients with a buffer, and those with a pool-sized one.
Holders(st) == {c \in Clients : st[c] = "holding"}
HoldersPooled(st, hs) == {c \in Clients : st[c] = "holding" /\ ~Oversize(hs[c].slot.size)}

LEMMA HolderFacts ==
    ASSUME NEW st, NEW hs
    PROVE  /\ IsFiniteSet(Holders(st)) /\ IsFiniteSet(HoldersPooled(st, hs))
           /\ Cardinality(Holders(st)) \in Nat /\ Cardinality(HoldersPooled(st, hs)) \in Nat
           /\ Cardinality(HoldersPooled(st, hs)) <= Cardinality(Holders(st))
<1>1. Holders(st) \in SUBSET Clients /\ HoldersPooled(st, hs) \in SUBSET Holders(st)
  BY DEF Holders, HoldersPooled
<1>2. IsFiniteSet(Holders(st))
  BY <1>1, PinnedPoolAssumption, FS_Subset
<1>3. IsFiniteSet(HoldersPooled(st, hs)) /\ Cardinality(HoldersPooled(st, hs)) <= Cardinality(Holders(st))
  BY <1>1, <1>2, FS_Subset
<1> QED
  BY <1>2, <1>3, FS_CardinalityType

\* The second has the slot s more.
MoreHeld(st, hs, st2, hs2, s) ==
    /\ Cardinality(Holders(st2)) = Cardinality(Holders(st)) + 1
    /\ Cardinality(HoldersPooled(st2, hs2)) = Cardinality(HoldersPooled(st, hs)) + IF Oversize(s.size) THEN 0 ELSE 1

\* A client gets the handle h.
LEMMA HolderGains ==
    ASSUME NEW st \in [Clients -> Statuses], NEW hs \in [Clients -> Handle], NEW c \in Clients, st[c] # "holding",
           NEW h \in Handle, NEW st2, st2 = [st EXCEPT ![c] = "holding"], NEW hs2, hs2 = [hs EXCEPT ![c] = h]
    PROVE  MoreHeld(st, hs, st2, hs2, h.slot)
<1>1. Holders(st2) = Holders(st) \cup {c} /\ c \notin Holders(st)
  BY DEF Holders
<1>2. Cardinality(Holders(st2)) = Cardinality(Holders(st)) + 1
  BY <1>1, HolderFacts, FS_AddElement
<1>3. c \notin HoldersPooled(st, hs)
  BY DEF HoldersPooled
<1>4. CASE Oversize(h.slot.size)
  <2>1. HoldersPooled(st2, hs2) = HoldersPooled(st, hs)
    BY <1>4 DEF HoldersPooled
  <2> QED
    BY <2>1, <1>2, <1>4, HolderFacts DEF MoreHeld
<1>5. CASE ~Oversize(h.slot.size)
  <2>1. HoldersPooled(st2, hs2) = HoldersPooled(st, hs) \cup {c}
    BY <1>5 DEF HoldersPooled
  <2>2. IsFiniteSet(HoldersPooled(st, hs))
    BY HolderFacts
  <2>3. Cardinality(HoldersPooled(st2, hs2)) = Cardinality(HoldersPooled(st, hs)) + 1
    <3>1. PICK A : A = HoldersPooled(st, hs)
      OBVIOUS
    <3>2. Cardinality(A \cup {c}) = Cardinality(A) + 1
      BY <3>1, <2>2, <1>3, FS_AddElement
    <3> QED
      BY <3>1, <3>2, <2>1
  <2> QED
    BY <2>3, <1>2, <1>5 DEF MoreHeld
<1> QED
  BY <1>4, <1>5

\* A client gives its handle up.
LEMMA HolderLoses ==
    ASSUME NEW st \in [Clients -> Statuses], NEW hs \in [Clients -> Handle], NEW c \in Clients, st[c] = "holding",
           NEW v, v # "holding", NEW h, NEW st2, st2 = [st EXCEPT ![c] = v], NEW hs2, hs2 = [hs EXCEPT ![c] = h]
    PROVE  MoreHeld(st2, hs2, st, hs, hs[c].slot)
<1>1. Holders(st) = Holders(st2) \cup {c} /\ c \notin Holders(st2)
  BY DEF Holders
<1>2. Cardinality(Holders(st)) = Cardinality(Holders(st2)) + 1
  BY <1>1, HolderFacts, FS_AddElement
<1>3. c \notin HoldersPooled(st2, hs2)
  BY DEF HoldersPooled
<1>4. CASE Oversize(hs[c].slot.size)
  <2>1. HoldersPooled(st2, hs2) = HoldersPooled(st, hs)
    BY <1>4 DEF HoldersPooled
  <2> QED
    BY <2>1, <1>2, <1>4, HolderFacts DEF MoreHeld
<1>5. CASE ~Oversize(hs[c].slot.size)
  <2>1. HoldersPooled(st, hs) = HoldersPooled(st2, hs2) \cup {c}
    BY <1>5 DEF HoldersPooled
  <2>2. IsFiniteSet(HoldersPooled(st2, hs2))
    BY HolderFacts
  <2>3. Cardinality(HoldersPooled(st, hs)) = Cardinality(HoldersPooled(st2, hs2)) + 1
    <3>1. PICK A : A = HoldersPooled(st2, hs2)
      OBVIOUS
    <3>2. Cardinality(A \cup {c}) = Cardinality(A) + 1
      BY <3>1, <2>2, <1>3, FS_AddElement
    <3> QED
      BY <3>1, <3>2, <2>1
  <2> QED
    BY <2>3, <1>2, <1>5 DEF MoreHeld
<1> QED
  BY <1>4, <1>5

\* The status of a client without a buffer changes.
LEMMA HolderSame ==
    ASSUME \A x \in Clients : (status'[x] = "holding") <=> (status[x] = "holding"), handle' = handle
    PROVE  Holding' = Holding /\ HoldingPooled' = HoldingPooled
<1>1. Holding' = Holding
  BY DEF Holding
<1> QED
  BY <1>1 DEF HoldingPooled

-----------------------------------------------------------------------------
\* The two kinds of messages.
LEMMA MessageFacts ==
    ASSUME NEW m \in Messages
    PROVE  /\ m \in Returns <=> m.type = "InternalReturn"
           /\ m \notin Returns <=> m.type = "Acquire"
           /\ m \in Returns => m.slot \in Slot /\ m.slot.size \in Sizes /\ m.generation \in Nat
           /\ m \in PooledReturns <=> m \in Returns /\ ~Oversize(m.slot.size)
           /\ m.type = "Acquire" => m.client \in Clients /\ m.size \in Sizes
<1>1. PooledReturns \subseteq Returns
  BY DEF PooledReturns, Returns, Slot
<1>2. CASE m \in Returns
  <2>1. m.type = "InternalReturn" /\ m.slot \in Slot /\ m.slot.size \in Sizes /\ m.generation \in Nat
    BY <1>2 DEF Returns, Slot
  <2>2. m \in PooledReturns => ~Oversize(m.slot.size)
    BY DEF PooledReturns
  <2>3. ~Oversize(m.slot.size) => m \in PooledReturns
    <3> SUFFICES ASSUME ~Oversize(m.slot.size) PROVE m \in PooledReturns
      OBVIOUS
    <3>1. PICK s : s = m.slot
      OBVIOUS
    <3>2. s \in [size : {n \in Sizes : ~Oversize(n)}, home : Nat]
      BY <3>1, <2>1 DEF Slot
    <3> QED
      BY <3>1, <3>2, <1>2 DEF Returns, PooledReturns
  <2> QED
    BY <1>2, <2>1, <2>2, <2>3
<1>3. CASE m \notin Returns
  <2>1. m.type = "Acquire" /\ m.client \in Clients /\ m.size \in Sizes
    BY <1>3 DEF Messages
  <2> QED
    BY <1>1, <1>3, <2>1
<1> QED
  BY <1>2, <1>3

LEMMA ReturnsFacts ==
    PooledReturns \subseteq Returns /\ Returns \subseteq Messages
  BY DEF PooledReturns, Returns, Slot, Messages

\* The first message is taken, and only its client moves on.
LEMMA AskingTail ==
    ASSUME NEW q \in Seq(Messages), q # <<>>, NEW st \in [Clients -> Statuses], Asking(q, st),
           NEW st2, \A x \in Clients : st2[x] = st[x] \/ (Head(q).type = "Acquire" /\ x = Head(q).client)
    PROVE  Asking(Tail(q), st2)
<1>1. PICK n \in Nat : n + 1 = Len(q)
  <2>1. Len(q) \in Nat /\ Len(q) # 0
    OBVIOUS
  <2>2. Len(q) - 1 \in Nat /\ (Len(q) - 1) + 1 = Len(q)
    BY <2>1
  <2> QED
    BY <2>2
<1>2. PICK rest : rest = Tail(q)
  OBVIOUS
<1>3. Len(rest) = n /\ \A i \in 1..n : rest[i] = q[i + 1]
  BY <1>1, <1>2, HeadTailProperties
<1>4. PICK h : h = Head(q) /\ h = q[1]
  OBVIOUS
<1>5. ASSUME NEW i \in 1..n, rest[i].type = "Acquire" PROVE st2[rest[i].client] \in {"waiting", "gone"}
  <2>1. PICK m : m = rest[i]
    OBVIOUS
  <2>2. i + 1 \in 1..Len(q) /\ 1 \in 1..Len(q) /\ i + 1 # 1 /\ m = q[i + 1]
    BY <2>1, <1>1, <1>3
  <2>3. m \in Messages /\ m.type = "Acquire"
    BY <2>1, <2>2, <1>5
  <2>4. m.client \in Clients
    BY <2>3, MessageFacts
  <2>5. st[m.client] \in {"waiting", "gone"}
    BY <2>2, <2>3 DEF Asking
  <2>6. ~(h.type = "Acquire" /\ m.client = h.client)
    BY <2>2, <2>3, <1>4 DEF Asking
  <2>7. st2[m.client] = st[m.client]
    BY <2>4, <2>6, <1>4
  <2> QED
    BY <2>1, <2>5, <2>7
<1>6. ASSUME NEW i \in 1..n, NEW j \in 1..n, rest[i].type = "Acquire", rest[j].type = "Acquire",
             rest[i].client = rest[j].client
      PROVE  i = j
  <2>1. i + 1 \in 1..Len(q) /\ j + 1 \in 1..Len(q) /\ rest[i] = q[i + 1] /\ rest[j] = q[j + 1]
    BY <1>1, <1>3
  <2>2. i + 1 = j + 1
    BY <2>1, <1>6 DEF Asking
  <2> QED
    BY <2>2
<1> QED
  BY <1>2, <1>3, <1>5, <1>6 DEF Asking

\* A message is sent: a return, or the only request of its client.
LEMMA AskingAppend ==
    ASSUME NEW q \in Seq(Messages), NEW st \in [Clients -> Statuses], Asking(q, st), NEW m \in Messages,
           NEW st2, \A x \in Clients : st2[x] = st[x] \/ (m.type = "Acquire" /\ x = m.client),
           m.type = "Acquire" => st[m.client] \notin {"waiting", "gone"} /\ st2[m.client] = "waiting"
    PROVE  Asking(Append(q, m), st2)
<1>1. PICK n \in Nat : n = Len(q)
  OBVIOUS
<1>2. PICK new : new = Append(q, m)
  OBVIOUS
<1>3. Len(new) = n + 1 /\ new[n + 1] = m /\ \A i \in 1..n : new[i] = q[i]
  BY <1>1, <1>2, AppendProperties
<1>4. ASSUME NEW i \in 1..n, q[i].type = "Acquire"
      PROVE  /\ st2[q[i].client] \in {"waiting", "gone"}
             /\ ~(m.type = "Acquire" /\ q[i].client = m.client)
  <2>1. PICK x : x = q[i]
    OBVIOUS
  <2>2. x \in Messages /\ i \in 1..Len(q)
    BY <2>1, <1>1
  <2>3. x.client \in Clients /\ st[x.client] \in {"waiting", "gone"}
    BY <2>1, <2>2, <1>4, MessageFacts DEF Asking
  <2>4. ~(m.type = "Acquire" /\ x.client = m.client)
    BY <2>3
  <2>5. st2[x.client] = st[x.client]
    BY <2>3, <2>4
  <2> QED
    BY <2>1, <2>3, <2>4, <2>5
<1>5. \A i \in 1..n + 1 : i \in 1..n \/ i = n + 1
  BY <1>1
<1>6. ASSUME NEW i \in 1..n + 1, new[i].type = "Acquire" PROVE st2[new[i].client] \in {"waiting", "gone"}
  <2>1. CASE i \in 1..n
    BY <2>1, <1>3, <1>4, <1>6
  <2>2. CASE i = n + 1
    BY <2>2, <1>3, <1>6
  <2> QED
    BY <2>1, <2>2, <1>5
<1>7. ASSUME NEW i \in 1..n + 1, NEW j \in 1..n + 1, new[i].type = "Acquire", new[j].type = "Acquire",
             new[i].client = new[j].client
      PROVE  i = j
  <2>1. CASE i \in 1..n /\ j \in 1..n
    <3>1. new[i] = q[i] /\ new[j] = q[j] /\ i \in 1..Len(q) /\ j \in 1..Len(q)
      BY <2>1, <1>1, <1>3
    <3> QED
      BY <3>1, <1>7 DEF Asking
  <2>2. CASE i \in 1..n /\ j = n + 1
    BY <2>2, <1>3, <1>4, <1>7
  <2>3. CASE i = n + 1 /\ j \in 1..n
    BY <2>3, <1>3, <1>4, <1>7
  <2>4. CASE i = n + 1 /\ j = n + 1
    BY <2>4
  <2> QED
    BY <2>1, <2>2, <2>3, <2>4, <1>5
<1> QED
  BY <1>2, <1>3, <1>6, <1>7 DEF Asking

LEMMA FromStartFacts ==
    ASSUME NEW S, NEW q \in Seq(S), FromStart(q)
    PROVE  /\ \A m \in S : (m \in Returns => m.generation = 0) => FromStart(Append(q, m))
           /\ q # <<>> => FromStart(Tail(q)) /\ (Head(q) \in Returns => Head(q).generation = 0)
<1>1. PICK n \in Nat : n = Len(q)
  OBVIOUS
<1>2. ASSUME NEW m \in S, m \in Returns => m.generation = 0 PROVE FromStart(Append(q, m))
  <2>1. PICK new : new = Append(q, m)
    OBVIOUS
  <2>2. Len(new) = n + 1 /\ new[n + 1] = m /\ \A i \in 1..n : new[i] = q[i]
    BY <2>1, <1>1, AppendProperties
  <2>3. \A i \in 1..n + 1 : i \in 1..n \/ i = n + 1
    BY <1>1
  <2>4. \A i \in 1..n : q[i] \in Returns => q[i].generation = 0
    BY <1>1 DEF FromStart
  <2>5. ASSUME NEW i \in 1..n + 1, new[i] \in Returns PROVE new[i].generation = 0
    BY <2>2, <2>3, <2>4, <2>5, <1>2
  <2> QED
    BY <2>1, <2>2, <2>5 DEF FromStart
<1>3. ASSUME q # <<>> PROVE FromStart(Tail(q)) /\ (Head(q) \in Returns => Head(q).generation = 0)
  <2>1. PICK rest : rest = Tail(q)
    OBVIOUS
  <2>2. /\ Len(rest) = n - 1 /\ \A i \in 1..n - 1 : rest[i] = q[i + 1] /\ i + 1 \in 1..n
        /\ Head(q) = q[1] /\ 1 \in 1..n
    BY <2>1, <1>1, <1>3, HeadTailProperties
  <2>3. \A i \in 1..n : q[i] \in Returns => q[i].generation = 0
    BY <1>1 DEF FromStart
  <2> QED
    BY <2>1, <2>2, <2>3 DEF FromStart
<1> QED
  BY <1>2, <1>3

\* The figures of Balance.
LEMMA Figures ==
    ASSUME PoolTypeOK
    PROVE  /\ Holding = Holders(status) /\ HoldingPooled = HoldersPooled(status, handle)
           /\ Cardinality(Holding) \in Nat /\ Cardinality(HoldingPooled) \in Nat
           /\ Cardinality(HoldingPooled) <= Cardinality(Holding)
           /\ Cardinality(Where(mailbox, Returns)) \in Nat /\ Cardinality(Where(mailbox, PooledReturns)) \in Nat
           /\ Cardinality(Where(mailbox, PooledReturns)) <= Cardinality(Where(mailbox, Returns))
           /\ Len(pipe) \in Nat /\ Cardinality(Where(pipe, PooledReturns)) \in Nat
           /\ Cardinality(Where(pipe, PooledReturns)) <= Len(pipe)
           /\ Len(free) \in Nat /\ inUse \in Nat /\ totalMinted \in Nat /\ MaxBuffers \in Nat
<1>1. Holding = Holders(status) /\ HoldingPooled = HoldersPooled(status, handle)
  BY DEF Holding, HoldingPooled, Holders, HoldersPooled
<1>2. /\ Cardinality(Holders(status)) \in Nat /\ Cardinality(HoldersPooled(status, handle)) \in Nat
      /\ Cardinality(HoldersPooled(status, handle)) <= Cardinality(Holders(status))
  BY HolderFacts
<1>3. mailbox \in Seq(Messages) /\ pipe \in Seq(Returns) /\ free \in Seq(Slot)
  BY DEF PoolTypeOK
<1>4. /\ Cardinality(Where(mailbox, PooledReturns)) \in Nat
      /\ Cardinality(Where(mailbox, PooledReturns)) <= Cardinality(Where(mailbox, Returns))
  BY <1>3, ReturnsFacts, WhereFacts
<1>5. Cardinality(Where(mailbox, Returns)) \in Nat
  BY <1>3, WhereFacts
<1>6. Cardinality(Where(pipe, PooledReturns)) \in Nat /\ Cardinality(Where(pipe, PooledReturns)) <= Len(pipe)
  BY <1>3, WhereFacts
<1> QED
  BY <1>1, <1>2, <1>3, <1>4, <1>5, <1>6, PinnedPoolAssumption DEF PoolTypeOK

\* Balance with the figures named.
LEMMA NamedFigures ==
    ASSUME PoolTypeOK, Balance
    PROVE  \E h, b, p, hp, bp, pp, f \in Nat :
             /\ h = Cardinality(Holding) /\ b = Cardinality(Where(mailbox, Returns)) /\ p = Len(pipe)
             /\ hp = Cardinality(HoldingPooled) /\ bp = Cardinality(Where(mailbox, PooledReturns))
             /\ pp = Cardinality(Where(pipe, PooledReturns)) /\ f = Len(free)
             /\ hp <= h /\ bp <= b /\ pp <= p
             /\ Balanced(h, b, p, hp, bp, pp, f, faults, inUse, totalMinted)
  BY Figures DEF Balance

-----------------------------------------------------------------------------
\* What the clients, the mailbox and the channel are.
ClientTypes ==
    /\ mailbox \in Seq(Messages) /\ pipe \in Seq(Returns)
    /\ status \in [Clients -> Statuses] /\ handle \in [Clients -> Handle]

LEMMA TypesOfClients ==
    ASSUME PoolTypeOK
    PROVE  ClientTypes
  BY DEF PoolTypeOK, ClientTypes, Statuses

\* The first message is a request.
LEMMA FirstRequest ==
    ASSUME LendingInv, Handling("Acquire")
    PROVE  /\ Head(mailbox) \in Messages /\ Head(mailbox) \notin Returns /\ Head(mailbox).type = "Acquire"
           /\ Head(mailbox).client \in Clients /\ Head(mailbox).size \in Sizes
           /\ status[Head(mailbox).client] \in {"waiting", "gone"}
           /\ mailbox' \in Seq(Messages)
           /\ FromStart(mailbox) => FromStart(mailbox)'
           /\ Cardinality(Where(mailbox, Returns))' = Cardinality(Where(mailbox, Returns))
           /\ Cardinality(Where(mailbox, PooledReturns))' = Cardinality(Where(mailbox, PooledReturns))
<1>1. mailbox # <<>> /\ Head(mailbox).type = "Acquire" /\ mailbox' = Tail(mailbox)
  BY DEF Handling
<1>2. mailbox \in Seq(Messages)
  BY DEF LendingInv, PoolTypeOK
<1>3. PICK m \in Messages : m = Head(mailbox) /\ m = mailbox[1]
  BY <1>1, <1>2
<1>4. m \notin Returns /\ m \notin PooledReturns /\ m.client \in Clients /\ m.size \in Sizes
  BY <1>1, <1>3, MessageFacts
<1>5. status[m.client] \in {"waiting", "gone"}
  <2>1. Asking(mailbox, status) /\ 1 \in 1..Len(mailbox)
    BY <1>1, <1>2 DEF LendingInv
  <2> QED
    BY <2>1, <1>1, <1>3 DEF Asking
<1>6. Cardinality(Where(mailbox, Returns)) = Cardinality(Where(Tail(mailbox), Returns)) + Weight(Head(mailbox), Returns)
  BY <1>1, <1>2, WhereTail
<1>7. Cardinality(Where(mailbox, PooledReturns)) =
        Cardinality(Where(Tail(mailbox), PooledReturns)) + Weight(Head(mailbox), PooledReturns)
  BY <1>1, <1>2, WhereTail
<1>8. Weight(Head(mailbox), Returns) = 0 /\ Weight(Head(mailbox), PooledReturns) = 0
  BY <1>3, <1>4 DEF Weight
<1>9. Tail(mailbox) \in Seq(Messages)
  BY <1>1, <1>2
<1>10. Cardinality(Where(Tail(mailbox), Returns)) \in Nat /\ Cardinality(Where(Tail(mailbox), PooledReturns)) \in Nat
  BY <1>9, WhereFacts
<1>11. FromStart(mailbox) => FromStart(Tail(mailbox))
  BY <1>1, <1>2, FromStartFacts
<1> QED
  BY <1>1, <1>3, <1>4, <1>5, <1>6, <1>7, <1>8, <1>9, <1>10, <1>11

\* An error reply.
LEMMA DenyStep ==
    ASSUME LendingInv, Handling("Acquire"), Deny(Head(mailbox).client)
    PROVE  /\ ClientTypes' /\ Asking(mailbox, status)' /\ pipe' = pipe
           /\ Holding' = Holding /\ HoldingPooled' = HoldingPooled
           /\ Linked(status, handle) => Linked(status, handle)'
<1>1. PICK c \in Clients : c = Head(mailbox).client
  BY FirstRequest
<1>2. status[c] \in {"waiting", "gone"}
  BY <1>1, FirstRequest
<1>3. ClientTypes /\ Asking(mailbox, status)
  BY TypesOfClients DEF LendingInv
<1>4. PICK v \in {"idle", "refused"} : status' = [status EXCEPT ![c] = v]
  BY <1>1, <1>2 DEF Deny
<1>5. handle' = handle /\ pipe' = pipe
  BY DEF Deny
<1>6. status' \in [Clients -> Statuses]
  BY <1>3, <1>4 DEF ClientTypes, Statuses
<1>7. ClientTypes'
  BY <1>3, <1>5, <1>6, FirstRequest DEF ClientTypes
<1>8. Asking(mailbox, status)'
  <2>1. mailbox # <<>> /\ mailbox' = Tail(mailbox) /\ Head(mailbox).type = "Acquire"
    BY DEF Handling
  <2>2. \A x \in Clients : status'[x] = status[x] \/ x = c
    BY <1>3, <1>4 DEF ClientTypes
  <2>3. Asking(Tail(mailbox), status')
    BY <2>1, <2>2, <1>1, <1>3, AskingTail DEF ClientTypes
  <2> QED
    BY <2>1, <2>3
<1>9. v # "holding" /\ status[c] # "holding" /\ status \in [Clients -> Statuses]
  BY <1>2, <1>3, <1>4 DEF ClientTypes
<1>10. \A x \in Clients : (status'[x] = "holding") <=> (status[x] = "holding")
  BY <1>4, <1>9
<1>11. Holding' = Holding /\ HoldingPooled' = HoldingPooled
  BY <1>5, <1>10, HolderSame
<1>12. Linked(status, handle) => Linked(status, handle)'
  BY <1>3, <1>4, <1>5, <1>9 DEF Linked, ClientTypes
<1> QED
  BY <1>5, <1>7, <1>8, <1>11, <1>12

\* A handle is dropped: its slot goes into the channel if that leads anywhere.
LEMMA DroppedFacts ==
    ASSUME ClientTypes, NEW h \in Handle
    PROVE  /\ Dropped(h) \in Seq(Returns)
           /\ h.connected = TRUE =>
                /\ Len(Dropped(h)) = Len(pipe) + 1
                /\ Cardinality(Where(Dropped(h), PooledReturns)) =
                     Cardinality(Where(pipe, PooledReturns)) + IF Oversize(h.slot.size) THEN 0 ELSE 1
                /\ FromStart(pipe) /\ h.generation = 0 => FromStart(Dropped(h))
<1>1. pipe \in Seq(Returns)
  BY DEF ClientTypes
<1>2. PICK m : m = InternalReturn(h.slot, h.generation)
  OBVIOUS
<1>3. m \in Returns /\ m.slot = h.slot /\ m.generation = h.generation
  BY <1>2 DEF InternalReturn, Returns, Handle
<1>4. m \in PooledReturns <=> ~Oversize(h.slot.size)
  BY <1>3, MessageFacts, ReturnsFacts
<1>5. CASE h.connected = TRUE
  <2>1. Dropped(h) = Append(pipe, m)
    BY <1>2, <1>5 DEF Dropped
  <2>2. Append(pipe, m) \in Seq(Returns) /\ Len(Append(pipe, m)) = Len(pipe) + 1
    BY <1>1, <1>3
  <2>3. Cardinality(Where(Append(pipe, m), PooledReturns)) = Cardinality(Where(pipe, PooledReturns)) + Weight(m, PooledReturns)
    BY <1>1, <1>3, WhereAppend
  <2>4. FromStart(pipe) /\ h.generation = 0 => FromStart(Append(pipe, m))
    BY <1>1, <1>3, FromStartFacts
  <2> QED
    BY <2>1, <2>2, <2>3, <2>4, <1>4 DEF Weight
<1>6. CASE h.connected # TRUE
  <2>1. Dropped(h) = pipe
    BY <1>6 DEF Dropped, Handle
  <2> QED
    BY <2>1, <1>1, <1>6
<1> QED
  BY <1>5, <1>6

\* A slot is lent: to the client, or past it into the channel.
LEMMA LendStep ==
    ASSUME LendingInv, Handling("Acquire"), NEW s \in Slot, Lend(Head(mailbox).client, s)
    PROVE  /\ ClientTypes' /\ Asking(mailbox, status)' /\ inUse' = inUse + 1
           /\ FirstGeneration =>
                /\ Linked(status, handle)' /\ FromStart(pipe)'
                /\ Cardinality(Holding)' + Len(pipe)' = Cardinality(Holding) + Len(pipe) + 1
                /\ Cardinality(HoldingPooled)' + Cardinality(Where(pipe, PooledReturns))' =
                     Cardinality(HoldingPooled) + Cardinality(Where(pipe, PooledReturns))
                       + IF Oversize(s.size) THEN 0 ELSE 1
<1>1. PICK c \in Clients : c = Head(mailbox).client
  BY FirstRequest
<1>2. status[c] \in {"waiting", "gone"}
  BY <1>1, FirstRequest
<1>3. ClientTypes /\ Asking(mailbox, status) /\ PoolTypeOK
  BY TypesOfClients DEF LendingInv
<1>4. status \in [Clients -> Statuses] /\ handle \in [Clients -> Handle] /\ pipe \in Seq(Returns)
  BY <1>3 DEF ClientTypes
<1>5. PICK h : h = [slot |-> s, generation |-> generation, connected |-> connected]
  OBVIOUS
<1>6. h \in Handle /\ h.slot = s /\ h.generation = generation /\ h.connected = connected
  BY <1>3, <1>5 DEF Handle, PoolTypeOK
<1>7. inUse' = inUse + 1
  BY DEF Lend
<1>8. CASE status[c] = "gone"
  <2>1. status' = [status EXCEPT ![c] = "idle"] /\ pipe' = Dropped(h) /\ handle' = handle
    BY <1>1, <1>5, <1>8 DEF Lend
  <2>2. status' \in [Clients -> Statuses] /\ \A x \in Clients : status'[x] = status[x] \/ x = c
    BY <2>1, <1>4 DEF Statuses
  <2>3. pipe' \in Seq(Returns)
    BY <2>1, <1>3, <1>6, DroppedFacts
  <2>4. ClientTypes'
    BY <2>1, <2>2, <2>3, <1>4, FirstRequest DEF ClientTypes
  <2>5. Asking(mailbox, status)'
    <3>1. mailbox # <<>> /\ mailbox' = Tail(mailbox) /\ Head(mailbox).type = "Acquire" /\ mailbox \in Seq(Messages)
      BY <1>3 DEF Handling, ClientTypes
    <3>2. PICK st : st = status'
      OBVIOUS
    <3>3. \A x \in Clients : st[x] = status[x] \/ (Head(mailbox).type = "Acquire" /\ x = Head(mailbox).client)
      BY <3>1, <3>2, <2>2, <1>1
    <3>4. Asking(mailbox, status) /\ status \in [Clients -> Statuses]
      BY <1>3, <1>4
    <3>5. Asking(Tail(mailbox), st)
      BY <3>1, <3>3, <3>4, AskingTail
    <3> QED
      BY <3>1, <3>2, <3>5
  <2>6. ASSUME FirstGeneration
        PROVE  /\ Linked(status, handle)' /\ FromStart(pipe)'
               /\ Cardinality(Holding)' + Len(pipe)' = Cardinality(Holding) + Len(pipe) + 1
               /\ Cardinality(HoldingPooled)' + Cardinality(Where(pipe, PooledReturns))' =
                    Cardinality(HoldingPooled) + Cardinality(Where(pipe, PooledReturns))
                      + IF Oversize(s.size) THEN 0 ELSE 1
    <3>1. Linked(status, handle)'
      BY <2>1, <2>2, <2>6, <1>4 DEF FirstGeneration, Linked
    <3>2. h.connected = TRUE /\ h.generation = 0 /\ FromStart(pipe)
      BY <2>6, <1>6 DEF FirstGeneration
    <3>3. /\ Len(pipe') = Len(pipe) + 1 /\ FromStart(pipe')
          /\ Cardinality(Where(pipe', PooledReturns)) =
               Cardinality(Where(pipe, PooledReturns)) + IF Oversize(s.size) THEN 0 ELSE 1
      BY <3>2, <2>1, <1>3, <1>6, DroppedFacts
    <3>4. \A x \in Clients : (status'[x] = "holding") <=> (status[x] = "holding")
      BY <2>1, <1>4, <1>8
    <3>5. Holding' = Holding /\ HoldingPooled' = HoldingPooled
      BY <2>1, <3>4, HolderSame
    <3> QED
      BY <3>1, <3>3, <3>5, <1>3, Figures
  <2> QED
    BY <2>4, <2>5, <2>6, <1>7
<1>9. CASE status[c] # "gone"
  <2>1. status' = [status EXCEPT ![c] = "holding"] /\ pipe' = pipe /\ handle' = [handle EXCEPT ![c] = h]
    BY <1>1, <1>5, <1>9 DEF Lend
  <2>2. /\ status' \in [Clients -> Statuses] /\ handle' \in [Clients -> Handle]
        /\ \A x \in Clients : status'[x] = status[x] \/ x = c
    BY <2>1, <1>4, <1>6 DEF Statuses
  <2>3. ClientTypes'
    BY <2>1, <2>2, <1>4, FirstRequest DEF ClientTypes
  <2>4. Asking(mailbox, status)'
    <3>1. mailbox # <<>> /\ mailbox' = Tail(mailbox) /\ Head(mailbox).type = "Acquire" /\ mailbox \in Seq(Messages)
      BY <1>3 DEF Handling, ClientTypes
    <3>2. PICK st : st = status'
      OBVIOUS
    <3>3. \A x \in Clients : st[x] = status[x] \/ (Head(mailbox).type = "Acquire" /\ x = Head(mailbox).client)
      BY <3>1, <3>2, <2>2, <1>1
    <3>4. Asking(mailbox, status) /\ status \in [Clients -> Statuses]
      BY <1>3, <1>4
    <3>5. Asking(Tail(mailbox), st)
      BY <3>1, <3>3, <3>4, AskingTail
    <3> QED
      BY <3>1, <3>2, <3>5
  <2>5. ASSUME FirstGeneration
        PROVE  /\ Linked(status, handle)' /\ FromStart(pipe)'
               /\ Cardinality(Holding)' + Len(pipe)' = Cardinality(Holding) + Len(pipe) + 1
               /\ Cardinality(HoldingPooled)' + Cardinality(Where(pipe, PooledReturns))' =
                    Cardinality(HoldingPooled) + Cardinality(Where(pipe, PooledReturns))
                      + IF Oversize(s.size) THEN 0 ELSE 1
    <3>1. Linked(status, handle)'
      <4> SUFFICES ASSUME NEW x \in Clients, status'[x] = "holding"
                   PROVE  handle'[x].generation = 0 /\ handle'[x].connected = TRUE
        BY DEF Linked
      <4>1. CASE x = c
        <5>1. handle'[x] = h
          BY <4>1, <2>1, <1>4
        <5> QED
          BY <5>1, <2>5, <1>6 DEF FirstGeneration
      <4>2. CASE x # c
        <5>1. handle'[x] = handle[x] /\ status[x] = "holding"
          BY <4>2, <2>1, <1>4
        <5> QED
          BY <5>1, <2>5 DEF FirstGeneration, Linked
      <4> QED
        BY <4>1, <4>2
    <3>2. FromStart(pipe)'
      BY <2>1, <2>5 DEF FirstGeneration
    <3>3. /\ Cardinality(Holders(status')) = Cardinality(Holders(status)) + 1
          /\ Cardinality(HoldersPooled(status', handle')) =
               Cardinality(HoldersPooled(status, handle)) + IF Oversize(h.slot.size) THEN 0 ELSE 1
      <4>1. PICK st : st = status'
        OBVIOUS
      <4>2. PICK hs : hs = handle'
        OBVIOUS
      <4>3. /\ status[c] # "holding" /\ status \in [Clients -> Statuses] /\ handle \in [Clients -> Handle]
            /\ st = [status EXCEPT ![c] = "holding"] /\ hs = [handle EXCEPT ![c] = h] /\ h \in Handle
        BY <4>1, <4>2, <2>1, <1>2, <1>4, <1>6
      <4>4. MoreHeld(status, handle, st, hs, h.slot)
        BY <4>3, HolderGains, Zenon
      <4> QED
        BY <4>1, <4>2, <4>4 DEF MoreHeld
    <3>4. Holding' = Holders(status') /\ HoldingPooled' = HoldersPooled(status', handle')
      BY DEF Holding, HoldingPooled, Holders, HoldersPooled
    <3>5. Holding = Holders(status) /\ HoldingPooled = HoldersPooled(status, handle)
      BY <1>3, Figures
    <3>6. /\ Cardinality(Holding)' = Cardinality(Holding) + 1
          /\ Cardinality(HoldingPooled)' = Cardinality(HoldingPooled) + IF Oversize(s.size) THEN 0 ELSE 1
      BY <3>3, <3>4, <3>5, <1>6
    <3> QED
      BY <3>1, <3>2, <3>6, <2>1, <1>3, Figures
  <2> QED
    BY <2>3, <2>4, <2>5, <1>7
<1> QED
  BY <1>8, <1>9

-----------------------------------------------------------------------------
\* A client asks.
LEMMA PoolAskStep ==
    ASSUME LendingInv, NEW c \in Clients, NEW n \in Sizes, Ask(c, n)
    PROVE  LendingInv'
<1>1. /\ status[c] \in {"idle", "refused"} /\ status' = [status EXCEPT ![c] = "waiting"]
      /\ mailbox' = Append(mailbox, AcquireMsg(c, n))
      /\ UNCHANGED <<free, inUse, totalMinted, bytesAllocated, generation, connected, incarnation, faults, pipe, handle>>
  BY DEF Ask, actorVars
<1>2. PICK m : m = AcquireMsg(c, n)
  OBVIOUS
<1>3. m \in Messages /\ m.type = "Acquire" /\ m.client = c
  BY <1>2 DEF AcquireMsg, Messages
<1>4. m \notin Returns /\ m \notin PooledReturns
  BY <1>3, MessageFacts
<1>5. /\ ClientTypes /\ Asking(mailbox, status) /\ PoolTypeOK /\ mailbox \in Seq(Messages)
      /\ status \in [Clients -> Statuses]
  BY TypesOfClients DEF LendingInv, ClientTypes
<1>6. status' \in [Clients -> Statuses] /\ mailbox' \in Seq(Messages)
  BY <1>1, <1>2, <1>3, <1>5 DEF Statuses
<1>7. PoolTypeOK'
  BY <1>1, <1>5, <1>6 DEF PoolTypeOK, Statuses
<1>8. Asking(mailbox, status)'
  <2>1. \A x \in Clients : status'[x] = status[x] \/ x = c
    BY <1>1, <1>5
  <2>2. status'[c] = "waiting" /\ status[c] \notin {"waiting", "gone"}
    BY <1>1, <1>5
  <2>3. Asking(Append(mailbox, m), status')
    BY <2>1, <2>2, <1>3, <1>5, AskingAppend
  <2> QED
    BY <2>3, <1>1, <1>2
<1>9. ASSUME incarnation = 0 PROVE FirstGeneration' /\ Balance'
  <2>1. FirstGeneration /\ Balance
    BY <1>9 DEF LendingInv
  <2>2. FromStart(mailbox)'
    BY <2>1, <1>1, <1>2, <1>3, <1>4, <1>5, FromStartFacts DEF FirstGeneration
  <2>3. Linked(status, handle)'
    BY <2>1, <1>1, <1>5 DEF FirstGeneration, Linked
  <2>4. FirstGeneration'
    BY <2>1, <2>2, <2>3, <1>1 DEF FirstGeneration
  <2>5. /\ Cardinality(Where(mailbox, Returns))' = Cardinality(Where(mailbox, Returns)) + Weight(m, Returns)
        /\ Cardinality(Where(mailbox, PooledReturns))' = Cardinality(Where(mailbox, PooledReturns)) + Weight(m, PooledReturns)
    <3>1. mailbox \in Seq(Messages) /\ m \in Messages
      BY <1>3, <1>5
    <3>2. mailbox' = Append(mailbox, m)
      BY <1>1, <1>2
    <3> QED
      BY <3>1, <3>2, MailGrows
  <2>6. /\ Cardinality(Where(mailbox, Returns))' = Cardinality(Where(mailbox, Returns))
        /\ Cardinality(Where(mailbox, PooledReturns))' = Cardinality(Where(mailbox, PooledReturns))
    BY <2>5, <1>4, <1>5, Figures DEF Weight
  <2>7. Holding' = Holding /\ HoldingPooled' = HoldingPooled
    <3>1. \A x \in Clients : (status'[x] = "holding") <=> (status[x] = "holding")
      BY <1>1, <1>5
    <3> QED
      BY <3>1, <1>1, HolderSame
  <2>8. Balance'
    BY <2>1, <2>6, <2>7, <1>1 DEF Balance
  <2> QED
    BY <2>4, <2>8
<1> QED
  BY <1>1, <1>7, <1>8, <1>9 DEF LendingInv

\* A client gives up waiting.
LEMMA GiveUpStep ==
    ASSUME LendingInv, NEW c \in Clients, GiveUp(c)
    PROVE  LendingInv'
<1>1. /\ status[c] = "waiting" /\ status' = [status EXCEPT ![c] = "gone"]
      /\ UNCHANGED <<mailbox, free, inUse, totalMinted, bytesAllocated, generation, connected, incarnation, faults,
                     pipe, handle>>
  BY DEF GiveUp, actorVars
<1>2. /\ Asking(mailbox, status) /\ PoolTypeOK /\ mailbox \in Seq(Messages) /\ status \in [Clients -> Statuses]
  BY TypesOfClients DEF LendingInv, ClientTypes
<1>3. status' \in [Clients -> Statuses]
  BY <1>1, <1>2 DEF Statuses
<1>4. PoolTypeOK'
  BY <1>1, <1>2, <1>3 DEF PoolTypeOK, Statuses
<1>5. Asking(mailbox, status)'
  <2>1. ASSUME NEW i \in 1..Len(mailbox), mailbox[i].type = "Acquire"
        PROVE  status'[mailbox[i].client] \in {"waiting", "gone"}
    <3>1. PICK m \in Messages : m = mailbox[i]
      BY <1>2
    <3>2. m.client \in Clients
      BY <3>1, <2>1, MessageFacts
    <3>3. status[m.client] \in {"waiting", "gone"}
      BY <3>1, <2>1, <1>2 DEF Asking
    <3> QED
      BY <3>1, <3>2, <3>3, <1>1, <1>2
  <2> QED
    BY <2>1, <1>1, <1>2 DEF Asking
<1>6. ASSUME incarnation = 0 PROVE FirstGeneration' /\ Balance'
  <2>1. FirstGeneration /\ Balance
    BY <1>6 DEF LendingInv
  <2>2. Linked(status, handle)'
    BY <2>1, <1>1, <1>2 DEF FirstGeneration, Linked
  <2>3. FirstGeneration'
    BY <2>1, <2>2, <1>1 DEF FirstGeneration
  <2>4. Holding' = Holding /\ HoldingPooled' = HoldingPooled
    <3>1. \A x \in Clients : (status'[x] = "holding") <=> (status[x] = "holding")
      BY <1>1, <1>2
    <3> QED
      BY <3>1, <1>1, HolderSame
  <2>5. Balance'
    BY <2>1, <2>4, <1>1 DEF Balance
  <2> QED
    BY <2>3, <2>5
<1> QED
  BY <1>1, <1>4, <1>5, <1>6 DEF LendingInv

\* A client drops its buffer.
LEMMA DropStep ==
    ASSUME LendingInv, NEW c \in Clients, Drop(c)
    PROVE  LendingInv'
<1>1. /\ status[c] = "holding" /\ status' = [status EXCEPT ![c] = "idle"] /\ handle' = [handle EXCEPT ![c] = NoHandle]
      /\ pipe' = Dropped(handle[c])
      /\ UNCHANGED <<mailbox, free, inUse, totalMinted, bytesAllocated, generation, connected, incarnation, faults>>
  BY DEF Drop, actorVars
<1>2. /\ ClientTypes /\ Asking(mailbox, status) /\ PoolTypeOK /\ mailbox \in Seq(Messages)
      /\ status \in [Clients -> Statuses] /\ handle \in [Clients -> Handle]
  BY TypesOfClients DEF LendingInv, ClientTypes
<1>3. NoHandle \in Handle
  BY DEF NoHandle, Handle, Slot, Sizes
<1>4. PICK h \in Handle : h = handle[c]
  BY <1>2
<1>5. status' \in [Clients -> Statuses] /\ handle' \in [Clients -> Handle] /\ pipe' \in Seq(Returns)
  BY <1>1, <1>2, <1>3, <1>4, DroppedFacts DEF Statuses
<1>6. PoolTypeOK'
  BY <1>1, <1>2, <1>5 DEF PoolTypeOK, Statuses
<1>7. Asking(mailbox, status)'
  <2>1. ASSUME NEW i \in 1..Len(mailbox), mailbox[i].type = "Acquire"
        PROVE  status'[mailbox[i].client] \in {"waiting", "gone"}
    <3>1. PICK m \in Messages : m = mailbox[i]
      BY <1>2
    <3>2. m.client \in Clients
      BY <3>1, <2>1, MessageFacts
    <3>3. status[m.client] \in {"waiting", "gone"}
      BY <3>1, <2>1, <1>2 DEF Asking
    <3> QED
      BY <3>1, <3>2, <3>3, <1>1, <1>2
  <2> QED
    BY <2>1, <1>1, <1>2 DEF Asking
<1>8. ASSUME incarnation = 0 PROVE FirstGeneration' /\ Balance'
  <2>1. FirstGeneration /\ Balance
    BY <1>8 DEF LendingInv
  <2>2. h.connected = TRUE /\ h.generation = 0 /\ FromStart(pipe)
    BY <2>1, <1>1, <1>4 DEF FirstGeneration, Linked
  <2>3. /\ Len(pipe') = Len(pipe) + 1 /\ FromStart(pipe')
        /\ Cardinality(Where(pipe', PooledReturns)) =
             Cardinality(Where(pipe, PooledReturns)) + IF Oversize(h.slot.size) THEN 0 ELSE 1
    BY <2>2, <1>1, <1>2, <1>4, DroppedFacts
  <2>4. Linked(status, handle)'
    <3> SUFFICES ASSUME NEW x \in Clients, status'[x] = "holding"
                 PROVE  handle'[x].generation = 0 /\ handle'[x].connected = TRUE
      BY DEF Linked
    <3>1. x # c /\ status[x] = "holding" /\ handle'[x] = handle[x]
      BY <1>1, <1>2
    <3> QED
      BY <3>1, <2>1 DEF FirstGeneration, Linked
  <2>5. FirstGeneration'
    BY <2>1, <2>3, <2>4, <1>1 DEF FirstGeneration
  <2>6. /\ Cardinality(Holding) = Cardinality(Holding)' + 1
        /\ Cardinality(HoldingPooled) = Cardinality(HoldingPooled)' + IF Oversize(h.slot.size) THEN 0 ELSE 1
    <3>1. PICK st : st = status'
      OBVIOUS
    <3>2. PICK hs : hs = handle'
      OBVIOUS
    <3>3. PICK v : v = "idle"
      OBVIOUS
    <3>4. PICK g : g = NoHandle
      OBVIOUS
    <3>5. /\ status[c] = "holding" /\ status \in [Clients -> Statuses] /\ handle \in [Clients -> Handle] /\ v # "holding"
          /\ st = [status EXCEPT ![c] = v] /\ hs = [handle EXCEPT ![c] = g]
      BY <3>1, <3>2, <3>3, <3>4, <1>1, <1>2
    <3>6. MoreHeld(st, hs, status, handle, handle[c].slot)
      BY <3>5, HolderLoses, Zenon
    <3>7. Holding' = Holders(st) /\ HoldingPooled' = HoldersPooled(st, hs)
      BY <3>1, <3>2 DEF Holding, HoldingPooled, Holders, HoldersPooled
    <3>8. Holding = Holders(status) /\ HoldingPooled = HoldersPooled(status, handle)
      BY <1>2, Figures
    <3> QED
      BY <3>6, <3>7, <3>8, <1>4 DEF MoreHeld
  <2>7. Balance'
    <3>1. Cardinality(Holding)' \in Nat /\ Cardinality(HoldingPooled)' \in Nat
      <4>1. /\ Holding' = Holders(status') /\ HoldingPooled' = HoldersPooled(status', handle')
        BY DEF Holding, HoldingPooled, Holders, HoldersPooled
      <4> QED
        BY <4>1, HolderFacts
    <3>0. PICK a, b, p, ap, bp, pp, f \in Nat :
             /\ a = Cardinality(Holding) /\ b = Cardinality(Where(mailbox, Returns)) /\ p = Len(pipe)
             /\ ap = Cardinality(HoldingPooled) /\ bp = Cardinality(Where(mailbox, PooledReturns))
             /\ pp = Cardinality(Where(pipe, PooledReturns)) /\ f = Len(free)
             /\ ap <= a /\ bp <= b /\ pp <= p
             /\ Balanced(a, b, p, ap, bp, pp, f, faults, inUse, totalMinted)
      BY <2>1, <1>2, NamedFigures
    <3>2. PICK a2 \in Nat : a2 = Cardinality(Holding)'
      BY <3>1
    <3>3. PICK ap2 \in Nat : ap2 = Cardinality(HoldingPooled)'
      BY <3>1
    <3>4. PICK d \in 0..1 : d = IF Oversize(h.slot.size) THEN 0 ELSE 1
      OBVIOUS
    <3>5. a = a2 + 1 /\ ap = ap2 + d /\ Len(pipe') = p + 1 /\ Cardinality(Where(pipe, PooledReturns))' = pp + d
      BY <2>3, <2>6, <3>0, <3>2, <3>3, <3>4
    <3>6. inUse' = inUse /\ totalMinted' = totalMinted /\ faults' = faults /\ free' = free /\ mailbox' = mailbox
      BY <1>1
    <3>7. Balanced(a2, b, p + 1, ap2, bp, pp + d, f, faults, inUse, totalMinted)
      <4>1. a2 + b + (p + 1) = a + b + p /\ f + ap2 + bp + (pp + d) = f + ap + bp + pp
        BY <3>5, <3>4
      <4> QED
        BY <3>0, <4>1 DEF Balanced
    <3> QED
      BY <3>0, <3>2, <3>3, <3>5, <3>6, <3>7 DEF Balance
  <2> QED
    BY <2>5, <2>7
<1> QED
  BY <1>1, <1>6, <1>7, <1>8 DEF LendingInv

\* The pump forwards a return.
LEMMA PumpStep ==
    ASSUME LendingInv, Pump
    PROVE  LendingInv'
<1>1. /\ pipe # <<>> /\ pipe' = Tail(pipe) /\ mailbox' = Append(mailbox, Head(pipe))
      /\ UNCHANGED <<free, inUse, totalMinted, bytesAllocated, generation, connected, incarnation, faults, status, handle>>
  BY DEF Pump, actorVars, clientVars
<1>2. /\ ClientTypes /\ Asking(mailbox, status) /\ PoolTypeOK /\ mailbox \in Seq(Messages) /\ pipe \in Seq(Returns)
      /\ status \in [Clients -> Statuses]
  BY TypesOfClients DEF LendingInv, ClientTypes
<1>3. PICK m \in Returns : m = Head(pipe)
  BY <1>1, <1>2
<1>4. m \in Messages /\ m.type = "InternalReturn"
  BY <1>3, ReturnsFacts, MessageFacts
<1>5. mailbox' \in Seq(Messages) /\ pipe' \in Seq(Returns)
  BY <1>1, <1>2, <1>3, <1>4
<1>6. PoolTypeOK'
  BY <1>1, <1>2, <1>5 DEF PoolTypeOK
<1>7. Asking(mailbox, status)'
  <2>1. Asking(Append(mailbox, m), status)
    BY <1>2, <1>4, AskingAppend
  <2> QED
    BY <2>1, <1>1, <1>3
<1>8. ASSUME incarnation = 0 PROVE FirstGeneration' /\ Balance'
  <2>1. FirstGeneration /\ Balance
    BY <1>8 DEF LendingInv
  <2>2. FromStart(pipe)' /\ m.generation = 0
    <3>1. FromStart(pipe)
      BY <2>1 DEF FirstGeneration
    <3>2. FromStart(Tail(pipe)) /\ (Head(pipe) \in Returns => Head(pipe).generation = 0)
      BY <3>1, <1>1, <1>2, FromStartFacts
    <3> QED
      BY <3>2, <1>1, <1>3
  <2>3. FromStart(mailbox)'
    <3>1. FromStart(mailbox)
      BY <2>1 DEF FirstGeneration
    <3>2. FromStart(Append(mailbox, m))
      BY <3>1, <2>2, <1>2, <1>4, FromStartFacts
    <3> QED
      BY <3>2, <1>1, <1>3
  <2>4. FirstGeneration'
    BY <2>1, <2>2, <2>3, <1>1 DEF FirstGeneration
  <2>5. /\ Cardinality(Where(mailbox, Returns))' = Cardinality(Where(mailbox, Returns)) + 1
        /\ Cardinality(Where(mailbox, PooledReturns))' = Cardinality(Where(mailbox, PooledReturns)) + Weight(m, PooledReturns)
    <3>1. /\ Cardinality(Where(Append(mailbox, m), Returns)) = Cardinality(Where(mailbox, Returns)) + Weight(m, Returns)
          /\ Cardinality(Where(Append(mailbox, m), PooledReturns)) =
               Cardinality(Where(mailbox, PooledReturns)) + Weight(m, PooledReturns)
      <4>1. mailbox \in Seq(Messages) /\ m \in Messages
        BY <1>2, <1>4
      <4> QED
        BY <4>1, MailGrows
    <3> QED
      BY <3>1, <1>1, <1>3 DEF Weight
  <2>6. Cardinality(Where(pipe, PooledReturns)) = Cardinality(Where(pipe, PooledReturns))' + Weight(m, PooledReturns)
    <3>1. Cardinality(Where(pipe, PooledReturns)) =
            Cardinality(Where(Tail(pipe), PooledReturns)) + Weight(Head(pipe), PooledReturns)
      BY <1>1, <1>2, WhereTail
    <3> QED
      BY <3>1, <1>1, <1>3
  <2>7. Len(pipe') = Len(pipe) - 1
    BY <1>1, <1>2
  <2>8. Weight(m, PooledReturns) \in 0..1
    BY DEF Weight
  <2>9. Cardinality(Where(pipe, PooledReturns))' \in Nat
    BY <1>5, WhereFacts
  <2>10. Holding' = Holding /\ HoldingPooled' = HoldingPooled
    BY <1>1 DEF Holding, HoldingPooled
  <2>11. Balance'
    <3>1. PICK w \in 0..1 : w = Weight(m, PooledReturns)
      BY <2>8
    <3>2. PICK pp2 \in Nat : pp2 = Cardinality(Where(pipe, PooledReturns))'
      BY <2>9
    <3>3. PICK a, b, p, ap, bp, pp, f \in Nat :
             /\ a = Cardinality(Holding) /\ b = Cardinality(Where(mailbox, Returns)) /\ p = Len(pipe)
             /\ ap = Cardinality(HoldingPooled) /\ bp = Cardinality(Where(mailbox, PooledReturns))
             /\ pp = Cardinality(Where(pipe, PooledReturns)) /\ f = Len(free)
             /\ ap <= a /\ bp <= b /\ pp <= p
             /\ Balanced(a, b, p, ap, bp, pp, f, faults, inUse, totalMinted)
      BY <2>1, <1>2, NamedFigures
    <3>4. PICK p2 \in Nat : p2 = Len(pipe')
      BY <1>5
    <3>5. /\ p = p2 + 1 /\ pp = pp2 + w /\ Cardinality(Where(mailbox, Returns))' = b + 1
          /\ Cardinality(Where(mailbox, PooledReturns))' = bp + w
      <4>1. Len(pipe) \in Nat /\ Len(pipe') = Len(pipe) - 1
        BY <2>7, <1>2
      <4> QED
        BY <4>1, <2>5, <2>6, <3>1, <3>2, <3>3, <3>4
    <3>6. inUse' = inUse /\ totalMinted' = totalMinted /\ faults' = faults /\ free' = free
      BY <1>1
    <3>7. Balanced(a, b + 1, p2, ap, bp + w, pp2, f, faults, inUse, totalMinted)
      <4>1. a + (b + 1) + p2 = a + b + p /\ f + ap + (bp + w) + pp2 = f + ap + bp + pp
        BY <3>5, <3>1
      <4> QED
        BY <3>3, <4>1 DEF Balanced
    <3> QED
      BY <2>10, <3>2, <3>3, <3>4, <3>5, <3>6, <3>7 DEF Balance
  <2> QED
    BY <2>4, <2>11
<1> QED
  BY <1>1, <1>6, <1>7, <1>8 DEF LendingInv

\* The figures of the next state.
LEMMA NextFigures ==
    ASSUME ClientTypes'
    PROVE  /\ Cardinality(Holding)' \in Nat /\ Len(pipe)' \in Nat
           /\ Cardinality(HoldingPooled)' \in Nat /\ Cardinality(Where(pipe, PooledReturns))' \in Nat
<1>1. Holding' = Holders(status') /\ HoldingPooled' = HoldersPooled(status', handle')
  BY DEF Holding, HoldingPooled, Holders, HoldersPooled
<1>2. Cardinality(Holders(status')) \in Nat /\ Cardinality(HoldersPooled(status', handle')) \in Nat
  BY HolderFacts
<1>3. pipe' \in Seq(Returns)
  BY DEF ClientTypes
<1>4. Cardinality(Where(pipe', PooledReturns)) \in Nat
  BY <1>3, WhereFacts
<1> QED
  BY <1>1, <1>2, <1>3, <1>4

\* The request is given a new slot.
LEMMA AcquireMintsStep ==
    ASSUME LendingInv, AcquireMints
    PROVE  LendingInv'
<1>1. PICK m : m = Head(mailbox)
  OBVIOUS
<1>2. PoolTypeOK
  BY DEF LendingInv
<1>3. /\ Handling("Acquire") /\ Mints(m.size) /\ Lend(Head(mailbox).client, [size |-> m.size, home |-> incarnation])
      /\ bytesAllocated' = bytesAllocated + m.size /\ totalMinted' = totalMinted + 1
      /\ UNCHANGED <<free, generation, connected, incarnation, faults>>
  BY <1>1 DEF AcquireMints
<1>4. m.size \in Sizes /\ m.size \in Nat
  BY <1>1, <1>3, FirstRequest DEF Sizes
<1>5. PICK s \in Slot : s = [size |-> m.size, home |-> incarnation] /\ s.size = m.size
  <2>1. incarnation \in Nat
    BY <1>2 DEF PoolTypeOK
  <2>2. PICK s : s = [size |-> m.size, home |-> incarnation]
    OBVIOUS
  <2>3. s \in Slot /\ s.size = m.size
    BY <2>1, <2>2, <1>4 DEF Slot
  <2> QED
    BY <2>2, <2>3
<1>6. Lend(Head(mailbox).client, s)
  BY <1>3, <1>5
<1>7. ClientTypes' /\ Asking(mailbox, status)' /\ inUse' = inUse + 1
  BY <1>3, <1>6, LendStep
<1>8. PoolTypeOK'
  <2>1. mailbox' \in Seq(Messages) /\ pipe' \in Seq(Returns) /\ status' \in [Clients -> Statuses] /\ handle' \in [Clients -> Handle]
    BY <1>7 DEF ClientTypes
  <2>2. inUse' \in Nat /\ totalMinted' \in Nat /\ bytesAllocated' \in Nat
    BY <1>2, <1>3, <1>4, <1>7 DEF PoolTypeOK
  <2> QED
    BY <2>1, <2>2, <1>2, <1>3 DEF PoolTypeOK, Statuses
<1>9. ASSUME incarnation = 0 PROVE FirstGeneration' /\ Balance'
  <2>1. FirstGeneration /\ Balance
    BY <1>9 DEF LendingInv
  <2>2. /\ Linked(status, handle)' /\ FromStart(pipe)'
        /\ Cardinality(Holding)' + Len(pipe)' = Cardinality(Holding) + Len(pipe) + 1
        /\ Cardinality(HoldingPooled)' + Cardinality(Where(pipe, PooledReturns))' =
             Cardinality(HoldingPooled) + Cardinality(Where(pipe, PooledReturns)) + IF Oversize(s.size) THEN 0 ELSE 1
    BY <2>1, <1>3, <1>6, LendStep
  <2>3. FromStart(mailbox)'
    BY <2>1, <1>3, FirstRequest DEF FirstGeneration
  <2>4. FirstGeneration'
    BY <2>1, <2>2, <2>3, <1>3 DEF FirstGeneration
  <2>5. Balance'
    <3>1. PICK a, b, p, ap, bp, pp, f \in Nat :
             /\ a = Cardinality(Holding) /\ b = Cardinality(Where(mailbox, Returns)) /\ p = Len(pipe)
             /\ ap = Cardinality(HoldingPooled) /\ bp = Cardinality(Where(mailbox, PooledReturns))
             /\ pp = Cardinality(Where(pipe, PooledReturns)) /\ f = Len(free)
             /\ ap <= a /\ bp <= b /\ pp <= p
             /\ Balanced(a, b, p, ap, bp, pp, f, faults, inUse, totalMinted)
      BY <2>1, <1>2, NamedFigures
    <3>1a. ap <= a /\ bp <= b /\ pp <= p
      BY <3>1
    <3>2. PICK a2, p2, ap2, pp2 \in Nat :
             /\ a2 = Cardinality(Holding)' /\ p2 = Len(pipe)'
             /\ ap2 = Cardinality(HoldingPooled)' /\ pp2 = Cardinality(Where(pipe, PooledReturns))'
      BY <1>7, NextFigures
    <3>3. PICK d \in 0..1 : d = IF Oversize(s.size) THEN 0 ELSE 1
      OBVIOUS
    <3>4. a2 + p2 = a + p + 1 /\ ap2 + pp2 = ap + pp + d
      BY <2>2, <3>1, <3>2, <3>3
    <3>5. /\ Cardinality(Where(mailbox, Returns))' = b /\ Cardinality(Where(mailbox, PooledReturns))' = bp
          /\ free' = free
      BY <3>1, <1>3, FirstRequest
    <3>6. inUse = a + b + p /\ f + (a + b + p) + faults = totalMinted /\ f + ap + bp + pp <= MaxBuffers
      BY <3>1 DEF Balanced
    <3>7. totalMinted \in Nat /\ inUse \in Nat /\ MaxBuffers \in Nat /\ faults \in Nat
      BY <1>2, PinnedPoolAssumption DEF PoolTypeOK
    <3>8. d = 1 => f + ap + bp + pp + 1 <= MaxBuffers
      <4> SUFFICES ASSUME d = 1 PROVE f + ap + bp + pp + 1 <= MaxBuffers
        OBVIOUS
      <4>1. ~Oversize(m.size)
        BY <3>3, <1>5
      <4>2. ~(totalMinted >= MaxBuffers)
        BY <4>1, <1>3 DEF Mints, Full
      <4>3. f + ap + bp + pp <= totalMinted
        BY <3>1a, <3>6, <3>7
      <4> QED
        BY <4>2, <4>3, <3>7
    <3>9. f + ap2 + bp + pp2 <= MaxBuffers
      BY <3>4, <3>6, <3>7, <3>8
    <3>10. inUse + 1 = a2 + b + p2 /\ f + (a2 + b + p2) + faults = totalMinted + 1
      BY <3>4, <3>6, <3>7
    <3>11. Balanced(a2, b, p2, ap2, bp, pp2, f, faults', inUse', totalMinted')
      BY <3>9, <3>10, <1>3, <1>7 DEF Balanced
    <3> QED
      BY <3>1, <3>2, <3>5, <3>11 DEF Balance
  <2> QED
    BY <2>4, <2>5
<1> QED
  BY <1>3, <1>7, <1>8, <1>9 DEF LendingInv

\* The request is given a free slot.
LEMMA AcquireReusesStep ==
    ASSUME LendingInv, AcquireReuses
    PROVE  LendingInv'
<1>1. PICK m : m = Head(mailbox)
  OBVIOUS
<1>2. PoolTypeOK /\ free \in Seq(Slot)
  BY DEF LendingInv, PoolTypeOK
<1>3. /\ Handling("Acquire") /\ free # <<>> /\ free' = Tail(free) /\ Lend(Head(mailbox).client, Head(free))
      /\ UNCHANGED <<totalMinted, bytesAllocated, generation, connected, incarnation, faults>>
  BY <1>1 DEF AcquireReuses
<1>4. PICK n \in Nat : n + 1 = Len(free)
  <2>1. Len(free) \in Nat /\ Len(free) # 0
    BY <1>2, <1>3
  <2>2. Len(free) - 1 \in Nat /\ (Len(free) - 1) + 1 = Len(free)
    BY <2>1
  <2> QED
    BY <2>2
<1>5. PICK s \in Slot : s = Head(free) /\ s = free[1]
  BY <1>2, <1>3
<1>6. free' \in Seq(Slot) /\ Len(free') = n /\ \A i \in 1..n : free'[i] = free[i + 1] /\ i + 1 \in 1..Len(free)
  BY <1>2, <1>3, <1>4
<1>7. Lend(Head(mailbox).client, s)
  BY <1>3, <1>5
<1>8. ClientTypes' /\ Asking(mailbox, status)' /\ inUse' = inUse + 1
  BY <1>3, <1>7, LendStep
<1>9. PoolTypeOK'
  <2>1. mailbox' \in Seq(Messages) /\ pipe' \in Seq(Returns) /\ status' \in [Clients -> Statuses] /\ handle' \in [Clients -> Handle]
    BY <1>8 DEF ClientTypes
  <2>2. inUse' \in Nat
    BY <1>2, <1>8 DEF PoolTypeOK
  <2> QED
    BY <2>1, <2>2, <1>2, <1>3, <1>6 DEF PoolTypeOK, Statuses
<1>10. ASSUME incarnation = 0 PROVE FirstGeneration' /\ Balance'
  <2>1. FirstGeneration /\ Balance
    BY <1>10 DEF LendingInv
  <2>2. /\ Linked(status, handle)' /\ FromStart(pipe)'
        /\ Cardinality(Holding)' + Len(pipe)' = Cardinality(Holding) + Len(pipe) + 1
        /\ Cardinality(HoldingPooled)' + Cardinality(Where(pipe, PooledReturns))' =
             Cardinality(HoldingPooled) + Cardinality(Where(pipe, PooledReturns)) + IF Oversize(s.size) THEN 0 ELSE 1
    BY <2>1, <1>3, <1>7, LendStep
  <2>3. FromStart(mailbox)'
    BY <2>1, <1>3, FirstRequest DEF FirstGeneration
  <2>4. PoolSized(free)' /\ ~Oversize(s.size)
    <3>1. PoolSized(free) /\ 1 \in 1..Len(free)
      BY <2>1, <1>4 DEF FirstGeneration
    <3> QED
      BY <3>1, <1>5, <1>6 DEF PoolSized
  <2>5. FirstGeneration'
    BY <2>1, <2>2, <2>3, <2>4, <1>3 DEF FirstGeneration
  <2>6. Balance'
    <3>1. PICK a, b, p, ap, bp, pp, f \in Nat :
             /\ a = Cardinality(Holding) /\ b = Cardinality(Where(mailbox, Returns)) /\ p = Len(pipe)
             /\ ap = Cardinality(HoldingPooled) /\ bp = Cardinality(Where(mailbox, PooledReturns))
             /\ pp = Cardinality(Where(pipe, PooledReturns)) /\ f = Len(free)
             /\ ap <= a /\ bp <= b /\ pp <= p
             /\ Balanced(a, b, p, ap, bp, pp, f, faults, inUse, totalMinted)
      BY <2>1, <1>2, NamedFigures
    <3>1a. ap <= a /\ bp <= b /\ pp <= p
      BY <3>1
    <3>2. PICK a2, p2, ap2, pp2 \in Nat :
             /\ a2 = Cardinality(Holding)' /\ p2 = Len(pipe)'
             /\ ap2 = Cardinality(HoldingPooled)' /\ pp2 = Cardinality(Where(pipe, PooledReturns))'
      BY <1>8, NextFigures
    <3>3. a2 + p2 = a + p + 1 /\ ap2 + pp2 = ap + pp + 1
      BY <2>2, <2>4, <3>1, <3>2
    <3>4. /\ Cardinality(Where(mailbox, Returns))' = b /\ Cardinality(Where(mailbox, PooledReturns))' = bp
          /\ Len(free)' = n
      BY <3>1, <1>3, <1>4, <1>6, FirstRequest
    <3>4a. f = n + 1
      BY <3>1, <1>4
    <3>5. inUse = a + b + p /\ f + (a + b + p) + faults = totalMinted /\ f + ap + bp + pp <= MaxBuffers
      BY <3>1 DEF Balanced
    <3>6. totalMinted \in Nat /\ inUse \in Nat /\ MaxBuffers \in Nat /\ faults \in Nat
      BY <1>2, PinnedPoolAssumption DEF PoolTypeOK
    <3>7. inUse + 1 = a2 + b + p2 /\ n + (a2 + b + p2) + faults = totalMinted /\ n + ap2 + bp + pp2 <= MaxBuffers
      BY <3>3, <3>5, <3>6, <3>4a
    <3>8. Balanced(a2, b, p2, ap2, bp, pp2, n, faults', inUse', totalMinted')
      BY <3>7, <1>3, <1>8 DEF Balanced
    <3> QED
      BY <3>1, <3>2, <3>4, <3>8 DEF Balance
  <2> QED
    BY <2>5, <2>6
<1> QED
  BY <1>3, <1>8, <1>9, <1>10 DEF LendingInv

\* The request is refused, or its allocation fails after it has been counted.
LEMMA DenialSteps ==
    ASSUME LendingInv, AcquireRefused \/ AllocFails
    PROVE  LendingInv'
<1>1. PICK m : m = Head(mailbox)
  OBVIOUS
<1>2. PoolTypeOK
  BY DEF LendingInv
<1>3. /\ Handling("Acquire") /\ Deny(Head(mailbox).client)
      /\ UNCHANGED <<free, inUse, generation, connected, incarnation>>
  BY DEF AcquireRefused, AllocFails, actorVars
<1>4. m.size \in Nat
  BY <1>1, <1>3, FirstRequest DEF Sizes
<1>5. /\ ClientTypes' /\ Asking(mailbox, status)' /\ pipe' = pipe /\ Holding' = Holding /\ HoldingPooled' = HoldingPooled
      /\ Linked(status, handle) => Linked(status, handle)'
  BY <1>3, DenyStep
<1>6. /\ totalMinted' \in Nat /\ bytesAllocated' \in Nat /\ faults' \in 0..MaxFaults
      /\ \E e \in {0, 1} : totalMinted' = totalMinted + e /\ faults' = faults + e
  <2>1. totalMinted \in Nat /\ bytesAllocated \in Nat /\ faults \in 0..MaxFaults /\ MaxFaults \in Nat
    BY <1>2, PinnedPoolAssumption DEF PoolTypeOK
  <2>2. CASE AcquireRefused
    <3>1. totalMinted' = totalMinted /\ bytesAllocated' = bytesAllocated /\ faults' = faults
      BY <2>2 DEF AcquireRefused, actorVars
    <3> QED
      BY <2>1, <3>1
  <2>3. CASE AllocFails
    <3>1. /\ totalMinted' = totalMinted + 1 /\ bytesAllocated' = bytesAllocated + m.size
          /\ faults' = faults + 1 /\ faults < MaxFaults
      BY <2>3, <1>1 DEF AllocFails, Fault
    <3> QED
      BY <2>1, <3>1, <1>4
  <2> QED
    BY <2>2, <2>3
<1>7. PoolTypeOK'
  <2>1. mailbox' \in Seq(Messages) /\ pipe' \in Seq(Returns) /\ status' \in [Clients -> Statuses] /\ handle' \in [Clients -> Handle]
    BY <1>5 DEF ClientTypes
  <2> QED
    BY <2>1, <1>2, <1>3, <1>6 DEF PoolTypeOK, Statuses
<1>8. ASSUME incarnation = 0 PROVE FirstGeneration' /\ Balance'
  <2>1. FirstGeneration /\ Balance
    BY <1>8 DEF LendingInv
  <2>2. FromStart(mailbox)'
    BY <2>1, <1>3, FirstRequest DEF FirstGeneration
  <2>3. FirstGeneration'
    BY <2>1, <2>2, <1>3, <1>5 DEF FirstGeneration
  <2>4. Balance'
    <3>1. PICK a, b, p, ap, bp, pp, f \in Nat :
             /\ a = Cardinality(Holding) /\ b = Cardinality(Where(mailbox, Returns)) /\ p = Len(pipe)
             /\ ap = Cardinality(HoldingPooled) /\ bp = Cardinality(Where(mailbox, PooledReturns))
             /\ pp = Cardinality(Where(pipe, PooledReturns)) /\ f = Len(free)
             /\ ap <= a /\ bp <= b /\ pp <= p
             /\ Balanced(a, b, p, ap, bp, pp, f, faults, inUse, totalMinted)
      BY <2>1, <1>2, NamedFigures
    <3>1a. ap <= a /\ bp <= b /\ pp <= p
      BY <3>1
    <3>2. /\ Cardinality(Where(mailbox, Returns))' = b /\ Cardinality(Where(mailbox, PooledReturns))' = bp
      BY <3>1, <1>3, FirstRequest
    <3>3. inUse = a + b + p /\ f + (a + b + p) + faults = totalMinted /\ f + ap + bp + pp <= MaxBuffers
      BY <3>1 DEF Balanced
    <3>4. totalMinted \in Nat /\ faults \in Nat /\ totalMinted' \in Nat /\ faults' \in Nat
      BY <1>2, <1>6, PinnedPoolAssumption DEF PoolTypeOK
    <3>5. f + (a + b + p) + faults' = totalMinted'
      <4>1. PICK e \in {0, 1} : totalMinted' = totalMinted + e /\ faults' = faults + e
        BY <1>6
      <4> QED
        BY <4>1, <3>3, <3>4
    <3>6. Balanced(a, b, p, ap, bp, pp, f, faults', inUse, totalMinted')
      BY <3>3, <3>5 DEF Balanced
    <3> QED
      BY <3>1, <3>2, <3>6, <1>3, <1>5 DEF Balance
  <2> QED
    BY <2>3, <2>4
<1> QED
  BY <1>3, <1>5, <1>7, <1>8 DEF LendingInv

\* The actor is restarted: from here on nothing is claimed but the types.
LEMMA AcquirePanicsStep ==
    ASSUME LendingInv, AcquirePanics
    PROVE  LendingInv'
<1>1. /\ Handling("Acquire") /\ Deny(Head(mailbox).client) /\ incarnation' = incarnation + 1
      /\ free' = <<>> /\ inUse' = 0 /\ totalMinted' = 0 /\ bytesAllocated' = 0 /\ generation' = 0 /\ connected' = FALSE
      /\ faults' = faults + 1 /\ faults < MaxFaults
  BY DEF AcquirePanics, Fault
<1>2. PoolTypeOK /\ MaxFaults \in Nat
  BY PinnedPoolAssumption DEF LendingInv
<1>3. ClientTypes' /\ Asking(mailbox, status)'
  BY <1>1, DenyStep
<1>4. incarnation' \in Nat /\ incarnation' # 0 /\ faults' \in 0..MaxFaults
  BY <1>1, <1>2 DEF PoolTypeOK
<1>5. free' \in Seq(Slot)
  BY <1>1
<1>6. PoolTypeOK'
  <2>1. mailbox' \in Seq(Messages) /\ pipe' \in Seq(Returns) /\ status' \in [Clients -> Statuses] /\ handle' \in [Clients -> Handle]
    BY <1>3 DEF ClientTypes
  <2> QED
    BY <2>1, <1>1, <1>4, <1>5 DEF PoolTypeOK, Statuses
<1> QED
  BY <1>3, <1>4, <1>6 DEF LendingInv

\* A slot comes back.
LEMMA HandleReturnStep ==
    ASSUME LendingInv, HandleReturn
    PROVE  LendingInv'
<1>1. PICK m : m = Head(mailbox)
  OBVIOUS
<1>2. PoolTypeOK /\ mailbox \in Seq(Messages) /\ status \in [Clients -> Statuses] /\ Asking(mailbox, status)
  BY TypesOfClients DEF LendingInv, ClientTypes
<1>3. /\ mailbox # <<>> /\ m.type = "InternalReturn" /\ mailbox' = Tail(mailbox)
      /\ UNCHANGED <<generation, connected, incarnation, faults, pipe, status, handle>>
  BY <1>1 DEF HandleReturn, Handling, clientVars
<1>4. m \in Messages /\ mailbox' \in Seq(Messages)
  BY <1>1, <1>2, <1>3
<1>5. m \in Returns /\ m.slot \in Slot /\ m.slot.size \in Sizes /\ (m \in PooledReturns <=> ~Oversize(m.slot.size))
  BY <1>3, <1>4, MessageFacts
<1>6. PICK s \in Slot : s = m.slot
  BY <1>5
<1>7. s.size \in Nat
  BY <1>5, <1>6 DEF Sizes
<1>8. /\ inUse \in Nat /\ totalMinted \in Nat /\ bytesAllocated \in Nat /\ free \in Seq(Slot)
  BY <1>2 DEF PoolTypeOK
<1>9. \A x \in Nat : \A y \in Nat : Monus(x, y) \in Nat
  BY DEF Monus
<1>10. PoolTypeOK'
  <2>1. inUse' \in Nat /\ totalMinted' \in Nat /\ bytesAllocated' \in Nat /\ free' \in Seq(Slot)
    <3>1. CASE m.generation # generation
      <4>1. /\ inUse' = inUse /\ free' = free /\ bytesAllocated' = Monus(bytesAllocated, s.size)
            /\ totalMinted' = Monus(totalMinted, 1)
        BY <3>1, <1>1, <1>6 DEF HandleReturn, FreeSlot
      <4> QED
        BY <4>1, <1>7, <1>8, <1>9
    <3>2. CASE m.generation = generation /\ Oversize(s.size)
      <4>1. /\ inUse' = Monus(inUse, 1) /\ free' = free /\ bytesAllocated' = Monus(bytesAllocated, s.size)
            /\ totalMinted' = Monus(totalMinted, 1)
        BY <3>2, <1>1, <1>6 DEF HandleReturn, FreeSlot, ReleaseInUse
      <4> QED
        BY <4>1, <1>7, <1>8, <1>9
    <3>3. CASE m.generation = generation /\ ~Oversize(s.size)
      <4>1. /\ inUse' = Monus(inUse, 1) /\ free' = Append(free, s) /\ bytesAllocated' = bytesAllocated
            /\ totalMinted' = totalMinted
        BY <3>3, <1>1, <1>6 DEF HandleReturn, ReleaseInUse
      <4> QED
        BY <4>1, <1>8, <1>9
    <3> QED
      BY <3>1, <3>2, <3>3
  <2> QED
    BY <2>1, <1>2, <1>3, <1>4 DEF PoolTypeOK
<1>11. Asking(mailbox, status)'
  <2>1. Asking(Tail(mailbox), status)
    BY <1>2, <1>3, AskingTail
  <2> QED
    BY <2>1, <1>3
<1>12. ASSUME incarnation = 0 PROVE FirstGeneration' /\ Balance'
  <2>1. FirstGeneration /\ Balance
    BY <1>12 DEF LendingInv
  <2>2. FromStart(mailbox)' /\ m.generation = generation
    <3>1. FromStart(mailbox) /\ generation = 0
      BY <2>1 DEF FirstGeneration
    <3>2. FromStart(Tail(mailbox)) /\ (Head(mailbox) \in Returns => Head(mailbox).generation = 0)
      BY <3>1, <1>2, <1>3, FromStartFacts
    <3> QED
      BY <3>1, <3>2, <1>1, <1>3, <1>5
  <2>3. PICK w \in 0..1 : w = Weight(m, PooledReturns) /\ w = IF Oversize(s.size) THEN 0 ELSE 1
    BY <1>5, <1>6 DEF Weight
  <2>4. PICK k \in Nat : k = Len(free)
    BY <1>8
  <2>5. /\ inUse' = Monus(inUse, 1) /\ Len(free') = k + w /\ PoolSized(free)'
        /\ totalMinted' = IF w = 0 THEN Monus(totalMinted, 1) ELSE totalMinted
    <3>1. PoolSized(free)
      BY <2>1 DEF FirstGeneration
    <3>2. CASE Oversize(s.size)
      <4>1. /\ inUse' = Monus(inUse, 1) /\ free' = free /\ totalMinted' = Monus(totalMinted, 1)
        BY <3>2, <2>2, <1>1, <1>6 DEF HandleReturn, FreeSlot, ReleaseInUse
      <4> QED
        BY <4>1, <3>1, <3>2, <2>3, <2>4 DEF PoolSized
    <3>3. CASE ~Oversize(s.size)
      <4>1. /\ inUse' = Monus(inUse, 1) /\ free' = Append(free, s) /\ totalMinted' = totalMinted
        BY <3>3, <2>2, <1>1, <1>6 DEF HandleReturn, ReleaseInUse
      <4>2. Len(free') = k + 1 /\ free'[k + 1] = s /\ \A i \in 1..k : free'[i] = free[i]
        BY <4>1, <2>4, <1>8
      <4>3. \A i \in 1..k + 1 : i \in 1..k \/ i = k + 1
        BY <2>4
      <4>4. \A i \in 1..k + 1 : ~Oversize(free'[i].size)
        BY <4>2, <4>3, <3>1, <3>3, <2>4 DEF PoolSized
      <4>5. PoolSized(free)'
        BY <4>2, <4>4 DEF PoolSized
      <4> QED
        BY <4>1, <4>2, <4>5, <3>3, <2>3
    <3> QED
      BY <3>2, <3>3
  <2>6. FirstGeneration'
    BY <2>1, <2>2, <2>5, <1>3 DEF FirstGeneration
  <2>7. Balance'
    <3>1. PICK a, b, p, ap, bp, pp, f \in Nat :
             /\ a = Cardinality(Holding) /\ b = Cardinality(Where(mailbox, Returns)) /\ p = Len(pipe)
             /\ ap = Cardinality(HoldingPooled) /\ bp = Cardinality(Where(mailbox, PooledReturns))
             /\ pp = Cardinality(Where(pipe, PooledReturns)) /\ f = Len(free)
             /\ ap <= a /\ bp <= b /\ pp <= p
             /\ Balanced(a, b, p, ap, bp, pp, f, faults, inUse, totalMinted)
      BY <2>1, <1>2, NamedFigures
    <3>1a. ap <= a /\ bp <= b /\ pp <= p
      BY <3>1
    <3>2. PICK b2, bp2 \in Nat : /\ b2 = Cardinality(Where(mailbox, Returns))' /\ b = b2 + 1
                               /\ bp2 = Cardinality(Where(mailbox, PooledReturns))' /\ bp = bp2 + w
      <4>1. /\ Cardinality(Where(mailbox, Returns)) = Cardinality(Where(Tail(mailbox), Returns)) + Weight(Head(mailbox), Returns)
            /\ Cardinality(Where(mailbox, PooledReturns)) =
                 Cardinality(Where(Tail(mailbox), PooledReturns)) + Weight(Head(mailbox), PooledReturns)
        BY <1>2, <1>3, WhereTail
      <4>2. Cardinality(Where(Tail(mailbox), Returns)) \in Nat /\ Cardinality(Where(Tail(mailbox), PooledReturns)) \in Nat
        BY <1>3, <1>4, WhereFacts
      <4>3. Weight(m, Returns) = 1
        BY <1>5 DEF Weight
      <4> QED
        BY <4>1, <4>2, <4>3, <3>1, <2>3, <1>1, <1>3
    <3>2a. b = b2 + 1 /\ bp = bp2 + w
      BY <3>2
    <3>2b. inUse \in Nat /\ totalMinted \in Nat /\ MaxBuffers \in Nat /\ faults \in Nat
      BY <1>2, <1>8, PinnedPoolAssumption DEF PoolTypeOK
    <3>3. inUse = a + b + p /\ f + (a + b + p) + faults = totalMinted /\ f + ap + bp + pp <= MaxBuffers
      BY <3>1 DEF Balanced
    <3>4. inUse' = inUse - 1 /\ totalMinted >= 1
      <4>1. inUse >= 1 /\ totalMinted >= 1
        BY <3>2a, <3>3, <3>2b
      <4> QED
        BY <4>1, <2>5, <1>8 DEF Monus
    <3>5. totalMinted' = IF w = 0 THEN totalMinted - 1 ELSE totalMinted
      <4>1. Monus(totalMinted, 1) = totalMinted - 1
        BY <3>4, <1>8 DEF Monus
      <4> QED
        BY <4>1, <2>5
    <3>6. f = k
      BY <3>1, <2>4
    <3>7. inUse - 1 = a + b2 + p
      BY <3>2a, <3>2b, <3>3
    <3>8. (k + w) + (a + b2 + p) + faults = totalMinted'
      <4>1. CASE w = 0
        <5>1. totalMinted' = totalMinted - 1
          BY <4>1, <3>5
        <5> QED
          BY <4>1, <5>1, <3>2a, <3>2b, <3>3, <3>6
      <4>2. CASE w = 1
        <5>1. totalMinted' = totalMinted
          BY <4>2, <3>5
        <5> QED
          BY <4>2, <5>1, <3>2a, <3>2b, <3>3, <3>6
      <4> QED
        BY <4>1, <4>2
    <3>9. (k + w) + ap + bp2 + pp <= MaxBuffers
      BY <3>2a, <3>2b, <3>3, <3>6
    <3>10. Balanced(a, b2, p, ap, bp2, pp, k + w, faults, inUse', totalMinted')
      BY <3>4, <3>7, <3>8, <3>9 DEF Balanced
    <3>11. Holding' = Holding /\ HoldingPooled' = HoldingPooled /\ pipe' = pipe /\ faults' = faults
      BY <1>3 DEF Holding, HoldingPooled
    <3> QED
      BY <3>1, <3>2, <3>10, <3>11, <2>5 DEF Balance
  <2> QED
    BY <2>6, <2>7
<1> QED
  BY <1>3, <1>10, <1>11, <1>12 DEF LendingInv

LEMMA LendingInitially == PoolInit => LendingInv
<1> SUFFICES ASSUME PoolInit PROVE LendingInv
  OBVIOUS
<1>1. /\ mailbox = <<>> /\ free = <<>> /\ pipe = <<>> /\ inUse = 0 /\ totalMinted = 0 /\ bytesAllocated = 0
      /\ generation = 0 /\ connected = TRUE /\ incarnation = 0 /\ faults = 0
      /\ status = [c \in Clients |-> "idle"] /\ handle = [c \in Clients |-> NoHandle]
  BY DEF PoolInit
<1>2. <<>> \in Seq(Messages) /\ <<>> \in Seq(Returns) /\ <<>> \in Seq(Slot)
  OBVIOUS
<1>3. NoHandle \in Handle
  BY DEF NoHandle, Handle, Slot, Sizes
<1>4. PoolTypeOK
  BY <1>1, <1>2, <1>3, PinnedPoolAssumption DEF PoolTypeOK
<1>5. Asking(mailbox, status)
  BY <1>1 DEF Asking
<1>6. FirstGeneration
  BY <1>1 DEF FirstGeneration, Linked, FromStart, PoolSized
<1>7. Balance
  <2>1. Holding = {} /\ HoldingPooled = {}
    BY <1>1 DEF Holding, HoldingPooled
  <2>2. Where(mailbox, Returns) = {} /\ Where(mailbox, PooledReturns) = {} /\ Where(pipe, PooledReturns) = {}
    BY <1>1 DEF Where
  <2>3. Cardinality({}) = 0
    BY FS_EmptySet
  <2>4. Len(pipe) = 0 /\ Len(free) = 0 /\ MaxBuffers \in Nat
    BY <1>1, PinnedPoolAssumption
  <2>5. Balanced(0, 0, 0, 0, 0, 0, 0, 0, 0, 0)
    BY <2>4 DEF Balanced
  <2> QED
    BY <2>1, <2>2, <2>3, <2>4, <2>5, <1>1 DEF Balance
<1> QED
  BY <1>4, <1>5, <1>6, <1>7 DEF LendingInv

LEMMA LendingInduction ==
    ASSUME LendingInv, [PoolNext]_poolVars
    PROVE  LendingInv'
<1>1. CASE UNCHANGED poolVars
  <2>1. /\ mailbox' = mailbox /\ free' = free /\ pipe' = pipe /\ inUse' = inUse /\ totalMinted' = totalMinted
        /\ bytesAllocated' = bytesAllocated /\ generation' = generation /\ connected' = connected
        /\ incarnation' = incarnation /\ faults' = faults /\ status' = status /\ handle' = handle
    BY <1>1 DEF poolVars, actorVars, clientVars
  <2>2. PoolTypeOK' <=> PoolTypeOK
    BY <2>1 DEF PoolTypeOK
  <2>3. Balance' <=> Balance
    BY <2>1 DEF Balance, Holding, HoldingPooled
  <2>4. FirstGeneration' <=> FirstGeneration
    BY <2>1 DEF FirstGeneration
  <2> QED
    BY <2>1, <2>2, <2>3, <2>4 DEF LendingInv
<1>2. CASE PoolNext
  BY <1>2, PoolAskStep, GiveUpStep, DropStep, PumpStep, AcquireMintsStep, AcquireReusesStep, DenialSteps,
     AcquirePanicsStep, HandleReturnStep DEF PoolNext, PoolStep
<1> QED
  BY <1>1, <1>2

LEMMA InUseFollows ==
    ASSUME LendingInv
    PROVE  InUseExact
  BY DEF LendingInv, InUseExact, Balance, Balanced, Outstanding, PooledLive

\* Until a restart in_use counts exactly the buffers that are lent or on their
\* way back, and there are never more than max_buffers pool-sized ones, for any
\* clients and any max_buffers, and whatever allocations fail.
THEOREM InUseIsExact == PoolSpec => []InUseExact
<1>1. PoolInit => LendingInv
  BY LendingInitially
<1>2. LendingInv /\ [PoolNext]_poolVars => LendingInv'
  BY LendingInduction
<1>3. LendingInv => InUseExact
  BY InUseFollows
<1> QED
  BY <1>1, <1>2, <1>3, PTL DEF PoolSpec

LEMMA RefusalFollows ==
    ASSUME LendingInv, incarnation = 0, AcquireRefused, ~Oversize(Head(mailbox).size)
    PROVE  Outstanding + faults >= MaxBuffers
<1>1. PICK m : m = Head(mailbox)
  OBVIOUS
<1>2. free = <<>> /\ totalMinted >= MaxBuffers
  BY <1>1 DEF AcquireRefused, Mints, Full
<1>3. Len(free) = 0
  BY <1>2
<1>4. PoolTypeOK /\ Balance
  BY DEF LendingInv
<1>5. PICK a, b, p, ap, bp, pp, f \in Nat :
         /\ a = Cardinality(Holding) /\ b = Cardinality(Where(mailbox, Returns)) /\ p = Len(pipe)
         /\ ap = Cardinality(HoldingPooled) /\ bp = Cardinality(Where(mailbox, PooledReturns))
         /\ pp = Cardinality(Where(pipe, PooledReturns)) /\ f = Len(free)
         /\ ap <= a /\ bp <= b /\ pp <= p
         /\ Balanced(a, b, p, ap, bp, pp, f, faults, inUse, totalMinted)
  BY <1>4, NamedFigures
<1>6. f + (a + b + p) + faults = totalMinted /\ f = 0 /\ Outstanding = a + b + p
  BY <1>3, <1>5 DEF Balanced, Outstanding
<1>7. totalMinted \in Nat /\ MaxBuffers \in Nat /\ faults \in Nat
  BY <1>4, PinnedPoolAssumption DEF PoolTypeOK
<1> QED
  BY <1>2, <1>6, <1>7

\* Until a restart a pool-sized request is refused only while max_buffers places
\* are taken by buffers that are out or were lost to failed allocations, for any
\* clients and any max_buffers: total_minted is the sum of the free slots, the ones
\* that are out and the failed allocations (Balance), so that no return, reuse or
\* abandoned request loses a place.
THEOREM RefusedOnlyWhenTakenHolds == PoolSpec => RefusedOnlyWhenTaken
<1>1. PoolInit => LendingInv
  BY LendingInitially
<1>2. LendingInv /\ [PoolNext]_poolVars => LendingInv'
  BY LendingInduction
<1>3. LendingInv =>
        (incarnation = 0 /\ AcquireRefused /\ ~Oversize(Head(mailbox).size)
            => Outstanding + faults >= MaxBuffers)
  BY RefusalFollows
<1> QED
  BY <1>1, <1>2, <1>3, PTL DEF PoolSpec, RefusedOnlyWhenTaken
=============================================================================
