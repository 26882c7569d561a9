----------------------------- MODULE PinnedPool -----------------------------
(***************************************************************************)
(* PinnedBufferPool: an actor that lends page-locked host buffers.  A       *)
(* handle's Drop cannot tell the actor directly; it sends the slot over an  *)
(* mpsc channel whose pump task, started in pre_start, forwards it to the   *)
(* mailbox.  Slots larger than the pool's capacity are one-shot.            *)
(*                                                                          *)
(* Clients ask, use and drop for ever; a client may also give up waiting.   *)
(***************************************************************************)
EXTENDS Naturals, Sequences, FiniteSets

CONSTANTS
    Clients,        \* holders of PinnedBufHandle / PinnedBuf
    MaxBuffers,     \* max_buffers
    AllowOversize,  \* allow_oversize
    PoolFaults,     \* subset of {"alloc", "restart"}
    MaxFaults,      \* bound on how many of them happen
    MaxLoad         \* bound: nobody asks while as much is queued and lent

ASSUME PinnedPoolAssumption ==
    /\ IsFiniteSet(Clients)
    /\ MaxBuffers \in Nat
    /\ AllowOversize \in BOOLEAN
    /\ PoolFaults \subseteq {"alloc", "restart"}
    /\ MaxFaults \in Nat
    /\ MaxLoad \in Nat

VARIABLES
    \* PinnedBufferPool
    mailbox, free, inUse, totalMinted, bytesAllocated, generation,
    connected,    \* return_tx leads to a pump
    incarnation,  \* history: how often the actor has been restarted
    faults,
    \* the pump and the clients
    pipe,         \* the mpsc channel of Drop-driven returns
    status,       \* per client
    handle        \* per client: the handle it holds, if "holding"

actorVars  == <<free, inUse, totalMinted, bytesAllocated, generation, connected>>
clientVars == <<status, handle>>
poolVars   == <<mailbox, actorVars, incarnation, faults, pipe, clientVars>>

-----------------------------------------------------------------------------
\* Sizes in units of buffer_capacity_bytes.
Sizes == {1, 2}
Oversize(n) == n > 1

\* PinnedSlot, with the incarnation that minted it.
Slot == [size : Sizes, home : Nat]
Handle == [slot : Slot, generation : Nat, connected : BOOLEAN]
NoHandle == [slot |-> [size |-> 1, home |-> 0], generation |-> 0, connected |-> FALSE]

\* PinnedPoolMsg
AcquireMsg(c, n)     == [type |-> "Acquire", client |-> c, size |-> n]
InternalReturn(s, g) == [type |-> "InternalReturn", slot |-> s, generation |-> g]

PoolInit ==
    /\ mailbox = <<>> /\ free = <<>> /\ pipe = <<>>
    /\ inUse = 0 /\ totalMinted = 0 /\ bytesAllocated = 0
    /\ generation = 0 /\ connected = TRUE
    /\ incarnation = 0 /\ faults = 0
    /\ status = [c \in Clients |-> "idle"]
    /\ handle = [c \in Clients |-> NoHandle]

-----------------------------------------------------------------------------
(* Clients *)

Ask(c, n) ==
    /\ status[c] \in {"idle", "refused"}
    /\ Len(mailbox) + Len(pipe) + inUse < MaxLoad
    /\ status' = [status EXCEPT ![c] = "waiting"]
    /\ mailbox' = Append(mailbox, AcquireMsg(c, n))
    /\ UNCHANGED <<actorVars, incarnation, faults, pipe, handle>>

\* The caller drops its oneshot receiver.
GiveUp(c) ==
    /\ status[c] = "waiting"
    /\ status' = [status EXCEPT ![c] = "gone"]
    /\ UNCHANGED <<mailbox, actorVars, incarnation, faults, pipe, handle>>

\* The channel after a handle was dropped; without a pump the send fails and
\* the slot is freed with the message.
Dropped(h) ==
    IF h.connected THEN Append(pipe, InternalReturn(h.slot, h.generation)) ELSE pipe

\* Drop of PinnedBuf or of a PinnedBufHandle, into_typed's error included.
Drop(c) ==
    /\ status[c] = "holding"
    /\ status' = [status EXCEPT ![c] = "idle"]
    /\ handle' = [handle EXCEPT ![c] = NoHandle]
    /\ pipe' = Dropped(handle[c])
    /\ UNCHANGED <<mailbox, actorVars, incarnation, faults>>

Pump ==
    /\ pipe # <<>>
    /\ pipe' = Tail(pipe)
    /\ mailbox' = Append(mailbox, Head(pipe))
    /\ UNCHANGED <<actorVars, incarnation, faults, clientVars>>

-----------------------------------------------------------------------------
(* PinnedBufferPool::handle *)

Handling(t) ==
    /\ mailbox # <<>> /\ Head(mailbox).type = t
    /\ mailbox' = Tail(mailbox)

\* reply.send(Ok(handle)): to nobody, the handle is dropped at once.
Lend(c, s) ==
    LET h == [slot |-> s, generation |-> generation, connected |-> connected] IN
    /\ inUse' = inUse + 1
    /\ IF status[c] = "gone"
       THEN /\ status' = [status EXCEPT ![c] = "idle"]
            /\ pipe' = Dropped(h)
            /\ UNCHANGED handle
       ELSE /\ status' = [status EXCEPT ![c] = "holding"]
            /\ handle' = [handle EXCEPT ![c] = h]
            /\ UNCHANGED pipe

\* An error reply; after a panic the sender is dropped, an error as well.
Deny(c) ==
    /\ status' = [status EXCEPT ![c] = IF @ = "gone" THEN "idle" ELSE "refused"]
    /\ UNCHANGED <<handle, pipe>>

\* total_minted >= max_buffers
Full == totalMinted >= MaxBuffers

\* The request needs a new slot, and may have one.
Mints(n) == IF Oversize(n) THEN AllowOversize ELSE free = <<>> /\ ~Full

AcquireMints ==
    LET m == Head(mailbox) IN
    /\ Handling("Acquire") /\ Mints(m.size)
    /\ bytesAllocated' = bytesAllocated + m.size
    /\ totalMinted' = totalMinted + 1
    /\ Lend(m.client, [size |-> m.size, home |-> incarnation])
    /\ UNCHANGED <<free, generation, connected, incarnation, faults>>

AcquireReuses ==
    LET m == Head(mailbox) IN
    /\ Handling("Acquire") /\ ~Oversize(m.size) /\ free # <<>>
    /\ free' = Tail(free)
    /\ Lend(m.client, Head(free))
    /\ UNCHANGED <<totalMinted, bytesAllocated, generation, connected, incarnation, faults>>

AcquireRefused ==
    LET m == Head(mailbox) IN
    /\ Handling("Acquire") /\ ~Mints(m.size) /\ (Oversize(m.size) \/ free = <<>>)
    /\ Deny(m.client)
    /\ UNCHANGED <<actorVars, incarnation, faults>>

Fault(f) ==
    /\ f \in PoolFaults /\ faults < MaxFaults
    /\ faults' = faults + 1

\* PinnedSlot::new fails after the slot has been counted.
AllocFails ==
    LET m == Head(mailbox) IN
    /\ Fault("alloc")
    /\ Handling("Acquire") /\ Mints(m.size)
    /\ bytesAllocated' = bytesAllocated + m.size
    /\ totalMinted' = totalMinted + 1
    /\ Deny(m.client)
    /\ UNCHANGED <<free, inUse, generation, connected, incarnation>>

\* The mint panics (the driver cannot be loaded, or bytes_allocated overflows
\* in a debug build).  pre_restart bumps the generation of the old instance;
\* the factory makes a new one, and pre_start is not run again.
AcquirePanics ==
    LET m == Head(mailbox) IN
    /\ Fault("restart")
    /\ Handling("Acquire") /\ Mints(m.size)
    /\ free' = <<>> /\ inUse' = 0 /\ totalMinted' = 0 /\ bytesAllocated' = 0
    /\ generation' = 0 /\ connected' = FALSE
    /\ incarnation' = incarnation + 1
    /\ Deny(m.client)

\* saturating_sub
Monus(a, b) == IF a > b THEN a - b ELSE 0

\* Mutant of ReleaseInUse: the count is not lowered for one-shot slots.
ReleaseInUsePooledOnly(s) == IF Oversize(s.size) THEN inUse ELSE Monus(inUse, 1)

\* in_use after a slot of this generation has come back.
ReleaseInUse(s) == Monus(inUse, 1)

\* Mutant of FreeSlot: the place of a slot that is freed is not given back.
FreeSlotBytesOnly(s) ==
    /\ bytesAllocated' = Monus(bytesAllocated, s.size)
    /\ UNCHANGED totalMinted

FreeSlot(s) ==
    /\ bytesAllocated' = Monus(bytesAllocated, s.size)
    /\ totalMinted' = Monus(totalMinted, 1)

\* return_slot
HandleReturn ==
    LET m == Head(mailbox) IN
    /\ Handling("InternalReturn")
    /\ IF m.generation # generation
       THEN FreeSlot(m.slot) /\ UNCHANGED <<inUse, free>>
       ELSE /\ inUse' = ReleaseInUse(m.slot)
            /\ IF Oversize(m.slot.size)
               THEN FreeSlot(m.slot) /\ UNCHANGED free
               ELSE /\ free' = Append(free, m.slot)
                    /\ UNCHANGED <<bytesAllocated, totalMinted>>
    /\ UNCHANGED <<generation, connected, incarnation, faults, pipe, clientVars>>

-----------------------------------------------------------------------------
PoolStep ==
    \/ AcquireMints
    \/ AcquireReuses
    \/ AcquireRefused
    \/ HandleReturn

PoolNext ==
    \/ \E c \in Clients, n \in Sizes : Ask(c, n)
    \/ \E c \in Clients : GiveUp(c) \/ Drop(c)
    \/ Pump
    \/ PoolStep
    \/ AllocFails
    \/ AcquirePanics

PoolSpec == PoolInit /\ [][PoolNext]_poolVars

-----------------------------------------------------------------------------
(* Properties *)

Returns == [type : {"InternalReturn"}, slot : Slot, generation : Nat]
PooledReturns == [type : {"InternalReturn"}, slot : [size : {n \in Sizes : ~Oversize(n)}, home : Nat], generation : Nat]
Messages == [type : {"Acquire"}, client : Clients, size : Sizes] \cup Returns

\* Every variable has its type; no counter is lowered below zero, also when
\* slots of an earlier incarnation come back.
PoolTypeOK ==
    /\ mailbox \in Seq(Messages) /\ free \in Seq(Slot)
    /\ pipe \in Seq(Returns)
    /\ inUse \in Nat /\ totalMinted \in Nat /\ bytesAllocated \in Nat
    /\ generation \in Nat /\ incarnation \in Nat /\ faults \in 0..MaxFaults
    /\ connected \in BOOLEAN
    /\ status \in [Clients -> {"idle", "waiting", "gone", "holding", "refused"}]
    /\ handle \in [Clients -> Handle]

Holding == {c \in Clients : status[c] = "holding"}
HoldingPooled == {c \in Holding : ~Oversize(handle[c].slot.size)}

\* The positions of the members of T in a mailbox or channel.
Where(q, T) == {i \in 1..Len(q) : q[i] \in T}

\* Slots that are not in the free list: lent, or on their way back.
Outstanding == Cardinality(Holding) + Cardinality(Where(mailbox, Returns)) + Len(pipe)

\* Pool-sized buffers that exist.
PooledLive ==
    Len(free) + Cardinality(HoldingPooled)
              + Cardinality(Where(mailbox, PooledReturns)) + Cardinality(Where(pipe, PooledReturns))

\* Until the actor is restarted, Stats.in_use counts exactly the buffers that
\* are lent or on their way back, through refusals, failed allocations and
\* clients that gave up, and the pool never owns more than max_buffers
\* pool-sized buffers, whatever one-shot buffers come and go between them.
\* (A restart forgets the buffers that are out.)
InUseExact ==
    incarnation = 0 => /\ inUse = Outstanding
                       /\ PooledLive <= MaxBuffers

\* Until the actor is restarted, a pool-sized request is refused only while
\* max_buffers places are taken: by buffers that are lent or on their way back,
\* one-shot ones included, and by allocations that failed, which keep their place
\* for good.  No client that gives up, no reuse and no return loses a place.
RefusedOnlyWhenTaken ==
    [][ incarnation = 0 /\ AcquireRefused /\ ~Oversize(Head(mailbox).size)
          => Outstanding + faults >= MaxBuffers ]_poolVars

\* Claim: the pool grows up to max_buffers, so a pool-sized request is refused
\* only when max_buffers buffers are out.
RefusedOnlyWhenFull ==
    [][ mailbox # <<>> /\ Head(mailbox).type = "Acquire" /\ ~Oversize(Head(mailbox).size)
          /\ AcquireRefused => Outstanding >= MaxBuffers ]_poolVars

\* Claim: buffers that survive a restart do not return into a fresh pool.
FreshPoolIsFresh == \A i \in 1..Len(free) : free[i].home = incarnation

\* Claim: dropping a handle sends its slot back to the pool.
DropReturns ==
    [][ \A c \in Clients : Drop(c) => Len(pipe') = Len(pipe) + 1 ]_poolVars

=============================================================================
