--------------------------- MODULE FairShareProofs ---------------------------
(***************************************************************************)
(* WorkConserving, LagBounded and InFlightExact for any tenants, weights,   *)
(* slots, requests and panics of the dispatcher.                            *)
(***************************************************************************)
EXTENDS FairShare, FiniteSetTheorems, TLAPS

-----------------------------------------------------------------------------
Messages == [type : {"Submit"}, req : Requests] \cup {Finished}

\* Every variable has its type.
TypeInv ==
    /\ mailbox \in Seq(Messages)
    /\ queue \in [Tenants -> Seq(Requests)]
    /\ vfinish \in [Tenants -> Nat]
    /\ in_flight \in Nat
    /\ dispatching \in BOOLEAN
    /\ owner \in [Requests -> Tenants \cup {Unknown}]
    /\ state \in [Requests -> {"unsent", "waiting", "running", "dropped", "replied", "done"}]
    /\ passed \in [Tenants -> [Tenants -> Nat]]
    /\ panics \in Nat

\* A queued request waits, is in the queue of its tenant, and is there once.
QueueInv ==
    \A t \in Tenants : \A i \in DOMAIN queue[t] :
        /\ state[queue[t][i]] = "waiting"
        /\ owner[queue[t][i]] = t
        /\ \A j \in DOMAIN queue[t] : queue[t][j] = queue[t][i] => j = i

\* A request on its way waits, is in no queue and is on its way once.
MailInv ==
    \A i \in DOMAIN mailbox : mailbox[i].type = "Submit" =>
        /\ state[mailbox[i].req] = "waiting"
        /\ \A t \in Tenants : \A j \in DOMAIN queue[t] : queue[t][j] # mailbox[i].req
        /\ \A j \in DOMAIN mailbox : mailbox[j] = mailbox[i] => j = i

\* Nobody has passed a tenant that does not wait.
PassedInv == \A t \in Tenants : queue[t] = <<>> => \A u \in Tenants : passed[t][u] = 0

\* The slots are counted: a panic forgets at most max_in_flight of them.
CountInv ==
    LET used == Cardinality(Busy) + Cardinality(FinishedQueued) IN
    /\ in_flight <= MaxInFlight
    /\ used <= in_flight + MaxInFlight * panics
    /\ panics = 0 => in_flight = used

-----------------------------------------------------------------------------
\* The elements of a sequence over S are in S.
LEMMA ElementFacts ==
    ASSUME NEW S, NEW q \in Seq(S), NEW i \in DOMAIN q
    PROVE  q[i] \in S
  OBVIOUS

\* Taking the first element moves the others one place up.
LEMMA TailFacts ==
    ASSUME NEW S, NEW q \in Seq(S), q # <<>>
    PROVE  /\ Tail(q) \in Seq(S)
           /\ Head(q) = q[1] /\ Head(q) \in S /\ 1 \in DOMAIN q
           /\ \A i \in DOMAIN Tail(q) : i \in Nat /\ i > 0 /\ i + 1 \in DOMAIN q /\ Tail(q)[i] = q[i + 1]
           /\ \A i \in DOMAIN q : i \in Nat /\ (i # 1 => i - 1 \in DOMAIN Tail(q) /\ Tail(q)[i - 1] = q[i])
  OBVIOUS

\* Adding an element leaves the others where they are.
LEMMA AppendFacts ==
    ASSUME NEW S, NEW q \in Seq(S), NEW e \in S
    PROVE  /\ Append(q, e) \in Seq(S) /\ Append(q, e) # <<>>
           /\ Len(q) + 1 \in DOMAIN Append(q, e) /\ Append(q, e)[Len(q) + 1] = e
           /\ \A i \in DOMAIN q : i \in DOMAIN Append(q, e) /\ Append(q, e)[i] = q[i] /\ i # Len(q) + 1
           /\ \A i \in DOMAIN Append(q, e) :
                 \/ i \in DOMAIN q /\ Append(q, e)[i] = q[i]
                 \/ i = Len(q) + 1 /\ Append(q, e)[i] = e
  OBVIOUS

\* The places of a value in a sequence.
PlacesOf(e, q) == {i \in DOMAIN q : q[i] = e}

\* They are finitely many.
LEMMA PlacesFinite ==
    ASSUME NEW S, NEW q \in Seq(S), NEW e
    PROVE  IsFiniteSet(PlacesOf(e, q)) /\ Cardinality(PlacesOf(e, q)) \in Nat
  <1>1. DOMAIN q = 1..Len(q) /\ Len(q) \in Int /\ 1 \in Int
    OBVIOUS
  <1>2. IsFiniteSet(DOMAIN q)
    BY <1>1, FS_Interval
  <1>3. IsFiniteSet(PlacesOf(e, q))
    BY <1>2, FS_Subset DEF PlacesOf
  <1> QED
    BY <1>3, FS_CardinalityType

\* Taking the first element lowers their number by one if it is e.
LEMMA PlacesTail ==
    ASSUME NEW S, NEW q \in Seq(S), q # <<>>, NEW e
    PROVE  Cardinality(PlacesOf(e, Tail(q))) =
               IF Head(q) = e THEN Cardinality(PlacesOf(e, q)) - 1 ELSE Cardinality(PlacesOf(e, q))
  <1> DEFINE A == PlacesOf(e, q)
             B == PlacesOf(e, Tail(q))
             f == [i \in B |-> i + 1]
  <1>1. IsFiniteSet(A) /\ IsFiniteSet(B)
    BY PlacesFinite, TailFacts
  <1>2. Head(q) = q[1] /\ 1 \in DOMAIN q
    BY TailFacts
  <1>3. f \in Bijection(B, A \ {1})
    <2>1. \A i \in B : i \in Nat /\ i > 0 /\ i + 1 \in A
      BY TailFacts DEF PlacesOf
    <2>2. \A i \in A : i \in Nat /\ (i # 1 => i - 1 \in B)
      BY TailFacts DEF PlacesOf
    <2> HIDE DEF A, B
    <2>3. f \in [B -> A \ {1}]
      BY <2>1
    <2>4. \A x, y \in B : f[x] = f[y] => x = y
      BY <2>1
    <2>5. \A y \in A \ {1} : \E x \in B : f[x] = y
      <3>1. ASSUME NEW y \in A \ {1} PROVE y - 1 \in B /\ f[y - 1] = y
        BY <2>2
      <3> QED
        BY <3>1
    <2> QED
      BY <2>3, <2>4, <2>5 DEF Bijection, Injection, Surjection, IsInjective
  <1>4. Cardinality(A \ {1}) = Cardinality(B)
    BY <1>1, <1>3, FS_Bijection DEF ExistsBijection
  <1>5. 1 \in A <=> Head(q) = e
    BY <1>2 DEF PlacesOf
  <1> QED
    BY <1>1, <1>4, <1>5, FS_RemoveElement

\* Adding a last element raises it by one if it is e.
LEMMA PlacesAppend ==
    ASSUME NEW S, NEW q \in Seq(S), NEW x \in S, NEW e
    PROVE  Cardinality(PlacesOf(e, Append(q, x))) =
               IF x = e THEN Cardinality(PlacesOf(e, q)) + 1 ELSE Cardinality(PlacesOf(e, q))
  <1>1. IsFiniteSet(PlacesOf(e, q))
    BY PlacesFinite
  <1>2. Len(q) + 1 \notin PlacesOf(e, q)
    BY AppendFacts DEF PlacesOf
  <1>3. CASE x = e
    <2>1. PlacesOf(e, Append(q, x)) = PlacesOf(e, q) \cup {Len(q) + 1}
      BY <1>3, AppendFacts DEF PlacesOf
    <2> QED
      BY <1>1, <1>2, <1>3, <2>1, FS_AddElement
  <1>4. CASE x # e
    <2>1. PlacesOf(e, Append(q, x)) = PlacesOf(e, q)
      BY <1>4, AppendFacts DEF PlacesOf
    <2> QED
      BY <1>4, <2>1
  <1> QED
    BY <1>3, <1>4

-----------------------------------------------------------------------------
\* The inductive invariant.  The count of slots is exact only because no
\* request is at two places: dispatching one that runs already would not make
\* more requests busy.  LagBounded needs that a tenant begins to wait unpassed.
IInv ==
    /\ TypeInv
    /\ QueueInv
    /\ MailInv
    /\ PassedInv
    /\ LagBounded
    /\ WorkConserving
    /\ CountInv

\* The messages are told apart by their type.
LEMMA MessageFacts ==
    /\ \A r \in Requests : Submit(r) \in Messages /\ Submit(r).type = "Submit" /\ Submit(r).req = r
    /\ \A r \in Requests : Submit(r) # Finished
    /\ Finished \in Messages /\ Finished.type = "Finished"
    /\ \A m \in Messages : m.type = "Submit" => m.req \in Requests /\ m = Submit(m.req)
    /\ \A m \in Messages : m.type = "Finished" => m = Finished
  BY DEF Messages, Submit, Finished

\* Every turn of a tenant costs a natural number.
LEMMA IncrementType == \A t \in Tenants : Increment(t) \in Nat
  <1> SUFFICES ASSUME NEW t \in Tenants PROVE Increment(t) \in Nat
    OBVIOUS
  <1>1. Scale \in Nat /\ Weight[t] \in Nat
    BY FairShareAssumption
  <1> DEFINE w == IF Weight[t] = 0 THEN 1 ELSE Weight[t]
  <1>2. w \in Nat /\ w > 0
    BY <1>1
  <1> HIDE DEF w
  <1>3. Scale \div w \in Nat
    BY <1>1, <1>2
  <1> QED
    BY <1>3 DEF Increment, w

\* Requests are finitely many, so every set of them has a size.
LEMMA RequestsFinite ==
    ASSUME NEW R \in SUBSET Requests
    PROVE  IsFiniteSet(R) /\ Cardinality(R) \in Nat
  <1>1. IsFiniteSet(Requests)
    BY FairShareAssumption, FS_Interval DEF Requests
  <1>2. IsFiniteSet(R)
    BY <1>1, FS_Subset
  <1> QED
    BY <1>2, FS_CardinalityType

\* The sizes of the sets that the slots are counted by.
LEMMA CountTypes ==
    ASSUME TypeInv
    PROVE  /\ IsFiniteSet(Busy) /\ Cardinality(Busy) \in Nat
           /\ Cardinality(FinishedQueued) \in Nat
           /\ FinishedQueued = PlacesOf(Finished, mailbox)
           /\ in_flight \in Nat /\ MaxInFlight \in Nat /\ panics \in Nat
           /\ MaxInFlight * panics \in Nat
  <1>1. FinishedQueued = PlacesOf(Finished, mailbox)
    BY DEF FinishedQueued, PlacesOf
  <1>2. Cardinality(FinishedQueued) \in Nat
    BY <1>1, PlacesFinite DEF TypeInv
  <1>3. IsFiniteSet(Busy) /\ Cardinality(Busy) \in Nat
    BY RequestsFinite DEF Busy
  <1>4. in_flight \in Nat /\ MaxInFlight \in Nat /\ panics \in Nat
    BY FairShareAssumption DEF TypeInv
  <1>5. MaxInFlight * panics \in Nat
    BY <1>4
  <1> QED
    BY <1>1, <1>2, <1>3, <1>4, <1>5

\* The count gives InFlightExact: the requests at the dispatcher are busy.
LEMMA IInvExact == IInv => InFlightExact
  <1> SUFFICES ASSUME IInv PROVE InFlightExact
    OBVIOUS
  <1>1. TypeInv /\ CountInv
    BY DEF IInv
  <1>2. Cardinality(Running) \in Nat /\ Cardinality(Running) <= Cardinality(Busy)
    <2>1. Running \in SUBSET Busy /\ Running \in SUBSET Requests
      BY DEF Running, Busy
    <2> QED
      BY <1>1, <2>1, CountTypes, RequestsFinite, FS_Subset
  <1>3. Cardinality(Running) <= MaxInFlight + MaxInFlight * panics
    BY <1>1, <1>2, CountTypes DEF CountInv
  <1>4. MaxInFlight * (panics + 1) = MaxInFlight + MaxInFlight * panics
    BY <1>1, CountTypes
  <1> QED
    BY <1>1, <1>3, <1>4 DEF InFlightExact, CountInv

\* The scheduler starts idle.
LEMMA InitInv == Init => IInv
  <1> SUFFICES ASSUME Init PROVE IInv
    OBVIOUS
  <1>1. TypeInv
    <2>1. NothingPassed \in [Tenants -> Nat]
      BY DEF NothingPassed
    <2>2. <<>> \in Seq(Messages) /\ <<>> \in Seq(Requests)
      OBVIOUS
    <2> QED
      BY <2>1, <2>2 DEF Init, TypeInv
  <1>2. Waiting = {}
    BY DEF Init, Waiting
  <1>3. LagBounded /\ WorkConserving
    BY <1>2 DEF LagBounded, WorkConserving
  <1>4. \A t \in Tenants : DOMAIN queue[t] = {}
    BY DEF Init
  <1>5. DOMAIN mailbox = {}
    BY DEF Init
  <1>6. QueueInv /\ MailInv /\ PassedInv
    BY <1>4, <1>5 DEF Init, QueueInv, MailInv, PassedInv, NothingPassed
  <1>7. CountInv
    <2>1. Busy = {} /\ FinishedQueued = {}
      BY <1>5 DEF Init, Busy, FinishedQueued
    <2>2. Cardinality(Busy) = 0 /\ Cardinality(FinishedQueued) = 0
      BY <2>1, FS_EmptySet
    <2> QED
      BY <1>1, <2>2, CountTypes DEF Init, CountInv
  <1> QED
    BY <1>1, <1>3, <1>6, <1>7 DEF IInv

-----------------------------------------------------------------------------
(* Callers, the dispatcher and the tees *)

\* These steps change neither the queues nor the virtual times.
LEMMA FairnessKept ==
    ASSUME IInv, UNCHANGED <<queue, vfinish, in_flight, dispatching, passed>>
    PROVE  PassedInv' /\ LagBounded' /\ WorkConserving'
  BY DEF IInv, PassedInv, LagBounded, WorkConserving, Waiting

\* A request is sent: it waits, and is nowhere else.
LEMMA SendSubmitStep ==
    ASSUME IInv, NEW r \in Requests, NEW t \in Tenants \cup {Unknown}, SendSubmit(r, t)
    PROVE  IInv'
  <1>0. TypeInv /\ QueueInv /\ MailInv /\ CountInv
    BY DEF IInv
  <1>1. /\ state[r] = "unsent" /\ owner' = [owner EXCEPT ![r] = t]
        /\ state' = [state EXCEPT ![r] = "waiting"]
        /\ mailbox' = Append(mailbox, Submit(r))
        /\ UNCHANGED <<queue, vfinish, in_flight, dispatching, passed, panics>>
    BY DEF SendSubmit
  <1>2. /\ Submit(r) \in Messages /\ Submit(r).type = "Submit" /\ Submit(r).req = r
        /\ Submit(r) # Finished
    BY MessageFacts
  <1>3. /\ mailbox' \in Seq(Messages)
        /\ \A i \in DOMAIN mailbox : i \in DOMAIN mailbox' /\ mailbox'[i] = mailbox[i]
        /\ \A i \in DOMAIN mailbox' :
              \/ i \in DOMAIN mailbox /\ mailbox'[i] = mailbox[i]
              \/ i = Len(mailbox) + 1 /\ mailbox'[i] = Submit(r)
    BY <1>0, <1>1, <1>2, AppendFacts DEF TypeInv
  <1>4. TypeInv'
    BY <1>0, <1>1, <1>3 DEF TypeInv
  <1>5. /\ state'[r] = "waiting"
        /\ \A p \in Requests : p # r => state'[p] = state[p] /\ owner'[p] = owner[p]
    BY <1>0, <1>1 DEF TypeInv
  <1>6. \A u \in Tenants : \A i \in DOMAIN queue[u] : queue[u][i] \in Requests /\ queue[u][i] # r
    <2>1. ASSUME NEW u \in Tenants, NEW i \in DOMAIN queue[u]
          PROVE  queue[u][i] \in Requests
      BY <1>0, ElementFacts DEF TypeInv
    <2> QED
      BY <1>0, <1>1, <2>1 DEF QueueInv
  <1>7. \A i \in DOMAIN mailbox : mailbox[i].type = "Submit" =>
            mailbox[i].req \in Requests /\ mailbox[i].req # r
    <2>1. \A i \in DOMAIN mailbox : mailbox[i] \in Messages
      BY <1>0, ElementFacts DEF TypeInv
    <2> QED
      BY <1>0, <1>1, <2>1, MessageFacts DEF MailInv
  <1>8. QueueInv'
    BY <1>0, <1>1, <1>5, <1>6 DEF QueueInv
  <1>9. MailInv'
    <2>1. ASSUME NEW i \in DOMAIN mailbox', mailbox'[i].type = "Submit"
          PROVE  /\ state'[mailbox'[i].req] = "waiting"
                 /\ \A u \in Tenants : \A j \in DOMAIN queue[u] : queue[u][j] # mailbox'[i].req
                 /\ \A j \in DOMAIN mailbox' : mailbox'[j] = mailbox'[i] => j = i
      <3>1. CASE i \in DOMAIN mailbox /\ mailbox'[i] = mailbox[i]
        <4>1. /\ state[mailbox[i].req] = "waiting" /\ mailbox[i].req # r /\ mailbox[i].req \in Requests
              /\ \A u \in Tenants : \A j \in DOMAIN queue[u] : queue[u][j] # mailbox[i].req
              /\ \A j \in DOMAIN mailbox : mailbox[j] = mailbox[i] => j = i
          BY <1>0, <1>7, <2>1, <3>1 DEF MailInv
        <4> QED
          BY <1>2, <1>3, <1>5, <3>1, <4>1
      <3>2. CASE i = Len(mailbox) + 1 /\ mailbox'[i] = Submit(r)
        BY <1>2, <1>3, <1>5, <1>6, <1>7, <3>2
      <3> QED
        BY <1>3, <3>1, <3>2
    <2>2. queue' = queue
      BY <1>1
    <2> QED
      BY <2>1, <2>2 DEF MailInv
  <1>10. CountInv'
    <2>1. Busy' = Busy
      BY <1>1, <1>5 DEF Busy
    <2>2. Cardinality(FinishedQueued') = Cardinality(FinishedQueued)
      <3>1. /\ FinishedQueued = PlacesOf(Finished, mailbox)
            /\ FinishedQueued' = PlacesOf(Finished, mailbox')
        BY DEF FinishedQueued, PlacesOf
      <3>2. mailbox \in Seq(Messages)
        BY <1>0 DEF TypeInv
      <3> QED
        BY <1>1, <1>2, <3>1, <3>2, PlacesAppend
    <2> QED
      BY <1>0, <1>1, <2>1, <2>2 DEF CountInv
  <1> QED
    BY <1>1, <1>4, <1>8, <1>9, <1>10, FairnessKept DEF IInv

\* The tee passes on the reply: the slot stays taken.
LEMMA TeeRepliesStep ==
    ASSUME IInv, NEW r \in Requests, TeeReplies(r)
    PROVE  IInv'
  <1>0. TypeInv /\ QueueInv /\ MailInv /\ CountInv
    BY DEF IInv
  <1>1. /\ state[r] \in {"running", "dropped"} /\ state' = [state EXCEPT ![r] = "replied"]
        /\ UNCHANGED <<mailbox, queue, vfinish, in_flight, dispatching, owner, passed, panics>>
    BY DEF TeeReplies
  <1>2. TypeInv'
    BY <1>0, <1>1 DEF TypeInv
  <1>3. \A p \in Requests : state[p] = "waiting" => state'[p] = "waiting"
    BY <1>0, <1>1 DEF TypeInv
  <1>4. \A u \in Tenants : \A i \in DOMAIN queue[u] : queue[u][i] \in Requests
    BY <1>0, ElementFacts DEF TypeInv
  <1>5. \A i \in DOMAIN mailbox : mailbox[i].type = "Submit" => mailbox[i].req \in Requests
    BY <1>0, ElementFacts, MessageFacts DEF TypeInv
  <1>6. QueueInv'
    BY <1>0, <1>1, <1>3, <1>4 DEF QueueInv
  <1>7. MailInv'
    BY <1>0, <1>1, <1>3, <1>5 DEF MailInv
  <1>8. CountInv'
    <2>1. Busy' = Busy
      BY <1>0, <1>1 DEF Busy, TypeInv
    <2> QED
      BY <1>0, <1>1, <2>1 DEF CountInv, FinishedQueued
  <1> QED
    BY <1>1, <1>2, <1>6, <1>7, <1>8, FairnessKept DEF IInv

\* The tee tells Finished: the slot goes from the request to the message.
LEMMA TeeFinishedStep ==
    ASSUME IInv, NEW r \in Requests, TeeTellsFinished(r)
    PROVE  IInv'
  <1>0. TypeInv /\ QueueInv /\ MailInv /\ CountInv
    BY DEF IInv
  <1>1. /\ state[r] = "replied" /\ state' = [state EXCEPT ![r] = "done"]
        /\ mailbox' = Append(mailbox, Finished)
        /\ UNCHANGED <<queue, vfinish, in_flight, dispatching, owner, passed, panics>>
    BY DEF TeeTellsFinished
  <1>2. /\ mailbox' \in Seq(Messages)
        /\ \A i \in DOMAIN mailbox' : mailbox'[i].type = "Submit" =>
              i \in DOMAIN mailbox /\ mailbox'[i] = mailbox[i]
    BY <1>0, <1>1, AppendFacts, MessageFacts DEF TypeInv
  <1>3. TypeInv'
    BY <1>0, <1>1, <1>2 DEF TypeInv
  <1>4. \A p \in Requests : state[p] = "waiting" => state'[p] = "waiting"
    BY <1>0, <1>1 DEF TypeInv
  <1>5. \A u \in Tenants : \A i \in DOMAIN queue[u] : queue[u][i] \in Requests
    BY <1>0, ElementFacts DEF TypeInv
  <1>6. \A i \in DOMAIN mailbox : mailbox[i].type = "Submit" => mailbox[i].req \in Requests
    BY <1>0, ElementFacts, MessageFacts DEF TypeInv
  <1>7. QueueInv'
    BY <1>0, <1>1, <1>4, <1>5 DEF QueueInv
  <1>8. MailInv'
    BY <1>0, <1>1, <1>2, <1>4, <1>6 DEF MailInv
  <1>9. CountInv'
    <2>1. Busy' = Busy \ {r} /\ r \in Busy
      BY <1>0, <1>1 DEF Busy, TypeInv
    <2>2. Cardinality(Busy') = Cardinality(Busy) - 1
      BY <1>0, <2>1, CountTypes, FS_RemoveElement
    <2>3. Cardinality(FinishedQueued') = Cardinality(FinishedQueued) + 1
      <3>1. /\ FinishedQueued = PlacesOf(Finished, mailbox)
            /\ FinishedQueued' = PlacesOf(Finished, mailbox')
        BY DEF FinishedQueued, PlacesOf
      <3>2. mailbox \in Seq(Messages) /\ Finished \in Messages
        BY <1>0, MessageFacts DEF TypeInv
      <3> QED
        BY <1>1, <3>1, <3>2, PlacesAppend
    <2> QED
      BY <1>0, <1>1, <2>2, <2>3, CountTypes DEF CountInv
  <1> QED
    BY <1>1, <1>3, <1>7, <1>8, <1>9, FairnessKept DEF IInv

-----------------------------------------------------------------------------
(* try_dispatch *)

\* One round of the loop: the tenant that is furthest behind gets the slot, so
\* it passes the others by at most its own increment.
LEMMA DispatchStep ==
    ASSUME IInv, DispatchOne
    PROVE  IInv'
  <1>0. /\ TypeInv /\ QueueInv /\ MailInv /\ PassedInv /\ LagBounded /\ CountInv
        /\ dispatching /\ in_flight < MaxInFlight
    BY DEF IInv, DispatchOne, HasRoom
  <1>1. PICK t \in Best : Dispatch(t)
    BY DEF DispatchOne
  <1> DEFINE q == queue[t]
             r == Head(queue[t])
  <1>2. t \in Tenants /\ q # <<>> /\ q \in Seq(Requests)
        /\ \A u \in Waiting : vfinish[t] <= vfinish[u]
    BY <1>0 DEF Best, Waiting, TypeInv
  <1>3. /\ queue' = [queue EXCEPT ![t] = Tail(q)]
        /\ vfinish' = [vfinish EXCEPT ![t] = @ + Increment(t)]
        /\ in_flight' = in_flight + 1
        /\ state' = [state EXCEPT ![r] = "running"]
        /\ passed' = [u \in Tenants |->
                         IF u = t \/ queue[u] = <<>> THEN NothingPassed
                         ELSE [passed[u] EXCEPT ![t] = @ + 1]]
        /\ UNCHANGED <<mailbox, dispatching, owner, panics>>
    BY <1>1, <1>2 DEF Dispatch, TypeInv
  <1>4. /\ Tail(q) \in Seq(Requests) /\ r = q[1] /\ r \in Requests /\ 1 \in DOMAIN q
        /\ \A i \in DOMAIN Tail(q) : i \in Nat /\ i > 0 /\ i + 1 \in DOMAIN q /\ Tail(q)[i] = q[i + 1]
    BY <1>2, TailFacts
  <1>5. queue'[t] = Tail(q) /\ \A u \in Tenants : u # t => queue'[u] = queue[u]
    BY <1>0, <1>2, <1>3 DEF TypeInv
  <1>n. NothingPassed \in [Tenants -> Nat] /\ \A u \in Tenants : NothingPassed[u] = 0
    BY DEF NothingPassed
  <1>6. TypeInv'
    <2>1. vfinish[t] + Increment(t) \in Nat
      BY <1>0, <1>2, IncrementType DEF TypeInv
    <2>2. vfinish' \in [Tenants -> Nat] /\ in_flight' \in Nat
      <3>1. vfinish \in [Tenants -> Nat] /\ in_flight \in Nat
        BY <1>0 DEF TypeInv
      <3>2. in_flight' \in Nat
        BY <1>3, <3>1
      <3> DEFINE v == vfinish[t] + Increment(t)
      <3>3. v \in Nat /\ vfinish' = [vfinish EXCEPT ![t] = v]
        BY <1>3, <2>1
      <3> HIDE DEF v
      <3> QED
        BY <3>1, <3>2, <3>3
    <2>3. queue' \in [Tenants -> Seq(Requests)]
      BY <1>0, <1>3, <1>4 DEF TypeInv
    <2>4. \A u \in Tenants : [passed[u] EXCEPT ![t] = @ + 1] \in [Tenants -> Nat]
      BY <1>0, <1>2 DEF TypeInv
    <2>5. passed' \in [Tenants -> [Tenants -> Nat]]
      <3> DEFINE p(u) == IF u = t \/ queue[u] = <<>> THEN NothingPassed
                         ELSE [passed[u] EXCEPT ![t] = @ + 1]
      <3>1. \A u \in Tenants : p(u) \in [Tenants -> Nat]
        BY <1>n, <2>4
      <3>2. passed' = [u \in Tenants |-> p(u)]
        BY <1>3
      <3> HIDE DEF p
      <3> QED
        BY <3>1, <3>2
    <2>6. state' \in [Requests -> {"unsent", "waiting", "running", "dropped", "replied", "done"}]
      BY <1>0, <1>3 DEF TypeInv
    <2> QED
      BY <1>0, <1>3, <2>2, <2>3, <2>5, <2>6 DEF TypeInv
  <1>7. /\ state[r] = "waiting" /\ owner[r] = t /\ state'[r] = "running"
        /\ \A i \in DOMAIN q : q[i] = r => i = 1
        /\ \A p \in Requests : p # r => state'[p] = state[p]
    BY <1>0, <1>2, <1>3, <1>4 DEF QueueInv, TypeInv
  \* What is still queued was queued, and is not the request that runs now.
  <1>8. ASSUME NEW u \in Tenants, NEW i \in DOMAIN queue'[u]
        PROVE  /\ queue'[u][i] \in Requests /\ queue'[u][i] # r
               /\ \E j \in DOMAIN queue[u] : queue'[u][i] = queue[u][j]
    <2>1. CASE u = t
      <3>1. i \in DOMAIN Tail(q) /\ queue'[u][i] = Tail(q)[i]
        BY <1>5, <2>1
      <3>2. i + 1 \in DOMAIN q /\ Tail(q)[i] = q[i + 1] /\ i + 1 # 1
        BY <1>4, <3>1
      <3>3. q[i + 1] \in Requests /\ q[i + 1] # r
        BY <1>2, <1>7, <3>2, ElementFacts
      <3> QED
        BY <2>1, <3>1, <3>2, <3>3
    <2>2. CASE u # t
      <3>1. i \in DOMAIN queue[u] /\ queue'[u][i] = queue[u][i] /\ queue[u] \in Seq(Requests)
        BY <1>0, <1>5, <2>2 DEF TypeInv
      <3>2. owner[queue[u][i]] = u /\ queue[u][i] \in Requests
        BY <1>0, <3>1, ElementFacts DEF QueueInv
      <3> QED
        BY <1>7, <2>2, <3>1, <3>2
    <2> QED
      BY <2>1, <2>2
  <1>9. QueueInv'
    <2>1. ASSUME NEW u \in Tenants, NEW i \in DOMAIN queue'[u]
          PROVE  state'[queue'[u][i]] = "waiting" /\ owner'[queue'[u][i]] = u
      <3>1. PICK j \in DOMAIN queue[u] : queue'[u][i] = queue[u][j]
        BY <1>8
      <3>2. state[queue[u][j]] = "waiting" /\ owner[queue[u][j]] = u
        BY <1>0 DEF QueueInv
      <3>3. owner' = owner
        BY <1>3
      <3> QED
        BY <1>7, <1>8, <3>1, <3>2, <3>3
    <2>2. ASSUME NEW u \in Tenants, NEW i \in DOMAIN queue'[u], NEW j \in DOMAIN queue'[u],
                 queue'[u][j] = queue'[u][i]
          PROVE  j = i
      <3>1. CASE u = t
        <4>1. i + 1 \in DOMAIN q /\ j + 1 \in DOMAIN q /\ q[i + 1] = q[j + 1] /\ i \in Nat /\ j \in Nat
          BY <1>4, <1>5, <2>2, <3>1
        <4>2. i + 1 = j + 1
          BY <1>0, <1>2, <4>1 DEF QueueInv
        <4> QED
          BY <4>1, <4>2
      <3>2. CASE u # t
        BY <1>0, <1>5, <2>2, <3>2 DEF QueueInv
      <3> QED
        BY <3>1, <3>2
    <2> QED
      BY <2>1, <2>2 DEF QueueInv
  <1>10. MailInv'
    <2>1. ASSUME NEW i \in DOMAIN mailbox, mailbox[i].type = "Submit"
          PROVE  /\ state'[mailbox[i].req] = "waiting"
                 /\ \A u \in Tenants : \A j \in DOMAIN queue'[u] : queue'[u][j] # mailbox[i].req
                 /\ \A j \in DOMAIN mailbox : mailbox[j] = mailbox[i] => j = i
      <3>1. mailbox[i].req \in Requests
        BY <1>0, <2>1, ElementFacts, MessageFacts DEF TypeInv
      <3>2. /\ state[mailbox[i].req] = "waiting"
            /\ \A u \in Tenants : \A j \in DOMAIN queue[u] : queue[u][j] # mailbox[i].req
            /\ \A j \in DOMAIN mailbox : mailbox[j] = mailbox[i] => j = i
        BY <1>0, <2>1 DEF MailInv
      <3>3. mailbox[i].req # r
        BY <1>2, <1>4, <3>2
      <3> QED
        BY <1>7, <1>8, <3>1, <3>2, <3>3
    <2>2. mailbox' = mailbox
      BY <1>3
    <2> QED
      BY <2>1, <2>2 DEF MailInv
  <1>11. PassedInv'
    <2>1. ASSUME NEW u \in Tenants, queue'[u] = <<>>, NEW w \in Tenants
          PROVE  passed'[u][w] = 0
      <3>1. passed'[u] = NothingPassed
        BY <1>3, <1>5, <2>1
      <3> QED
        BY <1>n, <3>1
    <2> QED
      BY <2>1 DEF PassedInv
  <1>12. LagBounded'
    <2>1. ASSUME NEW u \in Tenants, queue'[u] # <<>>, NEW w \in Tenants, passed'[u][w] > 0
          PROVE  vfinish'[w] <= vfinish'[u] + Increment(w)
      <3>1. u # t /\ queue[u] # <<>> /\ passed'[u] = [passed[u] EXCEPT ![t] = @ + 1]
        <4>1. passed'[u] # NothingPassed
          BY <1>n, <2>1
        <4> QED
          BY <1>3, <2>1, <4>1
      <3>2. u \in Waiting /\ vfinish'[u] = vfinish[u] /\ vfinish[u] \in Nat /\ vfinish[w] \in Nat
            /\ vfinish[t] \in Nat /\ Increment(w) \in Nat
        BY <1>0, <1>2, <1>3, <3>1, IncrementType DEF TypeInv, Waiting
      <3>3. CASE w = t
        <4>1. vfinish'[w] = vfinish[t] + Increment(t)
          BY <1>0, <1>3, <3>3 DEF TypeInv
        <4>2. vfinish[t] <= vfinish[u]
          BY <1>2, <3>2
        <4> QED
          BY <3>2, <3>3, <4>1, <4>2
      <3>4. CASE w # t
        <4>1. vfinish'[w] = vfinish[w] /\ passed'[u][w] = passed[u][w]
          BY <1>0, <1>3, <3>1, <3>4 DEF TypeInv
        <4> QED
          BY <1>0, <2>1, <3>2, <4>1 DEF LagBounded
      <3> QED
        BY <3>3, <3>4
    <2> QED
      BY <2>1 DEF LagBounded, Waiting
  <1>13. WorkConserving'
    BY <1>0, <1>3 DEF WorkConserving
  <1>14. CountInv'
    <2>1. Busy' = Busy \cup {r} /\ r \notin Busy
      BY <1>4, <1>7 DEF Busy
    <2>2. Cardinality(Busy') = Cardinality(Busy) + 1
      BY <1>0, <2>1, CountTypes, FS_AddElement
    <2>3. FinishedQueued' = FinishedQueued
      BY <1>3 DEF FinishedQueued
    <2>4. in_flight' = in_flight + 1 /\ panics' = panics
      BY <1>3
    <2> QED
      BY <1>0, <2>2, <2>3, <2>4, CountTypes DEF CountInv
  <1> QED
    BY <1>6, <1>9, <1>10, <1>11, <1>12, <1>13, <1>14 DEF IInv

\* The loop ends when the slots are taken or nobody waits.
LEMMA DispatchEndsStep ==
    ASSUME IInv, DispatchEnds
    PROVE  IInv'
  <1>1. /\ ~HasRoom \/ Waiting = {}
        /\ UNCHANGED <<mailbox, queue, vfinish, in_flight, owner, state, passed, panics>>
        /\ dispatching' = FALSE
    BY DEF DispatchEnds
  <1>2. TypeInv' /\ QueueInv' /\ MailInv' /\ PassedInv'
    <2>1. TypeInv'
      BY <1>1 DEF IInv, TypeInv
    <2>2. QueueInv' /\ PassedInv'
      BY <1>1 DEF IInv, QueueInv, PassedInv
    <2>3. MailInv'
      BY <1>1 DEF IInv, MailInv
    <2> QED
      BY <2>1, <2>2, <2>3
  <1>3. LagBounded' /\ CountInv'
    <2>1. LagBounded'
      BY <1>1 DEF IInv, LagBounded, Waiting
    <2>2. Busy' = Busy /\ FinishedQueued' = FinishedQueued
      BY <1>1 DEF Busy, FinishedQueued
    <2> QED
      BY <1>1, <2>1, <2>2 DEF IInv, CountInv
  <1>4. WorkConserving'
    <2>1. in_flight \in Nat /\ MaxInFlight \in Nat
      BY FairShareAssumption DEF IInv, TypeInv
    <2>2. Waiting' = Waiting
      BY <1>1 DEF Waiting
    <2> QED
      BY <1>1, <2>1, <2>2 DEF WorkConserving, HasRoom
  <1> QED
    BY <1>2, <1>3, <1>4 DEF IInv

\* The dispatcher panics: the slots that were in use are forgotten, and the
\* request that was being dispatched is one more whose tee is under way.
LEMMA DispatchPanicsStep ==
    ASSUME IInv, DispatchPanics
    PROVE  IInv'
  <1>0. TypeInv /\ QueueInv /\ MailInv /\ CountInv /\ in_flight < MaxInFlight
    BY DEF IInv, DispatchPanics, HasRoom
  <1> DEFINE closed == UNION {{queue[u][i] : i \in DOMAIN queue[u]} : u \in Tenants}
             S(r, left, p) == IF p = r THEN left
                              ELSE IF p \in closed THEN "done" ELSE state[p]
  <1>1. /\ panics' = panics + 1 /\ in_flight' = 0 /\ dispatching' = FALSE
        /\ queue' = [u \in Tenants |-> <<>>] /\ vfinish' = [u \in Tenants |-> 0]
        /\ passed' = [u \in Tenants |-> NothingPassed]
        /\ UNCHANGED <<mailbox, owner>>
    BY DEF DispatchPanics
  <1>2. PICK t \in Best, left \in {"dropped", "running"} :
            state' = [p \in Requests |-> S(Head(queue[t]), left, p)]
    BY DEF DispatchPanics
  <1>3. t \in Tenants /\ queue[t] # <<>> /\ queue[t] \in Seq(Requests)
    BY <1>0 DEF Best, Waiting, TypeInv
  <1> DEFINE r == Head(queue[t])
  <1>4. r = queue[t][1] /\ r \in Requests /\ 1 \in DOMAIN queue[t]
    BY <1>3, TailFacts
  <1>5. \A p \in closed : p \in Requests /\ state[p] = "waiting"
    <2>1. ASSUME NEW u \in Tenants, NEW i \in DOMAIN queue[u]
          PROVE  queue[u][i] \in Requests /\ state[queue[u][i]] = "waiting"
      BY <1>0, ElementFacts DEF TypeInv, QueueInv
    <2> QED
      BY <2>1
  <1>6. r \in closed
    BY <1>3, <1>4
  <1>c. \A p \in closed : \E u \in Tenants : \E i \in DOMAIN queue[u] : p = queue[u][i]
    OBVIOUS
  <1> HIDE DEF closed, r
  <1>7. /\ state'[r] \in {"dropped", "running"}
        /\ \A p \in Requests : p # r /\ p \in closed => state'[p] = "done"
        /\ \A p \in Requests : p \notin closed => state'[p] = state[p]
    <2>1. state' = [p \in Requests |-> S(r, left, p)]
      BY <1>2 DEF r
    <2> QED
      BY <1>4, <1>6, <2>1
  <1>8. TypeInv'
    <2>1. \A p \in Requests : state'[p] \in {"unsent", "waiting", "running", "dropped", "replied", "done"}
      BY <1>0, <1>4, <1>7 DEF TypeInv
    <2>2. state' = [p \in Requests |-> state'[p]]
      BY <1>2
    <2>3. state' \in [Requests -> {"unsent", "waiting", "running", "dropped", "replied", "done"}]
      BY <2>1, <2>2
    <2>4. NothingPassed \in [Tenants -> Nat] /\ <<>> \in Seq(Requests)
      BY DEF NothingPassed
    <2>5. queue' \in [Tenants -> Seq(Requests)]
      BY <1>1, <2>4
    <2>6. passed' \in [Tenants -> [Tenants -> Nat]]
      BY <1>1, <2>4
    <2>7. vfinish' \in [Tenants -> Nat] /\ in_flight' \in Nat /\ dispatching' \in BOOLEAN
      BY <1>1
    <2>8. panics' \in Nat
      BY <1>0, <1>1 DEF TypeInv
    <2>9. mailbox' = mailbox /\ owner' = owner
      BY <1>1
    <2> QED
      BY <1>0, <2>3, <2>5, <2>6, <2>7, <2>8, <2>9 DEF TypeInv
  <1>9. \A u \in Tenants : DOMAIN queue'[u] = {} /\ queue'[u] = <<>>
    BY <1>1
  <1>10. QueueInv'
    BY <1>9 DEF QueueInv
  <1>11. MailInv'
    <2>1. ASSUME NEW i \in DOMAIN mailbox, mailbox[i].type = "Submit"
          PROVE  /\ state'[mailbox[i].req] = "waiting"
                 /\ \A j \in DOMAIN mailbox : mailbox[j] = mailbox[i] => j = i
      <3>1. mailbox[i].req \in Requests
        BY <1>0, <2>1, ElementFacts, MessageFacts DEF TypeInv
      <3>2. mailbox[i].req \notin closed
        BY <1>0, <1>c, <2>1 DEF MailInv
      <3> QED
        BY <1>0, <1>7, <2>1, <3>1, <3>2 DEF MailInv
    <2>2. mailbox' = mailbox
      BY <1>1
    <2> QED
      BY <1>9, <2>1, <2>2 DEF MailInv
  <1>12. PassedInv'
    BY <1>1 DEF PassedInv, NothingPassed
  <1>13. LagBounded' /\ WorkConserving'
    <2>1. Waiting' = {}
      BY <1>9 DEF Waiting
    <2> QED
      BY <2>1 DEF LagBounded, WorkConserving
  <1>14. CountInv'
    <2>1. r \notin Busy /\ Busy' = Busy \cup {r}
      <3>1. r \notin Busy
        BY <1>5, <1>6 DEF Busy
      <3>2. ASSUME NEW p \in Requests
            PROVE  p \in Busy' <=> p \in Busy \cup {r}
        <4>1. CASE p = r
          BY <1>7, <4>1 DEF Busy
        <4>2. CASE p # r /\ p \in closed
          BY <1>5, <1>7, <4>2 DEF Busy
        <4>3. CASE p \notin closed
          BY <1>6, <1>7, <4>3 DEF Busy
        <4> QED
          BY <4>1, <4>2, <4>3
      <3>3. Busy' \subseteq Requests /\ Busy \subseteq Requests
        BY DEF Busy
      <3> QED
        BY <1>4, <3>1, <3>2, <3>3
    <2>2. Cardinality(Busy') = Cardinality(Busy) + 1
      BY <1>0, <2>1, CountTypes, FS_AddElement
    <2>3. FinishedQueued' = FinishedQueued
      BY <1>1 DEF FinishedQueued
    <2>4. MaxInFlight * (panics + 1) = MaxInFlight * panics + MaxInFlight
      BY <1>0, CountTypes
    <2>5. panics' = panics + 1 /\ in_flight' = 0 /\ panics' # 0
      BY <1>0, <1>1, CountTypes
    <2> DEFINE b == Cardinality(Busy)
               f == Cardinality(FinishedQueued)
               lost == MaxInFlight * panics
    <2>6. /\ b \in Nat /\ f \in Nat /\ lost \in Nat /\ in_flight \in Nat /\ MaxInFlight \in Nat
          /\ b + f <= in_flight + lost
      BY <1>0, CountTypes DEF CountInv
    <2>7. (b + 1) + f <= 0 + (lost + MaxInFlight)
      BY <1>0, <2>6
    <2>8. Cardinality(Busy') + Cardinality(FinishedQueued') <= in_flight' + MaxInFlight * panics'
      BY <2>2, <2>3, <2>4, <2>5, <2>7
    <2> QED
      BY <2>5, <2>6, <2>8 DEF CountInv
  <1> QED
    BY <1>8, <1>10, <1>11, <1>12, <1>13, <1>14 DEF IInv

-----------------------------------------------------------------------------
(* FairShareScheduler::handle *)

\* Taking a message leaves the others, and they name other requests.
LEMMA HandlingFacts ==
    ASSUME IInv, NEW type, Handling(type)
    PROVE  /\ ~dispatching /\ UNCHANGED <<owner, panics>>
           /\ mailbox' \in Seq(Messages) /\ Head(mailbox) \in Messages /\ Head(mailbox).type = type
           /\ \A i \in DOMAIN mailbox' : mailbox'[i].type = "Submit" =>
                 /\ mailbox'[i].req \in Requests /\ mailbox'[i] # Head(mailbox)
                 /\ state[mailbox'[i].req] = "waiting"
                 /\ \A t \in Tenants : \A j \in DOMAIN queue[t] : queue[t][j] # mailbox'[i].req
                 /\ \A j \in DOMAIN mailbox' : mailbox'[j] = mailbox'[i] => j = i
           /\ Cardinality(FinishedQueued') =
                 IF type = "Finished" THEN Cardinality(FinishedQueued) - 1 ELSE Cardinality(FinishedQueued)
           /\ type = "Finished" => Cardinality(FinishedQueued) > 0
  <1>1. /\ ~dispatching /\ UNCHANGED <<owner, panics>> /\ mailbox # <<>> /\ mailbox \in Seq(Messages)
        /\ mailbox' = Tail(mailbox) /\ Head(mailbox).type = type
    BY DEF IInv, TypeInv, Handling
  <1>2. /\ Tail(mailbox) \in Seq(Messages)
        /\ Head(mailbox) = mailbox[1] /\ Head(mailbox) \in Messages /\ 1 \in DOMAIN mailbox
        /\ \A i \in DOMAIN Tail(mailbox) :
              i \in Nat /\ i > 0 /\ i + 1 \in DOMAIN mailbox /\ Tail(mailbox)[i] = mailbox[i + 1]
    BY <1>1, TailFacts
  <1>3. ASSUME NEW i \in DOMAIN mailbox', mailbox'[i].type = "Submit"
        PROVE  /\ mailbox'[i].req \in Requests /\ mailbox'[i] # Head(mailbox)
               /\ state[mailbox'[i].req] = "waiting"
               /\ \A t \in Tenants : \A j \in DOMAIN queue[t] : queue[t][j] # mailbox'[i].req
               /\ \A j \in DOMAIN mailbox' : mailbox'[j] = mailbox'[i] => j = i
    <2>1. i \in Nat /\ i + 1 \in DOMAIN mailbox /\ mailbox'[i] = mailbox[i + 1] /\ i + 1 # 1
      BY <1>1, <1>2
    <2>2. mailbox[i + 1] \in Messages
      BY <1>1, <2>1, ElementFacts
    <2>3. mailbox[i + 1].req \in Requests
      BY <1>3, <2>1, <2>2, MessageFacts
    <2>4. /\ state[mailbox[i + 1].req] = "waiting"
          /\ \A t \in Tenants : \A j \in DOMAIN queue[t] : queue[t][j] # mailbox[i + 1].req
          /\ \A j \in DOMAIN mailbox : mailbox[j] = mailbox[i + 1] => j = i + 1
      BY <1>3, <2>1 DEF IInv, MailInv
    <2>5. mailbox[i + 1] # Head(mailbox)
      BY <1>2, <2>1, <2>4
    <2>6. ASSUME NEW j \in DOMAIN mailbox', mailbox'[j] = mailbox'[i]
          PROVE  j = i
      <3>1. j \in Nat /\ j + 1 \in DOMAIN mailbox /\ mailbox'[j] = mailbox[j + 1]
        BY <1>1, <1>2
      <3>2. j + 1 = i + 1
        BY <2>1, <2>4, <2>6, <3>1
      <3> QED
        BY <2>1, <3>1, <3>2
    <2> QED
      BY <2>1, <2>3, <2>4, <2>5, <2>6
  <1>4. /\ FinishedQueued = PlacesOf(Finished, mailbox)
        /\ FinishedQueued' = PlacesOf(Finished, mailbox')
    BY DEF FinishedQueued, PlacesOf
  <1>5. Head(mailbox) = Finished <=> type = "Finished"
    BY <1>1, <1>2, MessageFacts
  <1>6. Cardinality(FinishedQueued') =
            IF type = "Finished" THEN Cardinality(FinishedQueued) - 1 ELSE Cardinality(FinishedQueued)
    BY <1>1, <1>4, <1>5, PlacesTail
  <1>7. type = "Finished" => Cardinality(FinishedQueued) > 0
    <2>1. SUFFICES ASSUME type = "Finished" PROVE Cardinality(FinishedQueued) # 0
      BY CountTypes DEF IInv
    <2>2. IsFiniteSet(FinishedQueued)
      BY <1>1, <1>4, PlacesFinite
    <2>3. 1 \in FinishedQueued
      BY <1>2, <1>5, <2>1 DEF FinishedQueued
    <2> QED
      BY <2>2, <2>3, FS_EmptySet
  <1> QED
    BY <1>1, <1>2, <1>3, <1>6, <1>7

\* A request is queued for its tenant, or refused if the tenant is unknown.
LEMMA HandleSubmitStep ==
    ASSUME IInv, HandleSubmit
    PROVE  IInv'
  <1>0. TypeInv /\ QueueInv /\ MailInv /\ PassedInv /\ LagBounded /\ WorkConserving /\ CountInv
    BY DEF IInv
  <1> DEFINE r == Head(mailbox).req
             t == owner[r]
  <1>1. Handling("Submit") /\ UNCHANGED <<vfinish, in_flight, passed>>
    BY DEF HandleSubmit
  <1>2. r \in Requests /\ Head(mailbox) = Submit(r)
    BY <1>1, HandlingFacts, MessageFacts
  <1>3. state[r] = "waiting" /\ \A u \in Tenants : \A j \in DOMAIN queue[u] : queue[u][j] # r
    <2>1. mailbox \in Seq(Messages) /\ mailbox # <<>>
      BY <1>0, <1>1 DEF TypeInv, Handling
    <2>2. 1 \in DOMAIN mailbox /\ mailbox[1] = Head(mailbox)
      BY <2>1, TailFacts
    <2> QED
      BY <1>0, <1>2, <2>2, MessageFacts DEF MailInv
  <1>4. \A i \in DOMAIN mailbox' : mailbox'[i].type = "Submit" => mailbox'[i].req # r
    <2>1. ASSUME NEW i \in DOMAIN mailbox', mailbox'[i].type = "Submit"
          PROVE  mailbox'[i] = Submit(mailbox'[i].req)
      BY <1>1, <2>1, HandlingFacts, ElementFacts, MessageFacts
    <2> QED
      BY <1>1, <1>2, <2>1, HandlingFacts
  <1>5. CASE t \in Tenants
    <2>1. /\ queue' = [queue EXCEPT ![t] = Append(@, r)] /\ dispatching' = TRUE
          /\ state' = state
      BY <1>5 DEF HandleSubmit
    <2> HIDE DEF r, t
    <2>2. queue[t] \in Seq(Requests)
      BY <1>0, <1>5 DEF TypeInv
    <2>3. /\ queue'[t] = Append(queue[t], r)
          /\ \A u \in Tenants : u # t => queue'[u] = queue[u]
      BY <1>0, <1>5, <2>1 DEF TypeInv
    <2>4. /\ queue'[t] \in Seq(Requests) /\ queue'[t] # <<>>
          /\ \A i \in DOMAIN queue'[t] :
                \/ i \in DOMAIN queue[t] /\ queue'[t][i] = queue[t][i]
                \/ i = Len(queue[t]) + 1 /\ queue'[t][i] = r
      BY <1>2, <2>2, <2>3, AppendFacts
    <2>5. TypeInv'
      <3>1. queue' \in [Tenants -> Seq(Requests)]
        BY <1>0, <2>1, <2>3, <2>4 DEF TypeInv
      <3> QED
        BY <1>0, <1>1, <2>1, <3>1, HandlingFacts DEF TypeInv
    <2>6. QueueInv'
      <3>1. ASSUME NEW u \in Tenants, NEW i \in DOMAIN queue'[u]
            PROVE  /\ state[queue'[u][i]] = "waiting"
                   /\ owner[queue'[u][i]] = u
                   /\ \A j \in DOMAIN queue'[u] : queue'[u][j] = queue'[u][i] => j = i
        <4>1. CASE u # t
          BY <1>0, <2>3, <4>1 DEF QueueInv
        <4>2. CASE u = t
          <5>1. owner[r] = t
            BY DEF t
          <5> QED
            BY <1>0, <1>3, <1>5, <2>4, <4>2, <5>1 DEF QueueInv
        <4> QED
          BY <4>1, <4>2
      <3>2. owner' = owner
        BY <1>1, HandlingFacts
      <3> QED
        BY <2>1, <3>1, <3>2 DEF QueueInv
    <2>7. MailInv'
      <3>1. ASSUME NEW i \in DOMAIN mailbox', mailbox'[i].type = "Submit",
                   NEW u \in Tenants, NEW j \in DOMAIN queue'[u]
            PROVE  queue'[u][j] # mailbox'[i].req
        <4>1. CASE u # t
          BY <1>1, <2>3, <3>1, <4>1, HandlingFacts
        <4>2. CASE u = t
          BY <1>1, <1>4, <1>5, <2>4, <3>1, <4>2, HandlingFacts
        <4> QED
          BY <4>1, <4>2
      <3> QED
        BY <1>1, <2>1, <3>1, HandlingFacts DEF MailInv
    <2>8. \A u \in Tenants : queue'[u] = <<>> => queue[u] = <<>>
      BY <2>3, <2>4
    <2>9. PassedInv'
      BY <1>0, <1>1, <2>8 DEF PassedInv
    <2>10. LagBounded'
      <3>1. ASSUME NEW u \in Tenants, NEW w \in Tenants, passed[u][w] > 0
            PROVE  u \in Waiting
        BY <1>0, <3>1 DEF PassedInv, Waiting
      <3> QED
        BY <1>0, <1>1, <3>1 DEF LagBounded, Waiting
    <2>11. WorkConserving'
      BY <2>1 DEF WorkConserving
    <2>12. CountInv'
      <3>1. Busy' = Busy
        BY <2>1 DEF Busy
      <3>2. Cardinality(FinishedQueued') = Cardinality(FinishedQueued)
            /\ panics' = panics /\ in_flight' = in_flight
        BY <1>1, HandlingFacts
      <3> QED
        BY <1>0, <3>1, <3>2 DEF CountInv
    <2> QED
      BY <2>5, <2>6, <2>7, <2>9, <2>10, <2>11, <2>12 DEF IInv
  <1>6. CASE t \notin Tenants
    <2>1. /\ state' = [state EXCEPT ![r] = "done"] /\ UNCHANGED <<queue, dispatching>>
      BY <1>6 DEF HandleSubmit
    <2> HIDE DEF r, t
    <2>2. \A p \in Requests : p # r => state'[p] = state[p]
      BY <1>0, <2>1 DEF TypeInv
    <2>3. TypeInv'
      BY <1>0, <1>1, <2>1, HandlingFacts DEF TypeInv
    <2>4. QueueInv'
      <3>1. \A u \in Tenants : \A j \in DOMAIN queue[u] : queue[u][j] \in Requests
        BY <1>0, ElementFacts DEF TypeInv
      <3>2. owner' = owner
        BY <1>1, HandlingFacts
      <3> QED
        BY <1>0, <1>3, <2>1, <2>2, <3>1, <3>2 DEF QueueInv
    <2>5. MailInv'
      BY <1>1, <1>4, <2>1, <2>2, HandlingFacts DEF MailInv
    <2>6. PassedInv' /\ LagBounded' /\ WorkConserving'
      BY <1>1, <2>1, FairnessKept
    <2>7. CountInv'
      <3>1. Busy' = Busy
        BY <1>0, <1>2, <1>3, <2>1 DEF Busy, TypeInv
      <3>2. Cardinality(FinishedQueued') = Cardinality(FinishedQueued)
            /\ panics' = panics /\ in_flight' = in_flight
        BY <1>1, HandlingFacts
      <3> QED
        BY <1>0, <3>1, <3>2 DEF CountInv
    <2> QED
      BY <2>3, <2>4, <2>5, <2>6, <2>7 DEF IInv
  <1> QED
    BY <1>5, <1>6

\* A slot is free again: the message carried it.
LEMMA HandleFinishedStep ==
    ASSUME IInv, HandleFinished
    PROVE  IInv'
  <1>0. TypeInv /\ QueueInv /\ MailInv /\ PassedInv /\ LagBounded /\ CountInv
    BY DEF IInv
  <1>1. /\ Handling("Finished") /\ UNCHANGED <<queue, vfinish, state, passed>> /\ dispatching' = TRUE
        /\ in_flight' = IF in_flight = 0 THEN 0 ELSE in_flight - 1
    BY DEF HandleFinished, AfterFinished
  <1>2. TypeInv'
    <2>1. in_flight' \in Nat
      BY <1>0, <1>1 DEF TypeInv
    <2> QED
      BY <1>0, <1>1, <2>1, HandlingFacts DEF TypeInv
  <1>3. QueueInv' /\ PassedInv'
    BY <1>0, <1>1, HandlingFacts DEF QueueInv, PassedInv
  <1>4. MailInv'
    BY <1>1, HandlingFacts DEF MailInv
  <1>5. LagBounded' /\ WorkConserving'
    BY <1>0, <1>1 DEF LagBounded, WorkConserving, Waiting
  <1>6. CountInv'
    <2>1. Busy' = Busy
      BY <1>1 DEF Busy
    <2>2. /\ Cardinality(FinishedQueued') = Cardinality(FinishedQueued) - 1
          /\ Cardinality(FinishedQueued) > 0 /\ panics' = panics
      BY <1>1, HandlingFacts
    <2> QED
      BY <1>0, <1>1, <2>1, <2>2, CountTypes DEF CountInv
  <1> QED
    BY <1>2, <1>3, <1>4, <1>5, <1>6 DEF IInv

-----------------------------------------------------------------------------
\* The strengthened invariant is inductive.
LEMMA Induction == IInv /\ [Next]_vars => IInv'
  <1> SUFFICES ASSUME IInv, [Next]_vars PROVE IInv'
    OBVIOUS
  <1>1. ASSUME NEW r \in Requests, NEW t \in Tenants \cup {Unknown}, SendSubmit(r, t) PROVE IInv'
    BY <1>1, SendSubmitStep
  <1>2. ASSUME NEW r \in Requests, TeeReplies(r) \/ TeeTellsFinished(r) PROVE IInv'
    BY <1>2, TeeRepliesStep, TeeFinishedStep
  <1>3. CASE Scheduler
    BY <1>3, HandleSubmitStep, HandleFinishedStep, DispatchStep, DispatchEndsStep DEF Scheduler
  <1>4. CASE DispatchPanics
    BY <1>4, DispatchPanicsStep
  <1>5. CASE UNCHANGED vars
    <2>1. TypeInv' /\ QueueInv' /\ MailInv'
      BY <1>5 DEF vars, IInv, TypeInv, QueueInv, MailInv
    <2>2. PassedInv' /\ LagBounded' /\ WorkConserving'
      BY <1>5, FairnessKept DEF vars
    <2>3. Busy' = Busy /\ FinishedQueued' = FinishedQueued
      BY <1>5 DEF vars, Busy, FinishedQueued
    <2>4. CountInv'
      BY <1>5, <2>3 DEF vars, IInv, CountInv
    <2> QED
      BY <2>1, <2>2, <2>4 DEF IInv
  <1> QED
    BY <1>1, <1>2, <1>3, <1>4, <1>5 DEF Next

\* try_dispatch leaves no request waiting beside a free slot, whatever the
\* order of submissions, Finished messages and panics.
THEOREM NeverIdle == Spec => []WorkConserving
  <1>1. IInv => WorkConserving
    BY DEF IInv
  <1> QED
    BY InitInv, Induction, <1>1, PTL DEF Spec

\* The choice of the lowest vfinish bounds the lead of every tenant that
\* passes a waiting one, for any number of tenants and any weights.
THEOREM LeadBounded == Spec => []LagBounded
  <1>1. IInv => LagBounded
    BY DEF IInv
  <1> QED
    BY InitInv, Induction, <1>1, PTL DEF Spec

\* in_flight of FairShareScheduler counts the used slots exactly, and each
\* panic of the dispatcher adds at most max_in_flight requests at a time.
THEOREM SlotsExact == Spec => []InFlightExact
  BY InitInv, Induction, IInvExact, PTL DEF Spec

=============================================================================
