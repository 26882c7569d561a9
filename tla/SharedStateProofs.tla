-------------------------- MODULE SharedStateProofs --------------------------
(***************************************************************************)
(* OneWriter and Fifo for any set of agents and any number of requests,      *)
(* repeated releases and agents that stop waiting.                          *)
(***************************************************************************)
EXTENDS SharedState, TLAPS

-----------------------------------------------------------------------------
\* The current token is the latest one, or there is none.
HeldInv == held \in {0, counter}

\* No token is from the future.
TokenInv == \A a \in Agents : token[a] <= counter

\* A writer has the current token.
WriterInv == \A a \in Agents : status[a] = "writing" => token[a] = held /\ held # 0

\* A token belongs to one agent.
OwnerInv == \A a, b \in Agents : token[a] = token[b] /\ token[a] # 0 => a = b

\* A release on its way carries a token that was issued to its sender.  If it
\* is the current token nobody writes any more.
ReleaseInv ==
    \A i \in DOMAIN mailbox : mailbox[i].type = "ReleaseWrite" =>
        /\ mailbox[i].id <= counter
        /\ mailbox[i].id = held => \A a \in Agents : status[a] # "writing"

\* The inductive invariant: OneWriter alone is not inductive, a stale release
\* that matched the current token would admit a second writer.
IInv ==
    /\ TypeOK
    /\ HeldInv
    /\ TokenInv
    /\ WriterInv
    /\ OwnerInv
    /\ ReleaseInv

-----------------------------------------------------------------------------
\* Taking the first message leaves messages that were there, one place up.
LEMMA TailFacts ==
    ASSUME NEW S, NEW q \in Seq(S), q # <<>>
    PROVE  /\ Head(q) \in S /\ Head(q) = q[1] /\ 1 \in DOMAIN q
           /\ Tail(q) \in Seq(S)
           /\ \A i \in DOMAIN Tail(q) : i + 1 \in DOMAIN q /\ Tail(q)[i] = q[i + 1]
  OBVIOUS

\* Sending a message leaves the others where they are.
LEMMA AppendFacts ==
    ASSUME NEW S, NEW q \in Seq(S), NEW e \in S
    PROVE  /\ Append(q, e) \in Seq(S)
           /\ \A i \in DOMAIN Append(q, e) :
                 \/ i \in DOMAIN q /\ Append(q, e)[i] = q[i]
                 \/ Append(q, e)[i] = e
  OBVIOUS

\* The strengthened invariant gives mutual exclusion: two writers would have
\* the same token.
LEMMA IInvOneWriter == IInv => OneWriter
  BY DEF IInv, WriterInv, OwnerInv, OneWriter

\* The coordinator starts without a token and without messages.
LEMMA InitInv == Init => IInv
  <1> SUFFICES ASSUME Init PROVE IInv
    OBVIOUS
  <1> USE DEF Init
  <1>1. TypeOK
    BY DEF TypeOK, Messages
  <1>2. HeldInv /\ TokenInv /\ WriterInv /\ OwnerInv
    BY DEF HeldInv, TokenInv, WriterInv, OwnerInv
  <1>3. ReleaseInv
    BY DEF ReleaseInv
  <1> QED
    BY <1>1, <1>2, <1>3 DEF IInv

\* The agents' own steps: they change nothing the coordinator holds.
LEMMA AgentStep ==
    ASSUME IInv, NEW a \in Agents, Ask(a) \/ Quit(a) \/ Release(a) \/ ReleaseAgain(a)
    PROVE  IInv'
  <1>0. TypeOK /\ HeldInv /\ TokenInv /\ WriterInv /\ OwnerInv /\ ReleaseInv /\ OneWriter
    BY IInvOneWriter DEF IInv
  <1>t. token[a] \in Nat /\ asks \in Nat /\ counter \in Nat /\ held \in Nat
    BY <1>0 DEF TypeOK
  <1>1. CASE Ask(a)
    <2>1. AcquireWrite(a, asks + 1) \in Messages
      BY <1>t DEF AcquireWrite, Messages
    <2>2. TypeOK'
      BY <1>0, <1>1, <2>1, AppendFacts DEF TypeOK, Ask, coordVars
    <2>3. HeldInv' /\ TokenInv' /\ WriterInv' /\ OwnerInv'
      BY <1>0, <1>1 DEF TypeOK, HeldInv, TokenInv, WriterInv, OwnerInv, Ask, coordVars
    <2>4. ReleaseInv'
      <3>1. ASSUME NEW i \in DOMAIN mailbox', mailbox'[i].type = "ReleaseWrite"
            PROVE  i \in DOMAIN mailbox /\ mailbox'[i] = mailbox[i]
        BY <1>0, <1>1, <2>1, <3>1, AppendFacts DEF TypeOK, Ask, AcquireWrite
      <3>2. \A b \in Agents : status[b] # "writing" => status'[b] # "writing"
        BY <1>0, <1>1 DEF TypeOK, Ask
      <3> QED
        BY <1>0, <1>1, <3>1, <3>2 DEF ReleaseInv, Ask, coordVars
    <2> QED
      BY <2>2, <2>3, <2>4 DEF IInv
  <1>2. CASE Quit(a)
    <2>1. TypeOK'
      BY <1>0, <1>2 DEF TypeOK, Quit, coordVars
    <2>2. HeldInv' /\ TokenInv' /\ WriterInv' /\ OwnerInv' /\ ReleaseInv'
      BY <1>0, <1>2 DEF TypeOK, HeldInv, TokenInv, WriterInv, OwnerInv, ReleaseInv, Quit, coordVars
    <2> QED
      BY <2>1, <2>2 DEF IInv
  <1>3. CASE Release(a)
    <2>1. ReleaseWrite(a, token[a]) \in Messages
      BY <1>t DEF ReleaseWrite, Messages
    <2>2. TypeOK'
      BY <1>0, <1>3, <2>1, AppendFacts DEF TypeOK, Release, coordVars, counts
    <2>3. HeldInv' /\ TokenInv' /\ WriterInv' /\ OwnerInv'
      BY <1>0, <1>3 DEF TypeOK, HeldInv, TokenInv, WriterInv, OwnerInv, Release, coordVars
    <2>4. ReleaseInv'
      <3>1. \A b \in Agents : status'[b] # "writing"
        BY <1>0, <1>3 DEF TypeOK, OneWriter, Release
      <3>2. \A i \in DOMAIN mailbox' :
               \/ i \in DOMAIN mailbox /\ mailbox'[i] = mailbox[i]
               \/ mailbox'[i].id <= counter
        BY <1>0, <1>t, <1>3, <2>1, AppendFacts DEF TypeOK, TokenInv, Release, ReleaseWrite
      <3> QED
        BY <1>0, <1>3, <3>1, <3>2 DEF ReleaseInv, Release, coordVars
    <2> QED
      BY <2>2, <2>3, <2>4 DEF IInv
  <1>4. CASE ReleaseAgain(a)
    <2>1. ReleaseWrite(a, token[a]) \in Messages
      BY <1>t DEF ReleaseWrite, Messages
    <2>2. TypeOK'
      BY <1>0, <1>4, <2>1, AppendFacts DEF TypeOK, ReleaseAgain, coordVars, agentVars
    <2>3. HeldInv' /\ TokenInv' /\ WriterInv' /\ OwnerInv'
      BY <1>0, <1>4 DEF TypeOK, HeldInv, TokenInv, WriterInv, OwnerInv, ReleaseAgain, coordVars, agentVars
    <2>4. ReleaseInv'
      <3>1. token[a] = held => \A b \in Agents : status[b] # "writing"
        BY <1>0, <1>4 DEF WriterInv, OwnerInv, ReleaseAgain
      <3>2. \A i \in DOMAIN mailbox' :
               \/ i \in DOMAIN mailbox /\ mailbox'[i] = mailbox[i]
               \/ mailbox'[i].id = token[a]
        BY <1>0, <1>4, <2>1, AppendFacts DEF TypeOK, ReleaseAgain, ReleaseWrite
      <3>3. token[a] <= counter
        BY <1>0 DEF TokenInv
      <3> QED
        BY <1>0, <1>4, <3>1, <3>2, <3>3 DEF ReleaseInv, ReleaseAgain, coordVars, agentVars
    <2> QED
      BY <2>2, <2>3, <2>4 DEF IInv
  <1> QED
    BY <1>1, <1>2, <1>3, <1>4

\* A new token issued while nobody writes keeps the invariant: it is larger
\* than every token a release on its way can carry.
LEMMA IssueKeeps ==
    ASSUME IInv, mailbox # <<>>, mailbox' = Tail(mailbox), UNCHANGED counts,
           NEW w \in Messages, IssueToken(w), waiters' \in Seq(Messages),
           \A a \in Agents : status[a] # "writing"
    PROVE  IInv'
  <1>0. TypeOK /\ HeldInv /\ TokenInv /\ WriterInv /\ OwnerInv /\ ReleaseInv
    BY DEF IInv
  <1>w. w.agent \in Agents /\ counter \in Nat
    BY <1>0 DEF Messages, TypeOK
  <1>1. \A a \in Agents : token'[a] = token[a] \/ (a = w.agent /\ token'[a] = counter + 1)
    BY <1>0, <1>w DEF IssueToken, TypeOK
  <1>2. \A a \in Agents : status'[a] = "writing" => a = w.agent /\ token'[a] = counter + 1
    BY <1>0, <1>w DEF IssueToken, TypeOK
  <1>3. TypeOK'
    <2>1. mailbox' \in Seq(Messages)
      BY <1>0, TailFacts DEF TypeOK
    <2>2. status' \in [Agents -> {"idle", "waiting", "writing"}]
      BY <1>0, <1>w DEF TypeOK, IssueToken
    <2>3. token' \in [Agents -> Nat]
      <3>1. counter + 1 \in Nat
        BY <1>w
      <3> QED
        BY <1>0, <1>w, <3>1 DEF TypeOK, IssueToken
    <2>4. counter' \in Nat /\ held' \in Nat /\ ticket' \in [Agents -> Nat]
      BY <1>0, <1>w DEF TypeOK, IssueToken
    <2>5. asks' \in Nat /\ repeats' \in Nat /\ quits' \in Nat
      BY <1>0 DEF TypeOK, counts
    <2> QED
      BY <2>1, <2>2, <2>3, <2>4, <2>5 DEF TypeOK
  <1>4. HeldInv' /\ held' = counter + 1 /\ counter' = counter + 1
    BY DEF HeldInv, IssueToken
  <1>5. TokenInv'
    <2> SUFFICES ASSUME NEW a \in Agents PROVE token'[a] <= counter'
      BY DEF TokenInv
    <2>1. token[a] \in Nat /\ token[a] <= counter
      BY <1>0 DEF TokenInv, TypeOK
    <2> QED
      BY <2>1, <1>w, <1>1, <1>4
  <1>6. WriterInv'
    BY <1>2, <1>4, <1>w DEF WriterInv
  <1>7. OwnerInv'
    <2> SUFFICES ASSUME NEW a \in Agents, NEW b \in Agents,
                        token'[a] = token'[b], token'[a] # 0
                 PROVE  a = b
      BY DEF OwnerInv
    <2>1. token[a] \in Nat /\ token[b] \in Nat /\ token[a] <= counter /\ token[b] <= counter
      BY <1>0 DEF TypeOK, TokenInv
    <2>2. CASE token'[a] = token[a] /\ token'[b] = token[b]
      BY <2>2, <1>0 DEF OwnerInv
    <2>3. CASE token'[a] = counter + 1 /\ token'[b] = counter + 1
      BY <2>3, <2>1, <1>1, <1>w
    <2> QED
      BY <2>1, <2>2, <2>3, <1>1, <1>w
  <1>8. ReleaseInv'
    <2>1. \A i \in DOMAIN mailbox' : i + 1 \in DOMAIN mailbox /\ mailbox'[i] = mailbox[i + 1]
      BY <1>0, TailFacts DEF TypeOK
    <2>2. \A i \in DOMAIN mailbox : mailbox[i].id \in Nat
      <3>1. \A i \in DOMAIN mailbox : mailbox[i] \in Messages
        BY <1>0 DEF TypeOK
      <3> QED
        BY <3>1 DEF Messages
    <2>3. ASSUME NEW i \in DOMAIN mailbox', mailbox'[i].type = "ReleaseWrite"
          PROVE  mailbox'[i].id <= counter /\ mailbox'[i].id \in Nat
      BY <1>0, <2>1, <2>2, <2>3 DEF ReleaseInv
    <2> QED
      BY <2>3, <1>4, <1>w DEF ReleaseInv
  <1> QED
    BY <1>3, <1>4, <1>5, <1>6, <1>7, <1>8 DEF IInv

\* A message that changes nothing but the mailbox and the waiters.
LEMMA TakeKeeps ==
    ASSUME IInv, mailbox # <<>>, mailbox' = Tail(mailbox), UNCHANGED <<counts, agentVars, counter>>,
           waiters' \in Seq(Messages),
           held' = held \/ (held' = 0 /\ \A a \in Agents : status[a] # "writing")
    PROVE  IInv'
  <1>0. TypeOK /\ HeldInv /\ TokenInv /\ WriterInv /\ OwnerInv /\ ReleaseInv
    BY DEF IInv
  <1>1. TypeOK'
    BY <1>0, TailFacts DEF TypeOK, counts, agentVars
  <1>2. HeldInv' /\ TokenInv' /\ WriterInv' /\ OwnerInv'
    BY <1>0 DEF TypeOK, HeldInv, TokenInv, WriterInv, OwnerInv, agentVars
  <1>3. ReleaseInv'
    <2>1. \A i \in DOMAIN mailbox' : i + 1 \in DOMAIN mailbox /\ mailbox'[i] = mailbox[i + 1]
      BY <1>0, TailFacts DEF TypeOK
    <2> QED
      BY <1>0, <2>1 DEF ReleaseInv, agentVars
  <1> QED
    BY <1>1, <1>2, <1>3 DEF IInv

\* The coordinator's steps.
LEMMA CoordinatorStep == ASSUME IInv, Coordinator PROVE IInv'
  <1>0. TypeOK /\ WriterInv /\ ReleaseInv
    BY DEF IInv
  <1>1. CASE HandleAcquireWrite
    <2>1. mailbox # <<>> /\ mailbox' = Tail(mailbox) /\ UNCHANGED counts
      BY <1>1 DEF HandleAcquireWrite, Handling
    <2>2. Head(mailbox) \in Messages
      BY <1>0, <2>1, TailFacts DEF TypeOK
    <2>3. CASE held = 0
      <3>1. \A a \in Agents : status[a] # "writing"
        BY <1>0, <2>3 DEF WriterInv
      <3>2. IssueToken(Head(mailbox)) /\ waiters' \in Seq(Messages)
        BY <1>0, <1>1, <2>3 DEF HandleAcquireWrite, TypeOK
      <3> QED
        BY <2>1, <2>2, <3>1, <3>2, IssueKeeps
    <2>4. CASE held # 0
      <3>1. waiters' \in Seq(Messages) /\ held' = held /\ UNCHANGED <<agentVars, counter>>
        <4>1. waiters' = Append(waiters, Head(mailbox)) /\ held' = held
              /\ UNCHANGED <<agentVars, counter>>
          BY <1>1, <2>4 DEF HandleAcquireWrite, Enqueue
        <4>2. waiters \in Seq(Messages)
          BY <1>0 DEF TypeOK
        <4> QED
          BY <2>2, <4>1, <4>2, AppendFacts
      <3> QED
        BY <2>1, <3>1, TakeKeeps
    <2> QED
      BY <2>3, <2>4
  <1>2. CASE HandleReleaseWrite
    <2>1. mailbox # <<>> /\ mailbox' = Tail(mailbox) /\ UNCHANGED counts
          /\ Head(mailbox).type = "ReleaseWrite"
      BY <1>2 DEF HandleReleaseWrite, Handling
    <2>2. CASE ~Matches(Head(mailbox).id)
      <3>1. waiters' \in Seq(Messages) /\ held' = held /\ UNCHANGED <<agentVars, counter>>
        BY <1>0, <1>2, <2>2 DEF HandleReleaseWrite, coordVars, TypeOK
      <3> QED
        BY <2>1, <3>1, TakeKeeps
    <2>3. CASE Matches(Head(mailbox).id)
      <3>1. \A a \in Agents : status[a] # "writing"
        BY <1>0, <2>1, <2>3, TailFacts DEF ReleaseInv, Matches, TypeOK
      <3>2. HandOver
        BY <1>2, <2>3 DEF HandleReleaseWrite
      <3>3. CASE waiters = <<>>
        <4>1. held' = 0 /\ waiters' \in Seq(Messages) /\ UNCHANGED <<agentVars, counter>>
          BY <1>0, <3>2, <3>3 DEF HandOver, TypeOK
        <4> QED
          BY <2>1, <3>1, <4>1, TakeKeeps
      <3>4. CASE waiters # <<>>
        <4>1. Head(waiters) \in Messages /\ Tail(waiters) \in Seq(Messages)
          BY <1>0, <3>4, TailFacts DEF TypeOK
        <4>2. IssueToken(Head(waiters)) /\ waiters' = Tail(waiters)
          BY <3>2, <3>4 DEF HandOver
        <4> QED
          BY <2>1, <3>1, <4>1, <4>2, IssueKeeps
      <3> QED
        BY <3>3, <3>4
    <2> QED
      BY <2>2, <2>3
  <1> QED
    BY <1>1, <1>2 DEF Coordinator

\* IInv is an invariant of the specification.
THEOREM Invariance == Spec => []IInv
  <1>1. Init => IInv
    BY InitInv
  <1>2. IInv /\ [Next]_vars => IInv'
    <2> SUFFICES ASSUME IInv, [Next]_vars PROVE IInv'
      OBVIOUS
    <2>1. CASE \E a \in Agents : Ask(a) \/ Quit(a) \/ Release(a) \/ ReleaseAgain(a)
      BY <2>1, AgentStep
    <2>2. CASE Coordinator
      BY <2>2, CoordinatorStep
    <2>3. CASE UNCHANGED vars
      BY <2>3 DEF IInv, TypeOK, HeldInv, TokenInv, WriterInv, OwnerInv, ReleaseInv,
                  vars, coordVars, agentVars, counts
    <2> QED
      BY <2>1, <2>2, <2>3 DEF Next
  <1> QED
    BY <1>1, <1>2, PTL DEF Spec

\* No two agents ever hold a valid write token at the same time, for any
\* agents and any sequence of requests and (repeated, stale) releases.
THEOREM MutualExclusion == Spec => []OneWriter
  <1>1. IInv => OneWriter
    BY IInvOneWriter
  <1> QED
    BY <1>1, Invariance, PTL

-----------------------------------------------------------------------------
(* Tokens are handed over in the order of the requests. *)

\* Where the requests of a queue of messages are.
AsksIn(q) == {i \in DOMAIN q : q[i].type = "AcquireWrite"}

\* The requests of a queue are in the order in which they were sent.
Ordered(q) == \A i, j \in AsksIn(q) : i < j => q[i].id < q[j].id

\* The requests of a queue were sent after request n.
After(n, q) == \A i \in AsksIn(q) : n < q[i].id

\* The requests of a queue are not from the future.
Known(q) == \A i \in AsksIn(q) : q[i].id <= asks

\* The message is somewhere in the queue.
In(m, q) == \E i \in DOMAIN q : q[i] = m

\* Requests only wait while there is a token they can wait for.
WaitersInv ==
    /\ held = 0 => waiters = <<>>
    /\ \A i \in DOMAIN waiters : waiters[i].type = "AcquireWrite"

\* No request is from the future.
KnownInv ==
    /\ Known(mailbox) /\ Known(waiters)
    /\ \A a \in Agents : ticket[a] <= asks

\* The requests that wait were sent before the ones in the mailbox, and both
\* are in order.
OrderInv ==
    /\ Ordered(mailbox) /\ Ordered(waiters)
    /\ \A i \in DOMAIN waiters : After(waiters[i].id, mailbox)

\* The request of an agent that waits is somewhere on its way.
PresentInv ==
    \A a \in Agents : status[a] = "waiting" =>
        In(AcquireWrite(a, ticket[a]), mailbox) \/ In(AcquireWrite(a, ticket[a]), waiters)

\* The request of a writer came before all that are on their way.
FirstInv ==
    \A a \in Agents : status[a] = "writing" =>
        After(ticket[a], mailbox) /\ After(ticket[a], waiters)

\* The inductive invariant for Fifo, on top of IInv: Fifo speaks of agents only,
\* and what keeps it is the order of the messages between them.
FInv == WaitersInv /\ KnownInv /\ OrderInv /\ PresentInv /\ FirstInv

\* The requests and releases carry numbers.
LEMMA ElementIds ==
    ASSUME NEW q \in Seq(Messages)
    PROVE  \A i \in DOMAIN q : q[i] \in Messages /\ q[i].id \in Nat
  <1>1. \A i \in DOMAIN q : q[i] \in Messages
    OBVIOUS
  <1> QED
    BY <1>1 DEF Messages

\* What sending a message does to the order of a queue.
LEMMA AppendOrder ==
    ASSUME NEW q \in Seq(Messages), NEW e \in Messages
    PROVE  /\ Ordered(q) /\ (e.type = "AcquireWrite" => \A i \in AsksIn(q) : q[i].id < e.id)
                => Ordered(Append(q, e))
           /\ \A n \in Nat : After(n, q) /\ (e.type = "AcquireWrite" => n < e.id)
                => After(n, Append(q, e))
           /\ In(e, Append(q, e))
           /\ \A m : In(m, q) => In(m, Append(q, e))
  <1> DEFINE p == Append(q, e)
  <1>1. /\ \A i \in DOMAIN q : i \in DOMAIN p /\ p[i] = q[i]
        /\ \A i \in DOMAIN p : i \in DOMAIN q \/ (i = Len(q) + 1 /\ p[i] = e)
        /\ Len(q) + 1 \in DOMAIN p /\ p[Len(q) + 1] = e
        /\ DOMAIN q = 1..Len(q) /\ Len(q) \in Nat
    OBVIOUS
  <1> HIDE DEF p
  <1>2. \A i \in AsksIn(p) : i \in AsksIn(q) \/ (i = Len(q) + 1 /\ p[i] = e /\ e.type = "AcquireWrite")
    BY <1>1 DEF AsksIn
  <1>3. \A i \in AsksIn(q) : p[i] = q[i] /\ i \in 1..Len(q)
    BY <1>1 DEF AsksIn
  <1>4. Ordered(q) /\ (e.type = "AcquireWrite" => \A i \in AsksIn(q) : q[i].id < e.id) => Ordered(p)
    <2> SUFFICES ASSUME Ordered(q), e.type = "AcquireWrite" => \A i \in AsksIn(q) : q[i].id < e.id,
                        NEW i \in AsksIn(p), NEW j \in AsksIn(p), i < j
                 PROVE  p[i].id < p[j].id
      BY DEF Ordered
    <2>1. i \in AsksIn(q)
      BY <1>1, <1>2, <1>3
    <2>2. CASE j \in AsksIn(q)
      BY <1>3, <2>1, <2>2 DEF Ordered
    <2>3. CASE j = Len(q) + 1 /\ p[j] = e /\ e.type = "AcquireWrite"
      BY <1>3, <2>1, <2>3
    <2> QED
      BY <1>2, <2>2, <2>3
  <1>5. \A n \in Nat : After(n, q) /\ (e.type = "AcquireWrite" => n < e.id) => After(n, p)
    BY <1>2, <1>3 DEF After
  <1>6. In(e, p) /\ \A m : In(m, q) => In(m, p)
    BY <1>1 DEF In
  <1> QED
    BY <1>4, <1>5, <1>6 DEF p

\* What taking the first message does to the order of a queue.
LEMMA TailOrder ==
    ASSUME NEW q \in Seq(Messages), q # <<>>
    PROVE  /\ Ordered(q) => Ordered(Tail(q))
           /\ Ordered(q) /\ Head(q).type = "AcquireWrite" => After(Head(q).id, Tail(q))
           /\ \A n \in Nat : After(n, q) => After(n, Tail(q))
           /\ \A m : In(m, q) => m = Head(q) \/ In(m, Tail(q))
           /\ \A i \in AsksIn(Tail(q)) : i + 1 \in AsksIn(q) /\ Tail(q)[i] = q[i + 1]
  <1> DEFINE p == Tail(q)
  <1>1. /\ \A i \in DOMAIN p : i + 1 \in DOMAIN q /\ p[i] = q[i + 1] /\ i \in Nat /\ i >= 1
        /\ \A i \in DOMAIN q : i = 1 \/ (i - 1 \in DOMAIN p /\ q[i] = p[i - 1])
        /\ Head(q) = q[1] /\ 1 \in DOMAIN q
    OBVIOUS
  <1> HIDE DEF p
  <1>2. \A i \in AsksIn(p) : i + 1 \in AsksIn(q) /\ p[i] = q[i + 1] /\ i \in Nat /\ i >= 1
    BY <1>1 DEF AsksIn
  <1>3. Ordered(q) => Ordered(p)
    <2> SUFFICES ASSUME Ordered(q), NEW i \in AsksIn(p), NEW j \in AsksIn(p), i < j
                 PROVE  p[i].id < p[j].id
      BY DEF Ordered
    <2>1. i + 1 < j + 1
      BY <1>2
    <2> QED
      BY <1>2, <2>1 DEF Ordered
  <1>4. Ordered(q) /\ Head(q).type = "AcquireWrite" => After(Head(q).id, p)
    <2> SUFFICES ASSUME Ordered(q), Head(q).type = "AcquireWrite", NEW i \in AsksIn(p)
                 PROVE  Head(q).id < p[i].id
      BY DEF After
    <2>1. 1 \in AsksIn(q) /\ 1 < i + 1
      BY <1>1, <1>2 DEF AsksIn
    <2> QED
      BY <1>1, <1>2, <2>1 DEF Ordered
  <1>5. \A n \in Nat : After(n, q) => After(n, p)
    BY <1>2 DEF After
  <1>6. \A m : In(m, q) => m = Head(q) \/ In(m, p)
    BY <1>1 DEF In
  <1> QED
    BY <1>2, <1>3, <1>4, <1>5, <1>6 DEF p

\* The strengthened invariant gives the order of the writers.
LEMMA FInvFifo == IInv /\ FInv => Fifo
  <1> SUFFICES ASSUME IInv, FInv, NEW a \in Agents, NEW b \in Agents,
                      status[a] = "writing", status[b] = "waiting"
               PROVE  ticket[a] < ticket[b]
    BY DEF Fifo
  <1> DEFINE m == AcquireWrite(b, ticket[b])
  <1>1. m.type = "AcquireWrite" /\ m.id = ticket[b]
    BY DEF AcquireWrite
  <1>2. In(m, mailbox) \/ In(m, waiters)
    BY DEF FInv, PresentInv
  <1>3. After(ticket[a], mailbox) /\ After(ticket[a], waiters)
    BY DEF FInv, FirstInv
  <1> QED
    BY <1>1, <1>2, <1>3 DEF In, After, AsksIn

\* An agent asks: its request is later than all others.
LEMMA AskOrder == ASSUME IInv, FInv, NEW a \in Agents, Ask(a) PROVE FInv'
  <1> DEFINE e == AcquireWrite(a, asks + 1)
  <1>0. TypeOK /\ WaitersInv /\ KnownInv /\ OrderInv /\ PresentInv /\ FirstInv
    BY DEF IInv, FInv
  <1>1. /\ mailbox' = Append(mailbox, e) /\ asks' = asks + 1
        /\ status' = [status EXCEPT ![a] = "waiting"] /\ ticket' = [ticket EXCEPT ![a] = asks + 1]
    BY DEF Ask
  <1>2. waiters' = waiters /\ held' = held
    BY DEF Ask, coordVars
  <1>3. /\ mailbox \in Seq(Messages) /\ waiters \in Seq(Messages) /\ asks \in Nat
        /\ status \in [Agents -> {"idle", "waiting", "writing"}] /\ ticket \in [Agents -> Nat]
    BY <1>0 DEF TypeOK
  <1>4. e \in Messages /\ e.type = "AcquireWrite" /\ e.id = asks + 1
    BY <1>3 DEF AcquireWrite, Messages
  <1>5. \A i \in DOMAIN mailbox : mailbox[i].id \in Nat
    BY <1>3, ElementIds
  <1>6. \A i \in DOMAIN waiters : waiters[i].id \in Nat
    BY <1>3, ElementIds
  <1> HIDE DEF e
  <1>7. WaitersInv'
    BY <1>0, <1>2 DEF WaitersInv
  <1>8. KnownInv'
    <2>1. \A i \in DOMAIN mailbox' : (i \in DOMAIN mailbox /\ mailbox'[i] = mailbox[i]) \/ mailbox'[i] = e
      BY <1>1, <1>3, <1>4, AppendFacts
    <2>2. Known(mailbox)'
      BY <1>0, <1>1, <1>3, <1>4, <1>5, <2>1 DEF KnownInv, Known, AsksIn
    <2>3. Known(waiters)'
      BY <1>0, <1>1, <1>2, <1>3, <1>6 DEF KnownInv, Known, AsksIn
    <2>4. \A b \in Agents : ticket'[b] <= asks'
      BY <1>0, <1>1, <1>3 DEF KnownInv
    <2> QED
      BY <2>2, <2>3, <2>4 DEF KnownInv
  <1>9. OrderInv'
    <2>1. \A i \in AsksIn(mailbox) : mailbox[i].id < e.id
      BY <1>0, <1>3, <1>4, <1>5 DEF KnownInv, Known, AsksIn
    <2>2. Ordered(mailbox')
      BY <1>0, <1>1, <1>3, <1>4, <2>1, AppendOrder DEF OrderInv
    <2>3. ASSUME NEW i \in DOMAIN waiters PROVE After(waiters[i].id, mailbox')
      <3>1. waiters[i].id < e.id /\ waiters[i].id \in Nat
        BY <1>0, <1>3, <1>4, <1>6 DEF KnownInv, Known, AsksIn, WaitersInv
      <3> QED
        BY <1>0, <1>1, <1>3, <1>4, <3>1, AppendOrder DEF OrderInv
    <2> QED
      BY <1>0, <1>2, <2>2, <2>3 DEF OrderInv
  <1>10. PresentInv'
    <2> SUFFICES ASSUME NEW b \in Agents, status'[b] = "waiting"
                 PROVE  \/ In(AcquireWrite(b, ticket'[b]), mailbox')
                        \/ In(AcquireWrite(b, ticket'[b]), waiters')
      BY DEF PresentInv
    <2>1. CASE b = a
      <3>1. AcquireWrite(b, ticket'[b]) = e
        BY <1>1, <1>3, <2>1 DEF e
      <3> QED
        BY <1>1, <1>3, <1>4, <3>1, AppendOrder
    <2>2. CASE b # a
      <3>1. status[b] = "waiting" /\ ticket'[b] = ticket[b]
        BY <1>1, <1>3, <2>2
      <3> QED
        BY <1>0, <1>1, <1>2, <1>3, <1>4, <3>1, AppendOrder DEF PresentInv
    <2> QED
      BY <2>1, <2>2
  <1>11. FirstInv'
    <2> SUFFICES ASSUME NEW b \in Agents, status'[b] = "writing"
                 PROVE  After(ticket'[b], mailbox') /\ After(ticket'[b], waiters')
      BY DEF FirstInv
    <2>1. status[b] = "writing" /\ ticket'[b] = ticket[b]
      BY <1>1, <1>3
    <2>2. ticket[b] \in Nat /\ ticket[b] < e.id
      BY <1>0, <1>3, <1>4 DEF KnownInv
    <2> QED
      BY <1>0, <1>1, <1>2, <1>3, <1>4, <2>1, <2>2, AppendOrder DEF FirstInv
  <1> QED
    BY <1>7, <1>8, <1>9, <1>10, <1>11 DEF FInv

\* A release is no request: it disturbs no order.
LEMMA ReleaseOrder ==
    ASSUME IInv, FInv, NEW a \in Agents, Release(a) \/ ReleaseAgain(a)
    PROVE  FInv'
  <1> DEFINE e == ReleaseWrite(a, token[a])
  <1>0. TypeOK /\ WaitersInv /\ KnownInv /\ OrderInv /\ PresentInv /\ FirstInv
    BY DEF IInv, FInv
  <1>1. mailbox' = Append(mailbox, e) /\ UNCHANGED <<waiters, held, ticket, asks>>
    BY DEF Release, ReleaseAgain, coordVars, agentVars, counts
  <1>2. \A b \in Agents : status'[b] \in {"waiting", "writing"} => status'[b] = status[b]
    BY <1>0 DEF Release, ReleaseAgain, agentVars, TypeOK
  <1>3. /\ mailbox \in Seq(Messages) /\ waiters \in Seq(Messages)
        /\ ticket \in [Agents -> Nat] /\ token \in [Agents -> Nat]
    BY <1>0 DEF TypeOK
  <1>4. e \in Messages /\ e.type # "AcquireWrite"
    BY <1>3 DEF ReleaseWrite, Messages
  <1>5. \A i \in DOMAIN waiters : waiters[i].id \in Nat
    BY <1>3, ElementIds
  <1> HIDE DEF e
  <1>6. WaitersInv'
    BY <1>0, <1>1 DEF WaitersInv
  <1>7. KnownInv'
    <2>1. \A i \in DOMAIN mailbox' : (i \in DOMAIN mailbox /\ mailbox'[i] = mailbox[i]) \/ mailbox'[i] = e
      BY <1>1, <1>3, <1>4, AppendFacts
    <2> QED
      BY <1>0, <1>1, <1>4, <2>1 DEF KnownInv, Known, AsksIn
  <1>8. OrderInv'
    BY <1>0, <1>1, <1>3, <1>4, <1>5, AppendOrder DEF OrderInv
  <1>9. PresentInv'
    BY <1>0, <1>1, <1>2, <1>3, <1>4, AppendOrder DEF PresentInv
  <1>10. FirstInv'
    BY <1>0, <1>1, <1>2, <1>3, <1>4, AppendOrder DEF FirstInv
  <1> QED
    BY <1>6, <1>7, <1>8, <1>9, <1>10 DEF FInv

\* An agent that stops waiting leaves its request where it is.
LEMMA QuitOrder == ASSUME IInv, FInv, NEW a \in Agents, Quit(a) PROVE FInv'
  <1>0. TypeOK /\ WaitersInv /\ KnownInv /\ OrderInv /\ PresentInv /\ FirstInv
    BY DEF IInv, FInv
  <1>1. UNCHANGED <<mailbox, waiters, held, ticket, asks>>
    BY DEF Quit, coordVars
  <1>2. \A b \in Agents : status'[b] \in {"waiting", "writing"} => status'[b] = status[b]
    BY <1>0 DEF Quit, TypeOK
  <1>3. WaitersInv' /\ KnownInv' /\ OrderInv'
    BY <1>0, <1>1 DEF WaitersInv, KnownInv, Known, OrderInv
  <1>4. PresentInv' /\ FirstInv'
    BY <1>0, <1>1, <1>2 DEF PresentInv, FirstInv
  <1> QED
    BY <1>3, <1>4 DEF FInv

\* A token goes to a request that came before all that remain.
LEMMA IssueOrder ==
    ASSUME IInv, FInv, NEW w \in Messages, w.type = "AcquireWrite", IssueToken(w),
           \A a \in Agents : status[a] # "writing",
           WaitersInv', OrderInv', KnownInv',
           After(w.id, mailbox'), After(w.id, waiters'),
           \A m : m.type = "AcquireWrite" /\ (In(m, mailbox) \/ In(m, waiters))
                      => m = w \/ In(m, mailbox') \/ In(m, waiters')
    PROVE  FInv'
  <1>0. TypeOK /\ PresentInv
    BY DEF IInv, FInv
  <1>1. w.agent \in Agents /\ ticket' = ticket
    BY DEF Messages, IssueToken
  <1>2. ASSUME NEW a \in Agents, status'[a] = "writing"
        PROVE  ticket[a] = w.id
    BY <1>0, <1>1, <1>2 DEF IssueToken, TypeOK
  <1>3. ASSUME NEW a \in Agents, status'[a] = "waiting"
        PROVE  status[a] = "waiting" /\ AcquireWrite(a, ticket[a]) # w
    <2>1. status[a] = "waiting" /\ ~(a = w.agent /\ ticket[a] = w.id)
      BY <1>0, <1>1, <1>3 DEF IssueToken, TypeOK
    <2> QED
      BY <2>1 DEF AcquireWrite
  <1>4. FirstInv'
    BY <1>1, <1>2 DEF FirstInv
  <1>5. \A a \in Agents : AcquireWrite(a, ticket[a]).type = "AcquireWrite"
    BY DEF AcquireWrite
  <1>6. PresentInv'
    BY <1>0, <1>1, <1>3, <1>5 DEF PresentInv
  <1> QED
    BY <1>4, <1>6 DEF FInv

\* The first message is taken: the ones behind it stay in order.
LEMMA TakeOrder ==
    ASSUME IInv, FInv, mailbox # <<>>, mailbox' = Tail(mailbox), asks' = asks
    PROVE  /\ Ordered(mailbox') /\ Known(mailbox)' /\ mailbox' \in Seq(Messages)
           /\ Head(mailbox) \in Messages
           /\ \A i \in DOMAIN waiters : After(waiters[i].id, mailbox')
           /\ \A a \in Agents : status[a] = "writing" => After(ticket[a], mailbox')
           /\ \A m : In(m, mailbox) => m = Head(mailbox) \/ In(m, mailbox')
           /\ Head(mailbox).type = "AcquireWrite" =>
                  /\ After(Head(mailbox).id, mailbox')
                  /\ \A i \in DOMAIN waiters : waiters[i].id < Head(mailbox).id
                  /\ \A a \in Agents : status[a] = "writing" => ticket[a] < Head(mailbox).id
                  /\ Head(mailbox).id <= asks
  <1>0. TypeOK /\ KnownInv /\ OrderInv /\ FirstInv
    BY DEF IInv, FInv
  <1>1. /\ mailbox \in Seq(Messages) /\ waiters \in Seq(Messages) /\ ticket \in [Agents -> Nat]
    BY <1>0 DEF TypeOK
  <1>2. \A i \in DOMAIN waiters : waiters[i].id \in Nat
    BY <1>1, ElementIds
  <1>3. Head(mailbox) \in Messages /\ mailbox' \in Seq(Messages) /\ Head(mailbox) = mailbox[1]
        /\ 1 \in DOMAIN mailbox
    BY <1>1, TailFacts
  <1>4. Ordered(mailbox') /\ \A m : In(m, mailbox) => m = Head(mailbox) \/ In(m, mailbox')
    BY <1>0, <1>1, TailOrder DEF OrderInv
  <1>5. Known(mailbox)'
    BY <1>0, <1>1, TailOrder DEF Known, KnownInv
  <1>6. \A i \in DOMAIN waiters : After(waiters[i].id, mailbox')
    BY <1>0, <1>1, <1>2, TailOrder DEF OrderInv
  <1>7. \A a \in Agents : status[a] = "writing" => After(ticket[a], mailbox')
    BY <1>0, <1>1, TailOrder DEF FirstInv
  <1>8. ASSUME Head(mailbox).type = "AcquireWrite"
        PROVE  /\ After(Head(mailbox).id, mailbox')
               /\ \A i \in DOMAIN waiters : waiters[i].id < Head(mailbox).id
               /\ \A a \in Agents : status[a] = "writing" => ticket[a] < Head(mailbox).id
               /\ Head(mailbox).id <= asks
    <2>1. 1 \in AsksIn(mailbox)
      BY <1>3, <1>8 DEF AsksIn
    <2>2. After(Head(mailbox).id, mailbox')
      BY <1>0, <1>1, <1>8, TailOrder DEF OrderInv
    <2> QED
      BY <1>0, <1>3, <2>1, <2>2 DEF OrderInv, FirstInv, KnownInv, Known, After
  <1> QED
    BY <1>3, <1>4, <1>5, <1>6, <1>7, <1>8

\* The coordinator's steps keep the order.
LEMMA CoordinatorOrder == ASSUME IInv, FInv, Coordinator PROVE FInv'
  <1> DEFINE m == Head(mailbox)
  <1>0. /\ TypeOK /\ WaitersInv /\ KnownInv /\ OrderInv /\ PresentInv /\ FirstInv
        /\ WriterInv /\ ReleaseInv
    BY DEF IInv, FInv
  <1>1. mailbox # <<>> /\ mailbox' = Tail(mailbox) /\ asks' = asks
    BY DEF Coordinator, HandleAcquireWrite, HandleReleaseWrite, Handling, counts
  <1>2. waiters \in Seq(Messages) /\ mailbox \in Seq(Messages) /\ ticket \in [Agents -> Nat]
    BY <1>0 DEF TypeOK
  <1>3. /\ Ordered(mailbox') /\ Known(mailbox)' /\ m \in Messages
        /\ \A i \in DOMAIN waiters : After(waiters[i].id, mailbox')
        /\ \A a \in Agents : status[a] = "writing" => After(ticket[a], mailbox')
        /\ \A x : In(x, mailbox) => x = m \/ In(x, mailbox')
    BY <1>1, TakeOrder
  <1>4. m.type = "AcquireWrite" =>
            /\ After(m.id, mailbox')
            /\ \A i \in DOMAIN waiters : waiters[i].id < m.id
            /\ \A a \in Agents : status[a] = "writing" => ticket[a] < m.id
            /\ m.id <= asks
    BY <1>1, TakeOrder
  <1>5. CASE HandleAcquireWrite /\ held = 0
    <2>1. m.type = "AcquireWrite" /\ IssueToken(m) /\ waiters' = waiters
      BY <1>5 DEF HandleAcquireWrite, Handling
    <2>2. waiters = <<>> /\ waiters' = <<>> /\ \A a \in Agents : status[a] # "writing"
      BY <1>0, <1>5, <2>1 DEF WaitersInv, WriterInv
    <2>3. ticket' = ticket
      BY <2>1 DEF IssueToken
    <2> HIDE DEF m
    <2>4. WaitersInv'
      BY <2>2 DEF WaitersInv
    <2>5. OrderInv'
      BY <1>3, <2>2 DEF OrderInv, Ordered, AsksIn
    <2>6. KnownInv'
      BY <1>0, <1>1, <1>3, <2>2, <2>3 DEF KnownInv, Known, AsksIn
    <2>7. After(m.id, waiters')
      BY <2>2 DEF After, AsksIn
    <2>8. \A x : In(x, mailbox) \/ In(x, waiters) => x = m \/ In(x, mailbox') \/ In(x, waiters')
      BY <1>3, <2>1
    <2> QED
      BY <1>3, <1>4, <2>1, <2>2, <2>4, <2>5, <2>6, <2>7, <2>8, IssueOrder
  <1>6. CASE HandleAcquireWrite /\ held # 0
    <2>1. m.type = "AcquireWrite" /\ waiters' = Append(waiters, m)
      BY <1>6 DEF HandleAcquireWrite, Handling, Enqueue
    <2>2. held' = held /\ status' = status /\ ticket' = ticket
      BY <1>6 DEF HandleAcquireWrite, agentVars
    <2> HIDE DEF m
    <2>3. \A i \in DOMAIN waiters' : (i \in DOMAIN waiters /\ waiters'[i] = waiters[i]) \/ waiters'[i] = m
      BY <1>2, <1>3, <2>1, AppendFacts
    <2>4. WaitersInv'
      BY <1>0, <1>6, <2>1, <2>2, <2>3 DEF WaitersInv
    <2>5. KnownInv'
      BY <1>0, <1>1, <1>3, <1>4, <2>1, <2>2, <2>3 DEF KnownInv, Known, AsksIn
    <2>6. OrderInv'
      <3>1. \A i \in AsksIn(waiters) : waiters[i].id < m.id
        BY <1>4, <2>1 DEF AsksIn
      <3>2. Ordered(waiters')
        BY <1>0, <1>2, <1>3, <2>1, <3>1, AppendOrder DEF OrderInv
      <3>3. \A i \in DOMAIN waiters' : After(waiters'[i].id, mailbox')
        BY <1>3, <1>4, <2>1, <2>3
      <3> QED
        BY <1>3, <3>2, <3>3 DEF OrderInv
    <2>7. \A x : In(x, waiters) \/ x = m => In(x, waiters')
      BY <1>2, <1>3, <2>1, AppendOrder
    <2>8. PresentInv'
      BY <1>0, <1>3, <2>2, <2>7 DEF PresentInv
    <2>9. FirstInv'
      <3> SUFFICES ASSUME NEW a \in Agents, status[a] = "writing"
                   PROVE  After(ticket[a], mailbox') /\ After(ticket[a], waiters')
        BY <2>2 DEF FirstInv
      <3>1. ticket[a] \in Nat /\ ticket[a] < m.id /\ After(ticket[a], waiters)
        BY <1>0, <1>2, <1>4, <2>1 DEF FirstInv
      <3> QED
        BY <1>2, <1>3, <2>1, <3>1, AppendOrder
    <2> QED
      BY <2>4, <2>5, <2>6, <2>8, <2>9 DEF FInv
  <1>7. CASE HandleReleaseWrite /\ (~Matches(m.id) \/ waiters = <<>>)
    <2>1. m.type = "ReleaseWrite"
      BY <1>7 DEF HandleReleaseWrite, Handling
    <2>2. waiters' = waiters /\ status' = status /\ ticket' = ticket
      BY <1>7 DEF HandleReleaseWrite, HandOver, agentVars, coordVars
    <2>3. held' = held \/ waiters = <<>>
      BY <1>7 DEF HandleReleaseWrite, coordVars
    <2> HIDE DEF m
    <2>4. \A b : AcquireWrite(b, ticket[b]) # m
      BY <2>1 DEF AcquireWrite
    <2>5. WaitersInv' /\ OrderInv'
      BY <1>0, <1>3, <2>2, <2>3 DEF WaitersInv, OrderInv
    <2>6. KnownInv'
      BY <1>0, <1>1, <1>3, <2>2 DEF KnownInv, Known
    <2>7. PresentInv'
      BY <1>0, <1>3, <2>2, <2>4 DEF PresentInv
    <2>8. FirstInv'
      BY <1>0, <1>3, <2>2 DEF FirstInv
    <2> QED
      BY <2>5, <2>6, <2>7, <2>8 DEF FInv
  <1>8. CASE HandleReleaseWrite /\ Matches(m.id) /\ waiters # <<>>
    <2> DEFINE w == Head(waiters)
    <2>1. m.type = "ReleaseWrite"
      BY <1>8 DEF HandleReleaseWrite, Handling
    <2>2. IssueToken(w) /\ waiters' = Tail(waiters)
      BY <1>8 DEF HandleReleaseWrite, HandOver
    <2>3. ticket' = ticket /\ held' # 0
      <3>1. counter \in Nat
        BY <1>0 DEF TypeOK
      <3> QED
        BY <2>2, <3>1 DEF IssueToken
    <2>4. \A a \in Agents : status[a] # "writing"
      BY <1>0, <1>1, <1>8, <2>1, TailFacts DEF ReleaseInv, Matches, TypeOK
    <2>5. w \in Messages /\ w = waiters[1] /\ 1 \in DOMAIN waiters
          /\ \A i \in DOMAIN waiters' : i + 1 \in DOMAIN waiters /\ waiters'[i] = waiters[i + 1]
      BY <1>2, <1>8, <2>2, TailFacts
    <2>6. w.type = "AcquireWrite" /\ After(w.id, mailbox')
      BY <1>0, <1>3, <2>5 DEF WaitersInv
    <2>7. Ordered(waiters') /\ After(w.id, waiters')
          /\ \A x : In(x, waiters) => x = w \/ In(x, waiters')
      BY <1>0, <1>2, <1>8, <2>2, <2>6, TailOrder DEF OrderInv
    <2> HIDE DEF m, w
    <2>8. WaitersInv'
      BY <1>0, <2>3, <2>5 DEF WaitersInv
    <2>9. OrderInv'
      BY <1>3, <2>5, <2>7 DEF OrderInv
    <2>10. KnownInv'
      BY <1>0, <1>1, <1>3, <2>3, <2>5 DEF KnownInv, Known, AsksIn
    <2>11. \A x : x.type = "AcquireWrite" /\ (In(x, mailbox) \/ In(x, waiters))
                      => x = w \/ In(x, mailbox') \/ In(x, waiters')
      BY <1>3, <2>1, <2>7
    <2> QED
      BY <2>2, <2>4, <2>5, <2>6, <2>7, <2>8, <2>9, <2>10, <2>11, IssueOrder
  <1> QED
    BY <1>5, <1>6, <1>7, <1>8 DEF Coordinator

\* Agents write in the order in which they asked, for any agents and any
\* sequence of requests, abandoned requests and (repeated, stale) releases.
THEOREM InOrderOfRequests == Spec => []Fifo
  <1>1. Init => FInv
    <2> SUFFICES ASSUME Init PROVE FInv
      OBVIOUS
    <2>1. mailbox = <<>> /\ waiters = <<>> /\ asks = 0 /\ \A a \in Agents : ticket[a] = 0 /\ status[a] = "idle"
      BY DEF Init
    <2> QED
      BY <2>1 DEF FInv, WaitersInv, KnownInv, Known, OrderInv, Ordered, PresentInv, FirstInv, AsksIn
  <1>2. IInv /\ FInv /\ [Next]_vars => FInv'
    <2> SUFFICES ASSUME IInv, FInv, [Next]_vars PROVE FInv'
      OBVIOUS
    <2>1. CASE \E a \in Agents : Ask(a) \/ Quit(a) \/ Release(a) \/ ReleaseAgain(a)
      BY <2>1, AskOrder, QuitOrder, ReleaseOrder
    <2>2. CASE Coordinator
      BY <2>2, CoordinatorOrder
    <2>3. CASE UNCHANGED vars
      <3>1. UNCHANGED <<mailbox, waiters, held, status, ticket, asks>>
        BY <2>3 DEF vars, coordVars, agentVars, counts
      <3> QED
        BY <3>1 DEF FInv, WaitersInv, KnownInv, Known, OrderInv, PresentInv, FirstInv
    <2> QED
      BY <2>1, <2>2, <2>3 DEF Next
  <1>3. IInv /\ FInv => Fifo
    BY FInvFifo
  <1> QED
    BY <1>1, <1>2, <1>3, Invariance, PTL DEF Spec

=============================================================================
