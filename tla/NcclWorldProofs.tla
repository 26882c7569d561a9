--------------------------- MODULE NcclWorldProofs ---------------------------
(***************************************************************************)
(* BuiltIsComplete and BuiltSinceLastChange for any number of devices,      *)
(* faults and all-reduces.                                                  *)
(***************************************************************************)
EXTENDS NcclWorld, TLAPS

-----------------------------------------------------------------------------
Messages ==
    [type : {"ChildReady"}, id : Devices, gen : {0}]
        \cup [type : {"DeviceContextChanged"}, id : Devices, gen : Nat]
        \cup [type : {"AllReduceF32"}, id : Reduces, gen : {0}]

\* try_build_world is entered only without a world, and its snapshots are of
\* live contexts: a device without one ends it.
BuildInv ==
    /\ building => ~built
    /\ ~building => snaps = <<>>
    /\ Len(snaps) <= N
    /\ \A i \in 1..Len(snaps) : snaps[i] # 0

\* The inductive invariant: what a build in progress has gathered decides
\* what the world will be, and nothing is announced to a world in the middle
\* of a build.
IInv ==
    /\ TypeOK
    /\ BuildInv
    /\ BuiltIsComplete
    /\ BuiltSinceLastChange

-----------------------------------------------------------------------------
\* Handling a message leaves a mailbox of messages.
LEMMA TailFacts ==
    ASSUME NEW S, NEW q \in Seq(S), q # <<>>
    PROVE  Head(q) \in S /\ Tail(q) \in Seq(S)
  OBVIOUS

\* Sending one does too.
LEMMA AppendFacts ==
    ASSUME NEW S, NEW q \in Seq(S), NEW e \in S
    PROVE  /\ Append(q, e) \in Seq(S)
           /\ Len(Append(q, e)) = Len(q) + 1
           /\ \A i \in 1..Len(Append(q, e)) : Append(q, e)[i] = IF i = Len(q) + 1 THEN e ELSE q[i]
  OBVIOUS

\* What the tasks and callers send are messages of the world.
LEMMA MessageFacts ==
    /\ \A d \in Devices : ChildReady(d) \in Messages
    /\ \A d \in Devices, g \in Nat : Changed(d, g) \in Messages
    /\ \A r \in Reduces : AllReduce(r) \in Messages
  BY DEF Messages, ChildReady, Changed, AllReduce

\* A message names a device, or a request if it is an all-reduce.
LEMMA MessageIds ==
    ASSUME NEW m \in Messages
    PROVE  /\ m.gen \in Nat
           /\ m.type \in {"ChildReady", "DeviceContextChanged"} => m.id \in Devices
           /\ m.type = "AllReduceF32" => m.id \in Reduces
  BY DEF Messages

LEMMA NoneType == None \in [Devices -> Nat]
  BY DEF None

\* The mailbox in the vocabulary of the proofs.
LEMMA MailboxType == TypeOK => mailbox \in Seq(Messages)
  BY DEF TypeOK, Messages

-----------------------------------------------------------------------------
\* Nothing exists before pre_start.
LEMMA InitInv == Init => IInv
  <1> SUFFICES ASSUME Init PROVE IInv
    OBVIOUS
  <1>1. TypeOK
    <2>1. 0 \in 0..MaxFaults
      BY NcclWorldAssumption
    <2>2. "none" \in RankReplies /\ "unused" \in Replies
      BY DEF RankReplies, Replies
    <2>3. mailbox \in Seq(Messages) /\ snaps \in Seq(Nat)
      BY DEF Init
    <2>4. /\ tensorGen \in [Reduces -> [Devices -> Nat]]
          /\ sentUnder \in [Reduces -> [Devices -> Nat]]
          /\ outcome \in [Reduces -> [Devices -> RankReplies]]
          /\ reply \in [Reduces -> Replies]
      BY <2>2, NoneType DEF Init
    <2> QED
      BY <2>1, <2>3, <2>4, NoneType DEF Init, TypeOK, Messages
  <1>2. BuildInv /\ BuiltIsComplete /\ BuiltSinceLastChange
    BY NcclWorldAssumption DEF Init, BuildInv, BuiltIsComplete, BuiltSinceLastChange
  <1> QED
    BY <1>1, <1>2 DEF IInv

\* A step that leaves the world alone keeps what is true of it.
LEMMA WorldUntouched ==
    ASSUME IInv, UNCHANGED worldVars, TypeOK'
    PROVE  IInv'
  BY DEF IInv, worldVars, BuildInv, BuiltIsComplete, BuiltSinceLastChange

\* The devices lose and install contexts; the world does not see it yet.
LEMMA DeviceStep ==
    ASSUME IInv, NEW d \in Devices, Bump(d) \/ Install(d) \/ LoseContext(d)
    PROVE  IInv'
  <1>0. TypeOK /\ gen[d] + 1 \in Nat /\ gen[d] \in Nat
    BY DEF IInv, TypeOK
  <1>1. CASE Bump(d)
    <2>1. gen' \in [Devices -> Nat] /\ chan' \in [Devices -> Nat]
      BY <1>0, <1>1 DEF TypeOK, Bump
    <2>2. TypeOK'
      BY <1>0, <1>1, <2>1 DEF TypeOK, Bump, taskVars, worldVars, reduceVars
    <2> QED
      BY <1>1, <2>2, WorldUntouched DEF Bump
  <1>2. CASE Install(d)
    <2>1. ctx' \in [Devices -> Nat] /\ phase' \in [Devices -> {"down", "bumped", "up"}]
      BY <1>0, <1>2 DEF TypeOK, Install
    <2>2. TypeOK'
      BY <1>0, <1>2, <2>1 DEF TypeOK, Install, taskVars, worldVars, reduceVars
    <2> QED
      BY <1>2, <2>2, WorldUntouched DEF Install
  <1>3. CASE LoseContext(d)
    <2>1. faults' \in 0..MaxFaults
      BY <1>0, <1>3, NcclWorldAssumption DEF TypeOK, LoseContext, Fault
    <2>2. ctx' \in [Devices -> Nat]
      <3>1. ctx \in [Devices -> Nat] /\ [ctx EXCEPT ![d] = 0] \in [Devices -> Nat]
        BY <1>0 DEF TypeOK
      <3> QED
        BY <1>3, <3>1 DEF LoseContext
    <2>3. TypeOK'
      BY <1>0, <1>3, <2>1, <2>2 DEF TypeOK, LoseContext, taskVars, worldVars, reduceVars
    <2> QED
      BY <1>3, <2>3, WorldUntouched DEF LoseContext
  <1> QED
    BY <1>1, <1>2, <1>3

\* The timers and bridges only send.
LEMMA TaskStep ==
    ASSUME IInv, NEW d \in Devices,
           TimerFires(d) \/ Subscribe(d) \/ AskTimesOut(d) \/ Forward(d)
    PROVE  IInv'
  <1>0. TypeOK /\ mailbox \in Seq(Messages) /\ chan[d] \in Nat
    BY MailboxType DEF IInv, TypeOK
  <1>1. CASE TimerFires(d)
    <2>1. mailbox' \in Seq(Messages)
      BY <1>0, <1>1, MessageFacts, AppendFacts DEF TimerFires
    <2>2. TypeOK'
      BY <1>0, <1>1, <2>1 DEF TypeOK, Messages, TimerFires, deviceVars, worldVars, reduceVars
    <2> QED
      BY <1>1, <2>2, WorldUntouched DEF TimerFires
  <1>2. CASE Subscribe(d)
    <2>1. last' \in [Devices -> Nat] /\ bridge' \in [Devices -> {"none", "asking", "watching", "ended"}]
      BY <1>0, <1>2 DEF TypeOK, Subscribe
    <2>2. TypeOK'
      BY <1>0, <1>2, <2>1 DEF TypeOK, Subscribe, deviceVars, worldVars, reduceVars
    <2> QED
      BY <1>2, <2>2, WorldUntouched DEF Subscribe
  <1>3. CASE AskTimesOut(d)
    <2>1. faults' \in 0..MaxFaults
      BY <1>0, <1>3, NcclWorldAssumption DEF TypeOK, AskTimesOut, Fault
    <2>2. TypeOK'
      BY <1>0, <1>3, <2>1 DEF TypeOK, AskTimesOut, deviceVars, worldVars, reduceVars
    <2> QED
      BY <1>3, <2>2, WorldUntouched DEF AskTimesOut
  <1>4. CASE Forward(d)
    <2>1. mailbox' \in Seq(Messages)
      BY <1>0, <1>4, MessageFacts, AppendFacts DEF Forward
    <2>2. TypeOK'
      BY <1>0, <1>4, <2>1 DEF TypeOK, Messages, Forward, deviceVars, worldVars, reduceVars
    <2> QED
      BY <1>4, <2>2, WorldUntouched DEF Forward
  <1> QED
    BY <1>1, <1>2, <1>3, <1>4

\* The messages that may begin a build: a build begins only from no world, and
\* a change that is told to a built world ends it.
LEMMA AnnounceStep ==
    ASSUME IInv, HandleChildReady \/ HandleDeviceContextChanged
    PROVE  IInv'
  <1> DEFINE m == Head(mailbox)
  <1>0. /\ TypeOK /\ mailbox # <<>> /\ ~building /\ mailbox' = Tail(mailbox)
        /\ m.type \in {"ChildReady", "DeviceContextChanged"}
    BY DEF IInv, HandleChildReady, HandleDeviceContextChanged, Handling
  <1>1. mailbox' \in Seq(Messages) /\ m \in Messages
    BY <1>0, MailboxType, TailFacts
  <1>2. m.id \in Devices /\ m.gen \in Nat
    BY <1>0, <1>1, MessageIds
  <1>3. snaps = <<>> /\ Len(snaps) <= N
    BY <1>0 DEF IInv, BuildInv
  <1> HIDE DEF m
  <1>4. CASE HandleChildReady
    <2>1. /\ building' = ~built /\ bridge' = [bridge EXCEPT ![m.id] = "asking"]
          /\ UNCHANGED <<gen, ctx, phase, chan, faults, timer, last, built, collectives,
                         lastGeneration, snaps, builtUnder, tensorGen, sentUnder, outcome, reply>>
      BY <1>4 DEF HandleChildReady, deviceVars, reduceVars, m
    <2>2. TypeOK'
      BY <1>0, <1>1, <1>2, <2>1 DEF TypeOK, Messages
    <2>3. BuildInv' /\ BuiltIsComplete' /\ BuiltSinceLastChange'
      BY <1>0, <1>3, <2>1 DEF IInv, TypeOK, BuildInv, BuiltIsComplete, BuiltSinceLastChange
    <2> QED
      BY <2>2, <2>3 DEF IInv
  <1>5. CASE HandleDeviceContextChanged
    <2>1. /\ UNCHANGED <<gen, ctx, phase, chan, faults, timer, bridge, last, snaps, builtUnder,
                         tensorGen, sentUnder, outcome, reply>>
          /\ \/ UNCHANGED <<lastGeneration, built, collectives, building>>
             \/ /\ lastGeneration' = [lastGeneration EXCEPT ![m.id] = m.gen]
                /\ \/ built /\ collectives' = None /\ built' = FALSE /\ building' = TRUE
                   \/ ~built /\ UNCHANGED <<built, collectives, building>>
      BY <1>5 DEF HandleDeviceContextChanged, TearDown, deviceVars, taskVars, reduceVars, m
    <2>2. /\ lastGeneration' \in [Devices -> Nat] /\ collectives' \in [Devices -> Nat]
          /\ built' \in BOOLEAN /\ building' \in BOOLEAN
      BY <1>0, <1>2, <2>1, NoneType DEF TypeOK
    <2>3. TypeOK'
      BY <1>0, <1>1, <2>1, <2>2 DEF TypeOK, Messages
    <2>4. BuildInv' /\ BuiltIsComplete' /\ BuiltSinceLastChange'
      BY <1>0, <1>3, <2>1 DEF IInv, BuildInv, BuiltIsComplete, BuiltSinceLastChange
    <2> QED
      BY <2>3, <2>4 DEF IInv
  <1> QED
    BY <1>4, <1>5

\* The build: it gathers one live context per device, and becomes the world
\* only when every rank has its collective.
LEMMA BuildStep ==
    ASSUME IInv, BuildSnapshot \/ BuildWorld \/ BuildFails
    PROVE  IInv'
  <1>0. /\ TypeOK /\ BuildInv /\ snaps \in Seq(Nat) /\ Len(snaps) \in Nat /\ N \in Nat
        /\ building /\ ~built
    <2>1. building
      BY DEF BuildSnapshot, BuildWorld, BuildFails
    <2> QED
      BY <2>1, NcclWorldAssumption DEF IInv, TypeOK, BuildInv
  <1>s. <<>> \in Seq(Nat)
    OBVIOUS
  <1>1. CASE BuildSnapshot
    <2> DEFINE d == Len(snaps) + 1
    <2>1. UNCHANGED <<gen, ctx, phase, chan, faults, timer, bridge, last, mailbox, built, collectives,
                      lastGeneration, builtUnder, tensorGen, sentUnder, outcome, reply>>
      BY <1>1 DEF BuildSnapshot, deviceVars, taskVars, reduceVars
    <2>2. d \in Devices /\ ctx[d] \in Nat
      BY <1>0, <1>1 DEF BuildSnapshot, TypeOK
    <2>3. CASE building' = FALSE /\ snaps' = <<>>
      <3>1. TypeOK'
        BY <1>0, <1>s, <2>1, <2>3 DEF TypeOK
      <3>2. BuildInv' /\ BuiltIsComplete' /\ BuiltSinceLastChange'
        BY <1>0, <2>1, <2>3 DEF BuildInv, BuiltIsComplete, BuiltSinceLastChange
      <3> QED
        BY <3>1, <3>2 DEF IInv
    <2>4. CASE building' = building /\ ctx[d] # 0 /\ snaps' = Append(snaps, ctx[d])
      <3>1. /\ snaps' \in Seq(Nat) /\ Len(snaps') = Len(snaps) + 1
            /\ \A i \in 1..Len(snaps') : snaps'[i] = IF i = Len(snaps) + 1 THEN ctx[d] ELSE snaps[i]
        BY <1>0, <2>2, <2>4, AppendFacts
      <3>2. TypeOK'
        BY <1>0, <2>1, <2>4, <3>1 DEF TypeOK
      <3>3. \A i \in 1..Len(snaps') : snaps'[i] # 0
        BY <1>0, <2>4, <3>1 DEF BuildInv
      <3>4. Len(snaps') <= N
        BY <1>0, <2>2, <3>1 DEF Devices
      <3>5. BuildInv' /\ BuiltIsComplete' /\ BuiltSinceLastChange'
        BY <1>0, <2>1, <2>4, <3>3, <3>4 DEF BuildInv, BuiltIsComplete, BuiltSinceLastChange
      <3> QED
        BY <3>2, <3>5 DEF IInv
    <2> QED
      BY <1>1, <2>3, <2>4 DEF BuildSnapshot
  <1>2. ASSUME Len(snaps) = N
        PROVE  /\ \A k \in 0..N : CollectivesUpTo(k) \in [Devices -> Nat]
               /\ \A e \in Devices : CollectivesUpTo(N)[e] # 0
    <2>1. \A e \in Devices : snaps[e] \in Nat /\ snaps[e] # 0 /\ e <= N
      BY <1>0, <1>2 DEF Devices, BuildInv
    <2>2. \A e \in Devices : collectives[e] \in Nat
      BY <1>0 DEF TypeOK
    <2> QED
      BY <2>1, <2>2 DEF CollectivesUpTo
  <1>3. CASE BuildWorld
    <2>1. /\ collectives' = CollectivesUpTo(N) /\ built' = TRUE /\ builtUnder' = lastGeneration
          /\ building' = FALSE /\ snaps' = <<>> /\ Len(snaps) = N
          /\ UNCHANGED <<gen, ctx, phase, chan, faults, timer, bridge, last, mailbox, lastGeneration,
                         tensorGen, sentUnder, outcome, reply>>
      BY <1>3 DEF BuildWorld, deviceVars, taskVars, reduceVars
    <2>2. collectives' \in [Devices -> Nat] /\ \A e \in Devices : collectives'[e] # 0
      BY <1>0, <1>2, <2>1
    <2>3. TypeOK'
      BY <1>0, <1>s, <2>1, <2>2 DEF TypeOK
    <2>4. BuildInv' /\ BuiltIsComplete' /\ BuiltSinceLastChange'
      BY <1>0, <2>1, <2>2 DEF BuildInv, BuiltIsComplete, BuiltSinceLastChange
    <2> QED
      BY <2>3, <2>4 DEF IInv
  <1>4. CASE BuildFails
    <2>1. /\ building' = FALSE /\ snaps' = <<>> /\ Len(snaps) = N
          /\ UNCHANGED <<gen, ctx, phase, chan, timer, bridge, last, mailbox, built, lastGeneration,
                         builtUnder, tensorGen, sentUnder, outcome, reply>>
          /\ \E k \in 0..(N - 1) : collectives' = CollectivesUpTo(k)
      BY <1>4 DEF BuildFails, deviceVars, taskVars, reduceVars
    <2>2. collectives' \in [Devices -> Nat]
      BY <1>0, <1>2, <2>1
    <2>3. faults' \in 0..MaxFaults
      BY <1>0, <1>4, NcclWorldAssumption DEF TypeOK, BuildFails, Fault
    <2>4. TypeOK'
      BY <1>0, <1>s, <2>1, <2>2, <2>3 DEF TypeOK
    <2>5. BuildInv' /\ BuiltIsComplete' /\ BuiltSinceLastChange'
      BY <1>0, <2>1 DEF BuildInv, BuiltIsComplete, BuiltSinceLastChange
    <2> QED
      BY <2>4, <2>5 DEF IInv
  <1> QED
    BY <1>1, <1>3, <1>4

\* Answering a request keeps the types of what is kept of requests.
LEMMA AnswerType ==
    ASSUME TypeOK, NEW r \in Reduces, NEW e \in Replies, Answer(r, e)
    PROVE  /\ tensorGen' \in [Reduces -> [Devices -> Nat]]
           /\ sentUnder' \in [Reduces -> [Devices -> Nat]]
           /\ outcome' \in [Reduces -> [Devices -> RankReplies]]
           /\ reply' \in [Reduces -> Replies]
  <1>1. [d \in Devices |-> "none"] \in [Devices -> RankReplies]
    BY DEF RankReplies
  <1> QED
    BY <1>1, NoneType DEF TypeOK, Answer

\* Requests and their replies do not touch the world.
LEMMA ReduceStep ==
    ASSUME IInv,
           \/ HandleAllReduce
           \/ \E r \in Reduces : Submit(r) \/ Combine(r)
           \/ \E r \in Reduces, d \in Devices : RankAnswers(r, d)
    PROVE  IInv'
  <1>0. TypeOK /\ mailbox \in Seq(Messages)
    BY MailboxType DEF IInv
  <1>1. CASE HandleAllReduce
    <2> DEFINE r == Head(mailbox).id
    <2>1. mailbox' = Tail(mailbox) /\ mailbox # <<>> /\ Head(mailbox).type = "AllReduceF32"
      BY <1>1 DEF HandleAllReduce, Handling
    <2>2. mailbox' \in Seq(Messages) /\ r \in Reduces
      BY <1>0, <2>1, TailFacts, MessageIds
    <2> HIDE DEF r
    <2>3. /\ tensorGen' \in [Reduces -> [Devices -> Nat]]
          /\ sentUnder' \in [Reduces -> [Devices -> Nat]]
          /\ outcome' \in [Reduces -> [Devices -> RankReplies]]
          /\ reply' \in [Reduces -> Replies]
      <3>1. CASE Answer(r, "unrecoverable")
        <4>1. "unrecoverable" \in Replies
          BY DEF Replies
        <4> QED
          BY <1>0, <2>2, <3>1, <4>1, AnswerType
      <3>2. CASE /\ sentUnder' = [sentUnder EXCEPT ![r] = builtUnder]
                 /\ outcome' = [outcome EXCEPT ![r] = [d \in Devices |-> "pending"]]
                 /\ UNCHANGED <<reply, tensorGen>>
        <4>1. [d \in Devices |-> "pending"] \in [Devices -> RankReplies]
          BY DEF RankReplies
        <4> QED
          BY <1>0, <2>2, <3>2, <4>1 DEF TypeOK
      <3> QED
        BY <1>1, <3>1, <3>2 DEF HandleAllReduce, r
    <2>4. TypeOK'
      BY <1>0, <1>1, <2>2, <2>3 DEF TypeOK, Messages, HandleAllReduce, deviceVars, taskVars, worldVars
    <2> QED
      BY <1>1, <2>4, WorldUntouched DEF HandleAllReduce
  <1>2. ASSUME NEW r \in Reduces, Submit(r)
        PROVE  IInv'
    <2>1. mailbox' \in Seq(Messages)
      BY <1>0, <1>2, MessageFacts, AppendFacts DEF Submit
    <2>2. tensorGen' \in [Reduces -> [Devices -> Nat]] /\ reply' \in [Reduces -> Replies]
      BY <1>0, <1>2 DEF Submit, TypeOK, Replies
    <2>3. TypeOK'
      BY <1>0, <1>2, <2>1, <2>2 DEF TypeOK, Messages, Submit, deviceVars, taskVars, worldVars
    <2> QED
      BY <1>2, <2>3, WorldUntouched DEF Submit
  <1>3. ASSUME NEW r \in Reduces, Combine(r)
        PROVE  IInv'
    <2>1. PICK k \in 1..(N + 1) :
              /\ k = N + 1 \/ outcome[r][k] \in {"stale", "shared", "dropped"}
              /\ Answer(r, IF k = N + 1 THEN "ok" ELSE outcome[r][k])
      BY <1>3 DEF Combine
    <2>2. (IF k = N + 1 THEN "ok" ELSE outcome[r][k]) \in Replies
      BY <2>1 DEF Replies
    <2>3. /\ tensorGen' \in [Reduces -> [Devices -> Nat]]
          /\ sentUnder' \in [Reduces -> [Devices -> Nat]]
          /\ outcome' \in [Reduces -> [Devices -> RankReplies]]
          /\ reply' \in [Reduces -> Replies]
      BY <1>0, <2>1, <2>2, AnswerType
    <2>4. TypeOK'
      BY <1>0, <1>3, <2>3 DEF TypeOK, Combine, deviceVars, taskVars, worldVars
    <2> QED
      BY <1>3, <2>4, WorldUntouched DEF Combine
  <1>4. ASSUME NEW r \in Reduces, NEW d \in Devices, RankAnswers(r, d)
        PROVE  IInv'
    <2>1. PICK e \in {RankReply(r, d), "dropped"} : outcome' = [outcome EXCEPT ![r][d] = e]
      BY <1>4 DEF RankAnswers
    <2>2. e \in RankReplies
      BY DEF RankReply, RankReplies
    <2>3. outcome' \in [Reduces -> [Devices -> RankReplies]]
      BY <1>0, <2>1, <2>2 DEF TypeOK
    <2>4. TypeOK'
      BY <1>0, <1>4, <2>3 DEF TypeOK, RankAnswers, deviceVars, taskVars, worldVars
    <2> QED
      BY <1>4, <2>4, WorldUntouched DEF RankAnswers
  <1> QED
    BY <1>1, <1>2, <1>3, <1>4

-----------------------------------------------------------------------------
\* The strengthened invariant is inductive.
LEMMA Induction == IInv /\ [Next]_vars => IInv'
  <1> SUFFICES ASSUME IInv, [Next]_vars PROVE IInv'
    OBVIOUS
  <1>1. ASSUME NEW d \in Devices, Bump(d) \/ Install(d) \/ LoseContext(d) PROVE IInv'
    BY <1>1, DeviceStep
  <1>2. ASSUME NEW d \in Devices, TimerFires(d) \/ Subscribe(d) \/ AskTimesOut(d) \/ Forward(d)
        PROVE  IInv'
    BY <1>2, TaskStep
  <1>3. CASE WorldStep
    BY <1>3, AnnounceStep, BuildStep, ReduceStep DEF WorldStep
  <1>4. CASE BuildFails
    BY <1>4, BuildStep
  <1>5. CASE \/ \E r \in Reduces : Submit(r) \/ Combine(r)
             \/ \E r \in Reduces, d \in Devices : RankAnswers(r, d)
    BY <1>5, ReduceStep
  <1>6. CASE UNCHANGED vars
    <2>1. TypeOK'
      BY <1>6 DEF vars, deviceVars, taskVars, worldVars, reduceVars, IInv, TypeOK
    <2> QED
      BY <1>6, <2>1, WorldUntouched DEF vars
  <1> QED
    BY <1>1, <1>2, <1>3, <1>4, <1>5, <1>6 DEF Next

\* collectives[i].unwrap() in dispatch_all_reduce_f32 does not panic for any
\* number of devices: no failed or interrupted build leaves a world that
\* counts as built with a rank missing.
THEOREM WorldComplete == Spec => []BuiltIsComplete
  <1>1. IInv => BuiltIsComplete
    BY DEF IInv
  <1> QED
    BY InitInv, Induction, <1>1, PTL DEF Spec

\* A world that serves requests was built after every context change the
\* NcclWorldActor handled, whatever is announced while it builds.
THEOREM WorldFresh == Spec => []BuiltSinceLastChange
  <1>1. IInv => BuiltSinceLastChange
    BY DEF IInv
  <1> QED
    BY InitInv, Induction, <1>1, PTL DEF Spec

=============================================================================
