------------------------------ MODULE NcclWorld ------------------------------
(***************************************************************************)
(* NcclWorldActor over N devices: it builds a communicator from a snapshot  *)
(* of every device's context, hears of rebuilt contexts through one bridge  *)
(* task per device (a subscription to DeviceState's generation watch), and  *)
(* tears the collectives down and rebuilds them when a generation changes.  *)
(*                                                                          *)
(* The devices are reduced to what the world can see of them: generation,   *)
(* current context and watch channel, changed in the order Device proves    *)
(* possible (bump, then install; a restart may or may not clear first).     *)
(* A context is named by its generation, 0 is None.                         *)
(***************************************************************************)
EXTENDS Naturals, Sequences

CONSTANTS
    N,           \* number of devices in NcclWorldConfig
    MaxFaults,   \* bound: context losses, failed builds and timed-out asks
    MaxReduces   \* bound: AllReduceF32 requests

ASSUME NcclWorldAssumption ==
    /\ N \in Nat \ {0}
    /\ MaxFaults \in Nat
    /\ MaxReduces \in Nat

VARIABLES
    \* the devices
    gen, ctx,      \* per device: generation, current_ctx
    phase,         \* per device: "down", "bumped" or "up"
    chan,          \* per device: the value stored in the watch channel
    faults,
    \* the tasks
    timer,         \* per device: its 50 ms ChildReady timer has not fired
    bridge,        \* per device: "none", "asking", "watching", "ended"
    last,          \* per device: the generation the bridge saw last
    \* NcclWorldActor
    mailbox, built, collectives, lastGeneration,
    snaps,         \* try_build_world's snapshots; <<>> when not building
    building,
    builtUnder,    \* history: lastGeneration when the world was built
    \* all-reduces
    tensorGen,     \* per request: generations its tensors were minted under
    sentUnder,     \* per request: builtUnder of the world it was sent to
    outcome,       \* per request and rank: the rank's reply
    reply          \* per request: what the caller got

deviceVars == <<gen, ctx, phase, chan>>
taskVars   == <<timer, bridge, last>>
worldVars  == <<built, collectives, lastGeneration, snaps, building, builtUnder>>
reduceVars == <<tensorGen, sentUnder, outcome, reply>>
vars == <<deviceVars, faults, taskVars, mailbox, worldVars, reduceVars>>

-----------------------------------------------------------------------------
Devices == 1..N
Reduces == 1..MaxReduces
None == [d \in Devices |-> 0]

ChildReady(d) == [type |-> "ChildReady", id |-> d, gen |-> 0]
Changed(d, g) == [type |-> "DeviceContextChanged", id |-> d, gen |-> g]
AllReduce(r)  == [type |-> "AllReduceF32", id |-> r, gen |-> 0]

RankReplies == {"none", "pending", "ok", "stale", "shared", "dropped"}
Replies     == {"unused", "waiting", "ok", "stale", "shared", "dropped", "unrecoverable"}

Init ==
    /\ gen = None /\ ctx = None /\ chan = None
    /\ phase = [d \in Devices |-> "down"]
    /\ faults = 0
    /\ timer = [d \in Devices |-> TRUE]
    /\ bridge = [d \in Devices |-> "none"]
    /\ last = None
    /\ mailbox = <<>>
    /\ built = FALSE /\ collectives = None /\ lastGeneration = None
    /\ snaps = <<>> /\ building = FALSE /\ builtUnder = None
    /\ tensorGen = [r \in Reduces |-> None]
    /\ sentUnder = [r \in Reduces |-> None]
    /\ outcome = [r \in Reduces |-> [d \in Devices |-> "none"]]
    /\ reply = [r \in Reduces |-> "unused"]

-----------------------------------------------------------------------------
(* The devices *)

Fault ==
    /\ faults < MaxFaults
    /\ faults' = faults + 1

\* bump_generation publishes to the receivers there are; without one the
\* channel keeps its value.
Bump(d) ==
    /\ phase[d] = "down"
    /\ phase' = [phase EXCEPT ![d] = "bumped"]
    /\ gen' = [gen EXCEPT ![d] = @ + 1]
    /\ chan' = IF bridge[d] = "watching" THEN [chan EXCEPT ![d] = gen[d] + 1] ELSE chan
    /\ UNCHANGED <<ctx, faults, taskVars, mailbox, worldVars, reduceVars>>

Install(d) ==
    /\ phase[d] = "bumped"
    /\ phase' = [phase EXCEPT ![d] = "up"]
    /\ ctx' = [ctx EXCEPT ![d] = gen[d]]
    /\ UNCHANGED <<gen, chan, faults, taskVars, mailbox, worldVars, reduceVars>>

\* The ContextActor restarts; post_stop clears the context if it runs.
LoseContext(d) ==
    /\ Fault
    /\ phase[d] = "up"
    /\ phase' = [phase EXCEPT ![d] = "down"]
    /\ ctx' \in {ctx, [ctx EXCEPT ![d] = 0]}
    /\ UNCHANGED <<gen, chan, taskVars, mailbox, worldVars, reduceVars>>

-----------------------------------------------------------------------------
(* The tasks the world spawns *)

\* 50 ms after pre_start
TimerFires(d) ==
    /\ timer[d]
    /\ timer' = [timer EXCEPT ![d] = FALSE]
    /\ mailbox' = Append(mailbox, ChildReady(d))
    /\ UNCHANGED <<deviceVars, faults, bridge, last, worldVars, reduceVars>>

\* WatchGeneration is answered and the bridge reads the channel.  A change between
\* the two wakes the bridge with the value it has read and is not forwarded.
Subscribe(d) ==
    /\ bridge[d] = "asking"
    /\ bridge' = [bridge EXCEPT ![d] = "watching"]
    /\ last' = [last EXCEPT ![d] = chan[d]]
    /\ UNCHANGED <<deviceVars, faults, timer, mailbox, worldVars, reduceVars>>

\* The 5 s ask fails and the bridge task returns.
AskTimesOut(d) ==
    /\ Fault
    /\ bridge[d] = "asking"
    /\ bridge' = [bridge EXCEPT ![d] = "ended"]
    /\ UNCHANGED <<deviceVars, timer, last, mailbox, worldVars, reduceVars>>

\* rx.changed(): only the newest generation is seen.
Forward(d) ==
    /\ bridge[d] = "watching" /\ chan[d] # last[d]
    /\ last' = [last EXCEPT ![d] = chan[d]]
    /\ mailbox' = Append(mailbox, Changed(d, chan[d]))
    /\ UNCHANGED <<deviceVars, faults, timer, bridge, worldVars, reduceVars>>

-----------------------------------------------------------------------------
(* NcclWorldActor::handle *)

Handling(t) ==
    /\ ~building
    /\ mailbox # <<>> /\ Head(mailbox).type = t
    /\ mailbox' = Tail(mailbox)

\* devices[] is complete since pre_start, so only built stops the build.
HandleChildReady ==
    /\ Handling("ChildReady")
    /\ bridge' = [bridge EXCEPT ![Head(mailbox).id] = "asking"]
    /\ building' = ~built
    /\ UNCHANGED <<deviceVars, faults, timer, last, built, collectives,
                   lastGeneration, snaps, builtUnder, reduceVars>>

\* Mutant of TearDown: the collectives of the old contexts are kept.
KeepWorld == UNCHANGED <<built, collectives, building>>

\* Every collective is stopped, then try_build_world is entered.
TearDown ==
    /\ collectives' = None
    /\ built' = FALSE
    /\ building' = TRUE

HandleDeviceContextChanged ==
    LET m == Head(mailbox) IN
    /\ Handling("DeviceContextChanged")
    /\ \/ /\ m.gen <= lastGeneration[m.id]
          /\ UNCHANGED <<lastGeneration, built, collectives, building>>
       \/ /\ m.gen > lastGeneration[m.id]
          /\ lastGeneration' = [lastGeneration EXCEPT ![m.id] = m.gen]
          /\ IF built THEN TearDown ELSE UNCHANGED <<built, collectives, building>>
    /\ UNCHANGED <<deviceVars, faults, taskVars, snaps, builtUnder, reduceVars>>

\* try_build_world asks the devices one after the other; a None aborts it.
BuildSnapshot ==
    LET d == Len(snaps) + 1 IN
    /\ building /\ d \in Devices
    /\ \/ /\ ctx[d] = 0
          /\ building' = FALSE
          /\ snaps' = <<>>
       \/ /\ ctx[d] # 0
          /\ snaps' = Append(snaps, ctx[d])
          /\ UNCHANGED building
    /\ UNCHANGED <<deviceVars, faults, taskVars, mailbox, built, collectives,
                   lastGeneration, builtUnder, reduceVars>>

\* Mutant of CollectivesUpTo: one spawn too few.
CollectivesButLast(k) == [d \in Devices |-> IF d < k THEN snaps[d] ELSE collectives[d]]

\* The table after the collectives of ranks 1..k have been spawned.
CollectivesUpTo(k) == [d \in Devices |-> IF d <= k THEN snaps[d] ELSE collectives[d]]

BuildWorld ==
    /\ building /\ Len(snaps) = N
    /\ collectives' = CollectivesUpTo(N)
    /\ built' = TRUE
    /\ builtUnder' = lastGeneration
    /\ building' = FALSE /\ snaps' = <<>>
    /\ UNCHANGED <<deviceVars, faults, taskVars, mailbox, lastGeneration, reduceVars>>

\* new_stream or Comm::from_devices fails (k = 0), or the spawn of rank k + 1.
BuildFails ==
    /\ Fault
    /\ building /\ Len(snaps) = N
    /\ \E k \in 0..(N - 1) : collectives' = CollectivesUpTo(k)
    /\ building' = FALSE /\ snaps' = <<>>
    /\ UNCHANGED <<deviceVars, taskVars, mailbox, built, lastGeneration,
                   builtUnder, reduceVars>>

-----------------------------------------------------------------------------
(* All-reduce *)

Submit(r) ==
    /\ reply[r] = "unused"
    /\ \A s \in 1..(r - 1) : reply[s] # "unused"
    /\ \A d \in Devices : ctx[d] # 0
    /\ tensorGen' = [tensorGen EXCEPT ![r] = ctx]
    /\ reply' = [reply EXCEPT ![r] = "waiting"]
    /\ mailbox' = Append(mailbox, AllReduce(r))
    /\ UNCHANGED <<deviceVars, faults, taskVars, worldVars, sentUnder, outcome>>

\* The request is answered with e.  What is left of it (late replies of ranks,
\* its tensors) reaches nobody any more.
Answer(r, e) ==
    /\ reply' = [reply EXCEPT ![r] = e]
    /\ tensorGen' = [tensorGen EXCEPT ![r] = None]
    /\ sentUnder' = [sentUnder EXCEPT ![r] = None]
    /\ outcome' = [outcome EXCEPT ![r] = [d \in Devices |-> "none"]]

\* dispatch_all_reduce_f32: refused before the world is built, or when the
\* tensors do not fit the devices; else a task tells every rank.
HandleAllReduce ==
    LET r == Head(mailbox).id IN
    /\ Handling("AllReduceF32")
    /\ \/ Answer(r, "unrecoverable")
       \/ /\ built
          /\ sentUnder' = [sentUnder EXCEPT ![r] = builtUnder]
          /\ outcome' = [outcome EXCEPT ![r] = [d \in Devices |-> "pending"]]
          /\ UNCHANGED <<reply, tensorGen>>
    /\ UNCHANGED <<deviceVars, faults, taskVars, worldVars>>

\* Arcs to the slice in AllReduceRequest::dispatch: GpuRefInner's and the clone.
StrongCount == 2

\* Mutant of RankReply: a rank that does not answer what it cannot run.
RankReplyDropsError(r, d) ==
    IF tensorGen[r][d] # gen[d] THEN "pending" ELSE "shared"

\* What a rank's CollectiveActor answers.
RankReply(r, d) ==
    IF tensorGen[r][d] # gen[d] THEN "stale"
    ELSE IF StrongCount # 1 THEN "shared"
    ELSE "ok"

\* The op is handled, or goes with a CollectiveActor that has been stopped.
RankAnswers(r, d) ==
    /\ outcome[r][d] = "pending"
    /\ \E e \in {RankReply(r, d), "dropped"} :
          /\ e = "dropped" => ~built \/ builtUnder # sentUnder[r]
          /\ outcome' = [outcome EXCEPT ![r][d] = e]
    /\ UNCHANGED <<deviceVars, faults, taskVars, mailbox, worldVars, tensorGen,
                   sentUnder, reply>>

\* Replies are awaited in rank order; the first failure is the answer.
Combine(r) ==
    /\ reply[r] = "waiting"
    /\ \E k \in 1..(N + 1) :
          /\ \A d \in 1..(k - 1) : outcome[r][d] = "ok"
          /\ k = N + 1 \/ outcome[r][k] \in {"stale", "shared", "dropped"}
          /\ Answer(r, IF k = N + 1 THEN "ok" ELSE outcome[r][k])
    /\ UNCHANGED <<deviceVars, faults, taskVars, mailbox, worldVars>>

-----------------------------------------------------------------------------
WorldStep ==
    \/ HandleChildReady
    \/ HandleDeviceContextChanged
    \/ BuildSnapshot
    \/ BuildWorld
    \/ HandleAllReduce

Next ==
    \/ \E d \in Devices : Bump(d) \/ Install(d) \/ LoseContext(d)
    \/ \E d \in Devices : TimerFires(d) \/ Subscribe(d) \/ AskTimesOut(d) \/ Forward(d)
    \/ WorldStep
    \/ BuildFails
    \/ \E r \in Reduces : Submit(r) \/ Combine(r)
    \/ \E r \in Reduces, d \in Devices : RankAnswers(r, d)

Spec == Init /\ [][Next]_vars

\* Every task and actor that can act is scheduled; devices finish a rebuild.
Fairness ==
    /\ WF_vars(WorldStep)
    /\ \A d \in Devices :
          /\ WF_vars(Bump(d)) /\ WF_vars(Install(d))
          /\ WF_vars(TimerFires(d)) /\ WF_vars(Subscribe(d)) /\ WF_vars(Forward(d))
    /\ \A r \in Reduces :
          /\ WF_vars(Combine(r))
          /\ \A d \in Devices : WF_vars(RankAnswers(r, d))

FairSpec == Spec /\ Fairness

-----------------------------------------------------------------------------
(* Properties *)

\* Every variable has its type.
TypeOK ==
    /\ gen \in [Devices -> Nat] /\ ctx \in [Devices -> Nat] /\ chan \in [Devices -> Nat]
    /\ phase \in [Devices -> {"down", "bumped", "up"}]
    /\ faults \in 0..MaxFaults
    /\ timer \in [Devices -> BOOLEAN]
    /\ bridge \in [Devices -> {"none", "asking", "watching", "ended"}]
    /\ last \in [Devices -> Nat]
    /\ mailbox \in Seq([type : {"ChildReady"}, id : Devices, gen : {0}]
                         \cup [type : {"DeviceContextChanged"}, id : Devices, gen : Nat]
                         \cup [type : {"AllReduceF32"}, id : Reduces, gen : {0}])
    /\ built \in BOOLEAN /\ building \in BOOLEAN
    /\ collectives \in [Devices -> Nat]
    /\ lastGeneration \in [Devices -> Nat] /\ builtUnder \in [Devices -> Nat]
    /\ snaps \in Seq(Nat)
    /\ tensorGen \in [Reduces -> [Devices -> Nat]]
    /\ sentUnder \in [Reduces -> [Devices -> Nat]]
    /\ outcome \in [Reduces -> [Devices -> RankReplies]]
    /\ reply \in [Reduces -> Replies]

\* collectives[i].unwrap() in dispatch_all_reduce_f32 cannot panic: a world
\* that counts as built has a collective on every rank, also after failed
\* builds and spawns.
BuiltIsComplete == built => \A d \in Devices : collectives[d] # 0

\* A world that serves requests was built after the last context change the
\* actor has been told of.
BuiltSinceLastChange == built => builtUnder = lastGeneration

\* Every all-reduce is answered, whatever is torn down meanwhile.
AllReduceAnswered ==
    \A r \in Reduces : reply[r] = "waiting" ~> reply[r] # "waiting"

\* Claim: the world is built once every device has reported ready.
EventuallyBuilt == <>built

\* Nothing is on its way to the world any more.
Quiet ==
    /\ \A d \in Devices : phase[d] = "up" /\ ~timer[d]
    /\ \A d \in Devices : bridge[d] = "watching" /\ chan[d] = last[d]
    /\ mailbox = <<>> /\ ~building

\* Claim: when a context is rebuilt the world tears the collectives down and
\* rebuilds them, so a settled world runs on its devices' current contexts.
WorldFollowsDevices == Quiet /\ built => collectives = ctx

=============================================================================
