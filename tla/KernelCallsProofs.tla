------------------------- MODULE KernelCallsProofs -------------------------
(***************************************************************************)
(* HeldWhileQueued and AnswerIsTrue for any number of calls and buffers,    *)
(* any entry of the tables in every call and any interleaving of callers,   *)
(* handlers, tasks, device and environment; and that the count try_unwrap   *)
(* needs is never reached.  Of the tables only what the assumptions of      *)
(* KernelCalls say is used; TLC evaluates those on all entries.             *)
(***************************************************************************)
EXTENDS KernelCalls, FiniteSetTheorems, TLAPS

Replies == {"none", "ok", "err", "dropped"}

Types ==
    /\ mode \in {"real", "mock"}
    /\ entry \in [Calls -> DOMAIN Entries \cup {"idle"}]
    /\ bind = [c \in Calls |-> bind[c]]
    /\ caller \in [Calls -> {"idle", "waiting", "done"}]
    /\ result \in [Calls -> {"none", "ok", "err", "dropped", "timeout", "argument"}]
    /\ ask \in [Calls -> 1 .. MaxAsks]
    /\ msg \in [Calls -> {"none", "mailbox", "handling", "gone"}]
    /\ pc \in [Calls -> Nat]
    /\ arcs = [w \in Works |-> arcs[w]]
    /\ \A w \in Works : IsFiniteSet(arcs[w])
    /\ reply \in [Calls -> Replies]
    /\ task \in [Works -> {"none", "awaiting", "answered", "failed", "over"}]
    /\ kernel \in [Works -> {"none", "queued", "executed"}]
    /\ stream \in Seq(Works)

\* A caller that has returned what the channel said said the truth about it.
CallerInv(c) ==
    /\ caller[c] = "idle" => msg[c] = "none"
    /\ caller[c] # "done" => result[c] = "none"
    /\ result[c] = "argument" => msg[c] = "none"
    /\ result[c] \in {"ok", "err", "dropped"} => reply[c] = result[c]

\* Where the outstanding request is, and that nothing is sent before it is gone.
RequestInv(c) ==
    /\ entry[c] # "idle" => ask[c] \in 1 .. Len(EntryOf(c).asks)
    /\ msg[c] # "none" => entry[c] # "idle"
    /\ msg[c] = "none" => ask[c] = 1 /\ (caller[c] = "idle" \/ result[c] = "argument")
    /\ msg[c] # "gone" => reply[c] = "none"
    /\ msg[c] \in {"none", "mailbox"} => pc[c] = 1
    /\ msg[c] = "handling" => pc[c] \in 1 .. Len(Program(c))

\* What a handler has done by the time it is at pc: its accesses gave it clones,
\* and it has not come past an unwrapping.
HandlerInv(c) ==
    msg[c] = "handling" =>
        \A i \in 1 .. Len(Program(c)) : i < pc[c] =>
            /\ Program(c)[i].do = "access" => Program(c)[i].on \in arcs[Work(c)]
            /\ Program(c)[i].do # "take"

\* The i-th request of c has not come to its launch.
NotYet(c, i) == i > ask[c] \/ (i = ask[c] /\ msg[c] # "gone")

\* The work of the i-th request of a call: what is awaited is unanswered and
\* keeps its operands, what run_kernel queued is awaited until its completion
\* fails, what an earlier request launched has run.
WorkInv(c, i) ==
    /\ NotYet(c, i) => task[<<c, i>>] = "none" /\ kernel[<<c, i>>] = "none"
    /\ task[<<c, i>>] = "awaiting" =>
        /\ i = ask[c] /\ reply[c] = "none"
        /\ LaunchOf(<<c, i>>).uses \subseteq arcs[<<c, i>>]
    /\ task[<<c, i>>] = "answered" => kernel[<<c, i>>] = "executed"
    /\ kernel[<<c, i>>] = "queued" /\ LaunchOf(<<c, i>>).then # "reply"
        => task[<<c, i>>] \in {"awaiting", "failed"}
    /\ i < ask[c] /\ LaunchOf(<<c, i>>).do = "launch" => kernel[<<c, i>>] = "executed"

\* What is on the channel of the outstanding request is true.
ReplyInv(c) ==
    /\ reply[c] = "ok" /\ RequestOf(c).lib # "nccl" /\ LaunchOf(Work(c)).do = "launch"
        => kernel[Work(c)] = "executed"
    /\ reply[c] \in {"err", "dropped"} /\ task[Work(c)] # "failed" => kernel[Work(c)] = "none"

CallInv(c) ==
    /\ CallerInv(c) /\ RequestInv(c) /\ HandlerInv(c)
    /\ entry[c] # "idle" =>
        /\ ReplyInv(c)
        /\ \A i \in 1 .. Len(EntryOf(c).asks) : WorkInv(c, i)

StreamInv == \A i \in 1 .. Len(stream) : kernel[stream[i]] # "none"

IInv == Types /\ StreamInv /\ \A c \in Calls : CallInv(c)

-----------------------------------------------------------------------------
(* The tables *)

\* What is assumed of the entries, for the request a call has outstanding.
LEMMA AskFacts ==
    ASSUME Types, NEW c \in Calls, entry[c] # "idle", NEW i \in 1 .. Len(EntryOf(c).asks)
    PROVE  /\ Len(EntryOf(c).asks) \in 1 .. MaxAsks
           /\ i \in 1 .. MaxAsks
           /\ EntryOf(c).asks[i] \in DOMAIN Requests
           /\ Requests[EntryOf(c).asks[i]].lib = "nccl" => Len(EntryOf(c).asks) = 1
<1>1. entry[c] \in DOMAIN Entries
  BY DEF Types
<1>2. /\ Len(Entries[entry[c]].asks) \in 1 .. MaxAsks
      /\ Entries[entry[c]].asks[i] \in DOMAIN Requests
      /\ Requests[Entries[entry[c]].asks[i]].lib = "nccl" => Len(Entries[entry[c]].asks) = 1
  BY <1>1, AsksAssumption DEF EntryOf
<1> QED
  BY <1>2, MaxAsksAssumption DEF EntryOf

\* The program a handler runs ends once and unwraps only clones.
LEMMA ProgramFacts ==
    ASSUME Types, NEW c \in Calls, RequestInv(c), entry[c] # "idle"
    PROVE  /\ EndsOnce(Program(c)) /\ TakesClones(Program(c), RequestOf(c).refs)
           /\ Program(c)[Len(Program(c))].do = "launch" =>
                Program(c) = RequestOf(c).prog /\ LaunchesSafely(RequestOf(c))
           /\ Program(c)[Len(Program(c))].do = "answer" => LaunchOf(Work(c)).do # "launch"
           /\ LaunchOf(Work(c)) = RequestOf(c).prog[Len(RequestOf(c).prog)]
<1>1. ask[c] \in 1 .. Len(EntryOf(c).asks)
  BY DEF RequestInv
<1>2. EntryOf(c).asks[ask[c]] \in DOMAIN Requests
  BY <1>1, AskFacts
<1>3. LaunchOf(Work(c)) = RequestOf(c).prog[Len(RequestOf(c).prog)]
  BY DEF LaunchOf, Work, RequestOf, Last, EntryOf
<1>4. /\ EndsOnce(RequestOf(c).prog) /\ EndsOnce(RequestOf(c).mock)
      /\ TakesClones(RequestOf(c).prog, RequestOf(c).refs)
      /\ TakesClones(RequestOf(c).mock, RequestOf(c).refs)
      /\ LaunchesSafely(RequestOf(c))
      /\ RequestOf(c).mock[Len(RequestOf(c).mock)].do # "launch"
      /\ RequestOf(c).prog[Len(RequestOf(c).prog)].do = "launch" =>
            RequestOf(c).mock[Len(RequestOf(c).mock)].do # "answer"
  BY <1>2, HandlersAssumption DEF RequestOf
<1>5. Program(c) = RequestOf(c).mock \/ Program(c) = RequestOf(c).prog
  BY DEF Program
<1> QED
  BY <1>3, <1>4, <1>5

\* Every step before the last one is followed by another.
LEMMA StepFacts ==
    ASSUME Types, NEW c \in Calls, RequestInv(c), msg[c] = "handling"
    PROVE  /\ entry[c] # "idle"
           /\ Len(Program(c)) \in Nat /\ pc[c] \in 1 .. Len(Program(c))
           /\ StepOf(c).do \in {"launch", "answer", "refuse", "hangup"} <=> pc[c] = Len(Program(c))
           /\ Work(c) \in Works /\ Work(c) = <<c, ask[c]>>
           /\ ask[c] \in 1 .. Len(EntryOf(c).asks)
<1>1. entry[c] # "idle" /\ pc[c] \in 1 .. Len(Program(c)) /\ ask[c] \in 1 .. Len(EntryOf(c).asks)
  BY DEF RequestInv
<1>2. EndsOnce(Program(c))
  BY <1>1, ProgramFacts
<1>3. Work(c) \in Works /\ Work(c) = <<c, ask[c]>>
  BY DEF Types, Work, Works
<1> QED
  BY <1>1, <1>2, <1>3 DEF EndsOnce, StepOf

-----------------------------------------------------------------------------
(* Frame: a call none of whose own state changes *)

Same(d) ==
    /\ mode' = mode /\ entry' = entry
    /\ bind'[d] = bind[d] /\ caller'[d] = caller[d] /\ result'[d] = result[d]
    /\ ask'[d] = ask[d] /\ msg'[d] = msg[d] /\ pc'[d] = pc[d] /\ reply'[d] = reply[d]
    /\ \A i \in 1 .. MaxAsks :
        arcs'[<<d, i>>] = arcs[<<d, i>>] /\ task'[<<d, i>>] = task[<<d, i>>]
        /\ kernel'[<<d, i>>] = kernel[<<d, i>>]

\* The names of a call's request and program are functions of its own state.
LEMMA SameNames ==
    ASSUME NEW d \in Calls, mode' = mode, entry' = entry, ask'[d] = ask[d]
    PROVE  /\ EntryOf(d)' = EntryOf(d) /\ RequestOf(d)' = RequestOf(d)
           /\ Program(d)' = Program(d) /\ Work(d)' = Work(d)
           /\ \A i \in 1 .. MaxAsks : LaunchOf(<<d, i>>)' = LaunchOf(<<d, i>>)
  BY DEF EntryOf, RequestOf, Program, Work, LaunchOf

LEMMA SameCall ==
    ASSUME Types, NEW d \in Calls, CallInv(d), Same(d)
    PROVE  CallInv(d)'
<1>0. /\ EntryOf(d)' = EntryOf(d) /\ RequestOf(d)' = RequestOf(d)
      /\ Program(d)' = Program(d) /\ Work(d)' = Work(d)
      /\ \A i \in 1 .. MaxAsks : LaunchOf(<<d, i>>)' = LaunchOf(<<d, i>>)
  BY SameNames DEF Same
<1>1. CallerInv(d)'
  BY DEF CallInv, CallerInv, Same
<1>2. RequestInv(d)'
  BY <1>0 DEF CallInv, RequestInv, Same
<1>3. Work(d) = <<d, ask[d]>> /\ ask[d] \in 1 .. MaxAsks
  BY DEF Work, Types
<1>4. /\ arcs'[Work(d)] = arcs[Work(d)] /\ task'[Work(d)] = task[Work(d)]
      /\ kernel'[Work(d)] = kernel[Work(d)]
  BY <1>3 DEF Same
<1>5. HandlerInv(d)'
  BY <1>0, <1>4 DEF CallInv, HandlerInv, Same
<1>6. ASSUME entry[d] # "idle" PROVE ReplyInv(d)'
  <2>1. ReplyInv(d)
    BY <1>6 DEF CallInv
  <2>2. LaunchOf(Work(d))' = LaunchOf(Work(d))
    BY <1>0, <1>3 DEF LaunchOf, EntryOf, Same
  <2> QED
    BY <2>1, <2>2, <1>0, <1>4 DEF ReplyInv, Same
<1>7. ASSUME entry[d] # "idle", NEW i \in 1 .. Len(EntryOf(d).asks) PROVE WorkInv(d, i)'
  <2>1. WorkInv(d, i)
    BY <1>7 DEF CallInv
  <2>2. i \in 1 .. MaxAsks
    BY <1>7, AskFacts
  <2>3. LaunchOf(<<d, i>>)' = LaunchOf(<<d, i>>)
    BY <2>2, <1>0
  <2>4. /\ arcs'[<<d, i>>] = arcs[<<d, i>>] /\ task'[<<d, i>>] = task[<<d, i>>]
        /\ kernel'[<<d, i>>] = kernel[<<d, i>>]
    BY <2>2 DEF Same
  <2>6. NotYet(d, i)' = NotYet(d, i)
    BY DEF NotYet, Same
  <2> QED
    BY <2>1, <2>3, <2>4, <2>6 DEF WorkInv, Same
<1> QED
  BY <1>0, <1>1, <1>2, <1>5, <1>6, <1>7 DEF CallInv, Same

\* A step of one call leaves the invariant of the others.
LEMMA OtherCalls ==
    ASSUME IInv, NEW c \in Calls, Types', StreamInv', CallInv(c)',
           \A d \in Calls : d # c => Same(d)
    PROVE  IInv'
<1>1. ASSUME NEW d \in Calls, d # c PROVE CallInv(d)'
  BY <1>1, SameCall DEF IInv
<1> QED
  BY <1>1 DEF IInv

-----------------------------------------------------------------------------
(* The handlers *)

\* What holds of a call while its request is handled.
LEMMA HandlingFacts ==
    ASSUME IInv, NEW c \in Calls, msg[c] = "handling"
    PROVE  /\ Types /\ RequestInv(c) /\ CallerInv(c) /\ HandlerInv(c)
           /\ entry[c] # "idle" /\ caller[c] # "idle"
           /\ result[c] \in {"none", "timeout"} /\ reply[c] = "none"
           /\ task[Work(c)] = "none" /\ kernel[Work(c)] = "none"
           /\ Work(c) \in Works /\ Work(c) = <<c, ask[c]>>
           /\ ask[c] \in 1 .. Len(EntryOf(c).asks)
<1>1. Types /\ RequestInv(c) /\ CallerInv(c) /\ HandlerInv(c) /\ CallInv(c)
  BY DEF IInv, CallInv
<1>2. /\ entry[c] # "idle" /\ Work(c) \in Works /\ Work(c) = <<c, ask[c]>>
      /\ ask[c] \in 1 .. Len(EntryOf(c).asks)
  BY <1>1, StepFacts
<1>3. caller[c] # "idle" /\ reply[c] = "none"
  BY <1>1 DEF CallerInv, RequestInv
<1>4. result[c] \in {"none", "ok", "err", "dropped", "timeout", "argument"}
  BY <1>1 DEF Types
<1>5. result[c] \in {"none", "timeout"}
  BY <1>1, <1>3, <1>4 DEF CallerInv
<1>6. WorkInv(c, ask[c])
  BY <1>1, <1>2 DEF CallInv
<1>7. task[Work(c)] = "none" /\ kernel[Work(c)] = "none"
  BY <1>2, <1>6 DEF WorkInv, NotYet
<1> QED
  BY <1>1, <1>2, <1>3, <1>5, <1>7

\* A handler that returns with an answer, having launched nothing.
LEMMA ReturnStep ==
    ASSUME IInv, NEW c \in Calls, msg[c] = "handling", NEW r \in {"ok", "err", "dropped"},
           r = "ok" => LaunchOf(Work(c)).do # "launch",
           Return(c, r), UNCHANGED <<envVars, callVars, workVars>>
    PROVE  IInv'
<1>0. /\ Types /\ RequestInv(c) /\ CallerInv(c) /\ HandlerInv(c)
      /\ entry[c] # "idle" /\ caller[c] # "idle"
      /\ result[c] \in {"none", "timeout"} /\ reply[c] = "none"
      /\ task[Work(c)] = "none" /\ kernel[Work(c)] = "none"
      /\ Work(c) \in Works /\ Work(c) = <<c, ask[c]>>
      /\ ask[c] \in 1 .. Len(EntryOf(c).asks)
  BY HandlingFacts
<1>1. /\ mode' = mode /\ entry' = entry /\ bind' = bind /\ caller' = caller /\ result' = result
      /\ ask' = ask /\ pc' = pc /\ task' = task /\ kernel' = kernel /\ stream' = stream
      /\ msg' = [msg EXCEPT ![c] = "gone"] /\ reply' = [reply EXCEPT ![c] = r]
      /\ arcs' = [arcs EXCEPT ![Work(c)] = {}]
  BY DEF Return, envVars, callVars, workVars
<1>2. /\ EntryOf(c)' = EntryOf(c) /\ RequestOf(c)' = RequestOf(c)
      /\ Program(c)' = Program(c) /\ Work(c)' = Work(c)
      /\ \A i \in 1 .. MaxAsks : LaunchOf(<<c, i>>)' = LaunchOf(<<c, i>>)
  BY <1>1, SameNames
<1>3. msg'[c] = "gone" /\ reply'[c] = r
  BY <1>0, <1>1 DEF Types
<1>4. ASSUME NEW w \in Works PROVE arcs'[w] = IF w = Work(c) THEN {} ELSE arcs[w]
  BY <1>0, <1>1 DEF Types
<1>5. Types'
  <2>1. arcs' = [w \in Works |-> arcs'[w]]
    BY <1>0, <1>1 DEF Types
  <2>2. \A w \in Works : IsFiniteSet(arcs'[w])
    BY <1>0, <1>4, FS_EmptySet DEF Types
  <2>3. /\ msg' \in [Calls -> {"none", "mailbox", "handling", "gone"}]
        /\ reply' \in [Calls -> Replies]
    BY <1>0, <1>1 DEF Types, Replies
  <2> QED
    BY <1>0, <1>1, <2>1, <2>2, <2>3 DEF Types
<1>6. StreamInv'
  BY <1>1 DEF IInv, StreamInv
<1>7. CallInv(c)'
  <2>1. CallerInv(c)'
    BY <1>0, <1>1, <1>3 DEF CallerInv
  <2>2. RequestInv(c)'
    BY <1>0, <1>1, <1>2, <1>3 DEF RequestInv
  <2>3. HandlerInv(c)'
    BY <1>3 DEF HandlerInv
  <2>4. LaunchOf(Work(c))' = LaunchOf(Work(c))
    BY <1>1, <1>2 DEF LaunchOf, EntryOf
  <2>5. ReplyInv(c)'
    BY <1>0, <1>1, <1>2, <1>3, <2>4 DEF ReplyInv
  <2>6. ASSUME NEW i \in 1 .. Len(EntryOf(c).asks) PROVE WorkInv(c, i)'
    <3>1. WorkInv(c, i) /\ i \in 1 .. MaxAsks
      BY <1>0, AskFacts DEF IInv, CallInv
    <3>2. LaunchOf(<<c, i>>)' = LaunchOf(<<c, i>>)
      BY <3>1, <1>2
    <3>3. i \in Nat /\ ask[c] \in Nat
      BY <3>1, <1>0 DEF Types
    <3>5. task[<<c, i>>] # "awaiting"
      BY <3>1, <1>0 DEF WorkInv
    <3>6. NotYet(c, i)' => NotYet(c, i)
      BY <3>3, <1>1, <1>3, <1>0 DEF NotYet
    <3> QED
      BY <3>1, <3>2, <3>5, <3>6, <1>1 DEF WorkInv
  <2> QED
    BY <1>2, <2>1, <2>2, <2>3, <2>5, <2>6 DEF CallInv
<1>8. ASSUME NEW d \in Calls, d # c PROVE Same(d)
  <2>1. msg'[d] = msg[d] /\ reply'[d] = reply[d]
    BY <1>0, <1>1, <1>8 DEF Types
  <2>2. ASSUME NEW i \in 1 .. MaxAsks PROVE arcs'[<<d, i>>] = arcs[<<d, i>>]
    <3>1. <<d, i>> \in Works /\ <<d, i>> # Work(c)
      BY <1>0, <1>8 DEF Works
    <3> QED
      BY <3>1, <1>4
  <2> QED
    BY <1>1, <2>1, <2>2 DEF Same
<1> QED
  BY <1>1, <1>5, <1>6, <1>7, <1>8, OtherCalls

\* A handler that goes on to its next step, perhaps with one more clone.
LEMMA GoOnStep ==
    ASSUME IInv, NEW c \in Calls, msg[c] = "handling", GoOn(c),
           StepOf(c).do \notin {"launch", "answer", "refuse", "hangup", "take"},
           NEW os, arcs' = [arcs EXCEPT ![Work(c)] = os], arcs[Work(c)] \subseteq os, IsFiniteSet(os),
           StepOf(c).do = "access" => StepOf(c).on \in os,
           UNCHANGED <<envVars, callVars, workVars>>
    PROVE  IInv'
<1>0. /\ Types /\ RequestInv(c) /\ CallerInv(c) /\ HandlerInv(c)
      /\ entry[c] # "idle" /\ caller[c] # "idle"
      /\ result[c] \in {"none", "timeout"} /\ reply[c] = "none"
      /\ task[Work(c)] = "none" /\ kernel[Work(c)] = "none"
      /\ Work(c) \in Works /\ Work(c) = <<c, ask[c]>>
      /\ ask[c] \in 1 .. Len(EntryOf(c).asks)
  BY HandlingFacts
<1>1. /\ mode' = mode /\ entry' = entry /\ bind' = bind /\ caller' = caller /\ result' = result
      /\ ask' = ask /\ msg' = msg /\ reply' = reply
      /\ task' = task /\ kernel' = kernel /\ stream' = stream
      /\ pc' = [pc EXCEPT ![c] = @ + 1]
  BY DEF GoOn, envVars, callVars, workVars
<1>2. /\ EntryOf(c)' = EntryOf(c) /\ RequestOf(c)' = RequestOf(c)
      /\ Program(c)' = Program(c) /\ Work(c)' = Work(c)
      /\ \A i \in 1 .. MaxAsks : LaunchOf(<<c, i>>)' = LaunchOf(<<c, i>>)
  BY <1>1, SameNames
<1>3. /\ pc[c] \in 1 .. Len(Program(c)) /\ Len(Program(c)) \in Nat
      /\ pc[c] # Len(Program(c))
  BY <1>0, StepFacts
<1>4. ASSUME NEW w \in Works PROVE arcs'[w] = IF w = Work(c) THEN os ELSE arcs[w]
  BY <1>0 DEF Types
<1>5. pc'[c] = pc[c] + 1 /\ pc[c] \in Nat
  BY <1>0, <1>1 DEF Types
<1>6. Types'
  <2>1. arcs' = [w \in Works |-> arcs'[w]]
    BY <1>0 DEF Types
  <2>2. \A w \in Works : IsFiniteSet(arcs'[w])
    BY <1>0, <1>4 DEF Types
  <2>3. pc' \in [Calls -> Nat]
    BY <1>0, <1>1 DEF Types
  <2> QED
    BY <1>0, <1>1, <2>1, <2>2, <2>3 DEF Types
<1>7. StreamInv'
  BY <1>1 DEF IInv, StreamInv
<1>8. CallInv(c)'
  <2>1. CallerInv(c)'
    BY <1>0, <1>1 DEF CallerInv
  <2>2. RequestInv(c)'
    BY <1>0, <1>1, <1>2, <1>3, <1>5 DEF RequestInv
  <2>3. HandlerInv(c)'
    <3> SUFFICES ASSUME NEW i \in 1 .. Len(Program(c)), i < pc[c] + 1
                 PROVE  /\ Program(c)[i].do = "access" => Program(c)[i].on \in os
                        /\ Program(c)[i].do # "take"
      BY <1>0, <1>1, <1>2, <1>4, <1>5 DEF HandlerInv
    <3>1. CASE i < pc[c]
      BY <3>1, <1>0 DEF HandlerInv
    <3>2. CASE i = pc[c]
      BY <3>2 DEF StepOf
    <3> QED
      BY <3>1, <3>2, <1>3, <1>5
  <2>4. ReplyInv(c)'
    BY <1>0, <1>1, <1>2 DEF ReplyInv
  <2>5. ASSUME NEW i \in 1 .. Len(EntryOf(c).asks) PROVE WorkInv(c, i)'
    <3>1. WorkInv(c, i) /\ i \in 1 .. MaxAsks
      BY <1>0, AskFacts DEF IInv, CallInv
    <3>2. LaunchOf(<<c, i>>)' = LaunchOf(<<c, i>>)
      BY <3>1, <1>2
    <3>4. task[<<c, i>>] # "awaiting"
      BY <3>1, <1>0 DEF WorkInv
    <3>5. NotYet(c, i)' = NotYet(c, i)
      BY <1>1 DEF NotYet
    <3> QED
      BY <3>1, <3>2, <3>4, <3>5, <1>1 DEF WorkInv
  <2> QED
    BY <1>2, <2>1, <2>2, <2>3, <2>4, <2>5 DEF CallInv
<1>9. ASSUME NEW d \in Calls, d # c PROVE Same(d)
  <2>1. pc'[d] = pc[d]
    BY <1>0, <1>1, <1>9 DEF Types
  <2>2. ASSUME NEW i \in 1 .. MaxAsks PROVE arcs'[<<d, i>>] = arcs[<<d, i>>]
    <3>1. <<d, i>> \in Works /\ <<d, i>> # Work(c)
      BY <1>0, <1>9 DEF Works
    <3> QED
      BY <3>1, <1>4
  <2> QED
    BY <1>1, <2>1, <2>2 DEF Same
<1> QED
  BY <1>6, <1>7, <1>8, <1>9, OtherCalls

\* The clones of a buffer can be counted.
LEMMA ClonesFinite ==
    ASSUME Types, NEW b
    PROVE  IsFiniteSet(Clones(b))
<1>1. IsFiniteSet(Works)
  <2>1. 1 \in Int /\ MaxAsks \in Int
    BY MaxAsksAssumption
  <2>2. IsFiniteSet(1 .. MaxAsks)
    BY <2>1, FS_Interval
  <2> QED
    BY <2>2, CallsAssumption, FS_Product DEF Works
<1> DEFINE S == {arcs[w] : w \in Works}
<1>2. arcs \in Surjection(Works, S)
  BY DEF Types, Surjection
<1>3. IsFiniteSet(S)
  BY <1>1, <1>2, FS_Surjection
<1>4. \A T \in S : IsFiniteSet(T)
  BY DEF Types
<1>5. IsFiniteSet(UNION S)
  BY <1>3, <1>4, FS_UNION
<1>6. IsFiniteSet(Works \X UNION S)
  BY <1>1, <1>5, FS_Product
<1>7. Clones(b) \in SUBSET (Works \X UNION S)
  BY DEF Clones
<1> QED
  BY <1>6, <1>7, FS_Subset

\* A handler that comes to an unwrapping has a clone of the operand, and the
\* GpuRef in its request has the other.
LEMMA TakeRefused ==
    ASSUME IInv, NEW c \in Calls, Handling(c, "take")
    PROVE  StrongCount(bind[c][StepOf(c).on]) >= 2
<1> DEFINE b == bind[c][StepOf(c).on]
<1>0. /\ Types /\ RequestInv(c) /\ HandlerInv(c) /\ msg[c] = "handling" /\ entry[c] # "idle"
      /\ Work(c) \in Works /\ Work(c) = <<c, ask[c]>>
  BY HandlingFacts DEF Handling
<1>1. TakesClones(Program(c), RequestOf(c).refs)
  BY <1>0, ProgramFacts
<1>2. pc[c] \in 1 .. Len(Program(c)) /\ Program(c)[pc[c]].do = "take" /\ StepOf(c) = Program(c)[pc[c]]
  BY <1>0, StepFacts DEF Handling, StepOf
<1>3. StepOf(c).on \in RequestOf(c).refs
  BY <1>1, <1>2 DEF TakesClones
<1>4. PICK j \in 1 .. Len(Program(c)) :
        j < pc[c] /\ Program(c)[j].do = "access" /\ Program(c)[j].on = StepOf(c).on
  BY <1>1, <1>2 DEF TakesClones
<1>5. StepOf(c).on \in arcs[Work(c)]
  BY <1>0, <1>4 DEF HandlerInv
<1>6. Referenced(b)
  BY <1>0, <1>3 DEF Referenced, BufferSet
<1>7. <<Work(c), StepOf(c).on>> \in Clones(b)
  BY <1>0, <1>5 DEF Clones
<1>8. Cardinality(Clones(b)) \in Nat /\ Cardinality(Clones(b)) # 0
  BY <1>0, <1>7, ClonesFinite, FS_CardinalityType, FS_EmptySet
<1> QED
  BY <1>6, <1>8 DEF StrongCount

\* The launch, which ends the handler: the clones of the operands, all of which
\* the handler has made on its way, are in the keep-alive and the work is on the
\* stream.
LEMMA LaunchStepInv ==
    ASSUME IInv, NEW c \in Calls, LaunchStep(c)
    PROVE  IInv'
<1> DEFINE l == StepOf(c)
<1> DEFINE then == IF l.then = "reply" THEN "over" ELSE "awaiting"
<1> DEFINE says == IF l.then = "reply" THEN "ok" ELSE "none"
<1>a. msg[c] = "handling" /\ l.do = "launch"
  BY DEF LaunchStep, Handling
<1>0. /\ Types /\ RequestInv(c) /\ CallerInv(c) /\ HandlerInv(c)
      /\ entry[c] # "idle" /\ caller[c] # "idle"
      /\ result[c] \in {"none", "timeout"} /\ reply[c] = "none"
      /\ task[Work(c)] = "none" /\ kernel[Work(c)] = "none"
      /\ Work(c) \in Works /\ Work(c) = <<c, ask[c]>>
      /\ ask[c] \in 1 .. Len(EntryOf(c).asks)
  BY <1>a, HandlingFacts
<1>1. /\ mode' = mode /\ entry' = entry /\ bind' = bind /\ caller' = caller /\ result' = result
      /\ ask' = ask /\ pc' = pc
      /\ msg' = [msg EXCEPT ![c] = "gone"] /\ reply' = [reply EXCEPT ![c] = says]
      /\ arcs' = [arcs EXCEPT ![Work(c)] = arcs[Work(c)] \cap l.keep]
      /\ task' = [task EXCEPT ![Work(c)] = then]
      /\ kernel' = [kernel EXCEPT ![Work(c)] = "queued"]
      /\ stream' = Append(stream, Work(c))
  BY DEF LaunchStep, envVars, callVars
<1>2. /\ EntryOf(c)' = EntryOf(c) /\ RequestOf(c)' = RequestOf(c)
      /\ Program(c)' = Program(c) /\ Work(c)' = Work(c)
      /\ \A i \in 1 .. MaxAsks : LaunchOf(<<c, i>>)' = LaunchOf(<<c, i>>)
  BY <1>1, SameNames
<1>3. /\ pc[c] = Len(Program(c)) /\ Len(Program(c)) \in Nat /\ pc[c] \in 1 .. Len(Program(c))
      /\ l = Program(c)[Len(Program(c))]
  BY <1>0, <1>a, StepFacts DEF StepOf
<1>4. /\ Program(c) = RequestOf(c).prog /\ LaunchesSafely(RequestOf(c))
      /\ LaunchOf(Work(c)) = l
  BY <1>0, <1>3, <1>a, ProgramFacts
<1>5. IF l.then = "reply" THEN RequestOf(c).lib = "nccl"
      ELSE \A o \in l.uses :
              /\ o \in l.keep
              /\ \E i \in 1 .. Len(Program(c)) : Program(c)[i].do = "access" /\ Program(c)[i].on = o
  BY <1>3, <1>4, <1>a DEF LaunchesSafely
<1>6. l.then # "reply" => l.uses \subseteq arcs[Work(c)] \cap l.keep
  <2> SUFFICES ASSUME l.then # "reply", NEW o \in l.uses PROVE o \in arcs[Work(c)] /\ o \in l.keep
    OBVIOUS
  <2>1. PICK i \in 1 .. Len(Program(c)) : Program(c)[i].do = "access" /\ Program(c)[i].on = o
    BY <1>5
  <2>2. i < pc[c]
    BY <2>1, <1>3, <1>a
  <2>3. Program(c)[i].do = "access" => Program(c)[i].on \in arcs[Work(c)]
    BY <2>2, <1>0, <1>a DEF HandlerInv
  <2> QED
    BY <2>1, <2>3, <1>5
<1>e. IsFiniteSet(arcs[Work(c)] \cap l.keep)
  BY <1>0, FS_Intersection DEF Types
<1>7. msg'[c] = "gone" /\ reply'[c] = says
  BY <1>0, <1>1 DEF Types
<1>8. ASSUME NEW w \in Works
      PROVE  /\ arcs'[w] = IF w = Work(c) THEN arcs[Work(c)] \cap l.keep ELSE arcs[w]
             /\ task'[w] = IF w = Work(c) THEN then ELSE task[w]
             /\ kernel'[w] = IF w = Work(c) THEN "queued" ELSE kernel[w]
  BY <1>0, <1>1 DEF Types
<1>b. then \in {"over", "awaiting"} /\ says \in {"ok", "none"}
  OBVIOUS
<1>c. l.then # "reply" => then = "awaiting" /\ says = "none"
  OBVIOUS
<1>d. l.then = "reply" => then = "over"
  OBVIOUS
<1> HIDE DEF l, then, says
<1>9. Types'
  <2>1. arcs' = [w \in Works |-> arcs'[w]]
    BY <1>0, <1>1 DEF Types
  <2>2. \A w \in Works : IsFiniteSet(arcs'[w])
    BY <1>0, <1>8, <1>e DEF Types
  <2>3. /\ msg' \in [Calls -> {"none", "mailbox", "handling", "gone"}]
        /\ reply' \in [Calls -> Replies]
    BY <1>0, <1>1, <1>b DEF Types, Replies
  <2>4. /\ task' \in [Works -> {"none", "awaiting", "answered", "failed", "over"}]
        /\ kernel' \in [Works -> {"none", "queued", "executed"}]
    BY <1>0, <1>1, <1>b DEF Types
  <2>5. stream' \in Seq(Works)
    BY <1>0, <1>1 DEF Types
  <2> QED
    BY <1>0, <1>1, <2>1, <2>2, <2>3, <2>4, <2>5 DEF Types
<1>10. StreamInv'
  <2> SUFFICES ASSUME NEW i \in 1 .. Len(stream') PROVE kernel'[stream'[i]] # "none"
    BY DEF StreamInv
  <2>1. stream \in Seq(Works)
    BY <1>0 DEF Types
  <2>2. /\ i \in 1 .. Len(stream) => stream'[i] = stream[i] /\ stream[i] \in Works
        /\ i \notin 1 .. Len(stream) => stream'[i] = Work(c)
    BY <2>1, <1>0, <1>1
  <2>3. i \in 1 .. Len(stream) => kernel[stream[i]] # "none"
    BY DEF IInv, StreamInv
  <2> QED
    BY <2>2, <2>3, <1>0, <1>8
<1>11. CallInv(c)'
  <2>1. CallerInv(c)'
    BY <1>0, <1>1, <1>7 DEF CallerInv
  <2>2. RequestInv(c)'
    BY <1>0, <1>1, <1>2, <1>7 DEF RequestInv
  <2>3. HandlerInv(c)'
    BY <1>7 DEF HandlerInv
  <2>4. LaunchOf(Work(c))' = LaunchOf(Work(c))
    BY <1>1, <1>2 DEF LaunchOf, EntryOf
  <2>5. ReplyInv(c)'
    <3>1. reply'[c] \in {"ok", "none"} /\ (reply'[c] = "ok" => RequestOf(c).lib = "nccl")
      BY <1>5, <1>7, <1>b, <1>c
    <3> QED
      BY <3>1, <1>2 DEF ReplyInv
  <2>6. ASSUME NEW i \in 1 .. Len(EntryOf(c).asks) PROVE WorkInv(c, i)'
    <3>1. WorkInv(c, i) /\ i \in 1 .. MaxAsks
      BY <1>0, AskFacts DEF IInv, CallInv
    <3>2. LaunchOf(<<c, i>>)' = LaunchOf(<<c, i>>)
      BY <3>1, <1>2
    <3>3. i \in Nat /\ ask[c] \in Nat
      BY <3>1, <1>0 DEF Types
    <3>5. <<c, i>> \in Works /\ (<<c, i>> = Work(c) <=> i = ask[c])
      BY <3>1, <1>0 DEF Works
    <3>6. CASE i # ask[c]
      <4>1. task[<<c, i>>] # "awaiting"
        BY <3>1, <3>6 DEF WorkInv
      <4>2. NotYet(c, i)' => NotYet(c, i)
        BY <3>3, <3>6, <1>1 DEF NotYet
      <4>3. task'[<<c, i>>] = task[<<c, i>>] /\ kernel'[<<c, i>>] = kernel[<<c, i>>]
        BY <3>5, <3>6, <1>8
      <4> QED
        BY <3>1, <3>2, <4>1, <4>2, <4>3, <1>1 DEF WorkInv
    <3>7. CASE i = ask[c]
      <4>1. /\ task'[<<c, i>>] = then /\ kernel'[<<c, i>>] = "queued"
            /\ arcs'[<<c, i>>] = arcs[Work(c)] \cap l.keep
        BY <3>5, <3>7, <1>8
      <4>2. ~NotYet(c, i)'
        BY <3>3, <3>7, <1>1, <1>7 DEF NotYet
      <4>3. LaunchOf(<<c, i>>)' = l
        BY <3>2, <3>5, <3>7, <1>4
      <4>4. then = "awaiting" => reply'[c] = "none" /\ l.uses \subseteq arcs[Work(c)] \cap l.keep
        BY <1>6, <1>7, <1>c, <1>d
      <4>5. l.then # "reply" => then = "awaiting"
        BY <1>c
      <4>6. ~(i < ask'[c]) /\ ask'[c] = ask[c]
        BY <3>3, <3>7, <1>1
      <4> QED
        BY <3>7, <4>1, <4>2, <4>3, <4>4, <4>5, <4>6, <1>b DEF WorkInv
    <3> QED
      BY <3>6, <3>7
  <2> QED
    BY <1>2, <2>1, <2>2, <2>3, <2>5, <2>6 DEF CallInv
<1>12. ASSUME NEW d \in Calls, d # c PROVE Same(d)
  <2>1. msg'[d] = msg[d] /\ reply'[d] = reply[d]
    BY <1>0, <1>1, <1>12 DEF Types
  <2>2. ASSUME NEW i \in 1 .. MaxAsks
        PROVE  /\ arcs'[<<d, i>>] = arcs[<<d, i>>] /\ task'[<<d, i>>] = task[<<d, i>>]
               /\ kernel'[<<d, i>>] = kernel[<<d, i>>]
    <3>1. <<d, i>> \in Works /\ <<d, i>> # Work(c)
      BY <1>0, <1>12 DEF Works
    <3> QED
      BY <3>1, <1>8
  <2> QED
    BY <1>1, <2>1, <2>2 DEF Same
<1> QED
  BY <1>1, <1>9, <1>10, <1>11, <1>12, OtherCalls

\* Every step of a handler.
LEMMA HandleInv ==
    ASSUME IInv, NEW c \in Calls, Handle(c)
    PROVE  IInv'
<1>a. ASSUME msg[c] = "handling"
      PROVE  /\ Types /\ RequestInv(c) /\ entry[c] # "idle" /\ Work(c) \in Works
             /\ arcs = [arcs EXCEPT ![Work(c)] = arcs[Work(c)]] /\ IsFiniteSet(arcs[Work(c)])
  <2>1. Types /\ RequestInv(c) /\ entry[c] # "idle" /\ Work(c) \in Works
    BY <1>a, HandlingFacts
  <2> QED
    BY <2>1 DEF Types
<1>1. CASE AccessStep(c)
  <2>1. msg[c] = "handling" /\ StepOf(c).do = "access"
    BY <1>1 DEF AccessStep, Handling
  <2>2. UNCHANGED <<envVars, callVars, workVars>>
    BY <1>1 DEF AccessStep
  <2>3. CASE current
    <3> DEFINE os == arcs[Work(c)] \cup {StepOf(c).on}
    <3>1. GoOn(c) /\ arcs' = [arcs EXCEPT ![Work(c)] = os]
      BY <1>1, <2>3 DEF AccessStep
    <3>2. IsFiniteSet(os)
      BY <1>a, <2>1, FS_AddElement
    <3>3. arcs[Work(c)] \subseteq os /\ StepOf(c).on \in os
      OBVIOUS
    <3> HIDE DEF os
    <3> QED
      BY <2>1, <2>2, <3>1, <3>2, <3>3, GoOnStep
  <2>4. CASE ~current
    BY <1>1, <2>1, <2>2, <2>4, ReturnStep DEF AccessStep
  <2> QED
    BY <2>3, <2>4
<1>2. CASE TakeStep(c)
  <2>1. msg[c] = "handling" /\ Handling(c, "take")
    BY <1>2 DEF TakeStep, Handling
  <2>2. StrongCount(bind[c][StepOf(c).on]) # 1
    BY <2>1, TakeRefused
  <2>3. Return(c, "err") /\ UNCHANGED <<envVars, callVars, workVars>>
    BY <1>2, <2>2 DEF TakeStep
  <2> QED
    BY <2>1, <2>3, ReturnStep
<1>3. CASE PrepareStep(c)
  <2>1. msg[c] = "handling" /\ StepOf(c).do = "prepare"
    BY <1>3 DEF PrepareStep, Handling
  <2>2. UNCHANGED <<envVars, callVars, workVars>>
    BY <1>3 DEF PrepareStep
  <2>3. CASE GoOn(c) /\ UNCHANGED arcs
    <3>1. arcs' = [arcs EXCEPT ![Work(c)] = arcs[Work(c)]]
      BY <1>a, <2>1, <2>3
    <3> QED
      BY <1>a, <2>1, <2>2, <2>3, <3>1, GoOnStep
  <2>4. CASE Return(c, "err")
    BY <2>1, <2>2, <2>4, ReturnStep
  <2> QED
    BY <1>3, <2>3, <2>4 DEF PrepareStep
<1>4. CASE RecordStep(c)
  <2>1. msg[c] = "handling" /\ StepOf(c).do = "record"
    BY <1>4 DEF RecordStep, Handling
  <2>2. UNCHANGED <<envVars, callVars, workVars>> /\ GoOn(c) /\ UNCHANGED arcs
    BY <1>4 DEF RecordStep
  <2>4. arcs' = [arcs EXCEPT ![Work(c)] = arcs[Work(c)]]
    BY <1>a, <2>1, <2>2
  <2> QED
    BY <1>a, <2>1, <2>2, <2>4, GoOnStep
<1>5. CASE AnswerStep(c)
  <2>1. PICK do \in {"answer", "refuse", "hangup"} : Handling(c, do) /\ Return(c, FinalReply(do))
    BY <1>5 DEF AnswerStep
  <2>2. msg[c] = "handling" /\ StepOf(c).do = do
    BY <2>1 DEF Handling
  <2>3. UNCHANGED <<envVars, callVars, workVars>>
    BY <1>5 DEF AnswerStep
  <2>4. StepOf(c) = Program(c)[Len(Program(c))]
    BY <1>a, <2>2, StepFacts DEF StepOf
  <2>5. FinalReply(do) \in {"ok", "err", "dropped"} /\ (FinalReply(do) = "ok" => do = "answer")
    BY DEF FinalReply
  <2>6. FinalReply(do) = "ok" => LaunchOf(Work(c)).do # "launch"
    BY <1>a, <2>2, <2>4, <2>5, ProgramFacts
  <2> QED
    BY <2>1, <2>2, <2>3, <2>5, <2>6, ReturnStep
<1>6. CASE LaunchStep(c)
  BY <1>6, LaunchStepInv
<1>7. CASE LaunchFails(c)
  <2>1. /\ msg[c] = "handling" /\ Return(c, "err")
        /\ UNCHANGED <<envVars, callVars, workVars>>
    BY <1>7 DEF LaunchFails, Handling
  <2> QED
    BY <2>1, ReturnStep
<1> QED
  BY <1>1, <1>2, <1>3, <1>4, <1>5, <1>6, <1>7 DEF Handle

-----------------------------------------------------------------------------
(* The callers *)

LEMMA NextAsk ==
    ASSUME NEW n \in Nat, NEW k \in 1 .. n, NEW a \in Nat, a >= 1, k = a + 1
    PROVE  n # 1
  OBVIOUS

\* A request is sent, or dropped by a stopped actor: the first one, or the next
\* one once the answer to the one before is Ok.  k is the request's number.
LEMMA TellStep ==
    ASSUME IInv, NEW c \in Calls, NEW k, entry[c] # "idle", Tell(c), mode' = mode, entry' = entry,
           \/ caller[c] = "idle" /\ k = 1
           \/ caller[c] = "waiting" /\ More(c) /\ k = ask[c] + 1,
           ask' = [ask EXCEPT ![c] = k], pc' = [pc EXCEPT ![c] = 1],
           caller' = [caller EXCEPT ![c] = "waiting"],
           caller[c] = "waiting" => bind'[c] = bind[c], bind' = [d \in Calls |-> bind'[d]],
           \A d \in Calls : d # c => bind'[d] = bind[d],
           UNCHANGED <<result, arcs, workVars>>
    PROVE  IInv'
<1>0. Types /\ CallInv(c) /\ CallerInv(c) /\ RequestInv(c) /\ ReplyInv(c)
  BY DEF IInv, CallInv
<1>1. ask[c] \in 1 .. Len(EntryOf(c).asks) /\ Len(EntryOf(c).asks) \in 1 .. MaxAsks
  BY <1>0, AskFacts DEF RequestInv
<1>2. ask[c] \in Nat /\ Len(EntryOf(c).asks) \in Nat /\ MaxAsks \in Nat /\ 1 \in 1 .. MaxAsks
  BY <1>1, MaxAsksAssumption
<1>3. /\ k \in 1 .. Len(EntryOf(c).asks) /\ k \in 1 .. MaxAsks
      /\ caller[c] # "idle" => reply[c] = "ok" /\ k = ask[c] + 1
      /\ caller[c] = "idle" => k = 1 /\ ask[c] = 1 /\ msg[c] = "none" /\ reply[c] = "none"
  BY <1>0, <1>1, <1>2 DEF More, CallerInv, RequestInv
<1>4. result[c] = "none"
  BY <1>0 DEF CallerInv
<1>5. /\ arcs' = arcs /\ task' = task /\ kernel' = kernel /\ stream' = stream
      /\ result' = result
  BY DEF workVars
<1>6. PICK m \in {"mailbox", "gone"}, r \in {"none", "dropped"} :
        /\ msg' = [msg EXCEPT ![c] = m] /\ reply' = [reply EXCEPT ![c] = r]
        /\ m = "mailbox" => r = "none"
  BY DEF Tell
<1>7. /\ msg'[c] = m /\ reply'[c] = r /\ ask'[c] = k /\ pc'[c] = 1 /\ caller'[c] = "waiting"
      /\ result'[c] = "none"
  BY <1>0, <1>4, <1>5, <1>6 DEF Types
<1>8. EntryOf(c)' = EntryOf(c) /\ \A i \in 1 .. MaxAsks : LaunchOf(<<c, i>>)' = LaunchOf(<<c, i>>)
  BY DEF EntryOf, LaunchOf
<1>9. Types'
  <2>1. ask' \in [Calls -> 1 .. MaxAsks] /\ pc' \in [Calls -> Nat]
    BY <1>0, <1>3 DEF Types
  <2>2. /\ msg' \in [Calls -> {"none", "mailbox", "handling", "gone"}]
        /\ reply' \in [Calls -> Replies] /\ caller' \in [Calls -> {"idle", "waiting", "done"}]
    BY <1>0, <1>6 DEF Types, Replies
  <2> QED
    BY <1>0, <1>5, <2>1, <2>2 DEF Types
<1>10. StreamInv'
  BY <1>5 DEF IInv, StreamInv
<1>11. CallInv(c)'
  <2>1. CallerInv(c)'
    BY <1>7 DEF CallerInv
  <2>2. RequestInv(c)'
    BY <1>3, <1>6, <1>7, <1>8 DEF RequestInv
  <2>3. HandlerInv(c)'
    BY <1>6, <1>7 DEF HandlerInv
  <2>4. ASSUME NEW i \in 1 .. Len(EntryOf(c).asks) PROVE WorkInv(c, i)'
    <3>1. WorkInv(c, i) /\ i \in 1 .. MaxAsks /\ i \in Nat
      BY <1>0, AskFacts DEF CallInv
    <3>2. LaunchOf(<<c, i>>)' = LaunchOf(<<c, i>>)
      BY <3>1, <1>8
    <3>3. task'[<<c, i>>] = task[<<c, i>>] /\ kernel'[<<c, i>>] = kernel[<<c, i>>]
      BY <1>5
    <3>4. NotYet(c, i)' => NotYet(c, i)
      BY <3>1, <1>2, <1>3, <1>7 DEF NotYet
    <3>5. task[<<c, i>>] # "awaiting"
      BY <3>1, <1>3, <1>2 DEF WorkInv, NotYet
    <3>7. i < k /\ LaunchOf(<<c, i>>).do = "launch" => kernel[<<c, i>>] = "executed"
      <4>1. CASE i < ask[c]
        BY <3>1, <4>1 DEF WorkInv
      <4>2. CASE i = ask[c] /\ caller[c] # "idle"
        <5>1. RequestOf(c).lib # "nccl"
          <6>1. Requests[EntryOf(c).asks[ask[c]]].lib = "nccl" => Len(EntryOf(c).asks) = 1
            BY <1>0, <1>1, AskFacts
          <6>2. Len(EntryOf(c).asks) # 1
            <7>1. k = ask[c] + 1 /\ k \in 1 .. Len(EntryOf(c).asks)
              BY <4>2, <1>3
            <7>2. ask[c] >= 1 /\ ask[c] \in Nat /\ Len(EntryOf(c).asks) \in Nat
              BY <1>1, <1>2
            <7> QED
              BY <7>1, <7>2, NextAsk
          <6> QED
            BY <6>1, <6>2 DEF RequestOf
        <5>2. Work(c) = <<c, i>> /\ reply[c] = "ok"
          BY <4>2, <1>3 DEF Work
        <5> QED
          BY <5>1, <5>2, <1>0 DEF ReplyInv
      <4>3. CASE ~(i < ask[c]) /\ ~(i = ask[c] /\ caller[c] # "idle")
        BY <4>3, <3>1, <1>2, <1>3
      <4> QED
        BY <4>1, <4>2, <4>3
    <3> QED
      BY <3>1, <3>2, <3>3, <3>4, <3>5, <3>7, <1>7 DEF WorkInv
  <2>5. ReplyInv(c)'
    <3>1. kernel[<<c, k>>] = "none"
      BY <2>4, <1>0, <1>2, <1>3 DEF CallInv, WorkInv, NotYet
    <3>2. Work(c)' = <<c, k>>
      BY <1>7 DEF Work
    <3> QED
      BY <3>1, <3>2, <1>5, <1>6, <1>7 DEF ReplyInv
  <2> QED
    BY <1>8, <2>1, <2>2, <2>3, <2>4, <2>5 DEF CallInv
<1>12. ASSUME NEW d \in Calls, d # c PROVE Same(d)
  BY <1>0, <1>5, <1>6, <1>12 DEF Types, Same
<1> QED
  BY <1>5, <1>9, <1>10, <1>11, <1>12, OtherCalls

\* The caller returns, with what the channel says, with nothing or before it has
\* sent anything.
LEMMA ReturnToCaller ==
    ASSUME IInv, NEW c \in Calls, NEW r \in {"ok", "err", "dropped", "timeout", "argument"},
           caller[c] = "idle" <=> r = "argument", caller[c] # "done",
           r \in {"ok", "err", "dropped"} => reply[c] = r,
           caller' = [caller EXCEPT ![c] = "done"], result' = [result EXCEPT ![c] = r],
           mode' = mode, UNCHANGED <<entry, bind, ask, msg, pc, arcs, reply, workVars>>
    PROVE  IInv'
<1>0. Types /\ CallInv(c)
  BY DEF IInv
<1>1. /\ entry' = entry /\ bind' = bind /\ ask' = ask /\ msg' = msg
      /\ pc' = pc /\ arcs' = arcs /\ reply' = reply
      /\ task' = task /\ kernel' = kernel /\ stream' = stream
  BY DEF workVars
<1>2. caller'[c] = "done" /\ result'[c] = r
  BY <1>0 DEF Types
<1>3. /\ EntryOf(c)' = EntryOf(c) /\ RequestOf(c)' = RequestOf(c)
      /\ Program(c)' = Program(c) /\ Work(c)' = Work(c)
      /\ \A i \in 1 .. MaxAsks : LaunchOf(<<c, i>>)' = LaunchOf(<<c, i>>)
  BY <1>1, SameNames
<1>4. Types'
  <2>1. /\ caller' \in [Calls -> {"idle", "waiting", "done"}]
        /\ result' \in [Calls -> {"none", "ok", "err", "dropped", "timeout", "argument"}]
    BY <1>0 DEF Types
  <2> QED
    BY <1>0, <1>1, <2>1 DEF Types
<1>5. StreamInv'
  BY <1>1 DEF IInv, StreamInv
<1>6. CallInv(c)'
  <2>1. CallerInv(c)'
    BY <1>0, <1>1, <1>2 DEF CallInv, CallerInv
  <2>2. RequestInv(c)'
    <3>1. msg[c] = "none" => r = "argument"
      BY <1>0 DEF CallInv, CallerInv, RequestInv
    <3> QED
      BY <3>1, <1>0, <1>1, <1>2, <1>3 DEF CallInv, RequestInv
  <2>3. HandlerInv(c)'
    BY <1>0, <1>1, <1>3 DEF CallInv, HandlerInv
  <2>4. entry[c] # "idle" => ReplyInv(c)'
    <3>1. LaunchOf(Work(c))' = LaunchOf(Work(c))
      BY <1>1, <1>3 DEF LaunchOf, EntryOf
    <3> QED
      BY <3>1, <1>0, <1>1, <1>3 DEF CallInv, ReplyInv
  <2>5. ASSUME entry[c] # "idle", NEW i \in 1 .. Len(EntryOf(c).asks) PROVE WorkInv(c, i)'
    <3>1. WorkInv(c, i) /\ i \in 1 .. MaxAsks
      BY <2>5, <1>0, AskFacts DEF CallInv
    <3>2. LaunchOf(<<c, i>>)' = LaunchOf(<<c, i>>)
      BY <3>1, <1>3
    <3>4. NotYet(c, i)' = NotYet(c, i)
      BY <1>1 DEF NotYet
    <3> QED
      BY <3>1, <3>2, <3>4, <1>1 DEF WorkInv
  <2> QED
    BY <1>1, <1>3, <2>1, <2>2, <2>3, <2>4, <2>5 DEF CallInv
<1>7. ASSUME NEW d \in Calls, d # c PROVE Same(d)
  BY <1>0, <1>1, <1>7 DEF Types, Same
<1> QED
  BY <1>1, <1>4, <1>5, <1>6, <1>7, OtherCalls

LEMMA CallerStep ==
    ASSUME IInv, NEW c \in Calls,
           Submit(c) \/ RaiseArgument(c) \/ AskNext(c) \/ Deliver(c) \/ GiveUp(c)
    PROVE  IInv'
<1>0. Types /\ CallInv(c) /\ CallerInv(c) /\ RequestInv(c)
  BY DEF IInv, CallInv
<1>1. CASE Submit(c)
  <2>1. /\ caller[c] = "idle" /\ entry[c] # "idle" /\ Tell(c)
        /\ caller' = [caller EXCEPT ![c] = "waiting"]
        /\ mode' = mode /\ entry' = entry /\ ask' = ask /\ pc' = pc
        /\ UNCHANGED <<result, arcs, workVars>>
    BY <1>1 DEF Submit, envVars
  <2>2. PICK f : bind' = [bind EXCEPT ![c] = f]
    BY <1>1 DEF Submit
  <2>3. bind' = [d \in Calls |-> bind'[d]] /\ \A d \in Calls : d # c => bind'[d] = bind[d]
    BY <2>2, <1>0 DEF Types
  <2>4. ask[c] = 1 /\ pc[c] = 1
    BY <2>1, <1>0 DEF CallerInv, RequestInv
  <2>5. ask' = [ask EXCEPT ![c] = 1] /\ pc' = [pc EXCEPT ![c] = 1]
    BY <2>1, <2>4, <1>0 DEF Types
  <2> QED
    BY <2>1, <2>3, <2>5, TellStep
<1>2. CASE RaiseArgument(c)
  BY <1>2, ReturnToCaller DEF RaiseArgument, envVars
<1>3. CASE AskNext(c)
  <2>1. /\ caller[c] = "waiting" /\ More(c) /\ Tell(c)
        /\ mode' = mode /\ entry' = entry /\ bind' = bind /\ caller' = caller
        /\ ask' = [ask EXCEPT ![c] = ask[c] + 1] /\ pc' = [pc EXCEPT ![c] = 1]
        /\ UNCHANGED <<result, arcs, workVars>>
    BY <1>3 DEF AskNext, envVars
  <2>2. caller' = [caller EXCEPT ![c] = "waiting"] /\ bind' = [d \in Calls |-> bind'[d]]
    BY <2>1, <1>0 DEF Types
  <2>3. entry[c] # "idle"
    BY <2>1, <1>0 DEF CallerInv, RequestInv
  <2> QED
    BY <2>1, <2>2, <2>3, TellStep
<1>4. CASE Deliver(c)
  <2>1. reply[c] \in {"ok", "err", "dropped"}
    BY <1>0, <1>4 DEF Deliver, Types, Replies
  <2> QED
    BY <1>4, <2>1, ReturnToCaller DEF Deliver, envVars
<1>5. CASE GiveUp(c)
  BY <1>5, ReturnToCaller DEF GiveUp, envVars
<1> QED
  BY <1>1, <1>2, <1>3, <1>4, <1>5

-----------------------------------------------------------------------------
(* The mailbox *)

\* An actor takes a request out of its mailbox, or is gone before it does.
LEMMA MailboxCall ==
    ASSUME IInv, NEW c \in Calls, msg[c] = "mailbox",
           \/ msg'[c] = "handling" /\ reply'[c] = reply[c]
           \/ msg'[c] = "gone" /\ reply'[c] = "dropped",
           mode' = mode, UNCHANGED <<callVars, pc, arcs, workVars>>
    PROVE  CallInv(c)'
<1>0. Types /\ CallInv(c) /\ CallerInv(c) /\ RequestInv(c) /\ entry[c] # "idle" /\ ReplyInv(c)
  BY DEF IInv, CallInv, RequestInv
<1>1. /\ entry' = entry /\ bind' = bind /\ caller' = caller
      /\ result' = result /\ ask' = ask /\ pc' = pc /\ arcs' = arcs
      /\ task' = task /\ kernel' = kernel
  BY DEF callVars, workVars
<1>2. /\ EntryOf(c)' = EntryOf(c) /\ RequestOf(c)' = RequestOf(c)
      /\ Program(c)' = Program(c) /\ Work(c)' = Work(c)
      /\ \A i \in 1 .. MaxAsks : LaunchOf(<<c, i>>)' = LaunchOf(<<c, i>>)
  BY <1>1, SameNames
<1>3. /\ reply[c] = "none" /\ pc[c] = 1 /\ ask[c] \in 1 .. Len(EntryOf(c).asks)
      /\ ask[c] \in 1 .. MaxAsks /\ caller[c] # "idle" /\ result[c] # "argument"
  BY <1>0 DEF RequestInv, CallerInv, Types
<1>4. Len(Program(c)) \in Nat \ {0}
  BY <1>0, ProgramFacts DEF EndsOnce
<1>5. CallerInv(c)'
  BY <1>0, <1>1, <1>3 DEF CallerInv
<1>6. RequestInv(c)'
  BY <1>0, <1>1, <1>2, <1>3, <1>4 DEF RequestInv
<1>7. HandlerInv(c)'
  BY <1>1, <1>2, <1>3, <1>4 DEF HandlerInv
<1>8. WorkInv(c, ask[c])
  BY <1>0, <1>3 DEF CallInv
<1>9. kernel[Work(c)] = "none"
  BY <1>8 DEF WorkInv, NotYet, Work
<1>10. ReplyInv(c)'
  BY <1>1, <1>2, <1>3, <1>9 DEF ReplyInv
<1>11. ASSUME NEW i \in 1 .. Len(EntryOf(c).asks) PROVE WorkInv(c, i)'
  <2>1. WorkInv(c, i) /\ i \in 1 .. MaxAsks
    BY <1>0, AskFacts DEF CallInv
  <2>2. LaunchOf(<<c, i>>)' = LaunchOf(<<c, i>>)
    BY <2>1, <1>2
  <2>4. NotYet(c, i)' => NotYet(c, i)
    BY <1>1 DEF NotYet
  <2>5. task[<<c, i>>] # "awaiting"
    BY <2>1 DEF WorkInv, NotYet
  <2> QED
    BY <2>1, <2>2, <2>4, <2>5, <1>1 DEF WorkInv
<1> QED
  BY <1>1, <1>2, <1>5, <1>6, <1>7, <1>10, <1>11 DEF CallInv

LEMMA ReceiveInv ==
    ASSUME IInv, NEW c \in Calls, Receive(c)
    PROVE  IInv'
<1>0. Types
  BY DEF IInv
<1>1. /\ mode' = mode /\ entry' = entry /\ bind' = bind /\ caller' = caller
      /\ result' = result /\ ask' = ask /\ pc' = pc /\ arcs' = arcs /\ reply' = reply
      /\ task' = task /\ kernel' = kernel /\ stream' = stream
      /\ msg[c] = "mailbox" /\ msg' = [msg EXCEPT ![c] = "handling"]
  BY DEF Receive, envVars, callVars, workVars
<1>2. msg'[c] = "handling" /\ \A d \in Calls : d # c => msg'[d] = msg[d]
  BY <1>0, <1>1 DEF Types
<1>3. Types'
  <2>1. msg' \in [Calls -> {"none", "mailbox", "handling", "gone"}]
    BY <1>0, <1>1 DEF Types
  <2> QED
    BY <1>0, <1>1, <2>1 DEF Types
<1>4. StreamInv'
  BY <1>1 DEF IInv, StreamInv
<1>5. CallInv(c)'
  BY <1>1, <1>2, MailboxCall DEF callVars, workVars
<1>6. ASSUME NEW d \in Calls, d # c PROVE Same(d)
  BY <1>1, <1>2, <1>6 DEF Same
<1> QED
  BY <1>1, <1>3, <1>4, <1>5, <1>6, OtherCalls

LEMMA StopInv ==
    ASSUME IInv, Stop
    PROVE  IInv'
<1>0. Types
  BY DEF IInv
<1>1. /\ mode' = mode /\ entry' = entry /\ bind' = bind /\ caller' = caller
      /\ result' = result /\ ask' = ask /\ pc' = pc /\ arcs' = arcs
      /\ task' = task /\ kernel' = kernel /\ stream' = stream
      /\ msg' = [c \in Calls |-> IF msg[c] = "mailbox" THEN "gone" ELSE msg[c]]
      /\ reply' = [c \in Calls |-> IF msg[c] = "mailbox" THEN "dropped" ELSE reply[c]]
  BY DEF Stop, callVars, workVars
<1>2. Types'
  <2>1. /\ msg' \in [Calls -> {"none", "mailbox", "handling", "gone"}]
        /\ reply' \in [Calls -> Replies]
    BY <1>0, <1>1 DEF Types, Replies
  <2> QED
    BY <1>0, <1>1, <2>1 DEF Types
<1>3. StreamInv'
  BY <1>1 DEF IInv, StreamInv
<1>4. ASSUME NEW c \in Calls PROVE CallInv(c)'
  <2>1. CASE msg[c] = "mailbox"
    <3>1. msg'[c] = "gone" /\ reply'[c] = "dropped"
      BY <1>1, <2>1
    <3> QED
      BY <1>1, <2>1, <3>1, MailboxCall DEF callVars, workVars
  <2>2. CASE msg[c] # "mailbox"
    <3>1. Same(c)
      BY <1>1, <2>2 DEF Same
    <3> QED
      BY <1>1, <3>1, SameCall DEF IInv
  <2> QED
    BY <2>1, <2>2
<1> QED
  BY <1>2, <1>3, <1>4 DEF IInv

-----------------------------------------------------------------------------
(* The device and the completion tasks *)

\* Only a request some entry makes has a task or a kernel.
TaskInv ==
    \A c \in Calls : \A i \in 1 .. MaxAsks :
        task[<<c, i>>] # "none" \/ kernel[<<c, i>>] # "none" => entry[c] # "idle" /\ i \in 1 .. Len(EntryOf(c).asks)

LEMMA ExecuteInv ==
    ASSUME IInv, Execute
    PROVE  IInv'
<1> DEFINE w == Head(stream)
<1>0. Types
  BY DEF IInv
<1>1. /\ mode' = mode /\ entry' = entry /\ bind' = bind /\ caller' = caller
      /\ result' = result /\ ask' = ask /\ pc' = pc /\ arcs' = arcs /\ msg' = msg /\ reply' = reply
      /\ task' = task /\ kernel' = [kernel EXCEPT ![w] = "executed"] /\ stream' = Tail(stream)
      /\ stream # <<>>
  BY DEF Execute, envVars, callVars
<1>2. stream \in Seq(Works) /\ Len(stream) \in Nat /\ Len(stream) # 0
  BY <1>0, <1>1 DEF Types
<1>3. /\ w \in Works /\ w = stream[1] /\ Len(stream') = Len(stream) - 1
      /\ \A i \in 1 .. Len(stream') : stream'[i] = stream[i + 1] /\ stream[i + 1] \in Works
  BY <1>1, <1>2
<1>4. kernel[w] # "none"
  BY <1>2, <1>3 DEF IInv, StreamInv
<1> HIDE DEF w
<1>5. \A x \in Works : kernel'[x] = IF x = w THEN "executed" ELSE kernel[x]
  BY <1>0, <1>1, <1>3 DEF Types
<1>6. Types'
  <2>1. kernel' \in [Works -> {"none", "queued", "executed"}] /\ stream' \in Seq(Works)
    BY <1>0, <1>1, <1>2, <1>3 DEF Types
  <2> QED
    BY <1>0, <1>1, <2>1 DEF Types
<1>7. StreamInv'
  <2> SUFFICES ASSUME NEW i \in 1 .. Len(stream') PROVE kernel'[stream'[i]] # "none"
    BY DEF StreamInv
  <2>1. i + 1 \in 1 .. Len(stream) /\ stream'[i] = stream[i + 1] /\ stream[i + 1] \in Works
    BY <1>2, <1>3
  <2>2. kernel[stream[i + 1]] # "none"
    BY <2>1 DEF IInv, StreamInv
  <2> QED
    BY <2>1, <2>2, <1>5
<1>8. ASSUME NEW c \in Calls PROVE CallInv(c)'
  <2>0. CallInv(c)
    BY DEF IInv
  <2>1. /\ EntryOf(c)' = EntryOf(c) /\ RequestOf(c)' = RequestOf(c)
        /\ Program(c)' = Program(c) /\ Work(c)' = Work(c)
        /\ \A i \in 1 .. MaxAsks : LaunchOf(<<c, i>>)' = LaunchOf(<<c, i>>)
    BY <1>1, SameNames
  <2>2. CallerInv(c)'
    BY <1>1, <2>0 DEF CallInv, CallerInv
  <2>3. RequestInv(c)'
    BY <1>1, <2>0, <2>1 DEF CallInv, RequestInv
  <2>4. HandlerInv(c)'
    BY <1>1, <2>0, <2>1 DEF CallInv, HandlerInv
  <2>5. ASSUME entry[c] # "idle" PROVE ReplyInv(c)'
    <3>1. ReplyInv(c) /\ LaunchOf(Work(c))' = LaunchOf(Work(c))
      BY <2>0, <2>5, <1>1, <2>1 DEF CallInv, LaunchOf, EntryOf
    <3>2. Work(c) \in Works
      BY <1>0 DEF Types, Work, Works
    <3>3. kernel'[Work(c)] = IF Work(c) = w THEN "executed" ELSE kernel[Work(c)]
      BY <3>2, <1>5
    <3> QED
      BY <3>1, <3>3, <1>1, <1>4, <2>1 DEF ReplyInv
  <2>6. ASSUME entry[c] # "idle", NEW i \in 1 .. Len(EntryOf(c).asks) PROVE WorkInv(c, i)'
    <3>1. WorkInv(c, i) /\ i \in 1 .. MaxAsks
      BY <2>0, <2>6, <1>0, AskFacts DEF CallInv
    <3>2. LaunchOf(<<c, i>>)' = LaunchOf(<<c, i>>)
      BY <3>1, <2>1
    <3>4. NotYet(c, i)' = NotYet(c, i)
      BY <1>1 DEF NotYet
    <3>5. <<c, i>> \in Works
      BY <3>1 DEF Works
    <3>6. kernel'[<<c, i>>] = IF <<c, i>> = w THEN "executed" ELSE kernel[<<c, i>>]
      BY <3>5, <1>5
    <3>7. /\ task'[<<c, i>>] = task[<<c, i>>] /\ arcs'[<<c, i>>] = arcs[<<c, i>>]
          /\ ask'[c] = ask[c] /\ reply'[c] = reply[c]
      BY <1>1
    <3>8. CASE <<c, i>> = w
      <4>1. kernel'[<<c, i>>] = "executed" /\ kernel[<<c, i>>] # "none"
        BY <3>6, <3>8, <1>4
      <4> QED
        BY <3>1, <3>2, <3>4, <3>7, <4>1 DEF WorkInv
    <3>9. CASE <<c, i>> # w
      <4>1. kernel'[<<c, i>>] = kernel[<<c, i>>]
        BY <3>6, <3>9
      <4> QED
        BY <3>1, <3>2, <3>4, <3>7, <4>1 DEF WorkInv
    <3> QED
      BY <3>8, <3>9
  <2> QED
    BY <1>1, <2>1, <2>2, <2>3, <2>4, <2>5, <2>6 DEF CallInv
<1> QED
  BY <1>6, <1>7, <1>8 DEF IInv

\* The task of the j-th request of c completes, fails, forwards or lets go: it
\* becomes t, keeps os and leaves r on the channel.
LEMMA TaskStep ==
    ASSUME IInv, NEW c \in Calls, NEW j \in 1 .. MaxAsks, entry[c] # "idle",
           j \in 1 .. Len(EntryOf(c).asks), task[<<c, j>>] # "none",
           NEW t \in {"answered", "failed"}, task[<<c, j>>] = "failed" => t = "failed",
           t = "answered" => kernel[<<c, j>>] = "executed",
           NEW os, IsFiniteSet(os), NEW r \in Replies,
           r # reply[c] =>
                /\ j = ask[c] /\ reply[c] = "none"
                /\ (r = "ok" /\ kernel[<<c, j>>] = "executed") \/ (r = "err" /\ t = "failed"),
           task' = [task EXCEPT ![<<c, j>>] = t], arcs' = [arcs EXCEPT ![<<c, j>>] = os],
           reply' = [reply EXCEPT ![c] = r],
           UNCHANGED <<mode, callVars, msg, pc, kernel, stream>>
    PROVE  IInv'
<1>0. Types /\ CallInv(c) /\ CallerInv(c) /\ RequestInv(c) /\ HandlerInv(c) /\ ReplyInv(c)
  BY DEF IInv, CallInv
<1>1. /\ mode' = mode /\ entry' = entry /\ bind' = bind /\ caller' = caller
      /\ result' = result /\ ask' = ask /\ pc' = pc /\ msg' = msg
      /\ kernel' = kernel /\ stream' = stream
  BY DEF callVars
<1>2. /\ EntryOf(c)' = EntryOf(c) /\ RequestOf(c)' = RequestOf(c)
      /\ Program(c)' = Program(c) /\ Work(c)' = Work(c)
      /\ \A i \in 1 .. MaxAsks : LaunchOf(<<c, i>>)' = LaunchOf(<<c, i>>)
  BY <1>1, SameNames
<1>3. reply'[c] = r /\ \A d \in Calls : d # c => reply'[d] = reply[d]
  BY <1>0 DEF Types
<1>4. <<c, j>> \in Works
  BY DEF Works
<1>5. \A x \in Works : /\ task'[x] = IF x = <<c, j>> THEN t ELSE task[x]
                       /\ arcs'[x] = IF x = <<c, j>> THEN os ELSE arcs[x]
  BY <1>0, <1>4 DEF Types
<1>6. WorkInv(c, j) /\ ~NotYet(c, j)
  BY <1>0 DEF CallInv, WorkInv
<1>7. Types'
  <2>1. task' \in [Works -> {"none", "awaiting", "answered", "failed", "over"}]
    BY <1>0 DEF Types
  <2>2. reply' \in [Calls -> Replies]
    BY <1>0 DEF Types
  <2>3. arcs' = [x \in Works |-> arcs'[x]]
    BY <1>0 DEF Types
  <2>4. \A x \in Works : IsFiniteSet(arcs'[x])
    BY <1>0, <1>5 DEF Types
  <2> QED
    BY <1>0, <1>1, <2>1, <2>2, <2>3, <2>4 DEF Types
<1>8. StreamInv'
  BY <1>1 DEF IInv, StreamInv
<1>9. CallInv(c)'
  <2>0. Work(c) \in Works /\ (Work(c) = <<c, j>> <=> j = ask[c]) /\ ask[c] \in 1 .. MaxAsks
    BY <1>0 DEF Types, Work, Works
  <2>1. CallerInv(c)'
    BY <1>0, <1>1, <1>3 DEF CallerInv
  <2>2. RequestInv(c)'
    BY <1>0, <1>1, <1>2, <1>3, <1>6 DEF RequestInv, NotYet
  <2>3. HandlerInv(c)'
    <3>1. ASSUME msg[c] = "handling" PROVE arcs'[Work(c)] = arcs[Work(c)]
      BY <3>1, <1>5, <1>6, <2>0 DEF NotYet
    <3> QED
      BY <3>1, <1>0, <1>1, <1>2 DEF HandlerInv
  <2>4. ReplyInv(c)'
    <3>1. LaunchOf(Work(c))' = LaunchOf(Work(c))
      BY <1>1, <1>2 DEF LaunchOf, EntryOf
    <3>2. task'[Work(c)] = IF j = ask[c] THEN t ELSE task[Work(c)]
      BY <1>5, <2>0
    <3>3. CASE r = reply[c]
      BY <3>1, <3>2, <3>3, <1>0, <1>1, <1>2, <1>3, <2>0 DEF ReplyInv
    <3>4. CASE r # reply[c]
      BY <3>1, <3>2, <3>4, <1>1, <1>2, <1>3, <2>0 DEF ReplyInv
    <3> QED
      BY <3>3, <3>4
  <2>5. ASSUME NEW i \in 1 .. Len(EntryOf(c).asks) PROVE WorkInv(c, i)'
    <3>1. WorkInv(c, i) /\ i \in 1 .. MaxAsks
      BY <1>0, AskFacts DEF CallInv
    <3>2. LaunchOf(<<c, i>>)' = LaunchOf(<<c, i>>)
      BY <3>1, <1>2
    <3>4. NotYet(c, i)' = NotYet(c, i)
      BY <1>1 DEF NotYet
    <3>5. CASE i = j
      <4>1. task'[<<c, i>>] = t
        BY <3>5, <1>4, <1>5
      <4> QED
        BY <3>1, <3>2, <3>4, <3>5, <4>1, <1>1, <1>6 DEF WorkInv
    <3>6. CASE i # j
      <4>1. <<c, i>> \in Works /\ <<c, i>> # <<c, j>>
        BY <3>1, <3>6 DEF Works
      <4>2. task'[<<c, i>>] = task[<<c, i>>] /\ arcs'[<<c, i>>] = arcs[<<c, i>>]
        BY <4>1, <1>5
      <4>3. task[<<c, i>>] = "awaiting" => i = ask[c] /\ reply'[c] = reply[c]
        BY <3>1, <3>6, <1>3 DEF WorkInv
      <4> QED
        BY <3>1, <3>2, <3>4, <4>2, <4>3, <1>1 DEF WorkInv
    <3> QED
      BY <3>5, <3>6
  <2> QED
    BY <1>2, <2>1, <2>2, <2>3, <2>4, <2>5 DEF CallInv
<1>10. ASSUME NEW d \in Calls, d # c PROVE Same(d)
  <2>1. ASSUME NEW i \in 1 .. MaxAsks
        PROVE  task'[<<d, i>>] = task[<<d, i>>] /\ arcs'[<<d, i>>] = arcs[<<d, i>>]
    <3>1. <<d, i>> \in Works /\ <<d, i>> # <<c, j>>
      BY <1>10 DEF Works
    <3> QED
      BY <3>1, <1>5
  <2> QED
    BY <1>1, <1>3, <1>10, <2>1 DEF Same
<1> QED
  BY <1>1, <1>7, <1>8, <1>9, <1>10, OtherCalls

\* Every step of a completion task.
LEMMA TasksInv ==
    ASSUME IInv, TaskInv, NEW w \in Works,
           Complete(w) \/ CompleteFails(w) \/ Forward(w) \/ Release(w)
    PROVE  IInv'
<1>1. PICK c \in Calls, j \in 1 .. MaxAsks : w = <<c, j>>
  BY DEF Works
<1>2. task[<<c, j>>] \in {"awaiting", "answered", "failed"} /\ w[1] = c
  BY <1>1 DEF Complete, CompleteFails, Forward, Release
<1>3. entry[c] # "idle" /\ j \in 1 .. Len(EntryOf(c).asks)
  BY <1>2 DEF TaskInv
<1>4. WorkInv(c, j) /\ Types
  BY <1>3 DEF IInv, CallInv
<1>5. /\ task[<<c, j>>] = "awaiting" => j = ask[c] /\ reply[c] = "none"
      /\ task[<<c, j>>] = "answered" => kernel[<<c, j>>] = "executed"
  BY <1>4 DEF WorkInv
<1>6. /\ task = [task EXCEPT ![<<c, j>>] = task[<<c, j>>]] /\ <<c, j>> \in Works
      /\ arcs = [arcs EXCEPT ![<<c, j>>] = arcs[<<c, j>>]] /\ IsFiniteSet(arcs[<<c, j>>])
      /\ reply = [reply EXCEPT ![c] = reply[c]] /\ reply[c] \in Replies
  BY <1>1, <1>4 DEF Types
<1>7. CASE Complete(w)
  <2> DEFINE r == IF LaunchOf(w).then = "forward" THEN reply[c] ELSE "ok"
  <2>1. /\ task[<<c, j>>] = "awaiting" /\ kernel[<<c, j>>] = "executed"
        /\ task' = [task EXCEPT ![<<c, j>>] = "answered"] /\ reply' = [reply EXCEPT ![c] = r]
        /\ arcs' = arcs
        /\ UNCHANGED <<mode, callVars, msg, pc, kernel, stream>>
    BY <1>1, <1>2, <1>7 DEF Complete, envVars
  <2>2. r \in Replies /\ (r # reply[c] => r = "ok")
    BY <1>6 DEF Replies
  <2>3. arcs' = [arcs EXCEPT ![<<c, j>>] = arcs[<<c, j>>]]
    BY <1>6, <2>1
  <2> HIDE DEF r
  <2> QED
    <3>1. r # reply[c] =>
                /\ j = ask[c] /\ reply[c] = "none"
                /\ (r = "ok" /\ kernel[<<c, j>>] = "executed") \/ (r = "err" /\ "answered" = "failed")
      BY <1>5, <2>1, <2>2
    <3>2. /\ task[<<c, j>>] # "none" /\ "answered" \in {"answered", "failed"}
          /\ task[<<c, j>>] = "failed" => "answered" = "failed"
          /\ "answered" = "answered" => kernel[<<c, j>>] = "executed"
      BY <1>2, <1>5, <2>1
    <3> QED
      BY <3>1, <3>2, <1>3, <1>6, <2>1, <2>2, <2>3, TaskStep
<1>8. CASE CompleteFails(w)
  <2> DEFINE r == IF LaunchOf(w).then = "forward" THEN reply[c] ELSE "err"
  <2>1. /\ task[<<c, j>>] = "awaiting"
        /\ task' = [task EXCEPT ![<<c, j>>] = "failed"] /\ reply' = [reply EXCEPT ![c] = r]
        /\ arcs' = arcs
        /\ UNCHANGED <<mode, callVars, msg, pc, kernel, stream>>
    BY <1>1, <1>2, <1>8 DEF CompleteFails, envVars
  <2>2. r \in Replies /\ (r # reply[c] => r = "err")
    BY <1>6 DEF Replies
  <2>3. arcs' = [arcs EXCEPT ![<<c, j>>] = arcs[<<c, j>>]]
    BY <1>6, <2>1
  <2> HIDE DEF r
  <2> QED
    <3>1. r # reply[c] =>
                /\ j = ask[c] /\ reply[c] = "none"
                /\ (r = "ok" /\ kernel[<<c, j>>] = "executed") \/ (r = "err" /\ "failed" = "failed")
      BY <1>5, <2>1, <2>2
    <3>2. /\ task[<<c, j>>] # "none" /\ "failed" \in {"answered", "failed"}
          /\ task[<<c, j>>] = "failed" => "failed" = "failed"
          /\ "failed" = "answered" => kernel[<<c, j>>] = "executed"
      BY <1>2, <1>5, <2>1
    <3> QED
      BY <3>1, <3>2, <1>3, <1>6, <2>1, <2>2, <2>3, TaskStep
<1>9. CASE Forward(w)
  <2>1. PICK t : t = task[<<c, j>>]
    OBVIOUS
  <2>2. PICK r : r = IF t = "answered" THEN "ok" ELSE "err"
    OBVIOUS
  <2>3. /\ t \in {"answered", "failed"} /\ w = Work(c) /\ reply[c] = "none"
        /\ task' = task /\ reply' = [reply EXCEPT ![c] = r] /\ arcs' = arcs
        /\ UNCHANGED <<mode, callVars, msg, pc, kernel, stream>>
    BY <1>1, <1>2, <1>9, <2>1, <2>2 DEF Forward, envVars, workVars
  <2>4. r \in Replies /\ ((r = "ok" /\ t = "answered") \/ (r = "err" /\ t = "failed"))
    BY <2>2, <2>3 DEF Replies
  <2>5. /\ arcs' = [arcs EXCEPT ![<<c, j>>] = arcs[<<c, j>>]]
        /\ task' = [task EXCEPT ![<<c, j>>] = t]
    BY <1>6, <2>1, <2>3
  <2>6. r # reply[c] =>
            /\ j = ask[c] /\ reply[c] = "none"
            /\ (r = "ok" /\ kernel[<<c, j>>] = "executed") \/ (r = "err" /\ t = "failed")
    BY <1>1, <1>5, <2>1, <2>3, <2>4 DEF Work
  <2>7. /\ task[<<c, j>>] # "none" /\ (task[<<c, j>>] = "failed" => t = "failed")
        /\ t = "answered" => kernel[<<c, j>>] = "executed"
    BY <1>2, <1>5, <2>1
  <2> QED
    <3>1. /\ t \in {"answered", "failed"} /\ r \in Replies /\ IsFiniteSet(arcs[<<c, j>>])
          /\ reply' = [reply EXCEPT ![c] = r]
          /\ UNCHANGED <<mode, callVars, msg, pc, kernel, stream>>
      BY <1>6, <2>3, <2>4
    <3> QED
      BY <1>3, <2>5, <2>6, <2>7, <3>1, TaskStep
<1>10. CASE Release(w)
  <2>1. PICK t : t = task[<<c, j>>]
    OBVIOUS
  <2>2. PICK r : r = reply[c]
    OBVIOUS
  <2>3. /\ t \in {"answered", "failed"}
        /\ task' = task /\ reply' = reply /\ arcs' = [arcs EXCEPT ![<<c, j>>] = {}]
        /\ UNCHANGED <<mode, callVars, msg, pc, kernel, stream>>
    BY <1>1, <1>10, <2>1 DEF Release, envVars, workVars
  <2>4. reply' = [reply EXCEPT ![c] = r] /\ task' = [task EXCEPT ![<<c, j>>] = t] /\ r \in Replies
    BY <1>6, <2>1, <2>2, <2>3
  <2>5. /\ task[<<c, j>>] # "none" /\ (task[<<c, j>>] = "failed" => t = "failed")
        /\ t = "answered" => kernel[<<c, j>>] = "executed"
    BY <1>2, <1>5, <2>1
  <2>6. IsFiniteSet({})
    BY FS_EmptySet
  <2> QED
    <3>1. /\ t \in {"answered", "failed"} /\ arcs' = [arcs EXCEPT ![<<c, j>>] = {}]
          /\ UNCHANGED <<mode, callVars, msg, pc, kernel, stream>>
      BY <2>3
    <3> QED
      BY <1>3, <2>2, <2>4, <2>5, <2>6, <3>1, TaskStep
<1> QED
  BY <1>7, <1>8, <1>9, <1>10

\* A task comes from a launch of the outstanding request.
LEMMA TaskInvStep ==
    ASSUME IInv, TaskInv, [Next]_vars
    PROVE  TaskInv'
<1>0. Types
  BY DEF IInv
<1>1. CASE \E c \in Calls : LaunchStep(c)
  <2>1. PICK c \in Calls : LaunchStep(c)
    BY <1>1
  <2>2. msg[c] = "handling" /\ entry' = entry
    BY <2>1 DEF LaunchStep, Handling, callVars
  <2>3. /\ entry[c] # "idle" /\ ask[c] \in 1 .. Len(EntryOf(c).asks)
        /\ Work(c) = <<c, ask[c]>> /\ Work(c) \in Works
    BY <2>2, HandlingFacts
  <2>4. PICK t : task' = [task EXCEPT ![Work(c)] = t] /\ kernel' = [kernel EXCEPT ![Work(c)] = "queued"]
    BY <2>1 DEF LaunchStep
  <2> SUFFICES ASSUME NEW d \in Calls, NEW i \in 1 .. MaxAsks,
                      task'[<<d, i>>] # "none" \/ kernel'[<<d, i>>] # "none"
               PROVE  entry[d] # "idle" /\ i \in 1 .. Len(EntryOf(d).asks)
    BY <2>2 DEF TaskInv, EntryOf
  <2>5. <<d, i>> \in Works
    BY DEF Works
  <2>6. CASE <<d, i>> = Work(c)
    BY <2>3, <2>6
  <2>7. CASE <<d, i>> # Work(c)
    <3>1. task[<<d, i>>] # "none" \/ kernel[<<d, i>>] # "none"
      BY <2>3, <2>4, <2>5, <2>7, <1>0 DEF Types
    <3> QED
      BY <3>1 DEF TaskInv
  <2> QED
    BY <2>6, <2>7
<1>2. CASE \E w \in Works : Complete(w) \/ CompleteFails(w)
  <2>1. PICK w \in Works : Complete(w) \/ CompleteFails(w)
    BY <1>2
  <2>2. task[w] = "awaiting" /\ entry' = entry /\ kernel' = kernel
    BY <2>1 DEF Complete, CompleteFails, callVars
  <2>3. PICK t : task' = [task EXCEPT ![w] = t]
    BY <2>1 DEF Complete, CompleteFails
  <2>4. \A x \in Works : task'[x] # "none" => task[x] # "none"
    BY <2>2, <2>3, <1>0 DEF Types
  <2> QED
    BY <2>2, <2>4 DEF TaskInv, EntryOf, Works
<1>4. CASE Execute
  <2>1. /\ entry' = entry /\ task' = task /\ stream # <<>>
        /\ kernel' = [kernel EXCEPT ![Head(stream)] = "executed"]
    BY <1>4 DEF Execute, callVars
  <2>2. stream \in Seq(Works) /\ Len(stream) \in Nat /\ Len(stream) # 0 /\ Head(stream) = stream[1]
    BY <2>1, <1>0 DEF Types
  <2>3. kernel[Head(stream)] # "none"
    BY <2>2 DEF IInv, StreamInv
  <2>4. \A x \in Works : kernel'[x] # "none" => kernel[x] # "none"
    BY <2>1, <2>3, <1>0 DEF Types
  <2> QED
    BY <2>1, <2>4 DEF TaskInv, EntryOf, Works
<1>3. CASE ~(\E c \in Calls : LaunchStep(c)) /\ ~(\E w \in Works : Complete(w) \/ CompleteFails(w)) /\ ~Execute
  <2>1. entry' = entry /\ task' = task /\ kernel' = kernel
    <3>1. ASSUME NEW c \in Calls,
                 Submit(c) \/ RaiseArgument(c) \/ AskNext(c) \/ Deliver(c) \/ GiveUp(c) \/ Receive(c)
          PROVE  entry' = entry /\ task' = task /\ kernel' = kernel
      BY <3>1 DEF Submit, RaiseArgument, AskNext, Deliver, GiveUp, Receive, callVars, workVars
    <3>2. ASSUME NEW c \in Calls, Handle(c) PROVE entry' = entry /\ task' = task /\ kernel' = kernel
      BY <3>2, <1>3
      DEF Handle, AccessStep, TakeStep, PrepareStep, RecordStep, AnswerStep, LaunchFails, callVars, workVars
    <3>3. ASSUME NEW w \in Works, Forward(w) \/ Release(w) PROVE entry' = entry /\ task' = task /\ kernel' = kernel
      BY <3>3 DEF Forward, Release, callVars, workVars
    <3>4. ASSUME (\E b \in Buffers : DropHandle(b)) \/ Invalidate \/ ContextFaults \/ Stop
          PROVE  entry' = entry /\ task' = task /\ kernel' = kernel
      BY <3>4 DEF DropHandle, Invalidate, ContextFaults, Stop, callVars, workVars
    <3>5. CASE UNCHANGED vars
      BY <3>5 DEF vars, callVars, workVars
    <3>6. CASE Next
      BY <3>1, <3>2, <3>3, <3>4, <3>6, <1>3 DEF Next
    <3> QED
      BY <3>5, <3>6
  <2> QED
    BY <2>1 DEF TaskInv, EntryOf
<1> QED
  BY <1>1, <1>2, <1>3, <1>4

\* Handles, the generation, the context's health and stuttering say nothing about a call.
LEMMA QuietStep ==
    ASSUME IInv, (\E b \in Buffers : DropHandle(b)) \/ Invalidate \/ ContextFaults \/ UNCHANGED vars
    PROVE  IInv'
<1>1. /\ mode' = mode /\ entry' = entry /\ bind' = bind /\ caller' = caller
      /\ result' = result /\ ask' = ask /\ pc' = pc /\ arcs' = arcs /\ msg' = msg /\ reply' = reply
      /\ task' = task /\ kernel' = kernel /\ stream' = stream
  BY DEF DropHandle, Invalidate, ContextFaults, vars, envVars, callVars, workVars
<1>2. Types' /\ StreamInv'
  BY <1>1 DEF IInv, Types, StreamInv
<1>3. ASSUME NEW c \in Calls PROVE CallInv(c)'
  <2>1. Same(c)
    BY <1>1 DEF Same
  <2> QED
    BY <2>1, SameCall DEF IInv
<1> QED
  BY <1>2, <1>3 DEF IInv

LEMMA InitInv == Init => IInv /\ TaskInv
<1> SUFFICES ASSUME Init PROVE IInv /\ TaskInv
  OBVIOUS
<1>1. Types
  <2>1. <<>> \in Seq(Works)
    OBVIOUS
  <2>2. entry \in [Calls -> DOMAIN Entries \cup {"idle"}]
    BY WorkloadsAssumption DEF Init
  <2>3. 1 \in 1 .. MaxAsks
    BY MaxAsksAssumption
  <2>4. \A w \in Works : IsFiniteSet(arcs[w])
    BY FS_EmptySet DEF Init
  <2>5. stream \in Seq(Works)
    BY <2>1 DEF Init
  <2> QED
    BY <2>2, <2>3, <2>4, <2>5 DEF Init, Types, Replies
<1>2. StreamInv
  BY DEF Init, StreamInv
<1>3. \A c \in Calls : \A i \in 1 .. MaxAsks :
        <<c, i>> \in Works /\ task[<<c, i>>] = "none" /\ kernel[<<c, i>>] = "none"
  BY DEF Init, Works
<1>4. TaskInv
  BY <1>3 DEF TaskInv
<1>5. ASSUME NEW c \in Calls PROVE CallInv(c)
  <2>0. /\ caller[c] = "idle" /\ result[c] = "none" /\ ask[c] = 1 /\ msg[c] = "none"
        /\ pc[c] = 1 /\ reply[c] = "none"
    BY DEF Init
  <2>1. CallerInv(c)
    BY <2>0 DEF CallerInv
  <2>2. RequestInv(c)
    <3>1. entry[c] # "idle" => 1 \in 1 .. Len(EntryOf(c).asks)
      <4>1. entry[c] # "idle" => entry[c] \in DOMAIN Entries
        BY <1>1 DEF Types
      <4>2. entry[c] # "idle" => Len(EntryOf(c).asks) \in 1 .. MaxAsks
        BY <4>1, AsksAssumption DEF EntryOf
      <4> QED
        BY <4>2, MaxAsksAssumption
    <3> QED
      BY <2>0, <3>1 DEF RequestInv
  <2>3. HandlerInv(c)
    BY <2>0 DEF HandlerInv
  <2>4. ReplyInv(c)
    BY <2>0 DEF ReplyInv
  <2>5. ASSUME entry[c] # "idle", NEW i \in 1 .. Len(EntryOf(c).asks) PROVE WorkInv(c, i)
    <3>1. i \in 1 .. MaxAsks /\ i \in Nat
      BY <2>5, <1>1, AskFacts
    <3>2. task[<<c, i>>] = "none" /\ kernel[<<c, i>>] = "none"
      BY <3>1, <1>3
    <3> QED
      BY <3>1, <3>2, <2>0 DEF WorkInv
  <2> QED
    BY <2>1, <2>2, <2>3, <2>4, <2>5 DEF CallInv
<1> QED
  BY <1>1, <1>2, <1>4, <1>5 DEF IInv

LEMMA NextInv ==
    ASSUME IInv, TaskInv, [Next]_vars
    PROVE  IInv'
<1>1. ASSUME NEW c \in Calls,
             Submit(c) \/ RaiseArgument(c) \/ AskNext(c) \/ Deliver(c) \/ GiveUp(c)
      PROVE  IInv'
  BY <1>1, CallerStep
<1>2. ASSUME NEW c \in Calls, Receive(c) PROVE IInv'
  BY <1>2, ReceiveInv
<1>3. ASSUME NEW c \in Calls, Handle(c) PROVE IInv'
  BY <1>3, HandleInv
<1>4. ASSUME NEW w \in Works, Complete(w) \/ CompleteFails(w) \/ Forward(w) \/ Release(w) PROVE IInv'
  BY <1>4, TasksInv
<1>5. CASE (\E b \in Buffers : DropHandle(b)) \/ Invalidate \/ ContextFaults \/ UNCHANGED vars
  BY <1>5, QuietStep
<1>6. CASE Execute
  BY <1>6, ExecuteInv
<1>7. CASE Stop
  BY <1>7, StopInv
<1> QED
  BY <1>1, <1>2, <1>3, <1>4, <1>5, <1>6, <1>7 DEF Next

-----------------------------------------------------------------------------
LEMMA Invariance == Spec => [](IInv /\ TaskInv)
<1>1. Init => IInv /\ TaskInv
  BY InitInv
<1>2. (IInv /\ TaskInv) /\ [Next]_vars => (IInv /\ TaskInv)'
  BY NextInv, TaskInvStep
<1> QED
  BY <1>1, <1>2, PTL DEF Spec

LEMMA HeldFollows == IInv /\ TaskInv => HeldWhileQueued
<1> SUFFICES ASSUME IInv, TaskInv, NEW w \in Works,
                    kernel[w] = "queued", task[w] # "failed", LaunchOf(w).then # "reply",
                    NEW b \in BufferSet(w[1], LaunchOf(w).uses)
             PROVE  ~Freed(b)
  BY DEF HeldWhileQueued
<1>1. PICK c \in Calls, i \in 1 .. MaxAsks : w = <<c, i>>
  BY DEF Works
<1>2. w[1] = c /\ kernel[w] # "none"
  BY <1>1
<1>3. WorkInv(c, i)
  BY <1>1, <1>2 DEF IInv, TaskInv, CallInv
<1>4. task[w] = "awaiting"
  BY <1>1, <1>3 DEF WorkInv
<1>5. LaunchOf(w).uses \subseteq arcs[w]
  BY <1>1, <1>3, <1>4 DEF WorkInv
<1>6. PICK o \in LaunchOf(w).uses : b = bind[c][o]
  BY <1>2 DEF BufferSet
<1>7. <<w, o>> \in Clones(b)
  BY <1>2, <1>5, <1>6 DEF Clones
<1> QED
  BY <1>7 DEF Freed

LEMMA AnswerFollows == IInv => AnswerIsTrue
<1> SUFFICES ASSUME IInv, NEW c \in Calls, caller[c] = "done", entry[c] # "idle",
                    RequestOf(c).lib # "nccl"
             PROVE  /\ result[c] = "ok" =>
                        \A i \in 1 .. ask[c] :
                            Last(Requests[EntryOf(c).asks[i]].prog).do = "launch"
                                => kernel[<<c, i>>] = "executed"
                    /\ result[c] \in {"err", "dropped", "argument"} /\ task[Work(c)] # "failed"
                        => kernel[Work(c)] = "none"
  BY DEF AnswerIsTrue
<1>1. /\ Types /\ CallerInv(c) /\ RequestInv(c) /\ ReplyInv(c)
      /\ \A i \in 1 .. Len(EntryOf(c).asks) : WorkInv(c, i)
  BY DEF IInv, CallInv
<1>2. ask[c] \in 1 .. Len(EntryOf(c).asks) /\ Len(EntryOf(c).asks) \in Nat /\ ask[c] \in Nat
  BY <1>1, AskFacts DEF RequestInv
<1>3. ASSUME result[c] = "ok", NEW i \in 1 .. ask[c],
             Last(Requests[EntryOf(c).asks[i]].prog).do = "launch"
      PROVE  kernel[<<c, i>>] = "executed"
  <2>1. LaunchOf(<<c, i>>).do = "launch" /\ i \in 1 .. Len(EntryOf(c).asks)
    BY <1>2, <1>3 DEF LaunchOf
  <2>2. CASE i < ask[c]
    BY <2>1, <2>2, <1>1 DEF WorkInv
  <2>3. CASE i = ask[c]
    BY <2>1, <2>3, <1>1, <1>3 DEF ReplyInv, CallerInv, Work
  <2> QED
    BY <2>2, <2>3, <1>2
<1>4. ASSUME result[c] \in {"err", "dropped"}, task[Work(c)] # "failed"
      PROVE  kernel[Work(c)] = "none"
  BY <1>1, <1>4 DEF ReplyInv, CallerInv
<1>5. ASSUME result[c] = "argument" PROVE kernel[Work(c)] = "none"
  <2>1. msg[c] = "none" /\ WorkInv(c, ask[c])
    BY <1>1, <1>2, <1>5 DEF CallerInv
  <2> QED
    BY <2>1 DEF WorkInv, NotYet, Work
<1> QED
  BY <1>3, <1>4, <1>5

\* The memory of a kernel that run_kernel launched exists as long as it is queued,
\* unless its completion has failed; collectives are not covered.  This rests on
\* what KernelCalls assumes of the handlers: they access every operand and hand it
\* over as keep-alive.  The argument: a handler that reaches its launch has a clone
\* of every operand (HandlerInv), the clones move into the task, nobody but the task
\* drops them, and the task waits as long as the kernel is queued (WorkInv).
THEOREM HeldWhileQueuedHolds == Spec => []HeldWhileQueued
<1>1. IInv /\ TaskInv => HeldWhileQueued
  BY HeldFollows
<1> QED
  BY <1>1, Invariance, PTL

\* What a caller is told of the device is true, however many requests the method
\* makes and whatever happens to caller, actor and tasks meanwhile: the channel
\* says Ok only after the completion (ReplyInv), and a method asks on only after Ok,
\* so that the work of its earlier requests has run (WorkInv).
THEOREM AnswerIsTrueHolds == Spec => []AnswerIsTrue
<1>1. IInv => AnswerIsTrue
  BY AnswerFollows
<1> QED
  BY <1>1, Invariance, PTL

\* Arc::try_unwrap finds a count of one in no handler, whatever the callers drop:
\* the clone is unwrapped while the GpuRef it was cloned from is in the request.
\* Every routine that unwraps an operand is refused, which the run unique_writer
\* shows on an instance.
THEOREM UnwrapNeverSucceeds ==
    Spec => [](\A c \in Calls : Handling(c, "take") => StrongCount(bind[c][StepOf(c).on]) >= 2)
<1>1. IInv => \A c \in Calls : Handling(c, "take") => StrongCount(bind[c][StepOf(c).on]) >= 2
  BY TakeRefused
<1> QED
  BY <1>1, Invariance, PTL
=============================================================================
