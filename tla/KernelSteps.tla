----------------------------- MODULE KernelSteps -----------------------------
(***************************************************************************)
(* The vocabulary in which the handlers of the kernel libraries are written.*)
(*                                                                          *)
(* A handler of a library actor is straight-line code with early returns:   *)
(* validate the operands, unwrap the ones it writes, ask the library for    *)
(* plans, descriptors and workspace, launch, and leave the reply to the     *)
(* completion task.  It is modelled by the sequence of its steps; a step    *)
(* that fails replies with its error and ends the handler.                  *)
(***************************************************************************)
EXTENDS Naturals, Sequences, FiniteSets, Functions

\* GpuRef::access and a clone of the Arc it returns.
Access(o) == [do |-> "access", on |-> o]

\* Arc::try_unwrap of that clone.
Take(o) == [do |-> "take", on |-> o]

\* GpuRef::record_write with the actor's stream.
Record(o) == [do |-> "record", on |-> o]

\* The steps above for several operands, in the order of the code.
AccessAll(os) == [i \in DOMAIN os |-> Access(os[i])]
TakeAll(os)   == [i \in DOMAIN os |-> Take(os[i])]
RecordAll(os) == [i \in DOMAIN os |-> Record(os[i])]

\* A step that may fail and leaves nothing on the stream: a check of the
\* request's numbers, a plan, a descriptor, a workspace, an allocation.
Prepare == <<[do |-> "prepare"]>>

Launch(uses, writes, keep, then) ==
    <<[do |-> "launch", uses |-> uses, writes |-> writes, keep |-> keep, then |-> then]>>

\* envelope::run_kernel; the closure hands over every operand as keep-alive.
RunKernel(reads, writes) ==
    Launch(reads \cup writes, writes, reads \cup writes, "completion")

\* run_kernel with an inner channel: a second task waits for it and sends
\* the host result.
RunForHost(reads) == Launch(reads, {}, reads, "forward")

\* A call on the communicator's stream, answered as soon as it returns; the
\* operands are dropped with the handler.
CallAndReply(reads, writes) == Launch(reads \cup writes, writes, {}, "reply")

\* The shape most handlers have: every operand is validated, the written
\* ones are unwrapped and their stream recorded, `more` stands between.
Update(os, ws, more) ==
    AccessAll(os) \o TakeAll(ws) \o more \o RecordAll(ws)
    \o RunKernel(Range(os) \ Range(ws), Range(ws))

\* The handler sends an error whatever its operands are.
RefuseAll(os) == <<[do |-> "refuse", uses |-> os]>>
Refuse == RefuseAll({})

\* The handler only answers: nothing is queued, no operand is looked at.
Answer == <<[do |-> "answer"]>>

\* A handler that returns without an answer drops the sender.
HangUp == <<[do |-> "hangup"]>>

-----------------------------------------------------------------------------
\* The operands of a handler: the GpuRefs of its request.
Operands(prog) ==
    UNION {  IF prog[i].do \in {"launch", "refuse"} THEN prog[i].uses
             ELSE IF prog[i].do \in {"access", "take", "record"} THEN {prog[i].on}
             ELSE {} : i \in DOMAIN prog}

\* A request: the library whose actor handles it, the handler, and what the
\* actor does with it in mock mode (the boxed ones are dropped).
Request(lib, prog, mock) ==
    [lib |-> lib, prog |-> prog, refs |-> Operands(prog), mock |-> mock]
Boxed(lib, prog) == Request(lib, prog, HangUp)
Inline(lib, prog) == Request(lib, prog, Refuse)
=============================================================================
