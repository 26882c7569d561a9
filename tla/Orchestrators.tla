--------------------------- MODULE Orchestrators ----------------------------
(***************************************************************************)
(* The actors that put a request to other actors: MoeRouter,                *)
(* DataParallelTrainer, TensorParallelTrainer and PipelineParallelTrainer   *)
(* collect the workers' answers in a task of their own; ModelReplicaPool    *)
(* and ModelHotSwapServer forward the caller's reply channel.  Workers fail *)
(* and stop at any time; a stopped worker's reply channels are closed.      *)
(***************************************************************************)
EXTENDS Naturals, Sequences, FiniteSets, SequencesExt

CONSTANTS Workers,   \* experts, replicas, shards, stages, backends
          Teams,     \* the sequences of workers an orchestrator may be given
          Sizes,     \* the lengths of a batch or an input
          TopK,      \* MoeConfig.top_k
          MaxCalls   \* bound on the requests

\* A hot-swap server has a backend; the actors of a team are different ones.
ASSUME OrchestratorsAssumption ==
    /\ Workers # {} /\ Sizes \subseteq Nat /\ TopK \in Nat /\ MaxCalls \in Nat
    /\ \A t \in Teams : t \in Seq(Workers) /\ IsInjective(t)

VARIABLES
    calls,      \* the requests
    inbox,      \* per worker: the asks it has to answer, <<call, index>>
    up,         \* the workers that have not stopped
    team,       \* the workers of all orchestrators but the next two
    replicas,   \* DataParallelTrainer.replicas
    current,    \* ModelHotSwapServer.current
    cursor,     \* ModelReplicaPool.cursor
    counters    \* ModelReplicaPool.counters

teamVars == <<calls, inbox, up, team, replicas, current, cursor, counters>>
routing == <<team, replicas, current, cursor, counters>>

Calls      == 1 .. MaxCalls
Collectors == {"moe", "data", "tensor", "pipeline"}
Forwarders == {"round_robin", "least_loaded", "hot_swap"}
NoCall     == [state |-> "none"]

TeamInit ==
    /\ calls = [c \in Calls |-> NoCall]
    /\ inbox = [w \in Workers |-> <<>>]
    /\ up = Workers
    /\ team \in Teams /\ replicas = team
    /\ current = CHOOSE w \in Workers : TRUE
    /\ cursor = 0
    /\ counters = [w \in Workers |-> 0]

-----------------------------------------------------------------------------
(* Requests and answers. *)

Submit(c, kind, size) ==
    /\ calls[c] = NoCall /\ \A d \in 1 .. c - 1 : calls[d] # NoCall
    /\ kind \notin {"data", "tensor"} => \A s \in Sizes : size <= s   \* the size makes no difference
    /\ calls' = [calls EXCEPT ![c] = [state |-> "sent", kind |-> kind, size |-> size,
                                      asked |-> <<>>, next |-> 1, answer |-> "none"]]
    /\ UNCHANGED <<inbox, up, routing>>

\* A call that has failed drops its receivers: later answers find nobody.
Answered(call, r) == [call EXCEPT !.state = "done", !.answer = r, !.next = 1,
                                  !.asked = IF r = "ok" THEN @ ELSE <<>>]

Asking(to, part) == [to |-> to, part |-> part, got |-> "none"]

\* A channel into a stopped actor is closed at once; the caller of a forwarder
\* holds that channel itself.
Told(call, asks) ==
    LET closed == [i \in DOMAIN asks |-> IF asks[i].to \in up THEN asks[i]
                                          ELSE [asks[i] EXCEPT !.got = "dropped"]]
        sent   == [call EXCEPT !.state = "waiting", !.asked = @ \o closed] IN
    IF call.kind \in Forwarders /\ closed[1].got = "dropped" THEN Answered(sent, "dropped") ELSE sent

\* The mailboxes after call c has told asks, which follow its first n; at most
\* one of them is for w.
Delivered(c, n, asks) ==
    LET For(w) == {i \in DOMAIN asks : asks[i].to = w} IN
    [w \in Workers |-> IF w \in up /\ For(w) # {}
                       THEN Append(inbox[w], <<c, n + CHOOSE i \in For(w) : TRUE>>) ELSE inbox[w]]

Tell(c, asks) ==
    /\ calls' = [calls EXCEPT ![c] = Told(@, asks)]
    /\ inbox' = Delivered(c, Len(calls[c].asked), asks)

Refuse(c, r) ==
    /\ calls' = [calls EXCEPT ![c] = Answered(@, r)]
    /\ UNCHANGED inbox

Handling(c, kind) == calls[c].state = "sent" /\ calls[c].kind = kind

-----------------------------------------------------------------------------
(* The handlers. *)

SplitBatch(i, n, size) == {s \in 0 .. size - 1 : s % n = i - 1}

\* Mutant of Chunk: the length is divided without rounding up.
ChunkShort(i, n, size) ==
    LET len == size \div n IN {s \in 0 .. size - 1 : (i - 1) * len <= s /\ s < i * len}

Chunk(i, n, size) ==
    LET len == (size + n - 1) \div n IN {s \in 0 .. size - 1 : (i - 1) * len <= s /\ s < i * len}

DataStep(c) ==
    LET n == Len(replicas) IN
    /\ Handling(c, "data")
    /\ IF n = 0 THEN Refuse(c, "err")
       ELSE Tell(c, [i \in 1 .. n |-> Asking(replicas[i], SplitBatch(i, n, calls[c].size))])
    /\ UNCHANGED <<up, routing>>

TensorStep(c) ==
    LET n == Len(team) IN
    /\ Handling(c, "tensor")
    /\ IF n = 0 THEN Refuse(c, "err")
       ELSE Tell(c, [i \in 1 .. n |-> Asking(team[i], Chunk(i, n, calls[c].size))])
    /\ UNCHANGED <<up, routing>>

PipelineStep(c) ==
    /\ Handling(c, "pipeline")
    /\ IF team = <<>> THEN Refuse(c, "err") ELSE Tell(c, <<Asking(team[1], {1})>>)
    /\ UNCHANGED <<up, routing>>

\* The number of experts: at least one, so that a router without experts
\* panics on the slice and its reply channel is dropped.
Chosen(n) == LET k == IF TopK < n THEN TopK ELSE n IN IF k > 1 THEN k ELSE 1

\* The gate's scores may put the experts in any order.
MoeRun(c) ==
    LET n == Len(team) IN
    /\ Handling(c, "moe")
    /\ \/ Refuse(c, "err")                           \* the gate fails, or gives the wrong number of scores
       \/ n = 0 /\ Refuse(c, "dropped")
       \/ /\ n > 0
          /\ \E order \in SetToSeqs(Range(team)) :
                Tell(c, [i \in 1 .. Chosen(n) |-> Asking(order[i], 0 .. calls[c].size - 1)])
    /\ UNCHANGED <<up, routing>>

LeastLoaded == CHOOSE i \in DOMAIN team :
    \A j \in DOMAIN team : counters[team[i]] < counters[team[j]] \/ (counters[team[i]] = counters[team[j]] /\ i <= j)

PoolSubmit(c, kind) ==
    LET i == IF kind = "round_robin" THEN (cursor % Len(team)) + 1 ELSE LeastLoaded IN
    /\ Handling(c, kind)
    /\ IF team = <<>> THEN Refuse(c, "err") /\ UNCHANGED <<cursor, counters>>
       ELSE /\ Tell(c, <<Asking(team[i], {1})>>)
            /\ cursor' = IF kind = "round_robin" THEN cursor + 1 ELSE cursor
            /\ counters' = [counters EXCEPT ![team[i]] = @ + 1]
    /\ UNCHANGED <<up, team, replicas, current>>

Predict(c) ==
    /\ Handling(c, "hot_swap")
    /\ Tell(c, <<Asking(current, {1})>>)
    /\ UNCHANGED <<up, routing>>

SetReplicas(t) ==
    /\ replicas # t
    /\ replicas' = t
    /\ UNCHANGED <<calls, inbox, up, team, current, cursor, counters>>

SwapIn(w) ==
    /\ current # w
    /\ current' = w
    /\ UNCHANGED <<calls, inbox, up, team, replicas, cursor, counters>>

-----------------------------------------------------------------------------
(* Workers. *)

\* The answer to ask i of a call; a forwarder's caller gets it directly.
Got(call, i, r) ==
    LET heard == [call EXCEPT !.asked[i].got = r] IN
    IF i \notin DOMAIN call.asked THEN call
    ELSE IF call.kind \in Forwarders THEN Answered(heard, r) ELSE heard

Work(w) ==
    LET m == Head(inbox[w]) IN
    /\ w \in up /\ inbox[w] # <<>>
    /\ inbox' = [inbox EXCEPT ![w] = Tail(@)]
    /\ \E r \in {"ok", "err"} : calls' = [calls EXCEPT ![m[1]] = Got(@, m[2], r)]
    /\ UNCHANGED <<up, routing>>

StopWorker(w) ==
    LET Pending(c) == {i \in DOMAIN calls[c].asked : calls[c].asked[i].to = w /\ calls[c].asked[i].got = "none"} IN
    /\ w \in up
    /\ up' = up \ {w}
    /\ inbox' = [inbox EXCEPT ![w] = <<>>]
    /\ calls' = [c \in Calls |->
        IF calls[c] = NoCall THEN NoCall
        ELSE LET heard == [calls[c] EXCEPT !.asked = [i \in DOMAIN @ |->
                                IF i \in Pending(c) THEN [@[i] EXCEPT !.got = "dropped"] ELSE @[i]]] IN
             IF heard.kind \in Forwarders /\ Pending(c) # {} THEN Answered(heard, "dropped") ELSE heard]
    /\ UNCHANGED routing

-----------------------------------------------------------------------------
(* The collecting tasks: one answer after the other, in the order asked. *)

\* Mutant of Arrived: a closed channel is not noticed.
ArrivedOpen(r) == r \in {"ok", "err"}

Arrived(r) == r # "none"

Awaited(c) == calls[c].asked[calls[c].next].got
Collecting(c) == calls[c].state = "waiting" /\ calls[c].kind \in Collectors

CollectFailure(c) ==
    /\ Collecting(c) /\ Arrived(Awaited(c)) /\ Awaited(c) # "ok"
    /\ Refuse(c, "err")
    /\ UNCHANGED <<up, routing>>

\* The trainer adds up the samples its replicas report, whatever they report: no
\* sample at all is an error.
Outcomes(call) == IF call.kind = "data" THEN {"ok", "err"} ELSE {"ok"}

CollectOk(c) ==
    LET call == calls[c] IN
    /\ Collecting(c) /\ Awaited(c) = "ok"
    /\ \/ /\ call.next < Len(call.asked)
          /\ calls' = [calls EXCEPT ![c].next = @ + 1]
          /\ UNCHANGED inbox
       \/ /\ call.next = Len(call.asked) /\ (call.kind = "pipeline" => call.next = Len(team))
          /\ \E r \in Outcomes(call) : Refuse(c, r)
       \/ /\ call.kind = "pipeline" /\ call.next < Len(team)
          /\ LET ask == <<Asking(team[call.next + 1], {call.next + 1})>> IN
             /\ calls' = [calls EXCEPT ![c] = [Told(call, ask) EXCEPT !.next = @ + 1]]
             /\ inbox' = Delivered(c, call.next, ask)
    /\ UNCHANGED <<up, routing>>

Orchestrate(c) ==
    \/ DataStep(c) \/ TensorStep(c) \/ PipelineStep(c) \/ MoeRun(c) \/ Predict(c)
    \/ \E kind \in {"round_robin", "least_loaded"} : PoolSubmit(c, kind)
    \/ CollectFailure(c) \/ CollectOk(c)

TeamNext ==
    \/ \E c \in Calls, kind \in Collectors \cup Forwarders, size \in Sizes : Submit(c, kind, size)
    \/ \E c \in Calls : Orchestrate(c)
    \/ \E t \in Teams : SetReplicas(t)
    \/ \E w \in Workers : SwapIn(w) \/ Work(w) \/ StopWorker(w)

\* The runtime polls the tasks and the actors; a worker that is up answers.
TeamFairness ==
    /\ \A c \in Calls : WF_teamVars(Orchestrate(c))
    /\ \A w \in Workers : WF_teamVars(Work(w))

TeamSpec == TeamInit /\ [][TeamNext]_teamVars

-----------------------------------------------------------------------------
\* The parts of the work a call has handed out.
Parts(call) == {call.asked[i].part : i \in DOMAIN call.asked}

\* A request is answered Ok only when all of it has been done: every worker that
\* was asked has answered Ok, the parts cover the batch or the input without
\* overlap, a pipeline has passed every stage in order, and a router has asked
\* as many different experts as it should.
OkMeansAll ==
    \A c \in Calls : calls[c] # NoCall /\ calls[c].state = "done" /\ calls[c].answer = "ok" =>
        LET call == calls[c]
            to   == [i \in DOMAIN call.asked |-> call.asked[i].to] IN
        /\ \A i \in DOMAIN to : call.asked[i].got = "ok"
        /\ call.kind \in {"data", "tensor"} =>
            /\ UNION Parts(call) = 0 .. call.size - 1
            /\ \A i, j \in DOMAIN to : i # j => call.asked[i].part \cap call.asked[j].part = {}
        /\ call.kind = "pipeline" => to = team
        /\ call.kind = "moe" => Cardinality(Range(to)) = Chosen(Len(team))

\* Every request comes to an end, whoever fails or stops: it is answered, or its
\* caller finds the channel closed.
EveryRequestAnswered ==
    \A c \in Calls : calls[c].state # "none" ~> calls[c].state = "done"
=============================================================================
