----------------------------- MODULE StagedRuns -----------------------------
(***************************************************************************)
(* Computations that one task leads through a list of user-supplied stages: *)
(* InferenceCascade, SpeculativeDecoder, LangGraphGpuActor and, behind two  *)
(* bounded channels, PipelineExecutorN.  The outcome of each stage is       *)
(* arbitrary.  Each behaviour is the life of one of the four.               *)
(***************************************************************************)
EXTENDS Naturals, Sequences, FiniteSets, SequencesExt

CONSTANTS NumStages,  \* stages of a pipeline, and the most a cascade has
          Graphs,     \* records with nodes and edges, a set of pairs
          DraftLen,   \* SpeculativeConfig.k
          MaxTokens,  \* SpeculativeConfig.max_total_tokens
          HeadCap,    \* head_capacity
          TailCap,    \* tail_capacity
          MaxItems    \* bound on the items submitted to the pipeline

ASSUME StagedRunsAssumption ==
    /\ NumStages \in Nat /\ DraftLen \in Nat /\ MaxTokens \in Nat /\ MaxItems \in Nat
    /\ \A g \in Graphs : /\ IsFiniteSet(g.nodes) /\ IsFiniteSet(g.edges)
                         /\ \A e \in g.edges : e = <<e[1], e[2]>>

VARIABLES
    run,        \* the cascade, the decoding or the graph run, or NoRun
    head, tail, \* the channels of the pipeline
    driver,     \* the item in the pipeline and its next stage, or the state of the task
    submitted,  \* how many items the channel has taken
    received,   \* the results the PipelineSource has yielded
    source      \* whether the PipelineSource exists

stagedVars == <<run, head, tail, driver, submitted, received, source>>
pipe == <<head, tail, driver, submitted, received, source>>

NoRun   == [kind |-> "none"]
Waiting == [item |-> 0]
Ended   == [item |-> MaxItems + 1]

InDegrees(g) == [n \in g.nodes \cup {e[2] : e \in g.edges} |-> Cardinality({e \in g.edges : e[2] = n})]

Cascade(n)  == [kind |-> "cascade", result |-> "none", stages |-> n, log |-> <<>>]
Decode(len) == [kind |-> "decode", result |-> "none", prefix |-> len, len |-> len]
\* topo_order starts with the nodes without predecessors, in the order of a hash map.
GraphRun(g, q) == [kind |-> "graph", result |-> "none", graph |-> g, degree |-> InDegrees(g), queue |-> q,
                   order |-> <<>>, log |-> <<>>, sorted |-> FALSE]

StagedInit ==
    /\ \/ run \in {NoRun} \cup {Cascade(n) : n \in 0 .. NumStages}
       \/ run \in {Decode(len) : len \in 0 .. MaxTokens + 1}
       \/ \E g \in Graphs : \E q \in SetToSeqs({n \in DOMAIN InDegrees(g) : InDegrees(g)[n] = 0}) :
            run = GraphRun(g, q)
    /\ head = <<>> /\ tail = <<>>
    /\ driver = Waiting
    /\ submitted = 0
    /\ received = <<>>
    /\ source = TRUE

Going(kind) == run.kind = kind /\ run.result = "none"
RunEnds(r) == run' = [run EXCEPT !.result = r] /\ UNCHANGED pipe

-----------------------------------------------------------------------------
(* InferenceCascade *)

CascadeRefused == Going("cascade") /\ run.stages = 0 /\ RunEnds("err")

CascadeStage ==
    LET ran == [run EXCEPT !.log = Append(@, Len(@) + 1)] IN
    /\ Going("cascade") /\ Len(run.log) < run.stages
    /\ run' \in {[ran EXCEPT !.result = "err"],                       \* the stage fails
                 [ran EXCEPT !.result = "ok"],                        \* it is confident enough
                 [ran EXCEPT !.result = IF Len(ran.log) = run.stages THEN "ok" ELSE "none"]}
    /\ UNCHANGED pipe

(* SpeculativeDecoder *)

AtMost(a, b) == IF a < b THEN a ELSE b

\* Mutant of Candidates: a draft that overshoots is not cut to what remains.
CandidatesAll(drafted, remaining) == drafted

Candidates(drafted, remaining) == AtMost(drafted, remaining)

\* One iteration: `drafted` candidates, of which `accepted` stand.
DecodeRound(drafted, accepted, replaced) ==
    LET remaining  == MaxTokens - run.len
        candidates == Candidates(drafted, remaining)
        acc        == AtMost(accepted, candidates)
        long       == run.len + acc
        len        == IF acc < candidates /\ replaced /\ long < MaxTokens THEN long + 1 ELSE long IN
    /\ Going("decode") /\ run.len < MaxTokens /\ DraftLen > 0 /\ drafted > 0
    /\ run' = [run EXCEPT !.len = len,
                          !.result = IF (acc < candidates /\ ~replaced) \/ len >= MaxTokens THEN "ok" ELSE "none"]
    /\ UNCHANGED pipe

\* The limit is reached, k is zero or the draft is empty.
DecodeEnds == Going("decode") /\ RunEnds("ok")
DecodeFails == Going("decode") /\ run.len < MaxTokens /\ RunEnds("err")

(* LangGraphGpuActor *)

Succs(g, n) == {e[2] : e \in {x \in g.edges : x[1] = n}}
Lowered(degree, succs) ==
    [s \in DOMAIN degree |-> IF s \in succs /\ degree[s] > 0 THEN degree[s] - 1 ELSE degree[s]]
Unblocked(succs, degree) == {s \in succs : degree[s] = 0}

\* One turn of Kahn's algorithm; the successors of n come in the order in which
\* their edges were added.
Visit ==
    LET n     == Head(run.queue)
        succs == Succs(run.graph, n)
        left  == Lowered(run.degree, succs) IN
    /\ Going("graph") /\ ~run.sorted /\ run.queue # <<>>
    /\ \/ /\ n \in Range(run.order)
          /\ run' = [run EXCEPT !.queue = Tail(@)]
       \/ /\ n \notin Range(run.order)
          /\ \E ready \in SetToSeqs(Unblocked(succs, left)) :
                run' = [run EXCEPT !.queue = Tail(@) \o ready, !.order = Append(@, n), !.degree = left]
    /\ UNCHANGED pipe

TopoOrder ==
    /\ Going("graph") /\ ~run.sorted /\ run.queue = <<>>
    /\ IF Len(run.order) # Cardinality(run.graph.nodes) THEN run' = [run EXCEPT !.result = "err"]
       ELSE run' = [run EXCEPT !.sorted = TRUE, !.result = IF run.order = <<>> THEN "ok" ELSE "none"]
    /\ UNCHANGED pipe

RunNode ==
    LET n   == run.order[Len(run.log) + 1]
        ran == [run EXCEPT !.log = Append(@, n)] IN
    /\ Going("graph") /\ run.sorted /\ Len(run.log) < Len(run.order)
    /\ \/ run' = [run EXCEPT !.result = "err"]          \* the node is missing or fails
       \/ /\ n \in run.graph.nodes
          /\ run' = IF Len(ran.log) = Len(run.order) THEN [ran EXCEPT !.result = "ok"] ELSE ran
    /\ UNCHANGED pipe

-----------------------------------------------------------------------------
(* spawn_pipeline: PipelineSink, the driver task and PipelineSource. *)

Piping == run = NoRun

\* The channels hold at least one item.
ChannelCap(c) == IF c = 0 THEN 1 ELSE c

\* submit waits for room; try_submit is refused without it.  Both fail once the
\* driver has ended.
SinkSubmit ==
    /\ Piping /\ driver # Ended
    /\ submitted < MaxItems /\ Len(head) < ChannelCap(HeadCap)
    /\ submitted' = submitted + 1
    /\ head' = Append(head, submitted + 1)
    /\ UNCHANGED <<run, tail, driver, received, source>>

DriverTake ==
    /\ Piping /\ driver = Waiting /\ head # <<>>
    /\ driver' = [item |-> Head(head), stage |-> 1, result |-> "none"]
    /\ head' = Tail(head)
    /\ UNCHANGED <<run, tail, submitted, received, source>>

InPipe == Piping /\ driver \notin {Waiting, Ended}

\* PipelineExecutorN::run: the stages are enqueued one after the other, each
\* behind the event of the one before; then the tail stream is awaited.  An
\* executor without stages refuses the item.
PipeStage ==
    /\ InPipe /\ driver.result = "none" /\ driver.stage <= NumStages
    /\ driver' \in {[driver EXCEPT !.stage = @ + 1], [driver EXCEPT !.result = "err"]}
    /\ UNCHANGED <<run, head, tail, submitted, received, source>>

PipeCompletion ==
    /\ InPipe /\ driver.result = "none" /\ driver.stage > NumStages
    /\ \E r \in (IF NumStages = 0 THEN {"err"} ELSE {"ok", "err"}) : driver' = [driver EXCEPT !.result = r]
    /\ UNCHANGED <<run, head, tail, submitted, received, source>>

\* All sinks are dropped: the driver ends when it has drained the channel.
DriverEnds ==
    /\ Piping /\ driver = Waiting /\ head = <<>>
    /\ driver' = Ended
    /\ UNCHANGED <<run, head, tail, submitted, received, source>>

DriverYield ==
    /\ InPipe /\ driver.result # "none"
    /\ \/ /\ source /\ Len(tail) < ChannelCap(TailCap)
          /\ tail' = Append(tail, driver)
          /\ driver' = Waiting
          /\ UNCHANGED head
       \/ /\ ~source
          /\ driver' = Ended
          /\ head' = <<>>                                \* in_rx is dropped with what it holds
          /\ UNCHANGED tail
    /\ UNCHANGED <<run, submitted, received, source>>

Receive ==
    /\ Piping /\ source /\ tail # <<>>
    /\ received' = Append(received, Head(tail))
    /\ tail' = Tail(tail)
    /\ UNCHANGED <<run, head, driver, submitted, source>>

DropSource ==
    /\ Piping /\ source
    /\ source' = FALSE
    /\ tail' = <<>>
    /\ UNCHANGED <<run, head, driver, submitted, received>>

StagedNext ==
    \/ CascadeRefused \/ CascadeStage
    \/ \E d \in 1 .. DraftLen + 1, a \in 0 .. DraftLen + 1, replaced \in BOOLEAN : DecodeRound(d, a, replaced)
    \/ DecodeEnds \/ DecodeFails
    \/ Visit \/ TopoOrder \/ RunNode
    \/ SinkSubmit \/ DriverTake \/ PipeStage \/ PipeCompletion \/ DriverYield \/ DriverEnds \/ Receive \/ DropSource

StagedSpec == StagedInit /\ [][StagedNext]_stagedVars

-----------------------------------------------------------------------------
Pos(log, n) == CHOOSE i \in DOMAIN log : log[i] = n

\* Stages run in their order and none is left out of a result: a cascade ran a
\* prefix of its stages, a graph every node once and after its predecessors,
\* decoding keeps to its token limit, and the pipeline yields the results of the
\* submitted items in order, an Ok only after every stage.
StagesInOrder ==
    /\ run.kind = "cascade" => run.log = [i \in 1 .. Len(run.log) |-> i]
    /\ run.kind = "decode" => run.len <= MaxTokens \/ run.len = run.prefix
    /\ run.kind = "graph" /\ run.result = "ok" =>
        /\ Range(run.log) = run.graph.nodes /\ IsInjective(run.log)
        /\ \A e \in run.graph.edges : {e[1], e[2]} \subseteq run.graph.nodes => Pos(run.log, e[1]) < Pos(run.log, e[2])
    /\ \A i \in DOMAIN received : /\ received[i].item = i
                                  /\ received[i].result = "ok" => received[i].stage > NumStages
=============================================================================
