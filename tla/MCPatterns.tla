----------------------------- MODULE MCPatterns -----------------------------
(***************************************************************************)
(* One instance of each of six components that share no state: the          *)
(* orchestrators, the staged computations, retrieval, the parameter server, *)
(* the plan caches and the runtime compiler.  A behaviour is a behaviour of *)
(* one of them, chosen at the start, while the others stay as they are, so  *)
(* that the state spaces add up and do not multiply.                        *)
(***************************************************************************)
EXTENDS Nvrtc, ParamServer, PlanCaches, Orchestrators, Rag, StagedRuns

VARIABLE which   \* the chosen component

\* Orchestrators: none or both of two workers.
MCTeams == {<<>>, <<"w1", "w2">>}

\* StagedRuns: every graph of up to four edges over three nodes, one of which
\* may never have been added.
MCGraphs == {[nodes |-> n, edges |-> e] : n \in {1 .. 2, 1 .. 3},
                                          e \in {x \in SUBSET ((1 .. 3) \X (1 .. 3)) : Cardinality(x) <= 4}}

\* PlanCaches: every operation, two operators of a contraction, two layouts.
PlanRequest(op, operator, layout) == [op |-> op, shape |-> "s", operator |-> operator, layout |-> layout]
MCPlanRequests ==
    {PlanRequest(op, "p", "simple") :
        op \in {"contract", "binary", "trinary", "permutation", "reduction", "fft_exec"}}
    \cup {PlanRequest("contract", "q", "simple"),
          PlanRequest("fft_many", "p", "l1"), PlanRequest("fft_many", "p", "l2")}

\* Nvrtc: a process with a device and one without, of different crate versions.
MCVersion == [p1 |-> 1, p2 |-> 2]
MCWants   == [p1 |-> {[src |-> "s", opts |-> o] : o \in {"o1", "o2"}}, p2 |-> {[src |-> "s", opts |-> "o1"]}]

Components == {"orchestrate", "staged", "retrieve", "train", "plan", "compile"}

MCInit ==
    /\ which \in Components
    /\ TeamInit /\ (which # "orchestrate" => team = <<>>)
    /\ StagedInit /\ (which # "staged" => run.kind = "none")
    /\ RagInit
    /\ PsInit
    /\ PlanInit
    /\ Init
    /\ which # "compile" => \A k \in DOMAIN binFile : binFile[k] = NoFile /\ tmpFile[k] = NoFile

MCNext ==
    \/ which = "orchestrate" /\ TeamNext /\ UNCHANGED <<which, stagedVars, ragVars, psVars, planVars, vars>>
    \/ which = "staged" /\ StagedNext /\ UNCHANGED <<which, teamVars, ragVars, psVars, planVars, vars>>
    \/ which = "retrieve" /\ RagNext /\ UNCHANGED <<which, teamVars, stagedVars, psVars, planVars, vars>>
    \/ which = "train" /\ PsNext /\ UNCHANGED <<which, teamVars, stagedVars, ragVars, planVars, vars>>
    \/ which = "plan" /\ PlanNext /\ UNCHANGED <<which, teamVars, stagedVars, ragVars, psVars, vars>>
    \/ which = "compile" /\ Next /\ UNCHANGED <<which, teamVars, stagedVars, ragVars, psVars, planVars>>

MCVars == <<which, teamVars, stagedVars, ragVars, psVars, planVars, vars>>

\* What is not chosen has nothing to do, so its fairness asks for nothing.
MCSpec == MCInit /\ [][MCNext]_MCVars /\ TeamFairness

=============================================================================
