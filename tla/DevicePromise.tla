---------------------------- MODULE DevicePromise ----------------------------
(***************************************************************************)
(* What a device promises the holders of its ActorRef, with no word about   *)
(* actors, mailboxes and restarts: requests are submitted, some of them     *)
(* are admitted to the GPU under the generation current at that moment, and *)
(* every one gets at most one answer.  Device implements it.               *)
(***************************************************************************)
EXTENDS Naturals

CONSTANTS Requests, Answers

VARIABLES
    gen,        \* how often the context has been built
    accepting,  \* FALSE once the device has shut down
    open,       \* requests whose caller is waiting
    answer,     \* per request: its answer, "none" before it has one
    admitted    \* per request: the generation it was admitted under, 0 if never

vars == <<gen, accepting, open, answer, admitted>>

\* Every caller in R gets some answer, and keeps it.
AnswerAll(R) ==
    /\ open' = open \ R
    /\ answer' \in [Requests -> Answers \cup {"none"}]
    /\ \A r \in Requests : IF r \in R THEN answer'[r] # "none"
                                       ELSE answer'[r] = answer[r]

Init ==
    /\ gen = 0
    /\ accepting = TRUE
    /\ open = {}
    /\ answer = [r \in Requests |-> "none"]
    /\ admitted = [r \in Requests |-> 0]

Submit(r) ==
    /\ r \notin open /\ answer[r] = "none"
    /\ \/ open' = open \cup {r} /\ UNCHANGED answer
       \/ ~accepting /\ AnswerAll({r})
    /\ UNCHANGED <<gen, accepting, admitted>>

\* r touches a buffer on the GPU: at most once, while its caller waits and
\* the device accepts work; it may be answered in the same step.
Admit(r) ==
    /\ accepting
    /\ r \in open
    /\ admitted[r] = 0
    /\ admitted' = [admitted EXCEPT ![r] = gen]
    /\ \/ UNCHANGED <<open, answer>>
       \/ AnswerAll({r})
    /\ UNCHANGED <<gen, accepting>>

\* Any number of callers get their answers.
Answer ==
    /\ \E R \in SUBSET open : R # {} /\ AnswerAll(R)
    /\ UNCHANGED <<gen, accepting, admitted>>

Rebuild ==
    /\ gen' = gen + 1
    /\ UNCHANGED <<accepting, open, answer, admitted>>

\* Shutting down answers the work that was stashed.
Shutdown ==
    /\ accepting
    /\ accepting' = FALSE
    /\ \E R \in SUBSET open : AnswerAll(R)
    /\ UNCHANGED <<gen, admitted>>

Next ==
    \/ \E r \in Requests : Submit(r) \/ Admit(r)
    \/ Answer
    \/ Rebuild
    \/ Shutdown

Spec == Init /\ [][Next]_vars

=============================================================================
