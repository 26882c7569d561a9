----------------------------- MODULE SharedState -----------------------------
(***************************************************************************)
(* SharedGpuStateCoordinator: hands one write token at a time to agents     *)
(* that share a ManagedRef.  A token is a plain Copy number: nothing is     *)
(* released when its holder drops it, and ReleaseWrite may be sent again    *)
(* with a token that is long out of date.                                   *)
(***************************************************************************)
EXTENDS Naturals, Sequences

CONSTANTS
    Agents,      \* the agents
    MaxAsks,     \* bound: how many AcquireWrite are sent
    MaxRepeats,  \* bound: how many ReleaseWrite are sent a second time
    MaxQuits     \* bound: how often an agent stops waiting for its reply

ASSUME SharedStateAssumption ==
    /\ MaxAsks \in Nat
    /\ MaxRepeats \in Nat
    /\ MaxQuits \in Nat

VARIABLES
    \* SharedGpuStateCoordinator
    mailbox, counter, waiters,
    held,        \* the current token, 0 is None
    \* the agents
    status,      \* per agent: "idle", "waiting" or "writing"
    token,       \* per agent: the last token it received
    ticket,      \* per agent: the AcquireWrite it sent last
    asks, repeats, quits

coordVars == <<counter, waiters, held>>
agentVars == <<status, token, ticket>>
counts    == <<asks, repeats, quits>>
vars == <<mailbox, coordVars, agentVars, counts>>

-----------------------------------------------------------------------------
AcquireWrite(a, n) == [type |-> "AcquireWrite", agent |-> a, id |-> n]
ReleaseWrite(a, t) == [type |-> "ReleaseWrite", agent |-> a, id |-> t]

Init ==
    /\ mailbox = <<>> /\ counter = 0 /\ waiters = <<>> /\ held = 0
    /\ status = [a \in Agents |-> "idle"]
    /\ token = [a \in Agents |-> 0]
    /\ ticket = [a \in Agents |-> 0]
    /\ asks = 0 /\ repeats = 0 /\ quits = 0

-----------------------------------------------------------------------------
(* Agents *)

Ask(a) ==
    /\ status[a] = "idle" /\ asks < MaxAsks
    /\ asks' = asks + 1
    /\ status' = [status EXCEPT ![a] = "waiting"]
    /\ ticket' = [ticket EXCEPT ![a] = asks + 1]
    /\ mailbox' = Append(mailbox, AcquireWrite(a, asks + 1))
    /\ UNCHANGED <<coordVars, token, repeats, quits>>

\* The agent drops its receiver, as a timeout around the ask does.
Quit(a) ==
    /\ status[a] = "waiting" /\ quits < MaxQuits
    /\ quits' = quits + 1
    /\ status' = [status EXCEPT ![a] = "idle"]
    /\ UNCHANGED <<mailbox, coordVars, token, ticket, asks, repeats>>

Release(a) ==
    /\ status[a] = "writing"
    /\ status' = [status EXCEPT ![a] = "idle"]
    /\ mailbox' = Append(mailbox, ReleaseWrite(a, token[a]))
    /\ UNCHANGED <<coordVars, token, ticket, counts>>

\* ReleaseWrite once more, by an agent that no longer writes.
ReleaseAgain(a) ==
    /\ status[a] # "writing" /\ token[a] # 0 /\ repeats < MaxRepeats
    /\ repeats' = repeats + 1
    /\ mailbox' = Append(mailbox, ReleaseWrite(a, token[a]))
    /\ UNCHANGED <<coordVars, agentVars, asks, quits>>

-----------------------------------------------------------------------------
(* SharedGpuStateCoordinator::handle *)

Handling(t) ==
    /\ mailbox # <<>> /\ Head(mailbox).type = t
    /\ mailbox' = Tail(mailbox)

\* issue_token: held is set whether or not anybody gets the reply.
IssueToken(w) ==
    /\ counter' = counter + 1
    /\ held' = counter + 1
    /\ IF status[w.agent] = "waiting" /\ ticket[w.agent] = w.id
       THEN /\ status' = [status EXCEPT ![w.agent] = "writing"]
            /\ token' = [token EXCEPT ![w.agent] = counter + 1]
       ELSE UNCHANGED <<status, token>>
    /\ UNCHANGED ticket

\* Mutant of Enqueue: the latest comer is served first.
EnqueueFront(w) == <<w>> \o waiters

\* waiters.push_back
Enqueue(w) == Append(waiters, w)

HandleAcquireWrite ==
    LET m == Head(mailbox) IN
    /\ Handling("AcquireWrite")
    /\ IF held = 0
       THEN IssueToken(m) /\ UNCHANGED waiters
       ELSE /\ waiters' = Enqueue(m)
            /\ UNCHANGED <<counter, held, agentVars>>
    /\ UNCHANGED counts

\* Mutant of Matches: any ReleaseWrite ends the current write.
MatchesAny(t) == held # 0

\* *t == token
Matches(t) == held # 0 /\ t = held

\* Mutant of HandOver: the next waiter is not woken.
HandOverNobody ==
    /\ held' = 0
    /\ UNCHANGED <<waiters, counter, agentVars>>

\* The token is free, and goes to the first waiter if there is one.
HandOver ==
    IF waiters = <<>>
    THEN held' = 0 /\ UNCHANGED <<waiters, counter, agentVars>>
    ELSE IssueToken(Head(waiters)) /\ waiters' = Tail(waiters)

HandleReleaseWrite ==
    LET m == Head(mailbox) IN
    /\ Handling("ReleaseWrite")
    /\ IF Matches(m.id) THEN HandOver ELSE UNCHANGED <<coordVars, agentVars>>
    /\ UNCHANGED counts

-----------------------------------------------------------------------------
Coordinator == HandleAcquireWrite \/ HandleReleaseWrite

Next ==
    \/ \E a \in Agents : Ask(a) \/ Quit(a) \/ Release(a) \/ ReleaseAgain(a)
    \/ Coordinator

Spec == Init /\ [][Next]_vars

\* The actor is scheduled, and an agent that writes ends its write.
FairSpec == Spec /\ WF_vars(Coordinator) /\ \A a \in Agents : WF_vars(Release(a))

-----------------------------------------------------------------------------
(* Properties *)

Messages == [type : {"AcquireWrite", "ReleaseWrite"}, agent : Agents, id : Nat]

\* Every variable has its type.
TypeOK ==
    /\ mailbox \in Seq(Messages) /\ waiters \in Seq(Messages)
    /\ counter \in Nat /\ held \in Nat
    /\ status \in [Agents -> {"idle", "waiting", "writing"}]
    /\ token \in [Agents -> Nat] /\ ticket \in [Agents -> Nat]
    /\ asks \in Nat /\ repeats \in Nat /\ quits \in Nat

\* Only one token is outstanding: no two agents ever write at the same time,
\* whatever stale or repeated ReleaseWrite the coordinator gets.
OneWriter ==
    \A a, b \in Agents : status[a] = "writing" /\ status[b] = "writing" => a = b

\* Tokens are handed over in the order in which they were asked for: an agent
\* that writes asked before everybody who still waits.
Fifo ==
    \A a, b \in Agents :
        status[a] = "writing" /\ status[b] = "waiting" => ticket[a] < ticket[b]

\* Every agent that keeps waiting is given the token, as long as no agent has
\* quit: a token that goes to an agent that quit is never released.
Served ==
    \A a \in Agents : status[a] = "waiting" ~> status[a] # "waiting" \/ quits > 0

=============================================================================
