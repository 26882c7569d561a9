------------------------------ MODULE FairShare ------------------------------
(***************************************************************************)
(* FairShareScheduler: one queue per tenant, at most max_in_flight requests *)
(* at the dispatcher, the next one from the tenant with the lowest virtual  *)
(* finish time.  Each dispatched request has a task (the tee) that passes   *)
(* the response on and then tells the scheduler Finished.                   *)
(***************************************************************************)
EXTENDS Naturals, Sequences, FiniteSets

CONSTANTS
    Tenants,        \* the configured tenants
    Weight,         \* TenantConfig::weight
    Scale,          \* the units of 1.0 in vfinish: a multiple of every weight
    Unknown,        \* a TenantId that is not configured
    MaxRequests,    \* bound: how many requests are submitted
    MaxInFlight,    \* max_in_flight
    MaxPanics       \* bound: how often the dispatcher panics

Increment(t) == Scale \div (IF Weight[t] = 0 THEN 1 ELSE Weight[t])

ASSUME FairShareAssumption ==
    /\ Unknown \notin Tenants /\ MaxRequests \in Nat
    /\ Scale \in Nat /\ MaxInFlight \in Nat /\ MaxPanics \in Nat
    /\ Weight \in [Tenants -> Nat]
    /\ \A t \in Tenants : Weight[t] # 0 => Scale % Weight[t] = 0

VARIABLES
    \* FairShareScheduler
    mailbox, queue, vfinish, in_flight,
    dispatching,    \* the handler is in the loop of try_dispatch
    \* requests
    owner,          \* per request: the tenant it names
    state,          \* per request: unsent, waiting, running, dropped, replied or done
    passed,         \* per tenant: dispatches of each other tenant while it waits
    panics

vars == <<mailbox, queue, vfinish, in_flight, dispatching, owner, state, passed,
          panics>>

-----------------------------------------------------------------------------
\* Numbered in the order of submission.
Requests == 1..MaxRequests

Submit(r) == [type |-> "Submit", req |-> r]
Finished  == [type |-> "Finished"]

NothingPassed == [u \in Tenants |-> 0]

Init ==
    /\ mailbox = <<>> /\ in_flight = 0 /\ dispatching = FALSE
    /\ queue = [t \in Tenants |-> <<>>]
    /\ vfinish = [t \in Tenants |-> 0]
    /\ owner = [r \in Requests |-> Unknown]
    /\ state = [r \in Requests |-> "unsent"]
    /\ passed = [t \in Tenants |-> NothingPassed]
    /\ panics = 0

-----------------------------------------------------------------------------
(* Callers, the dispatcher and the tees *)

SendSubmit(r, t) ==
    /\ state[r] = "unsent" /\ \A p \in 1..(r - 1) : state[p] # "unsent"
    /\ owner' = [owner EXCEPT ![r] = t]
    /\ state' = [state EXCEPT ![r] = "waiting"]
    /\ mailbox' = Append(mailbox, Submit(r))
    /\ UNCHANGED <<queue, vfinish, in_flight, dispatching, passed, panics>>

\* The dispatcher answers, or drops the channel: the tee passes on the response
\* or an error.
TeeReplies(r) ==
    /\ state[r] \in {"running", "dropped"}
    /\ state' = [state EXCEPT ![r] = "replied"]
    /\ UNCHANGED <<mailbox, queue, vfinish, in_flight, dispatching, owner, passed, panics>>

\* Mutant of TeeTellsFinished: the scheduler is not told.
TeeSilent(r) ==
    /\ state[r] = "replied"
    /\ state' = [state EXCEPT ![r] = "done"]
    /\ UNCHANGED <<mailbox, queue, vfinish, in_flight, dispatching, owner, passed, panics>>

TeeTellsFinished(r) ==
    /\ state[r] = "replied"
    /\ state' = [state EXCEPT ![r] = "done"]
    /\ mailbox' = Append(mailbox, Finished)
    /\ UNCHANGED <<queue, vfinish, in_flight, dispatching, owner, passed, panics>>

-----------------------------------------------------------------------------
(* try_dispatch *)

Waiting == {t \in Tenants : queue[t] # <<>>}

\* Mutant of Best: the first tenant in the map, whatever its vfinish.
BestAny == Waiting

\* The tenants that the loop over the map may end with: ties are decided by
\* the order of a HashMap.
Best == {t \in Waiting : \A u \in Waiting : vfinish[t] <= vfinish[u]}

HasRoom == in_flight < MaxInFlight

\* One round of the loop.  The tee is spawned before the dispatcher is called.
Dispatch(t) ==
    LET r == Head(queue[t]) IN
    /\ queue' = [queue EXCEPT ![t] = Tail(@)]
    /\ vfinish' = [vfinish EXCEPT ![t] = @ + Increment(t)]
    /\ in_flight' = in_flight + 1
    /\ state' = [state EXCEPT ![r] = "running"]
    /\ passed' = [u \in Tenants |->
                     IF u = t \/ queue[u] = <<>> THEN NothingPassed
                     ELSE [passed[u] EXCEPT ![t] = @ + 1]]
    /\ UNCHANGED <<mailbox, dispatching, owner, panics>>

DispatchOne ==
    /\ dispatching /\ HasRoom
    /\ \E t \in Best : Dispatch(t)

DispatchEnds ==
    /\ dispatching /\ (~HasRoom \/ Waiting = {})
    /\ dispatching' = FALSE
    /\ UNCHANGED <<mailbox, queue, vfinish, in_flight, owner, state, passed, panics>>

\* The dispatcher panics, having dropped the channel or handed it on to whoever
\* will answer.  A new instance starts with the mailbox and the tees that are still under way; the channels of the
\* queued requests are closed.
DispatchPanics ==
    /\ dispatching /\ HasRoom /\ panics < MaxPanics
    /\ panics' = panics + 1
    /\ \E t \in Best, left \in {"dropped", "running"} :
         LET closed == UNION {{queue[u][i] : i \in DOMAIN queue[u]} : u \in Tenants}
         IN state' = [r \in Requests |->
                         IF r = Head(queue[t]) THEN left
                         ELSE IF r \in closed THEN "done" ELSE state[r]]
    /\ queue' = [t \in Tenants |-> <<>>]
    /\ vfinish' = [t \in Tenants |-> 0]
    /\ passed' = [t \in Tenants |-> NothingPassed]
    /\ in_flight' = 0 /\ dispatching' = FALSE
    /\ UNCHANGED <<mailbox, owner>>

-----------------------------------------------------------------------------
(* FairShareScheduler::handle *)

Handling(type) ==
    /\ ~dispatching /\ mailbox # <<>> /\ Head(mailbox).type = type
    /\ mailbox' = Tail(mailbox)
    /\ UNCHANGED <<owner, panics>>

HandleSubmit ==
    LET r == Head(mailbox).req
        t == owner[r]
    IN
    /\ Handling("Submit")
    /\ IF t \in Tenants
       THEN /\ queue' = [queue EXCEPT ![t] = Append(@, r)]
            /\ dispatching' = TRUE
            /\ UNCHANGED state
       ELSE /\ state' = [state EXCEPT ![r] = "done"]
            /\ UNCHANGED <<queue, dispatching>>
    /\ UNCHANGED <<vfinish, in_flight, passed>>

\* Mutant of AfterFinished: the loop is not entered again.
AfterFinishedIdle == UNCHANGED dispatching

AfterFinished == dispatching' = TRUE

\* saturating_sub
HandleFinished ==
    /\ Handling("Finished")
    /\ in_flight' = IF in_flight = 0 THEN 0 ELSE in_flight - 1
    /\ AfterFinished
    /\ UNCHANGED <<queue, vfinish, state, passed>>

-----------------------------------------------------------------------------
Scheduler ==
    HandleSubmit \/ HandleFinished \/ DispatchOne \/ DispatchEnds

Next ==
    \/ \E r \in Requests, t \in Tenants \cup {Unknown} : SendSubmit(r, t)
    \/ \E r \in Requests : TeeReplies(r) \/ TeeTellsFinished(r)
    \/ Scheduler
    \/ DispatchPanics

Spec == Init /\ [][Next]_vars

\* The actor and the tees are scheduled, and the dispatcher answers or drops
\* the channel.
Fairness ==
    /\ WF_vars(Scheduler)
    /\ \A r \in Requests : WF_vars(TeeReplies(r)) /\ WF_vars(TeeTellsFinished(r))

FairSpec == Spec /\ Fairness

-----------------------------------------------------------------------------
(* Properties *)

Busy == {r \in Requests : state[r] \in {"running", "dropped", "replied"}}
FinishedQueued == {i \in DOMAIN mailbox : mailbox[i] = Finished}

Running == {r \in Requests : state[r] = "running"}

\* in_flight is exact as long as the dispatcher does not panic: it counts the
\* dispatched requests whose Finished has not been handled, no slot is lost and
\* none is counted twice.  So no more than max_in_flight requests are at the
\* dispatcher at a time, and as many again for each panic it has recovered from.
InFlightExact ==
    /\ panics = 0 => in_flight = Cardinality(Busy) + Cardinality(FinishedQueued)
    /\ Cardinality(Running) <= MaxInFlight * (panics + 1)

\* Claim: max_in_flight is the maximum of concurrent requests.
AtMostMaxInFlight == Cardinality(Running) <= MaxInFlight

\* The scheduler never idles: between messages a request waits in a queue only
\* if all slots are taken.
WorkConserving == ~dispatching /\ Waiting # {} => in_flight >= MaxInFlight

\* Only a tenant that is behind may pass a waiting one: it ends at most one of
\* its own increments ahead.
LagBounded ==
    \A t \in Waiting, u \in Tenants :
        passed[t][u] > 0 => vfinish[u] <= vfinish[t] + Increment(u)

\* Claim: a waiting tenant keeps its share by weight: while it waits for one turn, the
\* turns of another tenant are worth no more than its own turn, rounded up.
SharesByWeight ==
    \A t \in Waiting, u \in Tenants :
        passed[t][u] * Increment(u) <= Increment(t) + Increment(u)

\* Every request is answered or its channel closed.
Answered == \A r \in Requests : state[r] = "waiting" ~> state[r] \in {"replied", "done"}

=============================================================================
