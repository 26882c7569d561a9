------------------------------- MODULE Batching -------------------------------
(***************************************************************************)
(* DynamicBatchingServer: collects requests and hands them to a BatchFn     *)
(* when the batch is full or its first request has waited for max_wait.     *)
(* A timer is a detached task that is never cancelled: it may outlive the   *)
(* batch it was started for.                                                *)
(***************************************************************************)
EXTENDS Integers, Sequences

CONSTANTS
    MaxRequests,  \* bound: how many requests are submitted
    BatchSizes,   \* the values of BatchingConfig::max_batch
    MaxWait,      \* max_wait, in ticks
    MaxFlushNow,  \* bound: how many FlushNow are sent
    MaxFaults     \* bound: how often BatchFn panics or breaks its contract

ASSUME BatchingAssumption ==
    /\ BatchSizes \subseteq Nat /\ MaxRequests \in Nat
    /\ MaxWait \in Nat /\ MaxFlushNow \in Nat /\ MaxFaults \in Nat

VARIABLES
    config,            \* max_batch and overflow, fixed at the start
    mailbox, alive,
    pending,           \* the requests of the current batch
    batch_started_at,  \* the age of the batch up to MaxWait, or None
    timers,            \* how many tasks still sleep that many ticks
    reply,             \* per request: what its caller has received
    flushNows, faults,
    misplaced          \* history: requests in whose place BatchFn put another's response

vars == <<config, mailbox, alive, pending, batch_started_at, timers, reply,
          flushNows, faults, misplaced>>

-----------------------------------------------------------------------------
None       == -1
\* Numbered in the order of submission; the response to q is q.
Requests   == 1..MaxRequests
Ticks      == 0..MaxWait
Submit(q)  == [type |-> "Submit", req |-> q]
TimerFlush == [type |-> "TimerFlush"]
FlushNow   == [type |-> "FlushNow"]

Ok(q)    == <<"Ok", q>>
Err(e)   == <<"Err", e>>
Unsent   == <<"unsent">>
Waiting  == <<"waiting">>
Errors   == {Err(e) : e \in {"batch full", "dropped by overflow", "wrong number", "server stopped",
                        "channel closed"}}

Init ==
    /\ config \in [max_batch : BatchSizes, overflow : {"Reject", "DropOldest"}]
    /\ mailbox = <<>> /\ alive = TRUE
    /\ pending = <<>> /\ batch_started_at = None
    /\ timers = [t \in Ticks |-> 0]
    /\ reply = [q \in Requests |-> Unsent]
    /\ flushNows = 0 /\ faults = 0 /\ misplaced = {}

-----------------------------------------------------------------------------
(* The world around the actor *)

\* tell: a message to a stopped actor is dropped, with its reply channel.
SendSubmit(q) ==
    /\ reply[q] = Unsent /\ \A p \in 1..(q - 1) : reply[p] # Unsent
    /\ IF alive
       THEN /\ mailbox' = Append(mailbox, Submit(q))
            /\ reply' = [reply EXCEPT ![q] = Waiting]
       ELSE /\ reply' = [reply EXCEPT ![q] = Err("channel closed")]
            /\ UNCHANGED mailbox
    /\ UNCHANGED <<config, alive, pending, batch_started_at, timers, flushNows, faults, misplaced>>

SendFlushNow ==
    /\ alive /\ flushNows < MaxFlushNow
    /\ flushNows' = flushNows + 1
    /\ mailbox' = Append(mailbox, FlushNow)
    /\ UNCHANGED <<config, alive, pending, batch_started_at, timers, reply, faults, misplaced>>

\* A timer task wakes up and tells the actor.
TimerFires ==
    /\ timers[0] > 0
    /\ timers' = [timers EXCEPT ![0] = @ - 1]
    /\ mailbox' = IF alive THEN Append(mailbox, TimerFlush) ELSE mailbox
    /\ UNCHANGED <<config, alive, pending, batch_started_at, reply, flushNows, faults, misplaced>>

\* Time passes.  A timer that is due may still have to wait for a thread.
Older(a) == IF a = None THEN None ELSE IF a < MaxWait THEN a + 1 ELSE a

Tick ==
    /\ timers' = [t \in Ticks |->
                    LET next == IF t < MaxWait THEN timers[t + 1] ELSE 0
                    IN  IF t = 0 THEN timers[0] + next ELSE next]
    /\ batch_started_at' = Older(batch_started_at)
    /\ <<timers', batch_started_at'>> # <<timers, batch_started_at>>
    /\ UNCHANGED <<config, mailbox, alive, pending, reply, flushNows, faults, misplaced>>

\* The actor is stopped.  post_stop answers the batch; the channels of the
\* messages it never handled are closed.
Stop ==
    LET queued == {q \in Requests : Submit(q) \in {mailbox[i] : i \in DOMAIN mailbox}}
        batch  == {pending[i] : i \in DOMAIN pending}
    IN
    /\ alive /\ alive' = FALSE
    /\ mailbox' = <<>> /\ pending' = <<>>
    /\ reply' = [q \in Requests |-> CASE q \in batch  -> Err("server stopped")
                                      [] q \in queued -> Err("channel closed")
                                      [] OTHER        -> reply[q]]
    /\ UNCHANGED <<config, batch_started_at, timers, flushNows, faults, misplaced>>

-----------------------------------------------------------------------------
(* flush, schedule_timer *)

\* Mutant of Zip: the results are handed out whatever their number is.
ZipAnyLength(batch, results) ==
    [i \in DOMAIN batch |-> IF i \in DOMAIN results THEN Ok(results[i]) ELSE Err("channel closed")]

\* What the caller of each request of the batch receives.
Zip(batch, results) ==
    [i \in DOMAIN batch |-> IF Len(results) = Len(batch) THEN Ok(results[i]) ELSE Err("wrong number")]

Answer(old, batch, answers) ==
    [q \in Requests |->
        IF \E i \in DOMAIN batch : batch[i] = q
        THEN answers[CHOOSE i \in DOMAIN batch : batch[i] = q]
        ELSE old[q]]

\* What BatchFn may do with a batch: answer every request, or break its
\* contract with too few results, too many, some in another's place, or a panic.
Outcomes(batch) ==
    {[results |-> batch, panics |-> FALSE, fault |-> 0]}
    \cup (IF faults < MaxFaults
          THEN {[results |-> r, panics |-> FALSE, fault |-> 1] :
                   r \in {Tail(batch), Append(batch, Head(batch))}
                        \cup [DOMAIN batch -> {batch[i] : i \in DOMAIN batch}]}
               \cup {[results |-> <<>>, panics |-> TRUE, fault |-> 1]}
          ELSE {})

\* The requests of the batch in whose place the results have another's response.
Misplaced(batch, results) ==
    IF Len(results) = Len(batch)
    THEN {batch[i] : i \in {j \in DOMAIN batch : results[j] # batch[j]}} ELSE {}

\* The batch is taken before BatchFn is called: if it panics the channels are
\* closed and the actor's new instance starts without a batch.
Flush(old, batch) ==
    \E o \in Outcomes(batch) :
        /\ pending' = <<>> /\ batch_started_at' = None
        /\ faults' = faults + o.fault
        /\ misplaced' = misplaced \cup Misplaced(batch, o.results)
        /\ reply' = Answer(old, batch, IF o.panics
                                       THEN [i \in DOMAIN batch |-> Err("channel closed")]
                                       ELSE Zip(batch, o.results))

ScheduleTimer == timers' = [timers EXCEPT ![MaxWait] = @ + 1]

-----------------------------------------------------------------------------
(* DynamicBatchingServer::handle *)

Handling(type) ==
    /\ alive /\ mailbox # <<>> /\ Head(mailbox).type = type
    /\ mailbox' = Tail(mailbox)
    /\ UNCHANGED <<config, alive, flushNows>>

\* pending.len() >= max_batch
Full(n) == n >= config.max_batch

\* Mutant of StartTimer: a timer that still runs is taken to be good enough.
StartTimerIfNone(was_empty) ==
    IF was_empty /\ \A t \in Ticks : timers[t] = 0 THEN ScheduleTimer ELSE UNCHANGED timers

\* The first request of a batch starts a timer.
StartTimer(was_empty) == IF was_empty THEN ScheduleTimer ELSE UNCHANGED timers

\* The request joins the batch, which is flushed when it is full.
Join(old, batch, q) ==
    /\ StartTimer(batch = <<>>)
    /\ IF Full(Len(batch) + 1)
       THEN Flush(old, Append(batch, q))
       ELSE /\ pending' = Append(batch, q)
            /\ batch_started_at' = IF batch = <<>> THEN 0 ELSE batch_started_at
            /\ reply' = old /\ UNCHANGED <<faults, misplaced>>

\* The overflow policies.  DropOldest takes the first of an empty vector when
\* max_batch is 0: the actor panics, the request's channel is closed and a new
\* instance takes over.
Overflow(q) ==
    IF config.overflow = "DropOldest" /\ pending # <<>>
    THEN Join([reply EXCEPT ![Head(pending)] = Err("dropped by overflow")], Tail(pending), q)
    ELSE /\ reply' = [reply EXCEPT ![q] = IF config.overflow = "Reject"
                                          THEN Err("batch full") ELSE Err("channel closed")]
         /\ UNCHANGED <<pending, batch_started_at, timers, faults, misplaced>>

HandleSubmit ==
    /\ Handling("Submit")
    /\ IF Full(Len(pending)) THEN Overflow(Head(mailbox).req)
                             ELSE Join(reply, pending, Head(mailbox).req)

\* Mutant of TimerAction: every timer is set again, also without a batch.
TimerActionForever ==
    IF batch_started_at = MaxWait
    THEN Flush(reply, pending) /\ UNCHANGED timers
    ELSE ScheduleTimer /\ UNCHANGED <<pending, batch_started_at, reply, faults, misplaced>>

\* Mutant of TimerAction: the age is compared the wrong way round.
TimerActionSwapped ==
    IF batch_started_at \in {None, MaxWait}
    THEN UNCHANGED <<pending, batch_started_at, timers, reply, faults, misplaced>>
    ELSE Flush(reply, pending) /\ UNCHANGED timers

\* A timer of an earlier batch finds a batch that is too young and is set
\* again; without a batch it ends.
TimerAction ==
    CASE batch_started_at = None ->
             UNCHANGED <<pending, batch_started_at, timers, reply, faults, misplaced>>
      [] batch_started_at = MaxWait ->
             Flush(reply, pending) /\ UNCHANGED timers
      [] OTHER ->
             ScheduleTimer /\ UNCHANGED <<pending, batch_started_at, reply, faults, misplaced>>

HandleTimerFlush == Handling("TimerFlush") /\ TimerAction

HandleFlushNow ==
    /\ Handling("FlushNow")
    /\ IF pending # <<>> THEN Flush(reply, pending)
       ELSE UNCHANGED <<pending, batch_started_at, reply, faults, misplaced>>
    /\ UNCHANGED timers

-----------------------------------------------------------------------------
Server == HandleSubmit \/ HandleTimerFlush \/ HandleFlushNow

Next ==
    \/ \E q \in Requests : SendSubmit(q)
    \/ SendFlushNow \/ TimerFires \/ Tick \/ Stop
    \/ Server

Spec == Init /\ [][Next]_vars

\* The actor and the timer tasks are scheduled, and time passes.
FairSpec == Spec /\ WF_vars(Server) /\ WF_vars(TimerFires) /\ WF_vars(Tick)

-----------------------------------------------------------------------------
(* Properties *)

\* The wait of a batch ends on time: the timer started for the batch runs out
\* when the batch is max_wait old and not earlier, however many timers of
\* earlier batches fire in between.
WakeUpDue ==
    alive /\ batch_started_at # None =>
        \/ timers[MaxWait - batch_started_at] > 0
        \/ batch_started_at = MaxWait /\ TimerFlush \in {mailbox[i] : i \in DOMAIN mailbox}

\* The batch has an age exactly when it has requests, and these wait for their
\* reply.
TypeOK ==
    /\ batch_started_at \in {None} \cup Ticks
    /\ alive => (batch_started_at = None <=> pending = <<>>)
    /\ \A i \in DOMAIN pending : reply[pending[i]] = Waiting
    /\ timers \in [Ticks -> Nat]
    /\ reply \in [Requests -> {Unsent, Waiting} \cup Errors \cup {Ok(q) : q \in Requests}]

\* Nobody receives the response to somebody else's request, unless BatchFn
\* itself put that response in its place: flush cannot see this in a result of
\* the right length.  Too few results, too many and a panic mix up nobody, nor
\* do the drops of DropOldest.
OwnResponse == \A q, p \in Requests : reply[q] = Ok(p) => p = q \/ q \in misplaced

\* Every submitted request is answered, or its channel is closed.
Answered == \A q \in Requests : reply[q] = Waiting ~> reply[q] # Waiting

\* When no more requests come all timers end.
TimersEnd == <>[](\A t \in Ticks : timers[t] = 0)

=============================================================================
