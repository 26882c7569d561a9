--------------------------- MODULE BatchingProofs ---------------------------
(***************************************************************************)
(* WakeUpDue and OwnResponse for any batch size, max_wait, number of        *)
(* requests, flushes and faults of BatchFn.                                 *)
(***************************************************************************)
EXTENDS Batching, TLAPS

-----------------------------------------------------------------------------
Messages   == [type : {"Submit"}, req : Requests] \cup {TimerFlush, FlushNow}
ReplyValue == {Unsent, Waiting} \cup Errors \cup {Ok(q) : q \in Requests}

\* The state TypeOK does not speak of.
MoreTypes ==
    /\ alive \in BOOLEAN
    /\ mailbox \in Seq(Messages)
    /\ pending \in Seq(Requests)
    /\ faults \in Nat

\* A request is in the batch once.
BatchInv == \A i, j \in DOMAIN pending : pending[i] = pending[j] => i = j

\* A request that was sent and not handled waits, is on its way once and is
\* not in the batch.
QueuedInv ==
    \A i \in DOMAIN mailbox : mailbox[i].type = "Submit" =>
        /\ reply[mailbox[i].req] = Waiting
        /\ \A j \in DOMAIN pending : pending[j] # mailbox[i].req
        /\ \A j \in DOMAIN mailbox : mailbox[j] = mailbox[i] => j = i

\* The inductive invariant: a request has one reply channel, so where the
\* request is and what its caller received go together.
IInv ==
    /\ TypeOK
    /\ MoreTypes
    /\ BatchInv
    /\ QueuedInv
    /\ OwnResponse
    /\ WakeUpDue

-----------------------------------------------------------------------------
\* The elements of a sequence over S are in S.
LEMMA ElementFacts ==
    ASSUME NEW S, NEW q \in Seq(S), NEW i \in DOMAIN q
    PROVE  q[i] \in S
  OBVIOUS

\* Taking the first element moves the others one place up.
LEMMA TailFacts ==
    ASSUME NEW S, NEW q \in Seq(S), q # <<>>
    PROVE  /\ Tail(q) \in Seq(S)
           /\ Head(q) = q[1] /\ Head(q) \in S /\ 1 \in DOMAIN q
           /\ \A i \in DOMAIN Tail(q) : i \in Nat /\ i > 0 /\ i + 1 \in DOMAIN q /\ Tail(q)[i] = q[i + 1]
           /\ \A i \in DOMAIN q : i # 1 => i - 1 \in DOMAIN Tail(q) /\ Tail(q)[i - 1] = q[i]
  OBVIOUS

\* Adding an element leaves the others where they are.
LEMMA AppendFacts ==
    ASSUME NEW S, NEW q \in Seq(S), NEW e \in S
    PROVE  /\ Append(q, e) \in Seq(S) /\ Append(q, e) # <<>>
           /\ Len(q) + 1 \in DOMAIN Append(q, e) /\ Append(q, e)[Len(q) + 1] = e
           /\ \A i \in DOMAIN q : i \in DOMAIN Append(q, e) /\ Append(q, e)[i] = q[i] /\ i # Len(q) + 1
           /\ \A i \in DOMAIN Append(q, e) :
                 \/ i \in DOMAIN q /\ Append(q, e)[i] = q[i]
                 \/ i = Len(q) + 1 /\ Append(q, e)[i] = e
  OBVIOUS

\* The values a caller may see are told apart by their tags.
LEMMA ReplyFacts ==
    /\ \A q \in Requests : Ok(q) \in ReplyValue
    /\ \A e \in Errors : e \in ReplyValue
    /\ Unsent \in ReplyValue /\ Waiting \in ReplyValue /\ Unsent # Waiting
    /\ \A q, p \in Requests : Ok(q) = Ok(p) => q = p
    /\ \A e \in Errors, p \in Requests : e # Ok(p)
    /\ \A p \in Requests : Unsent # Ok(p) /\ Waiting # Ok(p)
    /\ Err("batch full") \in Errors /\ Err("dropped by overflow") \in Errors
    /\ Err("wrong number") \in Errors /\ Err("server stopped") \in Errors
    /\ Err("channel closed") \in Errors
  <1>1. /\ Err("batch full") \in Errors /\ Err("dropped by overflow") \in Errors
        /\ Err("wrong number") \in Errors /\ Err("server stopped") \in Errors
        /\ Err("channel closed") \in Errors
    BY DEF Errors
  <1>2. \A e \in Errors : e[1] = "Err"
    <2>1. \A x : Err(x)[1] = "Err"
      BY DEF Err
    <2>2. \A e \in Errors : \E x : e = Err(x)
      BY Zenon DEF Errors
    <2> QED
      BY <2>1, <2>2
  <1>3. \A q \in Requests : Ok(q)[1] = "Ok" /\ Ok(q)[2] = q
    BY DEF Ok
  <1>4. Unsent[1] = "unsent" /\ Waiting[1] = "waiting"
    BY DEF Unsent, Waiting
  <1>5. /\ \A q \in Requests : Ok(q) \in ReplyValue
        /\ \A e \in Errors : e \in ReplyValue
        /\ Unsent \in ReplyValue /\ Waiting \in ReplyValue
    BY DEF ReplyValue
  <1>6. Unsent # Waiting /\ \A p \in Requests : Unsent # Ok(p) /\ Waiting # Ok(p)
    BY <1>3, <1>4
  <1>7. \A q, p \in Requests : Ok(q) = Ok(p) => q = p
    BY <1>3
  <1>8. \A e \in Errors, p \in Requests : e # Ok(p)
    BY <1>2, <1>3
  <1> QED
    BY <1>1, <1>5, <1>6, <1>7, <1>8

\* The messages are told apart by their type.
LEMMA MessageFacts ==
    /\ \A q \in Requests : Submit(q) \in Messages /\ Submit(q).type = "Submit" /\ Submit(q).req = q
    /\ TimerFlush \in Messages /\ TimerFlush.type = "TimerFlush"
    /\ FlushNow \in Messages /\ FlushNow.type = "FlushNow"
    /\ \A m \in Messages : m.type = "Submit" => m.req \in Requests /\ m = Submit(m.req)
  BY DEF Messages, Submit, TimerFlush, FlushNow

\* The ages of a batch and the places of the timers.
LEMMA TickFacts ==
    /\ MaxWait \in Nat /\ 0 \in Ticks /\ MaxWait \in Ticks /\ None \notin Ticks
    /\ \A a \in Ticks : a \in Nat /\ MaxWait - a \in Ticks /\ a <= MaxWait
  BY BatchingAssumption DEF Ticks, None

\* The server starts without a batch.
LEMMA InitInv == Init => IInv
  <1> SUFFICES ASSUME Init PROVE IInv
    OBVIOUS
  <1>1. reply \in [Requests -> ReplyValue] /\ \A q \in Requests : reply[q] = Unsent
    BY ReplyFacts DEF Init
  <1>2. TypeOK
    BY <1>1, TickFacts DEF Init, TypeOK, ReplyValue
  <1>3. MoreTypes /\ BatchInv /\ QueuedInv /\ WakeUpDue
    BY DEF Init, MoreTypes, BatchInv, QueuedInv, WakeUpDue
  <1>4. OwnResponse
    BY <1>1, ReplyFacts DEF OwnResponse
  <1> QED
    BY <1>2, <1>3, <1>4 DEF IInv

-----------------------------------------------------------------------------
(* flush *)

\* What BatchFn's outcomes come to: the request at a place of the batch gets
\* an error or the response in that place, which is its own unless BatchFn
\* misplaced it; a response is missing or too much only in a result that fails.
LEMMA ZipFacts ==
    ASSUME NEW batch \in Seq(Requests), NEW o \in Outcomes(batch), ~o.panics,
           NEW i \in DOMAIN batch
    PROVE  \/ Zip(batch, o.results)[i] = Err("wrong number")
           \/ \E p \in Requests :
                 Zip(batch, o.results)[i] = Ok(p) /\ (p = batch[i] \/ batch[i] \in Misplaced(batch, o.results))
  <1>1. CASE Len(o.results) # Len(batch)
    BY <1>1 DEF Zip
  <1>2. CASE Len(o.results) = Len(batch)
    <2>1. o.results[i] \in Requests
      <3>1. \/ o.results = batch \/ o.results = Tail(batch)
            \/ o.results = Append(batch, Head(batch))
            \/ o.results \in [DOMAIN batch -> {batch[j] : j \in DOMAIN batch}]
        BY DEF Outcomes
      <3>2. batch # <<>> /\ \A j \in DOMAIN batch : batch[j] \in Requests
        BY ElementFacts
      <3>3. Len(Tail(batch)) # Len(batch) /\ Len(Append(batch, Head(batch))) # Len(batch)
        BY <3>2
      <3> QED
        BY <1>2, <3>1, <3>2, <3>3
    <2>2. Zip(batch, o.results)[i] = Ok(o.results[i])
      BY <1>2 DEF Zip
    <2>3. o.results[i] = batch[i] \/ batch[i] \in Misplaced(batch, o.results)
      BY <1>2 DEF Misplaced
    <2> QED
      BY <2>1, <2>2, <2>3
  <1> QED
    BY <1>1, <1>2

\* v is an error or q's own response, unless q is one of the misplaced ones.
Own(q, v, others) ==
    \/ v \in Errors
    \/ \E p \in Requests : v = Ok(p) /\ (p = q \/ q \in others)

\* A flush answers every request of the batch, with an error or a response that
\* is its own unless BatchFn misplaced it, leaves the others alone and ends the
\* batch.
LEMMA FlushFacts ==
    ASSUME NEW old \in [Requests -> ReplyValue], NEW batch \in Seq(Requests),
           \A q, p \in Requests : old[q] = Ok(p) => p = q \/ q \in misplaced,
           faults \in Nat,
           Flush(old, batch)
    PROVE  /\ pending' = <<>> /\ batch_started_at' = None /\ faults' \in Nat
           /\ reply' \in [Requests -> ReplyValue]
           /\ \A q, p \in Requests : reply'[q] = Ok(p) => p = q \/ q \in misplaced'
           /\ \A q \in Requests : (\A i \in DOMAIN batch : batch[i] # q) => reply'[q] = old[q]
  <1>1. PICK o \in Outcomes(batch) :
            /\ pending' = <<>> /\ batch_started_at' = None
            /\ faults' = faults + o.fault
            /\ misplaced' = misplaced \cup Misplaced(batch, o.results)
            /\ reply' = Answer(old, batch, IF o.panics
                                           THEN [i \in DOMAIN batch |-> Err("channel closed")]
                                           ELSE Zip(batch, o.results))
    BY DEF Flush
  <1>2. faults' \in Nat
    <2>1. o.fault = 0 \/ o.fault = 1
      BY DEF Outcomes
    <2>2. faults' = faults + o.fault
      BY <1>1, Zenon
    <2> QED
      BY <2>1, <2>2
  <1> DEFINE answers == IF o.panics THEN [i \in DOMAIN batch |-> Err("channel closed")]
                                    ELSE Zip(batch, o.results)
  <1>3. ASSUME NEW i \in DOMAIN batch
        PROVE  Own(batch[i], answers[i], misplaced')
    <2>1. CASE o.panics
      BY <2>1, ReplyFacts DEF Own
    <2>2. CASE ~o.panics
      <3>1. Misplaced(batch, o.results) \subseteq misplaced'
        BY <1>1, Zenon
      <3>2. answers[i] = Zip(batch, o.results)[i]
        BY <2>2
      <3>3. \/ answers[i] = Err("wrong number")
            \/ \E p \in Requests :
                  answers[i] = Ok(p) /\ (p = batch[i] \/ batch[i] \in Misplaced(batch, o.results))
        BY <2>2, <3>2, ZipFacts, Zenon
      <3> HIDE DEF answers
      <3> QED
        BY <3>1, <3>3, ReplyFacts DEF Own
    <2> QED
      BY <2>1, <2>2
  <1>4. reply' = Answer(old, batch, answers)
    BY <1>1
  <1> HIDE DEF answers
  <1>5. ASSUME NEW q \in Requests
        PROVE  reply'[q] = old[q] \/ Own(q, reply'[q], misplaced')
    <2>1. CASE \E i \in DOMAIN batch : batch[i] = q
      <3> DEFINE k == CHOOSE i \in DOMAIN batch : batch[i] = q
      <3>1. k \in DOMAIN batch /\ batch[k] = q
        BY <2>1
      <3>2. reply'[q] = answers[k]
        BY <1>4, <2>1 DEF Answer
      <3> HIDE DEF k
      <3>3. Own(batch[k], answers[k], misplaced')
        BY <1>3, <3>1
      <3> QED
        BY <3>1, <3>2, <3>3
    <2>2. CASE ~\E i \in DOMAIN batch : batch[i] = q
      BY <1>4, <2>2 DEF Answer
    <2> QED
      BY <2>1, <2>2
  <1>6. \A q \in Requests : (\A i \in DOMAIN batch : batch[i] # q) => reply'[q] = old[q]
    BY <1>4 DEF Answer
  <1>7. reply' \in [Requests -> ReplyValue]
    <2>1. \A q \in Requests : reply'[q] \in ReplyValue
      BY <1>5, ReplyFacts DEF Own
    <2>2. reply' = [q \in Requests |-> reply'[q]]
      BY <1>4 DEF Answer
    <2> QED
      BY <2>1, <2>2
  <1>8. ASSUME NEW q \in Requests, NEW p \in Requests, reply'[q] = Ok(p)
        PROVE  p = q \/ q \in misplaced'
    <2>1. CASE reply'[q] = old[q]
      <3>1. misplaced \subseteq misplaced'
        BY <1>1, Zenon
      <3> QED
        BY <1>8, <2>1, <3>1
    <2>2. CASE Own(q, reply'[q], misplaced')
      BY <1>8, <2>2, ReplyFacts DEF Own
    <2> QED
      BY <1>5, <2>1, <2>2
  <1> QED
    BY <1>1, <1>2, <1>6, <1>7, <1>8

-----------------------------------------------------------------------------
(* The world around the actor *)

\* A message that is not a request joins the mailbox.
LEMMA TellFacts ==
    ASSUME IInv, NEW m \in Messages, m.type # "Submit", mailbox' = Append(mailbox, m),
           UNCHANGED <<pending, reply>>
    PROVE  /\ mailbox' \in Seq(Messages)
           /\ QueuedInv'
           /\ \A i \in DOMAIN mailbox : i \in DOMAIN mailbox' /\ mailbox'[i] = mailbox[i]
           /\ \E i \in DOMAIN mailbox' : mailbox'[i] = m
  <1>1. mailbox \in Seq(Messages)
    BY DEF IInv, MoreTypes
  <1>2. /\ mailbox' \in Seq(Messages)
        /\ \A i \in DOMAIN mailbox : i \in DOMAIN mailbox' /\ mailbox'[i] = mailbox[i]
        /\ \E i \in DOMAIN mailbox' : mailbox'[i] = m
        /\ \A i \in DOMAIN mailbox' : mailbox'[i].type = "Submit" =>
              i \in DOMAIN mailbox /\ mailbox'[i] = mailbox[i]
    BY <1>1, AppendFacts
  <1>3. QueuedInv'
    BY <1>2 DEF IInv, QueuedInv
  <1> QED
    BY <1>2, <1>3

\* A caller sends its request, or finds the server stopped.
LEMMA SendSubmitStep ==
    ASSUME IInv, NEW q \in Requests, SendSubmit(q)
    PROVE  IInv'
  <1>0. /\ TypeOK /\ MoreTypes /\ BatchInv /\ QueuedInv /\ OwnResponse /\ WakeUpDue
        /\ reply \in [Requests -> ReplyValue] /\ mailbox \in Seq(Messages) /\ pending \in Seq(Requests)
        /\ reply[q] = Unsent
    BY DEF IInv, MoreTypes, TypeOK, ReplyValue, SendSubmit
  <1>u. UNCHANGED <<config, alive, pending, batch_started_at, timers, flushNows, faults, misplaced>>
    BY DEF SendSubmit
  <1>1. PICK v \in {Waiting, Err("channel closed")} : reply' = [reply EXCEPT ![q] = v]
    BY DEF SendSubmit
  <1>2. v \in ReplyValue /\ \A p \in Requests : v # Ok(p)
    BY ReplyFacts
  <1>3. reply' \in [Requests -> ReplyValue] /\ reply'[q] = v
        /\ \A p \in Requests : p # q => reply'[p] = reply[p]
    BY <1>0, <1>1, <1>2
  <1>4. \A i \in DOMAIN pending : pending[i] \in Requests /\ pending[i] # q
    <2>1. \A i \in DOMAIN pending : pending[i] \in Requests
      BY <1>0, ElementFacts
    <2>2. \A i \in DOMAIN pending : reply[pending[i]] # Unsent
      BY <1>0, ReplyFacts DEF TypeOK
    <2> QED
      BY <1>0, <2>1, <2>2
  <1>5. TypeOK'
    BY <1>0, <1>u, <1>3, <1>4 DEF TypeOK, ReplyValue
  <1>6. BatchInv' /\ OwnResponse'
    BY <1>0, <1>u, <1>2, <1>3 DEF BatchInv, OwnResponse
  <1>7. \A i \in DOMAIN mailbox : mailbox[i].type = "Submit" =>
            mailbox[i].req \in Requests /\ mailbox[i].req # q
    <2>1. \A i \in DOMAIN mailbox : mailbox[i] \in Messages
      BY <1>0, ElementFacts
    <2>2. \A i \in DOMAIN mailbox : mailbox[i].type = "Submit" => mailbox[i].req \in Requests
      BY <2>1, MessageFacts
    <2>3. \A i \in DOMAIN mailbox : mailbox[i].type = "Submit" => reply[mailbox[i].req] # Unsent
      BY <1>0, ReplyFacts DEF QueuedInv
    <2> QED
      BY <1>0, <2>2, <2>3
  <1>8. CASE mailbox' = mailbox
    <2>1. QueuedInv'
      BY <1>0, <1>u, <1>3, <1>7, <1>8 DEF QueuedInv
    <2>2. MoreTypes' /\ WakeUpDue'
      BY <1>0, <1>u, <1>8 DEF MoreTypes, WakeUpDue
    <2> QED
      BY <1>5, <1>6, <2>1, <2>2 DEF IInv
  <1>9. CASE mailbox' = Append(mailbox, Submit(q)) /\ v = Waiting
    <2>1. /\ mailbox' \in Seq(Messages)
          /\ \A i \in DOMAIN mailbox : i \in DOMAIN mailbox' /\ mailbox'[i] = mailbox[i]
          /\ \A i \in DOMAIN mailbox' : \/ i \in DOMAIN mailbox /\ mailbox'[i] = mailbox[i]
                                        \/ i = Len(mailbox) + 1 /\ mailbox'[i] = Submit(q)
      BY <1>0, <1>9, AppendFacts, MessageFacts
    <2>2. Submit(q).type = "Submit" /\ Submit(q).req = q
      BY MessageFacts
    <2>3. ASSUME NEW i \in DOMAIN mailbox', mailbox'[i].type = "Submit"
          PROVE  /\ reply'[mailbox'[i].req] = Waiting
                 /\ \A j \in DOMAIN pending' : pending'[j] # mailbox'[i].req
                 /\ \A j \in DOMAIN mailbox' : mailbox'[j] = mailbox'[i] => j = i
      <3>1. CASE i \in DOMAIN mailbox /\ mailbox'[i] = mailbox[i]
        <4>1. mailbox[i].req \in Requests /\ mailbox[i].req # q
          BY <1>7, <2>3, <3>1
        <4>2. \A j \in DOMAIN mailbox' : mailbox'[j] = mailbox'[i] => j \in DOMAIN mailbox /\ mailbox'[j] = mailbox[j]
          BY <2>1, <2>2, <3>1, <4>1
        <4>3. pending' = pending
          BY <1>u
        <4>4. /\ reply[mailbox[i].req] = Waiting
              /\ \A j \in DOMAIN pending : pending[j] # mailbox[i].req
              /\ \A j \in DOMAIN mailbox : mailbox[j] = mailbox[i] => j = i
          BY <1>0, <2>3, <3>1 DEF QueuedInv
        <4> QED
          BY <1>3, <3>1, <4>1, <4>2, <4>3, <4>4
      <3>2. CASE i = Len(mailbox) + 1 /\ mailbox'[i] = Submit(q)
        BY <1>u, <1>3, <1>4, <1>7, <1>9, <2>1, <2>2, <3>2
      <3> QED
        BY <2>1, <3>1, <3>2
    <2>4. QueuedInv'
      BY <2>3 DEF QueuedInv
    <2>5. MoreTypes' /\ WakeUpDue'
      BY <1>0, <1>u, <2>1 DEF MoreTypes, WakeUpDue
    <2> QED
      BY <1>5, <1>6, <2>4, <2>5 DEF IInv
  <1>10. mailbox' = mailbox \/ (mailbox' = Append(mailbox, Submit(q)) /\ v = Waiting)
    <2>1. CASE alive
      <3>1. reply' = [reply EXCEPT ![q] = Waiting] /\ mailbox' = Append(mailbox, Submit(q))
        BY <2>1 DEF SendSubmit
      <3> QED
        BY <1>0, <1>3, <3>1
    <2>2. CASE ~alive
      BY <2>2 DEF SendSubmit
    <2> QED
      BY <2>1, <2>2
  <1> QED
    BY <1>8, <1>9, <1>10

\* FlushNow and the timers' messages carry no request; a timer that fires
\* is in the mailbox from then on.
LEMMA TellStep ==
    ASSUME IInv, SendFlushNow \/ TimerFires
    PROVE  IInv'
  <1>0. TypeOK /\ MoreTypes /\ BatchInv /\ QueuedInv /\ OwnResponse /\ WakeUpDue
    BY DEF IInv
  <1>1. CASE SendFlushNow
    <2>1. mailbox' = Append(mailbox, FlushNow) /\ UNCHANGED <<pending, reply>>
      BY <1>1 DEF SendFlushNow
    <2>2. /\ mailbox' \in Seq(Messages) /\ QueuedInv'
          /\ \A i \in DOMAIN mailbox : i \in DOMAIN mailbox' /\ mailbox'[i] = mailbox[i]
      BY <2>1, MessageFacts, TellFacts
    <2>3. TypeOK' /\ MoreTypes' /\ BatchInv' /\ OwnResponse'
      BY <1>0, <1>1, <2>2 DEF SendFlushNow, TypeOK, MoreTypes, BatchInv, OwnResponse
    <2>4. WakeUpDue'
      BY <1>0, <1>1, <2>2 DEF SendFlushNow, WakeUpDue
    <2> QED
      BY <2>2, <2>3, <2>4 DEF IInv
  <1>2. CASE TimerFires
    <2>1. timers' \in [Ticks -> Nat] /\ \A t \in Ticks : t # 0 => timers'[t] = timers[t]
      <3>1. timers[0] \in Nat /\ timers[0] - 1 \in Nat /\ timers \in [Ticks -> Nat]
        BY <1>0, <1>2, TickFacts DEF TypeOK, TimerFires
      <3> QED
        BY <1>2, <3>1 DEF TimerFires
    <2>u. UNCHANGED <<alive, pending, batch_started_at, reply, faults, misplaced>>
      BY <1>2 DEF TimerFires
    <2>2. TypeOK' /\ BatchInv' /\ OwnResponse'
      BY <1>0, <2>1, <2>u DEF TypeOK, BatchInv, OwnResponse
    <2>3. CASE ~alive
      <3>1. mailbox' = mailbox
        BY <1>2, <2>3 DEF TimerFires
      <3> QED
        BY <1>0, <2>2, <2>u, <2>3, <3>1 DEF IInv, MoreTypes, QueuedInv, WakeUpDue
    <2>4. CASE alive
      <3>1. mailbox' = Append(mailbox, TimerFlush)
        BY <1>2, <2>4 DEF TimerFires
      <3>2. /\ mailbox' \in Seq(Messages) /\ QueuedInv'
            /\ \A i \in DOMAIN mailbox : i \in DOMAIN mailbox' /\ mailbox'[i] = mailbox[i]
            /\ \E i \in DOMAIN mailbox' : mailbox'[i] = TimerFlush
        BY <2>u, <3>1, MessageFacts, TellFacts
      <3>3. MoreTypes'
        BY <1>0, <2>u, <3>2 DEF MoreTypes
      <3>4. WakeUpDue'
        <4>1. SUFFICES ASSUME batch_started_at # None, batch_started_at # MaxWait
                       PROVE  timers'[MaxWait - batch_started_at] > 0
          BY <2>u, <3>2 DEF WakeUpDue
        <4>2. /\ batch_started_at \in Ticks
              /\ MaxWait - batch_started_at \in Ticks /\ MaxWait - batch_started_at # 0
          <5>1. batch_started_at \in Ticks
            BY <1>0, <4>1 DEF TypeOK
          <5>2. MaxWait - batch_started_at \in Ticks /\ batch_started_at \in Nat /\ MaxWait \in Nat
            BY <5>1, TickFacts
          <5> QED
            BY <4>1, <5>1, <5>2
        <4> QED
          BY <1>0, <2>1, <2>4, <4>1, <4>2 DEF WakeUpDue
      <3> QED
        BY <2>2, <3>2, <3>3, <3>4 DEF IInv
    <2> QED
      BY <2>3, <2>4
  <1> QED
    BY <1>1, <1>2

\* Time passes for the batch and for the timers alike.
LEMMA TickStep ==
    ASSUME IInv, Tick
    PROVE  IInv'
  <1>0. TypeOK /\ MoreTypes /\ BatchInv /\ QueuedInv /\ OwnResponse /\ WakeUpDue
    BY DEF IInv
  <1> DEFINE next(t) == IF t < MaxWait THEN timers[t + 1] ELSE 0
  <1>1. /\ timers' = [t \in Ticks |-> IF t = 0 THEN timers[0] + next(t) ELSE next(t)]
        /\ batch_started_at' = Older(batch_started_at)
        /\ UNCHANGED <<mailbox, alive, pending, reply, faults, misplaced>>
    BY DEF Tick
  <1>2. \A t \in Ticks : timers[t] \in Nat /\ next(t) \in Nat
    BY <1>0, TickFacts DEF TypeOK, Ticks
  <1>3. timers' \in [Ticks -> Nat]
    BY <1>1, <1>2, TickFacts
  <1>4. batch_started_at' \in {None} \cup Ticks /\ (batch_started_at' = None <=> batch_started_at = None)
    BY <1>0, <1>1, TickFacts DEF TypeOK, Older, Ticks
  <1>5. TypeOK'
    BY <1>0, <1>1, <1>3, <1>4 DEF TypeOK
  <1>6. MoreTypes' /\ BatchInv' /\ QueuedInv' /\ OwnResponse'
    BY <1>0, <1>1 DEF MoreTypes, BatchInv, QueuedInv, OwnResponse
  <1>7. WakeUpDue'
    <2>1. SUFFICES ASSUME alive, batch_started_at # None
                   PROVE  \/ timers'[MaxWait - batch_started_at'] > 0
                          \/ /\ batch_started_at' = MaxWait
                             /\ TimerFlush \in {mailbox[i] : i \in DOMAIN mailbox}
      BY <1>1, <1>4 DEF WakeUpDue
    <2> DEFINE a == batch_started_at
    <2>2. a \in Ticks /\ a \in Nat /\ a <= MaxWait /\ MaxWait - a \in Ticks /\ MaxWait \in Nat
      BY <1>0, <2>1, TickFacts DEF TypeOK
    <2>3. CASE a < MaxWait
      <3>1. batch_started_at' = a + 1 /\ timers[MaxWait - a] > 0
        BY <1>0, <1>1, <2>1, <2>2, <2>3 DEF WakeUpDue, Older
      <3>2. MaxWait - (a + 1) \in Ticks /\ MaxWait - (a + 1) < MaxWait
            /\ MaxWait - (a + 1) + 1 = MaxWait - a
        BY <2>2, <2>3 DEF Ticks
      <3>3. next(MaxWait - (a + 1)) > 0
        BY <3>1, <3>2
      <3>4. timers'[MaxWait - (a + 1)] > 0
        BY <1>1, <1>2, <3>2, <3>3, TickFacts
      <3> QED
        BY <3>1, <3>4
    <2>4. CASE a = MaxWait
      <3>1. batch_started_at' = a /\ MaxWait - a = 0
        BY <1>1, <2>1, <2>2, <2>4 DEF Older
      <3>2. timers[0] > 0 => timers'[0] > 0
        BY <1>1, <1>2, TickFacts
      <3> QED
        BY <1>0, <2>1, <2>4, <3>1, <3>2 DEF WakeUpDue
    <2> QED
      BY <2>2, <2>3, <2>4
  <1> QED
    BY <1>5, <1>6, <1>7 DEF IInv

\* Stopping answers everybody who waits, in the batch or in the mailbox.
LEMMA StopStep ==
    ASSUME IInv, Stop
    PROVE  IInv'
  <1>0. TypeOK /\ MoreTypes /\ OwnResponse /\ reply \in [Requests -> ReplyValue]
    BY DEF IInv, TypeOK, ReplyValue
  <1>1. alive' = FALSE /\ mailbox' = <<>> /\ pending' = <<>>
        /\ UNCHANGED <<batch_started_at, timers, faults, misplaced>>
    BY DEF Stop
  <1>2. /\ \A q \in Requests : reply'[q] = reply[q] \/ reply'[q] \in Errors
        /\ reply' = [q \in Requests |-> reply'[q]]
    <2> DEFINE queued == {q \in Requests : Submit(q) \in {mailbox[i] : i \in DOMAIN mailbox}}
               batch  == {pending[i] : i \in DOMAIN pending}
               f(q)   == CASE q \in batch  -> Err("server stopped")
                           [] q \in queued -> Err("channel closed")
                           [] OTHER        -> reply[q]
    <2>1. reply' = [q \in Requests |-> f(q)]
      BY DEF Stop
    <2> HIDE DEF queued, batch
    <2>2. \A q \in Requests : f(q) \in {reply[q], Err("server stopped"), Err("channel closed")}
      OBVIOUS
    <2> HIDE DEF f
    <2> QED
      BY <2>1, <2>2, ReplyFacts
  <1>3. reply' \in [Requests -> ReplyValue]
    BY <1>0, <1>2, ReplyFacts
  <1>4. TypeOK'
    <2>1. reply' \in [Requests -> {Unsent, Waiting} \cup Errors \cup {Ok(q) : q \in Requests}]
      BY <1>3 DEF ReplyValue
    <2>2. DOMAIN pending' = {}
      BY <1>1
    <2> QED
      BY <1>0, <1>1, <2>1, <2>2 DEF TypeOK
  <1>5. MoreTypes'
    <2>1. <<>> \in Seq(Messages) /\ <<>> \in Seq(Requests)
      OBVIOUS
    <2> QED
      BY <1>0, <1>1, <2>1 DEF MoreTypes
  <1>6. BatchInv' /\ QueuedInv' /\ WakeUpDue'
    <2>1. DOMAIN mailbox' = {} /\ DOMAIN pending' = {}
      BY <1>1
    <2> QED
      BY <1>1, <2>1 DEF BatchInv, QueuedInv, WakeUpDue
  <1>7. OwnResponse'
    BY <1>0, <1>1, <1>2, ReplyFacts DEF OwnResponse
  <1> QED
    BY <1>4, <1>5, <1>6, <1>7 DEF IInv

-----------------------------------------------------------------------------
(* DynamicBatchingServer::handle *)

\* q waits in the mailbox behind the message that is being handled.
StillQueued(q) == \E i \in DOMAIN Tail(mailbox) : Tail(mailbox)[i] = Submit(q)

\* Taking a message leaves the others, and they name other requests.
LEMMA HandlingFacts ==
    ASSUME IInv, NEW type, Handling(type)
    PROVE  /\ alive /\ UNCHANGED <<config, alive, flushNows>>
           /\ mailbox' \in Seq(Messages) /\ mailbox' = Tail(mailbox)
           /\ Head(mailbox) \in Messages /\ Head(mailbox).type = type
           /\ \A q \in Requests : StillQueued(q) =>
                 /\ reply[q] = Waiting
                 /\ \A i \in DOMAIN pending : pending[i] # q
                 /\ Head(mailbox) # Submit(q)
           /\ \A i, j \in DOMAIN mailbox' :
                 mailbox'[i].type = "Submit" /\ mailbox'[i] = mailbox'[j] => i = j
           /\ type # "TimerFlush" /\ TimerFlush \in {mailbox[i] : i \in DOMAIN mailbox}
                 => TimerFlush \in {mailbox'[i] : i \in DOMAIN mailbox'}
  <1>1. /\ alive /\ UNCHANGED <<config, alive, flushNows>> /\ mailbox # <<>>
        /\ mailbox' = Tail(mailbox) /\ Head(mailbox).type = type /\ mailbox \in Seq(Messages)
    BY DEF IInv, MoreTypes, Handling
  <1>2. /\ Tail(mailbox) \in Seq(Messages)
        /\ Head(mailbox) = mailbox[1] /\ Head(mailbox) \in Messages /\ 1 \in DOMAIN mailbox
        /\ \A i \in DOMAIN Tail(mailbox) :
              i \in Nat /\ i > 0 /\ i + 1 \in DOMAIN mailbox /\ Tail(mailbox)[i] = mailbox[i + 1]
        /\ \A i \in DOMAIN mailbox :
              i # 1 => i - 1 \in DOMAIN Tail(mailbox) /\ Tail(mailbox)[i - 1] = mailbox[i]
    BY <1>1, TailFacts
  <1>3. ASSUME NEW q \in Requests, StillQueued(q)
        PROVE  /\ reply[q] = Waiting
               /\ \A i \in DOMAIN pending : pending[i] # q
               /\ Head(mailbox) # Submit(q)
    <2>1. PICK i \in DOMAIN Tail(mailbox) : Tail(mailbox)[i] = Submit(q)
      BY <1>3 DEF StillQueued
    <2>2. i + 1 \in DOMAIN mailbox /\ mailbox[i + 1] = Submit(q) /\ i + 1 # 1
      BY <1>2, <2>1
    <2>3. mailbox[i + 1].type = "Submit" /\ mailbox[i + 1].req = q
      BY <2>2, MessageFacts
    <2> QED
      BY <1>2, <2>2, <2>3 DEF IInv, QueuedInv
  <1>4. ASSUME NEW i \in DOMAIN Tail(mailbox), NEW j \in DOMAIN Tail(mailbox),
               Tail(mailbox)[i].type = "Submit", Tail(mailbox)[i] = Tail(mailbox)[j]
        PROVE  i = j
    <2>1. i + 1 = j + 1
      BY <1>2, <1>4 DEF IInv, QueuedInv
    <2> QED
      BY <1>2, <2>1
  <1>5. ASSUME type # "TimerFlush", NEW i \in DOMAIN mailbox, mailbox[i] = TimerFlush
        PROVE  \E j \in DOMAIN Tail(mailbox) : Tail(mailbox)[j] = TimerFlush
    BY <1>1, <1>2, <1>5, MessageFacts
  <1>6. type # "TimerFlush" /\ TimerFlush \in {mailbox[i] : i \in DOMAIN mailbox}
            => TimerFlush \in {mailbox'[i] : i \in DOMAIN mailbox'}
    BY <1>1, <1>5
  <1> QED
    BY <1>1, <1>2, <1>3, <1>4, <1>6

\* What is left in the mailbox stays as the invariant wants it if its requests
\* keep waiting outside the batch.
LEMMA QueuedKept ==
    ASSUME IInv, NEW type, Handling(type),
           \A q \in Requests : StillQueued(q) =>
               reply'[q] = Waiting /\ \A i \in DOMAIN pending' : pending'[i] # q
    PROVE  QueuedInv'
  <1>1. ASSUME NEW i \in DOMAIN mailbox', mailbox'[i].type = "Submit"
        PROVE  /\ mailbox'[i].req \in Requests /\ StillQueued(mailbox'[i].req)
               /\ \A j \in DOMAIN mailbox' : mailbox'[j] = mailbox'[i] => j = i
    <2>1. mailbox'[i] \in Messages
      BY HandlingFacts, ElementFacts
    <2>2. mailbox'[i].req \in Requests /\ mailbox'[i] = Submit(mailbox'[i].req)
      BY <1>1, <2>1, MessageFacts
    <2>3. mailbox' = Tail(mailbox)
      BY HandlingFacts
    <2> QED
      BY <1>1, <2>2, <2>3, HandlingFacts DEF StillQueued
  <1> QED
    BY <1>1 DEF QueuedInv

\* A handler that flushes: nobody of the batch is left in the mailbox.
LEMMA FlushStep ==
    ASSUME IInv, NEW type, Handling(type), timers' \in [Ticks -> Nat],
           NEW old \in [Requests -> ReplyValue], NEW batch \in Seq(Requests),
           \A q, p \in Requests : old[q] = Ok(p) => p = q \/ q \in misplaced,
           \A q \in Requests : StillQueued(q) =>
               old[q] = Waiting /\ \A i \in DOMAIN batch : batch[i] # q,
           Flush(old, batch)
    PROVE  IInv'
  <1>0. faults \in Nat
    BY DEF IInv, MoreTypes
  <1>1. /\ pending' = <<>> /\ batch_started_at' = None /\ faults' \in Nat
        /\ reply' \in [Requests -> ReplyValue]
        /\ \A q, p \in Requests : reply'[q] = Ok(p) => p = q \/ q \in misplaced'
        /\ \A q \in Requests : (\A i \in DOMAIN batch : batch[i] # q) => reply'[q] = old[q]
    BY <1>0, FlushFacts
  <1>2. DOMAIN pending' = {} /\ <<>> \in Seq(Requests) /\ alive' \in BOOLEAN
        /\ mailbox' \in Seq(Messages)
    BY <1>1, HandlingFacts DEF IInv, MoreTypes
  <1>3. TypeOK'
    BY <1>1, <1>2 DEF TypeOK, ReplyValue
  <1>4. MoreTypes'
    BY <1>1, <1>2 DEF MoreTypes
  <1>5. BatchInv' /\ OwnResponse' /\ WakeUpDue'
    BY <1>1, <1>2 DEF BatchInv, OwnResponse, WakeUpDue
  <1>6. QueuedInv'
    BY <1>1, <1>2, QueuedKept
  <1> QED
    BY <1>3, <1>4, <1>5, <1>6 DEF IInv

\* The timer that the first request of a batch starts.
LEMMA ScheduleFacts ==
    ASSUME TypeOK, ScheduleTimer
    PROVE  /\ timers' \in [Ticks -> Nat] /\ timers'[MaxWait] > 0
           /\ \A t \in Ticks : timers[t] > 0 => timers'[t] > 0
  <1>1. timers \in [Ticks -> Nat] /\ timers[MaxWait] \in Nat /\ MaxWait \in Ticks
    BY TickFacts DEF TypeOK
  <1> QED
    BY <1>1 DEF ScheduleTimer

\* A request joins the batch it finds: the batch is what is pending, or what
\* is left of it when the oldest request was dropped.
LEMMA JoinStep ==
    ASSUME IInv, Handling("Submit"), NEW q \in Requests, Head(mailbox) = Submit(q),
           NEW old \in [Requests -> ReplyValue], NEW batch \in Seq(Requests),
           \A r, p \in Requests : old[r] = Ok(p) => p = r \/ r \in misplaced,
           \A i, j \in DOMAIN batch : batch[i] = batch[j] => i = j,
           \A i \in DOMAIN batch : old[batch[i]] = Waiting /\ batch[i] # q,
           old[q] = Waiting,
           batch # <<>> => pending # <<>>,
           \A r \in Requests : StillQueued(r) =>
               old[r] = Waiting /\ \A i \in DOMAIN batch : batch[i] # r,
           Join(old, batch, q)
    PROVE  IInv'
  <1>0. TypeOK /\ MoreTypes /\ WakeUpDue
    BY DEF IInv
  <1>1. /\ Append(batch, q) \in Seq(Requests) /\ Append(batch, q) # <<>>
        /\ \A i \in DOMAIN Append(batch, q) :
              \/ i \in DOMAIN batch /\ Append(batch, q)[i] = batch[i]
              \/ i = Len(batch) + 1 /\ Append(batch, q)[i] = q
    BY AppendFacts
  <1>2. \A r \in Requests : StillQueued(r) =>
            \A i \in DOMAIN Append(batch, q) : Append(batch, q)[i] # r
    BY <1>1, HandlingFacts
  <1>3. timers' \in [Ticks -> Nat]
    BY <1>0, ScheduleFacts DEF Join, StartTimer, TypeOK
  <1>4. CASE Full(Len(batch) + 1)
    <2>1. Flush(old, Append(batch, q))
      BY <1>4 DEF Join
    <2> QED
      BY <1>1, <1>2, <1>3, <2>1, FlushStep
  <1>5. CASE ~Full(Len(batch) + 1)
    <2>1. /\ pending' = Append(batch, q) /\ reply' = old /\ UNCHANGED <<faults, misplaced>>
          /\ batch_started_at' = IF batch = <<>> THEN 0 ELSE batch_started_at
      BY <1>5 DEF Join
    <2>2. batch # <<>> => batch_started_at \in Ticks /\ batch_started_at # None
      BY <1>0, HandlingFacts DEF TypeOK
    <2>3. batch_started_at' \in Ticks /\ batch_started_at' # None
      BY <2>1, <2>2, TickFacts
    <2>4. \A i \in DOMAIN pending' : reply'[pending'[i]] = Waiting
      BY <1>1, <2>1
    <2>5. TypeOK'
      BY <1>1, <1>3, <2>1, <2>3, <2>4 DEF TypeOK, ReplyValue
    <2>6. MoreTypes'
      BY <1>0, <1>1, <2>1, HandlingFacts DEF MoreTypes
    <2>7. BatchInv'
      BY <1>1, <2>1 DEF BatchInv
    <2>8. QueuedInv'
      BY <1>2, <2>1, QueuedKept
    <2>9. OwnResponse'
      BY <2>1 DEF OwnResponse
    <2>10. WakeUpDue'
      <3>1. CASE batch = <<>>
        <4>1. timers'[MaxWait] > 0
          BY <1>0, <3>1, ScheduleFacts DEF Join, StartTimer
        <4>2. batch_started_at' = 0 /\ MaxWait - 0 = MaxWait
          BY <2>1, <3>1, TickFacts
        <4> QED
          BY <4>1, <4>2 DEF WakeUpDue
      <3>2. CASE batch # <<>>
        <4>1. timers' = timers /\ batch_started_at' = batch_started_at
          BY <2>1, <3>2 DEF Join, StartTimer
        <4>2. /\ alive' = alive
              /\ TimerFlush \in {mailbox[i] : i \in DOMAIN mailbox}
                    => TimerFlush \in {mailbox'[i] : i \in DOMAIN mailbox'}
          BY HandlingFacts
        <4> QED
          BY <1>0, <4>1, <4>2 DEF WakeUpDue
      <3> QED
        BY <3>1, <3>2
    <2> QED
      BY <2>5, <2>6, <2>7, <2>8, <2>9, <2>10 DEF IInv
  <1> QED
    BY <1>4, <1>5

\* A request is handled: it joins the batch, is refused, or takes the place
\* of the oldest one.
LEMMA HandleSubmitStep ==
    ASSUME IInv, HandleSubmit
    PROVE  IInv'
  <1>0. TypeOK /\ MoreTypes /\ BatchInv /\ QueuedInv /\ OwnResponse /\ WakeUpDue
    BY DEF IInv
  <1> DEFINE q == Head(mailbox).req
  <1>1. Handling("Submit")
    BY DEF HandleSubmit
  <1>2. q \in Requests /\ Head(mailbox) = Submit(q)
    BY <1>1, HandlingFacts, MessageFacts
  <1>3. reply[q] = Waiting /\ \A i \in DOMAIN pending : pending[i] # q
    <2>1. mailbox \in Seq(Messages) /\ mailbox # <<>>
      BY <1>0, <1>1 DEF MoreTypes, Handling
    <2>2. 1 \in DOMAIN mailbox /\ mailbox[1] = Head(mailbox)
      BY <2>1, TailFacts
    <2> QED
      BY <1>0, <1>2, <2>2, MessageFacts DEF QueuedInv
  <1>4. reply \in [Requests -> ReplyValue] /\ pending \in Seq(Requests)
    BY <1>0 DEF TypeOK, MoreTypes, ReplyValue
  <1>5. \A r, p \in Requests : reply[r] = Ok(p) => p = r \/ r \in misplaced
    BY <1>0 DEF OwnResponse
  <1>6. \A r \in Requests : StillQueued(r) =>
            reply[r] = Waiting /\ r # q /\ \A i \in DOMAIN pending : pending[i] # r
    BY <1>1, <1>2, HandlingFacts
  <1>7. HandleSubmit => IF Full(Len(pending)) THEN Overflow(q) ELSE Join(reply, pending, q)
    BY DEF HandleSubmit
  <1> HIDE DEF q
  <1>8. CASE Join(reply, pending, q)
    <2>1. \A i, j \in DOMAIN pending : pending[i] = pending[j] => i = j
      BY <1>0 DEF BatchInv
    <2>2. \A i \in DOMAIN pending : reply[pending[i]] = Waiting /\ pending[i] # q
      BY <1>0, <1>3 DEF TypeOK
    <2> QED
      BY <1>1, <1>2, <1>3, <1>4, <1>5, <1>6, <1>8, <2>1, <2>2, JoinStep
  <1>9. CASE Overflow(q) /\ config.overflow = "DropOldest" /\ pending # <<>>
    <2> DEFINE old   == [reply EXCEPT ![Head(pending)] = Err("dropped by overflow")]
               batch == Tail(pending)
    <2>1. Join(old, batch, q)
      BY <1>9 DEF Overflow
    <2>2. /\ batch \in Seq(Requests) /\ Head(pending) = pending[1] /\ 1 \in DOMAIN pending
          /\ Head(pending) \in Requests
          /\ \A i \in DOMAIN batch :
                i \in Nat /\ i > 0 /\ i + 1 \in DOMAIN pending /\ batch[i] = pending[i + 1]
      BY <1>4, <1>9, TailFacts
    <2> HIDE DEF batch
    <2>3. /\ old \in [Requests -> ReplyValue] /\ old[Head(pending)] \in Errors
          /\ \A r \in Requests : r # Head(pending) => old[r] = reply[r]
      BY <1>4, <2>2, ReplyFacts
    <2> HIDE DEF old
    <2>4. \A r, p \in Requests : old[r] = Ok(p) => p = r \/ r \in misplaced
      <3>1. ASSUME NEW r \in Requests, NEW p \in Requests, old[r] = Ok(p)
            PROVE  p = r \/ r \in misplaced
        <4>1. r # Head(pending)
          BY <2>3, <3>1, ReplyFacts
        <4> QED
          BY <1>5, <2>3, <3>1, <4>1
      <3> QED
        BY <3>1
    <2>5. \A i, j \in DOMAIN batch : batch[i] = batch[j] => i = j
      <3>1. ASSUME NEW i \in DOMAIN batch, NEW j \in DOMAIN batch, batch[i] = batch[j]
            PROVE  i = j
        <4>1. i + 1 = j + 1
          BY <1>0, <2>2, <3>1 DEF BatchInv
        <4> QED
          BY <2>2, <4>1
      <3> QED
        BY <3>1
    <2>6. \A i \in DOMAIN batch : old[batch[i]] = Waiting /\ batch[i] # q
      <3>1. ASSUME NEW i \in DOMAIN batch
            PROVE  old[batch[i]] = Waiting /\ batch[i] # q
        <4>1. i + 1 \in DOMAIN pending /\ i + 1 # 1 /\ batch[i] = pending[i + 1]
          BY <2>2
        <4>2. batch[i] \in Requests /\ batch[i] # Head(pending)
          BY <1>0, <2>2, <4>1, ElementFacts DEF BatchInv
        <4>3. reply[batch[i]] = Waiting
          BY <1>0, <4>1 DEF TypeOK
        <4> QED
          BY <1>3, <2>3, <4>1, <4>2, <4>3
      <3> QED
        BY <3>1
    <2>7. old[q] = Waiting
      BY <1>2, <1>3, <2>2, <2>3
    <2>8. \A r \in Requests : StillQueued(r) =>
              old[r] = Waiting /\ \A i \in DOMAIN batch : batch[i] # r
      BY <1>6, <2>2, <2>3
    <2> QED
      BY <1>1, <1>2, <1>9, <2>1, <2>2, <2>3, <2>4, <2>5, <2>6, <2>7, <2>8, JoinStep
  <1>10. CASE Overflow(q) /\ ~(config.overflow = "DropOldest" /\ pending # <<>>)
    <2>0. reply' = [reply EXCEPT ![q] = IF config.overflow = "Reject"
                                        THEN Err("batch full") ELSE Err("channel closed")]
      BY <1>10 DEF Overflow
    <2>1. PICK e \in Errors : reply' = [reply EXCEPT ![q] = e]
      <3>1. CASE config.overflow = "Reject"
        BY <2>0, <3>1, ReplyFacts
      <3>2. CASE config.overflow # "Reject"
        BY <2>0, <3>2, ReplyFacts
      <3> QED
        BY <3>1, <3>2
    <2>2. UNCHANGED <<pending, batch_started_at, timers, faults, misplaced>>
      BY <1>10 DEF Overflow
    <2>3. /\ reply' \in [Requests -> ReplyValue] /\ reply'[q] = e
          /\ \A r \in Requests : r # q => reply'[r] = reply[r]
      BY <1>2, <1>4, <2>1, ReplyFacts
    <2>4. \A i \in DOMAIN pending : reply'[pending[i]] = reply[pending[i]]
      BY <1>3, <1>4, <2>3, ElementFacts
    <2>5. TypeOK'
      BY <1>0, <1>1, <2>2, <2>3, <2>4, HandlingFacts DEF TypeOK, ReplyValue
    <2>6. MoreTypes' /\ BatchInv'
      BY <1>0, <1>1, <2>2, HandlingFacts DEF MoreTypes, BatchInv
    <2>7. QueuedInv'
      BY <1>1, <1>6, <2>2, <2>3, QueuedKept
    <2>8. OwnResponse'
      BY <1>5, <2>2, <2>3, ReplyFacts DEF OwnResponse
    <2>9. WakeUpDue'
      BY <1>0, <1>1, <2>2, HandlingFacts DEF WakeUpDue
    <2> QED
      BY <2>5, <2>6, <2>7, <2>8, <2>9 DEF IInv
  <1> QED
    BY <1>7, <1>8, <1>9, <1>10

\* A handler that changes neither batch nor replies, and at most starts a timer.
LEMMA IdleStep ==
    ASSUME IInv, NEW type, Handling(type),
           UNCHANGED <<pending, batch_started_at, reply, faults, misplaced>>,
           timers' \in [Ticks -> Nat],
           \A t \in Ticks : timers[t] > 0 => timers'[t] > 0,
           type = "TimerFlush" => batch_started_at # MaxWait
    PROVE  IInv'
  <1>0. TypeOK /\ MoreTypes /\ BatchInv /\ OwnResponse /\ WakeUpDue
    BY DEF IInv
  <1>1. TypeOK'
    BY <1>0, HandlingFacts DEF TypeOK
  <1>2. MoreTypes' /\ BatchInv' /\ OwnResponse'
    BY <1>0, HandlingFacts DEF MoreTypes, BatchInv, OwnResponse
  <1>3. QueuedInv'
    BY HandlingFacts, QueuedKept
  <1>4. WakeUpDue'
    <2>1. SUFFICES ASSUME batch_started_at # None
                   PROVE  \/ timers'[MaxWait - batch_started_at] > 0
                          \/ /\ batch_started_at = MaxWait
                             /\ TimerFlush \in {mailbox'[i] : i \in DOMAIN mailbox'}
      BY DEF WakeUpDue
    <2>2. MaxWait - batch_started_at \in Ticks
      BY <1>0, <2>1, TickFacts DEF TypeOK
    <2> QED
      BY <1>0, <2>1, <2>2, HandlingFacts DEF WakeUpDue
  <1> QED
    BY <1>1, <1>2, <1>3, <1>4 DEF IInv

\* The batch is flushed as it is.
LEMMA FlushPendingStep ==
    ASSUME IInv, NEW type, Handling(type), Flush(reply, pending), UNCHANGED timers
    PROVE  IInv'
  <1>1. /\ reply \in [Requests -> ReplyValue] /\ pending \in Seq(Requests)
        /\ timers' \in [Ticks -> Nat]
    BY DEF IInv, TypeOK, MoreTypes, ReplyValue
  <1>2. \A q, p \in Requests : reply[q] = Ok(p) => p = q \/ q \in misplaced
    BY DEF IInv, OwnResponse
  <1>3. \A q \in Requests : StillQueued(q) =>
            reply[q] = Waiting /\ \A i \in DOMAIN pending : pending[i] # q
    BY HandlingFacts
  <1> QED
    BY <1>1, <1>2, <1>3, FlushStep

\* A timer wakes the actor: it flushes a batch whose time has come and is set
\* again for one whose time has not.
LEMMA HandleTimerFlushStep ==
    ASSUME IInv, HandleTimerFlush
    PROVE  IInv'
  <1>0. TypeOK /\ timers \in [Ticks -> Nat] /\ Handling("TimerFlush") /\ None # MaxWait
    BY TickFacts DEF IInv, TypeOK, HandleTimerFlush
  <1>1. CASE batch_started_at = None
    <2>1. UNCHANGED <<pending, batch_started_at, timers, reply, faults, misplaced>>
      <3>1. batch_started_at # MaxWait
        BY <1>0, <1>1
      <3> QED
        BY <1>1, <3>1 DEF HandleTimerFlush, TimerAction
    <2> QED
      BY <1>0, <1>1, <2>1, IdleStep
  <1>2. CASE batch_started_at = MaxWait
    <2>1. Flush(reply, pending) /\ UNCHANGED timers
      <3>1. batch_started_at # None
        BY <1>0, <1>2
      <3> QED
        BY <1>2, <3>1 DEF HandleTimerFlush, TimerAction
    <2> QED
      BY <1>0, <2>1, FlushPendingStep
  <1>3. CASE batch_started_at \notin {None, MaxWait}
    <2>1. ScheduleTimer /\ UNCHANGED <<pending, batch_started_at, reply, faults, misplaced>>
      BY <1>3 DEF HandleTimerFlush, TimerAction
    <2>2. timers' \in [Ticks -> Nat] /\ \A t \in Ticks : timers[t] > 0 => timers'[t] > 0
      BY <1>0, <2>1, ScheduleFacts
    <2> QED
      BY <1>0, <1>3, <2>1, <2>2, IdleStep
  <1> QED
    BY <1>1, <1>2, <1>3

\* FlushNow ends the batch if there is one.
LEMMA HandleFlushNowStep ==
    ASSUME IInv, HandleFlushNow
    PROVE  IInv'
  <1>0. timers \in [Ticks -> Nat] /\ Handling("FlushNow") /\ UNCHANGED timers
    BY DEF IInv, TypeOK, HandleFlushNow
  <1>1. CASE pending # <<>>
    <2>1. Flush(reply, pending)
      BY <1>1 DEF HandleFlushNow
    <2> QED
      BY <1>0, <2>1, FlushPendingStep
  <1>2. CASE pending = <<>>
    <2>1. UNCHANGED <<pending, batch_started_at, reply, faults, misplaced>>
      BY <1>2 DEF HandleFlushNow
    <2> QED
      BY <1>0, <2>1, IdleStep
  <1> QED
    BY <1>1, <1>2

-----------------------------------------------------------------------------
\* The strengthened invariant is inductive.
LEMMA Induction == IInv /\ [Next]_vars => IInv'
  <1> SUFFICES ASSUME IInv, [Next]_vars PROVE IInv'
    OBVIOUS
  <1>1. ASSUME NEW q \in Requests, SendSubmit(q) PROVE IInv'
    BY <1>1, SendSubmitStep
  <1>2. CASE SendFlushNow \/ TimerFires
    BY <1>2, TellStep
  <1>3. CASE Tick
    BY <1>3, TickStep
  <1>4. CASE Stop
    BY <1>4, StopStep
  <1>5. CASE Server
    BY <1>5, HandleSubmitStep, HandleTimerFlushStep, HandleFlushNowStep DEF Server
  <1>6. CASE UNCHANGED vars
    BY <1>6 DEF vars, IInv, TypeOK, MoreTypes, BatchInv, QueuedInv, OwnResponse, WakeUpDue
  <1> QED
    BY <1>1, <1>2, <1>3, <1>4, <1>5, <1>6 DEF Next

\* The batch has an age exactly while it has requests, and its requests wait:
\* no path of the handlers of DynamicBatchingServer keeps an answered request.
THEOREM TypeCorrect == Spec => []TypeOK
  <1>1. IInv => TypeOK
    BY DEF IInv
  <1> QED
    BY InitInv, Induction, <1>1, PTL DEF Spec

\* No interleaving of requests, stale timers and flushes leaves a batch
\* without a timer that ends at the moment its max_wait is over.
THEOREM NoBatchForgotten == Spec => []WakeUpDue
  <1>1. IInv => WakeUpDue
    BY DEF IInv
  <1> QED
    BY InitInv, Induction, <1>1, PTL DEF Spec

\* For any batch size flush hands a caller another request's response only where
\* BatchFn itself had put it in that caller's place of a result of the right
\* length; a result of the wrong length, a panic, a drop or a stop mixes up
\* nobody.
THEOREM OwnResponseOnly == Spec => []OwnResponse
  <1>1. IInv => OwnResponse
    BY DEF IInv
  <1> QED
    BY InitInv, Induction, <1>1, PTL DEF Spec

=============================================================================
