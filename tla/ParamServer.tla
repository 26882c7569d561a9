---------------------------- MODULE ParamServer -----------------------------
(***************************************************************************)
(* AsyncParameterServer: workers pull the weights, compute a gradient and   *)
(* push it with the version they computed it from.  The weights are         *)
(* represented by their history: for each gradient that was applied, how    *)
(* many were in the weights it was computed from.                           *)
(***************************************************************************)
EXTENDS Naturals, Sequences

CONSTANTS PsWorkers,     \* the workers
          MaxStaleness,  \* max_staleness
          MaxApplied     \* bound on the gradients applied

ASSUME ParamServerAssumption == MaxStaleness \in Nat

VARIABLES
    psMailbox,  \* the server's mailbox
    weights,    \* the server's weights
    version,    \* AsyncParameterServer.version
    local,      \* per worker: the weights and the version it has, or what it waits for
    told        \* per worker: the version its last push was answered with, or Refused

psVars == <<psMailbox, weights, version, local, told>>

Pull(w)          == [type |-> "PullWeights", worker |-> w]
Push(w, base, v) == [type |-> "PushGradient", worker |-> w, base |-> base, version |-> v]

Refused == [version |-> 0]

PsInit ==
    /\ psMailbox = <<>>
    /\ weights = <<>>
    /\ version = 0
    /\ local = [w \in PsWorkers |-> [state |-> "idle"]]
    /\ told = [w \in PsWorkers |-> Refused]

\* A worker asks for the weights, or pushes the gradient it has computed; it may
\* compute several gradients from the same weights.
SendPull(w) ==
    /\ local[w].state # "waiting"
    /\ psMailbox' = Append(psMailbox, Pull(w))
    /\ local' = [local EXCEPT ![w] = [state |-> "waiting"]]
    /\ UNCHANGED <<weights, version, told>>

SendPush(w) ==
    /\ local[w].state = "has"
    /\ \A i \in DOMAIN psMailbox : psMailbox[i].worker # w
    /\ psMailbox' = Append(psMailbox, Push(w, local[w].base, local[w].version))
    /\ UNCHANGED <<weights, version, local, told>>

HandlePull ==
    LET m == Head(psMailbox) IN
    /\ psMailbox # <<>> /\ m.type = "PullWeights"
    /\ psMailbox' = Tail(psMailbox)
    /\ local' = [local EXCEPT ![m.worker] = [state |-> "has", base |-> Len(weights), version |-> version]]
    /\ UNCHANGED <<weights, version, told>>

\* saturating_sub
Staleness(v) == IF version > v THEN version - v ELSE 0

\* Mutant of ApplyGradient: the version is not raised.
ApplyGradientQuietly(base) ==
    /\ weights' = Append(weights, base)
    /\ UNCHANGED version

ApplyGradient(base) ==
    /\ weights' = Append(weights, base)
    /\ version' = version + 1

HandlePush ==
    LET m == Head(psMailbox) IN
    /\ psMailbox # <<>> /\ m.type = "PushGradient"
    /\ Len(weights) < MaxApplied
    /\ psMailbox' = Tail(psMailbox)
    /\ IF Staleness(m.version) > MaxStaleness
       THEN /\ told' = [told EXCEPT ![m.worker] = Refused]
            /\ UNCHANGED <<weights, version>>
       ELSE /\ ApplyGradient(m.base)
            /\ told' = [told EXCEPT ![m.worker] = [version |-> version', base |-> m.base]]
    /\ UNCHANGED local

PsNext ==
    \/ \E w \in PsWorkers : SendPull(w) \/ SendPush(w)
    \/ HandlePull \/ HandlePush

PsSpec == PsInit /\ [][PsNext]_psVars

-----------------------------------------------------------------------------
\* A gradient is applied to weights that have taken in at most MaxStaleness
\* gradients since it was computed, however pulls and pushes of the workers
\* interleave in the mailbox, and the version a worker is told is the number of
\* gradients up to and including its own.
StalenessBounded ==
    /\ \A i \in DOMAIN weights : (i - 1) - weights[i] <= MaxStaleness
    /\ \A w \in PsWorkers : told[w] # Refused =>
          told[w].version \in DOMAIN weights /\ weights[told[w].version] = told[w].base
=============================================================================
