----------------------------- MODULE DeviceProofs -----------------------------
(***************************************************************************)
(* Proofs about Device for every number of requests, retries and failures   *)
(* and every stash capacity.                                                *)
(***************************************************************************)
EXTENDS Device, TLAPS

\* What the ContextActor's mailbox says about the incarnation that is up: at
\* most one Init waits in it, and while one waits no kernel actor lives and no
\* stream exists, except the stream the run_init under way has just created.
ContextInv ==
    /\ stream \in {0, generation}
    /\ blas \in {0, generation}
    /\ initStep # "idle" => contextMailbox # <<>> /\ contextMailbox[1].type = "Init"
    /\ \A i \in 1..Len(contextMailbox) :
          contextMailbox[i].type = "Init" =>
             /\ blas = 0
             /\ initStep # "installed" => stream = 0
             /\ \A j \in 1..Len(contextMailbox) :
                   contextMailbox[j].type = "Init" => i = j

\* A GpuRef carries the generation of the context its slice lives on.
RefInv == \A b \in Refs : refCtx[b] = refGen[b]

IInv == TypeOK /\ ContextInv /\ RefInv /\ RunsInOwnContext

-----------------------------------------------------------------------------
(* Type correctness *)

LEMMA MessageTypes ==
    /\ \A r \in Requests : Req(r) \in DeviceMsg /\ Req(r) \in ContextMsg
    /\ \A g \in Nat : Ready(g) \in DeviceMsg
    /\ Lost \in DeviceMsg
    /\ InitMsg \in ContextMsg
BY DEF Req, Ready, Lost, InitMsg, DeviceMsg, ContextMsg

\* The request at the head of a mailbox is one of the requests.
LEMMA HeadTypes ==
    ASSUME TypeOK
    PROVE  /\ deviceMailbox # <<>> =>
                 /\ Tail(deviceMailbox) \in Seq(DeviceMsg)
                 /\ Head(deviceMailbox) \in DeviceMsg
                 /\ Head(deviceMailbox).type = "Req" => Head(deviceMailbox).id \in Requests
                 /\ Head(deviceMailbox).id \in Nat
           /\ contextMailbox # <<>> =>
                 /\ Tail(contextMailbox) \in Seq(ContextMsg)
                 /\ Head(contextMailbox) \in ContextMsg
                 /\ Head(contextMailbox).type = "Req" => Head(contextMailbox).id \in Requests
           /\ pending # <<>> =>
                 Tail(pending) \in Seq(Requests) /\ Head(pending) \in Requests
           /\ blasMailbox # <<>> =>
                 Tail(blasMailbox) \in Seq(Requests) /\ Head(blasMailbox) \in Requests
<1>1. deviceMailbox # <<>> =>
         Tail(deviceMailbox) \in Seq(DeviceMsg) /\ Head(deviceMailbox) \in DeviceMsg
  BY DEF TypeOK
<1>2. contextMailbox # <<>> =>
         Tail(contextMailbox) \in Seq(ContextMsg) /\ Head(contextMailbox) \in ContextMsg
  BY DEF TypeOK
<1>3. Requests \subseteq Nat
  BY DEF Requests
<1>4. \A m \in DeviceMsg : (m.type = "Req" => m.id \in Requests) /\ m.id \in Nat
  <2> SUFFICES ASSUME NEW m \in DeviceMsg
               PROVE  (m.type = "Req" => m.id \in Requests) /\ m.id \in Nat
    OBVIOUS
  <2>1. CASE m \in [type : {"Req"}, id : Requests]
    BY <1>3, <2>1
  <2>2. CASE m \in [type : {"ContextReady"}, id : Nat]
    BY <2>2
  <2>3. CASE m = Lost
    BY <2>3 DEF Lost
  <2> QED
    BY <2>1, <2>2, <2>3 DEF DeviceMsg
<1>5. \A m \in ContextMsg : m.type = "Req" => m.id \in Requests
  BY DEF ContextMsg, InitMsg
<1>6. deviceMailbox # <<>> =>
         /\ Head(deviceMailbox).type = "Req" => Head(deviceMailbox).id \in Requests
         /\ Head(deviceMailbox).id \in Nat
  BY <1>1, <1>4
<1>7. contextMailbox # <<>> /\ Head(contextMailbox).type = "Req" =>
         Head(contextMailbox).id \in Requests
  BY <1>2, <1>5
<1>8. /\ pending # <<>> =>
            Tail(pending) \in Seq(Requests) /\ Head(pending) \in Requests
      /\ blasMailbox # <<>> =>
            Tail(blasMailbox) \in Seq(Requests) /\ Head(blasMailbox) \in Requests
  BY DEF TypeOK
<1> QED
  BY <1>1, <1>2, <1>6, <1>7, <1>8

LEMMA ReplyTypes ==
    ASSUME TypeOK
    PROVE  /\ \A R : Dropping(R) \in [Requests -> Replies]
           /\ StoppedReplies \in [Requests -> Replies]
           /\ \A b \in Refs : WriteReply(b) \in Replies
           /\ \A r \in Requests, e \in Replies :
                 [reply EXCEPT ![r] = e] \in [Requests -> Replies]
BY DEF TypeOK, Dropping, StoppedReplies, WriteReply, Replies

LEMMA TellDeviceType ==
    ASSUME TypeOK, NEW msgs \in Seq(DeviceMsg), TellDevice(msgs)
    PROVE  deviceMailbox' \in Seq(DeviceMsg)
BY DEF TypeOK, TellDevice

LEMMA InitTypeOK == Init => TypeOK
<1> SUFFICES ASSUME Init PROVE TypeOK
  OBVIOUS
<1>1. contextMailbox \in Seq(ContextMsg)
  BY MessageTypes DEF Init
<1>2. /\ submitted \in 0..MaxRequests /\ retries \in 0..MaxRetries
      /\ failures \in 0..MaxFailures
      /\ kind \in [Requests -> Kinds]
      /\ buf \in [Requests -> Refs]
      /\ reply \in [Requests -> Replies]
      /\ refGen \in [Refs -> Nat] /\ refCtx \in [Refs -> Nat]
      /\ validated \in [Requests -> [stream : Nat, slice : Nat]]
  BY DeviceAssumption DEF Init, Refs, Kinds, Replies
<1>3. /\ deviceMailbox \in Seq(DeviceMsg)
      /\ pending \in Seq(Requests)
      /\ blasMailbox \in Seq(Requests)
      /\ running \subseteq Requests
  BY DEF Init
<1> QED
  BY <1>1, <1>2, <1>3 DEF Init, TypeOK

LEMMA TellTypes ==
    ASSUME TypeOK, NEW r \in Requests
    PROVE  /\ TellContext(r) => /\ contextMailbox' \in Seq(ContextMsg)
                                /\ reply' \in [Requests -> Replies]
           /\ TellBlas(r) => /\ blasMailbox' \in Seq(Requests)
                             /\ reply' \in [Requests -> Replies]
           /\ EnqueuePending(r) => /\ pending' \in Seq(Requests)
                                   /\ reply' \in [Requests -> Replies]
<1>1. TellContext(r) => /\ contextMailbox' \in Seq(ContextMsg)
                        /\ reply' \in [Requests -> Replies]
  <2>1. contextMailbox \in Seq(ContextMsg) /\ reply \in [Requests -> Replies]
    BY DEF TypeOK
  <2>2. Req(r) \in ContextMsg /\ Dropping({r}) \in [Requests -> Replies]
    BY MessageTypes, ReplyTypes
  <2>3. Append(contextMailbox, Req(r)) \in Seq(ContextMsg)
    BY <2>1, <2>2
  <2> QED
    BY <2>1, <2>2, <2>3 DEF TellContext
<1>2. TellBlas(r) => blasMailbox' \in Seq(Requests) /\ reply' \in [Requests -> Replies]
  <2>1. blasMailbox \in Seq(Requests) /\ reply \in [Requests -> Replies]
    BY DEF TypeOK
  <2>2. Dropping({r}) \in [Requests -> Replies]
    BY ReplyTypes
  <2>3. Append(blasMailbox, r) \in Seq(Requests)
    BY <2>1
  <2> QED
    BY <2>1, <2>2, <2>3 DEF TellBlas
<1>3. EnqueuePending(r) => pending' \in Seq(Requests) /\ reply' \in [Requests -> Replies]
  <2>1. pending \in Seq(Requests) /\ reply \in [Requests -> Replies]
    BY DEF TypeOK
  <2>2. {"unrecoverable", "dropped"} \subseteq Replies
    BY DEF Replies
  <2>3. Append(pending, r) \in Seq(Requests)
    BY <2>1
  <2> QED
    BY <2>1, <2>2, <2>3 DEF EnqueuePending
<1> QED
  BY <1>1, <1>2, <1>3

LEMMA RestartTypes ==
    ASSUME TypeOK, NEW mailbox \in Seq(ContextMsg), Restart(mailbox), retries < MaxRetries,
           faulted' \subseteq Nat, failures' \in 0..MaxFailures, escalated' \in BOOLEAN
    PROVE  TypeOK'
<1>1. deviceMailbox' \in Seq(DeviceMsg)
  <2>1. <<Lost>> \in Seq(DeviceMsg) /\ <<Lost, Lost>> \in Seq(DeviceMsg)
    BY MessageTypes
  <2> QED
    BY <2>1, TellDeviceType DEF Restart
<1>2. contextMailbox' \in Seq(ContextMsg)
  BY MessageTypes DEF Restart, PostRestart
<1>3. reply' \in [Requests -> Replies]
  BY ReplyTypes DEF Restart
<1>4. retries' \in 0..MaxRetries /\ currentCtx' \in Nat
  BY DeviceAssumption DEF Restart, Restarts, TypeOK
<1>5. /\ initStep' \in {"idle", "bumped", "installed"} /\ blasMailbox' \in Seq(Requests)
      /\ stream' \in Nat /\ blas' \in Nat
  BY DEF Restart, StopBlas
<1>6. UNCHANGED <<generation, acceptingOps, device, children, pending, draining, context,
                  submitted, kind, buf, refGen, refCtx, validated, running>>
  BY DEF Restart, clientVars, refVars, runVars
<1> QED
  BY <1>1, <1>2, <1>3, <1>4, <1>5, <1>6 DEF TypeOK

LEMMA StopContextTypes ==
    ASSUME TypeOK, NEW mailbox, StopContext(mailbox),
           device' \in {"running", "stopping", "stopped"},
           faulted' \subseteq Nat, failures' \in 0..MaxFailures, escalated' \in BOOLEAN
    PROVE  TypeOK'
<1>1. deviceMailbox' \in Seq(DeviceMsg)
  <2>1. <<Lost>> \in Seq(DeviceMsg)
    BY MessageTypes
  <2> QED
    BY <2>1, TellDeviceType DEF StopContext
<1>2. reply' \in [Requests -> Replies]
  BY ReplyTypes DEF StopContext
<1>3. /\ contextMailbox' \in Seq(ContextMsg) /\ blasMailbox' \in Seq(Requests)
      /\ context' \in {"running", "stopped"}
      /\ initStep' \in {"idle", "bumped", "installed"}
      /\ stream' \in Nat /\ currentCtx' \in Nat /\ blas' \in Nat
  BY DEF StopContext, StopBlas
<1>4. UNCHANGED <<generation, acceptingOps, children, pending, draining, retries,
                  submitted, kind, buf, refGen, refCtx, validated, running>>
  BY DEF StopContext, clientVars, refVars, runVars
<1> QED
  BY <1>1, <1>2, <1>3, <1>4 DEF TypeOK

LEMMA PoisonedTypes ==
    ASSUME TypeOK, NEW mailbox \in Seq(ContextMsg), Poisoned(mailbox),
           NEW fault, Fails(fault), faulted' \subseteq Nat, UNCHANGED escalated
    PROVE  TypeOK'
<1>1. failures' \in 0..MaxFailures /\ escalated' \in BOOLEAN
  BY DeviceAssumption DEF Fails, TypeOK
<1>2. CASE retries < MaxRetries /\ Restart(mailbox)
  BY <1>1, <1>2, RestartTypes
<1>3. CASE StopContext(mailbox) /\ UNCHANGED device
  BY <1>1, <1>3, StopContextTypes DEF TypeOK
<1> QED
  BY <1>2, <1>3 DEF Poisoned

LEMMA WriteTypes ==
    ASSUME TypeOK, NEW r \in Requests, NEW ctx \in Nat, StartWrite(r, ctx)
    PROVE  /\ reply' \in [Requests -> Replies]
           /\ validated' \in [Requests -> [stream : Nat, slice : Nat]]
           /\ running' \subseteq Requests
<1>1. buf[r] \in Refs /\ refCtx[buf[r]] \in Nat
  BY DEF TypeOK
<1>2. Validation(r, ctx) \in [stream : Nat, slice : Nat]
  BY <1>1 DEF Validation
<1> QED
  BY <1>1, <1>2, ReplyTypes DEF TypeOK, StartWrite

LEMMA TypeStep == TypeOK /\ [Next]_vars => TypeOK'
<1> SUFFICES ASSUME TypeOK, [Next]_vars PROVE TypeOK'
  OBVIOUS
<1> USE DEF stateVars, deviceVars, contextVars, blasVars, clientVars, refVars, runVars, faultVars
<1>1. CASE Submit
  <2> DEFINE r == submitted + 1
  <2>1. r \in Requests /\ submitted' = r /\ r \in 0..MaxRequests
    BY <1>1, DeviceAssumption DEF Submit, Requests, TypeOK
  <2>2. kind' \in [Requests -> Kinds] /\ buf' \in [Requests -> Refs]
    BY <1>1, <2>1 DEF Submit, TypeOK
  <2>3. reply' \in [Requests -> Replies]
    BY <1>1, <2>1 DEF Submit, TypeOK, Replies
  <2>4. deviceMailbox' \in Seq(DeviceMsg)
    <3>1. <<Req(r)>> \in Seq(DeviceMsg)
      BY <2>1, MessageTypes
    <3>2. TellDevice(<<Req(r)>>)
      BY <1>1 DEF Submit
    <3> QED
      BY <3>1, <3>2, TellDeviceType
  <2> QED
    BY <1>1, <2>1, <2>2, <2>3, <2>4 DEF Submit, TypeOK
<1>2. CASE HandleWhenReady
  <2> DEFINE r == Head(deviceMailbox).id
  <2>1. r \in Requests /\ deviceMailbox' \in Seq(DeviceMsg)
    BY <1>2, HeadTypes DEF HandleWhenReady, Handling
  <2>2. /\ contextMailbox' \in Seq(ContextMsg)
        /\ blasMailbox' \in Seq(Requests)
        /\ reply' \in [Requests -> Replies]
    BY <1>2, <2>1, TellTypes DEF HandleWhenReady, TypeOK
  <2> QED
    BY <1>2, <2>1, <2>2 DEF HandleWhenReady, TypeOK
<1>3. CASE HandleWhenNotReady
  <2> DEFINE r == Head(deviceMailbox).id
  <2>1. r \in Requests /\ deviceMailbox' \in Seq(DeviceMsg)
    BY <1>3, HeadTypes DEF HandleWhenNotReady, Handling
  <2>2. pending' \in Seq(Requests) /\ reply' \in [Requests -> Replies]
    BY <1>3, <2>1, TellTypes DEF HandleWhenNotReady
  <2> QED
    BY <1>3, <2>1, <2>2 DEF HandleWhenNotReady, TypeOK
<1>4. CASE HandleSnapshot
  <2> DEFINE r == Head(deviceMailbox).id
  <2>1. r \in Requests /\ deviceMailbox' \in Seq(DeviceMsg)
    BY <1>4, HeadTypes DEF HandleSnapshot, Handling
  <2>2. "ok" \in Replies
    BY DEF Replies
  <2>3. contextMailbox' \in Seq(ContextMsg) /\ reply' \in [Requests -> Replies]
    <3>1. CASE TellContext(r)
      BY <2>1, <3>1, TellTypes
    <3>2. CASE reply' = [reply EXCEPT ![r] = "ok"] /\ UNCHANGED contextMailbox
      BY <2>1, <2>2, <3>2, ReplyTypes DEF TypeOK
    <3> QED
      BY <1>4, <3>1, <3>2 DEF HandleSnapshot
  <2> QED
    BY <1>4, <2>1, <2>3 DEF HandleSnapshot, TypeOK
<1>5. CASE HandleContextReady
  <2>1. deviceMailbox' \in Seq(DeviceMsg) /\ children' \in Nat
    BY <1>5, HeadTypes DEF HandleContextReady, Handling
  <2> QED
    BY <1>5, <2>1 DEF HandleContextReady, TypeOK
<1>6. CASE DrainPending
  <2>1. CASE pending = <<>> /\ UNCHANGED <<pending, contextMailbox, blasMailbox, reply>>
    BY <1>6, <2>1 DEF DrainPending, TypeOK
  <2>2. CASE pending # <<>>
    <3>1. pending' \in Seq(Requests) /\ Head(pending) \in Requests
      BY <1>6, <2>2, HeadTypes DEF DrainPending
    <3>2. /\ contextMailbox' \in Seq(ContextMsg)
          /\ blasMailbox' \in Seq(Requests)
          /\ reply' \in [Requests -> Replies]
      BY <1>6, <2>2, <3>1, TellTypes DEF DrainPending, TypeOK
    <3>3. UNCHANGED draining
      BY <1>6, <2>2 DEF DrainPending
    <3> QED
      BY <1>6, <3>1, <3>2, <3>3 DEF DrainPending, TypeOK
  <2> QED
    BY <1>6, <2>1, <2>2 DEF DrainPending
<1>7. CASE HandleContextLost
  <2>1. deviceMailbox' \in Seq(DeviceMsg)
    BY <1>7, HeadTypes DEF HandleContextLost, Handling
  <2> QED
    BY <1>7, <2>1 DEF HandleContextLost, TypeOK
<1>8. CASE BeginStop
  BY <1>8 DEF BeginStop, TypeOK
<1>9. CASE DevicePostStop
  <2>1. reply' \in [Requests -> Replies]
    BY <1>9, ReplyTypes DEF DevicePostStop
  <2>2. deviceMailbox' \in Seq(DeviceMsg) /\ pending' \in Seq(Requests)
    BY <1>9 DEF DevicePostStop
  <2> QED
    BY <1>9, <2>1, <2>2 DEF DevicePostStop, TypeOK
<1>10. CASE WindowElapses
  BY <1>10, DeviceAssumption DEF WindowElapses, TypeOK
<1>11. CASE KernelPoisons
  <2>1. contextMailbox \in Seq(ContextMsg) /\ faulted' \subseteq Nat
    BY <1>11 DEF KernelPoisons, TypeOK
  <2> QED
    BY <1>11, <2>1, PoisonedTypes DEF KernelPoisons
<1>12. CASE InitPoisoned
  <2>1. Tail(contextMailbox) \in Seq(ContextMsg) /\ faulted' \subseteq Nat
    BY <1>12, HeadTypes DEF InitPoisoned, InInit, TypeOK
  <2> QED
    BY <1>12, <2>1, PoisonedTypes DEF InitPoisoned
<1>13. CASE InitSpawnFails
  <2>1. /\ failures' \in 0..MaxFailures /\ escalated' \in BOOLEAN /\ faulted' \subseteq Nat
        /\ device' \in {"running", "stopping", "stopped"}
    BY <1>13, DeviceAssumption DEF InitSpawnFails, Fails, TypeOK
  <2> QED
    BY <1>13, <2>1, StopContextTypes DEF InitSpawnFails
<1>14. CASE ContextPostStop
  <2>1. /\ failures' \in 0..MaxFailures /\ escalated' \in BOOLEAN /\ faulted' \subseteq Nat
        /\ device' \in {"running", "stopping", "stopped"}
    BY <1>14 DEF ContextPostStop, TypeOK
  <2> QED
    BY <1>14, <2>1, StopContextTypes DEF ContextPostStop
<1>15. CASE CopyWithoutStream
  <2>1. /\ failures' \in 0..MaxFailures /\ escalated' \in BOOLEAN /\ faulted' \subseteq Nat
        /\ device' \in {"running", "stopping", "stopped"}
    BY <1>15 DEF CopyWithoutStream, TypeOK
  <2> QED
    BY <1>15, <2>1, StopContextTypes DEF CopyWithoutStream
<1>16. CASE InitBump
  BY <1>16 DEF InitBump, TypeOK
<1>17. CASE InitInstall
  BY <1>17 DEF InitInstall, TypeOK
<1>18. CASE InitSpawn
  <2>1. contextMailbox' \in Seq(ContextMsg)
    BY <1>18, HeadTypes DEF InitSpawn, InInit
  <2>2. <<Ready(generation)>> \in Seq(DeviceMsg)
    BY MessageTypes DEF TypeOK
  <2>3. deviceMailbox' \in Seq(DeviceMsg)
    BY <1>18, <2>2, TellDeviceType DEF InitSpawn
  <2> QED
    BY <1>18, <2>1, <2>3 DEF InitSpawn, TypeOK
<1>19. CASE HandleAlloc
  <2> DEFINE r == Head(contextMailbox).id
  <2>1. r \in Requests /\ contextMailbox' \in Seq(ContextMsg)
    BY <1>19, HeadTypes DEF HandleAlloc, ContextHandles
  <2>2. {"stale", "oom", "ok"} \subseteq Replies
    BY DEF Replies
  <2>3. reply' \in [Requests -> Replies]
    BY <1>19, <2>1, <2>2, ReplyTypes DEF HandleAlloc
  <2>4. refGen' \in [Refs -> Nat] /\ refCtx' \in [Refs -> Nat]
    <3>1. CASE UNCHANGED refVars
      BY <3>1 DEF TypeOK
    <3>2. CASE /\ refGen' = [refGen EXCEPT ![r] = generation]
               /\ refCtx' = [refCtx EXCEPT ![r] = stream]
      BY <3>2 DEF TypeOK
    <3> QED
      BY <1>19, <3>1, <3>2 DEF HandleAlloc
  <2> QED
    BY <1>19, <2>1, <2>3, <2>4 DEF HandleAlloc, ContextUnchanged, TypeOK
<1>20. CASE HandleCopyToHost
  <2> DEFINE r == Head(contextMailbox).id
  <2>1. r \in Requests /\ contextMailbox' \in Seq(ContextMsg)
    BY <1>20, HeadTypes DEF HandleCopyToHost, ContextHandles
  <2>2. {"stale", "unrecoverable", "library"} \subseteq Replies
    BY DEF Replies
  <2>3. reply' \in [Requests -> Replies]
    <3>1. CASE UNCHANGED reply
      BY <3>1 DEF TypeOK
    <3>2. CASE \E e \in {"stale", "unrecoverable", "library"} :
                  reply' = [reply EXCEPT ![r] = e]
      BY <2>1, <2>2, <3>2, ReplyTypes
    <3> QED
      BY <1>20, <3>1, <3>2 DEF HandleCopyToHost
  <2>4. Validation(r, stream) \in [stream : Nat, slice : Nat]
    BY <2>1 DEF Validation, TypeOK
  <2>5. validated' \in [Requests -> [stream : Nat, slice : Nat]]
    BY <1>20, <2>1, <2>4 DEF HandleCopyToHost, TypeOK
  <2>6. running' \subseteq Requests
    BY <1>20, <2>1 DEF HandleCopyToHost, TypeOK
  <2> QED
    BY <1>20, <2>1, <2>3, <2>5, <2>6 DEF HandleCopyToHost, ContextUnchanged, TypeOK
<1>21. CASE HandleCopyFromHost
  <2> DEFINE r == Head(contextMailbox).id
  <2>1. r \in Requests /\ contextMailbox' \in Seq(ContextMsg)
    BY <1>21, HeadTypes DEF HandleCopyFromHost, ContextHandles
  <2>2. /\ reply' \in [Requests -> Replies]
        /\ validated' \in [Requests -> [stream : Nat, slice : Nat]]
        /\ running' \subseteq Requests
    <3>1. CASE StartWrite(r, stream)
      BY <2>1, <3>1, WriteTypes DEF TypeOK
    <3>2. CASE /\ reply' = [reply EXCEPT ![r] = "unrecoverable"]
               /\ validated' = [validated EXCEPT ![r] = Validation(r, stream)]
               /\ UNCHANGED running
      <4>1. Validation(r, stream) \in [stream : Nat, slice : Nat]
        BY <2>1 DEF Validation, TypeOK
      <4>2. "unrecoverable" \in Replies
        BY DEF Replies
      <4> QED
        BY <2>1, <3>2, <4>1, <4>2 DEF TypeOK
    <3> QED
      BY <1>21, <3>1, <3>2 DEF HandleCopyFromHost
  <2> QED
    BY <1>21, <2>1, <2>2 DEF HandleCopyFromHost, ContextUnchanged, TypeOK
<1>22. CASE HandleSnapshotStream
  <2>1. Head(contextMailbox).id \in Requests /\ contextMailbox' \in Seq(ContextMsg)
    BY <1>22, HeadTypes DEF HandleSnapshotStream, ContextHandles
  <2>2. "ok" \in Replies
    BY DEF Replies
  <2>3. reply' \in [Requests -> Replies]
    BY <1>22, <2>1, <2>2, ReplyTypes DEF HandleSnapshotStream
  <2> QED
    BY <1>22, <2>1, <2>3 DEF HandleSnapshotStream, ContextUnchanged, TypeOK
<1>23. CASE HandleSgemm
  <2>1. blasMailbox' \in Seq(Requests) /\ Head(blasMailbox) \in Requests /\ blas \in Nat
    BY <1>23, HeadTypes DEF HandleSgemm, TypeOK
  <2>2. /\ reply' \in [Requests -> Replies]
        /\ validated' \in [Requests -> [stream : Nat, slice : Nat]]
        /\ running' \subseteq Requests
    BY <1>23, <2>1, WriteTypes DEF HandleSgemm
  <2> QED
    BY <1>23, <2>1, <2>2 DEF HandleSgemm, TypeOK
<1>24. CASE \E r \in Requests : Complete(r)
  <2>1. PICK r \in Requests : Complete(r)
    BY <1>24
  <2>2. {"ok", "library"} \subseteq Replies
    BY DEF Replies
  <2>3. reply' \in [Requests -> Replies]
    BY <2>1, <2>2, ReplyTypes DEF Complete
  <2> QED
    BY <2>1, <2>3 DEF Complete, TypeOK
<1>25. CASE UNCHANGED vars
  BY <1>25 DEF vars, TypeOK
<1>26. CASE ContextFaults
  BY <1>26, DeviceAssumption DEF ContextFaults, Fails, TypeOK
<1> QED
  BY <1>1, <1>2, <1>3, <1>4, <1>5, <1>6, <1>7, <1>8, <1>9, <1>10, <1>11, <1>12,
     <1>13, <1>14, <1>15, <1>16, <1>17, <1>18, <1>19, <1>20, <1>21, <1>22, <1>23,
     <1>24, <1>25, <1>26
     DEF Next, DeviceStep, ContextStep, StopStep, FaultStep

\* Every variable keeps its type in every behaviour of the device.
THEOREM TypeCorrect == Spec => []TypeOK
<1>1. Init => TypeOK
  BY InitTypeOK
<1>2. TypeOK /\ [Next]_vars => TypeOK'
  BY TypeStep
<1> QED
  BY <1>1, <1>2, PTL DEF Spec

-----------------------------------------------------------------------------
(* The ContextActor's mailbox and the incarnation that is up *)

\* Elements of the sequences the handlers build.
LEMMA TailElements ==
    ASSUME NEW S, NEW s \in Seq(S), s # <<>>
    PROVE  /\ Len(Tail(s)) = Len(s) - 1
           /\ \A i \in 1..Len(Tail(s)) : i + 1 \in 1..Len(s) /\ Tail(s)[i] = s[i + 1]
           /\ 1 \in 1..Len(s)
           /\ Head(s) = s[1]
OBVIOUS

LEMMA AppendElements ==
    ASSUME NEW S, NEW s \in Seq(S), NEW e \in S
    PROVE  /\ Len(Append(s, e)) = Len(s) + 1
           /\ \A i \in 1..Len(s) : Append(s, e)[i] = s[i]
           /\ Append(s, e)[Len(s) + 1] = e
OBVIOUS

LEMMA ForwardKeepsContext ==
    ASSUME TypeOK, ContextInv, NEW r \in Requests,
           TellContext(r),
           UNCHANGED <<generation, stream, blas, initStep>>
    PROVE  ContextInv'
<1>1. CASE UNCHANGED contextMailbox
  BY <1>1 DEF ContextInv
<1>2. CASE contextMailbox' = Append(contextMailbox, Req(r))
  <2>1. contextMailbox \in Seq(ContextMsg) /\ Req(r) \in ContextMsg
    BY MessageTypes DEF TypeOK
  <2>2. /\ Len(contextMailbox') = Len(contextMailbox) + 1
        /\ \A i \in 1..Len(contextMailbox) : contextMailbox'[i] = contextMailbox[i]
        /\ contextMailbox'[Len(contextMailbox) + 1] = Req(r)
    BY <1>2, <2>1, AppendElements
  <2>3. Req(r).type # "Init"
    BY DEF Req
  <2>4. Len(contextMailbox) \in Nat /\ (contextMailbox # <<>> => Len(contextMailbox) > 0)
    BY <2>1
  <2>5. contextMailbox' # <<>>
    BY <1>2, <2>1
  <2>6. \A i \in 1..Len(contextMailbox') : contextMailbox'[i].type = "Init" =>
            i \in 1..Len(contextMailbox) /\ contextMailbox[i].type = "Init"
    BY <2>2, <2>3, <2>4
  <2> QED
    BY <2>2, <2>4, <2>5, <2>6 DEF ContextInv
<1> QED
  BY <1>1, <1>2 DEF TellContext

LEMMA HandledRequestKeepsContext ==
    ASSUME TypeOK, ContextInv,
           contextMailbox # <<>>, Head(contextMailbox).type = "Req",
           contextMailbox' = Tail(contextMailbox),
           UNCHANGED <<generation, stream, blas, initStep>>
    PROVE  ContextInv'
<1>1. contextMailbox \in Seq(ContextMsg)
  BY DEF TypeOK
<1>2. /\ \A i \in 1..Len(contextMailbox') :
            i + 1 \in 1..Len(contextMailbox) /\ contextMailbox'[i] = contextMailbox[i + 1]
      /\ contextMailbox[1].type = "Req"
  BY <1>1, TailElements
<1>3. initStep = "idle"
  BY <1>2 DEF ContextInv, TypeOK
<1>4. Len(contextMailbox') \in Nat
  BY <1>1
<1> QED
  BY <1>2, <1>3, <1>4 DEF ContextInv

LEMMA StopKeepsContext ==
    ASSUME TypeOK, ContextInv, NEW mailbox, StopContext(mailbox)
    PROVE  ContextInv'
<1>1. contextMailbox' = <<>> /\ stream' = 0 /\ initStep' = "idle" /\ blas' = 0
  BY DEF StopContext, StopBlas
<1>2. \A i \in 1..Len(contextMailbox') : FALSE
  BY <1>1
<1> QED
  BY <1>1, <1>2 DEF ContextInv

LEMMA RestartKeepsContext ==
    ASSUME TypeOK, ContextInv, NEW mailbox \in Seq(ContextMsg),
           \A i \in 1..Len(mailbox) : mailbox[i].type # "Init",
           Restart(mailbox)
    PROVE  ContextInv'
<1>1. /\ contextMailbox' = Append(mailbox, InitMsg)
      /\ stream' = 0 /\ initStep' = "idle" /\ blas' = 0
  BY DEF Restart, StopBlas, PostRestart
<1>2. /\ Len(contextMailbox') = Len(mailbox) + 1
      /\ \A i \in 1..Len(mailbox) : contextMailbox'[i] = mailbox[i]
  BY <1>1, MessageTypes, AppendElements
<1>3. Len(mailbox) \in Nat
  OBVIOUS
<1>4. \A i \in 1..Len(contextMailbox') :
         contextMailbox'[i].type = "Init" => i = Len(mailbox) + 1
  BY <1>2, <1>3
<1> QED
  BY <1>1, <1>4 DEF ContextInv

\* While run_init works on an Init, that Init is the only one.
LEMMA OneInit ==
    ASSUME TypeOK, ContextInv, NEW step, InInit(step)
    PROVE  /\ Tail(contextMailbox) \in Seq(ContextMsg)
           /\ \A i \in 1..Len(Tail(contextMailbox)) :
                 Tail(contextMailbox)[i].type # "Init"
           /\ 1 \in 1..Len(contextMailbox) /\ contextMailbox[1].type = "Init"
           /\ blas = 0
           /\ step # "installed" => stream = 0
<1>1. contextMailbox \in Seq(ContextMsg) /\ contextMailbox # <<>>
  BY DEF TypeOK, InInit
<1>2. /\ \A i \in 1..Len(Tail(contextMailbox)) :
            i + 1 \in 1..Len(contextMailbox) /\ Tail(contextMailbox)[i] = contextMailbox[i + 1]
      /\ 1 \in 1..Len(contextMailbox)
      /\ contextMailbox[1].type = "Init"
  BY <1>1, TailElements DEF InInit
<1>3. \A j \in 1..Len(contextMailbox) : contextMailbox[j].type = "Init" => j = 1
  BY <1>2 DEF ContextInv
<1>4. blas = 0 /\ (step # "installed" => stream = 0)
  BY <1>2 DEF ContextInv, InInit
<1>5. \A i \in 1..Len(Tail(contextMailbox)) : i + 1 # 1
  BY <1>1
<1> QED
  BY <1>1, <1>2, <1>3, <1>4, <1>5

LEMMA PoisonedKeepsContext ==
    ASSUME TypeOK, ContextInv, NEW mailbox \in Seq(ContextMsg),
           \A i \in 1..Len(mailbox) : mailbox[i].type # "Init",
           Poisoned(mailbox)
    PROVE  ContextInv'
BY RestartKeepsContext, StopKeepsContext DEF Poisoned

LEMMA ContextStepInv == TypeOK /\ ContextInv /\ [Next]_vars => ContextInv'
<1> SUFFICES ASSUME TypeOK, ContextInv, [Next]_vars PROVE ContextInv'
  OBVIOUS
<1> USE DEF stateVars, contextVars, blasVars
<1>1. CASE UNCHANGED <<generation, stream, blas, initStep, contextMailbox>>
  BY <1>1 DEF ContextInv
<1>2. CASE HandleWhenReady \/ HandleSnapshot
  <2>1. Head(deviceMailbox).id \in Requests
    BY <1>2, HeadTypes DEF HandleWhenReady, HandleSnapshot, Handling
  <2> QED
    BY <1>1, <1>2, <2>1, ForwardKeepsContext DEF HandleWhenReady, HandleSnapshot
<1>3. CASE DrainPending
  <2>1. pending # <<>> => Head(pending) \in Requests
    BY HeadTypes
  <2> QED
    BY <1>1, <1>3, <2>1, ForwardKeepsContext DEF DrainPending
<1>4. CASE KernelPoisons
  <2>1. \A i \in 1..Len(contextMailbox) : contextMailbox[i].type # "Init"
    BY <1>4 DEF KernelPoisons, ContextInv
  <2> QED
    BY <1>4, <2>1, PoisonedKeepsContext DEF KernelPoisons, TypeOK
<1>5. CASE InitPoisoned
  BY <1>5, OneInit, PoisonedKeepsContext DEF InitPoisoned
<1>6. CASE InitSpawnFails \/ ContextPostStop \/ CopyWithoutStream
  BY <1>6, StopKeepsContext DEF InitSpawnFails, ContextPostStop, CopyWithoutStream
<1>7. CASE InitBump
  <2>1. blas = 0 /\ stream = 0 /\ contextMailbox[1].type = "Init" /\ contextMailbox # <<>>
    BY <1>7, OneInit DEF InitBump, InInit
  <2> QED
    BY <1>7, <2>1 DEF InitBump, ContextInv
<1>8. CASE InitInstall
  <2>1. blas = 0 /\ contextMailbox[1].type = "Init" /\ contextMailbox # <<>>
    BY <1>8, OneInit DEF InitInstall, InInit
  <2> QED
    BY <1>8, <2>1 DEF InitInstall, ContextInv
<1>9. CASE InitSpawn
  <2>1. /\ contextMailbox' = Tail(contextMailbox) /\ initStep' = "idle"
        /\ blas' = generation /\ UNCHANGED <<stream, generation>>
    BY <1>9 DEF InitSpawn
  <2>2. \A i \in 1..Len(contextMailbox') : contextMailbox'[i].type # "Init"
    BY <1>9, <2>1, OneInit DEF InitSpawn
  <2> QED
    BY <2>1, <2>2 DEF ContextInv
<1>10. CASE \/ HandleAlloc \/ HandleCopyToHost \/ HandleCopyFromHost
            \/ HandleSnapshotStream
  BY <1>10, HandledRequestKeepsContext
     DEF HandleAlloc, HandleCopyToHost, HandleCopyFromHost, HandleSnapshotStream,
         ContextHandles, ContextUnchanged
<1>11. CASE Submit \/ HandleWhenNotReady \/ HandleContextReady \/ HandleContextLost
  BY <1>1, <1>11 DEF Submit, HandleWhenNotReady, HandleContextReady, HandleContextLost
<1>12. CASE BeginStop \/ DevicePostStop \/ WindowElapses \/ ContextFaults \/ HandleSgemm
  BY <1>1, <1>12 DEF BeginStop, DevicePostStop, WindowElapses, ContextFaults, HandleSgemm
<1>13. CASE \E r \in Requests : Complete(r)
  BY <1>1, <1>13 DEF Complete
<1>14. CASE UNCHANGED vars
  BY <1>1, <1>14 DEF vars
<1> QED
  BY <1>2, <1>3, <1>4, <1>5, <1>6, <1>7, <1>8, <1>9, <1>10, <1>11, <1>12, <1>13, <1>14
     DEF Next, DeviceStep, ContextStep, StopStep, FaultStep

-----------------------------------------------------------------------------
(* Buffers are used in their own context only *)

\* What passes access() in an actor on the current context is of that context.
LEMMA AccessIsOwnContext ==
    ASSUME TypeOK, RefInv, NEW r \in Requests, Access(buf[r])
    PROVE  Validation(r, generation) = [stream |-> generation, slice |-> generation]
<1>1. buf[r] \in Refs
  BY DEF TypeOK
<1>2. refGen[buf[r]] = generation /\ refCtx[buf[r]] = generation
  BY <1>1 DEF Access, RefInv
<1> QED
  BY <1>2 DEF Validation

LEMMA RefStep == TypeOK /\ ContextInv /\ RefInv /\ [Next]_vars => RefInv'
<1> SUFFICES ASSUME TypeOK, ContextInv, RefInv, [Next]_vars PROVE RefInv'
  OBVIOUS
<1> USE DEF refVars
<1>1. CASE UNCHANGED refVars
  BY <1>1 DEF RefInv
<1>2. CASE HandleAlloc
  <2>1. CASE UNCHANGED refVars
    BY <1>1, <2>1
  <2>2. CASE /\ stream # 0
             /\ refGen' = [refGen EXCEPT ![Head(contextMailbox).id] = generation]
             /\ refCtx' = [refCtx EXCEPT ![Head(contextMailbox).id] = stream]
    <3>1. stream = generation
      BY <2>2 DEF ContextInv
    <3> QED
      BY <2>2, <3>1 DEF RefInv, TypeOK
  <2> QED
    BY <1>2, <2>1, <2>2 DEF HandleAlloc
<1>3. CASE DeviceStep \/ Submit \/ BeginStop \/ DevicePostStop \/ HandleSgemm
  BY <1>1, <1>3 DEF DeviceStep, HandleWhenReady, HandleWhenNotReady, HandleSnapshot,
     HandleContextReady, DrainPending, HandleContextLost, Submit, BeginStop,
     DevicePostStop, HandleSgemm
<1>4. CASE ContextPostStop \/ FaultStep \/ CopyWithoutStream
  BY <1>1, <1>4 DEF ContextPostStop, FaultStep, CopyWithoutStream, KernelPoisons,
     InitPoisoned, InitSpawnFails, WindowElapses, ContextFaults, Poisoned, Restart, StopContext
<1>5. CASE \/ InitBump \/ InitInstall \/ InitSpawn \/ HandleCopyToHost
           \/ HandleCopyFromHost \/ HandleSnapshotStream
  BY <1>1, <1>5 DEF InitBump, InitInstall, InitSpawn, HandleCopyToHost,
     HandleCopyFromHost, HandleSnapshotStream
<1>6. CASE \E r \in Requests : Complete(r)
  BY <1>1, <1>6 DEF Complete
<1>7. CASE UNCHANGED vars
  BY <1>1, <1>7 DEF vars
<1> QED
  BY <1>2, <1>3, <1>4, <1>5, <1>6, <1>7 DEF Next, ContextStep, StopStep

LEMMA OwnContextStep == IInv /\ [Next]_vars => RunsInOwnContext'
<1> SUFFICES ASSUME IInv, [Next]_vars PROVE RunsInOwnContext'
  OBVIOUS
<1> USE DEF runVars
<1>0. validated \in [Requests -> [stream : Nat, slice : Nat]]
  BY DEF IInv, TypeOK
<1>1. CASE UNCHANGED validated
  BY <1>1 DEF RunsInOwnContext, IInv
<1>2. ASSUME NEW r \in Requests, Access(buf[r]),
             validated' = [validated EXCEPT ![r] = Validation(r, generation)]
      PROVE  RunsInOwnContext'
  <2>1. Validation(r, generation) = [stream |-> generation, slice |-> generation]
    BY <1>2, AccessIsOwnContext DEF IInv
  <2>2. validated' = [validated EXCEPT ![r] = [stream |-> generation, slice |-> generation]]
    BY <1>2, <2>1
  <2> QED
    BY <1>0, <2>2 DEF RunsInOwnContext, IInv
<1>3. ASSUME NEW r \in Requests, StartWrite(r, generation)
      PROVE  RunsInOwnContext'
  BY <1>1, <1>2, <1>3 DEF StartWrite
<1>4. stream # 0 => stream = generation
  BY DEF IInv, ContextInv
<1>5. contextMailbox # <<>> /\ Head(contextMailbox).type = "Req" =>
         Head(contextMailbox).id \in Requests
  BY HeadTypes DEF IInv
<1>6. CASE HandleCopyToHost
  <2>1. Head(contextMailbox).id \in Requests /\ stream = generation
    BY <1>4, <1>5, <1>6 DEF HandleCopyToHost, ContextHandles
  <2> QED
    BY <1>1, <1>2, <1>6, <2>1 DEF HandleCopyToHost
<1>7. CASE HandleCopyFromHost
  <2>1. Head(contextMailbox).id \in Requests /\ stream = generation
    BY <1>4, <1>5, <1>7 DEF HandleCopyFromHost, ContextHandles
  <2> QED
    BY <1>2, <1>3, <1>7, <2>1 DEF HandleCopyFromHost
<1>8. CASE HandleSgemm
  <2>1. Head(blasMailbox) \in Requests /\ blas = generation
    BY <1>8, HeadTypes DEF HandleSgemm, IInv, ContextInv
  <2> QED
    BY <1>3, <1>8, <2>1 DEF HandleSgemm
<1>9. CASE DeviceStep \/ Submit \/ BeginStop \/ DevicePostStop
  BY <1>1, <1>9 DEF DeviceStep, HandleWhenReady, HandleWhenNotReady, HandleSnapshot,
     HandleContextReady, DrainPending, HandleContextLost, Submit, BeginStop, DevicePostStop
<1>10. CASE ContextPostStop \/ FaultStep \/ CopyWithoutStream
  BY <1>1, <1>10 DEF ContextPostStop, FaultStep, CopyWithoutStream, KernelPoisons,
     InitPoisoned, InitSpawnFails, WindowElapses, ContextFaults, Poisoned, Restart, StopContext
<1>11. CASE InitBump \/ InitInstall \/ InitSpawn \/ HandleAlloc \/ HandleSnapshotStream
  BY <1>1, <1>11 DEF InitBump, InitInstall, InitSpawn, HandleAlloc, HandleSnapshotStream
<1>12. CASE \E r \in Requests : Complete(r)
  BY <1>1, <1>12 DEF Complete
<1>13. CASE UNCHANGED vars
  BY <1>1, <1>13 DEF vars
<1> QED
  BY <1>6, <1>7, <1>8, <1>9, <1>10, <1>11, <1>12, <1>13 DEF Next, ContextStep, StopStep

\* However restarts, failures and shutdown interleave with copies and gemms, a
\* buffer that passes GpuRef::access is used on a stream of the very context it
\* was allocated in.
THEOREM OwnContext == Spec => []RunsInOwnContext
<1>1. Init => IInv
  <2> SUFFICES ASSUME Init PROVE IInv
    OBVIOUS
  <2>1. TypeOK
    BY InitTypeOK
  <2>2. ContextInv
    <3>1. contextMailbox = <<InitMsg>> /\ stream = 0 /\ blas = 0 /\ initStep = "idle"
      BY DEF Init
    <3>2. \A i, j \in 1..Len(contextMailbox) : i = j
      BY <3>1
    <3> QED
      BY <3>1, <3>2 DEF ContextInv
  <2>3. RefInv /\ RunsInOwnContext
    BY DEF Init, RefInv, RunsInOwnContext
  <2> QED
    BY <2>1, <2>2, <2>3 DEF IInv
<1>2. IInv /\ [Next]_vars => IInv'
  BY TypeStep, ContextStepInv, RefStep, OwnContextStep DEF IInv
<1>3. IInv => RunsInOwnContext
  BY DEF IInv
<1> QED
  BY <1>1, <1>2, <1>3, PTL DEF Spec

-----------------------------------------------------------------------------
(* The children the DeviceActor routes to *)

\* The last word in the mailbox is about the kernel actor that is alive.
LEMMA NewsArrives ==
    ASSUME TypeOK, NEW msgs \in Seq(DeviceMsg), msgs # <<>>,
           msgs[Len(msgs)].type # "Req", msgs[Len(msgs)].id = blas',
           device # "stopped", TellDevice(msgs)
    PROVE  ChildrenConverge'
<1> DEFINE s == deviceMailbox
           n == Len(deviceMailbox) + Len(msgs)
<1>1. s \in Seq(DeviceMsg) /\ deviceMailbox' = s \o msgs
  BY DEF TypeOK, TellDevice
<1>2. /\ Len(s) \in Nat /\ Len(msgs) \in Nat /\ Len(msgs) > 0
      /\ DOMAIN deviceMailbox' = 1..n
      /\ deviceMailbox'[n] = msgs[Len(msgs)]
  BY <1>1
<1>3. n \in DOMAIN deviceMailbox' /\ \A j \in DOMAIN deviceMailbox' : ~(j > n)
  BY <1>2
<1> QED
  BY <1>2, <1>3 DEF ChildrenConverge

LEMMA RequestArrives ==
    ASSUME TypeOK, ChildrenConverge, NEW r \in Requests,
           TellDevice(<<Req(r)>>), UNCHANGED <<device, children, blas>>
    PROVE  ChildrenConverge'
<1> DEFINE s == deviceMailbox
<1>1. CASE device = "stopped"
  BY <1>1 DEF ChildrenConverge
<1>2. CASE device # "stopped"
  <2>1. s \in Seq(DeviceMsg) /\ deviceMailbox' = s \o <<Req(r)>> /\ Req(r) \in DeviceMsg
    BY <1>2, MessageTypes DEF TypeOK, TellDevice
  <2>2. /\ Len(s) \in Nat
        /\ DOMAIN s = 1..Len(s)
        /\ DOMAIN deviceMailbox' = 1..(Len(s) + 1)
        /\ \A i \in 1..Len(s) : deviceMailbox'[i] = s[i]
        /\ deviceMailbox'[Len(s) + 1] = Req(r)
    BY <2>1
  <2>3. Req(r).type = "Req"
    BY DEF Req
  <2>4. \A j \in DOMAIN deviceMailbox' : deviceMailbox'[j].type # "Req" => j \in DOMAIN s
    BY <2>2, <2>3
  <2>5. DOMAIN s \subseteq DOMAIN deviceMailbox'
    BY <2>2
  <2>6. CASE \A i \in DOMAIN s : s[i].type = "Req"
    <3>1. \A i \in DOMAIN deviceMailbox' : deviceMailbox'[i].type = "Req"
      BY <2>2, <2>4, <2>6
    <3>2. children = blas
      BY <1>2, <2>6 DEF ChildrenConverge
    <3> QED
      BY <3>1, <3>2 DEF ChildrenConverge
  <2>7. CASE \E i \in DOMAIN s : s[i].type # "Req"
    <3>1. PICK i \in DOMAIN s : /\ s[i].type # "Req" /\ s[i].id = blas
                               /\ \A j \in DOMAIN s : j > i => s[j].type = "Req"
      BY <1>2, <2>7 DEF ChildrenConverge
    <3>2. \A j \in DOMAIN deviceMailbox' : j > i => deviceMailbox'[j].type = "Req"
      BY <2>2, <2>4, <3>1
    <3>3. i \in DOMAIN deviceMailbox' /\ deviceMailbox'[i] = s[i]
      BY <2>2, <2>5, <3>1
    <3> QED
      BY <3>1, <3>2, <3>3 DEF ChildrenConverge
  <2> QED
    BY <2>6, <2>7
<1> QED
  BY <1>1, <1>2

\* Handling the head: a request changes nothing, news become the children.
LEMMA HeadHandled ==
    ASSUME TypeOK, ChildrenConverge, NEW t, Handling(t),
           UNCHANGED <<device, blas>>,
           children' = IF t = "Req" THEN children ELSE Head(deviceMailbox).id
    PROVE  ChildrenConverge'
<1> DEFINE s == deviceMailbox
<1>1. /\ s \in Seq(DeviceMsg) /\ s # <<>> /\ device # "stopped"
      /\ deviceMailbox' = Tail(s) /\ s[1].type = t /\ Head(s) = s[1]
  BY TailElements DEF TypeOK, Handling
<1>2. /\ Len(s) \in Nat /\ Len(s) > 0
      /\ DOMAIN s = 1..Len(s)
      /\ DOMAIN deviceMailbox' = 1..(Len(s) - 1)
      /\ \A i \in 1..(Len(s) - 1) : deviceMailbox'[i] = s[i + 1]
  BY <1>1
<1>3. CASE \A i \in DOMAIN deviceMailbox' : deviceMailbox'[i].type = "Req"
  <2>1. \A i \in DOMAIN s : i # 1 => s[i].type = "Req"
    <3> TAKE i \in DOMAIN s
    <3> HAVE i # 1
    <3>1. i - 1 \in 1..(Len(s) - 1) /\ (i - 1) + 1 = i
      BY <1>2
    <3> QED
      BY <1>2, <1>3, <3>1
  <2>2. CASE t = "Req"
    <3>1. \A i \in DOMAIN s : s[i].type = "Req"
      BY <1>1, <2>1, <2>2
    <3> QED
      BY <1>1, <1>3, <2>2, <3>1 DEF ChildrenConverge
  <2>3. CASE t # "Req"
    <3>1. s[1].id = blas
      BY <1>1, <1>2, <2>1, <2>3 DEF ChildrenConverge
    <3> QED
      BY <1>1, <1>3, <2>3, <3>1 DEF ChildrenConverge
  <2> QED
    BY <2>2, <2>3
<1>4. CASE \E i \in DOMAIN deviceMailbox' : deviceMailbox'[i].type # "Req"
  <2>1. PICK k \in 1..(Len(s) - 1) : s[k + 1].type # "Req"
    BY <1>2, <1>4
  <2>2. k + 1 \in DOMAIN s
    BY <1>2
  <2>3. PICK i \in DOMAIN s : /\ s[i].type # "Req" /\ s[i].id = blas
                             /\ \A j \in DOMAIN s : j > i => s[j].type = "Req"
    BY <1>1, <2>1, <2>2 DEF ChildrenConverge
  <2>4. ~(k + 1 > i)
    BY <2>1, <2>2, <2>3
  <2>5. i - 1 \in 1..(Len(s) - 1) /\ (i - 1) + 1 = i
    BY <1>2, <2>4
  <2>6. deviceMailbox'[i - 1] = s[i]
    BY <1>2, <2>5
  <2>7. \A j \in DOMAIN deviceMailbox' : j > i - 1 => deviceMailbox'[j].type = "Req"
    <3> TAKE j \in DOMAIN deviceMailbox'
    <3> HAVE j > i - 1
    <3>1. j + 1 \in DOMAIN s /\ j + 1 > i /\ deviceMailbox'[j] = s[j + 1]
      BY <1>2, <2>5
    <3> QED
      BY <2>3, <3>1
  <2> QED
    BY <1>2, <2>3, <2>5, <2>6, <2>7 DEF ChildrenConverge
<1> QED
  BY <1>3, <1>4

LEMMA LostArrives ==
    ASSUME TypeOK, ChildrenConverge, blas' = 0,
           device = "stopped" => device' = "stopped",
           TellDevice(<<Lost>>) \/ TellDevice(<<Lost, Lost>>)
    PROVE  ChildrenConverge'
<1>1. CASE device = "stopped"
  BY <1>1 DEF ChildrenConverge
<1>2. CASE device # "stopped"
  <2>1. /\ <<Lost>> \in Seq(DeviceMsg) /\ <<Lost>>[1] = Lost /\ Len(<<Lost>>) = 1
        /\ <<Lost, Lost>> \in Seq(DeviceMsg) /\ <<Lost, Lost>>[2] = Lost
        /\ Len(<<Lost, Lost>>) = 2
    BY MessageTypes
  <2>2. Lost.type # "Req" /\ Lost.id = 0
    BY DEF Lost
  <2>3. CASE TellDevice(<<Lost>>)
    BY <1>2, <2>1, <2>2, <2>3, NewsArrives
  <2>4. CASE TellDevice(<<Lost, Lost>>)
    BY <1>2, <2>1, <2>2, <2>4, NewsArrives
  <2> QED
    BY <2>3, <2>4
<1> QED
  BY <1>1, <1>2

LEMMA ChildrenStep == TypeOK /\ ChildrenConverge /\ [Next]_vars => ChildrenConverge'
<1> SUFFICES ASSUME TypeOK, ChildrenConverge, [Next]_vars PROVE ChildrenConverge'
  OBVIOUS
<1> USE DEF deviceVars, blasVars
<1>1. CASE UNCHANGED <<device, deviceMailbox, children, blas>>
  BY <1>1 DEF ChildrenConverge
<1>2. CASE Submit
  <2>1. submitted + 1 \in Requests
    BY <1>2, DeviceAssumption DEF Submit, Requests, TypeOK
  <2> QED
    BY <1>2, <2>1, RequestArrives DEF Submit
<1>3. CASE HandleWhenReady \/ HandleWhenNotReady \/ HandleSnapshot
  BY <1>3, HeadHandled DEF HandleWhenReady, HandleWhenNotReady, HandleSnapshot
<1>4. CASE HandleContextReady
  BY <1>4, HeadHandled DEF HandleContextReady
<1>5. CASE HandleContextLost
  <2>1. Head(deviceMailbox) \in DeviceMsg /\ Head(deviceMailbox).type = "ContextLost"
    BY <1>5, HeadTypes DEF HandleContextLost, Handling
  <2>2. Head(deviceMailbox).id = 0
    BY <2>1 DEF DeviceMsg, Lost
  <2> QED
    BY <1>5, <2>2, HeadHandled DEF HandleContextLost
<1>6. CASE BeginStop
  BY <1>6 DEF BeginStop, ChildrenConverge
<1>7. CASE DevicePostStop
  BY <1>7 DEF DevicePostStop, ChildrenConverge
<1>8. CASE InitSpawn
  <2>1. CASE device = "stopped"
    BY <1>8, <2>1 DEF InitSpawn, ChildrenConverge
  <2>2. CASE device # "stopped"
    <3>1. /\ <<Ready(generation)>> \in Seq(DeviceMsg) /\ Len(<<Ready(generation)>>) = 1
          /\ <<Ready(generation)>>[1] = Ready(generation)
      BY MessageTypes DEF TypeOK
    <3>2. Ready(generation).type # "Req" /\ Ready(generation).id = generation
      BY DEF Ready
    <3>3. TellDevice(<<Ready(generation)>>) /\ blas' = generation
      BY <1>8 DEF InitSpawn
    <3> QED
      BY <2>2, <3>1, <3>2, <3>3, NewsArrives
  <2> QED
    BY <2>1, <2>2
<1>9. CASE KernelPoisons \/ InitPoisoned
  BY <1>9, LostArrives DEF KernelPoisons, InitPoisoned, Poisoned, Restart, StopContext, StopBlas
<1>10. CASE InitSpawnFails \/ ContextPostStop \/ CopyWithoutStream
  BY <1>10, LostArrives
     DEF InitSpawnFails, ContextPostStop, CopyWithoutStream, StopContext, StopBlas
<1>11. CASE DrainPending \/ WindowElapses \/ ContextFaults \/ InitBump \/ InitInstall \/ HandleSgemm
  BY <1>1, <1>11 DEF DrainPending, WindowElapses, ContextFaults, InitBump, InitInstall, HandleSgemm
<1>12. CASE \/ HandleAlloc \/ HandleCopyToHost \/ HandleCopyFromHost
            \/ HandleSnapshotStream
  BY <1>1, <1>12 DEF HandleAlloc, HandleCopyToHost, HandleCopyFromHost,
     HandleSnapshotStream, ContextUnchanged
<1>13. CASE \E r \in Requests : Complete(r)
  BY <1>1, <1>13 DEF Complete
<1>14. CASE UNCHANGED vars
  BY <1>1, <1>14 DEF vars
<1> QED
  BY <1>2, <1>3, <1>4, <1>5, <1>6, <1>7, <1>8, <1>9, <1>10, <1>11, <1>12, <1>13, <1>14
     DEF Next, DeviceStep, ContextStep, StopStep, FaultStep

\* The ContextReady and ContextLost messages on their way always end with the
\* truth about the kernel actor that is alive: no restart or stop leaves the
\* DeviceActor with the children of a dead incarnation for good.
THEOREM Convergence == Spec => []ChildrenConverge
<1>1. Init => TypeOK /\ ChildrenConverge
  BY InitTypeOK DEF Init, ChildrenConverge
<1>2. TypeOK /\ ChildrenConverge /\ [Next]_vars => (TypeOK /\ ChildrenConverge)'
  BY TypeStep, ChildrenStep
<1> QED
  BY <1>1, <1>2, PTL DEF Spec

-----------------------------------------------------------------------------
(* Stashed work and shutdown *)

\* Work is stashed only while the children are missing, and the handler that
\* brings them back starts the drain.
LEMMA StashStep == TypeOK /\ NoStrandedWork /\ [Next]_vars => NoStrandedWork'
<1> SUFFICES ASSUME TypeOK, NoStrandedWork, [Next]_vars PROVE NoStrandedWork'
  OBVIOUS
<1> USE DEF deviceVars
<1>1. CASE UNCHANGED <<pending, children, draining>>
  BY <1>1 DEF NoStrandedWork
<1>2. CASE HandleWhenNotReady \/ HandleContextReady \/ HandleContextLost
  BY <1>2 DEF HandleWhenNotReady, HandleContextReady, HandleContextLost, NoStrandedWork
<1>3. CASE DrainPending
  BY <1>3 DEF DrainPending, NoStrandedWork
<1>4. CASE DevicePostStop
  BY <1>4 DEF DevicePostStop, NoStrandedWork
<1>5. CASE HandleWhenReady \/ HandleSnapshot \/ Submit \/ BeginStop
  BY <1>1, <1>5 DEF HandleWhenReady, HandleSnapshot, Submit, BeginStop
<1>6. CASE KernelPoisons \/ InitPoisoned
  BY <1>1, <1>6 DEF KernelPoisons, InitPoisoned, Poisoned, Restart, StopContext
<1>7. CASE InitSpawnFails \/ ContextPostStop \/ CopyWithoutStream
  BY <1>1, <1>7 DEF InitSpawnFails, ContextPostStop, CopyWithoutStream, StopContext
<1>8. CASE WindowElapses \/ ContextFaults \/ InitBump \/ InitInstall \/ InitSpawn \/ HandleSgemm
  BY <1>1, <1>8 DEF WindowElapses, ContextFaults, InitBump, InitInstall, InitSpawn, HandleSgemm
<1>9. CASE \/ HandleAlloc \/ HandleCopyToHost \/ HandleCopyFromHost
           \/ HandleSnapshotStream
  BY <1>1, <1>9 DEF HandleAlloc, HandleCopyToHost, HandleCopyFromHost,
     HandleSnapshotStream, ContextUnchanged
<1>10. CASE \E r \in Requests : Complete(r)
  BY <1>1, <1>10 DEF Complete
<1>11. CASE UNCHANGED vars
  BY <1>1, <1>11 DEF vars
<1> QED
  BY <1>2, <1>3, <1>4, <1>5, <1>6, <1>7, <1>8, <1>9, <1>10, <1>11
     DEF Next, DeviceStep, ContextStep, StopStep, FaultStep

\* The stash holds work only while the device has no children or is draining it.
THEOREM NothingStranded == Spec => []NoStrandedWork
<1>1. Init => TypeOK /\ NoStrandedWork
  BY InitTypeOK DEF Init, NoStrandedWork
<1>2. TypeOK /\ NoStrandedWork /\ [Next]_vars => (TypeOK /\ NoStrandedWork)'
  BY TypeStep, StashStep
<1> QED
  BY <1>1, <1>2, PTL DEF Spec

-----------------------------------------------------------------------------
(***************************************************************************)
(* Where the requests of a device are: every request a caller waits for is  *)
(* in exactly one place, and allocations and copies keep their order on the *)
(* way.  From this follow InOrder and the refinement of DevicePromise.      *)
(***************************************************************************)
\* The replies that answer a request.
Final == Replies \ {"unused", "waiting"}

\* The requests in the four queues.
Dev  == RequestsIn(deviceMailbox)
Pend == Elements(pending)
Ctx  == RequestsIn(contextMailbox)
Bls  == Elements(blasMailbox)

\* The requests no actor has handled, and those of them that are not on their
\* way to a kernel actor.
Coming == Dev \cup Pend \cup Ctx
Queued == Coming \cup Bls

\* The allocations and copies.
Boxes == {r \in Requests : kind[r] \in Boxed}

\* No request is twice in a mailbox, and those in K are in order.
Line(q, K) ==
    \A i, j \in DOMAIN q : i < j /\ q[i].type = "Req" /\ q[j].type = "Req" =>
        /\ q[i].id # q[j].id
        /\ q[i].id \in K /\ q[j].id \in K => q[i].id < q[j].id

\* The same of a queue of requests.
Row(q, K) ==
    \A i, j \in DOMAIN q : i < j =>
        /\ q[i] # q[j]
        /\ q[i] \in K /\ q[j] \in K => q[i] < q[j]

\* The requests of K in X were sent before those in Y.
Before(X, Y, K) == \A x \in X \cap K, y \in Y \cap K : x < y

\* No request is in two places.
Apart ==
    /\ Dev \cap (Pend \cup Ctx \cup Bls \cup running) = {}
    /\ Pend \cap (Ctx \cup Bls \cup running) = {}
    /\ Ctx \cap (Bls \cup running) = {}
    /\ Bls \cap running = {}

\* Every request a caller waits for is in one place, and only those are.
PlaceInv == Apart /\ Open = Queued \cup running

\* A request has not reached the GPU before it is handled, and nothing is
\* known of one that has not been sent.
FreshInv ==
    /\ \A r \in Queued : validated[r].slice = 0
    /\ \A r \in Requests : r > submitted => validated[r].slice = 0
    /\ \A r \in Requests : reply[r] = "unused" <=> r > submitted

\* The queues are in order.
LineInv ==
    /\ Line(deviceMailbox, Boxes) /\ Line(contextMailbox, Boxes)
    /\ Row(pending, Boxes) /\ Row(blasMailbox, {})

\* Work in the ContextActor's mailbox is ahead of stashed work, which is ahead
\* of what the DeviceActor has not handled; what has been handled and was not
\* dropped is ahead of all.
InTurn == Before(Ctx, Pend, Boxes) /\ Before(Ctx, Dev, Boxes) /\ Before(Pend, Dev, Boxes)

AheadInv ==
    /\ InTurn
    /\ \A s \in Boxes : s <= submitted /\ s \notin Coming /\ reply[s] # "dropped"
          => Before({s}, Coming, Boxes)

\* The inductive invariant, on top of TypeOK and NoStrandedWork.
RInv ==
    /\ PlaceInv
    /\ FreshInv
    /\ LineInv
    /\ AheadInv
    /\ device = "stopped" => ~acceptingOps

-----------------------------------------------------------------------------
(* Queues *)

\* Sending a message to a mailbox.
LEMMA LineAppend ==
    ASSUME NEW S, NEW q \in Seq(S), NEW m \in S, NEW K, Line(q, K)
    PROVE  /\ m.type # "Req" =>
                 /\ RequestsIn(Append(q, m)) = RequestsIn(q)
                 /\ Line(Append(q, m), K)
           /\ m.type = "Req" =>
                 RequestsIn(Append(q, m)) = RequestsIn(q) \cup {m.id}
           /\ /\ m.type = "Req" /\ m.id \notin RequestsIn(q)
              /\ m.id \in K => \A x \in RequestsIn(q) \cap K : x < m.id
              => Line(Append(q, m), K)
  <1> DEFINE p == Append(q, m)
  <1>1. /\ \A i \in DOMAIN q : i \in DOMAIN p /\ p[i] = q[i] /\ i < Len(q) + 1 /\ i \in Nat
        /\ \A i \in DOMAIN p : i \in DOMAIN q \/ i = Len(q) + 1
        /\ Len(q) + 1 \in DOMAIN p /\ p[Len(q) + 1] = m /\ Len(q) \in Nat
    OBVIOUS
  <1> HIDE DEF p
  <1>2. m.type # "Req" => RequestsIn(p) = RequestsIn(q)
    BY <1>1 DEF RequestsIn
  <1>3. m.type = "Req" => RequestsIn(p) = RequestsIn(q) \cup {m.id}
    <2> SUFFICES ASSUME m.type = "Req" PROVE RequestsIn(p) = RequestsIn(q) \cup {m.id}
      OBVIOUS
    <2>1. RequestsIn(p) \subseteq RequestsIn(q) \cup {m.id}
      BY <1>1 DEF RequestsIn
    <2>2. RequestsIn(q) \subseteq RequestsIn(p) /\ m.id \in RequestsIn(p)
      BY <1>1 DEF RequestsIn
    <2> QED
      BY <2>1, <2>2
  <1>4. ASSUME \/ m.type # "Req"
               \/ /\ m.id \notin RequestsIn(q)
                  /\ m.id \in K => \A x \in RequestsIn(q) \cap K : x < m.id
        PROVE  Line(p, K)
    <2> SUFFICES ASSUME NEW i \in DOMAIN p, NEW j \in DOMAIN p, i < j,
                        p[i].type = "Req", p[j].type = "Req"
                 PROVE  p[i].id # p[j].id /\ (p[i].id \in K /\ p[j].id \in K => p[i].id < p[j].id)
      BY DEF Line
    <2>1. i \in DOMAIN q /\ p[i] = q[i]
      BY <1>1
    <2>2. p[i].id \in RequestsIn(q)
      BY <2>1 DEF RequestsIn
    <2>3. CASE j \in DOMAIN q
      BY <1>1, <2>1, <2>3 DEF Line
    <2>4. CASE j = Len(q) + 1
      BY <1>1, <1>4, <2>2, <2>4
    <2> QED
      BY <1>1, <2>3, <2>4
  <1> QED
    BY <1>2, <1>3, <1>4 DEF p

\* Taking the first message of a mailbox.
LEMMA LineTail ==
    ASSUME NEW S, NEW q \in Seq(S), q # <<>>, NEW K, Line(q, K)
    PROVE  /\ Line(Tail(q), K)
           /\ Head(q).type # "Req" => RequestsIn(Tail(q)) = RequestsIn(q)
           /\ Head(q).type = "Req" =>
                 /\ RequestsIn(q) = RequestsIn(Tail(q)) \cup {Head(q).id}
                 /\ Head(q).id \notin RequestsIn(Tail(q))
                 /\ Head(q).id \in K => \A x \in RequestsIn(Tail(q)) \cap K : Head(q).id < x
  <1> DEFINE p == Tail(q)
             h == Head(q)
  <1>1. /\ \A i \in DOMAIN p : i + 1 \in DOMAIN q /\ p[i] = q[i + 1] /\ i \in Nat /\ 1 < i + 1
        /\ \A i \in DOMAIN q : i = 1 \/ (i - 1 \in DOMAIN p /\ q[i] = p[i - 1])
        /\ h = q[1] /\ 1 \in DOMAIN q
    OBVIOUS
  <1> HIDE DEF p, h
  <1>2. Line(p, K)
    <2> SUFFICES ASSUME NEW i \in DOMAIN p, NEW j \in DOMAIN p, i < j,
                        p[i].type = "Req", p[j].type = "Req"
                 PROVE  p[i].id # p[j].id /\ (p[i].id \in K /\ p[j].id \in K => p[i].id < p[j].id)
      BY DEF Line
    <2>1. i + 1 < j + 1 /\ i + 1 \in DOMAIN q /\ j + 1 \in DOMAIN q /\ p[i] = q[i + 1] /\ p[j] = q[j + 1]
      BY <1>1
    <2> QED
      BY <2>1 DEF Line
  <1>3. RequestsIn(p) \subseteq RequestsIn(q)
    BY <1>1 DEF RequestsIn
  <1>4. ASSUME NEW x \in RequestsIn(q)
        PROVE  x \in RequestsIn(p) \/ (h.type = "Req" /\ x = h.id)
    <2>1. PICK i \in DOMAIN q : q[i].type = "Req" /\ q[i].id = x
      BY DEF RequestsIn
    <2>2. CASE i = 1
      BY <1>1, <2>1, <2>2
    <2>3. CASE i - 1 \in DOMAIN p /\ q[i] = p[i - 1]
      <3> DEFINE j == i - 1
      <3>1. j \in DOMAIN p /\ p[j].type = "Req" /\ p[j].id = x
        BY <2>1, <2>3
      <3> HIDE DEF j
      <3> QED
        BY <3>1 DEF RequestsIn
    <2> QED
      BY <1>1, <2>2, <2>3
  <1>5. h.type = "Req" => h.id \in RequestsIn(q)
    BY <1>1 DEF RequestsIn
  <1>6. ASSUME h.type = "Req", NEW x \in RequestsIn(p)
        PROVE  h.id # x /\ (h.id \in K /\ x \in K => h.id < x)
    <2>1. PICK i \in DOMAIN p : p[i].type = "Req" /\ p[i].id = x
      BY DEF RequestsIn
    <2>2. q[i + 1].type = "Req" /\ q[i + 1].id = x /\ i + 1 \in DOMAIN q /\ 1 < i + 1
      BY <1>1, <2>1
    <2> QED
      BY <1>1, <1>6, <2>2 DEF Line
  <1>7. h.type # "Req" => RequestsIn(p) = RequestsIn(q)
    BY <1>3, <1>4
  <1>8. h.type = "Req" => RequestsIn(q) = RequestsIn(p) \cup {h.id}
    BY <1>3, <1>4, <1>5
  <1>9. h.type = "Req" =>
          /\ h.id \notin RequestsIn(p)
          /\ h.id \in K => \A x \in RequestsIn(p) \cap K : h.id < x
    BY <1>6
  <1> QED
    BY <1>2, <1>7, <1>8, <1>9 DEF p, h

\* The same for queues of requests.
LEMMA RowAppend ==
    ASSUME NEW S, NEW q \in Seq(S), NEW m \in S, NEW K, Row(q, K)
    PROVE  /\ Elements(Append(q, m)) = Elements(q) \cup {m}
           /\ /\ m \notin Elements(q)
              /\ m \in K => \A x \in Elements(q) \cap K : x < m
              => Row(Append(q, m), K)
  <1> DEFINE p == Append(q, m)
  <1>1. /\ \A i \in DOMAIN q : i \in DOMAIN p /\ p[i] = q[i] /\ i < Len(q) + 1 /\ i \in Nat
        /\ \A i \in DOMAIN p : i \in DOMAIN q \/ i = Len(q) + 1
        /\ Len(q) + 1 \in DOMAIN p /\ p[Len(q) + 1] = m /\ Len(q) \in Nat
    OBVIOUS
  <1> HIDE DEF p
  <1>2. Elements(p) = Elements(q) \cup {m}
    <2>1. Elements(p) \subseteq Elements(q) \cup {m}
      BY <1>1 DEF Elements
    <2>2. Elements(q) \subseteq Elements(p) /\ m \in Elements(p)
      BY <1>1 DEF Elements
    <2> QED
      BY <2>1, <2>2
  <1>3. ASSUME m \notin Elements(q), m \in K => \A x \in Elements(q) \cap K : x < m
        PROVE  Row(p, K)
    <2> SUFFICES ASSUME NEW i \in DOMAIN p, NEW j \in DOMAIN p, i < j
                 PROVE  p[i] # p[j] /\ (p[i] \in K /\ p[j] \in K => p[i] < p[j])
      BY DEF Row
    <2>1. i \in DOMAIN q /\ p[i] = q[i]
      BY <1>1
    <2>2. p[i] \in Elements(q)
      BY <2>1 DEF Elements
    <2>3. CASE j \in DOMAIN q
      BY <1>1, <2>1, <2>3 DEF Row
    <2>4. CASE j = Len(q) + 1
      BY <1>1, <1>3, <2>2, <2>4
    <2> QED
      BY <1>1, <2>3, <2>4
  <1> QED
    BY <1>2, <1>3 DEF p

LEMMA RowTail ==
    ASSUME NEW S, NEW q \in Seq(S), q # <<>>, NEW K, Row(q, K)
    PROVE  /\ Row(Tail(q), K)
           /\ Elements(q) = Elements(Tail(q)) \cup {Head(q)}
           /\ Head(q) \notin Elements(Tail(q))
           /\ Head(q) \in K => \A x \in Elements(Tail(q)) \cap K : Head(q) < x
  <1> DEFINE p == Tail(q)
             h == Head(q)
  <1>1. /\ \A i \in DOMAIN p : i + 1 \in DOMAIN q /\ p[i] = q[i + 1] /\ i \in Nat /\ 1 < i + 1
        /\ \A i \in DOMAIN q : i = 1 \/ (i - 1 \in DOMAIN p /\ q[i] = p[i - 1])
        /\ h = q[1] /\ 1 \in DOMAIN q
    OBVIOUS
  <1> HIDE DEF p, h
  <1>2. Row(p, K)
    <2> SUFFICES ASSUME NEW i \in DOMAIN p, NEW j \in DOMAIN p, i < j
                 PROVE  p[i] # p[j] /\ (p[i] \in K /\ p[j] \in K => p[i] < p[j])
      BY DEF Row
    <2>1. i + 1 < j + 1 /\ i + 1 \in DOMAIN q /\ j + 1 \in DOMAIN q /\ p[i] = q[i + 1] /\ p[j] = q[j + 1]
      BY <1>1
    <2> QED
      BY <2>1 DEF Row
  <1>3. Elements(p) \subseteq Elements(q) /\ h \in Elements(q)
    BY <1>1 DEF Elements
  <1>4. ASSUME NEW x \in Elements(q)
        PROVE  x \in Elements(p) \/ x = h
    <2>1. PICK i \in DOMAIN q : q[i] = x
      BY DEF Elements
    <2>2. CASE i = 1
      BY <1>1, <2>1, <2>2
    <2>3. CASE i - 1 \in DOMAIN p /\ q[i] = p[i - 1]
      <3> DEFINE j == i - 1
      <3>1. j \in DOMAIN p /\ p[j] = x
        BY <2>1, <2>3
      <3> HIDE DEF j
      <3> QED
        BY <3>1 DEF Elements
    <2> QED
      BY <1>1, <2>2, <2>3
  <1>5. ASSUME NEW x \in Elements(p)
        PROVE  h # x /\ (h \in K /\ x \in K => h < x)
    <2>1. PICK i \in DOMAIN p : p[i] = x
      BY DEF Elements
    <2>2. q[i + 1] = x /\ i + 1 \in DOMAIN q /\ 1 < i + 1
      BY <1>1, <2>1
    <2> QED
      BY <1>1, <2>2 DEF Row
  <1>6. Elements(q) = Elements(p) \cup {h}
    BY <1>3, <1>4
  <1>7. h \notin Elements(p) /\ (h \in K => \A x \in Elements(p) \cap K : h < x)
    BY <1>5
  <1> QED
    BY <1>2, <1>6, <1>7 DEF p, h

\* An empty queue holds no request.
LEMMA EmptyQueues ==
    ASSUME NEW K
    PROVE  RequestsIn(<<>>) = {} /\ Elements(<<>>) = {} /\ Line(<<>>, K) /\ Row(<<>>, K)
  BY DEF RequestsIn, Elements, Line, Row

-----------------------------------------------------------------------------
(* Steps that answer and move requests *)

\* The callers of R get an answer, nobody else does.
Answers(R) ==
    /\ R \subseteq Open
    /\ reply' \in [Requests -> Replies]
    /\ \A r \in Requests : IF r \in R THEN reply'[r] \in Final ELSE reply'[r] = reply[r]

\* What the abstract specification allows.
PromiseStep == [Promise!Next]_(Promise!vars)

LEMMA AnswersFacts ==
    ASSUME NEW R, Answers(R)
    PROVE  /\ Open' = Open \ R
           /\ \A r \in Requests : reply'[r] = "unused" <=> reply[r] = "unused"
           /\ \A r \in Requests : reply[r] = "dropped" => reply'[r] = "dropped"
           /\ \A r \in R : Answer'[r] \in Final
           /\ \A r \in Requests : r \notin R => Answer'[r] = Answer[r]
           /\ Answer' \in [Requests -> Final \cup {"none"}]
  <1>1. R \subseteq Requests /\ \A r \in R : reply[r] = "waiting"
    BY DEF Answers, Open
  <1>2. Final \cap {"unused", "waiting", "none"} = {}
    BY DEF Final, Replies
  <1>3. Open' = Open \ R
    BY <1>1, <1>2 DEF Answers, Open
  <1>4. \A r \in Requests : reply'[r] = "unused" <=> reply[r] = "unused"
    BY <1>1, <1>2 DEF Answers
  <1>5. \A r \in Requests : reply[r] = "dropped" => reply'[r] = "dropped"
    BY <1>1 DEF Answers
  <1>6. \A r \in R : Answer'[r] \in Final
    BY <1>1, <1>2 DEF Answers, Answer
  <1>7. \A r \in Requests : r \notin R => Answer'[r] = Answer[r]
    BY DEF Answers, Answer
  <1>8. Answer' \in [Requests -> Final \cup {"none"}]
    BY DEF Answers, Answer, Final
  <1> QED
    BY <1>3, <1>4, <1>5, <1>6, <1>7, <1>8

\* A step that answers some callers and otherwise only moves requests keeps
\* the invariant, if what it takes out of line was first or is dropped.
LEMMA Moves ==
    ASSUME TypeOK, RInv, NEW R, Answers(R), UNCHANGED <<kind, submitted>>,
           (Queued \cup running)' = Open \ R, Apart',
           \A r \in Requests : validated'[r].slice = validated[r].slice \/ (r \in Open /\ r \notin Queued'),
           LineInv', InTurn', Coming' \subseteq Coming, Queued' \subseteq Queued,
           \A s \in (Coming \ Coming') \cap Boxes :
               reply'[s] = "dropped" \/ Before({s}, Coming', Boxes),
           device' = "stopped" => ~acceptingOps'
    PROVE  RInv'
  <1>1. PlaceInv'
    BY AnswersFacts DEF PlaceInv
  <1>2. Boxes' = Boxes /\ Boxes \subseteq Requests
    BY DEF Boxes
  <1>3. Open \subseteq Requests /\ \A r \in Open : reply[r] = "waiting"
    BY DEF Open
  <1>4. \A r \in Open : ~(r > submitted)
    BY <1>3 DEF RInv, FreshInv
  <1>5. FreshInv'
    <2>1. \A r \in Queued' : validated'[r].slice = 0
      <3>1. Queued \subseteq Requests
        BY <1>3 DEF RInv, PlaceInv
      <3> QED
        BY <3>1 DEF RInv, FreshInv
    <2>2. \A r \in Requests : r > submitted' => validated'[r].slice = 0
      BY <1>4 DEF RInv, FreshInv
    <2>3. \A r \in Requests : reply'[r] = "unused" <=> r > submitted'
      BY AnswersFacts DEF RInv, FreshInv
    <2> QED
      BY <2>1, <2>2, <2>3 DEF FreshInv
  <1>6. AheadInv'
    <2> SUFFICES ASSUME NEW s \in Boxes, s <= submitted, s \notin Coming', reply'[s] # "dropped"
                 PROVE  Before({s}, Coming', Boxes)
      BY <1>2 DEF AheadInv
    <2>1. CASE s \in Coming
      BY <2>1
    <2>2. CASE s \notin Coming
      <3>1. reply[s] # "dropped"
        BY <1>2, AnswersFacts
      <3>2. Before({s}, Coming, Boxes)
        BY <2>2, <3>1 DEF RInv, AheadInv
      <3> QED
        BY <3>2 DEF Before
    <2> QED
      BY <2>1, <2>2
  <1> QED
    BY <1>1, <1>5, <1>6 DEF RInv

\* The abstract specification's way to say that callers are answered.
LEMMA AnswersAll == ASSUME NEW R, Answers(R) PROVE Promise!AnswerAll(R)
  <1>1. R \subseteq Requests /\ "none" \notin Final
    BY DEF Answers, Open, Final, Replies
  <1>2. Open' = Open \ R
    BY AnswersFacts
  <1>3. Answer' \in [Requests -> Final \cup {"none"}]
    BY AnswersFacts
  <1>4. \A r \in Requests : IF r \in R THEN Answer'[r] # "none" ELSE Answer'[r] = Answer[r]
    BY <1>1, AnswersFacts
  <1> QED
    BY <1>2, <1>3, <1>4 DEF Promise!AnswerAll, Final

\* A step that only answers callers is one the abstract specification allows.
LEMMA AnswersArePromised ==
    ASSUME NEW R, Answers(R), UNCHANGED <<generation, acceptingOps>>, Admitted' = Admitted
    PROVE  PromiseStep
  <1>1. CASE R = {}
    <2>1. Open' = Open
      BY <1>1, AnswersFacts
    <2>2. Answer' = Answer
      BY <1>1, AnswersFacts DEF Answer
    <2> QED
      BY <2>1, <2>2 DEF PromiseStep, Promise!vars
  <1>2. CASE R # {}
    <2>1. Promise!AnswerAll(R)
      BY AnswersAll
    <2>2. R \in SUBSET Open
      BY DEF Answers
    <2>3. Promise!Answer
      BY <1>2, <2>1, <2>2 DEF Promise!Answer
    <2> QED
      BY <2>3 DEF PromiseStep, Promise!Next
  <1> QED
    BY <1>1, <1>2

\* So is one that admits a waiting request to the GPU, and perhaps answers it.
LEMMA AdmissionsArePromised ==
    ASSUME TypeOK, NEW r \in Open, NEW R \in {{}, {r}}, Answers(R), acceptingOps,
           validated[r].slice = 0, UNCHANGED <<generation, acceptingOps>>,
           NEW v, v.slice = generation, validated' = [validated EXCEPT ![r] = v]
    PROVE  PromiseStep
  <1>1. r \in Requests
    BY DEF Open
  <1>2. Admitted' = [Admitted EXCEPT ![r] = generation] /\ Admitted[r] = 0
    BY <1>1 DEF Admitted, TypeOK
  <1>3. CASE R = {}
    <2>1. Open' = Open
      BY <1>3, AnswersFacts
    <2>2. Answer' = Answer
      BY <1>3, AnswersFacts DEF Answer
    <2>3. Promise!Admit(r)
      BY <1>2, <2>1, <2>2 DEF Promise!Admit
    <2> QED
      BY <1>1, <2>3 DEF PromiseStep, Promise!Next
  <1>4. CASE R = {r}
    <2>1. Promise!AnswerAll({r})
      BY <1>4, AnswersAll
    <2>2. Promise!Admit(r)
      BY <1>2, <2>1 DEF Promise!Admit
    <2> QED
      BY <1>1, <2>2 DEF PromiseStep, Promise!Next
  <1> QED
    BY <1>3, <1>4

\* The requests in the queues are requests, and every place of one excludes
\* the others.
LEMMA PlaceFacts ==
    ASSUME TypeOK, RInv
    PROVE  /\ Dev \subseteq Open /\ Pend \subseteq Open /\ Ctx \subseteq Open /\ Bls \subseteq Open
           /\ running \subseteq Open /\ Open \subseteq Requests
           /\ \A r \in Open : reply[r] = "waiting" /\ r <= submitted
           /\ \A r \in Queued : validated[r].slice = 0
           /\ Open = Queued \cup running /\ Queued = Coming \cup Bls
           /\ Coming = Dev \cup Pend \cup Ctx /\ Apart /\ InTurn
           /\ reply \in [Requests -> Replies] /\ Boxes \subseteq Requests
           /\ deviceMailbox \in Seq(DeviceMsg) /\ Line(deviceMailbox, Boxes)
           /\ contextMailbox \in Seq(ContextMsg) /\ Line(contextMailbox, Boxes)
           /\ pending \in Seq(Requests) /\ Row(pending, Boxes)
           /\ blasMailbox \in Seq(Requests) /\ Row(blasMailbox, {})
  <1>1. Open \subseteq Requests /\ \A r \in Open : reply[r] = "waiting"
    BY DEF Open
  <1>2. \A r \in Open : r <= submitted
    <2>1. \A r \in Requests : ~(r > submitted) => r <= submitted
      BY DEF Requests, TypeOK
    <2> QED
      BY <1>1, <2>1 DEF RInv, FreshInv
  <1>3. Open = Queued \cup running /\ Queued = Coming \cup Bls /\ Coming = Dev \cup Pend \cup Ctx
    BY DEF RInv, PlaceInv, Queued, Coming
  <1>4. /\ Dev \subseteq Open /\ Pend \subseteq Open /\ Ctx \subseteq Open /\ Bls \subseteq Open
        /\ running \subseteq Open
    BY <1>3
  <1> QED
    BY <1>1, <1>2, <1>3, <1>4 DEF RInv, PlaceInv, FreshInv, LineInv, AheadInv, TypeOK, Boxes

\* Nobody is answered when the replies stay as they are.
LEMMA NobodyAnswered == ASSUME TypeOK, reply' = reply PROVE Answers({})
  BY DEF Answers, TypeOK

\* One caller is answered.
LEMMA OneAnswered ==
    ASSUME TypeOK, NEW r \in Open, NEW e \in Final, reply' = [reply EXCEPT ![r] = e]
    PROVE  Answers({r}) /\ reply'[r] = e
  BY DEF Answers, TypeOK, Open, Final

\* The senders of some requests are dropped.
LEMMA SomeDropped ==
    ASSUME TypeOK, NEW R \in SUBSET Open, reply' = Dropping(R)
    PROVE  Answers(R) /\ \A r \in R : reply'[r] = "dropped"
  BY DEF Answers, TypeOK, Open, Final, Dropping, Replies

\* A message about the context is no request.
LEMMA NewsKeepsRequests ==
    ASSUME TypeOK, RInv, NEW m \in DeviceMsg, m.type # "Req",
           TellDevice(<<m>>) \/ TellDevice(<<m, m>>)
    PROVE  Dev' = Dev /\ Line(deviceMailbox', Boxes)
  <1>1. deviceMailbox \in Seq(DeviceMsg) /\ Line(deviceMailbox, Boxes)
    BY PlaceFacts
  <1> DEFINE p == Append(deviceMailbox, m)
  <1>2. p \in Seq(DeviceMsg) /\ RequestsIn(p) = Dev /\ Line(p, Boxes)
    BY <1>1, LineAppend DEF Dev
  <1>3. RequestsIn(Append(p, m)) = Dev /\ Line(Append(p, m), Boxes)
    <2> HIDE DEF p
    <2> QED
      BY <1>2, LineAppend
  <1>4. deviceMailbox \o <<m>> = p /\ deviceMailbox \o <<m, m>> = Append(p, m)
    BY <1>1
  <1>5. deviceMailbox' \in {deviceMailbox, p, Append(p, m)}
    BY <1>4 DEF TellDevice
  <1> QED
    BY <1>1, <1>2, <1>3, <1>5 DEF Dev

\* A step that leaves all requests where they are.
LEMMA Still ==
    ASSUME TypeOK, RInv,
           UNCHANGED <<kind, submitted, reply, validated, running, pending, blasMailbox>>,
           Dev' = Dev, Ctx' = Ctx, Line(deviceMailbox', Boxes), Line(contextMailbox', Boxes),
           device' = "stopped" => ~acceptingOps'
    PROVE  RInv' /\ (UNCHANGED <<generation, acceptingOps>> => PromiseStep)
  <1>1. Answers({})
    BY NobodyAnswered
  <1>2. Pend' = Pend /\ Bls' = Bls /\ Boxes' = Boxes
    BY DEF Pend, Bls, Boxes
  <1>3. Queued' = Queued /\ Coming' = Coming
    BY <1>2 DEF Queued, Coming
  <1>4. Apart' /\ InTurn'
    BY <1>2, PlaceFacts DEF Apart, InTurn
  <1>5. LineInv'
    BY <1>2, PlaceFacts DEF LineInv
  <1>6. RInv'
    BY <1>1, <1>3, <1>4, <1>5, PlaceFacts, Moves
  <1>7. Admitted' = Admitted
    BY DEF Admitted
  <1> QED
    BY <1>1, <1>6, <1>7, AnswersArePromised

\* context_ref.tell: the request is the last in the mailbox, or is dropped.
LEMMA ToContext ==
    ASSUME TypeOK, RInv, NEW r \in Open, r \notin Ctx, TellContext(r),
           r \in Boxes => \A x \in Ctx \cap Boxes : x < r
    PROVE  /\ Line(contextMailbox', Boxes)
           /\ \E R \in {{}, {r}} :
                 /\ Answers(R) /\ (R # {} => reply'[r] = "dropped")
                 /\ Ctx' = Ctx \cup ({r} \ R)
  <1>1. r \in Requests /\ contextMailbox \in Seq(ContextMsg) /\ Line(contextMailbox, Boxes)
    BY PlaceFacts
  <1>2. CASE context = "running"
    <2>1. contextMailbox' = Append(contextMailbox, Req(r)) /\ reply' = reply
      BY <1>2 DEF TellContext
    <2>2. Req(r) \in ContextMsg /\ Req(r).type = "Req" /\ Req(r).id = r
      BY <1>1, MessageTypes DEF Req
    <2>3. Ctx' = Ctx \cup {r} /\ Line(contextMailbox', Boxes)
      BY <1>1, <2>1, <2>2, LineAppend DEF Ctx
    <2> QED
      BY <2>1, <2>3, NobodyAnswered
  <1>3. CASE context # "running"
    <2>1. contextMailbox' = contextMailbox /\ reply' = Dropping({r})
      BY <1>3 DEF TellContext
    <2>2. {r} \in SUBSET Open
      OBVIOUS
    <2>3. Answers({r}) /\ reply'[r] = "dropped"
      BY <2>1, <2>2, SomeDropped
    <2>4. Ctx' = Ctx
      BY <2>1 DEF Ctx
    <2> QED
      BY <1>1, <2>1, <2>3, <2>4
  <1> QED
    BY <1>2, <1>3

\* children.blas.tell
LEMMA ToBlas ==
    ASSUME TypeOK, RInv, NEW r \in Open, r \notin Bls, TellBlas(r)
    PROVE  /\ Row(blasMailbox', {})
           /\ \E R \in {{}, {r}} :
                 /\ Answers(R) /\ (R # {} => reply'[r] = "dropped")
                 /\ Bls' = Bls \cup ({r} \ R)
  <1>1. r \in Requests /\ blasMailbox \in Seq(Requests) /\ Row(blasMailbox, {})
    BY PlaceFacts
  <1>2. CASE blas = children
    <2>1. blasMailbox' = Append(blasMailbox, r) /\ reply' = reply
      BY <1>2 DEF TellBlas
    <2>2. Bls' = Bls \cup {r} /\ Row(blasMailbox', {})
      BY <1>1, <2>1, RowAppend DEF Bls
    <2> QED
      BY <2>1, <2>2, NobodyAnswered
  <1>3. CASE blas # children
    <2>1. blasMailbox' = blasMailbox /\ reply' = Dropping({r})
      BY <1>3 DEF TellBlas
    <2>2. {r} \in SUBSET Open
      OBVIOUS
    <2>3. Answers({r}) /\ reply'[r] = "dropped"
      BY <2>1, <2>2, SomeDropped
    <2>4. Bls' = Bls
      BY <2>1 DEF Bls
    <2> QED
      BY <1>1, <2>1, <2>3, <2>4
  <1> QED
    BY <1>2, <1>3

\* enqueue_pending: stashed, or answered when the stash is full.
LEMMA ToPending ==
    ASSUME TypeOK, RInv, NEW r \in Open, r \notin Pend, EnqueuePending(r),
           \A x \in Pend \cap Boxes : r \in Boxes => x < r
    PROVE  /\ Row(pending', Boxes)
           /\ \E R \in {{}, {r}} :
                 /\ Answers(R) /\ (R # {} => reply'[r] = "dropped" \/ r \notin Boxes)
                 /\ Pend' = Pend \cup ({r} \ R)
  <1>1. r \in Requests /\ pending \in Seq(Requests) /\ Row(pending, Boxes)
    BY PlaceFacts
  <1>2. CASE Len(pending) >= PendingCapacity
    <2> DEFINE e == IF kind[r] = "Sgemm" THEN "unrecoverable" ELSE "dropped"
    <2>1. pending' = pending /\ reply' = [reply EXCEPT ![r] = e]
      BY <1>2 DEF EnqueuePending
    <2>2. e \in Final /\ (e = "dropped" \/ r \notin Boxes)
      BY DEF Final, Replies, Boxes, Boxed
    <2> HIDE DEF e
    <2>3. Answers({r}) /\ reply'[r] = e
      BY <2>1, <2>2, OneAnswered
    <2>4. Pend' = Pend
      BY <2>1 DEF Pend
    <2> QED
      BY <1>1, <2>1, <2>2, <2>3, <2>4
  <1>3. CASE ~(Len(pending) >= PendingCapacity)
    <2>1. pending' = Append(pending, r) /\ reply' = reply
      BY <1>3 DEF EnqueuePending
    <2>2. Pend' = Pend \cup {r} /\ Row(pending', Boxes)
      BY <1>1, <2>1, RowAppend DEF Pend
    <2> QED
      BY <2>1, <2>2, NobodyAnswered
  <1> QED
    BY <1>2, <1>3

\* The DeviceActor handles the request at the head of its mailbox: it sends it
\* on, stashes it or answers it.
LEMMA FromDevice ==
    ASSUME TypeOK, RInv, NEW r \in Dev, Dev = Dev' \cup {r}, r \notin Dev',
           r \in Boxes => \A x \in Dev' \cap Boxes : r < x,
           UNCHANGED <<kind, submitted, validated, running, generation, acceptingOps, device>>,
           LineInv',
           NEW R \in {{}, {r}}, Answers(R), R # {} => reply'[r] = "dropped" \/ r \notin Boxes,
           \/ /\ Ctx' = Ctx \cup ({r} \ R) /\ Pend' = Pend /\ Bls' = Bls
              /\ r \in Boxes => Pend = {}
           \/ Bls' = Bls \cup ({r} \ R) /\ Pend' = Pend /\ Ctx' = Ctx /\ r \notin Boxes
           \/ Pend' = Pend \cup ({r} \ R) /\ Ctx' = Ctx /\ Bls' = Bls
    PROVE  RInv' /\ PromiseStep
  <1>1. r \notin Pend \cup Ctx \cup Bls \cup running
    BY PlaceFacts DEF Apart
  <1>2. Boxes' = Boxes
    BY DEF Boxes
  <1>3. (Queued \cup running)' = Open \ R
    BY <1>1, PlaceFacts DEF Queued, Coming
  <1>4. Apart'
    BY <1>1, PlaceFacts DEF Apart
  <1>5. InTurn'
    BY <1>2, PlaceFacts DEF InTurn, Before
  <1>6. Coming' \subseteq Coming /\ Queued' \subseteq Queued
    BY PlaceFacts DEF Queued, Coming
  <1>7. \A s \in (Coming \ Coming') \cap Boxes : reply'[s] = "dropped"
    BY PlaceFacts DEF Coming
  <1>8. device' = "stopped" => ~acceptingOps'
    BY DEF RInv
  <1>9. Admitted' = Admitted
    BY DEF Admitted
  <1> QED
    BY <1>3, <1>4, <1>5, <1>6, <1>7, <1>8, <1>9, Moves, AnswersArePromised

\* drain_pending sends the first stashed request on.
LEMMA FromPending ==
    ASSUME TypeOK, RInv, NEW r \in Pend, Pend = Pend' \cup {r}, r \notin Pend',
           r \in Boxes => \A x \in Pend' \cap Boxes : r < x,
           UNCHANGED <<kind, submitted, validated, running, generation, acceptingOps, device>>,
           LineInv', Dev' = Dev,
           NEW R \in {{}, {r}}, Answers(R), R # {} => reply'[r] = "dropped",
           \/ Ctx' = Ctx \cup ({r} \ R) /\ Bls' = Bls
           \/ Bls' = Bls \cup ({r} \ R) /\ Ctx' = Ctx /\ r \notin Boxes
    PROVE  RInv' /\ PromiseStep
  <1>1. r \notin Dev \cup Ctx \cup Bls \cup running
    BY PlaceFacts DEF Apart
  <1>2. Boxes' = Boxes
    BY DEF Boxes
  <1>3. (Queued \cup running)' = Open \ R
    BY <1>1, PlaceFacts DEF Queued, Coming
  <1>4. Apart'
    BY <1>1, PlaceFacts DEF Apart
  <1>5. InTurn'
    BY <1>2, PlaceFacts DEF InTurn, Before
  <1>6. Coming' \subseteq Coming /\ Queued' \subseteq Queued
    BY PlaceFacts DEF Queued, Coming
  <1>7. \A s \in (Coming \ Coming') \cap Boxes : reply'[s] = "dropped"
    BY PlaceFacts DEF Coming
  <1>8. device' = "stopped" => ~acceptingOps'
    BY DEF RInv
  <1>9. Admitted' = Admitted
    BY DEF Admitted
  <1> QED
    BY <1>3, <1>4, <1>5, <1>6, <1>7, <1>8, <1>9, Moves, AnswersArePromised

\* The ContextActor handles the request at the head of its mailbox: it answers
\* it or leaves it to a completion task.
LEMMA FromContext ==
    ASSUME TypeOK, RInv, NEW r \in Ctx, Ctx = Ctx' \cup {r}, r \notin Ctx',
           r \in Boxes => \A x \in Ctx' \cap Boxes : r < x,
           UNCHANGED <<kind, submitted, acceptingOps, device>>,
           LineInv', Dev' = Dev, Pend' = Pend, Bls' = Bls,
           NEW R \in {{}, {r}}, Answers(R), running' = running \cup ({r} \ R),
           \A x \in Requests : x = r \/ validated'[x] = validated[x]
    PROVE  RInv'
  <1>1. r \notin Dev \cup Pend \cup Bls \cup running
    BY PlaceFacts DEF Apart
  <1>2. Boxes' = Boxes
    BY DEF Boxes
  <1>3. (Queued \cup running)' = Open \ R
    BY <1>1, PlaceFacts DEF Queued, Coming
  <1>4. Apart'
    BY <1>1, PlaceFacts DEF Apart
  <1>5. InTurn'
    BY <1>2, PlaceFacts DEF InTurn, Before
  <1>6. Coming' \subseteq Coming /\ Queued' \subseteq Queued /\ r \notin Queued' /\ r \in Open
    BY <1>1, PlaceFacts DEF Queued, Coming
  <1>7. \A s \in (Coming \ Coming') \cap Boxes : Before({s}, Coming', Boxes)
    BY PlaceFacts DEF Coming, InTurn, Before
  <1>8. device' = "stopped" => ~acceptingOps'
    BY DEF RInv
  <1>9. \A x \in Requests : validated'[x].slice = validated[x].slice \/ (x \in Open /\ x \notin Queued')
    BY <1>6
  <1> QED
    BY <1>3, <1>4, <1>5, <1>6, <1>7, <1>8, <1>9, Moves

\* The BlasActor does the same.
LEMMA FromBlas ==
    ASSUME TypeOK, RInv, NEW r \in Bls, Bls = Bls' \cup {r}, r \notin Bls',
           UNCHANGED <<kind, submitted, acceptingOps, device>>,
           LineInv', Dev' = Dev, Pend' = Pend, Ctx' = Ctx,
           NEW R \in {{}, {r}}, Answers(R), running' = running \cup ({r} \ R),
           \A x \in Requests : x = r \/ validated'[x] = validated[x]
    PROVE  RInv'
  <1>1. r \notin Dev \cup Pend \cup Ctx \cup running
    BY PlaceFacts DEF Apart
  <1>2. Boxes' = Boxes
    BY DEF Boxes
  <1>3. (Queued \cup running)' = Open \ R
    BY <1>1, PlaceFacts DEF Queued, Coming
  <1>4. Apart'
    BY <1>1, PlaceFacts DEF Apart
  <1>5. InTurn'
    BY <1>2, PlaceFacts DEF InTurn
  <1>6. Coming' = Coming /\ Queued' \subseteq Queued /\ r \notin Queued' /\ r \in Open
    BY <1>1, PlaceFacts DEF Queued, Coming
  <1>8. device' = "stopped" => ~acceptingOps'
    BY DEF RInv
  <1>9. \A x \in Requests : validated'[x].slice = validated[x].slice \/ (x \in Open /\ x \notin Queued')
    BY <1>6
  <1> QED
    BY <1>3, <1>4, <1>5, <1>6, <1>8, <1>9, Moves

\* Actors stop, and the requests they still had are answered: stashed and
\* unread ones of the DeviceActor, those of the ContextActor and its kernel
\* actor, or those of the kernel actor alone.
LEMMA ActorsStop ==
    ASSUME TypeOK, RInv, LineInv', UNCHANGED <<kind, submitted, validated, running>>,
           device' = "stopped" => ~acceptingOps',
           \/ Dev' = {} /\ Pend' = {} /\ Ctx' = Ctx /\ Bls' = Bls /\ Answers(Dev \cup Pend)
           \/ Dev' = Dev /\ Pend' = Pend /\ Ctx' = {} /\ Bls' = {} /\ Answers(Ctx \cup Bls)
           \/ Dev' = Dev /\ Pend' = Pend /\ Ctx' = Ctx /\ Bls' = {} /\ Answers(Bls),
           \A s \in (Coming \ Coming') \cap Boxes : reply'[s] = "dropped"
    PROVE  RInv'
  <1>1. PICK R \in {Dev \cup Pend, Ctx \cup Bls, Bls} : Answers(R) /\ (Queued \cup running)' = Open \ R
    <2>1. CASE Dev' = {} /\ Pend' = {} /\ Ctx' = Ctx /\ Bls' = Bls /\ Answers(Dev \cup Pend)
      BY <2>1, PlaceFacts DEF Apart, Queued, Coming
    <2>2. CASE Dev' = Dev /\ Pend' = Pend /\ Ctx' = {} /\ Bls' = {} /\ Answers(Ctx \cup Bls)
      BY <2>2, PlaceFacts DEF Apart, Queued, Coming
    <2>3. CASE Dev' = Dev /\ Pend' = Pend /\ Ctx' = Ctx /\ Bls' = {} /\ Answers(Bls)
      BY <2>3, PlaceFacts DEF Apart, Queued, Coming
    <2> QED
      BY <2>1, <2>2, <2>3
  <1>2. Dev' \subseteq Dev /\ Pend' \subseteq Pend /\ Ctx' \subseteq Ctx /\ Bls' \subseteq Bls
    OBVIOUS
  <1>3. Boxes' = Boxes
    BY DEF Boxes
  <1>4. Apart'
    BY <1>2, PlaceFacts DEF Apart
  <1>5. InTurn'
    BY <1>2, <1>3, PlaceFacts DEF InTurn, Before
  <1>6. Coming' \subseteq Coming /\ Queued' \subseteq Queued
    BY <1>2 DEF Queued, Coming
  <1> QED
    BY <1>1, <1>4, <1>5, <1>6, Moves

-----------------------------------------------------------------------------
(* The actions *)

\* A client sends a request, the latest of all.
LEMMA SubmitStep == ASSUME TypeOK, RInv, Submit PROVE RInv' /\ PromiseStep
  <1> DEFINE r == submitted + 1
  <1>0. PICK k \in Kinds, b \in Refs :
           /\ kind' = [kind EXCEPT ![r] = k] /\ buf' = [buf EXCEPT ![r] = b]
           /\ reply' = [reply EXCEPT ![r] = IF device = "stopped" THEN "dropped" ELSE "waiting"]
    BY DEF Submit
  <1>1. submitted' = r /\ TellDevice(<<Req(r)>>)
        /\ UNCHANGED <<generation, acceptingOps, device, pending, contextMailbox, blasMailbox,
                       validated, running>>
    BY DEF Submit, stateVars, contextVars, blasVars, runVars
  <1>2. r \in Requests /\ r > submitted /\ submitted \in Nat /\ Requests \subseteq Nat
    BY DeviceAssumption DEF Submit, Requests, TypeOK
  <1>3. /\ reply[r] = "unused" /\ validated[r].slice = 0 /\ r \notin Open
        /\ \A x \in Open : x < r /\ x \in Nat
    <2>1. reply[r] = "unused" /\ validated[r].slice = 0
      BY <1>2 DEF RInv, FreshInv
    <2>2. r \notin Open
      BY <2>1 DEF Open
    <2>3. \A x \in Open : x <= submitted /\ x \in Nat
      BY <1>2, PlaceFacts
    <2> QED
      BY <1>2, <2>1, <2>2, <2>3
  <1> HIDE DEF r
  <1>4. kind \in [Requests -> Kinds] /\ reply \in [Requests -> Replies]
    BY DEF TypeOK
  <1>5. \A x \in Requests : x # r => (x \in Boxes' <=> x \in Boxes) /\ reply'[x] = reply[x]
    BY <1>0, <1>2, <1>4 DEF Boxes
  <1>6. Pend' = Pend /\ Ctx' = Ctx /\ Bls' = Bls /\ running' = running /\ validated' = validated
    BY <1>1 DEF Pend, Ctx, Bls
  <1>7. /\ Line(contextMailbox', Boxes') /\ Row(pending', Boxes') /\ Row(blasMailbox', {})
        /\ Line(deviceMailbox, Boxes')
    <2>1. \A i \in DOMAIN deviceMailbox : deviceMailbox[i].type = "Req" => deviceMailbox[i].id \in Dev
      BY DEF Dev, RequestsIn
    <2>2. \A i \in DOMAIN contextMailbox : contextMailbox[i].type = "Req" => contextMailbox[i].id \in Ctx
      BY DEF Ctx, RequestsIn
    <2>3. \A i \in DOMAIN pending : pending[i] \in Pend
      BY DEF Pend, Elements
    <2>4. \A x \in Dev \cup Ctx \cup Pend : x \in Boxes' <=> x \in Boxes
      BY <1>3, <1>5, PlaceFacts
    <2>5. Line(deviceMailbox, Boxes')
      BY <2>1, <2>4, PlaceFacts DEF Line
    <2>6. Line(contextMailbox, Boxes')
      BY <2>2, <2>4, PlaceFacts DEF Line
    <2>7. Row(pending, Boxes')
      BY <2>3, <2>4, PlaceFacts DEF Row
    <2> QED
      BY <1>1, <2>5, <2>6, <2>7, PlaceFacts
  <1>8. CASE device = "stopped"
    <2>1. deviceMailbox' = deviceMailbox /\ reply' = [reply EXCEPT ![r] = "dropped"]
      BY <1>0, <1>1, <1>8 DEF TellDevice
    <2>2. Dev' = Dev
      BY <2>1 DEF Dev
    <2>3. Open' = Open
      BY <1>3, <1>4, <2>1 DEF Open
    <2>4. Queued' = Queued /\ Coming' = Coming
      BY <1>6, <2>2 DEF Queued, Coming
    <2>5. PlaceInv'
      BY <1>6, <2>2, <2>3, <2>4, PlaceFacts DEF PlaceInv, Apart
    <2>6. FreshInv'
      <3>1. reply'[r] # "unused"
        BY <1>2, <1>4, <2>1
      <3>2. \A x \in Requests : reply'[x] = "unused" <=> x > submitted'
        <4>1. \A x \in Requests : x > submitted' <=> x > submitted /\ x # r
          BY <1>1, <1>2 DEF r
        <4> QED
          BY <1>5, <3>1, <4>1 DEF RInv, FreshInv
      <3>3. \A x \in Requests : x > submitted' => x > submitted
        BY <1>1, <1>2 DEF r
      <3> QED
        BY <1>6, <2>4, <3>2, <3>3 DEF RInv, FreshInv
    <2>7. LineInv'
      BY <1>7, <2>1 DEF LineInv
    <2>8. AheadInv'
      <3>1. \A x \in Coming : x # r /\ x \in Requests
        BY <1>3, PlaceFacts
      <3>2. \A x \in Coming : x \in Boxes' <=> x \in Boxes
        BY <1>5, <3>1
      <3>3. InTurn'
        BY <1>6, <2>2, <3>2, PlaceFacts DEF InTurn, Before, Coming
      <3>4. ASSUME NEW s \in Boxes', s <= submitted', s \notin Coming, reply'[s] # "dropped"
            PROVE  Before({s}, Coming, Boxes')
        <4>1. s \in Requests /\ s # r
          BY <1>2, <1>4, <2>1, <3>4 DEF Boxes
        <4>2. s \in Boxes /\ s <= submitted /\ reply[s] # "dropped"
          BY <1>1, <1>2, <1>5, <3>4, <4>1 DEF r
        <4>3. Before({s}, Coming, Boxes)
          BY <3>4, <4>2 DEF RInv, AheadInv
        <4> QED
          BY <3>2, <4>2, <4>3 DEF Before
      <3> QED
        BY <2>4, <3>3, <3>4 DEF AheadInv
    <2>9. Promise!Submit(r)
      <3>1. Answer' \in [Requests -> Final \cup {"none"}] /\ Answer[r] = "none" /\ Answer'[r] = "dropped"
        BY <1>2, <1>3, <1>4, <2>1 DEF Answer, Final, Replies
      <3>2. \A x \in Requests : x # r => Answer'[x] = Answer[x]
        BY <1>5 DEF Answer
      <3>3. Promise!AnswerAll({r})
        BY <1>3, <2>3, <3>1, <3>2 DEF Promise!AnswerAll, Final
      <3>4. ~acceptingOps /\ Admitted' = Admitted
        BY <1>1, <1>8 DEF RInv, Admitted
      <3> QED
        BY <1>1, <1>3, <3>1, <3>3, <3>4 DEF Promise!Submit
    <2> QED
      BY <1>1, <1>2, <1>8, <2>5, <2>6, <2>7, <2>8, <2>9 DEF RInv, PromiseStep, Promise!Next
  <1>9. CASE device # "stopped"
    <2>1. deviceMailbox' = Append(deviceMailbox, Req(r)) /\ reply' = [reply EXCEPT ![r] = "waiting"]
      <3>1. deviceMailbox \o <<Req(r)>> = Append(deviceMailbox, Req(r))
        BY DEF TypeOK
      <3> QED
        BY <1>0, <1>1, <1>9, <3>1 DEF TellDevice
    <2>2. Dev' = Dev \cup {r} /\ Line(deviceMailbox', Boxes')
      <3>1. Req(r) \in DeviceMsg /\ Req(r).type = "Req" /\ Req(r).id = r
        BY <1>2, MessageTypes DEF Req
      <3>2. r \notin Dev /\ \A x \in Dev : x < r
        BY <1>3, PlaceFacts
      <3> QED
        BY <1>7, <2>1, <3>1, <3>2, PlaceFacts, LineAppend DEF Dev
    <2>3. Open' = Open \cup {r}
      BY <1>2, <1>4, <2>1 DEF Open
    <2>4. Queued' = Queued \cup {r} /\ Coming' = Coming \cup {r}
      BY <1>6, <2>2 DEF Queued, Coming
    <2>5. PlaceInv'
      BY <1>3, <1>6, <2>2, <2>3, <2>4, PlaceFacts DEF PlaceInv, Apart
    <2>6. FreshInv'
      <3>1. reply'[r] # "unused"
        BY <1>2, <1>4, <2>1
      <3>2. \A x \in Requests : reply'[x] = "unused" <=> x > submitted'
        <4>1. \A x \in Requests : x > submitted' <=> x > submitted /\ x # r
          BY <1>1, <1>2 DEF r
        <4> QED
          BY <1>5, <3>1, <4>1 DEF RInv, FreshInv
      <3>3. \A x \in Requests : x > submitted' => x > submitted
        BY <1>1, <1>2 DEF r
      <3> QED
        BY <1>3, <1>6, <2>4, <3>2, <3>3 DEF RInv, FreshInv
    <2>7. LineInv'
      BY <1>7, <2>2 DEF LineInv
    <2>8. AheadInv'
      <3>1. \A x \in Coming : x # r /\ x \in Requests /\ x < r
        BY <1>3, PlaceFacts
      <3>2. \A x \in Coming : x \in Boxes' <=> x \in Boxes
        BY <1>5, <3>1
      <3>3. InTurn'
        BY <1>6, <2>2, <3>1, <3>2, PlaceFacts DEF InTurn, Before, Coming
      <3>4. ASSUME NEW s \in Boxes', s <= submitted', s \notin Coming', reply'[s] # "dropped"
            PROVE  Before({s}, Coming', Boxes')
        <4>1. s \in Requests /\ s # r
          BY <2>4, <3>4 DEF Boxes
        <4>2. s \in Boxes /\ s <= submitted /\ reply[s] # "dropped" /\ s < r
          BY <1>1, <1>2, <1>5, <3>4, <4>1 DEF r
        <4>3. Before({s}, Coming, Boxes)
          BY <2>4, <3>4, <4>2 DEF RInv, AheadInv
        <4> QED
          BY <2>4, <3>2, <4>2, <4>3 DEF Before
      <3> QED
        BY <3>3, <3>4 DEF AheadInv
    <2>9. Promise!Submit(r)
      <3>1. Answer' = Answer /\ Answer[r] = "none"
        BY <1>2, <1>3, <1>4, <2>1 DEF Answer
      <3>2. Admitted' = Admitted
        BY <1>1 DEF Admitted
      <3> QED
        BY <1>1, <1>3, <2>3, <3>1, <3>2 DEF Promise!Submit
    <2> QED
      BY <1>1, <1>2, <1>9, <2>5, <2>6, <2>7, <2>8, <2>9 DEF RInv, PromiseStep, Promise!Next
  <1> QED
    BY <1>8, <1>9

\* The DeviceActor takes the message at the head of its mailbox.
LEMMA DeviceHead ==
    ASSUME TypeOK, RInv, NEW t, Handling(t)
    PROVE  /\ Line(deviceMailbox', Boxes)
           /\ t # "Req" => Dev' = Dev
           /\ t = "Req" =>
                 LET r == Head(deviceMailbox).id IN
                 /\ r \in Dev /\ r \in Open /\ Dev = Dev' \cup {r} /\ r \notin Dev'
                 /\ r \in Boxes => \A x \in Dev' \cap Boxes : r < x
                 /\ r \notin Pend \cup Ctx \cup Bls
                 /\ r \in Boxes => \A x \in (Pend \cup Ctx) \cap Boxes : x < r
  <1> DEFINE r == Head(deviceMailbox).id
  <1>1. deviceMailbox # <<>> /\ Head(deviceMailbox).type = t /\ deviceMailbox' = Tail(deviceMailbox)
    BY DEF Handling
  <1>2. Line(deviceMailbox', Boxes) /\ (t # "Req" => Dev' = Dev)
    BY <1>1, PlaceFacts, LineTail DEF Dev
  <1>3. t = "Req" => /\ Dev = Dev' \cup {r} /\ r \notin Dev'
                     /\ r \in Boxes => \A x \in Dev' \cap Boxes : r < x
    BY <1>1, PlaceFacts, LineTail DEF Dev
  <1> HIDE DEF r
  <1>4. t = "Req" => r \in Dev /\ r \in Open /\ r \notin Pend \cup Ctx \cup Bls
    BY <1>3, PlaceFacts DEF Apart
  <1>5. t = "Req" /\ r \in Boxes => \A x \in (Pend \cup Ctx) \cap Boxes : x < r
    BY <1>4, PlaceFacts DEF InTurn, Before
  <1> QED
    BY <1>2, <1>3, <1>4, <1>5 DEF r

\* The DeviceActor sends a request on, stashes it or answers it.
LEMMA DeviceHandlesRequest ==
    ASSUME TypeOK, RInv, NoStrandedWork,
           HandleWhenReady \/ HandleWhenNotReady \/ HandleSnapshot
    PROVE  RInv' /\ PromiseStep
  <1> DEFINE r == Head(deviceMailbox).id
  <1>1. Handling("Req")
    BY DEF HandleWhenReady, HandleWhenNotReady, HandleSnapshot
  <1>2. /\ r \in Dev /\ r \in Open /\ Dev = Dev' \cup {r} /\ r \notin Dev'
        /\ r \in Boxes => \A x \in Dev' \cap Boxes : r < x
        /\ r \notin Pend \cup Ctx \cup Bls
        /\ r \in Boxes => \A x \in (Pend \cup Ctx) \cap Boxes : x < r
        /\ Line(deviceMailbox', Boxes)
    BY <1>1, DeviceHead
  <1>3. UNCHANGED <<kind, submitted, validated, running, generation, acceptingOps, device>>
    BY DEF HandleWhenReady, HandleWhenNotReady, HandleSnapshot, stateVars, clientVars, runVars
  <1>4. Boxes' = Boxes
    BY <1>3 DEF Boxes
  <1>5. r \in Boxes <=> kind[r] \in Boxed
    BY <1>2, PlaceFacts DEF Boxes
  <1>6. CASE HandleWhenReady
    <2>1. pending' = pending /\ pending = <<>>
      BY <1>1, <1>6 DEF HandleWhenReady, NoStrandedWork, Handling
    <2>2. Pend' = Pend /\ Pend = {}
      BY <2>1, EmptyQueues DEF Pend
    <2>3. CASE kind[r] \in Boxed /\ TellContext(r) /\ UNCHANGED blasMailbox
      <3> HIDE DEF r
      <3>1. Line(contextMailbox', Boxes)
        BY <1>2, <2>3, ToContext
      <3>2. PICK R \in {{}, {r}} : /\ Answers(R) /\ (R # {} => reply'[r] = "dropped")
                                   /\ Ctx' = Ctx \cup ({r} \ R)
        BY <1>2, <2>3, ToContext
      <3>3. Bls' = Bls
        BY <2>3 DEF Bls
      <3>4. LineInv'
        BY <1>2, <1>4, <2>1, <2>3, <3>1, PlaceFacts DEF LineInv
      <3> QED
        BY <1>2, <1>3, <2>2, <3>2, <3>3, <3>4, FromDevice
    <2>4. CASE kind[r] = "Sgemm" /\ TellBlas(r) /\ UNCHANGED contextMailbox
      <3>0. r \notin Boxes
        BY <1>5, <2>4 DEF Boxed
      <3> HIDE DEF r
      <3>1. Row(blasMailbox', {})
        BY <1>2, <2>4, ToBlas
      <3>2. PICK R \in {{}, {r}} : /\ Answers(R) /\ (R # {} => reply'[r] = "dropped")
                                   /\ Bls' = Bls \cup ({r} \ R)
        BY <1>2, <2>4, ToBlas
      <3>3. Ctx' = Ctx
        BY <2>4 DEF Ctx
      <3>4. LineInv'
        BY <1>2, <1>4, <2>1, <2>4, <3>1, PlaceFacts DEF LineInv
      <3> QED
        BY <1>2, <1>3, <2>2, <3>0, <3>2, <3>3, <3>4, FromDevice
    <2> QED
      BY <1>6, <2>3, <2>4 DEF HandleWhenReady
  <1>7. CASE HandleWhenNotReady
    <2>1. EnqueuePending(r) /\ UNCHANGED <<contextMailbox, blasMailbox>>
      BY <1>7 DEF HandleWhenNotReady, contextVars, blasVars
    <2> HIDE DEF r
    <2>2. Row(pending', Boxes)
      BY <1>2, <2>1, ToPending
    <2>3. PICK R \in {{}, {r}} : /\ Answers(R) /\ (R # {} => reply'[r] = "dropped" \/ r \notin Boxes)
                                 /\ Pend' = Pend \cup ({r} \ R)
      BY <1>2, <2>1, ToPending
    <2>4. Ctx' = Ctx /\ Bls' = Bls
      BY <2>1 DEF Ctx, Bls
    <2>5. LineInv'
      BY <1>2, <1>4, <2>1, <2>2, PlaceFacts DEF LineInv
    <2> QED
      BY <1>2, <1>3, <2>3, <2>4, <2>5, FromDevice
  <1>8. CASE HandleSnapshot
    <2>1. UNCHANGED <<pending, blasMailbox>> /\ kind[r] \in {"SnapshotStream", "Snapshot"}
      BY <1>8 DEF HandleSnapshot, blasVars
    <2>2. Pend' = Pend /\ Bls' = Bls /\ r \notin Boxes
      BY <1>5, <2>1 DEF Pend, Bls, Boxed
    <2>3. Line(contextMailbox', Boxes) /\ \E R \in {{}, {r}} : Answers(R) /\ Ctx' = Ctx \cup ({r} \ R)
      <3>1. CASE TellContext(r)
        <4> HIDE DEF r
        <4> QED
          BY <1>2, <2>2, <3>1, ToContext
      <3>2. CASE reply' = [reply EXCEPT ![r] = "ok"] /\ UNCHANGED contextMailbox
        <4> HIDE DEF r
        <4>1. "ok" \in Final
          BY DEF Final, Replies
        <4>2. Answers({r})
          BY <1>2, <3>2, <4>1, OneAnswered
        <4>3. Ctx' = Ctx
          BY <3>2 DEF Ctx
        <4> QED
          BY <3>2, <4>2, <4>3, PlaceFacts
      <3> QED
        BY <1>8, <3>1, <3>2 DEF HandleSnapshot
    <2> HIDE DEF r
    <2>4. PICK R \in {{}, {r}} : Answers(R) /\ Ctx' = Ctx \cup ({r} \ R)
      BY <2>3
    <2>5. LineInv'
      BY <1>2, <1>4, <2>1, <2>3, PlaceFacts DEF LineInv
    <2> QED
      BY <1>2, <1>3, <2>2, <2>4, <2>5, FromDevice
  <1> QED
    BY <1>6, <1>7, <1>8

\* drain_pending.
LEMMA DrainStep == ASSUME TypeOK, RInv, DrainPending PROVE RInv' /\ PromiseStep
  <1>1. /\ UNCHANGED <<kind, submitted, validated, running, generation, acceptingOps, device>>
        /\ deviceMailbox' = deviceMailbox
    BY DEF DrainPending, stateVars, clientVars, runVars
  <1>2. Dev' = Dev /\ Boxes' = Boxes
    BY <1>1 DEF Dev, Boxes
  <1>3. CASE pending = <<>>
    <2>1. UNCHANGED <<pending, contextMailbox, blasMailbox, reply>>
      BY <1>3 DEF DrainPending
    <2>2. Ctx' = Ctx
      BY <2>1 DEF Ctx
    <2>3. device' = "stopped" => ~acceptingOps'
      BY <1>1 DEF RInv
    <2> QED
      BY <1>1, <1>2, <2>1, <2>2, <2>3, PlaceFacts, Still
  <1>4. CASE pending # <<>>
    <2> DEFINE r == Head(pending)
    <2>1. pending' = Tail(pending)
      BY <1>4 DEF DrainPending
    <2>2. /\ Row(pending', Boxes) /\ Pend = Pend' \cup {r} /\ r \notin Pend'
          /\ r \in Boxes => \A x \in Pend' \cap Boxes : r < x
      BY <1>4, <2>1, PlaceFacts, RowTail DEF Pend
    <2>3. CASE kind[r] = "Sgemm" /\ TellBlas(r) /\ UNCHANGED contextMailbox
      <3>1. r \notin Boxes
        BY <2>3 DEF Boxes, Boxed
      <3> HIDE DEF r
      <3>2. r \in Pend /\ r \in Open /\ r \notin Bls
        BY <2>2, PlaceFacts DEF Apart
      <3>3. Row(blasMailbox', {})
        BY <2>3, <3>2, ToBlas
      <3>4. PICK R \in {{}, {r}} : /\ Answers(R) /\ (R # {} => reply'[r] = "dropped")
                                   /\ Bls' = Bls \cup ({r} \ R)
        BY <2>3, <3>2, ToBlas
      <3>5. Ctx' = Ctx
        BY <2>3 DEF Ctx
      <3>6. LineInv'
        BY <1>1, <1>2, <2>2, <2>3, <3>3, PlaceFacts DEF LineInv
      <3> QED
        BY <1>1, <1>2, <2>2, <3>1, <3>2, <3>4, <3>5, <3>6, FromPending
    <2>4. CASE TellContext(r) /\ UNCHANGED blasMailbox
      <3> HIDE DEF r
      <3>1. r \in Pend /\ r \in Open /\ r \notin Ctx /\ (r \in Boxes => \A x \in Ctx \cap Boxes : x < r)
        BY <2>2, PlaceFacts DEF Apart, InTurn, Before
      <3>2. Line(contextMailbox', Boxes)
        BY <2>4, <3>1, ToContext
      <3>3. PICK R \in {{}, {r}} : /\ Answers(R) /\ (R # {} => reply'[r] = "dropped")
                                   /\ Ctx' = Ctx \cup ({r} \ R)
        BY <2>4, <3>1, ToContext
      <3>4. Bls' = Bls
        BY <2>4 DEF Bls
      <3>5. LineInv'
        BY <1>1, <1>2, <2>2, <2>4, <3>2, PlaceFacts DEF LineInv
      <3> QED
        BY <1>1, <1>2, <2>2, <3>1, <3>3, <3>4, <3>5, FromPending
    <2> QED
      BY <1>4, <2>3, <2>4 DEF DrainPending
  <1> QED
    BY <1>3, <1>4

\* Building a context moves no request, and a new generation is a rebuild.
LEMMA InitStep == ASSUME TypeOK, RInv, InitBump \/ InitInstall \/ InitSpawn PROVE RInv' /\ PromiseStep
  <1>1. UNCHANGED <<kind, submitted, reply, validated, running, pending, blasMailbox, acceptingOps, device>>
    BY DEF InitBump, InitInstall, InitSpawn, clientVars, runVars, stateVars, deviceVars, blasVars
  <1>2. contextMailbox' = contextMailbox \/ (InitSpawn /\ contextMailbox' = Tail(contextMailbox))
    BY DEF InitBump, InitInstall, InitSpawn
  <1>3. Ctx' = Ctx /\ Line(contextMailbox', Boxes)
    <2>1. CASE contextMailbox' = contextMailbox
      BY <2>1, PlaceFacts DEF Ctx
    <2>2. CASE InitSpawn /\ contextMailbox' = Tail(contextMailbox)
      <3>1. contextMailbox # <<>> /\ Head(contextMailbox).type # "Req"
        BY <2>2 DEF InitSpawn, InInit
      <3> QED
        BY <2>2, <3>1, PlaceFacts, LineTail DEF Ctx
    <2> QED
      BY <1>2, <2>1, <2>2
  <1>4. Dev' = Dev /\ Line(deviceMailbox', Boxes)
    <2>1. CASE deviceMailbox' = deviceMailbox
      BY <2>1, PlaceFacts DEF Dev
    <2>2. CASE InitSpawn
      <3>1. TellDevice(<<Ready(generation)>>)
        BY <2>2 DEF InitSpawn
      <3>2. Ready(generation) \in DeviceMsg /\ Ready(generation).type # "Req"
        BY MessageTypes DEF TypeOK, Ready
      <3> QED
        BY <3>1, <3>2, NewsKeepsRequests
    <2> QED
      BY <2>1, <2>2 DEF InitBump, InitInstall, deviceVars
  <1>5. device' = "stopped" => ~acceptingOps'
    BY <1>1 DEF RInv
  <1>6. RInv' /\ (UNCHANGED <<generation, acceptingOps>> => PromiseStep)
    BY <1>1, <1>3, <1>4, <1>5, Still
  <1>7. CASE generation' = generation
    BY <1>1, <1>6, <1>7
  <1>8. CASE InitBump
    <2>1. generation' = generation + 1
      BY <1>8 DEF InitBump
    <2>2. Open' = Open /\ Answer' = Answer /\ Admitted' = Admitted
      BY <1>1 DEF Open, Answer, Admitted
    <2>3. Promise!Rebuild
      BY <1>1, <2>1, <2>2 DEF Promise!Rebuild
    <2> QED
      BY <1>6, <2>3 DEF PromiseStep, Promise!Next
  <1> QED
    BY <1>7, <1>8 DEF InitInstall, InitSpawn, stateVars

\* The other steps that move no request.
LEMMA QuietStep ==
    ASSUME TypeOK, RInv,
           \/ HandleContextReady \/ HandleContextLost \/ BeginStop \/ WindowElapses
           \/ ContextFaults \/ UNCHANGED vars
    PROVE  RInv' /\ PromiseStep
  <1>1. /\ UNCHANGED <<kind, submitted, reply, validated, running, pending, blasMailbox, acceptingOps>>
        /\ UNCHANGED <<generation, contextMailbox>>
    BY DEF HandleContextReady, HandleContextLost, BeginStop, WindowElapses, ContextFaults, vars,
           clientVars, runVars, stateVars, deviceVars, blasVars, contextVars
  <1>2. Ctx' = Ctx /\ Line(contextMailbox', Boxes)
    BY <1>1, PlaceFacts DEF Ctx
  <1>3. Dev' = Dev /\ Line(deviceMailbox', Boxes)
    <2>1. CASE deviceMailbox' = deviceMailbox
      BY <2>1, PlaceFacts DEF Dev
    <2>2. CASE HandleContextReady
      BY <2>2, DeviceHead DEF HandleContextReady
    <2>3. CASE HandleContextLost
      BY <2>3, DeviceHead DEF HandleContextLost
    <2> QED
      BY <2>1, <2>2, <2>3 DEF BeginStop, WindowElapses, ContextFaults, vars, deviceVars
  <1>4. device' = "stopped" => ~acceptingOps'
    <2>1. device' = "stopped" => device = "stopped"
      BY DEF HandleContextReady, HandleContextLost, BeginStop, WindowElapses, ContextFaults, vars, deviceVars
    <2> QED
      BY <1>1, <2>1 DEF RInv
  <1> QED
    BY <1>1, <1>2, <1>3, <1>4, Still

\* begin_shutdown and post_stop of the DeviceActor.
LEMMA DeviceStopStep == ASSUME TypeOK, RInv, DevicePostStop PROVE RInv' /\ PromiseStep
  <1>1. /\ UNCHANGED <<kind, submitted, validated, running, generation, contextMailbox, blasMailbox>>
        /\ deviceMailbox' = <<>> /\ pending' = <<>> /\ reply' = StoppedReplies /\ acceptingOps' = FALSE
    BY DEF DevicePostStop, clientVars, runVars, contextVars, blasVars
  <1>2. Dev' = {} /\ Pend' = {} /\ Ctx' = Ctx /\ Bls' = Bls /\ Boxes' = Boxes
    BY <1>1, EmptyQueues DEF Dev, Pend, Ctx, Bls, Boxes
  <1>3. LineInv'
    BY <1>1, <1>2, EmptyQueues, PlaceFacts DEF LineInv
  <1> DEFINE R == Dev \cup Pend
  <1>4. Answers(R)
    <2>1. R \subseteq Open
      BY PlaceFacts
    <2>2. reply' \in [Requests -> Replies]
      BY <1>1, ReplyTypes
    <2>3. ASSUME NEW r \in Requests
          PROVE  IF r \in R THEN reply'[r] \in Final ELSE reply'[r] = reply[r]
      <3>1. reply'[r] = IF r \in Pend /\ kind[r] = "Sgemm" THEN "stale"
                        ELSE IF r \in Pend \cup Dev THEN "dropped" ELSE reply[r]
        BY <1>1 DEF StoppedReplies, Pend, Dev
      <3> QED
        BY <3>1 DEF Final, Replies
    <2> QED
      BY <2>1, <2>2, <2>3 DEF Answers
  <1>5. \A s \in (Coming \ Coming') \cap Boxes : reply'[s] = "dropped"
    <2> SUFFICES ASSUME NEW s \in R \cap Boxes PROVE reply'[s] = "dropped"
      BY <1>2, PlaceFacts DEF Coming
    <2>1. s \in Requests /\ kind[s] # "Sgemm"
      BY DEF Boxes, Boxed
    <2>2. s \in Elements(pending) \cup RequestsIn(deviceMailbox)
      BY DEF Pend, Dev
    <2> QED
      BY <1>1, <2>1, <2>2 DEF StoppedReplies
  <1>6. RInv'
    BY <1>1, <1>2, <1>3, <1>4, <1>5, ActorsStop
  <1>7. Admitted' = Admitted
    BY <1>1 DEF Admitted
  <1>8. CASE ~acceptingOps
    <2>1. UNCHANGED <<generation, acceptingOps>>
      BY <1>1, <1>8 DEF TypeOK
    <2> QED
      BY <1>4, <1>6, <1>7, <2>1, AnswersArePromised
  <1>9. CASE acceptingOps
    <2>1. Promise!AnswerAll(R) /\ R \in SUBSET Open
      BY <1>4, AnswersAll DEF Answers
    <2> HIDE DEF R
    <2>2. Promise!Shutdown
      BY <1>1, <1>7, <1>9, <2>1 DEF Promise!Shutdown
    <2> QED
      BY <1>6, <2>2 DEF PromiseStep, Promise!Next
  <1> QED
    BY <1>8, <1>9

\* The ContextActor restarts: its mailbox survives, the requests of its kernel
\* actor are dropped.
LEMMA RestartStep ==
    ASSUME TypeOK, RInv, NEW mailbox \in Seq(ContextMsg), Line(mailbox, Boxes),
           RequestsIn(mailbox) = Ctx, Restart(mailbox)
    PROVE  RInv' /\ PromiseStep
  <1>1. /\ UNCHANGED <<kind, submitted, validated, running, pending, generation, acceptingOps, device>>
        /\ contextMailbox' = Append(mailbox, InitMsg) /\ blasMailbox' = <<>> /\ reply' = Dropping(Bls)
    BY DEF Restart, PostRestart, StopBlas, clientVars, runVars, Bls
  <1>2. Pend' = Pend /\ Bls' = {} /\ Boxes' = Boxes /\ Row(blasMailbox', {})
    BY <1>1, EmptyQueues DEF Pend, Bls, Boxes
  <1>3. Ctx' = Ctx /\ Line(contextMailbox', Boxes)
    <2>1. InitMsg \in ContextMsg /\ InitMsg.type # "Req"
      BY MessageTypes DEF InitMsg
    <2> QED
      BY <1>1, <2>1, LineAppend DEF Ctx
  <1>4. Dev' = Dev /\ Line(deviceMailbox', Boxes)
    <2>1. Lost \in DeviceMsg /\ Lost.type # "Req"
      BY MessageTypes DEF Lost
    <2> QED
      BY <2>1, NewsKeepsRequests DEF Restart
  <1>5. LineInv'
    BY <1>1, <1>2, <1>3, <1>4, PlaceFacts DEF LineInv
  <1>6. Answers(Bls)
    <2>1. Bls \in SUBSET Open
      BY PlaceFacts
    <2> QED
      BY <1>1, <2>1, SomeDropped
  <1>7. Coming' = Coming
    BY <1>2, <1>3, <1>4 DEF Coming
  <1>8. device' = "stopped" => ~acceptingOps'
    BY <1>1 DEF RInv
  <1>9. RInv'
    BY <1>1, <1>2, <1>3, <1>4, <1>5, <1>6, <1>7, <1>8, ActorsStop
  <1>10. Admitted' = Admitted
    BY <1>1 DEF Admitted
  <1> QED
    BY <1>1, <1>6, <1>9, <1>10, AnswersArePromised

\* The ContextActor stops for good: its requests and those of its kernel actor
\* are dropped.
LEMMA StopStepKeeps ==
    ASSUME TypeOK, RInv, NEW mailbox, RequestsIn(mailbox) = Ctx, StopContext(mailbox),
           device' = "stopped" => device = "stopped"
    PROVE  RInv' /\ PromiseStep
  <1>1. /\ UNCHANGED <<kind, submitted, validated, running, pending, generation, acceptingOps>>
        /\ contextMailbox' = <<>> /\ blasMailbox' = <<>> /\ reply' = Dropping(Ctx \cup Bls)
    BY DEF StopContext, StopBlas, clientVars, runVars, Bls
  <1>2. /\ Pend' = Pend /\ Bls' = {} /\ Boxes' = Boxes /\ Row(blasMailbox', {})
        /\ Ctx' = {} /\ Line(contextMailbox', Boxes)
    BY <1>1, EmptyQueues DEF Pend, Bls, Boxes, Ctx
  <1>3. Dev' = Dev /\ Line(deviceMailbox', Boxes)
    <2>1. Lost \in DeviceMsg /\ Lost.type # "Req"
      BY MessageTypes DEF Lost
    <2> QED
      BY <2>1, NewsKeepsRequests DEF StopContext
  <1>4. LineInv'
    BY <1>1, <1>2, <1>3, PlaceFacts DEF LineInv
  <1>5. Answers(Ctx \cup Bls) /\ \A r \in Ctx : reply'[r] = "dropped"
    <2>1. Ctx \cup Bls \in SUBSET Open
      BY PlaceFacts
    <2> QED
      BY <1>1, <2>1, SomeDropped
  <1>6. Coming \ Coming' \subseteq Ctx
    BY <1>2, <1>3 DEF Coming
  <1>7. device' = "stopped" => ~acceptingOps'
    BY <1>1 DEF RInv
  <1>8. RInv'
    BY <1>1, <1>2, <1>3, <1>4, <1>5, <1>6, <1>7, ActorsStop
  <1>9. Admitted' = Admitted
    BY <1>1 DEF Admitted
  <1> QED
    BY <1>1, <1>5, <1>8, <1>9, AnswersArePromised

\* The steps in which the ContextActor fails or is stopped.
LEMMA FailureStep ==
    ASSUME TypeOK, RInv,
           KernelPoisons \/ InitPoisoned \/ InitSpawnFails \/ ContextPostStop \/ CopyWithoutStream
    PROVE  RInv' /\ PromiseStep
  <1>1. /\ contextMailbox \in Seq(ContextMsg) /\ Line(contextMailbox, Boxes)
        /\ RequestsIn(contextMailbox) = Ctx
    BY PlaceFacts DEF Ctx
  <1>2. ASSUME contextMailbox # <<>>, Head(contextMailbox).type = "Init"
        PROVE  /\ Tail(contextMailbox) \in Seq(ContextMsg) /\ Line(Tail(contextMailbox), Boxes)
               /\ RequestsIn(Tail(contextMailbox)) = Ctx
    BY <1>1, <1>2, LineTail
  <1>3. CASE KernelPoisons
    BY <1>1, <1>3, RestartStep, StopStepKeeps DEF KernelPoisons, Poisoned
  <1>4. CASE InitPoisoned
    BY <1>2, <1>4, RestartStep, StopStepKeeps DEF InitPoisoned, InInit, Poisoned
  <1>5. CASE InitSpawnFails
    BY <1>2, <1>5, StopStepKeeps DEF InitSpawnFails, InInit
  <1>6. CASE ContextPostStop
    BY <1>1, <1>6, StopStepKeeps DEF ContextPostStop
  <1>7. CASE CopyWithoutStream
    <2>1. StopContext(contextMailbox) /\ (device' = "stopped" => device = "stopped")
      BY <1>7 DEF CopyWithoutStream
    <2> QED
      BY <1>1, <2>1, StopStepKeeps
  <1> QED
    BY <1>3, <1>4, <1>5, <1>6, <1>7

\* A buffer that passes access() belongs to the current generation.
LEMMA AccessIsCurrent ==
    ASSUME TypeOK, RefInv, NEW r \in Requests, NEW ctx, Access(buf[r])
    PROVE  Validation(r, ctx).slice = generation /\ acceptingOps
  <1>1. buf[r] \in Refs
    BY DEF TypeOK
  <1> QED
    BY <1>1 DEF RefInv, Access, Validation

\* A write is refused, or admitted and left to its completion task.
LEMMA WriteOutcome ==
    ASSUME TypeOK, RInv, RefInv, NEW r \in Queued, NEW ctx, StartWrite(r, ctx),
           UNCHANGED <<generation, acceptingOps>>
    PROVE  /\ PromiseStep
           /\ \A x \in Requests : x = r \/ validated'[x] = validated[x]
           /\ \E R \in {{}, {r}} : Answers(R) /\ running' = running \cup ({r} \ R)
  <1>1. r \in Open /\ r \in Requests /\ reply[r] = "waiting" /\ validated[r].slice = 0
    BY PlaceFacts
  <1> DEFINE e == WriteReply(buf[r])
  <1>2. reply' = [reply EXCEPT ![r] = e] /\ running' = IF e = "waiting" THEN running \cup {r} ELSE running
    BY DEF StartWrite
  <1>3. e \in {"stale", "shared", "waiting"} /\ (~Access(buf[r]) => e = "stale")
    BY DEF WriteReply
  <1> HIDE DEF e
  <1>4. PICK R \in {{}, {r}} : Answers(R) /\ running' = running \cup ({r} \ R)
    <2>1. CASE e = "waiting"
      <3>1. reply' = reply
        BY <1>1, <1>2, <2>1 DEF TypeOK
      <3> QED
        BY <1>2, <2>1, <3>1, NobodyAnswered
    <2>2. CASE e # "waiting"
      <3>1. e \in Final
        BY <1>3, <2>2 DEF Final, Replies
      <3> QED
        BY <1>1, <1>2, <2>2, <3>1, OneAnswered
    <2> QED
      BY <2>1, <2>2
  <1>5. CASE Access(buf[r])
    <2> DEFINE v == Validation(r, ctx)
    <2>1. v.slice = generation /\ acceptingOps
      BY <1>1, <1>5, AccessIsCurrent
    <2>2. validated' = [validated EXCEPT ![r] = v]
      BY <1>5 DEF StartWrite
    <2> HIDE DEF v
    <2>3. PromiseStep
      BY <1>1, <1>4, <2>1, <2>2, AdmissionsArePromised
    <2>4. \A x \in Requests : x = r \/ validated'[x] = validated[x]
      BY <2>2 DEF TypeOK
    <2> QED
      BY <1>4, <2>3, <2>4
  <1>6. CASE ~Access(buf[r])
    <2>1. validated' = validated
      BY <1>6 DEF StartWrite
    <2>2. Admitted' = Admitted
      BY <2>1 DEF Admitted
    <2> QED
      BY <1>4, <2>1, <2>2, AnswersArePromised
  <1> QED
    BY <1>5, <1>6

\* The ContextActor takes the request at the head of its mailbox.
LEMMA ContextHead ==
    ASSUME TypeOK, RInv, NEW k, ContextHandles(k), contextMailbox' = Tail(contextMailbox)
    PROVE  LET r == Head(contextMailbox).id IN
           /\ Line(contextMailbox', Boxes)
           /\ r \in Ctx /\ Ctx = Ctx' \cup {r} /\ r \notin Ctx'
           /\ r \in Boxes => \A x \in Ctx' \cap Boxes : r < x
  <1>1. contextMailbox # <<>> /\ Head(contextMailbox).type = "Req"
    BY DEF ContextHandles
  <1> QED
    BY <1>1, PlaceFacts, LineTail DEF Ctx

\* The ContextActor handles a request.
LEMMA ContextHandlesRequest ==
    ASSUME TypeOK, RInv, RefInv,
           HandleAlloc \/ HandleCopyToHost \/ HandleCopyFromHost \/ HandleSnapshotStream
    PROVE  RInv' /\ PromiseStep
  <1> DEFINE r == Head(contextMailbox).id
  <1>1. /\ contextMailbox' = Tail(contextMailbox)
        /\ UNCHANGED <<kind, submitted, generation, acceptingOps, device, deviceMailbox, pending, blasMailbox>>
    BY DEF HandleAlloc, HandleCopyToHost, HandleCopyFromHost, HandleSnapshotStream, ContextUnchanged,
           stateVars, deviceVars, blasVars, clientVars
  <1>2. \E k : ContextHandles(k)
    BY DEF HandleAlloc, HandleCopyToHost, HandleCopyFromHost, HandleSnapshotStream
  <1>3. /\ Line(contextMailbox', Boxes)
        /\ r \in Ctx /\ Ctx = Ctx' \cup {r} /\ r \notin Ctx'
        /\ r \in Boxes => \A x \in Ctx' \cap Boxes : r < x
    BY <1>1, <1>2, ContextHead
  <1>4. Dev' = Dev /\ Pend' = Pend /\ Bls' = Bls /\ Boxes' = Boxes
    BY <1>1 DEF Dev, Pend, Bls, Boxes
  <1>5. LineInv'
    BY <1>1, <1>3, <1>4, PlaceFacts DEF LineInv
  <1>6. r \in Open /\ r \in Queued /\ r \in Requests /\ validated[r].slice = 0
    BY <1>3, PlaceFacts
  <1>7. /\ PromiseStep
        /\ \A x \in Requests : x = r \/ validated'[x] = validated[x]
        /\ \E R \in {{}, {r}} : Answers(R) /\ running' = running \cup ({r} \ R)
    <2>1. CASE \E e \in Final : reply' = [reply EXCEPT ![r] = e] /\ UNCHANGED <<validated, running>>
      <3> HIDE DEF r
      <3>1. Answers({r}) /\ running' = running
        BY <1>6, <2>1, OneAnswered
      <3>2. Admitted' = Admitted
        BY <2>1 DEF Admitted
      <3> QED
        BY <1>1, <2>1, <3>1, <3>2, AnswersArePromised
    <2>2. CASE /\ Access(buf[r]) /\ validated' = [validated EXCEPT ![r] = Validation(r, stream)]
               /\ \/ \E e \in Final : reply' = [reply EXCEPT ![r] = e] /\ running' = running
                  \/ running' = running \cup {r} /\ reply' = reply
      <3> HIDE DEF r
      <3> DEFINE v == Validation(r, stream)
      <3>1. v.slice = generation /\ acceptingOps
        BY <1>6, <2>2, AccessIsCurrent
      <3>2. validated' = [validated EXCEPT ![r] = v]
        BY <2>2
      <3> HIDE DEF v
      <3>3. PICK R \in {{}, {r}} : Answers(R) /\ running' = running \cup ({r} \ R)
        BY <1>6, <2>2, OneAnswered, NobodyAnswered
      <3>4. PromiseStep
        BY <1>1, <1>6, <3>1, <3>2, <3>3, AdmissionsArePromised
      <3>5. \A x \in Requests : x = r \/ validated'[x] = validated[x]
        BY <3>2 DEF TypeOK
      <3> QED
        BY <3>3, <3>4, <3>5
    <2>3. CASE StartWrite(r, stream)
      <3> HIDE DEF r
      <3> QED
        BY <1>1, <1>6, <2>3, WriteOutcome
    <2>4. {"ok", "stale", "oom", "unrecoverable", "library"} \subseteq Final
      BY DEF Final, Replies
    <2>5. CASE HandleAlloc \/ HandleSnapshotStream
      BY <2>1, <2>4, <2>5 DEF HandleAlloc, HandleSnapshotStream, runVars
    <2>6. CASE HandleCopyToHost
      BY <2>1, <2>2, <2>4, <2>6 DEF HandleCopyToHost, runVars
    <2>7. CASE HandleCopyFromHost
      BY <2>2, <2>3, <2>4, <2>7 DEF HandleCopyFromHost
    <2> QED
      BY <2>5, <2>6, <2>7
  <1> HIDE DEF r
  <1>8. PICK R \in {{}, {r}} : Answers(R) /\ running' = running \cup ({r} \ R)
    BY <1>7
  <1> QED
    BY <1>1, <1>3, <1>4, <1>5, <1>7, <1>8, FromContext

\* The BlasActor handles a request.
LEMMA SgemmStep == ASSUME TypeOK, RInv, RefInv, HandleSgemm PROVE RInv' /\ PromiseStep
  <1> DEFINE r == Head(blasMailbox)
  <1>1. /\ blasMailbox # <<>> /\ blasMailbox' = Tail(blasMailbox) /\ StartWrite(r, blas)
        /\ UNCHANGED <<kind, submitted, generation, acceptingOps, device, deviceMailbox, pending, contextMailbox>>
    BY DEF HandleSgemm, stateVars, deviceVars, contextVars, clientVars
  <1>2. Row(blasMailbox', {}) /\ Bls = Bls' \cup {r} /\ r \notin Bls'
    BY <1>1, PlaceFacts, RowTail DEF Bls
  <1> HIDE DEF r
  <1>3. Dev' = Dev /\ Pend' = Pend /\ Ctx' = Ctx /\ Boxes' = Boxes
    BY <1>1 DEF Dev, Pend, Ctx, Boxes
  <1>4. LineInv'
    BY <1>1, <1>2, <1>3, PlaceFacts DEF LineInv
  <1>5. r \in Queued
    BY <1>2, PlaceFacts
  <1>6. /\ PromiseStep
        /\ \A x \in Requests : x = r \/ validated'[x] = validated[x]
        /\ \E R \in {{}, {r}} : Answers(R) /\ running' = running \cup ({r} \ R)
    BY <1>1, <1>5, WriteOutcome
  <1>7. PICK R \in {{}, {r}} : Answers(R) /\ running' = running \cup ({r} \ R)
    BY <1>6
  <1> QED
    BY <1>1, <1>2, <1>3, <1>4, <1>6, <1>7, FromBlas

\* A completion task answers its caller.
LEMMA CompleteStep == ASSUME TypeOK, RInv, NEW r \in Requests, Complete(r) PROVE RInv' /\ PromiseStep
  <1>1. /\ r \in running /\ running' = running \ {r}
        /\ UNCHANGED <<kind, submitted, generation, acceptingOps, device, deviceMailbox, pending,
                       contextMailbox, blasMailbox, validated>>
    BY DEF Complete, stateVars, deviceVars, contextVars, blasVars, clientVars
  <1>2. Dev' = Dev /\ Pend' = Pend /\ Ctx' = Ctx /\ Bls' = Bls /\ Boxes' = Boxes
    BY <1>1 DEF Dev, Pend, Ctx, Bls, Boxes
  <1>3. {"ok", "library"} \subseteq Final
    BY DEF Final, Replies
  <1>4. r \in Open /\ Answers({r})
    <2>1. r \in Open
      BY <1>1, PlaceFacts
    <2>2. PICK e \in {"ok", "library"} : reply' = [reply EXCEPT ![r] = e]
      BY DEF Complete
    <2> QED
      BY <1>3, <2>1, <2>2, OneAnswered
  <1>5. LineInv' /\ InTurn' /\ Apart'
    BY <1>1, <1>2, PlaceFacts DEF LineInv, InTurn, Apart
  <1>6. Coming' = Coming /\ Queued' = Queued
    BY <1>2 DEF Coming, Queued
  <1>7. r \notin Queued
    BY <1>1, PlaceFacts DEF Apart
  <1>8. (Queued \cup running)' = Open \ {r}
    BY <1>1, <1>6, <1>7, PlaceFacts
  <1>9. device' = "stopped" => ~acceptingOps'
    BY <1>1 DEF RInv
  <1>10. RInv'
    BY <1>1, <1>4, <1>5, <1>6, <1>8, <1>9, Moves
  <1>11. Admitted' = Admitted
    BY <1>1 DEF Admitted
  <1> QED
    BY <1>1, <1>4, <1>10, <1>11, AnswersArePromised

-----------------------------------------------------------------------------
(* The theorems *)

\* All the invariants the steps rely on.
AllInv == IInv /\ NoStrandedWork /\ RInv

\* At the start nothing has been sent.
LEMMA InitRInv == Init => RInv
  <1> SUFFICES ASSUME Init PROVE RInv
    OBVIOUS
  <1>1. /\ deviceMailbox = <<>> /\ pending = <<>> /\ blasMailbox = <<>> /\ running = {}
        /\ contextMailbox = <<InitMsg>> /\ device = "running" /\ submitted = 0
        /\ \A r \in Requests : reply[r] = "unused" /\ validated[r].slice = 0
    BY DEF Init
  <1>2. Dev = {} /\ Pend = {} /\ Bls = {}
    BY <1>1, EmptyQueues DEF Dev, Pend, Bls
  <1>3. Ctx = {} /\ Line(contextMailbox, Boxes)
    <2>1. DOMAIN contextMailbox = {1} /\ contextMailbox[1].type = "Init"
      BY <1>1 DEF InitMsg
    <2> QED
      BY <2>1 DEF Ctx, RequestsIn, Line
  <1>4. PlaceInv
    BY <1>1, <1>2, <1>3 DEF PlaceInv, Apart, Queued, Coming, Open
  <1>5. FreshInv
    <2>1. \A r \in Requests : r > 0
      BY DEF Requests
    <2> QED
      BY <1>1, <1>2, <1>3, <2>1 DEF FreshInv, Queued, Coming
  <1>6. LineInv
    BY <1>1, <1>3, EmptyQueues DEF LineInv
  <1>7. AheadInv
    BY <1>2, <1>3 DEF AheadInv, InTurn, Before, Coming
  <1> QED
    BY <1>1, <1>4, <1>5, <1>6, <1>7 DEF RInv

\* Every step keeps the invariant and is one the abstract specification allows.
LEMMA RequestStep == AllInv /\ [Next]_vars => RInv' /\ PromiseStep
  <1> SUFFICES ASSUME AllInv, [Next]_vars PROVE RInv' /\ PromiseStep
    OBVIOUS
  <1>0. TypeOK /\ RefInv /\ NoStrandedWork /\ RInv
    BY DEF AllInv, IInv
  <1>1. CASE Submit
    BY <1>0, <1>1, SubmitStep
  <1>2. CASE HandleWhenReady \/ HandleWhenNotReady \/ HandleSnapshot
    BY <1>0, <1>2, DeviceHandlesRequest
  <1>3. CASE DrainPending
    BY <1>0, <1>3, DrainStep
  <1>4. CASE InitBump \/ InitInstall \/ InitSpawn
    BY <1>0, <1>4, InitStep
  <1>5. CASE HandleContextReady \/ HandleContextLost \/ BeginStop \/ WindowElapses \/ ContextFaults \/ UNCHANGED vars
    BY <1>0, <1>5, QuietStep
  <1>6. CASE DevicePostStop
    BY <1>0, <1>6, DeviceStopStep
  <1>7. CASE KernelPoisons \/ InitPoisoned \/ InitSpawnFails \/ ContextPostStop \/ CopyWithoutStream
    BY <1>0, <1>7, FailureStep
  <1>8. CASE HandleAlloc \/ HandleCopyToHost \/ HandleCopyFromHost \/ HandleSnapshotStream
    BY <1>0, <1>8, ContextHandlesRequest
  <1>9. CASE HandleSgemm
    BY <1>0, <1>9, SgemmStep
  <1>10. CASE \E r \in Requests : Complete(r)
    BY <1>0, <1>10, CompleteStep
  <1> QED
    BY <1>1, <1>2, <1>3, <1>4, <1>5, <1>6, <1>7, <1>8, <1>9, <1>10
       DEF Next, DeviceStep, ContextStep, StopStep, FaultStep

LEMMA AllInvariant == Spec => []AllInv
  <1>1. Init => AllInv
    <2> SUFFICES ASSUME Init PROVE AllInv
      OBVIOUS
    <2>1. ContextInv
      BY DEF Init, ContextInv, InitMsg
    <2>2. RefInv /\ RunsInOwnContext /\ NoStrandedWork
      BY DEF Init, RefInv, RunsInOwnContext, NoStrandedWork
    <2> QED
      BY <2>1, <2>2, InitTypeOK, InitRInv DEF AllInv, IInv
  <1>2. AllInv /\ [Next]_vars => AllInv'
    BY TypeStep, ContextStepInv, RefStep, OwnContextStep, StashStep, RequestStep DEF AllInv, IInv
  <1> QED
    BY <1>1, <1>2, PTL DEF Spec

\* The places of the requests give the order of InOrder.
LEMMA RInvInOrder == AllInv => InOrder
  <1> SUFFICES ASSUME AllInv, NEW r \in 1..submitted, NEW s \in 1..submitted, r < s,
                      {kind[r], kind[s]} \subseteq Boxed, reply[s] # "dropped"
               PROVE  Distance(r) <= Distance(s)
    BY DEF InOrder
  <1>0. TypeOK /\ RInv
    BY DEF AllInv, IInv
  <1>1. r \in Boxes /\ s \in Boxes /\ s <= submitted /\ r \in Nat /\ s \in Nat /\ ~(s < r)
    <2>1. submitted \in 0..MaxRequests
      BY <1>0 DEF TypeOK
    <2>2. r \in Requests /\ s \in Requests
      BY <2>1, DeviceAssumption DEF Requests
    <2> QED
      BY <2>2 DEF Boxes
  <1>2. /\ Distance(r) = IF r \in Dev THEN 3 ELSE IF r \in Pend THEN 2 ELSE IF r \in Ctx THEN 1 ELSE 0
        /\ Distance(s) = IF s \in Dev THEN 3 ELSE IF s \in Pend THEN 2 ELSE IF s \in Ctx THEN 1 ELSE 0
    BY DEF Distance, Dev, Pend, Ctx
  <1>3. r \in Coming => s \in Coming
    BY <1>0, <1>1 DEF RInv, AheadInv, Before
  <1>4. ~(r \in Dev /\ s \in Pend) /\ ~(r \in Dev /\ s \in Ctx) /\ ~(r \in Pend /\ s \in Ctx)
    BY <1>0, <1>1, PlaceFacts DEF InTurn, Before
  <1> QED
    BY <1>2, <1>3, <1>4 DEF Coming

\* Allocations and copies reach the ContextActor in the order in which clients
\* sent them, through every rebuild, for any number of requests and failures.
THEOREM ArriveInOrder == Spec => []InOrder
  <1>1. AllInv => InOrder
    BY RInvInOrder
  <1> QED
    BY <1>1, AllInvariant, PTL

\* The device with its actors, restarts and stash implements what it promises
\* its callers: one answer at most, at most one admission to the GPU, before
\* the answer, before shutdown and under the current generation.
THEOREM Implementation == Spec => KeepsPromise
  <1>1. Init => Promise!Init
    <2> SUFFICES ASSUME Init PROVE Promise!Init
      OBVIOUS
    <2>1. \A r \in Requests : reply[r] = "unused" /\ validated[r].slice = 0
      BY DEF Init
    <2>2. Open = {} /\ Answer = [r \in Requests |-> "none"] /\ Admitted = [r \in Requests |-> 0]
      BY <2>1 DEF Open, Answer, Admitted
    <2> QED
      BY <2>2 DEF Init, Promise!Init
  <1>2. AllInv /\ [Next]_vars => [Promise!Next]_(Promise!vars)
    BY RequestStep DEF PromiseStep
  <1> QED
    BY <1>1, <1>2, AllInvariant, PTL DEF Spec, KeepsPromise, Promise!Spec

=============================================================================
