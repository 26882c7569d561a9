---------------------------- MODULE CollectiveOps ----------------------------
(***************************************************************************)
(* The requests of CollectiveActor.  NCCL calls return when the operation   *)
(* is on the communicator's stream; the handler answers then and drops its  *)
(* operands, it does not use run_kernel.                                    *)
(***************************************************************************)
EXTENDS KernelSteps

AllReduce ==
    AccessAll(<<"tensor">>) \o TakeAll(<<"tensor">>) \o CallAndReply({}, {"tensor"})

\* The root rank must fit in an i32.
Broadcast ==
    AccessAll(<<"data">>) \o TakeAll(<<"data">>) \o Prepare \o CallAndReply({}, {"data"})
AllGather ==
    AccessAll(<<"send", "recv">>) \o TakeAll(<<"recv">>) \o CallAndReply({"send"}, {"recv"})
ReduceScatter ==
    AccessAll(<<"send", "recv">>) \o TakeAll(<<"recv">>) \o CallAndReply({"send"}, {"recv"})

\* Only the root has a receive buffer.
ReduceRoot ==
    AccessAll(<<"send", "recv">>) \o TakeAll(<<"recv">>) \o CallAndReply({"send"}, {"recv"})
ReduceLeaf == AccessAll(<<"send">>) \o CallAndReply({"send"}, {})

\* Both buffers must hold count elements per rank; sends and receives in a group.
AllToAll ==
    AccessAll(<<"send", "recv">>) \o TakeAll(<<"recv">>) \o Prepare
    \o CallAndReply({"send"}, {"recv"})
AllToAllv ==
    Prepare \o AccessAll(<<"send", "recv">>) \o TakeAll(<<"recv">>)
    \o CallAndReply({"send"}, {"recv"})

SendTo   == AccessAll(<<"data">>) \o CallAndReply({"data"}, {})
RecvFrom == AccessAll(<<"data">>) \o TakeAll(<<"data">>) \o CallAndReply({}, {"data"})

\* BeginGroup and EndGroup
GroupCall == Prepare \o Answer

\* CollectiveActor::handle, handle_legacy and mock_reply; a mock has the zero
\* capabilities at hand.
CollectiveRequests ==
    [all_reduce |-> Boxed("nccl", AllReduce), broadcast |-> Boxed("nccl", Broadcast),
     all_gather |-> Boxed("nccl", AllGather), reduce_scatter |-> Boxed("nccl", ReduceScatter),
     reduce_root |-> Boxed("nccl", ReduceRoot), reduce_leaf |-> Boxed("nccl", ReduceLeaf),
     all_to_all |-> Boxed("nccl", AllToAll), all_to_allv |-> Boxed("nccl", AllToAllv),
     send |-> Boxed("nccl", SendTo), recv |-> Boxed("nccl", RecvFrom),
     all_reduce_f32 |-> Inline("nccl", AllReduce), broadcast_f32 |-> Inline("nccl", Broadcast),
     group |-> Inline("nccl", GroupCall), capabilities |-> Request("nccl", Answer, Answer)]
=============================================================================
