---------------------------- MODULE TransformOps ----------------------------
(* The requests of ContextActor (allocations and copies), FftActor, RngActor
   and CudnnActor. *)
EXTENDS KernelSteps

-----------------------------------------------------------------------------
(* Allocation and copies, device/context_actor.rs *)

Alloc == Prepare \o Answer

\* The lengths are compared; the host buffer travels with the reply.
CopyToHost == AccessAll(<<"src">>) \o Prepare \o RunKernel({"src"}, {})
CopyFromHost ==
    AccessAll(<<"dst">>) \o Prepare \o TakeAll(<<"dst">>)
    \o RecordAll(<<"dst">>) \o RunKernel({}, {"dst"})

\* The DeviceActor's load, the children and the stream; of the latter two there
\* may be none, which the methods raise as an error.
Snapshot == Prepare \o Answer

DeviceRequests ==
    [alloc |-> Inline("device", Alloc), copy_to_host |-> Boxed("device", CopyToHost),
     copy_from_host |-> Boxed("device", CopyFromHost),
     stats |-> Request("device", Answer, Answer),
     snapshot_children |-> Request("device", Snapshot, Snapshot),
     snapshot_stream |-> Request("device", Snapshot, Snapshot)]

-----------------------------------------------------------------------------
(* cuFFT, kernel/fft.rs: the plan comes from the LRU cache or is built. *)

\* FftRequest::dispatch; the output is written but not unwrapped.
FftExec ==
    Prepare \o AccessAll(<<"input", "output">>) \o RecordAll(<<"output">>)
    \o RunKernel({"input"}, {"output"})

\* Forward1dR2C and Forward2dR2C
FftR2C == Prepare \o Update(<<"src", "dst">>, <<"dst">>, <<>>)

\* Inverse1dC2R and Exec1dC2C also write their source, and record only the
\* destination.
FftC2C ==
    Prepare \o AccessAll(<<"src", "dst">>) \o TakeAll(<<"src", "dst">>)
    \o RecordAll(<<"dst">>) \o RunKernel({}, {"src", "dst"})

FftRequests ==
    [fft_exec |-> Boxed("fft", FftExec), fft_r2c |-> Inline("fft", FftR2C),
     fft_c2c |-> Inline("fft", FftC2C)]

-----------------------------------------------------------------------------
(* cuRAND, kernel/rng *)

\* Uniform: bounds other than (0, 1) are refused after the unwrap.
FillUniform    == Update(<<"dst">>, <<"dst">>, Prepare)
FillNormal     == Update(<<"dst">>, <<"dst">>, <<>>)
FillLogNormal  == Update(<<"dst">>, <<"dst">>, <<>>)
FillUniformU32 == Update(<<"dst">>, <<"dst">>, <<>>)

\* Poisson, exponential, beta, Cauchy, gamma and discrete are not wired.
FillOther    == RefuseAll({"dst"})
FillDiscrete == RefuseAll({"dst", "weights"})

\* SetSeed and SetGenerator answer from the handler.
Configure == Prepare \o Answer

RngRequests ==
    [fill_uniform |-> Boxed("rng", FillUniform), fill_normal |-> Boxed("rng", FillNormal),
     fill_log_normal |-> Boxed("rng", FillLogNormal),
     fill_uniform_u32 |-> Inline("rng", FillUniformU32),
     fill_other |-> Boxed("rng", FillOther),
     fill_discrete |-> Boxed("rng", FillDiscrete), rng_configure |-> Inline("rng", Configure)]

-----------------------------------------------------------------------------
(* cuDNN, kernel/cudnn: every request builds its graph specification on
   demand and answers that the frontend is not wired. *)

ConvFwd == RefuseAll({"x", "w", "y", "bias"})
ConvBwdData == RefuseAll({"dy", "w", "dx"})
ConvBwdFilter == RefuseAll({"x", "dy", "dw"})
PoolFwd == RefuseAll({"x", "y"})
PoolBwd == RefuseAll({"x", "y", "dy", "dx"})
ActivationFwd == RefuseAll({"x", "y"})
SoftmaxFwd == RefuseAll({"x", "y"})
DropoutFwd == RefuseAll({"x", "y", "mask"})
LrnFwd == RefuseAll({"x", "y"})
BatchNorm ==
    RefuseAll({"x", "y", "scale", "bias", "running_mean", "running_var", "saved_mean",
               "saved_var"})
LayerNorm == RefuseAll({"x", "y", "scale", "bias", "saved_mean", "saved_var"})
InstanceNorm == RefuseAll({"x", "y", "scale", "bias", "saved_mean", "saved_var"})
GroupNorm == RefuseAll({"x", "y", "scale", "bias", "saved_mean", "saved_var"})
NormBwd == RefuseAll({"x", "dy", "scale", "mean", "var", "dx", "dscale", "dbias"})
RnnFwd == RefuseAll({"x", "h_in", "c_in", "weights", "y", "h_out", "c_out"})
RnnBwd ==
    RefuseAll({"x", "y", "dy", "h_in", "c_in", "h_out", "c_out", "dh_out", "dc_out", "weights",
               "dx", "dh_in", "dc_in", "dweights"})
MultiHeadAttnFwd == RefuseAll({"q", "k", "v", "o", "stats", "bias"})
MultiHeadAttnBwd == RefuseAll({"q", "k", "v", "o", "do", "dq", "dk", "dv", "stats"})

\* CudnnActor::handle; the deprecated messages are refused too.
CudnnLegacy == RefuseAll({"x", "w", "y"})

CudnnRequests ==
    [conv_fwd |-> Boxed("cudnn", ConvFwd), conv_bwd_data |-> Boxed("cudnn", ConvBwdData),
     conv_bwd_filter |-> Boxed("cudnn", ConvBwdFilter), pool_fwd |-> Boxed("cudnn", PoolFwd),
     pool_bwd |-> Boxed("cudnn", PoolBwd), activation_fwd |-> Boxed("cudnn", ActivationFwd),
     softmax_fwd |-> Boxed("cudnn", SoftmaxFwd), dropout_fwd |-> Boxed("cudnn", DropoutFwd),
     lrn_fwd |-> Boxed("cudnn", LrnFwd), batch_norm |-> Boxed("cudnn", BatchNorm),
     layer_norm |-> Boxed("cudnn", LayerNorm), instance_norm |-> Boxed("cudnn", InstanceNorm),
     group_norm |-> Boxed("cudnn", GroupNorm), norm_bwd |-> Boxed("cudnn", NormBwd),
     rnn_fwd |-> Boxed("cudnn", RnnFwd), rnn_bwd |-> Boxed("cudnn", RnnBwd),
     mha_fwd |-> Boxed("cudnn", MultiHeadAttnFwd), mha_bwd |-> Boxed("cudnn", MultiHeadAttnBwd),
     cudnn_legacy |-> Inline("cudnn", CudnnLegacy)]
=============================================================================
