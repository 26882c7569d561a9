----------------------------- MODULE PyMethods -----------------------------
(***************************************************************************)
(* Who calls the kernel libraries: the methods of the Python classes Device,*)
(* Blas, Solver, Rng, Cudnn, Fft and NvrtcKernel, the tasks of CubActor, and*)
(* Rust code with an ActorRef.                                              *)
(*                                                                          *)
(* A method clones the GpuRefs of its buffers, parses its options, tells    *)
(* the actor and waits for the oneshot channel; the f32 and the f64 form    *)
(* differ in the type only.  The plain form blocks the thread with the GIL  *)
(* released, the _async form returns a coroutine.                           *)
(***************************************************************************)
EXTENDS BlasOps, SolverOps, TransformOps, CollectiveOps, CompiledOps, TLC

\* asks: the requests, each sent after the one before was answered.
\* checks: an option or a length may be refused before anything is sent.
\* holds: the caller's frame keeps all operands until the method returns.
\* keeps: if not all, those it keeps; the others move into the last request.
\* bounded: the wait is under tokio::time::timeout.
Caller(asks, checks, holds, bounded) ==
    [asks |-> asks, checks |-> checks, holds |-> holds, keeps |-> {}, bounded |-> bounded]

Method(r, checks)      == Caller(<<r>>, checks, TRUE, TRUE)
AsyncMethod(r, checks) == Caller(<<r>>, checks, FALSE, TRUE)

\* Rust code moves its GpuRefs into the request and awaits the receiver.
Direct(r) == Caller(<<r>>, FALSE, FALSE, FALSE)

\* The numpy methods of Fft go through device buffers of their own.
HostMethod ==
    Caller(<<"alloc", "alloc", "copy_from_host", "fft_exec", "copy_to_host">>, TRUE, TRUE, TRUE)

\* A task of CubActor; without NvrtcActor, or beyond one tile, it is not begun.
CubTask(asks, keeps) == [Caller(asks, TRUE, FALSE, FALSE) EXCEPT !.keeps = keeps]

-----------------------------------------------------------------------------
(* PyDevice, py/src/device.rs; one method per element type *)

AskAlloc       == Method("alloc", FALSE)
AskAllocAsync  == AsyncMethod("alloc", FALSE)

\* The array must be contiguous and as long as the buffer.
CopyFromNumpyTyped        == Method("copy_from_host", TRUE)
CopyFromNumpyComplexTyped == Method("copy_from_host", TRUE)
CopyFromNumpyAsyncTyped   == AsyncMethod("copy_from_host", TRUE)
CopyToNumpyWith           == Method("copy_to_host", FALSE)
CopyToNumpyComplexWith    == Method("copy_to_host", FALSE)
CopyToNumpyAsyncWith      == AsyncMethod("copy_to_host", FALSE)

DeviceAllocate             == AskAlloc
DeviceAllocateAsync        == AskAllocAsync
DeviceCopyFromNumpy        == CopyFromNumpyTyped
DeviceCopyFromNumpyComplex == CopyFromNumpyComplexTyped
DeviceCopyFromNumpyAsync   == CopyFromNumpyAsyncTyped
DeviceCopyToNumpy          == CopyToNumpyWith
DeviceCopyToNumpyComplex   == CopyToNumpyComplexWith
DeviceCopyToNumpyAsync     == CopyToNumpyAsyncWith
DeviceSgemm                == Method("sgemm", FALSE)
DeviceSgemmAsync           == AsyncMethod("sgemm", FALSE)
DeviceStats                == Method("stats", FALSE)
DeviceStatsAsync           == AsyncMethod("stats", FALSE)
SnapshotStream             == Method("snapshot_stream", FALSE)
SnapshotChildren           == Method("snapshot_children", FALSE)

\* The handle of a library: its ActorRef, if the context has one.
DeviceLibrary == SnapshotChildren

\* The coroutine asks for the children before it is returned.
DeviceCompileKernel      == Caller(<<"snapshot_children", "nvrtc_compile">>, FALSE, FALSE, TRUE)
DeviceCompileKernelAsync == Caller(<<"snapshot_children", "nvrtc_compile">>, FALSE, FALSE, TRUE)

DeviceMethods ==
    [device_allocate |-> DeviceAllocate, device_allocate_async |-> DeviceAllocateAsync,
     device_copy_from_numpy |-> DeviceCopyFromNumpy,
     device_copy_from_numpy_complex |-> DeviceCopyFromNumpyComplex,
     device_copy_from_numpy_async |-> DeviceCopyFromNumpyAsync,
     device_copy_to_numpy |-> DeviceCopyToNumpy,
     device_copy_to_numpy_complex |-> DeviceCopyToNumpyComplex,
     device_copy_to_numpy_async |-> DeviceCopyToNumpyAsync, device_sgemm |-> DeviceSgemm,
     device_sgemm_async |-> DeviceSgemmAsync, device_stats |-> DeviceStats,
     device_stats_async |-> DeviceStatsAsync, device_stream |-> SnapshotStream,
     device_library |-> DeviceLibrary, device_compile_kernel |-> DeviceCompileKernel,
     device_compile_kernel_async |-> DeviceCompileKernelAsync]

-----------------------------------------------------------------------------
(* PyNvrtcKernel, py/src/nvrtc.rs *)

\* take_kernel_arg: an argument is good for one launch and gives its buffer up.
NvrtcLaunchMethod      == Caller(<<"nvrtc_launch">>, TRUE, FALSE, TRUE)
NvrtcLaunchMethodAsync == AsyncMethod("nvrtc_launch", TRUE)

NvrtcMethods ==
    [nvrtc_kernel_launch |-> NvrtcLaunchMethod, nvrtc_kernel_launch_async |-> NvrtcLaunchMethodAsync]

-----------------------------------------------------------------------------
(* CubActor: nothing is cached, or everything is. *)

CubTasks ==
    [cub_reduce_cold |-> CubTask(CubReduce(2), {"input", "output"}),
     cub_reduce_warm |-> CubTask(CubReduce(0), {"input", "output"}),
     cub_scan_cold |-> CubTask(CubScan(3), {"input"}),
     cub_scan_warm |-> CubTask(CubScan(0), {"input"}),
     cub_sort_keys_cold |-> CubTask(CubSort(1, FALSE), {}),
     cub_sort_keys_warm |-> CubTask(CubSort(0, FALSE), {}),
     cub_sort_pairs_cold |-> CubTask(CubSort(1, TRUE), {}),
     cub_sort_pairs_warm |-> CubTask(CubSort(0, TRUE), {}),
     cub_histogram_cold |-> CubTask(CubHistogram(1), {}),
     cub_histogram_warm |-> CubTask(CubHistogram(0), {}),
     cub_select_flagged_cold |-> CubTask(CubSelect(1, TRUE), {}),
     cub_select_unique_cold |-> CubTask(CubSelect(1, FALSE), {}),
     cub_select_unique_warm |-> CubTask(CubSelect(0, FALSE), {}),
     cub_partition_cold |-> CubTask(CubPartition(1), {}),
     cub_segmented_reduce_cold |-> CubTask(CubSegmentedReduce(1), {})]

-----------------------------------------------------------------------------
(* PyBlas, py/src/blas.rs *)

BlasGemm                    == Method("gemm", TRUE)
BlasGemmAsync               == AsyncMethod("gemm", TRUE)
BlasGemmStridedBatched      == Method("gemm_strided_batched", TRUE)
BlasGemmStridedBatchedAsync == AsyncMethod("gemm_strided_batched", TRUE)
BlasAxpy                    == Method("axpy", FALSE)
BlasAxpyAsync               == AsyncMethod("axpy", FALSE)
BlasDot                     == Method("dot", FALSE)
BlasDotAsync                == AsyncMethod("dot", FALSE)
BlasNrm2                    == Method("nrm2", FALSE)
BlasNrm2Async               == AsyncMethod("nrm2", FALSE)
BlasScal                    == Method("scal", FALSE)
BlasScalAsync               == AsyncMethod("scal", FALSE)
BlasAsum                    == Method("asum", FALSE)
BlasAsumAsync               == AsyncMethod("asum", FALSE)
BlasIamax                   == Method("iamax", FALSE)
BlasIamaxAsync              == AsyncMethod("iamax", FALSE)
BlasIamin                   == Method("iamin", FALSE)
BlasIaminAsync              == AsyncMethod("iamin", FALSE)
BlasCopy                    == Method("copy", FALSE)
BlasCopyAsync               == AsyncMethod("copy", FALSE)
BlasSwap                    == Method("swap", FALSE)
BlasSwapAsync               == AsyncMethod("swap", FALSE)
BlasRot                     == Method("rot", FALSE)
BlasRotAsync                == AsyncMethod("rot", FALSE)
BlasGemv                    == Method("gemv", TRUE)
BlasGemvAsync               == AsyncMethod("gemv", TRUE)
BlasGer                     == Method("ger", FALSE)
BlasGerAsync                == AsyncMethod("ger", FALSE)
BlasGeam                    == Method("geam", TRUE)
BlasGeamAsync               == AsyncMethod("geam", TRUE)
BlasSyrk                    == Method("syrk", TRUE)
BlasSyrkAsync               == AsyncMethod("syrk", TRUE)
BlasTrsm                    == Method("trsm", TRUE)
BlasTrsmAsync               == AsyncMethod("trsm", TRUE)

BlasMethods ==
    [blas_gemm |-> BlasGemm, blas_gemm_strided_batched |-> BlasGemmStridedBatched,
     blas_axpy |-> BlasAxpy, blas_dot |-> BlasDot, blas_nrm2 |-> BlasNrm2,
     blas_scal |-> BlasScal, blas_asum |-> BlasAsum, blas_iamax |-> BlasIamax,
     blas_iamin |-> BlasIamin, blas_copy |-> BlasCopy, blas_swap |-> BlasSwap,
     blas_rot |-> BlasRot, blas_gemv |-> BlasGemv, blas_ger |-> BlasGer,
     blas_geam |-> BlasGeam, blas_syrk |-> BlasSyrk, blas_trsm |-> BlasTrsm,
     blas_gemm_async |-> BlasGemmAsync,
     blas_gemm_strided_batched_async |-> BlasGemmStridedBatchedAsync,
     blas_axpy_async |-> BlasAxpyAsync, blas_dot_async |-> BlasDotAsync,
     blas_nrm2_async |-> BlasNrm2Async, blas_scal_async |-> BlasScalAsync,
     blas_asum_async |-> BlasAsumAsync, blas_iamax_async |-> BlasIamaxAsync,
     blas_iamin_async |-> BlasIaminAsync, blas_copy_async |-> BlasCopyAsync,
     blas_swap_async |-> BlasSwapAsync, blas_rot_async |-> BlasRotAsync,
     blas_gemv_async |-> BlasGemvAsync, blas_ger_async |-> BlasGerAsync,
     blas_geam_async |-> BlasGeamAsync, blas_syrk_async |-> BlasSyrkAsync,
     blas_trsm_async |-> BlasTrsmAsync]

-----------------------------------------------------------------------------
(* PySolver, py/src/solver.rs *)

SolverLu            == Method("lu", FALSE)
SolverLuSolve       == Method("lu_solve", FALSE)
SolverCholesky      == Method("cholesky", TRUE)
SolverQr            == Method("qr", FALSE)
SolverSvd           == Method("svd_vectors", FALSE)
SolverEigh          == Method("syevd", TRUE)
SolverGetrfBatched  == Method("getrf_batched", TRUE)
SolverPotrfBatched  == Method("potrf_batched", TRUE)
SolverGesvdjBatched == Method("gesvdj_batched_vectors", FALSE)

SolverMethods ==
    [solver_lu |-> SolverLu, solver_lu_solve |-> SolverLuSolve,
     solver_cholesky |-> SolverCholesky, solver_qr |-> SolverQr, solver_svd |-> SolverSvd,
     solver_eigh |-> SolverEigh, solver_getrf_batched |-> SolverGetrfBatched,
     solver_potrf_batched |-> SolverPotrfBatched,
     solver_gesvdj_batched |-> SolverGesvdjBatched]

-----------------------------------------------------------------------------
(* PyRng, py/src/rng.rs *)

RngSetSeed           == Method("rng_configure", FALSE)
RngSetSeedAsync      == AsyncMethod("rng_configure", FALSE)
RngSetGenerator      == Method("rng_configure", TRUE)
RngSetGeneratorAsync == AsyncMethod("rng_configure", TRUE)
RngUniform           == Method("fill_uniform", FALSE)
RngUniformAsync      == AsyncMethod("fill_uniform", FALSE)
RngNormal            == Method("fill_normal", FALSE)
RngNormalAsync       == AsyncMethod("fill_normal", FALSE)
RngLogNormal         == Method("fill_log_normal", FALSE)
RngLogNormalAsync    == AsyncMethod("fill_log_normal", FALSE)
RngPoisson           == Method("fill_other", FALSE)
RngPoissonAsync      == AsyncMethod("fill_other", FALSE)
RngExponential       == Method("fill_other", FALSE)
RngExponentialAsync  == AsyncMethod("fill_other", FALSE)
RngBeta              == Method("fill_other", FALSE)
RngBetaAsync         == AsyncMethod("fill_other", FALSE)
RngCauchy            == Method("fill_other", FALSE)
RngCauchyAsync       == AsyncMethod("fill_other", FALSE)
RngGamma             == Method("fill_other", FALSE)
RngGammaAsync        == AsyncMethod("fill_other", FALSE)
RngDiscrete          == Method("fill_discrete", FALSE)
RngDiscreteAsync     == AsyncMethod("fill_discrete", FALSE)
RngUniformU32        == Method("fill_uniform_u32", FALSE)
RngUniformU32Async   == AsyncMethod("fill_uniform_u32", FALSE)

RngMethods ==
    [rng_set_seed |-> RngSetSeed, rng_set_generator |-> RngSetGenerator,
     rng_uniform |-> RngUniform, rng_normal |-> RngNormal, rng_log_normal |-> RngLogNormal,
     rng_poisson |-> RngPoisson, rng_exponential |-> RngExponential, rng_beta |-> RngBeta,
     rng_cauchy |-> RngCauchy, rng_gamma |-> RngGamma, rng_discrete |-> RngDiscrete,
     rng_uniform_u32 |-> RngUniformU32, rng_set_seed_async |-> RngSetSeedAsync,
     rng_set_generator_async |-> RngSetGeneratorAsync,
     rng_uniform_async |-> RngUniformAsync, rng_normal_async |-> RngNormalAsync,
     rng_log_normal_async |-> RngLogNormalAsync, rng_poisson_async |-> RngPoissonAsync,
     rng_exponential_async |-> RngExponentialAsync, rng_beta_async |-> RngBetaAsync,
     rng_cauchy_async |-> RngCauchyAsync, rng_gamma_async |-> RngGammaAsync,
     rng_discrete_async |-> RngDiscreteAsync, rng_uniform_u32_async |-> RngUniformU32Async]

-----------------------------------------------------------------------------
(* PyCudnn, py/src/cudnn.rs *)

CudnnConv2dFwd             == Method("conv_fwd", FALSE)
CudnnConv2dFwdAsync        == AsyncMethod("conv_fwd", FALSE)
CudnnConv2dBwdData         == Method("conv_bwd_data", FALSE)
CudnnConv2dBwdDataAsync    == AsyncMethod("conv_bwd_data", FALSE)
CudnnConv2dBwdFilter       == Method("conv_bwd_filter", FALSE)
CudnnConv2dBwdFilterAsync  == AsyncMethod("conv_bwd_filter", FALSE)
CudnnPool2dFwd             == Method("pool_fwd", TRUE)
CudnnPool2dFwdAsync        == AsyncMethod("pool_fwd", TRUE)
CudnnPool2dBwd             == Method("pool_bwd", TRUE)
CudnnPool2dBwdAsync        == AsyncMethod("pool_bwd", TRUE)
CudnnSoftmaxFwd            == Method("softmax_fwd", TRUE)
CudnnSoftmaxFwdAsync       == AsyncMethod("softmax_fwd", TRUE)
CudnnActivationFwd         == Method("activation_fwd", TRUE)
CudnnActivationFwdAsync    == AsyncMethod("activation_fwd", TRUE)
CudnnBatchNorm             == Method("batch_norm", TRUE)
CudnnBatchNormAsync        == AsyncMethod("batch_norm", TRUE)
CudnnLayerNorm             == Method("layer_norm", FALSE)
CudnnLayerNormAsync        == AsyncMethod("layer_norm", FALSE)
CudnnInstanceNorm          == Method("instance_norm", FALSE)
CudnnInstanceNormAsync     == AsyncMethod("instance_norm", FALSE)
CudnnGroupNorm             == Method("group_norm", FALSE)
CudnnGroupNormAsync        == AsyncMethod("group_norm", FALSE)
CudnnNormBwd               == Method("norm_bwd", TRUE)
CudnnNormBwdAsync          == AsyncMethod("norm_bwd", TRUE)
CudnnDropoutFwd            == Method("dropout_fwd", FALSE)
CudnnDropoutFwdAsync       == AsyncMethod("dropout_fwd", FALSE)
CudnnLrnFwd                == Method("lrn_fwd", FALSE)
CudnnLrnFwdAsync           == AsyncMethod("lrn_fwd", FALSE)
CudnnRnnFwd                == Method("rnn_fwd", TRUE)
CudnnRnnFwdAsync           == AsyncMethod("rnn_fwd", TRUE)
CudnnRnnBwd                == Method("rnn_bwd", TRUE)
CudnnMultiheadAttnFwd      == Method("mha_fwd", TRUE)
CudnnMultiheadAttnFwdAsync == AsyncMethod("mha_fwd", TRUE)
CudnnMultiheadAttnBwd      == Method("mha_bwd", TRUE)

CudnnMethods ==
    [cudnn_conv2d_fwd |-> CudnnConv2dFwd, cudnn_conv2d_bwd_data |-> CudnnConv2dBwdData,
     cudnn_conv2d_bwd_filter |-> CudnnConv2dBwdFilter, cudnn_pool2d_fwd |-> CudnnPool2dFwd,
     cudnn_pool2d_bwd |-> CudnnPool2dBwd, cudnn_softmax_fwd |-> CudnnSoftmaxFwd,
     cudnn_activation_fwd |-> CudnnActivationFwd, cudnn_batch_norm |-> CudnnBatchNorm,
     cudnn_layer_norm |-> CudnnLayerNorm, cudnn_instance_norm |-> CudnnInstanceNorm,
     cudnn_group_norm |-> CudnnGroupNorm, cudnn_norm_bwd |-> CudnnNormBwd,
     cudnn_dropout_fwd |-> CudnnDropoutFwd, cudnn_lrn_fwd |-> CudnnLrnFwd,
     cudnn_rnn_fwd |-> CudnnRnnFwd, cudnn_rnn_bwd |-> CudnnRnnBwd,
     cudnn_multihead_attn_fwd |-> CudnnMultiheadAttnFwd,
     cudnn_multihead_attn_bwd |-> CudnnMultiheadAttnBwd,
     cudnn_conv2d_fwd_async |-> CudnnConv2dFwdAsync,
     cudnn_conv2d_bwd_data_async |-> CudnnConv2dBwdDataAsync,
     cudnn_conv2d_bwd_filter_async |-> CudnnConv2dBwdFilterAsync,
     cudnn_pool2d_fwd_async |-> CudnnPool2dFwdAsync,
     cudnn_pool2d_bwd_async |-> CudnnPool2dBwdAsync,
     cudnn_softmax_fwd_async |-> CudnnSoftmaxFwdAsync,
     cudnn_activation_fwd_async |-> CudnnActivationFwdAsync,
     cudnn_batch_norm_async |-> CudnnBatchNormAsync,
     cudnn_layer_norm_async |-> CudnnLayerNormAsync,
     cudnn_instance_norm_async |-> CudnnInstanceNormAsync,
     cudnn_group_norm_async |-> CudnnGroupNormAsync,
     cudnn_norm_bwd_async |-> CudnnNormBwdAsync,
     cudnn_dropout_fwd_async |-> CudnnDropoutFwdAsync,
     cudnn_lrn_fwd_async |-> CudnnLrnFwdAsync, cudnn_rnn_fwd_async |-> CudnnRnnFwdAsync,
     cudnn_multihead_attn_fwd_async |-> CudnnMultiheadAttnFwdAsync]

-----------------------------------------------------------------------------
(* PyFft, py/src/fft.rs *)

FftForward1dR2C == HostMethod
FftInverse1dC2R == HostMethod
FftExec1dC2C    == HostMethod
FftForward2dR2C == HostMethod

\* On device buffers; without an output buffer C2C is in place.
FftExecTypedF32    == Method("fft_exec", TRUE)
FftExecTypedF64    == Method("fft_exec", TRUE)
FftExecPlanManyF32 == Method("fft_exec", TRUE)
FftExecPlanManyF64 == Method("fft_exec", TRUE)

FftMethods ==
    [fft_forward_1d_r2c |-> FftForward1dR2C, fft_inverse_1d_c2r |-> FftInverse1dC2R,
     fft_exec_1d_c2c |-> FftExec1dC2C, fft_forward_2d_r2c |-> FftForward2dR2C,
     fft_exec_typed_f32 |-> FftExecTypedF32, fft_exec_typed_f64 |-> FftExecTypedF64,
     fft_exec_plan_many_f32 |-> FftExecPlanManyF32,
     fft_exec_plan_many_f64 |-> FftExecPlanManyF64]

-----------------------------------------------------------------------------
Requests ==
    BlasRequests @@ BlasLtRequests @@ SolverRequests @@ SparseRequests @@ TensorRequests
    @@ DeviceRequests @@ FftRequests @@ RngRequests @@ CudnnRequests @@ CollectiveRequests
    @@ NvrtcRequests @@ CubRequests

Entries ==
    DeviceMethods @@ BlasMethods @@ SolverMethods @@ RngMethods @@ CudnnMethods @@ FftMethods
    @@ NvrtcMethods @@ CubTasks
    @@ [r \in DOMAIN Requests |-> Direct(r)]

\* The operands of all the requests of an entry.
EntryOperands ==
    [e \in DOMAIN Entries |->
        UNION {Requests[Entries[e].asks[i]].refs : i \in DOMAIN Entries[e].asks}]
=============================================================================
