---------------------------- MODULE CompiledOps ----------------------------
(***************************************************************************)
(* The requests of NvrtcActor, and the work CubActor makes of its own: a    *)
(* CUB request becomes a task that has its kernels compiled and then        *)
(* launches them through NvrtcActor, one after the other was answered.      *)
(*                                                                          *)
(* Scratch buffers are left out: nobody but the task has them.              *)
(***************************************************************************)
EXTENDS KernelSteps

\* handle_compile: the caches are looked up, the source compiled, the module
\* and the function loaded.
NvrtcCompile == Prepare \o Answer

\* handle_launch: the handle's generation, then every device slice.  No write is
\* recorded, whatever the kernel writes.
NvrtcLaunch(os, writes) == Prepare \o AccessAll(os) \o RunKernel(Range(os) \ writes, writes)

\* alloc_zeros on the actor's stream, in the task itself.  If the actors have
\* stopped the task ends here rather than with the launch that follows.
CubScratch == Prepare \o Answer

NvrtcRequests ==
    [nvrtc_compile |-> Inline("nvrtc", NvrtcCompile),
     nvrtc_compile_async |-> Inline("blocking_thread", NvrtcCompile),
     nvrtc_launch |-> Inline("nvrtc", NvrtcLaunch(<<"arg1", "arg2">>, {"arg2"}))]

\* The launches of the CUB families.
CubRequests ==
    [cub_scratch |-> Inline("cub_task", CubScratch),
     cub_reduce_main |-> Inline("nvrtc", NvrtcLaunch(<<"input">>, {})),
     cub_reduce_finalize |-> Inline("nvrtc", NvrtcLaunch(<<"output">>, {"output"})),
     cub_scan_main |-> Inline("nvrtc", NvrtcLaunch(<<"input", "output">>, {"output"})),
     cub_scan_block_sums |-> Inline("nvrtc", NvrtcLaunch(<<>>, {})),
     cub_scan_fixup |-> Inline("nvrtc", NvrtcLaunch(<<"output">>, {"output"})),
     cub_sort_keys |-> Inline("nvrtc", NvrtcLaunch(<<"keys_in", "keys_out">>, {"keys_out"})),
     cub_sort_pairs |->
        Inline("nvrtc", NvrtcLaunch(<<"keys_in", "keys_out", "values_in", "values_out">>, {"keys_out", "values_out"})),
     cub_histogram |-> Inline("nvrtc", NvrtcLaunch(<<"input", "bins">>, {"bins"})),
     cub_select_flagged |->
        Inline("nvrtc", NvrtcLaunch(<<"input", "flags", "output", "num_selected">>, {"output", "num_selected"})),
     cub_select_unique |->
        Inline("nvrtc", NvrtcLaunch(<<"input", "output", "num_selected">>, {"output", "num_selected"})),
     cub_partition |->
        Inline("nvrtc", NvrtcLaunch(<<"input", "flags", "output", "num_selected">>, {"output", "num_selected"})),
     cub_segmented_reduce |->
        Inline("nvrtc", NvrtcLaunch(<<"input", "output", "begin_offsets", "end_offsets">>, {"output"}))]

-----------------------------------------------------------------------------
(* The requests each task makes.  The first `misses` of its kernels are not
   in the actor's kernel_cache and have to be compiled. *)

\* compile_or_get_handle
CompileOrGet(misses) == [i \in 1 .. misses |-> "nvrtc_compile_async"]

CubReduce(misses) ==
    CompileOrGet(misses) \o <<"cub_scratch", "cub_reduce_main", "cub_reduce_finalize">>
CubScan(misses) ==
    CompileOrGet(misses)
    \o <<"cub_scratch", "cub_scan_main", "cub_scan_block_sums", "cub_scan_fixup">>
CubSort(misses, paired) ==
    CompileOrGet(misses) \o <<IF paired THEN "cub_sort_pairs" ELSE "cub_sort_keys">>
CubHistogram(misses) == CompileOrGet(misses) \o <<"cub_histogram">>
CubSelect(misses, flagged) ==
    CompileOrGet(misses) \o <<IF flagged THEN "cub_select_flagged" ELSE "cub_select_unique">>
CubPartition(misses) == CompileOrGet(misses) \o <<"cub_partition">>
CubSegmentedReduce(misses) == CompileOrGet(misses) \o <<"cub_segmented_reduce">>
=============================================================================
