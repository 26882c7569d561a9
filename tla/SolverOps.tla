------------------------------ MODULE SolverOps ------------------------------
(***************************************************************************)
(* The requests of SolverActor, SparseActor and TensorActor.                *)
(*                                                                          *)
(* Their closures also read the info array back and synchronise the stream; *)
(* the workspaces belong to the actor.  Every one of these handlers unwraps *)
(* an output before it gets that far.                                       *)
(***************************************************************************)
EXTENDS KernelSteps

\* The library is asked for the size of its workspace, which is then grown.
Workspace == Prepare \o Prepare

\* What a handler with only outputs does once its operands are its own.
RecordAndRun(os) == RecordAll(os) \o RunKernel({}, Range(os))

-----------------------------------------------------------------------------
(* cuSOLVER, kernel/solver *)

Qr       == Update(<<"a", "tau">>, <<"a", "tau">>, Workspace)
Lu       == Update(<<"a", "ipiv">>, <<"a", "ipiv">>, Workspace)
LuSolve  == Update(<<"lu", "ipiv", "b">>, <<"b">>, <<>>)
Cholesky == Update(<<"a">>, <<"a">>, Workspace)

\* u and vt are optional and looked at after a and s were unwrapped.
SvdLaunch(os) == Workspace \o RecordAndRun(os)
Svd == AccessAll(<<"a", "s">>) \o TakeAll(<<"a", "s">>) \o SvdLaunch(<<"a", "s">>)
SvdVectors ==
    AccessAll(<<"a", "s">>) \o TakeAll(<<"a", "s">>)
    \o AccessAll(<<"u", "vt">>) \o TakeAll(<<"u", "vt">>)
    \o SvdLaunch(<<"a", "s", "u", "vt">>)
Syevd == Update(<<"a", "w">>, <<"a", "w">>, Workspace)
Sygvd == Update(<<"a", "b", "w">>, <<"a", "b", "w">>, Workspace)

\* The addresses of the matrices, uploaded for the batched routines.
PointerTable == Prepare

\* A cuBLAS handle, the table of pointers and the info array.
GetrfBatched ==
    Update(<<"a", "ipiv">>, <<"a", "ipiv">>, Prepare \o PointerTable \o Prepare)
PotrfBatched == Update(<<"a">>, <<"a">>, PointerTable \o Prepare)

\* The gesvdj parameters and the info array, then the workspace.
GesvdjLaunch(os) == Prepare \o Prepare \o Workspace \o RecordAndRun(os)
GesvdjBatched ==
    AccessAll(<<"a", "s">>) \o TakeAll(<<"a", "s">>) \o GesvdjLaunch(<<"a", "s">>)
GesvdjBatchedVectors ==
    AccessAll(<<"a", "s">>) \o TakeAll(<<"a", "s">>)
    \o <<Access("u"), Take("u"), Access("v"), Take("v")>>
    \o GesvdjLaunch(<<"a", "s", "u", "v">>)

\* csrlsvchol and csrlsvqr: the sparse handle, then the matrix descriptor.
SparseHandle == Prepare
MatDescr == Prepare
Csrlsv ==
    SparseHandle
    \o Update(<<"row_ptr", "col_ind", "values", "b", "x">>, <<"x">>, MatDescr)
SparseLu == RefuseAll({"row_ptr", "col_ind", "values", "b", "x"})

\* dispatch_msg and mock_reply: in mock mode every request is answered.
SolverRequests ==
    [qr |-> Inline("solver", Qr), lu |-> Inline("solver", Lu),
     lu_solve |-> Inline("solver", LuSolve), cholesky |-> Inline("solver", Cholesky),
     svd |-> Inline("solver", Svd), svd_vectors |-> Inline("solver", SvdVectors),
     syevd |-> Inline("solver", Syevd), sygvd |-> Inline("solver", Sygvd),
     getrf_batched |-> Inline("solver", GetrfBatched),
     potrf_batched |-> Inline("solver", PotrfBatched),
     gesvdj_batched |-> Inline("solver", GesvdjBatched),
     gesvdj_batched_vectors |-> Inline("solver", GesvdjBatchedVectors),
     csrlsv |-> Inline("solver", Csrlsv), sparse_lu |-> Inline("solver", SparseLu)]

-----------------------------------------------------------------------------
(* cuSPARSE, kernel/sparse *)

\* Matrix, input and result descriptors and the buffer size, each with an
\* error reply of its own, then the workspace.
VecDescriptors == Prepare \o Prepare \o Prepare \o Prepare \o Prepare
MatDescriptors == Prepare \o Prepare \o Prepare \o Prepare \o Prepare
Csr == <<"row_offsets", "col_indices", "values">>
SpMvLaunch == RecordAll(<<"y">>) \o RunKernel(Range(Csr) \cup {"x"}, {"y"})
SpMmLaunch == RecordAll(<<"c">>) \o RunKernel(Range(Csr) \cup {"b"}, {"c"})
SpMv == AccessAll(Csr \o <<"x", "y">>) \o TakeAll(<<"y">>) \o VecDescriptors \o SpMvLaunch
SpMm == AccessAll(Csr \o <<"b", "c">>) \o TakeAll(<<"c">>) \o MatDescriptors \o SpMmLaunch

\* The typed requests look at their operands, ignore what they see and refuse.
TypedSpMv    == RefuseAll({"matrix", "x", "y"})
TypedSpMm    == RefuseAll({"matrix", "b", "c"})
TypedSpGemm  == RefuseAll({"a", "b", "c"})
TypedSpSv    == RefuseAll({"matrix", "x", "y"})
TypedSddmm   == RefuseAll({"a", "b", "c"})
TypedConvert == RefuseAll({"dense", "sparse"})

SparseRequests ==
    [spmv |-> Inline("sparse", SpMv), spmm |-> Inline("sparse", SpMm),
     spmv_typed |-> Boxed("sparse", TypedSpMv), spmm_typed |-> Boxed("sparse", TypedSpMm),
     spgemm |-> Boxed("sparse", TypedSpGemm), spsv |-> Boxed("sparse", TypedSpSv),
     sddmm |-> Boxed("sparse", TypedSddmm), convert |-> Boxed("sparse", TypedConvert)]

-----------------------------------------------------------------------------
(* cuTENSOR, kernel/tensor: extents against modes, then the plan from the
   cache or from the library, then the workspace. *)

Contract ==
    Prepare \o Prepare \o Prepare \o Update(<<"a", "b", "c">>, <<"c">>, Prepare \o Prepare)
ElementwiseBinary  == Prepare \o Update(<<"a", "c", "d">>, <<"d">>, Prepare)
ElementwiseTrinary == Prepare \o Update(<<"a", "b", "c", "d">>, <<"d">>, Prepare)
Permutation        == Prepare \o Update(<<"a", "b">>, <<"b">>, Prepare)
Reduction ==
    Prepare \o Prepare \o Update(<<"a", "c">>, <<"c">>, Prepare \o Prepare)

TensorRequests ==
    [contract |-> Inline("tensor", Contract),
     elementwise_binary |-> Inline("tensor", ElementwiseBinary),
     elementwise_trinary |-> Inline("tensor", ElementwiseTrinary),
     permutation |-> Inline("tensor", Permutation),
     reduction |-> Inline("tensor", Reduction)]
=============================================================================
