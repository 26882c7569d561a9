------------------------------- MODULE BlasOps -------------------------------
(* The requests of BlasActor and BlasLtActor. *)
EXTENDS KernelSteps

-----------------------------------------------------------------------------
(* cuBLAS, kernel/blas *)

Axpy == Update(<<"x", "y">>, <<"y">>, <<>>)
Scal == Update(<<"x">>, <<"x">>, <<>>)
Nrm2 == AccessAll(<<"x">>) \o RunForHost({"x"})

Dot  == AccessAll(<<"x", "y">>) \o RunForHost({"x", "y"})
Asum == AccessAll(<<"x">>) \o RunForHost({"x"})

\* One body finds the largest or the smallest element.
Iamax == AccessAll(<<"x">>) \o RunForHost({"x"})
Copy  == Update(<<"x", "y">>, <<"y">>, <<>>)
Swap  == Update(<<"x", "y">>, <<"x", "y">>, <<>>)
Rot   == Update(<<"x", "y">>, <<"x", "y">>, <<>>)

Gemv == Update(<<"a", "x", "y">>, <<"y">>, <<>>)
Ger  == Update(<<"a", "x", "y">>, <<"a">>, <<>>)

Geam == Update(<<"a", "b", "c">>, <<"c">>, <<>>)
Syrk == Update(<<"a", "c">>, <<"c">>, <<>>)
Trsm == Update(<<"a", "b">>, <<"b">>, <<>>)

Gemm == Update(<<"a", "b", "c">>, <<"c">>, <<>>)
GemmStridedBatched == Update(<<"a", "b", "c">>, <<"c">>, <<>>)

\* BlasActor::handle_msg; the deprecated Sgemm is routed through Gemm.
BlasRequests ==
    [axpy |-> Boxed("blas", Axpy), scal |-> Boxed("blas", Scal),
     nrm2 |-> Boxed("blas", Nrm2), dot |-> Boxed("blas", Dot),
     asum |-> Boxed("blas", Asum), iamax |-> Boxed("blas", Iamax),
     iamin |-> Boxed("blas", Iamax), copy |-> Boxed("blas", Copy),
     swap |-> Boxed("blas", Swap), rot |-> Boxed("blas", Rot),
     gemv |-> Boxed("blas", Gemv), ger |-> Boxed("blas", Ger),
     geam |-> Boxed("blas", Geam), syrk |-> Boxed("blas", Syrk),
     trsm |-> Boxed("blas", Trsm), gemm |-> Boxed("blas", Gemm),
     gemm_strided_batched |-> Boxed("blas", GemmStridedBatched),
     sgemm |-> Inline("blas", Gemm)]

-----------------------------------------------------------------------------
(* cuBLASLt, kernel/blas_lt *)

\* dispatch_safe_path without and with a bias.
Matmul     == Update(<<"a", "b", "c">>, <<"c">>, <<>>)
MatmulBias == Update(<<"a", "b", "c", "bias">>, <<"c">>, <<>>)

\* f64 and the fp8 types have no path.
MatmulUnsupported == RefuseAll({"a", "b", "c", "bias"})

\* BlasLtActor::handle; the deprecated MatmulF32 has a copy of the safe path.
LegacyMatmul == MatmulBias

BlasLtRequests ==
    [matmul |-> Boxed("blas_lt", Matmul), matmul_bias |-> Boxed("blas_lt", MatmulBias),
     matmul_unsupported |-> Boxed("blas_lt", MatmulUnsupported),
     matmul_f32 |-> Inline("blas_lt", LegacyMatmul)]
=============================================================================
