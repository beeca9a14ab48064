------------------------- MODULE MCKernelAuthority -------------------------
(***************************************************************************)
(* Two kernels that share a store; kA has issued the one authorization.    *)
(* Either writer may be presented to either kernel; w2 is of another       *)
(* principal than the authorization's.                                     *)
(***************************************************************************)
EXTENDS KernelAuthority, TLC

CONSTANTS w1, w2, kA, kB, aA, p, q, doc

MCHomeOf == (aA :> kA)
MCPrincipalOf == (w1 :> p) @@ (w2 :> q) @@ (aA :> p)
=============================================================================
