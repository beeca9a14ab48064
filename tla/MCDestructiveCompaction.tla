---------------------- MODULE MCDestructiveCompaction ----------------------
(***************************************************************************)
(* A kernel, and another caller of the coordinator.  Two compactions of    *)
(* three representations: the second competes with the first for its       *)
(* source, for its target or with another content, carries on from where   *)
(* the first ended, or leads back.                                         *)
(***************************************************************************)
EXTENDS DestructiveCompaction, TLC

CONSTANTS w, kernel, other, c1, c2, S, T, U, x, y

Request(id, source, target, content) ==
  [id |-> id, source |-> source, target |-> target, content |-> content]

MCRequests ==
  {Request(c1, S, T, x), Request(c2, S, U, x), Request(c2, S, T, y),
   Request(c2, T, U, x), Request(c2, T, S, x)}
=============================================================================
