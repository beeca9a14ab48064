----------------------- MODULE MCActionTransactions -----------------------
(***************************************************************************)
(* Three transactions of two actions, one of which may be repeated, for    *)
(* one principal; dispatches nest two deep.                                *)
(***************************************************************************)
EXTENDS ActionTransactions, TLC

CONSTANTS t1, t2, t3

AnyTransaction == Permutations(Txs)
=============================================================================
