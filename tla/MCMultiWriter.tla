--------------------------- MODULE MCMultiWriter ---------------------------
(***************************************************************************)
(* Two threads and two writer processes with ids of their own.  In scope   *)
(* s, e2 is an effect that excludes every other intent and n1 may be       *)
(* repeated freely.                                                        *)
(* In scope t, k1 and k2 mean the same under one key and k3 reuses the key *)
(* for something else; x1 reuses it in the scope s.                        *)
(***************************************************************************)
EXTENDS MultiWriter, TLC

CONSTANTS w1, w2, A, B, k, s, t, up, down, a1, a2

MCIdOf == (w1 :> A) @@ (w2 :> B)

Intent(id, writer, operation, idempotent, key, scope, effect) ==
  [id |-> id, writer |-> writer, operation |-> operation, idempotent |-> idempotent,
   key |-> key, scope |-> scope, effect |-> effect]

Effects == {Intent("e2", B, up, FALSE, NoKey, s, TRUE)}
Repeatable == {Intent("n1", A, down, TRUE, NoKey, s, FALSE)}
Keyed == {Intent("k1", A, up, TRUE, k, t, FALSE),
          Intent("k2", B, up, TRUE, k, t, FALSE),
          Intent("k3", B, down, TRUE, k, t, FALSE)}
Crossing == {Intent("x1", A, up, TRUE, k, s, FALSE)}

AllIntents == Effects \cup Repeatable \cup Keyed \cup Crossing

AnyThread == Permutations(Threads)
=============================================================================
