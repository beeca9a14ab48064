------------------------- MODULE MCDispatchLineage -------------------------
(***************************************************************************)
(* Two authorizations, of one action by one grant, one proof source, one   *)
(* migration, and one regime besides the schema.                           *)
(***************************************************************************)
EXTENDS DispatchLineage, TLC

CONSTANTS u1, u2, v2

AnyAuthorization == Permutations(Auths)
=============================================================================
