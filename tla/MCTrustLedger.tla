--------------------------- MODULE MCTrustLedger ---------------------------
(***************************************************************************)
(* Two principals; the one that acts has two attestations of one subject,  *)
(* the second of which succeeds the first, and the other has one.          *)
(***************************************************************************)
EXTENDS TrustLedger

CONSTANTS actor, sender

Attestation(p, subject, revision, until) ==
  [principal |-> p, subject |-> subject, revision |-> revision, issued |-> 1,
   until |-> until, strong |-> TRUE]

SomeAttested ==
  [a \in {"first", "second", "other"} |->
     CASE a = "first" -> Attestation(actor, "uid-7", 1, 3)
       [] a = "second" -> Attestation(actor, "uid-7", 2, 3)
       [] a = "other" -> Attestation(sender, "uid-9", 1, 3)]

SomeBound == sender :> "other"

\* A behaviour is about what is known, or about what is dispatched.
SomeLimits ==
  {[capsules |-> 1, auths |-> 0, transfers |-> TRUE, observations |-> TRUE,
    dispatches |-> FALSE],
   [capsules |-> 1, auths |-> 1, transfers |-> FALSE, observations |-> FALSE,
    dispatches |-> TRUE]}
=============================================================================
