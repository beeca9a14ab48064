-------------------------- MODULE MCProofAuthority --------------------------
(***************************************************************************)
(* A behaviour is about the life of one proof, whose support is simple; or *)
(* about its inputs, whatever their envelope; or about a manifest that     *)
(* names its source early; or about its support, over every graph of three *)
(* nodes.                                                                  *)
(***************************************************************************)
EXTENDS ProofAuthority

CONSTANTS left, right, middle

DomainsOfAll == [s \in Sources |-> Domains]

\* The two assurances that support a strong reuse, and one that does not.
SomeEnvelopes ==
  {[assurance |-> "full_envelope_enforced", policy |-> "deny_undeclared", mechanism |-> FALSE],
   [assurance |-> "trusted_dynamic_capture", policy |-> "capture_required", mechanism |-> FALSE],
   [assurance |-> "self_reported_declared", policy |-> "allow_opaque", mechanism |-> FALSE]}

Shape(queries, profiles, gaps) ==
  [exact |-> {"policy"}, domains |-> Domains, queries |-> queries, profiles |-> profiles,
   gaps |-> gaps]

SomeManifests ==
  {Shape({}, {}, FALSE), Shape(Queries, Profiles, FALSE), Shape({}, {}, TRUE)}

SomeCauses ==
  {{}, {[active |-> TRUE, blocking |-> FALSE]}, {[active |-> TRUE, blocking |-> TRUE]}}

Node(current, roots, refs, tagged) ==
  [current |-> current, roots |-> roots, refs |-> refs, kind |-> "own", tagged |-> tagged]

Clause(requires, roots, minimum, tagged) ==
  [requires |-> requires, own |-> TRUE, roots |-> roots, minimum |-> minimum,
   tagged |-> tagged]

SimpleSupport == {Clause({left}, {}, 1, TRUE)}

Before ==
  <<<<"semantic_source_registered", "policy", "A", 1>>,
    <<"input_envelope_registered", "envelope",
      [assurance |-> "full_envelope_enforced", policy |-> "deny_undeclared",
       mechanism |-> FALSE]>>>>

Manifest ==
  <<"manifest_captured", "proof",
    [envelope |-> "envelope", exact |-> ("policy" :> "A"), domains |-> [d \in Domains |-> 0],
     queries |-> <<>>, profiles |-> {}, gaps |-> FALSE,
     seen |-> ("policy" :> 1 @@ "other" :> 0)]>>

\* Nodes that rest on any of the others, on one root of their own or none, or withdrawn.
AnyNode ==
  {Node(TRUE, roots, refs, tagged) :
     roots \in {{}} \cup {{r} : r \in Roots}, refs \in SUBSET Nodes, tagged \in {TRUE}}
  \cup {Node(FALSE, {r}, {}, TRUE) : r \in Roots}
  \cup {Node(TRUE, {r}, {}, FALSE) : r \in Roots}

SomeSupports ==
  {{Clause({left}, {}, 2, TRUE)},
   {Clause({left, middle}, {"r"}, 1, TRUE), Clause({right}, {}, 2, FALSE), Clause({}, {}, 1, TRUE)}}

OneNode == [n \in Nodes |-> IF n = left THEN {Node(TRUE, {"r"}, {}, TRUE)} ELSE {}]

SomeLimits ==
  {[before |-> Before, life |-> TRUE, kinds |-> {"assured"},
    nodes |-> OneNode,
    supports |-> {SimpleSupport}],
   [before |-> <<Head(Before)>>, life |-> TRUE, kinds |-> {},
    nodes |-> OneNode, supports |-> {SimpleSupport}],
   [before |-> Tail(Before), life |-> TRUE, kinds |-> {},
    nodes |-> OneNode, supports |-> {SimpleSupport}],
   [before |-> Append(Before, Manifest), life |-> FALSE, kinds |-> {},
    nodes |-> [n \in Nodes |-> AnyNode], supports |-> SomeSupports]}
=============================================================================
