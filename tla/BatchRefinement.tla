-------------------------- MODULE BatchRefinement --------------------------
(***************************************************************************)
(* BatchInclusion does what InclusionContract promises: all the turns of   *)
(* its loops before a call of verify_inclusion and within one are steps    *)
(* that the contract does not see, and the call's return is its answer.    *)
(***************************************************************************)
EXTENDS BatchInclusion

\* The question is the body and the claim that verify_inclusion is called with.
Asked ==
  IF pc \in {"depth", "climb"} \/ Verified
    THEN [body |-> body, index |-> claim.leaf_index, built |-> BuiltClaim]
    ELSE [question |-> "none"]

Contract == INSTANCE InclusionContract WITH
  batch <- notes, asked <- Asked, answer <- outcome

\* Every behaviour of build_batch, build_inclusion_proof and verify_inclusion
\* is one of the contract's: four loops, a claim that may be anything and
\* every early return amount to one decision about a body and an index.
Implements == Contract!Spec
=============================================================================
