------------------------- MODULE InclusionContract -------------------------
(***************************************************************************)
(* What the anchor layer promises, without trees: a batch is a sequence of *)
(* note bodies; someone is asked whether a body is in it, at an index, on  *)
(* the strength of a proof; one step answers.  How the answer comes about  *)
(* is the business of BatchInclusion.                                      *)
(***************************************************************************)
EXTENDS Naturals, Sequences

CONSTANTS Bodies, Batches

VARIABLES
  batch,   \* the anchored bodies
  asked,   \* the question, or NoQuestion
  answer   \* "none" until there is one

vars == <<batch, asked, answer>>

NoQuestion == [question |-> "none"]

\* A question: the body, the index it is said to have, and whether the proof
\* is the one that was built for that index.
Questions == [body : Bodies, index : Nat, built : BOOLEAN]

Refusals == {"ProofLengthMismatch", "RootMismatch", "panic"}

\* The one body an index of the batch stands for.
Holds(index, body) == index < Len(batch) /\ batch[index + 1] = body

\* The answers that may be given.  A built proof is decided by the body alone;
\* whatever else is shown is refused, in some way, unless the body is in the
\* batch, and at the index if that is one of the batch's.
Permitted(q, a) ==
  IF q.built
    THEN a = IF Holds(q.index, q.body) THEN "Ok" ELSE "RootMismatch"
    ELSE \/ a \in Refusals
         \/ /\ a = "Ok"
            /\ \E i \in DOMAIN batch : batch[i] = q.body
            /\ q.index < Len(batch) => Holds(q.index, q.body)

Init == batch \in Batches /\ asked = NoQuestion /\ answer = "none"

\* There is no root of nothing, and no proof past the end.
Refuse ==
  /\ asked = NoQuestion /\ answer = "none"
  /\ answer' = IF batch = <<>> THEN "EmptyBatch" ELSE "IndexOutOfRange"
  /\ UNCHANGED <<batch, asked>>

Ask ==
  /\ asked = NoQuestion /\ answer = "none" /\ batch # <<>>
  /\ asked' \in Questions
  /\ asked'.built => asked'.index < Len(batch)
  /\ UNCHANGED <<batch, answer>>

Answer ==
  /\ asked # NoQuestion /\ answer = "none"
  /\ answer' \in Refusals \cup {"Ok"}
  /\ Permitted(asked, answer')
  /\ UNCHANGED <<batch, asked>>

Next == Refuse \/ Ask \/ Answer

Spec == Init /\ [][Next]_vars
=============================================================================
