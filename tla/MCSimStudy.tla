----------------------------- MODULE MCSimStudy -----------------------------
(***************************************************************************)
(* Populations of none to five invoices and samples of none, some and more *)
(* than there are.                                                         *)
(***************************************************************************)
EXTENDS SimStudy

MCInputs ==
  {[m |-> m, inclusion |-> s[1], selective |-> s[2]] : m \in 0 .. 5, s \in {<<0, 2>>, <<6, 6>>}}

MCCounterparties == <<"first", "second">>
=============================================================================
