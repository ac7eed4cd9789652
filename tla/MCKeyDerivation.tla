-------------------------- MODULE MCKeyDerivation --------------------------
(***************************************************************************)
(* A group of order 5, words of 0 to 11 with a last byte of 0 to 3: some   *)
(* words are scalars, some become one when the last byte is bumped, and    *)
(* some never do.  Payer and payee, a key that is none, and a party whose  *)
(* counterparty is itself.                                                 *)
(***************************************************************************)
EXTENDS KeyDerivation

CONSTANTS d1, d2

MCParties == {<<2, 3, 3>>, <<3, 2, 3>>, <<2, 2, 2>>, <<0, 3, 3>>, <<2, 0, 0>>}

MCAddressInputs ==
  {[sk |-> p[1], remote |-> p[2], payee |-> p[3], dc |-> dc, salt_rule |-> rule, network |-> net] :
     p \in MCParties, dc \in {d1, d2}, rule \in {"context", "shared-secret", "none"},
     net \in {"mainnet", "regtest", "none"}}
  \cup {[sk |-> 2, remote |-> 3, payee |-> 3, dc |-> "not hexadecimal", salt_rule |-> "context",
         network |-> "mainnet"]}
=============================================================================
