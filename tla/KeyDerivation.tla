--------------------------- MODULE KeyDerivation ---------------------------
(***************************************************************************)
(* The arithmetic behind the keys: hash_to_scalar and the scalars of       *)
(* crates/bsvcurve, derive_subkey of crates/tea, and the command           *)
(* derive-shared-address, by which payer and payee get to one payment key. *)
(*                                                                         *)
(* The group is the integers mod N: the point k*G is written k, and 0 is   *)
(* the identity.  A hash is sampled when it is first asked for and stays   *)
(* the same: any function from inputs to words, collisions included.       *)
(***************************************************************************)
EXTENDS Integers, FiniteSets

CONSTANTS
  N,             \* order of the group
  LowBase,       \* values of the last byte of a word (256)
  Words,         \* number of words that a hash can give (2^256)
  IndexMod,      \* number of sub-key indices (2^32)
  Retries,       \* indices that derive_subkey tries (16)
  Masters,       \* master scalars sub-keys are derived from
  Indices,       \* and the indices asked for
  AddressInputs, \* arguments of derive-shared-address
  MaxCalls       \* calls in one behaviour (bound of the model)

ASSUME OrderAssumption ==
  /\ N \in Nat /\ N > 1
  /\ \A a, b \in 1 .. N - 1 : (a * b) % N # 0
ASSUME WordsAssumption ==
  LowBase \in Nat \ {0} /\ Words \in Nat /\ Words > N /\ Words % LowBase = 0
ASSUME SubkeysAssumption ==
  /\ IndexMod \in Nat \ {0} /\ Retries \in Nat \ {0} /\ MaxCalls \in Nat
  /\ Masters \subseteq 1 .. N - 1 /\ Indices \subseteq 0 .. IndexMod - 1
ASSUME InputsAssumption ==
  \A in \in AddressInputs : {in.sk, in.remote, in.payee} \subseteq 0 .. N - 1

VARIABLES
  digest,     \* SHA-256 of master and index, as far as it was asked for
  okm,        \* HKDF of salt, secret and context, likewise
  subkeys,    \* what derive_subkey has returned
  addresses,  \* what derive-shared-address has returned
  pc,         \* where derive_subkey is
  call,       \* its arguments
  idx, tries, \* the index it tries, and how many it has tried before
  wide        \* the word hash_to_scalar is at

subkeyVars == <<pc, call, idx, tries, wide, digest, subkeys>>
vars == <<subkeyVars, okm, addresses>>

NoCall == [master |-> 0, index |-> 0]

Init ==
  /\ digest = << >> /\ okm = << >>
  /\ subkeys = {} /\ addresses = {}
  /\ pc = "idle" /\ call = NoCall /\ idx = 0 /\ tries = 0 /\ wide = 0

\* What an oracle knows after it has answered word for input.
Answered(oracle, input, word) ==
  [x \in DOMAIN oracle \cup {input} |-> IF x = input THEN word ELSE oracle[x]]

MayAnswer(oracle, input) ==
  IF input \in DOMAIN oracle THEN {oracle[input]} ELSE 0 .. Words - 1

Begin == pc = "idle" /\ Cardinality(subkeys) + Cardinality(addresses) < MaxCalls

-----------------------------------------------------------------------------
(* derive_subkey, and in it hash_to_scalar *)

\* BsvScalar::from_bytes, SecretKey::from_slice: 0 and n upwards are refused.
IsScalar(word) == word \in 1 .. N - 1

Derive(master, index) ==
  /\ Begin
  /\ pc' = "hash" /\ call' = [master |-> master, index |-> index]
  /\ idx' = index /\ tries' = 0
  /\ UNCHANGED <<wide, digest, subkeys, okm, addresses>>

\* Mutation: of the index only the low bits are hashed.
HashShortIndex ==
  /\ pc = "hash"
  /\ \E word \in MayAnswer(digest, <<call.master, idx % 2>>) :
       wide' = word /\ digest' = Answered(digest, <<call.master, idx % 2>>, word)
  /\ pc' = "reduce"
  /\ UNCHANGED <<call, idx, tries, subkeys, okm, addresses>>

Hash ==
  /\ pc = "hash"
  /\ \E word \in MayAnswer(digest, <<call.master, idx>>) :
       wide' = word /\ digest' = Answered(digest, <<call.master, idx>>, word)
  /\ pc' = "reduce"
  /\ UNCHANGED <<call, idx, tries, subkeys, okm, addresses>>

\* Mutation: the last byte saturates.
BumpedSaturating(word) == IF word % LowBase = LowBase - 1 THEN word ELSE word + 1

\* wide[31].wrapping_add(1)
Bumped(word) == LowBase * (word \div LowBase) + ((word + 1) % LowBase)

\* Not a scalar: the last byte is bumped, and the word tried again.
Bump ==
  /\ pc = "reduce" /\ ~IsScalar(wide)
  /\ wide' = Bumped(wide)
  /\ UNCHANGED <<pc, call, idx, tries, digest, subkeys, okm, addresses>>

\* The result names the index that was asked for.
Return(returned, scalar) ==
  /\ pc' = "idle" /\ call' = NoCall /\ idx' = 0 /\ tries' = 0 /\ wide' = 0
  /\ subkeys' = subkeys \cup
       {[master |-> call.master, index |-> call.index, returned |-> returned, scalar |-> scalar]}
  /\ UNCHANGED <<digest, okm, addresses>>

\* Mutation: scalars added without a look at the sum.
TweakUnchecked ==
  /\ pc = "reduce" /\ IsScalar(wide)
  /\ Return("Ok", (call.master + wide) % N)

Tweak ==
  /\ pc = "reduce" /\ IsScalar(wide)
  /\ (call.master + wide) % N # 0
  /\ Return("Ok", (call.master + wide) % N)

\* Mutation: the index tried next is counted from 0.
NextIndexFromZero ==
  /\ pc = "reduce" /\ IsScalar(wide)
  /\ (call.master + wide) % N = 0
  /\ IF tries + 1 = Retries THEN Return("BadSubkeyIndex", 0)
     ELSE /\ pc' = "hash" /\ tries' = tries + 1 /\ idx' = tries + 1
          /\ UNCHANGED <<call, wide, digest, subkeys, okm, addresses>>

\* add refuses the sum 0: the next index is tried, wrapping_add.
NextIndex ==
  /\ pc = "reduce" /\ IsScalar(wide)
  /\ (call.master + wide) % N = 0
  /\ IF tries + 1 = Retries THEN Return("BadSubkeyIndex", 0)
     ELSE /\ pc' = "hash" /\ tries' = tries + 1 /\ idx' = (idx + 1) % IndexMod
          /\ UNCHANGED <<call, wide, digest, subkeys, okm, addresses>>

-----------------------------------------------------------------------------
(* cmd_derive_shared_address *)

\* Mutation: the secret hashed from the two keys, own key first.
SecretOwnKeyFirst(sk, remote) == N * sk + remote

\* sk * remote; S is its hash.
Secret(sk, remote) == (remote * sk) % N

SaltOf(in) ==
  IF in.salt_rule = "context" THEN <<"dc", in.dc>>
  ELSE <<"S", Secret(in.sk, in.remote)>>

\* What is refused before anything is hashed.  A key of 0 stands for bytes that
\* are no scalar or no point.
InputError(in) ==
  IF ~IsScalar(in.sk) THEN "InvalidScalar"
  ELSE IF 0 \in {in.remote, in.payee} THEN "InvalidPoint"
  ELSE IF in.dc = "not hexadecimal" THEN "dc_hex"
  ELSE IF in.salt_rule \notin {"context", "shared-secret"} THEN "unknown salt_rule" ELSE "none"

Versions(network) == IF network = "mainnet" THEN {0} ELSE
                     IF network \in {"testnet", "regtest"} THEN {111} ELSE {}

\* Mutation: a tweak of zero is not refused.
TweakErrorNonzero(in, word) ==
  IF Versions(in.network) = {} THEN "unknown network"
  ELSE IF (in.payee + word) % N = 0 THEN "panic" ELSE "none"

\* from_bytes_reduce refuses a tweak of zero, and to_compressed of the identity
\* panics: its encoding is one byte long.
TweakError(in, word) ==
  IF word % N = 0 THEN "derived tweak is zero"
  ELSE IF Versions(in.network) = {} THEN "unknown network"
  ELSE IF (in.payee + word) % N = 0 THEN "panic" ELSE "none"

Failed(in, error) == [in |-> in, returned |-> error]

\* The order of the compressed keys is that of the numbers here.
Derived(in, word) ==
  LET pk_once == (in.payee + word) % N
      ordered == IF in.payee <= in.remote THEN <<in.payee, in.remote>> ELSE <<in.remote, in.payee>>
  IN  [in |-> in, returned |-> "Ok", pubkey |-> pk_once,
       address |-> <<Versions(in.network), pk_once>>, salt |-> SaltOf(in),
       a |-> ordered[1], b |-> ordered[2]]

Outcome(in, word) ==
  IF TweakError(in, word) = "none" THEN Derived(in, word) ELSE Failed(in, TweakError(in, word))

RefuseInput(in) ==
  /\ Begin
  /\ InputError(in) # "none"
  /\ addresses' = addresses \cup {Failed(in, InputError(in))}
  /\ UNCHANGED <<subkeyVars, okm>>

\* What HKDF is given: S, the salt and the context.
OkmInput(in) == <<SaltOf(in), Secret(in.sk, in.remote), in.dc>>

DeriveAddress(in) ==
  /\ Begin
  /\ InputError(in) = "none"
  /\ \E word \in MayAnswer(okm, OkmInput(in)) :
       /\ okm' = Answered(okm, OkmInput(in), word)
       /\ addresses' = addresses \cup {Outcome(in, word)}
  /\ UNCHANGED subkeyVars

-----------------------------------------------------------------------------
Step == Hash \/ Bump \/ Tweak \/ NextIndex

Next ==
  \/ \E master \in Masters, index \in Indices : Derive(master, index)
  \/ Hash \/ Bump \/ Tweak \/ NextIndex
  \/ \E in \in AddressInputs : RefuseInput(in) \/ DeriveAddress(in)

Spec == Init /\ [][Next]_vars

\* A call is sequential code.
FairSpec == Spec /\ WF_vars(Step)

-----------------------------------------------------------------------------
(* Properties *)

\* Every scalar returned is one, and every word is a word.
TypeOK ==
  /\ pc \in {"idle", "hash", "reduce"}
  /\ wide \in 0 .. Words - 1
  /\ idx \in 0 .. IndexMod - 1 /\ tries \in 0 .. Retries - 1
  /\ \A s \in subkeys : s.master \in Masters /\ s.index \in Indices
                        /\ (s.returned = "Ok" => IsScalar(s.scalar))

\* The words hash_to_scalar goes through: those that differ in the last byte.
SameUpper(word) == {LowBase * (word \div LowBase) + low : low \in 0 .. LowBase - 1}

\* How often a word is bumped until it is the other of them.
Bumps(word, other) == (other - word) % LowBase

\* What hash_to_scalar makes of a digest: the digest itself when it is a scalar,
\* and else the one that fewest bumps lead to.
ReducedTo(word) ==
  {w \in SameUpper(word) :
     /\ IsScalar(w)
     /\ \A v \in SameUpper(word) : IsScalar(v) => Bumps(word, w) <= Bumps(word, v)}

\* The tweaks of an index: none while it is not hashed, or never reduced.
Tweaks(master, index) ==
  IF <<master, index>> \in DOMAIN digest THEN ReducedTo(digest[<<master, index>>]) ELSE {}

Degenerate(master, index) == \E h \in Tweaks(master, index) : (master + h) % N = 0

\* What the two retry loops of derive_subkey come to.  The tweak is that of the
\* index asked for, or of the first after it that is not degenerate, and the call
\* gives up only if Retries of them are; the tweak of an index is its digest as
\* ReducedTo says, and not the digest mod n (see SubkeyByFormula).
SubkeyOfIndex ==
  \A s \in subkeys :
    IF s.returned = "Ok"
      THEN \E n \in 0 .. Retries - 1 :
             /\ \A j \in 0 .. n - 1 : Degenerate(s.master, (s.index + j) % IndexMod)
             /\ \E h \in Tweaks(s.master, (s.index + n) % IndexMod) :
                  s.scalar = (s.master + h) % N
      ELSE \A j \in 0 .. Retries - 1 : Degenerate(s.master, (s.index + j) % IndexMod)

\* Two indices of one master share a sub-key only if their digests reduce to one
\* scalar, or one of them is degenerate and was stepped over without a trace.
SharedOnlyIfDegenerate ==
  \A s, t \in subkeys :
    /\ s.returned = "Ok" /\ t.returned = "Ok"
    /\ s.master = t.master /\ s.index # t.index /\ s.scalar = t.scalar
    => \/ Degenerate(s.master, s.index) \/ Degenerate(t.master, t.index)
       \/ Tweaks(s.master, s.index) = Tweaks(t.master, t.index)

\* hash_to_scalar ends for every digest that shares its upper bytes with a scalar.
\* For the others -- above the upper bytes of N -- it never does.
HashEnds == pc = "reduce" /\ ReducedTo(wide) # {} ~> pc # "reduce"

\* Two parties who call with each other's public key, for one payee, context,
\* salt rule and network get one answer, an error or a panic included.
PartiesAgree ==
  \A x, y \in addresses :
    /\ IsScalar(x.in.sk) /\ IsScalar(y.in.sk)
    /\ x.in.remote = y.in.sk /\ y.in.remote = x.in.sk
    /\ x.in.payee = y.in.payee /\ x.in.dc = y.in.dc
    /\ x.in.salt_rule = y.in.salt_rule /\ x.in.network = y.in.network
    => /\ x.returned = y.returned
       /\ x.returned = "Ok" => x.pubkey = y.pubkey /\ x.address = y.address /\ x.salt = y.salt

\* A payment key is a key, and never the payee's master key itself.
OneTimeKey ==
  \A x \in addresses : x.returned = "Ok" => IsScalar(x.pubkey) /\ x.pubkey # x.in.payee

\* What docs/ARCHITECTURE.md:32, bsvcurve/src/lib.rs:213 and tea/src/lib.rs:74
\* say of derive_subkey: the tweak of a sub-key is the digest of the index asked
\* for, reduced mod n.
SubkeyByFormula ==
  \A s \in subkeys : s.returned = "Ok" =>
    s.scalar = (s.master + (digest[<<s.master, s.index>>] % N)) % N

-----------------------------------------------------------------------------
(* The inductive invariant the theorems rest on: results are what the two    *)
(* hashes, as far as they are known, make of their arguments.                *)

OraclesInv ==
  /\ \A x \in DOMAIN digest : digest[x] \in 0 .. Words - 1
  /\ \A x \in DOMAIN okm : okm[x] \in 0 .. Words - 1

\* No word that hash_to_scalar has left behind is a scalar.
Scanned(word, at) ==
  /\ at \in SameUpper(word)
  /\ \A v \in SameUpper(word) : Bumps(word, v) < Bumps(word, at) => ~IsScalar(v)

\* Every index that derive_subkey has left behind is degenerate.
CallInv ==
  /\ pc # "idle" =>
       /\ call.master \in Masters /\ call.index \in Indices
       /\ idx = (call.index + tries) % IndexMod
       /\ \A j \in 0 .. tries - 1 : Degenerate(call.master, (call.index + j) % IndexMod)
  /\ pc = "reduce" =>
       /\ <<call.master, idx>> \in DOMAIN digest
       /\ Scanned(digest[<<call.master, idx>>], wide)

AddressInv ==
  \A x \in addresses :
    /\ x.in \in AddressInputs
    /\ IF InputError(x.in) # "none" THEN x = Failed(x.in, InputError(x.in))
       ELSE OkmInput(x.in) \in DOMAIN okm /\ x = Outcome(x.in, okm[OkmInput(x.in)])

IInv == TypeOK /\ OraclesInv /\ CallInv /\ SubkeyOfIndex /\ AddressInv
=============================================================================
