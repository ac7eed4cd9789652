------------------------------ MODULE BsvHash ------------------------------
(***************************************************************************)
(* The hash of every layer (crates/bsv) and the two ways the workspace     *)
(* feeds it: a note body becomes a leaf, two nodes become their parent.    *)
(*                                                                         *)
(* A byte string is a record of its length and of what it holds.  The hash *)
(* is ideal: it wraps its input, so equal digests come from equal inputs   *)
(* and the input's length is part of what is hashed.  Collision resistance *)
(* of double SHA-256 is therefore an assumption of the whole project.      *)
(***************************************************************************)
EXTENDS Naturals

HASH_LEN == 32

Bytes(len, holds) == [len |-> len, holds |-> holds]

DoubleSha256(input) == [digest |-> input]

\* The 64-byte buffer that parent_hash fills: left digest, then right.
ConcatHashes(left, right) == Bytes(2 * HASH_LEN, <<left, right>>)

ParentHash(left, right) == DoubleSha256(ConcatHashes(left, right))

(***************************************************************************)
(* The bytes of a note with the given number of field commitments: version,*)
(* kind, two 32-byte tags, two 33-byte points, the field count and the     *)
(* commitments.  The shortest is 133 bytes, so no note body has the 64     *)
(* bytes of a pair of digests.                                             *)
(***************************************************************************)
NoteBody(note, fields) == Bytes(1 + 1 + 32 + 32 + 33 + 33 + 1 + 32 * fields, note)
=============================================================================
