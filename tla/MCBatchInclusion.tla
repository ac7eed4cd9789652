------------------------- MODULE MCBatchInclusion -------------------------
(***************************************************************************)
(* Small batches for BatchInclusion: empty, single, a repeated note, an    *)
(* odd level at the leaves (3) and at two levels (5).                      *)
(***************************************************************************)
EXTENDS BatchRefinement

CONSTANTS a, b, c, f

NoteA == NoteBody(a, 0)
NoteB == NoteBody(b, 0)
NoteC == NoteBody(c, 5)

MCBodies == {NoteA, NoteB, NoteC}

MCBatches ==
  {<<>>, <<NoteA>>, <<NoteA, NoteB>>, <<NoteA, NoteB, NoteA>>,
   <<NoteA, NoteB, NoteC>>, <<NoteB, NoteA, NoteA, NoteB, NoteC>>}

MCForeign == {DoubleSha256(Bytes(32, f))}
=============================================================================
