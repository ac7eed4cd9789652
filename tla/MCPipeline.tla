----------------------------- MODULE MCPipeline -----------------------------
(***************************************************************************)
(* Two commands at a time for Pipeline, and notes files that are empty,    *)
(* two notes long in either order, three, the same with the last once      *)
(* more, and not to be decoded.                                            *)
(***************************************************************************)
EXTENDS Pipeline, TLC

CONSTANTS text1, text2, text3, p1, p2

NoteA == NoteBody(text1, 0)
NoteB == NoteBody(text2, 0)
NoteC == NoteBody(text3, 2)

MCBodies == {NoteA, NoteB, NoteC}

MCNotesFiles ==
  {<<>>, <<NoteA, NoteB>>, <<NoteB, NoteA>>, <<NoteA, NoteB, NoteC>>,
   <<NoteA, NoteB, NoteC, NoteC>>, <<NoteA, NotHex>>}

\* Two lists that differ in the last note, for MCPipeline_root.cfg: the proof of
\* that note is the same in both batches, only the root is another.
MCNotesFilesForRoot == {<<NoteA, NoteB>>, <<NoteA, NoteC>>}

Symmetric == Permutations({p1, p2})
=============================================================================
