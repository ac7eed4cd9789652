--------------------------- MODULE PipelineProofs ---------------------------
(***************************************************************************)
(* What holds of the files of Pipeline for every set of notes files, every *)
(* number of processes and every bound.                                    *)
(***************************************************************************)
EXTENDS Pipeline, MerkleTreeProofs

\* Initially there are no files and nothing runs.
LEMMA TracedInit == Init => Traced
<1> SUFFICES ASSUME Init PROVE Traced
  OBVIOUS
<1>1. TypeOK
  BY PipelineAssumption DEF Init, TypeOK, ProcessShape
<1>2. WholeFiles
  BY DEF Init, WholeFiles, Parsed, Unparsable
<1>3. Provenance
  BY DEF Init, Provenance, FromOneList, Idle
<1> QED
  BY <1>1, <1>2, <1>3 DEF Traced

\* More lists anchored, more that may have been written.
LEMMA WrittenGrows ==
  ASSUME NEW name, NEW content, IsWritten(name, content), anchored \subseteq anchored'
  PROVE  IsWritten(name, content)'
BY DEF IsWritten

LEMMA FromOneListGrows ==
  ASSUME NEW s, FromOneList(s), anchored \subseteq anchored'
  PROVE  FromOneList(s)'
BY WrittenGrows DEF FromOneList

\* A list that build_batch takes is a list of notes, and its batch is as long.
LEMMA BatchLength ==
  ASSUME NEW notes \in NotesFiles
  PROVE  Len(notes) \in Nat /\ Len(BatchOf(notes).leaves) = Len(notes)
<1>1. notes \in Seq(Bodies \cup {NotHex})
  BY PipelineAssumption
<1>2. Len(notes) \in Nat
  BY <1>1
<1> QED
  BY <1>1, <1>2 DEF BatchOf

\* A step that leaves files and processes alone.
LEMMA NothingWritten ==
  ASSUME Traced, UNCHANGED <<file, proc, anchored, edits>>,
         started' \in 0 .. MaxCommands, crashes' \in 0 .. MaxCrashes
  PROVE  Traced'
<1>1. TypeOK'
  BY DEF Traced, TypeOK, ProcessShape
<1>2. WholeFiles'
  BY DEF Traced, WholeFiles, Parsed, IsWritten
<1>3. Provenance'
  BY DEF Traced, Provenance, FromOneList, IsWritten
<1> QED
  BY <1>1, <1>2, <1>3 DEF Traced

\* A step of one process that leaves the files alone, empties or garbles one of
\* the two that commands write, or writes there what comes from one list.
LEMMA ProcessMoves ==
  ASSUME Traced, NEW p \in Processes, NEW next, Goto(p, next), UNCHANGED edits,
         \/ UNCHANGED file
         \/ \E name \in {"batch", "bundle"} : \E after :
              /\ file' = [file EXCEPT ![name] = after]
              /\ after \in Unparsable \/ (edits = 0 => IsWritten(name, after)'),
         anchored \subseteq anchored', anchored' \subseteq NotesFiles,
         started' \in 0 .. MaxCommands, crashes' \in 0 .. MaxCrashes,
         ProcessShape(next), edits = 0 => FromOneList(next)'
  PROVE  Traced'
<1>1. /\ DOMAIN proc' = Processes /\ proc'[p] = next
      /\ \A q \in Processes : q # p => proc'[q] = proc[q]
  BY DEF Goto, Traced, TypeOK
<1>2. TypeOK'
  <2>1. \A q \in Processes : ProcessShape(proc'[q])
    BY <1>1, Zenon DEF Traced, TypeOK
  <2>2. DOMAIN file' = {"notes", "batch", "bundle"} /\ file'["notes"] = file["notes"]
    BY DEF Traced, TypeOK
  <2> QED
    BY <2>1, <2>2, <1>1 DEF Traced, TypeOK, ProcessShape
<1>3. WholeFiles'
  <2> SUFFICES ASSUME edits = 0, NEW n \in {"batch", "bundle"}, file'[n] \notin Unparsable
               PROVE  IsWritten(n, file[n])'
    BY DEF WholeFiles, Parsed
  <2>1. CASE file'[n] = file[n]
    <3>1. IsWritten(n, file[n])
      BY <2>1 DEF Traced, WholeFiles, Parsed
    <3> QED
      BY <3>1, <2>1 DEF IsWritten
  <2>2. CASE file'[n] # file[n]
    BY <2>2 DEF Traced, TypeOK, IsWritten
  <2> QED
    BY <2>1, <2>2
<1>4. Provenance'
  <2> SUFFICES ASSUME edits = 0, NEW q \in Processes
               PROVE  FromOneList(proc[q])'
    BY DEF Provenance
  <2>1. CASE q = p
    BY <1>1, <2>1 DEF FromOneList, IsWritten
  <2>2. CASE q # p
    <3>1. FromOneList(proc[q])
      BY DEF Traced, Provenance
    <3>2. FromOneList(proc[q])'
      BY <3>1, <1>1, <2>2, WrittenGrows DEF FromOneList
    <3> QED
      BY <3>2
  <2> QED
    BY <2>1, <2>2
<1> QED
  BY <1>2, <1>3, <1>4 DEF Traced

-----------------------------------------------------------------------------
(* One lemma per step of a command *)

\* The list that anchor reads is a list of notes, and its batch comes from it.
LEMMA AnchorReadTraced ==
  ASSUME Traced, NEW p \in Processes, AnchorRead(p)
  PROVE  Traced'
<1>1. PICK next : next = Opening("batch", BatchOf(file["notes"]))
  OBVIOUS
<1>2. file["notes"] \in NotesFiles
  BY DEF AnchorRead, Parsed, Unparsable, Traced, TypeOK
<1>3. ProcessShape(next) /\ next.at = "open" /\ next.file = "batch"
      /\ next.content = BatchOf(file["notes"])
  BY <1>1 DEF ProcessShape, Opening
<1>4. FromOneList(next)'
  BY <1>3 DEF FromOneList, IsWritten, AnchorRead
<1>5. Goto(p, next) /\ UNCHANGED <<file, edits>> /\ anchored \subseteq anchored'
  BY <1>1 DEF AnchorRead
<1>6. anchored' \subseteq NotesFiles
  BY <1>2 DEF AnchorRead, Traced, TypeOK
<1>7. started' \in 0 .. MaxCommands /\ crashes' \in 0 .. MaxCrashes
  BY PipelineAssumption DEF AnchorRead, Begin, Traced, TypeOK
<1> QED
  BY <1>3, <1>4, <1>5, <1>6, <1>7, ProcessMoves

\* What prove reads from the batch file was written as a whole.
LEMMA ProveReadBatchTraced ==
  ASSUME Traced, NEW p \in Processes, NEW index \in Indices, ProveReadBatch(p, index)
  PROVE  Traced'
<1>1. PICK next : next = [at |-> "notes", batch |-> file["batch"], index |-> index]
  OBVIOUS
<1>2. ProcessShape(next) /\ next.at = "notes" /\ next.batch = file["batch"]
  BY <1>1 DEF ProcessShape
<1>3. Goto(p, next) /\ UNCHANGED <<file, edits, anchored, crashes>>
  BY <1>1 DEF ProveReadBatch
<1>4. edits = 0 => FromOneList(next)'
  BY <1>2, <1>3 DEF FromOneList, IsWritten, ProveReadBatch, Traced, WholeFiles
<1>5. started' \in 0 .. MaxCommands /\ crashes' \in 0 .. MaxCrashes
  BY PipelineAssumption DEF ProveReadBatch, Begin, Traced, TypeOK
<1>6. anchored \subseteq anchored' /\ anchored' \subseteq NotesFiles
  BY <1>3 DEF Traced, TypeOK
<1> QED
  BY <1>2, <1>3, <1>4, <1>5, <1>6, ProcessMoves

\* The bundle that prove is about to write is one of a batch and a notes file.
LEMMA ProveReadNotesTraced ==
  ASSUME Traced, NEW p \in Processes, ProveReadNotes(p)
  PROVE  Traced'
<1>1. PICK s : s = proc[p]
  OBVIOUS
<1>2. PICK next : next = Opening("bundle", Bundle(s.batch, file["notes"], s.index))
  OBVIOUS
<1>3. s.at = "notes" /\ s.index \in Indices /\ ProveError(s.batch, file["notes"], s.index) = "none"
  <2>1. ProcessShape(s)
    BY <1>1 DEF Traced, TypeOK
  <2> QED
    BY <1>1, <2>1 DEF ProveReadNotes, ProcessShape, Idle
<1>4. file["notes"] \in NotesFiles /\ ~(s.index >= Len(s.batch.leaves)) /\ ~(s.index >= Len(file["notes"]))
  BY <1>3 DEF ProveError, Unparsable, Traced, TypeOK
<1>5. ProcessShape(next) /\ next.at = "open" /\ next.file = "bundle"
      /\ next.content = Bundle(s.batch, file["notes"], s.index)
  BY <1>2 DEF ProcessShape, Opening
<1>6. Goto(p, next) /\ UNCHANGED <<file, started, crashes, edits, anchored>>
  BY <1>1, <1>2 DEF ProveReadNotes, counters
<1>7. edits = 0 => FromOneList(next)'
  <2> SUFFICES ASSUME edits = 0 PROVE IsWritten("bundle", next.content)'
    BY <1>5 DEF FromOneList
  <2>1. PICK l \in anchored : s.batch = BatchOf(l)
    BY <1>1, <1>3 DEF Traced, Provenance, FromOneList, IsWritten
  <2>2. l \in NotesFiles /\ Len(s.batch.leaves) = Len(l)
    BY <2>1, BatchLength DEF Traced, TypeOK
  <2>3. s.index < Len(l) /\ s.index < Len(file["notes"])
    <3>1. Len(l) \in Nat /\ Len(file["notes"]) \in Nat /\ s.index \in Nat
      BY <1>3, <1>4, <2>2, BatchLength, PipelineAssumption
    <3> QED
      BY <3>1, <1>4, <2>2
  <2> QED
    BY <1>3, <1>4, <1>5, <1>6, <2>1, <2>3 DEF IsWritten
<1>8. anchored' \subseteq NotesFiles /\ started' \in 0 .. MaxCommands /\ crashes' \in 0 .. MaxCrashes
  BY <1>6 DEF Traced, TypeOK
<1> QED
  BY <1>5, <1>6, <1>7, <1>8, ProcessMoves

\* A refused or killed command leaves nothing behind, or a file cut short.
LEMMA EndsTraced ==
  ASSUME Traced, NEW p \in Processes, ProveRefused(p) \/ Crash(p)
  PROVE  Traced'
<1>1. Goto(p, Idle) /\ UNCHANGED <<edits, anchored>>
  BY DEF ProveRefused, Crash, Killed, counters
<1>2. ProcessShape(Idle) /\ FromOneList(Idle)'
  BY DEF ProcessShape, FromOneList, Idle
<1>3. started' \in 0 .. MaxCommands /\ crashes' \in 0 .. MaxCrashes
  BY PipelineAssumption DEF ProveRefused, Crash, Killed, counters, Traced, TypeOK
<1>4. \/ UNCHANGED file
      \/ \E name \in {"batch", "bundle"} : \E after :
           /\ file' = [file EXCEPT ![name] = after]
           /\ after \in Unparsable \/ (edits = 0 => IsWritten(name, after)')
  <2>1. ProcessShape(proc[p])
    BY DEF Traced, TypeOK
  <2> QED
    BY <2>1 DEF ProveRefused, Crash, ProcessShape, Idle, Unparsable
<1> QED
  BY <1>1, <1>2, <1>3, <1>4, ProcessMoves DEF Traced, TypeOK

\* Truncation leaves the file empty.
LEMMA TruncateTraced ==
  ASSUME Traced, NEW p \in Processes, Truncate(p)
  PROVE  Traced'
<1>1. PICK s : s = proc[p]
  OBVIOUS
<1>2. PICK next : next = [s EXCEPT !.at = "write"]
  OBVIOUS
<1>3. /\ s.at = "open" /\ s.file \in {"batch", "bundle"}
      /\ s = [at |-> "open", file |-> s.file, content |-> s.content]
  <2>1. ProcessShape(s)
    BY <1>1 DEF Traced, TypeOK
  <2> QED
    BY <1>1, <2>1 DEF Truncate, ProcessShape, Idle
<1>4. next = [at |-> "write", file |-> s.file, content |-> s.content]
  BY <1>2, <1>3
<1>5. ProcessShape(next)
  BY <1>3, <1>4 DEF ProcessShape
<1>6. /\ Goto(p, next) /\ UNCHANGED <<started, crashes, edits, anchored>>
      /\ file' = [file EXCEPT ![s.file] = Empty]
  BY <1>1, <1>2 DEF Truncate, counters
<1>7. edits = 0 => FromOneList(next)'
  BY <1>1, <1>3, <1>4, <1>6 DEF Traced, Provenance, FromOneList, IsWritten
<1>8. anchored' \subseteq NotesFiles /\ started' \in 0 .. MaxCommands /\ crashes' \in 0 .. MaxCrashes
  BY <1>6 DEF Traced, TypeOK
<1>9. Empty \in Unparsable
  BY DEF Unparsable
<1> QED
  BY <1>3, <1>5, <1>6, <1>7, <1>8, <1>9, ProcessMoves

\* What a command writes comes from one list, or its file ends garbled.
LEMMA WriteTraced ==
  ASSUME Traced, NEW p \in Processes, Write(p)
  PROVE  Traced'
<1>1. PICK s : s = proc[p]
  OBVIOUS
<1>2. PICK after : after \in {s.content, Garbled} /\ file' = [file EXCEPT ![s.file] = after]
  BY <1>1 DEF Write, Overlaid
<1>3. s.at = "write" /\ s.file \in {"batch", "bundle"}
  <2>1. ProcessShape(s)
    BY <1>1 DEF Traced, TypeOK
  <2> QED
    BY <1>1, <2>1 DEF Write, ProcessShape, Idle
<1>4. Goto(p, Idle) /\ UNCHANGED <<started, crashes, edits, anchored>>
  BY DEF Write, counters
<1>5. after \in Unparsable \/ (edits = 0 => IsWritten(s.file, after)')
  BY <1>1, <1>2, <1>3, <1>4 DEF Traced, Provenance, FromOneList, IsWritten, Unparsable
<1>6. ProcessShape(Idle) /\ FromOneList(Idle)'
  BY DEF ProcessShape, FromOneList, Idle
<1>7. anchored' \subseteq NotesFiles /\ started' \in 0 .. MaxCommands /\ crashes' \in 0 .. MaxCrashes
  BY <1>4 DEF Traced, TypeOK
<1> QED
  BY <1>2, <1>3, <1>4, <1>5, <1>6, <1>7, ProcessMoves

\* The notes file is not one that the commands write.
LEMMA ReplaceNotesTraced ==
  ASSUME Traced, NEW notes \in NotesFiles, ReplaceNotes(notes)
  PROVE  Traced'
<1>1. UNCHANGED <<proc, started, crashes, edits, anchored>>
  BY DEF ReplaceNotes, counters
<1>2. /\ DOMAIN file' = {"notes", "batch", "bundle"} /\ file'["notes"] = notes
      /\ \A name \in {"batch", "bundle"} : file'[name] = file[name]
  BY DEF ReplaceNotes, Traced, TypeOK
<1>3. TypeOK'
  BY <1>1, <1>2 DEF Traced, TypeOK, ProcessShape
<1>4. WholeFiles'
  BY <1>1, <1>2 DEF Traced, WholeFiles, Parsed, IsWritten
<1>5. Provenance'
  BY <1>1 DEF Traced, Provenance, FromOneList, IsWritten
<1> QED
  BY <1>3, <1>4, <1>5 DEF Traced

\* After a change by hand only the types are claimed.
LEMMA EditBatchTraced ==
  ASSUME Traced, EditBatch
  PROVE  Traced'
<1>1. UNCHANGED <<proc, started, crashes, anchored>> /\ edits' \in 0 .. MaxEdits /\ edits' # 0
  BY PipelineAssumption DEF EditBatch, Traced, TypeOK
<1>2. DOMAIN file' = {"notes", "batch", "bundle"} /\ file'["notes"] = file["notes"]
  BY DEF EditBatch, Traced, TypeOK
<1>3. TypeOK'
  BY <1>1, <1>2 DEF Traced, TypeOK, ProcessShape
<1> QED
  BY <1>1, <1>3 DEF Traced, WholeFiles, Provenance

\* Every step keeps that part of the invariant.
LEMMA TracedStep == Traced /\ [Next]_vars => Traced'
<1> SUFFICES ASSUME Traced, [Next]_vars PROVE Traced'
  OBVIOUS
<1>1. CASE UNCHANGED vars
  BY <1>1, NothingWritten DEF vars, counters, Traced, TypeOK
<1>2. ASSUME NEW p \in Processes, AnchorRefused(p) \/ ProveRefusedBatch(p) PROVE Traced'
  <2>1. UNCHANGED <<file, proc, anchored, edits, crashes>> /\ Begin(p)
    BY <1>2 DEF AnchorRefused, ProveRefusedBatch
  <2>2. started' \in 0 .. MaxCommands /\ crashes' \in 0 .. MaxCrashes
    BY <2>1, PipelineAssumption DEF Begin, Traced, TypeOK
  <2> QED
    BY <2>1, <2>2, NothingWritten
<1>3. CASE Verify \/ Notice
  BY <1>3, NothingWritten DEF Verify, Notice, counters, Traced, TypeOK
<1> QED
  BY <1>1, <1>2, <1>3, AnchorReadTraced, ProveReadBatchTraced, ProveReadNotesTraced, EndsTraced,
     TruncateTraced, WriteTraced, ReplaceNotesTraced, EditBatchTraced DEF Next

-----------------------------------------------------------------------------
(* Batches and bundles as the Merkle functions know them *)

\* Leaves that are found to decode are digests of notes, and no parents.
LEMMA LeavesDecode ==
  ASSUME NEW b, BatchShape(b), LeavesError(b.leaves) = "none"
  PROVE  /\ IsLeaves(b.leaves)
         /\ \A x \in Nodes(b.leaves) : \E body \in Bodies : x = DoubleSha256(body)
<1> DEFINE S == Undecodable \cup {DoubleSha256(body) : body \in Bodies}
           bad == {i \in DOMAIN b.leaves : b.leaves[i] \in Undecodable}
           First(i) == \A j \in bad : i <= j
<1>1. b.leaves \in Seq(S) /\ b.leaves # <<>>
  BY DEF BatchShape
<1> HIDE DEF S
<1>2. IsVec(b.leaves) /\ Len(b.leaves) \in Nat /\ DOMAIN b.leaves = 1 .. Len(b.leaves)
  BY <1>1, VecOfSeq, VecLen
<1>3. Len(b.leaves) >= 1
  BY <1>1, <1>2
<1>4. bad = {}
  <2> SUFFICES ASSUME bad # {} PROVE FALSE
    OBVIOUS
  <2>1. bad \subseteq Nat
    BY <1>2
  <2>2. \E i \in bad : First(i)
    <3> HIDE DEF bad
    <3> QED
      BY <2>1, LeastNumber
  <2> DEFINE i == CHOOSE i \in bad : First(i)
  <2>3. i \in bad
    <3> HIDE DEF bad, First
    <3> QED
      BY <2>2
  <2>4. LeavesError(b.leaves) = DecodeError(b.leaves[i])
    BY DEF LeavesError
  <2> HIDE DEF i
  <2> QED
    BY <2>3, <2>4 DEF DecodeError, Undecodable
<1>5. \A x \in Nodes(b.leaves) : \E body \in Bodies : x = DoubleSha256(body)
  <2> SUFFICES ASSUME NEW n \in 1 .. Len(b.leaves)
               PROVE  \E body \in Bodies : b.leaves[n] = DoubleSha256(body)
    BY <1>2 DEF Nodes
  <2>1. b.leaves[n] \in S
    BY <1>1, <1>2
  <2>2. b.leaves[n] \notin Undecodable
    BY <1>2, <1>4
  <2> QED
    BY <2>1, <2>2 DEF S
<1>6. \A body \in Bodies : IsDigest(DoubleSha256(body)) /\ NoParent(DoubleSha256(body))
  BY PipelineAssumption, ParentOfDigests DEF IsDigest, NoParent
<1> QED
  BY <1>2, <1>3, <1>5, <1>6 DEF IsLeaves

\* The batch that build_batch makes of a list of notes.
LEMMA BatchOfNotes ==
  ASSUME NEW l \in NotesFiles, BuildError(l) = "none"
  PROVE  /\ IsVec(l) /\ Len(l) >= 1 /\ \A x \in Nodes(l) : x \in Bodies /\ x # NotHex
         /\ IsVec(BatchOf(l).leaves) /\ Len(BatchOf(l).leaves) = Len(l)
         /\ \A i \in 1 .. Len(l) : BatchOf(l).leaves[i] = DoubleSha256(l[i])
         /\ BatchOf(l).root = MerkleRoot(BatchOf(l).leaves)
         /\ BatchShape(BatchOf(l)) /\ LeavesError(BatchOf(l).leaves) = "none"
<1> DEFINE S == Bodies \cup {NotHex}
           D == {DoubleSha256(body) : body \in Bodies}
           w == [i \in DOMAIN l |-> DoubleSha256(l[i])]
<1>1. l \in Seq(S) /\ l # <<>> /\ NotHex \notin Nodes(l)
  BY PipelineAssumption DEF BuildError
<1> HIDE DEF S
<1>2. IsVec(l) /\ Len(l) \in Nat /\ DOMAIN l = 1 .. Len(l)
  BY <1>1, VecOfSeq, VecLen
<1>3. Len(l) >= 1
  BY <1>1, <1>2
<1>4. \A i \in 1 .. Len(l) : l[i] \in Bodies /\ l[i] # NotHex
  <2> SUFFICES ASSUME NEW i \in 1 .. Len(l) PROVE l[i] \in Bodies /\ l[i] # NotHex
    OBVIOUS
  <2>1. l[i] \in S
    BY <1>1, <1>2
  <2>2. l[i] # NotHex
    BY <1>1, <1>2 DEF Nodes
  <2> QED
    BY <2>1, <2>2 DEF S
<1>5. w \in [1 .. Len(l) -> D] /\ \A i \in 1 .. Len(l) : w[i] = DoubleSha256(l[i])
  BY <1>2, <1>4
<1>6. BatchOf(l) = [leaves |-> w, root |-> MerkleRoot(w)]
  BY DEF BatchOf
<1> HIDE DEF w
<1>7. w \in Seq(D) /\ Len(w) = Len(l)
  BY <1>2, <1>5
<1>8. IsVec(w)
  <2> HIDE DEF D
  <2> QED
    BY <1>7, VecOfSeq
<1>9. w \in Seq(Undecodable \cup D)
  <2> HIDE DEF D
  <2>1. w \in [1 .. Len(l) -> Undecodable \cup D]
    BY <1>5
  <2> QED
    BY <1>2, <2>1
<1>10. LeavesError(w) = "none"
  <2>1. \A i \in DOMAIN w : IsDigest(w[i])
    BY <1>5 DEF IsDigest
  <2>2. {i \in DOMAIN w : w[i] \in Undecodable} = {}
    BY <2>1, DigestsDecode
  <2> QED
    BY <2>2 DEF LeavesError
<1>11. BatchShape(BatchOf(l))
  BY <1>3, <1>6, <1>7, <1>9 DEF BatchShape
<1> QED
  BY <1>2, <1>3, <1>4, <1>5, <1>6, <1>7, <1>8, <1>10, <1>11 DEF Nodes

\* In terms of At, and for the list as a whole.
LEMMA BatchOfNotesLeaves ==
  ASSUME NEW l \in NotesFiles, BuildError(l) = "none"
  PROVE  /\ IsLeaves(BatchOf(l).leaves) /\ BatchOf(l).root \notin Undecodable
         /\ \A i \in Nat : i < Len(l) =>
              At(BatchOf(l).leaves, i) = DoubleSha256(At(l, i)) /\ At(l, i) \in Nodes(l)
         /\ \A body : DoubleSha256(body) \in Nodes(BatchOf(l).leaves) => body \in Nodes(l)
<1> DEFINE w == BatchOf(l).leaves
<1>1. /\ IsVec(l) /\ Len(l) >= 1 /\ IsVec(w) /\ Len(w) = Len(l)
      /\ \A i \in 1 .. Len(l) : w[i] = DoubleSha256(l[i])
      /\ BatchOf(l).root = MerkleRoot(w)
  BY BatchOfNotes
<1>2. IsLeaves(w)
  BY BatchOfNotes, LeavesDecode
<1> HIDE DEF w
<1>3. BatchOf(l).root \notin Undecodable
  BY <1>1, <1>2, ProofsOfDigests, DigestsDecode DEF IsLeaves
<1>4. DOMAIN l = 1 .. Len(l) /\ DOMAIN w = 1 .. Len(l) /\ Len(l) \in Nat
  BY <1>1, VecLen
<1>5. ASSUME NEW i \in Nat, i < Len(l)
      PROVE  At(w, i) = DoubleSha256(At(l, i)) /\ At(l, i) \in Nodes(l)
  BY <1>1, <1>4, <1>5 DEF At, Nodes
<1>6. ASSUME NEW body, DoubleSha256(body) \in Nodes(w)
      PROVE  body \in Nodes(l)
  <2>1. PICK i \in 1 .. Len(l) : w[i] = DoubleSha256(body)
    BY <1>4, <1>6 DEF Nodes
  <2> QED
    BY <1>1, <1>4, <2>1 DEF DoubleSha256, Nodes
<1> QED
  BY <1>2, <1>3, <1>5, <1>6 DEF w

-----------------------------------------------------------------------------
(* What is read and written has its shape, and answers stay true *)

LEMMA ShapedInit == Init => Shaped
<1> SUFFICES ASSUME Init PROVE Shaped
  OBVIOUS
<1>1. \A name \in {"batch", "bundle"} : ~Parsed(name)
  BY DEF Init, Parsed, Unparsable
<1>2. \A p \in Processes : ProcessShaped(proc[p])
  BY DEF Init, ProcessShaped, Idle
<1>3. Answered /\ PanicOnlyIfEdited
  BY DEF Init, Answered, PanicOnlyIfEdited, Returned
<1> QED
  BY <1>1, <1>2, <1>3 DEF Init, Shaped

\* A step that takes the answer or leaves it where it is.
LEMMA AnswersKept ==
  ASSUME IInv, result' \in {result, NoResult}, edits' = 0 => edits = 0,
         anchored \subseteq anchored'
  PROVE  Answered' /\ PanicOnlyIfEdited'
<1>1. CASE result' = NoResult
  BY <1>1 DEF Answered, PanicOnlyIfEdited, Returned
<1>2. CASE result' = result
  <2>1. Answered'
    <3> SUFFICES ASSUME result # NoResult, result.call = "verify", result.returned # "unparsable"
                 PROVE  Answered'
      BY <1>2 DEF Answered
    <3>1. PICK b : b = result.bundle
      OBVIOUS
    <3>2. /\ BundleShape(b) /\ result.returned = VerifyBundle(b)
          /\ edits = 0 => IsWritten("bundle", b)
      BY <3>1 DEF IInv, Shaped, Answered
    <3>3. edits' = 0 => IsWritten("bundle", b)'
      BY <3>2, WrittenGrows
    <3>4. b = result'.bundle
      BY <1>2, <3>1
    <3> QED
      BY <1>2, <3>2, <3>3, <3>4 DEF Answered, IsWritten
  <2>2. PanicOnlyIfEdited'
    BY <1>2 DEF IInv, Shaped, PanicOnlyIfEdited, Returned
  <2> QED
    BY <2>1, <2>2
<1> QED
  BY <1>1, <1>2

\* The answer of anchor or prove: a panic of prove is none without an edit.
LEMMA AnswersOther ==
  ASSUME NEW call \in {"anchor", "prove"}, NEW returned, Return(call, returned),
         edits' = 0 => returned # "panic"
  PROVE  Answered' /\ PanicOnlyIfEdited'
BY DEF Return, Answered, PanicOnlyIfEdited, Returned

\* A step of one process, of one of the two files that commands write, or both.
LEMMA ShapeMoves ==
  ASSUME IInv, NEW p \in Processes, NEW next, Goto(p, next), ProcessShaped(next),
         \/ UNCHANGED file
         \/ \E name \in {"batch", "bundle"} : \E after :
              /\ file' = [file EXCEPT ![name] = after]
              /\ after \in Unparsable \/ ContentShape(name, after),
         \A l \in anchored' : BuildError(l) = "none",
         Answered', PanicOnlyIfEdited'
  PROVE  Shaped'
<1>1. /\ DOMAIN proc' = Processes /\ proc'[p] = next
      /\ \A q \in Processes : q # p => proc'[q] = proc[q]
  BY DEF Goto, IInv, Traced, TypeOK
<1>2. \A q \in Processes : ProcessShaped(proc'[q])
  BY <1>1, Zenon DEF IInv, Shaped
<1>3. ASSUME NEW n \in {"batch", "bundle"}, file'[n] \notin Unparsable
      PROVE  ContentShape(n, file'[n])
  <2>1. CASE file'[n] = file[n]
    BY <1>3, <2>1 DEF IInv, Shaped, Parsed
  <2>2. CASE file'[n] # file[n]
    BY <1>3, <2>2 DEF IInv, Traced, TypeOK
  <2> QED
    BY <2>1, <2>2
<1> QED
  BY <1>2, <1>3 DEF Shaped, Parsed

\* The list that anchor reads is one it does not refuse.
LEMMA AnchorReadShaped ==
  ASSUME IInv, NEW p \in Processes, AnchorRead(p)
  PROVE  Shaped'
<1>1. PICK next : next = Opening("batch", BatchOf(file["notes"]))
  OBVIOUS
<1>2. file["notes"] \in NotesFiles /\ BuildError(file["notes"]) = "none"
  BY DEF AnchorRead, Parsed, Unparsable, IInv, Traced, TypeOK
<1>3. ProcessShaped(next)
  BY <1>1, <1>2, BatchOfNotes DEF ProcessShaped, ContentShape, Opening
<1>4. Goto(p, next) /\ UNCHANGED <<file, result, edits>> /\ anchored' = anchored \cup {file["notes"]}
  BY <1>1 DEF AnchorRead
<1>5. Answered' /\ PanicOnlyIfEdited'
  BY <1>4, AnswersKept
<1>6. \A l \in anchored' : BuildError(l) = "none"
  BY <1>2, <1>4 DEF IInv, Shaped
<1> QED
  BY <1>3, <1>4, <1>5, <1>6, ShapeMoves

\* What prove reads from the batch file is a batch.
LEMMA ProveReadBatchShaped ==
  ASSUME IInv, NEW p \in Processes, NEW index \in Indices, ProveReadBatch(p, index)
  PROVE  Shaped'
<1>1. PICK next : next = [at |-> "notes", batch |-> file["batch"], index |-> index]
  OBVIOUS
<1>2. Goto(p, next) /\ UNCHANGED <<file, result, edits, anchored>>
  BY <1>1 DEF ProveReadBatch
<1>3. ProcessShaped(next)
  BY <1>1 DEF ProveReadBatch, IInv, Shaped, ProcessShaped, ContentShape
<1>4. Answered' /\ PanicOnlyIfEdited'
  BY <1>2, AnswersKept
<1>5. \A l \in anchored' : BuildError(l) = "none"
  BY <1>2 DEF IInv, Shaped
<1> QED
  BY <1>2, <1>3, <1>4, <1>5, ShapeMoves

\* prove makes a bundle only of leaves that decode, and within both lists.
LEMMA ProveReadNotesShaped ==
  ASSUME IInv, NEW p \in Processes, ProveReadNotes(p)
  PROVE  Shaped'
<1>1. PICK s : s = proc[p]
  OBVIOUS
<1>2. PICK next : next = Opening("bundle", Bundle(s.batch, file["notes"], s.index))
  OBVIOUS
<1>3. s.at = "notes" /\ s.index \in Indices /\ ProveError(s.batch, file["notes"], s.index) = "none"
  <2>1. ProcessShape(s)
    BY <1>1 DEF IInv, Traced, TypeOK
  <2> QED
    BY <1>1, <2>1 DEF ProveReadNotes, ProcessShape, Idle
<1>4. /\ file["notes"] \in NotesFiles /\ LeavesError(s.batch.leaves) = "none"
      /\ ~(s.index >= Len(s.batch.leaves)) /\ ~(s.index >= Len(file["notes"]))
  BY <1>3 DEF ProveError, Unparsable, IInv, Traced, TypeOK
<1>5. BatchShape(s.batch)
  BY <1>1, <1>3 DEF IInv, Shaped, ProcessShaped
<1>6. Len(s.batch.leaves) \in Nat
  BY <1>4, <1>5, LeavesDecode, VecLen DEF IsLeaves
<1>7. s.index < Len(s.batch.leaves) /\ s.index < Len(file["notes"])
  <2>1. Len(file["notes"]) \in Nat /\ s.index \in Nat
    BY <1>3, <1>4, BatchLength, PipelineAssumption
  <2> QED
    BY <2>1, <1>4, <1>6
<1>8. BundleShape(Bundle(s.batch, file["notes"], s.index))
  <2>1. Bundle(s.batch, file["notes"], s.index).batch = s.batch
    BY DEF Bundle
  <2> QED
    BY <2>1, <1>3, <1>4, <1>5, <1>7 DEF BundleShape
<1>9. ProcessShaped(next)
  BY <1>2, <1>8 DEF ProcessShaped, ContentShape, Opening
<1>10. Goto(p, next) /\ UNCHANGED <<file, result, edits, anchored>>
  BY <1>1, <1>2 DEF ProveReadNotes, counters
<1>11. Answered' /\ PanicOnlyIfEdited'
  BY <1>10, AnswersKept
<1>12. \A l \in anchored' : BuildError(l) = "none"
  BY <1>10 DEF IInv, Shaped
<1> QED
  BY <1>9, <1>10, <1>11, <1>12, ShapeMoves

\* prove refuses without a panic what no hand has changed.
LEMMA ProveRefusedShaped ==
  ASSUME IInv, NEW p \in Processes, ProveRefused(p)
  PROVE  Shaped'
<1>1. PICK s : s = proc[p]
  OBVIOUS
<1>2. PICK error : error = ProveError(s.batch, file["notes"], s.index)
  OBVIOUS
<1>3. Return("prove", error) /\ Goto(p, Idle) /\ UNCHANGED <<file, edits, anchored>> /\ s.at = "notes"
  BY <1>1, <1>2 DEF ProveRefused, counters
<1>4. edits' = 0 => error # "panic"
  <2> SUFFICES ASSUME edits = 0 PROVE error # "panic"
    BY <1>3
  <2>1. PICK l \in anchored : s.batch = BatchOf(l)
    BY <1>1, <1>3 DEF IInv, Traced, Provenance, FromOneList, IsWritten
  <2>2. l \in NotesFiles /\ BuildError(l) = "none"
    BY DEF IInv, Traced, Shaped, TypeOK
  <2>3. LeavesError(s.batch.leaves) = "none"
    BY <2>1, <2>2, BatchOfNotes
  <2> QED
    BY <1>2, <2>3 DEF ProveError
<1>5. Answered' /\ PanicOnlyIfEdited'
  BY <1>3, <1>4, AnswersOther
<1>6. ProcessShaped(Idle) /\ \A l \in anchored' : BuildError(l) = "none"
  BY <1>3 DEF ProcessShaped, Idle, IInv, Shaped
<1> QED
  BY <1>3, <1>5, <1>6, ShapeMoves

\* A command that ends otherwise, or that truncates or writes its file.
LEMMA CrashShaped ==
  ASSUME IInv, NEW p \in Processes, Crash(p)
  PROVE  Shaped'
<1>1. Goto(p, Idle) /\ UNCHANGED <<result, edits, anchored>>
  BY DEF Crash, Killed
<1>2. \/ UNCHANGED file
      \/ \E name \in {"batch", "bundle"} : \E after :
           /\ file' = [file EXCEPT ![name] = after]
           /\ after \in Unparsable \/ ContentShape(name, after)
  <2>1. ProcessShape(proc[p])
    BY DEF IInv, Traced, TypeOK
  <2> QED
    BY <2>1 DEF Crash, ProcessShape, Idle, Unparsable
<1>3. Answered' /\ PanicOnlyIfEdited'
  BY <1>1, AnswersKept
<1>4. ProcessShaped(Idle) /\ \A l \in anchored' : BuildError(l) = "none"
  BY <1>1 DEF ProcessShaped, Idle, IInv, Shaped
<1> QED
  BY <1>1, <1>2, <1>3, <1>4, ShapeMoves

LEMMA TruncateShaped ==
  ASSUME IInv, NEW p \in Processes, Truncate(p)
  PROVE  Shaped'
<1>1. PICK s : s = proc[p]
  OBVIOUS
<1>2. PICK next : next = [s EXCEPT !.at = "write"]
  OBVIOUS
<1>3. /\ s.at = "open" /\ s.file \in {"batch", "bundle"}
      /\ s = [at |-> "open", file |-> s.file, content |-> s.content]
  <2>1. ProcessShape(s)
    BY <1>1 DEF IInv, Traced, TypeOK
  <2> QED
    BY <1>1, <2>1 DEF Truncate, ProcessShape, Idle
<1>4. next.at = "write" /\ next.file = s.file /\ next.content = s.content
  BY <1>2, <1>3
<1>5. ProcessShaped(next)
  BY <1>1, <1>3, <1>4 DEF IInv, Shaped, ProcessShaped
<1>6. /\ Goto(p, next) /\ UNCHANGED <<result, edits, anchored>>
      /\ file' = [file EXCEPT ![s.file] = Empty]
  BY <1>1, <1>2 DEF Truncate, counters
<1>7. Answered' /\ PanicOnlyIfEdited'
  BY <1>6, AnswersKept
<1>8. Empty \in Unparsable /\ \A l \in anchored' : BuildError(l) = "none"
  BY <1>6 DEF Unparsable, IInv, Shaped
<1> QED
  BY <1>3, <1>5, <1>6, <1>7, <1>8, ShapeMoves

LEMMA WriteShaped ==
  ASSUME IInv, NEW p \in Processes, Write(p)
  PROVE  Shaped'
<1>1. PICK s : s = proc[p]
  OBVIOUS
<1>2. PICK after : after \in {s.content, Garbled} /\ file' = [file EXCEPT ![s.file] = after]
  BY <1>1 DEF Write, Overlaid
<1>3. s.at = "write" /\ s.file \in {"batch", "bundle"}
  <2>1. ProcessShape(s)
    BY <1>1 DEF IInv, Traced, TypeOK
  <2> QED
    BY <1>1, <2>1 DEF Write, ProcessShape, Idle
<1>4. after \in Unparsable \/ ContentShape(s.file, after)
  BY <1>1, <1>2, <1>3 DEF IInv, Shaped, ProcessShaped, Unparsable
<1>5. /\ Goto(p, Idle) /\ UNCHANGED <<edits, anchored>>
      /\ Return(IF s.file = "batch" THEN "anchor" ELSE "prove", "Ok")
  BY <1>1 DEF Write, counters
<1>6. Answered' /\ PanicOnlyIfEdited'
  BY <1>5, AnswersOther
<1>7. ProcessShaped(Idle) /\ \A l \in anchored' : BuildError(l) = "none"
  BY <1>5 DEF ProcessShaped, Idle, IInv, Shaped
<1> QED
  BY <1>2, <1>3, <1>4, <1>5, <1>6, <1>7, ShapeMoves

\* A batch whose string is changed is still a batch.
LEMMA EditBatchShaped ==
  ASSUME IInv, EditBatch
  PROVE  Shaped'
<1> DEFINE S == Undecodable \cup {DoubleSha256(body) : body \in Bodies}
<1>1. /\ UNCHANGED <<proc, result, anchored>> /\ edits' # 0
      /\ Parsed("batch") /\ DOMAIN file = {"notes", "batch", "bundle"}
  BY PipelineAssumption DEF EditBatch, IInv, Traced, TypeOK
<1>2. PICK b : b = file["batch"]
  OBVIOUS
<1>3. BatchShape(b)
  BY <1>1, <1>2 DEF IInv, Shaped, ContentShape
<1>4. PICK c : c = file'["batch"]
  OBVIOUS
<1>5. /\ file'["bundle"] = file["bundle"]
      /\ \/ \E i \in DOMAIN b.leaves, s \in S : c = [b EXCEPT !.leaves[i] = s]
         \/ \E s : c = [b EXCEPT !.root = s]
  <2>1. \/ \E i \in DOMAIN b.leaves, s \in S : file' = [file EXCEPT !["batch"].leaves[i] = s]
        \/ \E s : file' = [file EXCEPT !["batch"].root = s]
    BY <1>2 DEF EditBatch
  <2>2. ASSUME NEW i \in DOMAIN b.leaves, NEW s \in S, file' = [file EXCEPT !["batch"].leaves[i] = s]
        PROVE  c = [b EXCEPT !.leaves[i] = s] /\ file'["bundle"] = file["bundle"]
    BY <1>1, <1>2, <1>4, <2>2
  <2>3. ASSUME NEW s, file' = [file EXCEPT !["batch"].root = s]
        PROVE  c = [b EXCEPT !.root = s] /\ file'["bundle"] = file["bundle"]
    BY <1>1, <1>2, <1>4, <2>3
  <2> QED
    BY <2>1, <2>2, <2>3
<1>6. BatchShape(c)
  <2> HIDE DEF S
  <2>1. b.leaves \in Seq(S) /\ b.leaves # <<>> /\ b = [leaves |-> b.leaves, root |-> b.root]
    BY <1>3 DEF BatchShape, S
  <2>2. CASE \E s : c = [b EXCEPT !.root = s]
    BY <2>1, <2>2 DEF BatchShape, S
  <2>3. ASSUME NEW i \in DOMAIN b.leaves, NEW s \in S, c = [b EXCEPT !.leaves[i] = s]
        PROVE  BatchShape(c)
    <3>1. c = [leaves |-> [b.leaves EXCEPT ![i] = s], root |-> b.root]
      BY <2>1, <2>3
    <3>2. [b.leaves EXCEPT ![i] = s] \in Seq(S) /\ [b.leaves EXCEPT ![i] = s] # <<>>
      BY <2>1, <2>3
    <3> QED
      BY <3>1, <3>2 DEF BatchShape, S
  <2> QED
    BY <1>5, <2>2, <2>3
<1>7. \A n \in {"batch", "bundle"} : Parsed(n)' => ContentShape(n, file'[n])
  BY <1>4, <1>6, <1>5 DEF IInv, Shaped, Parsed, ContentShape
<1>8. PanicOnlyIfEdited' /\ Answered'
  BY <1>1 DEF PanicOnlyIfEdited, IInv, Shaped, Answered
<1> QED
  BY <1>1, <1>7, <1>8 DEF IInv, Shaped

\* verify answers for the bundle that it has read.
LEMMA VerifyShaped ==
  ASSUME IInv, Verify
  PROVE  Shaped'
<1>1. UNCHANGED <<file, proc, anchored, edits>>
  BY DEF Verify, counters
<1>2. CASE ~Parsed("bundle")
  <2>1. result' = [call |-> "verify", returned |-> "unparsable"]
    BY <1>2 DEF Verify
  <2>2. Answered' /\ PanicOnlyIfEdited'
    BY <2>1 DEF Answered, PanicOnlyIfEdited, Returned
  <2> QED
    BY <1>1, <2>2 DEF IInv, Shaped, Parsed
<1>3. CASE Parsed("bundle")
  <2>1. PICK b : b = file["bundle"]
    OBVIOUS
  <2>2. result' = [call |-> "verify", returned |-> VerifyBundle(b), bundle |-> b]
    BY <1>3, <2>1 DEF Verify
  <2>3. BundleShape(b) /\ (edits = 0 => IsWritten("bundle", b))
    BY <1>3, <2>1 DEF IInv, Traced, WholeFiles, Shaped, ContentShape
  <2>4. Answered'
    BY <1>1, <2>2, <2>3 DEF Answered, IsWritten
  <2>5. edits = 0 => VerifyBundle(b) # "panic"
    <3> SUFFICES ASSUME edits = 0 PROVE VerifyBundle(b) # "panic"
      OBVIOUS
    <3>1. PICK l \in anchored : b.batch = BatchOf(l)
      BY <2>3 DEF IsWritten, Bundle
    <3>2. l \in NotesFiles /\ BuildError(l) = "none"
      BY DEF IInv, Traced, Shaped, TypeOK
    <3>3. DecodeError(b.batch.root) = "none"
      BY <3>1, <3>2, BatchOfNotesLeaves DEF DecodeError, Undecodable
    <3> QED
      BY <3>3 DEF VerifyBundle, VerifyProof
  <2>6. PanicOnlyIfEdited'
    BY <1>1, <2>2, <2>5 DEF PanicOnlyIfEdited, Returned
  <2> QED
    BY <1>1, <2>4, <2>6 DEF IInv, Shaped, Parsed
<1> QED
  BY <1>2, <1>3

\* Every step keeps the shapes.
LEMMA ShapedStep == IInv /\ [Next]_vars => Shaped'
<1> SUFFICES ASSUME IInv, [Next]_vars PROVE Shaped'
  OBVIOUS
<1>1. ASSUME UNCHANGED <<proc, anchored, edits>>, Answered', PanicOnlyIfEdited',
             \A name \in {"batch", "bundle"} : file'[name] = file[name]
      PROVE  Shaped'
  BY <1>1 DEF IInv, Shaped, Parsed
<1>2. CASE UNCHANGED vars \/ Notice
  BY <1>1, <1>2, AnswersKept DEF vars, counters, Notice
<1>3. ASSUME NEW notes \in NotesFiles, ReplaceNotes(notes) PROVE Shaped'
  <2>1. /\ UNCHANGED <<proc, result, anchored, edits>>
        /\ \A name \in {"batch", "bundle"} : file'[name] = file[name]
    BY <1>3 DEF ReplaceNotes, counters, IInv, Traced, TypeOK
  <2> QED
    BY <1>1, <2>1, AnswersKept
<1>4. ASSUME NEW p \in Processes, AnchorRefused(p) \/ ProveRefusedBatch(p) PROVE Shaped'
  <2>1. UNCHANGED <<file, proc, anchored, edits>>
    BY <1>4 DEF AnchorRefused, ProveRefusedBatch
  <2>2. \E call \in {"anchor", "prove"} : \E returned :
         Return(call, returned) /\ returned # "panic"
    BY <1>4 DEF AnchorRefused, ProveRefusedBatch, BuildError
  <2> QED
    BY <1>1, <2>1, <2>2, AnswersOther
<1> QED
  BY <1>2, <1>3, <1>4, AnchorReadShaped, ProveReadBatchShaped, ProveReadNotesShaped,
     ProveRefusedShaped, CrashShaped, TruncateShaped, WriteShaped, EditBatchShaped,
     VerifyShaped DEF Next

-----------------------------------------------------------------------------
(* What follows from the invariant *)

\* A bundle that was read is one of leaves that no parent is, of a note, and of
\* an index within them.
LEMMA BundleParts ==
  ASSUME NEW c, BundleShape(c)
  PROVE  /\ IsLeaves(c.batch.leaves) /\ c.leaf_index \in Nat
         /\ c.leaf_index < Len(c.batch.leaves) /\ c.total_leaves = Len(c.batch.leaves)
         /\ c.siblings = BuildProof(c.batch.leaves, c.leaf_index)
         /\ Len(c.siblings) \in Nat
         /\ c.body \in Bodies \cup {NotHex}
<1>1. IsLeaves(c.batch.leaves)
  BY LeavesDecode DEF BundleShape
<1>2. PICK n \in NotesFiles, i \in Indices :
         i < Len(n) /\ i < Len(c.batch.leaves) /\ c = Bundle(c.batch, n, i)
  BY DEF BundleShape
<1>3. /\ c.body = At(n, i) /\ c.leaf_index = i /\ c.total_leaves = Len(c.batch.leaves)
      /\ c.siblings = BuildProof(c.batch.leaves, i)
  BY <1>2 DEF Bundle
<1>4. i \in Nat /\ n \in Seq(Bodies \cup {NotHex})
  BY PipelineAssumption
<1>5. At(n, i) \in Bodies \cup {NotHex}
  <2>1. i + 1 \in 1 .. Len(n)
    BY <1>2, <1>4
  <2> QED
    BY <1>4, <2>1 DEF At
<1>6. Len(BuildProof(c.batch.leaves, i)) \in Nat
  BY <1>1, <1>2, <1>4, ProofSiblings, VecLen DEF IsLeaves
<1> QED
  BY <1>1, <1>2, <1>3, <1>4, <1>5, <1>6

LEMMA AcceptedFromInv == IInv => AcceptedWasAnchored
<1> SUFFICES ASSUME IInv, Returned("verify", "Ok") PROVE AcceptedWasAnchored
  BY DEF AcceptedWasAnchored
<1> DEFINE b == result.bundle
           lists == {l \in anchored : BatchOf(l).root = b.batch.root}
<1>1. /\ BundleShape(b) /\ VerifyBundle(b) = "Ok"
      /\ edits = 0 => IsWritten("bundle", b)
  BY DEF IInv, Shaped, Answered, Returned
<1> HIDE DEF b
<1>2. /\ IsLeaves(b.batch.leaves) /\ b.leaf_index \in Nat
      /\ b.leaf_index < Len(b.batch.leaves) /\ Len(b.siblings) \in Nat
      /\ b.body \in Bodies \cup {NotHex}
  BY <1>1, BundleParts
<1>3. /\ b.body # NotHex
      /\ VerifyProof(b.leaf_index, b.total_leaves, b.siblings, DoubleSha256(b.body),
                     b.batch.root) = "Ok"
  BY <1>1 DEF VerifyBundle, DecodeError
<1>4. NoParent(DoubleSha256(b.body))
  BY <1>2, <1>3, PipelineAssumption, ParentOfDigests DEF NoParent
<1>5. ASSUME NEW l \in lists
      PROVE  /\ b.body \in Nodes(l)
             /\ b.leaf_index < Len(l) => At(l, b.leaf_index) = b.body
  <2>1. l \in NotesFiles /\ BuildError(l) = "none"
    BY DEF IInv, Traced, Shaped, TypeOK
  <2>2. PICK w : w = BatchOf(l).leaves
    OBVIOUS
  <2>3. IsLeaves(w) /\ MerkleRoot(w) = b.batch.root /\ Len(w) = Len(l)
    BY <2>1, <2>2, BatchOfNotes, BatchOfNotesLeaves
  <2>4. /\ DoubleSha256(b.body) \in Nodes(w)
        /\ b.leaf_index < Len(w) => DoubleSha256(b.body) = At(w, b.leaf_index)
    BY <1>2, <1>3, <1>4, <2>3, VerifyNames
  <2>5. b.body \in Nodes(l)
    BY <2>1, <2>2, <2>4, BatchOfNotesLeaves
  <2>6. b.leaf_index < Len(l) => DoubleSha256(b.body) = DoubleSha256(At(l, b.leaf_index))
    BY <1>2, <2>1, <2>2, <2>3, <2>4, BatchOfNotesLeaves
  <2> QED
    BY <2>5, <2>6 DEF DoubleSha256
<1>6. ASSUME edits = 0 PROVE \E l \in lists : b.leaf_index < Len(l)
  <2>1. PICK l \in anchored : b.batch = BatchOf(l)
    BY <1>1, <1>6 DEF IsWritten, Bundle
  <2>2. l \in NotesFiles /\ BuildError(l) = "none"
    BY DEF IInv, Traced, Shaped, TypeOK
  <2> QED
    BY <1>2, <2>1, <2>2, BatchOfNotes
<1> QED
  BY <1>5, <1>6 DEF AcceptedWasAnchored, b

LEMMA OwnNoteFromInv == IInv => VerifiesOwnNote
<1> SUFFICES ASSUME IInv, result # NoResult, result.call = "verify",
                    result.returned # "unparsable", NEW l \in anchored,
                    result.bundle.batch = BatchOf(l)
             PROVE  result.returned = "Ok" <=> At(l, result.bundle.leaf_index) = result.bundle.body
  BY DEF VerifiesOwnNote
<1> DEFINE b == result.bundle
           w == BatchOf(l).leaves
           i == b.leaf_index
<1>1. BundleShape(b) /\ result.returned = VerifyBundle(b) /\ b.batch = BatchOf(l)
  BY DEF IInv, Shaped, Answered
<1>2. l \in NotesFiles /\ BuildError(l) = "none"
  BY DEF IInv, Traced, Shaped, TypeOK
<1>3. /\ IsLeaves(w) /\ Len(w) = Len(l) /\ b.batch.root = MerkleRoot(w)
      /\ b.batch.root \notin Undecodable
  BY <1>1, <1>2, BatchOfNotes, BatchOfNotesLeaves
<1> HIDE DEF b
<1>4. /\ i \in Nat /\ i < Len(w) /\ b.total_leaves = Len(w) /\ b.siblings = BuildProof(w, i)
  BY <1>1, BundleParts
<1> HIDE DEF w, i
<1>5. VerifyProof(i, Len(w), BuildProof(w, i), DoubleSha256(b.body), MerkleRoot(w))
        = IF DoubleSha256(b.body) = At(w, i) THEN "Ok" ELSE "RootMismatch"
  BY <1>3, <1>4, VerifyOwnProof DEF IsLeaves
<1>6. DecodeError(b.batch.root) = "none"
  BY <1>3 DEF DecodeError, Undecodable
<1>7. VerifyProof(b.leaf_index, b.total_leaves, b.siblings, DoubleSha256(b.body), b.batch.root)
        = IF DoubleSha256(b.body) = At(w, i) THEN "Ok" ELSE "RootMismatch"
  BY <1>3, <1>4, <1>5 DEF i
<1>8. VerifyBundle(b) = IF b.body = NotHex THEN "not hexadecimal"
                        ELSE IF DoubleSha256(b.body) = At(w, i) THEN "Ok" ELSE "RootMismatch"
  BY <1>6, <1>7 DEF VerifyBundle
<1>9. At(w, i) = DoubleSha256(At(l, i)) /\ At(l, i) # NotHex
  BY <1>2, <1>3, <1>4, BatchOfNotes, BatchOfNotesLeaves DEF w
<1>10. DoubleSha256(b.body) = DoubleSha256(At(l, i)) <=> b.body = At(l, i)
  BY DEF DoubleSha256
<1>11. VerifyBundle(b) = "Ok" <=> At(l, i) = b.body
  BY <1>8, <1>9, <1>10
<1> QED
  BY <1>1, <1>11 DEF b, i

LEMMA RootsFromInv == IInv => RootNamesNotes
<1> SUFFICES ASSUME IInv, NEW l \in anchored, NEW m \in anchored,
                    BatchOf(l).root = BatchOf(m).root
             PROVE  Nodes(l) = Nodes(m) /\ \A i \in DOMAIN l \cap DOMAIN m : l[i] = m[i]
  BY DEF RootNamesNotes
<1>1. \A k \in anchored : k \in NotesFiles /\ BuildError(k) = "none"
  BY DEF IInv, Traced, Shaped, TypeOK
<1>2. ASSUME NEW k \in anchored, NEW n \in anchored, BatchOf(k).root = BatchOf(n).root
      PROVE  /\ Nodes(k) \subseteq Nodes(n)
             /\ \A i \in DOMAIN k \cap DOMAIN n : k[i] = n[i]
  <2>1. PICK v, w : v = BatchOf(k).leaves /\ w = BatchOf(n).leaves
    OBVIOUS
  <2>2. /\ IsLeaves(v) /\ IsLeaves(w) /\ MerkleRoot(v) = MerkleRoot(w)
        /\ Len(v) = Len(k) /\ Len(w) = Len(n) /\ IsVec(k) /\ IsVec(n)
        /\ \A i \in 1 .. Len(k) : v[i] = DoubleSha256(k[i])
        /\ \A i \in 1 .. Len(n) : w[i] = DoubleSha256(n[i])
    BY <1>1, <1>2, <2>1, BatchOfNotes, BatchOfNotesLeaves
  <2>3. /\ Nodes(v) \subseteq Nodes(w)
        /\ \A i \in Nat : i < Len(v) /\ i < Len(w) => At(v, i) = At(w, i)
    BY <2>2, RootNamesLeaves
  <2>4. DOMAIN k = 1 .. Len(k) /\ DOMAIN n = 1 .. Len(n) /\ Len(k) \in Nat /\ Len(n) \in Nat
        /\ DOMAIN v = 1 .. Len(k)
    BY <2>2, VecLen DEF IsLeaves
  <2>5. ASSUME NEW i \in DOMAIN k \cap DOMAIN n PROVE k[i] = n[i]
    <3> DEFINE j == i - 1
    <3>1. j \in Nat /\ j < Len(v) /\ j < Len(w) /\ j + 1 = i
      BY <2>2, <2>4
    <3>2. v[i] = w[i]
      <4> HIDE DEF j
      <4> QED
        BY <2>3, <3>1 DEF At
    <3>3. DoubleSha256(k[i]) = DoubleSha256(n[i])
      BY <2>2, <2>4, <3>2
    <3> QED
      BY <3>3 DEF DoubleSha256
  <2>6. ASSUME NEW i \in DOMAIN k PROVE k[i] \in Nodes(n)
    <3>1. DoubleSha256(k[i]) \in Nodes(w)
      BY <2>2, <2>3, <2>4 DEF Nodes
    <3> QED
      BY <1>1, <2>1, <3>1, BatchOfNotesLeaves
  <2> QED
    BY <2>5, <2>6 DEF Nodes
<1>3. Nodes(l) \subseteq Nodes(m) /\ Nodes(m) \subseteq Nodes(l)
  BY <1>2
<1>4. \A i \in DOMAIN l \cap DOMAIN m : l[i] = m[i]
  BY <1>2
<1> QED
  BY <1>3, <1>4

-----------------------------------------------------------------------------
\* For any number of commands, side by side and killed at any point: what a file
\* holds and a process has read or will write comes from one list of notes that
\* build_batch took, as long as nobody changes a string by hand; and whatever is
\* changed, it stays a batch or a bundle, and answers are those of the calls.
THEOREM Invariant == Spec => []IInv
<1>1. Init => IInv
  BY TracedInit, ShapedInit DEF IInv
<1>2. IInv /\ [Next]_vars => IInv'
  BY TracedStep, ShapedStep DEF IInv
<1> QED
  BY <1>1, <1>2, PTL DEF Spec

\* The types of files, processes and counters.
THEOREM TypeCorrect == Spec => []TypeOK
<1>1. IInv => TypeOK
  BY DEF IInv, Traced
<1> QED
  BY <1>1, Invariant, PTL

\* A batch or bundle file that parses was written as a whole by one command.
THEOREM FilesWhole == Spec => []WholeFiles
<1>1. IInv => WholeFiles
  BY DEF IInv, Traced
<1> QED
  BY <1>1, Invariant, PTL

\* What cmd_verify accepts under the root of a batch that was anchored is a note
\* of it, and the one at its index, for lists of every length.
THEOREM AcceptedAnchored == Spec => []AcceptedWasAnchored
BY Invariant, AcceptedFromInv, PTL

\* A bundle on a batch as build_batch made it verifies if and only if its note is
\* the batch's own at that index.
THEOREM OwnNoteVerifies == Spec => []VerifiesOwnNote
BY Invariant, OwnNoteFromInv, PTL

\* No command panics over files that no hand has changed.
THEOREM NoPanic == Spec => []PanicOnlyIfEdited
<1>1. IInv => PanicOnlyIfEdited
  BY DEF IInv, Shaped
<1> QED
  BY <1>1, Invariant, PTL

\* A root stands for one set of notes and for one note at each index.
THEOREM RootsNameNotes == Spec => []RootNamesNotes
BY Invariant, RootsFromInv, PTL
=============================================================================
