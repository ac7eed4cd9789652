------------------------------ MODULE Pipeline ------------------------------
(***************************************************************************)
(* The anchor, prove and verify commands (crates/cli) over the files that  *)
(* are all they share: the notes somebody keeps, the batch that anchor     *)
(* writes, and the bundle of batch, note and proof that prove writes and   *)
(* verify reads.  Commands run side by side.  A read is a step, a write is *)
(* two -- fs::write truncates, then writes -- and a command may be killed  *)
(* at any point.  Meanwhile the notes file is replaced, and a string in    *)
(* the batch file may be changed by hand.                                  *)
(***************************************************************************)
EXTENDS MerkleCalls

CONSTANTS
  Processes,    \* commands that run at the same time
  Bodies,       \* note bodies
  NotesFiles,   \* what the notes file may list: bodies, or a string that is not
  Indices,      \* values of --leaf-index
  MaxCommands,  \* anchor and prove runs (this and the next two: model bounds)
  MaxCrashes,
  MaxEdits      \* strings changed by hand in the batch file

ASSUME PipelineAssumption ==
  /\ \A b \in Bodies : b.len # 2 * HASH_LEN
  /\ \A l \in NotesFiles : l \in Seq(Bodies \cup {NotHex})
  /\ Indices \subseteq Nat
  /\ {MaxCommands, MaxCrashes, MaxEdits} \subseteq Nat

VARIABLES
  file,      \* what each file holds
  proc,      \* what each process is about to do, and its locals
  result,    \* what a command returned, until it is noticed
  started, crashes, edits,  \* counters of the bounds
  anchored   \* observer: the lists of notes that build_batch made a batch of

counters == <<started, crashes, edits>>
vars == <<file, proc, result, counters, anchored>>

Missing == [unread |-> "missing"]
Empty == [unread |-> "empty"]
Garbled == [unread |-> "garbled"]
Unparsable == {Missing, Empty, Garbled}

Idle == [at |-> "idle"]
NoResult == [call |-> "none"]

-----------------------------------------------------------------------------
(* AnchoredBatch and ProofBundle, and the calls on them *)

BatchOf(notes) ==
  LET leaves == [i \in DOMAIN notes |-> DoubleSha256(notes[i])]
  IN  [leaves |-> leaves, root |-> MerkleRoot(leaves)]

\* What build_batch says of a list of notes.
BuildError(notes) ==
  IF notes = <<>> THEN "EmptyBatch"
  ELSE IF NotHex \in Nodes(notes) THEN "BadHex" ELSE "none"

\* A string that should be 32 bytes in hexadecimal: one that is not hexadecimal
\* is refused, one that is too short or too long panics in copy_from_slice.
DecodeError(string) ==
  IF string = NotHex THEN "BadHex" ELSE IF string = WrongLength THEN "panic" ELSE "none"

\* The first leaf that does not decode ends the call.
LeavesError(leaves) ==
  LET bad == {i \in DOMAIN leaves : leaves[i] \in Undecodable}
  IN  IF bad = {} THEN "none"
      ELSE DecodeError(leaves[CHOOSE i \in bad : \A j \in bad : i <= j])

\* Mutation: notes[leaf_index] instead of notes.get(leaf_index).
ProveErrorIndexing(batch, notes, index) ==
  IF notes \in Unparsable THEN "unparsable"
  ELSE IF LeavesError(batch.leaves) # "none" THEN LeavesError(batch.leaves)
  ELSE IF index >= Len(batch.leaves) THEN "IndexOutOfRange"
  ELSE IF index >= Len(notes) THEN "panic" ELSE "none"

\* What cmd_prove says of a batch, the notes file and an index.
ProveError(batch, notes, index) ==
  IF notes \in Unparsable THEN "unparsable"
  ELSE IF LeavesError(batch.leaves) # "none" THEN LeavesError(batch.leaves)
  ELSE IF index >= Len(batch.leaves) THEN "IndexOutOfRange"
  ELSE IF index >= Len(notes) THEN "leaf_index out of range" ELSE "none"

\* Mutation: the leaf count of the notes file, not of the batch.
BundleCountsNotes(batch, notes, index) ==
  [batch |-> batch, body |-> At(notes, index), leaf_index |-> index,
   total_leaves |-> Len(notes), siblings |-> BuildProof(batch.leaves, index)]

Bundle(batch, notes, index) ==
  [batch |-> batch, body |-> At(notes, index), leaf_index |-> index,
   total_leaves |-> Len(batch.leaves), siblings |-> BuildProof(batch.leaves, index)]

\* Mutation: the leaf is taken from the bundle's batch instead of its note.
VerifyStoredLeaf(b) ==
  IF b.body = NotHex THEN "not hexadecimal"
  ELSE IF DecodeError(b.batch.root) # "none" THEN DecodeError(b.batch.root)
  ELSE VerifyProof(b.leaf_index, b.total_leaves, b.siblings,
                   At(b.batch.leaves, b.leaf_index), b.batch.root)

\* cmd_verify of a bundle: its own batch gives the root.
VerifyBundle(b) ==
  IF b.body = NotHex THEN "not hexadecimal"
  ELSE IF DecodeError(b.batch.root) # "none" THEN DecodeError(b.batch.root)
  ELSE VerifyProof(b.leaf_index, b.total_leaves, b.siblings,
                   DoubleSha256(b.body), b.batch.root)

-----------------------------------------------------------------------------
(* The commands *)

Return(call, returned) ==
  result = NoResult /\ result' = [call |-> call, returned |-> returned]

\* A command begins: anchor and prove count towards the bound.
Begin(p) == proc[p] = Idle /\ started < MaxCommands /\ started' = started + 1

Goto(p, next) == proc' = [proc EXCEPT ![p] = next]

Opening(name, content) == [at |-> "open", file |-> name, content |-> content]

Parsed(name) == file[name] \notin Unparsable

AnchorRefused(p) ==
  /\ Begin(p)
  /\ IF Parsed("notes")
       THEN BuildError(file["notes"]) # "none" /\ Return("anchor", BuildError(file["notes"]))
       ELSE Return("anchor", "unparsable")
  /\ UNCHANGED <<file, proc, crashes, edits, anchored>>

\* Mutation: --out and --notes exchanged.
AnchorReadOverNotes(p) ==
  /\ Begin(p)
  /\ Parsed("notes") /\ BuildError(file["notes"]) = "none"
  /\ Goto(p, Opening("notes", BatchOf(file["notes"])))
  /\ anchored' = anchored \cup {file["notes"]}
  /\ UNCHANGED <<file, result, crashes, edits>>

\* The notes are read and the batch is built; it is not in its file yet.
AnchorRead(p) ==
  /\ Begin(p)
  /\ Parsed("notes") /\ BuildError(file["notes"]) = "none"
  /\ Goto(p, Opening("batch", BatchOf(file["notes"])))
  /\ anchored' = anchored \cup {file["notes"]}
  /\ UNCHANGED <<file, result, crashes, edits>>

ProveRefusedBatch(p) ==
  /\ Begin(p)
  /\ ~Parsed("batch") /\ Return("prove", "unparsable")
  /\ UNCHANGED <<file, proc, crashes, edits, anchored>>

ProveReadBatch(p, index) ==
  /\ Begin(p)
  /\ Parsed("batch")
  /\ Goto(p, [at |-> "notes", batch |-> file["batch"], index |-> index])
  /\ UNCHANGED <<file, result, crashes, edits, anchored>>

ProveRefused(p) ==
  /\ proc[p].at = "notes"
  /\ LET error == ProveError(proc[p].batch, file["notes"], proc[p].index) IN
     error # "none" /\ Return("prove", error)
  /\ Goto(p, Idle)
  /\ UNCHANGED <<file, counters, anchored>>

\* Mutation: the batch is read again for the bundle, after its proof is made.
ProveReadsBatchAgain(p) ==
  /\ proc[p].at = "notes" /\ Parsed("batch")
  /\ ProveError(proc[p].batch, file["notes"], proc[p].index) = "none"
  /\ LET bundle == Bundle(proc[p].batch, file["notes"], proc[p].index) IN
     Goto(p, Opening("bundle", [bundle EXCEPT !.batch = file["batch"]]))
  /\ UNCHANGED <<file, result, counters, anchored>>

\* The notes are read after the batch, and nothing compares the two.
ProveReadNotes(p) ==
  /\ proc[p].at = "notes"
  /\ ProveError(proc[p].batch, file["notes"], proc[p].index) = "none"
  /\ Goto(p, Opening("bundle", Bundle(proc[p].batch, file["notes"], proc[p].index)))
  /\ UNCHANGED <<file, result, counters, anchored>>

Verify ==
  /\ result = NoResult
  /\ result' = IF Parsed("bundle")
                 THEN [call |-> "verify", returned |-> VerifyBundle(file["bundle"]),
                       bundle |-> file["bundle"]]
                 ELSE [call |-> "verify", returned |-> "unparsable"]
  /\ UNCHANGED <<file, proc, counters, anchored>>

-----------------------------------------------------------------------------
(* fs::write, the user and the machine *)

Truncate(p) ==
  /\ proc[p].at = "open"
  /\ file' = [file EXCEPT ![proc[p].file] = Empty]
  /\ Goto(p, [proc[p] EXCEPT !.at = "write"])
  /\ UNCHANGED <<result, counters, anchored>>

\* Bytes written at the start of a file that another command has written to
\* since it was truncated may leave the end of what was there.
Overlaid(present, content) ==
  IF present \in {Empty, content} THEN {content} ELSE {content, Garbled}

Write(p) ==
  /\ proc[p].at = "write"
  /\ \E after \in Overlaid(file[proc[p].file], proc[p].content) :
       file' = [file EXCEPT ![proc[p].file] = after]
  /\ Return(IF proc[p].file = "batch" THEN "anchor" ELSE "prove", "Ok")
  /\ Goto(p, Idle)
  /\ UNCHANGED <<counters, anchored>>

Killed(p) ==
  /\ proc[p] # Idle /\ crashes < MaxCrashes
  /\ crashes' = crashes + 1
  /\ Goto(p, Idle)
  /\ UNCHANGED <<result, started, edits, anchored>>

\* A killed command, or one whose disk is full, may have written a part.
Crash(p) ==
  /\ Killed(p)
  /\ \/ UNCHANGED file
     \/ /\ proc[p].at = "write"
        /\ file' = [file EXCEPT ![proc[p].file] = Garbled]

ReplaceNotes(notes) ==
  /\ file' = [file EXCEPT !["notes"] = notes]
  /\ UNCHANGED <<proc, result, counters, anchored>>

\* What a string of the batch file may be changed to.
ForgedRoots == {BatchOf(l).root : l \in {m \in NotesFiles : BuildError(m) = "none"}}

EditBatch ==
  /\ Parsed("batch") /\ edits < MaxEdits
  /\ edits' = edits + 1
  /\ \/ \E i \in DOMAIN file["batch"].leaves, s \in Undecodable \cup {DoubleSha256(b) : b \in Bodies} :
          file' = [file EXCEPT !["batch"].leaves[i] = s]
     \/ \E s \in Undecodable \cup ForgedRoots :
          file' = [file EXCEPT !["batch"].root = s]
  /\ UNCHANGED <<proc, result, started, crashes, anchored>>

Notice ==
  /\ result # NoResult /\ result' = NoResult
  /\ UNCHANGED <<file, proc, counters, anchored>>

Init ==
  /\ file = [name \in {"notes", "batch", "bundle"} |-> Missing]
  /\ proc = [p \in Processes |-> Idle]
  /\ result = NoResult /\ anchored = {}
  /\ started = 0 /\ crashes = 0 /\ edits = 0

Next ==
  \/ \E p \in Processes :
       \/ AnchorRefused(p) \/ AnchorRead(p)
       \/ ProveRefusedBatch(p) \/ (\E index \in Indices : ProveReadBatch(p, index))
       \/ ProveRefused(p) \/ ProveReadNotes(p)
       \/ Truncate(p) \/ Write(p) \/ Crash(p)
  \/ Verify \/ Notice
  \/ \E notes \in NotesFiles : ReplaceNotes(notes)
  \/ EditBatch

Spec == Init /\ [][Next]_vars

-----------------------------------------------------------------------------
(* Properties *)

Returned(call, returned) == result # NoResult /\ result.call = call /\ result.returned = returned

\* A process that runs is between the two reads of prove or about to write.
ProcessShape(s) ==
  \/ s = Idle
  \/ /\ s.at = "notes"
     /\ s = [at |-> "notes", batch |-> s.batch, index |-> s.index]
     /\ s.index \in Indices
  \/ /\ s.at \in {"open", "write"}
     /\ s = [at |-> s.at, file |-> s.file, content |-> s.content]
     /\ s.file \in {"batch", "bundle"}

\* Files, locals and counters are what the commands make them.
TypeOK ==
  /\ DOMAIN file = {"notes", "batch", "bundle"}
  /\ file["notes"] \in NotesFiles \cup {Missing}
  /\ DOMAIN proc = Processes /\ \A p \in Processes : ProcessShape(proc[p])
  /\ anchored \subseteq NotesFiles
  /\ started \in 0 .. MaxCommands /\ crashes \in 0 .. MaxCrashes /\ edits \in 0 .. MaxEdits

\* A bundle that verifies against the root of a batch some anchor run built
\* shows a note of the list the run had read, and the one at its index if the
\* list is that long: whatever the two files prove read came from, whichever
\* writers met in a file, whoever died and whatever string of the batch was
\* changed.  If none was, there is such a list, and it is that long.
AcceptedWasAnchored ==
  Returned("verify", "Ok") =>
    LET b == result.bundle
        lists == {l \in anchored : BatchOf(l).root = b.batch.root}
    IN  /\ \A l \in lists :
             /\ b.body \in Nodes(l)
             /\ b.leaf_index < Len(l) => At(l, b.leaf_index) = b.body
        /\ edits = 0 => \E l \in lists : b.leaf_index < Len(l)

\* What docs/ARCHITECTURE.md:25 says of every verifier: what is accepted ends at
\* the root of an anchored batch.  cmd_verify ends at the root that the bundle
\* itself brings along.
AcceptedEndsInAnchoredRoot ==
  Returned("verify", "Ok") => \E l \in anchored : BatchOf(l).root = result.bundle.batch.root

\* A bundle on a batch as build_batch made it verifies if and only if its note is
\* the one the batch has at its index; so a batch and notes that do not belong
\* together are refused, and a run that nothing came in between is accepted.
VerifiesOwnNote ==
  result # NoResult /\ result.call = "verify" /\ result.returned # "unparsable" =>
    LET b == result.bundle IN
    \A l \in anchored : b.batch = BatchOf(l) =>
      (result.returned = "Ok" <=> At(l, b.leaf_index) = b.body)

\* What one run of anchor or prove writes to its file.
IsWritten(name, content) ==
  IF name = "batch" THEN \E l \in anchored : content = BatchOf(l)
  ELSE \E l \in anchored, n \in NotesFiles, i \in Indices :
         i < Len(l) /\ i < Len(n) /\ content = Bundle(BatchOf(l), n, i)

\* A file that parses was written by one command, as a whole and from one list of
\* notes, whoever else wrote to it or died; until a string is changed by hand.
WholeFiles ==
  edits = 0 => \A name \in {"batch", "bundle"} :
                 Parsed(name) => IsWritten(name, file[name])

\* Only a hash that was changed by hand to another length makes a command panic.
PanicOnlyIfEdited == edits = 0 => ~Returned("prove", "panic") /\ ~Returned("verify", "panic")

\* The odd-node rule gives a batch and the same batch with its last note once
\* more the same root; but no root stands for two sets of notes, or for two
\* notes at one index.
RootNamesNotes ==
  \A l, m \in anchored : BatchOf(l).root = BatchOf(m).root =>
    /\ Nodes(l) = Nodes(m)
    /\ \A i \in DOMAIN l \cap DOMAIN m : l[i] = m[i]

-----------------------------------------------------------------------------
(* The inductive invariant the theorems rest on.  What a process has read or *)
(* is about to write comes from one list of notes, too, until a string is    *)
(* changed; what was changed still is a batch, and what prove makes of it a  *)
(* bundle on leaves that decode; an answer noticed later is still the answer *)
(* to the bundle that was read.                                              *)

FromOneList(s) ==
  /\ s.at = "notes" => IsWritten("batch", s.batch)
  /\ s.at \in {"open", "write"} => IsWritten(s.file, s.content)

Provenance == edits = 0 => \A p \in Processes : FromOneList(proc[p])

Traced == TypeOK /\ WholeFiles /\ Provenance

BatchShape(b) ==
  /\ b = [leaves |-> b.leaves, root |-> b.root]
  /\ b.leaves \in Seq(Undecodable \cup {DoubleSha256(body) : body \in Bodies})
  /\ b.leaves # <<>>

BundleShape(c) ==
  /\ BatchShape(c.batch) /\ LeavesError(c.batch.leaves) = "none"
  /\ \E n \in NotesFiles, i \in Indices :
       i < Len(n) /\ i < Len(c.batch.leaves) /\ c = Bundle(c.batch, n, i)

ContentShape(name, content) ==
  IF name = "batch" THEN BatchShape(content) ELSE BundleShape(content)

ProcessShaped(s) ==
  /\ s.at = "notes" => BatchShape(s.batch)
  /\ s.at \in {"open", "write"} => ContentShape(s.file, s.content)

Answered ==
  result # NoResult /\ result.call = "verify" /\ result.returned # "unparsable" =>
    /\ BundleShape(result.bundle) /\ result.returned = VerifyBundle(result.bundle)
    /\ edits = 0 => IsWritten("bundle", result.bundle)

Shaped ==
  /\ \A l \in anchored : BuildError(l) = "none"
  /\ \A name \in {"batch", "bundle"} : Parsed(name) => ContentShape(name, file[name])
  /\ \A p \in Processes : ProcessShaped(proc[p])
  /\ Answered /\ PanicOnlyIfEdited

IInv == Traced /\ Shaped
=============================================================================
