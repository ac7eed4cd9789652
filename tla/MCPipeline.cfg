SPECIFICATION Spec
CONSTANTS
  text1 = text1
  text2 = text2
  text3 = text3
  p1 = p1
  p2 = p2
  Processes = {p1, p2}
  Bodies <- MCBodies
  NotesFiles <- MCNotesFiles
  Indices = {1, 3}
  MaxCommands = 3
  MaxCrashes = 1
  MaxEdits = 1
SYMMETRY Symmetric
INVARIANTS
  TypeOK
  AcceptedWasAnchored
  VerifiesOwnNote
  WholeFiles
  PanicOnlyIfEdited
  RootNamesNotes
  IInv
