SPECIFICATION Spec
CONSTANTS
  text1 = text1
  text2 = text2
  text3 = text3
  p1 = p1
  p2 = p2
  Processes = {p1}
  Bodies <- MCBodies
  NotesFiles <- MCNotesFilesForRoot
  Indices = {1}
  MaxCommands = 2
  MaxCrashes = 0
  MaxEdits = 1
INVARIANT AcceptedEndsInAnchoredRoot
