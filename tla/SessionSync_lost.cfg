SPECIFICATION Spec
CONSTANTS
  e1 = e1
  e2 = e2
  Edits = {e1, e2}
  Apps = {"phone", "tablet"}
  Recorder = "phone"
  Plans <- TitleAndNote
  Titles = {"walk", "renamed"}
  FirstTitle = "walk"
  NoteIds = {"note"}
  Texts = {"first", "second"}
  None = None
  MaxDeletes = 1
INVARIANTS
  EveryChangeIsSeen
