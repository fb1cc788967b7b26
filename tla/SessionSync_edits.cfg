SPECIFICATION FairSpec
CONSTANTS
  e1 = e1
  e2 = e2
  Edits = {e1, e2}
  Apps = {"phone", "tablet"}
  Recorder = "phone"
  Plans <- AnyTwo
  Titles = {"walk", "renamed"}
  FirstTitle = "walk"
  NoteIds = {"note"}
  Texts = {"first", "second"}
  None = None
  MaxDeletes = 1
INVARIANTS
  SeenUnlessOverwritten
PROPERTIES
  NothingIsUndone
  Converges
