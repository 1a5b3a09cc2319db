\* Two documents, one in a page, of which a search finds the older; two changes.
SPECIFICATION Spec
CONSTANTS
  Nil = Nil
  NumDocs = 2
  Searches = {{1, 2}, {2}}
  Filters = {"registrado"}
  Start = {"registrado"}
  PerPage = 1
  MaxEdits = 3
  MaxCalls = 1
  MaxOthers = 1
CHECK_DEADLOCK FALSE
INVARIANTS
  TypedIsApplied
  PagesExist
  ListIsTrue
