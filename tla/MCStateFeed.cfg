SPECIFICATION MCSpec
CONSTANTS
  Org = {1, 2}
  App = {1}
  Catalogs <- AllCatalogs
  Reader = {1}
  Syncer = {p1}
  MaxChanges = 2
  MaxAnswers = 2
  MaxRestarts = 1
  None = None
CHECK_DEADLOCK FALSE
INVARIANT RevisionNamesAnswer
PROPERTY HintSettles
