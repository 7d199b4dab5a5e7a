SPECIFICATION Spec
CONSTANTS
  t1 = t1
  t2 = t2
  h1 = h1
  h2 = h2
  Transactions = {t1, t2}
  Handlers = {h1, h2}
  HasFile = FALSE
  HasDatabase = TRUE
  WritesFail = FALSE
  OperatorSaves = FALSE
  Foreign <- MCForeign
  MaxPerBlock = 1
  FinalityDepth = 2
  RowsKept = 2
  RejectionsKept = 1
  MaxExports = 4
SYMMETRY Symmetric
INVARIANTS
  SavedIsMemory
  AnsweredAccounted
PROPERTIES
  ImplementsDurableNode
CHECK_DEADLOCK FALSE
