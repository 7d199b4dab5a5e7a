SPECIFICATION Spec
CONSTANTS
  t1 = t1
  t2 = t2
  h1 = h1
  h2 = h2
  Transactions = {t1}
  Handlers = {h1, h2}
  HasFile = TRUE
  HasDatabase = TRUE
  WritesFail = TRUE
  OperatorSaves = TRUE
  Foreign <- MCForeign
  MaxPerBlock = 1
  FinalityDepth = 2
  RowsKept = 2
  RejectionsKept = 1
  MaxExports = 3
SYMMETRY Symmetric
INVARIANTS
  LoneSavesSuffice
  MomentsNotMixed
CHECK_DEADLOCK FALSE
