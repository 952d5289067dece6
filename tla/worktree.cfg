CONSTANTS
  Path <- MCPath
  Below <- MCBelow
  Content <- MCContent
  None = None
  Dir = Dir
  Before <- MCBefore
  Conflict = 4
  Torn = Torn
  Trees <- MCTrees
  Starts <- MCStarts
  Ops <- OpNames
  Recovery <- MCRecovery
SPECIFICATION Spec
CHECK_DEADLOCK FALSE
INVARIANTS TypeOK HardResetRestores LocalKept StagedKept MergeRight
INVARIANTS HeadMovedLast CleanSpares
PROPERTY IndexLegal
