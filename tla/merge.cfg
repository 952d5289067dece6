SPECIFICATION Spec
CONSTANTS
  Commit <- FiveCommits
  Zero = Zero
  Histories <- AllHistories
  Commands <- AllCommands
  c1 = c1
  c2 = c2
  c3 = c3
  c4 = c4
  c5 = c5
CHECK_DEADLOCK FALSE
INVARIANT TypeOK
INVARIANT BaseIsCommon
INVARIANT NoBaseMeansUnrelated
INVARIANT FastForwardExact
PROPERTY HeadKeepsHistory
PROPERTY FoldTakesNearest
