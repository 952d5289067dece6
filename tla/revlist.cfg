SPECIFICATION Spec
CONSTANTS
  Commit <- ThreeCommits
  Tree <- TwoTrees
  Blob <- OneBlob
  Histories <- AllHistories
  Revs <- RevsOfInstance
  Holes <- HolesOfInstance
  Limits = {2, NoLimit}
  NoLimit = NoLimit
  c1 = c1
  c2 = c2
  c3 = c3
  top = top
  sub = sub
  blob = blob
CHECK_DEADLOCK FALSE
INVARIANT TypeOK
INVARIANT OnlyWanted
INVARIANT ListedOnce
INVARIANT CompleteAtEnd
