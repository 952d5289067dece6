SPECIFICATION Spec
CONSTANTS
  Process <- TwoProcesses
  Object <- FiveObjects
  Root <- TwoCommits
  Closure <- FiveClosure
  Pack <- TwoPacks
  Commands = {"write", "fetch"}
  SamePackTwice = FALSE
  MaxCommands = 3
  MaxCrashes = 1
  p1 = p1
  p2 = p2
  blob = blob
  tree1 = tree1
  tree2 = tree2
  commit1 = commit1
  commit2 = commit2
  packA = packA
  packB = packB
CHECK_DEADLOCK FALSE
PROPERTY ImplementsClosedStore
INVARIANT TypeOK
INVARIANT PublishedPresent
INVARIANT TornObjectsBounded
SYMMETRY ProcessSymmetry
