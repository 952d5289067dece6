SPECIFICATION FairSpec
CONSTANTS
  Process <- TwoProcesses
  Object <- ThreeObjects
  Root <- TwoCommits
  Closure <- ThreeClosure
  Pack <- TwoPacks
  Commands = {"write", "fetch", "unpack"}
  SamePackTwice = TRUE
  MaxCommands = 3
  MaxCrashes = 0
  p1 = p1
  p2 = p2
  blob = blob
  tree1 = tree1
  tree2 = tree2
  commit1 = commit1
  commit2 = commit2
  packA = packA
  packB = packB
CHECK_DEADLOCK FALSE
PROPERTY PublishedBecomesReadable
