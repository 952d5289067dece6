SPECIFICATION Spec
CONSTANTS
  Process <- TwoProcesses
  Branch <- TwoBranches
  Commit <- ThreeCommits
  Master = master
  Root = c0
  HEAD = HEAD
  ZeroId = ZeroId
  Nil = Nil
  FirstLogs <- HeadAndMaster
  Absent = Absent
  Empty = Empty
  p1 = p1
  p2 = p2
  master = master
  dev = dev
  c0 = c0
  c1 = c1
  c2 = c2
  Commands <- Concurrent
  MaxCommands = 3
  MaxCrashes = 1
SYMMETRY Symmetry
INVARIANT HistoryClosed
INVARIANT CommitRecoverable
INVARIANT TornFilesBounded
PROPERTY LogsSettle
CHECK_DEADLOCK FALSE
