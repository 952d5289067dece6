SPECIFICATION HSpec
CONSTANTS
  Process <- OneProcess
  Branch <- TwoBranches
  Commit <- ThreeCommits
  Master = master
  Root = c0
  HEAD = HEAD
  ZeroId = ZeroId
  Nil = Nil
  FirstLogs <- NoLogs
  Absent = Absent
  Empty = Empty
  p1 = p1
  p2 = p2
  master = master
  dev = dev
  c0 = c0
  c1 = c1
  c2 = c2
  Commands <- Serial
  MaxCommands = 4
  MaxCrashes = 0
INVARIANT TypeOK
INVARIANT RenameKeepsTip
PROPERTY ImplementsAtomicRefs
CHECK_DEADLOCK FALSE
