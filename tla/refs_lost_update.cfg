SPECIFICATION Spec
CONSTANTS
  Process <- TwoProcesses
  Branch <- TwoBranches
  Commit <- ThreeCommits
  Master = master
  Root = c0
  HEAD = HEAD
  ZeroId = ZeroId
  Nil = Nil
  FirstLogs <- NoLogs
  Absent = Absent
  Empty = Empty
  p1 = p1
  p2 = p2
  master = master
  dev = dev
  c0 = c0
  c1 = c1
  c2 = c2
  Commands = {"commit"}
  MaxCommands = 2
  MaxCrashes = 0
PROPERTY OldValueRespected
CHECK_DEADLOCK FALSE
