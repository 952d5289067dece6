SPECIFICATION Spec
CONSTANTS
  c1 = c1
  c2 = c2
  Client = {c1, c2}
  master = master
  topic = topic
  Ref = {master, topic}
  Commit = {1, 2, 3, 4}
  None = None
  Master = master
  Parents <- MCParents
  History <- MCHistory
  Pushes <- MCPushes
  PushOptions <- MCPushOptions
  Ready <- MCReady
  Tip <- MCTip
  Advances = {2}
  ProgressMax = 2
  Sizes = {1, 3}
  Buffers <- MCBuffers
  PackFile <- MCPackFile
  MaxRuns = 4
INVARIANT FetchTracks
CHECK_DEADLOCK FALSE
