CONSTANTS
  Path <- MCPath
  Below <- MCBelow
  Content <- MCContent
  None = None
  Dir = Dir
  Before <- MCBefore
  Conflict = 4
  Torn = Torn
  Trees <- MCTrees
  Starts <- MCStarts
  Ops <- MCCheckout
  Recovery = {}
SPECIFICATION Spec
CHECK_DEADLOCK FALSE
INVARIANT ModifiedKept
