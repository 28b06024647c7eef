SPECIFICATION HSpec
CONSTANTS
  t1 = t1
  t2 = t2
  h1 = h1
  k1 = k1
  k2 = k2
  v1 = v1
  v2 = v2
  NoValue = NoValue
  NoThread = NoThread
  Threads <- MCThreads
  Keys = {k1}
  Values <- MCValues
  KeyLists <- OneKeyLists
  Allowed <- AnyCommand
  HasStore = TRUE
  CanFail = TRUE
  CanThrow = TRUE
SYMMETRY ValueSymmetry
INVARIANTS PositiveAnswersTrue LockProtectsAdd
CHECK_DEADLOCK FALSE
