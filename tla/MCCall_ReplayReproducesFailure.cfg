CONSTANTS
  AccStates = {a1, a2}
  FailingStates = {a2}
  EmptyAcc = empty
  Absent = absent
  NoDump = nodump
  Lifetime <- MCLifetime
  StartMs <- MCStartMs
  TickMs <- MCTickMs
  MaxOtherTx = 1

SPECIFICATION Spec
\* The CLI process ends once the call has returned.
CHECK_DEADLOCK FALSE

INVARIANT
  ReplayReproducesFailure
