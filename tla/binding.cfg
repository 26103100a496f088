SPECIFICATION Spec
CONSTANTS
  w1 = w1
  w2 = w2
  Wrappers = {w1, w2}
  None = None
  Faults = TRUE
  Calling <- MCCalling
  CallLimit <- MCCallLimit
  MaxWaiting = 2
CHECK_DEADLOCK FALSE
INVARIANTS BindingInv CommitsWhole ReadsOwnTransaction
PROPERTIES Answered
