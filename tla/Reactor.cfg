CONSTANTS
  a = a
  b1 = b1
  b2 = b2
  sa = sa
  sb = sb
  n1 = n1
  None = None
  Fibers = {a, b1, b2}
  Scheds = {sa, sb}
  Fds = {n1}
  Home <- MCHome
  May <- MCMay
  Inputs = 3
SPECIFICATION Spec
INVARIANTS NoWaiterStranded HelperHasItsBuffer
PROPERTIES WaitersReturn
CHECK_DEADLOCK FALSE
