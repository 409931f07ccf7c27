SPECIFICATION Spec
CONSTANTS
  n1 = n1
  n2 = n2
  Nonces = {n1, n2}
  MaxSkew = 2
  Ttl = 4
  MaxTime = 8
  MaxRestarts = 1
  Never = Never
INVARIANTS
  TypeOK
  AcceptedOnce
  OnlyAcceptedBlocks
CHECK_DEADLOCK FALSE
