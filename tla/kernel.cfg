CONSTANTS
  Cards <- SomeCards
  Config = "CPSAT"
  MaxIter = 3
SPECIFICATION Spec
INVARIANT TypeOK
INVARIANT ConvergedIsOrdered
INVARIANT OptimalIsOptimal
INVARIANT VerifiedIsClean
PROPERTY WindowsGrow
CHECK_DEADLOCK FALSE
