SPECIFICATION Spec
CONSTANTS
  Header = 3
  LowBytes <- BinaryDigits
  Cap = 2
  Trials = 3
  Sizes <- AllSizes
  MaxErrors = 1
  MaxCrashes = 2
CHECK_DEADLOCK FALSE
INVARIANTS TypeOK Framing HandshakeAgreed Lockstep
