SPECIFICATION FairSpec
CONSTANTS
  Header = 3
  LowBytes <- BinaryDigits
  Cap = 2
  Trials = 3
  Sizes <- AllSizes
  MaxErrors = 0
  MaxCrashes = 0
PROPERTIES BothExit
