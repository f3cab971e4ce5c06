SPECIFICATION Spec
CONSTANTS
  Header = 3
  LowBytes <- BinaryDigits
  Cap = 2
  Trials = 3
  Sizes <- SomeSizes
  MaxErrors = 0
  MaxCrashes = 1
PROPERTIES EchoesInRounds
