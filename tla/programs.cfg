CONSTANTS
  W = 64
  Steps = {0, 1, 3}
  Back = {2}
  L1 = 8
  L2 = 16
  L3 = 64
  Spare = 4
  Skip2 = 4
  Skip3 = 4
  Kilo = 3
  Rounds = 4
  Resolution = 4
  ReadCosts = {0, 1, 5}
  TurnCost = 1
  SetBack = {1, 4}
  SetBacks = 2
  Repeats = 2
  Trips = 2
  Bandwidth = 3
  Drops = 18
  Half = 512
  Kibi = 8

SPECIFICATION AnySpec

INVARIANTS
  TypesOK
  SumIsElapsed
  ExtremesHold
  ReadsAreWarm
  FiguresAreSound
  PlansAgree
  SizeIsAsked

PROPERTIES
  DiffIsTicks
  ProgramsEnd
