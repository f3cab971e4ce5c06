CONSTANTS
  Word = 3
  Half = 2
  LittleEndian = {TRUE, FALSE}
  Lengths = {0, 1, 2, 3, 4, 5, 6, 7, 8, 9}
  Inputs <- MCInputs
  Hash <- MCHash
  MinTable = 4
  MaxTable = 32
  Sizes = {0, 1, 3, 4, 5, 8, 10}
  Peeks = {1, 2, 3, 4, 5, 7, 12}
  Beyond = 2
  Outputs = {1, 5}
  BlockSize = 4
  Uint32s = 9

SPECIFICATION AnySpec

INVARIANTS
  LongestMatch
  Assertions
  RoundTrip
  InsideBuffers
  BlocksAreInput

PROPERTIES
  Terminates
