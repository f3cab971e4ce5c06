CONSTANTS
  Headers <- MCHeaders
  Bodies <- MCBodies
  Numbers <- MCNumbers
  Rooms = {0, 127, 2097152}
  MaxString = 2097152
  Streams <- MCStreams
  StreamLengths <- MCStreamLengths
  Peeks = {1, 3, 5, 26}
  TagStreams <- MCTagStreams
  TagLengths <- MCTagLengths
  TagPeeks = {2051, 2053}
  Sources = {2}
  Patterns = {1, 2, 3, 4, 5, 6, 7, 8, 9, 10, 12, 15, 16, 17, 18}
  Lengths = {0, 1, 2, 5, 7, 8, 9, 15, 16, 17, 31, 33}
  Slops = {0, 1, 2, 3, 6, 7, 8, 9, 10, 12, 13, 14, 15, 16, 17}
  ArrayLengths = {0, 1, 2, 4, 7}
  ArrayOffsets = {0, 1, 3, 8}
  ArrayWide = 4
  ArrayLimits = {0, 4, 7}
  IOVecLengths = {0, 1, 2, 5}
  IOVecOffsets = {0, 1, 3, 6}
  IOVecWide = 2
  IOVecLimits = {4, 5, 6}
  IOVecBuffers <- MCBuffers
  BlocksLengths = {0, 1, 2, 6}
  BlocksOffsets = {0, 1, 5, 9}
  BlocksWide = 2
  BlocksLimits = {3, 9}
  BlockSize = 4

SPECIFICATION AnySpec

INVARIANTS
  TypesAndSizesOK
  LengthsAgree
  NeverOverrun
  CallsAreExact
  InsideBuffer
  ResultIsPattern
  StreamIsDecoded
  WritersAgree

PROPERTIES
  WritersImplement
  PartsEnd
