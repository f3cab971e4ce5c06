SPECIFICATION Spec
CONSTANTS
  Clients = {c1, c2}
  Strangers = {s}
  NoPeer = NoPeer
  Calls = 2
  ServerDrop = 50
  ClientDrop = 50
  SetDropAt <- LastCall
  MaxFaults <- Crowded
INVARIANTS OneClientConnects ReadsAreData
