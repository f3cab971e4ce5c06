SPECIFICATION FairSpec
CONSTANTS
  Clients = {c1}
  Strangers = {}
  NoPeer = NoPeer
  Calls = 3
  ServerDrop = 50
  ClientDrop = 0
  SetDropAt <- LastCall
  MaxFaults <- AnyLoss
PROPERTIES ConnectedFinishes
