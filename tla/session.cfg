SPECIFICATION FairSpec
CONSTANTS
  Clients = {c1}
  Strangers = {}
  NoPeer = NoPeer
  Calls = 4
  ServerDrop = 50
  ClientDrop = 50
  SetDropAt <- LastCall
  MaxFaults <- Survivable
PROPERTIES ReliableSession
