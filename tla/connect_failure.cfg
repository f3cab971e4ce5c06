SPECIFICATION FairSpec
CONSTANTS
  Clients = {c1}
  Strangers = {}
  NoPeer = NoPeer
  Calls = 2
  ServerDrop = 0
  ClientDrop = 0
  SetDropAt <- LastCall
  MaxFaults <- SendFails
INVARIANTS ConnectReportsFailure
