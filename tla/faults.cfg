SPECIFICATION Spec
CONSTANTS
  Clients = {c1}
  Strangers = {}
  NoPeer = NoPeer
  Calls = 3
  ServerDrop = 50
  ClientDrop = 50
  SetDropAt <- LastCall
  MaxFaults <- Unreliable
INVARIANTS TypeOK ConfirmedWereRead NeverAhead FinishedWereRead
