SPECIFICATION Spec
CONSTANTS
  Clients = {c1, c2}
  Keys = {}
  Buttons = {b}
  MAX_CLIENTS = 2
  MAX_DEVICES = 1
  NumDevices = 1
  PortLimit = 1
  PipeLimit = 1
  MaxInputs = 1
  MaxChildren = 2
  NoOwner = NoOwner
INVARIANTS QueueReadable KeysAgree
PROPERTIES ClientServed EventsSent
CHECK_DEADLOCK FALSE
