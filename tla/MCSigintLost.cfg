SPECIFICATION Spec
CONSTANTS
  ana = ana
  luis = luis
  Clients = {ana}
  MaxOpen = 2
  Types <- OneTalks
  MaxLines = 1
  MaxWaiting = 1
  MaxSignals = 1
PROPERTIES
  SigintStops
CHECK_DEADLOCK FALSE
