SPECIFICATION Spec
CONSTANTS
  ana = ana
  luis = luis
  Clients = {ana, luis}
  MaxOpen = 2
  Types <- OneTalks
  MaxLines = 1
  MaxWaiting = 1
  MaxSignals = 1
INVARIANTS
  CrashMeansClosed
  DescriptorsAccountedFor
PROPERTIES
  ClientsEnd
  GoodbyesFreeDescriptors
CHECK_DEADLOCK FALSE
