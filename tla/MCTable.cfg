SPECIFICATION Spec
CONSTANTS
  None = None
  x = x
  y = y
  z = z
  c1 = c1
  c2 = c2
  c3 = c3
  Threads = {x, y, z}
  Names = {"ana", "luz", ""}
  Refused = {""}
  Fds = {1, 2, 3}
  Statuses = {"ACTIVE", "AWAY"}
  Cells = {c1, c2}
  Menu <- TableMenu
  Parts = 2
  Capacity = 1
  Reading = {1, 2}
INVARIANTS
  NoUseAfterFree
  NothingLeaks
  BroadcastsInOneOrder
PROPERTIES
  TableIsAtomic
  CallsReturn
