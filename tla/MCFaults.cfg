SPECIFICATION Spec
CONSTANTS
  None = None
  a = a
  b = b
  e = e
  Conns <- ConnsAB
  MaxFd = 2
  Names = {"ana", "luz", "", "maximiliano", "maximili"}
  Rooms = {"sala"}
  Blank = ""
  Clip8 <- MCClip8
  Clip16 <- MCClip16
  Texts = {"hola", "larguisimo"}
  Oversized = {"larguisimo", "maximiliano"}
  Menu <- FaultsMenu
  Calm <- FaultsCalm
  Vanishing = {a, b}
  Reading = {a, b}
  Reuse = TRUE
INVARIANTS
  TypeOK
  TablesCoherent
CHECK_DEADLOCK FALSE
