SPECIFICATION Spec
CONSTANTS
  None = None
  a = a
  b = b
  e = e
  Conns <- ConnsAB
  MaxFd = 2
  Names <- TwoNames
  Rooms = {"sala"}
  Blank = ""
  Clip8 <- MCClip8
  Clip16 <- MCClip16
  Texts = {"hola"}
  Oversized = {}
  Menu <- LostMemberMenu
  Calm <- Always
  Vanishing = {b}
  Reading = {a, b}
  Reuse = FALSE
PROPERTIES
  RoomsMutexIsReleased
CHECK_DEADLOCK FALSE
