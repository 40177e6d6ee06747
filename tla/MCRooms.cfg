SPECIFICATION Spec
CONSTANTS
  None = None
  a = a
  b = b
  e = e
  Conns <- ConnsABE
  MaxFd = 3
  Names <- ThreeNames
  Rooms = {"sala"}
  Blank = ""
  Clip8 <- MCClip8
  Clip16 <- MCClip16
  Texts = {"hola"}
  Oversized = {}
  Menu <- RoomsMenu
  Calm <- Always
  Vanishing = {}
  Reading = {a, b, e}
  Reuse = TRUE
INVARIANTS
  TablesCoherent
  RoomsForgetTheGone
  RoomsKnowTheStatus
  GuestOrMember
PROPERTIES
  ServesTheChat
  NobodyJoinsUninvited
