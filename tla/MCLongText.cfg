SPECIFICATION Spec
CONSTANTS
  None = None
  a = a
  b = b
  e = e
  Conns <- ConnsAB
  MaxFd = 2
  Names <- TwoNames
  Rooms = {}
  Blank = ""
  Clip8 <- MCClip8
  Clip16 <- MCClip16
  Texts = {"larguisimo"}
  Oversized = {"larguisimo"}
  Menu <- LongTextMenu
  Calm <- Always
  Vanishing = {}
  Reading = {a, b}
  Reuse = FALSE
INVARIANTS
  EvictedAreDisconnected
