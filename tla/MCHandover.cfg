SPECIFICATION Spec
CONSTANTS
  None = None
  a = a
  b = b
  e = e
  Conns <- ConnsABE
  MaxFd = 3
  Names <- ThreeNames
  Rooms = {}
  Blank = ""
  Clip8 <- MCClip8
  Clip16 <- MCClip16
  Texts = {"hola"}
  Oversized = {}
  Menu <- HandoverMenu
  Calm <- ObserverCalm
  Vanishing = {}
  Reading = {a, b, e}
  Reuse = FALSE
INVARIANTS
  NotificationsAccurate
  EveryPairIntroduced
  ActsForItsClient
