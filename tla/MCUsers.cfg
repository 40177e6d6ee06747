SPECIFICATION Spec
CONSTANTS
  None = None
  a = a
  b = b
  e = e
  Conns <- ConnsAB
  MaxFd = 2
  Names <- TwoNames
  Rooms = {}
  Blank = ""
  Clip8 <- MCClip8
  Clip16 <- MCClip16
  Texts = {"hola"}
  Oversized = {}
  Menu <- UsersMenu
  Calm <- Never
  Vanishing = {b}
  Reading = {a}
  Reuse = FALSE
INVARIANTS
  LocalsReady
  OneNamePerClient
  NoGhosts
  NotificationsAccurate
  EveryPairIntroduced
PROPERTIES
  ServesTheLobby
  GoodClientsStay
  HandlersReturn
