SPECIFICATION Spec
CONSTANTS
  Ordinary = {"p", "q"}
  Control = {"tab"}
  Newline = {"nl"}
  Size = 4
  ChunkSize = 2
  InputLength = 6
  Inputs <- Texts
  Replies = {2, 3, 4}
INVARIANTS
  BuffersHold
  LinesAreWhole
  LinesServedInOrder
  AnswersAreLines
PROPERTIES
  ShortLinesServed
