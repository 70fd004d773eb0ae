\* Registry and final bodies when every Redis command may fail
CONSTANTS
  w1 = w1  w2 = w2  m1 = m1  r1 = r1  f1 = f1  f2 = f2
  NoFile = NoFile  NoBody = NoBody  NullBody = NullBody
  Workers = {w1}
  Mods = {m1}
  Readers = {r1}
  Files = {f1}
  Tails = {"x"}
  MaxPost = 3
  MaxAppends = 1
  MaxCrashes = 1
  StoreMayFail = TRUE
  THUMB_DIMENSIONS <- MCThumbDims
  PINKY_DIMENSIONS <- MCPinkyDims
  THUMB_QUALITY = 50
  PINKY_QUALITY = 40
  IMAGE_WIDTH_MAX = 12
  IMAGE_HEIGHT_MAX = 12
SPECIFICATION Spec
INVARIANT RegistryComplete FinishedBodyComplete ReaderShowsWritten ThumbSpecsFit
\* Every behaviour ends once postctr reaches MaxPost and the appends and
\* crashes are used up; those end states are the bounds, not a stop of the code
CHECK_DEADLOCK FALSE
