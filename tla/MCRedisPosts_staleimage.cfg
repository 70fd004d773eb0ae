\* An upload's add_image callback runs after the client moved to a new post
CONSTANTS
  w1 = w1  w2 = w2  m1 = m1  r1 = r1  f1 = f1  f2 = f2
  NoFile = NoFile  NoBody = NoBody  NullBody = NullBody
  Workers = {w1}
  Mods = {m1}
  Readers = {}
  Files = {f1}
  Tails = {"x"}
  MaxPost = 3
  MaxAppends = 1
  MaxCrashes = 0
  StoreMayFail = FALSE
  THUMB_DIMENSIONS <- MCThumbDims
  PINKY_DIMENSIONS <- MCPinkyDims
  THUMB_QUALITY = 50
  PINKY_QUALITY = 40
  IMAGE_WIDTH_MAX = 12
  IMAGE_HEIGHT_MAX = 12
SPECIFICATION Spec
INVARIANT ClientImageStored
\* Behaviours end when the bounds are used up
CHECK_DEADLOCK FALSE
