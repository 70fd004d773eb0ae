\* One writer posting, in a thread nobody reads, text that contains a colon;
\* the OP tracker parses every message it publishes.
CONSTANTS
  Readers = {}
  SubIds = {}
  Watch = 1
  MaxPost = 3
  Tails <- ColonTails
  MaxAppends = 1
  MaxErrors = 0
  INSERT_POST <- KindInsert
  UPDATE_POST <- KindUpdate
  FINISH_POST <- KindFinish
  Time = 99
  NoSub = NoSub
  NaN = NaN
  y1 = y1  y2 = y2  s1 = s1  s2 = s2
SPECIFICATION Spec
INVARIANT RegistryEntriesTrue
\* The writer stops once postctr reaches MaxPost
CHECK_DEADLOCK FALSE
