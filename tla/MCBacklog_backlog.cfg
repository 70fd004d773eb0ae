\* Two readers of thread 1 sharing, dropping and recreating subscriptions
\* while one writer opens, appends to and finishes a post (or has it
\* refused for a thread that does not exist); one connection error.
CONSTANTS
  Readers = {y1, y2}
  SubIds = {s1, s2}
  Watch = 1
  MaxPost = 1
  Tails <- PlainTails
  MaxAppends = 1
  MaxErrors = 1
  INSERT_POST <- KindInsert
  UPDATE_POST <- KindUpdate
  FINISH_POST <- KindFinish
  Time = 99
  NoSub = NoSub
  NaN = NaN
  y1 = y1  y2 = y2  s1 = s1  s2 = s2
SPECIFICATION Spec
INVARIANT TypeOK NoGap SubscriptionsNeeded
PROPERTY KikuAnswered
\* Behaviours end once the posts, appends, readers and errors are used up
CHECK_DEADLOCK FALSE
