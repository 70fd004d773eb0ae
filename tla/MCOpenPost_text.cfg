\* appendRune, backspace, spliceText and closePost of one writer, with a
\* line limit no body of MaxLenBody runes can reach.
CONSTANTS
  Clients = {c1}
  Posts = {p1, p2}
  Threads = {t1}
  ThreadOf <- OneThread
  StealThreads = {}
  TextOnlyThreads = {t1}
  Tokens = {}
  NoPost = NoPost
  NoToken = NoToken
  MaxLenBody = 3
  MaxLinesBody = 3
  CharScore = 1
  ImageScore = 5
  AppendInputs <- TextAppendInputs
  SpliceTexts <- TextSpliceTexts
  StoreMayFail = FALSE
  c1 = c1  c2 = c2  p1 = p1  p2 = p2  p3 = p3  t1 = t1  t2 = t2  i1 = i1  i2 = i2
SPECIFICATION Spec
INVARIANT TypeOK BodyAccounting SubscribersSeeOpenBody FinalBodyBroadcast
