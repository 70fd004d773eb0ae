\* Two writers in one thread of board "a" inserting, spoilering and
\* stealing each other's images.
CONSTANTS
  Clients = {c1, c2}
  Posts = {p1, p2, p3}
  Threads = {t1, t2}
  ThreadOf <- OneThread
  StealThreads = {t1, t2}
  TextOnlyThreads = {}
  Tokens = {i1, i2}
  NoPost = NoPost
  NoToken = NoToken
  MaxLenBody = 1
  MaxLinesBody = 1
  CharScore = 1
  ImageScore = 5
  AppendInputs <- PlainAppendInputs
  SpliceTexts <- PlainSpliceTexts
  StoreMayFail = FALSE
  c1 = c1  c2 = c2  p1 = p1  p2 = p2  p3 = p3  t1 = t1  t2 = t2  i1 = i1  i2 = i2
SPECIFICATION Spec
INVARIANT  SubscribersSeeImages
