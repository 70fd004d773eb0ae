\* A splice refused for too many lines has already rewritten c.post.
CONSTANTS
  Clients = {c1}
  Posts = {p1}
  Threads = {t1}
  ThreadOf <- OneThread
  StealThreads = {}
  TextOnlyThreads = {t1}
  Tokens = {}
  NoPost = NoPost
  NoToken = NoToken
  CharScore = 1
  ImageScore = 5
  AppendInputs <- TextAppendInputs
  SpliceTexts <- TextSpliceTexts
  c1 = c1  c2 = c2  p1 = p1  p2 = p2  p3 = p3  t1 = t1  t2 = t2  i1 = i1  i2 = i2
  MaxLenBody = 3
  MaxLinesBody = 1
  StoreMayFail = FALSE
SPECIFICATION Spec
INVARIANT ClientPostTrue
