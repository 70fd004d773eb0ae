\* One writer whose Store calls may each fail: posts p1 and p3 in thread t1
\* of board "a", post p2 in the text-only thread t2, two staged images.
CONSTANTS
  Clients = {c1}
  Posts = {p1, p2, p3}
  Threads = {t1, t2}
  ThreadOf <- TwoThreads
  StealThreads = {t1}
  TextOnlyThreads = {t2}
  Tokens = {i1, i2}
  NoPost = NoPost
  NoToken = NoToken
  MaxLenBody = 1
  MaxLinesBody = 1
  CharScore = 1
  ImageScore = 5
  AppendInputs <- PlainAppendInputs
  SpliceTexts <- PlainSpliceTexts
  StoreMayFail = TRUE
  c1 = c1  c2 = c2  p1 = p1  p2 = p2  p3 = p3  t1 = t1  t2 = t2  i1 = i1  i2 = i2
SPECIFICATION Spec
INVARIANT SubscribersSeeOpenBody SubscribersSeeImages
PROPERTY TextSpec
