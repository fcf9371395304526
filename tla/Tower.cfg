SPECIFICATION AllSpec
CONSTANTS
  Parts = {"readers"}
  t1 = t1
  t2 = t2
  s1 = s1
  s2 = s2
  s3 = s3
  s4 = s4
  w1 = w1
  w2 = w2
  r1 = r1
  r2 = r2
  stream = stream
  NoLog = NoLog
  None = None
  Topics = {t1, t2}
  Subs = {s1, s2, s3}
  StreamOf <- OwnStreams
  NumReaders = 2
  MaxLag = 1
  StartCost = 2
  Gap = Gap
  NoTopic = NoTopic
  HasGaps = FALSE
  FindMayFail = TRUE
  Starts = {0, 1, 2, 3, 4}
  MaxLog = 3
  MaxRemovals = 0
SYMMETRY Symmetric
INVARIANT ReadersInSync
PROPERTY FeedSpec
CHECK_DEADLOCK FALSE
