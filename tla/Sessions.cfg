SPECIFICATION AllSpec
CONSTANTS
  Parts = {"subscriber", "publish", "append", "facade", "transfer", "streams"}
  a = a
  b = b
  H1 = H1
  NoHost = NoHost
  Topic = Topic
  Gap = Gap
  NoTopic = NoTopic
  Hole = Hole
  NoAck = NoAck
  Failed = Failed
PROPERTIES EventuallyServed EventuallyAnswered EventuallyDelivered
CHECK_DEADLOCK FALSE
