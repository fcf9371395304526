SPECIFICATION AllSpec
CONSTANTS
  Parts = {"tail", "lost", "reroute"}
  a = a
  b = b
  T1 = T1
  T2 = T2
  Topic = Topic
  Gap = Gap
  NoTopic = NoTopic
PROPERTY SubscriberServed
CHECK_DEADLOCK FALSE
