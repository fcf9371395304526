SPECIFICATION AllSpec
CONSTANTS
  Parts = {"one", "two", "failover", "full", "rollcall", "topics", "refused", "moved", "second"}
  a = a
  b = b
  T1 = T1
  T2 = T2
  Topic = Topic
  Gap = Gap
  NoTopic = NoTopic
INVARIANTS CopilotSafe MeshSafe
PROPERTY FeedSpec
CHECK_DEADLOCK FALSE
