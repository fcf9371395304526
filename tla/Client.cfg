SPECIFICATION AllSpec
CONSTANTS
  Parts = {"subscriber", "publish", "subids", "ids", "limits", "saves", "collapsing"}
  Ids = {sa, sb}
  Starts = {0, 1}
  Topic = Topic
  Gap = Gap
  NoTopic = NoTopic
  MaxLog = 2
  MaxFlight = 2
  MaxStreams = 2
  MaxRewinds = 0
  Hosts = {H1, H2}
  NoHost = NoHost
  MaxActive = 1
  MaxSilent = 0
  MaxFailures = 1
  MaxRoutes = 2
  MaxAcks = 1
INVARIANTS  MapSafe PublishSafe FacadeSafe 
PROPERTIES FeedSpec IdsSafe
CHECK_DEADLOCK FALSE
