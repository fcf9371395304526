SPECIFICATION AllSpec
CONSTANTS
  Parts = {"transfer", "streams", "keepalive", "timely", "silence", "several", "codec"}
  ByteBits = 4
  Bytes16 = 2
  Bytes32 = 2
  Bytes64 = 3
  MsgIdSize = 2
  Samples <- EveryMessage
  Tenants <- TwoTenants
  Subscriptions <- TwoIds
  Positions <- TwoPositions
INVARIANTS TransferSafe StreamsSafe  MessagesSafe
CHECK_DEADLOCK FALSE
