SPECIFICATION ReplySpec
CHECK_DEADLOCK FALSE
CONSTANTS
  MaxReplies = 2  MaxChunks = 2  MaxUplink = 2
INVARIANT TurnsAreNotMerged
