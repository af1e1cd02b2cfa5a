SPECIFICATION FairSpec
CONSTANTS
  q1 = q1
  q2 = q2
  i1 = i1
  i2 = i2
  Ids <- TwoIds
  NoId = NoId
  Names <- MCNames
  Folded <- MCFolded
  Roles <- MCRoles
  Rules <- MCRules
  Tokens <- MCTokens
  RoleOf <- MCRoleOf
  MaxBody = 1
  MaxReply = 1
  NoRequest = NoRequest
  NoReply = NoReply
  Req <- TwoRequests
  Requests <- PassingRequests
  Replies <- FewReplies
  MaxConnections = 1
INVARIANT ConnectionGivenBack
PROPERTY EveryForwardEnds
CHECK_DEADLOCK FALSE
