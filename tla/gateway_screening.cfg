SPECIFICATION Spec
CONSTANTS
  q1 = q1
  q2 = q2
  i1 = i1
  i2 = i2
  Ids <- TwoIds
  NoId = NoId
  Names <- MCNames
  Folded <- MCFolded
  Roles <- MCRoles
  Rules <- MCRules
  Tokens <- MCTokens
  RoleOf <- MCRoleOf
  MaxBody = 1
  MaxReply = 1
  NoRequest = NoRequest
  NoReply = NoReply
  Req <- OneRequest
  Requests <- AnyRequest
  Replies <- AnyReply
  MaxConnections = 1
INVARIANTS TypeOK ResultIsTheirs
PROPERTY KeepsContract
CHECK_DEADLOCK FALSE
