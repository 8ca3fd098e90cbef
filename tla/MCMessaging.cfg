CONSTANTS
  u1 = u1
  u2 = u2
  p1 = p1
  p2 = p2
  r1 = r1
  r2 = r2
  Users = {u1, u2}
  Pages = {p1, p2}
  Reader <- MCReader
  Elsewhere = {u1, u2}
  Requests = {r1, r2}
  MaxMessages = 3
  CatchUpLimit = 1
SPECIFICATION MCSpec
INVARIANTS
  MessagingTypeOK
  
  NewMessageUnarchives
PROPERTIES
  ShownIsRead
CHECK_DEADLOCK FALSE
