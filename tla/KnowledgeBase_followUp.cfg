CONSTANTS
  u1 = u1
  u2 = u2
  d1 = d1
  d2 = d2
  Doc = {d1, d2}
  Chat = {c1, c2}
  Owner = {u1, u2}
  Conversation = {talk}
  DocOwner <- MCDocOwner
  Stored = {d2}
  Chunks = 2
  K = 2
  Window = 2
  Faults = {}

SPECIFICATION Spec
CHECK_DEADLOCK FALSE
INVARIANT FollowUpAnswered
