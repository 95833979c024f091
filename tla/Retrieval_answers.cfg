CONSTANTS
  a1 = a1
  a2 = a2
  a3 = a3
  b = b
  t1 = t1
  o1 = o1
  o2 = o2
  Doc = {a1, a2, b}
  Tenant = {t1}
  Org = {o1, o2}
  Request = {r1}
  Chunk <- MCChunk
  DocOf <- MCDocOf
  Home <- MCHome
  Questions <- MCQuestions
  Stored = {a1, a2}
  Limit = 1
  TopK = 1
  Max = 3
  Static = 2
  Ttl = 1
  Asks = 2
  Edits = 2
  Ticks = 1
  Rough = {0, 3}
  Faults = {"countFails", "embeddingFails", "shortlistFails", "storeFails", "rerankFails", "visionFails"}

SPECIFICATION Spec
CHECK_DEADLOCK FALSE
INVARIANTS TypeOK NothingOutOfScope    OnlyOutrunByNewcomers
