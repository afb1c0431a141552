CONSTANTS
  Tasks = {t1}
  Workers = {w1, w2}
  Deleters = {d1}
  Callers = {c1, c2}
  Keys = {k1}
  Inputs = {i1, i2}
  None = None
  Images = 2
  MaxFaults = 2
  Admins = {w1, w2}
  Requests = {c1, c2}
  MaxRefs = 1
  MaxSnaps = 1
  MaxAdminOps = 2
  Rpcs = {q1, q2}
  Caller = q1
  Ids = {q1}
  MaxParts = 2
  Parallel = 1
  MaxActive = 1
  MaxLoad = 2
  MaxEdits = 1
SPECIFICATION PartsSpec
SYMMETRY Symmetry
CHECK_DEADLOCK FALSE
INVARIANTS
  AnswerMatchesInput
  CompletedMeansAllSaved
  NoOrphanOutputs
  ReferencesFollowItem
  NoStalePrice
  AnsweredIsSettled
  CallsAllowed
  NoRowDropped
  NobodyStuck
