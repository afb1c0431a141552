CONSTANTS
  Calls = {c1, c2}
  BudgetKeys = {kb}
  OpenKeys = {ku}
  NoKey = NoKey
  Rids = {r1, rl}
  LongRids = {rl}
  Price = 3
  Hold = 4
  Trust = 4
  Budget = 5
  Start = 5
  Face = 4
  Cut = 1
  MaxCalls = 3
  MaxSlips = 1
  MaxSaves = 1
  Tasks = {t1}
  Workers = {w1, w2}
  Deleters = {d1}
  Callers = {c1, c2}
  Requests = {q1, q2}
  Clients = {c1, c2}
  Sweepers = {s1}
  Inputs = {i1, i2}
  Nobody = Nobody
  Audios = 1
  Limit = 1
  MaxRetries = 2
  MaxFaults = 1
  Conns = {n1}
  Editors = {e1}
  Secrets = {w1, w2}
  NoRing = NoRing
  MaxRings = 2
  MaxIds = 2
  MaxPool = 2
  Contents = {k1}
  Slots = {k2}
  Uploaders = {i1, i2}
  Savers = {c1, c2}
  Erasers = {w1, w2}
  MaxUploads = 2
SPECIFICATION AllSpec
SYMMETRY Symmetry
CONSTRAINT LongIdsOnOpenKeys
CHECK_DEADLOCK FALSE
INVARIANTS
  MoneyAccounted
  OverdraftBounded
  KeyOverspendBounded
  RetryChargesBounded
  ObjectAccounted
  FilesKept
  OnlyRefusedDisabled
  RingFollowsEdits
  NoOrphanBlob
