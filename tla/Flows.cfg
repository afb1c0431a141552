CONSTANTS
  Keys = {k1}
  Kind <- SharedKind
  Callers = {c1, c2}
  Adapters = {a1, a2}
  None = None
  Limit = 1
  MaxEdits = 0
  Sessions = {a1, a2}
  NoSession = NoSession
  MaxChanges = 1
  MaxFailures = 1
  Readers = {c1, c2}
  MaxFeeds = 2
  MaxSeq = 1
  RingSize = 1
SPECIFICATION FlowsSpec
SYMMETRY Symmetry
CHECK_DEADLOCK FALSE
INVARIANTS
  FlowsTypesOK
  SharedLimitRespected
  ReaperSparesLeased
  OneProcess
  NoLeakedConnection
  PassiveAdmission
  ListsSettled
  NoSilentGap
  NoLostWake
PROPERTY CatalogNeverGoesBack
