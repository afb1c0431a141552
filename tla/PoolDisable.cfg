CONSTANTS
  kOwn = kOwn
  Keys = {kOwn}
  Kind <- OwnKind
  Callers = {c1}
  Adapters = {a1}
  None = None
  Limit = 0
  MaxEdits = 0
SPECIFICATION SafetySpec
INVARIANT
  DisabledMeansStopped
