CONSTANTS
  Procs = {p1, p2, p3}
  Keys = {k1, k2}
  Mutexes = {m1, m2, m3}
  None = None
  Callers = {c1, c2}
  Adapters = {a1}
  Limit = 0
  MaxEdits = 0
SPECIFICATION CallsSpec
PROPERTIES
  ImplementsKeyedLock
  CallsAnswered
  LostConnectionLeaves
