CONSTANTS
  Tasks = {t1}
  Workers = {w1}
  Deleters = {d1}
  Callers = {c1}
  Keys = {k1}
  Inputs = {i1}
  None = None
  Images = 1
  MaxFaults = 2
SPECIFICATION SafetySpec
PROPERTY
  ActiveNotDeleted
