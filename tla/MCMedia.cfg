CONSTANTS
  Tasks = {t1}
  Workers = {w1, w2}
  Deleters = {d1}
  Callers = {c1, c2}
  Requests = {q1}
  Clients = {c1}
  Sweepers = {s1}
  Inputs = {i1, i2}
  Nobody = Nobody
  Audios = 1
  Keys = {k1}
  Images = 1
  Limit = 1
  MaxRetries = 1
  MaxFaults = 1
SPECIFICATION Spec
CHECK_DEADLOCK FALSE
PROPERTIES
  VideoImplementsPaid
  AudioImplementsPaid
  ImageImplementsOneShot
