CONSTANTS
  Contents = {k1}
  Slots = {k2}
  Uploaders = {o1, o2}
  Savers = {s1, s2}
  Erasers = {d1, d2}
  MaxUploads = 2
SPECIFICATION BlobSpec
CHECK_DEADLOCK FALSE
PROPERTY LastReferenceErases
