CONSTANTS
  Streams = {s1, s2}
  Legacy = {s2}
  NoStream = NoStream
  SourceSlots = 2
  AttachSlots = 1
  Buffer = 1
  MaxUpdates = 1
  MaxTroubles = 1
  Clients = {c1}
  NoClient = NoClient
  MaxHooks = 2
  Attempts = 2
  MaxEvents = 2
  HookRing = 1
  MaxEnds = 1
  Instances = {n1, n2}
  Hosts = {n2}
  MaxCommits = 2
  MaxBreaks = 1
SPECIFICATION GatewaySpec
CHECK_DEADLOCK FALSE
INVARIANTS
  SourcesReturned
  NoUpdateLost
  CloseWaitsForWork
  CursorNeverAhead
  OneWorkerPerHook
  NoChangeMissed
