CONSTANTS
  Sessions = {s1}
  NoSession = NoSession
  MaxChanges = 1
  MaxFailures = 0
SPECIFICATION CatalogSpec
CHECK_DEADLOCK FALSE
INVARIANT
  ToolsSettled
