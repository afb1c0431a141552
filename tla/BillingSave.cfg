CONSTANTS
  Calls = {c1, c2}
  BudgetKeys = {kb}
  OpenKeys = {ku}
  NoKey = NoKey
  Rids = {r1, rl}
  LongRids = {rl}
  Price = 3
  Hold = 4
  Trust = 4
  Budget = 5
  Start = 5
  Face = 4
  Cut = 1
  MaxCalls = 3
  MaxSlips = 1
  MaxSaves = 1
SPECIFICATION Spec
SYMMETRY Symmetry
CHECK_DEADLOCK FALSE
INVARIANT QuotaConserved
