SPECIFICATION FairSpec
CONSTANTS
  ask = ask
  act = act
  oper = oper
  tell = tell
  api = api
  claw = claw
  mcp = mcp
  Jobs = {ask, tell, act, oper}
  Kind <- MCKind
  Resources = {api, claw}
  Holders = {act, mcp}
  Outside = {mcp}
  OpenClaw = claw
  Nothing = Nothing
  MaxAttempts = 2
  MaxWaits = 1
  Loads <- MCLoads
  Runs = {1, 2}
CHECK_DEADLOCK FALSE
INVARIANTS DirectActsOnce SlotExclusive RetryBudget NoLostSlot
PROPERTIES SlotsComeBack
