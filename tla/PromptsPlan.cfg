SPECIFICATION Spec
CONSTANTS
  x1 = x1
  y1 = y1
  g1 = g1
  g2 = g2
  t1 = t1
  t2 = t2
  bash = bash
  edit = edit
  multi = multi
  None = None
  Asks <- MCAsks
  Turn <- MCTurn
  Tool <- MCTool
  Key <- MCKey
  InRoot = {g2}
  Speculated = {y1, g2}
  After <- MCAfter
  Gather = {g1, g2}
  Level <- MCLevel
  EditTools = {edit, multi}
  PlanDenied = {bash, edit}
  ReadOnlyTools = {}
  AllowTools = {}
  DenyConfigs <- MCDenyConfigs
  InitModes = {"prompt", "read_only"}
  MaxSwitches = 1
INVARIANT PlanBlocks
\* The system stops when every call is over.
CHECK_DEADLOCK FALSE
