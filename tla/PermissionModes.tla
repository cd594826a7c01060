--------------------------- MODULE PermissionModes ---------------------------
(***************************************************************************)
(* What a tool may do without asking: the permission policy of the runtime *)
(* (runtime/permissions.py), the guide of the harness that refuses writing *)
(* tools while planning (harness/engine.py), and the ways the user and the *)
(* model have of switching modes.  "Plan mode" is kept in three places:    *)
(* the policy's mode, the flag of the harness, which runtime.plan_mode     *)
(* reads and writes, and the flag of the application state, from which the *)
(* harness is set at the start of each turn.                               *)
(***************************************************************************)
EXTENDS Naturals

CONSTANTS
  Level,        \* of each tool: 0 reads, 1 writes the workspace, 2 everything
  EditTools,    \* edit_file, write_file and multi_edit
  PlanDenied,   \* PLAN_DENIED_TOOLS of the harness
  ReadOnlyTools, \* PLAN_MODE_READ_ONLY_TOOLS and lsp_*
  AllowTools,   \* config.allowed_tools
  DenyConfigs,  \* config.denied_tools, one of these
  InitModes,    \* config.permission_mode, one of these
  MaxSwitches   \* bound: of the mode, by the user and the model

VARIABLES
  mode,      \* PermissionPolicy._mode
  denied,    \* _deny_tools and _deny_patterns
  allowed,   \* _allow_tools
  harness,   \* HarnessEngine.plan_mode
  app,       \* AppState.plan_mode
  switches

modeVars == <<mode, denied, allowed, harness, app, switches>>

ToolNames == DOMAIN Level
MaxLevel == [read_only |-> 0, workspace_write |-> 1, full_access |-> 2]
Modes == DOMAIN MaxLevel \cup {"prompt", "auto_accept", "plan"}
Outcomes == {"allow", "deny", "need_prompt", "need_plan"}

ASSUME ModesAssumption ==
  /\ Level \in [ToolNames -> 0..2]
  /\ EditTools \cup PlanDenied \cup ReadOnlyTools \cup AllowTools \subseteq ToolNames
  /\ DenyConfigs \subseteq SUBSET ToolNames
  /\ InitModes \subseteq Modes \ {"plan"}
  /\ MaxSwitches \in Nat

ModeInit ==
  /\ mode \in InitModes
  /\ denied \in DenyConfigs
  /\ allowed = AllowTools
  /\ harness = FALSE /\ app = FALSE
  /\ switches = 0
-----------------------------------------------------------------------------
(* What the mode alone says of a tool. *)
ByMode(t) ==
  CASE mode = "auto_accept" -> "allow"
    [] mode = "prompt" -> IF Level[t] = 0 THEN "allow" ELSE "need_prompt"
    [] mode = "plan" ->
         IF t \in ReadOnlyTools \/ Level[t] = 0 THEN "allow" ELSE "need_plan"
    [] OTHER -> IF Level[t] <= MaxLevel[mode] THEN "allow" ELSE "deny"

Authorize_GrantFirst(t) ==   \* mutant: a grant or the mode before the deny list
  IF t \in allowed THEN "allow"
  ELSE IF t \in denied /\ mode # "auto_accept" THEN "deny" ELSE ByMode(t)

(* The deny list wins, then the allow list, then the mode. *)
Authorize(t) ==
  IF t \in denied THEN "deny" ELSE IF t \in allowed THEN "allow" ELSE ByMode(t)

(* The harness is asked before the policy. *)
CheckPreTool(t) == harness /\ t \in PlanDenied

(* The pipeline acts on two of the outcomes: a call that is denied ends, one
   that needs a prompt asks.  Any other goes on. *)
Refused(t) == CheckPreTool(t) \/ Authorize(t) = "deny"
NeedsPrompt(t) == ~Refused(t) /\ Authorize(t) = "need_prompt"
-----------------------------------------------------------------------------
Switch(m, h, a) ==
  /\ switches < MaxSwitches
  /\ switches' = switches + 1
  /\ mode' = m /\ harness' = h /\ app' = a
  /\ UNCHANGED <<denied, allowed>>

(* Shift+Tab, at any time; it does not tell the application state. *)
TogglePlanMode ==
  LET target == IF mode \in {"plan", "read_only"} THEN "workspace_write" ELSE "plan"
  IN Switch(target, target = "plan", app)

(* The commands /plan, /yolo and /mode. *)
CmdPlan == Switch(mode, ~app, ~app)
CmdYolo == Switch(IF mode = "auto_accept" THEN "prompt" ELSE "auto_accept", harness, app)
CmdMode == \E m \in {"prompt", "workspace_write", "plan"} : Switch(m, m = "plan", m = "plan")
Command == CmdPlan \/ CmdYolo \/ CmdMode

(* The model's tools enter_plan_mode and exit_plan_mode. *)
ModelPlans == Switch(mode, ~harness, app)

(* The renderer sets the harness before each turn. *)
SyncPlanMode == harness' = app /\ UNCHANGED <<mode, denied, allowed, app, switches>>

AllowTool(ts) ==
  /\ allowed' = allowed \cup ts
  /\ UNCHANGED <<mode, denied, harness, app, switches>>

ModesTypeOK ==
  /\ mode \in Modes /\ denied \in DenyConfigs
  /\ AllowTools \subseteq allowed /\ allowed \subseteq ToolNames
  /\ harness \in BOOLEAN /\ app \in BOOLEAN
  /\ switches \in 0..MaxSwitches
=============================================================================
