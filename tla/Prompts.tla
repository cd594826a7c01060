------------------------------- MODULE Prompts -------------------------------
(***************************************************************************)
(* Interactive permission prompts: the pipeline that asks and waits        *)
(* (runtime/tool_pipeline.py), the one slot that holds the future of the   *)
(* call that waits (runtime/permission_manager.py), the renderer that      *)
(* shows the dialog and forwards the answer (view/stream_renderer.py) and  *)
(* the one dialog of the screen (view/repl/components/dialog_popover.py).  *)
(*                                                                         *)
(* The policy says which calls ask; a mode may be switched, and a tool     *)
(* always allowed, while others wait.  The calls of one turn follow each   *)
(* other; turns overlap, since every submitted line starts a task          *)
(* (view/repl/coordinator.py).  The calls of a gathered batch wait at      *)
(* once, and the renderer sees their requests when all are over.           *)
(***************************************************************************)
EXTENDS PermissionModes, FiniteSets

CONSTANTS
  Asks,      \* the tool calls
  Turn,      \* of each call
  Tool, Key, \* of each call, its tool and the tool with its args_preview
  InRoot,    \* the calls whose path is under the working directory
  Speculated, \* the calls whose tool can be run in an overlay first
  After,     \* the calls of its turn that must be over before it opens
  Gather,    \* the calls of the one gathered batch
  None

ASSUME AsksAssumption ==
  /\ After \in [Asks -> SUBSET Asks] /\ Tool \in [Asks -> ToolNames]
  /\ IsFiniteSet(Asks) /\ Gather \subseteq Asks /\ Speculated \subseteq Asks
  /\ None \notin Asks

VARIABLES
  st,        \* of each call
  begun,     \* the turns that have begun
  outcome,   \* of each call: what the policy said
  slot,      \* perm_mgr._permission_future: whose future it is
  fut,       \* the future of each ask
  dialog,    \* DialogPopover._active: whose dialog it is
  overlay,   \* the speculative run of each ask
  ran,       \* of each ask: let run or not, and then run or blocked by a hook
  exact,     \* _session_allowed_exact
  rooted,    \* _session_allowed_path_roots has the working directory
  choice     \* history: what the user chose in the ask's dialog

promptVars == <<st, begun, outcome, slot, fut, dialog, overlay, ran, exact, rooted, choice>>
vars == <<promptVars, modeVars>>

Choices == {"allow", "always_kind", "always_exact", "edit", "deny"}
Allowing == {"allow", "always_kind", "always_exact", "edit"}
-----------------------------------------------------------------------------
Init ==
  /\ ModeInit
  /\ begun = {}
  /\ outcome = [x \in Asks |-> "none"]
  /\ exact = {} /\ rooted = FALSE
  /\ st = [x \in Asks |-> "new"]
  /\ slot = None /\ dialog = None
  /\ fut = [x \in Asks |-> "none"]
  /\ overlay = [x \in Asks |-> "none"]
  /\ ran = [x \in Asks |-> "no"]
  /\ choice = [x \in Asks |-> "none"]

Respond_All(v) ==   \* mutant: every call that waits is answered
  [x \in Asks |-> IF fut[x] = "pending" THEN v ELSE fut[x]]

(* send_permission_response: the answer goes to whoever holds the slot; with
   no one there, or one who has an answer, it is dropped. *)
Respond(v) ==
  IF slot # None /\ fut[slot] = "pending" THEN [fut EXCEPT ![slot] = v] ELSE fut

(* The call creates its future and waits. *)
Wait(x, futures) ==
  /\ st' = [st EXCEPT ![x] = "waiting"]
  /\ fut' = [futures EXCEPT ![x] = "pending"]
  /\ slot' = x

(* "Always allow this type" makes the policy allow the tool, and lets the edit
   tools write in the working directory, whichever of them it was given for;
   the lists of tools and of command prefixes hold no more than the policy. *)
SessionAllowed(x) ==
  \/ Key[x] \in exact
  \/ rooted /\ Tool[x] \in EditTools /\ x \in InRoot

(* A call let run by the policy, an allowlist or its prompt meets the
   pre_tool_use hooks. *)
Verdicts == {"ran", "blocked"}

BeginTurn(t) ==
  /\ t \notin begun
  /\ begun' = begun \cup {t}
  /\ SyncPlanMode
  /\ UNCHANGED <<st, outcome, slot, fut, dialog, overlay, ran, exact, rooted, choice>>

Opens(x) ==
  /\ st[x] = "new" /\ Turn[x] \in begun
  /\ \A y \in After[x] : st[y] = "finished"
  /\ outcome' = [outcome EXCEPT ![x] = Authorize(Tool[x])]

(* A call that is refused, or goes on without a prompt. *)
OpenUnasked(x) ==
  /\ Opens(x)
  /\ ~NeedsPrompt(Tool[x]) \/ SessionAllowed(x)
  /\ st' = [st EXCEPT ![x] = "finished"]
  /\ \E v \in IF Refused(Tool[x]) THEN {"no"} ELSE Verdicts : ran' = [ran EXCEPT ![x] = v]
  /\ UNCHANGED <<begun, slot, fut, dialog, overlay, exact, rooted, choice, modeVars>>

(* show_select raises while another dialog is up. *)
DialogFree_Unchecked == TRUE   \* mutant
DialogFree == dialog = None

(* pre_execute runs the tool in an overlay; one that cannot has none. *)
Staged(x) == IF x \in Speculated THEN "staged" ELSE "none"

(* Speculate, where the tool can, in an overlay of the file system, and yield
   the request: to the renderer, or to the buffer of the gathered batch.  The
   screen refuses a second dialog, which the renderer takes for a "deny". *)
Ask(x) ==
  /\ Opens(x) /\ NeedsPrompt(Tool[x]) /\ ~SessionAllowed(x)
  /\ overlay' = [overlay EXCEPT ![x] = Staged(x)]
  /\ \/ x \in Gather /\ Wait(x, fut) /\ UNCHANGED dialog
     \/ /\ x \notin Gather /\ DialogFree
        /\ dialog' = x
        /\ st' = [st EXCEPT ![x] = "dialog"]
        /\ UNCHANGED <<slot, fut>>
     \/ x \notin Gather /\ ~DialogFree /\ Wait(x, Respond("deny")) /\ UNCHANGED dialog
  /\ UNCHANGED <<begun, ran, exact, rooted, choice, modeVars>>

(* The request of a gathered call reaches the renderer when the batch is over,
   one after the other. *)
Replay(x) ==
  /\ x \in Gather /\ st[x] = "settled"
  /\ \A y \in Gather : st[y] \in {"settled", "finished"}
  /\ \/ /\ DialogFree /\ dialog' = x
        /\ st' = [st EXCEPT ![x] = "dialog"] /\ UNCHANGED fut
     \/ /\ ~DialogFree /\ fut' = Respond("deny")
        /\ st' = [st EXCEPT ![x] = "finished"] /\ UNCHANGED dialog
  /\ UNCHANGED <<begun, outcome, slot, overlay, ran, exact, rooted, choice, modeVars>>
-----------------------------------------------------------------------------
(* The dialog closes and the answer is sent; only then does the generator go
   on, and a call that has not waited yet creates its future. *)
Answer(x, v) ==
  /\ dialog' = None
  /\ choice' = [choice EXCEPT ![x] = v]
  /\ \/ x \notin Gather /\ Wait(x, Respond(v))
     \/ /\ x \in Gather /\ fut' = Respond(v)
        /\ st' = [st EXCEPT ![x] = "finished"] /\ UNCHANGED slot
  /\ UNCHANGED <<begun, outcome, overlay, ran, exact, rooted, modeVars>>

(* Escape and a dialog that fails count as "deny". *)
Choose(x) ==
  /\ st[x] = "dialog"
  /\ \E v \in Choices \ {"edit"} : Answer(x, v)

ChooseEdit(x) ==
  /\ st[x] = "dialog"
  /\ st' = [st EXCEPT ![x] = "editing"]
  /\ UNCHANGED <<begun, outcome, slot, fut, dialog, overlay, ran, exact, rooted, choice, modeVars>>

(* Arguments that do not parse run as they were; Escape denies. *)
EditEnds(x) ==
  /\ st[x] = "editing"
  /\ \E v \in {"edit", "allow", "deny"} : Answer(x, v)
-----------------------------------------------------------------------------
Response_TimeoutAllows(x) == IF fut[x] = "pending" THEN "allow" ELSE fut[x]  \* mutant
Response(x) == IF fut[x] = "pending" THEN "deny" ELSE fut[x]

After300s_Never(x) == fut[x] # "pending"   \* mutant: wait without a timeout
After300s(x) == fut[x] \in {"pending"} \cup Choices

Settled(x, response) ==
  /\ st' = [st EXCEPT ![x] = IF x \in Gather THEN "settled" ELSE "finished"]
  /\ \E v \in IF response \in Allowing THEN Verdicts ELSE {"no"} :
       ran' = [ran EXCEPT ![x] = v]
  /\ AllowTool(IF response = "always_kind" THEN {Tool[x]} ELSE {})
  /\ rooted' = (rooted \/ (response = "always_kind" /\ Tool[x] \in EditTools))
  /\ exact' = exact \cup (IF response = "always_exact" THEN {Key[x]} ELSE {})

OverlayAfter_NotOnTimeout(x) ==   \* mutant: only an answer settles the overlay
  IF overlay[x] = "none" \/ fut[x] = "pending" THEN overlay[x]
  ELSE IF Response(x) \in Allowing THEN "committed" ELSE "discarded"

(* confirm copies the overlay to the real files, deny deletes it. *)
OverlayAfter(x) ==
  IF overlay[x] = "none" THEN "none"
  ELSE IF Response(x) \in Allowing THEN "committed" ELSE "discarded"

(* The wait ends, with the answer or after 300 seconds as "deny"; the slot is
   emptied whoever holds it.  A call let run has its overlay committed first;
   then come the hooks, and the tool is run as well. *)
Settle(x) ==
  /\ st[x] = "waiting" /\ After300s(x)
  /\ slot' = None
  /\ Settled(x, Response(x))
  /\ overlay' = [overlay EXCEPT ![x] = OverlayAfter(x)]
  /\ UNCHANGED <<begun, outcome, fut, dialog, choice>>

(* Enter belongs to the dialog while one is up, Shift+Tab to the screen. *)
UserSwitches == (TogglePlanMode \/ (dialog = None /\ Command)) /\ UNCHANGED promptVars

(* A turn that is not over calls a tool of plan mode. *)
ModelSwitches(t) ==
  /\ t \in begun /\ \E x \in Asks : Turn[x] = t /\ st[x] = "new"
  /\ ModelPlans /\ UNCHANGED promptVars

Next ==
  \/ UserSwitches
  \/ \E t \in {Turn[x] : x \in Asks} : BeginTurn(t) \/ ModelSwitches(t)
  \/ \E x \in Asks :
       \/ OpenUnasked(x) \/ Ask(x) \/ Replay(x)
       \/ Choose(x) \/ ChooseEdit(x) \/ EditEnds(x) \/ Settle(x)

(* asyncio.wait_for wakes its task, answered or not.  The user may leave a
   dialog open for ever. *)
Spec == Init /\ [][Next]_vars /\ \A x \in Asks : WF_vars(Settle(x))
-----------------------------------------------------------------------------
(* Types; a dialog is up exactly while an ask is in it. *)
TypeOK ==
  /\ ModesTypeOK
  /\ begun \subseteq {Turn[x] : x \in Asks} /\ rooted \in BOOLEAN
  /\ outcome \in [Asks -> Outcomes \cup {"none"}]
  /\ st \in [Asks -> {"new", "dialog", "editing", "waiting", "settled", "finished"}]
  /\ slot \in Asks \cup {None} /\ dialog \in Asks \cup {None}
  /\ fut \in [Asks -> Choices \cup {"none", "pending"}]
  /\ overlay \in [Asks -> {"none", "staged", "committed", "discarded"}]
  /\ ran \in [Asks -> Verdicts \cup {"no"}]
  /\ exact \subseteq {Key[x] : x \in Asks}
  /\ choice \in [Asks -> Choices \cup {"none"}]
  /\ {x \in Asks : st[x] \in {"dialog", "editing"}} = {dialog} \ {None}

(* Prompted: the asks that waited for an answer of their own. *)
Prompted == {x \in Asks : fut[x] # "none"}

(* Every tool let run by a prompt was let run by an allowing answer, and no
   answer lets two run, although one slot is shared by calls that wait at the
   same time and is emptied by each of them for all. *)
OneRunPerAnswer ==
  Cardinality({x \in Prompted : ran[x] # "no"})
    <= Cardinality({x \in Asks : choice[x] \in Allowing})

(* A speculative run reaches the file system if and only if the prompt let its
   call run, and is not left staged by a timeout or by another call's answer.
   If a hook then blocks the call, its changes are in the file system already. *)
OverlaySettled ==
  \A x \in Asks : st[x] \in {"settled", "finished"} =>
    /\ overlay[x] # "staged"
    /\ overlay[x] = "committed" => ran[x] \in Verdicts
    /\ overlay[x] = "discarded" => ran[x] = "no"

(* An "always" answer is a grant for one tool or one call: no two grants come
   from one answer, whoever holds the slot when it is sent and however many
   calls wait, and no mode that lets tools run without a prompt leaves one. *)
OneGrantPerAnswer ==
  /\ Cardinality(allowed \ AllowTools) + Cardinality(exact)
       <= Cardinality({x \in Asks : choice[x] \in {"always_kind", "always_exact"}})
  /\ rooted => EditTools \cap (allowed \ AllowTools) # {}

(* A tool of the deny list is never run, not even in an overlay, and never
   asked about, whatever modes are switched to and whatever is always allowed. *)
DenyWins ==
  \A x \in Asks : Tool[x] \in denied =>
    ran[x] = "no" /\ overlay[x] = "none" /\ fut[x] = "none"

(* No call waits for ever, not even one whose future lost the slot to another
   call and can no longer be answered. *)
WaitEnds == \A x \in Asks : st[x] = "waiting" ~> st[x] # "waiting"

(* The answer the user gives to a request is the one the call gets: the hint
   of the choice "allow" says "Allow this tool call". *)
AnswerObeyed ==
  \A x \in Asks : st[x] = "finished" /\ choice[x] # "none" =>
    (ran[x] \in Verdicts <=> choice[x] \in Allowing)

(* The policy's "plan" blocks: its comment says "All mutating tools are gated
   (NEED_PLAN) - runtime blocks execution". *)
PlanBlocks == \A x \in Asks : outcome[x] = "need_plan" => ran[x] = "no"
=============================================================================
