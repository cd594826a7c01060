---------------------------- MODULE PromptsProofs ----------------------------
(***************************************************************************)
(* Proofs about Prompts, for any finite set of tool calls, however they    *)
(* are ordered and gathered, any policy and any number of mode switches:   *)
(* the types, the deny list, the overlays, and that an answer lets one     *)
(* call run and makes one grant at most.                                   *)
(***************************************************************************)
EXTENDS Prompts, FiniteSetTheorems, FunctionTheorems, TLAPS

(* The calls that have not waited yet, and those that have been let go. *)
Fresh(x) == st[x] = "new" \/ (x \notin Gather /\ st[x] \in {"dialog", "editing"})
Resolved(x) ==
  \/ st[x] \in {"settled", "finished"}
  \/ x \in Gather /\ st[x] \in {"dialog", "editing"}

(* A tool that is denied never gets beyond the policy. *)
DenyInv ==
  \A x \in Asks : Tool[x] \in denied =>
    st[x] \in {"new", "finished"} /\ ran[x] = "no" /\ overlay[x] = "none"
      /\ fut[x] = "none"

OverlayInv ==
  \A x \in Asks :
    /\ st[x] = "new" => overlay[x] = "none"
    /\ Resolved(x) =>
         /\ overlay[x] # "staged"
         /\ overlay[x] = "committed" => ran[x] \in Verdicts
         /\ overlay[x] = "discarded" => ran[x] = "no"

(* A call has a future once it waits, is asked about once, and is let run by
   its prompt only with an allowing answer in its future. *)
AskInv ==
  \A x \in Asks :
    /\ Fresh(x) => fut[x] = "none" /\ ran[x] = "no"
    /\ Fresh(x) \/ (x \in Gather /\ st[x] # "finished") => choice[x] = "none"
    /\ fut[x] # "none" /\ ran[x] # "no" => fut[x] \in Allowing

(* The grants of the session are those of the futures; a tool that is asked
   about is not on the configured allow list. *)
GrantInv ==
  /\ \A x \in Asks : st[x] \notin {"new", "finished"} => Tool[x] \notin AllowTools
  /\ \A t \in allowed \ AllowTools : \E x \in Asks : fut[x] = "always_kind" /\ Tool[x] = t
  /\ \A k \in exact : \E x \in Asks : fut[x] = "always_exact" /\ Key[x] = k
  /\ rooted => EditTools \cap (allowed \ AllowTools) # {}

(* The futures with an answer of V, and the dialogs in which one was chosen. *)
Got(V) == {x \in Asks : fut[x] \in V}
Given(V) == {x \in Asks : choice[x] \in V}
CountInv(V) == Cardinality(Got(V)) <= Cardinality(Given(V))
Always == {"always_kind", "always_exact"}

PromptsInv ==
  /\ TypeOK /\ DenyInv /\ OverlayInv /\ AskInv /\ GrantInv
  /\ CountInv(Allowing) /\ CountInv(Always)
-----------------------------------------------------------------------------
LEMMA AuthorizeType == \A t : Authorize(t) \in Outcomes
BY DEF Authorize, ByMode, Outcomes

(* Switching modes touches neither list, and no call. *)
LEMMA SwitchKeeps ==
  ASSUME ModesTypeOK, TogglePlanMode \/ Command \/ ModelPlans
  PROVE  ModesTypeOK' /\ UNCHANGED <<denied, allowed>>
<1>1. ASSUME NEW m \in Modes, NEW h \in BOOLEAN, NEW a \in BOOLEAN, Switch(m, h, a)
      PROVE  ModesTypeOK' /\ UNCHANGED <<denied, allowed>>
  BY <1>1, ModesAssumption DEF Switch, ModesTypeOK
<1>2. /\ {"workspace_write", "plan", "prompt", "auto_accept"} \subseteq Modes
      /\ mode \in Modes /\ harness \in BOOLEAN /\ app \in BOOLEAN
  BY DEF Modes, MaxLevel, ModesTypeOK
<1>3. CASE TogglePlanMode
  <2> DEFINE target == IF mode \in {"plan", "read_only"} THEN "workspace_write" ELSE "plan"
  <2>1. Switch(target, target = "plan", app) BY <1>3 DEF TogglePlanMode
  <2>2. target \in Modes /\ (target = "plan") \in BOOLEAN BY <1>2
  <2> QED BY <1>1, <1>2, <2>1, <2>2
<1>4. CASE CmdPlan
  <2>1. Switch(mode, ~app, ~app) /\ (~app) \in BOOLEAN BY <1>2, <1>4 DEF CmdPlan
  <2> QED BY <1>1, <1>2, <2>1
<1>5. CASE CmdYolo
  <2> DEFINE target == IF mode = "auto_accept" THEN "prompt" ELSE "auto_accept"
  <2>1. Switch(target, harness, app) /\ target \in Modes BY <1>2, <1>5 DEF CmdYolo
  <2> QED BY <1>1, <1>2, <2>1
<1>6. CASE CmdMode
  <2>1. PICK m \in {"prompt", "workspace_write", "plan"} : Switch(m, m = "plan", m = "plan")
    BY <1>6 DEF CmdMode
  <2>2. m \in Modes /\ (m = "plan") \in BOOLEAN BY <1>2
  <2> QED BY <1>1, <2>1, <2>2
<1>7. CASE ModelPlans
  <2>1. Switch(mode, ~harness, app) /\ (~harness) \in BOOLEAN BY <1>2, <1>7 DEF ModelPlans
  <2> QED BY <1>1, <1>2, <2>1
<1> QED BY <1>3, <1>4, <1>5, <1>6, <1>7 DEF Command

(* Whoever switches, and whenever a turn begins. *)
LEMMA ModeStep ==
  ASSUME ModesTypeOK,
         UserSwitches \/ \E t \in {Turn[x] : x \in Asks} : BeginTurn(t) \/ ModelSwitches(t)
  PROVE  /\ ModesTypeOK' /\ UNCHANGED <<denied, allowed>>
         /\ UNCHANGED <<st, outcome, slot, fut, dialog, overlay, ran, exact, rooted, choice>>
         /\ begun' = begun \/ \E t \in {Turn[x] : x \in Asks} : begun' = begun \cup {t}
<1>1. CASE UserSwitches
  BY <1>1, SwitchKeeps DEF UserSwitches, promptVars
<1>2. CASE \E t \in {Turn[x] : x \in Asks} : ModelSwitches(t)
  BY <1>2, SwitchKeeps DEF ModelSwitches, promptVars
<1>3. CASE \E t \in {Turn[x] : x \in Asks} : BeginTurn(t)
  BY <1>3 DEF BeginTurn, SyncPlanMode, ModesTypeOK
<1> QED BY <1>1, <1>2, <1>3

(* A step of the system, by the kinds of steps the proofs tell apart. *)
LEMMA StepCases ==
  ASSUME ModesTypeOK, [Next]_vars
  PROVE  \/ /\ ModesTypeOK' /\ UNCHANGED <<denied, allowed>>
            /\ UNCHANGED <<st, outcome, slot, fut, dialog, overlay, ran, exact, rooted, choice>>
            /\ begun' = begun \/ \E t \in {Turn[x] : x \in Asks} : begun' = begun \cup {t}
         \/ \E x \in Asks : OpenUnasked(x) \/ Ask(x) \/ Replay(x) \/ ChooseEdit(x) \/ Settle(x)
         \/ \E x \in Asks, v \in Choices : st[x] \in {"dialog", "editing"} /\ Answer(x, v)
<1>1. CASE UNCHANGED vars
  BY <1>1 DEF vars, promptVars, modeVars, ModesTypeOK
<1>2. CASE Next
  BY <1>2, ModeStep DEF Next, Choose, EditEnds, Choices
<1> QED BY <1>1, <1>2

LEMMA RespondType ==
  ASSUME TypeOK, NEW v \in Choices
  PROVE  /\ Respond(v) \in [Asks -> Choices \cup {"none", "pending"}]
         /\ \A y \in Asks : Respond(v)[y] = fut[y] \/ (y = slot /\ fut[y] = "pending" /\ Respond(v)[y] = v)
<1>1. fut \in [Asks -> Choices \cup {"none", "pending"}] /\ slot \in Asks \cup {None}
  BY DEF TypeOK
<1> QED BY <1>1 DEF Respond

LEMMA TypeStep == ASSUME TypeOK, [Next]_vars PROVE TypeOK'
<1>1. ModesTypeOK BY DEF TypeOK
<1>2. CASE /\ ModesTypeOK' /\ UNCHANGED <<denied, allowed>>
           /\ UNCHANGED <<st, outcome, slot, fut, dialog, overlay, ran, exact, rooted, choice>>
           /\ begun' = begun \/ \E t \in {Turn[x] : x \in Asks} : begun' = begun \cup {t}
  BY <1>2 DEF TypeOK
<1>3. ASSUME NEW x \in Asks, OpenUnasked(x) PROVE TypeOK'
  <2>1. ModesTypeOK' BY <1>1, <1>3 DEF OpenUnasked, modeVars, ModesTypeOK
  <2>2. outcome' \in [Asks -> Outcomes \cup {"none"}]
    BY <1>3, AuthorizeType DEF OpenUnasked, Opens, TypeOK
  <2>3. st[x] = "new" BY <1>3 DEF OpenUnasked, Opens
  <2> QED BY <1>3, <2>1, <2>2, <2>3 DEF OpenUnasked, TypeOK, Verdicts
<1>4. ASSUME NEW x \in Asks, Ask(x) PROVE TypeOK'
  <2>1. ModesTypeOK' BY <1>1, <1>4 DEF Ask, modeVars, ModesTypeOK
  <2>2. outcome' \in [Asks -> Outcomes \cup {"none"}]
    BY <1>4, AuthorizeType DEF Ask, Opens, TypeOK
  <2>3. st[x] = "new" /\ "deny" \in Choices BY <1>4 DEF Ask, Opens, Choices
  <2>4. None \notin Asks BY AsksAssumption
  <2>5. overlay' \in [Asks -> {"none", "staged", "committed", "discarded"}]
    BY <1>4 DEF Ask, Staged, TypeOK
  <2>6. CASE Wait(x, fut) /\ UNCHANGED dialog
    BY <1>4, <2>1, <2>2, <2>3, <2>5, <2>6 DEF Ask, Wait, TypeOK
  <2>7. CASE Wait(x, Respond("deny")) /\ UNCHANGED dialog
    BY <1>4, <2>1, <2>2, <2>3, <2>5, <2>7, RespondType DEF Ask, Wait, TypeOK
  <2>8. CASE DialogFree /\ dialog' = x /\ st' = [st EXCEPT ![x] = "dialog"] /\ UNCHANGED <<slot, fut>>
    BY <1>4, <2>1, <2>2, <2>3, <2>4, <2>5, <2>8 DEF Ask, DialogFree, TypeOK
  <2> QED BY <1>4, <2>6, <2>7, <2>8 DEF Ask
<1>5. ASSUME NEW x \in Asks, Replay(x) PROVE TypeOK'
  <2>1. ModesTypeOK' BY <1>1, <1>5 DEF Replay, modeVars, ModesTypeOK
  <2>2. st[x] = "settled" /\ "deny" \in Choices /\ None \notin Asks
    BY <1>5, AsksAssumption DEF Replay, Choices
  <2> QED BY <1>5, <2>1, <2>2, RespondType DEF Replay, DialogFree, TypeOK
<1>6. ASSUME NEW x \in Asks, ChooseEdit(x) PROVE TypeOK'
  <2>1. ModesTypeOK' BY <1>1, <1>6 DEF ChooseEdit, modeVars, ModesTypeOK
  <2> QED BY <1>6, <2>1 DEF ChooseEdit, TypeOK
<1>7. ASSUME NEW x \in Asks, NEW v \in Choices, st[x] \in {"dialog", "editing"}, Answer(x, v)
      PROVE  TypeOK'
  <2>1. ModesTypeOK' BY <1>1, <1>7 DEF Answer, modeVars, ModesTypeOK
  <2>2. dialog = x BY <1>7 DEF TypeOK
  <2> QED BY <1>7, <2>1, <2>2, RespondType DEF Answer, Wait, TypeOK
<1>8. ASSUME NEW x \in Asks, Settle(x) PROVE TypeOK'
  <2>1. ModesTypeOK'
    BY <1>1, <1>8, AsksAssumption DEF Settle, Settled, AllowTool, ModesTypeOK
  <2>2. st[x] = "waiting" BY <1>8 DEF Settle
  <2>3. overlay' \in [Asks -> {"none", "staged", "committed", "discarded"}]
    BY <1>8 DEF Settle, OverlayAfter, TypeOK
  <2>4. ran' \in [Asks -> Verdicts \cup {"no"}] /\ rooted' \in BOOLEAN
        /\ exact' \subseteq {Key[y] : y \in Asks}
    BY <1>8 DEF Settle, Settled, TypeOK
  <2> QED BY <1>8, <2>1, <2>2, <2>3, <2>4 DEF Settle, Settled, TypeOK
<1> QED BY <1>1, <1>2, <1>3, <1>4, <1>5, <1>6, <1>7, <1>8, StepCases
-----------------------------------------------------------------------------
LEMMA DenyStep == ASSUME TypeOK, DenyInv, [Next]_vars PROVE DenyInv'
<1>1. ModesTypeOK BY DEF TypeOK
<1> USE DEF TypeOK
<1>2. ASSUME NEW x \in Asks, OpenUnasked(x) PROVE DenyInv'
  <2>1. Tool[x] \in denied => Refused(Tool[x]) BY DEF Refused, Authorize
  <2>2. Tool[x] \in denied => ran'[x] = "no" BY <1>2, <2>1 DEF OpenUnasked
  <2> QED BY <1>2, <2>2 DEF OpenUnasked, DenyInv, modeVars
<1>3. ASSUME NEW x \in Asks, Ask(x) PROVE DenyInv'
  <2>1. Tool[x] \notin denied BY <1>3 DEF Ask, NeedsPrompt, Refused, Authorize
  <2>2. \A y \in Asks \ {x} : Tool[y] \in denied =>
          st'[y] = st[y] /\ overlay'[y] = overlay[y] /\ fut'[y] = fut[y]
    <3>1. "deny" \in Choices BY DEF Choices
    <3> QED BY <1>3, <3>1, RespondType DEF Ask, Wait, DenyInv
  <2> QED BY <1>3, <2>1, <2>2 DEF Ask, DenyInv, modeVars
<1>4. ASSUME NEW x \in Asks, Replay(x) PROVE DenyInv'
  <2>1. "deny" \in Choices BY DEF Choices
  <2>2. \A y \in Asks : Tool[y] \in denied => y # x /\ fut'[y] = fut[y]
    BY <1>4, <2>1, RespondType DEF Replay, DenyInv
  <2> QED BY <1>4, <2>2 DEF Replay, DenyInv, modeVars
<1>5. ASSUME NEW x \in Asks, ChooseEdit(x) PROVE DenyInv'
  BY <1>5 DEF ChooseEdit, DenyInv, modeVars
<1>6. ASSUME NEW x \in Asks, NEW v \in Choices, st[x] \in {"dialog", "editing"}, Answer(x, v)
      PROVE  DenyInv'
  <2>1. \A y \in Asks : Tool[y] \in denied => y # x /\ fut'[y] = fut[y] /\ st'[y] = st[y]
    BY <1>6, RespondType DEF Answer, Wait, DenyInv
  <2> QED BY <1>6, <2>1 DEF Answer, DenyInv, modeVars
<1>7. ASSUME NEW x \in Asks, Settle(x) PROVE DenyInv'
  <2>1. Tool[x] \notin denied BY <1>7 DEF Settle, DenyInv
  <2>2. denied' = denied BY <1>7 DEF Settle, Settled, AllowTool
  <2>3. \A y \in Asks \ {x} : st'[y] = st[y] /\ overlay'[y] = overlay[y] /\ fut'[y] = fut[y]
                              /\ ran'[y] = ran[y]
    BY <1>7 DEF Settle, Settled
  <2> QED BY <2>1, <2>2, <2>3 DEF DenyInv
<1> QED BY <1>1, <1>2, <1>3, <1>4, <1>5, <1>6, <1>7, StepCases DEF DenyInv

LEMMA OverlayStep == ASSUME TypeOK, OverlayInv, [Next]_vars PROVE OverlayInv'
<1>1. ModesTypeOK BY DEF TypeOK
<1> USE DEF TypeOK
<1>2. ASSUME NEW x \in Asks, OpenUnasked(x) PROVE OverlayInv'
  BY <1>2 DEF OpenUnasked, Opens, OverlayInv, Resolved
<1>3. ASSUME NEW x \in Asks, Ask(x) PROVE OverlayInv'
  <2>1. \A y \in Asks \ {x} : st'[y] = st[y] /\ overlay'[y] = overlay[y] /\ ran'[y] = ran[y]
    BY <1>3 DEF Ask, Wait
  <2>2. st'[x] = "waiting" \/ (x \notin Gather /\ st'[x] = "dialog")
    BY <1>3 DEF Ask, Wait
  <2> QED BY <2>1, <2>2 DEF OverlayInv, Resolved
<1>4. ASSUME NEW x \in Asks, Replay(x) PROVE OverlayInv'
  BY <1>4 DEF Replay, OverlayInv, Resolved
<1>5. ASSUME NEW x \in Asks, ChooseEdit(x) PROVE OverlayInv'
  BY <1>5 DEF ChooseEdit, OverlayInv, Resolved
<1>6. ASSUME NEW x \in Asks, NEW v \in Choices, st[x] \in {"dialog", "editing"}, Answer(x, v)
      PROVE  OverlayInv'
  BY <1>6 DEF Answer, Wait, OverlayInv, Resolved
<1>7. ASSUME NEW x \in Asks, Settle(x) PROVE OverlayInv'
  <2>1. \A y \in Asks \ {x} : st'[y] = st[y] /\ overlay'[y] = overlay[y] /\ ran'[y] = ran[y]
    BY <1>7 DEF Settle, Settled
  <2>2. overlay'[x] = OverlayAfter(x) /\ st'[x] \in {"settled", "finished"}
    BY <1>7 DEF Settle, Settled
  <2>3. IF Response(x) \in Allowing THEN ran'[x] \in Verdicts ELSE ran'[x] = "no"
    BY <1>7 DEF Settle, Settled
  <2> QED BY <2>1, <2>2, <2>3 DEF OverlayAfter, OverlayInv, Resolved
<1> QED BY <1>1, <1>2, <1>3, <1>4, <1>5, <1>6, <1>7, StepCases DEF OverlayInv, Resolved

LEMMA AskStep == ASSUME TypeOK, AskInv, [Next]_vars PROVE AskInv'
<1>1. ModesTypeOK BY DEF TypeOK
<1>0. "deny" \in Choices /\ {"none", "pending"} \cap Choices = {} /\ Allowing \subseteq Choices
  BY DEF Choices, Allowing
<1> USE DEF TypeOK
<1>2. ASSUME NEW x \in Asks, OpenUnasked(x) PROVE AskInv'
  BY <1>2 DEF OpenUnasked, Opens, AskInv, Fresh
<1>3. ASSUME NEW x \in Asks, Ask(x) PROVE AskInv'
  <2>1. \A y \in Asks \ {x} : /\ st'[y] = st[y] /\ ran'[y] = ran[y] /\ choice'[y] = choice[y]
                              /\ fut'[y] = fut[y] \/ (fut[y] = "pending" /\ fut'[y] \in Choices)
    BY <1>0, <1>3, RespondType DEF Ask, Wait
  <2>2. /\ st[x] = "new" /\ ran'[x] = ran[x] /\ choice'[x] = choice[x]
        /\ \/ st'[x] = "waiting" /\ fut'[x] = "pending"
           \/ x \notin Gather /\ st'[x] = "dialog" /\ fut'[x] = fut[x]
    BY <1>0, <1>3, RespondType DEF Ask, Opens, Wait
  <2> QED BY <1>0, <2>1, <2>2 DEF AskInv, Fresh
<1>4. ASSUME NEW x \in Asks, Replay(x) PROVE AskInv'
  <2>1. \A y \in Asks : fut'[y] = fut[y] \/ (fut[y] = "pending" /\ fut'[y] \in Choices)
    BY <1>0, <1>4, RespondType DEF Replay
  <2> QED BY <1>0, <1>4, <2>1 DEF Replay, AskInv, Fresh
<1>5. ASSUME NEW x \in Asks, ChooseEdit(x) PROVE AskInv'
  BY <1>5 DEF ChooseEdit, AskInv, Fresh
<1>6. ASSUME NEW x \in Asks, NEW v \in Choices, st[x] \in {"dialog", "editing"}, Answer(x, v)
      PROVE  AskInv'
  <2>1. \A y \in Asks \ {x} : /\ st'[y] = st[y] /\ ran'[y] = ran[y] /\ choice'[y] = choice[y]
                              /\ fut'[y] = fut[y] \/ (fut[y] = "pending" /\ fut'[y] \in Choices)
    BY <1>6, RespondType DEF Answer, Wait
  <2>2. ran'[x] = ran[x] BY <1>6 DEF Answer
  <2>3. CASE x \in Gather
    <3>1. st'[x] = "finished" /\ (fut'[x] = fut[x] \/ (fut[x] = "pending" /\ fut'[x] \in Choices))
      BY <1>6, <2>3, RespondType DEF Answer
    <3> QED BY <1>0, <2>1, <2>2, <2>3, <3>1 DEF AskInv, Fresh
  <2>4. CASE x \notin Gather
    <3>1. st'[x] = "waiting" /\ fut'[x] = "pending"
      BY <1>6, <2>4, RespondType DEF Answer, Wait
    <3> QED BY <1>0, <1>6, <2>1, <2>2, <2>4, <3>1 DEF AskInv, Fresh
  <2> QED BY <2>3, <2>4
<1>7. ASSUME NEW x \in Asks, Settle(x) PROVE AskInv'
  <2>1. \A y \in Asks \ {x} : st'[y] = st[y] /\ ran'[y] = ran[y]
    BY <1>7 DEF Settle, Settled
  <2>2. fut' = fut /\ choice' = choice /\ st[x] = "waiting" BY <1>7 DEF Settle
  <2>3. IF x \in Gather THEN st'[x] = "settled" ELSE st'[x] = "finished"
    BY <1>7 DEF Settle, Settled
  <2>4. ran'[x] # "no" => Response(x) \in Allowing
    BY <1>7 DEF Settle, Settled
  <2>5. Response(x) \in Allowing => fut[x] \in Allowing BY DEF Response, Allowing
  <2> QED BY <1>0, <2>1, <2>2, <2>3, <2>4, <2>5 DEF AskInv, Fresh
<1> QED BY <1>1, <1>2, <1>3, <1>4, <1>5, <1>6, <1>7, StepCases DEF AskInv, Fresh
-----------------------------------------------------------------------------
(* One more on the left only if there is one more on the right. *)
LEMMA OneMoreEach ==
  ASSUME NEW A, NEW B, NEW C, NEW D, IsFiniteSet(A), IsFiniteSet(C), IsFiniteSet(D),
         Cardinality(A) <= Cardinality(C),
         \/ B \subseteq A /\ C \subseteq D
         \/ \E a, b : B \subseteq A \cup {a} /\ b \notin C /\ C \cup {b} \subseteq D
  PROVE  Cardinality(B) <= Cardinality(D)
<1>1. Cardinality(A) \in Nat /\ Cardinality(C) \in Nat /\ Cardinality(D) \in Nat
  BY FS_CardinalityType
<1>2. CASE B \subseteq A /\ C \subseteq D
  <2>1. Cardinality(B) <= Cardinality(A) /\ Cardinality(B) \in Nat
    BY <1>2, FS_Subset, FS_CardinalityType
  <2>2. Cardinality(C) <= Cardinality(D) BY <1>2, FS_Subset
  <2> QED BY <1>1, <2>1, <2>2
<1>3. CASE \E a, b : B \subseteq A \cup {a} /\ b \notin C /\ C \cup {b} \subseteq D
  <2>1. PICK a, b : B \subseteq A \cup {a} /\ b \notin C /\ C \cup {b} \subseteq D BY <1>3
  <2>2. IsFiniteSet(A \cup {a}) /\ Cardinality(A \cup {a}) <= Cardinality(A) + 1
    BY <1>1, FS_AddElement
  <2>3. Cardinality(B) <= Cardinality(A \cup {a}) /\ Cardinality(B) \in Nat
        /\ Cardinality(A \cup {a}) \in Nat
    BY <2>1, <2>2, FS_Subset, FS_CardinalityType
  <2>4. Cardinality(C \cup {b}) = Cardinality(C) + 1 BY <2>1, FS_AddElement
  <2>5. Cardinality(C \cup {b}) <= Cardinality(D) BY <2>1, FS_Subset
  <2> QED BY <1>1, <2>2, <2>3, <2>4, <2>5
<1> QED BY <1>2, <1>3

(* Every answer of V that a future has was given in a dialog of its own. *)
LEMMA CountStep ==
  ASSUME TypeOK, AskInv, NEW V \in SUBSET Allowing, CountInv(V), [Next]_vars
  PROVE  CountInv(V)'
<1>0. "deny" \in Choices /\ {"none", "pending", "deny"} \cap V = {}
  BY DEF Choices, Allowing
<1>1. ModesTypeOK BY DEF TypeOK
<1> USE DEF TypeOK
<1>2. IsFiniteSet(Got(V)) /\ IsFiniteSet(Given(V)) /\ IsFiniteSet(Given(V)')
  BY AsksAssumption, FS_Subset DEF Got, Given
<1>3. ASSUME \/ Got(V)' \subseteq Got(V) /\ Given(V) \subseteq Given(V)'
             \/ \E a, b : /\ Got(V)' \subseteq Got(V) \cup {a}
                         /\ b \notin Given(V) /\ Given(V) \cup {b} \subseteq Given(V)'
      PROVE  CountInv(V)'
  BY <1>2, <1>3, OneMoreEach DEF CountInv
<1>4. ASSUME UNCHANGED <<fut, choice>> PROVE CountInv(V)'
  BY <1>4 DEF CountInv, Got, Given
<1>5. ASSUME NEW x \in Asks, Ask(x) PROVE CountInv(V)'
  <2>1. Got(V)' \subseteq Got(V) BY <1>0, <1>5, RespondType DEF Ask, Wait, Got
  <2>2. Given(V)' = Given(V) BY <1>5 DEF Ask, Given
  <2> QED BY <1>3, <2>1, <2>2
<1>6. ASSUME NEW x \in Asks, Replay(x) PROVE CountInv(V)'
  <2>1. Got(V)' \subseteq Got(V) BY <1>0, <1>6, RespondType DEF Replay, Got
  <2>2. Given(V)' = Given(V) BY <1>6 DEF Replay, Given
  <2> QED BY <1>3, <2>1, <2>2
<1>7. ASSUME NEW x \in Asks, NEW v \in Choices, st[x] \in {"dialog", "editing"}, Answer(x, v)
      PROVE  CountInv(V)'
  <2>1. choice[x] = "none" BY <1>7 DEF AskInv, Fresh
  <2>2. choice' = [choice EXCEPT ![x] = v] BY <1>7 DEF Answer
  <2>3. \A y \in Asks : fut'[y] \in V => fut[y] \in V \/ (y = slot /\ v \in V)
    BY <1>0, <1>7, RespondType DEF Answer, Wait
  <2>4. CASE v \in V
    <3>1. Got(V)' \subseteq Got(V) \cup {slot} BY <2>3 DEF Got
    <3>2. x \notin Given(V) BY <1>0, <2>1 DEF Given
    <3>3. Given(V) \cup {x} \subseteq Given(V)' BY <2>2, <2>4 DEF Given
    <3> QED BY <1>3, <3>1, <3>2, <3>3
  <2>5. CASE v \notin V
    <3>1. Got(V)' \subseteq Got(V) BY <2>3, <2>5 DEF Got
    <3>2. Given(V) \subseteq Given(V)' BY <1>0, <2>1, <2>2 DEF Given
    <3> QED BY <1>3, <3>1, <3>2
  <2> QED BY <2>4, <2>5
<1>8. ASSUME NEW x \in Asks, OpenUnasked(x) \/ ChooseEdit(x) \/ Settle(x) PROVE CountInv(V)'
  BY <1>4, <1>8 DEF OpenUnasked, ChooseEdit, Settle
<1> QED BY <1>1, <1>4, <1>5, <1>6, <1>7, <1>8, StepCases

LEMMA GrantStep == ASSUME TypeOK, AskInv, GrantInv, [Next]_vars PROVE GrantInv'
<1>0. "deny" \in Choices /\ {"none", "pending"} \cap Choices = {}
  BY DEF Choices
<1>1. ModesTypeOK BY DEF TypeOK
<1> USE DEF TypeOK
<1> USE DEF Always
(* Futures that hold an answer keep it. *)
<1>2. ASSUME NEW x \in Asks, OpenUnasked(x) \/ Ask(x) \/ Replay(x) \/ ChooseEdit(x) \/
                \E v \in Choices : st[x] \in {"dialog", "editing"} /\ Answer(x, v)
      PROVE  GrantInv'
  <2>1. UNCHANGED <<allowed, exact, rooted>>
    BY <1>2 DEF OpenUnasked, Ask, Replay, ChooseEdit, Answer, modeVars
  <2>2. \A y \in Asks : fut[y] \in Always => fut'[y] = fut[y]
    <3>1. CASE OpenUnasked(x) \/ ChooseEdit(x) BY <3>1 DEF OpenUnasked, ChooseEdit
    <3>2. CASE Ask(x)
      <4>1. fut[x] = "none" BY <3>2 DEF Ask, Opens, AskInv, Fresh
      <4> QED BY <1>0, <3>2, <4>1, RespondType DEF Ask, Wait
    <3>3. CASE Replay(x) BY <1>0, <3>3, RespondType DEF Replay
    <3>4. ASSUME NEW v \in Choices, st[x] \in {"dialog", "editing"}, Answer(x, v)
          PROVE  \A y \in Asks : fut[y] \in Always => fut'[y] = fut[y]
      <4>1. x \notin Gather => fut[x] = "none" BY <3>4 DEF AskInv, Fresh
      <4> QED BY <3>4, <4>1, RespondType DEF Answer, Wait
    <3> QED BY <1>2, <3>1, <3>2, <3>3, <3>4
  <2>3. \A y \in Asks \ {x} : st'[y] = st[y]
    BY <1>2 DEF OpenUnasked, Ask, Replay, ChooseEdit, Answer, Wait
  <2>4. st'[x] \notin {"new", "finished"} => Tool[x] \notin AllowTools
    <3>1. CASE OpenUnasked(x) BY <3>1 DEF OpenUnasked
    <3>2. CASE Ask(x)
      <4>1. Tool[x] \notin allowed BY <3>2 DEF Ask, NeedsPrompt, Refused, Authorize
      <4> QED BY <1>1, <4>1 DEF ModesTypeOK
    <3>3. CASE st[x] \notin {"new", "finished"} BY <3>3 DEF GrantInv
    <3> QED BY <1>2, <3>1, <3>2, <3>3 DEF Replay, ChooseEdit
  <2> QED BY <2>1, <2>2, <2>3, <2>4 DEF GrantInv
<1>3. ASSUME NEW x \in Asks, Settle(x) PROVE GrantInv'
  <2>1. st[x] = "waiting" /\ fut' = fut BY <1>3 DEF Settle
  <2>2. Tool[x] \notin AllowTools BY <2>1 DEF GrantInv
  <2>3. Response(x) \in Always => fut[x] = Response(x) BY DEF Response
  <2>4. \A y \in Asks \ {x} : st'[y] = st[y] BY <1>3 DEF Settle, Settled
  <2>5. /\ allowed' = allowed \cup (IF Response(x) = "always_kind" THEN {Tool[x]} ELSE {})
        /\ rooted' = (rooted \/ (Response(x) = "always_kind" /\ Tool[x] \in EditTools))
        /\ exact' = exact \cup (IF Response(x) = "always_exact" THEN {Key[x]} ELSE {})
    BY <1>3 DEF Settle, Settled, AllowTool
  <2>6. \A y \in Asks : st'[y] \notin {"new", "finished"} => Tool[y] \notin AllowTools
    BY <2>2, <2>4 DEF GrantInv
  <2>7. \A t \in allowed' \ AllowTools : \E y \in Asks : fut'[y] = "always_kind" /\ Tool[y] = t
    BY <2>1, <2>3, <2>5 DEF GrantInv
  <2>8. \A k \in exact' : \E y \in Asks : fut'[y] = "always_exact" /\ Key[y] = k
    BY <2>1, <2>3, <2>5 DEF GrantInv
  <2>9. rooted' => EditTools \cap (allowed' \ AllowTools) # {}
    BY <2>2, <2>5 DEF GrantInv
  <2> QED BY <2>6, <2>7, <2>8, <2>9 DEF GrantInv
<1> QED BY <1>1, <1>2, <1>3, StepCases DEF GrantInv
-----------------------------------------------------------------------------
LEMMA PromptsInit == Init => PromptsInv
<1> SUFFICES ASSUME Init PROVE PromptsInv OBVIOUS
<1>1. TypeOK
  <2>1. ModesTypeOK
    <3>1. harness \in BOOLEAN /\ app \in BOOLEAN BY DEF Init, ModeInit
    <3>2. mode \in Modes /\ denied \in DenyConfigs BY ModesAssumption DEF Init, ModeInit
    <3>3. switches \in 0..MaxSwitches BY ModesAssumption DEF Init, ModeInit
    <3>4. AllowTools \subseteq allowed /\ allowed \subseteq ToolNames
      BY ModesAssumption DEF Init, ModeInit
    <3> QED BY <3>1, <3>2, <3>3, <3>4 DEF ModesTypeOK
  <2> QED BY <2>1, AsksAssumption DEF Init, TypeOK
<1>2. DenyInv /\ OverlayInv /\ AskInv BY DEF Init, DenyInv, OverlayInv, AskInv, Fresh, Resolved
<1>3. GrantInv BY DEF Init, ModeInit, GrantInv
<1>4. ASSUME NEW V \in SUBSET Allowing PROVE CountInv(V)
  <2>1. Got(V) = {} /\ Given(V) = {} BY DEF Init, Got, Given, Allowing
  <2> QED BY <2>1, FS_EmptySet DEF CountInv
<1> QED BY <1>1, <1>2, <1>3, <1>4 DEF PromptsInv, Always, Allowing

(* The inductive invariant of the prompts holds. *)
THEOREM PromptsInvariant == Spec => []PromptsInv
<1>1. PromptsInv /\ [Next]_vars => PromptsInv'
  <2> SUFFICES ASSUME PromptsInv, [Next]_vars PROVE PromptsInv' OBVIOUS
  <2>1. TypeOK' /\ DenyInv' /\ OverlayInv' /\ AskInv' /\ GrantInv'
    BY TypeStep, DenyStep, OverlayStep, AskStep, GrantStep DEF PromptsInv
  <2>2. CountInv(Allowing)' BY CountStep DEF PromptsInv
  <2>3. Always \in SUBSET Allowing BY DEF Always, Allowing
  <2>4. CountInv(Always)' BY <2>3, CountStep DEF PromptsInv
  <2> QED BY <2>1, <2>2, <2>4 DEF PromptsInv
<1> QED BY <1>1, PromptsInit, PTL DEF Spec

(* The state stays within its types, and a dialog is up exactly while a call
   is in it, although every turn shows its own (DialogPopover). *)
THEOREM PromptsAreTyped == Spec => []TypeOK
<1>1. PromptsInv => TypeOK BY DEF PromptsInv
<1> QED BY <1>1, PromptsInvariant, PTL

(* A tool of the deny list is never run, staged or asked about, whatever
   modes are switched to and whatever is always allowed (authorize). *)
THEOREM DenyListWins == Spec => []DenyWins
<1>1. PromptsInv => DenyWins BY DEF PromptsInv, DenyInv, DenyWins
<1> QED BY <1>1, PromptsInvariant, PTL

(* A speculative run is committed if and only if the prompt let the call run,
   and is never left staged (confirm and deny of the speculative executor). *)
THEOREM OverlaysAreSettled == Spec => []OverlaySettled
<1>1. PromptsInv => OverlaySettled
  BY DEF PromptsInv, OverlayInv, Resolved, OverlaySettled
<1> QED BY <1>1, PromptsInvariant, PTL

(* No answer lets two calls run, although all calls that wait share one future
   slot that each of them empties (send_permission_response). *)
THEOREM AnswersRunOneCall == Spec => []OneRunPerAnswer
<1>1. PromptsInv => OneRunPerAnswer
  <2> SUFFICES ASSUME PromptsInv PROVE OneRunPerAnswer OBVIOUS
  <2> DEFINE R == {x \in Prompted : ran[x] # "no"}
  <2>1. R \subseteq Got(Allowing) BY DEF PromptsInv, AskInv, Prompted, Got
  <2>2. IsFiniteSet(Got(Allowing)) /\ IsFiniteSet(Given(Allowing))
    BY AsksAssumption, FS_Subset DEF Got, Given
  <2>3. Cardinality(R) <= Cardinality(Given(Allowing))
    BY <2>1, <2>2, OneMoreEach DEF PromptsInv, CountInv
  <2> QED BY <2>3 DEF OneRunPerAnswer, Given
<1> QED BY <1>1, PromptsInvariant, PTL

(* A function's image is no larger than its domain. *)
LEMMA ImageBound ==
  ASSUME NEW S, IsFiniteSet(S), NEW f, NEW T, \A t \in T : \E x \in S : f[x] = t
  PROVE  IsFiniteSet(T) /\ Cardinality(T) <= Cardinality(S)
<1> DEFINE g == [x \in S |-> f[x]]
           I == {f[x] : x \in S}
<1>1. g \in Surjection(S, I) BY DEF Surjection
<1>2. IsFiniteSet(I) /\ Cardinality(I) <= Cardinality(S) BY <1>1, FS_Surjection
<1>3. T \subseteq I OBVIOUS
<1>4. IsFiniteSet(T) /\ Cardinality(T) <= Cardinality(I) BY <1>2, <1>3, FS_Subset
<1>5. Cardinality(T) \in Nat /\ Cardinality(I) \in Nat /\ Cardinality(S) \in Nat
  BY <1>2, <1>4, FS_CardinalityType
<1> QED BY <1>2, <1>4, <1>5

(* No two grants come from one "always" answer, and the working directory is
   open to the edit tools only if one of them was granted (allow_tool and the
   session's allowlists). *)
THEOREM AnswersMakeOneGrant == Spec => []OneGrantPerAnswer
<1>1. PromptsInv => OneGrantPerAnswer
  <2> SUFFICES ASSUME PromptsInv PROVE OneGrantPerAnswer OBVIOUS
  <2> DEFINE K == Got({"always_kind"})
             E == Got({"always_exact"})
             N == allowed \ AllowTools
  <2>1. IsFiniteSet(K) /\ IsFiniteSet(E) /\ IsFiniteSet(Given(Always))
    BY AsksAssumption, FS_Subset DEF Got, Given
  <2>2. IsFiniteSet(N) /\ Cardinality(N) <= Cardinality(K)
    <3>1. \A t \in N : \E x \in K : Tool[x] = t BY DEF PromptsInv, GrantInv, Got
    <3> QED BY <2>1, <3>1, ImageBound
  <2>3. IsFiniteSet(exact) /\ Cardinality(exact) <= Cardinality(E)
    <3>1. \A k \in exact : \E x \in E : Key[x] = k BY DEF PromptsInv, GrantInv, Got
    <3> QED BY <2>1, <3>1, ImageBound
  <2>4. Cardinality(Got(Always)) = Cardinality(K) + Cardinality(E)
    <3>1. Got(Always) = K \cup E /\ K \cap E = {} BY DEF Got, Always
    <3>2. Cardinality(K \cap E) = 0 BY <3>1, FS_EmptySet
    <3>3. Cardinality(K) \in Nat /\ Cardinality(E) \in Nat BY <2>1, FS_CardinalityType
    <3>4. Cardinality(K \cup E) = Cardinality(K) + Cardinality(E) - Cardinality(K \cap E)
      BY <2>1, FS_Union
    <3> HIDE DEF K, E
    <3> QED BY <3>1, <3>2, <3>3, <3>4
  <2>5. Cardinality(Got(Always)) <= Cardinality(Given(Always)) BY DEF PromptsInv, CountInv
  <2>6. /\ Cardinality(N) \in Nat /\ Cardinality(exact) \in Nat /\ Cardinality(K) \in Nat
        /\ Cardinality(E) \in Nat /\ Cardinality(Given(Always)) \in Nat
    BY <2>1, <2>2, <2>3, FS_CardinalityType
  <2>7. Cardinality(N) + Cardinality(exact) <= Cardinality(Given(Always))
    BY <2>2, <2>3, <2>4, <2>5, <2>6
  <2> QED BY <2>7 DEF OneGrantPerAnswer, Given, Always, PromptsInv, GrantInv
<1> QED BY <1>1, PromptsInvariant, PTL
=============================================================================
