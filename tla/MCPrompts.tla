------------------------------ MODULE MCPrompts ------------------------------
(* TLC instance of Prompts: two turns that overlap, one with a single call, the
   other with a single call and then a gathered batch of two. *)
EXTENDS Prompts
CONSTANTS x1, y1, g1, g2, bash, edit, multi, t1, t2

MCAsks == {x1, y1, g1, g2}
MCTurn == [x \in MCAsks |-> IF x = y1 THEN t2 ELSE t1]
MCTool == [x \in MCAsks |-> CASE x = y1 -> multi [] x = g2 -> edit [] OTHER -> bash]
MCKey == [x \in MCAsks |-> IF x \in {y1, g2} THEN x ELSE bash]
MCAfter == [x \in MCAsks |-> IF x \in {g1, g2} THEN {x1} ELSE {}]
MCLevel == [t \in {bash, edit, multi} |-> IF t = bash THEN 2 ELSE 1]
MCDenyConfigs == {{}, {edit}}
=============================================================================
