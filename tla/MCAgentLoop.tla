----------------------------- MODULE MCAgentLoop -----------------------------
(* TLC instance of AgentLoop: two tools that fall back on each other, so that
   only the budget ends a chain of swaps. *)
EXTENDS AgentLoop
CONSTANTS read, bash, quit

MCExit == <<"no_progress", "explicit_exit", "denial_threshold", "max_steps">>
MCFallback == [t \in {read, bash} |-> IF t = read THEN bash ELSE read]
=============================================================================
