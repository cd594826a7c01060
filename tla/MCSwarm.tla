------------------------------ MODULE MCSwarm ------------------------------
(* Small instances of Swarm. *)
EXTENDS Swarm, TLC

CONSTANTS c1, c2, m1, m2, m3

TwoCallers == {c1, c2}
ThreeMembers == {m1, m2, m3}
OneTalker == {m1}
Mixed == [m \in ThreeMembers |-> IF m = m1 THEN "worktree" ELSE "tmux"]
Symmetric == Permutations(TwoCallers) \cup Permutations({m2, m3})
=============================================================================
