--------------------------- MODULE MCToolDispatch ---------------------------
(* TLC instance of ToolDispatch: a reply with two tools, a forking agent whose
   children each call a tool, one of them through an agent of its own, and a
   single agent: three nested or parallel agents, one fewer than the workers. *)
EXTENDS ToolDispatch
CONSTANTS t1, t2, a1, a2, u1, b1, w1, v1, main, kid, kid2, grandkid, lone

MCCalls == {t1, t2, a1, a2, u1, b1, w1, v1}
MCBatch ==
  [r \in {main, kid, kid2, grandkid, lone} |->
     CASE r = main -> <<t1, a1, t2, a2>> [] r = kid -> <<u1>>
       [] r = kid2 -> <<b1>> [] r = grandkid -> <<w1>> [] r = lone -> <<v1>>]
MCChildren ==
  [a \in {a1, a2, b1} |->
     CASE a = a1 -> {kid, kid2} [] a = a2 -> {lone} [] a = b1 -> {grandkid}]
=============================================================================
