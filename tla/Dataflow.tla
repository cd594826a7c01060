------------------------------ MODULE Dataflow ------------------------------
(***************************************************************************)
(* What one run of a pipeline promises (the docstrings of Pipeline.run and *)
(* AsyncPipeline.run_async): the components' outputs appear once each,     *)
(* never before the outputs they are computed from, and the run returns    *)
(* with all of them or raises.  How many appear at a time, and in which of *)
(* the orders the graph allows, is left open.                              *)
(***************************************************************************)
CONSTANT Comps
VARIABLES edges, outputs, status

Preds(c) == {a \in Comps : <<a, c>> \in edges}

Init == edges = {} /\ outputs = {} /\ status = "ready"

(* The graph is only changed before the run. *)
Build ==
  /\ status = "ready"
  /\ edges' \subseteq Comps \X Comps /\ UNCHANGED <<outputs, status>>

Begin == status = "ready" /\ status' = "running" /\ UNCHANGED <<edges, outputs>>

(* A set of components whose inputs are there; the last one ends the run. *)
Produce(S) ==
  /\ status = "running"
  /\ S # {} /\ S \cap outputs = {} /\ \A c \in S : Preds(c) \subseteq outputs
  /\ outputs' = outputs \cup S
  /\ status' = IF outputs' = Comps THEN "returned" ELSE "running"
  /\ UNCHANGED edges

(* A component fails, or the run is cancelled. *)
Raise == status = "running" /\ status' = "raised" /\ UNCHANGED <<edges, outputs>>

(* A graph with a cycle is refused before anything runs: some components, in
   whichever order they are taken, all wait for one of themselves. *)
Refuse ==
  /\ status = "ready" /\ status' = "raised" /\ UNCHANGED <<edges, outputs>>
  /\ \E S \in (SUBSET Comps) \ {{}} : \A c \in S : Preds(c) \cap S # {}

Next == Build \/ Begin \/ Raise \/ Refuse \/ \E S \in SUBSET Comps : Produce(S)
Spec == Init /\ [][Next]_<<edges, outputs, status>>
=============================================================================
