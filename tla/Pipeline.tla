------------------------------ MODULE Pipeline ------------------------------
(***************************************************************************)
(* The component graph of the engine: Graph (engine/graph.py), Pipeline    *)
(* (engine/pipeline.py), which runs the components one by one in           *)
(* topological order, and AsyncPipeline (engine/async_pipeline.py), which  *)
(* runs them level by level, the components of a level gathered and those  *)
(* of one concurrency group behind a semaphore (engine/concurrency.py).    *)
(*                                                                         *)
(* A pipeline is built, then run, and run again after it raised or was     *)
(* cancelled, as the Agent's retries do.  asyncio.gather lets the siblings *)
(* of a failed component go on: they may still run beside the next run.    *)
(* A component is a number, which is also its place in the alphabet; the   *)
(* values on its sockets are abstracted to "there" or "not there".         *)
(***************************************************************************)
EXTENDS Naturals, Sequences, FiniteSets, SequencesExt

CONSTANTS
  Comps,          \* the registered components
  Group,          \* concurrency_group of each
  Threaded,       \* the sync ones, bridged by asyncio.to_thread
  MaxParallelism, \* MAX_GROUP_PARALLELISM
  MaxConnects,    \* bound: connections
  MaxRuns         \* bound: runs

ASSUME PipelineAssumption ==
  /\ Comps \subseteq Nat /\ IsFiniteSet(Comps) /\ Comps # {}
  /\ Threaded \subseteq Comps /\ DOMAIN Group = Comps
  /\ MaxParallelism \in Nat \ {0} /\ MaxConnects \in Nat /\ MaxRuns \in Nat \ {0}

Runs == 1..MaxRuns

VARIABLES
  edges,     \* Graph: dependencies, without duplicates
  status,    \* of each run
  mode,      \* of each run: Pipeline.run or AsyncPipeline.run_async
  stages,    \* of each run: what it executes, place by place
  level,     \* of each run: the place it is at, from 1
  st,        \* of each run: its components
  outputs    \* of each run: the components whose outputs are recorded

vars == <<edges, status, mode, stages, level, st, outputs>>

Preds(c) == {a \in Comps : <<a, c>> \in edges}
Succs(c) == {b \in Comps : <<c, b>> \in edges}

(* The members of S in alphabetical order: at each place, the one with so many
   before it. *)
Sorted(S) ==
  [i \in 1..Cardinality(S) |->
     CHOOSE c \in S : Cardinality({b \in S : b < c}) = i - 1]

(* Kahn's algorithm: pop the oldest, and queue its successors that have no
   other predecessor left, in alphabetical order. *)
KahnStart == [order |-> <<>>, queue |-> Sorted({c \in Comps : Preds(c) = {}})]

KahnStep(k) ==
  IF k.queue = <<>> THEN k
  ELSE LET c == Head(k.queue)
           order == Append(k.order, c)
       IN  [order |-> order,
            queue |-> Tail(k.queue) \o
              Sorted({b \in Succs(c) : Preds(b) \subseteq ToSet(order)})]

Kahn[n \in Nat] == IF n = 0 THEN KahnStart ELSE KahnStep(Kahn[n - 1])

TopologicalSort == Kahn[Cardinality(Comps)].order
Cyclic == Len(TopologicalSort) # Cardinality(Comps)

(* Level of a component: the longest path from a root. *)
Depth_Shortest ==   \* mutant: the shortest
  LET d[c \in Comps] ==
        IF Preds(c) = {} THEN 0 ELSE Min({d[a] : a \in Preds(c)}) + 1
  IN  d

Depth ==
  LET d[c \in Comps] ==
        IF Preds(c) = {} THEN 0 ELSE Max({d[a] : a \in Preds(c)}) + 1
  IN  d

(* What a run executes at its i-th place: a component of the order, or a level
   of it. *)
Stages(m) ==
  IF m = "sync" THEN [i \in 1..Cardinality(Comps) |-> {TopologicalSort[i]}]
  ELSE LET d == Depth
           deepest == Max({d[c] : c \in Comps})
       IN  [i \in 1..(deepest + 1) |-> {c \in Comps : d[c] = i - 1}]
-----------------------------------------------------------------------------
Init ==
  /\ edges = {}
  /\ status = [r \in Runs |-> "ready"]
  /\ mode \in [Runs -> {"sync", "async"}]
  /\ stages = [r \in Runs |-> <<>>]
  /\ level = [r \in Runs |-> 0]
  /\ st = [r \in Runs |-> [c \in Comps |-> "idle"]]
  /\ outputs = [r \in Runs |-> {}]

(* Pipeline.connect of two sockets whose types fit; repeated edges are one. *)
Connect(a, b) ==
  /\ \A r \in Runs : status[r] = "ready"
  /\ Cardinality(edges) < MaxConnects
  /\ edges' = edges \cup {<<a, b>>}
  /\ UNCHANGED <<status, mode, stages, level, st, outputs>>

(* The tasks of a stage are created; they queue for the semaphore. *)
Enter(r, S, i) ==
  /\ level' = [level EXCEPT ![r] = i]
  /\ st' = [st EXCEPT ![r] = [c \in Comps |->
              IF c \in S THEN "waiting" ELSE st[r][c]]]

Over(r) == status[r] \in {"returned", "raised", "cancelled"}

Begin_KeepsOutputs(r) ==   \* mutant: outputs kept from run to run
  /\ status[r] = "ready" /\ (r > 1 => Over(r - 1)) /\ ~Cyclic
  /\ status' = [status EXCEPT ![r] = "running"]
  /\ stages' = [stages EXCEPT ![r] = Stages(mode[r])]
  /\ Enter(r, stages'[r][1], 1)
  /\ outputs' = [outputs EXCEPT ![r] = IF r > 1 THEN outputs[r - 1] ELSE {}]
  /\ UNCHANGED <<edges, mode>>

Begin(r) ==
  /\ status[r] = "ready" /\ (r > 1 => Over(r - 1))
  /\ \/ /\ Cyclic
        /\ status' = [status EXCEPT ![r] = "raised"]
        /\ UNCHANGED <<stages, level, st>>
     \/ /\ ~Cyclic
        /\ status' = [status EXCEPT ![r] = "running"]
        /\ stages' = [stages EXCEPT ![r] = Stages(mode[r])]
        /\ Enter(r, stages'[r][1], 1)
  /\ UNCHANGED <<edges, mode, outputs>>

InFlight_Leaks(r, g) ==   \* mutant: a failure keeps its permit
  {c \in Comps : Group[c] = g /\ st[r][c] \in {"running", "failed"}}

InFlight(r, g) == {c \in Comps : Group[c] = g /\ st[r][c] = "running"}
Queued(r, g) == {c \in Comps : Group[c] = g /\ st[r][c] = "waiting"}

Free_OneMore(r, c) ==   \* mutant: one permit too many
  Cardinality(InFlight(r, Group[c])) <= MaxParallelism

Free(r, c) == Cardinality(InFlight(r, Group[c])) < MaxParallelism

(* The semaphore wakes its waiters in turn; inputs are then resolved, and a
   missing one is a KeyError before the component is called. *)
Acquire(r, c) ==
  /\ st[r][c] = "waiting" /\ c = Min(Queued(r, Group[c])) /\ Free(r, c)
  /\ st' = [st EXCEPT ![r][c] = "running"]
  /\ UNCHANGED <<edges, status, mode, stages, level, outputs>>

Finish(r, c) ==
  /\ st[r][c] = "running"
  /\ st' = [st EXCEPT ![r][c] = "done"]
  /\ UNCHANGED <<edges, status, mode, stages, level, outputs>>

Fail_Swallowed(r, c) ==   \* mutant: the exception is only logged
  /\ st[r][c] = "running"
  /\ st' = [st EXCEPT ![r][c] = "failed"]
  /\ UNCHANGED <<edges, status, mode, stages, level, outputs>>

(* The first exception of a run is raised; gather neither waits for the
   siblings nor cancels them. *)
Fail(r, c) ==
  /\ st[r][c] = "running"
  /\ st' = [st EXCEPT ![r][c] = "failed"]
  /\ status' = [status EXCEPT ![r] = IF @ = "running" THEN "raised" ELSE @]
  /\ UNCHANGED <<edges, mode, stages, level, outputs>>

Stage(r) == stages[r][level[r]]

Complete(r) == \A c \in Stage(r) : st[r][c] = "done"

(* Every component of the stage has returned: record, go on or return. *)
Record(r) ==
  /\ status[r] = "running" /\ Complete(r)
  /\ outputs' = [outputs EXCEPT ![r] = @ \cup Stage(r)]
  /\ \/ outputs'[r] # Comps /\ Enter(r, stages[r][level[r] + 1], level[r] + 1)
        /\ UNCHANGED status
     \/ outputs'[r] = Comps /\ status' = [status EXCEPT ![r] = "returned"]
        /\ UNCHANGED <<level, st>>
  /\ UNCHANGED <<edges, mode, stages>>

(* The awaiting task is cancelled and gather cancels its children; a thread
   cannot be cancelled. *)
Cancel(r) ==
  /\ status[r] = "running" /\ mode[r] = "async"
  /\ status' = [status EXCEPT ![r] = "cancelled"]
  /\ st' = [st EXCEPT ![r] = [c \in Comps |->
       IF st[r][c] = "waiting" \/ (st[r][c] = "running" /\ c \notin Threaded)
       THEN "cancelled" ELSE st[r][c]]]
  /\ UNCHANGED <<edges, mode, stages, level, outputs>>

Work(r) == Record(r) \/ \E c \in Comps : Acquire(r, c) \/ Finish(r, c) \/ Fail(r, c)

Next ==
  \/ \E a, b \in Comps : Connect(a, b)
  \/ \E r \in Runs : Begin(r) \/ Work(r) \/ Cancel(r)

Spec == Init /\ [][Next]_vars

(* Fair: components end, the event loop resumes what is ready.  Nobody has to
   start a run, and no component has to fail. *)
FairSpec ==
  Spec /\ \A r \in Runs : WF_vars(Work(r))
-----------------------------------------------------------------------------
(* Types; a run in progress has no failed component. *)
TypeOK ==
  /\ edges \subseteq Comps \X Comps /\ Cardinality(edges) <= MaxConnects
  /\ status \in [Runs -> {"ready", "running", "returned", "raised", "cancelled"}]
  /\ mode \in [Runs -> {"sync", "async"}]
  /\ stages \in [Runs -> Seq(SUBSET Comps)]
  /\ level \in [Runs -> 0..Cardinality(Comps)]
  /\ st \in [Runs -> [Comps -> {"idle", "waiting", "running", "done", "failed",
                                "cancelled"}]]
  /\ outputs \in [Runs -> SUBSET Comps]
  /\ \A r \in Runs : status[r] = "running" =>
       \A c \in Comps : st[r][c] \notin {"failed", "cancelled"}

(* The components of the first n stages of s. *)
Upto(s, n) == {c \in Comps : \E i \in DOMAIN s : i <= n /\ c \in s[i]}

(* s executes every component once, and none before those it depends on. *)
Schedule(s) ==
  /\ s \in Seq(SUBSET Comps) /\ Len(s) \in 1..Cardinality(Comps)
  /\ Upto(s, Len(s)) = Comps
  /\ \A j \in DOMAIN s : /\ s[j] # {} /\ s[j] \cap Upto(s, j - 1) = {}
                         /\ \A c \in s[j] : Preds(c) \subseteq Upto(s, j - 1)

(* Some components wait for each other. *)
Deadlocked == \E S \in (SUBSET Comps) \ {{}} : \A c \in S : Preds(c) \cap S # {}

(* topological_sort refuses exactly the graphs with a cycle, and for the others
   the order and the levels computed from it are schedules. *)
Sorts ==
  /\ Cyclic <=> Deadlocked
  /\ ~Cyclic => \A m \in {"sync", "async"} : Schedule(Stages(m))

(* A run has at most MaxParallelism components of a group in flight, also while
   the siblings of a failed component go on behind its back. *)
GroupBound ==
  \A r \in Runs, c \in Comps :
    Cardinality(InFlight(r, Group[c])) <= MaxParallelism

(* Cancelled or failed: no outputs are returned. *)
Outcome(r) == IF status[r] = "cancelled" THEN "raised" ELSE status[r]

(* Both ways of running a pipeline, one component at a time or a level at a
   time, keep the promise of Dataflow, a first run and one that follows a run
   that raised and whose components still work. *)
First == INSTANCE Dataflow WITH outputs <- outputs[1], status <- Outcome(1)
Rerun == INSTANCE Dataflow WITH
  outputs <- outputs[MaxRuns], status <- Outcome(MaxRuns)
ImplementsDataflow == First!Spec /\ Rerun!Spec

(* A run comes to an end, and so do the components it left behind. *)
RunsEnd == \A r \in Runs : status[r] = "running" ~>
             Over(r) /\ \A c \in Comps : st[r][c] \notin {"waiting", "running"}
=============================================================================
