-------------------------- MODULE ToolDispatchProofs --------------------------
(***************************************************************************)
(* Proofs about ToolDispatch, for any tree of runtimes, any batches and    *)
(* any size of the pool: a turn that is over has left nothing running, the *)
(* pool and its queue agree with the calls, and without parallel tools the *)
(* calls of a reply are under way one at a time.  Last, progress: no step  *)
(* goes back, and one can be taken unless agents hold every worker.        *)
(*                                                                         *)
(* NoOrphans is not inductive: that a sub-agent is started once, from its  *)
(* call's one work item, and that no call is touched before its turn has a *)
(* reply or after it is over, are what DispatchInv adds.  OneByOne is not  *)
(* either: OrderInv adds that a tool under way has all before it done, and *)
(* that an agent call waits for the tools of its reply.                    *)
(***************************************************************************)
EXTENDS ToolDispatch, FiniteSetTheorems, WellFoundedInduction, TLAPS

CallStates == {"waiting", "reading", "asking", "queued", "running", "raised", "done"}
Phases == {"off", "model", "reads", "tools", "agents", "over", "failed", "cancelled"}

Types ==
  /\ phase \in [Runtimes -> Phases]
  /\ st \in [Calls -> CallStates]
  /\ queue \in Seq(Calls)

(* Each call has at most one work item, and only while it is queued. *)
QueueInv ==
  /\ \A i \in DOMAIN queue : st[queue[i]] = "queued"
  /\ \A i, j \in DOMAIN queue : i # j => queue[i] # queue[j]

(* What a runtime's phase says of the calls of its batch. *)
BatchInv ==
  \A c \in Calls :
    /\ phase[Owner(c)] \in {"off", "model"} => st[c] = "waiting"
    /\ phase[Owner(c)] = "agents" => c \in AgentCalls \/ st[c] = "done"
    /\ Over(Owner(c)) => st[c] \in {"waiting", "done"}

(* What an agent call's state says of the runtimes it spawns. *)
ChildInv ==
  \A a \in AgentCalls :
    /\ st[a] # "reading"
    /\ st[a] \in {"waiting", "asking", "queued"} => \A s \in Children[a] : phase[s] = "off"
    /\ st[a] = "done" => \A s \in Children[a] : phase[s] = "off" \/ Over(s)

DispatchInv == Types /\ QueueInv /\ BatchInv /\ ChildInv
-----------------------------------------------------------------------------
LEMMA OwnerOfCall ==
  ASSUME NEW c \in Calls
  PROVE  /\ Owner(c) \in Runtimes /\ c \in CallsOf(Owner(c))
         /\ \A r \in Runtimes : c \in CallsOf(r) => r = Owner(c)
<1>1. \E r \in Runtimes : c \in CallsOf(r) BY DispatchAssumption
<1>2. Owner(c) \in Runtimes /\ c \in CallsOf(Owner(c)) BY <1>1 DEF Owner
<1>3. \A r, s \in Runtimes : r # s => CallsOf(r) \cap CallsOf(s) = {}
  BY DispatchAssumption
<1> QED BY <1>2, <1>3

LEMMA CallsOfRuntime ==
  ASSUME NEW r \in Runtimes, NEW c \in CallsOf(r)
  PROVE  c \in Calls /\ Owner(c) = r
<1>1. Batch[r] \in Seq(Calls) BY DispatchAssumption
<1>2. c \in Calls BY <1>1 DEF CallsOf
<1> QED BY <1>2, OwnerOfCall

LEMMA ChildrenOfAgent ==
  ASSUME NEW a \in AgentCalls, NEW s \in Children[a]
  PROVE  /\ a \in Calls /\ s \in Runtimes /\ s # Root
         /\ \A b \in AgentCalls : s \in Children[b] => b = a
<1>1. Children[a] \subseteq Runtimes \ {Root} BY DispatchAssumption
<1>2. \A b \in AgentCalls : b # a => Children[a] \cap Children[b] = {}
  BY DispatchAssumption
<1>3. a \in Calls BY DispatchAssumption
<1> QED BY <1>1, <1>2, <1>3

(* A call that is being worked on belongs to a turn that dispatches. *)
LEMMA OwnerDispatches ==
  ASSUME Types, BatchInv, NEW c \in Calls, st[c] \notin {"waiting", "done"}
  PROVE  /\ phase[Owner(c)] \notin {"off", "model"} /\ ~Over(Owner(c))
         /\ phase[Owner(c)] = "agents" => c \in AgentCalls
BY DEF BatchInv

(* One call moves and no phase changes. *)
LEMMA CallMoves ==
  ASSUME Types, BatchInv, ChildInv, NEW c \in Calls, NEW v \in CallStates,
         phase' = phase, st' = [st EXCEPT ![c] = v],
         phase[Owner(c)] \notin {"off", "model"}, ~Over(Owner(c)),
         phase[Owner(c)] = "agents" => c \in AgentCalls \/ v = "done",
         c \in AgentCalls =>
           /\ v # "reading"
           /\ v \in {"waiting", "asking", "queued"} =>
                st[c] \in {"waiting", "asking", "queued"}
           /\ v = "done" => \A s \in Children[c] : phase[s] = "off" \/ Over(s)
  PROVE  BatchInv' /\ ChildInv'
<1>1. \A d \in Calls : st'[d] = IF d = c THEN v ELSE st[d] BY DEF Types
<1>2. \A r : phase'[r] = phase[r] /\ (Over(r)' <=> Over(r)) BY DEF Over
<1>3. AgentCalls \subseteq Calls BY DispatchAssumption
<1>4. \A d : Owner(d)' = Owner(d) BY DEF Owner, CallsOf
<1>5. BatchInv' BY <1>1, <1>2, <1>4 DEF BatchInv
<1>6. ChildInv' BY <1>1, <1>2, <1>3 DEF ChildInv
<1> QED BY <1>5, <1>6

(* One runtime changes its phase and no call moves. *)
LEMMA PhaseMoves ==
  ASSUME Types, BatchInv, ChildInv, NEW r \in Runtimes, NEW p \in Phases,
         st' = st, phase' = [phase EXCEPT ![r] = p],
         phase[r] \notin {"off", "over", "failed"}, p \notin {"off", "model"},
         p = "agents" => \A c \in CallsOf(r) : c \in AgentCalls \/ st[c] = "done",
         p \in {"over", "failed"} =>
           \A c \in CallsOf(r) : st[c] \in {"waiting", "done"}
  PROVE  BatchInv' /\ ChildInv'
<1>1. \A x \in Runtimes : phase'[x] = IF x = r THEN p ELSE phase[x] BY DEF Types
<1>2. BatchInv'
  <2> SUFFICES ASSUME NEW c \in Calls
               PROVE  /\ phase'[Owner(c)] \in {"off", "model"} => st[c] = "waiting"
                      /\ phase'[Owner(c)] = "agents" => c \in AgentCalls \/ st[c] = "done"
                      /\ phase'[Owner(c)] \in {"over", "failed"} =>
                           st[c] \in {"waiting", "done"}
    BY DEF BatchInv, Over, Owner, CallsOf
  <2>1. Owner(c) \in Runtimes /\ c \in CallsOf(Owner(c)) BY OwnerOfCall
  <2>2. CASE Owner(c) = r BY <1>1, <2>1, <2>2
  <2>3. CASE Owner(c) # r BY <1>1, <2>1, <2>3 DEF BatchInv, Over
  <2> QED BY <2>2, <2>3
<1>3. ChildInv'
  <2> SUFFICES ASSUME NEW a \in AgentCalls, NEW s \in Children[a]
               PROVE  /\ phase[s] = "off" => phase'[s] = "off"
                      /\ Over(s) => Over(s)'
    BY DEF ChildInv
  <2>1. s \in Runtimes BY ChildrenOfAgent
  <2> QED BY <1>1, <2>1 DEF Over
<1> QED BY <1>2, <1>3
-----------------------------------------------------------------------------
(* The queue: an item is added for a call that had none, or none is. *)
LEMMA Enqueued ==
  ASSUME Types, QueueInv, NEW c \in Calls, st[c] # "queued",
         st' = [st EXCEPT ![c] = "queued"], queue' = Append(queue, c)
  PROVE  queue' \in Seq(Calls) /\ QueueInv'
<1>1. /\ queue' \in Seq(Calls) /\ Len(queue') = Len(queue) + 1
      /\ Len(queue) \in Nat
      /\ \A i \in 1..Len(queue) : queue'[i] = queue[i]
      /\ queue'[Len(queue) + 1] = c
      /\ DOMAIN queue = 1..Len(queue) /\ DOMAIN queue' = 1..Len(queue')
  BY DEF Types
<1>2. \A d \in Calls : st'[d] = IF d = c THEN "queued" ELSE st[d] BY DEF Types
<1>3. \A i \in 1..Len(queue) : queue[i] \in Calls /\ st[queue[i]] = "queued" /\ queue[i] # c
  BY <1>1 DEF Types, QueueInv
<1>4. \A i \in 1..Len(queue') : i \in 1..Len(queue) \/ i = Len(queue) + 1 BY <1>1
<1>5. \A i \in DOMAIN queue' : st'[queue'[i]] = "queued"
  BY <1>1, <1>2, <1>3, <1>4
<1>6. \A i, j \in DOMAIN queue' : i # j => queue'[i] # queue'[j]
  BY <1>1, <1>3, <1>4 DEF QueueInv
<1> QED BY <1>1, <1>5, <1>6 DEF QueueInv

LEMMA QueueUntouched ==
  ASSUME Types, QueueInv, queue' = queue, NEW c \in Calls, NEW v \in CallStates,
         st[c] # "queued", st' = [st EXCEPT ![c] = v]
  PROVE  queue' \in Seq(Calls) /\ QueueInv'
BY DEF Types, QueueInv

(* Start takes the head, whose call has no other item. *)
LEMMA Dequeued ==
  ASSUME Types, QueueInv, queue # <<>>, queue' = Tail(queue),
         st' = [st EXCEPT ![Head(queue)] = "running"]
  PROVE  /\ Head(queue) \in Calls /\ st[Head(queue)] = "queued"
         /\ queue' \in Seq(Calls) /\ QueueInv'
<1> DEFINE c == Head(queue)
<1>1. /\ c \in Calls /\ c = queue[1] /\ 1 \in DOMAIN queue
      /\ queue' \in Seq(Calls) /\ Len(queue') = Len(queue) - 1 /\ Len(queue) \in Nat
      /\ \A i \in 1..Len(queue') : queue'[i] = queue[i + 1]
      /\ DOMAIN queue = 1..Len(queue) /\ DOMAIN queue' = 1..Len(queue')
  BY DEF Types
<1>2. st[c] = "queued" BY <1>1 DEF QueueInv
<1> HIDE DEF c
<1>3. \A i \in DOMAIN queue' : i + 1 \in DOMAIN queue /\ i + 1 # 1 BY <1>1
<1>4. \A d \in Calls : st'[d] = IF d = c THEN "running" ELSE st[d] BY DEF Types, c
<1>5. \A i \in DOMAIN queue : queue[i] \in Calls BY DEF Types
<1>6. \A i \in DOMAIN queue' : st'[queue'[i]] = "queued"
  <2> SUFFICES ASSUME NEW i \in DOMAIN queue' PROVE st'[queue'[i]] = "queued" OBVIOUS
  <2>1. queue'[i] = queue[i + 1] /\ i + 1 \in DOMAIN queue /\ queue[i + 1] # c
    BY <1>1, <1>3 DEF QueueInv
  <2> QED BY <1>4, <1>5, <2>1 DEF QueueInv
<1>7. \A i, j \in DOMAIN queue' : i # j => queue'[i] # queue'[j]
  <2> SUFFICES ASSUME NEW i \in DOMAIN queue', NEW j \in DOMAIN queue', i # j
               PROVE  queue'[i] # queue'[j]
    OBVIOUS
  <2>1. queue'[i] = queue[i + 1] /\ queue'[j] = queue[j + 1] /\ i + 1 # j + 1
    BY <1>1
  <2> QED BY <1>3, <2>1 DEF QueueInv
<1> QED BY <1>1, <1>2, <1>6, <1>7 DEF QueueInv, c
-----------------------------------------------------------------------------
LEMMA RuntimeStepKeeps ==
  ASSUME DispatchInv, NEW r \in Runtimes, RuntimeStep(r) \/ ModelFails(r)
  PROVE  DispatchInv'
<1> USE DEF DispatchInv
<1>1. CASE ModelReplies(r)
  <2> PICK reads \in SUBSET Tools(r) :
        st' = [c \in Calls |-> IF c \in reads THEN "reading" ELSE st[c]]
    BY <1>1 DEF ModelReplies
  <2>1. /\ phase[r] = "model" /\ phase' = [phase EXCEPT ![r] = "reads"] /\ queue' = queue
    BY <1>1 DEF ModelReplies
  <2>2. Types' BY <2>1 DEF Types, Phases, CallStates
  <2>3. \A c \in reads : c \in Calls /\ c \notin AgentCalls /\ Owner(c) = r /\ st[c] = "waiting"
    BY <2>1, CallsOfRuntime DEF Tools, BatchInv
  <2>4. \A i \in DOMAIN queue : queue[i] \in Calls /\ queue[i] \notin reads
    BY <2>3 DEF Types, QueueInv
  <2>5. QueueInv' BY <2>1, <2>4 DEF QueueInv
  <2>6. \A x \in Runtimes : phase'[x] = IF x = r THEN "reads" ELSE phase[x]
    BY <2>1 DEF Types
  <2>7. BatchInv'
    <3> SUFFICES ASSUME NEW c \in Calls
                 PROVE  /\ phase'[Owner(c)] \in {"off", "model"} => st'[c] = "waiting"
                        /\ phase'[Owner(c)] = "agents" => c \in AgentCalls \/ st'[c] = "done"
                        /\ phase'[Owner(c)] \in {"over", "failed"} =>
                             st'[c] \in {"waiting", "done"}
      BY DEF BatchInv, Over, Owner, CallsOf
    <3>1. Owner(c) \in Runtimes BY OwnerOfCall
    <3>2. CASE Owner(c) = r BY <2>6, <3>1, <3>2
    <3>3. CASE Owner(c) # r
      <4>1. st'[c] = st[c] /\ phase'[Owner(c)] = phase[Owner(c)] BY <2>3, <2>6, <3>1, <3>3
      <4> QED BY <4>1 DEF BatchInv, Over
    <3> QED BY <3>2, <3>3
  <2>8. ChildInv'
    <3> SUFFICES ASSUME NEW a \in AgentCalls
                 PROVE  /\ st'[a] = st[a]
                        /\ \A s \in Children[a] : phase[s] # "model" => phase'[s] = phase[s]
      BY DEF ChildInv, Over
    <3>1. a \in Calls BY DispatchAssumption
    <3> QED BY <2>1, <2>3, <2>6, <3>1, ChildrenOfAgent
  <2> QED BY <2>2, <2>5, <2>7, <2>8
<1>2. ASSUME NEW p \in Phases, st' = st, queue' = queue, phase' = [phase EXCEPT ![r] = p],
             BatchInv' /\ ChildInv'
      PROVE  DispatchInv'
  <2>1. Types' BY <1>2 DEF Types
  <2>2. QueueInv' BY <1>2 DEF QueueInv
  <2> QED BY <1>2, <2>1, <2>2
<1>3. CASE CollectReads(r)
  <2>1. /\ phase[r] = "reads" /\ phase' = [phase EXCEPT ![r] = "tools"]
        /\ st' = st /\ queue' = queue /\ "tools" \in Phases
    BY <1>3 DEF CollectReads, Phases
  <2>2. BatchInv' /\ ChildInv' BY <2>1, PhaseMoves
  <2> QED BY <1>2, <2>1, <2>2
<1>4. CASE ToolsDone(r)
  <2>1. /\ phase[r] = "tools" /\ phase' = [phase EXCEPT ![r] = "agents"]
        /\ st' = st /\ queue' = queue /\ "agents" \in Phases
        /\ \A c \in Tools(r) : st[c] = "done"
    BY <1>4 DEF ToolsDone, Phases
  <2>2. \A c \in CallsOf(r) : c \in AgentCalls \/ st[c] = "done" BY <2>1 DEF Tools
  <2>3. BatchInv' /\ ChildInv' BY <2>1, <2>2, PhaseMoves
  <2> QED BY <1>2, <2>1, <2>3
<1>5. CASE BatchDone(r)
  <2>1. PICK p \in {"over", "failed"} : phase' = [phase EXCEPT ![r] = p]
    BY <1>5 DEF BatchDone
  <2>2. /\ phase[r] = "agents" /\ st' = st /\ queue' = queue /\ p \in Phases
        /\ \A c \in Agents(r) : st[c] = "done"
    BY <1>5 DEF BatchDone, Phases
  <2>3. \A c \in CallsOf(r) : st[c] = "done"
    BY <2>2, CallsOfRuntime DEF Agents, BatchInv
  <2>4. BatchInv' /\ ChildInv' BY <2>1, <2>2, <2>3, PhaseMoves
  <2> QED BY <1>2, <2>1, <2>2, <2>4
<1>6. CASE ModelFails(r)
  <2>1. /\ phase[r] = "model" /\ phase' = [phase EXCEPT ![r] = "failed"]
        /\ st' = st /\ queue' = queue /\ "failed" \in Phases
    BY <1>6 DEF ModelFails, Phases
  <2>2. \A c \in CallsOf(r) : st[c] = "waiting"
    BY <2>1, CallsOfRuntime DEF BatchInv
  <2>3. BatchInv' /\ ChildInv' BY <2>1, <2>2, PhaseMoves
  <2> QED BY <1>2, <2>1, <2>3
<1> QED BY <1>1, <1>3, <1>4, <1>5, <1>6 DEF RuntimeStep

LEMMA StartKeeps ==
  ASSUME DispatchInv, Start
  PROVE  DispatchInv'
<1> DEFINE c == Head(queue)
<1>1. /\ queue # <<>> /\ queue' = Tail(queue) /\ st' = [st EXCEPT ![c] = "running"]
      /\ phase' = [r \in Runtimes |->
           IF c \in AgentCalls /\ r \in Children[c] THEN "model" ELSE phase[r]]
  BY DEF Start
<1>2. c \in Calls /\ st[c] = "queued" /\ queue' \in Seq(Calls) /\ QueueInv'
  BY <1>1, Dequeued DEF DispatchInv
<1> HIDE DEF c
<1>3. \A d \in Calls : st'[d] = IF d = c THEN "running" ELSE st[d]
  BY <1>1, <1>2 DEF DispatchInv, Types
<1>4. Types' BY <1>1, <1>2 DEF DispatchInv, Types, Phases, CallStates
<1>5. c \in AgentCalls => \A s \in Children[c] : phase[s] = "off"
  BY <1>2 DEF DispatchInv, ChildInv
<1>6. BatchInv'
  <2> SUFFICES ASSUME NEW d \in Calls
               PROVE  /\ phase'[Owner(d)] \in {"off", "model"} => st'[d] = "waiting"
                      /\ phase'[Owner(d)] = "agents" => d \in AgentCalls \/ st'[d] = "done"
                      /\ phase'[Owner(d)] \in {"over", "failed"} =>
                           st'[d] \in {"waiting", "done"}
    BY DEF BatchInv, Over, Owner, CallsOf
  <2>1. Owner(d) \in Runtimes BY OwnerOfCall
  <2>2. /\ phase[Owner(d)] \in {"off", "model"} => st[d] = "waiting"
        /\ phase[Owner(d)] = "agents" => d \in AgentCalls \/ st[d] = "done"
        /\ phase[Owner(d)] \in {"over", "failed"} => st[d] \in {"waiting", "done"}
    BY DEF DispatchInv, BatchInv, Over
  <2>3. CASE c \in AgentCalls /\ Owner(d) \in Children[c]
    <3>1. phase[Owner(d)] = "off" /\ phase'[Owner(d)] = "model"
      BY <1>1, <1>5, <2>1, <2>3
    <3>2. st[d] = "waiting" BY <2>2, <3>1
    <3> QED BY <1>2, <1>3, <3>1, <3>2
  <2>4. CASE ~(c \in AgentCalls /\ Owner(d) \in Children[c])
    <3>1. phase'[Owner(d)] = phase[Owner(d)] BY <1>1, <2>1, <2>4
    <3> QED BY <1>2, <1>3, <2>2, <3>1
  <2> QED BY <2>3, <2>4
<1>7. ChildInv'
  <2> SUFFICES ASSUME NEW a \in AgentCalls
               PROVE  /\ st'[a] # "reading"
                      /\ st'[a] \in {"waiting", "asking", "queued"} =>
                           \A s \in Children[a] : phase'[s] = "off"
                      /\ st'[a] = "done" =>
                           \A s \in Children[a] : phase'[s] \in {"off", "over", "failed"}
    BY DEF ChildInv, Over
  <2>1. a \in Calls BY DispatchAssumption
  <2>2. /\ st[a] # "reading"
        /\ st[a] \in {"waiting", "asking", "queued"} =>
             \A s \in Children[a] : phase[s] = "off"
        /\ st[a] = "done" =>
             \A s \in Children[a] : phase[s] \in {"off", "over", "failed"}
    BY DEF DispatchInv, ChildInv, Over
  <2>3. CASE a = c BY <1>3, <2>1, <2>3
  <2>4. CASE a # c
    <3>1. \A s \in Children[a] : phase'[s] = phase[s]
      BY <1>1, <2>4, ChildrenOfAgent
    <3> QED BY <1>3, <2>1, <2>2, <2>4, <3>1
  <2> QED BY <2>3, <2>4
<1> QED BY <1>2, <1>4, <1>6, <1>7 DEF DispatchInv

LEMMA CallStepKeeps ==
  ASSUME DispatchInv, NEW c \in Calls, Pipeline(c) \/ CallStep(c)
  PROVE  DispatchInv'
<1> USE DEF DispatchInv
<1>1. ASSUME Opens(c)
      PROVE  /\ st[c] = "waiting"
             /\ phase[Owner(c)] \notin {"off", "model"} /\ ~Over(Owner(c))
             /\ phase[Owner(c)] = "agents" => c \in AgentCalls
  BY <1>1 DEF Opens, Over
<1>2. st[c] \notin {"waiting", "done"} =>
        /\ phase[Owner(c)] \notin {"off", "model"} /\ ~Over(Owner(c))
        /\ phase[Owner(c)] = "agents" => c \in AgentCalls
  BY OwnerDispatches
<1>3. c \in AgentCalls /\ st[c] \in {"waiting", "asking", "queued"} =>
        \A s \in Children[c] : phase[s] = "off"
  BY DEF ChildInv
(* The calls that move without touching the queue. *)
<1>4. ASSUME NEW v \in CallStates, st' = [st EXCEPT ![c] = v],
             phase' = phase, queue' = queue, st[c] # "queued", BatchInv', ChildInv'
      PROVE  DispatchInv'
  <2>1. Types' BY <1>4 DEF Types
  <2>2. QueueInv' BY <1>4, QueueUntouched
  <2> QED BY <1>4, <2>1, <2>2
<1>5. ASSUME st' = [st EXCEPT ![c] = "queued"], queue' = Append(queue, c),
             phase' = phase, st[c] # "queued", BatchInv', ChildInv'
      PROVE  DispatchInv'
  <2>1. queue' \in Seq(Calls) /\ QueueInv' BY <1>5, Enqueued
  <2>2. Types' BY <1>5, <2>1 DEF Types, CallStates
  <2> QED BY <1>5, <2>1, <2>2
<1>6. /\ "done" \in CallStates /\ "asking" \in CallStates
      /\ "queued" \in CallStates /\ "raised" \in CallStates
  BY DEF CallStates
<1>7. CASE Refuse(c)
  <2>1. /\ Opens(c) /\ st' = [st EXCEPT ![c] = "done"] /\ phase' = phase /\ queue' = queue
    BY <1>7 DEF Refuse
  <2>2. BatchInv' /\ ChildInv' BY <1>1, <1>3, <1>6, <2>1, CallMoves
  <2> QED BY <1>1, <1>4, <1>6, <2>1, <2>2
<1>8. CASE Ask(c)
  <2>1. /\ Opens(c) /\ st' = [st EXCEPT ![c] = "asking"] /\ phase' = phase /\ queue' = queue
    BY <1>8 DEF Ask
  <2>2. BatchInv' /\ ChildInv' BY <1>1, <1>6, <2>1, CallMoves DEF Opens
  <2> QED BY <1>1, <1>4, <1>6, <2>1, <2>2
<1>9. CASE Submit(c)
  <2>1. /\ Opens(c) /\ st' = [st EXCEPT ![c] = "queued"] /\ phase' = phase
        /\ queue' = Append(queue, c)
    BY <1>9 DEF Submit
  <2>2. BatchInv' /\ ChildInv' BY <1>1, <1>6, <2>1, CallMoves DEF Opens
  <2> QED BY <1>1, <1>5, <2>1, <2>2
<1>10. CASE AskEnds(c)
  <2>1. st[c] = "asking" /\ phase' = phase BY <1>10 DEF AskEnds
  <2>2. CASE st' = [st EXCEPT ![c] = "done"] /\ queue' = queue
    <3>1. BatchInv' /\ ChildInv' BY <1>2, <1>3, <1>6, <2>1, <2>2, CallMoves
    <3> QED BY <1>4, <1>6, <2>1, <2>2, <3>1
  <2>3. CASE st' = [st EXCEPT ![c] = "queued"] /\ queue' = Append(queue, c)
    <3>1. BatchInv' /\ ChildInv' BY <1>2, <1>6, <2>1, <2>3, CallMoves
    <3> QED BY <1>5, <2>1, <2>3, <3>1
  <2> QED BY <1>10, <2>2, <2>3 DEF AskEnds
<1>11. CASE ReadEnds(c)
  <2>1. /\ st[c] = "reading" /\ st' = [st EXCEPT ![c] = "done"]
        /\ phase' = phase /\ queue' = queue
    BY <1>11 DEF ReadEnds
  <2>2. c \notin AgentCalls BY <2>1 DEF ChildInv
  <2>3. BatchInv' /\ ChildInv' BY <1>2, <1>6, <2>1, <2>2, CallMoves
  <2> QED BY <1>4, <1>6, <2>1, <2>3
<1>12. CASE ToolReturns(c)
  <2>1. /\ st[c] = "running" /\ c \notin AgentCalls /\ st' = [st EXCEPT ![c] = "done"]
        /\ phase' = phase /\ queue' = queue
    BY <1>12 DEF ToolReturns
  <2>2. BatchInv' /\ ChildInv' BY <1>2, <1>6, <2>1, CallMoves
  <2> QED BY <1>4, <1>6, <2>1, <2>2
<1>13. ASSUME st[c] = "running", st' = [st EXCEPT ![c] = "raised"],
              phase' = phase, queue' = queue
       PROVE  DispatchInv'
  <2>1. BatchInv' /\ ChildInv' BY <1>2, <1>6, <1>13, CallMoves
  <2> QED BY <1>4, <1>6, <1>13, <2>1
<1>14. CASE c \in AgentCalls /\ AgentReturns(c)
  <2>1. /\ st[c] = "running" /\ st' = [st EXCEPT ![c] = "done"]
        /\ phase' = phase /\ queue' = queue /\ \A s \in Children[c] : Over(s)
    BY <1>14 DEF AgentReturns
  <2>2. BatchInv' /\ ChildInv' BY <1>2, <1>6, <2>1, CallMoves
  <2> QED BY <1>4, <1>6, <2>1, <2>2
<1> HIDE DEF DispatchInv
<1>15. CASE Pipeline(c) BY <1>7, <1>8, <1>9, <1>10, <1>15 DEF Pipeline
<1>16. CASE CallStep(c)
  <2>1. \/ ReadEnds(c) \/ ToolReturns(c) \/ ToolRaises(c)
        \/ c \in AgentCalls /\ AgentReturns(c)
        \/ c \in AgentCalls /\ AgentRaises(c)
    BY <1>16, Zenon DEF CallStep
  <2>2. CASE ReadEnds(c) BY <1>11, <2>2
  <2>3. CASE ToolReturns(c) BY <1>12, <2>3
  <2>4. CASE ToolRaises(c) BY <1>13, <2>4 DEF ToolRaises
  <2>5. CASE c \in AgentCalls /\ AgentReturns(c) BY <1>14, <2>5
  <2>6. CASE c \in AgentCalls /\ AgentRaises(c) BY <1>13, <2>6 DEF AgentRaises
  <2> QED BY <2>1, <2>2, <2>3, <2>4, <2>5, <2>6
<1> QED BY <1>15, <1>16
-----------------------------------------------------------------------------
LEMMA DispatchInit == Init => DispatchInv
<1> SUFFICES ASSUME Init PROVE DispatchInv OBVIOUS
<1>1. Types BY DEF Init, Types, Phases, CallStates
<1>2. QueueInv BY DEF Init, QueueInv
<1>3. \A r \in Runtimes : phase[r] \in {"off", "model"} BY DEF Init
<1>4. BatchInv BY <1>3, OwnerOfCall DEF Init, BatchInv, Over
<1>5. \A a \in AgentCalls : \A s \in Children[a] : phase[s] = "off"
  BY ChildrenOfAgent DEF Init
<1>6. ChildInv BY <1>5, DispatchAssumption DEF Init, ChildInv
<1> QED BY <1>1, <1>2, <1>4, <1>6 DEF DispatchInv

LEMMA DispatchStep == DispatchInv /\ [Next]_vars => DispatchInv'
<1> SUFFICES ASSUME DispatchInv, [Next]_vars PROVE DispatchInv' OBVIOUS
<1>1. CASE Start BY <1>1, StartKeeps
<1>2. CASE Cancel
  <2>1. /\ phase[Root] \in {"reads", "tools", "agents"} /\ Root \in Runtimes
        /\ phase' = [phase EXCEPT ![Root] = "cancelled"]
        /\ st' = st /\ queue' = queue /\ "cancelled" \in Phases
    BY <1>2, DispatchAssumption DEF Cancel, Phases
  <2>2. BatchInv' /\ ChildInv' BY <2>1, PhaseMoves DEF DispatchInv
  <2>3. Types' /\ QueueInv' BY <2>1 DEF DispatchInv, Types, QueueInv
  <2> QED BY <2>2, <2>3 DEF DispatchInv
<1>3. ASSUME NEW r \in Runtimes, RuntimeStep(r) \/ ModelFails(r) PROVE DispatchInv'
  BY <1>3, RuntimeStepKeeps
<1>4. ASSUME NEW c \in Calls, Pipeline(c) \/ CallStep(c) PROVE DispatchInv'
  BY <1>4, CallStepKeeps
<1>5. CASE UNCHANGED vars
  BY <1>5 DEF vars, DispatchInv, Types, QueueInv, BatchInv, ChildInv, Over, Owner, CallsOf
<1> QED BY <1>1, <1>2, <1>3, <1>4, <1>5 DEF Next
-----------------------------------------------------------------------------
(* A turn that is over has left no call of its batch running, asking or hung,
   and no sub-agent of one in its turn: collect_results, the gathers of
   conversation.py and the fork of tools/agent.py wait for all they started. *)
THEOREM NothingIsOrphaned == Spec => []NoOrphans
<1>1. DispatchInv => NoOrphans
  <2> SUFFICES ASSUME DispatchInv, NEW r \in Runtimes, Over(r)
               PROVE  /\ \A c \in CallsOf(r) : st[c] \in {"waiting", "done"}
                      /\ \A a \in Agents(r) : \A s \in Children[a] :
                           phase[s] = "off" \/ Over(s)
    BY DEF NoOrphans
  <2>1. \A c \in CallsOf(r) : st[c] \in {"waiting", "done"}
    BY CallsOfRuntime DEF DispatchInv, BatchInv
  <2>2. \A a \in Agents(r) : \A s \in Children[a] : phase[s] = "off" \/ Over(s)
    BY <2>1 DEF Agents, DispatchInv, ChildInv
  <2> QED BY <2>1, <2>2
<1> QED BY <1>1, DispatchInit, DispatchStep, PTL DEF Spec
-----------------------------------------------------------------------------
(* For the order of the calls and the size of the pool: agents wait for the
   tools; one by one, those before a call that is under way have their results;
   every call that is queued has its item; the pool is not overfull. *)
UnderWay == {"asking", "queued", "running"}
AgentsLast == \A c \in AgentCalls : phase[Owner(c)] \in {"reads", "tools"} => st[c] = "waiting"
SerialInv ==
  ~parallel => \A d \in Calls \ AgentCalls : st[d] \in UnderWay =>
                 \A c \in Tools(Owner(d)) : Index(c) < Index(d) => st[c] = "done"
ItemInv == \A c \in Calls : st[c] = "queued" => \E i \in DOMAIN queue : queue[i] = c
PoolInv == IsFiniteSet(Busy) /\ Cardinality(Busy) <= Workers

OrderInv ==
  /\ DispatchInv /\ parallel \in BOOLEAN
  /\ AgentsLast /\ SerialInv /\ ItemInv /\ PoolInv

(* What a step may do to a call. *)
LEMMA CallsProgress ==
  ASSUME DispatchInv, Next
  PROVE  /\ parallel' = parallel
         /\ \A d \in Calls : st[d] = "done" => st'[d] = "done"
         /\ \A d \in Calls : st'[d] \in UnderWay => st[d] \in UnderWay \/ Opens(d)
         /\ \A d \in Calls : st'[d] # st[d] => ~(d \in AgentCalls /\ st'[d] = "reading")
<1> USE DEF DispatchInv
<1>1. CASE Start
  <2> DEFINE c == Head(queue)
  <2>1. /\ queue # <<>> /\ queue' = Tail(queue) /\ st' = [st EXCEPT ![c] = "running"]
        /\ parallel' = parallel
    BY <1>1 DEF Start
  <2>2. c \in Calls /\ st[c] = "queued" BY <2>1, Dequeued
  <2> HIDE DEF c
  <2>3. \A d \in Calls : st'[d] = IF d = c THEN "running" ELSE st[d] BY <2>1, <2>2 DEF Types
  <2> QED BY <2>1, <2>2, <2>3 DEF UnderWay
<1>2. ASSUME st' = st, parallel' = parallel
      PROVE  /\ \A d \in Calls : st[d] = "done" => st'[d] = "done"
             /\ \A d \in Calls : st'[d] \in UnderWay => st[d] \in UnderWay \/ Opens(d)
             /\ \A d \in Calls : st'[d] # st[d] => ~(d \in AgentCalls /\ st'[d] = "reading")
  BY <1>2
<1>3. CASE Cancel BY <1>2, <1>3 DEF Cancel
<1>4. ASSUME NEW r \in Runtimes, CollectReads(r) \/ ToolsDone(r) \/ BatchDone(r) \/ ModelFails(r)
      PROVE  st' = st /\ parallel' = parallel
  BY <1>4 DEF CollectReads, ToolsDone, BatchDone, ModelFails
<1>5. ASSUME NEW r \in Runtimes, ModelReplies(r)
      PROVE  /\ parallel' = parallel
             /\ \A d \in Calls : st[d] = "done" => st'[d] = "done"
             /\ \A d \in Calls : st'[d] \in UnderWay => st[d] \in UnderWay \/ Opens(d)
             /\ \A d \in Calls : st'[d] # st[d] => ~(d \in AgentCalls /\ st'[d] = "reading")
  <2>1. PICK reads \in SUBSET Tools(r) :
          st' = [c \in Calls |-> IF c \in reads THEN "reading" ELSE st[c]]
    BY <1>5 DEF ModelReplies
  <2>2. parallel' = parallel /\ phase[r] = "model" BY <1>5 DEF ModelReplies
  <2>3. \A c \in reads : c \notin AgentCalls /\ st[c] = "waiting"
    BY <2>2, CallsOfRuntime DEF Tools, BatchInv
  <2> QED BY <2>1, <2>2, <2>3 DEF UnderWay
<1>6. ASSUME NEW c \in Calls, Pipeline(c) \/ CallStep(c)
      PROVE  /\ parallel' = parallel
             /\ \A d \in Calls : st[d] = "done" => st'[d] = "done"
             /\ \A d \in Calls : st'[d] \in UnderWay => st[d] \in UnderWay \/ Opens(d)
             /\ \A d \in Calls : st'[d] # st[d] => ~(d \in AgentCalls /\ st'[d] = "reading")
  <2>1. PICK v \in {"done", "asking", "queued", "raised"} : st' = [st EXCEPT ![c] = v]
    BY <1>6 DEF Pipeline, CallStep, Refuse, Ask, Submit, AskEnds, ReadEnds, ToolReturns,
                ToolRaises, AgentReturns, AgentRaises
  <2>2. parallel' = parallel
    BY <1>6 DEF Pipeline, CallStep, Refuse, Ask, Submit, AskEnds, ReadEnds, ToolReturns,
                ToolRaises, AgentReturns, AgentRaises
  <2>3. st[c] # "done" /\ (v \in UnderWay => st[c] \in UnderWay \/ Opens(c))
    BY <1>6, <2>1 DEF Pipeline, CallStep, Refuse, Ask, Submit, AskEnds, ReadEnds, ToolReturns,
                ToolRaises, AgentReturns, AgentRaises, Opens, Types, UnderWay
  <2>4. \A d \in Calls : st'[d] = IF d = c THEN v ELSE st[d] BY <2>1 DEF Types
  <2> QED BY <2>2, <2>3, <2>4
<1> QED BY <1>1, <1>2, <1>3, <1>4, <1>5, <1>6 DEF Next, RuntimeStep

LEMMA SerialStep ==
  ASSUME DispatchInv, SerialInv, Next
  PROVE  SerialInv'
<1>1. /\ parallel' = parallel
      /\ \A d \in Calls : st[d] = "done" => st'[d] = "done"
      /\ \A d \in Calls : st'[d] \in UnderWay => st[d] \in UnderWay \/ Opens(d)
  BY CallsProgress
<1>2. \A c : Owner(c)' = Owner(c) BY DEF Owner, CallsOf
<1>3. \A c : Index(c)' = Index(c) BY <1>2 DEF Index
<1>4. \A r : Tools(r)' = Tools(r) BY DEF Tools, CallsOf
<1> SUFFICES ASSUME ~parallel, NEW d \in Calls \ AgentCalls, st'[d] \in UnderWay,
                    NEW c \in Tools(Owner(d)), Index(c) < Index(d)
             PROVE  st'[c] = "done"
  BY <1>1, <1>2, <1>3, <1>4 DEF SerialInv, UnderWay
<1>5. c \in Calls BY OwnerOfCall, CallsOfRuntime DEF Tools
<1>6. CASE st[d] \in UnderWay BY <1>1, <1>5, <1>6 DEF SerialInv
<1>7. CASE Opens(d)
  <2>1. \A e \in Group(d) : Index(e) < Index(d) => st[e] = "done"
    BY <1>7 DEF Opens, Gathered
  <2>2. Group(d) = Tools(Owner(d)) BY DEF Group
  <2> QED BY <1>1, <1>5, <2>1, <2>2
<1> QED BY <1>1, <1>6, <1>7

(* A call of the tool "agent" waits until the tools of its reply are done. *)
LEMMA AgentsLastStep ==
  ASSUME DispatchInv, AgentsLast, Next
  PROVE  AgentsLast'
<1> USE DEF DispatchInv
<1>1. \A c : Owner(c)' = Owner(c) BY DEF Owner, CallsOf
<1> SUFFICES ASSUME NEW a \in AgentCalls, phase'[Owner(a)] \in {"reads", "tools"}
             PROVE  st'[a] = "waiting"
  BY <1>1 DEF AgentsLast
<1> DEFINE o == Owner(a)
<1>2. a \in Calls /\ o \in Runtimes BY OwnerOfCall, DispatchAssumption
<1>3. phase[o] \in {"model", "reads", "tools"} => st[a] = "waiting"
  BY <1>2 DEF AgentsLast, BatchInv
<1> HIDE DEF o
<1>4. CASE Start
  <2> DEFINE c == Head(queue)
  <2>1. /\ queue # <<>> /\ queue' = Tail(queue) /\ st' = [st EXCEPT ![c] = "running"]
        /\ phase' = [r \in Runtimes |->
             IF c \in AgentCalls /\ r \in Children[c] THEN "model" ELSE phase[r]]
    BY <1>4 DEF Start
  <2>2. c \in Calls /\ st[c] = "queued" BY <2>1, Dequeued
  <2> HIDE DEF c
  <2>3. phase[o] \in {"reads", "tools"} BY <1>2, <2>1 DEF o
  <2> QED BY <1>2, <1>3, <2>1, <2>2, <2>3 DEF Types
<1>5. CASE Cancel
  <2>1. st' = st /\ phase' = [phase EXCEPT ![Root] = "cancelled"] BY <1>5 DEF Cancel
  <2>2. phase[o] \in {"reads", "tools"} BY <1>2, <2>1 DEF Types, o
  <2> QED BY <1>3, <2>1, <2>2
<1>6. ASSUME NEW r \in Runtimes, RuntimeStep(r) \/ ModelFails(r)
      PROVE  st'[a] = "waiting"
  <2>1. CASE ModelReplies(r)
    <3>1. PICK reads \in SUBSET Tools(r) :
            st' = [c \in Calls |-> IF c \in reads THEN "reading" ELSE st[c]]
      BY <2>1 DEF ModelReplies
    <3>2. phase[r] = "model" /\ phase' = [phase EXCEPT ![r] = "reads"]
      BY <2>1 DEF ModelReplies
    <3>3. phase[o] \in {"model", "reads", "tools"} BY <1>2, <3>2 DEF Types, o
    <3>4. a \notin reads BY <3>1 DEF Tools
    <3> QED BY <1>2, <1>3, <3>1, <3>3, <3>4
  <2>2. CASE CollectReads(r)
    <3>1. st' = st /\ phase[r] = "reads" /\ phase' = [phase EXCEPT ![r] = "tools"]
      BY <2>2 DEF CollectReads
    <3>2. phase[o] \in {"reads", "tools"} BY <1>2, <3>1 DEF Types, o
    <3> QED BY <1>3, <3>1, <3>2
  <2>3. ASSUME st' = st, NEW p \in {"agents", "over", "failed"},
               phase' = [phase EXCEPT ![r] = p]
        PROVE  st'[a] = "waiting"
    <3>1. phase[o] \in {"reads", "tools"} BY <1>2, <2>3 DEF Types, o
    <3> QED BY <1>3, <2>3, <3>1
  <2> QED BY <1>6, <2>1, <2>2, <2>3
        DEF RuntimeStep, ModelFails, ToolsDone, BatchDone
<1>7. ASSUME NEW c \in Calls, Pipeline(c) \/ CallStep(c)
      PROVE  st'[a] = "waiting"
  <2>1. PICK v \in {"done", "asking", "queued", "raised"} : st' = [st EXCEPT ![c] = v]
    BY <1>7 DEF Pipeline, CallStep, Refuse, Ask, Submit, AskEnds, ReadEnds, ToolReturns,
                ToolRaises, AgentReturns, AgentRaises
  <2>2. phase' = phase
    BY <1>7 DEF Pipeline, CallStep, Refuse, Ask, Submit, AskEnds, ReadEnds, ToolReturns,
                ToolRaises, AgentReturns, AgentRaises
  <2>3. st[c] # "waiting" \/ Opens(c)
    BY <1>7, <2>1 DEF Pipeline, CallStep, Refuse, Ask, Submit, AskEnds, ReadEnds, ToolReturns,
                ToolRaises, AgentReturns, AgentRaises
  <2>4. st[a] = "waiting" BY <1>3, <2>2 DEF o
  <2>5. c # a BY <2>2, <2>3, <2>4 DEF Opens
  <2> QED BY <1>2, <2>1, <2>4, <2>5 DEF Types
<1> QED BY <1>4, <1>5, <1>6, <1>7 DEF Next

(* What a step may do to the queue and to the pool. *)
LEMMA PoolProgress ==
  ASSUME DispatchInv, Next
  PROVE  \/ Start
         \/ /\ queue' = queue
            /\ \A d \in Calls : st'[d] \in {"queued", "running"} => st'[d] = st[d]
         \/ \E c \in Calls : /\ st[c] # "queued" /\ queue' = Append(queue, c)
                             /\ st' = [st EXCEPT ![c] = "queued"]
<1> USE DEF DispatchInv
<1>1. CASE Cancel BY <1>1 DEF Cancel
<1>2. ASSUME NEW r \in Runtimes, RuntimeStep(r) \/ ModelFails(r)
      PROVE  /\ queue' = queue
             /\ \A d \in Calls : st'[d] \in {"queued", "running"} => st'[d] = st[d]
  <2>1. CASE ModelReplies(r)
    <3>1. PICK reads \in SUBSET Tools(r) :
            st' = [c \in Calls |-> IF c \in reads THEN "reading" ELSE st[c]]
      BY <2>1 DEF ModelReplies
    <3> QED BY <2>1, <3>1 DEF ModelReplies
  <2> QED BY <1>2, <2>1 DEF RuntimeStep, CollectReads, ToolsDone, BatchDone, ModelFails
<1>3. ASSUME NEW c \in Calls, Pipeline(c) \/ CallStep(c)
      PROVE  \/ /\ queue' = queue
                /\ \A d \in Calls : st'[d] \in {"queued", "running"} => st'[d] = st[d]
             \/ /\ st[c] # "queued" /\ queue' = Append(queue, c)
                /\ st' = [st EXCEPT ![c] = "queued"]
  <2>1. \/ /\ queue' = queue
           /\ \E v \in {"done", "asking", "raised"} : st' = [st EXCEPT ![c] = v]
        \/ /\ st[c] # "queued" /\ queue' = Append(queue, c)
           /\ st' = [st EXCEPT ![c] = "queued"]
    BY <1>3 DEF Pipeline, CallStep, Refuse, Ask, Submit, AskEnds, ReadEnds, ToolReturns,
                ToolRaises, AgentReturns, AgentRaises, Opens
  <2> QED BY <2>1 DEF Types
<1> QED BY <1>1, <1>2, <1>3 DEF Next

LEMMA ItemStep ==
  ASSUME DispatchInv, ItemInv, Next
  PROVE  ItemInv'
<1> USE DEF DispatchInv
<1> SUFFICES ASSUME NEW d \in Calls, st'[d] = "queued"
             PROVE  \E i \in DOMAIN queue' : queue'[i] = d
  BY DEF ItemInv
<1>1. CASE Start
  <2> DEFINE c == Head(queue)
  <2>1. queue # <<>> /\ queue' = Tail(queue) /\ st' = [st EXCEPT ![c] = "running"]
    BY <1>1 DEF Start
  <2>2. c \in Calls /\ st[c] = "queued" BY <2>1, Dequeued
  <2>3. /\ c = queue[1] /\ DOMAIN queue = 1..Len(queue) /\ DOMAIN queue' = 1..Len(queue')
        /\ Len(queue') = Len(queue) - 1 /\ Len(queue) \in Nat
        /\ \A i \in 1..Len(queue') : queue'[i] = queue[i + 1]
    BY <2>1 DEF Types
  <2> HIDE DEF c
  <2>4. d # c /\ st[d] = "queued" BY <2>1, <2>2 DEF Types
  <2>5. PICK i \in DOMAIN queue : queue[i] = d BY <2>4 DEF ItemInv
  <2>6. i # 1 BY <2>3, <2>4, <2>5
  <2>7. i - 1 \in 1..Len(queue') /\ (i - 1) + 1 = i BY <2>3, <2>5, <2>6
  <2> QED BY <2>3, <2>5, <2>7
<1>2. CASE queue' = queue /\ st'[d] = st[d] BY <1>2 DEF ItemInv
<1>3. ASSUME NEW c \in Calls, queue' = Append(queue, c), st' = [st EXCEPT ![c] = "queued"]
      PROVE  \E i \in DOMAIN queue' : queue'[i] = d
  <2>1. /\ DOMAIN queue = 1..Len(queue) /\ DOMAIN queue' = 1..(Len(queue) + 1)
        /\ Len(queue) \in Nat /\ queue'[Len(queue) + 1] = c
        /\ \A i \in 1..Len(queue) : queue'[i] = queue[i]
    BY <1>3 DEF Types
  <2>2. CASE d = c BY <2>1, <2>2
  <2>3. CASE d # c
    <3>1. st[d] = "queued" BY <1>3, <2>3 DEF Types
    <3>2. PICK i \in DOMAIN queue : queue[i] = d BY <3>1 DEF ItemInv
    <3> QED BY <2>1, <3>2
  <2> QED BY <2>2, <2>3
<1> QED BY <1>1, <1>2, <1>3, PoolProgress

LEMMA PoolStep ==
  ASSUME DispatchInv, PoolInv, Next
  PROVE  PoolInv'
<1> USE DEF DispatchInv
<1>1. CASE Start
  <2> DEFINE c == Head(queue)
  <2>1. /\ queue # <<>> /\ queue' = Tail(queue) /\ st' = [st EXCEPT ![c] = "running"]
        /\ Cardinality(Busy) < Workers
    BY <1>1 DEF Start, Free
  <2>2. c \in Calls /\ st[c] = "queued" BY <2>1, Dequeued
  <2> HIDE DEF c
  <2>3. Busy' = Busy \cup {c} BY <2>1, <2>2 DEF Busy, Types
  <2>4. c \notin Busy BY <2>2 DEF Busy
  <2>5. IsFiniteSet(Busy') /\ Cardinality(Busy') = Cardinality(Busy) + 1
    BY <2>3, <2>4, FS_AddElement DEF PoolInv
  <2>6. Cardinality(Busy) \in Nat BY FS_CardinalityType DEF PoolInv
  <2>7. Workers \in Nat BY DispatchAssumption
  <2> QED BY <2>1, <2>5, <2>6, <2>7 DEF PoolInv
<1>2. ASSUME \A d \in Calls : st'[d] = "running" => st[d] = "running"
      PROVE  PoolInv'
  <2>1. Busy' \subseteq Busy BY <1>2 DEF Busy
  <2>2. /\ IsFiniteSet(Busy') /\ Cardinality(Busy') <= Cardinality(Busy)
        /\ Cardinality(Busy) \in Nat /\ Cardinality(Busy') \in Nat
    BY <2>1, FS_Subset, FS_CardinalityType DEF PoolInv
  <2>3. Workers \in Nat BY DispatchAssumption
  <2> QED BY <2>2, <2>3 DEF PoolInv
<1>3. ASSUME NEW c \in Calls, st' = [st EXCEPT ![c] = "queued"]
      PROVE  \A d \in Calls : st'[d] = "running" => st[d] = "running"
  BY <1>3 DEF Types
<1> QED BY <1>1, <1>2, <1>3, PoolProgress
-----------------------------------------------------------------------------
(* The inductive invariant of the dispatch. *)
THEOREM DispatchInvariant == Spec => []OrderInv
<1>1. Init => OrderInv
  <2> SUFFICES ASSUME Init PROVE OrderInv OBVIOUS
  <2>1. st = [c \in Calls |-> "waiting"] /\ parallel \in BOOLEAN BY DEF Init
  <2>2. AgentsLast BY <2>1, DispatchAssumption DEF AgentsLast
  <2>3. SerialInv /\ ItemInv BY <2>1 DEF SerialInv, ItemInv, UnderWay
  <2>4. Busy = {} BY <2>1 DEF Busy
  <2>5. PoolInv BY <2>4, FS_EmptySet, DispatchAssumption DEF PoolInv
  <2> QED BY <2>1, <2>2, <2>3, <2>5, DispatchInit DEF OrderInv
<1>2. OrderInv /\ [Next]_vars => OrderInv'
  <2> SUFFICES ASSUME OrderInv, [Next]_vars PROVE OrderInv' OBVIOUS
  <2>1. DispatchInv' BY DispatchStep DEF OrderInv
  <2>2. CASE Next
    <3>1. parallel' = parallel BY <2>2, CallsProgress DEF OrderInv
    <3> QED BY <2>1, <2>2, <3>1, SerialStep, AgentsLastStep, ItemStep, PoolStep DEF OrderInv
  <2>3. CASE UNCHANGED vars
    <3>1. /\ parallel' = parallel /\ phase' = phase /\ st' = st /\ queue' = queue
      BY <2>3 DEF vars
    <3>2. AgentsLast' BY <3>1 DEF OrderInv, AgentsLast, Owner, CallsOf
    <3>3. SerialInv'
      BY <3>1 DEF OrderInv, SerialInv, UnderWay, Tools, Index, Owner, CallsOf
    <3>4. ItemInv' /\ PoolInv' BY <3>1 DEF OrderInv, ItemInv, PoolInv, Busy
    <3> QED BY <2>1, <3>1, <3>2, <3>3, <3>4 DEF OrderInv
  <2> QED BY <2>2, <2>3
<1> QED BY <1>1, <1>2, PTL DEF Spec

(* Types; the queue of _TOOL_EXECUTOR holds exactly the queued calls, and never
   more than its max_workers run, sub-agents that hold a worker included. *)
THEOREM DispatchIsTyped == Spec => []TypeOK
<1>1. ASSUME OrderInv PROVE TypeOK
  <2>1. Types /\ QueueInv /\ ItemInv /\ PoolInv /\ parallel \in BOOLEAN
    BY <1>1 DEF OrderInv, DispatchInv
  <2>2. {queue[i] : i \in DOMAIN queue} = {c \in Calls : st[c] = "queued"}
    <3>1. \A i \in DOMAIN queue : queue[i] \in Calls /\ st[queue[i]] = "queued"
      BY <2>1 DEF Types, QueueInv
    <3> QED BY <2>1, <3>1 DEF ItemInv
  <2> QED BY <2>1, <2>2 DEF TypeOK, Types, Phases, CallStates, PoolInv
<1> QED BY <1>1, DispatchInvariant, PTL

(* A call of one reply is told from another by its place. *)
LEMMA PlacesDiffer ==
  ASSUME NEW c \in Calls, NEW d \in Calls, c # d, Owner(c) = Owner(d)
  PROVE  Index(c) < Index(d) \/ Index(d) < Index(c)
<1> DEFINE b == Batch[Owner(c)]
<1>1. b \in Seq(Calls) BY OwnerOfCall, DispatchAssumption
<1>2. (\E i \in DOMAIN b : b[i] = c) /\ (\E i \in DOMAIN b : b[i] = d)
  BY OwnerOfCall DEF CallsOf
<1>3. /\ Index(c) \in DOMAIN b /\ b[Index(c)] = c
      /\ Index(d) \in DOMAIN b /\ b[Index(d)] = d
  BY <1>2 DEF Index
<1>4. DOMAIN b \subseteq Nat BY <1>1
<1>5. Index(c) \in Nat /\ Index(d) \in Nat /\ Index(c) # Index(d) BY <1>3, <1>4
<1> QED BY <1>5

(* _run_turn_body, steps 9 and 10: without enable_parallel_tools the tools of a
   reply are under way one at a time, and its tools and its agents never at
   once, for any reply, any nesting of agents and any pool. *)
THEOREM ToolsRunOneByOne == Spec => []OneByOne
<1>1. ASSUME OrderInv PROVE OneByOne
  <2> SUFFICES ASSUME NEW c \in Calls, NEW d \in Calls, c # d, Owner(c) = Owner(d),
                      phase[Owner(c)] # "cancelled", st[c] \in UnderWay, st[d] \in UnderWay
               PROVE  (c \in AgentCalls) = (d \in AgentCalls) /\ (c \in AgentCalls \/ parallel)
    BY Zenon DEF OneByOne, UnderWay
  <2>0. DispatchInv /\ AgentsLast /\ SerialInv BY <1>1 DEF OrderInv
  <2>1. ASSUME NEW a \in Calls, NEW t \in Calls, a \in AgentCalls, t \notin AgentCalls,
               Owner(a) = Owner(t), phase[Owner(a)] # "cancelled",
               st[a] \in UnderWay, st[t] \in UnderWay
        PROVE  FALSE
    <3>1. phase[Owner(a)] \notin {"off", "model", "reads", "tools", "over", "failed"}
      BY <2>0, <2>1 DEF DispatchInv, BatchInv, AgentsLast, Over, UnderWay
    <3>2. phase[Owner(a)] = "agents"
      BY <2>0, <2>1, <3>1, OwnerOfCall DEF DispatchInv, Types, Phases
    <3>3. st[t] = "done" BY <2>0, <2>1, <3>2 DEF DispatchInv, BatchInv
    <3> QED BY <2>1, <3>3 DEF UnderWay
  <2>2. (c \in AgentCalls) <=> (d \in AgentCalls) BY <2>1
  <2>3. ASSUME c \notin AgentCalls, ~parallel PROVE FALSE
    <3>1. /\ c \in Tools(Owner(d)) /\ d \in Tools(Owner(c))
          /\ d \notin AgentCalls
      BY <2>2, <2>3, OwnerOfCall DEF Tools
    <3>2. Index(c) < Index(d) => st[c] = "done" BY <2>0, <2>3, <3>1 DEF SerialInv
    <3>3. Index(d) < Index(c) => st[d] = "done" BY <2>0, <2>3, <3>1 DEF SerialInv
    <3> QED BY <3>2, <3>3, PlacesDiffer DEF UnderWay
  <2> QED BY <2>2, <2>3
<1> QED BY <1>1, DispatchInvariant, PTL
-----------------------------------------------------------------------------
(* Progress.  What a step can be taken of: the conditions of Start, of the
   steps of a runtime, of its calls and of the pool's; not of Cancel, of a
   model that fails or of a tool that raises, which need not happen. *)
Live(r) == phase[r] \in {"model", "reads", "tools", "agents"}
CanStep ==
  \/ queue # <<>> /\ Free
  \/ \E r \in Runtimes :
       \/ phase[r] = "model"
       \/ phase[r] = "reads" /\ \A c \in CallsOf(r) : st[c] # "reading"
       \/ phase[r] = "tools" /\ \A c \in Tools(r) : st[c] = "done"
       \/ phase[r] = "agents" /\ \A c \in Agents(r) : st[c] = "done"
  \/ \E c \in Calls :
       \/ Opens(c) \/ st[c] = "reading"
       \/ st[c] = "asking" /\ phase[Owner(c)] # "cancelled"
       \/ st[c] = "running" /\ c \notin AgentCalls
       \/ st[c] = "running" /\ c \in AgentCalls /\ \A s \in Children[c] : Over(s)

(* Something is left to do, and no tool that raised is waited for. *)
Pending ==
  \/ Live(Root) /\ \A c \in Calls : st[c] # "raised"
  \/ /\ Busy # {} \/ queue # <<>>
     /\ \A c \in Calls : st[c] = "raised" => Owner(c) = Root

(* Every worker is held by an agent, and there is work none of them takes. *)
Jammed == queue # <<>> /\ Busy \subseteq AgentCalls /\ Cardinality(Busy) = Workers

(* The sub-agents of a running agent are on; only the user's turn is cancelled. *)
ChildrenOn ==
  /\ \A a \in AgentCalls : st[a] = "running" => \A s \in Children[a] : phase[s] # "off"
  /\ \A r \in Runtimes \ {Root} : phase[r] # "cancelled"

LEMMA ChildrenOnStep ==
  ASSUME DispatchInv, ChildrenOn, [Next]_vars
  PROVE  ChildrenOn'
<1> USE DEF DispatchInv
<1>1. CASE Start
  <2> DEFINE c == Head(queue)
  <2>1. /\ queue # <<>> /\ queue' = Tail(queue) /\ st' = [st EXCEPT ![c] = "running"]
        /\ phase' = [r \in Runtimes |->
             IF c \in AgentCalls /\ r \in Children[c] THEN "model" ELSE phase[r]]
    BY <1>1 DEF Start
  <2>2. c \in Calls BY <2>1, Dequeued
  <2> HIDE DEF c
  <2>3. \A d \in Calls : st'[d] = IF d = c THEN "running" ELSE st[d] BY <2>1, <2>2 DEF Types
  <2>4. ASSUME NEW a \in AgentCalls, st'[a] = "running", NEW s \in Children[a]
        PROVE  phase'[s] # "off"
    <3>1. a \in Calls /\ s \in Runtimes BY <2>4, ChildrenOfAgent
    <3>2. CASE a = c BY <2>1, <2>4, <3>1, <3>2
    <3>3. CASE a # c BY <2>1, <2>3, <2>4, <3>1, <3>3 DEF ChildrenOn
    <3> QED BY <3>2, <3>3
  <2> QED BY <2>1, <2>4 DEF ChildrenOn
<1>2. CASE ~Start
  <2>1. \A d \in Calls : st'[d] = "running" => st[d] = "running"
    <3>1. CASE Next
      <4>1. ASSUME NEW c \in Calls, st' = [st EXCEPT ![c] = "queued"]
            PROVE  \A d \in Calls : st'[d] = "running" => st[d] = "running"
        BY <4>1 DEF Types
      <4> QED BY <1>2, <3>1, <4>1, PoolProgress
    <3> QED BY <3>1 DEF vars
  <2>2. \A r \in Runtimes : /\ phase[r] # "off" => phase'[r] # "off"
                            /\ r # Root /\ phase[r] # "cancelled" => phase'[r] # "cancelled"
    <3>1. CASE UNCHANGED vars BY <3>1 DEF vars
    <3>2. CASE Cancel BY <3>2 DEF Cancel, Types
    <3>3. ASSUME NEW r \in Runtimes, RuntimeStep(r) \/ ModelFails(r)
          PROVE  \E p \in {"reads", "tools", "agents", "over", "failed"} :
                   phase' = [phase EXCEPT ![r] = p]
      <4>1. CASE BatchDone(r) BY <4>1 DEF BatchDone
      <4> QED BY <3>3, <4>1 DEF RuntimeStep, ModelFails, ModelReplies, CollectReads, ToolsDone
    <3>4. ASSUME NEW c \in Calls, Pipeline(c) \/ CallStep(c)
          PROVE  phase' = phase
      BY <3>4 DEF Pipeline, CallStep, Refuse, Ask, Submit, AskEnds, ReadEnds, ToolReturns,
                  ToolRaises, AgentReturns, AgentRaises
    <3> QED BY <1>2, <3>1, <3>2, <3>3, <3>4 DEF Next, Types
  <2>3. \A a \in AgentCalls : a \in Calls /\ \A s \in Children[a] : s \in Runtimes
    BY DispatchAssumption
  <2> QED BY <2>1, <2>2, <2>3 DEF ChildrenOn
<1> QED BY <1>1, <1>2

LEMMA LeastNat == ASSUME NEW T \in SUBSET Nat, T # {} PROVE \E n \in T : \A m \in T : n <= m
<1>1. PICK n \in T : \A m \in T : ~(<<m, n>> \in OpToRel(<, Nat))
  BY NatLessThanWellFounded, WFMin
<1>2. ASSUME NEW m \in T PROVE n <= m
  <2>1. m \in Nat /\ n \in Nat OBVIOUS
  <2>2. ~(m < n) BY <1>1, <2>1 DEF OpToRel
  <2> QED BY <2>1, <2>2
<1> QED BY <1>2

LEMMA LeastCall ==
  ASSUME NEW r \in Runtimes, NEW S, S \subseteq CallsOf(r), S # {}
  PROVE  \E c \in S : \A d \in S : ~(Index(d) < Index(c))
<1> DEFINE N == {Index(c) : c \in S}
<1>1. \A c \in S : Index(c) \in Nat
  <2> SUFFICES ASSUME NEW c \in S PROVE Index(c) \in Nat OBVIOUS
  <2>1. c \in Calls /\ Owner(c) = r BY CallsOfRuntime
  <2>2. \E i \in DOMAIN Batch[r] : Batch[r][i] = c BY DEF CallsOf
  <2>3. Index(c) \in DOMAIN Batch[r] BY <2>1, <2>2 DEF Index
  <2>4. Batch[r] \in Seq(Calls) BY DispatchAssumption
  <2> QED BY <2>3, <2>4
<1>2. N \in SUBSET Nat /\ N # {} BY <1>1
<1>3. PICK n \in N : \A m \in N : n <= m BY <1>2, LeastNat
<1>4. PICK c \in S : Index(c) = n BY <1>3
<1> QED BY <1>1, <1>3, <1>4

(* A turn that is on, with nothing in the queue, no tool running, and no agent
   of its own that still waits for its sub-agents. *)
LEMMA LiveSteps ==
  ASSUME OrderInv, NEW r \in Runtimes, Live(r), queue = <<>>,
         \A c \in CallsOf(r) : st[c] # "raised",
         \A c \in Agents(r) : st[c] = "running" => \A s \in Children[c] : Over(s)
  PROVE  CanStep
<1> SUFFICES ASSUME ~CanStep PROVE FALSE OBVIOUS
<1>1. \A c \in CallsOf(r) : c \in Calls /\ Owner(c) = r BY CallsOfRuntime
<1>2. \A c \in Calls : st[c] # "queued" BY DEF OrderInv, ItemInv
<1>3. phase[r] \notin {"model", "reads"} BY <1>1 DEF CanStep
<1>4. ASSUME NEW G, G \subseteq CallsOf(r), \A c \in G : Group(c) = G,
             \A c \in G : phase[r] = (IF c \in AgentCalls THEN "agents" ELSE "tools")
      PROVE  \A c \in G : st[c] = "done"
  <2> DEFINE S == {c \in G : st[c] # "done"}
  <2> SUFFICES ASSUME S # {} PROVE FALSE OBVIOUS
  <2>1. PICK c \in S : \A d \in S : ~(Index(d) < Index(c)) BY <1>4, LeastCall
  <2>2. c \in Calls /\ Owner(c) = r /\ c \in G /\ c \in CallsOf(r) BY <1>1, <1>4, <2>1
  <2>3. \A d \in Group(c) : Index(d) < Index(c) => st[d] = "done" BY <1>4, <2>1, <2>2
  <2>4. st[c] # "waiting"
    <3>1. st[c] = "waiting" => Opens(c) BY <1>4, <2>2, <2>3 DEF Opens
    <3> QED BY <2>2, <3>1 DEF CanStep
  <2>5. st[c] \notin {"reading", "asking"} BY <2>2 DEF CanStep, Live
  <2>6. st[c] # "running"
    <3>1. c \in AgentCalls => c \in Agents(r) BY <2>2 DEF Agents
    <3> QED BY <2>2, <3>1 DEF CanStep
  <2>7. st[c] \in CallStates BY <2>2 DEF OrderInv, DispatchInv, Types
  <2> QED BY <1>2, <2>1, <2>2, <2>4, <2>5, <2>6, <2>7 DEF CallStates
<1>5. CASE phase[r] = "tools"
  <2>1. \A c \in Tools(r) : Group(c) = Tools(r) BY <1>1 DEF Group, Tools
  <2>2. \A c \in Tools(r) : st[c] = "done" BY <1>4, <1>5, <2>1 DEF Tools
  <2> QED BY <1>5, <2>2 DEF CanStep
<1>6. CASE phase[r] = "agents"
  <2>1. \A c \in Agents(r) : Group(c) = Agents(r) BY <1>1 DEF Group, Agents
  <2>2. \A c \in Agents(r) : st[c] = "done" BY <1>4, <1>6, <2>1 DEF Agents
  <2> QED BY <1>6, <2>2 DEF CanStep
<1> QED BY <1>3, <1>5, <1>6 DEF Live

(* ThreadPoolExecutor(max_workers=4), however deep its agents are nested: while
   something is left to do a step can be taken, unless every worker is held by
   an agent that waits for sub-agents whose calls no worker is left to take. *)
THEOREM OnlyAgentsJamThePool ==
  ASSUME NEW height \in [Runtimes -> Nat],
         \A a \in AgentCalls : \A s \in Children[a] : height[s] < height[Owner(a)]
  PROVE  Spec => [](Pending => CanStep \/ Jammed)
<1>1. ASSUME OrderInv, ChildrenOn, Pending, ~CanStep PROVE Jammed
  <2> USE <1>1
  <2>1. Busy \subseteq AgentCalls BY DEF CanStep, Busy
  <2>2. CASE queue # <<>>
    <3>1. ~Free /\ Cardinality(Busy) \in Nat /\ Cardinality(Busy) <= Workers
      BY <2>2, FS_CardinalityType DEF CanStep, OrderInv, PoolInv
    <3> QED BY <2>1, <2>2, <3>1, DispatchAssumption DEF Free, Jammed
  <2>3. CASE queue = <<>>
    <3> DEFINE S == {r \in Runtimes : Live(r) /\ (r = Root => \A c \in Calls : st[c] # "raised")}
               H == {height[r] : r \in S}
    <3>1. \A a \in AgentCalls : st[a] = "running" => a \in Calls /\ \A s \in Children[a] :
            s \in Runtimes /\ (Over(s) \/ s \in S)
      <4> SUFFICES ASSUME NEW a \in AgentCalls, st[a] = "running", NEW s \in Children[a]
                   PROVE  s \in Runtimes /\ (Over(s) \/ s \in S)
        BY DispatchAssumption
      <4>1. s \in Runtimes /\ s # Root BY ChildrenOfAgent
      <4>2. phase[s] \in Phases \ {"off", "cancelled"}
        BY <4>1 DEF ChildrenOn, OrderInv, DispatchInv, Types
      <4> QED BY <4>1, <4>2 DEF Phases, Over, Live
    <3>2. S # {}
      <4>1. CASE Live(Root) /\ \A c \in Calls : st[c] # "raised" BY <4>1, DispatchAssumption
      <4>2. CASE Busy # {}
        <5>1. PICK a \in AgentCalls : a \in Calls /\ st[a] = "running" BY <2>1, <4>2 DEF Busy
        <5>2. PICK s \in Children[a] : ~Over(s) BY <5>1 DEF CanStep
        <5> QED BY <3>1, <5>1, <5>2
      <4> QED BY <2>3, <4>1, <4>2 DEF Pending
    <3>3. H \in SUBSET Nat /\ H # {} BY <3>2
    <3>4. PICK h \in H : \A k \in H : h <= k BY <3>3, LeastNat
    <3>5. PICK r \in S : height[r] = h BY <3>4
    <3>6. ASSUME NEW c \in Agents(r), st[c] = "running", NEW s \in Children[c] PROVE Over(s)
      <4>1. c \in AgentCalls /\ Owner(c) = r BY CallsOfRuntime DEF Agents
      <4>2. s \in Runtimes /\ height[s] < height[r] BY <3>1, <3>6, <4>1
      <4>3. s \notin S BY <3>4, <3>5, <4>2
      <4> QED BY <3>1, <3>6, <4>1, <4>3
    <3>7. \A c \in CallsOf(r) : st[c] # "raised"
      <4>1. \A c \in CallsOf(r) : c \in Calls /\ Owner(c) = r BY CallsOfRuntime
      <4> QED BY <4>1 DEF Pending
    <3> QED BY <2>3, <3>5, <3>6, <3>7, LiveSteps
  <2> QED BY <2>2, <2>3
<1>2. Init => ChildrenOn
  <2> SUFFICES ASSUME Init PROVE ChildrenOn OBVIOUS
  <2>1. AgentCalls \subseteq Calls BY DispatchAssumption
  <2> QED BY <2>1 DEF Init, ChildrenOn
<1>3. OrderInv => DispatchInv BY DEF OrderInv
<1> QED BY <1>1, <1>2, <1>3, DispatchInvariant, ChildrenOnStep, PTL DEF Spec

(* With more threads than agents are ever called, the pool never locks up. *)
THEOREM PoolNeverLocks ==
  ASSUME NEW height \in [Runtimes -> Nat],
         \A a \in AgentCalls : \A s \in Children[a] : height[s] < height[Owner(a)],
         IsFiniteSet(AgentCalls), Cardinality(AgentCalls) < Workers
  PROVE  Spec => [](Pending => CanStep)
<1>1. ~Jammed
  <2>1. Busy \subseteq AgentCalls => Cardinality(Busy) <= Cardinality(AgentCalls)
    BY FS_Subset
  <2>2. Cardinality(AgentCalls) \in Nat BY FS_CardinalityType
  <2>3. Workers \in Nat BY DispatchAssumption
  <2> QED BY <2>1, <2>2, <2>3 DEF Jammed
<1> QED BY <1>1, OnlyAgentsJamThePool, PTL
-----------------------------------------------------------------------------
(* How far a turn and a call have come. *)
PhaseRank ==
  [p \in Phases |-> CASE p = "off" -> 0 [] p = "model" -> 1 [] p = "reads" -> 2
     [] p = "tools" -> 3 [] p = "agents" -> 4 [] OTHER -> 5]
CallRank ==
  [s \in CallStates |-> CASE s = "waiting" -> 0 [] s = "reading" -> 1 [] s = "asking" -> 2
     [] s = "queued" -> 3 [] s = "running" -> 4 [] OTHER -> 5]

(* A step takes some turn or some call further, and none back. *)
Forward ==
  /\ \A r \in Runtimes : PhaseRank[phase[r]] <= PhaseRank[phase'[r]]
  /\ \A c \in Calls : CallRank[st[c]] <= CallRank[st'[c]]
  /\ \/ \E r \in Runtimes : PhaseRank[phase[r]] < PhaseRank[phase'[r]]
     \/ \E c \in Calls : CallRank[st[c]] < CallRank[st'[c]]

LEMMA Ranks ==
  /\ \A p \in Phases : PhaseRank[p] \in 0..5
  /\ \A s \in CallStates : CallRank[s] \in 0..5
  /\ PhaseRank["off"] = 0 /\ PhaseRank["model"] = 1 /\ PhaseRank["reads"] = 2
  /\ PhaseRank["tools"] = 3 /\ PhaseRank["agents"] = 4 /\ PhaseRank["over"] = 5
  /\ PhaseRank["failed"] = 5 /\ PhaseRank["cancelled"] = 5
  /\ CallRank["waiting"] = 0 /\ CallRank["reading"] = 1 /\ CallRank["asking"] = 2
  /\ CallRank["queued"] = 3 /\ CallRank["running"] = 4 /\ CallRank["raised"] = 5
  /\ CallRank["done"] = 5
BY DEF Phases, CallStates, PhaseRank, CallRank

LEMMA CallForward ==
  ASSUME Types, NEW c \in Calls, NEW v \in CallStates, phase' = phase,
         st' = [st EXCEPT ![c] = v], CallRank[st[c]] < CallRank[v]
  PROVE  Forward
<1>1. \A d \in Calls : st'[d] = IF d = c THEN v ELSE st[d] BY DEF Types
<1>2. \A d \in Calls : CallRank[st[d]] \in 0..5 BY Ranks DEF Types
<1>3. \A r \in Runtimes : PhaseRank[phase[r]] \in 0..5 BY Ranks DEF Types
<1> QED BY <1>1, <1>2, <1>3, Ranks DEF Forward

LEMMA PhaseForward ==
  ASSUME Types, NEW r \in Runtimes, NEW p \in Phases, st' = st,
         phase' = [phase EXCEPT ![r] = p], PhaseRank[phase[r]] < PhaseRank[p]
  PROVE  Forward
<1>1. \A s \in Runtimes : phase'[s] = IF s = r THEN p ELSE phase[s] BY DEF Types
<1>2. \A d \in Calls : CallRank[st[d]] \in 0..5 BY Ranks DEF Types
<1>3. \A s \in Runtimes : PhaseRank[phase[s]] \in 0..5 BY Ranks DEF Types
<1> QED BY <1>1, <1>2, <1>3, Ranks DEF Forward

LEMMA StepForward == ASSUME DispatchInv, Next PROVE Forward
<1> USE DEF DispatchInv
<1>1. CASE Start
  <2> DEFINE c == Head(queue)
  <2>1. /\ queue # <<>> /\ queue' = Tail(queue) /\ st' = [st EXCEPT ![c] = "running"]
        /\ phase' = [r \in Runtimes |->
             IF c \in AgentCalls /\ r \in Children[c] THEN "model" ELSE phase[r]]
    BY <1>1 DEF Start
  <2>2. c \in Calls /\ st[c] = "queued" BY <2>1, Dequeued
  <2> HIDE DEF c
  <2>3. \A d \in Calls : st'[d] = IF d = c THEN "running" ELSE st[d] BY <2>1, <2>2 DEF Types
  <2>4. \A d \in Calls : CallRank[st[d]] \in 0..5 BY Ranks DEF Types
  <2>5. \A r \in Runtimes : phase'[r] # phase[r] => phase[r] = "off" /\ phase'[r] = "model"
    BY <2>1, <2>2 DEF ChildInv
  <2>6. \A r \in Runtimes : PhaseRank[phase[r]] \in 0..5 BY Ranks DEF Types
  <2> QED BY <2>2, <2>3, <2>4, <2>5, <2>6, Ranks DEF Forward
<1>2. CASE Cancel
  <2>1. Root \in Runtimes BY DispatchAssumption
  <2>2. st' = st /\ phase' = [phase EXCEPT ![Root] = "cancelled"] BY <1>2 DEF Cancel
  <2>3. PhaseRank[phase[Root]] < PhaseRank["cancelled"]
    <3>1. phase[Root] \in {"reads", "tools", "agents"} BY <1>2 DEF Cancel
    <3> QED BY <3>1, Ranks
  <2>4. "cancelled" \in Phases BY DEF Phases
  <2> QED BY <2>1, <2>2, <2>3, <2>4, PhaseForward
<1>3. ASSUME NEW r \in Runtimes, ModelReplies(r) PROVE Forward
  <2>1. PICK reads \in SUBSET Tools(r) :
          st' = [c \in Calls |-> IF c \in reads THEN "reading" ELSE st[c]]
    BY <1>3 DEF ModelReplies
  <2>2. phase[r] = "model" /\ phase' = [phase EXCEPT ![r] = "reads"] BY <1>3 DEF ModelReplies
  <2>3. \A c \in Calls : st'[c] # st[c] => st[c] = "waiting" /\ st'[c] = "reading"
    BY <2>1, <2>2, CallsOfRuntime DEF Tools, BatchInv
  <2>4. \A c \in Calls : CallRank[st[c]] \in 0..5 BY Ranks DEF Types
  <2>5. \A s \in Runtimes : phase'[s] = IF s = r THEN "reads" ELSE phase[s]
    BY <2>2 DEF Types
  <2>6. \A s \in Runtimes : PhaseRank[phase[s]] \in 0..5 BY Ranks DEF Types
  <2> QED BY <2>2, <2>3, <2>4, <2>5, <2>6, Ranks DEF Forward
<1>4. ASSUME NEW r \in Runtimes,
             CollectReads(r) \/ ToolsDone(r) \/ BatchDone(r) \/ ModelFails(r)
      PROVE  Forward
  <2>1. PICK p \in {"tools", "agents", "over", "failed"} :
          /\ st' = st /\ phase' = [phase EXCEPT ![r] = p]
          /\ PhaseRank[phase[r]] < PhaseRank[p]
    <3>1. CASE BatchDone(r)
      <4>1. phase[r] = "agents" /\ st' = st BY <3>1 DEF BatchDone
      <4>2. PICK p \in {"over", "failed"} : phase' = [phase EXCEPT ![r] = p]
        BY <3>1 DEF BatchDone
      <4>3. PhaseRank[phase[r]] < PhaseRank[p] BY <4>1, <4>2, Ranks
      <4> QED BY <4>1, <4>2, <4>3
    <3> QED BY <1>4, <3>1, Ranks DEF CollectReads, ToolsDone, ModelFails
  <2> QED BY <2>1, PhaseForward DEF Phases
<1>5. ASSUME NEW c \in Calls, Pipeline(c) \/ CallStep(c) PROVE Forward
  <2>1. PICK v \in {"done", "asking", "queued", "raised"} :
          /\ st' = [st EXCEPT ![c] = v] /\ phase' = phase
          /\ CallRank[st[c]] < CallRank[v]
    BY <1>5, Ranks
    DEF Pipeline, CallStep, Refuse, Ask, Submit, AskEnds, ReadEnds, ToolReturns,
        ToolRaises, AgentReturns, AgentRaises, Opens
  <2> QED BY <2>1, CallForward DEF CallStates
<1> QED BY <1>1, <1>2, <1>3, <1>4, <1>5 DEF Next, RuntimeStep

(* No step goes back: with finitely many turns and calls there are finitely
   many steps, so that, as one can always be taken, what is pending ends. *)
THEOREM DispatchGoesForward == Spec => [][Forward]_vars
<1>1. OrderInv /\ [Next]_vars => [Forward]_vars BY StepForward DEF OrderInv
<1> QED BY <1>1, DispatchInvariant, PTL DEF Spec
=============================================================================
