---------------------------- MODULE ToolDispatch ----------------------------
(***************************************************************************)
(* Dispatch of the tool calls of one assistant reply: steps 9 and 10 of    *)
(* ConversationRuntime._run_turn_body (runtime/conversation.py), the       *)
(* pipeline each call goes through (runtime/tool_pipeline.py), the         *)
(* process-wide thread pool the tools run in, and the tool "agent"         *)
(* (tools/agent.py), which holds a thread of that pool while the runtimes  *)
(* it spawned dispatch calls of their own into the same pool.              *)
(*                                                                         *)
(* What is kept: which calls run one by one and which are gathered, what a *)
(* runtime waits for, who holds a worker and who waits for one, tools that *)
(* raise, sub-agents that fail, a turn that is cancelled.  What is         *)
(* abstracted: the reasons a call is refused, what it returns, progress.   *)
(* Each runtime dispatches one batch.                                      *)
(***************************************************************************)
EXTENDS Naturals, Sequences, FiniteSets

CONSTANTS
  Calls, AgentCalls,   \* tool calls, and those of the tool "agent"
  Runtimes, Root,      \* the conversation's runtime and those of sub-agents
  Batch,               \* the calls of a runtime's reply, in its order
  Children,            \* the runtimes an agent call spawns: one, or a fork
  Forks,               \* the agent calls made with fork_directives
  MayRaise,            \* the tools that may raise instead of returning
  Workers              \* max_workers of _TOOL_EXECUTOR

CallsOf(r) == {Batch[r][i] : i \in DOMAIN Batch[r]}

ASSUME DispatchAssumption ==
  /\ Root \in Runtimes /\ AgentCalls \subseteq Calls
  /\ Forks \subseteq AgentCalls /\ MayRaise \subseteq Calls \ AgentCalls
  /\ Batch \in [Runtimes -> Seq(Calls)]
  /\ Children \in [AgentCalls -> SUBSET (Runtimes \ {Root})]
  /\ \A c \in Calls : \E r \in Runtimes : c \in CallsOf(r)
  /\ \A r, s \in Runtimes : r # s => CallsOf(r) \cap CallsOf(s) = {}
  /\ \A a, b \in AgentCalls : a # b => Children[a] \cap Children[b] = {}
  /\ Workers \in Nat \ {0}

VARIABLES
  parallel,   \* profile.enable_parallel_tools
  phase,      \* of each runtime: what its turn is waiting for
  st,         \* of each call
  queue       \* work items of _TOOL_EXECUTOR no worker has taken

vars == <<parallel, phase, st, queue>>

Owner(c) == CHOOSE r \in Runtimes : c \in CallsOf(r)
Index(c) == CHOOSE i \in DOMAIN Batch[Owner(c)] : Batch[Owner(c)][i] = c

(* A batch is dispatched in two groups: the tools, then the agents. *)
Tools(r) == CallsOf(r) \ AgentCalls
Agents(r) == CallsOf(r) \cap AgentCalls
Group(c) == IF c \in AgentCalls THEN Agents(Owner(c)) ELSE Tools(Owner(c))

Gathered_Always(c) == Cardinality(Group(c)) > 1   \* mutant: ignores the profile

Gathered(c) ==
  Cardinality(Group(c)) > 1 /\ (c \in AgentCalls \/ parallel)

Busy == {c \in Calls : st[c] = "running"}
Free_OffByOne == Cardinality(Busy) + 1 < Workers   \* mutant
Free == Cardinality(Busy) < Workers
-----------------------------------------------------------------------------
(* Reads with no side effect are started while the reply still streams, in a
   pool of their own (StreamingToolExecutor.finalize). *)
Init ==
  /\ parallel \in BOOLEAN
  /\ phase = [r \in Runtimes |-> IF r = Root THEN "model" ELSE "off"]
  /\ st = [c \in Calls |-> "waiting"]
  /\ queue = <<>>

(* The reply has arrived: wait for its background reads. *)
ModelReplies(r) ==
  /\ phase[r] = "model"
  /\ phase' = [phase EXCEPT ![r] = "reads"]
  /\ \E reads \in SUBSET Tools(r) :
       st' = [c \in Calls |-> IF c \in reads THEN "reading" ELSE st[c]]
  /\ UNCHANGED <<parallel, queue>>

(* The turn of a sub-agent ends in an exception: no model answers it. *)
ModelFails(r) ==
  /\ phase[r] = "model" /\ r # Root
  /\ phase' = [phase EXCEPT ![r] = "failed"]
  /\ UNCHANGED <<parallel, st, queue>>

ReadEnds(c) ==
  /\ st[c] = "reading"
  /\ st' = [st EXCEPT ![c] = "done"]
  /\ UNCHANGED <<parallel, phase, queue>>

(* collect_results waits for every read of the reply. *)
CollectReads(r) ==
  /\ phase[r] = "reads"
  /\ \A c \in CallsOf(r) : st[c] # "reading"
  /\ phase' = [phase EXCEPT ![r] = "tools"]
  /\ UNCHANGED <<parallel, st, queue>>
-----------------------------------------------------------------------------
(* The pipeline of call c is entered: at once if its group is gathered, else
   when the calls before it in the group have their results. *)
Opens(c) ==
  /\ phase[Owner(c)] = (IF c \in AgentCalls THEN "agents" ELSE "tools")
  /\ st[c] = "waiting"
  /\ \/ Gathered(c)
     \/ \A d \in Group(c) : Index(d) < Index(c) => st[d] = "done"

(* Unknown tool, role, invalid input, safety, plan mode, policy, hook. *)
Refuse(c) ==
  /\ Opens(c)
  /\ st' = [st EXCEPT ![c] = "done"]
  /\ UNCHANGED <<parallel, phase, queue>>

(* NEED_PROMPT and nothing on the session's allowlist. *)
Ask(c) ==
  /\ Opens(c)
  /\ st' = [st EXCEPT ![c] = "asking"]
  /\ UNCHANGED <<parallel, phase, queue>>

Submit(c) ==
  /\ Opens(c)
  /\ st' = [st EXCEPT ![c] = "queued"]
  /\ queue' = Append(queue, c)
  /\ UNCHANGED <<parallel, phase>>

(* An answer, or 300 seconds without one; module Prompts says which. *)
AskEnds(c) ==
  /\ st[c] = "asking" /\ phase[Owner(c)] # "cancelled"
  /\ \/ st' = [st EXCEPT ![c] = "done"] /\ UNCHANGED queue
     \/ st' = [st EXCEPT ![c] = "queued"] /\ queue' = Append(queue, c)
  /\ UNCHANGED <<parallel, phase>>
-----------------------------------------------------------------------------
(* A worker takes the oldest item.  An agent's worker runs an event loop for
   the runtimes of that agent until their turns are over. *)
Start_Unlimited ==   \* mutant: one thread per call
  /\ queue # <<>>
  /\ queue' = Tail(queue)
  /\ LET c == Head(queue) IN
     /\ st' = [st EXCEPT ![c] = "running"]
     /\ phase' = [r \in Runtimes |->
          IF c \in AgentCalls /\ r \in Children[c] THEN "model" ELSE phase[r]]
  /\ UNCHANGED parallel

Start ==
  /\ queue # <<>> /\ Free
  /\ queue' = Tail(queue)
  /\ LET c == Head(queue) IN
     /\ st' = [st EXCEPT ![c] = "running"]
     /\ phase' = [r \in Runtimes |->
          IF c \in AgentCalls /\ r \in Children[c] THEN "model" ELSE phase[r]]
  /\ UNCHANGED parallel

(* run_tool returns: the sentinel reaches the waiting pipeline. *)
ToolReturns(c) ==
  /\ st[c] = "running" /\ c \notin AgentCalls
  /\ st' = [st EXCEPT ![c] = "done"]
  /\ UNCHANGED <<parallel, phase, queue>>

(* run_tool raises before its sentinel: the worker is free, the pipeline goes
   on waiting for progress that will not come. *)
ToolRaises(c) ==
  /\ st[c] = "running" /\ c \in MayRaise
  /\ st' = [st EXCEPT ![c] = "raised"]
  /\ UNCHANGED <<parallel, phase, queue>>

Over(r) == phase[r] \in {"over", "failed"}

AgentReturns_FirstChild(a) ==   \* mutant: a fork returns with its first child
  /\ st[a] = "running"
  /\ \E r \in Children[a] : Over(r)
  /\ a \in Forks \/ \A r \in Children[a] : phase[r] # "failed"
  /\ st' = [st EXCEPT ![a] = "done"]
  /\ UNCHANGED <<parallel, phase, queue>>

AgentReturns_NoneFailed(a) ==   \* mutant: a failed child of a fork is awaited
  /\ st[a] = "running"
  /\ \A r \in Children[a] : phase[r] = "over"
  /\ st' = [st EXCEPT ![a] = "done"]
  /\ UNCHANGED <<parallel, phase, queue>>

(* A fork gathers its children and reports the ones that failed. *)
AgentReturns(a) ==
  /\ st[a] = "running"
  /\ \A r \in Children[a] : Over(r)
  /\ a \in Forks \/ \A r \in Children[a] : phase[r] # "failed"
  /\ st' = [st EXCEPT ![a] = "done"]
  /\ UNCHANGED <<parallel, phase, queue>>

(* The exception of a single sub-agent is the tool's. *)
AgentRaises(a) ==
  /\ st[a] = "running" /\ a \notin Forks
  /\ \E r \in Children[a] : phase[r] = "failed"
  /\ st' = [st EXCEPT ![a] = "raised"]
  /\ UNCHANGED <<parallel, phase, queue>>
-----------------------------------------------------------------------------
(* The tools of the batch have their results: now its agents. *)
ToolsDone(r) ==
  /\ phase[r] = "tools"
  /\ \A c \in Tools(r) : st[c] = "done"
  /\ phase' = [phase EXCEPT ![r] = "agents"]
  /\ UNCHANGED <<parallel, st, queue>>

(* The results go into the session; a sub-agent's next request is answered in
   text or fails. *)
BatchDone(r) ==
  /\ phase[r] = "agents"
  /\ \A c \in Agents(r) : st[c] = "done"
  /\ \E p \in IF r = Root THEN {"over"} ELSE {"over", "failed"} :
       phase' = [phase EXCEPT ![r] = p]
  /\ UNCHANGED <<parallel, st, queue>>

(* The task of the conversation's turn is cancelled.  What is queued or
   running in the pool, sub-agents included, goes on. *)
Cancel ==
  /\ phase[Root] \in {"reads", "tools", "agents"}
  /\ phase' = [phase EXCEPT ![Root] = "cancelled"]
  /\ UNCHANGED <<parallel, st, queue>>

RuntimeStep(r) ==
  ModelReplies(r) \/ CollectReads(r) \/ ToolsDone(r) \/ BatchDone(r)
Pipeline(c) == Refuse(c) \/ Ask(c) \/ Submit(c) \/ AskEnds(c)
CallStep(c) ==
  \/ ReadEnds(c) \/ ToolReturns(c) \/ ToolRaises(c)
  \/ c \in AgentCalls /\ (AgentReturns(c) \/ AgentRaises(c))

Next ==
  \/ Start \/ Cancel
  \/ \E r \in Runtimes : RuntimeStep(r) \/ ModelFails(r)
  \/ \E c \in Calls : Pipeline(c) \/ CallStep(c)

Spec == Init /\ [][Next]_vars

(* Fair: event loops run what is ready, prompts time out after 300 seconds,
   tools return or raise, models answer or fail, workers take queued items.
   Nobody has to cancel, and no sub-agent has to fail. *)
FairSpec ==
  /\ Spec
  /\ WF_vars(Start)
  /\ \A r \in Runtimes : WF_vars(RuntimeStep(r))
  /\ \A c \in Calls : WF_vars(Pipeline(c)) /\ WF_vars(CallStep(c))
-----------------------------------------------------------------------------
(* Types; the pool is never over its size, and queue and st agree. *)
TypeOK ==
  /\ parallel \in BOOLEAN
  /\ phase \in [Runtimes -> {"off", "model", "reads", "tools", "agents", "over",
                             "failed", "cancelled"}]
  /\ st \in [Calls -> {"waiting", "reading", "asking", "queued", "running",
                       "raised", "done"}]
  /\ queue \in Seq(Calls)
  /\ {queue[i] : i \in DOMAIN queue} = {c \in Calls : st[c] = "queued"}
  /\ Cardinality(Busy) <= Workers

(* A turn that is over leaves nothing behind: no call of its batch is being
   read, queued, running, asking or hung, and no sub-agent spawned by one of
   them is still in its turn; and so on down the tree of sub-agents. *)
NoOrphans ==
  \A r \in Runtimes : Over(r) =>
    /\ \A c \in CallsOf(r) : st[c] \in {"waiting", "done"}
    /\ \A a \in Agents(r) : \A s \in Children[a] : phase[s] = "off" \/ Over(s)

(* Side effects stay in the order the model asked for when the profile does
   not opt in to parallel tools; tools and agents of one batch never overlap. *)
OneByOne ==
  \A c, d \in Calls :
    /\ c # d /\ Owner(c) = Owner(d) /\ phase[Owner(c)] # "cancelled"
    /\ {st[c], st[d]} \subseteq {"asking", "queued", "running"}
    => (c \in AgentCalls) = (d \in AgentCalls) /\ (c \in AgentCalls \/ parallel)

(* The batch is dispatched to the end, however prompts, reads, nested agents
   and the pool interleave, unless a tool raised or the turn was cancelled:
   these two are all that can keep the conversation from going on. *)
BatchEnds ==
  <>(\/ phase[Root] \in {"over", "cancelled"}
     \/ \E c \in Calls : st[c] = "raised")

(* No worker is held for ever, not even by a cancelled turn's sub-agents: the
   pool, shared by every later turn, drains, unless a tool raised under an
   agent that now waits for it. *)
PoolDrains ==
  <>(\/ Busy = {} /\ queue = <<>> /\ phase[Root] # "model"
        /\ [](Busy = {} /\ queue = <<>>)
     \/ \E c \in Calls : st[c] = "raised" /\ Owner(c) # Root)
=============================================================================
