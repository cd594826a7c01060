# TLA+ models of llmcode

llmcode is a coding agent: it sends a conversation to a language model, runs
the tools the model asks for, asks the user for permission where a policy says
so, and shares a conversation between several clients through a server.  This
directory holds TLA+ models of the parts of it where order, failure and
concurrency matter, TLC configurations that check them, and TLAPS proofs.

- [1. The system](#1-the-system)
- [2. The modules](#2-the-modules)
- [3. The runs](#3-the-runs)
- [4. The proofs](#4-the-proofs)
- [5. Where code and words disagree](#5-where-code-and-words-disagree)
- [6. What is not modelled](#6-what-is-not-modelled)
- [7. Plan](#7-plan)

Run a model with `tlc -config TurnLoop.cfg MCTurnLoop`, a proof with
`tlapm TurnLoopProofs.tla`.  `PROJECT.json` lists every run, every mutant (a
plausible bug of the code, which makes the property it is listed with fail),
and the source lines each definition stands for.

## 1. The system

Paths are relative to `src/llm_code/`.

| Component | State it keeps | Operations | Hard behaviours | What makes it correct |
|---|---|---|---|---|
| Turn loop, `runtime/conversation.py` `_run_turn_body` | message history; failures in a row, compaction breaker, compaction guard, empty replies (all outlive the turn); retry counters of the turn | start a turn, request, recover from an error, record reply and results, end, be interrupted | six `continue` statements in one loop; four places that compact; counters that cross turns; a generator its consumer may abandon at any `yield` | the history sent is well-formed; caps hold; models are given up for the right reason; the user is told; the loop ends |
| Compaction, `runtime/compressor.py`, `runtime/compaction.py` | none of its own; rewrites the history | compress in levels, repair pairs, keep a tail | drops one half of a call and its result | calls and results stay paired |
| Tool dispatch, `runtime/tool_pipeline.py`, `runtime/streaming_executor.py` | one thread pool of 4 for the process; what each call waits for | background reads, refuse, ask, submit, return, raise, cancel | agents hold a thread while their children need one; a tool that raises; cancellation leaves work in the pool | nothing outlives its turn; order where no parallelism was asked for; the batch ends; threads come back |
| Agent tool, `tools/agent.py` | an event loop in a worker thread, runtimes of its own | single sub-agent, fork | nesting; one child of several fails | waits for all its children |
| Permission prompts, `runtime/permission_manager.py`, `view/stream_renderer.py`, `view/repl/components/dialog_popover.py` | one future slot, one dialog, session allowlists | ask, show, choose, edit, answer, time out | slot shared by all waiting calls; answer before the wait; late answer | one answer lets at most one call run; waits end; overlays are settled |
| Speculative overlay, `runtime/speculative.py`, `runtime/overlay.py` | staged files of a call | run in overlay, commit, discard | settled by what a wait ended in | committed if and only if the prompt let the call run |
| Session server, `server/server.py`, `server/websocket_transport.py`, `server/client.py` | sessions: writer slot, roles, event ring, counter; connections: response under way, queue, attached session; clients: cursor | create, fork, attach, send, detach, close, emit, respond, deliver, die, reconnect | connection dies between two steps; ring overflows; replay against live events | one writer; ring is the latest events; replay is exact; events in order, none twice |
| Permission policy and modes, `runtime/permissions.py`, `harness/engine.py`, `view/repl/backend.py`, `view/dispatcher.py` | mode, allow and deny lists; plan mode in three places (policy, harness, application state) | authorize, grant, switch, synchronise at the start of a turn | the three places drift apart; a mode changes while a prompt waits | what is denied never runs; a grant is what somebody chose |
| Provider layer, `api/rate_limiter.py`, `api/openai_compat.py`, `api/anthropic_provider.py` | timestamps and semaphore of the limiter; counters of the retry handler shared by all requests | acquire, post, stream, back off, give up, be cancelled | two retry loops; cancellation inside one; a stream that breaks half way | the window holds; no slot leaks; one stop, last; requests settle |
| Engine pipeline, `engine/graph.py`, `engine/pipeline.py`, `engine/async_pipeline.py`, `engine/concurrency.py` | component graph; outputs of a run | connect, sort, level, run, gather, fail, cancel, run again | `gather` leaves siblings of a failed component running | outputs appear once, after their inputs; groups stay within their limit |
| Engine agent, `engine/agent.py`, `engine/policies/` | State dict of a run; retry budget of the agent | ask, call tools one by one or gathered, retry, fall back, degrade, exit | a budget shared by concurrent calls; fallbacks that point at each other | calls answered in order; the budget covers all; a warning before the cut; runs end |
| Swarm, `swarm/` | members, processes, mailbox files | spawn, delegate, poll, report, stop | check before `await`; read then unlink; a second coordinator | how far the limit can be passed; reports in order and once |
| Tasks and checkpoints, `task/`, `runtime/task_state_machine.py`, `runtime/checkpoint_recovery.py` | JSON files | create, move on, save, recover | crash during a write; load-change-save | not modelled |
| MCP client, `mcp/` | server processes and owners, health | start, stop, ping, restart | restart racing a call | not modelled |
| Hooks, tokens, exec policy, cron, LSP, sandbox, gateway, harness sensors, view | see `PROJECT.json` | | | outcomes taken as choices, or not modelled (section 6) |

How they interact.  The view (or the server, or the HTTP gateway) iterates the
async generator `run_turn`.  The turn loop asks the provider, records the reply
and hands its calls to the pipeline, which may yield a permission request to
the very consumer that drives the generator, and then submits the tool to the
process-wide pool.  The agent tool runs in that pool and drives turn loops of
sub-agents that submit to it again.  The server runs a turn in a task per
`session.send` and turns its events into numbered events of the session's ring,
which it fans out to the queues of the attached connections.  Requests of all
runtimes go through one provider object.  The swarm tools run in the same pool as
every tool and start an event loop of their own there.  The engine's agent and
pipeline are a second, newer way of running the model; they share no state with
the turn loop.

`PROJECT.json` lists under `hazards` what is hard to test in this code, with
its line and the properties that are about it.

## 2. The modules

| Module | Models | Composed with |
|---|---|---|
| `TurnLoop` | one conversation's turns, one after the other, with the compressor as operators on the history | |
| `ToolDispatch` | the dispatch of one reply's calls in a tree of runtimes that share the pool; `AskEnds` is what `Prompts` details | takes "the batch has its results" out of `TurnLoop`'s `RecordResults` |
| `PermissionModes` | the policy's decision, its lists, and the modes with all that switches them | |
| `Prompts` | the wait of each call that asks, the slot, the renderer, the dialog, the overlay | extends `PermissionModes`; details `Ask` and `AskEnds` of `ToolDispatch` |
| `SessionServer` | manager, connections and clients | `RuntimeEmits` stands for the turn loop's events |
| `Provider` | requests through one limiter and one retry handler | details `request` and `streaming` of `TurnLoop` |
| `Dataflow` | abstract: what one run of a pipeline promises | |
| `Pipeline` | graph, both runners, groups, failures, re-runs | implements `Dataflow`, once per run |
| `AgentLoop` | the engine's agent with its policies | an attempt of it is a run of `Pipeline` |
| `Swarm` | manager, coordinators, mailboxes, workers | |
| `MC*` | the constants of the TLC runs | |
| `*Proofs` | theorems and their proofs | extend the module they are about |

### TurnLoop

`pc` is where the generator is suspended or what comes next:

| `pc` | in `_run_turn_body` |
|---|---|
| `idle` | no turn |
| `top` | head of the `for` loop: proactive compaction, cost budget |
| `request` | `await provider.stream_message(...)` and its `except` branches |
| `streaming` | iterating the stream |
| `compacting` | suspended at the `StreamCompactionStart` event, guard set |
| `measure` | after the stream: compaction on the provider's own count, `max_tokens` upgrade, then the reply is recorded |
| `dispatch` | calls recorded, results not yet |
| `epilogue` | after the loop |

`session` is the history, a sequence of messages with a role, whether they have
text, the calls they make (`uses`) and the results they hold.  `rt` has the
fields of the runtime object that outlive a turn, `t` the locals of the turn.
`strikes` and `excused` are history variables that only properties read.

Abstracted: token counts (whether a threshold is crossed is a choice), texts
(five kinds: nothing, thinking only, an answer, a denial, malformed), arguments
of calls (a signature, which is what `RecentToolCallTracker` compares), request
building and its switch to XML tags, results themselves.  Levels of the
compressor that only shorten text are the identity on this state; the others
are `Drop`, `KeepRecent` and `EnsurePairIntegrity`.  `Drop` walks the messages
as the code's loop does, as a recursive function: `Kept` is what is left of one
message, and one without a block left goes.  The profile's flags are constants
and stay the same when the model falls back.

The module has one turn at a time, the contract `run_turn`'s renderer states.
Two callers do not keep it (the REPL coordinator and the server start a task for
each message); turns that overlap on one history are not modelled.

### ToolDispatch

`phase[r]` is what the turn of runtime `r` waits for, `st[c]` where call `c` is,
`queue` the work items no thread has taken.  The tree is given by `Batch` (the
calls of each runtime's reply) and `Children` (the runtimes an agent call
spawns).  Refusals of the pipeline (unknown tool, invalid input, policy, hook,
plan mode) are one action, since all of them end the call with an error result.
A tool that raises frees its thread, but its pipeline waits for a sentinel that
`run_tool` puts on the progress queue only after the tool returned: `raised` is
a state with no way out.  A tool with no side effects may have been started while
the reply was streaming; these reads have a pool of their own and are over
before the batch is dispatched.  Each runtime dispatches one batch.

### PermissionModes and Prompts

`Authorize` is the policy's decision: deny list, allow list, then the mode.  Plan
mode is kept three times: the policy's mode, the flag of the harness (its guide
is what blocks tools) and the flag of the application state, which overwrites
the harness's at the start of each turn.  Shift+Tab, `/plan`, `/yolo`, `/mode`
and the two plan-mode tools each set some of the three, and each is an action.
Patterns of the deny list are abstracted to the set of tools they match.

In `Prompts` a call is authorized when its turn comes to it (`outcome`), so that a
mode switched, or a tool allowed for good, by one call's prompt reaches the next.
`After` orders the calls of a turn; calls of different turns are not ordered.  A
call that is not gathered yields its request to the renderer, which shows the
dialog and sends the answer *before* it resumes the generator, so the future is
created after the answer: `Answer` does both in that order.  The requests of a
gathered batch reach the renderer when the whole batch is over (`Replay`).  A
second dialog is refused by the screen, which the renderer turns into "deny".
`Settle` is the end of the wait with all that follows: the overlay is committed
or discarded, then the hooks decide whether the call runs or is blocked (`ran`).

### SessionServer

The server names a client by its connection, so `role`, `writer` and `wired`
speak of connections; `conn` and `cursor` belong to the client program, which
outlives them.  Methods of the manager run under a lock that is not released
in between, so dispatching a request is one step (`Attach`, `Detach`, ...) and
sending its response and wiring the connection's queue is another (`Respond`).
A connection can die between the two: the client is gone (`ClientLeaves`), and
the server notices later (`Drop`).

Abstracted: tokens (a refused request changes nothing), payloads.  A connection
has one request under way.  Events queued for a client that is gone are not
kept.  A client answered "evicted" starts again from cursor 0.  The filter of
`replay_after` over the ring is the recursive function `Past`.
`moves`, `requests`, `cut` and `heard` are history variables.

### Provider

A request is a task: `post` or `stream`, through the semaphore, the window, the
HTTP call, the stream and back-offs.  `stamps` are the limiter's timestamps as
ages, the oldest first, which `Tick` advances; `PopOld` is the `popleft` loop, and
only an attempt that looks at the window runs it.  `admitted` is a history
variable of the attempts let through within the window.  Without a
`RateLimitHandler` the provider's own loop counts; with one, its counters are
shared by all requests, and one request's success resets what another one counts.  `run_with_rate_limit` catches
`BaseException`, so that a cancelled attempt is classified like any other error;
its class is never retried.  A slot covers the whole stream of the OpenAI-compatible
provider, and of the Anthropic one only the opening.

### Dataflow and Pipeline

`Dataflow` is what the docstrings promise of one run: outputs appear once each,
after the outputs they are computed from, and the run returns with all of them or
raises.  `Pipeline` is how: Kahn's algorithm (`KahnStart`, then a `KahnStep` for each
component taken off the queue) and the longest-path levels as recursive functions,
`run` one component at a time, `run_async` a level at a time, each group behind a
semaphore.  `gather` lets the siblings of a failed
component go on, beside the next run too.  `ImplementsDataflow` instantiates
`Dataflow` twice, for the first run and for the last, with "cancelled" mapped to
"raised".

### AgentLoop

`pc` is where the loop is; `batch` holds the calls of a reply with their attempts.
With `async` they interleave, without it they follow each other.  `Retry`,
`Fallback` and `Surface` are the three ways out of an exception; check and
payment of the budget have no `await` in between and are one step.  `Answers`
reads the recorded results back from the messages, `Repeats` counts the attempts
after the first.

### Swarm

A call of `coordinate` or `swarm_create` is a little state machine (`call`); a
third one stops members.  What they share is the dictionary of members and the
mailbox files.  A worker appends with `open` and a buffered write on `close`, so
that a file may be unlinked in between (`fd`).  Workers are external: they
report, finish or die.

## 3. The runs

| Run | Module, cfg | Result | Checks |
|---|---|---|---|
| `turn_loop` | `MCTurnLoop`, `TurnLoop.cfg` | holds | `TypeOK` `PairedHistory` `NeverSilent` `ThreeStrikes` `GuardReleased` `TurnEnds` |
| `tool_dispatch` | `MCToolDispatch`, `ToolDispatch.cfg` | holds | `TypeOK` `NoOrphans` `OneByOne` `BatchEnds` `PoolDrains` |
| `prompts` | `MCPrompts`, `Prompts.cfg` | holds | `TypeOK` `OneRunPerAnswer` `OverlaySettled` `OneGrantPerAnswer` `DenyWins` `WaitEnds` |
| `prompts_answer` | `MCPrompts`, `PromptsAnswer.cfg` | violated | `AnswerObeyed` |
| `plan_mode` | `MCPrompts`, `PromptsPlan.cfg` | violated | `PlanBlocks` |
| `server` | `MCSessionServer`, `SessionServer.cfg` | holds | `TypeOK` `SlotMatchesRole` `BufferIsTail` `DeadWriter` `InOrder` `ReplayExact` |
| `server_gap` | `MCSessionServer`, `SessionServerGap.cfg` | violated | `Lossless` |
| `provider` | `MCProvider`, `Provider.cfg` | holds | `TypeOK` `WindowCap` `StopLast` `Settles` |
| `stream_retry` | `MCProvider`, `StreamRetry.cfg` | violated | `NoEventTwice` |
| `pipeline` | `MCPipeline`, `Pipeline.cfg` | holds | `TypeOK` `Sorts` `GroupBound` `ImplementsDataflow` `RunsEnd` |
| `agent_loop` | `MCAgentLoop`, `AgentLoop.cfg` | holds | `TypeOK` `AnsweredInOrder` `BudgetCovers` `CutWithNotice` `RunEnds` |
| `swarm` | `MCSwarm`, `Swarm.cfg` | holds | `TypeOK` `OvershootBound` `DeliveredOnce` |

**turn_loop** takes two turns of at most three iterations, with twelve replies
that have each kind of text, stop reason and batch the loop tells apart.
Bounds, and why they are enough:

- three iterations per turn reach every retry (a denial or empty reply needs a
  tool call before it) and a loop that spends its budget; two turns reach what
  outlives a turn;
- a chain of two fallbacks reaches a fallback, a second one and the end of the
  chain;
- two compaction failures open the breaker (three in the code), one doubling of
  `max_tokens`, two continuations for diminishing returns;
- `keep_recent` is 4 and 2 (6 and 4 in the code), and 3 for `compact_session`,
  so that histories of this length are cut in the middle of a pair;
- three calls in all (`MaxIds`), with a batch of two, a repeated call and an
  agent call.

`PairedHistory` says that a request never carries a call without its result,
with two, or with one in the wrong place; its exceptions are the batches that
the retry tracker aborted, that were interrupted, or whose call
`compact_session` cut off (section 5).  `ThreeStrikes` relates the runtime's counter to errors counted independently.  `NeverSilent`
says how a turn may end with nothing shown.  `TurnEnds` is a variant: every step
of a turn leaves fewer to take.

**tool_dispatch** has a reply with two tools, a forking agent and a single
agent.  One child of the fork calls an agent again, so up to three agents hold
a thread at once, one fewer than the four workers.  Two tools may raise, models
of sub-agents may fail, the turn may be cancelled.  `BatchEnds` and `PoolDrains`
hold with that: whatever the order, a raised tool or a cancellation is all
that can keep the turn from going on.  With one thread fewer they fail
(mutant `Free_OffByOne`): as many agents as threads wait for each other
(section 5).

**prompts** has two overlapping turns, one with a call and then a gathered batch
of two.  Tools and arguments repeat, so that "always" answers meet later calls;
one call's path is under the working directory, so that the grant of a root is
told from that of a tool.  The mode starts as `prompt` or `read_only`, with
nothing denied or the edit tool, and is switched once.  `DenyWins` needs the deny
list to stand against a grant made in between, `OneGrantPerAnswer` that an
"always" answer grants one thing, however many calls wait for it.

**server** has one session, two clients, three connections, a ring of 2
(1000 in the code) and four events, so that the ring overflows, a client
reconnects, and the writer slot changes hands.  With one session a cursor is
never of another session, so the refusal of a cursor ahead of an empty session
is not taken there.  **server_gap** is the smallest instance with a reconnect.
Connections and clients are interchangeable, which `Symmetry` uses in **server**;
no liveness is checked there.

**provider** has two requests with one admission per window of two ticks, one
retry, and four providers: both APIs, with a semaphore of one or two, without
and with the handler, in the foreground and the background.  So a request waits
for the window while the other holds the slot, both count on one handler, and
a stream breaks off after its finish chunk.  **pipeline** takes every graph of
four components with up to three edges, cyclic ones too, and runs it twice with
either runner; three components share a group of two permits, so
that one waits.  **agent_loop** has two runs with up to two calls a reply, two
tools that fall back on each other, and a budget of two, so that the budget is all
that ends a chain.  **swarm** has three members for a limit of one, two callers
and one worker that talks; members and callers of a kind are interchangeable
(`Symmetric`), and nothing temporal is checked there.

Deadlock is not checked where the system may stop: when the one batch is
dispatched or all asks, connections or requests of the model are used up.

**Fairness.**  `ToolDispatch` assumes weak fairness of each runtime's steps (an
event loop runs what is ready), of each pipeline (prompts end after 300
seconds), of each call under way (a tool returns or raises, a model answers or
fails) and of the pool taking items.  Nothing has to be cancelled or to fail.
`Prompts` assumes it of `Settle` alone: `asyncio.wait_for` wakes its task after
300 seconds.  Nobody has to answer a dialog.  `Provider` assumes it of time and of
each request's steps: sleeps end, and the HTTP client has timeouts.  `Pipeline`
assumes that components return or raise, `AgentLoop` that the model answers and
attempts and sleeps end; nobody has to start a run, and nothing has to fail.
`TurnLoop`, `SessionServer` and `Swarm` need none: `TurnEnds` is a variant and
not a liveness property, and nothing of the swarm has to happen.

## 4. The proofs

Checked by tlapm, for every value of the constants that satisfies the named
assumptions of the module: any numbers of calls, connections, requests, members
and components, any bounds, any graph, any tree of agents.  Every invariant and
action property that a run checks is stated by a theorem, and so is the
refinement of `Dataflow`.

| Theorem | Says | From |
|---|---|---|
| **TurnLoopProofs** | | `LoopAssumption`, `RepliesAssumption` |
| `ControlInvariant` | `Control`, the inductive invariant of the loop | |
| `CapsHold` | program counter, counters and locals are within their caps | `ControlInvariant` |
| `FallbackNeedsThreeStrikes` | `ThreeStrikes` | `ControlInvariant` |
| `TurnIsNeverSilent` | `NeverSilent` | `ControlInvariant` |
| `GuardIsReleased` | `GuardReleased` | `ControlInvariant` |
| `TurnsTerminate` | `TurnEnds` | `ControlInvariant` |
| `HistoryInvariant` | `HistoryInv`, the inductive invariant of the history | `ControlInvariant` |
| `RequestsArePaired` | `PairedHistory` | `HistoryInvariant` |
| `TurnIsTyped` | `TypeOK` | both invariants |
| **ToolDispatchProofs** | | `DispatchAssumption` |
| `NothingIsOrphaned` | `NoOrphans` | `DispatchInv` |
| `DispatchInvariant` | `OrderInv`, the inductive invariant of the dispatch | |
| `DispatchIsTyped` | `TypeOK` | `DispatchInvariant` |
| `ToolsRunOneByOne` | `OneByOne` | `DispatchInvariant` |
| `OnlyAgentsJamThePool` | what is pending can go on, or agents hold all workers | `DispatchInvariant`; agents nest to a finite depth |
| `PoolNeverLocks` | what is pending can go on | the same, and more workers than agent calls |
| `DispatchGoesForward` | no step goes back | `DispatchInvariant` |
| **PromptsProofs** | | `ModesAssumption`, `AsksAssumption` |
| `PromptsInvariant` | `PromptsInv`, the inductive invariant | |
| `PromptsAreTyped` | `TypeOK` | `PromptsInvariant` |
| `DenyListWins` | `DenyWins` | `PromptsInvariant` |
| `OverlaysAreSettled` | `OverlaySettled` | `PromptsInvariant` |
| `AnswersRunOneCall` | `OneRunPerAnswer` | `PromptsInvariant` |
| `AnswersMakeOneGrant` | `OneGrantPerAnswer` | `PromptsInvariant` |
| **SessionServerProofs** | | `ServerAssumption` |
| `SlotAndRolesAgree` | `SlotMatchesRole` | `SlotInv` |
| `BufferHoldsTheLatest` | `BufferIsTail` | `RingInv` |
| `ServerIsTyped` | `TypeOK` | `Types` |
| `ReplaysAreExact` | `ReplayExact` | `Types` |
| `DeadWritersAreFreed` | `DeadWriter` | `SlotsInv` |
| `ServerInvariant` | `Types`, `SlotsInv` and `FlowInv`, together inductive | |
| `EventsComeInOrder` | `InOrder` | `ServerInvariant` |
| **ProviderProofs** | | `ProviderAssumption` |
| `ProviderInvariant` | `ProviderInv`, the inductive invariant | |
| `ProviderIsTyped` | `TypeOK` | `ProviderInvariant` |
| `NoSlotIsLost` | every slot is free or with a request | `ProviderInvariant` |
| `WindowHolds` | `WindowCap` | `ProviderInvariant` |
| `StopIsLast` | `StopLast` | `ProviderInvariant` |
| **SwarmProofs** | | `SwarmAssumption` |
| `SwarmInvariant` | `SwarmInv`, the inductive invariant | |
| `SwarmIsTyped` | `TypeOK` | `SwarmInvariant` |
| `LimitIsPassedByCallers` | `OvershootBound` | `SwarmInvariant` |
| `ReportsComeOnce` | `DeliveredOnce` | `SwarmInvariant` |
| **AgentLoopProofs** | | `AgentAssumption` |
| `AgentInvariant` | `AgentInv`, the inductive invariant | |
| `AgentIsTyped` | `TypeOK` | `AgentInvariant` |
| `CallsAnsweredInOrder` | `AnsweredInOrder` | `AgentInvariant` |
| `BudgetCoversRepeats` | `BudgetCovers` | `AgentInvariant` |
| `NobodyCutUnwarned` | `CutWithNotice` | `AgentInvariant` |
| **PipelineProofs** | | `PipelineAssumption` |
| `SortIsRight` | `Sorts` | |
| `PipelineInvariant` | `PipelineInv`, the inductive invariant of the runs | `SortIsRight` |
| `PipelineIsTyped` | `TypeOK` | `PipelineInvariant` |
| `InputsAreReady` | no component starts before its inputs are recorded | `PipelineInvariant` |
| `GroupsAreBounded` | `GroupBound` | `PipelineInvariant` |
| `RunsImplementDataflow` | `ImplementsDataflow` | `PipelineInvariant` |

**TurnLoopProofs.**  `Control` conjoins the types, `StrikesInv` and
`EpilogueInv`.  `ThreeStrikes` speaks of errors counted in `strikes`; the code
decides by `rt.failures`, so the invariant has to say that the two are equal
through turns, fallbacks and model switches, and that a model with a successor
never has three.  `NeverSilent` speaks of the last step of a turn; what the user
has seen is settled when the epilogue is entered, so `EpilogueInv` records the
three reasons to be there.  `TurnsTerminate` needs the iteration never to pass its
maximum.

`HistoryInv` is about what the history is between requests.  It is `Whole` (every
call is answered once, by the next message, and every result follows its call),
except between the recording of a reply and of its results, when it is `Asked`:
the last message's calls have no answer yet.  In the middle of a compaction it
is only `Half`: a cut that keeps the latest messages can part results from their
calls, but never calls from their results, so what `HalfRooted` allows is a result
whose call is gone, and `EnsurePairIntegrity` drops those.  `Below` says that the
ids still to come are new.  `Drop` is the difficulty: it removes messages that
became empty, which moves the others together, and `DropKeepsPairs` shows that two
neighbours that both keep a block are neighbours afterwards.

**ToolDispatchProofs.**  That a finished turn has nothing running is not
inductive.  `DispatchInv` adds that a call has at most one work item, so that a
sub-agent is started once; that no call is touched before its runtime has a reply;
and that an agent call which has not started has no child running, and one that
is done has none still running.  Lemmas `CallMoves` and `PhaseMoves` say what
a change of one call or one phase has to respect, and each action is an instance.
`OrderInv` adds that an agent call waits for the tools of its reply
(`AgentsLast`), that one by one all calls before one under way are done
(`SerialInv`), and that queue and pool agree with the calls.

The last three theorems take the heart of `BatchEnds` and `PoolDrains` out of the
small instance.  `Pending` says that something is left to do and that no raised
tool is waited for, `CanStep` spells out the conditions of the steps fairness is
assumed of.  The argument: when the queue is empty, take the turn of least height
that is on; the first call of its group that is not done can take a step, since
an agent of its own waits for nothing lower.  When the queue is not empty and no
worker is free, a tool that runs can return, so only agents can hold the pool up.
Heights are natural numbers that fall from a turn to its sub-agents; the code
stops agents at `max_depth`.  `PoolNeverLocks` adds that the pool has more workers
than there are agent calls; without that the system does lock up (section 5),
and then `Jammed` says how.  With `DispatchGoesForward` a dispatch of finitely many
turns and calls has finitely many steps.  The step from there to `BatchEnds` needs
fairness, and stays with TLC.

**PromptsProofs.**  All calls share the session's grants and one slot for a future.
`OneRunPerAnswer` and `OneGrantPerAnswer` compare numbers, so `CountInv` says for a
set of answers that no more futures hold one of them than dialogs gave one; each
step adds at most one to the left, and only together with one to the right.
`AskInv` places future and choice of each call by where the call is, `GrantInv`
traces each grant back to a future.  What is denied does not change while calls
wait, so `DenyInv` can say that such a call is either new or finished without
having run.  `OverlayInv` is `OverlaySettled` with what holds before a wait ends.

**SessionServerProofs.**  `SlotInv` and `RingInv` are the properties with their
types; both are inductive.  `RingOfLatest` is the lemma on `Kept(Append(b, n))`:
appending the next number to a run of consecutive ones and dropping the oldest
over the limit keeps it a run of the right length.  `PastOfRing` says what the
filter of `replay_after` returns on such a ring, so `ReplayExact` follows from
the types.  For `DeadWriter` the manager's writer and the transport's attachment
must agree; they do until a connection attaches or detaches a second time
(`HeldInv`, `MoveInv`).  `InOrder` needs `FlowInv`: a connection whose
first attach is not answered is wired to nothing, a connection belongs to one
client, and no number on its way is ahead of its session.

**ProviderProofs.**  `WindowCap` is about attempts let through, the code looks at
`stamps`.  `Within` says that the last stamps are the attempts within the window and
all before them have left it; both only fit because the stamps are ordered by age,
which is also why a loop that pops from the front may stop at the first young one.
`SlotsInv` counts free slots and holders.  `Moves` and `Hands` say what a step of
one request may do to the slots and to the stream, and the steps are instances.

**SwarmProofs.**  `SpawnInv` counts members and spawns that passed the check and
have not registered yet: their sum is below the limit plus the callers.
`CallOK` orders the reports a call has before the lines it has read and those that are
still in the file, so that whatever is read later comes later; `FileOK` says that a
worker's file is in order, and there while it is written.

**AgentLoopProofs.**  `OrderInv` says that the answers so far are those to the first
calls, and that they and the calls at hand are all calls.  `BudgetCovers` is
inductive with the types, by counting the pairs of a call and an attempt.
`NoticeInv` is what `CutWithNotice` needs before the cut: from the iteration of the
warning on there is one reminder, and as many calls have been answered since as
iterations have passed.  The property supposes that the offset of the warning is
not zero: with an offset of zero a run is cut off before it is warned.

**PipelineProofs.**  First the sort, for every finite graph: `KahnInv` says that
after n steps the order and the queue hold different components, that of those the
order has all predecessors come earlier, and that a component is queued as soon as its
last one is there; so a sort that stops short has found a set in which each waits
for another.  The levels are defined by recursion over Kahn's order.  Then the runs:
each is `Unbegun` or `Begun`, and then its records are what the stages before the
present one returned.  For the refinement, `Seen` lists what a step of the pipeline
looks like from one run: nothing, or one of the steps of `Dataflow`.

**How recursion is proved.**  The library's induction theorems take an operator as
parameter, which no installed prover can instantiate.  Kahn's steps, the levels,
`Past` and `Drop` are recursive functions; what they compute is proved by taking the
least number at which it would be wrong (`LeastNat`, from the well-foundedness of
`<`) and showing that it is not.

Only model-checked: liveness (`BatchEnds`, `PoolDrains`, `WaitEnds`, `Settles`,
`RunsEnd`, `RunEnds`), which like ENABLED is out of the prover's reach.

## 5. Where code and words disagree

With a run, quoted in `PROJECT.json`:

- **The answer to a prompt** (`prompts_answer`).  The request is yielded before
  the future exists; the answer sent in between is dropped, and the call is
  denied after 300 seconds.
- **Lossless reconnect** (`server_gap`).  An event emitted between the dispatch
  of a resuming attach and the wiring of its queue is in neither the replay nor
  the queue.
- **Plan mode** (`plan_mode`).  The pipeline acts on DENY and NEED_PROMPT;
  NEED_PLAN goes on to the tool.  The harness's guide blocks six tools by name, and
  Shift+Tab does not set the flag it goes by.
- **Retries of a stream** (`stream_retry`).  The docstring says that only a
  failure before the first event is retried; one after it is retried too, and the
  consumer is given the events again.

Modelled, and either an exception a property names or what it leaves open:

- a connection that dies while its attach is being answered keeps the writer slot
  (`DeadWriter`, `cut`);
- a consumer that leaves during auto-compaction leaves the guard set
  (`GuardReleased`);
- a hook that blocks a call does so after its overlay was committed
  (`OverlaySettled`), and an answer that edits the arguments commits the overlay of
  the unedited ones;
- the fast exit of the retry tracker appends results the session already has, and
  calls behind the repeated one have none; the handler of `CancelledError` yields an
  error result that never reaches the session (`PairedHistory`);
- as many agent calls as the pool has threads, each with a tool call of its own,
  wait for each other for ever (`tool_dispatch` has one fewer);
- `gather` does not cancel the siblings of a component that failed, as the comment
  at `engine/concurrency.py:82` says; `ImplementsDataflow` holds all the same, since
  every run has outputs of its own;
- a report a worker writes between the coordinator's read and its unlink is lost
  (`DeliveredOnce` says in order and once, not all); a worktree member is
  looked for at the subprocess backend and not stopped; two tool calls pass the
  member limit by one (`OvershootBound`).

## 6. What is not modelled

The repository has some 92,000 lines in 521 files.  Most of them hold no
protocol: slash commands and the dispatcher (parsing and reports), model
profiles and configuration (tables), output compression, request conversion and
stream parsing (text), rendering, marketplace, migration, memory.  A model of
them would repeat them.  The models are of the parts where several actors,
failures or long sequences of legal steps meet.

Left out for good: rule matching of the exec policy on strings, RBAC, hooks
(external commands, whose verdicts are refusals in `ToolDispatch`), HMAC and
SQLite of the tokens, LSP plumbing, the sandbox, rendering, the HTTP gateway's
adapters, harness sensors, memory, marketplace and migration.

Left out so far:

- turns that overlap on one history (`session.send` and the REPL start a task
  each): `TurnLoop` has one at a time;
- two sessions of one client and its one cursor for both;
- tasks and checkpoints, which load, change and save JSON files in place; nothing in
  the application starts the automatic save;
- the MCP client: approvals have the slot, future and timeout of `Prompts`;
  reconnection of a server is described under `hazards`;
- cron, whose scheduler no part of the application starts;
- of modelled components: the swarm's inter-agent mailbox and shared memory,
  `ModelFallback` and the policies over token budgets of the engine's agent, SDK
  retries and further providers.

## 7. Plan

Every safety property is proved; what is left is progress and reach.

1. What `OnlyAgentsJamThePool` and `DispatchGoesForward` do for `BatchEnds`, for the
   other liveness properties: that a run of `AgentLoop` has a bounded number of
   steps (`RunEnds`) and always one to take, that a wait of `Prompts` can always
   be settled (`WaitEnds`), that a request of `Provider` that is not settled is
   never stuck (`Settles`), and that a run of `Pipeline` whose group is full has
   a component that runs (`RunsEnd`).
2. That a lost report of `Swarm` is lost only between a read and its unlink, and a
   lost event of `SessionServer` only between an attach and its wiring: the
   exceptions of section 5 as theorems about everything else.
3. That `Ask` and `AskEnds` of `ToolDispatch` are what `Prompts` does to a call.
