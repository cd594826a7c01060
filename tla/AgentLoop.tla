------------------------------ MODULE AgentLoop ------------------------------
(***************************************************************************)
(* The tool-calling loop of the engine: Agent.run and Agent.run_async      *)
(* (engine/agent.py) with the policies that steer it (engine/policies/):   *)
(* exit conditions, retry, fallback, degraded mode and the retry budget    *)
(* under all of them.  run_async gathers the calls of a reply, so that     *)
(* their attempts, back-offs and fallbacks interleave and share one        *)
(* budget; run makes them one after another.  The pipeline that executes a *)
(* call is external here (module Pipeline models it): an attempt returns a *)
(* result or raises.                                                       *)
(*                                                                         *)
(* What is kept: the order of the checks at the top of the loop, when a    *)
(* warning, a restriction, a result is recorded, who spends the budget and *)
(* when, everything an exit condition looks at.  What is abstracted: text, *)
(* arguments (two calls of one tool are the same call), delays (some or    *)
(* none).                                                                  *)
(***************************************************************************)
EXTENDS Naturals, Sequences, FiniteSets

CONSTANTS
  Tools,              \* the pipeline's tools
  ExitTool,           \* the tool that means "stop" (ExplicitExitTool)
  ReadOnlyTools,      \* what degraded mode still offers
  FallbackMap,        \* SemanticFallback: tool |-> the tool to try instead
  ExitConditions,     \* the agent's exit conditions, first match wins
  MaxSteps, WarningOffset,            \* MaxStepsReached
  Window,                             \* NoProgress
  DenialLimit, DenialWindow,          \* DenialThreshold
  FailureThreshold,                   \* ConsecutiveFailureDegraded
  MaxAttempts,                        \* of ExponentialBackoff, RetryOnRateLimit
  MaxTotalRetries,                    \* RetryBudget
  MaxCalls,           \* bound: calls in one reply
  MaxRuns             \* bound: runs of one Agent

ASSUME AgentAssumption ==
  /\ ReadOnlyTools \subseteq Tools /\ ExitTool \in Tools
  /\ DOMAIN FallbackMap \subseteq Tools
  /\ \A t \in DOMAIN FallbackMap : FallbackMap[t] \in Tools
  /\ ExitConditions \in Seq({"max_steps", "no_progress", "explicit_exit",
                             "denial_threshold"})
  /\ {MaxSteps, FailureThreshold, DenialLimit, MaxAttempts} \subseteq Nat \ {0}
  /\ Window \in Nat /\ Window >= 2
  /\ DenialWindow \in Nat /\ DenialWindow >= DenialLimit
  /\ {WarningOffset, MaxTotalRetries, MaxCalls, MaxRuns} \subseteq Nat

VARIABLES
  pc,         \* "idle": no run, "top": of the loop, "chat": the model is asked,
              \* "tools": the calls of its reply are executed
  async,      \* run_async, not run
  runs,       \* runs started
  reason,     \* exit_reason of the last run
  messages,   \* state["messages"]: kinds, and the call a result answers
  calls,      \* state["tool_calls"]
  results,    \* state["tool_results"]
  denials,    \* length of state["denial_history"]
  iteration, degraded, allowed,  \* the rest of the State dict
  offered,    \* the tools the model was last shown
  batch,      \* the calls being executed: tool, attempt and what it waits for
  used        \* RetryBudget._used

state == <<messages, calls, results, denials, iteration, degraded, allowed>>
vars == <<pc, async, runs, reason, state, offered, batch, used>>

Last(s, n) == SubSeq(s, Len(s) - n + 1, Len(s))
Min(m, n) == IF m < n THEN m ELSE n
IsError(r) == r # "ok"
-----------------------------------------------------------------------------
(* Exit conditions, in the order of the agent's list. *)
NoProgress ==
  /\ Len(calls) >= Window
  /\ \A i, j \in DOMAIN Last(calls, Window) :
       Last(calls, Window)[i] = Last(calls, Window)[j]

Tripped(c) ==
  CASE c = "max_steps" -> iteration >= MaxSteps
    [] c = "no_progress" -> NoProgress
    [] c = "explicit_exit" -> calls # <<>> /\ calls[Len(calls)] = ExitTool
    [] c = "denial_threshold" -> Min(denials, DenialWindow) >= DenialLimit

TrippedAt == {k \in DOMAIN ExitConditions : Tripped(ExitConditions[k])}

WarnAt_Late == MaxSteps   \* mutant: the offset is forgotten
WarnAt == IF MaxSteps > WarningOffset THEN MaxSteps - WarningOffset ELSE 0

Reminder ==
  IF iteration = WarnAt /\ \E k \in DOMAIN ExitConditions :
       ExitConditions[k] = "max_steps"
  THEN <<[kind |-> "reminder", call |-> 0]>> ELSE <<>>

(* ConsecutiveFailureDegraded.check *)
ShouldDegrade ==
  /\ Len(results) >= FailureThreshold
  /\ \A i \in DOMAIN Last(results, FailureThreshold) :
       IsError(Last(results, FailureThreshold)[i])

FilteredTools == IF allowed' = {} THEN Tools ELSE Tools \cap allowed'
-----------------------------------------------------------------------------
Init ==
  /\ pc = "idle" /\ async = FALSE /\ runs = 0 /\ reason = "none"
  /\ messages = <<>> /\ calls = <<>> /\ results = <<>>
  /\ denials = 0 /\ iteration = 0 /\ degraded = FALSE /\ allowed = {}
  /\ offered = {} /\ batch = <<>> /\ used = 0

(* run or run_async: a fresh State, the Agent's own budget. *)
StartRun ==
  /\ pc = "idle" /\ runs < MaxRuns
  /\ pc' = "top" /\ runs' = runs + 1 /\ reason' = "none"
  /\ async' \in BOOLEAN
  /\ messages' = <<>> /\ calls' = <<>> /\ results' = <<>>
  /\ denials' = 0 /\ iteration' = 0 /\ degraded' = FALSE /\ allowed' = {}
  /\ UNCHANGED <<offered, batch, used>>

Exit ==
  /\ pc = "top"
  /\ \E k \in TrippedAt : /\ \A j \in TrippedAt : k <= j
                          /\ reason' = ExitConditions[k]
  /\ pc' = "idle"
  /\ UNCHANGED <<async, runs, state, offered, batch, used>>

(* Warning, then degraded mode (which stays), then the request. *)
AskModel ==
  /\ pc = "top" /\ TrippedAt = {}
  /\ pc' = "chat"
  /\ degraded' = (degraded \/ ShouldDegrade)
  /\ allowed' = IF degraded' THEN ReadOnlyTools ELSE {}
  /\ messages' = messages \o Reminder
       \o (IF degraded' # degraded THEN <<[kind |-> "notice", call |-> 0]>>
           ELSE <<>>)
  /\ offered' = FilteredTools
  /\ UNCHANGED <<async, runs, reason, calls, results, denials, iteration, batch,
                 used>>

(* A reply without calls ends the run.  The model may name any tool, offered
   or not. *)
ModelReplies ==
  /\ pc = "chat"
  /\ \E n \in 0..MaxCalls : \E tcs \in [1..n -> Tools] :
       /\ calls' = calls \o tcs
       /\ batch' = [i \in 1..n |->
            [tool |-> tcs[i], attempt |-> 0, st |-> "running", result |-> "none"]]
       /\ pc' = IF n = 0 THEN "idle" ELSE "tools"
       /\ reason' = IF n = 0 THEN "model_responded" ELSE reason
  /\ UNCHANGED <<async, runs, messages, results, denials, iteration, degraded,
                 allowed, offered, used>>
-----------------------------------------------------------------------------
(* run takes up a call when the one before it has its result. *)
Turn(i) ==
  /\ pc = "tools" /\ i \in DOMAIN batch
  /\ async \/ \A j \in 1..(i - 1) : batch[j].st = "done"

CanRetry_OffByOne == used <= MaxTotalRetries   \* mutant
CanRetry == used < MaxTotalRetries

(* CompositeRetryPolicy of the two: only these errors, so many attempts. *)
ShouldRetry(i, err) ==
  err \in {"transient", "rate_limit"} /\ batch[i].attempt < MaxAttempts

Set(i, b) == batch' = [batch EXCEPT ![i] = b]
Done(i, r) == Set(i, [batch[i] EXCEPT !.st = "done", !.result = r])

(* The pipeline returns, with the tool's error as well as with its output. *)
AttemptReturns(i) ==
  /\ Turn(i) /\ batch[i].st = "running"
  /\ \E r \in {"ok", "error", "denied"} : Done(i, r)
  /\ UNCHANGED <<pc, async, runs, reason, state, offered, used>>

Retry_Free(i, err) ==   \* mutant: never paid for
  /\ CanRetry /\ ShouldRetry(i, err)
  /\ \E st \in {"sleeping", "running"} :
       Set(i, [batch[i] EXCEPT !.attempt = @ + 1, !.st = st])
  /\ UNCHANGED used

Retry(i, err) ==
  /\ CanRetry /\ ShouldRetry(i, err)
  /\ used' = used + 1
  /\ \E st \in {"sleeping", "running"} :
       Set(i, [batch[i] EXCEPT !.attempt = @ + 1, !.st = st])

Fallback_Free(i, err) ==   \* mutant: a swap of tools is not a retry
  /\ CanRetry /\ ~ShouldRetry(i, err)
  /\ batch[i].tool \in DOMAIN FallbackMap
  /\ Set(i, [batch[i] EXCEPT !.tool = FallbackMap[@], !.attempt = 0])
  /\ UNCHANGED used

Fallback(i, err) ==
  /\ CanRetry /\ ~ShouldRetry(i, err)
  /\ batch[i].tool \in DOMAIN FallbackMap
  /\ used' = used + 1
  /\ Set(i, [batch[i] EXCEPT !.tool = FallbackMap[@], !.attempt = 0])

(* AgentError; the text of a "denied" error says so. *)
Surface(i, err) ==
  /\ CanRetry => ~ShouldRetry(i, err) /\ batch[i].tool \notin DOMAIN FallbackMap
  /\ Done(i, IF err = "denied" THEN "denied" ELSE "error")
  /\ UNCHANGED used

(* The pipeline raises: one of the three, without an await in between. *)
AttemptRaises(i) ==
  /\ Turn(i) /\ batch[i].st = "running"
  /\ \E err \in {"transient", "rate_limit", "denied", "fatal"} :
       Retry(i, err) \/ Fallback(i, err) \/ Surface(i, err)
  /\ UNCHANGED <<pc, async, runs, reason, state, offered>>

Wake(i) ==
  /\ Turn(i) /\ batch[i].st = "sleeping"
  /\ Set(i, [batch[i] EXCEPT !.st = "running"])
  /\ UNCHANGED <<pc, async, runs, reason, state, offered, used>>

Answered_Reversed(n) ==   \* mutant: in the order they finished
  [i \in 1..Len(batch) |-> [kind |-> "tool", call |-> n + Len(batch) + 1 - i]]

Answered(n) == [i \in 1..Len(batch) |-> [kind |-> "tool", call |-> n + i]]

Denied == Cardinality({i \in DOMAIN batch : batch[i].result = "denied"})

(* Results and denials in the order of the calls, one iteration more. *)
Recorded ==
  /\ pc = "tools" /\ \A i \in DOMAIN batch : batch[i].st = "done"
  /\ pc' = "top"
  /\ results' = results \o [i \in 1..Len(batch) |-> batch[i].result]
  /\ messages' = messages \o Answered(Len(results))
  /\ denials' = denials + Denied
  /\ iteration' = iteration + 1
  /\ batch' = <<>>
  /\ UNCHANGED <<async, runs, reason, calls, degraded, allowed, offered, used>>

Task(i) == AttemptReturns(i) \/ AttemptRaises(i) \/ Wake(i)
Step == Exit \/ AskModel \/ ModelReplies \/ Recorded

Next == StartRun \/ Step \/ \E i \in 1..MaxCalls : Task(i)

Spec == Init /\ [][Next]_vars

(* Fair: the model answers, attempts end, sleeps end, the loop goes on.
   Nobody has to start a run. *)
FairSpec == Spec /\ WF_vars(Step) /\ \A i \in 1..MaxCalls : WF_vars(Task(i))
-----------------------------------------------------------------------------
TypeOK ==
  /\ pc \in {"idle", "top", "chat", "tools"}
  /\ {async, degraded} \subseteq BOOLEAN
  /\ runs \in 0..MaxRuns /\ used \in 0..MaxTotalRetries
  /\ reason \in {"none", "model_responded", "max_steps", "no_progress",
                "explicit_exit", "denial_threshold"}
  /\ messages \in Seq([kind : {"reminder", "notice", "tool"}, call : Nat])
  /\ calls \in Seq(Tools) /\ results \in Seq({"ok", "error", "denied"})
  /\ denials \in 0..Len(results) /\ iteration \in Nat
  /\ allowed \subseteq Tools /\ offered \subseteq Tools
  /\ batch \in Seq([tool : Tools, attempt : 0..MaxAttempts,
                    st : {"running", "sleeping", "done"},
                    result : {"none", "ok", "error", "denied"}])

(* Where the results are among the messages. *)
Answers == {k \in DOMAIN messages : messages[k].kind = "tool"}

(* Whenever the model is asked again, or the run is over, every call it has
   made is answered exactly once, in the order it made them, whatever order
   the gathered tasks, their retries and fallbacks finished in. *)
AnsweredInOrder ==
  pc # "tools" =>
    /\ {messages[k].call : k \in Answers} = DOMAIN calls
    /\ \A j, k \in Answers : j < k => messages[j].call < messages[k].call
    /\ Len(results) = Len(calls)

(* The k-th repetition of the i-th call. *)
Repeats == {p \in (1..MaxCalls) \X (1..MaxAttempts) :
              p[1] \in DOMAIN batch /\ p[2] <= batch[p[1]].attempt}

(* The budget covers every repeated attempt, whichever of the concurrent calls
   makes it and whichever run of the Agent: check and payment are one step, with
   no await that lets another call pass the check in between. *)
BudgetCovers == Cardinality(Repeats) <= used

(* A run that is cut off at its cap was warned, once, and had the promised
   steps left when it was: so many calls more than were answered by then.  An
   offset of 0 promises none, and the run is cut off before it is warned. *)
CutWithNotice ==
  pc = "idle" /\ reason = "max_steps" /\ WarningOffset > 0 =>
    \E k \in DOMAIN messages :
      /\ messages[k].kind = "reminder"
      /\ \A j \in DOMAIN messages : messages[j].kind = "reminder" => j = k
      /\ \A n \in {0} \cup {messages[j].call : j \in {j \in Answers : j < k}} :
           n + Min(MaxSteps, WarningOffset) <= Len(calls)

(* However attempts, back-offs and swaps of tools follow each other, a run
   comes to an end. *)
RunEnds == pc # "idle" ~> pc = "idle"
=============================================================================
