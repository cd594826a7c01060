------------------------------ MODULE TurnLoop ------------------------------
(***************************************************************************)
(* One user turn of ConversationRuntime (runtime/conversation.py,          *)
(* _run_turn_body): the bounded loop that sends the history to the         *)
(* provider, recovers from its errors, records its reply, dispatches the   *)
(* tool calls and decides whether to go round again.                       *)
(*                                                                         *)
(* What is kept: every branch of the loop, what it does to the session,    *)
(* to the counters that live across turns and to what the user has been    *)
(* shown.  What is abstracted: token counts (a threshold crossing is a     *)
(* choice), texts (five kinds of reply) and tool arguments (a signature).  *)
(***************************************************************************)
EXTENDS Naturals, Sequences, FiniteSets

CONSTANTS
  MaxIterations,       \* config.max_turn_iterations
  NumFallbacks,        \* models in the fallback chain; model 0 is outside it
  MaxUpgrades,         \* doublings of max_tokens before _TOKEN_UPGRADE_CAP
  MaxCompactFailures,  \* _MAX_CONSECUTIVE_COMPACT_FAILURES
  MinContinuations,    \* diminishing_returns.min_continuations
  KeepCollapse,        \* keep_recent of the compressor's level 3
  KeepAuto,            \* keep_recent of its level 4
  KeepTrim,            \* keep_recent of compact_session (auto compaction)
  RetryOnDenial, EmptyCompileRetry, MalformedRetry, RemindAfterEachCall,
  AutoCompact,         \* compaction.auto_enabled
  Sigs,                \* what a tool call is compared by: name and arguments
  AgentSigs,           \* the calls of the tool "agent"
  ReadSigs,            \* read_file calls, all of one path
  NoSig,
  Replies,             \* what the provider may answer
  MaxTurns, MaxIds     \* bounds of the model

ASSUME LoopAssumption ==
  /\ MaxIterations \in Nat \ {0} /\ MaxTurns \in Nat /\ MaxIds \in Nat
  /\ NumFallbacks \in Nat /\ MaxUpgrades \in Nat
  /\ MaxCompactFailures \in Nat \ {0} /\ MinContinuations \in Nat
  /\ KeepCollapse \in Nat /\ KeepAuto \in Nat /\ KeepTrim \in Nat
  /\ RetryOnDenial \in BOOLEAN /\ EmptyCompileRetry \in BOOLEAN
  /\ MalformedRetry \in BOOLEAN /\ RemindAfterEachCall \in BOOLEAN
  /\ AutoCompact \in BOOLEAN
  /\ AgentSigs \subseteq Sigs /\ ReadSigs \subseteq Sigs \ AgentSigs
  /\ NoSig \notin Sigs

VARIABLES
  pc,        \* where the generator is suspended
  session,   \* self.session.messages
  nextId,    \* ids handed to tool calls so far, plus one
  turns,     \* turns started
  rt,        \* the counters and flags of the runtime, which outlive a turn
  t,         \* the locals of the current turn
  resp,      \* the reply being processed
  shown,     \* the user has been shown text in this turn
  outcome,   \* how the last turn ended
  strikes,   \* history: errors since this model last answered or was chosen
  excused    \* history: calls whose batch was aborted, interrupted or cut

vars == <<pc, session, nextId, turns, rt, t, resp, shown, outcome, strikes, excused>>
-----------------------------------------------------------------------------
Models == 0..NumFallbacks
Texts == {"none", "thinking", "answer", "denial", "malformed"}
Visible == {"answer", "denial"}
Stops == {"end", "length", "lost"}   \* "lost": the stream had no stop event
NoReply == [text |-> "none", calls |-> <<>>, stop |-> "none"]
Call == [id : Nat, sig : Sigs]

ASSUME RepliesAssumption ==
  Replies \subseteq [text : Texts, calls : Seq(Sigs), stop : Stops]

Said(role) == [role |-> role, text |-> TRUE, uses |-> {}, results |-> {}]
Note == Said("user")
Results(ids) == [role |-> "user", text |-> FALSE, uses |-> {}, results |-> ids]
Ids(calls) == {c.id : c \in calls}

(* Tool calls and results anywhere in a history. *)
UsesIn(s) == UNION {s[i].uses : i \in DOMAIN s}
ResultsIn(s) == UNION {s[i].results : i \in DOMAIN s}

(* ContextCompressor: drop the blocks of the ids in gone, and the messages
   left with no block. *)
Kept(m, gone) ==
  [m EXCEPT !.uses = {c \in @ : c.id \notin gone}, !.results = @ \ gone]
Blocks(m) == m.text \/ m.uses # {} \/ m.results # {}
Drop(s, gone) ==
  LET f[i \in 0..Len(s)] ==
        IF i = 0 THEN <<>>
        ELSE IF Blocks(Kept(s[i], gone)) THEN Append(f[i - 1], Kept(s[i], gone))
        ELSE f[i - 1]
  IN  f[Len(s)]

EnsurePairIntegrity_OneWay(s) ==   \* mutant: results of dropped calls stay
  Drop(s, Ids(UsesIn(s)) \ ResultsIn(s))

EnsurePairIntegrity(s) ==
  LET uses == Ids(UsesIn(s))
      results == ResultsIn(s)
  IN  Drop(s, (uses \ results) \cup (results \ uses))

(* Every read of the one file but the latest. *)
StaleReads(s) ==
  LET reads == {c.id : c \in {d \in UsesIn(s) : d.sig \in ReadSigs}}
  IN  {i \in reads : \E j \in reads : i < j}

KeepRecent(s, k) ==
  IF Len(s) <= k THEN s ELSE <<Note>> \o SubSeq(s, Len(s) - k + 1, Len(s))

(* compress stops at the first level that meets the target. *)
Compressions(s) ==
  LET micro == Drop(s, StaleReads(s))
      collapsed == KeepRecent(micro, KeepCollapse)
  IN  {EnsurePairIntegrity(x) :
         x \in {s, micro, collapsed, KeepRecent(collapsed, KeepAuto)}}

(* Below the target compress returns the session as it is. *)
MaybeCompressed(s) == {s} \cup Compressions(s)
-----------------------------------------------------------------------------
FreshTurn ==
  [iteration |-> 0, attempted |-> FALSE, upgrades |-> 0, toolCalled |-> FALSE,
   lastSig |-> NoSig, continuations |-> 0,
   denials |-> 0, empties |-> 0, malformed |-> 0]

Init ==
  /\ pc = "idle" /\ session = <<>> /\ nextId = 1 /\ turns = 0
  /\ rt = [active |-> 0, failures |-> 0, compactFailures |-> 0,
           inFlight |-> FALSE, empty |-> 0]
  /\ t = FreshTurn /\ resp = NoReply
  /\ shown = FALSE /\ outcome = "none" /\ strikes = 0 /\ excused = {}

StartTurn ==
  /\ pc = "idle" /\ turns < MaxTurns
  /\ turns' = turns + 1
  /\ session' = Append(session, Note)
  /\ shown' = FALSE /\ outcome' = "none"
  /\ pc' = "top"
  /\ UNCHANGED <<nextId, rt, t, resp, strikes, excused>>

SwitchModel_KeepsCount ==   \* mutant: the failures of the old model count on
  /\ pc = "idle"
  /\ \E m \in Models : rt' = [rt EXCEPT !.active = m]
  /\ strikes' = 0
  /\ UNCHANGED <<pc, session, nextId, turns, t, resp, shown, outcome, excused>>

(* switch_model, from the command line of the view. *)
SwitchModel ==
  /\ pc = "idle"
  /\ \E m \in Models :
       rt' = [rt EXCEPT !.active = m, !.failures = 0]
  /\ strikes' = 0
  /\ UNCHANGED <<pc, session, nextId, turns, t, resp, shown, outcome, excused>>

(* The generator ends, and its locals with it: an exception, a return, or the
   consumer closing it. *)
Finish(how) ==
  /\ pc' = "idle" /\ outcome' = how /\ resp' = NoReply /\ t' = FreshTurn

Raise == Finish("raised")

(* Top of the loop: tick, proactive compaction, cost budget. *)
BeginIteration ==
  /\ pc = "top" /\ t.iteration < MaxIterations
  /\ session' \in {session} \cup Compressions(session)
  /\ \/ /\ t' = [t EXCEPT !.iteration = @ + 1]
        /\ pc' = "request" /\ UNCHANGED <<resp, shown, outcome>>
     \/ Finish("budget") /\ shown' = TRUE
  /\ UNCHANGED <<nextId, turns, rt, strikes, excused>>

IterationsSpent ==
  /\ pc = "top" /\ t.iteration = MaxIterations
  /\ pc' = "epilogue"
  /\ UNCHANGED <<session, nextId, turns, rt, t, resp, shown, outcome, strikes, excused>>
-----------------------------------------------------------------------------
(* The request.  Every error branch of stream_message, in the code's order. *)
StreamOpens ==
  /\ pc = "request"
  /\ pc' = "streaming"
  /\ UNCHANGED <<session, nextId, turns, rt, t, resp, shown, outcome, strikes, excused>>

(* No native tool calling: one more request, in XML tag mode. *)
NativeToolsRejected ==
  /\ pc = "request"
  /\ \/ pc' = "streaming" /\ UNCHANGED <<resp, t, outcome>>
     \/ Raise
  /\ UNCHANGED <<session, nextId, turns, rt, shown, strikes, excused>>

NonRetryable ==
  /\ pc = "request"
  /\ Raise
  /\ UNCHANGED <<session, nextId, turns, rt, shown, strikes, excused>>

ReactiveCompaction_FreeRetry ==   \* mutant: the retry gives its iteration back
  /\ pc = "request"
  /\ ~t.attempted /\ rt.compactFailures < MaxCompactFailures
  /\ t' = [t EXCEPT !.attempted = TRUE, !.iteration = @ - 1]
  /\ rt' = [rt EXCEPT !.compactFailures = @ + 1]
  /\ session' \in MaybeCompressed(session)
  /\ pc' = "top"
  /\ UNCHANGED <<nextId, turns, resp, shown, outcome, strikes, excused>>

ReactiveCompaction ==
  /\ pc = "request"
  /\ ~t.attempted /\ rt.compactFailures < MaxCompactFailures
  /\ t' = [t EXCEPT !.attempted = TRUE]
  /\ rt' = [rt EXCEPT !.compactFailures = @ + 1]
  /\ session' \in MaybeCompressed(session)
  /\ pc' = "top"
  /\ UNCHANGED <<nextId, turns, resp, shown, outcome, strikes, excused>>

CompactionBreakerOpen ==
  /\ pc = "request"
  /\ rt.compactFailures >= MaxCompactFailures
  /\ Raise
  /\ UNCHANGED <<session, nextId, turns, rt, shown, strikes, excused>>

(* Any other error, and a "prompt too long" the two branches above let by:
   retry, walk one step down the FallbackChain, or give up. *)
HasNext(m) == m < NumFallbacks

ProviderError ==
  /\ pc = "request"
  /\ LET n == rt.failures + 1 IN
     \/ /\ HasNext(rt.active) /\ n < 3
        /\ rt' = [rt EXCEPT !.failures = n]
        /\ strikes' = strikes + 1
        /\ pc' = "top" /\ UNCHANGED <<resp, t, outcome>>
     \/ /\ HasNext(rt.active) /\ n >= 3
        /\ rt' = [rt EXCEPT !.failures = 0, !.active = @ + 1]
        /\ strikes' = 0
        /\ pc' = "top" /\ UNCHANGED <<resp, t, outcome>>
     \/ /\ ~HasNext(rt.active)
        /\ rt' = [rt EXCEPT !.failures = n]
        /\ strikes' = strikes + 1
        /\ Raise
  /\ UNCHANGED <<session, nextId, turns, shown, excused>>
-----------------------------------------------------------------------------
Buffering == RetryOnDenial \/ MalformedRetry

(* The stream is consumed; text is shown as it comes unless it is held. *)
StreamEnds ==
  /\ pc = "streaming"
  /\ \E r \in Replies :
       /\ nextId + Len(r.calls) <= MaxIds + 1
       /\ resp' = r
       /\ shown' = (shown \/ (r.text \in Visible /\ ~Buffering))
       /\ \/ /\ pc' = "measure"
             /\ rt' = [rt EXCEPT !.failures = 0, !.compactFailures = 0]
          \/ /\ AutoCompact /\ ~rt.inFlight /\ r.stop # "lost"
             /\ pc' = "compacting"
             /\ rt' = [rt EXCEPT !.failures = 0, !.compactFailures = 0,
                                 !.inFlight = TRUE]
  /\ strikes' = 0
  /\ UNCHANGED <<session, nextId, turns, t, outcome, excused>>

StreamFails ==
  /\ pc = "streaming"
  /\ Raise
  /\ UNCHANGED <<session, nextId, turns, rt, shown, strikes, excused>>

CompactMessages_LeaksGuard ==   \* mutant: the flag is only reset on success
  /\ pc = "compacting"
  /\ session' \in {session, KeepRecent(session, KeepTrim)}
  /\ excused' = excused \cup (ResultsIn(session') \ Ids(UsesIn(session')))
  /\ rt' = [rt EXCEPT !.inFlight = (session' = session)]
  /\ pc' = "measure"
  /\ UNCHANGED <<nextId, turns, t, resp, shown, outcome, strikes>>

(* Auto compaction, resumed after its StreamCompactionStart event: keep the
   tail and a summary, or fail and leave the session alone. *)
CompactMessages ==
  /\ pc = "compacting"
  /\ session' \in {session, KeepRecent(session, KeepTrim)}
  /\ excused' = excused \cup (ResultsIn(session') \ Ids(UsesIn(session')))
  /\ rt' = [rt EXCEPT !.inFlight = FALSE]
  /\ pc' = "measure"
  /\ UNCHANGED <<nextId, turns, t, resp, shown, outcome, strikes>>

(* Compaction on the provider's own token count, which needs a stop event. *)
Measured ==
  IF resp.stop = "lost" THEN {session} ELSE MaybeCompressed(session)

UpgradeTokens ==
  /\ pc = "measure"
  /\ resp.stop = "length" /\ t.upgrades < MaxUpgrades
  /\ session' \in Measured
  /\ t' = [t EXCEPT !.upgrades = @ + 1]
  /\ resp' = NoReply /\ pc' = "top"
  /\ UNCHANGED <<nextId, turns, rt, shown, outcome, strikes, excused>>

(* The calls of a reply, with their fresh ids. *)
CallsOf(r, base) == {[id |-> base + i - 1, sig |-> r.calls[i]] : i \in DOMAIN r.calls}
Reply(r, base) ==
  [role |-> "assistant", text |-> r.text # "none", uses |-> CallsOf(r, base),
   results |-> {}]
Accepted == pc = "measure" /\ ~(resp.stop = "length" /\ t.upgrades < MaxUpgrades)

RecordCalls ==
  /\ Accepted /\ resp.calls # <<>>
  /\ \E s \in Measured : session' = Append(s, Reply(resp, nextId))
  /\ nextId' = nextId + Len(resp.calls)
  /\ rt' = [rt EXCEPT !.empty = 0]
  /\ t' = [t EXCEPT !.continuations = 0]
  /\ pc' = "dispatch"
  /\ UNCHANGED <<turns, resp, shown, outcome, strikes, excused>>
-----------------------------------------------------------------------------
(* A reply without calls: count it if it is empty, then stop or try again. *)
Empty == resp.text = "none"
EmptyCount == IF Empty THEN rt.empty + 1 ELSE 0

Recorded(s) ==
  IF ~Empty THEN Append(s, Reply(resp, nextId))
  ELSE IF EmptyCount >= 2 THEN Append(s, Note) ELSE s

ThirdEmptyReply ==
  /\ Accepted /\ resp.calls = <<>> /\ EmptyCount >= 3
  /\ session' \in Measured
  /\ rt' = [rt EXCEPT !.empty = EmptyCount]
  /\ Raise
  /\ UNCHANGED <<nextId, turns, shown, strikes, excused>>

WantsDenialRetry_NoCap ==   \* mutant: the cap of one retry is not checked
  RetryOnDenial /\ t.toolCalled /\ resp.text = "denial"

WantsDenialRetry ==
  RetryOnDenial /\ t.toolCalled /\ t.denials < 1 /\ resp.text = "denial"
WantsEmptyRetry ==
  /\ EmptyCompileRetry /\ t.iteration > 1 /\ t.toolCalled /\ t.empties < 1
  /\ Empty /\ resp.stop = "end"
WantsMalformedRetry ==
  /\ MalformedRetry /\ t.iteration = 1 /\ t.malformed < 1
  /\ resp.text = "malformed" /\ resp.stop = "end"

(* Diminishing returns are only measured on a reply with a stop event. *)
Continuations == t.continuations + (IF resp.stop = "lost" THEN 0 ELSE 1)

Plain ==
  /\ Accepted /\ resp.calls = <<>> /\ EmptyCount < 3
  /\ rt' = [rt EXCEPT !.empty = EmptyCount]
  /\ UNCHANGED <<nextId, turns, outcome, strikes, excused>>

DiminishingReturns ==
  /\ Plain
  /\ resp.stop # "lost" /\ Continuations >= MinContinuations
  /\ \E s \in Measured : session' = Recorded(s)
  /\ t' = [t EXCEPT !.continuations = Continuations]
  /\ shown' = TRUE /\ resp' = NoReply /\ pc' = "epilogue"

RetryReply ==
  /\ Plain
  /\ LET t1 == [t EXCEPT !.continuations = Continuations] IN
     \/ WantsDenialRetry /\ t' = [t1 EXCEPT !.denials = @ + 1]
     \/ WantsEmptyRetry /\ t' = [t1 EXCEPT !.empties = @ + 1]
     \/ WantsMalformedRetry /\ t' = [t1 EXCEPT !.malformed = @ + 1]
  /\ \E s \in Measured : session' = Append(Recorded(s), Note)
  /\ resp' = NoReply /\ pc' = "top"
  /\ UNCHANGED shown

(* The turn's answer; held text is flushed here. *)
EndTurn ==
  /\ Plain
  /\ ~(WantsDenialRetry \/ WantsEmptyRetry \/ WantsMalformedRetry)
  /\ \E s \in Measured : session' = Recorded(s)
  /\ t' = [t EXCEPT !.continuations = Continuations]
  /\ shown' = (shown \/ resp.text \in Visible)
  /\ pc' = "epilogue"
  /\ UNCHANGED resp
-----------------------------------------------------------------------------
(* RecentToolCallTracker: the call before the i-th, agents not counted. *)
Tracked(i) == resp.calls[i] \notin AgentSigs
Previous(i) ==
  LET before == {j \in 1..(i - 1) : Tracked(j)} IN
  IF before = {} THEN t.lastSig
  ELSE resp.calls[CHOOSE j \in before : \A k \in before : k <= j]
Repeats == {i \in DOMAIN resp.calls : Tracked(i) /\ resp.calls[i] = Previous(i)}

(* The batch stops at the first repeat; agent calls run all the same. *)
Dispatched ==
  {i \in DOMAIN resp.calls : ~Tracked(i) \/ \A j \in Repeats : i < j}
LastSig ==
  LET seen == {i \in Dispatched : Tracked(i)} IN
  IF seen = {} THEN t.lastSig
  ELSE resp.calls[CHOOSE i \in seen : \A k \in seen : k <= i]

Base == nextId - Len(resp.calls)
ResultIds == {Base + i - 1 : i \in Dispatched}
Reminders == IF RemindAfterEachCall THEN [i \in 1..Cardinality(ResultIds) |-> Note] ELSE <<>>
AfterResults ==
  IF ResultIds = {} THEN {session}
  ELSE LET s == Append(session, Results(ResultIds)) \o Reminders
       IN  {s} \cup Compressions(s)

(* Tools have run and each dispatched call has its result block. *)
RecordResults ==
  /\ pc = "dispatch" /\ Repeats = {}
  /\ session' \in AfterResults
  /\ t' = [t EXCEPT !.toolCalled = @ \/ ResultIds # {}, !.lastSig = LastSig]
  /\ resp' = NoReply /\ pc' = "top"
  /\ UNCHANGED <<nextId, turns, rt, shown, outcome, strikes, excused>>

(* A repeated call ends the turn; the results are appended a second time. *)
RetryLoopAbort ==
  /\ pc = "dispatch" /\ Repeats # {}
  /\ \E s \in AfterResults :
       session' = IF ResultIds = {} THEN s ELSE Append(s, Results(ResultIds))
  /\ t' = [t EXCEPT !.toolCalled = @ \/ ResultIds # {}, !.lastSig = LastSig]
  /\ excused' = excused \cup Ids(CallsOf(resp, Base))
  /\ shown' = TRUE /\ resp' = NoReply /\ pc' = "epilogue"
  /\ UNCHANGED <<nextId, turns, rt, outcome, strikes>>

BudgetExceeded_OffByOne == t.iteration > MaxIterations   \* mutant

(* IterationBudget.exceeded counts the iteration that ended the turn too. *)
BudgetExceeded == t.iteration >= MaxIterations

Epilogue ==
  /\ pc = "epilogue"
  /\ shown' = (shown \/ BudgetExceeded)
  /\ Finish("ended")
  /\ UNCHANGED <<session, nextId, turns, rt, strikes, excused>>

(* The consumer abandons the generator, or its task is cancelled, at a
   suspension point: nothing after that point runs. *)
Interrupted ==
  /\ pc \in {"request", "streaming", "compacting", "dispatch", "epilogue"}
  /\ excused' = IF pc = "dispatch" THEN excused \cup Ids(CallsOf(resp, Base))
                ELSE excused
  /\ Finish("interrupted")
  /\ UNCHANGED <<session, nextId, turns, rt, shown, strikes>>
-----------------------------------------------------------------------------
Step ==
  \/ BeginIteration \/ IterationsSpent
  \/ StreamOpens \/ NativeToolsRejected \/ NonRetryable \/ ReactiveCompaction
  \/ CompactionBreakerOpen \/ ProviderError
  \/ StreamEnds \/ StreamFails \/ CompactMessages \/ UpgradeTokens
  \/ RecordCalls \/ ThirdEmptyReply \/ DiminishingReturns \/ RetryReply \/ EndTurn
  \/ RecordResults \/ RetryLoopAbort \/ Epilogue

Next == StartTurn \/ SwitchModel \/ Interrupted \/ Step

Spec == Init /\ [][Next]_vars
-----------------------------------------------------------------------------
Message == [role : {"user", "assistant"}, text : BOOLEAN, uses : SUBSET Call,
            results : SUBSET Nat]

Runtime ==
  [active : Models, failures : Nat, compactFailures : 0..MaxCompactFailures,
   inFlight : BOOLEAN, empty : Nat]
Locals ==
  [iteration : 0..MaxIterations, attempted : BOOLEAN, upgrades : 0..MaxUpgrades,
   toolCalled : BOOLEAN, lastSig : Sigs \cup {NoSig}, continuations : Nat,
   denials : 0..1, empties : 0..1, malformed : 0..1]

ControlOK ==
  /\ pc \in {"idle", "top", "request", "streaming", "compacting", "measure",
             "dispatch", "epilogue"}
  /\ outcome \in {"none", "raised", "budget", "ended", "interrupted"}
  /\ shown \in BOOLEAN
  /\ nextId \in Nat /\ turns \in 0..MaxTurns /\ strikes \in Nat

CountersOK ==
  /\ rt \in Runtime /\ t \in Locals
  /\ resp \in Replies \cup {NoReply}

(* Each variable has its type; every recovery of a turn stays within its cap
   (one reactive compaction breaker of MaxCompactFailures, one retry each for
   a denial, an empty and a malformed reply, MaxIterations requests). *)
TypeOK ==
  ControlOK /\ CountersOK /\ session \in Seq(Message) /\ excused \subseteq Nat

(* Whenever a request goes out, the history it carries pairs tool calls with
   results the way providers require: a call is answered once, by the message
   right after its own, and a result follows its call.  Through compactions,
   upgrades of max_tokens, retries and fallbacks; the batches that the retry
   tracker aborted, the consumer interrupted or compact_session cut are the
   only exceptions. *)
PairedHistory ==
  pc = "request" =>
    \A i \in DOMAIN session :
      /\ \A id \in Ids(session[i].uses) \ excused :
           {j \in DOMAIN session : id \in session[j].results} = {i + 1}
      /\ \A id \in session[i].results \ excused :
           i > 1 /\ id \in Ids(session[i - 1].uses)

(* A turn that ends without an exception and has shown no text ended on a
   reply that had none to show, with iterations to spare: retries that eat up
   the iterations, aborted batches and spent budgets are all reported. *)
NeverSilent ==
  [][outcome' = "ended" /\ pc # "idle" /\ ~shown' =>
       /\ resp # NoReply /\ resp.text \notin Visible /\ resp.calls = <<>>
       /\ t.iteration < MaxIterations]_vars

(* A model is given up for the next of the chain only after three requests to
   it failed with no reply in between, whatever turns they belong to; then the
   chain is walked forward by one.  The user may pick a model between turns. *)
ThreeStrikes ==
  [][rt'.active # rt.active =>
       \/ pc = "idle"
       \/ strikes = 2 /\ rt'.active = rt.active + 1]_vars

(* The guard against overlapping auto-compactions is released on every way out
   of a compaction but one: a consumer that abandons the turn at the
   StreamCompactionStart event leaves it set for the rest of the session. *)
GuardReleased ==
  [][rt'.inFlight /\ pc' # "compacting" =>
       rt.inFlight /\ (pc = "compacting" => outcome' = "interrupted")]_vars

(* Every turn comes to an end: each step of it, whichever branch it takes and
   however often the loop says "retry this iteration", leaves fewer to take. *)
Rank == [idle |-> 0, epilogue |-> 1, top |-> 2, dispatch |-> 3, measure |-> 4,
         compacting |-> 5, streaming |-> 6, request |-> 7]
StepsLeft ==
  IF pc = "idle" THEN 0 ELSE 8 * (MaxIterations - t.iteration) + Rank[pc]
TurnEnds == [][pc # "idle" => StepsLeft' < StepsLeft]_vars
=============================================================================
