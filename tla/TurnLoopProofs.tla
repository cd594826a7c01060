--------------------------- MODULE TurnLoopProofs ---------------------------
(***************************************************************************)
(* The turn loop, for every chain of models, every number of iterations    *)
(* and every set of replies.  First the control: the caps, the counters    *)
(* that outlive a turn, what the user is told and that a turn ends.  Then  *)
(* the history: what the compressor drops, what a cut may part, and that   *)
(* calls and results stay in pairs.                                        *)
(***************************************************************************)
EXTENDS TurnLoop, SequenceTheorems, FiniteSetTheorems, WellFoundedInduction, TLAPS

(* The failure counter of the runtime counts exactly the strikes against the
   active model, and a model that has a successor never collects three. *)
StrikesInv ==
  /\ strikes = rt.failures
  /\ HasNext(rt.active) => rt.failures < 3

(* Why the epilogue was reached: the user has seen text, or will be told that
   the iterations are spent, or the last reply had nothing to show. *)
EpilogueInv ==
  /\ pc # "idle" => outcome = "none"
  /\ pc \in {"compacting", "measure"} => resp # NoReply
  /\ pc = "epilogue" =>
       \/ shown
       \/ t.iteration = MaxIterations
       \/ resp # NoReply /\ resp.text \notin Visible /\ resp.calls = <<>>

Control == ControlOK /\ CountersOK /\ StrikesInv /\ EpilogueInv
-----------------------------------------------------------------------------
LEMMA FreshTurnType == FreshTurn \in Locals
  BY LoopAssumption DEF FreshTurn, Locals

LEMMA ReplyIsNotNoReply == \A r \in Replies : r # NoReply
  BY RepliesAssumption DEF NoReply, Stops

LEMMA InitControl == Init => Control
<1> SUFFICES ASSUME Init PROVE Control
  OBVIOUS
<1>1. ControlOK
  <2>1. nextId \in Nat /\ strikes \in Nat
    BY DEF Init
  <2>2. turns \in 0..MaxTurns
    BY LoopAssumption DEF Init
  <2>3. shown \in BOOLEAN
    BY DEF Init
  <2> QED
    BY <2>1, <2>2, <2>3 DEF Init, ControlOK
<1>2. rt \in Runtime
  BY LoopAssumption DEF Init, Models, Runtime
<1>3. CountersOK
  BY <1>2, FreshTurnType DEF Init, CountersOK
<1>4. StrikesInv /\ EpilogueInv
  BY DEF Init, StrikesInv, EpilogueInv, HasNext
<1> QED
  BY <1>1, <1>3, <1>4 DEF Control

LEMMA EmptyCountType == ASSUME CountersOK PROVE EmptyCount \in Nat
  BY DEF CountersOK, Runtime, EmptyCount

LEMMA ContinuationsType == ASSUME CountersOK PROVE Continuations \in Nat
  BY DEF CountersOK, Locals, Continuations

(* The latest tracked call of a batch exists, so its signature is one. *)
LEMMA LatestExists ==
  ASSUME NEW n \in Nat, NEW S, S \subseteq 1..n, S # {}
  PROVE  \E x \in S : \A k \in S : k <= x
<1> DEFINE R == {p \in Nat \X Nat : p[1] < p[2]}
           T == {n - x : x \in S}
<1>1. IsWellFoundedOn(R, Nat)
  BY NatLessThanWellFounded DEF OpToRel
<1>0. \A x \in S : x \in Int /\ n - x \in Nat
  OBVIOUS
<1>2. T \subseteq Nat /\ T # {}
  BY <1>0
<1> HIDE DEF T, R
<1>3. PICK d \in T : \A y \in T : ~(<<y, d>> \in R)
  BY <1>1, <1>2, WFMin
<1>4. \A y \in T : d <= y
  <2> TAKE y \in T
  <2>1. d \in Nat /\ y \in Nat /\ ~(<<y, d>> \in R)
    BY <1>2, <1>3
  <2> QED
    BY <2>1 DEF R
<1>5. PICK x \in S : d = n - x
  BY <1>3 DEF T
<1>6. \A k \in S : k <= x
  <2> TAKE k \in S
  <2>1. n - x <= n - k
    BY <1>4, <1>5 DEF T
  <2> QED
    BY <1>0, <2>1
<1> QED
  BY <1>6

LEMMA LastSigType ==
  ASSUME CountersOK PROVE LastSig \in Sigs \cup {NoSig}
<1> DEFINE seen == {i \in Dispatched : Tracked(i)}
<1>1. CASE seen = {}
  BY <1>1 DEF LastSig, CountersOK, Locals
<1>2. CASE seen # {}
  <2> DEFINE last == CHOOSE x \in seen : \A k \in seen : k <= x
  <2>1. resp.calls \in Seq(Sigs)
    <3>1. CASE resp \in Replies
      BY <3>1, RepliesAssumption
    <3>2. CASE resp = NoReply
      BY <3>2 DEF NoReply
    <3> QED
      BY <3>1, <3>2 DEF CountersOK
  <2>2. seen \subseteq 1..Len(resp.calls) /\ Len(resp.calls) \in Nat
    BY <2>1 DEF Dispatched
  <2>3. \E x \in seen : \A k \in seen : k <= x
    BY <1>2, <2>2, LatestExists
  <2>4. last \in seen
    BY <2>3
  <2> QED
    BY <1>2, <2>1, <2>2, <2>4 DEF LastSig
<1> QED
  BY <1>1, <1>2

-----------------------------------------------------------------------------
LEMMA NextControlOK ==
  ASSUME Control, [Next]_vars
  PROVE  ControlOK'
<1> USE DEF Control
<1>1. CASE StartTurn
  <2>1. turns' \in 0..MaxTurns
    BY <1>1, LoopAssumption DEF StartTurn, ControlOK
  <2> QED
    BY <1>1, <2>1 DEF StartTurn, ControlOK
<1>2. CASE SwitchModel
  BY <1>2, LoopAssumption, RepliesAssumption DEF SwitchModel, ControlOK, CountersOK, Raise, Finish, Plain
<1>3. CASE BeginIteration
  BY <1>3, LoopAssumption, RepliesAssumption DEF BeginIteration, ControlOK, CountersOK, Raise, Finish, Plain
<1>4. CASE IterationsSpent
  BY <1>4, LoopAssumption, RepliesAssumption DEF IterationsSpent, ControlOK, CountersOK, Raise, Finish, Plain
<1>5. CASE StreamOpens
  BY <1>5, LoopAssumption, RepliesAssumption DEF StreamOpens, ControlOK, CountersOK, Raise, Finish, Plain
<1>6. CASE NativeToolsRejected
  BY <1>6, LoopAssumption, RepliesAssumption DEF NativeToolsRejected, ControlOK, CountersOK, Raise, Finish, Plain
<1>7. CASE NonRetryable
  BY <1>7, LoopAssumption, RepliesAssumption DEF NonRetryable, ControlOK, CountersOK, Raise, Finish, Plain
<1>8. CASE ReactiveCompaction
  BY <1>8, LoopAssumption, RepliesAssumption DEF ReactiveCompaction, ControlOK, CountersOK, Raise, Finish, Plain
<1>9. CASE CompactionBreakerOpen
  BY <1>9, LoopAssumption, RepliesAssumption DEF CompactionBreakerOpen, ControlOK, CountersOK, Raise, Finish, Plain
<1>10. CASE ProviderError
  BY <1>10, LoopAssumption, RepliesAssumption DEF ProviderError, ControlOK, CountersOK, Raise, Finish, Plain
<1>11. CASE StreamEnds
  BY <1>11, LoopAssumption, RepliesAssumption DEF StreamEnds, ControlOK, CountersOK, Raise, Finish, Plain
<1>12. CASE StreamFails
  BY <1>12, LoopAssumption, RepliesAssumption DEF StreamFails, ControlOK, CountersOK, Raise, Finish, Plain
<1>13. CASE CompactMessages
  BY <1>13, LoopAssumption, RepliesAssumption DEF CompactMessages, ControlOK, CountersOK, Raise, Finish, Plain
<1>14. CASE UpgradeTokens
  BY <1>14, LoopAssumption, RepliesAssumption DEF UpgradeTokens, ControlOK, CountersOK, Raise, Finish, Plain
<1>15. CASE RecordCalls
  BY <1>15, LoopAssumption, RepliesAssumption DEF RecordCalls, ControlOK, CountersOK, Raise, Finish, Plain
<1>16. CASE ThirdEmptyReply
  BY <1>16, LoopAssumption, RepliesAssumption DEF ThirdEmptyReply, ControlOK, CountersOK, Raise, Finish, Plain
<1>17. CASE DiminishingReturns
  BY <1>17, LoopAssumption, RepliesAssumption DEF DiminishingReturns, ControlOK, CountersOK, Raise, Finish, Plain
<1>18. CASE RetryReply
  BY <1>18, LoopAssumption, RepliesAssumption DEF RetryReply, ControlOK, CountersOK, Raise, Finish, Plain
<1>19. CASE EndTurn
  BY <1>19, LoopAssumption, RepliesAssumption DEF EndTurn, ControlOK, CountersOK, Raise, Finish, Plain
<1>20. CASE RecordResults
  BY <1>20, LoopAssumption, RepliesAssumption DEF RecordResults, ControlOK, CountersOK, Raise, Finish, Plain
<1>21. CASE RetryLoopAbort
  BY <1>21, LoopAssumption, RepliesAssumption DEF RetryLoopAbort, ControlOK, CountersOK, Raise, Finish, Plain
<1>22. CASE Epilogue
  BY <1>22, LoopAssumption, RepliesAssumption DEF Epilogue, ControlOK, CountersOK, Raise, Finish, Plain
<1>23. CASE Interrupted
  BY <1>23, LoopAssumption, RepliesAssumption DEF Interrupted, ControlOK, CountersOK, Raise, Finish, Plain
<1>24. CASE UNCHANGED vars
  BY <1>24 DEF vars, ControlOK
<1> QED
  BY <1>1, <1>2, <1>3, <1>4, <1>5, <1>6, <1>7, <1>8, <1>9, <1>10, <1>11, <1>12, <1>13, <1>14, <1>15, <1>16, <1>17, <1>18, <1>19, <1>20, <1>21, <1>22, <1>23, <1>24 DEF Next, Step

LEMMA NextRuntime ==
  ASSUME Control, [Next]_vars
  PROVE  (rt \in Runtime)'
<1> USE DEF Control
<1>1. CASE StartTurn
  BY <1>1, LoopAssumption DEF StartTurn, CountersOK, Runtime, Models, Plain
<1>2. CASE SwitchModel
  <2>1. PICK m \in Models : rt' = [rt EXCEPT !.active = m, !.failures = 0]
    BY <1>2 DEF SwitchModel
  <2> QED
    BY <2>1 DEF CountersOK, Runtime
<1>3. CASE BeginIteration
  BY <1>3, LoopAssumption DEF BeginIteration, CountersOK, Runtime, Models, Plain
<1>4. CASE IterationsSpent
  BY <1>4, LoopAssumption DEF IterationsSpent, CountersOK, Runtime, Models, Plain
<1>5. CASE StreamOpens
  BY <1>5, LoopAssumption DEF StreamOpens, CountersOK, Runtime, Models, Plain
<1>6. CASE NativeToolsRejected
  BY <1>6, LoopAssumption DEF NativeToolsRejected, CountersOK, Runtime, Models, Plain
<1>7. CASE NonRetryable
  BY <1>7, LoopAssumption DEF NonRetryable, CountersOK, Runtime, Models, Plain
<1>8. CASE ReactiveCompaction
  BY <1>8, LoopAssumption DEF ReactiveCompaction, CountersOK, Runtime, Models, Plain
<1>9. CASE CompactionBreakerOpen
  BY <1>9, LoopAssumption DEF CompactionBreakerOpen, CountersOK, Runtime, Models, Plain
<1>10. CASE ProviderError
  <2>1. rt.failures + 1 \in Nat /\ (HasNext(rt.active) => rt.active + 1 \in Models)
    BY LoopAssumption DEF CountersOK, Runtime, HasNext, Models
  <2>2. CASE rt' = [rt EXCEPT !.failures = rt.failures + 1]
    BY <2>1, <2>2 DEF CountersOK, Runtime
  <2>3. CASE HasNext(rt.active) /\ rt' = [rt EXCEPT !.failures = 0, !.active = @ + 1]
    <3> DEFINE m == rt.active + 1
    <3>1. rt' = [rt EXCEPT !.failures = 0, !.active = m] /\ m \in Models
      BY <2>1, <2>3
    <3> HIDE DEF m
    <3> QED
      BY <3>1 DEF CountersOK, Runtime
  <2> QED
    BY <1>10, <2>2, <2>3 DEF ProviderError
<1>11. CASE StreamEnds
  <2>1. 0 \in 0..MaxCompactFailures
    BY LoopAssumption
  <2>2. CASE rt' = [rt EXCEPT !.failures = 0, !.compactFailures = 0]
    BY <2>1, <2>2 DEF CountersOK, Runtime
  <2>3. CASE rt' = [rt EXCEPT !.failures = 0, !.compactFailures = 0, !.inFlight = TRUE]
    BY <2>1, <2>3 DEF CountersOK, Runtime
  <2> QED
    BY <1>11, <2>2, <2>3 DEF StreamEnds
<1>12. CASE StreamFails
  BY <1>12, LoopAssumption DEF StreamFails, CountersOK, Runtime, Models, Plain
<1>13. CASE CompactMessages
  BY <1>13, LoopAssumption DEF CompactMessages, CountersOK, Runtime, Models, Plain
<1>14. CASE UpgradeTokens
  BY <1>14, LoopAssumption DEF UpgradeTokens, CountersOK, Runtime, Models, Plain
<1>15. CASE RecordCalls
  BY <1>15, LoopAssumption DEF RecordCalls, CountersOK, Runtime, Models, Plain
<1>16. CASE ThirdEmptyReply
  BY <1>16, EmptyCountType DEF ThirdEmptyReply, Plain, CountersOK, Runtime
<1>17. CASE DiminishingReturns
  BY <1>17, EmptyCountType DEF DiminishingReturns, Plain, CountersOK, Runtime
<1>18. CASE RetryReply
  BY <1>18, EmptyCountType DEF RetryReply, Plain, CountersOK, Runtime
<1>19. CASE EndTurn
  BY <1>19, EmptyCountType DEF EndTurn, Plain, CountersOK, Runtime
<1>20. CASE RecordResults
  BY <1>20, LoopAssumption DEF RecordResults, CountersOK, Runtime, Models, Plain
<1>21. CASE RetryLoopAbort
  BY <1>21, LoopAssumption DEF RetryLoopAbort, CountersOK, Runtime, Models, Plain
<1>22. CASE Epilogue
  BY <1>22, LoopAssumption DEF Epilogue, CountersOK, Runtime, Models, Plain
<1>23. CASE Interrupted
  BY <1>23, LoopAssumption DEF Interrupted, CountersOK, Runtime, Models, Plain
<1>24. CASE UNCHANGED vars
  BY <1>24 DEF vars, CountersOK
<1> QED
  BY <1>1, <1>2, <1>3, <1>4, <1>5, <1>6, <1>7, <1>8, <1>9, <1>10, <1>11, <1>12, <1>13, <1>14, <1>15, <1>16, <1>17, <1>18, <1>19, <1>20, <1>21, <1>22, <1>23, <1>24 DEF Next, Step

LEMMA NextLocals ==
  ASSUME Control, [Next]_vars
  PROVE  (t \in Locals)'
<1> USE DEF Control
<1>1. CASE StartTurn
  BY <1>1, LoopAssumption, FreshTurnType DEF StartTurn, CountersOK, Locals, Raise, Finish, Plain
<1>2. CASE SwitchModel
  BY <1>2, LoopAssumption, FreshTurnType DEF SwitchModel, CountersOK, Locals, Raise, Finish, Plain
<1>3. CASE BeginIteration
  BY <1>3, LoopAssumption, FreshTurnType DEF BeginIteration, CountersOK, Locals, Raise, Finish, Plain
<1>4. CASE IterationsSpent
  BY <1>4, LoopAssumption, FreshTurnType DEF IterationsSpent, CountersOK, Locals, Raise, Finish, Plain
<1>5. CASE StreamOpens
  BY <1>5, LoopAssumption, FreshTurnType DEF StreamOpens, CountersOK, Locals, Raise, Finish, Plain
<1>6. CASE NativeToolsRejected
  BY <1>6, LoopAssumption, FreshTurnType DEF NativeToolsRejected, CountersOK, Locals, Raise, Finish, Plain
<1>7. CASE NonRetryable
  BY <1>7, LoopAssumption, FreshTurnType DEF NonRetryable, CountersOK, Locals, Raise, Finish, Plain
<1>8. CASE ReactiveCompaction
  BY <1>8, LoopAssumption, FreshTurnType DEF ReactiveCompaction, CountersOK, Locals, Raise, Finish, Plain
<1>9. CASE CompactionBreakerOpen
  BY <1>9, LoopAssumption, FreshTurnType DEF CompactionBreakerOpen, CountersOK, Locals, Raise, Finish, Plain
<1>10. CASE ProviderError
  BY <1>10, LoopAssumption, FreshTurnType DEF ProviderError, CountersOK, Locals, Raise, Finish, Plain
<1>11. CASE StreamEnds
  BY <1>11, LoopAssumption, FreshTurnType DEF StreamEnds, CountersOK, Locals, Raise, Finish, Plain
<1>12. CASE StreamFails
  BY <1>12, LoopAssumption, FreshTurnType DEF StreamFails, CountersOK, Locals, Raise, Finish, Plain
<1>13. CASE CompactMessages
  BY <1>13, LoopAssumption, FreshTurnType DEF CompactMessages, CountersOK, Locals, Raise, Finish, Plain
<1>14. CASE UpgradeTokens
  BY <1>14, LoopAssumption, FreshTurnType DEF UpgradeTokens, CountersOK, Locals, Raise, Finish, Plain
<1>15. CASE RecordCalls
  BY <1>15, LoopAssumption, FreshTurnType DEF RecordCalls, CountersOK, Locals, Raise, Finish, Plain
<1>16. CASE ThirdEmptyReply
  BY <1>16, LoopAssumption, FreshTurnType DEF ThirdEmptyReply, CountersOK, Locals, Raise, Finish, Plain
<1>17. CASE DiminishingReturns
  BY <1>17, ContinuationsType DEF DiminishingReturns, CountersOK, Locals
<1>18. CASE RetryReply
  <2> DEFINE t1 == [t EXCEPT !.continuations = Continuations]
  <2>1. t1 \in Locals /\ t1.denials = t.denials /\ t1.empties = t.empties
        /\ t1.malformed = t.malformed
    BY ContinuationsType DEF CountersOK, Locals
  <2> HIDE DEF t1
  <2>2. CASE WantsDenialRetry /\ t' = [t1 EXCEPT !.denials = @ + 1]
    <3>1. t1.denials + 1 \in 0..1
      BY <2>1, <2>2 DEF Locals, WantsDenialRetry, CountersOK
    <3> QED
      BY <2>1, <2>2, <3>1 DEF Locals
  <2>3. CASE WantsEmptyRetry /\ t' = [t1 EXCEPT !.empties = @ + 1]
    <3>1. t1.empties + 1 \in 0..1
      BY <2>1, <2>3 DEF Locals, WantsEmptyRetry, CountersOK
    <3> QED
      BY <2>1, <2>3, <3>1 DEF Locals
  <2>4. CASE WantsMalformedRetry /\ t' = [t1 EXCEPT !.malformed = @ + 1]
    <3>1. t1.malformed + 1 \in 0..1
      BY <2>1, <2>4 DEF Locals, WantsMalformedRetry, CountersOK
    <3> QED
      BY <2>1, <2>4, <3>1 DEF Locals
  <2> QED
    BY <1>18, <2>2, <2>3, <2>4 DEF RetryReply, t1
<1>19. CASE EndTurn
  BY <1>19, ContinuationsType DEF EndTurn, CountersOK, Locals
<1>20. CASE RecordResults
  <2>1. (t.toolCalled \/ ResultIds # {}) \in BOOLEAN
    OBVIOUS
  <2> QED
    BY <1>20, <2>1, LastSigType DEF RecordResults, CountersOK, Locals
<1>21. CASE RetryLoopAbort
  <2>1. (t.toolCalled \/ ResultIds # {}) \in BOOLEAN
    OBVIOUS
  <2> QED
    BY <1>21, <2>1, LastSigType DEF RetryLoopAbort, CountersOK, Locals
<1>22. CASE Epilogue
  BY <1>22, LoopAssumption, FreshTurnType DEF Epilogue, CountersOK, Locals, Raise, Finish, Plain
<1>23. CASE Interrupted
  BY <1>23, LoopAssumption, FreshTurnType DEF Interrupted, CountersOK, Locals, Raise, Finish, Plain
<1>24. CASE UNCHANGED vars
  BY <1>24 DEF vars, CountersOK
<1> QED
  BY <1>1, <1>2, <1>3, <1>4, <1>5, <1>6, <1>7, <1>8, <1>9, <1>10, <1>11, <1>12, <1>13, <1>14, <1>15, <1>16, <1>17, <1>18, <1>19, <1>20, <1>21, <1>22, <1>23, <1>24 DEF Next, Step

LEMMA NextStrikes ==
  ASSUME Control, [Next]_vars
  PROVE  StrikesInv'
<1> USE DEF Control
<1>1. CASE StartTurn
  BY <1>1 DEF StartTurn, StrikesInv, CountersOK, Runtime, HasNext, Models, Raise, Finish, Plain
<1>2. CASE SwitchModel
  BY <1>2 DEF SwitchModel, StrikesInv, CountersOK, Runtime, HasNext, Models, Raise, Finish, Plain
<1>3. CASE BeginIteration
  BY <1>3 DEF BeginIteration, StrikesInv, CountersOK, Runtime, HasNext, Models, Raise, Finish, Plain
<1>4. CASE IterationsSpent
  BY <1>4 DEF IterationsSpent, StrikesInv, CountersOK, Runtime, HasNext, Models, Raise, Finish, Plain
<1>5. CASE StreamOpens
  BY <1>5 DEF StreamOpens, StrikesInv, CountersOK, Runtime, HasNext, Models, Raise, Finish, Plain
<1>6. CASE NativeToolsRejected
  BY <1>6 DEF NativeToolsRejected, StrikesInv, CountersOK, Runtime, HasNext, Models, Raise, Finish, Plain
<1>7. CASE NonRetryable
  BY <1>7 DEF NonRetryable, StrikesInv, CountersOK, Runtime, HasNext, Models, Raise, Finish, Plain
<1>8. CASE ReactiveCompaction
  BY <1>8 DEF ReactiveCompaction, StrikesInv, CountersOK, Runtime, HasNext, Models, Raise, Finish, Plain
<1>9. CASE CompactionBreakerOpen
  BY <1>9 DEF CompactionBreakerOpen, StrikesInv, CountersOK, Runtime, HasNext, Models, Raise, Finish, Plain
<1>10. CASE ProviderError
  <2>1. rt.failures \in Nat /\ rt.active \in Nat
    BY DEF CountersOK, Runtime, Models
  <2>2. CASE HasNext(rt.active) /\ rt.failures + 1 < 3
    BY <1>10, <2>1, <2>2 DEF ProviderError, StrikesInv, CountersOK, Runtime, HasNext
  <2>3. CASE HasNext(rt.active) /\ rt.failures + 1 >= 3
    <3>1. strikes' = 0 /\ rt' = [rt EXCEPT !.failures = 0, !.active = @ + 1]
      BY <1>10, <2>1, <2>3 DEF ProviderError
    <3>2. rt'.failures = 0
      BY <3>1 DEF CountersOK, Runtime
    <3> QED
      BY <3>1, <3>2 DEF StrikesInv
  <2>4. CASE ~HasNext(rt.active)
    BY <1>10, <2>1, <2>4 DEF ProviderError, StrikesInv, CountersOK, Runtime, HasNext
  <2> QED
    BY <2>1, <2>2, <2>3, <2>4
<1>11. CASE StreamEnds
  <2>1. rt'.failures = 0 /\ strikes' = 0
    BY <1>11 DEF StreamEnds, CountersOK, Runtime
  <2> QED
    BY <2>1 DEF StrikesInv
<1>12. CASE StreamFails
  BY <1>12 DEF StreamFails, StrikesInv, CountersOK, Runtime, HasNext, Models, Raise, Finish, Plain
<1>13. CASE CompactMessages
  BY <1>13 DEF CompactMessages, StrikesInv, CountersOK, Runtime, HasNext, Models, Raise, Finish, Plain
<1>14. CASE UpgradeTokens
  BY <1>14 DEF UpgradeTokens, StrikesInv, CountersOK, Runtime, HasNext, Models, Raise, Finish, Plain
<1>15. CASE RecordCalls
  BY <1>15 DEF RecordCalls, StrikesInv, CountersOK, Runtime, HasNext, Models, Raise, Finish, Plain
<1>16. CASE ThirdEmptyReply
  BY <1>16 DEF ThirdEmptyReply, StrikesInv, CountersOK, Runtime, HasNext, Models, Raise, Finish, Plain
<1>17. CASE DiminishingReturns
  BY <1>17 DEF DiminishingReturns, StrikesInv, CountersOK, Runtime, HasNext, Models, Raise, Finish, Plain
<1>18. CASE RetryReply
  BY <1>18 DEF RetryReply, StrikesInv, CountersOK, Runtime, HasNext, Models, Raise, Finish, Plain
<1>19. CASE EndTurn
  BY <1>19 DEF EndTurn, StrikesInv, CountersOK, Runtime, HasNext, Models, Raise, Finish, Plain
<1>20. CASE RecordResults
  BY <1>20 DEF RecordResults, StrikesInv, CountersOK, Runtime, HasNext, Models, Raise, Finish, Plain
<1>21. CASE RetryLoopAbort
  BY <1>21 DEF RetryLoopAbort, StrikesInv, CountersOK, Runtime, HasNext, Models, Raise, Finish, Plain
<1>22. CASE Epilogue
  BY <1>22 DEF Epilogue, StrikesInv, CountersOK, Runtime, HasNext, Models, Raise, Finish, Plain
<1>23. CASE Interrupted
  BY <1>23 DEF Interrupted, StrikesInv, CountersOK, Runtime, HasNext, Models, Raise, Finish, Plain
<1>24. CASE UNCHANGED vars
  BY <1>24 DEF vars, StrikesInv
<1> QED
  BY <1>1, <1>2, <1>3, <1>4, <1>5, <1>6, <1>7, <1>8, <1>9, <1>10, <1>11, <1>12, <1>13, <1>14, <1>15, <1>16, <1>17, <1>18, <1>19, <1>20, <1>21, <1>22, <1>23, <1>24 DEF Next, Step

LEMMA NextEpilogue ==
  ASSUME Control, [Next]_vars
  PROVE  EpilogueInv'
<1> USE DEF Control
<1>1. CASE StartTurn
  BY <1>1, ReplyIsNotNoReply DEF StartTurn, EpilogueInv, CountersOK, Locals, ControlOK, Raise, Finish, Plain, Accepted
<1>2. CASE SwitchModel
  BY <1>2, ReplyIsNotNoReply DEF SwitchModel, EpilogueInv, CountersOK, Locals, ControlOK, Raise, Finish, Plain, Accepted
<1>3. CASE BeginIteration
  BY <1>3, ReplyIsNotNoReply DEF BeginIteration, EpilogueInv, CountersOK, Locals, ControlOK, Raise, Finish, Plain, Accepted
<1>4. CASE IterationsSpent
  BY <1>4, ReplyIsNotNoReply DEF IterationsSpent, EpilogueInv, CountersOK, Locals, ControlOK, Raise, Finish, Plain, Accepted
<1>5. CASE StreamOpens
  BY <1>5, ReplyIsNotNoReply DEF StreamOpens, EpilogueInv, CountersOK, Locals, ControlOK, Raise, Finish, Plain, Accepted
<1>6. CASE NativeToolsRejected
  BY <1>6, ReplyIsNotNoReply DEF NativeToolsRejected, EpilogueInv, CountersOK, Locals, ControlOK, Raise, Finish, Plain, Accepted
<1>7. CASE NonRetryable
  BY <1>7, ReplyIsNotNoReply DEF NonRetryable, EpilogueInv, CountersOK, Locals, ControlOK, Raise, Finish, Plain, Accepted
<1>8. CASE ReactiveCompaction
  BY <1>8, ReplyIsNotNoReply DEF ReactiveCompaction, EpilogueInv, CountersOK, Locals, ControlOK, Raise, Finish, Plain, Accepted
<1>9. CASE CompactionBreakerOpen
  BY <1>9, ReplyIsNotNoReply DEF CompactionBreakerOpen, EpilogueInv, CountersOK, Locals, ControlOK, Raise, Finish, Plain, Accepted
<1>10. CASE ProviderError
  BY <1>10, ReplyIsNotNoReply DEF ProviderError, EpilogueInv, CountersOK, Locals, ControlOK, Raise, Finish, Plain, Accepted
<1>11. CASE StreamEnds
  BY <1>11, ReplyIsNotNoReply DEF StreamEnds, EpilogueInv, CountersOK, Locals, ControlOK, Raise, Finish, Plain, Accepted
<1>12. CASE StreamFails
  BY <1>12, ReplyIsNotNoReply DEF StreamFails, EpilogueInv, CountersOK, Locals, ControlOK, Raise, Finish, Plain, Accepted
<1>13. CASE CompactMessages
  BY <1>13, ReplyIsNotNoReply DEF CompactMessages, EpilogueInv, CountersOK, Locals, ControlOK, Raise, Finish, Plain, Accepted
<1>14. CASE UpgradeTokens
  BY <1>14, ReplyIsNotNoReply DEF UpgradeTokens, EpilogueInv, CountersOK, Locals, ControlOK, Raise, Finish, Plain, Accepted
<1>15. CASE RecordCalls
  BY <1>15, ReplyIsNotNoReply DEF RecordCalls, EpilogueInv, CountersOK, Locals, ControlOK, Raise, Finish, Plain, Accepted
<1>16. CASE ThirdEmptyReply
  BY <1>16, ReplyIsNotNoReply DEF ThirdEmptyReply, EpilogueInv, CountersOK, Locals, ControlOK, Raise, Finish, Plain, Accepted
<1>17. CASE DiminishingReturns
  BY <1>17, ReplyIsNotNoReply DEF DiminishingReturns, EpilogueInv, CountersOK, Locals, ControlOK, Raise, Finish, Plain, Accepted
<1>18. CASE RetryReply
  BY <1>18, ReplyIsNotNoReply DEF RetryReply, EpilogueInv, CountersOK, Locals, ControlOK, Raise, Finish, Plain, Accepted
<1>19. CASE EndTurn
  BY <1>19, ReplyIsNotNoReply DEF EndTurn, EpilogueInv, CountersOK, Locals, ControlOK, Raise, Finish, Plain, Accepted
<1>20. CASE RecordResults
  BY <1>20, ReplyIsNotNoReply DEF RecordResults, EpilogueInv, CountersOK, Locals, ControlOK, Raise, Finish, Plain, Accepted
<1>21. CASE RetryLoopAbort
  BY <1>21, ReplyIsNotNoReply DEF RetryLoopAbort, EpilogueInv, CountersOK, Locals, ControlOK, Raise, Finish, Plain, Accepted
<1>22. CASE Epilogue
  BY <1>22, ReplyIsNotNoReply DEF Epilogue, EpilogueInv, CountersOK, Locals, ControlOK, Raise, Finish, Plain, Accepted
<1>23. CASE Interrupted
  BY <1>23, ReplyIsNotNoReply DEF Interrupted, EpilogueInv, CountersOK, Locals, ControlOK, Raise, Finish, Plain, Accepted
<1>24. CASE UNCHANGED vars
  BY <1>24 DEF vars, EpilogueInv
<1> QED
  BY <1>1, <1>2, <1>3, <1>4, <1>5, <1>6, <1>7, <1>8, <1>9, <1>10, <1>11, <1>12, <1>13, <1>14, <1>15, <1>16, <1>17, <1>18, <1>19, <1>20, <1>21, <1>22, <1>23, <1>24 DEF Next, Step
-----------------------------------------------------------------------------
LEMMA NextReply ==
  ASSUME Control, [Next]_vars
  PROVE  (resp \in Replies \cup {NoReply})'
  BY DEF Control, CountersOK, Next, Step, vars, StartTurn, SwitchModel,
    BeginIteration, IterationsSpent, StreamOpens, NativeToolsRejected,
    NonRetryable, ReactiveCompaction, CompactionBreakerOpen, ProviderError,
    StreamEnds, StreamFails, CompactMessages, UpgradeTokens, RecordCalls,
    ThirdEmptyReply, DiminishingReturns, RetryReply, EndTurn, RecordResults,
    RetryLoopAbort, Epilogue, Interrupted, Raise, Finish, Plain

LEMMA ControlStep == Control /\ [Next]_vars => Control'
<1> SUFFICES ASSUME Control, [Next]_vars PROVE Control'
  OBVIOUS
<1>1. CountersOK'
  BY NextRuntime, NextLocals, NextReply DEF CountersOK
<1> QED
  BY <1>1, NextControlOK, NextStrikes, NextEpilogue DEF Control

(* The control state keeps its invariant: types and caps, one count of the
   failures of a model, and a reason for every epilogue. *)
THEOREM ControlInvariant == Spec => []Control
BY InitControl, ControlStep, PTL DEF Spec

(* Every recovery of a turn stays within its cap, for any configuration: one
   retry per kind of bad reply, the compaction breaker, the iterations. *)
THEOREM CapsHold == Spec => [](ControlOK /\ CountersOK)
<1>1. Control => ControlOK /\ CountersOK
  BY DEF Control
<1> QED
  BY <1>1, ControlInvariant, PTL

(* The fallback chain is walked only after three failures in a row. *)
THEOREM FallbackNeedsThreeStrikes == Spec => ThreeStrikes
<1> DEFINE A == rt'.active # rt.active =>
                  pc = "idle" \/ (strikes = 2 /\ rt'.active = rt.active + 1)
<1>1. ASSUME Control, Next PROVE A
  <2>1. CASE SwitchModel
    BY <2>1 DEF SwitchModel
  <2>2. CASE ProviderError
    <3>1. rt.failures \in Nat /\ rt.active \in Nat /\ strikes = rt.failures
      BY <1>1 DEF Control, CountersOK, Runtime, Models, StrikesInv
    <3>2. \/ rt' = [rt EXCEPT !.failures = rt.failures + 1]
          \/ /\ HasNext(rt.active) /\ rt.failures + 1 >= 3
             /\ rt' = [rt EXCEPT !.failures = 0, !.active = rt.active + 1]
      BY <2>2 DEF ProviderError
    <3>3. HasNext(rt.active) => rt.failures < 3
      BY <1>1 DEF Control, StrikesInv
    <3>4. CASE rt' = [rt EXCEPT !.failures = rt.failures + 1]
      BY <1>1, <3>4 DEF Control, CountersOK, Runtime
    <3>5. CASE /\ HasNext(rt.active) /\ rt.failures + 1 >= 3
               /\ rt' = [rt EXCEPT !.failures = 0, !.active = rt.active + 1]
      <4>1. strikes = 2
        BY <3>1, <3>3, <3>5
      <4>2. rt'.active = rt.active + 1
        BY <1>1, <3>5 DEF Control, CountersOK, Runtime
      <4> QED
        BY <4>1, <4>2
    <3> QED
      BY <3>2, <3>4, <3>5
  <2>3. CASE ~SwitchModel /\ ~ProviderError
    BY <1>1, <2>3 DEF Control, CountersOK, Runtime, Next, Step, StartTurn,
      BeginIteration, IterationsSpent, StreamOpens, NativeToolsRejected,
      NonRetryable, ReactiveCompaction, CompactionBreakerOpen,
      StreamEnds, StreamFails, CompactMessages, UpgradeTokens, RecordCalls,
      ThirdEmptyReply, DiminishingReturns, RetryReply, EndTurn, RecordResults,
      RetryLoopAbort, Epilogue, Interrupted, Plain
  <2> QED
    BY <2>1, <2>2, <2>3
<1>2. ASSUME Control, [Next]_vars PROVE [A]_vars
  BY <1>1, <1>2
<1> QED
  BY <1>2, ControlInvariant, PTL DEF Spec, ThreeStrikes

(* A turn that ends without a word had nothing left to say. *)
THEOREM TurnIsNeverSilent == Spec => NeverSilent
<1> DEFINE A == outcome' = "ended" /\ pc # "idle" /\ ~shown' =>
                  /\ resp # NoReply /\ resp.text \notin Visible /\ resp.calls = <<>>
                  /\ t.iteration < MaxIterations
<1>1. ASSUME Control, Next PROVE A
  <2>1. CASE Epilogue
    <3>1. t.iteration \in 0..MaxIterations /\ MaxIterations \in Nat
      BY <1>1, LoopAssumption DEF Control, CountersOK, Locals
    <3>2. ASSUME ~shown' PROVE ~shown /\ t.iteration < MaxIterations
      <4>1. ~shown /\ ~BudgetExceeded
        BY <2>1, <3>2, Zenon DEF Epilogue
      <4> QED
        BY <3>1, <4>1 DEF BudgetExceeded
    <3>3. t.iteration < MaxIterations => t.iteration # MaxIterations
      BY <3>1
    <3>4. pc = "epilogue"
      BY <2>1 DEF Epilogue
    <3> QED
      BY <1>1, <3>2, <3>3, <3>4 DEF Control, EpilogueInv
  <2>2. CASE ~Epilogue
    BY <1>1, <2>2 DEF Control, ControlOK, EpilogueInv, Next, Step, StartTurn, SwitchModel,
      BeginIteration, IterationsSpent, StreamOpens, NativeToolsRejected,
      NonRetryable, ReactiveCompaction, CompactionBreakerOpen, ProviderError,
      StreamEnds, StreamFails, CompactMessages, UpgradeTokens, RecordCalls,
      ThirdEmptyReply, DiminishingReturns, RetryReply, EndTurn, RecordResults,
      RetryLoopAbort, Interrupted, Plain, Raise, Finish
  <2> QED
    BY <2>1, <2>2
<1>2. ASSUME Control, [Next]_vars PROVE [A]_vars
  BY <1>1, <1>2
<1> QED
  BY <1>2, ControlInvariant, PTL DEF Spec, NeverSilent

(* The auto-compaction guard only stays set when a turn is abandoned. *)
THEOREM GuardIsReleased == Spec => GuardReleased
<1> DEFINE A == rt'.inFlight /\ pc' # "compacting" =>
                  rt.inFlight /\ (pc = "compacting" => outcome' = "interrupted")
<1>1. ASSUME Control, Next PROVE A
  <2>1. CASE StreamEnds \/ CompactMessages
    BY <1>1, <2>1 DEF Control, CountersOK, Runtime, StreamEnds, CompactMessages
  <2>2. CASE ~(StreamEnds \/ CompactMessages)
    BY <1>1, <2>2 DEF Control, CountersOK, Runtime, Next, Step, StartTurn, SwitchModel,
      BeginIteration, IterationsSpent, StreamOpens, NativeToolsRejected,
      NonRetryable, ReactiveCompaction, CompactionBreakerOpen, ProviderError,
      StreamFails, UpgradeTokens, RecordCalls, ThirdEmptyReply, DiminishingReturns,
      RetryReply, EndTurn, RecordResults, RetryLoopAbort, Epilogue, Interrupted,
      Accepted, Plain, Raise, Finish
  <2> QED
    BY <2>1, <2>2
<1>2. ASSUME Control, [Next]_vars PROVE [A]_vars
  BY <1>1, <1>2
<1> QED
  BY <1>2, ControlInvariant, PTL DEF Spec, GuardReleased

(* Every step inside a turn leaves fewer of them: no turn runs for ever, and
   none takes more than 8 * MaxIterations + 2 steps. *)
THEOREM TurnsTerminate == Spec => TurnEnds
<1>1. ASSUME Control, Next, pc # "idle" PROVE StepsLeft' < StepsLeft
  <2>1. /\ t.iteration \in Nat /\ t.iteration <= MaxIterations
        /\ MaxIterations \in Nat
    BY <1>1, LoopAssumption DEF Control, CountersOK, Locals
  <2>2. CASE pc' = "idle"
    BY <1>1, <2>1, <2>2 DEF StepsLeft, Rank, Control, ControlOK
  <2>3. CASE BeginIteration /\ pc' # "idle"
    <3>1. t'.iteration = t.iteration + 1 /\ pc = "top" /\ pc' = "request"
      BY <1>1, <2>3 DEF BeginIteration, Finish, Control, CountersOK, Locals
    <3> QED
      BY <2>1, <3>1 DEF StepsLeft, Rank
  <2>4. CASE ~BeginIteration /\ pc' # "idle"
    <3>1. t'.iteration = t.iteration
      BY <1>1, <2>4 DEF Control, CountersOK, Locals, Next, Step, StartTurn, SwitchModel,
        IterationsSpent, StreamOpens, NativeToolsRejected, NonRetryable,
        ReactiveCompaction, CompactionBreakerOpen, ProviderError, StreamEnds,
        StreamFails, CompactMessages, UpgradeTokens, RecordCalls, ThirdEmptyReply,
        DiminishingReturns, RetryReply, EndTurn, RecordResults, RetryLoopAbort,
        Epilogue, Interrupted, Plain, Raise, Finish
    <3>2. \/ pc = "top" /\ pc' = "epilogue"
          \/ pc = "request" /\ pc' \in {"streaming", "top"}
          \/ pc = "streaming" /\ pc' \in {"compacting", "measure"}
          \/ pc = "compacting" /\ pc' = "measure"
          \/ pc = "measure" /\ pc' \in {"dispatch", "top", "epilogue"}
          \/ pc = "dispatch" /\ pc' \in {"top", "epilogue"}
      BY <1>1, <2>4 DEF Next, Step, StartTurn, SwitchModel,
        IterationsSpent, StreamOpens, NativeToolsRejected, NonRetryable,
        ReactiveCompaction, CompactionBreakerOpen, ProviderError, StreamEnds,
        StreamFails, CompactMessages, UpgradeTokens, RecordCalls, ThirdEmptyReply,
        DiminishingReturns, RetryReply, EndTurn, RecordResults, RetryLoopAbort,
        Epilogue, Interrupted, Accepted, Plain, Raise, Finish
    <3>3. Rank[pc'] < Rank[pc] /\ Rank[pc'] \in Nat /\ Rank[pc] \in Nat
      BY <3>2 DEF Rank
    <3> QED
      BY <1>1, <2>1, <2>4, <3>1, <3>3 DEF StepsLeft
  <2> QED
    BY <2>2, <2>3, <2>4
<1>2. ASSUME Control, [Next]_vars PROVE [pc # "idle" => StepsLeft' < StepsLeft]_vars
  BY <1>1, <1>2
<1> QED
  BY <1>2, ControlInvariant, PTL DEF Spec, TurnEnds
-----------------------------------------------------------------------------
(* The history.  Drop is a loop over the messages; that its recursive function
   is defined, and what it returns, is shown by a least counterexample. *)
LEMMA LeastNat == ASSUME NEW T \in SUBSET Nat, T # {} PROVE \E n \in T : \A m \in T : n <= m
<1>1. PICK n \in T : \A m \in T : ~(<<m, n>> \in OpToRel(<, Nat))
  BY NatLessThanWellFounded, WFMin
<1>2. ASSUME NEW m \in T PROVE n <= m
  <2>1. m \in Nat /\ n \in Nat OBVIOUS
  <2>2. ~(m < n) BY <1>1, <2>1 DEF OpToRel
  <2> QED BY <2>1, <2>2
<1> QED BY <1>2

DropStep(g, s, gone, i) ==
  IF i = 0 THEN <<>>
  ELSE IF Blocks(Kept(s[i], gone)) THEN Append(g[i - 1], Kept(s[i], gone))
  ELSE g[i - 1]
DropUpTo(g, s, gone, n) == g = [i \in 0..n |-> DropStep(g, s, gone, i)]

LEMMA DropExists == ASSUME NEW s, NEW gone PROVE \A n \in Nat : \E g : DropUpTo(g, s, gone, n)
<1> DEFINE T == {n \in Nat : ~\E g : DropUpTo(g, s, gone, n)}
<1> SUFFICES ASSUME T # {} PROVE FALSE OBVIOUS
<1>1. PICK n \in T : \A j \in T : n <= j BY LeastNat
<1>2. CASE n = 0
  <2> DEFINE g == [i \in 0..0 |-> <<>>]
  <2>1. g = [i \in 0..0 |-> DropStep(g, s, gone, i)] BY DEF DropStep
  <2> QED BY <1>1, <1>2, <2>1 DEF DropUpTo
<1>3. CASE n # 0
  <2>1. n - 1 \in Nat /\ ~(n <= n - 1) BY <1>3
  <2>2. PICK h : DropUpTo(h, s, gone, n - 1) BY <1>1, <2>1
  <2> DEFINE g == [i \in 0..n |-> DropStep(h, s, gone, i)]
  <2>3. ASSUME NEW i \in 0..n PROVE DropStep(h, s, gone, i) = DropStep(g, s, gone, i)
    <3>1. CASE i = 0 BY <3>1 DEF DropStep
    <3>2. CASE i # 0
      <4>1. i - 1 \in 0..n /\ i - 1 \in 0..(n - 1) BY <3>2
      <4>2. h[i - 1] = DropStep(h, s, gone, i - 1) BY <2>2, <4>1 DEF DropUpTo
      <4>3. g[i - 1] = h[i - 1] BY <4>1, <4>2
      <4> HIDE DEF g
      <4> QED BY <3>2, <4>3 DEF DropStep
    <3> QED BY <3>1, <3>2
  <2>4. g = [i \in 0..n |-> DropStep(g, s, gone, i)] BY <2>3
  <2> QED BY <1>1, <2>4 DEF DropUpTo
<1> QED BY <1>2, <1>3

(* d is what is left of the first n messages of s, and h says where each
   message of d was. *)
LeftOf(d, h, s, gone, n) ==
  /\ d \in Seq(Message)
  /\ \A k \in DOMAIN d : h[k] \in 1..n /\ d[k] = Kept(s[h[k]], gone)
  /\ \A j, k \in DOMAIN d : j < k => h[j] < h[k]
  /\ \A i \in 1..n : Blocks(Kept(s[i], gone)) => \E k \in DOMAIN d : h[k] = i

LEMMA KeptType == ASSUME NEW m \in Message, NEW gone PROVE
  /\ Kept(m, gone) \in Message
  /\ Kept(m, gone).uses = {c \in m.uses : c.id \notin gone}
  /\ Kept(m, gone).results = m.results \ gone
BY DEF Kept, Message

LEMMA LeftOfNext ==
  ASSUME NEW s \in Seq(Message), NEW gone, NEW n \in Nat, n + 1 \in DOMAIN s,
         NEW d, NEW h, LeftOf(d, h, s, gone, n)
  PROVE  \E g : LeftOf(IF Blocks(Kept(s[n + 1], gone))
                       THEN Append(d, Kept(s[n + 1], gone)) ELSE d, g, s, gone, n + 1)
<1>1. d \in Seq(Message) /\ Len(d) \in Nat /\ DOMAIN d = 1..Len(d) BY DEF LeftOf
<1>2. PICK m : m = Kept(s[n + 1], gone) OBVIOUS
<1>3. m \in Message
  <2>1. s[n + 1] \in Message BY ElementOfSeq
  <2> QED BY <1>2, <2>1, KeptType
<1>4. CASE ~Blocks(m)
  <2>1. LeftOf(d, h, s, gone, n + 1) BY <1>2, <1>4 DEF LeftOf
  <2> QED BY <1>2, <1>4, <2>1
<1>5. CASE Blocks(m)
  <2>0. PICK l \in Nat : l = Len(d) BY <1>1
  <2>1. PICK e : e = Append(d, m) OBVIOUS
  <2>2. /\ e \in Seq(Message) /\ DOMAIN e = 1..(l + 1) /\ e[l + 1] = m
        /\ \A k \in 1..l : e[k] = d[k]
    BY <1>1, <1>3, <2>0, <2>1
  <2> DEFINE g == [k \in 1..(l + 1) |-> IF k = l + 1 THEN n + 1 ELSE h[k]]
  <2>3. \A k \in 1..l : g[k] = h[k] /\ h[k] \in 1..n BY <1>1, <2>0 DEF LeftOf
  <2>4. g[l + 1] = n + 1 OBVIOUS
  <2> HIDE DEF g
  <2>5. ASSUME NEW k \in 1..(l + 1) PROVE k = l + 1 \/ k \in 1..l OBVIOUS
  <2>6. \A k \in DOMAIN e : g[k] \in 1..(n + 1) /\ e[k] = Kept(s[g[k]], gone)
    <3> SUFFICES ASSUME NEW k \in 1..(l + 1)
                 PROVE  g[k] \in 1..(n + 1) /\ e[k] = Kept(s[g[k]], gone)
      BY <2>2
    <3>1. CASE k = l + 1 BY <1>2, <2>2, <2>4, <3>1
    <3>2. CASE k \in 1..l
      <4>1. d[k] = Kept(s[h[k]], gone) BY <1>1, <2>0, <3>2 DEF LeftOf
      <4>2. g[k] = h[k] /\ g[k] \in 1..(n + 1) BY <2>3, <3>2
      <4> QED BY <2>2, <3>2, <4>1, <4>2
    <3> QED BY <2>5, <3>1, <3>2
  <2>7. \A j, k \in DOMAIN e : j < k => g[j] < g[k]
    <3> SUFFICES ASSUME NEW j \in 1..(l + 1), NEW k \in 1..(l + 1), j < k PROVE g[j] < g[k]
      BY <2>2
    <3>1. j \in 1..l OBVIOUS
    <3>2. CASE k = l + 1 BY <2>3, <2>4, <3>1, <3>2
    <3>3. CASE k \in 1..l BY <1>1, <2>0, <2>3, <3>1, <3>3 DEF LeftOf
    <3> QED BY <2>5, <3>2, <3>3
  <2>8. \A i \in 1..(n + 1) : Blocks(Kept(s[i], gone)) => \E k \in DOMAIN e : g[k] = i
    <3> SUFFICES ASSUME NEW i \in 1..(n + 1), Blocks(Kept(s[i], gone))
                 PROVE  \E k \in DOMAIN e : g[k] = i
      OBVIOUS
    <3>1. CASE i = n + 1
      <4>1. l + 1 \in DOMAIN e BY <2>2
      <4> QED BY <2>4, <3>1, <4>1
    <3>2. CASE i # n + 1
      <4>1. i \in 1..n BY <3>2
      <4>2. PICK k \in DOMAIN d : h[k] = i BY <4>1 DEF LeftOf
      <4>3. k \in 1..l /\ k \in DOMAIN e BY <1>1, <2>0, <2>2
      <4> QED BY <2>3, <4>2, <4>3
    <3> QED BY <3>1, <3>2
  <2>9. LeftOf(e, g, s, gone, n + 1) BY <2>2, <2>6, <2>7, <2>8 DEF LeftOf
  <2> QED BY <1>2, <1>5, <2>1, <2>9
<1> QED BY <1>4, <1>5

LEMMA DropIs ==
  ASSUME NEW s \in Seq(Message), NEW gone
  PROVE  \E h : LeftOf(Drop(s, gone), h, s, gone, Len(s))
<1> DEFINE l == Len(s)
           f == CHOOSE g : DropUpTo(g, s, gone, l)
<1>1. l \in Nat /\ DOMAIN s = 1..l OBVIOUS
<1>2. Drop(s, gone) = f[l] BY DEF Drop, DropUpTo, DropStep
<1>3. DropUpTo(f, s, gone, l) BY <1>1, DropExists
<1> HIDE DEF f
<1>4. \A i \in 0..l : \E h : LeftOf(f[i], h, s, gone, i)
  <2> DEFINE T == {i \in 0..l : ~\E h : LeftOf(f[i], h, s, gone, i)}
  <2> SUFFICES ASSUME T # {} PROVE FALSE OBVIOUS
  <2>0. T \in SUBSET Nat BY <1>1
  <2>1. PICK i \in T : \A j \in T : i <= j BY <2>0, LeastNat
  <2>2. i \in 0..l /\ i \in Nat BY <1>1
  <2>3. f[i] = DropStep(f, s, gone, i) BY <1>3, <2>2 DEF DropUpTo
  <2>4. CASE i = 0
    <3>1. f[i] = <<>> BY <2>3, <2>4 DEF DropStep
    <3>2. LeftOf(<<>>, <<>>, s, gone, 0) BY DEF LeftOf
    <3> QED BY <2>4, <3>1, <3>2
  <2>5. CASE i # 0
    <3>1. i - 1 \in 0..l /\ i - 1 \in Nat /\ ~(i <= i - 1) /\ i = (i - 1) + 1 /\ i \in DOMAIN s
      BY <1>1, <2>2, <2>5
    <3>2. PICK h : LeftOf(f[i - 1], h, s, gone, i - 1) BY <2>1, <3>1
    <3>3. f[i] = IF Blocks(Kept(s[i], gone)) THEN Append(f[i - 1], Kept(s[i], gone)) ELSE f[i - 1]
      BY <2>3, <2>5 DEF DropStep
    <3>4. PICK p \in Nat : p = i - 1 BY <3>1
    <3>5. i = p + 1 BY <3>1, <3>4
    <3>6. \E g : LeftOf(f[i], g, s, gone, i)
      BY <3>1, <3>2, <3>3, <3>4, <3>5, LeftOfNext
    <3> QED BY <3>6
  <2> QED BY <2>4, <2>5
<1>5. l \in 0..l BY <1>1
<1> QED BY <1>2, <1>4, <1>5
-----------------------------------------------------------------------------
(* Who answers whom.  Followed: every call is answered once, by the message
   after its own; open says that the calls of the last message are not answered
   yet.  Rooted: every result follows its call; after a cut, HalfRooted: it
   does, or its call is gone.  The ids in E are excused. *)
Followed(s, E, open) ==
  \A i \in DOMAIN s : \A id \in Ids(s[i].uses) \ E :
    {j \in DOMAIN s : id \in s[j].results} = IF open /\ i = Len(s) THEN {} ELSE {i + 1}
Rooted(s, E) ==
  \A i \in DOMAIN s : \A id \in s[i].results \ E : i > 1 /\ id \in Ids(s[i - 1].uses)
HalfRooted(s, E) ==
  \A i \in DOMAIN s : \A id \in s[i].results \ E :
    \/ i > 1 /\ id \in Ids(s[i - 1].uses)
    \/ \A j \in DOMAIN s : id \notin Ids(s[j].uses)

(* Ids are handed out in order: those of s are below n. *)
Below(s, n) ==
  \A i \in DOMAIN s : /\ \A id \in Ids(s[i].uses) : id < n
                      /\ \A id \in s[i].results : id < n

Half(s, n, E) == s \in Seq(Message) /\ Below(s, n) /\ Followed(s, E, FALSE) /\ HalfRooted(s, E)
Whole(s, n, E) == s \in Seq(Message) /\ Below(s, n) /\ Followed(s, E, FALSE) /\ Rooted(s, E)

LEMMA InSession ==
  ASSUME NEW s
  PROVE  /\ \A id : id \in Ids(UsesIn(s)) <=> \E i \in DOMAIN s : id \in Ids(s[i].uses)
         /\ \A id : id \in ResultsIn(s) <=> \E i \in DOMAIN s : id \in s[i].results
BY DEF Ids, UsesIn, ResultsIn

LEMMA MessageTypes ==
  ASSUME NEW s \in Seq(Message), NEW i \in DOMAIN s
  PROVE  /\ s[i] \in Message /\ s[i].uses \subseteq Call /\ s[i].results \subseteq Nat
         /\ Ids(s[i].uses) \subseteq Nat
<1>1. i \in 1..Len(s) OBVIOUS
<1>2. s[i] \in Message BY <1>1, ElementOfSeq
<1>3. s[i].uses \subseteq Call /\ s[i].results \subseteq Nat BY <1>2 DEF Message
<1> QED BY <1>2, <1>3 DEF Ids, Call

LEMMA KeptIds ==
  ASSUME NEW m \in Message, NEW gone
  PROVE  /\ Ids(Kept(m, gone).uses) = Ids(m.uses) \ gone
         /\ Kept(m, gone).results = m.results \ gone
BY KeptType DEF Ids

LEMMA WholeIsHalf == ASSUME NEW s, NEW n, NEW E, Whole(s, n, E) PROVE Half(s, n, E)
BY DEF Whole, Half, Rooted, HalfRooted

(* What is dropped takes both halves of a pair, and closes no gap between the
   halves of another. *)
LEMMA DropKeepsPairs ==
  ASSUME NEW s, NEW n \in Nat, NEW E, NEW gone, Half(s, n, E)
  PROVE  /\ Half(Drop(s, gone), n, E)
         /\ (\A id \in ResultsIn(s) : id \in Ids(UsesIn(s)) \/ id \in gone)
              => Whole(Drop(s, gone), n, E)
<1>0. s \in Seq(Message) /\ DOMAIN s = 1..Len(s) /\ Len(s) \in Nat BY DEF Half
<1>1. PICK d : d = Drop(s, gone) OBVIOUS
<1>2. PICK h : LeftOf(d, h, s, gone, Len(s)) BY <1>0, <1>1, DropIs
<1>3. PICK l \in Nat : DOMAIN d = 1..l /\ l = Len(d) /\ d \in Seq(Message) BY <1>2 DEF LeftOf
<1>4. ASSUME NEW k \in 1..l
      PROVE  /\ h[k] \in DOMAIN s /\ h[k] \in Nat
             /\ Ids(d[k].uses) = Ids(s[h[k]].uses) \ gone
             /\ d[k].results = s[h[k]].results \ gone
  <2>1. h[k] \in DOMAIN s /\ d[k] = Kept(s[h[k]], gone) BY <1>0, <1>2, <1>3 DEF LeftOf
  <2>2. s[h[k]] \in Message BY <1>0, <2>1, MessageTypes
  <2> QED BY <1>0, <2>1, <2>2, KeptIds
<1>5. \A j, k \in 1..l : j < k => h[j] < h[k] BY <1>2, <1>3 DEF LeftOf
<1>6. \A j, k \in 1..l : h[j] = h[k] => j = k BY <1>4, <1>5
<1>7. ASSUME NEW i \in DOMAIN s, NEW id, id \notin gone, id \in Ids(s[i].uses) \/ id \in s[i].results
      PROVE  \E k \in 1..l : h[k] = i
  <2>1. s[i] \in Message BY <1>0, MessageTypes
  <2>2. id \in Ids(Kept(s[i], gone).uses) \/ id \in Kept(s[i], gone).results
    BY <1>7, <2>1, KeptIds
  <2>3. Blocks(Kept(s[i], gone)) BY <2>2 DEF Blocks, Ids
  <2> QED BY <1>0, <1>2, <1>3, <2>3 DEF LeftOf
<1>8. ASSUME NEW j \in 1..l, NEW k \in 1..l, h[k] = h[j] + 1 PROVE k = j + 1
  <2>1. j < k
    <3> SUFFICES ASSUME k <= j PROVE FALSE OBVIOUS
    <3>1. k = j \/ k < j OBVIOUS
    <3>2. h[k] <= h[j] BY <1>4, <1>5, <3>1
    <3> QED BY <1>4, <1>8, <3>2
  <2>2. CASE j + 1 < k
    <3>1. j + 1 \in 1..l BY <2>2
    <3>2. h[j] < h[j + 1] /\ h[j + 1] < h[k] BY <1>5, <2>2, <3>1
    <3> QED BY <1>4, <1>8, <3>1, <3>2
  <2> QED BY <2>1, <2>2
<1>9. Below(d, n)
  <2> SUFFICES ASSUME NEW k \in 1..l
               PROVE (\A id \in Ids(d[k].uses) : id < n) /\ (\A id \in d[k].results : id < n)
    BY <1>3 DEF Below
  <2> QED BY <1>4 DEF Half, Below
<1>10. Followed(d, E, FALSE)
  <2> SUFFICES ASSUME NEW k \in 1..l, NEW id \in Ids(d[k].uses) \ E
               PROVE  {j \in 1..l : id \in d[j].results} = {k + 1}
    BY <1>3 DEF Followed
  <2>1. id \in Ids(s[h[k]].uses) /\ id \notin gone /\ h[k] \in DOMAIN s BY <1>4
  <2>2. {j \in DOMAIN s : id \in s[j].results} = {h[k] + 1} BY <2>1 DEF Half, Followed
  <2>3. h[k] + 1 \in DOMAIN s /\ id \in s[h[k] + 1].results BY <2>2
  <2>4. PICK m \in 1..l : h[m] = h[k] + 1 BY <1>7, <2>1, <2>3
  <2>5. m = k + 1 BY <1>8, <2>4
  <2>6. id \in d[m].results BY <1>4, <2>1, <2>3, <2>4
  <2>7. ASSUME NEW j \in 1..l, id \in d[j].results PROVE j = k + 1
    <3>1. h[j] \in DOMAIN s /\ id \in s[h[j]].results BY <1>4, <2>7
    <3>2. h[j] = h[m] BY <2>2, <2>4, <3>1
    <3> QED BY <1>6, <2>5, <3>2
  <2> QED BY <2>5, <2>6, <2>7
<1>11. ASSUME NEW k \in 1..l, NEW id \in d[k].results \ E
       PROVE  \/ k > 1 /\ id \in Ids(d[k - 1].uses)
              \/ id \notin gone /\ \A i \in DOMAIN s : id \notin Ids(s[i].uses)
  <2>1. id \in s[h[k]].results /\ id \notin gone /\ h[k] \in DOMAIN s BY <1>4, <1>11
  <2>2. CASE h[k] > 1 /\ id \in Ids(s[h[k] - 1].uses)
    <3>1. h[k] - 1 \in DOMAIN s BY <1>0, <2>1, <2>2
    <3>2. PICK j \in 1..l : h[j] = h[k] - 1 BY <1>7, <2>1, <2>2, <3>1
    <3>3. h[k] = h[j] + 1 BY <1>4, <3>2
    <3>4. k = j + 1 BY <1>8, <3>3
    <3>5. k > 1 /\ k - 1 = j BY <3>4
    <3>6. id \in Ids(d[j].uses) BY <1>4, <2>1, <2>2, <3>2
    <3> QED BY <3>5, <3>6
  <2>3. CASE ~(h[k] > 1 /\ id \in Ids(s[h[k] - 1].uses))
    BY <2>1, <2>3 DEF Half, HalfRooted
  <2> QED BY <2>2, <2>3
<1>12. HalfRooted(d, E)
  <2> SUFFICES ASSUME NEW k \in 1..l, NEW id \in d[k].results \ E,
                      NEW j \in 1..l, id \in Ids(d[j].uses)
               PROVE  k > 1 /\ id \in Ids(d[k - 1].uses)
    BY <1>3 DEF HalfRooted
  <2>1. id \in Ids(s[h[j]].uses) /\ h[j] \in DOMAIN s BY <1>4
  <2> QED BY <1>11, <2>1
<1>13. ASSUME \A id \in ResultsIn(s) : id \in Ids(UsesIn(s)) \/ id \in gone
       PROVE  Rooted(d, E)
  <2> SUFFICES ASSUME NEW k \in 1..l, NEW id \in d[k].results \ E
               PROVE  k > 1 /\ id \in Ids(d[k - 1].uses)
    BY <1>3 DEF Rooted
  <2>1. id \in ResultsIn(s) BY <1>4, InSession
  <2>2. id \in Ids(UsesIn(s)) \/ id \in gone BY <1>13, <2>1
  <2>3. id \in gone \/ \E i \in DOMAIN s : id \in Ids(s[i].uses) BY <2>2, InSession
  <2> QED BY <1>11, <2>3
<1> QED BY <1>1, <1>3, <1>9, <1>10, <1>12, <1>13 DEF Half, Whole

LEMMA NoteType == /\ Note \in Message /\ Note.uses = {} /\ Note.results = {}
                  /\ Ids(Note.uses) = {}
BY DEF Note, Said, Message, Ids

(* A cut keeps the tail: it may part a result from its call, never a call from
   its result. *)
LEMMA KeepRecentKeepsPairs ==
  ASSUME NEW s, NEW n \in Nat, NEW E, NEW k \in Nat, Half(s, n, E)
  PROVE  Half(KeepRecent(s, k), n, E)
<1>0. s \in Seq(Message) /\ DOMAIN s = 1..Len(s) /\ Len(s) \in Nat BY DEF Half
<1>1. CASE Len(s) <= k BY <1>1 DEF KeepRecent
<1>2. CASE ~(Len(s) <= k)
  <2>0. Len(s) - k - 1 \in Nat
    <3> PICK l \in Nat : l = Len(s) BY <1>0
    <3>1. l > k BY <1>2
    <3> QED BY <3>1
  <2>1. PICK o \in Nat : o = Len(s) - k - 1 BY <2>0
  <2>2. PICK r : r = <<Note>> \o SubSeq(s, Len(s) - k + 1, Len(s)) OBVIOUS
  <2>3. KeepRecent(s, k) = r BY <1>2, <2>2 DEF KeepRecent
  <2>4. PICK b : b = SubSeq(s, Len(s) - k + 1, Len(s)) OBVIOUS
  <2>5. b \in Seq(Message) /\ Len(b) = k /\ \A i \in 1..k : b[i] = s[Len(s) - k + i]
    <3>1. PICK l \in Nat : l = Len(s) BY <1>0
    <3>2. PICK m : m = l - k + 1 OBVIOUS
    <3>3. m \in 1..(l + 1) /\ l - m + 1 = k /\ m <= l + 1 BY <1>2, <3>1, <3>2
    <3>4. b = SubSeq(s, m, l) BY <2>4, <3>1, <3>2
    <3>5. \A i \in m..l : i \in 1..l BY <3>3
    <3>6. b \in Seq(Message) /\ Len(b) = k /\ \A i \in 1..k : b[i] = s[m + i - 1]
      BY <1>0, <3>1, <3>3, <3>4, <3>5, SubSeqProperties
    <3>7. \A i \in 1..k : m + i - 1 = Len(s) - k + i BY <3>1, <3>2
    <3> QED BY <3>6, <3>7
  <2>6. <<Note>> \in Seq(Message) /\ Len(<<Note>>) = 1 /\ <<Note>>[1] = Note BY NoteType
  <2>7. /\ r \in Seq(Message) /\ Len(r) = k + 1 /\ DOMAIN r = 1..(k + 1) /\ r[1] = Note
        /\ \A i \in 2..(k + 1) : r[i] = b[i - 1]
    BY <2>2, <2>4, <2>5, <2>6, ConcatProperties
  <2>8. \A i \in 2..(k + 1) : o + i \in DOMAIN s /\ r[i] = s[o + i]
    <3> SUFFICES ASSUME NEW i \in 2..(k + 1) PROVE o + i \in DOMAIN s /\ r[i] = s[o + i]
      OBVIOUS
    <3>1. i - 1 \in 1..k /\ Len(s) - k + (i - 1) = o + i BY <1>0, <2>1
    <3>2. o + i \in 1..Len(s) BY <1>0, <1>2, <2>1
    <3> QED BY <1>0, <2>5, <2>7, <3>1, <3>2
  <2>9. ASSUME NEW i \in 1..(k + 1), NEW id, id \in Ids(r[i].uses) \/ id \in r[i].results
        PROVE  i \in 2..(k + 1)
    <3>1. CASE i = 1 BY <2>7, <2>9, <3>1, NoteType
    <3>2. CASE i # 1 BY <3>2
    <3> QED BY <3>1, <3>2
  <2>10. Below(r, n)
    <3> SUFFICES ASSUME NEW i \in 1..(k + 1)
                 PROVE (\A id \in Ids(r[i].uses) : id < n) /\ (\A id \in r[i].results : id < n)
      BY <2>7 DEF Below
    <3>1. CASE i \in 2..(k + 1) BY <2>8, <3>1 DEF Half, Below
    <3>2. CASE i \notin 2..(k + 1) BY <2>9, <3>2
    <3> QED BY <3>1, <3>2
  <2>11. ASSUME NEW i \in 2..(k + 1), NEW id \in Ids(r[i].uses) \ E
         PROVE  {j \in DOMAIN s : id \in s[j].results} = {o + i + 1}
    <3>1. id \in Ids(s[o + i].uses) /\ o + i \in DOMAIN s BY <2>8
    <3> QED BY <3>1 DEF Half, Followed
  <2>12. Followed(r, E, FALSE)
    <3> SUFFICES ASSUME NEW i \in 1..(k + 1), NEW id \in Ids(r[i].uses) \ E
                 PROVE  {j \in 1..(k + 1) : id \in r[j].results} = {i + 1}
      BY <2>7 DEF Followed
    <3>1. i \in 2..(k + 1) BY <2>9
    <3>2. {j \in DOMAIN s : id \in s[j].results} = {o + i + 1} BY <2>11, <3>1
    <3>3. o + i + 1 \in DOMAIN s /\ id \in s[o + i + 1].results BY <3>2
    <3>4. i + 1 \in 2..(k + 1) /\ o + i + 1 = o + (i + 1) BY <1>0, <2>1, <3>3
    <3>5. id \in r[i + 1].results BY <2>8, <3>3, <3>4
    <3>6. ASSUME NEW j \in 1..(k + 1), id \in r[j].results PROVE j = i + 1
      <4>1. j \in 2..(k + 1) BY <2>9, <3>6
      <4>2. o + j \in DOMAIN s /\ id \in s[o + j].results BY <2>8, <3>6, <4>1
      <4>3. o + j = o + i + 1 BY <3>2, <4>2
      <4> QED BY <4>3
    <3> QED BY <3>4, <3>5, <3>6
  <2>13. HalfRooted(r, E)
    <3> SUFFICES ASSUME NEW i \in 1..(k + 1), NEW id \in r[i].results \ E,
                        NEW j \in 1..(k + 1), id \in Ids(r[j].uses)
                 PROVE  i > 1 /\ id \in Ids(r[i - 1].uses)
      BY <2>7 DEF HalfRooted
    <3>1. i \in 2..(k + 1) /\ j \in 2..(k + 1) BY <2>9
    <3>2. id \in s[o + i].results /\ o + i \in DOMAIN s BY <2>8, <3>1
    <3>3. {x \in DOMAIN s : id \in s[x].results} = {o + j + 1} BY <2>11, <3>1
    <3>4. o + i = o + j + 1 BY <3>2, <3>3
    <3>5. i - 1 = j BY <3>4
    <3> QED BY <3>1, <3>5
  <2> QED BY <2>3, <2>7, <2>10, <2>12, <2>13 DEF Half
<1> QED BY <1>1, <1>2

LEMMA EnsuredPairs ==
  ASSUME NEW s, NEW n \in Nat, NEW E, Half(s, n, E)
  PROVE  Whole(EnsurePairIntegrity(s), n, E)
<1>1. PICK gone : gone = (Ids(UsesIn(s)) \ ResultsIn(s)) \cup (ResultsIn(s) \ Ids(UsesIn(s)))
  OBVIOUS
<1>2. EnsurePairIntegrity(s) = Drop(s, gone) BY <1>1 DEF EnsurePairIntegrity
<1>3. \A id \in ResultsIn(s) : id \in Ids(UsesIn(s)) \/ id \in gone BY <1>1
<1> QED BY <1>2, <1>3, DropKeepsPairs

(* Whatever level compress stops at, it returns a history in pairs. *)
LEMMA CompressedPairs ==
  ASSUME NEW s, NEW n \in Nat, NEW E, Whole(s, n, E), NEW z \in MaybeCompressed(s)
  PROVE  Whole(z, n, E)
<1>1. PICK micro : micro = Drop(s, StaleReads(s)) OBVIOUS
<1>2. PICK collapsed : collapsed = KeepRecent(micro, KeepCollapse) OBVIOUS
<1>3. PICK short : short = KeepRecent(collapsed, KeepAuto) OBVIOUS
<1>4. Half(s, n, E) BY WholeIsHalf
<1>5. Half(micro, n, E) BY <1>1, <1>4, DropKeepsPairs
<1>6. Half(collapsed, n, E) BY <1>2, <1>5, KeepRecentKeepsPairs, LoopAssumption
<1>7. Half(short, n, E) BY <1>3, <1>6, KeepRecentKeepsPairs, LoopAssumption
<1>8. z = s \/ \E x \in {s, micro, collapsed, short} : z = EnsurePairIntegrity(x)
  BY <1>1, <1>2, <1>3 DEF MaybeCompressed, Compressions
<1> QED BY <1>4, <1>5, <1>6, <1>7, <1>8, EnsuredPairs

(* compact_session cuts without mending; the results it orphans are excused. *)
LEMMA TrimmedPairs ==
  ASSUME NEW s, NEW n \in Nat, NEW E, Whole(s, n, E), NEW z \in {s, KeepRecent(s, KeepTrim)},
         NEW F, F = E \cup (ResultsIn(z) \ Ids(UsesIn(z)))
  PROVE  Whole(z, n, F)
<1>1. Half(z, n, E) BY WholeIsHalf, KeepRecentKeepsPairs, LoopAssumption
<1>2. Followed(z, F, FALSE) BY <1>1 DEF Half, Followed
<1>3. Rooted(z, F)
  <2> SUFFICES ASSUME NEW i \in DOMAIN z, NEW id \in z[i].results \ F
               PROVE  i > 1 /\ id \in Ids(z[i - 1].uses)
    BY DEF Rooted
  <2>1. id \in ResultsIn(z) BY InSession
  <2>2. id \in Ids(UsesIn(z)) BY <2>1
  <2>3. \E j \in DOMAIN z : id \in Ids(z[j].uses) BY <2>2, InSession
  <2> QED BY <1>1, <2>3 DEF Half, HalfRooted
<1> QED BY <1>1, <1>2, <1>3 DEF Half, Whole
-----------------------------------------------------------------------------
LEMMA Appended ==
  ASSUME NEW s \in Seq(Message), NEW m \in Message
  PROVE  \E l \in Nat :
           /\ l = Len(s) /\ DOMAIN s = 1..l
           /\ Append(s, m) \in Seq(Message) /\ DOMAIN Append(s, m) = 1..(l + 1)
           /\ Len(Append(s, m)) = l + 1
           /\ Append(s, m)[l + 1] = m /\ \A i \in 1..l : Append(s, m)[i] = s[i]
<1>1. Len(s) \in Nat /\ DOMAIN s = 1..Len(s) OBVIOUS
<1> QED BY <1>1, AppendProperties

(* Messages without calls whose results are all excused: notes, or the second
   copy of the results of an aborted batch. *)
LEMMA ConcatPlain ==
  ASSUME NEW s, NEW n \in Nat, NEW E, Whole(s, n, E), NEW r \in Seq(Message),
         \A i \in DOMAIN r : /\ r[i].uses = {} /\ r[i].results \subseteq E
                             /\ \A id \in r[i].results : id < n
  PROVE  Whole(s \o r, n, E)
<1>1. PICK l \in Nat : l = Len(s) /\ DOMAIN s = 1..l /\ s \in Seq(Message) BY DEF Whole
<1>2. PICK p \in Nat : p = Len(r) /\ DOMAIN r = 1..p OBVIOUS
<1>3. PICK e : e = s \o r OBVIOUS
<1>4. /\ e \in Seq(Message) /\ DOMAIN e = 1..(l + p)
      /\ \A i \in 1..l : e[i] = s[i]
      /\ \A i \in 1..(l + p) : i > l => e[i] = r[i - l]
  BY <1>1, <1>2, <1>3, ConcatProperties
<1>5. ASSUME NEW i \in 1..(l + p), i \notin 1..l
      PROVE  /\ Ids(e[i].uses) = {} /\ e[i].results \subseteq E
             /\ \A id \in e[i].results : id < n
  <2>1. i - l \in 1..p /\ i > l BY <1>5
  <2>2. e[i] = r[i - l] BY <1>4, <2>1
  <2> QED BY <1>2, <2>1, <2>2 DEF Ids
<1>6. Below(e, n)
  <2> SUFFICES ASSUME NEW i \in 1..(l + p)
               PROVE (\A id \in Ids(e[i].uses) : id < n) /\ (\A id \in e[i].results : id < n)
    BY <1>4 DEF Below
  <2>1. CASE i \in 1..l BY <1>1, <1>4, <2>1 DEF Whole, Below
  <2>2. CASE i \notin 1..l BY <1>5, <2>2
  <2> QED BY <2>1, <2>2
<1>7. Followed(e, E, FALSE)
  <2> SUFFICES ASSUME NEW i \in 1..(l + p), NEW id \in Ids(e[i].uses) \ E
               PROVE  {j \in 1..(l + p) : id \in e[j].results} = {i + 1}
    BY <1>4 DEF Followed
  <2>1. i \in 1..l /\ id \in Ids(s[i].uses) BY <1>4, <1>5
  <2>2. {j \in 1..l : id \in s[j].results} = {i + 1} BY <1>1, <2>1 DEF Whole, Followed
  <2>3. \A j \in 1..(l + p) : id \in e[j].results <=> j \in 1..l /\ id \in s[j].results
    BY <1>4, <1>5
  <2>4. \A j \in 1..l : j \in 1..(l + p) OBVIOUS
  <2> QED BY <2>2, <2>3, <2>4
<1>8. Rooted(e, E)
  <2> SUFFICES ASSUME NEW i \in 1..(l + p), NEW id \in e[i].results \ E
               PROVE  i > 1 /\ id \in Ids(e[i - 1].uses)
    BY <1>4 DEF Rooted
  <2>1. i \in 1..l /\ id \in s[i].results BY <1>4, <1>5
  <2>2. i > 1 /\ id \in Ids(s[i - 1].uses) BY <1>1, <2>1 DEF Whole, Rooted
  <2>3. i - 1 \in 1..l BY <2>1, <2>2
  <2> QED BY <1>4, <2>2, <2>3
<1> QED BY <1>3, <1>4, <1>6, <1>7, <1>8 DEF Whole

LEMMA AppendPlain ==
  ASSUME NEW s, NEW n \in Nat, NEW E, Whole(s, n, E), NEW m \in Message,
         m.uses = {}, m.results \subseteq E, \A id \in m.results : id < n
  PROVE  Whole(Append(s, m), n, E)
<1>1. PICK r : r = <<m>> OBVIOUS
<1>2. r \in Seq(Message) /\ DOMAIN r = {1} /\ r[1] = m BY <1>1
<1>3. Append(s, m) = s \o r
  <2>1. s \in Seq(Message) BY DEF Whole
  <2> QED BY <1>1, <2>1
<1> QED BY <1>2, <1>3, ConcatPlain

(* A history whose last message has calls that nothing answers yet. *)
Asked(s, n, E) ==
  /\ s \in Seq(Message) /\ s # <<>>
  /\ Below(s, n) /\ Followed(s, E, TRUE) /\ Rooted(s, E)

LEMMA AskedPairs ==
  ASSUME NEW s, NEW n \in Nat, NEW q \in Nat, NEW E, Whole(s, n, E), NEW m \in Message,
         m.results = {}, \A id \in Ids(m.uses) : n <= id /\ id < n + q
  PROVE  Asked(Append(s, m), n + q, E)
<1>1. PICK l \in Nat :
        /\ l = Len(s) /\ DOMAIN s = 1..l
        /\ Append(s, m) \in Seq(Message) /\ DOMAIN Append(s, m) = 1..(l + 1)
        /\ Len(Append(s, m)) = l + 1
        /\ Append(s, m)[l + 1] = m /\ \A i \in 1..l : Append(s, m)[i] = s[i]
  BY Appended DEF Whole
<1>2. PICK e : e = Append(s, m) OBVIOUS
<1>3. /\ e \in Seq(Message) /\ DOMAIN e = 1..(l + 1) /\ Len(e) = l + 1 /\ e[l + 1] = m
      /\ \A i \in 1..l : e[i] = s[i]
  BY <1>1, <1>2
<1>4. \A i \in 1..(l + 1) : i = l + 1 \/ i \in 1..l OBVIOUS
<1>5. \A i \in 1..l : /\ Ids(s[i].uses) \subseteq Nat /\ s[i].results \subseteq Nat
                      /\ \A id \in Ids(s[i].uses) : id < n
                      /\ \A id \in s[i].results : id < n
  BY <1>1, MessageTypes DEF Whole, Below
<1>6. Ids(m.uses) \subseteq Nat BY DEF Message, Call, Ids
<1>7. Below(e, n + q)
  <2> SUFFICES ASSUME NEW i \in 1..(l + 1)
               PROVE  /\ \A id \in Ids(e[i].uses) : id < n + q
                      /\ \A id \in e[i].results : id < n + q
    BY <1>3 DEF Below
  <2>1. CASE i = l + 1 BY <1>3, <2>1
  <2>2. CASE i \in 1..l
    <3>1. ASSUME NEW id \in Nat, id < n PROVE id < n + q BY <3>1
    <3> QED BY <1>3, <1>5, <2>2, <3>1
  <2> QED BY <1>4, <2>1, <2>2
<1>8. Followed(e, E, TRUE)
  <2> SUFFICES ASSUME NEW i \in 1..(l + 1), NEW id \in Ids(e[i].uses) \ E
               PROVE  {j \in 1..(l + 1) : id \in e[j].results} = IF i = l + 1 THEN {} ELSE {i + 1}
    BY <1>3 DEF Followed
  <2>1. \A j \in 1..(l + 1) : id \in e[j].results <=> j \in 1..l /\ id \in s[j].results
    BY <1>3, <1>4
  <2>2. \A j \in 1..l : j \in 1..(l + 1) /\ j # l + 1 OBVIOUS
  <2>3. CASE i = l + 1
    <3>1. n <= id /\ id \in Nat BY <1>3, <1>6, <2>3
    <3>2. \A j \in 1..l : id \notin s[j].results BY <1>5, <3>1
    <3> QED BY <2>1, <2>3, <3>2
  <2>4. CASE i \in 1..l
    <3>1. {j \in 1..l : id \in s[j].results} = {i + 1} BY <1>1, <1>3, <2>4 DEF Whole, Followed
    <3> QED BY <2>1, <2>2, <2>4, <3>1
  <2> QED BY <1>4, <2>3, <2>4
<1>9. Rooted(e, E)
  <2> SUFFICES ASSUME NEW i \in 1..(l + 1), NEW id \in e[i].results \ E
               PROVE  i > 1 /\ id \in Ids(e[i - 1].uses)
    BY <1>3 DEF Rooted
  <2>1. i \in 1..l /\ id \in s[i].results BY <1>3, <1>4
  <2>2. i > 1 /\ id \in Ids(s[i - 1].uses) BY <1>1, <2>1 DEF Whole, Rooted
  <2>3. i - 1 \in 1..l BY <2>1, <2>2
  <2> QED BY <1>3, <2>2, <2>3
<1>10. e # <<>>
  <2>1. l + 1 \in DOMAIN e BY <1>3
  <2> QED BY <2>1
<1> QED BY <1>2, <1>3, <1>7, <1>8, <1>9, <1>10 DEF Asked

LEMMA AskedLast ==
  ASSUME NEW s, NEW n, NEW E, Asked(s, n, E)
  PROVE  \E l \in Nat \ {0} : l = Len(s) /\ DOMAIN s = 1..l /\ s \in Seq(Message)
<1>1. s \in Seq(Message) /\ s # <<>> BY DEF Asked
<1>2. Len(s) \in Nat \ {0} /\ DOMAIN s = 1..Len(s) BY <1>1, EmptySeq
<1> QED BY <1>1, <1>2

LEMMA AnsweredPairs ==
  ASSUME NEW s, NEW n \in Nat, NEW E, Asked(s, n, E), NEW m \in Message,
         m.uses = {}, m.results = Ids(s[Len(s)].uses)
  PROVE  Whole(Append(s, m), n, E)
<1>1. PICK l \in Nat \ {0} : l = Len(s) /\ DOMAIN s = 1..l /\ s \in Seq(Message) BY AskedLast
<1>2. PICK e : e = Append(s, m) OBVIOUS
<1>3. /\ e \in Seq(Message) /\ DOMAIN e = 1..(l + 1) /\ e[l + 1] = m
      /\ \A i \in 1..l : e[i] = s[i]
  BY <1>1, <1>2, Appended
<1>4. /\ \A i \in 1..(l + 1) : i = l + 1 \/ i \in 1..l
      /\ l \in 1..l /\ \A i \in 1..l : i \in 1..(l + 1) /\ i # l + 1
  OBVIOUS
<1>5. Ids(m.uses) = {} BY DEF Ids
<1>6. m.results = Ids(s[l].uses) BY <1>1
<1>7. Below(e, n)
  <2> SUFFICES ASSUME NEW i \in 1..(l + 1)
               PROVE (\A id \in Ids(e[i].uses) : id < n) /\ (\A id \in e[i].results : id < n)
    BY <1>3 DEF Below
  <2>1. CASE i = l + 1 BY <1>1, <1>3, <1>4, <1>5, <1>6, <2>1 DEF Asked, Below
  <2>2. CASE i \in 1..l BY <1>1, <1>3, <2>2 DEF Asked, Below
  <2> QED BY <1>4, <2>1, <2>2
<1>8. Followed(e, E, FALSE)
  <2> SUFFICES ASSUME NEW i \in 1..(l + 1), NEW id \in Ids(e[i].uses) \ E
               PROVE  {j \in 1..(l + 1) : id \in e[j].results} = {i + 1}
    BY <1>3 DEF Followed
  <2>1. i \in 1..l /\ id \in Ids(s[i].uses) \ E BY <1>3, <1>4, <1>5
  <2>2. {j \in 1..l : id \in s[j].results} = IF i = l THEN {} ELSE {i + 1}
    BY <1>1, <2>1 DEF Asked, Followed
  <2>3. CASE i = l
    <3>1. id \in m.results BY <1>6, <2>1, <2>3
    <3>2. \A j \in 1..l : id \notin s[j].results BY <2>2, <2>3
    <3>3. \A j \in 1..(l + 1) : id \in e[j].results <=> j = l + 1
      BY <1>3, <1>4, <3>1, <3>2
    <3> QED BY <2>3, <3>3
  <2>4. CASE i # l
    <3>1. ASSUME id \in Ids(s[l].uses) PROVE FALSE
      <4>1. {j \in 1..l : id \in s[j].results} = {}
        BY <1>1, <1>4, <2>1, <3>1 DEF Asked, Followed
      <4> QED BY <2>2, <2>4, <4>1
    <3>2. \A j \in 1..(l + 1) : id \in e[j].results <=> j \in 1..l /\ id \in s[j].results
      BY <1>3, <1>4, <1>6, <3>1
    <3>3. {j \in 1..l : id \in s[j].results} = {i + 1} BY <2>2, <2>4
    <3> QED BY <1>4, <3>2, <3>3
  <2> QED BY <2>3, <2>4
<1>9. Rooted(e, E)
  <2> SUFFICES ASSUME NEW i \in 1..(l + 1), NEW id \in e[i].results \ E
               PROVE  i > 1 /\ id \in Ids(e[i - 1].uses)
    BY <1>3 DEF Rooted
  <2>1. CASE i = l + 1
    <3>1. i > 1 /\ i - 1 = l BY <2>1
    <3> QED BY <1>3, <1>4, <1>6, <2>1, <3>1
  <2>2. CASE i \in 1..l
    <3>1. i > 1 /\ id \in Ids(s[i - 1].uses) BY <1>1, <1>3, <2>2 DEF Asked, Rooted
    <3>2. i - 1 \in 1..l BY <2>2, <3>1
    <3> QED BY <1>3, <3>1, <3>2
  <2> QED BY <1>4, <2>1, <2>2
<1> QED BY <1>2, <1>3, <1>7, <1>8, <1>9 DEF Whole

LEMMA ExcusedPairs ==
  ASSUME NEW s, NEW n \in Nat, NEW E, Asked(s, n, E), NEW F,
         F = E \cup Ids(s[Len(s)].uses)
  PROVE  Whole(s, n, F)
<1>1. PICK l \in Nat \ {0} : l = Len(s) /\ DOMAIN s = 1..l /\ s \in Seq(Message) BY AskedLast
<1>2. Followed(s, F, FALSE)
  <2> SUFFICES ASSUME NEW i \in 1..l, NEW id \in Ids(s[i].uses) \ F
               PROVE  {j \in 1..l : id \in s[j].results} = {i + 1}
    BY <1>1 DEF Followed
  <2>1. i # l BY <1>1
  <2> QED BY <1>1, <2>1 DEF Asked, Followed
<1>3. Rooted(s, F) BY DEF Asked, Rooted
<1> QED BY <1>2, <1>3 DEF Asked, Whole
-----------------------------------------------------------------------------
(* The inductive invariant of the history: in pairs, except that between the
   recording of a reply's calls and of their results the last message is that
   reply. *)
HistoryInv ==
  /\ excused \subseteq Nat
  /\ pc # "dispatch" => Whole(session, nextId, excused)
  /\ pc = "dispatch" =>
       /\ Asked(session, nextId, excused)
       /\ resp.calls # <<>> /\ Len(resp.calls) <= nextId
       /\ session[Len(session)].uses = CallsOf(resp, Base)

LEMMA RespCalls == ASSUME CountersOK PROVE resp.calls \in Seq(Sigs)
<1>1. CASE resp \in Replies BY <1>1, RepliesAssumption
<1>2. CASE resp = NoReply BY <1>2 DEF NoReply
<1> QED BY <1>1, <1>2 DEF CountersOK

(* The ids of a batch: as many as it has calls, from b on. *)
LEMMA BatchIds ==
  ASSUME CountersOK, NEW b \in Nat
  PROVE  \E q \in Nat :
           /\ q = Len(resp.calls) /\ DOMAIN resp.calls = 1..q
           /\ CallsOf(resp, b) \subseteq Call
           /\ Ids(CallsOf(resp, b)) = {b + i - 1 : i \in 1..q}
           /\ \A id \in Ids(CallsOf(resp, b)) : id \in Nat /\ b <= id /\ id < b + q
<1>1. PICK q \in Nat : q = Len(resp.calls) /\ DOMAIN resp.calls = 1..q /\ resp.calls \in Seq(Sigs)
  BY RespCalls
<1>2. \A i \in 1..q : resp.calls[i] \in Sigs BY <1>1, ElementOfSeq
<1>3. \A i \in 1..q : b + i - 1 \in Nat /\ b <= b + i - 1 /\ b + i - 1 < b + q OBVIOUS
<1>4. CallsOf(resp, b) = {[id |-> b + i - 1, sig |-> resp.calls[i]] : i \in 1..q}
  BY <1>1 DEF CallsOf
<1>5. CallsOf(resp, b) \subseteq Call BY <1>2, <1>3, <1>4 DEF Call
<1>6. Ids(CallsOf(resp, b)) = {b + i - 1 : i \in 1..q}
  <2> DEFINE R(i) == [id |-> b + i - 1, sig |-> resp.calls[i]]
  <2>1. \A i \in 1..q : R(i).id = b + i - 1 OBVIOUS
  <2>2. CallsOf(resp, b) = {R(i) : i \in 1..q} BY <1>4
  <2> HIDE DEF R
  <2>3. {c.id : c \in {R(i) : i \in 1..q}} = {R(i).id : i \in 1..q} OBVIOUS
  <2> QED BY <2>1, <2>2, <2>3 DEF Ids
<1> QED BY <1>1, <1>3, <1>5, <1>6

LEMMA ReplyType ==
  ASSUME CountersOK, nextId \in Nat
  PROVE  /\ Reply(resp, nextId) \in Message
         /\ Reply(resp, nextId).uses = CallsOf(resp, nextId)
         /\ Reply(resp, nextId).results = {}
<1>1. CallsOf(resp, nextId) \in SUBSET Call BY BatchIds
<1>2. (resp.text # "none") \in BOOLEAN OBVIOUS
<1> QED BY <1>1, <1>2 DEF Reply, Message

LEMMA MeasuredPairs ==
  ASSUME nextId \in Nat, Whole(session, nextId, excused), NEW z \in Measured
  PROVE  Whole(z, nextId, excused)
BY CompressedPairs DEF Measured

(* A reply without calls, or the note about an empty one, changes no pair. *)
LEMMA RecordedPairs ==
  ASSUME CountersOK, nextId \in Nat, NEW z, Whole(z, nextId, excused), resp.calls = <<>>
  PROVE  Whole(Recorded(z), nextId, excused)
<1>1. CallsOf(resp, nextId) = {}
  <2>1. DOMAIN resp.calls = {} OBVIOUS
  <2> QED BY <2>1 DEF CallsOf
<1>2. Whole(Append(z, Reply(resp, nextId)), nextId, excused)
  BY <1>1, ReplyType, AppendPlain
<1>3. Whole(Append(z, Note), nextId, excused) BY NoteType, AppendPlain
<1> QED BY <1>2, <1>3 DEF Recorded

(* What the results of the whole batch, or of a part of it, look like. *)
LEMMA ResultIdsAre ==
  ASSUME Control, HistoryInv, pc = "dispatch"
  PROVE  /\ nextId \in Nat /\ Base \in Nat
         /\ ResultIds \subseteq Ids(CallsOf(resp, Base))
         /\ \A id \in Ids(CallsOf(resp, Base)) : id \in Nat /\ id < nextId
         /\ Repeats = {} => ResultIds = Ids(CallsOf(resp, Base)) /\ ResultIds # {}
         /\ Results(ResultIds) \in Message /\ Results(ResultIds).uses = {}
         /\ Results(ResultIds).results = ResultIds
         /\ Reminders \in Seq(Message) /\ \A i \in DOMAIN Reminders : Reminders[i] = Note
<1>1. CountersOK /\ nextId \in Nat BY DEF Control, ControlOK
<1>2. PICK q \in Nat : q = Len(resp.calls) /\ DOMAIN resp.calls = 1..q /\ resp.calls \in Seq(Sigs)
  BY <1>1, RespCalls
<1>3. q <= nextId /\ Base = nextId - q BY <1>2 DEF HistoryInv, Base
<1>4. Base \in Nat /\ Base + q = nextId BY <1>1, <1>3
<1>5. /\ Ids(CallsOf(resp, Base)) = {Base + i - 1 : i \in 1..q}
      /\ \A id \in Ids(CallsOf(resp, Base)) : id \in Nat /\ id < nextId
  BY <1>1, <1>2, <1>4, BatchIds
<1>6. Dispatched \subseteq 1..q BY <1>2 DEF Dispatched
<1>7. ResultIds = {Base + i - 1 : i \in Dispatched} BY DEF ResultIds
<1>8. ResultIds \subseteq Ids(CallsOf(resp, Base)) BY <1>5, <1>6, <1>7
<1>9. ASSUME Repeats = {} PROVE ResultIds = Ids(CallsOf(resp, Base)) /\ ResultIds # {}
  <2>1. Dispatched = 1..q BY <1>2, <1>9 DEF Dispatched
  <2>2. 1 \in 1..q
    <3>1. resp.calls # <<>> BY DEF HistoryInv
    <3> QED BY <1>2, <3>1, EmptySeq
  <2> QED BY <1>5, <1>7, <2>1, <2>2
<1>10. ResultIds \in SUBSET Nat BY <1>5, <1>8
<1>11. /\ Results(ResultIds) \in Message /\ Results(ResultIds).uses = {}
       /\ Results(ResultIds).results = ResultIds
  BY <1>10 DEF Results, Message
<1>12. Cardinality(ResultIds) \in Nat
  <2>1. IsFiniteSet(1..q) BY FS_Interval
  <2>2. IsFiniteSet(Dispatched) BY <1>6, <2>1, FS_Subset
  <2>3. [i \in Dispatched |-> Base + i - 1] \in Surjection(Dispatched, ResultIds)
    BY <1>7 DEF Surjection
  <2>4. IsFiniteSet(ResultIds) BY <2>2, <2>3, FS_Surjection
  <2> QED BY <2>4, FS_CardinalityType
<1>13. Reminders \in Seq(Message) /\ \A i \in DOMAIN Reminders : Reminders[i] = Note
  <2>1. PICK c \in Nat : c = Cardinality(ResultIds) BY <1>12
  <2>2. Reminders = IF RemindAfterEachCall THEN [i \in 1..c |-> Note] ELSE <<>>
    BY <2>1 DEF Reminders
  <2>3. [i \in 1..c |-> Note] \in Seq(Message) /\ \A i \in 1..c : [j \in 1..c |-> Note][i] = Note
    BY NoteType
  <2>4. <<>> \in Seq(Message) /\ DOMAIN <<>> = {} OBVIOUS
  <2> QED BY <2>2, <2>3, <2>4
<1> QED BY <1>1, <1>4, <1>5, <1>8, <1>9, <1>11, <1>13

(* The results, the reminders after them and a compaction of it all. *)
LEMMA AfterResultsPairs ==
  ASSUME Control, HistoryInv, pc = "dispatch", ResultIds # {},
         NEW F, Whole(Append(session, Results(ResultIds)), nextId, F),
         NEW z \in AfterResults
  PROVE  Whole(z, nextId, F)
<1>1. PICK y : y = Append(session, Results(ResultIds)) \o Reminders OBVIOUS
<1>2. z \in MaybeCompressed(y) BY <1>1 DEF AfterResults, MaybeCompressed
<1>3. \A i \in DOMAIN Reminders : /\ Reminders[i].uses = {} /\ Reminders[i].results \subseteq F
                                  /\ \A id \in Reminders[i].results : id < nextId
  BY ResultIdsAre, NoteType
<1>4. Whole(y, nextId, F) BY <1>1, <1>3, ResultIdsAre, ConcatPlain
<1> QED BY <1>2, <1>4, ResultIdsAre, CompressedPairs

LEMMA HistoryStill ==
  ASSUME HistoryInv, UNCHANGED <<nextId, excused>>, pc # "dispatch", pc' # "dispatch",
         Whole(session, nextId, excused) => Whole(session', nextId, excused)
  PROVE  HistoryInv'
BY DEF HistoryInv

LEMMA HistoryStep ==
  ASSUME Control, HistoryInv, [Next]_vars
  PROVE  HistoryInv'
<1>0. CountersOK /\ nextId \in Nat BY DEF Control, ControlOK
<1>1. CASE StartTurn
  <2>1. /\ UNCHANGED <<nextId, excused>> /\ pc # "dispatch" /\ pc' # "dispatch"
        /\ session' = Append(session, Note)
    BY <1>1 DEF StartTurn
  <2>2. Whole(session, nextId, excused) => Whole(session', nextId, excused)
    BY <1>0, <2>1, NoteType, AppendPlain
  <2> QED BY <2>1, <2>2, HistoryStill
<1>2. CASE BeginIteration
  <2>1. /\ UNCHANGED <<nextId, excused>> /\ pc # "dispatch" /\ pc' # "dispatch"
        /\ session' \in MaybeCompressed(session)
    BY <1>2 DEF BeginIteration, MaybeCompressed, Finish
  <2>2. Whole(session, nextId, excused) => Whole(session', nextId, excused)
    BY <1>0, <2>1, CompressedPairs
  <2> QED BY <2>1, <2>2, HistoryStill
<1>3. CASE ReactiveCompaction
  <2>1. /\ UNCHANGED <<nextId, excused>> /\ pc # "dispatch" /\ pc' # "dispatch"
        /\ session' \in MaybeCompressed(session)
    BY <1>3 DEF ReactiveCompaction
  <2>2. Whole(session, nextId, excused) => Whole(session', nextId, excused)
    BY <1>0, <2>1, CompressedPairs
  <2> QED BY <2>1, <2>2, HistoryStill
<1>4. CASE \/ SwitchModel \/ IterationsSpent \/ StreamOpens \/ NativeToolsRejected
           \/ NonRetryable \/ CompactionBreakerOpen \/ ProviderError \/ StreamEnds
           \/ StreamFails \/ Epilogue
  <2>1. UNCHANGED <<nextId, excused, session>> /\ pc # "dispatch" /\ pc' # "dispatch"
    BY <1>4 DEF SwitchModel, IterationsSpent, StreamOpens, NativeToolsRejected,
      NonRetryable, CompactionBreakerOpen, ProviderError, StreamEnds, StreamFails,
      Epilogue, Raise, Finish
  <2> QED BY <2>1, HistoryStill
<1>5. CASE CompactMessages
  <2>1. /\ pc # "dispatch" /\ pc' # "dispatch" /\ nextId' = nextId
        /\ session' \in {session, KeepRecent(session, KeepTrim)}
        /\ excused' = excused \cup (ResultsIn(session') \ Ids(UsesIn(session')))
    BY <1>5 DEF CompactMessages
  <2>2. Whole(session, nextId, excused) BY <2>1 DEF HistoryInv
  <2>3. Whole(session', nextId, excused') BY <1>0, <2>1, <2>2, TrimmedPairs
  <2>4. excused' \subseteq Nat
    <3>1. \A i \in DOMAIN session' : session'[i].results \subseteq Nat
      BY <2>3, MessageTypes DEF Whole
    <3>2. ResultsIn(session') \subseteq Nat BY <3>1, InSession
    <3> QED BY <2>1, <3>2 DEF HistoryInv
  <2> QED BY <2>1, <2>3, <2>4 DEF HistoryInv
<1>6. CASE UpgradeTokens \/ ThirdEmptyReply
  <2>1. /\ UNCHANGED <<nextId, excused>> /\ pc # "dispatch" /\ pc' # "dispatch"
        /\ session' \in Measured
    BY <1>6 DEF UpgradeTokens, ThirdEmptyReply, Accepted, Raise, Finish
  <2>2. Whole(session, nextId, excused) => Whole(session', nextId, excused)
    BY <1>0, <2>1, MeasuredPairs
  <2> QED BY <2>1, <2>2, HistoryStill
<1>7. CASE DiminishingReturns \/ EndTurn
  <2>1. /\ UNCHANGED <<nextId, excused>> /\ pc # "dispatch" /\ pc' # "dispatch"
        /\ resp.calls = <<>> /\ \E z \in Measured : session' = Recorded(z)
    BY <1>7 DEF DiminishingReturns, EndTurn, Plain, Accepted
  <2>2. Whole(session, nextId, excused) => Whole(session', nextId, excused)
    BY <1>0, <2>1, MeasuredPairs, RecordedPairs
  <2> QED BY <2>1, <2>2, HistoryStill
<1>8. CASE RetryReply
  <2>1. /\ UNCHANGED <<nextId, excused>> /\ pc # "dispatch" /\ pc' # "dispatch"
        /\ resp.calls = <<>> /\ \E z \in Measured : session' = Append(Recorded(z), Note)
    BY <1>8 DEF RetryReply, Plain, Accepted
  <2>2. ASSUME Whole(session, nextId, excused) PROVE Whole(session', nextId, excused)
    <3>1. PICK z \in Measured : session' = Append(Recorded(z), Note) BY <2>1
    <3>2. Whole(Recorded(z), nextId, excused) BY <1>0, <2>1, <2>2, MeasuredPairs, RecordedPairs
    <3> QED BY <1>0, <3>1, <3>2, NoteType, AppendPlain
  <2> QED BY <2>1, <2>2, HistoryStill
<1>9. CASE RecordCalls
  <2>1. /\ pc # "dispatch" /\ pc' = "dispatch" /\ UNCHANGED <<excused, resp>>
        /\ resp.calls # <<>> /\ nextId' = nextId + Len(resp.calls)
        /\ \E z \in Measured : session' = Append(z, Reply(resp, nextId))
    BY <1>9 DEF RecordCalls, Accepted
  <2>2. Whole(session, nextId, excused) BY <2>1 DEF HistoryInv
  <2>3. PICK z \in Measured : session' = Append(z, Reply(resp, nextId)) BY <2>1
  <2>4. Whole(z, nextId, excused) BY <1>0, <2>2, MeasuredPairs
  <2>5. PICK q \in Nat :
          /\ q = Len(resp.calls)
          /\ \A id \in Ids(CallsOf(resp, nextId)) : nextId <= id /\ id < nextId + q
    BY <1>0, BatchIds
  <2>6. PICK m \in Message : /\ m = Reply(resp, nextId) /\ m.uses = CallsOf(resp, nextId)
                             /\ m.results = {}
    BY <1>0, ReplyType
  <2>7. Asked(Append(z, m), nextId + q, excused) BY <1>0, <2>4, <2>5, <2>6, AskedPairs
  <2>8. Asked(session', nextId', excused') BY <2>1, <2>3, <2>5, <2>6, <2>7
  <2>9. Len(resp.calls) <= nextId' /\ nextId' - Len(resp.calls) = nextId BY <1>0, <2>1, <2>5
  <2>10. Base' = nextId BY <2>1, <2>9 DEF Base
  <2>11. session'[Len(session')] = m
    <3>1. z \in Seq(Message) BY <2>4 DEF Whole
    <3> QED BY <2>3, <2>6, <3>1, Appended
  <2>12. session'[Len(session')].uses = CallsOf(resp, Base)' BY <2>1, <2>6, <2>10, <2>11 DEF CallsOf
  <2> QED BY <2>1, <2>8, <2>9, <2>12 DEF HistoryInv
<1>10. CASE RecordResults
  <2>1. /\ pc = "dispatch" /\ pc' # "dispatch" /\ UNCHANGED <<nextId, excused>>
        /\ Repeats = {} /\ session' \in AfterResults
    BY <1>10 DEF RecordResults
  <2>2. Asked(session, nextId, excused) /\ session[Len(session)].uses = CallsOf(resp, Base)
    BY <2>1 DEF HistoryInv
  <2>3. PICK m \in Message : /\ m = Results(ResultIds) /\ m.uses = {}
                             /\ m.results = Ids(session[Len(session)].uses)
    BY <2>1, <2>2, ResultIdsAre
  <2>4. Whole(Append(session, m), nextId, excused) BY <1>0, <2>2, <2>3, AnsweredPairs
  <2>5. ResultIds # {} BY <2>1, ResultIdsAre
  <2>6. Whole(session', nextId, excused) BY <2>1, <2>3, <2>4, <2>5, AfterResultsPairs
  <2> QED BY <2>1, <2>6 DEF HistoryInv
<1>11. CASE RetryLoopAbort
  <2>1. /\ pc = "dispatch" /\ pc' # "dispatch" /\ nextId' = nextId
        /\ excused' = excused \cup Ids(CallsOf(resp, Base))
        /\ \E z \in AfterResults :
             session' = IF ResultIds = {} THEN z ELSE Append(z, Results(ResultIds))
    BY <1>11 DEF RetryLoopAbort
  <2>2. Asked(session, nextId, excused) /\ session[Len(session)].uses = CallsOf(resp, Base)
    BY <2>1 DEF HistoryInv
  <2>3. PICK F : F = excused \cup Ids(CallsOf(resp, Base)) OBVIOUS
  <2>4. Whole(session, nextId, F) BY <1>0, <2>2, <2>3, ExcusedPairs
  <2>5. PICK m \in Message : /\ m = Results(ResultIds) /\ m.uses = {} /\ m.results = ResultIds
    BY <2>1, ResultIdsAre
  <2>6. m.results \subseteq F /\ \A id \in m.results : id < nextId
    BY <2>1, <2>3, <2>5, ResultIdsAre
  <2>7. PICK z \in AfterResults : session' = IF ResultIds = {} THEN z ELSE Append(z, m)
    BY <2>1, <2>5
  <2>8. Whole(session', nextId, F)
    <3>1. CASE ResultIds = {} BY <2>4, <2>7, <3>1 DEF AfterResults
    <3>2. CASE ResultIds # {}
      <4>1. Whole(Append(session, m), nextId, F) BY <1>0, <2>4, <2>5, <2>6, AppendPlain
      <4>2. Whole(z, nextId, F) BY <2>1, <2>5, <3>2, <4>1, AfterResultsPairs
      <4> QED BY <1>0, <2>5, <2>6, <2>7, <3>2, <4>2, AppendPlain
    <3> QED BY <3>1, <3>2
  <2>9. F \subseteq Nat BY <2>1, <2>3, ResultIdsAre DEF HistoryInv
  <2> QED BY <2>1, <2>3, <2>8, <2>9 DEF HistoryInv
<1>12. CASE Interrupted
  <2>1. /\ pc' # "dispatch" /\ UNCHANGED <<nextId, session>>
        /\ excused' = IF pc = "dispatch" THEN excused \cup Ids(CallsOf(resp, Base)) ELSE excused
    BY <1>12 DEF Interrupted, Finish
  <2>2. CASE pc # "dispatch" BY <2>1, <2>2, HistoryStill
  <2>3. CASE pc = "dispatch"
    <3>1. Asked(session, nextId, excused) /\ session[Len(session)].uses = CallsOf(resp, Base)
      BY <2>3 DEF HistoryInv
    <3>2. Whole(session, nextId, excused') BY <1>0, <2>1, <2>3, <3>1, ExcusedPairs
    <3>3. excused' \subseteq Nat BY <2>1, <2>3, ResultIdsAre DEF HistoryInv
    <3> QED BY <2>1, <3>2, <3>3 DEF HistoryInv
  <2> QED BY <2>2, <2>3
<1>13. CASE UNCHANGED vars
  <2>1. UNCHANGED <<pc, session, nextId, excused, resp>> BY <1>13 DEF vars
  <2> QED BY <2>1 DEF HistoryInv, Base, CallsOf
<1> QED
  BY <1>1, <1>2, <1>3, <1>4, <1>5, <1>6, <1>7, <1>8, <1>9, <1>10, <1>11, <1>12, <1>13
  DEF Next, Step

(* The history stays in pairs through every recovery, compaction and ending of
   a turn, except between a reply and its results. *)
THEOREM HistoryInvariant == Spec => [](Control /\ HistoryInv)
<1>1. Init => HistoryInv
  BY DEF Init, HistoryInv, Whole, Below, Followed, Rooted
<1> QED BY <1>1, InitControl, HistoryStep, ControlStep, PTL DEF Spec

(* Whenever a request goes out, each of its calls is answered once, by the next
   message, and each result follows its call: through the four compactions, the
   retries and the fallbacks, for any number of messages and any of the
   keep_recent bounds. *)
THEOREM RequestsArePaired == Spec => []PairedHistory
<1>1. HistoryInv => PairedHistory
  BY DEF HistoryInv, PairedHistory, Whole, Followed, Rooted
<1> QED BY <1>1, HistoryInvariant, PTL

(* Types of all variables; every recovery stays within its cap. *)
THEOREM TurnIsTyped == Spec => []TypeOK
<1>1. Control /\ HistoryInv => TypeOK
  BY DEF Control, HistoryInv, Whole, Asked, TypeOK
<1> QED BY <1>1, HistoryInvariant, PTL
=============================================================================
