--------------------------- MODULE AgentLoopProofs ---------------------------
(***************************************************************************)
(* Proofs about AgentLoop, for any tools, fallbacks, exit conditions,      *)
(* thresholds and budgets: results answer the calls in order, the budget   *)
(* covers every repeated attempt, and nobody is cut off without notice.    *)
(***************************************************************************)
EXTENDS AgentLoop, FiniteSetTheorems, SequenceTheorems, TLAPS

Msg == [kind : {"reminder", "notice", "tool"}, call : Nat]
Call == [tool : Tools, attempt : 0..MaxAttempts, st : {"running", "sleeping", "done"},
         result : {"none", "ok", "error", "denied"}]

(* The results among the messages ms: they answer the calls 1 to n in order. *)
AnswersOf(ms) == {k \in DOMAIN ms : ms[k].kind = "tool"}
InOrder(ms, n) ==
  /\ {ms[k].call : k \in AnswersOf(ms)} = 1..n
  /\ \A j, k \in AnswersOf(ms) : j < k => ms[j].call < ms[k].call

(* No warning yet; or one, and by now n calls are answered, at least left of
   them since. *)
NoReminder(ms) == \A j \in DOMAIN ms : ms[j].kind # "reminder"
Warned(ms, k, left, n) ==
  /\ k \in DOMAIN ms /\ ms[k].kind = "reminder"
  /\ \A j \in DOMAIN ms : ms[j].kind = "reminder" => j = k
  /\ left <= n
  /\ \A j \in AnswersOf(ms) : j < k => ms[j].call + left <= n

(* The calls of a reply are at hand only while they are executed. *)
BatchInv ==
  /\ pc # "tools" => batch = <<>>
  /\ pc = "tools" => Len(batch) > 0
  /\ Len(batch) <= MaxCalls
  /\ \A i \in DOMAIN batch : batch[i].st = "done" => batch[i].result # "none"

OrderInv == InOrder(messages, Len(results)) /\ Len(results) + Len(batch) = Len(calls)

Capped == \E k \in DOMAIN ExitConditions : ExitConditions[k] = "max_steps"
Past == iteration > WarnAt \/ (iteration = WarnAt /\ pc \in {"chat", "tools"})
NoticeInv ==
  /\ Capped /\ Past => \E k \in DOMAIN messages :
                         Warned(messages, k, iteration - WarnAt, Len(results))
  /\ ~Past /\ pc # "idle" => NoReminder(messages)
  /\ pc = "idle" /\ reason = "max_steps" => Capped /\ iteration >= MaxSteps

AgentInv == TypeOK /\ BatchInv /\ OrderInv /\ BudgetCovers /\ NoticeInv
-----------------------------------------------------------------------------
LEMMA Constants ==
  /\ {MaxSteps, WarningOffset, MaxAttempts, MaxTotalRetries, MaxCalls, MaxRuns} \subseteq Nat
  /\ MaxSteps > 0 /\ WarnAt \in Nat /\ WarnAt <= MaxSteps
  /\ WarningOffset > 0 => WarnAt < MaxSteps
  /\ MaxSteps - WarnAt = Min(MaxSteps, WarningOffset)
<1>1. {MaxSteps, WarningOffset, MaxAttempts, MaxTotalRetries, MaxCalls, MaxRuns} \subseteq Nat
      /\ MaxSteps > 0
  BY AgentAssumption
<1> QED BY <1>1 DEF WarnAt, Min

(* What is at a place of ms followed by t. *)
LEMMA Places ==
  ASSUME NEW ms \in Seq(Msg), NEW t \in Seq(Msg)
  PROVE  /\ ms \o t \in Seq(Msg)
         /\ \A k \in DOMAIN ms : k \in DOMAIN (ms \o t) /\ (ms \o t)[k] = ms[k] /\ k <= Len(ms)
         /\ \A i \in DOMAIN t : Len(ms) + i \in DOMAIN (ms \o t) /\ (ms \o t)[Len(ms) + i] = t[i]
         /\ \A k \in DOMAIN (ms \o t) :
              \/ k \in DOMAIN ms
              \/ \E i \in DOMAIN t : k = Len(ms) + i
<1>1. /\ ms \o t \in Seq(Msg) /\ Len(ms \o t) = Len(ms) + Len(t)
      /\ \A i \in 1..(Len(ms) + Len(t)) :
           (ms \o t)[i] = IF i <= Len(ms) THEN ms[i] ELSE t[i - Len(ms)]
  BY ConcatProperties
<1>2. /\ Len(ms) \in Nat /\ DOMAIN ms = 1..Len(ms) /\ Len(t) \in Nat /\ DOMAIN t = 1..Len(t)
      /\ DOMAIN (ms \o t) = 1..(Len(ms) + Len(t))
  BY <1>1
<1>3. \A k \in DOMAIN ms : k \in DOMAIN (ms \o t) /\ (ms \o t)[k] = ms[k] /\ k <= Len(ms)
  BY <1>1, <1>2
<1>4. ASSUME NEW i \in DOMAIN t
      PROVE  Len(ms) + i \in DOMAIN (ms \o t) /\ (ms \o t)[Len(ms) + i] = t[i]
  <2>1. Len(ms) + i \in 1..(Len(ms) + Len(t)) /\ ~(Len(ms) + i <= Len(ms))
        /\ (Len(ms) + i) - Len(ms) = i
    BY <1>2
  <2> QED BY <1>1, <1>2, <2>1
<1>5. ASSUME NEW k \in DOMAIN (ms \o t), k \notin DOMAIN ms
      PROVE  \E i \in DOMAIN t : k = Len(ms) + i
  <2>1. k - Len(ms) \in DOMAIN t /\ k = Len(ms) + (k - Len(ms)) BY <1>2, <1>5
  <2> QED BY <2>1
<1> QED BY <1>1, <1>3, <1>4, <1>5

(* Messages that are no results leave the answers alone. *)
LEMMA InOrderKept ==
  ASSUME NEW ms \in Seq(Msg), NEW t \in Seq(Msg), NEW n, InOrder(ms, n), AnswersOf(t) = {}
  PROVE  InOrder(ms \o t, n)
<1>1. \A i \in DOMAIN t : t[i].kind # "tool" BY DEF AnswersOf
<1> DEFINE u == ms \o t
<1>2. AnswersOf(u) = AnswersOf(ms) /\ \A k \in AnswersOf(ms) : u[k] = ms[k]
  BY <1>1, Places DEF AnswersOf
<1> HIDE DEF u
<1>3. {u[k].call : k \in AnswersOf(u)} = {ms[k].call : k \in AnswersOf(ms)} BY <1>2
<1>4. InOrder(u, n) BY <1>2, <1>3 DEF InOrder
<1> QED BY <1>4 DEF u

(* The results of b more calls. *)
LEMMA InOrderAnswers ==
  ASSUME NEW ms \in Seq(Msg), NEW n \in Nat, NEW b \in Nat, InOrder(ms, n), NEW t,
         t = [i \in 1..b |-> [kind |-> "tool", call |-> n + i]]
  PROVE  t \in Seq(Msg) /\ NoReminder(t) /\ InOrder(ms \o t, n + b)
<1>1. /\ DOMAIN t = 1..b /\ \A i \in 1..b : t[i].kind = "tool" /\ t[i].call = n + i
      /\ t \in Seq(Msg)
  BY DEF Msg
<1>2. NoReminder(t) BY <1>1 DEF NoReminder
<1> DEFINE u == ms \o t
<1>3. /\ u \in Seq(Msg) /\ Len(ms) \in Nat /\ DOMAIN ms = 1..Len(ms)
      /\ \A k \in DOMAIN ms : k \in DOMAIN u /\ u[k] = ms[k] /\ k <= Len(ms)
      /\ \A i \in 1..b : Len(ms) + i \in DOMAIN u /\ u[Len(ms) + i] = t[i]
      /\ \A k \in DOMAIN u : k \in DOMAIN ms \/ \E i \in 1..b : k = Len(ms) + i
  <2>1. Len(ms) \in Nat /\ DOMAIN ms = 1..Len(ms) OBVIOUS
  <2>2. /\ u \in Seq(Msg)
        /\ \A k \in DOMAIN ms : k \in DOMAIN u /\ u[k] = ms[k] /\ k <= Len(ms)
        /\ \A i \in DOMAIN t : Len(ms) + i \in DOMAIN u /\ u[Len(ms) + i] = t[i]
        /\ \A k \in DOMAIN u : k \in DOMAIN ms \/ \E i \in DOMAIN t : k = Len(ms) + i
    BY <1>1, Places, Zenon
  <2> QED BY <1>1, <2>1, <2>2, Zenon
<1> HIDE DEF u
<1>4. /\ \A k \in AnswersOf(ms) : k \in AnswersOf(u) /\ u[k].call = ms[k].call
      /\ \A i \in 1..b : Len(ms) + i \in AnswersOf(u) /\ u[Len(ms) + i].call = n + i
      /\ \A k \in AnswersOf(u) : \/ k \in AnswersOf(ms)
                                 \/ \E i \in 1..b : k = Len(ms) + i
  BY <1>1, <1>3 DEF AnswersOf
<1>5. \A k \in AnswersOf(ms) : ms[k].call \in 1..n BY DEF InOrder
<1>6. {u[k].call : k \in AnswersOf(u)} = 1..(n + b)
  <2>1. ASSUME NEW k \in AnswersOf(u) PROVE u[k].call \in 1..(n + b)
    <3>1. CASE k \in AnswersOf(ms) BY <1>4, <1>5, <3>1
    <3>2. CASE \E i \in 1..b : k = Len(ms) + i
      <4>1. PICK i \in 1..b : k = Len(ms) + i BY <3>2
      <4>2. u[k].call = n + i BY <1>4, <4>1
      <4> QED BY <4>2
    <3> QED BY <1>4, <3>1, <3>2
  <2>2. ASSUME NEW c \in 1..(n + b) PROVE \E k \in AnswersOf(u) : u[k].call = c
    <3>1. CASE c \in 1..n
      <4>1. PICK k \in AnswersOf(ms) : ms[k].call = c BY <3>1 DEF InOrder
      <4> QED BY <1>4, <4>1
    <3>2. CASE c \notin 1..n
      <4>1. c - n \in 1..b /\ n + (c - n) = c BY <3>2
      <4> QED BY <1>4, <4>1
    <3> QED BY <3>1, <3>2
  <2> QED BY <2>1, <2>2
<1>7. ASSUME NEW j \in AnswersOf(u), NEW k \in AnswersOf(u), j < k
      PROVE  u[j].call < u[k].call
  <2>1. CASE k \in AnswersOf(ms)
    <3>1. j \in AnswersOf(ms)
      <4>1. k <= Len(ms) /\ k \in DOMAIN ms BY <1>3, <2>1 DEF AnswersOf
      <4>2. ~\E i \in 1..b : j = Len(ms) + i BY <1>3, <1>7, <4>1
      <4> QED BY <1>4, <4>2
    <3> QED BY <1>4, <1>7, <2>1, <3>1 DEF InOrder
  <2>2. CASE j \in AnswersOf(ms) /\ \E i \in 1..b : k = Len(ms) + i
    <3>1. PICK i \in 1..b : k = Len(ms) + i BY <2>2
    <3>2. u[j].call \in 1..n /\ u[k].call = n + i BY <1>4, <1>5, <2>2, <3>1
    <3> QED BY <3>2
  <2>3. CASE \E h, i \in 1..b : j = Len(ms) + h /\ k = Len(ms) + i
    <3>1. PICK h \in 1..b, i \in 1..b : j = Len(ms) + h /\ k = Len(ms) + i BY <2>3
    <3>2. h < i BY <1>3, <1>7, <3>1
    <3>3. u[j].call = n + h /\ u[k].call = n + i BY <1>4, <3>1
    <3> QED BY <3>2, <3>3
  <2> QED BY <1>4, <2>1, <2>2, <2>3
<1>8. InOrder(u, n + b) BY <1>6, <1>7 DEF InOrder
<1> QED BY <1>1, <1>2, <1>8 DEF u

LEMMA NoReminderKept ==
  ASSUME NEW ms \in Seq(Msg), NEW t \in Seq(Msg), NoReminder(ms), NoReminder(t)
  PROVE  NoReminder(ms \o t)
<1> DEFINE u == ms \o t
<1>1. /\ \A k \in DOMAIN ms : u[k] = ms[k]
      /\ \A i \in DOMAIN t : u[Len(ms) + i] = t[i]
      /\ \A k \in DOMAIN u : k \in DOMAIN ms \/ \E i \in DOMAIN t : k = Len(ms) + i
  BY Places, Zenon
<1> HIDE DEF u
<1>2. NoReminder(u) BY <1>1 DEF NoReminder
<1> QED BY <1>2 DEF u

(* After a warning there is no second one. *)
LEMMA WarnedKept ==
  ASSUME NEW ms \in Seq(Msg), NEW t \in Seq(Msg), NEW k, NEW left, NEW n,
         Warned(ms, k, left, n), NoReminder(t)
  PROVE  Warned(ms \o t, k, left, n)
<1> DEFINE u == ms \o t
<1>0. Len(ms) \in Nat /\ DOMAIN ms = 1..Len(ms) /\ DOMAIN t = 1..Len(t) /\ Len(t) \in Nat OBVIOUS
<1>1. /\ \A j \in DOMAIN ms : j \in DOMAIN u /\ u[j] = ms[j] /\ j <= Len(ms)
      /\ \A i \in DOMAIN t : u[Len(ms) + i] = t[i]
      /\ \A j \in DOMAIN u : j \in DOMAIN ms \/ \E i \in DOMAIN t : j = Len(ms) + i
  BY Places, Zenon
<1> HIDE DEF u
<1>2. k \in DOMAIN ms /\ ms[k].kind = "reminder" /\ left <= n BY DEF Warned
<1>3. k \in DOMAIN u /\ u[k].kind = "reminder" BY <1>1, <1>2
<1>4. \A j \in DOMAIN u : u[j].kind = "reminder" => j = k
  BY <1>1 DEF Warned, NoReminder
<1>5. ASSUME NEW j \in AnswersOf(u), j < k PROVE u[j].call + left <= n
  <2>1. ~\E i \in DOMAIN t : j = Len(ms) + i BY <1>0, <1>2, <1>5
  <2>2. j \in AnswersOf(ms) /\ u[j] = ms[j] BY <1>1, <2>1 DEF AnswersOf
  <2> QED BY <1>5, <2>2 DEF Warned
<1>6. Warned(u, k, left, n) BY <1>2, <1>3, <1>4, <1>5 DEF Warned
<1> QED BY <1>6 DEF u

(* The warning is given when all calls made so far are answered. *)
LEMMA WarnedNow ==
  ASSUME NEW ms \in Seq(Msg), NEW n \in Nat, NoReminder(ms), InOrder(ms, n), NEW t,
         t = <<[kind |-> "reminder", call |-> 0]>>
  PROVE  t \in Seq(Msg) /\ AnswersOf(t) = {} /\ Warned(ms \o t, Len(ms) + 1, 0, n)
<1>0. Len(ms) \in Nat /\ DOMAIN ms = 1..Len(ms) OBVIOUS
<1>1. t \in Seq(Msg) /\ DOMAIN t = {1} /\ t[1].kind = "reminder"
  <2>1. [kind |-> "reminder", call |-> 0] \in Msg BY DEF Msg
  <2> QED BY <2>1
<1>2. AnswersOf(t) = {} BY <1>1 DEF AnswersOf
<1> DEFINE u == ms \o t
<1>3. /\ \A j \in DOMAIN ms : j \in DOMAIN u /\ u[j] = ms[j]
      /\ \A i \in DOMAIN t : Len(ms) + i \in DOMAIN u /\ u[Len(ms) + i] = t[i]
      /\ \A j \in DOMAIN u : j \in DOMAIN ms \/ \E i \in DOMAIN t : j = Len(ms) + i
  BY <1>1, Places, Zenon
<1> HIDE DEF u
<1>4. Len(ms) + 1 \in DOMAIN u /\ u[Len(ms) + 1].kind = "reminder" BY <1>1, <1>3
<1>5. \A j \in DOMAIN u : u[j].kind = "reminder" => j = Len(ms) + 1
  BY <1>1, <1>3 DEF NoReminder
<1>6. ASSUME NEW j \in AnswersOf(u) PROVE u[j].call + 0 <= n
  <2>1. j \in AnswersOf(ms) /\ u[j] = ms[j] BY <1>1, <1>3 DEF AnswersOf
  <2>2. ms[j].call \in 1..n BY <2>1 DEF InOrder
  <2> QED BY <2>1, <2>2
<1>7. Warned(u, Len(ms) + 1, 0, n) BY <1>4, <1>5, <1>6 DEF Warned
<1> QED BY <1>1, <1>2, <1>7 DEF u

(* One step later, with at least one more call answered. *)
LEMMA WarnedLonger ==
  ASSUME NEW ms \in Seq(Msg), NEW k, NEW left \in Nat, NEW n \in Nat, NEW b \in Nat, b > 0,
         Warned(ms, k, left, n)
  PROVE  Warned(ms, k, left + 1, n + b)
<1>1. ASSUME NEW j \in AnswersOf(ms), j < k PROVE ms[j].call + (left + 1) <= n + b
  <2>1. ms[j].call + left <= n BY <1>1 DEF Warned
  <2>2. ms[j] \in Msg BY DEF AnswersOf
  <2>3. ms[j].call \in Nat BY <2>2 DEF Msg
  <2> QED BY <2>1, <2>3
<1>2. left + 1 <= n + b BY DEF Warned
<1> QED BY <1>1, <1>2 DEF Warned
-----------------------------------------------------------------------------
LEMMA RepeatsFinite == IsFiniteSet((1..MaxCalls) \X (1..MaxAttempts))
<1>1. 1 \in Int /\ MaxCalls \in Int /\ MaxAttempts \in Int BY Constants
<1>2. IsFiniteSet(1..MaxCalls) /\ IsFiniteSet(1..MaxAttempts) BY <1>1, FS_Interval
<1> QED BY <1>2, FS_Product, Zenon

LEMMA RepeatsType ==
  IsFiniteSet(Repeats) /\ Cardinality(Repeats) \in Nat
<1>1. Repeats \subseteq (1..MaxCalls) \X (1..MaxAttempts) BY Zenon DEF Repeats
<1>2. IsFiniteSet(Repeats) BY <1>1, RepeatsFinite, FS_Subset
<1> QED BY <1>2, FS_CardinalityType

(* Repetitions that are forgotten free the budget of nothing. *)
LEMMA BudgetKept ==
  ASSUME BudgetCovers, used \in Nat, used' \in Nat, used <= used', Repeats' \subseteq Repeats
  PROVE  BudgetCovers'
<1>1. IsFiniteSet(Repeats) /\ Cardinality(Repeats) \in Nat BY RepeatsType
<1>2. Cardinality(Repeats') \in Nat /\ Cardinality(Repeats') <= Cardinality(Repeats)
  BY <1>1, FS_Subset, FS_CardinalityType
<1>3. PICK a \in Nat, b \in Nat, m \in Nat, n \in Nat :
        /\ a = used /\ b = used' /\ m = Cardinality(Repeats) /\ n = Cardinality(Repeats')
  BY <1>1, <1>2
<1>4. m <= a /\ n <= m /\ a <= b BY <1>2, <1>3, Zenon DEF BudgetCovers
<1>5. n <= b BY <1>4
<1> QED BY <1>3, <1>5, Zenon DEF BudgetCovers

LEMMA BudgetPays ==
  ASSUME BudgetCovers, used \in Nat, used' = used + 1, NEW p, Repeats' \subseteq Repeats \cup {p}
  PROVE  BudgetCovers'
<1>1. IsFiniteSet(Repeats) /\ Cardinality(Repeats) \in Nat BY RepeatsType
<1> DEFINE R == Repeats \cup {p}
<1>2. /\ IsFiniteSet(R) /\ Cardinality(R) \in Nat
      /\ Cardinality(R) = Cardinality(Repeats) \/ Cardinality(R) = Cardinality(Repeats) + 1
  BY <1>1, FS_AddElement, FS_CardinalityType
<1> HIDE DEF R
<1>3. Repeats' \subseteq R BY DEF R
<1>4. Cardinality(Repeats') \in Nat /\ Cardinality(Repeats') <= Cardinality(R)
  BY <1>2, <1>3, FS_Subset, FS_CardinalityType
<1>5. PICK a \in Nat, l \in Nat, m \in Nat, n \in Nat :
        /\ a = used /\ l = Cardinality(R) /\ m = Cardinality(Repeats) /\ n = Cardinality(Repeats')
  BY <1>1, <1>2, <1>4
<1>6. m <= a /\ (l = m \/ l = m + 1) /\ n <= l BY <1>2, <1>4, <1>5, Zenon DEF BudgetCovers
<1>7. n <= a + 1 BY <1>6
<1> QED BY <1>5, <1>7, Zenon DEF BudgetCovers
-----------------------------------------------------------------------------
LEMMA TypeFacts ==
  ASSUME TypeOK
  PROVE  /\ messages \in Seq(Msg) /\ batch \in Seq(Call)
         /\ calls \in Seq(Tools) /\ results \in Seq({"ok", "error", "denied"})
         /\ Len(calls) \in Nat /\ Len(results) \in Nat /\ Len(batch) \in Nat
         /\ DOMAIN batch = 1..Len(batch)
         /\ iteration \in Nat /\ used \in Nat /\ used <= MaxTotalRetries
         /\ denials \in 0..Len(results)
<1>1. used \in 0..MaxTotalRetries /\ MaxTotalRetries \in Nat BY Constants DEF TypeOK
<1> QED BY <1>1 DEF TypeOK, Msg, Call

LEMMA AgentInit == ASSUME Init PROVE AgentInv
<1>0. Len(<<>>) = 0 /\ DOMAIN <<>> = {} OBVIOUS
<1>1. TypeOK
  <2>1. {async, degraded} \subseteq BOOLEAN BY DEF Init
  <2>2. runs \in 0..MaxRuns /\ used \in 0..MaxTotalRetries BY Constants DEF Init
  <2>3. denials \in 0..Len(results) BY <1>0 DEF Init
  <2>4. messages = <<>> /\ calls = <<>> /\ results = <<>> /\ batch = <<>> BY DEF Init
  <2> QED BY <2>1, <2>2, <2>3, <2>4 DEF Init, TypeOK
<1>2. BatchInv BY Constants DEF Init, BatchInv
<1>3. OrderInv
  <2>1. AnswersOf(messages) = {} BY <1>0 DEF Init, AnswersOf
  <2> QED BY <1>0, <2>1 DEF Init, OrderInv, InOrder
<1>4. BudgetCovers
  <2>1. Repeats = {} BY DEF Init, Repeats
  <2>2. Cardinality(Repeats) = 0 BY <2>1, FS_EmptySet
  <2> QED BY <2>2 DEF Init, BudgetCovers
<1>5. NoticeInv BY Constants DEF Init, NoticeInv, Past
<1> QED BY <1>1, <1>2, <1>3, <1>4, <1>5 DEF AgentInv

LEMMA StartRunStep == ASSUME AgentInv, StartRun PROVE AgentInv'
<1>0. TypeOK /\ BatchInv /\ BudgetCovers BY DEF AgentInv
<1>1. /\ pc' = "top" /\ messages' = <<>> /\ calls' = <<>> /\ results' = <<>> /\ batch' = <<>>
      /\ iteration' = 0 /\ used' = used /\ batch' = batch /\ batch = <<>>
  BY <1>0 DEF StartRun, BatchInv
<1>2. TypeOK'
  <2>1. runs' \in 0..MaxRuns BY <1>0, Constants DEF StartRun, TypeOK
  <2>2. {async', degraded'} \subseteq BOOLEAN BY DEF StartRun
  <2> QED BY <1>0, <1>1, <2>1, <2>2 DEF StartRun, TypeOK
<1>3. BatchInv' BY <1>0, <1>1, Constants DEF BatchInv
<1>4. OrderInv'
  <2>1. AnswersOf(messages') = {} BY <1>1 DEF AnswersOf
  <2> QED BY <1>1, <2>1 DEF OrderInv, InOrder
<1>5. BudgetCovers'
  <2>1. Repeats' = Repeats BY <1>1 DEF Repeats
  <2> QED BY <1>0, <1>1, <2>1 DEF BudgetCovers
<1>6. NoticeInv' BY <1>1, Constants DEF NoticeInv, Past, NoReminder
<1> QED BY <1>2, <1>3, <1>4, <1>5, <1>6 DEF AgentInv

LEMMA ExitStep == ASSUME AgentInv, Exit PROVE AgentInv'
<1>0. TypeOK /\ BatchInv /\ OrderInv /\ BudgetCovers /\ NoticeInv BY DEF AgentInv
<1>1. /\ pc = "top" /\ pc' = "idle"
      /\ UNCHANGED <<async, runs, messages, calls, results, denials, iteration, degraded,
                     allowed, offered, batch, used>>
  BY DEF Exit, state
<1>2. PICK k \in TrippedAt : reason' = ExitConditions[k] BY DEF Exit
<1>3. k \in DOMAIN ExitConditions /\ Tripped(ExitConditions[k]) BY <1>2, Zenon DEF TrippedAt
<1>4. reason' \in {"max_steps", "no_progress", "explicit_exit", "denial_threshold"}
  BY <1>2, <1>3, AgentAssumption
<1>5. reason' = "max_steps" => iteration >= MaxSteps BY <1>2, <1>3, Zenon DEF Tripped
<1>6. TypeOK' BY <1>0, <1>1, <1>4 DEF TypeOK
<1>7. BatchInv' BY <1>0, <1>1 DEF BatchInv
<1>8. OrderInv' BY <1>0, <1>1 DEF OrderInv, InOrder, AnswersOf
<1>9. BudgetCovers' BY <1>0, <1>1 DEF BudgetCovers, Repeats
<1>10. NoticeInv'
  <2>1. Past' => Past BY <1>1 DEF Past, WarnAt
  <2>2. Capped' <=> Capped BY DEF Capped
  <2>3. reason' = "max_steps" => Capped /\ iteration >= MaxSteps BY <1>2, <1>3, <1>5 DEF Capped
  <2>4. WarnAt' = WarnAt BY DEF WarnAt
  <2> QED BY <1>0, <1>1, <2>1, <2>2, <2>3, <2>4 DEF NoticeInv
<1> QED BY <1>6, <1>7, <1>8, <1>9, <1>10 DEF AgentInv

(* A warning goes in front of the request at the one iteration for it. *)
LEMMA AskModelStep == ASSUME AgentInv, AskModel PROVE AgentInv'
<1>0. TypeOK /\ BatchInv /\ OrderInv /\ BudgetCovers /\ NoticeInv BY DEF AgentInv
<1>1. /\ pc = "top" /\ pc' = "chat" /\ degraded' = (degraded \/ ShouldDegrade)
      /\ allowed' = (IF degraded' THEN ReadOnlyTools ELSE {})
      /\ offered' = FilteredTools
      /\ UNCHANGED <<async, runs, reason, calls, results, denials, iteration, batch, used>>
  BY DEF AskModel
<1> DEFINE notice == IF degraded' # degraded THEN <<[kind |-> "notice", call |-> 0]>> ELSE <<>>
<1>2. messages' = (messages \o Reminder) \o notice BY DEF AskModel
<1>3. notice \in Seq(Msg) /\ AnswersOf(notice) = {} /\ NoReminder(notice)
  <2>1. CASE notice = <<[kind |-> "notice", call |-> 0]>>
    <3>1. [kind |-> "notice", call |-> 0] \in Msg BY DEF Msg
    <3>2. notice \in Seq(Msg) /\ DOMAIN notice = {1} /\ notice[1].kind = "notice" BY <2>1, <3>1
    <3> QED BY <3>2 DEF AnswersOf, NoReminder
  <2>2. CASE notice = <<>> BY <2>2 DEF AnswersOf, NoReminder
  <2> QED BY <2>1, <2>2
<1> HIDE DEF notice
<1>4. /\ messages \in Seq(Msg) /\ Len(results) \in Nat /\ iteration \in Nat
      /\ InOrder(messages, Len(results)) /\ WarnAt \in Nat
  BY <1>0, TypeFacts, Constants DEF OrderInv
<1> DEFINE sent == messages \o Reminder
<1>5. /\ sent \in Seq(Msg) /\ InOrder(sent, Len(results))
      /\ Capped /\ iteration >= WarnAt =>
           \E k \in DOMAIN sent : Warned(sent, k, iteration - WarnAt, Len(results))
      /\ ~(iteration >= WarnAt) => NoReminder(sent)
  <2>1. CASE iteration = WarnAt /\ Capped
    <3>1. Reminder = <<[kind |-> "reminder", call |-> 0]>> BY <2>1, Zenon DEF Reminder, Capped
    <3>2. NoReminder(messages) BY <1>0, <1>1, <1>4, <2>1 DEF NoticeInv, Past
    <3>3. /\ Reminder \in Seq(Msg) /\ AnswersOf(Reminder) = {}
          /\ Warned(sent, Len(messages) + 1, 0, Len(results))
      BY <1>4, <3>1, <3>2, WarnedNow
    <3>4. sent \in Seq(Msg) BY <1>4, <3>3, ConcatProperties
    <3>5. InOrder(sent, Len(results)) BY <1>4, <3>3, InOrderKept
    <3>6. iteration - WarnAt = 0 BY <1>4, <2>1
    <3>7. Len(messages) + 1 \in DOMAIN sent BY <3>3 DEF Warned
    <3> QED BY <1>4, <2>1, <3>3, <3>4, <3>5, <3>6, <3>7
  <2>2. CASE ~(iteration = WarnAt /\ Capped)
    <3>1. Reminder = <<>> BY <2>2, Zenon DEF Reminder, Capped
    <3>2. sent = messages BY <1>4, <3>1
    <3>3. iteration > WarnAt => Past BY DEF Past
    <3>4. ~(iteration >= WarnAt) => ~Past BY <1>4 DEF Past
    <3>5. Capped /\ iteration >= WarnAt => iteration > WarnAt BY <1>4, <2>2
    <3>6. Capped /\ iteration >= WarnAt =>
           \E k \in DOMAIN messages : Warned(messages, k, iteration - WarnAt, Len(results))
      BY <1>0, <3>3, <3>5 DEF NoticeInv
    <3>7. ~(iteration >= WarnAt) => NoReminder(messages) BY <1>0, <1>1, <3>4 DEF NoticeInv
    <3> QED BY <1>4, <3>2, <3>6, <3>7
  <2> QED BY <2>1, <2>2
<1> HIDE DEF sent
<1>6. messages' = sent \o notice BY <1>2 DEF sent
<1>7. messages' \in Seq(Msg) /\ InOrder(messages', Len(results))
  BY <1>3, <1>5, <1>6, InOrderKept, ConcatProperties
<1>8. Capped /\ iteration >= WarnAt =>
        \E k \in DOMAIN messages' : Warned(messages', k, iteration - WarnAt, Len(results))
  <2> SUFFICES ASSUME Capped, iteration >= WarnAt
               PROVE  \E k \in DOMAIN messages' :
                        Warned(messages', k, iteration - WarnAt, Len(results))
    OBVIOUS
  <2>1. PICK k \in DOMAIN sent : Warned(sent, k, iteration - WarnAt, Len(results)) BY <1>5
  <2>2. Warned(messages', k, iteration - WarnAt, Len(results))
    BY <1>3, <1>5, <1>6, <2>1, WarnedKept
  <2>3. k \in DOMAIN messages' BY <2>2 DEF Warned
  <2> QED BY <2>2, <2>3
<1>9. ~(iteration >= WarnAt) => NoReminder(messages') BY <1>3, <1>5, <1>6, NoReminderKept
<1>10. NoticeInv'
  <2>1. Past' <=> iteration >= WarnAt BY <1>1, <1>4 DEF Past, WarnAt
  <2>2. WarnAt' = WarnAt /\ Capped' = Capped BY DEF WarnAt, Capped
  <2> QED BY <1>1, <1>8, <1>9, <2>1, <2>2 DEF NoticeInv
<1>11. TypeOK'
  <2>1. {async', degraded'} \subseteq BOOLEAN BY <1>0, <1>1 DEF TypeOK
  <2>2. allowed' \subseteq Tools /\ offered' \subseteq Tools
    BY <1>1, AgentAssumption DEF FilteredTools
  <2> QED BY <1>0, <1>1, <1>7, <2>1, <2>2 DEF TypeOK, Msg
<1>12. BatchInv' BY <1>0, <1>1 DEF BatchInv
<1>13. OrderInv' BY <1>0, <1>1, <1>7 DEF OrderInv
<1>14. BudgetCovers' BY <1>0, <1>1 DEF BudgetCovers, Repeats
<1> QED BY <1>10, <1>11, <1>12, <1>13, <1>14 DEF AgentInv

LEMMA ModelRepliesStep == ASSUME AgentInv, ModelReplies PROVE AgentInv'
<1>0. TypeOK /\ BatchInv /\ OrderInv /\ BudgetCovers /\ NoticeInv BY DEF AgentInv
<1>1. /\ pc = "chat"
      /\ UNCHANGED <<async, runs, messages, results, denials, iteration, degraded,
                     allowed, offered, used>>
  BY DEF ModelReplies
<1>2. PICK n \in 0..MaxCalls : \E tcs \in [1..n -> Tools] :
       /\ calls' = calls \o tcs
       /\ batch' = [i \in 1..n |->
            [tool |-> tcs[i], attempt |-> 0, st |-> "running", result |-> "none"]]
       /\ pc' = IF n = 0 THEN "idle" ELSE "tools"
       /\ reason' = IF n = 0 THEN "model_responded" ELSE reason
  BY DEF ModelReplies
<1>3. PICK tcs \in [1..n -> Tools] :
       /\ calls' = calls \o tcs
       /\ batch' = [i \in 1..n |->
            [tool |-> tcs[i], attempt |-> 0, st |-> "running", result |-> "none"]]
       /\ pc' = IF n = 0 THEN "idle" ELSE "tools"
       /\ reason' = IF n = 0 THEN "model_responded" ELSE reason
  BY <1>2
<1>4. /\ calls \in Seq(Tools) /\ Len(calls) \in Nat /\ Len(results) \in Nat
      /\ n \in Nat /\ n <= MaxCalls /\ used \in Nat /\ MaxAttempts \in Nat
  BY <1>0, TypeFacts, Constants
<1>5. tcs \in Seq(Tools) /\ Len(tcs) = n BY <1>3, <1>4
<1>6. calls' \in Seq(Tools) /\ Len(calls') = Len(calls) + n
  BY <1>3, <1>4, <1>5, ConcatProperties
<1>7. /\ batch' \in Seq(Call) /\ Len(batch') = n /\ DOMAIN batch' = 1..n
      /\ \A i \in 1..n : batch'[i].attempt = 0 /\ batch'[i].st = "running"
  <2>1. \A i \in 1..n : [tool |-> tcs[i], attempt |-> 0, st |-> "running", result |-> "none"] \in Call
    BY <1>4 DEF Call
  <2> QED BY <1>3, <1>4, <2>1
<1>8. TypeOK'
  <2>1. reason' \in {"none", "model_responded", "max_steps", "no_progress", "explicit_exit",
                     "denial_threshold"}
        /\ pc' \in {"idle", "tools"}
    BY <1>0, <1>3 DEF TypeOK
  <2> QED BY <1>0, <1>1, <1>6, <1>7, <2>1 DEF TypeOK, Call
<1>9. BatchInv'
  <2>1. n = 0 => batch' = <<>> BY <1>7
  <2> QED BY <1>3, <1>4, <1>7, <2>1 DEF BatchInv
<1>10. OrderInv'
  <2>1. Len(batch) = 0 BY <1>0, <1>1 DEF BatchInv
  <2>2. Len(results) = Len(calls) BY <1>0, <1>4, <2>1 DEF OrderInv
  <2>3. Len(results') + Len(batch') = Len(calls') BY <1>1, <1>4, <1>6, <1>7, <2>2
  <2> QED BY <1>0, <1>1, <2>3 DEF OrderInv
<1>11. BudgetCovers'
  <2>1. Repeats' = {}
    <3>1. \A p \in (1..MaxCalls) \X (1..MaxAttempts) :
            ~(p[1] \in DOMAIN batch' /\ p[2] <= batch'[p[1]].attempt)
      BY <1>7, Constants
    <3> QED BY <3>1 DEF Repeats
  <2>2. Cardinality(Repeats') = 0 BY <2>1, FS_EmptySet
  <2> QED BY <1>1, <1>4, <2>2 DEF BudgetCovers
<1>12. NoticeInv'
  <2>1. WarnAt' = WarnAt /\ Capped' = Capped BY DEF WarnAt, Capped
  <2>2. Past' => Past BY <1>1, <2>1 DEF Past
  <2>3. pc' # "idle" => (Past' <=> Past) BY <1>1, <1>3, <2>1 DEF Past
  <2>4. pc' = "idle" => reason' # "max_steps" BY <1>3
  <2> QED BY <1>0, <1>1, <2>1, <2>2, <2>3, <2>4 DEF NoticeInv
<1> QED BY <1>8, <1>9, <1>10, <1>11, <1>12 DEF AgentInv

(* A step of one of the gathered calls changes nothing but this call, and what
   is left of the budget. *)
LEMMA CallStep ==
  ASSUME AgentInv, pc = "tools", NEW i \in DOMAIN batch, NEW b \in Call, Set(i, b),
         b.st = "done" => b.result # "none",
         UNCHANGED <<pc, async, runs, reason, state, offered>>,
         \/ b.attempt <= batch[i].attempt /\ (used' = used \/ used' = used + 1)
         \/ b.attempt = batch[i].attempt + 1 /\ used' = used + 1,
         used' \in 0..MaxTotalRetries
  PROVE  AgentInv'
<1>0. TypeOK /\ BatchInv /\ OrderInv /\ BudgetCovers /\ NoticeInv BY DEF AgentInv
<1>1. UNCHANGED <<messages, calls, results, denials, iteration, degraded, allowed>> BY DEF state
<1>2. /\ batch \in Seq(Call) /\ Len(batch) \in Nat /\ DOMAIN batch = 1..Len(batch)
      /\ used \in Nat /\ used' \in Nat /\ MaxAttempts \in Nat
  BY <1>0, TypeFacts, Constants
<1>3. /\ batch' \in Seq(Call) /\ Len(batch') = Len(batch) /\ DOMAIN batch' = DOMAIN batch
      /\ batch'[i] = b /\ \A j \in DOMAIN batch : j # i => batch'[j] = batch[j]
  BY <1>2 DEF Set
<1>4. TypeOK' BY <1>0, <1>1, <1>3 DEF TypeOK, Call
<1>5. BatchInv' BY <1>0, <1>2, <1>3 DEF BatchInv
<1>6. OrderInv' BY <1>0, <1>1, <1>3 DEF OrderInv
<1>7. NoticeInv'
  <2>1. WarnAt' = WarnAt /\ Capped' = Capped /\ (Past' <=> Past) BY <1>1 DEF WarnAt, Capped, Past
  <2> QED BY <1>0, <1>1, <2>1 DEF NoticeInv
<1>8. BudgetCovers'
  <2>0. batch[i].attempt \in Nat /\ b.attempt \in Nat
    <3>1. batch[i] \in Call BY <1>2
    <3>2. batch[i].attempt \in 0..MaxAttempts /\ b.attempt \in 0..MaxAttempts BY <3>1 DEF Call
    <3> QED BY <1>2, <3>2
  <2>1. CASE b.attempt <= batch[i].attempt /\ (used' = used \/ used' = used + 1)
    <3>1. ASSUME NEW p \in (1..MaxCalls) \X (1..MaxAttempts), p[1] \in DOMAIN batch',
                 p[2] <= batch'[p[1]].attempt
          PROVE  p[1] \in DOMAIN batch /\ p[2] <= batch[p[1]].attempt
      <4>1. p[2] \in Nat BY <3>1, Constants
      <4>2. CASE p[1] = i BY <1>3, <2>0, <2>1, <3>1, <4>1, <4>2
      <4>3. CASE p[1] # i BY <1>3, <3>1, <4>3
      <4> QED BY <4>2, <4>3
    <3>2. Repeats' \subseteq Repeats BY <3>1, Zenon DEF Repeats
    <3>3. used <= used' BY <1>2, <2>1
    <3> QED BY <1>0, <1>2, <3>2, <3>3, BudgetKept
  <2>2. CASE b.attempt = batch[i].attempt + 1 /\ used' = used + 1
    <3>1. ASSUME NEW p \in (1..MaxCalls) \X (1..MaxAttempts), p[1] \in DOMAIN batch',
                 p[2] <= batch'[p[1]].attempt
          PROVE  (p[1] \in DOMAIN batch /\ p[2] <= batch[p[1]].attempt) \/ p = <<i, b.attempt>>
      <4>1. p[2] \in Nat /\ p = <<p[1], p[2]>> BY <3>1, Constants
      <4>2. CASE p[1] = i
        <5>1. p[2] <= b.attempt BY <1>3, <3>1, <4>2
        <5>2. p[2] <= batch[i].attempt \/ p[2] = b.attempt BY <2>0, <2>2, <4>1, <5>1
        <5> QED BY <1>3, <4>1, <4>2, <5>2
      <4>3. CASE p[1] # i BY <1>3, <3>1, <4>3
      <4> QED BY <4>2, <4>3
    <3>2. Repeats' \subseteq Repeats \cup {<<i, b.attempt>>} BY <3>1, Zenon DEF Repeats
    <3> QED BY <1>0, <1>2, <2>2, <3>2, BudgetPays
  <2> QED BY <2>1, <2>2
<1> QED BY <1>4, <1>5, <1>6, <1>7, <1>8 DEF AgentInv

LEMMA TaskStep == ASSUME AgentInv, NEW i \in 1..MaxCalls, Task(i) PROVE AgentInv'
<1>0. TypeOK BY DEF AgentInv
<1>1. /\ pc = "tools" /\ i \in DOMAIN batch
      /\ UNCHANGED <<pc, async, runs, reason, state, offered>>
  BY DEF Task, AttemptReturns, AttemptRaises, Wake, Turn
<1>2. /\ batch[i] \in Call /\ used \in Nat /\ used <= MaxTotalRetries /\ MaxTotalRetries \in Nat
      /\ MaxAttempts \in Nat
  BY <1>0, <1>1, TypeFacts, Constants
<1>3. batch[i].attempt \in 0..MaxAttempts /\ batch[i].tool \in Tools BY <1>2 DEF Call
<1>4. used \in 0..MaxTotalRetries /\ (CanRetry => used + 1 \in 0..MaxTotalRetries)
  BY <1>2 DEF CanRetry
<1>5. ASSUME NEW r \in {"ok", "error", "denied"}, Done(i, r), used' = used PROVE AgentInv'
  <2> DEFINE b == [batch[i] EXCEPT !.st = "done", !.result = r]
  <2>1. Set(i, b) BY <1>5 DEF Done
  <2>2. b \in Call /\ b.result = r /\ b.attempt = batch[i].attempt BY <1>2 DEF Call
  <2> HIDE DEF b
  <2>3. b.attempt <= batch[i].attempt BY <1>2, <1>3, <2>2
  <2> QED BY <1>1, <1>4, <1>5, <2>1, <2>2, <2>3, CallStep
<1>6. CASE AttemptReturns(i) BY <1>5, <1>6 DEF AttemptReturns
<1>7. CASE Wake(i)
  <2> DEFINE b == [batch[i] EXCEPT !.st = "running"]
  <2>1. Set(i, b) /\ used' = used BY <1>7 DEF Wake
  <2>2. b \in Call /\ b.st = "running" /\ b.attempt = batch[i].attempt BY <1>2 DEF Call
  <2> HIDE DEF b
  <2>3. b.attempt <= batch[i].attempt BY <1>2, <1>3, <2>2
  <2> QED BY <1>1, <1>4, <2>1, <2>2, <2>3, CallStep
<1>8. ASSUME NEW err, Retry(i, err), batch[i].st = "running" PROVE AgentInv'
  <2>1. PICK st \in {"sleeping", "running"} :
          Set(i, [batch[i] EXCEPT !.attempt = @ + 1, !.st = st])
    BY <1>8 DEF Retry
  <2>2. CanRetry /\ batch[i].attempt < MaxAttempts /\ used' = used + 1
    BY <1>8 DEF Retry, ShouldRetry
  <2>3. batch[i].attempt + 1 \in 0..MaxAttempts BY <1>2, <1>3, <2>2
  <2> DEFINE b == [batch[i] EXCEPT !.attempt = @ + 1, !.st = st]
  <2>4. Set(i, b) BY <2>1
  <2>5. b \in Call /\ b.st # "done" /\ b.attempt = batch[i].attempt + 1 BY <1>2, <2>3 DEF Call
  <2> HIDE DEF b
  <2> QED BY <1>1, <1>4, <2>2, <2>4, <2>5, CallStep
<1>9. ASSUME NEW err, Fallback(i, err), batch[i].st = "running" PROVE AgentInv'
  <2> DEFINE b == [batch[i] EXCEPT !.tool = FallbackMap[@], !.attempt = 0]
  <2>1. Set(i, b) /\ CanRetry /\ used' = used + 1 /\ batch[i].tool \in DOMAIN FallbackMap
    BY <1>9 DEF Fallback
  <2>2. FallbackMap[batch[i].tool] \in Tools /\ 0 \in 0..MaxAttempts
    BY <1>2, <2>1, AgentAssumption
  <2>3. b \in Call /\ b.st = "running" /\ b.attempt = 0 BY <1>2, <1>9, <2>2 DEF Call
  <2> HIDE DEF b
  <2>4. b.attempt <= batch[i].attempt BY <1>2, <1>3, <2>3
  <2> QED BY <1>1, <1>4, <2>1, <2>3, <2>4, CallStep
<1>10. CASE AttemptRaises(i)
  BY <1>5, <1>8, <1>9, <1>10 DEF AttemptRaises, Surface
<1> QED BY <1>6, <1>7, <1>10 DEF Task

LEMMA UpTo ==
  ASSUME NEW n \in Nat
  PROVE  IsFiniteSet(1..n) /\ Cardinality(1..n) = n
<1>1. IsFiniteSet(1..n) /\ Cardinality(1..n) = IF 1 > n THEN 0 ELSE n - 1 + 1
  <2>1. 1 \in Int /\ n \in Int OBVIOUS
  <2> QED BY <2>1, FS_Interval, Zenon
<1>2. n = IF 1 > n THEN 0 ELSE n - 1 + 1 OBVIOUS
<1> QED BY <1>1, <1>2

LEMMA RecordedStep == ASSUME AgentInv, Recorded PROVE AgentInv'
<1>0. TypeOK /\ BatchInv /\ OrderInv /\ BudgetCovers /\ NoticeInv BY DEF AgentInv
<1> DEFINE new == [i \in 1..Len(batch) |-> batch[i].result]
<1>1. /\ pc = "tools" /\ \A i \in DOMAIN batch : batch[i].st = "done"
      /\ pc' = "top" /\ results' = results \o new
      /\ messages' = messages \o Answered(Len(results))
      /\ denials' = denials + Denied /\ iteration' = iteration + 1 /\ batch' = <<>>
      /\ UNCHANGED <<async, runs, reason, calls, degraded, allowed, offered, used>>
  BY DEF Recorded
<1>2. /\ messages \in Seq(Msg) /\ batch \in Seq(Call)
      /\ results \in Seq({"ok", "error", "denied"}) /\ Len(results) \in Nat
      /\ Len(batch) \in Nat /\ Len(calls) \in Nat /\ DOMAIN batch = 1..Len(batch)
      /\ iteration \in Nat /\ WarnAt \in Nat /\ denials \in 0..Len(results) /\ used \in Nat
      /\ Len(batch) > 0
  BY <1>0, <1>1, TypeFacts, Constants DEF BatchInv
<1>3. new \in Seq({"ok", "error", "denied"}) /\ Len(new) = Len(batch)
  <2>1. ASSUME NEW i \in 1..Len(batch) PROVE batch[i].result \in {"ok", "error", "denied"}
    <3>1. batch[i] \in Call BY <1>2
    <3>2. batch[i].result # "none" BY <1>0, <1>1, <1>2 DEF BatchInv
    <3> QED BY <3>1, <3>2 DEF Call
  <2> QED BY <1>2, <2>1
<1> HIDE DEF new
<1>4. results' \in Seq({"ok", "error", "denied"}) /\ Len(results') = Len(results) + Len(batch)
  <2>1. /\ results \o new \in Seq({"ok", "error", "denied"})
        /\ Len(results \o new) = Len(results) + Len(new)
    BY <1>2, <1>3, ConcatProperties
  <2>2. results' = results \o new BY <1>1 DEF new
  <2> QED BY <1>3, <2>1, <2>2
<1> DEFINE t == Answered(Len(results))
<1>5. t = [i \in 1..Len(batch) |-> [kind |-> "tool", call |-> Len(results) + i]] BY DEF Answered
<1> HIDE DEF t
<1>6. t \in Seq(Msg) /\ NoReminder(t) /\ InOrder(messages \o t, Len(results) + Len(batch))
  BY <1>0, <1>2, <1>5, InOrderAnswers DEF OrderInv
<1>7. messages' = messages \o t BY <1>1 DEF t
<1>8. messages' \in Seq(Msg) BY <1>2, <1>6, <1>7, ConcatProperties
<1>9. Denied \in 0..Len(batch)
  <2> DEFINE D == {i \in DOMAIN batch : batch[i].result = "denied"}
  <2>2. IsFiniteSet(1..Len(batch)) /\ Cardinality(1..Len(batch)) = Len(batch)
    BY <1>2, UpTo
  <2>3. D \subseteq 1..Len(batch) BY <1>2
  <2>4. Cardinality(D) \in Nat /\ Cardinality(D) <= Len(batch)
    BY <2>2, <2>3, FS_Subset, FS_CardinalityType
  <2> QED BY <1>2, <2>4 DEF Denied
<1>10. denials' \in 0..Len(results') BY <1>1, <1>2, <1>4, <1>9
<1>11. TypeOK' BY <1>0, <1>1, <1>2, <1>4, <1>8, <1>10 DEF TypeOK, Msg
<1>12. BatchInv' BY <1>1, Constants DEF BatchInv
<1>13. OrderInv'
  <2>1. Len(results) + Len(batch) = Len(calls) BY <1>0 DEF OrderInv
  <2>2. Len(batch') = 0 BY <1>1
  <2>3. Len(results') + Len(batch') = Len(calls') BY <1>1, <1>2, <1>4, <2>1, <2>2
  <2> QED BY <1>4, <1>6, <1>7, <2>3 DEF OrderInv
<1>14. BudgetCovers'
  <2>1. Repeats' = {} BY <1>1 DEF Repeats
  <2>2. Cardinality(Repeats') = 0 BY <2>1, FS_EmptySet
  <2> QED BY <1>1, <1>2, <2>2 DEF BudgetCovers
<1>15. NoticeInv'
  <2>1. WarnAt' = WarnAt /\ Capped' = Capped BY DEF WarnAt, Capped
  <2>2. Past' <=> Past BY <1>1, <1>2, <2>1 DEF Past
  <2>3. ASSUME Capped, Past
        PROVE  \E k \in DOMAIN messages' : Warned(messages', k, iteration' - WarnAt, Len(results'))
    <3>1. PICK k \in DOMAIN messages : Warned(messages, k, iteration - WarnAt, Len(results))
      BY <1>0, <2>3 DEF NoticeInv
    <3>2. iteration - WarnAt \in Nat BY <1>2, <2>3 DEF Past
    <3>3. Warned(messages, k, (iteration - WarnAt) + 1, Len(results) + Len(batch))
      BY <1>2, <3>1, <3>2, WarnedLonger
    <3>4. (iteration - WarnAt) + 1 = iteration' - WarnAt BY <1>1, <1>2
    <3>5. Warned(messages, k, iteration' - WarnAt, Len(results')) BY <1>4, <3>3, <3>4
    <3>6. Warned(messages', k, iteration' - WarnAt, Len(results'))
      BY <1>2, <1>6, <1>7, <3>5, WarnedKept
    <3>7. k \in DOMAIN messages' BY <3>6 DEF Warned
    <3> QED BY <3>6, <3>7
  <2>4. ~Past => NoReminder(messages')
    BY <1>0, <1>1, <1>2, <1>6, <1>7, NoReminderKept DEF NoticeInv
  <2> QED BY <1>1, <2>1, <2>2, <2>3, <2>4 DEF NoticeInv
<1> QED BY <1>11, <1>12, <1>13, <1>14, <1>15 DEF AgentInv

LEMMA AgentStep == AgentInv /\ [Next]_vars => AgentInv'
<1> SUFFICES ASSUME AgentInv, [Next]_vars PROVE AgentInv' OBVIOUS
<1>1. CASE UNCHANGED vars
  <2>1. UNCHANGED <<pc, async, runs, reason, messages, calls, results, denials, iteration,
                    degraded, allowed, offered, batch, used>>
    BY <1>1 DEF vars, state
  <2>2. TypeOK' /\ BatchInv' /\ OrderInv'
    BY <2>1 DEF AgentInv, TypeOK, BatchInv, OrderInv
  <2>3. Repeats' = Repeats BY <2>1 DEF Repeats
  <2>4. BudgetCovers' BY <2>1, <2>3 DEF AgentInv, BudgetCovers
  <2>5. WarnAt' = WarnAt /\ Capped' = Capped /\ (Past' <=> Past)
    BY <2>1 DEF WarnAt, Capped, Past
  <2>6. NoticeInv' BY <2>1, <2>5 DEF AgentInv, NoticeInv
  <2> QED BY <2>2, <2>4, <2>6 DEF AgentInv
<1>2. CASE StartRun BY <1>2, StartRunStep
<1>3. CASE Exit BY <1>3, ExitStep
<1>4. CASE AskModel BY <1>4, AskModelStep
<1>5. CASE ModelReplies BY <1>5, ModelRepliesStep
<1>6. CASE Recorded BY <1>6, RecordedStep
<1>7. ASSUME NEW i \in 1..MaxCalls, Task(i) PROVE AgentInv' BY <1>7, TaskStep
<1> QED BY <1>1, <1>2, <1>3, <1>4, <1>5, <1>6, <1>7 DEF Next, Step

(* The inductive invariant of the tool-calling loop (Agent.run, run_async). *)
THEOREM AgentInvariant == Spec => []AgentInv
<1> QED BY AgentInit, AgentStep, PTL DEF Spec

(* The state of a run has its type: at no time is more than the budget used,
   or are more denials recorded than results. *)
THEOREM AgentIsTyped == Spec => []TypeOK
<1>1. AgentInv => TypeOK BY DEF AgentInv
<1> QED BY <1>1, AgentInvariant, PTL

(* run and run_async: between two replies every call of the model is answered
   once, in the order of the calls, in whatever order gathered calls finish. *)
THEOREM CallsAnsweredInOrder == Spec => []AnsweredInOrder
<1>1. ASSUME AgentInv, pc # "tools"
      PROVE  /\ {messages[k].call : k \in Answers} = DOMAIN calls
             /\ \A j, k \in Answers : j < k => messages[j].call < messages[k].call
             /\ Len(results) = Len(calls)
  <2>1. TypeOK /\ BatchInv /\ OrderInv BY <1>1 DEF AgentInv
  <2>2. Len(results) \in Nat /\ Len(calls) \in Nat /\ DOMAIN calls = 1..Len(calls)
    BY <2>1 DEF TypeOK
  <2>3. Len(batch) = 0 BY <1>1, <2>1 DEF BatchInv
  <2>4. Len(results) = Len(calls) BY <2>1, <2>2, <2>3 DEF OrderInv
  <2>5. Answers = AnswersOf(messages) BY DEF Answers, AnswersOf
  <2>6. InOrder(messages, Len(calls)) BY <2>1, <2>4 DEF OrderInv
  <2> QED BY <2>2, <2>4, <2>5, <2>6 DEF InOrder
<1>2. AgentInv => AnsweredInOrder BY <1>1 DEF AnsweredInOrder
<1> QED BY <1>2, AgentInvariant, PTL

(* RetryBudget: however many calls are retried at once, each attempt after the
   first is paid for. *)
THEOREM BudgetCoversRepeats == Spec => []BudgetCovers
<1>1. AgentInv => BudgetCovers BY DEF AgentInv
<1> QED BY <1>1, AgentInvariant, PTL

(* MaxStepsReached: a run cut off at its cap was warned exactly once, and at
   least the promised number of calls came after the warning. *)
THEOREM NobodyCutUnwarned == Spec => []CutWithNotice
<1>1. ASSUME AgentInv, pc = "idle", reason = "max_steps", WarningOffset > 0
      PROVE  \E k \in DOMAIN messages :
               /\ messages[k].kind = "reminder"
               /\ \A j \in DOMAIN messages : messages[j].kind = "reminder" => j = k
               /\ \A n \in {0} \cup {messages[j].call : j \in {j \in Answers : j < k}} :
                    n + Min(MaxSteps, WarningOffset) <= Len(calls)
  <2>1. TypeOK /\ BatchInv /\ OrderInv /\ NoticeInv BY <1>1 DEF AgentInv
  <2>2. iteration \in Nat /\ Len(results) \in Nat /\ messages \in Seq(Msg)
    BY <2>1, TypeFacts
  <2>3. Len(results) = Len(calls)
    <3>1. Len(batch) = 0 /\ Len(calls) \in Nat BY <1>1, <2>1 DEF BatchInv, TypeOK
    <3> QED BY <2>1, <2>2, <3>1 DEF OrderInv
  <2>4. Capped /\ iteration >= MaxSteps BY <1>1, <2>1 DEF NoticeInv
  <2> DEFINE m == Min(MaxSteps, WarningOffset)
             left == iteration - WarnAt
  <2>5. Past /\ left \in Nat /\ m \in Nat /\ m <= left
    BY <1>1, <2>2, <2>4, Constants DEF Past, Min
  <2>6. PICK k \in DOMAIN messages : Warned(messages, k, left, Len(results))
    BY <2>1, <2>4, <2>5 DEF NoticeInv
  <2> HIDE DEF m, left
  <2>7. ASSUME NEW n \in {0} \cup {messages[j].call : j \in {j \in Answers : j < k}}
        PROVE  n + m <= Len(calls)
    <3>1. CASE n = 0
      <4>1. left <= Len(results) /\ 0 + m = m BY <2>5, <2>6 DEF Warned
      <4> QED BY <2>2, <2>3, <2>5, <3>1, <4>1
    <3>2. CASE n # 0
      <4>1. PICK j \in Answers : j < k /\ n = messages[j].call BY <2>7, <3>2
      <4>2. j \in AnswersOf(messages) /\ j \in DOMAIN messages BY <4>1 DEF Answers, AnswersOf
      <4>3. n \in Nat
        <5>1. messages[j] \in Msg BY <2>2, <4>2
        <5> QED BY <4>1, <5>1 DEF Msg
      <4>4. n + left <= Len(results) BY <2>6, <4>1, <4>2 DEF Warned
      <4> QED BY <2>2, <2>3, <2>5, <4>3, <4>4
    <3> QED BY <3>1, <3>2
  <2> QED BY <2>6, <2>7 DEF Warned, m
<1>2. AgentInv => CutWithNotice BY <1>1 DEF CutWithNotice
<1> QED BY <1>2, AgentInvariant, PTL
=============================================================================
