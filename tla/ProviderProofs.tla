---------------------------- MODULE ProviderProofs ----------------------------
(***************************************************************************)
(* Proofs about Provider, for any finite number of requests, any window,   *)
(* any retry budgets and any concurrency: the sliding window holds, no     *)
(* slot is lost or made up, and a stop is the last event of its stream.    *)
(***************************************************************************)
EXTENDS Provider, FiniteSetTheorems, SequenceTheorems, WellFoundedInduction, TLAPS

(* The timestamps s are in the order of admission, and their last ones, those
   within the window, are the attempts a that were let through. *)
Ordered(s) == \A i, j \in DOMAIN s : i <= j => s[j] <= s[i]
Within(s, a) ==
  /\ s \in Seq(0..Window) /\ a \in Seq(0..(Window - 1))
  /\ Ordered(s)
  /\ Len(a) <= Len(s)
  /\ \A i \in 1..(Len(s) - Len(a)) : s[i] = Window
  /\ \A i \in 1..Len(a) : a[i] = s[Len(s) - Len(a) + i]
WindowInv == Within(stamps, admitted) /\ Len(admitted) <= MaxRequests

(* Every slot is free or with a request. *)
Holders == {r \in Requests : HasSlot(r)}
SlotsInv == slots \in Nat /\ slots + Cardinality(Holders) = cap
-----------------------------------------------------------------------------
LEMMA LeastNatural ==
  ASSUME NEW S, S \subseteq Nat, S # {}
  PROVE  \E n \in S : \A m \in S : n <= m
<1> DEFINE R == OpToRel(<, Nat)
<1>1. \A m, n \in Nat : m < n => <<m, n>> \in R BY Zenon DEF OpToRel
<1>2. IsWellFoundedOn(R, Nat) BY NatLessThanWellFounded
<1> HIDE DEF R
<1>3. \E n \in S : \A m \in S : ~(<<m, n>> \in R) BY <1>2, WFMin
<1>4. PICK n \in S : \A m \in S : ~(<<m, n>> \in R) BY <1>3
<1>5. \A m \in S : m \in Nat /\ n \in Nat /\ ~(m < n) BY <1>1, <1>4, Zenon
<1>6. \A m \in S : n <= m BY <1>5
<1> QED BY <1>6

(* Where the popping of old timestamps stops. *)
LEMMA PopOldStops ==
  ASSUME NEW s \in Seq(Nat), NEW w \in Nat
  PROVE  \E k \in 1..(Len(s) + 1) :
           /\ \A i \in 1..(k - 1) : s[i] >= w
           /\ k \in DOMAIN s => s[k] < w
           /\ PopOld(s, w) = SubSeq(s, k, Len(s))
<1> DEFINE P(k) == /\ \A i \in 1..(k - 1) : s[i] >= w
                   /\ k \in DOMAIN s => s[k] < w
           S == {k \in 1..(Len(s) + 1) : k \in DOMAIN s => s[k] < w}
<1>1. Len(s) \in Nat /\ DOMAIN s = 1..Len(s) /\ \A i \in 1..Len(s) : s[i] \in Nat OBVIOUS
<1>2. S \subseteq Nat /\ Len(s) + 1 \in S BY <1>1
<1>3. PICK n \in S : \A m \in S : n <= m BY <1>2, LeastNatural
<1>4. n \in 1..(Len(s) + 1) /\ P(n) BY <1>1, <1>3
<1>5. (CHOOSE k \in 1..(Len(s) + 1) : P(k)) \in 1..(Len(s) + 1)
      /\ P(CHOOSE k \in 1..(Len(s) + 1) : P(k))
  BY <1>4
<1> QED BY <1>5 DEF PopOld

LEMMA WindowType == Window \in Nat /\ Window > 0 /\ MaxRequests \in Nat /\ MaxRequests > 0
BY ProviderAssumption

(* What is left after popping are the admissions within the window. *)
LEMMA PopWithin ==
  ASSUME NEW s, NEW a, Within(s, a)
  PROVE  PopOld(s, Window) = a
<1>0. Window \in Nat /\ Window > 0 BY WindowType
<1>1. /\ s \in Seq(0..Window) /\ Len(s) \in Nat /\ DOMAIN s = 1..Len(s)
      /\ a \in Seq(0..(Window - 1)) /\ Len(a) \in Nat /\ DOMAIN a = 1..Len(a)
      /\ Len(a) <= Len(s)
  BY DEF Within
<1>2. s \in Seq(Nat) /\ a \in Seq(0..Window) BY <1>0, <1>1, SeqMonotonic
<1>3. \A i \in 1..Len(s) : s[i] \in 0..Window BY <1>1, ElementOfSeq
<1>4. \A i \in 1..Len(a) : a[i] \in 0..(Window - 1) BY <1>1, ElementOfSeq
<1> DEFINE g == Len(s) - Len(a)
<1>5. g \in Nat /\ Len(s) = g + Len(a) BY <1>1
<1>6. /\ \A i \in 1..g : s[i] = Window
      /\ \A i \in 1..Len(a) : a[i] = s[g + i]
  BY DEF Within
<1> HIDE DEF g
<1>7. PICK k \in 1..(Len(s) + 1) : /\ \A i \in 1..(k - 1) : s[i] >= Window
                                   /\ k \in DOMAIN s => s[k] < Window
                                   /\ PopOld(s, Window) = SubSeq(s, k, Len(s))
  BY <1>0, <1>2, PopOldStops
<1>8. k = g + 1
  <2>1. ~(k <= g)
    <3> SUFFICES ASSUME k <= g PROVE FALSE OBVIOUS
    <3>1. k \in 1..g /\ k \in DOMAIN s BY <1>1, <1>5
    <3>2. s[k] = Window /\ s[k] < Window BY <1>6, <1>7, <3>1, Zenon
    <3> QED BY <1>0, <3>2
  <2>2. ~(k > g + 1)
    <3> SUFFICES ASSUME k > g + 1 PROVE FALSE OBVIOUS
    <3>1. g + 1 \in 1..(k - 1) /\ 1 \in 1..Len(a) BY <1>1, <1>5
    <3>2. s[g + 1] >= Window BY <1>7, <3>1
    <3>3. a[1] = s[g + 1] /\ a[1] \in 0..(Window - 1) BY <1>4, <1>6, <3>1, Zenon
    <3> QED BY <1>0, <3>2, <3>3
  <2> QED BY <1>5, <2>1, <2>2
<1>9. /\ SubSeq(s, k, Len(s)) \in Seq(0..Window)
      /\ Len(SubSeq(s, k, Len(s))) = Len(a)
      /\ \A i \in 1..Len(a) : SubSeq(s, k, Len(s))[i] = s[g + i]
  <2>1. \A i \in k..Len(s) : s[i] \in 0..Window BY <1>1, <1>3
  <2>2. k \in Int /\ Len(s) \in Int BY <1>1
  <2>3. /\ SubSeq(s, k, Len(s)) \in Seq(0..Window)
        /\ Len(SubSeq(s, k, Len(s))) = IF k <= Len(s) THEN Len(s) - k + 1 ELSE 0
        /\ \A i \in 1..(Len(s) - k + 1) : SubSeq(s, k, Len(s))[i] = s[k + i - 1]
    BY <2>1, <2>2, SubSeqProperties
  <2>4. Len(s) - k + 1 = Len(a) /\ \A i \in 1..Len(a) : k + i - 1 = g + i
    BY <1>1, <1>5, <1>8
  <2>5. k <= Len(s) \/ Len(a) = 0 BY <1>1, <1>5, <1>8
  <2> QED BY <1>1, <2>3, <2>4, <2>5
<1>10. \A i \in 1..Len(a) : SubSeq(s, k, Len(s))[i] = a[i] BY <1>6, <1>9
<1>11. SubSeq(s, k, Len(s)) = a BY <1>2, <1>9, <1>10, SeqEqual
<1> QED BY <1>7, <1>11

LEMMA WithinSelf ==
  ASSUME NEW s, NEW a, Within(s, a)
  PROVE  Within(a, a)
<1>0. Window \in Nat /\ Window > 0 BY WindowType
<1>1. /\ s \in Seq(0..Window) /\ Len(s) \in Nat /\ DOMAIN s = 1..Len(s)
      /\ a \in Seq(0..(Window - 1)) /\ Len(a) \in Nat /\ DOMAIN a = 1..Len(a) /\ Len(a) <= Len(s)
  BY DEF Within
<1>2. a \in Seq(0..Window) BY <1>0, <1>1, SeqMonotonic
<1> DEFINE g == Len(s) - Len(a)
<1>3. Ordered(a)
  <2> SUFFICES ASSUME NEW i \in 1..Len(a), NEW j \in 1..Len(a), i <= j
               PROVE  a[j] <= a[i]
    BY <1>1 DEF Ordered
  <2>1. g + i \in DOMAIN s /\ g + j \in DOMAIN s /\ g + i <= g + j BY <1>1
  <2>2. s[g + j] <= s[g + i] BY <2>1 DEF Within, Ordered
  <2> QED BY <2>2 DEF Within
<1> QED BY <1>1, <1>2, <1>3 DEF Within

LEMMA WithinAppend ==
  ASSUME NEW a, Within(a, a)
  PROVE  Within(Append(a, 0), Append(a, 0))
<1>0. Window \in Nat /\ Window > 0 BY WindowType
<1> DEFINE b == Append(a, 0)
<1>1. a \in Seq(0..(Window - 1)) /\ Len(a) \in Nat /\ DOMAIN a = 1..Len(a) BY DEF Within
<1>2. 0 \in 0..(Window - 1) BY <1>0
<1>3. /\ b \in Seq(0..(Window - 1)) /\ Len(b) = Len(a) + 1
      /\ \A i \in 1..Len(a) : b[i] = a[i]
      /\ b[Len(a) + 1] = 0
  BY <1>1, <1>2, AppendProperties
<1>4. b \in Seq(0..Window) /\ DOMAIN b = 1..Len(b) BY <1>0, <1>3, SeqMonotonic
<1> HIDE DEF b
<1>5. Ordered(b)
  <2> SUFFICES ASSUME NEW i \in 1..Len(b), NEW j \in 1..Len(b), i <= j
               PROVE  b[j] <= b[i]
    BY <1>4 DEF Ordered
  <2>1. CASE j = Len(b) BY <1>0, <1>1, <1>3, <1>4, <2>1
  <2>2. CASE j # Len(b)
    <3>1. i \in DOMAIN a /\ j \in DOMAIN a BY <1>1, <1>3, <2>2
    <3> QED BY <1>1, <1>3, <3>1 DEF Within, Ordered
  <2> QED BY <2>1, <2>2
<1>6. Len(b) \in Nat BY <1>1, <1>3
<1>7. Within(b, b) BY <1>3, <1>4, <1>5, <1>6 DEF Within
<1> QED BY <1>7 DEF b

(* Time passes: the timestamps and the history age alike. *)
Aged(s) == [i \in DOMAIN s |-> IF s[i] < Window THEN s[i] + 1 ELSE Window]
Older(a) == [i \in DOMAIN a |-> a[i] + 1]

LEMMA WithinTick ==
  ASSUME NEW s, NEW a, Within(s, a)
  PROVE  Within(Aged(s), PopOld(Older(a), Window)) /\ Len(PopOld(Older(a), Window)) <= Len(a)
<1>0. Window \in Nat /\ Window > 0 BY WindowType
<1>1. /\ s \in Seq(0..Window) /\ Len(s) \in Nat /\ DOMAIN s = 1..Len(s)
      /\ a \in Seq(0..(Window - 1)) /\ Len(a) \in Nat /\ DOMAIN a = 1..Len(a)
      /\ Len(a) <= Len(s) /\ Ordered(s)
  BY DEF Within
<1>2. \A i \in 1..Len(s) : s[i] \in 0..Window BY <1>1, ElementOfSeq
<1>3. \A i \in 1..Len(a) : a[i] \in 0..(Window - 1) BY <1>1, ElementOfSeq
<1>4. Ordered(a) BY WithinSelf DEF Within
<1> DEFINE g == Len(s) - Len(a)
           b == Older(a)
           t == Aged(s)
<1>5. g \in Nat /\ Len(s) = g + Len(a) BY <1>1
<1>6. /\ \A i \in 1..g : s[i] = Window
      /\ \A i \in 1..Len(a) : a[i] = s[g + i]
  BY DEF Within
<1>7. b \in Seq(Nat) /\ Len(b) = Len(a) /\ DOMAIN b = 1..Len(a)
      /\ \A i \in 1..Len(a) : b[i] = a[i] + 1
  <2>1. \A i \in 1..Len(a) : a[i] + 1 \in Nat BY <1>0, <1>3
  <2> QED BY <1>1, <2>1 DEF Older
<1>8. t \in Seq(0..Window) /\ Len(t) = Len(s) /\ DOMAIN t = 1..Len(s)
      /\ \A i \in 1..Len(s) : t[i] = IF s[i] < Window THEN s[i] + 1 ELSE Window
  <2>1. \A i \in 1..Len(s) : (IF s[i] < Window THEN s[i] + 1 ELSE Window) \in 0..Window
    BY <1>0, <1>2
  <2> QED BY <1>1, <2>1 DEF Aged
<1> HIDE DEF g, b, t
<1>9. PICK k \in 1..(Len(b) + 1) : /\ \A i \in 1..(k - 1) : b[i] >= Window
                                   /\ k \in DOMAIN b => b[k] < Window
                                   /\ PopOld(b, Window) = SubSeq(b, k, Len(b))
  BY <1>0, <1>7, PopOldStops
<1> DEFINE c == SubSeq(b, k, Len(b))
<1>10. \A j \in k..Len(b) : b[j] \in 0..(Window - 1)
  <2> SUFFICES ASSUME NEW j \in k..Len(b) PROVE b[j] \in 0..(Window - 1) OBVIOUS
  <2>1. k \in 1..Len(a) /\ j \in 1..Len(a) /\ k <= j BY <1>1, <1>7
  <2>2. a[j] <= a[k] BY <1>1, <1>4, <2>1 DEF Ordered
  <2>3. b[k] < Window /\ b[k] = a[k] + 1 /\ b[j] = a[j] + 1 BY <1>7, <1>9, <2>1
  <2>4. a[j] \in 0..(Window - 1) /\ a[k] \in 0..(Window - 1) BY <1>3, <2>1
  <2> QED BY <1>0, <2>2, <2>3, <2>4
<1>11. /\ c \in Seq(0..(Window - 1)) /\ Len(c) = Len(a) - k + 1
       /\ \A i \in 1..(Len(a) - k + 1) : c[i] = b[k + i - 1]
  <2>1. k \in Int /\ Len(b) \in Int BY <1>1, <1>7
  <2>2. /\ c \in Seq(0..(Window - 1))
        /\ Len(c) = IF k <= Len(b) THEN Len(b) - k + 1 ELSE 0
        /\ \A i \in 1..(Len(b) - k + 1) : c[i] = b[k + i - 1]
    BY <1>10, <2>1, SubSeqProperties
  <2>3. k <= Len(b) \/ Len(b) - k + 1 = 0 BY <1>1, <1>7
  <2> QED BY <1>7, <2>2, <2>3
<1> HIDE DEF c
<1>12. k \in 1..(Len(a) + 1) /\ Len(c) \in Nat /\ Len(t) - Len(c) = g + k - 1
       /\ Len(c) <= Len(a) /\ Len(c) <= Len(t)
  BY <1>1, <1>5, <1>7, <1>8, <1>11
<1>13. Ordered(t)
  <2> SUFFICES ASSUME NEW i \in 1..Len(s), NEW j \in 1..Len(s), i <= j PROVE t[j] <= t[i]
    BY <1>8 DEF Ordered
  <2>1. s[j] <= s[i] BY <1>1 DEF Ordered
  <2>2. s[i] \in 0..Window /\ s[j] \in 0..Window BY <1>2
  <2>3. /\ t[i] = IF s[i] < Window THEN s[i] + 1 ELSE Window
        /\ t[j] = IF s[j] < Window THEN s[j] + 1 ELSE Window
    BY <1>8
  <2> QED BY <1>0, <2>1, <2>2, <2>3
<1>14. \A i \in 1..(g + k - 1) : t[i] = Window
  <2> SUFFICES ASSUME NEW i \in 1..(g + k - 1) PROVE t[i] = Window OBVIOUS
  <2>1. i \in 1..Len(s) BY <1>1, <1>5, <1>12
  <2>2. t[i] = IF s[i] < Window THEN s[i] + 1 ELSE Window BY <1>8, <2>1
  <2>3. CASE i \in 1..g BY <1>0, <1>6, <2>2, <2>3
  <2>4. CASE i \notin 1..g
    <3>1. i - g \in 1..(k - 1) /\ i - g \in 1..Len(a) /\ g + (i - g) = i
      BY <1>1, <1>5, <1>12, <2>4
    <3>2. b[i - g] >= Window /\ b[i - g] = a[i - g] + 1 /\ a[i - g] \in 0..(Window - 1)
      BY <1>3, <1>7, <1>9, <3>1
    <3>3. s[i] = a[i - g] BY <1>6, <3>1
    <3> QED BY <1>0, <2>2, <3>2, <3>3
  <2> QED BY <2>3, <2>4
<1>15. \A i \in 1..Len(c) : c[i] = t[g + k - 1 + i]
  <2> SUFFICES ASSUME NEW i \in 1..Len(c) PROVE c[i] = t[g + k - 1 + i] OBVIOUS
  <2>1. /\ k + i - 1 \in 1..Len(a) /\ i \in 1..(Len(a) - k + 1)
        /\ g + k - 1 + i = g + (k + i - 1) /\ g + (k + i - 1) \in 1..Len(s)
        /\ k + i - 1 \in k..Len(b)
    BY <1>1, <1>5, <1>7, <1>11, <1>12
  <2>2. /\ c[i] = b[k + i - 1] /\ b[k + i - 1] = a[k + i - 1] + 1
        /\ b[k + i - 1] \in 0..(Window - 1)
    BY <1>7, <1>10, <1>11, <2>1
  <2>3. a[k + i - 1] = s[g + (k + i - 1)] BY <1>6, <2>1
  <2>4. a[k + i - 1] \in 0..(Window - 1) BY <1>3, <2>1
  <2>5. t[g + (k + i - 1)] = IF s[g + (k + i - 1)] < Window THEN s[g + (k + i - 1)] + 1
                            ELSE Window
    BY <1>8, <2>1
  <2>6. a[k + i - 1] < Window BY <1>0, <2>4
  <2> QED BY <2>1, <2>2, <2>3, <2>5, <2>6
<1>16. Within(t, c) BY <1>8, <1>11, <1>12, <1>13, <1>14, <1>15 DEF Within
<1>17. PopOld(b, Window) = c BY <1>9 DEF c
<1> QED BY <1>12, <1>16, <1>17 DEF b, t
-----------------------------------------------------------------------------
ProviderInv == TypeOK /\ SlotsInv /\ WindowInv /\ StopLast

Pcs == {"idle"} \cup Active \cup Settled
ReqSet == [kind : {"post", "stream"}, pc : Pcs, attempt : 0..MaxRetries,
           overload : 0..OverloadBackoffs, left : 0..Window]
TailSet == [chunks : 0..MaxChunks, held : BOOLEAN, usage : BOOLEAN]
EventSet == [ev : {"delta", "stop"}, at : 0..(MaxChunks + 1)]

LEMMA Facts ==
  ASSUME TypeOK
  PROVE  /\ api \in {"openai", "anthropic"} /\ cap \in Nat
         /\ req \in [Requests -> ReqSet] /\ tail \in [Requests -> TailSet]
         /\ out \in [Requests -> Seq(EventSet)] /\ slots \in 0..cap
         /\ attempt \in Nat /\ overload \in Nat
         /\ MaxChunks \in Nat /\ MaxRetries \in Nat /\ OverloadBackoffs \in Nat
<1>1. <<api, cap, handler>> \in {"openai", "anthropic"} \X (Nat \ {0}) \X (Kinds \cup {"none"})
  BY ProviderAssumption DEF TypeOK
<1>2. api \in {"openai", "anthropic"} /\ cap \in Nat BY <1>1
<1>3. MaxChunks \in Nat /\ MaxRetries \in Nat /\ OverloadBackoffs \in Nat
  BY ProviderAssumption
<1> QED BY <1>2, <1>3 DEF TypeOK, Pcs, ReqSet, TailSet, EventSet

(* The slots that r holds, now and after a step. *)
Held(r) == IF HasSlot(r) THEN 1 ELSE 0

(* What a step of request r does to the rest: nothing, except that slots go
   to r or come from it, and an event may be added to its consumer's. *)
Moves(r) ==
  /\ UNCHANGED config
  /\ req' \in [Requests -> ReqSet] /\ \A q \in Requests : q # r => req'[q] = req[q]
  /\ tail' \in [Requests -> TailSet] /\ \A q \in Requests : q # r => tail'[q] = tail[q]
  /\ attempt' \in Nat /\ overload' \in Nat
  /\ slots' \in Nat /\ slots' + Held(r)' = slots + Held(r)
  /\ req[r].pc # "done"
Hands(r) ==
  \/ UNCHANGED out
  \/ \E n \in 1..MaxChunks : Emit(r, [ev |-> "delta", at |-> n])
  \/ /\ Emit(r, [ev |-> "stop", at |-> IF tail[r].usage THEN 1 ELSE 0])
     /\ req'[r].pc = "done" /\ UNCHANGED tail

LEMMA HandsType ==
  ASSUME TypeOK, NEW r \in Requests, Hands(r)
  PROVE  /\ out' \in [Requests -> Seq(EventSet)]
         /\ \A q \in Requests : q # r => out'[q] = out[q]
<1>1. out \in [Requests -> Seq(EventSet)] /\ MaxChunks \in Nat BY Facts
<1>2. ASSUME NEW e \in EventSet, Emit(r, e)
      PROVE  /\ out' \in [Requests -> Seq(EventSet)]
             /\ \A q \in Requests : q # r => out'[q] = out[q]
  <2>1. Append(out[r], e) \in Seq(EventSet) BY <1>1, AppendProperties
  <2> QED BY <1>1, <1>2, <2>1 DEF Emit
<1>3. \A n \in 1..MaxChunks : [ev |-> "delta", at |-> n] \in EventSet BY <1>1 DEF EventSet
<1>4. [ev |-> "stop", at |-> IF tail[r].usage THEN 1 ELSE 0] \in EventSet BY <1>1 DEF EventSet
<1> QED BY <1>1, <1>2, <1>3, <1>4 DEF Hands

LEMMA Balance ==
  ASSUME NEW f \in Nat, NEW g \in Nat, NEW m \in Nat, NEW n \in Nat, NEW h \in Int, NEW i \in Int,
         g + i = f + h, n + h = m + i
  PROVE  g + n = f + m
OBVIOUS

(* Slots go over to r or come back from it. *)
LEMMA SlotsStep ==
  ASSUME TypeOK, SlotsInv, NEW r \in Requests, Moves(r)
  PROVE  SlotsInv' /\ slots' \in 0..cap'
<1>1. /\ req \in [Requests -> ReqSet] /\ cap \in Nat /\ slots \in Nat /\ slots' \in Nat
      /\ cap' = cap /\ api' = api /\ slots' + Held(r)' = slots + Held(r)
      /\ \A q \in Requests : q # r => req'[q] = req[q]
  BY Facts DEF Moves, SlotsInv, config
<1>2. IsFiniteSet(Holders) /\ IsFiniteSet(Holders')
      /\ Cardinality(Holders) \in Nat /\ Cardinality(Holders') \in Nat
  BY ProviderAssumption, FS_Subset, FS_CardinalityType DEF Holders
<1>3. \A q \in Requests : q # r => (HasSlot(q)' <=> HasSlot(q)) BY <1>1 DEF HasSlot
<1>4. Cardinality(Holders') + Held(r) = Cardinality(Holders) + Held(r)'
  <2>1. CASE HasSlot(r) /\ HasSlot(r)'
    <3>1. Holders' = Holders BY <1>3, <2>1 DEF Holders
    <3> QED BY <1>2, <2>1, <3>1 DEF Held
  <2>2. CASE ~HasSlot(r) /\ ~HasSlot(r)'
    <3>1. Holders' = Holders BY <1>3, <2>2 DEF Holders
    <3> QED BY <1>2, <2>2, <3>1 DEF Held
  <2>3. CASE HasSlot(r) /\ ~HasSlot(r)'
    <3>1. Holders = Holders' \cup {r} /\ r \notin Holders' BY <1>3, <2>3 DEF Holders
    <3>2. Cardinality(Holders) = Cardinality(Holders') + 1 BY <1>2, <3>1, FS_AddElement
    <3> QED BY <1>2, <2>3, <3>2 DEF Held
  <2>4. CASE ~HasSlot(r) /\ HasSlot(r)'
    <3>1. Holders' = Holders \cup {r} /\ r \notin Holders BY <1>3, <2>4 DEF Holders
    <3>2. Cardinality(Holders') = Cardinality(Holders) + 1 BY <1>2, <3>1, FS_AddElement
    <3> QED BY <1>2, <2>4, <3>2 DEF Held
  <2> QED BY <2>1, <2>2, <2>3, <2>4
<1>5. Held(r) \in {0, 1} /\ Held(r)' \in {0, 1} BY DEF Held
<1>6. slots + Cardinality(Holders) = cap BY DEF SlotsInv
<1>7. PICK h \in Int, i \in Int : h = Held(r) /\ i = Held(r)' BY <1>5
<1>8. PICK m \in Nat, n \in Nat : m = Cardinality(Holders) /\ n = Cardinality(Holders') BY <1>2
<1>9. PICK f \in Nat, g \in Nat, c \in Nat : f = slots /\ g = slots' /\ c = cap BY <1>1, Zenon
<1>10. g + i = f + h /\ n + h = m + i /\ f + m = c
  BY <1>1, <1>4, <1>6, <1>7, <1>8, <1>9, Zenon
<1>11. g + n = c /\ g \in 0..c BY <1>10, Balance
<1> QED BY <1>1, <1>8, <1>9, <1>11, Zenon DEF SlotsInv

LEMMA StopStep ==
  ASSUME TypeOK, StopLast, NEW r \in Requests, Moves(r), Hands(r)
  PROVE  StopLast'
<1>1. /\ req \in [Requests -> ReqSet] /\ out \in [Requests -> Seq(EventSet)]
      /\ tail \in [Requests -> TailSet] /\ req[r].pc # "done"
      /\ \A q \in Requests : q # r => req'[q] = req[q] /\ tail'[q] = tail[q]
  BY Facts DEF Moves
<1>2. \A q \in Requests : q # r => out'[q] = out[q] BY HandsType
<1>3. \A i \in DOMAIN out[r] : out[r][i].ev # "stop" BY <1>1 DEF StopLast
<1>4. \A i \in DOMAIN out'[r] : out'[r][i].ev = "stop" =>
        /\ i = Len(out'[r]) /\ req'[r].pc = "done"
        /\ out'[r][i].at = IF tail'[r].usage THEN 1 ELSE 0
  <2>1. CASE UNCHANGED out BY <1>3, <2>1
  <2>2. ASSUME NEW e, Emit(r, e)
        PROVE  \A i \in DOMAIN out'[r] :
                 \/ i \in DOMAIN out[r] /\ out'[r][i] = out[r][i]
                 \/ i = Len(out'[r]) /\ out'[r][i] = e
    <3>1. out'[r] = Append(out[r], e) BY <1>1, <2>2 DEF Emit
    <3>2. out[r] \in Seq(EventSet \cup {e}) BY <1>1, SeqMonotonic
    <3> HIDE DEF EventSet
    <3> QED BY <3>1, <3>2, AppendProperties
  <2>3. CASE \E n \in 1..MaxChunks : Emit(r, [ev |-> "delta", at |-> n])
    <3>1. PICK n \in 1..MaxChunks : Emit(r, [ev |-> "delta", at |-> n]) BY <2>3
    <3> DEFINE e == [ev |-> "delta", at |-> n]
    <3>2. e.ev = "delta" OBVIOUS
    <3>3. Emit(r, e) BY <3>1
    <3> HIDE DEF e
    <3>4. \A i \in DOMAIN out'[r] : out'[r][i].ev # "stop" BY <1>3, <2>2, <3>2, <3>3
    <3> QED BY <3>4
  <2>4. CASE /\ Emit(r, [ev |-> "stop", at |-> IF tail[r].usage THEN 1 ELSE 0])
             /\ req'[r].pc = "done" /\ UNCHANGED tail
    <3> DEFINE e == [ev |-> "stop", at |-> IF tail[r].usage THEN 1 ELSE 0]
    <3>1. e.at = IF tail[r].usage THEN 1 ELSE 0 OBVIOUS
    <3>2. Emit(r, e) BY <2>4
    <3> HIDE DEF e
    <3>3. \A i \in DOMAIN out'[r] : out'[r][i].ev = "stop" => i = Len(out'[r]) /\ out'[r][i] = e
      BY <1>3, <2>2, <3>2
    <3> QED BY <2>4, <3>1, <3>3
  <2> QED BY <2>1, <2>3, <2>4 DEF Hands
<1> QED BY <1>1, <1>2, <1>4 DEF StopLast
-----------------------------------------------------------------------------
LEMMA GotoMoves ==
  ASSUME TypeOK, NEW r \in Requests, NEW pc \in Pcs, Goto(r, pc)
  PROVE  /\ req' \in [Requests -> ReqSet] /\ req'[r].pc = pc
         /\ \A q \in Requests : q # r => req'[q] = req[q]
<1>1. req \in [Requests -> ReqSet] /\ 0 \in 0..Window BY Facts, WindowType
<1> QED BY <1>1 DEF Goto, ReqSet

(* A slot is given back by a request that ends or backs off. *)
LEMMA ReleaseHeld ==
  ASSUME TypeOK, NEW r \in Requests, Release(r), UNCHANGED config,
         req'[r].pc \notin {"waiting", "post", "streaming"}
  PROVE  slots' \in Nat /\ slots' + Held(r)' = slots + Held(r)
<1>1. slots \in Nat BY Facts
<1>2. ~HasSlot(r)' BY DEF HasSlot
<1> QED BY <1>1, <1>2 DEF Held, Release

LEMMA OnExceptionMoves ==
  ASSUME TypeOK, NEW r \in Requests, NEW err, NEW end \in {"failed", "cancelled"},
         OnException(r, err, end)
  PROVE  /\ req' \in [Requests -> ReqSet] /\ req'[r].pc \in {"backoff", "failed", "cancelled"}
         /\ \A q \in Requests : q # r => req'[q] = req[q]
         /\ attempt' \in Nat /\ overload' \in Nat
<1>1. attempt \in Nat /\ overload \in Nat BY Facts
<1>2. attempt' \in Nat /\ overload' \in Nat BY <1>1 DEF OnException
<1>3. PICK pc \in {"backoff", end} : Goto(r, pc) BY Zenon DEF OnException
<1>4. pc \in Pcs BY <1>3 DEF Pcs, Active, Settled
<1> QED BY <1>2, <1>3, <1>4, GotoMoves

(* The counters of the loop stay within its budgets. *)
LEMMA LoopMoves ==
  ASSUME TypeOK, NEW r \in Requests, NEW err, Loop(r, err)
  PROVE  /\ req' \in [Requests -> ReqSet] /\ req'[r].pc \in {"backoff", "failed"}
         /\ \A q \in Requests : q # r => req'[q] = req[q]
         /\ UNCHANGED counters
<1>1. /\ req \in [Requests -> ReqSet] /\ MaxRetries \in Nat /\ OverloadBackoffs \in Nat
      /\ Window \in Nat
  BY Facts, WindowType
<1>2. LoopRetries(r, err) => IF err = "overload" THEN req[r].overload < OverloadBackoffs
                                                ELSE req[r].attempt < MaxRetries
  BY Zenon DEF LoopRetries
<1>3. /\ req[r] \in ReqSet /\ req[r].overload \in 0..OverloadBackoffs
      /\ req[r].attempt \in 0..MaxRetries
  BY <1>1 DEF ReqSet
<1>4. {"backoff", "failed"} \subseteq Pcs BY DEF Pcs, Active, Settled
<1>5. CASE ~LoopRetries(r, err) /\ req' = [req EXCEPT ![r].pc = "failed"]
  BY <1>1, <1>4, <1>5 DEF Loop, ReqSet
<1>6. CASE /\ LoopRetries(r, err) /\ err = "overload"
           /\ req' = [req EXCEPT ![r].pc = "backoff", ![r].overload = @ + 1]
  <2>1. req[r].overload + 1 \in 0..OverloadBackoffs BY <1>1, <1>2, <1>3, <1>6
  <2> QED BY <1>1, <1>4, <1>6, <2>1 DEF Loop, ReqSet
<1>7. CASE /\ LoopRetries(r, err) /\ err # "overload"
           /\ req' = [req EXCEPT ![r].pc = "backoff", ![r].attempt = @ + 1]
  <2>1. req[r].attempt + 1 \in 0..MaxRetries BY <1>1, <1>2, <1>3, <1>7
  <2> QED BY <1>1, <1>4, <1>7, <2>1 DEF Loop, ReqSet
<1> QED BY <1>5, <1>6, <1>7 DEF Loop

LEMMA RaiseMoves ==
  ASSUME TypeOK, NEW r \in Requests, NEW err, Raise(r, err), req[r].pc # "done"
  PROVE  Moves(r) /\ UNCHANGED <<out, stamps, admitted>>
<1>1. /\ Release(r) /\ UNCHANGED <<config, out, tail, stamps, admitted>>
      /\ \/ OnException(r, err, "failed")
         \/ Loop(r, err)
         \/ Goto(r, "failed") /\ UNCHANGED counters
  BY Zenon DEF Raise
<1>2. "failed" \in Pcs BY DEF Pcs, Settled
<1>3. attempt \in Nat /\ overload \in Nat /\ tail \in [Requests -> TailSet] BY Facts
<1>4. /\ req' \in [Requests -> ReqSet] /\ req'[r].pc \in {"backoff", "failed", "cancelled"}
      /\ \A q \in Requests : q # r => req'[q] = req[q]
      /\ attempt' \in Nat /\ overload' \in Nat
  BY <1>1, <1>2, <1>3, OnExceptionMoves, LoopMoves, GotoMoves DEF counters
<1>5. slots' \in Nat /\ slots' + Held(r)' = slots + Held(r) BY <1>1, <1>4, ReleaseHeld
<1> QED BY <1>1, <1>3, <1>4, <1>5 DEF Moves

(* The limiter lets r through, or tells it when to look again. *)
LEMMA TryWindowMoves ==
  ASSUME TypeOK, WindowInv, NEW r \in Requests, TryWindow(r)
  PROVE  /\ req' \in [Requests -> ReqSet] /\ req'[r].pc \in {"post", "waiting"}
         /\ \A q \in Requests : q # r => req'[q] = req[q]
         /\ tail' \in [Requests -> TailSet] /\ \A q \in Requests : q # r => tail'[q] = tail[q]
         /\ WindowInv'
<1>0. Window \in Nat /\ Window > 0 /\ MaxRequests \in Nat /\ MaxRequests > 0 BY WindowType
<1>1. RollOff = admitted BY PopWithin DEF RollOff, WindowInv
<1>2. /\ req \in [Requests -> ReqSet] /\ tail \in [Requests -> TailSet]
      /\ MaxChunks \in Nat
  BY Facts
<1>3. Within(admitted, admitted) /\ Len(admitted) <= MaxRequests BY WithinSelf DEF WindowInv
<1>4. admitted \in Seq(0..(Window - 1)) /\ Len(admitted) \in Nat BY <1>3 DEF Within
<1>5. "post" \in Pcs /\ "waiting" \in Pcs BY DEF Pcs, Active
<1>6. CASE /\ Len(RollOff) < MaxRequests
           /\ stamps' = Append(RollOff, 0) /\ admitted' = Append(admitted, 0)
           /\ Goto(r, "post")
           /\ tail' = [tail EXCEPT ![r] = NewTail]
  <2>1. NewTail \in TailSet BY <1>2 DEF NewTail, TailSet
  <2>2. Within(Append(admitted, 0), Append(admitted, 0)) BY <1>3, WithinAppend
  <2>3. Len(Append(admitted, 0)) = Len(admitted) + 1
    <3>1. 0 \in 0..(Window - 1) BY <1>0
    <3> QED BY <1>4, <3>1, AppendProperties
  <2>4. stamps' = Append(admitted, 0) /\ Len(admitted) < MaxRequests BY <1>1, <1>6
  <2>5. Len(Append(admitted, 0)) <= MaxRequests BY <1>0, <1>4, <2>3, <2>4
  <2>6. WindowInv' BY <1>6, <2>2, <2>4, <2>5 DEF WindowInv
  <2>7. /\ tail' \in [Requests -> TailSet]
        /\ \A q \in Requests : q # r => tail'[q] = tail[q]
    BY <1>2, <1>6, <2>1
  <2> QED BY <1>5, <1>6, <2>6, <2>7, GotoMoves
<1>7. CASE /\ Len(RollOff) >= MaxRequests
           /\ stamps' = RollOff
           /\ req' = [req EXCEPT ![r].pc = "waiting", ![r].left = Window - RollOff[1]]
           /\ UNCHANGED <<tail, admitted>>
  <2>1. 1 \in 1..Len(admitted) BY <1>0, <1>1, <1>4, <1>7
  <2>2. admitted[1] \in 0..(Window - 1) BY <1>4, <2>1, ElementOfSeq
  <2>3. Window - RollOff[1] \in 0..Window BY <1>0, <1>1, <2>2
  <2>4. /\ req' \in [Requests -> ReqSet] /\ req'[r].pc = "waiting"
        /\ \A q \in Requests : q # r => req'[q] = req[q]
    BY <1>2, <1>5, <1>7, <2>3 DEF ReqSet
  <2>5. WindowInv' BY <1>1, <1>3, <1>7 DEF WindowInv
  <2> QED BY <1>2, <1>7, <2>4, <2>5
<1> QED BY <1>6, <1>7 DEF TryWindow

(* Every step of a request is a move of it. *)
LEMMA RequestStep ==
  ASSUME ProviderInv, NEW r \in Requests, Start(r) \/ Task(r) \/ Chunk(r) \/ Cancel(r)
  PROVE  Moves(r) /\ Hands(r) /\ WindowInv'
<1>0. TypeOK /\ WindowInv /\ SlotsInv BY DEF ProviderInv
<1>1. /\ req \in [Requests -> ReqSet] /\ tail \in [Requests -> TailSet]
      /\ out \in [Requests -> Seq(EventSet)] /\ slots \in Nat /\ attempt \in Nat
      /\ overload \in Nat /\ MaxChunks \in Nat /\ api \in {"openai", "anthropic"}
  BY <1>0, Facts
<1>2. {"semaphore", "streaming", "failed", "cancelled", "done"} \subseteq Pcs
  BY DEF Pcs, Active, Settled
<1>3. ASSUME UNCHANGED <<stamps, admitted>> PROVE WindowInv'
  BY <1>0, <1>3 DEF WindowInv, Within, Ordered
<1>4. CASE Start(r)
  <2>1. PICK k \in {"post", "stream"} :
          req' = [req EXCEPT ![r].kind = k, ![r].pc = "semaphore"]
    BY <1>4 DEF Start
  <2>2. /\ req' \in [Requests -> ReqSet] /\ req'[r].pc = "semaphore"
        /\ \A q \in Requests : q # r => req'[q] = req[q]
    BY <1>1, <1>2, <2>1 DEF ReqSet
  <2>3. ~HasSlot(r) /\ ~HasSlot(r)' BY <1>4, <2>2 DEF HasSlot, Start
  <2>4. slots' \in Nat /\ slots' + Held(r)' = slots + Held(r)
    BY <1>1, <1>4, <2>3 DEF Held, Start, limiter
  <2>5. Moves(r) BY <1>1, <1>4, <2>2, <2>4 DEF Start, Moves, counters
  <2> QED BY <1>3, <1>4, <2>5 DEF Start, Hands, limiter
<1>5. CASE Acquire(r)
  <2>1. TryWindow(r) /\ UNCHANGED <<config, out, counters>> /\ slots' = slots - 1 /\ slots > 0
        /\ req[r].pc = "semaphore"
    BY <1>5 DEF Acquire
  <2>2. ~HasSlot(r) /\ HasSlot(r)' BY <1>0, <2>1, TryWindowMoves DEF HasSlot
  <2>3. slots' \in Nat /\ slots' + Held(r)' = slots + Held(r) BY <1>1, <2>1, <2>2 DEF Held
  <2> QED BY <1>0, <1>1, <2>1, <2>3, TryWindowMoves DEF Moves, Hands, counters
<1>6. CASE WaitOver(r)
  <2>1. TryWindow(r) /\ UNCHANGED <<config, out, slots, counters>> /\ req[r].pc = "waiting"
    BY <1>6 DEF WaitOver
  <2>2. HasSlot(r) /\ HasSlot(r)' BY <1>0, <2>1, TryWindowMoves DEF HasSlot
  <2>3. slots' \in Nat /\ slots' + Held(r)' = slots + Held(r) BY <1>1, <2>1, <2>2 DEF Held
  <2> QED BY <1>0, <1>1, <2>1, <2>3, TryWindowMoves DEF Moves, Hands, counters
<1>7. CASE BackoffOver(r)
  <2>1. /\ Goto(r, "semaphore") /\ req[r].pc = "backoff"
        /\ UNCHANGED <<config, out, tail, stamps, slots, admitted, attempt, overload>>
    BY <1>7 DEF BackoffOver, limiter, counters
  <2>2. ~HasSlot(r) /\ ~HasSlot(r)' BY <1>0, <1>2, <2>1, GotoMoves DEF HasSlot
  <2>3. slots' \in Nat /\ slots' + Held(r)' = slots + Held(r) BY <1>1, <2>1, <2>2 DEF Held
  <2> QED BY <1>0, <1>1, <1>2, <1>3, <2>1, <2>3, GotoMoves DEF Moves, Hands
<1>8. CASE PostReturns(r)
  <2>1. /\ Goto(r, "done") /\ req[r].pc = "post" /\ Release(r)
        /\ UNCHANGED <<config, out, tail, stamps, admitted>>
        /\ attempt' \in Nat /\ overload' \in Nat
    BY <1>1, <1>8 DEF PostReturns, counters
  <2>2. slots' \in Nat /\ slots' + Held(r)' = slots + Held(r)
    BY <1>0, <1>2, <2>1, GotoMoves, ReleaseHeld
  <2> QED BY <1>0, <1>1, <1>2, <1>3, <2>1, <2>2, GotoMoves DEF Moves, Hands
<1>9. CASE RequestFails(r) \/ StreamBreaks(r)
  <2>1. PICK err : Raise(r, err) BY <1>9 DEF RequestFails, StreamBreaks
  <2>2. req[r].pc # "done" BY <1>9 DEF RequestFails, StreamBreaks
  <2> QED BY <1>0, <1>3, <2>1, <2>2, RaiseMoves DEF Hands
<1>10. CASE StreamOpens(r)
  <2>1. /\ Goto(r, "streaming") /\ req[r].pc = "post"
        /\ slots' = IF api = "anthropic" THEN slots + 1 ELSE slots
        /\ UNCHANGED <<config, out, tail, stamps, admitted, attempt, overload>>
    BY <1>10 DEF StreamOpens, counters
  <2>2. HasSlot(r) /\ (HasSlot(r)' <=> api = "openai")
    BY <1>0, <1>2, <2>1, GotoMoves DEF HasSlot, config
  <2>3. slots' \in Nat /\ slots' + Held(r)' = slots + Held(r) BY <1>1, <2>1, <2>2 DEF Held
  <2> QED BY <1>0, <1>1, <1>2, <1>3, <2>1, <2>3, GotoMoves DEF Moves, Hands
<1>11. CASE StreamEnds(r)
  <2>1. /\ Goto(r, "done") /\ req[r].pc = "streaming" /\ Release(r)
        /\ UNCHANGED <<config, tail, stamps, admitted, attempt, overload>>
    BY <1>11 DEF StreamEnds, counters
  <2>2. slots' \in Nat /\ slots' + Held(r)' = slots + Held(r)
    BY <1>0, <1>2, <2>1, GotoMoves, ReleaseHeld
  <2>3. Moves(r) BY <1>0, <1>1, <1>2, <2>1, <2>2, GotoMoves DEF Moves
  <2>4. req'[r].pc = "done" BY <1>0, <1>2, <2>1, GotoMoves
  <2>5. Hands(r) BY <1>11, <2>1, <2>4 DEF Hands, StreamEnds
  <2> QED BY <1>3, <2>1, <2>3, <2>5
<1>12. CASE Chunk(r)
  <2>1. /\ req[r].pc = "streaming" /\ UNCHANGED <<config, req, stamps, slots, admitted, attempt, overload>>
    BY <1>12 DEF Chunk, Delta, Finish, Usage, limiter, counters
  <2>2. Held(r)' = Held(r) BY <2>1 DEF Held, HasSlot, config
  <2>3. tail[r] \in TailSet /\ tail[r].chunks \in 0..MaxChunks BY <1>1 DEF TailSet
  <2>4. /\ tail' \in [Requests -> TailSet] /\ \A q \in Requests : q # r => tail'[q] = tail[q]
    <3>1. CASE Delta(r)
      <4>1. tail[r].chunks + 1 \in 0..MaxChunks BY <1>1, <2>3, <3>1 DEF Delta
      <4> QED BY <1>1, <3>1, <4>1 DEF Delta, TailSet
    <3>2. CASE Finish(r) BY <1>1, <3>2 DEF Finish, TailSet
    <3>3. CASE Usage(r) BY <1>1, <3>3 DEF Usage, TailSet
    <3> QED BY <1>12, <3>1, <3>2, <3>3 DEF Chunk
  <2>5. Hands(r)
    <3>1. CASE Delta(r)
      <4>1. tail[r].chunks + 1 \in 1..MaxChunks BY <1>1, <2>3, <3>1 DEF Delta
      <4> QED BY <3>1, <4>1 DEF Delta, Hands
    <3> QED BY <1>12, <3>1 DEF Chunk, Finish, Usage, Hands
  <2>6. Moves(r) BY <1>1, <2>1, <2>2, <2>4 DEF Moves
  <2> QED BY <1>3, <2>1, <2>5, <2>6
<1>13. CASE Cancel(r)
  <2>1. /\ Release(r) /\ UNCHANGED <<config, out, tail, stamps, admitted>> /\ req[r].pc # "done"
        /\ \/ OnException(r, "unknown", "cancelled")
           \/ Goto(r, "cancelled") /\ UNCHANGED counters
    BY <1>13 DEF Cancel
  <2>2. /\ req' \in [Requests -> ReqSet] /\ req'[r].pc \in {"backoff", "failed", "cancelled"}
        /\ \A q \in Requests : q # r => req'[q] = req[q]
        /\ attempt' \in Nat /\ overload' \in Nat
    BY <1>0, <1>1, <1>2, <2>1, OnExceptionMoves, GotoMoves DEF counters
  <2>3. slots' \in Nat /\ slots' + Held(r)' = slots + Held(r) BY <1>0, <2>1, <2>2, ReleaseHeld
  <2>4. Moves(r) BY <1>1, <2>1, <2>2, <2>3 DEF Moves
  <2> QED BY <1>3, <2>1, <2>4 DEF Hands
<1> QED BY <1>4, <1>5, <1>6, <1>7, <1>8, <1>9, <1>10, <1>11, <1>12, <1>13 DEF Task, Serve

LEMMA TickStep == ASSUME ProviderInv, Tick PROVE ProviderInv'
<1>0. TypeOK /\ WindowInv /\ SlotsInv /\ StopLast BY DEF ProviderInv
<1>1. req \in [Requests -> ReqSet] /\ Window \in Nat BY <1>0, Facts, WindowType
<1>2. UNCHANGED <<api, cap, handler, out, tail, slots, attempt, overload>>
  BY DEF Tick, config, counters
<1>3. req' \in [Requests -> ReqSet] /\ \A q \in Requests : req'[q].pc = req[q].pc
  <2>1. \A q \in Requests : /\ req[q] \in ReqSet /\ req[q].left \in 0..Window
                            /\ (IF req[q].left > 0 THEN req[q].left - 1 ELSE 0) \in 0..Window
    BY <1>1 DEF ReqSet
  <2>2. req' = [q \in Requests |-> [req[q] EXCEPT !.left =
                  IF req[q].left > 0 THEN req[q].left - 1 ELSE 0]]
    BY DEF Tick
  <2> QED BY <2>1, <2>2 DEF ReqSet
<1>4. stamps' = Aged(stamps) /\ admitted' = PopOld(Older(admitted), Window)
  BY DEF Tick, Aged, Older
<1>5. WindowInv'
  <2>1. /\ Within(Aged(stamps), PopOld(Older(admitted), Window))
        /\ Len(PopOld(Older(admitted), Window)) <= Len(admitted)
    BY <1>0, WithinTick DEF WindowInv
  <2>2. Len(admitted) \in Nat /\ Len(admitted) <= MaxRequests /\ MaxRequests \in Nat
    BY <1>0, WindowType DEF WindowInv, Within
  <2>3. Len(PopOld(Older(admitted), Window)) \in Nat BY <2>1 DEF Within
  <2>4. Len(PopOld(Older(admitted), Window)) <= MaxRequests BY <2>1, <2>2, <2>3
  <2> QED BY <1>4, <2>1, <2>4 DEF WindowInv
<1>6. SlotsInv'
  <2>1. \A q \in Requests : HasSlot(q)' <=> HasSlot(q) BY <1>2, <1>3 DEF HasSlot
  <2>2. Holders' = Holders BY <2>1 DEF Holders
  <2> QED BY <1>0, <1>2, <2>2 DEF SlotsInv
<1>7. TypeOK'
  <2>1. stamps' \in Seq(0..Window) BY <1>5 DEF WindowInv, Within
  <2> QED BY <1>0, <1>2, <1>3, <2>1 DEF TypeOK, ReqSet, Pcs
<1>8. StopLast' BY <1>0, <1>2, <1>3 DEF StopLast
<1> QED BY <1>5, <1>6, <1>7, <1>8 DEF ProviderInv

LEMMA InitInv == ASSUME Init PROVE ProviderInv
<1>1. PICK c \in Configs : api = c[1] /\ cap = c[2] /\ handler = c[3] BY DEF Init
<1>2. c \in {"openai", "anthropic"} \X (Nat \ {0}) \X (Kinds \cup {"none"})
  BY <1>1, ProviderAssumption
<1>3. <<api, cap, handler>> = c BY <1>1, <1>2
<1>4. cap \in Nat /\ slots = cap BY <1>1, <1>2 DEF Init
<1>5. /\ Window \in Nat /\ MaxRequests \in Nat /\ MaxRetries \in Nat
      /\ OverloadBackoffs \in Nat /\ MaxChunks \in Nat
  BY ProviderAssumption
<1>6. TypeOK
  <2>1. slots \in 0..cap /\ attempt \in Nat /\ overload \in Nat BY <1>4 DEF Init
  <2>2. req \in [Requests -> ReqSet] BY <1>5 DEF Init, ReqSet, Pcs
  <2>3. out \in [Requests -> Seq(EventSet)] /\ stamps \in Seq(0..Window) BY DEF Init
  <2>4. tail \in [Requests -> TailSet] BY <1>5 DEF Init, NewTail, TailSet
  <2> QED BY <1>1, <1>3, <2>1, <2>2, <2>3, <2>4 DEF TypeOK, ReqSet, Pcs, TailSet, EventSet
<1>7. SlotsInv
  <2>1. \A r \in Requests : ~HasSlot(r) BY DEF Init, HasSlot
  <2>2. Holders = {} BY <2>1 DEF Holders
  <2>3. Cardinality(Holders) = 0 BY <2>2, FS_EmptySet
  <2> QED BY <1>4, <2>3 DEF SlotsInv
<1>8. WindowInv BY <1>5 DEF Init, WindowInv, Within, Ordered
<1>9. StopLast BY DEF Init, StopLast
<1> QED BY <1>6, <1>7, <1>8, <1>9 DEF ProviderInv

LEMMA InvStep == ASSUME ProviderInv, [Next]_vars PROVE ProviderInv'
<1>1. CASE UNCHANGED vars
  <2>1. UNCHANGED <<api, cap, handler, req, out, tail, stamps, slots, attempt, overload, admitted>>
    BY <1>1 DEF vars
  <2>2. SlotsInv'
    <3>1. Holders' = Holders BY <2>1 DEF Holders, HasSlot
    <3> QED BY <2>1, <3>1 DEF ProviderInv, SlotsInv
  <2> QED BY <2>1, <2>2 DEF ProviderInv, TypeOK, WindowInv, Within, Ordered, StopLast
<1>2. CASE Tick BY <1>2, TickStep
<1>3. ASSUME NEW r \in Requests, Start(r) \/ Task(r) \/ Chunk(r) \/ Cancel(r)
      PROVE  ProviderInv'
  <2>0. TypeOK /\ WindowInv /\ SlotsInv /\ StopLast BY DEF ProviderInv
  <2>1. Moves(r) /\ Hands(r) /\ WindowInv' BY <1>3, RequestStep
  <2>2. SlotsInv' /\ slots' \in 0..cap' BY <2>0, <2>1, SlotsStep
  <2>3. StopLast' BY <2>0, <2>1, StopStep
  <2>4. stamps' \in Seq(0..Window) BY <2>1 DEF WindowInv, Within
  <2>5. <<api, cap, handler>>' \in Configs BY <2>0, <2>1 DEF TypeOK, Moves, config
  <2>6. out' \in [Requests -> Seq(EventSet)] BY <2>0, <2>1, HandsType
  <2>7. /\ req' \in [Requests -> ReqSet] /\ tail' \in [Requests -> TailSet]
        /\ attempt' \in Nat /\ overload' \in Nat
    BY <2>1 DEF Moves
  <2>8. TypeOK'
    BY <2>2, <2>4, <2>5, <2>6, <2>7 DEF TypeOK, ReqSet, Pcs, TailSet, EventSet
  <2> QED BY <2>1, <2>2, <2>3, <2>8 DEF ProviderInv
<1> QED BY <1>1, <1>2, <1>3 DEF Next
-----------------------------------------------------------------------------
(* The invariant of the limiter, the retry loops and the streams is inductive. *)
THEOREM ProviderInvariant == Spec => []ProviderInv
BY InitInv, InvStep, PTL DEF Spec

(* The types of the provider's state: above all, the limiter's semaphore never
   falls below zero nor rises above its concurrency, whichever way requests
   end (acquire's except clause, release), and no retry loop outruns its budget. *)
THEOREM ProviderIsTyped == Spec => []TypeOK
<1>1. ProviderInv => TypeOK BY DEF ProviderInv
<1> QED BY <1>1, ProviderInvariant, PTL

(* Every slot of the semaphore is free or with a request that is connecting,
   waiting for the window, or reading an OpenAI stream: cancellation, failure
   and the end of a stream all give it back (SlidingWindowLimiter.acquire). *)
THEOREM NoSlotIsLost == Spec => []SlotsInv
<1>1. ProviderInv => SlotsInv BY DEF ProviderInv
<1> QED BY <1>1, ProviderInvariant, PTL

(* Never more than MaxRequests attempts within a window, for any number of
   requests, retries, cancellations and waits (SlidingWindowLimiter.acquire). *)
THEOREM WindowHolds == Spec => []WindowCap
<1>1. ProviderInv => WindowCap BY DEF ProviderInv, WindowInv, WindowCap
<1> QED BY <1>1, ProviderInvariant, PTL

(* A stop is handed on once, last, by a stream that ended, with the usage the
   stream reported (_iter_stream_events, _stream_with_retry). *)
THEOREM StopIsLast == Spec => []StopLast
<1>1. ProviderInv => StopLast BY DEF ProviderInv
<1> QED BY <1>1, ProviderInvariant, PTL
=============================================================================
