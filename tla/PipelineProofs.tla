--------------------------- MODULE PipelineProofs ---------------------------
(***************************************************************************)
(* Proofs about Pipeline, for any components, graph, groups and numbers of *)
(* permits, connections and runs.  First the sort: Kahn's algorithm and    *)
(* the levels find a schedule for every graph without a cycle.  Then the   *)
(* runs: they follow their schedule, so inputs are ready, groups bounded   *)
(* and the promise of Dataflow kept.                                       *)
(***************************************************************************)
EXTENDS Pipeline, FiniteSetTheorems, SequenceTheorems, WellFoundedInduction, TLAPS

LEMMA Finite == IsFiniteSet(Comps) /\ Cardinality(Comps) \in Nat /\ Comps # {} /\ Comps \subseteq Nat
BY PipelineAssumption, FS_CardinalityType
-----------------------------------------------------------------------------
(* Induction over numbers, without an operator: a least counterexample. *)
LEMMA LeastNat == ASSUME NEW T \in SUBSET Nat, T # {} PROVE \E n \in T : \A m \in T : n <= m
<1>1. PICK n \in T : \A m \in T : ~(<<m, n>> \in OpToRel(<, Nat))
  BY NatLessThanWellFounded, WFMin
<1>2. ASSUME NEW m \in T PROVE n <= m
  <2>1. m \in Nat /\ n \in Nat OBVIOUS
  <2>2. ~(m < n) BY <1>1, <2>1 DEF OpToRel
  <2> QED BY <2>1, <2>2
<1> QED BY <1>2

(* Kahn's algorithm is what its recursive definition says: g makes the first n
   steps of it. *)
KahnUpTo(g, n) == g = [i \in 0..n |-> IF i = 0 THEN KahnStart ELSE KahnStep(g[i - 1])]

LEMMA KahnUnique ==
  ASSUME NEW g, NEW h, NEW m \in Nat, NEW n \in Nat, KahnUpTo(g, m), KahnUpTo(h, n)
  PROVE  \A i \in Nat : i <= m /\ i <= n => g[i] = h[i]
<1> DEFINE T == {i \in Nat : i <= m /\ i <= n /\ g[i] # h[i]}
<1> SUFFICES ASSUME T # {} PROVE FALSE OBVIOUS
<1>1. PICK i \in T : \A j \in T : i <= j BY LeastNat
<1>2. i # 0 BY <1>1 DEF KahnUpTo
<1>3. i - 1 \in Nat /\ i - 1 <= m /\ i - 1 <= n /\ ~(i <= i - 1) BY <1>1, <1>2
<1>4. g[i - 1] = h[i - 1] BY <1>1, <1>3
<1>5. g[i] = KahnStep(g[i - 1]) /\ h[i] = KahnStep(h[i - 1]) BY <1>1, <1>2 DEF KahnUpTo
<1> QED BY <1>1, <1>4, <1>5

LEMMA KahnExists == \A n \in Nat : \E g : KahnUpTo(g, n)
<1> DEFINE T == {n \in Nat : ~\E g : KahnUpTo(g, n)}
<1> SUFFICES ASSUME T # {} PROVE FALSE OBVIOUS
<1>1. PICK n \in T : \A j \in T : n <= j BY LeastNat
<1>2. CASE n = 0
  <2> DEFINE g == [i \in 0..0 |-> KahnStart]
  <2>1. g = [i \in 0..0 |-> IF i = 0 THEN KahnStart ELSE KahnStep(g[i - 1])] OBVIOUS
  <2> QED BY <1>1, <1>2, <2>1 DEF KahnUpTo
<1>3. CASE n # 0
  <2>1. n - 1 \in Nat /\ ~(n <= n - 1) BY <1>3
  <2>2. PICK h : KahnUpTo(h, n - 1) BY <1>1, <2>1
  <2> DEFINE g == [i \in 0..n |-> IF i = 0 THEN KahnStart ELSE KahnStep(h[i - 1])]
  <2>3. ASSUME NEW i \in 0..n, i # 0 PROVE g[i - 1] = h[i - 1]
    <3>1. i - 1 \in 0..n /\ i - 1 \in 0..(n - 1) BY <2>3
    <3> QED BY <2>2, <3>1 DEF KahnUpTo
  <2>4. g = [i \in 0..n |-> IF i = 0 THEN KahnStart ELSE KahnStep(g[i - 1])] BY <2>3
  <2> QED BY <1>1, <2>4 DEF KahnUpTo
<1> QED BY <1>2, <1>3

LEMMA KahnDef == Kahn = [n \in Nat |-> IF n = 0 THEN KahnStart ELSE KahnStep(Kahn[n - 1])]
<1> DEFINE F(n) == CHOOSE g : KahnUpTo(g, n)
           f == [n \in Nat |-> F(n)[n]]
<1>1. \A n \in Nat : KahnUpTo(F(n), n) BY KahnExists
<1> HIDE DEF F
<1>2. ASSUME NEW n \in Nat PROVE f[n] = IF n = 0 THEN KahnStart ELSE KahnStep(f[n - 1])
  <2>1. CASE n = 0 BY <1>1, <2>1 DEF KahnUpTo
  <2>2. CASE n # 0
    <3>1. n - 1 \in Nat /\ n - 1 <= n /\ n \in 0..n BY <2>2
    <3>2. KahnUpTo(F(n), n) /\ KahnUpTo(F(n - 1), n - 1) BY <1>1, <3>1
    <3>3. F(n)[n] = KahnStep(F(n)[n - 1]) BY <2>2, <3>1, <3>2 DEF KahnUpTo
    <3>4. F(n)[n - 1] = F(n - 1)[n - 1] BY <3>1, <3>2, KahnUnique
    <3>5. f[n] = F(n)[n] /\ f[n - 1] = F(n - 1)[n - 1] BY <3>1
    <3> QED BY <2>2, <3>3, <3>4, <3>5
  <2> QED BY <2>1, <2>2
<1>3. f = [n \in Nat |-> IF n = 0 THEN KahnStart ELSE KahnStep(f[n - 1])] BY <1>2
<1> HIDE DEF f
<1>4. \E h : h = [n \in Nat |-> IF n = 0 THEN KahnStart ELSE KahnStep(h[n - 1])] BY <1>3
<1> QED BY <1>4 DEF Kahn

(* s lists the members of S, each once. *)
Lists(s, S) ==
  /\ s \in Seq(S) /\ \A c \in S : \E i \in DOMAIN s : s[i] = c
  /\ \A i, j \in DOMAIN s : s[i] = s[j] => i = j

LEMMA ListsFacts ==
  ASSUME NEW S, NEW s, Lists(s, S)
  PROVE  /\ Len(s) \in Nat /\ DOMAIN s = 1..Len(s) /\ ToSet(s) = S
         /\ \A i \in DOMAIN s : s[i] \in S
         /\ s = <<>> <=> S = {}
<1>1. Len(s) \in Nat /\ DOMAIN s = 1..Len(s) /\ \A i \in DOMAIN s : s[i] \in S BY DEF Lists
<1>2. ToSet(s) = S BY <1>1 DEF Lists, ToSet
<1>3. s = <<>> => S = {} BY DEF Lists
<1>4. s # <<>> => 1 \in DOMAIN s BY <1>1 DEF Lists
<1> QED BY <1>1, <1>2, <1>3, <1>4

LEMMA ListsLength ==
  ASSUME NEW S, NEW s, Lists(s, S)
  PROVE  IsFiniteSet(S) /\ Cardinality(S) = Len(s)
<1>1. /\ Len(s) \in Nat /\ DOMAIN s = 1..Len(s) /\ s \in [1..Len(s) -> S]
  BY ListsFacts DEF Lists
<1>2. s \in Bijection(1..Len(s), S)
  BY <1>1 DEF Lists, Bijection, Injection, Surjection, IsInjective
<1>3. ExistsBijection(1..Len(s), S) BY <1>2 DEF ExistsBijection
<1> QED BY <1>1, <1>3, FS_CountingElements, FS_NatBijection

LEMMA ListsTail ==
  ASSUME NEW S, NEW s, Lists(s, S), s # <<>>
  PROVE  Head(s) \in S /\ Lists(Tail(s), S \ {Head(s)})
<1>1. s \in Seq(S) /\ Len(s) \in Nat \ {0} /\ DOMAIN s = 1..Len(s) BY DEF Lists
<1>2. Head(s) = s[1] /\ Head(s) \in S BY <1>1
<1>3. /\ Tail(s) \in Seq(S) /\ Len(Tail(s)) = Len(s) - 1 /\ DOMAIN Tail(s) = 1..(Len(s) - 1)
      /\ \A i \in 1..(Len(s) - 1) : Tail(s)[i] = s[i + 1] /\ i + 1 \in DOMAIN s /\ i + 1 # 1
  BY <1>1
<1>4. \A i \in DOMAIN Tail(s) : Tail(s)[i] \in S \ {Head(s)}
  BY <1>1, <1>2, <1>3 DEF Lists
<1>5. Tail(s) \in Seq(S \ {Head(s)})
  <2>1. PICK t : t = Tail(s) OBVIOUS
  <2>2. t \in Seq(S) /\ \A i \in DOMAIN t : t[i] \in S \ {Head(s)} BY <1>3, <1>4, <2>1
  <2>3. t \in Seq(S \ {Head(s)}) BY <2>2
  <2> QED BY <2>1, <2>3
<1>6. ASSUME NEW c \in S \ {Head(s)} PROVE \E i \in DOMAIN Tail(s) : Tail(s)[i] = c
  <2>1. PICK i \in DOMAIN s : s[i] = c BY DEF Lists
  <2>2. i # 1 BY <1>2, <1>6, <2>1
  <2>3. i - 1 \in 1..(Len(s) - 1) /\ (i - 1) + 1 = i BY <1>1, <2>1, <2>2
  <2> QED BY <1>3, <2>1, <2>3
<1>7. \A i, j \in DOMAIN Tail(s) : Tail(s)[i] = Tail(s)[j] => i = j
  <2> SUFFICES ASSUME NEW i \in DOMAIN Tail(s), NEW j \in DOMAIN Tail(s), Tail(s)[i] = Tail(s)[j]
               PROVE  i = j
    OBVIOUS
  <2>1. i + 1 = j + 1 BY <1>3 DEF Lists
  <2> QED BY <1>3, <2>1
<1> QED BY <1>2, <1>5, <1>6, <1>7 DEF Lists

LEMMA ListsConcat ==
  ASSUME NEW S, NEW T, NEW s, NEW t, Lists(s, S), Lists(t, T), S \cap T = {}
  PROVE  Lists(s \o t, S \cup T)
<1> DEFINE u == s \o t
<1>1. /\ s \in Seq(S \cup T) /\ t \in Seq(S \cup T)
      /\ Len(s) \in Nat /\ DOMAIN s = 1..Len(s) /\ Len(t) \in Nat /\ DOMAIN t = 1..Len(t)
      /\ (\A i \in DOMAIN s : s[i] \in S) /\ \A i \in DOMAIN t : t[i] \in T
  BY DEF Lists
<1>2. /\ u \in Seq(S \cup T) /\ Len(u) = Len(s) + Len(t)
      /\ \A i \in 1..(Len(s) + Len(t)) : u[i] = IF i <= Len(s) THEN s[i] ELSE t[i - Len(s)]
  BY <1>1, ConcatProperties
<1> HIDE DEF u
<1>3. DOMAIN u = 1..(Len(s) + Len(t)) BY <1>2
<1>4. \A i \in DOMAIN s : i \in DOMAIN u /\ u[i] = s[i] BY <1>1, <1>2, <1>3
<1>5. ASSUME NEW i \in DOMAIN t PROVE Len(s) + i \in DOMAIN u /\ u[Len(s) + i] = t[i]
  <2>1. Len(s) + i \in 1..(Len(s) + Len(t)) /\ ~(Len(s) + i <= Len(s)) /\ (Len(s) + i) - Len(s) = i
    BY <1>1
  <2> QED BY <1>2, <1>3, <2>1
<1>6. ASSUME NEW c \in S \cup T PROVE \E i \in DOMAIN u : u[i] = c
  <2>1. CASE c \in S BY <1>4, <2>1 DEF Lists
  <2>2. CASE c \in T BY <1>5, <2>2 DEF Lists
  <2> QED BY <1>6, <2>1, <2>2
<1>7. ASSUME NEW k \in DOMAIN u
      PROVE  \/ k \in DOMAIN s /\ u[k] = s[k] /\ u[k] \in S
             \/ k > Len(s) /\ k - Len(s) \in DOMAIN t /\ u[k] = t[k - Len(s)] /\ u[k] \in T
  <2>1. CASE k <= Len(s)
    <3>1. k \in DOMAIN s BY <1>1, <1>3, <2>1
    <3> QED BY <1>1, <1>4, <3>1
  <2>2. CASE ~(k <= Len(s))
    <3>1. k > Len(s) /\ k - Len(s) \in DOMAIN t BY <1>1, <1>3, <2>2
    <3>2. u[k] = t[k - Len(s)] BY <1>2, <1>3, <2>2
    <3> QED BY <1>1, <3>1, <3>2
  <2> QED BY <2>1, <2>2
<1>8. ASSUME NEW i \in DOMAIN u, NEW j \in DOMAIN u, u[i] = u[j] PROVE i = j
  <2>1. CASE i \in DOMAIN s /\ u[i] = s[i] /\ u[i] \in S
    <3>1. j \in DOMAIN s /\ u[j] = s[j] BY <1>7, <1>8, <2>1
    <3> QED BY <1>8, <2>1, <3>1 DEF Lists
  <2>2. CASE i > Len(s) /\ i - Len(s) \in DOMAIN t /\ u[i] = t[i - Len(s)] /\ u[i] \in T
    <3>1. j - Len(s) \in DOMAIN t /\ u[j] = t[j - Len(s)] BY <1>7, <1>8, <2>2
    <3>2. i - Len(s) = j - Len(s) BY <1>8, <2>2, <3>1 DEF Lists
    <3>3. i \in Nat /\ j \in Nat BY <1>1, <1>3
    <3> QED BY <1>1, <3>2, <3>3
  <2> QED BY <1>7, <2>1, <2>2
<1>9. Lists(u, S \cup T) BY <1>2, <1>6, <1>8 DEF Lists
<1> QED BY <1>9 DEF u

(* Sorted lists its argument. *)
LEMMA SortedLists ==
  ASSUME NEW S \in SUBSET Nat, IsFiniteSet(S)
  PROVE  Lists(Sorted(S), S)
<1> DEFINE n == Cardinality(S)
           Below(c) == {b \in S : b < c}
           rank == [c \in S |-> Cardinality(Below(c))]
<1>1. n \in Nat BY FS_CardinalityType
<1>2. ASSUME NEW c \in S
      PROVE  IsFiniteSet(Below(c)) /\ Cardinality(Below(c)) \in Nat /\ Cardinality(Below(c)) < n
  <2>1. Below(c) \subseteq S \ {c} OBVIOUS
  <2>2. IsFiniteSet(S \ {c}) /\ Cardinality(S \ {c}) = n - 1 BY FS_RemoveElement
  <2> HIDE DEF Below, n
  <2>3. IsFiniteSet(Below(c)) /\ Cardinality(Below(c)) <= n - 1 BY <2>1, <2>2, FS_Subset
  <2>4. Cardinality(Below(c)) \in Nat BY <2>3, FS_CardinalityType
  <2> QED BY <1>1, <2>3, <2>4
<1>3. ASSUME NEW a \in S, NEW b \in S, a < b
      PROVE  Cardinality(Below(a)) < Cardinality(Below(b))
  <2>0. a \in Nat /\ b \in Nat OBVIOUS
  <2>1. Below(a) \cup {a} \subseteq Below(b) /\ a \notin Below(a)
    <3>1. ASSUME NEW c \in S, c < a PROVE c < b
      <4>1. c \in Nat OBVIOUS
      <4> QED BY <1>3, <2>0, <3>1, <4>1
    <3>2. a \notin Below(a) BY <2>0
    <3> QED BY <1>3, <3>1, <3>2
  <2>2. Cardinality(Below(a) \cup {a}) = Cardinality(Below(a)) + 1 BY <1>2, <2>1, FS_AddElement
  <2> HIDE DEF Below
  <2>3. Cardinality(Below(a) \cup {a}) <= Cardinality(Below(b)) BY <1>2, <2>1, FS_Subset
  <2> QED BY <1>2, <2>2, <2>3
<1>4. \A a, b \in S : rank[a] = rank[b] => a = b
  <2> SUFFICES ASSUME NEW a \in S, NEW b \in S, a # b PROVE rank[a] # rank[b] OBVIOUS
  <2>1. a < b \/ b < a OBVIOUS
  <2>2. Cardinality(Below(a)) \in Nat /\ Cardinality(Below(b)) \in Nat BY <1>2
  <2>3. Cardinality(Below(a)) # Cardinality(Below(b)) BY <1>3, <2>1, <2>2
  <2> QED BY <2>3
<1> HIDE DEF n, Below
<1>5. rank \in [S -> 0..(n - 1)] BY <1>1, <1>2
<1>6. IsFiniteSet(0..(n - 1)) /\ Cardinality(0..(n - 1)) = n
  <2>1. 0 \in Int /\ n - 1 \in Int BY <1>1
  <2>2. IsFiniteSet(0..(n - 1)) /\ Cardinality(0..(n - 1)) = IF 0 > n - 1 THEN 0 ELSE (n - 1) - 0 + 1
    BY <2>1, FS_Interval, Zenon
  <2>3. n = IF 0 > n - 1 THEN 0 ELSE (n - 1) - 0 + 1 BY <1>1
  <2> QED BY <2>2, <2>3
<1>7. \A k \in 0..(n - 1) : \E c \in S : rank[c] = k
  <2>1. rank \in Injection(S, 0..(n - 1)) BY <1>4, <1>5 DEF Injection, IsInjective
  <2>2. Cardinality(S) = Cardinality(0..(n - 1)) BY <1>6 DEF n
  <2> HIDE DEF rank
  <2>3. rank \in Surjection(S, 0..(n - 1)) BY <1>6, <2>1, <2>2, FS_Injection
  <2> QED BY <2>3 DEF Surjection
<1> DEFINE At(i) == CHOOSE c \in S : Cardinality(Below(c)) = i - 1
<1>8. ASSUME NEW i \in 1..n PROVE At(i) \in S /\ Cardinality(Below(At(i))) = i - 1
  <2>1. i - 1 \in 0..(n - 1) BY <1>1
  <2>2. PICK c \in S : rank[c] = i - 1 BY <1>7, <2>1
  <2>3. \E d \in S : Cardinality(Below(d)) = i - 1 BY <2>2
  <2> QED BY <2>3
<1> HIDE DEF At
<1>9. Sorted(S) = [i \in 1..n |-> At(i)] BY DEF Sorted, n, At, Below
<1> DEFINE s == [i \in 1..n |-> At(i)]
<1>10. s \in Seq(S) /\ DOMAIN s = 1..n BY <1>1, <1>8
<1>11. ASSUME NEW c \in S PROVE \E i \in DOMAIN s : s[i] = c
  <2>1. rank[c] + 1 \in 1..n /\ (rank[c] + 1) - 1 = rank[c] BY <1>1, <1>5
  <2>2. At(rank[c] + 1) \in S /\ Cardinality(Below(At(rank[c] + 1))) = rank[c] BY <1>8, <2>1
  <2>3. At(rank[c] + 1) = c BY <1>4, <2>2
  <2> QED BY <1>10, <2>1, <2>3
<1>12. ASSUME NEW i \in DOMAIN s, NEW j \in DOMAIN s, s[i] = s[j] PROVE i = j
  <2>1. At(i) = At(j) BY <1>12
  <2>2. i - 1 = j - 1 BY <1>8, <1>10, <2>1
  <2> QED BY <1>1, <1>10, <2>2
<1>13. Lists(s, S) BY <1>10, <1>11, <1>12 DEF Lists
<1> QED BY <1>9, <1>13

(* After n steps: the order lists components after those they depend on, the
   queue those that are ready, and no step was idle before the queue is empty. *)
Ready(O) == {c \in Comps : c \notin O /\ Preds(c) \subseteq O}
KahnInv(k, n) ==
  /\ ToSet(k.order) \subseteq Comps /\ Lists(k.order, ToSet(k.order))
  /\ Lists(k.queue, Ready(ToSet(k.order)))
  /\ \A j \in DOMAIN k.order : \A a \in Preds(k.order[j]) :
       \E i \in DOMAIN k.order : i < j /\ k.order[i] = a
  /\ Len(k.order) = n \/ k.queue = <<>>

LEMMA KahnStarts == KahnInv(KahnStart, 0)
<1> DEFINE S == {c \in Comps : Preds(c) = {}}
<1>1. KahnStart.order = <<>> /\ KahnStart.queue = Sorted(S) BY DEF KahnStart
<1>2. S \subseteq Nat /\ IsFiniteSet(S) BY Finite, FS_Subset
<1>3. Lists(Sorted(S), S) BY <1>2, SortedLists
<1>4. ToSet(<<>>) = {} BY DEF ToSet
<1>5. Ready({}) = S BY DEF Ready
<1>6. Lists(<<>>, {}) /\ Len(<<>>) = 0 BY DEF Lists
<1> HIDE DEF S
<1>7. PICK k : k = KahnStart OBVIOUS
<1>8. /\ ToSet(k.order) = {} /\ Lists(k.order, {}) /\ Lists(k.queue, Ready({}))
      /\ DOMAIN k.order = {} /\ Len(k.order) = 0
  BY <1>1, <1>3, <1>4, <1>5, <1>6, <1>7
<1> QED BY <1>7, <1>8 DEF KahnInv

LEMMA KahnSteps ==
  ASSUME NEW k, NEW n \in Nat, KahnInv(k, n)
  PROVE  KahnInv(KahnStep(k), n + 1)
<1>1. CASE k.queue = <<>> BY <1>1 DEF KahnInv, KahnStep
<1>2. CASE k.queue # <<>>
  <2> DEFINE O == ToSet(k.order)
             c == Head(k.queue)
             order == Append(k.order, c)
             P == O \cup {c}
             B == {b \in Succs(c) : Preds(b) \subseteq ToSet(order)}
             queue == Tail(k.queue) \o Sorted(B)
             d == KahnStep(k)
  <2>1. d.order = order /\ d.queue = queue BY <1>2 DEF KahnStep
  <2>2. /\ O \subseteq Comps /\ Lists(k.order, O) /\ Lists(k.queue, Ready(O))
        /\ Len(k.order) = n
    BY <1>2 DEF KahnInv
  <2>3. c \in Ready(O) /\ Lists(Tail(k.queue), Ready(O) \ {c}) BY <1>2, <2>2, ListsTail
  <2>4. c \in Comps /\ c \notin O /\ Preds(c) \subseteq O BY <2>3 DEF Ready
  <2>5. /\ Len(order) = n + 1 /\ DOMAIN order = 1..(n + 1) /\ order[n + 1] = c
        /\ DOMAIN k.order = 1..n /\ \A i \in 1..n : order[i] = k.order[i] /\ k.order[i] \in O
        /\ order \in Seq(P) /\ k.order \in Seq(O)
    BY <2>2 DEF Lists
  <2> HIDE DEF c, O, order
  <2>6. ToSet(order) = P
    <3>1. ToSet(k.order) = O BY DEF O
    <3>2. \A x \in O : \E i \in 1..n : k.order[i] = x BY <2>2, <2>5 DEF Lists
    <3>3. \A x \in P : \E i \in 1..(n + 1) : order[i] = x BY <2>5, <3>2
    <3>4. \A i \in 1..(n + 1) : order[i] \in P BY <2>5
    <3> QED BY <2>5, <3>3, <3>4 DEF ToSet
  <2>7. Lists(order, P)
    <3>1. \A x \in P : \E i \in DOMAIN order : order[i] = x BY <2>6 DEF ToSet
    <3>2. ASSUME NEW i \in DOMAIN order, NEW j \in DOMAIN order, order[i] = order[j] PROVE i = j
      <4>1. CASE i = n + 1 \/ j = n + 1 BY <2>4, <2>5, <3>2, <4>1
      <4>2. CASE i # n + 1 /\ j # n + 1
        <5>1. i \in 1..n /\ j \in 1..n BY <2>5, <4>2
        <5> QED BY <2>2, <2>5, <3>2, <5>1 DEF Lists
      <4> QED BY <4>1, <4>2
    <3> QED BY <2>5, <3>1, <3>2 DEF Lists
  <2>8. \A j \in DOMAIN order : \A a \in Preds(order[j]) :
          \E i \in DOMAIN order : i < j /\ order[i] = a
    <3> SUFFICES ASSUME NEW j \in DOMAIN order, NEW a \in Preds(order[j])
                 PROVE  \E i \in DOMAIN order : i < j /\ order[i] = a
      OBVIOUS
    <3>1. CASE j = n + 1
      <4>1. a \in O BY <2>4, <2>5, <3>1
      <4>2. PICK i \in DOMAIN k.order : k.order[i] = a BY <2>2, <4>1 DEF Lists
      <4>3. i \in DOMAIN order /\ i < j /\ order[i] = a BY <2>5, <3>1, <4>2
      <4> QED BY <4>3
    <3>2. CASE j # n + 1
      <4>1. j \in DOMAIN k.order /\ order[j] = k.order[j] BY <2>5, <3>2
      <4>2. PICK i \in DOMAIN k.order : i < j /\ k.order[i] = a BY <4>1 DEF KahnInv
      <4>3. i \in DOMAIN order /\ order[i] = a BY <2>5, <4>2
      <4> QED BY <4>2, <4>3
    <3> QED BY <3>1, <3>2
  <2>9. \A x \in O : Preds(x) \subseteq O
    <3> SUFFICES ASSUME NEW x \in O, NEW a \in Preds(x) PROVE a \in O OBVIOUS
    <3>1. PICK j \in DOMAIN k.order : k.order[j] = x BY <2>2 DEF Lists
    <3>2. PICK i \in DOMAIN k.order : k.order[i] = a BY <3>1 DEF KahnInv
    <3> QED BY <2>5, <3>2
  <2>10. /\ B \subseteq Comps /\ \A b \in Comps : b \in B <=> c \in Preds(b) /\ Preds(b) \subseteq P
    BY <2>4, <2>6 DEF Succs, Preds
  <2> HIDE DEF B
  <2>11. Lists(Sorted(B), B)
    <3>1. B \subseteq Nat /\ IsFiniteSet(B) BY <2>10, Finite, FS_Subset
    <3> QED BY <3>1, SortedLists
  <2>12. (Ready(O) \ {c}) \cap B = {} BY <2>4, <2>10 DEF Ready
  <2>13. (Ready(O) \ {c}) \cup B = Ready(P)
    <3>1. ASSUME NEW x \in Ready(O) \ {c} PROVE x \in Ready(P) BY <3>1 DEF Ready
    <3>2. ASSUME NEW x \in B PROVE x \in Ready(P)
      <4>1. x \in Comps /\ c \in Preds(x) /\ Preds(x) \subseteq P BY <2>10, <3>2
      <4>2. x \notin O BY <2>4, <2>9, <4>1
      <4>3. x # c BY <2>4, <4>1
      <4> QED BY <4>1, <4>2, <4>3 DEF Ready
    <3>3. ASSUME NEW x \in Ready(P), x \notin B PROVE x \in Ready(O) \ {c}
      <4>1. x \in Comps /\ x \notin P /\ Preds(x) \subseteq P BY <3>3 DEF Ready
      <4>2. c \notin Preds(x) BY <2>10, <3>3, <4>1
      <4> QED BY <4>1, <4>2 DEF Ready
    <3> QED BY <3>1, <3>2, <3>3
  <2>14. Lists(queue, Ready(P)) BY <2>3, <2>11, <2>12, <2>13, ListsConcat
  <2>15. P \subseteq Comps BY <2>2, <2>4
  <2> HIDE DEF P, d, queue
  <2> QED BY <2>1, <2>5, <2>6, <2>7, <2>8, <2>14, <2>15 DEF KahnInv, d
<1> QED BY <1>1, <1>2

LEMMA KahnRuns == \A n \in Nat : KahnInv(Kahn[n], n)
<1> DEFINE T == {n \in Nat : ~KahnInv(Kahn[n], n)}
<1> SUFFICES ASSUME T # {} PROVE FALSE OBVIOUS
<1>1. PICK n \in T : \A j \in T : n <= j BY LeastNat
<1>2. CASE n = 0
  <2>1. Kahn[0] = KahnStart BY KahnDef
  <2> QED BY <1>1, <1>2, <2>1, KahnStarts
<1>3. CASE n # 0
  <2>1. n \in Nat /\ n - 1 \in Nat /\ ~(n <= n - 1) /\ (n - 1) + 1 = n BY <1>1, <1>3
  <2>2. KahnInv(Kahn[n - 1], n - 1) BY <1>1, <2>1
  <2>3. Kahn[n] = KahnStep(Kahn[n - 1]) BY <1>3, <2>1, KahnDef
  <2>4. KahnInv(KahnStep(Kahn[n - 1]), (n - 1) + 1) BY <2>1, <2>2, KahnSteps
  <2> QED BY <1>1, <2>1, <2>3, <2>4
<1> QED BY <1>2, <1>3

(* s is a topological order of the components. *)
Topological(s) ==
  /\ Lists(s, Comps)
  /\ \A j \in DOMAIN s : \A a \in Preds(s[j]) : \E i \in DOMAIN s : i < j /\ s[i] = a

LEMMA CyclesRefused == Cyclic => Deadlocked
<1> SUFFICES ASSUME Cyclic PROVE Deadlocked OBVIOUS
<1> DEFINE k == Kahn[Cardinality(Comps)]
           O == ToSet(k.order)
           S == Comps \ O
<1>1. KahnInv(k, Cardinality(Comps)) /\ Len(k.order) # Cardinality(Comps)
  BY KahnRuns, Finite DEF Cyclic, TopologicalSort
<1> HIDE DEF k
<1>2. O \subseteq Comps /\ Lists(k.order, O) /\ Lists(k.queue, Ready(O)) /\ k.queue = <<>>
  BY <1>1 DEF KahnInv
<1> HIDE DEF O
<1>3. S # {}
  <2>1. Cardinality(O) = Len(k.order) BY <1>2, ListsLength
  <2>2. O # Comps BY <1>1, <2>1
  <2> QED BY <1>2, <2>2
<1>4. Ready(O) = {} BY <1>2, ListsFacts
<1>5. \A c \in S : Preds(c) \cap S # {} BY <1>4 DEF Ready, Preds
<1> QED BY <1>3, <1>5 DEF Deadlocked

LEMMA SortIsTopological == ~Cyclic => Topological(TopologicalSort)
<1> SUFFICES ASSUME ~Cyclic PROVE Topological(TopologicalSort) OBVIOUS
<1> DEFINE k == Kahn[Cardinality(Comps)]
           O == ToSet(k.order)
<1>1. /\ KahnInv(k, Cardinality(Comps)) /\ Len(k.order) = Cardinality(Comps)
      /\ TopologicalSort = k.order
  BY KahnRuns, Finite DEF Cyclic, TopologicalSort
<1> HIDE DEF k
<1>2. /\ O \subseteq Comps /\ Lists(k.order, O)
      /\ \A j \in DOMAIN k.order : \A a \in Preds(k.order[j]) :
           \E i \in DOMAIN k.order : i < j /\ k.order[i] = a
  BY <1>1 DEF KahnInv
<1> HIDE DEF O
<1>3. Cardinality(O) = Cardinality(Comps) BY <1>1, <1>2, ListsLength
<1>4. O = Comps BY <1>2, <1>3, Finite, FS_Subset
<1> QED BY <1>1, <1>2, <1>4 DEF Topological

LEMMA OnlyCyclesRefused == Deadlocked => Cyclic
<1> SUFFICES ASSUME Deadlocked, ~Cyclic PROVE FALSE OBVIOUS
<1>1. PICK S \in SUBSET Comps : S # {} /\ \A c \in S : Preds(c) \cap S # {} BY DEF Deadlocked
<1>2. PICK t : t = TopologicalSort OBVIOUS
<1>3. Lists(t, Comps) /\ Topological(t) BY <1>2, SortIsTopological DEF Topological
<1>4. PICK n \in Nat : DOMAIN t = 1..n BY <1>3, ListsFacts
<1> DEFINE T == {i \in Nat : i \in 1..n /\ t[i] \in S}
<1>5. T # {}
  <2>1. PICK c \in S : TRUE BY <1>1
  <2>2. PICK i \in 1..n : t[i] = c BY <1>3, <1>4 DEF Lists
  <2> QED BY <1>4, <2>2
<1>6. PICK i \in T : \A j \in T : i <= j BY <1>5, LeastNat
<1>7. PICK a \in Preds(t[i]) : a \in S BY <1>1, <1>6
<1>8. PICK j \in 1..n : j < i /\ t[j] = a BY <1>3, <1>4, <1>6, <1>7 DEF Topological
<1>9. j \in T /\ i \in Nat /\ j \in Nat BY <1>4, <1>6, <1>7, <1>8
<1> QED BY <1>6, <1>8, <1>9

LEMMA SyncSchedule == ~Cyclic => Schedule(Stages("sync"))
<1> SUFFICES ASSUME ~Cyclic PROVE Schedule(Stages("sync")) OBVIOUS
<1> DEFINE n == Cardinality(Comps)
<1>0. PICK t : t = TopologicalSort OBVIOUS
<1>1. Lists(t, Comps) /\ Topological(t) BY <1>0, SortIsTopological DEF Topological
<1>2. n \in Nat /\ n # 0 /\ Len(t) = n /\ DOMAIN t = 1..n /\ \A i \in 1..n : t[i] \in Comps
  BY <1>1, Finite, FS_EmptySet, ListsFacts, ListsLength
<1>3. PICK s : s = [i \in 1..n |-> {t[i]}] OBVIOUS
<1>4. Stages("sync") = s BY <1>0, <1>3 DEF Stages
<1> HIDE DEF n
<1>5. s \in Seq(SUBSET Comps) /\ DOMAIN s = 1..n /\ Len(s) = n /\ \A i \in 1..n : s[i] = {t[i]}
  BY <1>2, <1>3
<1>6. Upto(s, n) = Comps
  <2>1. \A c \in Comps : \E i \in 1..n : c = t[i] BY <1>1, <1>2 DEF Lists
  <2>2. \A i \in 1..n : i <= n BY <1>2
  <2> QED BY <1>5, <2>1, <2>2 DEF Upto
<1>7. ASSUME NEW j \in 1..n
      PROVE  /\ s[j] # {} /\ s[j] \cap Upto(s, j - 1) = {}
             /\ \A c \in s[j] : Preds(c) \subseteq Upto(s, j - 1)
  <2>1. s[j] = {t[j]} BY <1>5
  <2>2. t[j] \notin Upto(s, j - 1)
    <3>1. ASSUME NEW i \in 1..n, i <= j - 1, t[j] \in s[i] PROVE FALSE
      <4>1. t[i] = t[j] BY <1>5, <3>1
      <4>2. i = j BY <1>1, <1>2, <4>1 DEF Lists
      <4> QED BY <1>2, <3>1, <4>2
    <3> QED BY <1>5, <3>1 DEF Upto
  <2>3. ASSUME NEW a \in Preds(t[j]) PROVE a \in Upto(s, j - 1)
    <3>1. PICK i \in 1..n : i < j /\ t[i] = a BY <1>1, <1>2 DEF Topological
    <3>2. i <= j - 1 /\ a \in s[i] /\ a \in Comps BY <1>2, <1>5, <3>1
    <3> QED BY <1>5, <3>2 DEF Upto
  <2> QED BY <2>1, <2>2, <2>3
<1>8. Len(s) \in 1..Cardinality(Comps) BY <1>2, <1>5 DEF n
<1> QED BY <1>4, <1>5, <1>6, <1>7, <1>8 DEF Schedule

(* A finite set of numbers has a greatest. *)
LEMMA MaxExists ==
  ASSUME NEW S \in SUBSET Nat, IsFiniteSet(S), S # {}
  PROVE  Max(S) \in S /\ \A y \in S : y <= Max(S)
<1> DEFINE Bad(U) == IsFiniteSet(U) /\ U # {} /\ ~\E x \in U : \A y \in U : x >= y
           T == {n \in Nat : \E U \in SUBSET Nat : Bad(U) /\ Cardinality(U) = n}
<1>1. T = {}
  <2> SUFFICES ASSUME T # {} PROVE FALSE OBVIOUS
  <2>1. PICK n \in T : \A j \in T : n <= j BY LeastNat
  <2>2. PICK U \in SUBSET Nat : Bad(U) /\ Cardinality(U) = n BY <2>1
  <2>3. PICK x \in U : TRUE BY <2>2
  <2> DEFINE V == U \ {x}
  <2>4. IsFiniteSet(V) /\ Cardinality(V) = n - 1 /\ V \subseteq Nat BY <2>2, <2>3, FS_RemoveElement
  <2>5. n - 1 \in Nat /\ ~(n <= n - 1) BY <2>1, <2>4, FS_CardinalityType
  <2>6. ~Bad(V) BY <2>1, <2>4, <2>5
  <2>7. CASE V = {}
    <3>1. U = {x} BY <2>3, <2>7
    <3>2. x \in Nat /\ x >= x OBVIOUS
    <3> QED BY <2>2, <3>1, <3>2
  <2>8. CASE V # {}
    <3>1. PICK y \in V : \A z \in V : y >= z BY <2>4, <2>6, <2>8
    <3>2. x \in Nat /\ y \in Nat /\ \A z \in V : z \in Nat BY <2>4
    <3>3. \A z \in U : z = x \/ z \in V OBVIOUS
    <3>4. CASE x >= y
      <4>1. \A z \in V : x >= z BY <3>1, <3>2, <3>4
      <4>2. \A z \in U : x >= z BY <3>2, <3>3, <4>1
      <4> QED BY <2>2, <4>2
    <3>5. CASE ~(x >= y)
      <4>1. y >= x BY <3>2, <3>5
      <4>2. \A z \in U : y >= z BY <3>1, <3>3, <4>1
      <4> QED BY <2>2, <3>1, <4>2
    <3> QED BY <3>4, <3>5
  <2> QED BY <2>7, <2>8
<1>2. \E x \in S : \A y \in S : x >= y
  <2>1. Cardinality(S) \in Nat BY FS_CardinalityType
  <2> QED BY <1>1, <2>1
<1>3. Max(S) \in S /\ \A y \in S : Max(S) >= y BY <1>2 DEF Max
<1>4. ASSUME NEW m \in S, \A y \in S : m >= y PROVE \A y \in S : y <= m
  BY <1>4
<1> QED BY <1>3, <1>4

(* The depths of an acyclic graph are what their recursive definition says. *)
Level(g, c) == IF Preds(c) = {} THEN 0 ELSE Max({g[a] : a \in Preds(c)}) + 1

LEMMA LevelLocal ==
  ASSUME NEW g, NEW h, NEW c, \A a \in Preds(c) : g[a] = h[a]
  PROVE  Level(g, c) = Level(h, c)
<1>1. {g[a] : a \in Preds(c)} = {h[a] : a \in Preds(c)} OBVIOUS
<1> QED BY <1>1, Zenon DEF Level

LEMMA DepthExists == ASSUME ~Cyclic PROVE \E g : g = [c \in Comps |-> Level(g, c)]
<1>0. PICK t : t = TopologicalSort OBVIOUS
<1>1. Lists(t, Comps) /\ Topological(t) BY <1>0, SortIsTopological DEF Topological
<1>2. PICK n \in Nat : n = Len(t) /\ DOMAIN t = 1..n BY <1>1, ListsFacts
<1>3. \A i \in 1..n : t[i] \in Comps BY <1>1, <1>2, ListsFacts
<1> DEFINE Good(g, m) == DOMAIN g = Comps /\ \A i \in 1..n : i <= m => g[t[i]] = Level(g, t[i])
           T == {m \in Nat : m <= n /\ ~\E g : Good(g, m)}
<1>4. T = {}
  <2> SUFFICES ASSUME T # {} PROVE FALSE OBVIOUS
  <2>1. PICK m \in T : \A j \in T : m <= j BY LeastNat
  <2>2. m \in Nat /\ m <= n /\ ~\E g : Good(g, m) BY <2>1
  <2>3. CASE m = 0
    <3>1. Good([c \in Comps |-> 0], 0) OBVIOUS
    <3> QED BY <2>2, <2>3, <3>1
  <2>4. CASE m # 0
    <3>1. m - 1 \in Nat /\ m - 1 <= n /\ ~(m <= m - 1) /\ m \in 1..n BY <2>2, <2>4
    <3>2. PICK h : Good(h, m - 1) BY <2>1, <3>1
    <3> DEFINE x == t[m]
    <3>3. PICK g : g = [c \in Comps |-> IF c = x THEN Level(h, x) ELSE h[c]] OBVIOUS
    <3>4. ASSUME NEW i \in 1..n, i <= m, NEW a \in Preds(t[i]) PROVE g[a] = h[a]
      <4>1. PICK j \in 1..n : j < i /\ t[j] = a BY <1>1, <1>2, <3>4 DEF Topological
      <4>2. j # m BY <2>2, <3>4, <4>1
      <4>3. a # x /\ a \in Comps BY <1>1, <1>2, <1>3, <3>1, <4>1, <4>2 DEF Lists
      <4> QED BY <3>3, <4>3
    <3>5. ASSUME NEW i \in 1..n, i <= m PROVE g[t[i]] = Level(g, t[i])
      <4>1. Level(g, t[i]) = Level(h, t[i]) BY <3>4, <3>5, LevelLocal
      <4>2. CASE i = m BY <1>3, <3>3, <4>1, <4>2
      <4>3. CASE i # m
        <5>1. i <= m - 1 BY <2>2, <3>5, <4>3
        <5>2. h[t[i]] = Level(h, t[i]) BY <3>2, <5>1
        <5>3. t[i] # x BY <1>1, <1>2, <3>1, <4>3 DEF Lists
        <5> QED BY <1>3, <3>3, <4>1, <5>2, <5>3
      <4> QED BY <4>2, <4>3
    <3>6. Good(g, m) BY <3>3, <3>5
    <3> QED BY <2>2, <3>6
  <2> QED BY <2>3, <2>4
<1>5. PICK g : Good(g, n)
  <2>1. n <= n BY <1>2
  <2> QED BY <1>2, <1>4, <2>1
<1>6. ASSUME NEW c \in Comps PROVE g[c] = Level(g, c)
  <2>1. PICK i \in 1..n : t[i] = c BY <1>1, <1>2 DEF Lists
  <2>2. i <= n BY <1>2
  <2> QED BY <1>5, <2>1, <2>2
<1>7. DOMAIN g = Comps BY <1>5
<1> HIDE DEF Good
<1>8. PICK h : h = [c \in Comps |-> Level(g, c)] OBVIOUS
<1>9. \A c \in Comps : h[c] = g[c] BY <1>6, <1>8
<1>10. \A c \in Comps : Level(h, c) = Level(g, c) BY <1>9, LevelLocal DEF Preds
<1>11. h = [c \in Comps |-> Level(h, c)] BY <1>8, <1>10
<1> QED BY <1>11

LEMMA DepthDef == ASSUME ~Cyclic PROVE Depth = [c \in Comps |-> Level(Depth, c)]
<1>1. \E g : g = [c \in Comps |-> IF Preds(c) = {} THEN 0 ELSE Max({g[a] : a \in Preds(c)}) + 1]
  BY DepthExists DEF Level
<1>2. Depth = CHOOSE g : g = [c \in Comps |->
                IF Preds(c) = {} THEN 0 ELSE Max({g[a] : a \in Preds(c)}) + 1]
  BY DEF Depth
<1>3. Depth = [c \in Comps |-> IF Preds(c) = {} THEN 0 ELSE Max({Depth[a] : a \in Preds(c)}) + 1]
  BY <1>1, <1>2
<1> QED BY <1>3 DEF Level

(* Components are deeper than those they depend on, the next one by one. *)
LEMMA DepthFacts ==
  ASSUME ~Cyclic
  PROVE  /\ Depth \in [Comps -> Nat]
         /\ \A c \in Comps : \A a \in Preds(c) : Depth[a] < Depth[c]
         /\ \A c \in Comps : Depth[c] # 0 => \E a \in Preds(c) : Depth[a] + 1 = Depth[c]
<1>0. PICK t : t = TopologicalSort OBVIOUS
<1>1. Lists(t, Comps) /\ Topological(t) BY <1>0, SortIsTopological DEF Topological
<1>2. PICK n \in Nat : n = Len(t) /\ DOMAIN t = 1..n BY <1>1, ListsFacts
<1>3. PICK d : d = Depth OBVIOUS
<1>4. d = [c \in Comps |-> Level(d, c)] BY <1>3, DepthDef
<1>5. DOMAIN d = Comps /\ \A c \in Comps : d[c] = Level(d, c) BY <1>4
<1>6. ASSUME NEW c \in Comps, \A a \in Preds(c) : d[a] \in Nat
      PROVE  /\ d[c] \in Nat /\ \A a \in Preds(c) : d[a] < d[c]
             /\ d[c] # 0 => \E a \in Preds(c) : d[a] + 1 = d[c]
  <2>1. CASE Preds(c) = {} BY <1>5, <2>1 DEF Level
  <2>2. CASE Preds(c) # {}
    <3> DEFINE S == {d[a] : a \in Preds(c)}
               f == [a \in Preds(c) |-> d[a]]
    <3>1. S \subseteq Nat /\ S # {} BY <1>6, <2>2
    <3>2. IsFiniteSet(S)
      <4>1. f \in Surjection(Preds(c), S) BY DEF Surjection
      <4>2. IsFiniteSet(Preds(c)) BY Finite, FS_Subset DEF Preds
      <4> HIDE DEF f, S
      <4> QED BY <4>1, <4>2, FS_Surjection
    <3>3. d[c] = Max(S) + 1 BY <1>5, <2>2 DEF Level
    <3>4. Max(S) \in S /\ \A y \in S : y <= Max(S)
      <4> HIDE DEF S
      <4> QED BY <3>1, <3>2, MaxExists
    <3>5. PICK m : m = Max(S) OBVIOUS
    <3>6. m \in Nat /\ d[c] = m + 1 BY <3>1, <3>3, <3>4, <3>5
    <3>7. ASSUME NEW a \in Preds(c) PROVE d[a] < d[c]
      <4>1. d[a] \in Nat /\ d[a] <= m BY <1>6, <3>4, <3>5
      <4> QED BY <3>6, <4>1
    <3>8. \E a \in Preds(c) : d[a] = m BY <3>4, <3>5
    <3> QED BY <3>6, <3>7, <3>8
  <2> QED BY <2>1, <2>2
<1> DEFINE T == {i \in Nat : i \in 1..n /\ d[t[i]] \notin Nat}
<1>7. T = {}
  <2> SUFFICES ASSUME T # {} PROVE FALSE OBVIOUS
  <2>1. PICK i \in T : \A j \in T : i <= j BY LeastNat
  <2>2. i \in 1..n /\ t[i] \in Comps BY <1>1, <1>2, <2>1, ListsFacts
  <2>3. ASSUME NEW a \in Preds(t[i]) PROVE d[a] \in Nat
    <3>1. PICK j \in 1..n : j < i /\ t[j] = a BY <1>1, <1>2, <2>2, <2>3 DEF Topological
    <3>2. j \in Nat /\ ~(i <= j) BY <2>2, <3>1
    <3> QED BY <2>1, <3>1, <3>2
  <2> QED BY <1>6, <2>1, <2>2, <2>3
<1>8. ASSUME NEW c \in Comps PROVE d[c] \in Nat
  <2>1. PICK i \in 1..n : t[i] = c BY <1>1, <1>2 DEF Lists
  <2> QED BY <1>2, <1>7, <2>1
<1>9. \A c \in Comps : \A a \in Preds(c) : d[a] \in Nat BY <1>8 DEF Preds
<1>10. d \in [Comps -> Nat] BY <1>4, <1>8
<1> QED BY <1>3, <1>6, <1>9, <1>10

LEMMA AsyncSchedule == ~Cyclic => Schedule(Stages("async"))
<1> SUFFICES ASSUME ~Cyclic PROVE Schedule(Stages("async")) OBVIOUS
<1>0. PICK d : d = Depth OBVIOUS
<1>1. /\ d \in [Comps -> Nat]
      /\ \A c \in Comps : \A a \in Preds(c) : d[a] < d[c]
      /\ \A c \in Comps : d[c] # 0 => \E a \in Preds(c) : d[a] + 1 = d[c]
  BY <1>0, DepthFacts
<1> DEFINE S == {d[c] : c \in Comps}
<1>2. S \subseteq Nat /\ S # {} /\ d \in Surjection(Comps, S) BY <1>1, Finite DEF Surjection
<1>3. PICK m : m = Max(S) OBVIOUS
<1>4. m \in Nat /\ (\A c \in Comps : d[c] <= m) /\ \E c \in Comps : d[c] = m
  <2> HIDE DEF S
  <2>1. IsFiniteSet(S) BY <1>2, Finite, FS_Surjection
  <2>2. m \in S /\ \A y \in S : y <= m BY <1>2, <1>3, <2>1, MaxExists
  <2> QED BY <1>2, <2>2 DEF S
<1>5. PICK s : s = [i \in 1..(m + 1) |-> {c \in Comps : d[c] = i - 1}] OBVIOUS
<1>6. Stages("async") = s BY <1>0, <1>3, <1>5 DEF Stages
<1> HIDE DEF S
<1>7. /\ s \in Seq(SUBSET Comps) /\ DOMAIN s = 1..(m + 1) /\ Len(s) = m + 1
      /\ \A i \in 1..(m + 1) : s[i] = {c \in Comps : d[c] = i - 1}
  BY <1>4, <1>5
<1>8. ASSUME NEW k \in 0..(m + 1) PROVE Upto(s, k) = {c \in Comps : d[c] < k}
  <2>1. ASSUME NEW c \in Upto(s, k) PROVE d[c] < k
    <3>1. PICK i \in 1..(m + 1) : i <= k /\ c \in s[i] BY <1>7, <2>1 DEF Upto
    <3>2. d[c] = i - 1 BY <1>7, <3>1
    <3> QED BY <1>4, <1>8, <3>1, <3>2
  <2>2. ASSUME NEW c \in Comps, d[c] < k PROVE c \in Upto(s, k)
    <3>1. d[c] \in Nat BY <1>1
    <3>2. d[c] + 1 \in 1..(m + 1) /\ d[c] + 1 <= k /\ (d[c] + 1) - 1 = d[c] BY <1>4, <1>8, <2>2, <3>1
    <3>3. c \in s[d[c] + 1] BY <1>7, <3>2
    <3> QED BY <1>7, <3>2, <3>3 DEF Upto
  <2>3. Upto(s, k) \subseteq Comps BY DEF Upto
  <2> QED BY <2>1, <2>2, <2>3
<1>9. Upto(s, m + 1) = Comps
  <2>1. m + 1 \in 0..(m + 1) BY <1>4
  <2>2. \A c \in Comps : d[c] < m + 1 BY <1>1, <1>4
  <2> QED BY <1>8, <2>1, <2>2
<1>10. \A k \in 0..m : \E c \in Comps : d[c] = k
  <2> DEFINE T == {i \in Nat : i <= m /\ ~\E c \in Comps : d[c] = m - i}
  <2>1. T = {}
    <3> SUFFICES ASSUME T # {} PROVE FALSE OBVIOUS
    <3>1. PICK i \in T : \A j \in T : i <= j BY LeastNat
    <3>2. i \in Nat /\ i <= m /\ ~\E c \in Comps : d[c] = m - i BY <3>1
    <3>3. i # 0 BY <1>4, <3>2
    <3>4. i - 1 \in Nat /\ i - 1 <= m /\ ~(i <= i - 1) BY <1>4, <3>2, <3>3
    <3>5. PICK c \in Comps : d[c] = m - (i - 1) BY <3>1, <3>4
    <3>6. d[c] # 0 BY <1>4, <3>2, <3>5
    <3>7. PICK a \in Preds(c) : d[a] + 1 = d[c] BY <1>1, <3>6
    <3>8. a \in Comps /\ d[a] \in Nat BY <1>1, <3>7 DEF Preds
    <3>9. d[a] = m - i BY <1>4, <3>2, <3>5, <3>7, <3>8
    <3> QED BY <3>2, <3>8, <3>9
  <2>2. ASSUME NEW k \in 0..m PROVE \E c \in Comps : d[c] = k
    <3>1. m - k \in Nat /\ m - k <= m /\ m - (m - k) = k BY <1>4, <2>2
    <3> QED BY <2>1, <3>1
  <2> QED BY <2>2
<1>11. m + 1 \in 1..Cardinality(Comps)
  <2>1. d \in Surjection(Comps, 0..m)
    <3>1. d \in [Comps -> 0..m] BY <1>1, <1>4
    <3> QED BY <1>10, <3>1 DEF Surjection
  <2>2. Cardinality(0..m) <= Cardinality(Comps) BY <2>1, Finite, FS_Surjection
  <2>3. Cardinality(0..m) = m + 1
    <3>1. 0 \in Int /\ m \in Int BY <1>4
    <3>2. Cardinality(0..m) = IF 0 > m THEN 0 ELSE m - 0 + 1 BY <3>1, FS_Interval, Zenon
    <3>3. m + 1 = IF 0 > m THEN 0 ELSE m - 0 + 1 BY <1>4
    <3> QED BY <3>2, <3>3
  <2> QED BY <1>4, <2>2, <2>3, Finite
<1>12. ASSUME NEW j \in 1..(m + 1)
       PROVE  /\ s[j] # {} /\ s[j] \cap Upto(s, j - 1) = {}
              /\ \A c \in s[j] : Preds(c) \subseteq Upto(s, j - 1)
  <2>1. j - 1 \in 0..(m + 1) /\ j - 1 \in 0..m BY <1>4
  <2>2. s[j] = {c \in Comps : d[c] = j - 1} /\ Upto(s, j - 1) = {c \in Comps : d[c] < j - 1}
    BY <1>7, <1>8, <2>1
  <2>3. s[j] # {} BY <1>10, <2>1, <2>2
  <2>4. ~(j - 1 < j - 1) BY <1>4
  <2>5. s[j] \cap Upto(s, j - 1) = {} BY <2>2, <2>4
  <2>6. \A c \in s[j] : Preds(c) \subseteq Upto(s, j - 1) BY <1>1, <2>2 DEF Preds
  <2> QED BY <2>3, <2>5, <2>6
<1> QED BY <1>6, <1>7, <1>9, <1>11, <1>12 DEF Schedule

(* Graph.topological_sort and _compute_levels: for every graph the sort refuses
   it if and only if it has a cycle, and otherwise the order and the levels run
   every component once, after those it depends on. *)
THEOREM SortIsRight == Sorts
<1> QED BY CyclesRefused, OnlyCyclesRefused, SyncSchedule, AsyncSchedule DEF Sorts
-----------------------------------------------------------------------------
(* Nothing of a run has happened, or it was refused; or it follows its
   schedule: what is recorded is what the stages before the present one have
   returned, and only components of the present one wait or run. *)
Unbegun(r) ==
  /\ status[r] \in {"ready", "raised"} /\ level[r] = 0 /\ stages[r] = <<>>
  /\ outputs[r] = {} /\ \A c \in Comps : st[r][c] = "idle"

Begun(r) ==
  /\ status[r] # "ready" /\ Schedule(stages[r]) /\ level[r] \in DOMAIN stages[r]
  /\ Upto(stages[r], level[r] - 1) \subseteq outputs[r]
  /\ status[r] # "returned" => outputs[r] = Upto(stages[r], level[r] - 1)
  /\ status[r] = "returned" => outputs[r] = Comps
  /\ \A c \in outputs[r] : st[r][c] = "done"
  /\ \A c \in Comps : st[r][c] \in {"waiting", "running"} => c \in Stage(r)

RunInv == \A r \in Runs : Unbegun(r) \/ Begun(r)

PipelineInv == TypeOK /\ RunInv /\ GroupBound
-----------------------------------------------------------------------------
Status == {"ready", "running", "returned", "raised", "cancelled"}
State == {"idle", "waiting", "running", "done", "failed", "cancelled"}

(* A step of a run leaves the other runs alone. *)
LEMMA Frame ==
  ASSUME NEW r, UNCHANGED <<edges, status[r], level[r], stages[r], outputs[r], st[r]>>,
         Unbegun(r) \/ Begun(r)
  PROVE  Unbegun(r)' \/ Begun(r)'
<1>1. CASE Unbegun(r) BY <1>1 DEF Unbegun
<1>2. CASE Begun(r)
  <2>1. Schedule(stages[r])' BY <1>2 DEF Begun, Schedule, Upto, Preds
  <2>2. Upto(stages[r], level[r] - 1)' = Upto(stages[r], level[r] - 1) BY DEF Upto
  <2>3. Stage(r)' = Stage(r) BY DEF Stage
  <2> QED BY <1>2, <2>1, <2>2, <2>3 DEF Begun
<1> QED BY <1>1, <1>2

LEMMA OneRun ==
  ASSUME RunInv, NEW r \in Runs, edges' = edges, Unbegun(r)' \/ Begun(r)',
         \A q \in Runs : q # r => UNCHANGED <<status[q], level[q], stages[q], outputs[q], st[q]>>
  PROVE  RunInv'
<1>1. ASSUME NEW q \in Runs, q # r PROVE Unbegun(q)' \/ Begun(q)'
  BY <1>1, Frame DEF RunInv
<1> QED BY <1>1 DEF RunInv

(* A group may only shrink. *)
LEMMA Shrinks ==
  ASSUME GroupBound, \A r \in Runs, c \in Comps : st'[r][c] = "running" => st[r][c] = "running"
  PROVE  GroupBound'
<1> SUFFICES ASSUME NEW r \in Runs, NEW c \in Comps
             PROVE  Cardinality(InFlight(r, Group[c])') <= MaxParallelism
  BY DEF GroupBound
<1> DEFINE F == InFlight(r, Group[c])
           G == InFlight(r, Group[c])'
<1>1. G \subseteq F /\ F \subseteq Comps BY DEF InFlight
<1>2. Cardinality(F) <= MaxParallelism BY DEF GroupBound
<1> HIDE DEF F, G
<1>3. IsFiniteSet(F) BY <1>1, Finite, FS_Subset
<1>4. Cardinality(G) <= Cardinality(F) /\ Cardinality(G) \in Nat /\ Cardinality(F) \in Nat
  BY <1>1, <1>3, FS_Subset, FS_CardinalityType
<1>5. Cardinality(G) <= MaxParallelism BY <1>2, <1>4, PipelineAssumption
<1> QED BY <1>5 DEF G

LEMMA PipelineInit == Init => PipelineInv
<1> SUFFICES ASSUME Init PROVE PipelineInv OBVIOUS
<1>1. TypeOK
  <2>1. Cardinality(edges) = 0 /\ 0 <= MaxConnects BY FS_EmptySet, PipelineAssumption DEF Init
  <2>2. 0 \in 0..Cardinality(Comps) BY Finite
  <2> QED BY <2>1, <2>2 DEF Init, TypeOK
<1>2. RunInv BY DEF Init, RunInv, Unbegun
<1>3. GroupBound
  <2> SUFFICES ASSUME NEW r \in Runs, NEW c \in Comps
               PROVE  Cardinality(InFlight(r, Group[c])) <= MaxParallelism
    BY DEF GroupBound
  <2>1. InFlight(r, Group[c]) = {} BY DEF InFlight, Init
  <2>2. Cardinality(InFlight(r, Group[c])) = 0 BY <2>1, FS_EmptySet
  <2> QED BY <2>2, PipelineAssumption
<1> QED BY <1>1, <1>2, <1>3 DEF PipelineInv

LEMMA ConnectStep ==
  ASSUME PipelineInv, NEW a \in Comps, NEW b \in Comps, Connect(a, b)
  PROVE  PipelineInv'
<1>0. TypeOK /\ RunInv /\ GroupBound BY DEF PipelineInv
<1>1. /\ \A r \in Runs : status[r] = "ready"
      /\ Cardinality(edges) < MaxConnects /\ edges' = edges \cup {<<a, b>>}
      /\ UNCHANGED <<status, mode, stages, level, st, outputs>>
  BY DEF Connect
<1>2. edges' \subseteq Comps \X Comps /\ Cardinality(edges') <= MaxConnects
  <2>1. edges \subseteq Comps \X Comps BY <1>0 DEF TypeOK
  <2>2. IsFiniteSet(Comps \X Comps) BY Finite, FS_Product
  <2>3. IsFiniteSet(edges) BY <2>1, <2>2, FS_Subset
  <2>4. /\ Cardinality(edges') = Cardinality(edges) \/ Cardinality(edges') = Cardinality(edges) + 1
        /\ Cardinality(edges) \in Nat
    BY <1>1, <2>3, FS_AddElement, FS_CardinalityType
  <2> QED BY <1>1, <2>1, <2>4, PipelineAssumption
<1>3. TypeOK' BY <1>0, <1>1, <1>2 DEF TypeOK
<1>4. RunInv'
  <2>1. \A r \in Runs : Unbegun(r) BY <1>0, <1>1 DEF RunInv, Begun
  <2>2. \A r \in Runs : Unbegun(r)' BY <1>1, <2>1 DEF Unbegun
  <2> QED BY <2>2 DEF RunInv
<1>5. GroupBound' BY <1>0, <1>1, Shrinks
<1> QED BY <1>3, <1>4, <1>5 DEF PipelineInv

(* Facts about a schedule. *)
LEMMA ScheduleFacts ==
  ASSUME NEW s, Schedule(s)
  PROVE  /\ s \in Seq(SUBSET Comps) /\ Len(s) \in Nat \ {0} /\ DOMAIN s = 1..Len(s)
         /\ Len(s) <= Cardinality(Comps) /\ 1 \in DOMAIN s
         /\ Upto(s, 0) = {}
         /\ \A j \in DOMAIN s : s[j] \subseteq Comps /\ Upto(s, j) = Upto(s, j - 1) \cup s[j]
<1>1. /\ s \in Seq(SUBSET Comps) /\ Len(s) \in Nat \ {0} /\ DOMAIN s = 1..Len(s)
      /\ Len(s) <= Cardinality(Comps) /\ 1 \in DOMAIN s
  BY Finite DEF Schedule
<1>2. Upto(s, 0) = {} BY <1>1 DEF Upto
<1>3. ASSUME NEW j \in DOMAIN s
      PROVE  s[j] \subseteq Comps /\ Upto(s, j) = Upto(s, j - 1) \cup s[j]
  <2>1. s[j] \subseteq Comps BY <1>1
  <2>2. \A i \in DOMAIN s : i <= j <=> i <= j - 1 \/ i = j BY <1>1
  <2> QED BY <2>1, <2>2 DEF Upto
<1> QED BY <1>1, <1>2, <1>3

(* A stage is entered: its components, none of which has run, queue. *)
LEMMA Entered ==
  ASSUME NEW r \in Runs, NEW S, NEW i, st \in [Runs -> [Comps -> State]],
         level \in [Runs -> 0..Cardinality(Comps)], Enter(r, S, i)
  PROVE  /\ st' \in [Runs -> [Comps -> State]] /\ level'[r] = i
         /\ \A c \in Comps : st'[r][c] = IF c \in S THEN "waiting" ELSE st[r][c]
         /\ \A q \in Runs : q # r => st'[q] = st[q] /\ level'[q] = level[q]
         /\ \A q \in Runs, c \in Comps : st'[q][c] = "running" => st[q][c] = "running"
         /\ i \in 0..Cardinality(Comps) => level' \in [Runs -> 0..Cardinality(Comps)]
BY DEF Enter, State

LEMMA BeginStep == ASSUME PipelineInv, Sorts, NEW r \in Runs, Begin(r) PROVE PipelineInv'
<1>0. TypeOK /\ RunInv /\ GroupBound BY DEF PipelineInv
<1>1. /\ status[r] = "ready" /\ UNCHANGED <<edges, mode, outputs>> BY DEF Begin
<1>2. Unbegun(r) BY <1>0, <1>1 DEF RunInv, Begun
<1>3. CASE Cyclic
  <2>1. status' = [status EXCEPT ![r] = "raised"] /\ UNCHANGED <<stages, level, st>>
    BY <1>3 DEF Begin
  <2>2. TypeOK' BY <1>0, <1>1, <2>1 DEF TypeOK
  <2>3. Unbegun(r)' BY <1>0, <1>1, <1>2, <2>1 DEF Unbegun, TypeOK
  <2>4. \A q \in Runs : q # r => UNCHANGED <<status[q], level[q], stages[q], outputs[q], st[q]>>
    BY <1>0, <1>1, <2>1 DEF TypeOK
  <2>5. RunInv' BY <1>0, <1>1, <2>3, <2>4, OneRun
  <2>6. GroupBound' BY <1>0, <2>1, Shrinks
  <2> QED BY <2>2, <2>5, <2>6 DEF PipelineInv
<1>4. CASE ~Cyclic
  <2>0. PICK s : s = Stages(mode[r]) OBVIOUS
  <2>1. /\ status' = [status EXCEPT ![r] = "running"] /\ stages' = [stages EXCEPT ![r] = s]
        /\ Enter(r, stages'[r][1], 1)
    BY <1>4, <2>0 DEF Begin
  <2>2. Schedule(s) BY <1>0, <1>4, <2>0 DEF Sorts, TypeOK
  <2>3. stages'[r] = s BY <1>0, <2>1 DEF TypeOK
  <2>4. st \in [Runs -> [Comps -> State]] /\ level \in [Runs -> 0..Cardinality(Comps)]
    BY <1>0 DEF TypeOK, State
  <2>5. /\ s \in Seq(SUBSET Comps) /\ 1 \in DOMAIN s /\ 1 \in 0..Cardinality(Comps) /\ Upto(s, 0) = {}
    BY <2>2, ScheduleFacts, Finite
  <2>6. Enter(r, s[1], 1) BY <2>1, <2>3
  <2>7. /\ st' \in [Runs -> [Comps -> State]] /\ level'[r] = 1
        /\ \A c \in Comps : st'[r][c] = IF c \in s[1] THEN "waiting" ELSE st[r][c]
        /\ \A q \in Runs : q # r => st'[q] = st[q] /\ level'[q] = level[q]
        /\ \A q \in Runs, c \in Comps : st'[q][c] = "running" => st[q][c] = "running"
        /\ level' \in [Runs -> 0..Cardinality(Comps)]
    BY <2>4, <2>5, <2>6, Entered
  <2>8. \A c \in Comps : st'[r][c] = IF c \in s[1] THEN "waiting" ELSE "idle"
    BY <1>2, <2>7 DEF Unbegun
  <2>9. TypeOK'
    <3>1. \A q \in Runs : status'[q] = "running" =>
            \A c \in Comps : st'[q][c] \notin {"failed", "cancelled"}
      BY <1>0, <2>1, <2>7, <2>8 DEF TypeOK
    <3> QED BY <1>0, <1>1, <2>1, <2>5, <2>7, <3>1 DEF TypeOK, State
  <2>10. Begun(r)'
    <3>1. status'[r] = "running" BY <1>0, <2>1 DEF TypeOK
    <3>2. Schedule(stages[r])' /\ Upto(stages[r], level[r] - 1)' = {}
      <4>1. Schedule(s)' /\ Upto(s, 0)' = {} BY <1>1, <2>2, <2>5 DEF Schedule, Upto, Preds
      <4> QED BY <2>3, <2>7, <4>1 DEF Schedule, Upto
    <3>3. outputs'[r] = {} BY <1>1, <1>2 DEF Unbegun
    <3>4. Stage(r)' = s[1] BY <2>3, <2>7 DEF Stage
    <3> QED BY <2>3, <2>5, <2>7, <2>8, <3>1, <3>2, <3>3, <3>4 DEF Begun
  <2>11. \A q \in Runs : q # r => UNCHANGED <<status[q], level[q], stages[q], outputs[q], st[q]>>
    BY <1>0, <1>1, <2>1, <2>7 DEF TypeOK
  <2>12. RunInv' BY <1>0, <1>1, <2>10, <2>11, OneRun
  <2>13. GroupBound' BY <1>0, <2>7, Shrinks
  <2> QED BY <2>9, <2>12, <2>13 DEF PipelineInv
<1> QED BY <1>3, <1>4

(* Components of a run start, end or are cancelled; the run goes on or is
   given up. *)
LEMMA Moved ==
  ASSUME RunInv, NEW r \in Runs, UNCHANGED <<edges, stages, level, outputs>>,
         \E c \in Comps : st[r][c] # "idle",
         \/ status'[r] = status[r]
         \/ status[r] = "running" /\ status'[r] \in {"raised", "cancelled"},
         \A c \in Comps : st[r][c] = "done" => st'[r][c] = "done",
         \A c \in Comps : st'[r][c] \in {"waiting", "running"} => st[r][c] \in {"waiting", "running"},
         \A q \in Runs : q # r => status'[q] = status[q] /\ st'[q] = st[q]
  PROVE  RunInv'
<1>1. Begun(r) BY DEF RunInv, Unbegun
<1>2. Begun(r)'
  <2>1. Schedule(stages[r])' BY <1>1 DEF Begun, Schedule, Upto, Preds
  <2>2. Upto(stages[r], level[r] - 1)' = Upto(stages[r], level[r] - 1) BY DEF Upto
  <2>3. Stage(r)' = Stage(r) BY DEF Stage
  <2>4. outputs[r] \subseteq Comps BY <1>1 DEF Begun, Upto
  <2> QED BY <1>1, <2>1, <2>2, <2>3, <2>4 DEF Begun
<1> QED BY <1>2, OneRun

LEMMA AcquireStep ==
  ASSUME PipelineInv, NEW r \in Runs, NEW c \in Comps, Acquire(r, c)
  PROVE  PipelineInv'
<1>0. TypeOK /\ RunInv /\ GroupBound BY DEF PipelineInv
<1>1. /\ st[r][c] = "waiting" /\ Free(r, c) /\ st' = [st EXCEPT ![r][c] = "running"]
      /\ UNCHANGED <<edges, status, mode, stages, level, outputs>>
  BY DEF Acquire
<1>2. /\ st' \in [Runs -> [Comps -> State]] /\ st'[r][c] = "running"
      /\ \A d \in Comps : d # c => st'[r][d] = st[r][d]
      /\ \A q \in Runs : q # r => st'[q] = st[q]
  BY <1>0, <1>1 DEF TypeOK, State
<1>3. TypeOK' BY <1>0, <1>1, <1>2 DEF TypeOK, State
<1>4. RunInv' BY <1>0, <1>1, <1>2, Moved
<1>5. GroupBound'
  <2> SUFFICES ASSUME NEW q \in Runs, NEW d \in Comps
               PROVE  Cardinality(InFlight(q, Group[d])') <= MaxParallelism
    BY DEF GroupBound
  <2> DEFINE F == InFlight(q, Group[d])
             G == InFlight(q, Group[d])'
  <2>1. F \subseteq Comps /\ Cardinality(F) <= MaxParallelism BY <1>0 DEF GroupBound, InFlight
  <2>2. IsFiniteSet(F) /\ Cardinality(F) \in Nat
    BY <2>1, Finite, FS_Subset, FS_CardinalityType
  <2>3. CASE q = r /\ Group[d] = Group[c]
    <3>1. G = F \cup {c} BY <1>2, <2>3 DEF InFlight
    <3>2. Cardinality(F) < MaxParallelism BY <1>1, <2>3 DEF Free
    <3> HIDE DEF F, G
    <3>3. Cardinality(G) = Cardinality(F) \/ Cardinality(G) = Cardinality(F) + 1
      BY <2>2, <3>1, FS_AddElement
    <3>4. Cardinality(G) <= MaxParallelism BY <2>2, <3>2, <3>3, PipelineAssumption
    <3> QED BY <3>4 DEF G
  <2>4. CASE ~(q = r /\ Group[d] = Group[c])
    <3>1. G = F BY <1>2, <2>4 DEF InFlight
    <3> QED BY <2>1, <3>1
  <2> QED BY <2>3, <2>4
<1> QED BY <1>3, <1>4, <1>5 DEF PipelineInv

LEMMA FinishStep ==
  ASSUME PipelineInv, NEW r \in Runs, NEW c \in Comps, Finish(r, c)
  PROVE  PipelineInv'
<1>0. TypeOK /\ RunInv /\ GroupBound BY DEF PipelineInv
<1>1. /\ st[r][c] = "running" /\ st' = [st EXCEPT ![r][c] = "done"]
      /\ UNCHANGED <<edges, status, mode, stages, level, outputs>>
  BY DEF Finish
<1>2. /\ st' \in [Runs -> [Comps -> State]] /\ st'[r][c] = "done"
      /\ \A d \in Comps : d # c => st'[r][d] = st[r][d]
      /\ \A q \in Runs : q # r => st'[q] = st[q]
  BY <1>0, <1>1 DEF TypeOK, State
<1>3. TypeOK' BY <1>0, <1>1, <1>2 DEF TypeOK, State
<1>4. RunInv' BY <1>0, <1>1, <1>2, Moved
<1>5. GroupBound' BY <1>0, <1>2, Shrinks
<1> QED BY <1>3, <1>4, <1>5 DEF PipelineInv

LEMMA FailStep ==
  ASSUME PipelineInv, NEW r \in Runs, NEW c \in Comps, Fail(r, c)
  PROVE  PipelineInv'
<1>0. TypeOK /\ RunInv /\ GroupBound BY DEF PipelineInv
<1>1. /\ st[r][c] = "running" /\ st' = [st EXCEPT ![r][c] = "failed"]
      /\ status' = [status EXCEPT ![r] = IF status[r] = "running" THEN "raised" ELSE status[r]]
      /\ UNCHANGED <<edges, mode, stages, level, outputs>>
  BY DEF Fail
<1>2. /\ st' \in [Runs -> [Comps -> State]] /\ st'[r][c] = "failed"
      /\ \A d \in Comps : d # c => st'[r][d] = st[r][d]
      /\ \A q \in Runs : q # r => st'[q] = st[q]
  BY <1>0, <1>1 DEF TypeOK, State
<1>3. /\ status' \in [Runs -> Status] /\ status'[r] # "running"
      /\ status'[r] = status[r] \/ (status[r] = "running" /\ status'[r] = "raised")
      /\ \A q \in Runs : q # r => status'[q] = status[q]
  BY <1>0, <1>1 DEF TypeOK, Status
<1>4. TypeOK'
  <2>1. \A q \in Runs : status'[q] = "running" =>
          \A d \in Comps : st'[q][d] \notin {"failed", "cancelled"}
    BY <1>0, <1>2, <1>3 DEF TypeOK
  <2> QED BY <1>0, <1>1, <1>2, <1>3, <2>1 DEF TypeOK, State, Status
<1>5. RunInv' BY <1>0, <1>1, <1>2, <1>3, Moved
<1>6. GroupBound' BY <1>0, <1>2, Shrinks
<1> QED BY <1>4, <1>5, <1>6 DEF PipelineInv

LEMMA CancelStep == ASSUME PipelineInv, NEW r \in Runs, Cancel(r) PROVE PipelineInv'
<1>0. TypeOK /\ RunInv /\ GroupBound BY DEF PipelineInv
<1>1. /\ status[r] = "running" /\ status' = [status EXCEPT ![r] = "cancelled"]
      /\ UNCHANGED <<edges, mode, stages, level, outputs>>
  BY DEF Cancel
<1>2. /\ st' \in [Runs -> [Comps -> State]]
      /\ \A c \in Comps : st'[r][c] = st[r][c] \/ (st'[r][c] = "cancelled" /\ st[r][c] # "done")
      /\ \A q \in Runs : q # r => st'[q] = st[q]
  BY <1>0 DEF TypeOK, State, Cancel
<1>3. /\ status' \in [Runs -> Status] /\ status'[r] = "cancelled"
      /\ \A q \in Runs : q # r => status'[q] = status[q]
  BY <1>0, <1>1 DEF TypeOK, Status
<1>4. TypeOK'
  <2>1. \A q \in Runs : status'[q] = "running" =>
          \A d \in Comps : st'[q][d] \notin {"failed", "cancelled"}
    BY <1>0, <1>2, <1>3 DEF TypeOK
  <2> QED BY <1>0, <1>1, <1>2, <1>3, <2>1 DEF TypeOK, State, Status
<1>5. RunInv'
  <2>1. Begun(r) BY <1>0, <1>1 DEF RunInv, Unbegun
  <2>2. Begun(r)'
    <3>1. Schedule(stages[r])' BY <1>1, <2>1 DEF Begun, Schedule, Upto, Preds
    <3>2. Upto(stages[r], level[r] - 1)' = Upto(stages[r], level[r] - 1) BY <1>1 DEF Upto
    <3>3. Stage(r)' = Stage(r) BY <1>1 DEF Stage
    <3>4. outputs[r] \subseteq Comps BY <2>1 DEF Begun, Upto
    <3> QED BY <1>1, <1>2, <1>3, <2>1, <3>1, <3>2, <3>3, <3>4 DEF Begun
  <2> QED BY <1>0, <1>1, <1>2, <1>3, <2>2, OneRun
<1>6. GroupBound' BY <1>0, <1>2, Shrinks
<1> QED BY <1>4, <1>5, <1>6 DEF PipelineInv

LEMMA RecordStep == ASSUME PipelineInv, NEW r \in Runs, Record(r) PROVE PipelineInv'
<1>0. TypeOK /\ RunInv /\ GroupBound BY DEF PipelineInv
<1>1. /\ status[r] = "running" /\ Complete(r) /\ UNCHANGED <<edges, mode, stages>>
      /\ outputs' = [outputs EXCEPT ![r] = outputs[r] \cup Stage(r)]
  BY DEF Record
<1>2. Begun(r) BY <1>0, <1>1 DEF RunInv, Unbegun
<1>3. PICK s : s = stages[r] OBVIOUS
<1>4. PICK l : l = level[r] OBVIOUS
<1>5. Schedule(s) /\ l \in DOMAIN s /\ outputs[r] = Upto(s, l - 1) /\ Stage(r) = s[l]
  BY <1>1, <1>2, <1>3, <1>4 DEF Begun, Stage
<1>6. /\ s \in Seq(SUBSET Comps) /\ Len(s) \in Nat \ {0} /\ DOMAIN s = 1..Len(s)
      /\ Len(s) <= Cardinality(Comps) /\ s[l] \subseteq Comps
      /\ Upto(s, l) = Upto(s, l - 1) \cup s[l]
  BY <1>5, ScheduleFacts
<1>7. /\ outputs' \in [Runs -> SUBSET Comps] /\ outputs'[r] = Upto(s, l)
      /\ \A q \in Runs : q # r => outputs'[q] = outputs[q]
  BY <1>0, <1>1, <1>5, <1>6 DEF TypeOK
<1>8. \A c \in outputs'[r] : st[r][c] = "done"
  BY <1>1, <1>2, <1>5, <1>6, <1>7 DEF Begun, Complete
<1>9. Schedule(s)' /\ (\A n : Upto(s, n)' = Upto(s, n)) /\ stages'[r] = s
  BY <1>1, <1>3, <1>5 DEF Schedule, Upto, Preds
<1>10. CASE outputs'[r] # Comps /\ Enter(r, stages[r][level[r] + 1], level[r] + 1) /\ UNCHANGED status
  <2>1. l + 1 \in DOMAIN s /\ l + 1 \in 0..Cardinality(Comps) /\ (l + 1) - 1 = l
    <3>1. l # Len(s) BY <1>5, <1>7, <1>10 DEF Schedule
    <3> QED BY <1>5, <1>6, <3>1, Finite
  <2>2. Enter(r, s[l + 1], l + 1) BY <1>3, <1>4, <1>10
  <2>3. st \in [Runs -> [Comps -> State]] /\ level \in [Runs -> 0..Cardinality(Comps)]
    BY <1>0 DEF TypeOK, State
  <2>4. /\ st' \in [Runs -> [Comps -> State]] /\ level'[r] = l + 1
        /\ \A c \in Comps : st'[r][c] = IF c \in s[l + 1] THEN "waiting" ELSE st[r][c]
        /\ \A q \in Runs : q # r => st'[q] = st[q] /\ level'[q] = level[q]
        /\ \A q \in Runs, c \in Comps : st'[q][c] = "running" => st[q][c] = "running"
        /\ level' \in [Runs -> 0..Cardinality(Comps)]
    BY <2>1, <2>2, <2>3, Entered
  <2>5. s[l + 1] \cap Upto(s, l) = {} BY <1>5, <2>1 DEF Schedule
  <2>6. TypeOK'
    <3>1. \A q \in Runs : status'[q] = "running" =>
            \A c \in Comps : st'[q][c] \notin {"failed", "cancelled"}
      BY <1>0, <1>10, <2>4 DEF TypeOK
    <3> QED BY <1>0, <1>1, <1>7, <1>10, <2>4, <3>1 DEF TypeOK, State
  <2>7. Begun(r)'
    <3>1. Schedule(stages[r])' /\ Upto(stages[r], level[r] - 1)' = Upto(s, l)
      <4>1. level'[r] - 1 = l BY <2>1, <2>4
      <4> QED BY <1>9, <4>1 DEF Schedule, Upto
    <3>2. Stage(r)' = s[l + 1] BY <1>9, <2>4 DEF Stage
    <3>3. \A c \in outputs'[r] : st'[r][c] = "done"
      BY <1>0, <1>7, <1>8, <2>4, <2>5
    <3>4. \A c \in Comps : st'[r][c] \in {"waiting", "running"} => c \in s[l + 1]
      <4>1. ASSUME NEW c \in Comps, st'[r][c] \in {"waiting", "running"}, c \notin s[l + 1] PROVE FALSE
        <5>1. st[r][c] \in {"waiting", "running"} BY <2>4, <4>1
        <5>2. c \in s[l] BY <1>2, <1>5, <5>1 DEF Begun
        <5>3. st[r][c] = "done" BY <1>1, <1>5, <5>2 DEF Complete
        <5> QED BY <5>1, <5>3
      <4> QED BY <4>1
    <3> QED BY <1>1, <1>7, <1>9, <1>10, <2>1, <2>4, <3>1, <3>2, <3>3, <3>4 DEF Begun
  <2>8. RunInv' BY <1>0, <1>1, <1>7, <1>10, <2>4, <2>7, OneRun
  <2>9. GroupBound' BY <1>0, <2>4, Shrinks
  <2> QED BY <2>6, <2>8, <2>9 DEF PipelineInv
<1>11. CASE outputs'[r] = Comps /\ status' = [status EXCEPT ![r] = "returned"]
            /\ UNCHANGED <<level, st>>
  <2>1. /\ status' \in [Runs -> Status] /\ status'[r] = "returned"
        /\ \A q \in Runs : q # r => status'[q] = status[q]
    BY <1>0, <1>11 DEF TypeOK, Status
  <2>2. TypeOK' BY <1>0, <1>1, <1>7, <1>11, <2>1 DEF TypeOK, Status
  <2>3. Begun(r)'
    <3>1. Schedule(stages[r])' /\ Upto(stages[r], level[r] - 1)' \subseteq Comps
      BY <1>9 DEF Schedule, Upto
    <3>2. \A c \in outputs'[r] : st'[r][c] = "done" BY <1>8, <1>11
    <3>3. Stage(r)' = Stage(r) BY <1>1, <1>11 DEF Stage
    <3> QED BY <1>1, <1>2, <1>11, <2>1, <3>1, <3>2, <3>3 DEF Begun
  <2>4. RunInv' BY <1>0, <1>1, <1>7, <1>11, <2>1, <2>3, OneRun
  <2>5. GroupBound' BY <1>0, <1>11, Shrinks
  <2> QED BY <2>2, <2>4, <2>5 DEF PipelineInv
<1> QED BY <1>10, <1>11 DEF Record

LEMMA PipelineStep == PipelineInv /\ Sorts /\ [Next]_vars => PipelineInv'
<1> SUFFICES ASSUME PipelineInv, Sorts, [Next]_vars PROVE PipelineInv' OBVIOUS
<1>1. CASE UNCHANGED vars
  <2>1. UNCHANGED <<edges, status, mode, stages, level, st, outputs>> BY <1>1 DEF vars
  <2>2. TypeOK' BY <2>1 DEF PipelineInv, TypeOK
  <2>3. RunInv' BY <2>1, Frame DEF PipelineInv, RunInv
  <2>4. GroupBound' BY <2>1, Shrinks DEF PipelineInv
  <2> QED BY <2>2, <2>3, <2>4 DEF PipelineInv
<1>2. ASSUME NEW a \in Comps, NEW b \in Comps, Connect(a, b) PROVE PipelineInv'
  BY <1>2, ConnectStep
<1>3. ASSUME NEW r \in Runs, Begin(r) PROVE PipelineInv' BY <1>3, BeginStep
<1>4. ASSUME NEW r \in Runs, Work(r) PROVE PipelineInv'
  BY <1>4, RecordStep, AcquireStep, FinishStep, FailStep DEF Work
<1>5. ASSUME NEW r \in Runs, Cancel(r) PROVE PipelineInv' BY <1>5, CancelStep
<1> QED BY <1>1, <1>2, <1>3, <1>4, <1>5 DEF Next
-----------------------------------------------------------------------------
(* The inductive invariant of the runs of a pipeline. *)
THEOREM PipelineInvariant == Spec => []PipelineInv
<1> QED BY PipelineInit, PipelineStep, SortIsRight, PTL DEF Spec

(* Types; a run in progress has no failed component: the first exception ends
   it (run, run_async). *)
THEOREM PipelineIsTyped == Spec => []TypeOK
<1>1. PipelineInv => TypeOK BY DEF PipelineInv
<1> QED BY <1>1, PipelineInvariant, PTL

(* ConcurrencyGroup.run: never more than MAX_GROUP_PARALLELISM components of a
   group in flight in one run, for any graph, group and number of permits. *)
THEOREM GroupsAreBounded == Spec => []GroupBound
<1>1. PipelineInv => GroupBound BY DEF PipelineInv
<1> QED BY <1>1, PipelineInvariant, PTL

(* A component is never called before those it depends on have returned and
   their outputs are recorded, in whatever order its siblings finish or fail
   and whatever an earlier run left behind. *)
InputsReady ==
  \A r \in Runs, c \in Comps :
    st[r][c] = "running" =>
      Preds(c) \subseteq {a \in outputs[r] : st[r][a] = "done"}

(* Pipeline.run and AsyncPipeline.run_async: for every graph, no component is
   called before the outputs of those it depends on are recorded. *)
THEOREM InputsAreReady == Spec => []InputsReady
<1>1. ASSUME PipelineInv PROVE InputsReady
  <2> SUFFICES ASSUME NEW r \in Runs, NEW c \in Comps, st[r][c] = "running"
               PROVE  Preds(c) \subseteq {a \in outputs[r] : st[r][a] = "done"}
    BY DEF InputsReady
  <2>1. Begun(r) BY <1>1 DEF PipelineInv, RunInv, Unbegun
  <2>2. c \in stages[r][level[r]] /\ level[r] \in DOMAIN stages[r] BY <2>1 DEF Begun, Stage
  <2>3. Preds(c) \subseteq Upto(stages[r], level[r] - 1) BY <2>1, <2>2 DEF Begun, Schedule
  <2> QED BY <2>1, <2>3 DEF Begun
<1> QED BY <1>1, PipelineInvariant, PTL
-----------------------------------------------------------------------------
(* A step of the pipeline, seen from one of its runs. *)
Same(r) == UNCHANGED <<edges, outputs[r], Outcome(r)>>
Built(r) ==
  /\ Outcome(r) = "ready" /\ edges' \subseteq Comps \X Comps
  /\ UNCHANGED <<outputs[r], Outcome(r)>>
Started(r) ==
  Outcome(r) = "ready" /\ Outcome(r)' = "running" /\ UNCHANGED <<edges, outputs[r]>>
Produced(r) ==
  /\ Outcome(r) = "running"
  /\ \E S \in SUBSET Comps :
       /\ S # {} /\ S \cap outputs[r] = {} /\ \A c \in S : Preds(c) \subseteq outputs[r]
       /\ outputs'[r] = outputs[r] \cup S
  /\ Outcome(r)' = IF outputs'[r] = Comps THEN "returned" ELSE "running"
  /\ UNCHANGED edges
Raised(r) ==
  Outcome(r) = "running" /\ Outcome(r)' = "raised" /\ UNCHANGED <<edges, outputs[r]>>
Refused(r) ==
  /\ Outcome(r) = "ready" /\ Outcome(r)' = "raised" /\ UNCHANGED <<edges, outputs[r]>>
  /\ Deadlocked
Seen(r) == Same(r) \/ Built(r) \/ Started(r) \/ Produced(r) \/ Raised(r) \/ Refused(r)

LEMMA OthersSeen ==
  ASSUME TypeOK, NEW r \in Runs, NEW q \in Runs, r # q, Begin(q) \/ Work(q) \/ Cancel(q)
  PROVE  Same(r)
<1>1. edges' = edges BY DEF Begin, Work, Cancel, Record, Acquire, Finish, Fail
<1>2. outputs'[r] = outputs[r]
  BY DEF Begin, Work, Cancel, Record, Acquire, Finish, Fail, TypeOK
<1>3. status'[r] = status[r]
  BY DEF Begin, Work, Cancel, Record, Acquire, Finish, Fail, TypeOK
<1> QED BY <1>1, <1>2, <1>3 DEF Same, Outcome

LEMMA StepsSeen ==
  ASSUME PipelineInv, Sorts, [Next]_vars, NEW r \in Runs
  PROVE  Seen(r)
<1>0. TypeOK /\ RunInv BY DEF PipelineInv
<1>1. CASE UNCHANGED vars BY <1>1 DEF vars, Seen, Same, Outcome
<1>2. ASSUME NEW a \in Comps, NEW b \in Comps, Connect(a, b) PROVE Seen(r)
  BY <1>0, <1>2 DEF Connect, Seen, Built, Outcome, TypeOK
<1>3. ASSUME NEW q \in Runs, q # r, Begin(q) \/ Work(q) \/ Cancel(q) PROVE Seen(r)
  BY <1>0, <1>3, OthersSeen DEF Seen
<1>4. CASE Begin(r)
  <2>1. status[r] = "ready" /\ UNCHANGED <<edges, outputs>> BY <1>4 DEF Begin
  <2>2. CASE Cyclic
    <3>1. status'[r] = "raised" BY <1>0, <1>4, <2>2 DEF Begin, TypeOK
    <3> QED BY <2>1, <2>2, <3>1 DEF Seen, Refused, Outcome, Sorts
  <2>3. CASE ~Cyclic
    <3>1. status'[r] = "running" BY <1>0, <1>4, <2>3 DEF Begin, TypeOK
    <3> QED BY <2>1, <3>1 DEF Seen, Started, Outcome
  <2> QED BY <2>2, <2>3
<1>5. ASSUME NEW c \in Comps, Acquire(r, c) \/ Finish(r, c) PROVE Seen(r)
  BY <1>5 DEF Acquire, Finish, Seen, Same, Outcome
<1>6. ASSUME NEW c \in Comps, Fail(r, c) PROVE Seen(r)
  <2>1. UNCHANGED <<edges, outputs>> BY <1>6 DEF Fail
  <2>2. status'[r] = IF status[r] = "running" THEN "raised" ELSE status[r]
    BY <1>0, <1>6 DEF Fail, TypeOK
  <2>3. CASE status[r] = "running" BY <2>1, <2>2, <2>3 DEF Seen, Raised, Outcome
  <2>4. CASE status[r] # "running" BY <2>1, <2>2, <2>4 DEF Seen, Same, Outcome
  <2> QED BY <2>3, <2>4
<1>7. CASE Cancel(r)
  <2>1. UNCHANGED <<edges, outputs>> /\ status[r] = "running" BY <1>7 DEF Cancel
  <2>2. status'[r] = "cancelled" BY <1>0, <1>7 DEF Cancel, TypeOK
  <2> QED BY <2>1, <2>2 DEF Seen, Raised, Outcome
<1>8. CASE Record(r)
  <2>1. status[r] = "running" /\ edges' = edges BY <1>8 DEF Record
  <2>2. Begun(r) BY <1>0, <2>1 DEF RunInv, Unbegun
  <2>3. PICK S : S = Stage(r) OBVIOUS
  <2>4. /\ Schedule(stages[r]) /\ level[r] \in DOMAIN stages[r]
        /\ outputs[r] = Upto(stages[r], level[r] - 1)
    BY <2>1, <2>2 DEF Begun
  <2>5. /\ S \subseteq Comps /\ S # {} /\ S \cap outputs[r] = {}
        /\ \A c \in S : Preds(c) \subseteq outputs[r]
    <3>1. S = stages[r][level[r]] BY <2>3 DEF Stage
    <3>2. S \subseteq Comps BY <2>4, <3>1, ScheduleFacts
    <3> QED BY <2>4, <3>1, <3>2 DEF Schedule
  <2>6. outputs'[r] = outputs[r] \cup S BY <1>0, <1>8, <2>3 DEF Record, TypeOK
  <2>7. status'[r] = IF outputs'[r] = Comps THEN "returned" ELSE "running"
    BY <1>0, <1>8, <2>1 DEF Record, TypeOK
  <2>8. Outcome(r) = "running" /\ Outcome(r)' = IF outputs'[r] = Comps THEN "returned" ELSE "running"
    BY <2>1, <2>7 DEF Outcome
  <2> QED BY <2>1, <2>5, <2>6, <2>8 DEF Seen, Produced
<1>9. ASSUME Work(r) PROVE Seen(r) BY <1>5, <1>6, <1>8, <1>9 DEF Work
<1> QED BY <1>1, <1>2, <1>3, <1>4, <1>7, <1>9 DEF Next

(* Pipeline.run and AsyncPipeline.run_async keep the promise of their
   docstrings: outputs appear once, after those they are computed from, and a
   run returns with all of them or raises; a first run, and a later one beside
   the components a run before it has left behind. *)
THEOREM RunsImplementDataflow == Spec => ImplementsDataflow
<1>0. 1 \in Runs /\ MaxRuns \in Runs BY PipelineAssumption DEF Runs
<1>1. Init => First!Init /\ Rerun!Init
  BY <1>0 DEF Init, First!Init, Rerun!Init, Outcome
<1>2. ASSUME PipelineInv, Sorts, [Next]_vars
      PROVE  First!Next \/ UNCHANGED <<edges, outputs[1], Outcome(1)>>
  <2>1. Seen(1) BY <1>0, <1>2, StepsSeen
  <2>2. \A c : First!Preds(c) = Preds(c) BY DEF First!Preds, Preds
  <2>3. CASE Same(1) BY <2>3 DEF Same
  <2>4. CASE Built(1) BY <2>4 DEF Built, First!Next, First!Build
  <2>5. CASE Started(1) BY <2>5 DEF Started, First!Next, First!Begin
  <2>6. CASE Produced(1) BY <2>2, <2>6 DEF Produced, First!Next, First!Produce
  <2>7. CASE Raised(1) BY <2>7 DEF Raised, First!Next, First!Raise
  <2>8. CASE Refused(1) BY <2>2, <2>8 DEF Refused, Deadlocked, First!Next, First!Refuse
  <2> QED BY <2>1, <2>3, <2>4, <2>5, <2>6, <2>7, <2>8 DEF Seen
<1>3. ASSUME PipelineInv, Sorts, [Next]_vars
      PROVE  Rerun!Next \/ UNCHANGED <<edges, outputs[MaxRuns], Outcome(MaxRuns)>>
  <2>1. Seen(MaxRuns) BY <1>0, <1>3, StepsSeen
  <2>2. \A c : Rerun!Preds(c) = Preds(c) BY DEF Rerun!Preds, Preds
  <2>3. CASE Same(MaxRuns) BY <2>3 DEF Same
  <2>4. CASE Built(MaxRuns) BY <2>4 DEF Built, Rerun!Next, Rerun!Build
  <2>5. CASE Started(MaxRuns) BY <2>5 DEF Started, Rerun!Next, Rerun!Begin
  <2>6. CASE Produced(MaxRuns) BY <2>2, <2>6 DEF Produced, Rerun!Next, Rerun!Produce
  <2>7. CASE Raised(MaxRuns) BY <2>7 DEF Raised, Rerun!Next, Rerun!Raise
  <2>8. CASE Refused(MaxRuns) BY <2>2, <2>8 DEF Refused, Deadlocked, Rerun!Next, Rerun!Refuse
  <2> QED BY <2>1, <2>3, <2>4, <2>5, <2>6, <2>7, <2>8 DEF Seen
<1> QED BY <1>1, <1>2, <1>3, PipelineInvariant, SortIsRight, PTL
        DEF Spec, ImplementsDataflow, First!Spec, Rerun!Spec
=============================================================================
