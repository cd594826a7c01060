------------------------- MODULE SessionServerProofs -------------------------
(***************************************************************************)
(* Proofs about SessionServer, for any number of sessions, clients and     *)
(* connections and any size of the ring. In order: the slot and the roles  *)
(* agree; the ring holds the latest events; what a replay is made of;      *)
(* types; a resumed attach is answered with exactly what was missed; a     *)
(* dead connection frees the slot; events come in order, which rests on    *)
(* what is known of a connection that has not attached yet (FreshInv), of  *)
(* one that is queued to (LineInv) and of the numbers in flight            *)
(* (NumberInv).                                                            *)
(***************************************************************************)
EXTENDS SessionServer, Integers, SequenceTheorems, WellFoundedInduction, TLAPS

SlotTypes ==
  /\ writer \in [Sessions -> Conns \cup {None}]
  /\ role \in [Sessions -> [Conns -> Roles \cup {"none"}]]
SlotInv == SlotTypes /\ SlotMatchesRole

RingTypes ==
  /\ next \in [Sessions -> Nat \ {0}]
  /\ buffer \in [Sessions -> Seq(Nat)]
RingInv == RingTypes /\ BufferIsTail
-----------------------------------------------------------------------------
(* An attach of c keeps slot and roles in step, whoever holds the slot. *)
LEMMA AttachKeepsSlot ==
  ASSUME SlotInv, NEW s \in Sessions, NEW c \in Conns, NEW r \in Roles,
         ~(r = "writer" /\ Conflict(s, c)),
         writer' = [writer EXCEPT ![s] = SlotAfter(s, c, r)],
         role' = [role EXCEPT ![s][c] = r]
  PROVE  SlotInv'
<1>1. r \in {"writer", "observer"} BY DEF Roles
<1>2. SlotTypes'
  BY DEF SlotInv, SlotTypes, SlotAfter, Roles
<1>3. ASSUME NEW z \in Sessions, NEW d \in Conns
      PROVE  writer'[z] = d <=> role'[z][d] = "writer"
  <2>1. CASE z # s
    BY <1>3, <2>1 DEF SlotInv, SlotTypes, SlotMatchesRole
  <2>2. CASE z = s
    <3>1. writer'[s] = SlotAfter(s, c, r) BY DEF SlotInv, SlotTypes
    <3>2. role'[s][d] = IF d = c THEN r ELSE role[s][d]
      BY <1>3 DEF SlotInv, SlotTypes
    <3>3. \A x \in Conns : writer[s] = x <=> role[s][x] = "writer"
      BY DEF SlotInv, SlotMatchesRole
    <3>4. r = "writer" => writer[s] \in {None, c} BY DEF Conflict
    <3>5. None \notin Conns BY ServerAssumption
    <3> QED
      BY <1>1, <1>3, <2>2, <3>1, <3>2, <3>3, <3>4, <3>5 DEF SlotAfter
  <2> QED BY <2>1, <2>2
<1> QED BY <1>2, <1>3 DEF SlotInv, SlotMatchesRole

(* So does a detach, also of a connection that is not in the session. *)
LEMMA DetachKeepsSlot ==
  ASSUME SlotInv, NEW s \in Sessions, NEW c \in Conns, Detached(s, c)
  PROVE  SlotInv'
<1>1. SlotTypes'
  BY DEF SlotInv, SlotTypes, Detached, Roles
<1>2. ASSUME NEW z \in Sessions, NEW d \in Conns
      PROVE  writer'[z] = d <=> role'[z][d] = "writer"
  <2>1. CASE z # s
    BY <1>2, <2>1 DEF SlotInv, SlotTypes, SlotMatchesRole, Detached
  <2>2. CASE z = s
    <3>1. writer'[s] = IF writer[s] = c THEN None ELSE writer[s]
      BY DEF SlotInv, SlotTypes, Detached
    <3>2. role'[s][d] = IF d = c THEN "none" ELSE role[s][d]
      BY <1>2 DEF SlotInv, SlotTypes, Detached
    <3>3. \A x \in Conns : writer[s] = x <=> role[s][x] = "writer"
      BY DEF SlotInv, SlotMatchesRole
    <3>4. None \notin Conns BY ServerAssumption
    <3> QED BY <1>2, <2>2, <3>1, <3>2, <3>3, <3>4
  <2> QED BY <2>1, <2>2
<1> QED BY <1>1, <1>2 DEF SlotInv, SlotMatchesRole

LEMMA SlotStutters ==
  ASSUME SlotInv, UNCHANGED <<writer, role>>
  PROVE  SlotInv'
BY DEF SlotInv, SlotTypes, SlotMatchesRole

LEMMA SlotStep == SlotInv /\ [Next]_vars => SlotInv'
<1> SUFFICES ASSUME SlotInv, [Next]_vars PROVE SlotInv' OBVIOUS
<1>1. ASSUME NEW k \in Clients, Connect(k) \/ ClientLeaves(k) PROVE SlotInv'
  BY <1>1, SlotStutters DEF Connect, ClientLeaves, server
<1>2. ASSUME NEW k \in Clients, NEW c \in Conns, Create(k, c) \/ Deliver(k, c)
      PROVE  SlotInv'
  BY <1>2, SlotStutters DEF Create, Deliver, server
<1>3. ASSUME NEW k \in Clients, NEW c \in Conns, NEW s \in Sessions,
             Send(k, c, s) \/ Close(k, c, s) \/ Refuse(k, c, s)
      PROVE  SlotInv'
  BY <1>3, SlotStutters DEF Send, Close, Refuse, server
<1>4. ASSUME NEW k \in Clients, NEW c \in Conns, NEW s \in Sessions,
             Detach(k, c, s)
      PROVE  SlotInv'
  BY <1>4, SlotStutters, DetachKeepsSlot DEF Detach
<1>5. ASSUME NEW k \in Clients, NEW c \in Conns, NEW s \in Sessions,
             NEW r \in Roles, Attach(k, c, s, r)
      PROVE  SlotInv'
  BY <1>5, AttachKeepsSlot DEF Attach
<1>6. ASSUME NEW k \in Clients, NEW c \in Conns, NEW s \in Sessions,
             NEW r \in Roles, AttachEvicted(k, c, s, r)
      PROVE  SlotInv'
  BY <1>6, DetachKeepsSlot DEF AttachEvicted
<1>7. ASSUME NEW c \in Conns, Respond(c) PROVE SlotInv'
  BY <1>7, SlotStutters DEF Respond
<1>8. ASSUME NEW c \in Conns, Drop(c) PROVE SlotInv'
  <2>1. CASE attached[c] # None /\ status[attached[c]] = "open"
    <3>1. Detached(attached[c], c) BY <1>8, <2>1 DEF Drop
    <3>2. CASE attached[c] \in Sessions BY <3>1, <3>2, DetachKeepsSlot
    <3>3. CASE attached[c] \notin Sessions
      <4>1. writer' = writer /\ role' = role
        BY <3>1, <3>3 DEF Detached, SlotInv, SlotTypes
      <4> QED BY <4>1, SlotStutters
    <3> QED BY <3>2, <3>3
  <2>2. CASE ~(attached[c] # None /\ status[attached[c]] = "open")
    BY <1>8, <2>2, SlotStutters DEF Drop
  <2> QED BY <2>1, <2>2
<1>9. ASSUME NEW s \in Sessions, RuntimeEmits(s) PROVE SlotInv'
  BY <1>9, SlotStutters DEF RuntimeEmits
<1>10. CASE UNCHANGED vars
  BY <1>10, SlotStutters DEF vars, server
<1> QED
  BY <1>1, <1>2, <1>3, <1>4, <1>5, <1>6, <1>7, <1>8, <1>9, <1>10 DEF Next

(* A connection holds the writer slot of a session if and only if the session
   knows it as writer (attach and detach of SessionManager). *)
THEOREM SlotAndRolesAgree == Spec => []SlotMatchesRole
<1>1. Init => SlotInv
  BY ServerAssumption DEF Init, SlotInv, SlotTypes, SlotMatchesRole, Roles
<1>2. SlotInv => SlotMatchesRole BY DEF SlotInv
<1> QED BY <1>1, <1>2, SlotStep, PTL DEF Spec
-----------------------------------------------------------------------------
(* Appending the next event to a ring that holds the latest ones, and dropping
   the oldest when it is full, leaves the latest ones. *)
LEMMA RingOfLatest ==
  ASSUME NEW n \in Nat \ {0}, NEW b \in Seq(Nat),
         Len(b) = IF n <= BufferSize THEN n - 1 ELSE BufferSize,
         \A i \in DOMAIN b : b[i] = n - Len(b) + i - 1
  PROVE  LET k == Kept(Append(b, n)) IN
         /\ k \in Seq(Nat)
         /\ Len(k) = IF n + 1 <= BufferSize THEN n ELSE BufferSize
         /\ \A i \in DOMAIN k : k[i] = n + 1 - Len(k) + i - 1
<1> DEFINE a == Append(b, n)
<1>1. a \in Seq(Nat) /\ Len(a) = Len(b) + 1 OBVIOUS
<1>2. \A i \in 1..Len(a) : a[i] = n + 1 - Len(a) + i - 1
  <2>1. \A i \in 1..Len(b) : a[i] = b[i] OBVIOUS
  <2>2. a[Len(b) + 1] = n OBVIOUS
  <2>3. \A i \in 1..Len(b) : b[i] = n - Len(b) + i - 1 OBVIOUS
  <2>4. Len(b) \in Nat OBVIOUS
  <2> HIDE DEF a
  <2>5. ASSUME NEW i \in 1..Len(a)
        PROVE  a[i] = n + 1 - Len(a) + i - 1
    <3>1. CASE i \in 1..Len(b)
      <4>1. a[i] = n - Len(b) + i - 1 BY <2>1, <2>3, <3>1
      <4> QED BY <1>1, <2>4, <2>5, <4>1
    <3>2. CASE i = Len(b) + 1
      <4>1. a[i] = n BY <2>2, <3>2
      <4>2. n + 1 - Len(a) + i - 1 = n BY <1>1, <2>4, <3>2
      <4> QED BY <4>1, <4>2
    <3> QED BY <1>1, <2>4, <2>5, <3>1, <3>2
  <2> QED BY <2>5
<1>3. BufferSize \in Nat \ {0} BY ServerAssumption
<1> HIDE DEF a
<1>4. CASE Len(a) > BufferSize
  <2>1. Kept(a) = Tail(a) BY <1>4 DEF Kept
  <2>2. a # <<>> BY <1>1, <1>3, <1>4
  <2>3. /\ Tail(a) \in Seq(Nat) /\ Len(Tail(a)) = Len(a) - 1
        /\ \A i \in 1..Len(Tail(a)) : Tail(a)[i] = a[i + 1]
    BY <1>1, <2>2
  <2>4. Len(Tail(a)) = BufferSize /\ n + 1 > BufferSize
    BY <1>1, <1>3, <1>4, <2>3
  <2>5. \A i \in 1..Len(Tail(a)) : Tail(a)[i] = n + 1 - Len(Tail(a)) + i - 1
    <3> SUFFICES ASSUME NEW i \in 1..Len(Tail(a))
                 PROVE  Tail(a)[i] = n + 1 - Len(Tail(a)) + i - 1
      OBVIOUS
    <3>1. Len(a) \in Nat /\ i \in Nat /\ i + 1 \in 1..Len(a) BY <1>1, <2>3
    <3>2. a[i + 1] = n + 1 - Len(a) + (i + 1) - 1 BY <1>2, <3>1
    <3>3. Tail(a)[i] = a[i + 1] BY <2>3
    <3> QED BY <2>3, <3>1, <3>2, <3>3
  <2>6. DOMAIN Tail(a) = 1..Len(Tail(a)) BY <2>3
  <2>7. ~(n + 1 <= BufferSize) BY <1>3, <2>4
  <2> QED BY <2>1, <2>3, <2>4, <2>5, <2>6, <2>7 DEF a
<1>5. CASE ~(Len(a) > BufferSize)
  <2>1. Kept(a) = a BY <1>5 DEF Kept
  <2>2. Len(a) = n /\ n <= BufferSize BY <1>1, <1>3, <1>5
  <2>3. Len(a) = IF n + 1 <= BufferSize THEN n ELSE BufferSize
    BY <1>1, <1>3, <2>2
  <2> QED BY <1>1, <1>2, <2>1, <2>3 DEF a
<1> QED BY <1>4, <1>5

LEMMA EmitKeepsRing ==
  ASSUME RingInv, NEW s \in Sessions, Emit(s)
  PROVE  RingInv'
<1>1. /\ next' = [next EXCEPT ![s] = @ + 1]
      /\ buffer' = [buffer EXCEPT ![s] = Kept(Append(@, next[s]))]
  BY DEF Emit
<1>2. next[s] \in Nat \ {0} /\ buffer[s] \in Seq(Nat)
  BY DEF RingInv, RingTypes
<1>3. /\ Len(buffer[s]) = IF next[s] <= BufferSize THEN next[s] - 1 ELSE BufferSize
      /\ \A i \in DOMAIN buffer[s] : buffer[s][i] = next[s] - Len(buffer[s]) + i - 1
  BY DEF RingInv, BufferIsTail
<1> DEFINE k == Kept(Append(buffer[s], next[s]))
<1>4. /\ k \in Seq(Nat)
      /\ Len(k) = IF next[s] + 1 <= BufferSize THEN next[s] ELSE BufferSize
      /\ \A i \in DOMAIN k : k[i] = next[s] + 1 - Len(k) + i - 1
  BY <1>2, <1>3, RingOfLatest
<1>5. next'[s] = next[s] + 1 /\ buffer'[s] = k
  BY <1>1 DEF RingInv, RingTypes
<1> HIDE DEF k
<1>6. \A z \in Sessions : z # s => next'[z] = next[z] /\ buffer'[z] = buffer[z]
  BY <1>1 DEF RingInv, RingTypes
<1>7. RingTypes'
  <2>1. \A z \in Sessions : next'[z] \in Nat \ {0} /\ buffer'[z] \in Seq(Nat)
    BY <1>2, <1>4, <1>5, <1>6 DEF RingInv, RingTypes
  <2>2. next' = [z \in Sessions |-> next'[z]] /\ buffer' = [z \in Sessions |-> buffer'[z]]
    BY <1>1 DEF RingInv, RingTypes
  <2> QED BY <2>1, <2>2 DEF RingTypes
<1>8. ASSUME NEW z \in Sessions
      PROVE  /\ Len(buffer'[z]) = IF next'[z] <= BufferSize THEN next'[z] - 1
                                  ELSE BufferSize
             /\ \A i \in DOMAIN buffer'[z] :
                  buffer'[z][i] = next'[z] - Len(buffer'[z]) + i - 1
  <2>1. CASE z = s BY <1>2, <1>4, <1>5, <2>1
  <2>2. CASE z # s BY <1>6, <1>8, <2>2 DEF RingInv, BufferIsTail
  <2> QED BY <2>1, <2>2
<1> QED BY <1>7, <1>8 DEF RingInv, BufferIsTail

LEMMA RingStutters ==
  ASSUME RingInv, UNCHANGED <<next, buffer>>
  PROVE  RingInv'
BY DEF RingInv, RingTypes, BufferIsTail

LEMMA RingStep == RingInv /\ [Next]_vars => RingInv'
<1> SUFFICES ASSUME RingInv, [Next]_vars PROVE RingInv' OBVIOUS
<1>1. ASSUME NEW k \in Clients, Connect(k) \/ ClientLeaves(k) PROVE RingInv'
  BY <1>1, RingStutters DEF Connect, ClientLeaves, server
<1>2. ASSUME NEW k \in Clients, NEW c \in Conns, Create(k, c) \/ Deliver(k, c)
      PROVE  RingInv'
  BY <1>2, RingStutters DEF Create, Deliver, server
<1>3. ASSUME NEW k \in Clients, NEW c \in Conns, NEW s \in Sessions,
             Detach(k, c, s) \/ Close(k, c, s) \/ Refuse(k, c, s)
      PROVE  RingInv'
  BY <1>3, RingStutters DEF Detach, Close, Refuse, server
<1>4. ASSUME NEW k \in Clients, NEW c \in Conns, NEW s \in Sessions,
             Send(k, c, s)
      PROVE  RingInv'
  BY <1>4, EmitKeepsRing DEF Send
<1>5. ASSUME NEW k \in Clients, NEW c \in Conns, NEW s \in Sessions,
             NEW r \in Roles, Attach(k, c, s, r) \/ AttachEvicted(k, c, s, r)
      PROVE  RingInv'
  BY <1>5, RingStutters DEF Attach, AttachEvicted
<1>6. ASSUME NEW c \in Conns, Respond(c) \/ Drop(c) PROVE RingInv'
  BY <1>6, RingStutters DEF Respond, Drop
<1>7. ASSUME NEW s \in Sessions, RuntimeEmits(s) PROVE RingInv'
  BY <1>7, EmitKeepsRing DEF RuntimeEmits
<1>8. CASE UNCHANGED vars
  BY <1>8, RingStutters DEF vars, server
<1> QED BY <1>1, <1>2, <1>3, <1>4, <1>5, <1>6, <1>7, <1>8 DEF Next

(* The buffer holds the latest BufferSize events of its session and skips none
   (emit_event of SessionManager). *)
THEOREM BufferHoldsTheLatest == Spec => []BufferIsTail
<1>1. Init => RingInv
  BY ServerAssumption DEF Init, RingInv, RingTypes, BufferIsTail
<1>2. RingInv => BufferIsTail BY DEF RingInv
<1> QED BY <1>1, <1>2, RingStep, PTL DEF Spec
-----------------------------------------------------------------------------
(* Induction over numbers, without an operator: a least counterexample. *)
LEMMA LeastNat == ASSUME NEW T \in SUBSET Nat, T # {} PROVE \E n \in T : \A m \in T : n <= m
<1>1. PICK n \in T : \A m \in T : ~(<<m, n>> \in OpToRel(<, Nat))
  BY NatLessThanWellFounded, WFMin
<1>2. ASSUME NEW m \in T PROVE n <= m
  <2>1. m \in Nat /\ n \in Nat OBVIOUS
  <2>2. ~(m < n) BY <1>1, <2>1 DEF OpToRel
  <2> QED BY <2>1, <2>2
<1> QED BY <1>2

(* The loop over a ring that ends with event m, for a cursor n that is not
   before it: what replay_after returns is n + 1, n + 2, ..., m. *)
LEMMA PastOfRing ==
  ASSUME NEW b \in Seq(Nat), NEW m \in Nat, NEW n \in Nat,
         \A i \in DOMAIN b : b[i] = m - Len(b) + i, m - Len(b) <= n
  PROVE  Past(b, n) = [j \in 1..(IF m > n THEN m - n ELSE 0) |-> n + j]
<1> DEFINE l == Len(b)
           k(i) == IF m - l + i > n THEN m - l + i - n ELSE 0
           R(i) == [j \in 1..k(i) |-> n + j]
           Step(g, i) == IF i = 0 THEN <<>> ELSE IF b[i] > n THEN Append(g[i - 1], b[i]) ELSE g[i - 1]
           f == CHOOSE g : g = [i \in 0..l |-> Step(g, i)]
           w == [i \in 0..l |-> R(i)]
<1>1. l \in Nat /\ DOMAIN b = 1..l OBVIOUS
<1>2. Past(b, n) = f[l] BY DEF Past
<1>3. R(0) = <<>> BY <1>1
<1>4. ASSUME NEW i \in 1..l
      PROVE  R(i) = IF b[i] > n THEN Append(R(i - 1), b[i]) ELSE R(i - 1)
  <2>1. b[i] = m - l + i BY <1>1
  <2>2. CASE b[i] > n
    <3>1. k(i) = k(i - 1) + 1 /\ n + k(i) = b[i] /\ k(i - 1) \in Nat BY <1>1, <2>1, <2>2
    <3> DEFINE q == k(i - 1)
    <3>2. q \in Nat /\ k(i) = q + 1 /\ b[i] = n + (q + 1) /\ b[i] \in Nat BY <3>1
    <3>3. R(i - 1) = [j \in 1..q |-> n + j] /\ R(i) = [j \in 1..(q + 1) |-> n + j] BY <3>2
    <3> HIDE DEF q, R, k
    <3>4. R(i - 1) \in Seq(Nat) /\ Len(R(i - 1)) = q BY <3>2, <3>3
    <3>5. Append(R(i - 1), b[i]) = [j \in 1..(q + 1) |-> IF j = q + 1 THEN b[i] ELSE R(i - 1)[j]]
      BY <3>2, <3>4
    <3>6. \A j \in 1..(q + 1) : (IF j = q + 1 THEN b[i] ELSE R(i - 1)[j]) = n + j
      <4>1. ASSUME NEW j \in 1..(q + 1), j # q + 1 PROVE j \in 1..q BY <3>2, <4>1
      <4> QED BY <3>2, <3>3, <4>1
    <3> QED BY <2>2, <3>3, <3>5, <3>6
  <2>3. CASE ~(b[i] > n)
    <3>1. k(i) = 0 /\ k(i - 1) = 0 BY <1>1, <2>1, <2>3
    <3> QED BY <2>3, <3>1
  <2> QED BY <2>2, <2>3
<1> HIDE DEF R
<1>5. w = [i \in 0..l |-> Step(w, i)]
  <2>1. ASSUME NEW i \in 0..l PROVE w[i] = Step(w, i)
    <3>1. CASE i = 0 BY <1>3, <3>1
    <3>2. CASE i # 0
      <4>1. i \in 1..l /\ i - 1 \in 0..l BY <1>1, <3>2
      <4> QED BY <1>4, <4>1
    <3> QED BY <3>1, <3>2
  <2> QED BY <2>1
<1>6. f = [i \in 0..l |-> Step(f, i)]
  <2> HIDE DEF w, Step
  <2>1. \E g : g = [i \in 0..l |-> Step(g, i)] BY <1>5
  <2> QED BY <2>1
<1> HIDE DEF f
<1>7. \A i \in 0..l : f[i] = R(i)
  <2> DEFINE T == {i \in 0..l : f[i] # R(i)}
  <2> SUFFICES ASSUME T # {} PROVE FALSE OBVIOUS
  <2>0. T \in SUBSET Nat BY <1>1
  <2>1. PICK i \in T : \A j \in T : i <= j BY <2>0, LeastNat
  <2>2. i \in 0..l /\ f[i] # R(i) OBVIOUS
  <2>3. f[i] = Step(f, i) BY <1>6, <2>2
  <2>4. i # 0 BY <1>3, <2>2, <2>3
  <2>5. i \in 1..l /\ i - 1 \in 0..l /\ ~(i <= i - 1) BY <1>1, <2>2, <2>4
  <2>6. f[i - 1] = R(i - 1) BY <2>1, <2>5
  <2> QED BY <1>4, <2>2, <2>3, <2>5, <2>6
<1>8. k(l) = IF m > n THEN m - n ELSE 0 BY <1>1
<1>9. l \in 0..l BY <1>1
<1>10. Past(b, n) = R(l) BY <1>2, <1>7, <1>9
<1> QED BY <1>8, <1>10 DEF R
-----------------------------------------------------------------------------
(* Types.  The response a handler sends is of the session it is about, and
   there is one only while the handler sends. *)
Events == [s : Sessions, id : 1..MaxEvents]

ServerTypes ==
  /\ status \in [Sessions -> {"unborn", "open", "closed"}]
  /\ wired \in [Sessions -> SUBSET Conns]
  /\ next \in [Sessions -> 1..MaxEvents + 1]
  /\ running \in [Sessions -> BOOLEAN]
TransportTypes ==
  /\ cpc \in [Conns -> {"unused", "idle", "sending", "closed"}]
  /\ queue \in [Conns -> Seq(Events)]
  /\ attached \in [Conns -> Sessions \cup {None}]
  /\ requests \in [Conns -> Nat] /\ moves \in [Conns -> Nat] /\ cut \subseteq Conns
ClientTypes ==
  /\ conn \in [Clients -> Conns \cup {None}]
  /\ cursor \in [Clients -> 0..MaxEvents]
  /\ heard \in [Clients -> [Sessions -> 0..MaxEvents]]

Kinds == {"none", "ok", "refused", "attached", "detached", "evicted"}
Response(c) ==
  /\ resp[c].kind \in Kinds
  /\ resp[c].kind \in {"attached", "detached", "evicted"} => resp[c].s \in Sessions
  /\ resp[c].kind = "attached" => resp[c].replayed \in Seq(1..MaxEvents)
  /\ cpc[c] # "sending" => resp[c].kind = "none"
RespInv ==
  /\ resp = [c \in Conns |-> resp[c]]
  /\ \A c \in Conns : Response(c)

Types == ServerTypes /\ TransportTypes /\ ClientTypes /\ RespInv /\ RingInv /\ SlotInv

(* What a resumed attach answers: all the events after the cursor. *)
LEMMA MissedIs ==
  ASSUME Types, NEW s \in Sessions, NEW n \in Nat \ {0}, ~Evicted(s, n)
  PROVE  Missed(s, n) =
           [j \in 1..(IF next[s] - 1 > n THEN next[s] - 1 - n ELSE 0) |-> n + j]
<1> DEFINE b == buffer[s]
           m == next[s] - 1
<1>1. b \in Seq(Nat) /\ next[s] \in Nat \ {0} BY DEF Types, RingInv, RingTypes
<1>2. /\ Len(b) = IF next[s] <= BufferSize THEN next[s] - 1 ELSE BufferSize
      /\ \A i \in DOMAIN b : b[i] = next[s] - Len(b) + i - 1
  BY DEF Types, RingInv, BufferIsTail
<1>3. BufferSize \in Nat \ {0} BY ServerAssumption
<1>4. m \in Nat /\ Len(b) \in Nat /\ \A i \in DOMAIN b : b[i] = m - Len(b) + i
  <2>1. m \in Nat /\ m + 1 = next[s] /\ Len(b) \in Nat /\ DOMAIN b = 1..Len(b) BY <1>1
  <2>2. \A i \in DOMAIN b : b[i] = next[s] - Len(b) + i - 1 BY <1>2
  <2>3. PICK l : l = Len(b) OBVIOUS
  <2> HIDE DEF m, b
  <2>4. ASSUME NEW i \in DOMAIN b PROVE b[i] = m - Len(b) + i
    <3>1. i \in Nat /\ b[i] = (m + 1) - l + i - 1 /\ l \in Nat BY <2>1, <2>2, <2>3
    <3> QED BY <2>1, <2>3, <3>1
  <2> QED BY <2>1, <2>4
<1>5. m - Len(b) <= n
  <2>1. CASE b = <<>> BY <1>1, <1>2, <1>3, <2>1
  <2>2. CASE b # <<>>
    <3>1. Head(b) = b[1] /\ 1 \in DOMAIN b BY <1>1, <2>2
    <3>2. Head(b) = next[s] - Len(b) BY <1>1, <1>2, <1>4, <3>1
    <3>3. ~(n + 1 < Head(b)) BY <2>2 DEF Evicted
    <3> QED BY <1>1, <1>4, <3>2, <3>3
  <2> QED BY <2>1, <2>2
<1> HIDE DEF b, m
<1>6. Past(b, n) = [j \in 1..(IF m > n THEN m - n ELSE 0) |-> n + j]
  BY <1>1, <1>4, <1>5, PastOfRing DEF b
<1> QED BY <1>6 DEF Missed, b, m

(* The replay of an attach: events of the session that are out. *)
LEMMA ReplayedIs ==
  ASSUME Types, NEW s \in Sessions, NEW n \in 0..MaxEvents, n = 0 \/ ~Evicted(s, n)
  PROVE  LET replayed == IF n > 0 THEN Missed(s, n) ELSE <<>> IN
         /\ replayed \in Seq(1..MaxEvents)
         /\ \A i \in DOMAIN replayed : replayed[i] < next[s]
<1> DEFINE r == IF n > 0 THEN Missed(s, n) ELSE <<>>
<1>1. n \in Nat /\ MaxEvents \in Nat BY ServerAssumption
<1>2. CASE n = 0 BY <1>2
<1>3. CASE n # 0
  <2> DEFINE k == IF next[s] - 1 > n THEN next[s] - 1 - n ELSE 0
  <2>1. next[s] \in 1..MaxEvents + 1 BY DEF Types, ServerTypes
  <2>2. k \in Nat /\ \A j \in 1..k : n + j \in 1..MaxEvents /\ n + j < next[s] BY <1>1, <2>1
  <2>3. r = [j \in 1..k |-> n + j]
    <3>1. n \in Nat \ {0} /\ ~Evicted(s, n) /\ n > 0 BY <1>1, <1>3
    <3> QED BY <3>1, MissedIs
  <2> HIDE DEF r, k
  <2>4. r \in Seq(1..MaxEvents) /\ DOMAIN r = 1..k BY <2>2, <2>3
  <2> QED BY <2>2, <2>3, <2>4 DEF r
<1> QED BY <1>2, <1>3

(* A request is dispatched: its response waits to be sent. *)
LEMMA AnsweredIs ==
  ASSUME Types, NEW c \in Conns, NEW r, Answered(c, r), cpc[c] = "idle", r.kind \in Kinds,
         r.kind \in {"attached", "detached", "evicted"} => r.s \in Sessions,
         r.kind = "attached" => r.replayed \in Seq(1..MaxEvents)
  PROVE  /\ RespInv' /\ UNCHANGED <<attached, cut, conn, cursor, heard>>
         /\ cpc' \in [Conns -> {"unused", "idle", "sending", "closed"}]
         /\ \A d \in Conns : /\ resp'[d] = IF d = c THEN r ELSE resp[d]
                             /\ cpc'[d] = IF d = c THEN "sending" ELSE cpc[d]
<1>1. /\ resp' = [resp EXCEPT ![c] = r] /\ cpc' = [cpc EXCEPT ![c] = "sending"]
      /\ UNCHANGED <<attached, cut, conn, cursor, heard>>
  BY DEF Answered, client
<1>2. /\ cpc \in [Conns -> {"unused", "idle", "sending", "closed"}]
      /\ resp = [d \in Conns |-> resp[d]] /\ \A d \in Conns : Response(d)
  BY DEF Types, TransportTypes, RespInv
<1>3. \A d \in Conns : /\ resp'[d] = IF d = c THEN r ELSE resp[d]
                       /\ cpc'[d] = IF d = c THEN "sending" ELSE cpc[d]
  BY <1>1, <1>2
<1>4. resp' = [d \in Conns |-> resp'[d]] BY <1>1, <1>2
<1>5. ASSUME NEW d \in Conns PROVE Response(d)'
  <2>1. CASE d = c BY <1>3, <2>1 DEF Response
  <2>2. CASE d # c BY <1>2, <1>3, <2>2 DEF Response
  <2> QED BY <2>1, <2>2
<1> QED BY <1>1, <1>2, <1>3, <1>4, <1>5 DEF RespInv

LEMMA EmitTypes ==
  ASSUME Types, NEW s \in Sessions, Emit(s)
  PROVE  /\ next' \in [Sessions -> 1..MaxEvents + 1] /\ queue' \in [Conns -> Seq(Events)]
         /\ next[s] \in 1..MaxEvents
         /\ \A z \in Sessions : next'[z] = IF z = s THEN next[s] + 1 ELSE next[z]
         /\ \A c \in Conns : queue'[c] =
              IF c \in wired[s] /\ Open(c) THEN Append(queue[c], [s |-> s, id |-> next[s]])
              ELSE queue[c]
<1>1. /\ next \in [Sessions -> 1..MaxEvents + 1] /\ queue \in [Conns -> Seq(Events)]
      /\ next[s] <= MaxEvents /\ MaxEvents \in Nat
  BY ServerAssumption DEF Types, ServerTypes, TransportTypes, Emit
<1>2. next[s] \in 1..MaxEvents /\ next[s] + 1 \in 1..MaxEvents + 1 BY <1>1
<1>3. next' = [next EXCEPT ![s] = next[s] + 1] BY DEF Emit
<1>4. [s |-> s, id |-> next[s]] \in Events BY <1>2 DEF Events
<1>5. queue' = [c \in Conns |->
        IF c \in wired[s] /\ Open(c) THEN Append(queue[c], [s |-> s, id |-> next[s]])
        ELSE queue[c]]
  BY DEF Emit
<1>6. ASSUME NEW c \in Conns PROVE queue'[c] \in Seq(Events)
  <2> PICK e \in Events : e = [s |-> s, id |-> next[s]] BY <1>4
  <2>1. queue'[c] = IF c \in wired[s] /\ Open(c) THEN Append(queue[c], e) ELSE queue[c]
    BY <1>5
  <2>2. queue[c] \in Seq(Events) BY <1>1
  <2> QED BY <2>1, <2>2
<1> QED BY <1>1, <1>2, <1>3, <1>5, <1>6

LEMMA DetachedTypes ==
  ASSUME Types, NEW s \in Sessions, NEW c \in Conns, Detached(s, c)
  PROVE  /\ wired' \in [Sessions -> SUBSET Conns]
         /\ \A z \in Sessions :
              /\ writer'[z] = IF z = s /\ writer[s] = c THEN None ELSE writer[z]
              /\ wired'[z] \subseteq wired[z]
              /\ z = s => c \notin wired'[z]
BY DEF Types, ServerTypes, SlotInv, SlotTypes, Detached

LEMMA RequestsTypes ==
  ASSUME Types, NEW k \in Clients, NEW c \in Conns, Requests(k, c)
  PROVE  requests' \in [Conns -> Nat] /\ conn[k] = c /\ cpc[c] = "idle"
BY DEF Types, TransportTypes, Requests, Idle

LEMMA MovesTypes ==
  ASSUME Types, NEW c \in Conns, moves' = [moves EXCEPT ![c] = @ + 1]
  PROVE  /\ moves' \in [Conns -> Nat]
         /\ \A d \in Conns : moves'[d] = IF d = c THEN moves[d] + 1 ELSE moves[d]
BY DEF Types, TransportTypes

(* The steps of a client and of its connection. *)
LEMMA AttachTypes ==
  ASSUME Types, NEW k \in Clients, NEW c \in Conns, NEW s \in Sessions, NEW r \in Roles,
         Attach(k, c, s, r)
  PROVE  \E replayed \in Seq(1..MaxEvents) :
           /\ \A i \in DOMAIN replayed : replayed[i] < next[s]
           /\ queue' = [queue EXCEPT ![c] = Requeued(c, s, replayed)]
           /\ Answered(c, [kind |-> "attached", s |-> s, after |-> cursor[k],
                           replayed |-> replayed])
           /\ cursor[k] > 0 => replayed = Missed(s, cursor[k])
           /\ queue' \in [Conns -> Seq(Events)]
<1> DEFINE x == IF cursor[k] > 0 THEN Missed(s, cursor[k]) ELSE <<>>
<1>1. cursor[k] \in 0..MaxEvents /\ (cursor[k] = 0 \/ ~Evicted(s, cursor[k]))
  BY DEF Types, ClientTypes, Attach
<1>2. x \in Seq(1..MaxEvents) /\ \A i \in DOMAIN x : x[i] < next[s] BY <1>1, ReplayedIs
<1>3. /\ queue' = [queue EXCEPT ![c] = Requeued(c, s, x)]
      /\ Answered(c, [kind |-> "attached", s |-> s, after |-> cursor[k], replayed |-> x])
  BY DEF Attach
<1>4. cursor[k] > 0 => x = Missed(s, cursor[k]) OBVIOUS
<1> HIDE DEF x
<1>5. OnWire(s, x) \in Seq(Events)
  <2>0. \A i \in 1..Len(x) : x[i] \in 1..MaxEvents BY <1>2, ElementOfSeq
  <2>1. \A i \in 1..Len(x) : [s |-> s, id |-> x[i]] \in Events BY <2>0 DEF Events
  <2>2. OnWire(s, x) = [i \in 1..Len(x) |-> [s |-> s, id |-> x[i]]] BY <1>2 DEF OnWire
  <2> QED BY <1>2, <2>1, <2>2
<1>6. queue[c] \in Seq(Events) /\ queue \in [Conns -> Seq(Events)]
  BY DEF Types, TransportTypes
<1>7. Requeued(c, s, x) \in Seq(Events) BY <1>5, <1>6 DEF Requeued
<1>8. queue' \in [Conns -> Seq(Events)] BY <1>3, <1>6, <1>7
<1> QED BY <1>2, <1>3, <1>4, <1>8

LEMMA StillTypes ==
  ASSUME Types, UNCHANGED <<cpc, resp>>
  PROVE  RespInv'
<1>1. resp = [c \in Conns |-> resp[c]] BY DEF Types, RespInv
<1>2. \A c \in Conns : Response(c)' BY DEF Types, RespInv, Response
<1> QED BY <1>1, <1>2 DEF RespInv

LEMMA RespondTypes ==
  ASSUME Types, NEW c \in Conns, Respond(c)
  PROVE  /\ Types'
         /\ \A d \in Conns : /\ resp'[d] = IF d = c THEN NoResponse ELSE resp[d]
                             /\ cpc'[d] = IF d = c THEN "idle" ELSE cpc[d]
                             /\ attached'[d] =
                                  IF d = c /\ resp[c].kind = "attached" THEN resp[c].s
                                  ELSE IF d = c /\ resp[c].kind = "detached" THEN None
                                  ELSE attached[d]
         /\ \A s \in Sessions : \A d \in Conns : d \in wired'[s] =>
              d \in wired[s] \/ (d = c /\ resp[c].kind = "attached" /\ resp[c].s = s)
<1> USE DEF Types
<1>1. /\ cpc' = [cpc EXCEPT ![c] = "idle"] /\ resp' = [resp EXCEPT ![c] = NoResponse]
      /\ UNCHANGED <<status, writer, role, next, buffer, running>>
      /\ UNCHANGED <<queue, requests, moves, cut, conn>>
      /\ cpc[c] = "sending"
  BY DEF Respond
<1>2. /\ cpc \in [Conns -> {"unused", "idle", "sending", "closed"}]
      /\ attached \in [Conns -> Sessions \cup {None}]
      /\ resp = [d \in Conns |-> resp[d]] /\ \A d \in Conns : Response(d)
  BY DEF TransportTypes, RespInv
<1>3. \A d \in Conns : /\ resp'[d] = IF d = c THEN NoResponse ELSE resp[d]
                       /\ cpc'[d] = IF d = c THEN "idle" ELSE cpc[d]
  BY <1>1, <1>2
<1>4. RespInv'
  <2>1. resp' = [d \in Conns |-> resp'[d]] BY <1>1, <1>2
  <2>2. NoResponse.kind = "none" BY DEF NoResponse
  <2>3. ASSUME NEW d \in Conns PROVE Response(d)'
    <3>1. CASE d = c BY <1>3, <2>2, <3>1 DEF Response, Kinds
    <3>2. CASE d # c BY <1>2, <1>3, <3>2 DEF Response
    <3> QED BY <3>1, <3>2
  <2> QED BY <2>1, <2>3 DEF RespInv
<1> DEFINE a == CASE resp[c].kind = "attached" -> resp[c].s
                  [] resp[c].kind = "detached" -> None
                  [] OTHER -> attached[c]
<1>5. attached' = [attached EXCEPT ![c] = a] BY Zenon DEF Respond
<1>6. a = IF resp[c].kind = "attached" THEN resp[c].s
          ELSE IF resp[c].kind = "detached" THEN None ELSE attached[c]
  <2>1. CASE resp[c].kind = "attached" BY <2>1, "attached" # "detached"
  <2>2. CASE resp[c].kind = "detached" BY <2>2, "attached" # "detached"
  <2>3. CASE resp[c].kind \notin {"attached", "detached"} BY <2>3
  <2> QED BY <2>1, <2>2, <2>3
<1> HIDE DEF a
<1>7. Response(c) BY <1>2
<1>8. a \in Sessions \cup {None}
  BY <1>2, <1>6, <1>7 DEF Response
<1>9. /\ attached' \in [Conns -> Sessions \cup {None}]
      /\ \A d \in Conns : attached'[d] = IF d = c THEN a ELSE attached[d]
  BY <1>2, <1>5, <1>8
<1>10. wired' = [s \in Sessions |->
          IF resp[c].kind = "attached" /\ resp[c].s = s /\ status[s] = "open" /\ role[s][c] # "none"
          THEN wired[s] \cup {c} ELSE wired[s]]
  BY DEF Respond
<1>11. wired' \in [Sessions -> SUBSET Conns] BY <1>10 DEF ServerTypes
<1>12. heard' = [k \in Clients |->
          IF resp[c].kind = "attached" /\ conn[k] = c /\ resp[c].replayed # <<>>
          THEN [heard[k] EXCEPT ![resp[c].s] = resp[c].replayed[Len(resp[c].replayed)]]
          ELSE heard[k]]
  BY DEF Respond
<1>13. heard' \in [Clients -> [Sessions -> 0..MaxEvents]]
  <2> SUFFICES ASSUME NEW k \in Clients PROVE heard'[k] \in [Sessions -> 0..MaxEvents]
    BY <1>12
  <2>1. heard[k] \in [Sessions -> 0..MaxEvents] BY DEF ClientTypes
  <2>2. CASE resp[c].kind = "attached" /\ conn[k] = c /\ resp[c].replayed # <<>>
    <3> PICK x : x = resp[c].replayed OBVIOUS
    <3>1. x \in Seq(1..MaxEvents) /\ x # <<>> BY <1>7, <2>2 DEF Response
    <3>2. Len(x) \in 1..Len(x) BY <3>1
    <3>4. x[Len(x)] \in 1..MaxEvents BY <3>1, <3>2, ElementOfSeq
    <3>5. x[Len(x)] \in 0..MaxEvents BY <3>4
    <3>3. heard'[k] = [heard[k] EXCEPT ![resp[c].s] = x[Len(x)]] BY <1>12, <2>2
    <3> QED BY <2>1, <3>3, <3>5
  <2>3. CASE ~(resp[c].kind = "attached" /\ conn[k] = c /\ resp[c].replayed # <<>>)
    BY <1>12, <2>1, <2>3
  <2> QED BY <2>2, <2>3
<1>14. cursor' = [k \in Clients |->
          IF resp[c].kind = "evicted" /\ conn[k] = c THEN 0 ELSE cursor[k]]
  BY DEF Respond
<1>15. cursor' \in [Clients -> 0..MaxEvents]
  BY <1>14, ServerAssumption DEF ClientTypes
<1>16. ServerTypes' BY <1>1, <1>11 DEF ServerTypes
<1>17. TransportTypes' BY <1>1, <1>9 DEF TransportTypes
<1>18. ClientTypes' BY <1>1, <1>13, <1>15 DEF ClientTypes
<1>19. RingInv' /\ SlotInv' BY <1>1, RingStutters, SlotStutters
<1>20. \A s \in Sessions : \A d \in Conns : d \in wired'[s] =>
         d \in wired[s] \/ (d = c /\ resp[c].kind = "attached" /\ resp[c].s = s)
  BY <1>10
<1> QED BY <1>3, <1>4, <1>6, <1>9, <1>16, <1>17, <1>18, <1>19, <1>20

LEMMA DropTypes ==
  ASSUME Types, NEW c \in Conns, Drop(c)
  PROVE  /\ Types' /\ cpc'[c] = "closed"
         /\ cut' = IF resp[c].kind = "attached" THEN cut \cup {c} ELSE cut
         /\ \A d \in Conns : d # c => resp'[d] = resp[d] /\ cpc'[d] = cpc[d]
         /\ resp'[c] = NoResponse
         /\ \A s \in Sessions :
              /\ writer'[s] = IF s = attached[c] /\ status[s] = "open" /\ writer[s] = c
                              THEN None ELSE writer[s]
              /\ wired'[s] \subseteq wired[s]
<1> USE DEF Types
<1>1. /\ cpc' = [cpc EXCEPT ![c] = "closed"] /\ resp' = [resp EXCEPT ![c] = NoResponse]
      /\ cut' = IF resp[c].kind = "attached" THEN cut \cup {c} ELSE cut
      /\ UNCHANGED <<status, next, buffer, running>>
      /\ UNCHANGED <<queue, attached, requests, moves, conn, cursor, heard>>
  BY DEF Drop, client
<1>2. /\ cpc \in [Conns -> {"unused", "idle", "sending", "closed"}]
      /\ resp = [d \in Conns |-> resp[d]] /\ \A d \in Conns : Response(d)
      /\ attached[c] \in Sessions \cup {None}
  BY DEF TransportTypes, RespInv
<1>3. \A d \in Conns : /\ resp'[d] = IF d = c THEN NoResponse ELSE resp[d]
                       /\ cpc'[d] = IF d = c THEN "closed" ELSE cpc[d]
  BY <1>1, <1>2
<1>4. RespInv'
  <2>1. resp' = [d \in Conns |-> resp'[d]] BY <1>1, <1>2
  <2>2. NoResponse.kind = "none" BY DEF NoResponse
  <2>3. ASSUME NEW d \in Conns PROVE Response(d)'
    <3>1. CASE d = c BY <1>3, <2>2, <3>1 DEF Response, Kinds
    <3>2. CASE d # c BY <1>2, <1>3, <3>2 DEF Response
    <3> QED BY <3>1, <3>2
  <2> QED BY <2>1, <2>3 DEF RespInv
<1>5. /\ wired' \in [Sessions -> SUBSET Conns]
      /\ \A s \in Sessions :
           /\ writer'[s] = IF s = attached[c] /\ status[s] = "open" /\ writer[s] = c
                           THEN None ELSE writer[s]
           /\ wired'[s] \subseteq wired[s]
      /\ SlotInv'
  <2>1. CASE attached[c] # None /\ status[attached[c]] = "open"
    <3>1. Detached(attached[c], c) BY <2>1 DEF Drop
    <3>2. attached[c] \in Sessions BY <1>2, <2>1
    <3> QED BY <2>1, <3>1, <3>2, DetachedTypes, DetachKeepsSlot
  <2>2. CASE ~(attached[c] # None /\ status[attached[c]] = "open")
    <3>1. writer' = writer /\ role' = role /\ wired' = wired BY <2>2 DEF Drop
    <3>2. \A s \in Sessions : ~(s = attached[c] /\ status[s] = "open")
      BY <2>2, ServerAssumption
    <3> QED BY <3>1, <3>2, SlotStutters DEF ServerTypes
  <2> QED BY <2>1, <2>2
<1>6. ServerTypes' BY <1>1, <1>5 DEF ServerTypes
<1>7. TransportTypes'
  <2>1. cut' \subseteq Conns BY <1>1 DEF TransportTypes
  <2>2. cpc' \in [Conns -> {"unused", "idle", "sending", "closed"}] BY <1>1, <1>2
  <2> QED BY <1>1, <2>1, <2>2 DEF TransportTypes
<1>8. ClientTypes' BY <1>1 DEF ClientTypes
<1>9. RingInv' BY <1>1, RingStutters
<1> QED BY <1>1, <1>3, <1>4, <1>5, <1>6, <1>7, <1>8, <1>9

LEMMA TypesStep == Types /\ [Next]_vars => Types'
<1> SUFFICES ASSUME Types, [Next]_vars PROVE Types' OBVIOUS
<1>0. RingInv' /\ SlotInv' BY RingStep, SlotStep DEF Types
<1>1. ASSUME NEW k \in Clients, Connect(k) PROVE Types'
  <2>1. PICK c \in Conns : /\ cpc[c] = "unused" /\ cpc' = [cpc EXCEPT ![c] = "idle"]
                           /\ conn' = [conn EXCEPT ![k] = c]
    BY <1>1 DEF Connect
  <2>2. UNCHANGED <<server, resp, queue, attached, requests, moves, cut, cursor, heard>>
    BY <1>1 DEF Connect
  <2>3. RespInv'
    <3>1. resp = [d \in Conns |-> resp[d]] /\ \A d \in Conns : Response(d)
      BY DEF Types, RespInv
    <3>2. \A d \in Conns : cpc'[d] # "sending" => cpc[d] # "sending"
      BY <2>1 DEF Types, TransportTypes
    <3>3. \A d \in Conns : Response(d)' BY <2>2, <3>1, <3>2 DEF Response
    <3> QED BY <2>2, <3>1, <3>3 DEF RespInv
  <2> QED BY <1>0, <2>1, <2>2, <2>3
        DEF Types, ServerTypes, TransportTypes, ClientTypes, server
<1>2. ASSUME NEW k \in Clients, ClientLeaves(k) PROVE Types'
  <2>1. /\ conn[k] # None /\ conn' = [conn EXCEPT ![k] = None]
        /\ queue' = [queue EXCEPT ![conn[k]] = <<>>]
        /\ UNCHANGED <<server, cpc, resp, attached, requests, moves, cut, cursor, heard>>
    BY <1>2 DEF ClientLeaves
  <2>2. <<>> \in Seq(Events) OBVIOUS
  <2>3. RespInv' BY <2>1, StillTypes
  <2>4. TransportTypes' BY <2>1, <2>2 DEF Types, TransportTypes
  <2> QED BY <1>0, <2>1, <2>3, <2>4 DEF Types, ServerTypes, ClientTypes, server
<1>3. ASSUME NEW k \in Clients, NEW c \in Conns, Create(k, c) PROVE Types'
  <2>1. PICK s \in Sessions : /\ status' = [status EXCEPT ![s] = "open"] /\ Answered(c, Ok)
    BY <1>3 DEF Create
  <2>2. cpc[c] = "idle" /\ UNCHANGED <<writer, role, wired, next, buffer, running, queue, requests, moves>>
    BY <1>3 DEF Create, Idle
  <2>3. Ok.kind = "ok" BY DEF Ok
  <2>4. /\ RespInv' /\ UNCHANGED <<attached, cut, conn, cursor, heard>>
        /\ cpc' \in [Conns -> {"unused", "idle", "sending", "closed"}]
    BY <2>1, <2>2, <2>3, AnsweredIs DEF Kinds
  <2> QED BY <1>0, <2>1, <2>2, <2>4 DEF Types, ServerTypes, TransportTypes, ClientTypes
<1>4. ASSUME NEW k \in Clients, NEW c \in Conns, Deliver(k, c) PROVE Types'
  <2>1. /\ queue[c] # <<>> /\ queue' = [queue EXCEPT ![c] = Tail(@)]
        /\ cursor' = [cursor EXCEPT ![k] = IF Head(queue[c]).id > @ THEN Head(queue[c]).id ELSE @]
        /\ heard' = [heard EXCEPT ![k][Head(queue[c]).s] = Head(queue[c]).id]
        /\ UNCHANGED <<server, cpc, resp, attached, requests, moves, cut, conn>>
    BY <1>4 DEF Deliver
  <2>2. queue[c] \in Seq(Events) /\ queue \in [Conns -> Seq(Events)]
    BY DEF Types, TransportTypes
  <2>3. PICK q \in Seq(Events) : q = queue[c] BY <2>2
  <2>4. Tail(q) \in Seq(Events) /\ Head(q) \in Events BY <2>1, <2>3
  <2>5. PICK e \in Events : e = Head(queue[c]) BY <2>3, <2>4
  <2>6. e.s \in Sessions /\ e.id \in 1..MaxEvents /\ e.id \in 0..MaxEvents BY DEF Events
  <2>7. cursor' \in [Clients -> 0..MaxEvents]
    BY <2>1, <2>5, <2>6 DEF Types, ClientTypes
  <2>8. heard' \in [Clients -> [Sessions -> 0..MaxEvents]]
    BY <2>1, <2>5, <2>6 DEF Types, ClientTypes
  <2>9. queue' \in [Conns -> Seq(Events)] BY <2>1, <2>2, <2>3, <2>4
  <2>10. RespInv' BY <2>1, StillTypes
  <2> QED BY <1>0, <2>1, <2>7, <2>8, <2>9, <2>10
        DEF Types, ServerTypes, TransportTypes, ClientTypes, server
<1>5. ASSUME NEW k \in Clients, NEW c \in Conns, NEW s \in Sessions, Send(k, c, s)
      PROVE  Types'
  <2>1. /\ Requests(k, c) /\ Emit(s) /\ Answered(c, Ok)
        /\ running' = [running EXCEPT ![s] = TRUE]
        /\ UNCHANGED <<status, writer, role, wired, moves>>
    BY <1>5 DEF Send
  <2>2. requests' \in [Conns -> Nat] /\ cpc[c] = "idle" BY <2>1, RequestsTypes
  <2>3. Ok.kind = "ok" BY DEF Ok
  <2>4. /\ RespInv' /\ UNCHANGED <<attached, cut, conn, cursor, heard>>
        /\ cpc' \in [Conns -> {"unused", "idle", "sending", "closed"}]
    BY <2>1, <2>2, <2>3, AnsweredIs DEF Kinds
  <2>5. next' \in [Sessions -> 1..MaxEvents + 1] /\ queue' \in [Conns -> Seq(Events)]
    BY <2>1, EmitTypes
  <2> QED BY <1>0, <2>1, <2>2, <2>4, <2>5 DEF Types, ServerTypes, TransportTypes, ClientTypes
<1>6. ASSUME NEW s \in Sessions, RuntimeEmits(s) PROVE Types'
  <2>1. /\ Emit(s) /\ UNCHANGED <<status, writer, role, wired, running>>
        /\ UNCHANGED <<cpc, resp, attached, requests, moves, cut, conn, cursor, heard>>
    BY <1>6 DEF RuntimeEmits, client
  <2>2. next' \in [Sessions -> 1..MaxEvents + 1] /\ queue' \in [Conns -> Seq(Events)]
    BY <2>1, EmitTypes
  <2>3. RespInv' BY <2>1, StillTypes
  <2> QED BY <1>0, <2>1, <2>2, <2>3 DEF Types, ServerTypes, TransportTypes, ClientTypes
<1>7. ASSUME NEW k \in Clients, NEW c \in Conns, NEW s \in Sessions, NEW r \in Roles,
             Attach(k, c, s, r)
      PROVE  Types'
  <2>1. PICK replayed \in Seq(1..MaxEvents) :
          /\ Answered(c, [kind |-> "attached", s |-> s, after |-> cursor[k],
                          replayed |-> replayed])
          /\ queue' \in [Conns -> Seq(Events)]
    BY <1>7, AttachTypes
  <2>2. /\ Requests(k, c) /\ moves' = [moves EXCEPT ![c] = @ + 1]
        /\ UNCHANGED <<status, wired, next, buffer, running>>
    BY <1>7 DEF Attach
  <2>3. requests' \in [Conns -> Nat] /\ moves' \in [Conns -> Nat] /\ cpc[c] = "idle"
    BY <2>2, RequestsTypes, MovesTypes
  <2>4. /\ RespInv' /\ UNCHANGED <<attached, cut, conn, cursor, heard>>
        /\ cpc' \in [Conns -> {"unused", "idle", "sending", "closed"}]
    BY <2>1, <2>3, AnsweredIs DEF Kinds
  <2> QED BY <1>0, <2>1, <2>2, <2>3, <2>4 DEF Types, ServerTypes, TransportTypes, ClientTypes
<1>8. ASSUME NEW k \in Clients, NEW c \in Conns, NEW s \in Sessions, NEW r \in Roles,
             AttachEvicted(k, c, s, r)
      PROVE  Types'
  <2>1. /\ Requests(k, c) /\ Detached(s, c)
        /\ Answered(c, [kind |-> "evicted", s |-> s, after |-> cursor[k]])
        /\ UNCHANGED <<status, next, buffer, running, queue, moves>>
    BY <1>8 DEF AttachEvicted
  <2>2. requests' \in [Conns -> Nat] /\ cpc[c] = "idle" BY <2>1, RequestsTypes
  <2>3. /\ RespInv' /\ UNCHANGED <<attached, cut, conn, cursor, heard>>
        /\ cpc' \in [Conns -> {"unused", "idle", "sending", "closed"}]
    BY <2>1, <2>2, AnsweredIs DEF Kinds
  <2>4. wired' \in [Sessions -> SUBSET Conns] BY <2>1, DetachedTypes
  <2> QED BY <1>0, <2>1, <2>2, <2>3, <2>4 DEF Types, ServerTypes, TransportTypes, ClientTypes
<1>9. ASSUME NEW k \in Clients, NEW c \in Conns, NEW s \in Sessions, Detach(k, c, s)
      PROVE  Types'
  <2>1. /\ Requests(k, c) /\ moves' = [moves EXCEPT ![c] = @ + 1]
        /\ Answered(c, [kind |-> "detached", s |-> s])
        /\ UNCHANGED <<status, next, buffer, running, queue>>
    BY <1>9 DEF Detach
  <2>2. requests' \in [Conns -> Nat] /\ moves' \in [Conns -> Nat] /\ cpc[c] = "idle"
    BY <2>1, RequestsTypes, MovesTypes
  <2>3. /\ RespInv' /\ UNCHANGED <<attached, cut, conn, cursor, heard>>
        /\ cpc' \in [Conns -> {"unused", "idle", "sending", "closed"}]
    BY <2>1, <2>2, AnsweredIs DEF Kinds
  <2>4. wired' \in [Sessions -> SUBSET Conns]
    <3>1. CASE status[s] = "open" BY <1>9, <3>1, DetachedTypes DEF Detach
    <3>2. CASE status[s] # "open" BY <1>9, <3>2 DEF Detach, Types, ServerTypes
    <3> QED BY <3>1, <3>2
  <2> QED BY <1>0, <2>1, <2>2, <2>3, <2>4 DEF Types, ServerTypes, TransportTypes, ClientTypes
<1>10. ASSUME NEW k \in Clients, NEW c \in Conns, NEW s \in Sessions, Close(k, c, s)
       PROVE  Types'
  <2>1. /\ Requests(k, c) /\ status' = [status EXCEPT ![s] = "closed"] /\ Answered(c, Ok)
        /\ UNCHANGED <<writer, role, wired, next, buffer, running, queue, moves>>
    BY <1>10 DEF Close
  <2>2. requests' \in [Conns -> Nat] /\ cpc[c] = "idle" BY <2>1, RequestsTypes
  <2>3. Ok.kind = "ok" BY DEF Ok
  <2>4. /\ RespInv' /\ UNCHANGED <<attached, cut, conn, cursor, heard>>
        /\ cpc' \in [Conns -> {"unused", "idle", "sending", "closed"}]
    BY <2>1, <2>2, <2>3, AnsweredIs DEF Kinds
  <2> QED BY <1>0, <2>1, <2>2, <2>4 DEF Types, ServerTypes, TransportTypes, ClientTypes
<1>11. ASSUME NEW k \in Clients, NEW c \in Conns, NEW s \in Sessions, Refuse(k, c, s)
       PROVE  Types'
  <2>1. /\ cpc[c] = "idle" /\ Answered(c, [kind |-> "refused"])
        /\ UNCHANGED <<server, queue, requests, moves>>
    BY <1>11 DEF Refuse, Idle
  <2>2. /\ RespInv' /\ UNCHANGED <<attached, cut, conn, cursor, heard>>
        /\ cpc' \in [Conns -> {"unused", "idle", "sending", "closed"}]
    BY <2>1, AnsweredIs DEF Kinds
  <2> QED BY <1>0, <2>1, <2>2 DEF Types, ServerTypes, TransportTypes, ClientTypes, server
<1>12. ASSUME NEW c \in Conns, Respond(c) \/ Drop(c) PROVE Types'
  BY <1>12, RespondTypes, DropTypes
<1>13. CASE UNCHANGED vars
  <2>1. RespInv' BY <1>13, StillTypes DEF vars, transport
  <2> QED BY <1>0, <1>13, <2>1
        DEF Types, ServerTypes, TransportTypes, ClientTypes, vars, server, transport, client
<1> QED BY <1>1, <1>2, <1>3, <1>4, <1>5, <1>6, <1>7, <1>8, <1>9, <1>10, <1>11, <1>12, <1>13
     DEF Next

LEMMA TypesInit == Init => Types
<1> SUFFICES ASSUME Init PROVE Types OBVIOUS
<1>1. SlotInv BY ServerAssumption DEF Init, SlotInv, SlotTypes, SlotMatchesRole, Roles
<1>2. RingInv BY ServerAssumption DEF Init, RingInv, RingTypes, BufferIsTail
<1>3. MaxEvents \in Nat /\ 1 \in 1..MaxEvents + 1 /\ 0 \in 0..MaxEvents BY ServerAssumption
<1>4. ServerTypes BY <1>3 DEF Init, ServerTypes
<1>5. <<>> \in Seq(Events) OBVIOUS
<1>6. TransportTypes BY <1>5 DEF Init, TransportTypes
<1>7. ClientTypes BY <1>3 DEF Init, ClientTypes
<1>8. RespInv
  <2>1. NoResponse.kind = "none" BY DEF NoResponse
  <2>2. \A c \in Conns : resp[c] = NoResponse /\ resp = [d \in Conns |-> NoResponse]
    BY DEF Init
  <2>3. \A c \in Conns : Response(c) BY <2>1, <2>2 DEF Response, Kinds
  <2>4. resp = [c \in Conns |-> resp[c]] BY DEF Init
  <2> QED BY <2>3, <2>4 DEF RespInv
<1> QED BY <1>1, <1>2, <1>4, <1>6, <1>7, <1>8 DEF Types

LEMMA TypesAlways == Spec => []Types
BY TypesInit, TypesStep, PTL DEF Spec

(* Types; the ring of a session holds at most EVENT_BUFFER_SIZE events, all of
   them events that were emitted (emit_event of SessionManager). *)
THEOREM ServerIsTyped == Spec => []TypeOK
<1>1. ASSUME Types PROVE TypeOK
  <2>1. ASSUME NEW s \in Sessions
        PROVE  buffer[s] \in Seq(1..MaxEvents) /\ Len(buffer[s]) <= BufferSize
    <3>1. /\ buffer[s] \in Seq(Nat) /\ next[s] \in 1..MaxEvents + 1
          /\ BufferSize \in Nat /\ MaxEvents \in Nat
      BY <1>1, ServerAssumption DEF Types, RingInv, RingTypes, ServerTypes
    <3>2. /\ Len(buffer[s]) = IF next[s] <= BufferSize THEN next[s] - 1 ELSE BufferSize
          /\ \A i \in DOMAIN buffer[s] : buffer[s][i] = next[s] - Len(buffer[s]) + i - 1
      BY <1>1 DEF Types, RingInv, BufferIsTail
    <3> PICK b, l, x : b = buffer[s] /\ l = Len(b) /\ x = next[s] OBVIOUS
    <3>3. b \in Seq(Nat) /\ l \in Nat /\ DOMAIN b = 1..l /\ x \in 1..MaxEvents + 1
      BY <3>1
    <3>4. l = (IF x <= BufferSize THEN x - 1 ELSE BufferSize)
          /\ \A i \in 1..l : b[i] = x - l + i - 1
      BY <3>2, <3>3
    <3>5. l <= BufferSize /\ l <= x - 1 BY <3>1, <3>3, <3>4
    <3>6. \A i \in 1..l : x - l + i - 1 \in 1..MaxEvents BY <3>1, <3>3, <3>5
    <3>7. b = [i \in 1..l |-> b[i]] BY <3>3
    <3> DEFINE f == [i \in 1..l |-> x - l + i - 1]
    <3>8. f \in Seq(1..MaxEvents) BY <3>3, <3>6
    <3>9. \A i \in 1..l : b[i] = f[i] BY <3>4
    <3>10. f = [i \in 1..l |-> f[i]] OBVIOUS
    <3> HIDE DEF f
    <3>11. b = f BY <3>7, <3>9, <3>10
    <3> QED BY <3>5, <3>8, <3>11
  <2> QED BY <1>1, <2>1
        DEF TypeOK, Types, ServerTypes, TransportTypes, ClientTypes, SlotInv, SlotTypes
<1> QED BY <1>1, TypesAlways, PTL
-----------------------------------------------------------------------------
(* replay_after: a resumed attach is answered with exactly the events after the
   cursor, and refused only when one of them has left the ring or the cursor is
   ahead of a session without events; for any ring, cursor and interleaving. *)
THEOREM ReplaysAreExact == Spec => ReplayExact
<1> DEFINE Exact(r) ==
      LET n == next[r.s] - 1
      IN  /\ r.kind = "attached" /\ r.after > 0 =>
               r.replayed = [i \in 1..(IF n > r.after THEN n - r.after ELSE 0)
                               |-> r.after + i]
          /\ r.kind = "evicted" => n = 0 \/ r.after + BufferSize < n
<1>1. ASSUME Types, Next, NEW d \in Conns, cpc[d] = "idle", cpc'[d] = "sending"
      PROVE  Exact(resp'[d])
  <2> USE DEF Types
  <2>1. ASSUME NEW c \in Conns, NEW r, Answered(c, r)
        PROVE  resp'[d] = r
    <3>1. resp' = [resp EXCEPT ![c] = r] /\ cpc' = [cpc EXCEPT ![c] = "sending"]
      BY <2>1 DEF Answered
    <3>2. d = c BY <1>1, <3>1 DEF TransportTypes
    <3> QED BY <1>1, <3>1, <3>2 DEF RespInv
  <2>2. ASSUME NEW r, resp'[d] = r, r.kind \notin {"attached", "evicted"}
        PROVE  Exact(resp'[d])
    BY <2>2
  <2>3. ASSUME NEW k \in Clients, NEW c \in Conns, NEW s \in Sessions, NEW r \in Roles,
               Attach(k, c, s, r)
        PROVE  Exact(resp'[d])
    <3>1. PICK replayed :
            /\ Answered(c, [kind |-> "attached", s |-> s, after |-> cursor[k],
                            replayed |-> replayed])
            /\ cursor[k] > 0 => replayed = Missed(s, cursor[k])
      BY <1>1, <2>3, AttachTypes
    <3> PICK q : q = [kind |-> "attached", s |-> s, after |-> cursor[k], replayed |-> replayed]
      OBVIOUS
    <3>2. resp'[d] = q /\ q.kind = "attached" /\ q.s = s /\ q.after = cursor[k]
          /\ q.replayed = replayed
      BY <2>1, <3>1
    <3>3. cursor[k] \in 0..MaxEvents /\ (cursor[k] = 0 \/ ~Evicted(s, cursor[k]))
      BY <1>1, <2>3 DEF Attach, ClientTypes
    <3>4. cursor[k] > 0 =>
            replayed = [j \in 1..(IF next[s] - 1 > cursor[k] THEN next[s] - 1 - cursor[k] ELSE 0)
                          |-> cursor[k] + j]
      <4>1. SUFFICES ASSUME cursor[k] > 0 PROVE cursor[k] \in Nat \ {0} /\ ~Evicted(s, cursor[k])
        BY <1>1, <3>1, MissedIs
      <4> QED BY <3>3, <4>1
    <3> QED BY <3>2, <3>4
  <2>4. ASSUME NEW k \in Clients, NEW c \in Conns, NEW s \in Sessions, NEW r \in Roles,
               AttachEvicted(k, c, s, r)
        PROVE  Exact(resp'[d])
    <3>1. /\ Answered(c, [kind |-> "evicted", s |-> s, after |-> cursor[k]])
          /\ Evicted(s, cursor[k])
      BY <2>4 DEF AttachEvicted
    <3> PICK q : q = [kind |-> "evicted", s |-> s, after |-> cursor[k]] OBVIOUS
    <3>2. resp'[d] = q /\ q.kind = "evicted" /\ q.s = s /\ q.after = cursor[k]
      BY <2>1, <3>1
    <3>3. /\ buffer[s] \in Seq(Nat) /\ next[s] \in Nat \ {0} /\ cursor[k] \in Nat
          /\ BufferSize \in Nat \ {0}
      BY <1>1, ServerAssumption DEF RingInv, RingTypes, ClientTypes
    <3>4. /\ Len(buffer[s]) = IF next[s] <= BufferSize THEN next[s] - 1 ELSE BufferSize
          /\ \A i \in DOMAIN buffer[s] : buffer[s][i] = next[s] - Len(buffer[s]) + i - 1
      BY <1>1 DEF RingInv, BufferIsTail
    <3> PICK n, m, b : n = cursor[k] /\ m = next[s] /\ b = buffer[s] OBVIOUS
    <3>5. m - 1 = 0 \/ n + BufferSize < m - 1
      <4>1. CASE b = <<>> BY <3>3, <3>4, <4>1
      <4>2. CASE b # <<>>
        <5>1. Head(b) = b[1] /\ 1 \in DOMAIN b /\ Len(b) \in Nat BY <3>3, <4>2
        <5>2. Head(b) = m - Len(b) BY <3>3, <3>4, <5>1
        <5>3. n + 1 < Head(b) BY <3>1, <4>2 DEF Evicted
        <5> QED BY <3>3, <3>4, <5>1, <5>2, <5>3
      <4> QED BY <4>1, <4>2
    <3> QED BY <3>2, <3>5
  <2>5. ASSUME NEW c \in Conns, Answered(c, Ok) PROVE Exact(resp'[d])
    BY <2>1, <2>2, <2>5 DEF Ok
  <2>6. ASSUME NEW k \in Clients, NEW c \in Conns, NEW s \in Sessions,
               Send(k, c, s) \/ Detach(k, c, s) \/ Close(k, c, s) \/ Refuse(k, c, s)
        PROVE  Exact(resp'[d])
    <3>1. \/ Answered(c, Ok) \/ Answered(c, [kind |-> "detached", s |-> s])
          \/ Answered(c, [kind |-> "refused"])
      BY <2>6 DEF Send, Detach, Close, Refuse
    <3> QED BY <2>1, <2>2, <2>5, <3>1
  <2>7. ASSUME NEW k \in Clients, NEW c \in Conns, Create(k, c) \/ Deliver(k, c)
        PROVE  Exact(resp'[d])
    <3>1. Answered(c, Ok) \/ cpc' = cpc BY <2>7 DEF Create, Deliver
    <3> QED BY <1>1, <2>5, <3>1
  <2>8. ASSUME NEW k \in Clients, Connect(k) \/ ClientLeaves(k) PROVE FALSE
    BY <1>1, <2>8 DEF Connect, ClientLeaves, TransportTypes
  <2>9. ASSUME NEW c \in Conns, Respond(c) \/ Drop(c) PROVE FALSE
    BY <1>1, <2>9 DEF Respond, Drop, TransportTypes
  <2>10. ASSUME NEW s \in Sessions, RuntimeEmits(s) PROVE FALSE
    BY <1>1, <2>10 DEF RuntimeEmits
  <2> QED BY <1>1, <2>3, <2>4, <2>6, <2>7, <2>8, <2>9, <2>10 DEF Next
<1>2. Types /\ [Next]_vars =>
        [\A c \in Conns : cpc[c] = "idle" /\ cpc'[c] = "sending" => Exact(resp'[c])]_vars
  BY <1>1
<1> QED BY <1>2, TypesAlways, PTL DEF Spec, ReplayExact
-----------------------------------------------------------------------------
(* The writer slot of a connection that died.  Until a connection attaches or
   detaches a second time, what the transport knows of it (attached, or the
   response under way) is what the manager holds. *)
Attaching(c) == resp[c].kind \in {"attached", "detached"}
MoveInv ==
  \A c \in Conns :
    /\ moves[c] = 0 => attached[c] = None /\ ~Attaching(c)
    /\ moves[c] = 1 /\ Attaching(c) => attached[c] = None
Known(c, s) ==
  /\ cpc[c] # "closed"
  /\ attached[c] = s \/ (resp[c].kind = "attached" /\ resp[c].s = s)
HeldInv ==
  \A s \in Sessions, c \in Conns :
    status[s] = "open" /\ writer[s] = c =>
      moves[c] > 1 \/ c \in cut \/ (moves[c] = 1 /\ Known(c, s))
UnbornInv == \A s \in Sessions : status[s] = "unborn" => writer[s] = None
SlotsInv == MoveInv /\ HeldInv /\ UnbornInv

(* Steps that neither attach nor detach, answer nor end a connection. *)
LEMMA SlotsStill ==
  ASSUME Types, SlotsInv, UNCHANGED <<moves, attached, cut>>,
         \A d \in Conns :
           /\ resp'[d] = resp[d] \/ (cpc[d] # "sending" /\ ~Attaching(d)')
           /\ cpc'[d] = "closed" => cpc[d] = "closed",
         \A s \in Sessions : /\ writer'[s] \in {writer[s], None}
                             /\ status'[s] = "unborn" => status[s] = "unborn"
                             /\ status'[s] = "open" => status[s] # "closed"
  PROVE  SlotsInv'
<1> USE DEF SlotsInv
<1>1. \A d \in Conns : cpc[d] # "sending" => resp[d].kind = "none"
  BY DEF Types, RespInv, Response
<1>2. MoveInv' BY DEF MoveInv, Attaching
<1>3. HeldInv'
  <2> SUFFICES ASSUME NEW s \in Sessions, NEW c \in Conns, status'[s] = "open", writer'[s] = c
               PROVE  moves[c] > 1 \/ c \in cut \/ (moves[c] = 1 /\ Known(c, s)')
    BY DEF HeldInv, Known
  <2>1. None \notin Conns BY ServerAssumption
  <2>2. writer[s] = c /\ status[s] \in {"unborn", "open", "closed"}
    BY <2>1 DEF Types, ServerTypes
  <2>3. status[s] = "open" BY <2>1, <2>2 DEF UnbornInv
  <2>4. moves[c] > 1 \/ c \in cut \/ (moves[c] = 1 /\ Known(c, s))
    BY <2>2, <2>3 DEF HeldInv
  <2>5. Known(c, s) => Known(c, s)' BY <1>1 DEF Known
  <2> QED BY <2>4, <2>5
<1>4. UnbornInv' BY DEF UnbornInv
<1> QED BY <1>2, <1>3, <1>4

(* An attach or a detach of c. *)
LEMMA SlotsMove ==
  ASSUME Types, SlotsInv, NEW c \in Conns, NEW s \in Sessions, NEW r,
         Answered(c, r), cpc[c] = "idle", r.kind \in {"attached", "detached"}, r.s = s,
         UNCHANGED status, moves' = [moves EXCEPT ![c] = @ + 1],
         \A z \in Sessions :
           writer'[z] \in {writer[z], None}
             \cup (IF z = s /\ status[s] = "open" /\ r.kind = "attached" THEN {c} ELSE {}),
         r.kind = "detached" /\ status[s] = "open" => writer'[s] # c
  PROVE  SlotsInv'
<1> USE DEF SlotsInv
<1>1. /\ UNCHANGED <<attached, cut>>
      /\ \A d \in Conns : /\ resp'[d] = IF d = c THEN r ELSE resp[d]
                          /\ cpc'[d] = IF d = c THEN "sending" ELSE cpc[d]
      /\ \A d \in Conns : moves'[d] = IF d = c THEN moves[d] + 1 ELSE moves[d]
      /\ \A d \in Conns : moves[d] \in Nat
  BY MovesTypes DEF Answered, Types, TransportTypes, RespInv
<1>2. MoveInv'
  <2> SUFFICES ASSUME NEW d \in Conns
               PROVE  /\ moves'[d] = 0 => attached[d] = None /\ ~Attaching(d)'
                      /\ moves'[d] = 1 /\ Attaching(d)' => attached[d] = None
    BY <1>1 DEF MoveInv
  <2>1. CASE d = c
    <3>1. moves'[d] # 0 /\ (moves'[d] = 1 => moves[d] = 0) BY <1>1, <2>1
    <3> QED BY <3>1 DEF MoveInv
  <2>2. CASE d # c BY <1>1, <2>2 DEF MoveInv, Attaching
  <2> QED BY <2>1, <2>2
<1>3. HeldInv'
  <2> SUFFICES ASSUME NEW z \in Sessions, NEW d \in Conns, status[z] = "open", writer'[z] = d
               PROVE  moves'[d] > 1 \/ d \in cut \/ (moves'[d] = 1 /\ Known(d, z)')
    BY <1>1 DEF HeldInv
  <2>1. None \notin Conns BY ServerAssumption
  <2>2. CASE d # c
    <3>1. writer[z] = d BY <2>1, <2>2
    <3> QED BY <1>1, <2>2, <3>1 DEF HeldInv, Known
  <2>3. CASE d = c /\ writer[z] = c
    <3>1. moves[c] > 1 \/ c \in cut \/ moves[c] = 1 BY <2>3 DEF HeldInv
    <3> QED BY <1>1, <2>3, <3>1
  <2>4. CASE d = c /\ writer[z] # c
    <3>1. z = s /\ r.kind = "attached" BY <2>1, <2>4
    <3>2. Known(c, s)' BY <1>1, <3>1 DEF Known
    <3>3. moves'[c] > 1 \/ moves'[c] = 1 BY <1>1
    <3> QED BY <2>4, <3>1, <3>2, <3>3
  <2> QED BY <2>2, <2>3, <2>4
<1>4. UnbornInv' BY DEF UnbornInv
<1> QED BY <1>2, <1>3, <1>4

LEMMA SlotsStep ==
  ASSUME Types, SlotsInv, [Next]_vars
  PROVE  SlotsInv'
<1> USE DEF SlotsInv
<1>1. ASSUME NEW c \in Conns, NEW r, Answered(c, r), cpc[c] = "idle",
             r.kind \in {"ok", "refused", "evicted"}, UNCHANGED moves,
             \A s \in Sessions : /\ writer'[s] \in {writer[s], None}
                                 /\ status'[s] = "unborn" => status[s] = "unborn"
                                 /\ status'[s] = "open" => status[s] # "closed"
      PROVE  SlotsInv'
  <2>1. /\ UNCHANGED <<attached, cut>>
        /\ \A d \in Conns : /\ resp'[d] = IF d = c THEN r ELSE resp[d]
                            /\ cpc'[d] = IF d = c THEN "sending" ELSE cpc[d]
    BY <1>1 DEF Answered, Types, TransportTypes, RespInv
  <2>2. \A d \in Conns : /\ resp'[d] = resp[d] \/ (cpc[d] # "sending" /\ ~Attaching(d)')
                         /\ cpc'[d] = "closed" => cpc[d] = "closed"
    BY <1>1, <2>1 DEF Attaching
  <2> QED BY <1>1, <2>1, <2>2, SlotsStill
<1>2. ASSUME NEW k \in Clients, Connect(k) \/ ClientLeaves(k) PROVE SlotsInv'
  <2>1. \A d \in Conns : cpc'[d] = "closed" => cpc[d] = "closed"
    BY <1>2 DEF Connect, ClientLeaves, Types, TransportTypes
  <2>2. UNCHANGED <<moves, attached, cut, resp, writer, status>>
    BY <1>2 DEF Connect, ClientLeaves, server
  <2>3. \A s \in Sessions : writer[s] \in {writer[s], None} OBVIOUS
  <2>4. \A s \in Sessions : status[s] = "open" => status[s] # "closed" OBVIOUS
  <2> QED BY <2>1, <2>2, <2>3, <2>4, SlotsStill
<1>3. ASSUME UNCHANGED <<moves, attached, cut, resp, cpc, writer, status>> PROVE SlotsInv'
  BY <1>3 DEF MoveInv, HeldInv, UnbornInv, Attaching, Known
<1>4. ASSUME NEW k \in Clients, NEW c \in Conns, Deliver(k, c) PROVE SlotsInv'
  BY <1>3, <1>4 DEF Deliver, server
<1>5. ASSUME NEW s \in Sessions, RuntimeEmits(s) PROVE SlotsInv'
  BY <1>3, <1>5 DEF RuntimeEmits
<1>6. ASSUME NEW k \in Clients, NEW c \in Conns, Create(k, c) PROVE SlotsInv'
  <2>1. PICK s \in Sessions : /\ status[s] = "unborn"
                              /\ status' = [status EXCEPT ![s] = "open"] /\ Answered(c, Ok)
    BY <1>6 DEF Create
  <2>2. cpc[c] = "idle" /\ UNCHANGED <<writer, moves>> BY <1>6 DEF Create, Idle
  <2>3. Ok.kind = "ok" BY DEF Ok
  <2>4. \A z \in Sessions : /\ status'[z] = "unborn" => status[z] = "unborn"
                            /\ status'[z] = "open" => status[z] # "closed"
    BY <2>1 DEF Types, ServerTypes
  <2> QED BY <1>1, <2>1, <2>2, <2>3, <2>4
<1>7. ASSUME NEW k \in Clients, NEW c \in Conns, NEW s \in Sessions, Send(k, c, s)
      PROVE  SlotsInv'
  <2>1. Answered(c, Ok) /\ cpc[c] = "idle" /\ UNCHANGED <<status, writer, moves>>
    BY <1>7 DEF Send, Requests, Idle
  <2>2. Ok.kind = "ok" BY DEF Ok
  <2> QED BY <1>1, <2>1, <2>2
<1>8. ASSUME NEW k \in Clients, NEW c \in Conns, NEW s \in Sessions, Close(k, c, s)
      PROVE  SlotsInv'
  <2>1. /\ Answered(c, Ok) /\ cpc[c] = "idle" /\ UNCHANGED <<writer, moves>>
        /\ status' = [status EXCEPT ![s] = "closed"]
    BY <1>8 DEF Close, Requests, Idle
  <2>2. Ok.kind = "ok" BY DEF Ok
  <2>3. \A z \in Sessions : /\ status'[z] = "unborn" => status[z] = "unborn"
                            /\ status'[z] = "open" => status[z] # "closed"
    BY <2>1 DEF Types, ServerTypes
  <2> QED BY <1>1, <2>1, <2>2, <2>3
<1>9. ASSUME NEW k \in Clients, NEW c \in Conns, NEW s \in Sessions, Refuse(k, c, s)
      PROVE  SlotsInv'
  <2>1. /\ Answered(c, [kind |-> "refused"]) /\ cpc[c] = "idle"
        /\ UNCHANGED <<status, writer, moves>>
    BY <1>9 DEF Refuse, Idle, server
  <2> QED BY <1>1, <2>1
<1>10. ASSUME NEW k \in Clients, NEW c \in Conns, NEW s \in Sessions, NEW r \in Roles,
              AttachEvicted(k, c, s, r)
       PROVE  SlotsInv'
  <2>1. /\ Answered(c, [kind |-> "evicted", s |-> s, after |-> cursor[k]])
        /\ Detached(s, c) /\ cpc[c] = "idle" /\ UNCHANGED <<status, moves>>
    BY <1>10 DEF AttachEvicted, Requests, Idle
  <2>2. \A z \in Sessions : writer'[z] \in {writer[z], None} BY <2>1, DetachedTypes
  <2> QED BY <1>1, <2>1, <2>2
<1>11. ASSUME NEW k \in Clients, NEW c \in Conns, NEW s \in Sessions, NEW r \in Roles,
              Attach(k, c, s, r)
       PROVE  SlotsInv'
  <2>1. PICK replayed :
          Answered(c, [kind |-> "attached", s |-> s, after |-> cursor[k], replayed |-> replayed])
    BY <1>11, AttachTypes
  <2> PICK q : q = [kind |-> "attached", s |-> s, after |-> cursor[k], replayed |-> replayed]
    OBVIOUS
  <2>2. /\ cpc[c] = "idle" /\ moves' = [moves EXCEPT ![c] = @ + 1] /\ status' = status
        /\ writer' = [writer EXCEPT ![s] = SlotAfter(s, c, r)] /\ status[s] = "open"
    BY <1>11 DEF Attach, Requests, Idle
  <2>3. \A z \in Sessions :
          writer'[z] \in {writer[z], None} \cup (IF z = s /\ status[s] = "open" THEN {c} ELSE {})
    BY <2>2 DEF Types, SlotInv, SlotTypes, SlotAfter
  <2>4. q.kind = "attached" /\ q.s = s /\ Answered(c, q) BY <2>1
  <2> QED BY <2>2, <2>3, <2>4, SlotsMove
<1>12. ASSUME NEW k \in Clients, NEW c \in Conns, NEW s \in Sessions, Detach(k, c, s)
       PROVE  SlotsInv'
  <2> PICK q : q = [kind |-> "detached", s |-> s] OBVIOUS
  <2>1. q.kind = "detached" /\ q.s = s /\ Answered(c, q) BY <1>12 DEF Detach
  <2>2. /\ cpc[c] = "idle" /\ moves' = [moves EXCEPT ![c] = @ + 1] /\ status' = status
    BY <1>12 DEF Detach, Requests, Idle
  <2>3. /\ \A z \in Sessions : writer'[z] \in {writer[z], None}
        /\ status[s] = "open" => writer'[s] # c
    <3>1. CASE status[s] = "open"
      <4>1. Detached(s, c) BY <1>12, <3>1 DEF Detach
      <4> QED BY <4>1, DetachedTypes, ServerAssumption
    <3>2. CASE status[s] # "open" BY <1>12, <3>2 DEF Detach
    <3> QED BY <3>1, <3>2
  <2> QED BY <2>1, <2>2, <2>3, SlotsMove
<1>13. ASSUME NEW c \in Conns, Respond(c) PROVE SlotsInv'
  <2>1. /\ UNCHANGED <<status, writer, moves, cut>> /\ cpc[c] = "sending" BY <1>13 DEF Respond
  <2>2. \A d \in Conns : /\ resp'[d] = IF d = c THEN NoResponse ELSE resp[d]
                         /\ cpc'[d] = IF d = c THEN "idle" ELSE cpc[d]
                         /\ attached'[d] =
                              IF d = c /\ resp[c].kind = "attached" THEN resp[c].s
                              ELSE IF d = c /\ resp[c].kind = "detached" THEN None
                              ELSE attached[d]
    BY <1>13, RespondTypes
  <2>3. NoResponse.kind = "none" BY DEF NoResponse
  <2>4. MoveInv'
    <3> SUFFICES ASSUME NEW d \in Conns
                 PROVE  /\ moves[d] = 0 => attached'[d] = None /\ ~Attaching(d)'
                        /\ moves[d] = 1 /\ Attaching(d)' => attached'[d] = None
      BY <2>1 DEF MoveInv
    <3>1. CASE d = c
      <4>1. ~Attaching(d)' BY <2>2, <2>3, <3>1 DEF Attaching
      <4>2. moves[d] = 0 => attached'[d] = None BY <2>2, <3>1 DEF MoveInv, Attaching
      <4> QED BY <4>1, <4>2
    <3>2. CASE d # c BY <2>2, <3>2 DEF MoveInv, Attaching
    <3> QED BY <3>1, <3>2
  <2>5. HeldInv'
    <3> SUFFICES ASSUME NEW s \in Sessions, NEW d \in Conns, status[s] = "open", writer[s] = d,
                        moves[d] = 1, Known(d, s)
                 PROVE  Known(d, s)'
      BY <2>1 DEF HeldInv
    <3>1. CASE d = c
      <4>1. s # None BY ServerAssumption
      <4>2. ~Attaching(c) => attached[c] = s BY <3>1 DEF Known, Attaching
      <4>3. Attaching(c) => resp[c].kind = "attached" /\ resp[c].s = s
        BY <3>1, <4>1 DEF MoveInv, Known
      <4>4. attached'[c] = s BY <2>2, <4>2, <4>3 DEF Attaching
      <4> QED BY <2>2, <3>1, <4>4 DEF Known
    <3>2. CASE d # c BY <2>2, <3>2 DEF Known
    <3> QED BY <3>1, <3>2
  <2>6. UnbornInv' BY <2>1 DEF UnbornInv
  <2> QED BY <2>4, <2>5, <2>6
<1>14. ASSUME NEW c \in Conns, Drop(c) PROVE SlotsInv'
  <2>1. UNCHANGED <<status, moves, attached>> BY <1>14 DEF Drop
  <2>2. /\ cut' = IF resp[c].kind = "attached" THEN cut \cup {c} ELSE cut
        /\ \A d \in Conns : d # c => resp'[d] = resp[d] /\ cpc'[d] = cpc[d]
        /\ resp'[c] = NoResponse
        /\ \A s \in Sessions :
             writer'[s] = IF s = attached[c] /\ status[s] = "open" /\ writer[s] = c
                          THEN None ELSE writer[s]
    BY <1>14, DropTypes
  <2>3. NoResponse.kind = "none" BY DEF NoResponse
  <2>4. MoveInv' BY <2>1, <2>2, <2>3 DEF MoveInv, Attaching
  <2>5. HeldInv'
    <3> SUFFICES ASSUME NEW s \in Sessions, NEW d \in Conns, status[s] = "open", writer'[s] = d
                 PROVE  moves[d] > 1 \/ d \in cut' \/ (moves[d] = 1 /\ Known(d, s)')
      BY <2>1 DEF HeldInv
    <3>1. writer[s] = d BY <2>2, ServerAssumption
    <3>2. moves[d] > 1 \/ d \in cut \/ (moves[d] = 1 /\ Known(d, s))
      BY <3>1 DEF HeldInv
    <3>3. CASE d = c
      <4>1. s # attached[c] BY <2>2, <3>1, <3>3, ServerAssumption
      <4> QED BY <2>2, <3>2, <3>3, <4>1 DEF Known
    <3>4. CASE d # c BY <2>1, <2>2, <3>2, <3>4 DEF Known
    <3> QED BY <3>3, <3>4
  <2>6. UnbornInv' BY <2>1, <2>2 DEF UnbornInv
  <2> QED BY <2>4, <2>5, <2>6
<1>15. CASE UNCHANGED vars BY <1>3, <1>15 DEF vars, server, transport
<1> QED BY <1>2, <1>4, <1>5, <1>6, <1>7, <1>8, <1>9, <1>10, <1>11, <1>12, <1>13, <1>14, <1>15
     DEF Next

(* handle_connection's finally: a dead connection keeps no writer slot, unless
   its attach was not answered yet or it attached or detached more than once;
   for any sessions, clients and connections. *)
THEOREM DeadWritersAreFreed == Spec => []DeadWriter
<1>1. Init => SlotsInv
  BY ServerAssumption DEF Init, SlotsInv, MoveInv, HeldInv, UnbornInv, Attaching, NoResponse
<1>2. Types /\ SlotsInv /\ [Next]_vars => SlotsInv' BY SlotsStep
<1>3. Types /\ SlotsInv => DeadWriter
  BY DEF SlotsInv, HeldInv, DeadWriter, Known
<1> QED BY <1>1, <1>2, <1>3, TypesAlways, PTL DEF Spec
-----------------------------------------------------------------------------
(* The order of the events on a connection.  Before its first attach has been
   answered a connection is wired to no session and carries nothing; a line
   with events belongs to one client; and no number is ahead of its session. *)
Fresh(c) == moves[c] = 0 \/ (moves[c] = 1 /\ Attaching(c))
FreshInv ==
  \A c \in Conns : Fresh(c) => queue[c] = <<>> /\ \A s \in Sessions : c \notin wired[s]
LineInv ==
  /\ \A k \in Clients : conn[k] # None => cpc[conn[k]] # "unused"
  /\ \A k, l \in Clients : conn[k] = conn[l] /\ conn[k] # None => k = l
  /\ \A c \in Conns : queue[c] # <<>> => Open(c)
NumberInv ==
  /\ \A c \in Conns : \A i \in DOMAIN queue[c] : queue[c][i].id < next[queue[c][i].s]
  /\ \A k \in Clients, s \in Sessions : heard[k][s] < next[s]
  /\ \A c \in Conns : resp[c].kind = "attached" =>
       \A i \in DOMAIN resp[c].replayed : resp[c].replayed[i] < next[resp[c].s]
FlowInv == FreshInv /\ LineInv /\ NumberInv /\ InOrder

LEMMA FreshStays ==
  ASSUME Types, NEW d \in Conns, moves'[d] = moves[d] \/ moves'[d] = moves[d] + 1,
         moves'[d] = moves[d] /\ Attaching(d)' => Attaching(d), Fresh(d)'
  PROVE  Fresh(d)
<1>1. moves[d] \in Nat BY DEF Types, TransportTypes
<1> QED BY <1>1 DEF Fresh

(* Steps that put no event anywhere and give none to a client. *)
LEMMA FlowStill ==
  ASSUME Types, FlowInv, UNCHANGED <<queue, conn, heard, next>>,
         \A s \in Sessions : wired'[s] \subseteq wired[s],
         \A d \in Conns :
           /\ moves'[d] = moves[d] \/ moves'[d] = moves[d] + 1
           /\ moves'[d] = moves[d] /\ Attaching(d)' => Attaching(d)
           /\ cpc'[d] = "unused" => cpc[d] = "unused"
           /\ resp'[d].kind = "attached" => resp'[d] = resp[d]
  PROVE  FlowInv'
<1> USE DEF FlowInv
<1>1. \A d \in Conns : Fresh(d)' => Fresh(d) BY FreshStays
<1>2. FreshInv' BY <1>1 DEF FreshInv
<1>3. LineInv'
  <2>1. \A k \in Clients : conn[k] \in Conns \cup {None} BY DEF Types, ClientTypes
  <2> QED BY <2>1 DEF LineInv, Open
<1>4. NumberInv' BY DEF NumberInv
<1>5. InOrder'
  <2> SUFFICES ASSUME NEW k \in Clients, NEW c \in Conns, conn[k] = c, moves'[c] <= 1
               PROVE  moves[c] <= 1
    BY DEF InOrder
  <2>1. moves[c] \in Nat BY DEF Types, TransportTypes
  <2> QED BY <2>1
<1> QED BY <1>2, <1>3, <1>4, <1>5

LEMMA FlowAnswered ==
  ASSUME Types, FlowInv, UNCHANGED <<queue, next>>,
         \A s \in Sessions : wired'[s] \subseteq wired[s],
         NEW c \in Conns, NEW r, Answered(c, r), cpc[c] = "idle",
         \/ r.kind \in {"ok", "refused", "evicted"} /\ moves' = moves
         \/ r.kind = "detached" /\ moves' = [moves EXCEPT ![c] = @ + 1]
  PROVE  FlowInv'
<1>1. /\ UNCHANGED <<conn, heard>>
      /\ \A d \in Conns : /\ resp'[d] = IF d = c THEN r ELSE resp[d]
                          /\ cpc'[d] = IF d = c THEN "sending" ELSE cpc[d]
  BY DEF Answered, client, Types, TransportTypes, RespInv
<1>2. ASSUME NEW d \in Conns
      PROVE  /\ moves'[d] = moves[d] \/ moves'[d] = moves[d] + 1
             /\ moves'[d] = moves[d] /\ Attaching(d)' => Attaching(d)
             /\ cpc'[d] = "unused" => cpc[d] = "unused"
             /\ resp'[d].kind = "attached" => resp'[d] = resp[d]
  <2>1. moves[d] \in Nat /\ moves \in [Conns -> Nat] BY DEF Types, TransportTypes
  <2>2. CASE d = c BY <1>1, <2>1, <2>2 DEF Attaching
  <2>3. CASE d # c BY <1>1, <2>1, <2>3 DEF Attaching
  <2> QED BY <2>2, <2>3
<1> QED BY <1>1, <1>2, FlowStill

LEMMA FlowEmit ==
  ASSUME Types, FlowInv, NEW s \in Sessions, Emit(s),
         UNCHANGED <<wired, conn, heard, moves>>,
         \A d \in Conns :
           /\ Attaching(d)' => Attaching(d)
           /\ cpc'[d] = "unused" => cpc[d] = "unused"
           /\ resp'[d].kind = "attached" => resp'[d] = resp[d]
  PROVE  FlowInv'
<1> USE DEF FlowInv
<1>1. /\ next[s] \in 1..MaxEvents
      /\ \A z \in Sessions : next'[z] = IF z = s THEN next[s] + 1 ELSE next[z]
      /\ \A c \in Conns : queue'[c] =
           IF c \in wired[s] /\ Open(c) THEN Append(queue[c], [s |-> s, id |-> next[s]])
           ELSE queue[c]
  BY EmitTypes
<1>2. \A z \in Sessions : next[z] \in Int /\ next'[z] \in Int /\ next[z] <= next'[z]
  BY <1>1 DEF Types, ServerTypes
<1>3. \A c \in Conns : queue[c] \in Seq(Events) BY DEF Types, TransportTypes
<1>4. \A c \in Conns : \A i \in DOMAIN queue[c] : queue[c][i].s \in Sessions /\ queue[c][i].id \in Int
  <2> SUFFICES ASSUME NEW c \in Conns, NEW i \in DOMAIN queue[c]
               PROVE  queue[c][i].s \in Sessions /\ queue[c][i].id \in Int
    OBVIOUS
  <2>1. i \in 1..Len(queue[c]) BY <1>3
  <2>2. queue[c][i] \in Events BY <1>3, <2>1, ElementOfSeq
  <2> QED BY <2>2 DEF Events
<1>5. \A d \in Conns : Fresh(d)' => Fresh(d) BY DEF Fresh
<1>6. FreshInv' BY <1>1, <1>5 DEF FreshInv
<1>7. LineInv'
  <2>1. \A k \in Clients : conn[k] \in Conns \cup {None} BY DEF Types, ClientTypes
  <2> QED BY <1>1, <2>1 DEF LineInv, Open
<1> PICK e : e = [s |-> s, id |-> next[s]] OBVIOUS
<1>8. e.s = s /\ e.id = next[s] OBVIOUS
(* What is on the line of c now: what was, and the new event at its end. *)
<1>9. ASSUME NEW c \in Conns
      PROVE  \E l \in Nat :
               /\ DOMAIN queue[c] = 1..l
               /\ \A i \in 1..l : queue'[c][i] = queue[c][i]
               /\ \/ DOMAIN queue'[c] = 1..l
                  \/ DOMAIN queue'[c] = 1..(l + 1) /\ queue'[c][l + 1] = e
  <2> PICK q : q = queue[c] OBVIOUS
  <2>1. q \in Seq(Events) BY <1>3
  <2>2. CASE queue'[c] = q BY <2>1, <2>2
  <2>3. CASE queue'[c] = Append(q, e) BY <2>1, <2>3
  <2> QED BY <1>1, <2>2, <2>3
<1>10. NumberInv'
  <2>1. ASSUME NEW c \in Conns, NEW i \in DOMAIN queue'[c]
        PROVE  queue'[c][i].id < next'[queue'[c][i].s]
    <3> PICK l \in Nat :
               /\ DOMAIN queue[c] = 1..l
               /\ \A j \in 1..l : queue'[c][j] = queue[c][j]
               /\ \/ DOMAIN queue'[c] = 1..l
                  \/ DOMAIN queue'[c] = 1..(l + 1) /\ queue'[c][l + 1] = e
      BY <1>9
    <3>1. CASE i \in 1..l
      <4>1. queue[c][i].id < next[queue[c][i].s] BY <3>1 DEF NumberInv
      <4> QED BY <1>2, <1>4, <3>1, <4>1
    <3>2. CASE i = l + 1 /\ i \notin 1..l BY <1>1, <1>8, <2>1, <3>2
    <3> QED BY <2>1, <3>1, <3>2
  <2>2. ASSUME NEW k \in Clients, NEW z \in Sessions PROVE heard[k][z] < next'[z]
    <3>1. heard[k][z] < next[z] /\ heard[k][z] \in Int
      BY DEF NumberInv, Types, ClientTypes
    <3> QED BY <1>2, <3>1
  <2>3. ASSUME NEW c \in Conns, resp'[c].kind = "attached", NEW i \in DOMAIN resp'[c].replayed
        PROVE  resp'[c].replayed[i] < next'[resp'[c].s]
    <3>1. resp'[c] = resp[c] BY <2>3
    <3>2. resp[c].replayed[i] < next[resp[c].s] BY <2>3, <3>1 DEF NumberInv
    <3>3. resp[c].s \in Sessions /\ resp[c].replayed \in Seq(1..MaxEvents)
      BY <2>3, <3>1 DEF Types, RespInv, Response
    <3>4. resp[c].replayed[i] \in 1..MaxEvents
      <4> PICK x : x = resp[c].replayed OBVIOUS
      <4>1. x \in Seq(1..MaxEvents) /\ i \in 1..Len(x) BY <2>3, <3>1, <3>3
      <4> QED BY <4>1, ElementOfSeq
    <3> QED BY <1>2, <3>1, <3>2, <3>3, <3>4
  <2> QED BY <2>1, <2>2, <2>3 DEF NumberInv
<1>11. InOrder'
  <2> SUFFICES ASSUME NEW k \in Clients, NEW c \in Conns, conn[k] = c, moves[c] <= 1,
                      NEW i \in DOMAIN queue'[c]
               PROVE  /\ queue'[c][i].id > heard[k][queue'[c][i].s]
                      /\ \A j \in 1..(i - 1) :
                           queue'[c][j].s = queue'[c][i].s => queue'[c][j].id < queue'[c][i].id
    BY DEF InOrder
  <2> PICK l \in Nat :
               /\ DOMAIN queue[c] = 1..l
               /\ \A j \in 1..l : queue'[c][j] = queue[c][j]
               /\ \/ DOMAIN queue'[c] = 1..l
                  \/ DOMAIN queue'[c] = 1..(l + 1) /\ queue'[c][l + 1] = e
    BY <1>9
  <2>1. CASE i \in 1..l
    <3>1. \A j \in 1..(i - 1) : j \in 1..l BY <2>1
    <3> QED BY <2>1, <3>1 DEF InOrder
  <2>2. CASE i = l + 1 /\ i \notin 1..l
    <3>1. queue'[c][i] = e /\ \A j \in 1..(i - 1) : j \in 1..l BY <2>2
    <3>2. heard[k][s] < next[s] /\ heard[k][s] \in Int /\ next[s] \in Int
      BY <1>1 DEF NumberInv, Types, ClientTypes
    <3>3. \A j \in 1..l : queue[c][j].s = s => queue[c][j].id < next[s]
      BY DEF NumberInv
    <3> QED BY <1>8, <3>1, <3>2, <3>3
  <2> QED BY <2>1, <2>2
<1> QED BY <1>6, <1>7, <1>10, <1>11

LEMMA FlowClient ==
  ASSUME Types, FlowInv, NEW k \in Clients, Connect(k) \/ ClientLeaves(k)
  PROVE  FlowInv'
<1> USE DEF FlowInv
<1>1. /\ conn \in [Clients -> Conns \cup {None}] /\ None \notin Conns
      /\ queue \in [Conns -> Seq(Events)]
      /\ cpc \in [Conns -> {"unused", "idle", "sending", "closed"}]
  BY ServerAssumption DEF Types, ClientTypes, TransportTypes
<1>2. CASE Connect(k)
  <2>1. PICK c \in Conns : /\ cpc[c] = "unused" /\ cpc' = [cpc EXCEPT ![c] = "idle"]
                           /\ conn' = [conn EXCEPT ![k] = c]
    BY <1>2 DEF Connect
  <2>2. /\ conn[k] = None
        /\ UNCHANGED <<wired, next, resp, queue, moves, heard>>
    BY <1>2 DEF Connect, server
  <2>3. /\ \A l \in Clients : conn'[l] = IF l = k THEN c ELSE conn[l]
        /\ \A d \in Conns : cpc'[d] = IF d = c THEN "idle" ELSE cpc[d]
    BY <1>1, <2>1
  <2>4. \A l \in Clients : conn[l] # c BY <1>1, <2>1 DEF LineInv
  <2>5. queue[c] = <<>> BY <2>4 DEF LineInv, Open
  <2>6. FreshInv' BY <2>2 DEF FreshInv, Fresh, Attaching
  <2>7. LineInv'
    <3>1. \A d \in Conns : Open(d) => Open(d)' BY <1>1, <2>2, <2>3 DEF Open
    <3>2. \A l \in Clients : conn'[l] # None => cpc'[conn'[l]] # "unused"
      BY <1>1, <2>3 DEF LineInv
    <3>3. \A l, m \in Clients : conn'[l] = conn'[m] /\ conn'[l] # None => l = m
      BY <1>1, <2>3, <2>4 DEF LineInv
    <3> QED BY <2>2, <3>1, <3>2, <3>3 DEF LineInv
  <2>8. NumberInv' BY <2>2 DEF NumberInv
  <2>9. InOrder' BY <2>2, <2>3, <2>5 DEF InOrder
  <2> QED BY <2>6, <2>7, <2>8, <2>9
<1>3. CASE ClientLeaves(k)
  <2>1. /\ conn[k] # None /\ conn' = [conn EXCEPT ![k] = None]
        /\ queue' = [queue EXCEPT ![conn[k]] = <<>>]
        /\ UNCHANGED <<wired, next, cpc, resp, moves, heard>>
    BY <1>3 DEF ClientLeaves, server
  <2>2. /\ \A l \in Clients : conn'[l] = IF l = k THEN None ELSE conn[l]
        /\ \A d \in Conns : queue'[d] = IF d = conn[k] THEN <<>> ELSE queue[d]
    BY <1>1, <2>1
  <2>3. FreshInv' BY <2>1, <2>2 DEF FreshInv, Fresh, Attaching
  <2>4. LineInv'
    <3>1. \A d \in Conns : Open(d) /\ d # conn[k] => Open(d)' BY <2>2 DEF Open
    <3> QED BY <2>1, <2>2, <3>1 DEF LineInv
  <2>5. NumberInv' BY <2>1, <2>2 DEF NumberInv
  <2>6. InOrder' BY <1>1, <2>1, <2>2 DEF InOrder
  <2> QED BY <2>3, <2>4, <2>5, <2>6
<1> QED BY <1>2, <1>3

LEMMA FlowDeliver ==
  ASSUME Types, FlowInv, NEW k \in Clients, NEW c \in Conns, Deliver(k, c)
  PROVE  FlowInv'
<1> USE DEF FlowInv
<1>1. /\ queue[c] # <<>> /\ queue' = [queue EXCEPT ![c] = Tail(@)] /\ conn[k] = c
      /\ heard' = [heard EXCEPT ![k][Head(queue[c]).s] = Head(queue[c]).id]
      /\ UNCHANGED <<wired, next, cpc, resp, moves, conn>>
  BY DEF Deliver, server
<1>2. /\ queue \in [Conns -> Seq(Events)] /\ heard \in [Clients -> [Sessions -> 0..MaxEvents]]
  BY DEF Types, TransportTypes, ClientTypes
<1> PICK q \in Seq(Events) : q = queue[c] BY <1>2
<1> PICK t : t = Tail(q) OBVIOUS
<1>3. q # <<>> BY <1>1
<1>4. /\ Len(t) = Len(q) - 1 /\ Len(q) \in Nat /\ Len(q) > 0 /\ t \in Seq(Events)
      /\ DOMAIN q = 1..Len(q) /\ DOMAIN t = 1..Len(t)
      /\ \A i \in 1..Len(t) : t[i] = q[i + 1]
      /\ Head(q) = q[1]
  BY <1>3
<1> PICK e : e = q[1] OBVIOUS
<1>5. e \in Events /\ e = Head(queue[c]) BY <1>4, ElementOfSeq
<1>6. e.s \in Sessions /\ e.id \in Int BY <1>5 DEF Events
<1>7. \A d \in Conns : queue'[d] = IF d = c THEN t ELSE queue[d] BY <1>1, <1>2
<1>8. \A l \in Clients : \A z \in Sessions :
        heard'[l][z] = IF l = k /\ z = e.s THEN e.id ELSE heard[l][z]
  BY <1>1, <1>2, <1>5, <1>6
<1>9. \A i \in 1..Len(t) : i + 1 \in DOMAIN q /\ i + 1 \in Nat /\ 1 \in 1..((i + 1) - 1) BY <1>4
<1>10. FreshInv' BY <1>1, <1>3, <1>7 DEF FreshInv, Fresh, Attaching
<1>11. LineInv' BY <1>1, <1>3, <1>7 DEF LineInv, Open
<1>12. NumberInv'
  <2>1. ASSUME NEW d \in Conns, NEW i \in DOMAIN queue'[d]
        PROVE  queue'[d][i].id < next[queue'[d][i].s]
    <3>1. CASE d = c
      <4>1. i \in 1..Len(t) /\ queue'[d][i] = q[i + 1] BY <1>4, <1>7, <2>1, <3>1
      <4> QED BY <1>9, <3>1, <4>1 DEF NumberInv
    <3>2. CASE d # c BY <1>7, <2>1, <3>2 DEF NumberInv
    <3> QED BY <3>1, <3>2
  <2>2. e.id < next[e.s]
    <3>1. 1 \in DOMAIN queue[c] BY <1>4
    <3> QED BY <3>1 DEF NumberInv
  <2>3. \A l \in Clients, z \in Sessions : heard'[l][z] < next[z]
    BY <1>8, <2>2 DEF NumberInv
  <2> QED BY <1>1, <2>1, <2>3 DEF NumberInv
<1>13. InOrder'
  <2> SUFFICES ASSUME NEW l \in Clients, NEW d \in Conns, conn[l] = d, moves[d] <= 1,
                      NEW i \in DOMAIN queue'[d]
               PROVE  /\ queue'[d][i].id > heard'[l][queue'[d][i].s]
                      /\ \A j \in 1..(i - 1) :
                           queue'[d][j].s = queue'[d][i].s => queue'[d][j].id < queue'[d][i].id
    BY <1>1 DEF InOrder
  <2>1. CASE d = c
    <3>1. i \in 1..Len(t) /\ queue'[d] = t /\ t[i] = q[i + 1] BY <1>4, <1>7, <2>1
    <3>2. q[i + 1] \in Events BY <1>4, <1>9, <3>1, ElementOfSeq
    <3>3. q[i + 1].s \in Sessions /\ q[i + 1].id \in Int BY <3>2 DEF Events
    <3>4. /\ q[i + 1].id > heard[l][q[i + 1].s]
          /\ \A j \in 1..((i + 1) - 1) : q[j].s = q[i + 1].s => q[j].id < q[i + 1].id
      BY <1>9, <2>1, <3>1 DEF InOrder
    <3>5. q[1].s = q[i + 1].s => q[1].id < q[i + 1].id BY <1>9, <3>1, <3>4
    <3>6. q[i + 1].id > heard'[l][q[i + 1].s] BY <1>6, <1>8, <3>3, <3>4, <3>5
    <3>7. ASSUME NEW j \in 1..(i - 1), t[j].s = t[i].s PROVE t[j].id < t[i].id
      <4>1. j \in 1..Len(t) /\ j + 1 \in 1..((i + 1) - 1) BY <1>4, <3>1, <3>7
      <4>2. t[j] = q[j + 1] BY <1>4, <4>1
      <4> QED BY <3>1, <3>4, <3>7, <4>1, <4>2
    <3> QED BY <3>1, <3>6, <3>7
  <2>2. CASE d # c
    <3>1. l # k /\ queue'[d] = queue[d] BY <1>1, <1>7, <2>2
    <3>2. i \in DOMAIN queue[d] BY <3>1
    <3>3. i \in 1..Len(queue[d]) /\ queue[d] \in Seq(Events) BY <1>2, <3>2
    <3>4. queue[d][i] \in Events BY <3>3, ElementOfSeq
    <3>5. queue[d][i].s \in Sessions BY <3>4 DEF Events
    <3>6. heard'[l][queue[d][i].s] = heard[l][queue[d][i].s] BY <1>8, <3>1, <3>5
    <3> QED BY <3>1, <3>2, <3>6 DEF InOrder
  <2> QED BY <2>1, <2>2
<1> QED BY <1>10, <1>11, <1>12, <1>13

LEMMA FlowAttach ==
  ASSUME Types, FlowInv, NEW k \in Clients, NEW c \in Conns, NEW s \in Sessions,
         NEW r \in Roles, Attach(k, c, s, r)
  PROVE  FlowInv'
<1> USE DEF FlowInv
<1> PICK x \in Seq(1..MaxEvents) :
      /\ \A i \in DOMAIN x : x[i] < next[s]
      /\ queue' = [queue EXCEPT ![c] = Requeued(c, s, x)]
      /\ Answered(c, [kind |-> "attached", s |-> s, after |-> cursor[k], replayed |-> x])
  BY AttachTypes
<1> PICK q : q = [kind |-> "attached", s |-> s, after |-> cursor[k], replayed |-> x] OBVIOUS
<1>1. /\ cpc[c] = "idle" /\ conn[k] = c /\ moves' = [moves EXCEPT ![c] = @ + 1]
      /\ UNCHANGED <<wired, next>>
  BY DEF Attach, Requests, Idle
<1>2. /\ q.kind = "attached" /\ q.s = s /\ q.replayed = x /\ UNCHANGED <<conn, heard>>
      /\ \A d \in Conns : /\ resp'[d] = IF d = c THEN q ELSE resp[d]
                          /\ cpc'[d] = IF d = c THEN "sending" ELSE cpc[d]
  BY DEF Answered, client, Types, TransportTypes, RespInv
<1>3. \A d \in Conns : moves[d] \in Nat /\ moves'[d] = IF d = c THEN moves[d] + 1 ELSE moves[d]
  BY <1>1, MovesTypes DEF Types, TransportTypes
<1>4. /\ \A d \in Conns : d # c => queue'[d] = queue[d]
      /\ queue'[c] = IF c \in wired[s] THEN queue[c] \o OnWire(s, x) ELSE queue[c]
  BY DEF Types, TransportTypes, Requeued
<1>5. moves[c] = 0 => Fresh(c) /\ queue'[c] = queue[c] BY <1>4 DEF FreshInv, Fresh
<1>6. FreshInv'
  <2> SUFFICES ASSUME NEW d \in Conns, Fresh(d)'
               PROVE  Fresh(d) /\ queue'[d] = queue[d]
    BY <1>1 DEF FreshInv
  <2>1. CASE d = c
    <3>1. moves[c] = 0 BY <1>3, <2>1 DEF Fresh
    <3> QED BY <1>5, <2>1, <3>1
  <2>2. CASE d # c BY <1>2, <1>3, <1>4, <2>2 DEF Fresh, Attaching
  <2> QED BY <2>1, <2>2
<1>7. LineInv'
  <2>1. \A l \in Clients : conn[l] \in Conns \cup {None} BY DEF Types, ClientTypes
  <2>2. Open(c) BY <1>1 DEF Open
  <2> QED BY <1>2, <1>4, <2>1, <2>2 DEF LineInv, Open
<1>8. NumberInv'
  <2>1. ASSUME NEW d \in Conns, NEW i \in DOMAIN queue'[d]
        PROVE  queue'[d][i].id < next[queue'[d][i].s]
    <3>1. CASE queue'[d] = queue[d] BY <2>1, <3>1 DEF NumberInv
    <3>2. CASE queue'[d] # queue[d]
      <4>1. d = c /\ queue'[d] = queue[c] \o OnWire(s, x) BY <1>4, <3>2
      <4> PICK a : a = queue[c] OBVIOUS
      <4> PICK b : b = OnWire(s, x) OBVIOUS
      <4>2. a \in Seq(Events) BY DEF Types, TransportTypes
      <4>3. /\ b = [j \in 1..Len(x) |-> [s |-> s, id |-> x[j]]] /\ Len(x) \in Nat
        BY DEF OnWire
      <4>4. \A j \in 1..Len(x) : x[j] \in 1..MaxEvents BY ElementOfSeq
      <4>5. \A j \in 1..Len(x) : b[j] \in Events /\ b[j].s = s /\ b[j].id = x[j]
        BY <4>3, <4>4 DEF Events
      <4>6. b \in Seq(Events) /\ Len(b) = Len(x) BY <4>3, <4>5
      <4>7. CASE i \in 1..Len(a)
        <5>1. queue'[d][i] = queue[c][i] /\ i \in DOMAIN queue[c]
          BY <4>1, <4>2, <4>6, <4>7
        <5> QED BY <5>1 DEF NumberInv
      <4>8. CASE i \notin 1..Len(a)
        <5>1. i - Len(a) \in 1..Len(x) /\ queue'[d][i] = b[i - Len(a)]
          BY <2>1, <4>1, <4>2, <4>6, <4>8
        <5>2. i - Len(a) \in DOMAIN x BY <5>1
        <5> QED BY <4>5, <5>1, <5>2
      <4> QED BY <4>7, <4>8
    <3> QED BY <3>1, <3>2
  <2>2. ASSUME NEW d \in Conns, resp'[d].kind = "attached", NEW i \in DOMAIN resp'[d].replayed
        PROVE  resp'[d].replayed[i] < next[resp'[d].s]
    <3>1. CASE d = c BY <1>2, <2>2, <3>1
    <3>2. CASE d # c BY <1>2, <2>2, <3>2 DEF NumberInv
    <3> QED BY <3>1, <3>2
  <2> QED BY <1>1, <1>2, <2>1, <2>2 DEF NumberInv
<1>9. InOrder'
  <2> SUFFICES ASSUME NEW l \in Clients, NEW d \in Conns, conn[l] = d, moves'[d] <= 1
               PROVE  moves[d] <= 1 /\ queue'[d] = queue[d]
    BY <1>2 DEF InOrder
  <2>1. CASE d = c
    <3>1. moves[c] = 0 BY <1>3, <2>1
    <3> QED BY <1>5, <2>1, <3>1
  <2>2. CASE d # c BY <1>3, <1>4, <2>2
  <2> QED BY <2>1, <2>2
<1> QED BY <1>6, <1>7, <1>8, <1>9

LEMMA FlowRespond ==
  ASSUME Types, FlowInv, MoveInv, NEW c \in Conns, Respond(c)
  PROVE  FlowInv'
<1> USE DEF FlowInv
<1>1. UNCHANGED <<next, queue, moves, conn>> /\ cpc[c] = "sending" BY DEF Respond
<1>2. /\ \A d \in Conns : /\ resp'[d] = IF d = c THEN NoResponse ELSE resp[d]
                          /\ cpc'[d] = IF d = c THEN "idle" ELSE cpc[d]
      /\ \A s \in Sessions : \A d \in Conns : d \in wired'[s] =>
           d \in wired[s] \/ (d = c /\ resp[c].kind = "attached" /\ resp[c].s = s)
  BY RespondTypes
<1>3. NoResponse.kind = "none" BY DEF NoResponse
<1>4. heard' = [k \in Clients |->
          IF resp[c].kind = "attached" /\ conn[k] = c /\ resp[c].replayed # <<>>
          THEN [heard[k] EXCEPT ![resp[c].s] = resp[c].replayed[Len(resp[c].replayed)]]
          ELSE heard[k]]
  BY DEF Respond
<1>5. FreshInv'
  <2> SUFFICES ASSUME NEW d \in Conns, Fresh(d)'
               PROVE  Fresh(d) /\ \A s \in Sessions : d \in wired'[s] => d \in wired[s]
    BY <1>1 DEF FreshInv
  <2>1. CASE d = c
    <3>1. moves[c] = 0 BY <1>1, <1>2, <1>3, <2>1 DEF Fresh, Attaching
    <3>2. resp[c].kind # "attached" BY <3>1 DEF MoveInv, Attaching
    <3> QED BY <1>2, <2>1, <3>1, <3>2 DEF Fresh
  <2>2. CASE d # c BY <1>1, <1>2, <2>2 DEF Fresh, Attaching
  <2> QED BY <2>1, <2>2
<1>6. LineInv'
  <2>1. \A l \in Clients : conn[l] \in Conns \cup {None} BY DEF Types, ClientTypes
  <2> QED BY <1>1, <1>2, <2>1 DEF LineInv, Open
<1>7. NumberInv'
  <2>1. ASSUME NEW k \in Clients, NEW s \in Sessions PROVE heard'[k][s] < next[s]
    <3>1. heard[k] \in [Sessions -> 0..MaxEvents] BY DEF Types, ClientTypes
    <3>2. CASE resp[c].kind = "attached" /\ conn[k] = c /\ resp[c].replayed # <<>>
      <4> PICK x : x = resp[c].replayed OBVIOUS
      <4>1. x \in Seq(1..MaxEvents) /\ x # <<>> BY <3>2 DEF Types, RespInv, Response
      <4>2. Len(x) \in DOMAIN x BY <4>1
      <4>3. x[Len(x)] < next[resp[c].s] BY <3>2, <4>2 DEF NumberInv
      <4>4. heard'[k] = [heard[k] EXCEPT ![resp[c].s] = x[Len(x)]] BY <1>4, <3>2
      <4>5. heard'[k][s] = IF s = resp[c].s THEN x[Len(x)] ELSE heard[k][s] BY <3>1, <4>4
      <4> QED BY <4>3, <4>5 DEF NumberInv
    <3>3. CASE ~(resp[c].kind = "attached" /\ conn[k] = c /\ resp[c].replayed # <<>>)
      BY <1>4, <3>3 DEF NumberInv
    <3> QED BY <3>2, <3>3
  <2>2. ASSUME NEW d \in Conns, resp'[d].kind = "attached"
        PROVE  resp'[d] = resp[d]
    BY <1>2, <1>3, <2>2
  <2> QED BY <1>1, <2>1, <2>2 DEF NumberInv
<1>8. InOrder'
  <2>1. ASSUME NEW l \in Clients, NEW d \in Conns, conn[l] = d, moves[d] <= 1
        PROVE  heard'[l] = heard[l] \/ queue[d] = <<>>
    <3>1. CASE d = c /\ resp[c].kind = "attached"
      <4>1. moves[c] \in Nat BY DEF Types, TransportTypes
      <4>2. Fresh(c) BY <2>1, <3>1, <4>1 DEF Fresh, Attaching
      <4> QED BY <3>1, <4>2 DEF FreshInv
    <3>2. CASE ~(d = c /\ resp[c].kind = "attached") BY <1>4, <2>1, <3>2
    <3> QED BY <3>1, <3>2
  <2> SUFFICES ASSUME NEW l \in Clients, NEW d \in Conns, conn[l] = d, moves[d] <= 1,
                      NEW i \in DOMAIN queue[d]
               PROVE  /\ queue[d][i].id > heard'[l][queue[d][i].s]
                      /\ \A j \in 1..(i - 1) :
                           queue[d][j].s = queue[d][i].s => queue[d][j].id < queue[d][i].id
    BY <1>1 DEF InOrder
  <2>2. queue[d] # <<>>
    <3>1. DOMAIN <<>> = {} OBVIOUS
    <3> QED BY <3>1
  <2>3. heard'[l] = heard[l] BY <2>1, <2>2
  <2> QED BY <2>3 DEF InOrder
<1> QED BY <1>5, <1>6, <1>7, <1>8

LEMMA FlowStep ==
  ASSUME Types, SlotsInv, FlowInv, [Next]_vars
  PROVE  FlowInv'
<1>1. ASSUME NEW k \in Clients, NEW c \in Conns, Create(k, c) PROVE FlowInv'
  <2>1. Answered(c, Ok) /\ cpc[c] = "idle" /\ UNCHANGED <<wired, next, queue, moves>>
    BY <1>1 DEF Create, Idle
  <2>2. Ok.kind = "ok" BY DEF Ok
  <2> QED BY <2>1, <2>2, FlowAnswered
<1>2. ASSUME NEW k \in Clients, NEW c \in Conns, NEW s \in Sessions, Close(k, c, s)
      PROVE  FlowInv'
  <2>1. Answered(c, Ok) /\ cpc[c] = "idle" /\ UNCHANGED <<wired, next, queue, moves>>
    BY <1>2 DEF Close, Requests, Idle
  <2>2. Ok.kind = "ok" BY DEF Ok
  <2> QED BY <2>1, <2>2, FlowAnswered
<1>3. ASSUME NEW k \in Clients, NEW c \in Conns, NEW s \in Sessions, Refuse(k, c, s)
      PROVE  FlowInv'
  <2> PICK q : q = [kind |-> "refused"] OBVIOUS
  <2>1. /\ Answered(c, q) /\ q.kind = "refused" /\ cpc[c] = "idle"
        /\ UNCHANGED <<wired, next, queue, moves>>
    BY <1>3 DEF Refuse, Idle, server
  <2> QED BY <2>1, FlowAnswered
<1>4. ASSUME NEW k \in Clients, NEW c \in Conns, NEW s \in Sessions, NEW r \in Roles,
             AttachEvicted(k, c, s, r)
      PROVE  FlowInv'
  <2> PICK q : q = [kind |-> "evicted", s |-> s, after |-> cursor[k]] OBVIOUS
  <2>1. /\ Answered(c, q) /\ q.kind = "evicted" /\ Detached(s, c) /\ cpc[c] = "idle"
        /\ UNCHANGED <<next, queue, moves>>
    BY <1>4 DEF AttachEvicted, Requests, Idle
  <2>2. \A z \in Sessions : wired'[z] \subseteq wired[z] BY <2>1, DetachedTypes
  <2> QED BY <2>1, <2>2, FlowAnswered
<1>5. ASSUME NEW k \in Clients, NEW c \in Conns, NEW s \in Sessions, Detach(k, c, s)
      PROVE  FlowInv'
  <2> PICK q : q = [kind |-> "detached", s |-> s] OBVIOUS
  <2>1. /\ Answered(c, q) /\ q.kind = "detached" /\ cpc[c] = "idle"
        /\ moves' = [moves EXCEPT ![c] = @ + 1] /\ UNCHANGED <<next, queue>>
    BY <1>5 DEF Detach, Requests, Idle
  <2>2. \A z \in Sessions : wired'[z] \subseteq wired[z]
    <3>1. CASE status[s] = "open" BY <1>5, <3>1, DetachedTypes DEF Detach
    <3>2. CASE status[s] # "open" BY <1>5, <3>2 DEF Detach
    <3> QED BY <3>1, <3>2
  <2> QED BY <2>1, <2>2, FlowAnswered
<1>6. ASSUME NEW k \in Clients, NEW c \in Conns, NEW s \in Sessions, Send(k, c, s)
      PROVE  FlowInv'
  <2>1. Emit(s) /\ Answered(c, Ok) /\ cpc[c] = "idle" /\ UNCHANGED <<wired, moves>>
    BY <1>6 DEF Send, Requests, Idle
  <2>2. Ok.kind = "ok" BY DEF Ok
  <2>3. /\ UNCHANGED <<conn, heard>>
        /\ \A d \in Conns : /\ resp'[d] = IF d = c THEN Ok ELSE resp[d]
                            /\ cpc'[d] = IF d = c THEN "sending" ELSE cpc[d]
    BY <2>1 DEF Answered, client, Types, TransportTypes, RespInv
  <2>4. \A d \in Conns : /\ Attaching(d)' => Attaching(d)
                         /\ cpc'[d] = "unused" => cpc[d] = "unused"
                         /\ resp'[d].kind = "attached" => resp'[d] = resp[d]
    BY <2>2, <2>3 DEF Attaching
  <2> QED BY <2>1, <2>3, <2>4, FlowEmit
<1>7. ASSUME NEW s \in Sessions, RuntimeEmits(s) PROVE FlowInv'
  <2>1. Emit(s) /\ UNCHANGED <<wired, moves, conn, heard, cpc, resp>>
    BY <1>7 DEF RuntimeEmits, client
  <2>2. \A d \in Conns : Attaching(d)' => Attaching(d) BY <2>1 DEF Attaching
  <2> QED BY <2>1, <2>2, FlowEmit
<1>8. ASSUME NEW c \in Conns, Drop(c) PROVE FlowInv'
  <2>1. /\ UNCHANGED <<queue, conn, heard, next, moves>> BY <1>8 DEF Drop, client
  <2>2. /\ cpc'[c] = "closed" /\ resp'[c] = NoResponse
        /\ \A d \in Conns : d # c => resp'[d] = resp[d] /\ cpc'[d] = cpc[d]
        /\ \A s \in Sessions : wired'[s] \subseteq wired[s]
    BY <1>8, DropTypes
  <2>3. NoResponse.kind = "none" BY DEF NoResponse
  <2>4. \A d \in Conns : /\ Attaching(d)' => Attaching(d)
                         /\ cpc'[d] = "unused" => cpc[d] = "unused"
                         /\ resp'[d].kind = "attached" => resp'[d] = resp[d]
    BY <2>2, <2>3 DEF Attaching
  <2> QED BY <2>1, <2>2, <2>4, FlowStill
<1>9. CASE UNCHANGED vars
  <2>1. UNCHANGED <<queue, conn, heard, next, moves, wired, cpc, resp>>
    BY <1>9 DEF vars, server, transport, client
  <2>2. \A d \in Conns : Attaching(d)' => Attaching(d) BY <2>1 DEF Attaching
  <2> QED BY <2>1, <2>2, FlowStill
<1> QED
  BY <1>1, <1>2, <1>3, <1>4, <1>5, <1>6, <1>7, <1>8, <1>9,
     FlowClient, FlowDeliver, FlowAttach, FlowRespond DEF Next, SlotsInv

LEMMA SlotsInit == Init => SlotsInv
BY ServerAssumption DEF Init, SlotsInv, MoveInv, HeldInv, UnbornInv, Attaching, NoResponse

(* The inductive invariant of the server, the transport and its clients. *)
THEOREM ServerInvariant == Spec => [](Types /\ SlotsInv /\ FlowInv)
<1>1. Init => FlowInv
  BY ServerAssumption
  DEF Init, FlowInv, FreshInv, LineInv, NumberInv, InOrder, NoResponse, Open
<1> QED BY <1>1, TypesInit, SlotsInit, TypesStep, SlotsStep, FlowStep, PTL DEF Spec

(* The writer task and the replay: a connection that attached once carries each
   event once and in order, and none its client was given before, through
   whatever connections and replays; for any sessions, clients and ring. *)
THEOREM EventsComeInOrder == Spec => []InOrder
<1>1. FlowInv => InOrder BY DEF FlowInv
<1> QED BY <1>1, ServerInvariant, PTL
=============================================================================
