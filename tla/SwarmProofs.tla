----------------------------- MODULE SwarmProofs -----------------------------
(***************************************************************************)
(* Proofs about Swarm, for any finite number of tool calls and any set of  *)
(* workers: by how much concurrent calls pass the limit on members, and    *)
(* that reports are delivered in order and once.                           *)
(***************************************************************************)
EXTENDS Swarm, FiniteSetTheorems, SequenceTheorems, TLAPS

Rising(s) == \A i, j \in DOMAIN s : i < j => s[i] < s[j]
UpTo(s, n) == \A i \in DOMAIN s : s[i] <= n
Before(s, t) == \A i \in DOMAIN s, j \in DOMAIN t : s[i] < t[j]

(* The reports a call has come before those in the file f; so did the lines it
   has read and is about to delete.  The reports of w go up to n[w]. *)
CallOK(r, f, n) ==
  /\ r.queue \subseteq r.crew /\ r.completed \subseteq r.crew
  /\ r.pc = "synthesize" => r.queue = {} /\ r.completed = {}
  /\ r.pc = "spawning" => r.cur \in Members /\ r.left > 0
  /\ r.pc \in {"read", "clear", "sleep"} => r.elapsed < Timeout
  /\ r.pc = "clear" =>
       /\ r.cur \in r.queue
       /\ Rising(r.read) /\ UpTo(r.read, n[r.cur]) /\ Before(r.got[r.cur], r.read)
  /\ \A w \in Members :
       Rising(r.got[w]) /\ UpTo(r.got[w], n[w]) /\ Before(r.got[w], f[w].lines)

(* The lines of a file are in order; a worker has it open only while it is there. *)
FileOK(w) ==
  /\ Rising(file[w].lines) /\ UpTo(file[w].lines, sent[w])
  /\ file[w].lines # <<>> \/ fd[w] = "open" => file[w].there
  /\ fd[w] # "none" => sent[w] < MaxReports

(* The members there are and those that are being spawned. *)
Spawning == {c \in Callers : call[c].pc = "spawning"}
SpawnInv ==
  /\ IsFiniteSet(members)
  /\ Cardinality(members) + Cardinality(Spawning) + 1 <= MaxMembers + Cardinality(Callers)

SwarmInv ==
  /\ TypeOK /\ SpawnInv
  /\ \A c \in Callers : CallOK(call[c], file, sent)
  /\ \A w \in Members : FileOK(w)
-----------------------------------------------------------------------------
LEMMA RisingConcat ==
  ASSUME NEW s \in Seq(Nat), NEW t \in Seq(Nat), Rising(s), Rising(t), Before(s, t)
  PROVE  s \o t \in Seq(Nat) /\ Rising(s \o t)
<1>1. /\ s \o t \in Seq(Nat) /\ Len(s \o t) = Len(s) + Len(t)
      /\ \A i \in 1..(Len(s) + Len(t)) :
           (s \o t)[i] = IF i <= Len(s) THEN s[i] ELSE t[i - Len(s)]
  BY ConcatProperties
<1>2. /\ Len(s) \in Nat /\ DOMAIN s = 1..Len(s) /\ Len(t) \in Nat /\ DOMAIN t = 1..Len(t)
      /\ DOMAIN (s \o t) = 1..(Len(s) + Len(t))
  BY <1>1
<1>3. ASSUME NEW i \in DOMAIN (s \o t), NEW j \in DOMAIN (s \o t), i < j
      PROVE  (s \o t)[i] < (s \o t)[j]
  <2> DEFINE u == s \o t
  <2>1. u[i] = (IF i <= Len(s) THEN s[i] ELSE t[i - Len(s)])
        /\ u[j] = (IF j <= Len(s) THEN s[j] ELSE t[j - Len(s)])
    BY <1>1, <1>2
  <2> HIDE DEF u
  <2>2. CASE j <= Len(s)
    <3>1. i \in DOMAIN s /\ j \in DOMAIN s /\ i <= Len(s) BY <1>2, <1>3, <2>2
    <3> QED BY <1>3, <2>1, <2>2, <3>1 DEF Rising, u
  <2>3. CASE i <= Len(s) /\ ~(j <= Len(s))
    <3>1. i \in DOMAIN s /\ j - Len(s) \in DOMAIN t BY <1>2, <2>3
    <3> QED BY <2>1, <2>3, <3>1 DEF Before, u
  <2>4. CASE ~(i <= Len(s))
    <3>1. i - Len(s) \in DOMAIN t /\ j - Len(s) \in DOMAIN t /\ i - Len(s) < j - Len(s)
          /\ ~(j <= Len(s))
      BY <1>2, <1>3, <2>4
    <3> QED BY <2>1, <2>4, <3>1 DEF Rising, u
  <2> QED BY <2>2, <2>3, <2>4
<1> QED BY <1>1, <1>3 DEF Rising

LEMMA UpToConcat ==
  ASSUME NEW s \in Seq(Nat), NEW t \in Seq(Nat), NEW n, UpTo(s, n), UpTo(t, n)
  PROVE  UpTo(s \o t, n)
<1>1. /\ s \o t \in Seq(Nat) /\ Len(s \o t) = Len(s) + Len(t)
      /\ \A i \in 1..(Len(s) + Len(t)) :
           (s \o t)[i] = IF i <= Len(s) THEN s[i] ELSE t[i - Len(s)]
  BY ConcatProperties
<1>2. /\ Len(s) \in Nat /\ DOMAIN s = 1..Len(s) /\ Len(t) \in Nat /\ DOMAIN t = 1..Len(t)
      /\ DOMAIN (s \o t) = 1..(Len(s) + Len(t))
  BY <1>1
<1>3. ASSUME NEW i \in DOMAIN (s \o t) PROVE (s \o t)[i] <= n
  <2>1. CASE i <= Len(s)
    <3>1. i \in DOMAIN s BY <1>2, <2>1
    <3>2. (s \o t)[i] = s[i] BY <1>1, <1>2, <2>1
    <3> QED BY <3>1, <3>2 DEF UpTo
  <2>2. CASE ~(i <= Len(s))
    <3>1. i - Len(s) \in DOMAIN t BY <1>2, <2>2
    <3>2. (s \o t)[i] = t[i - Len(s)] BY <1>1, <1>2, <2>2
    <3> QED BY <3>1, <3>2 DEF UpTo
  <2> QED BY <2>1, <2>2
<1> QED BY <1>3 DEF UpTo

(* The next report is later than all before. *)
LEMMA RisingAppend ==
  ASSUME NEW s \in Seq(Nat), NEW n \in Nat, Rising(s), UpTo(s, n)
  PROVE  /\ Append(s, n + 1) \in Seq(Nat) /\ Rising(Append(s, n + 1))
         /\ UpTo(Append(s, n + 1), n + 1) /\ Append(s, n + 1) # <<>>
         /\ \A g \in Seq(Nat) : UpTo(g, n) /\ Before(g, s) => Before(g, Append(s, n + 1))
<1> DEFINE t == Append(s, n + 1)
<1>1. /\ t \in Seq(Nat) /\ Len(t) = Len(s) + 1 /\ t[Len(s) + 1] = n + 1
      /\ \A i \in 1..Len(s) : t[i] = s[i]
  BY AppendProperties
<1>2. Len(s) \in Nat /\ DOMAIN s = 1..Len(s) /\ DOMAIN t = 1..(Len(s) + 1) BY <1>1
<1> HIDE DEF t
<1>3. \A i \in DOMAIN t : \/ i \in DOMAIN s /\ t[i] = s[i] /\ t[i] <= n /\ t[i] \in Nat
                          \/ i = Len(s) + 1 /\ t[i] = n + 1
  BY <1>1, <1>2 DEF UpTo
<1>4. Rising(t)
  <2> SUFFICES ASSUME NEW i \in DOMAIN t, NEW j \in DOMAIN t, i < j PROVE t[i] < t[j]
    BY DEF Rising
  <2>1. i \in DOMAIN s /\ t[i] = s[i] /\ t[i] <= n /\ t[i] \in Nat BY <1>2, <1>3
  <2>2. CASE j \in DOMAIN s /\ t[j] = s[j] BY <2>1, <2>2 DEF Rising
  <2>3. CASE t[j] = n + 1 BY <2>1, <2>3
  <2> QED BY <1>3, <2>2, <2>3
<1>5. UpTo(t, n + 1) BY <1>3 DEF UpTo
<1>6. t # <<>> BY <1>1, <1>2
<1>7. ASSUME NEW g \in Seq(Nat), UpTo(g, n), Before(g, s) PROVE Before(g, t)
  <2> SUFFICES ASSUME NEW i \in DOMAIN g, NEW j \in DOMAIN t PROVE g[i] < t[j]
    BY DEF Before
  <2>1. g[i] \in Nat /\ g[i] <= n BY <1>7 DEF UpTo
  <2>2. CASE j \in DOMAIN s /\ t[j] = s[j] BY <1>7, <2>2 DEF Before
  <2>3. CASE t[j] = n + 1 BY <2>1, <2>3
  <2> QED BY <1>3, <2>2, <2>3
<1> QED BY <1>1, <1>4, <1>5, <1>6, <1>7 DEF t
-----------------------------------------------------------------------------
Files == [Members -> [there : BOOLEAN, lines : Seq(Nat)]]

(* A file is left alone, deleted, or has the next report added. *)
MailStep ==
  /\ sent' \in [Members -> Nat] /\ file' \in Files
  /\ \A w \in Members :
       /\ sent[w] <= sent'[w]
       /\ \/ file'[w].lines = file[w].lines \/ file'[w].lines = <<>>
          \/ file'[w].lines = Append(file[w].lines, sent[w] + 1)

LEMMA UpToMonotonic ==
  ASSUME NEW s \in Seq(Nat), NEW m \in Nat, NEW n \in Nat, UpTo(s, m), m <= n
  PROVE  UpTo(s, n)
BY DEF UpTo

(* Whatever happens to the files, what a call has and has read stays in order. *)
LEMMA CallKept ==
  ASSUME TypeOK, \A w \in Members : FileOK(w), MailStep,
         NEW r \in Calls, CallOK(r, file, sent)
  PROVE  CallOK(r, file', sent')
<1>1. ASSUME NEW w \in Members
      PROVE  Rising(r.got[w]) /\ UpTo(r.got[w], sent'[w]) /\ Before(r.got[w], file'[w].lines)
  <2>1. /\ r.got[w] \in Seq(Nat) /\ file[w].lines \in Seq(Nat)
        /\ sent[w] \in Nat /\ sent'[w] \in Nat /\ sent[w] <= sent'[w]
    BY SwarmAssumption DEF Calls, TypeOK, MailStep
  <2>2. /\ Rising(r.got[w]) /\ UpTo(r.got[w], sent[w]) /\ Before(r.got[w], file[w].lines)
    BY DEF CallOK
  <2>3. UpTo(r.got[w], sent'[w]) BY <2>1, <2>2, UpToMonotonic
  <2>4. CASE file'[w].lines = file[w].lines BY <2>2, <2>3, <2>4
  <2>5. CASE file'[w].lines = <<>> BY <2>2, <2>3, <2>5 DEF Before
  <2>6. CASE file'[w].lines = Append(file[w].lines, sent[w] + 1)
    <3>1. Rising(file[w].lines) /\ UpTo(file[w].lines, sent[w]) BY DEF FileOK
    <3> QED BY <2>1, <2>2, <2>3, <2>6, <3>1, RisingAppend
  <2> QED BY <2>4, <2>5, <2>6 DEF MailStep
<1>2. ASSUME r.pc = "clear"
      PROVE  /\ r.cur \in r.queue
             /\ Rising(r.read) /\ UpTo(r.read, sent'[r.cur]) /\ Before(r.got[r.cur], r.read)
  <2>1. r.cur \in r.queue /\ Rising(r.read) /\ UpTo(r.read, sent[r.cur]) /\ Before(r.got[r.cur], r.read)
    BY <1>2 DEF CallOK
  <2>2. r.cur \in Members /\ r.read \in Seq(Nat) BY <2>1 DEF Calls
  <2>3. sent[r.cur] \in Nat /\ sent'[r.cur] \in Nat /\ sent[r.cur] <= sent'[r.cur]
    BY <2>2, SwarmAssumption DEF TypeOK, MailStep
  <2>4. UpTo(r.read, sent'[r.cur]) BY <2>1, <2>2, <2>3, UpToMonotonic
  <2> QED BY <2>1, <2>4
<1> QED BY <1>1, <1>2 DEF CallOK

(* One call changes, to r. *)
LEMMA CallChanged ==
  ASSUME TypeOK, \A c \in Callers : CallOK(call[c], file, sent),
         \A w \in Members : FileOK(w), MailStep,
         NEW c \in Callers, NEW r \in Calls, Set(c, r), CallOK(r, file', sent')
  PROVE  call' \in [Callers -> Calls] /\ \A d \in Callers : CallOK(call'[d], file', sent')
<1>1. call \in [Callers -> Calls] BY DEF TypeOK
<1>2. /\ call' \in [Callers -> Calls] /\ call'[c] = r
      /\ \A d \in Callers : d # c => call'[d] = call[d]
  BY <1>1 DEF Set
<1>3. \A d \in Callers : CallOK(call[d], file', sent') BY <1>1, CallKept
<1> QED BY <1>2, <1>3

(* The limit: members only go; or one more is being spawned, below the limit;
   or the one that was being spawned has come. *)
LEMMA SpawnKept ==
  ASSUME TypeOK, SpawnInv, members' \subseteq members, Spawning' \subseteq Spawning
  PROVE  SpawnInv'
<1>1. IsFiniteSet(Spawning) /\ IsFiniteSet(members)
  BY SwarmAssumption, FS_Subset DEF Spawning, SpawnInv
<1>2. /\ IsFiniteSet(members') /\ IsFiniteSet(Spawning')
      /\ Cardinality(members') <= Cardinality(members)
      /\ Cardinality(Spawning') <= Cardinality(Spawning)
  BY <1>1, FS_Subset
<1>3. PICK a \in Nat, b \in Nat, x \in Nat, y \in Nat, k \in Nat, l \in Nat :
        /\ a = Cardinality(members) /\ b = Cardinality(Spawning)
        /\ x = Cardinality(members') /\ y = Cardinality(Spawning')
        /\ k = MaxMembers /\ l = Cardinality(Callers)
  <2>1. MaxMembers \in Nat BY SwarmAssumption
  <2> QED BY <1>1, <1>2, <2>1, SwarmAssumption, FS_CardinalityType
<1>4. x <= a /\ y <= b /\ a + b + 1 <= k + l BY <1>2, <1>3, Zenon DEF SpawnInv
<1>5. x + y + 1 <= k + l BY <1>4
<1> QED BY <1>2, <1>3, <1>5, Zenon DEF SpawnInv

LEMMA SpawnBegins ==
  ASSUME TypeOK, SpawnInv, members' = members, Cardinality(members) < MaxMembers
  PROVE  SpawnInv'
<1>1. IsFiniteSet(members) BY DEF SpawnInv
<1>2. IsFiniteSet(Spawning') /\ Cardinality(Spawning') <= Cardinality(Callers)
  BY SwarmAssumption, FS_Subset DEF Spawning
<1>3. PICK a \in Nat, y \in Nat, k \in Nat, l \in Nat :
        /\ a = Cardinality(members) /\ y = Cardinality(Spawning')
        /\ k = MaxMembers /\ l = Cardinality(Callers)
  <2>1. MaxMembers \in Nat BY SwarmAssumption
  <2> QED BY <1>1, <1>2, <2>1, SwarmAssumption, FS_CardinalityType
<1>4. a < k /\ y <= l BY <1>2, <1>3, Zenon
<1>5. a + y + 1 <= k + l BY <1>4
<1> QED BY <1>1, <1>3, <1>5, Zenon DEF SpawnInv

LEMMA SpawnEnds ==
  ASSUME TypeOK, SpawnInv, NEW w \in Members, members' = members \cup {w},
         NEW c \in Callers, c \notin Spawning', Spawning = Spawning' \cup {c}
  PROVE  SpawnInv'
<1>1. IsFiniteSet(members) /\ IsFiniteSet(Spawning')
  BY SwarmAssumption, FS_Subset DEF Spawning, SpawnInv
<1>2. Cardinality(Spawning) = Cardinality(Spawning') + 1 BY <1>1, FS_AddElement
<1>3. IsFiniteSet(members') /\ (w \in members \/ Cardinality(members') = Cardinality(members) + 1)
      /\ (w \in members => members' = members)
  BY <1>1, FS_AddElement
<1>4. PICK a \in Nat, b \in Nat, x \in Nat, y \in Nat, k \in Nat, l \in Nat :
        /\ a = Cardinality(members) /\ b = Cardinality(Spawning)
        /\ x = Cardinality(members') /\ y = Cardinality(Spawning')
        /\ k = MaxMembers /\ l = Cardinality(Callers)
  <2>1. MaxMembers \in Nat BY SwarmAssumption
  <2>2. IsFiniteSet(Spawning) BY SwarmAssumption, FS_Subset DEF Spawning
  <2> QED BY <1>1, <1>3, <2>1, <2>2, SwarmAssumption, FS_CardinalityType
<1>5. b = y + 1 /\ (x = a \/ x = a + 1) /\ a + b + 1 <= k + l
  BY <1>2, <1>3, <1>4, Zenon DEF SpawnInv
<1>6. x + y + 1 <= k + l BY <1>5
<1> QED BY <1>3, <1>4, <1>6, Zenon DEF SpawnInv
-----------------------------------------------------------------------------
Procs == {"unborn", "spawning", "running", "dead"}

(* A step that leaves the mail alone. *)
LEMMA QuietStep ==
  ASSUME SwarmInv, NEW c \in Callers, NEW r \in Calls, Set(c, r), CallOK(r, file, sent),
         UNCHANGED <<stopper, mail>>, members' \subseteq Members,
         proc' \in [Members -> Procs], SpawnInv'
  PROVE  SwarmInv'
<1>0. TypeOK /\ (\A w \in Members : FileOK(w)) /\ \A d \in Callers : CallOK(call[d], file, sent)
  BY DEF SwarmInv
<1>1. UNCHANGED <<stopper, file, fd, sent>> BY DEF mail
<1>2. MailStep BY <1>0, <1>1, SwarmAssumption DEF TypeOK, MailStep, Files
<1>3. CallOK(r, file', sent') BY <1>1
<1>4. call' \in [Callers -> Calls] /\ \A d \in Callers : CallOK(call'[d], file', sent')
  BY <1>0, <1>2, <1>3, CallChanged
<1>5. \A w \in Members : FileOK(w)' BY <1>0, <1>1 DEF FileOK
<1>6. TypeOK'
  <2>1. \A d \in Callers : call'[d].queue \subseteq call'[d].crew /\ call'[d].completed \subseteq call'[d].crew
    BY <1>4 DEF CallOK
  <2> QED BY <1>0, <1>1, <1>4, <2>1 DEF TypeOK, Procs
<1> QED BY <1>4, <1>5, <1>6 DEF SwarmInv

LEMMA NotSpawning ==
  ASSUME TypeOK, NEW c \in Callers, NEW r, Set(c, r), r.pc # "spawning"
  PROVE  /\ c \notin Spawning' /\ Spawning' \subseteq Spawning
         /\ call[c].pc = "spawning" => Spawning = Spawning' \cup {c}
<1>1. /\ call'[c] = r /\ \A d \in Callers : d # c => call'[d] = call[d]
  BY DEF TypeOK, Set
<1> QED BY <1>1 DEF Spawning

(* A step of a call that touches nothing else. *)
LEMMA LonelyStep ==
  ASSUME SwarmInv, NEW c \in Callers, NEW r \in Calls, Set(c, r), CallOK(r, file, sent),
         UNCHANGED <<team, stopper, mail>>, r.pc # "spawning"
  PROVE  SwarmInv'
<1>1. TypeOK /\ SpawnInv BY DEF SwarmInv
<1>2. members' = members /\ proc' = proc BY DEF team
<1>3. SpawnInv' BY <1>1, <1>2, NotSpawning, SpawnKept
<1>4. members' \subseteq Members /\ proc' \in [Members -> Procs] BY <1>1, <1>2 DEF TypeOK, Procs
<1> QED BY <1>3, <1>4, QuietStep

LEMMA IdleOK == ASSUME TypeOK PROVE Idle \in Calls /\ CallOK(Idle, file, sent) /\ Idle.pc = "idle"
<1>1. Idle \in Calls /\ Idle.pc = "idle" BY SwarmAssumption DEF Idle, Calls
<1>2. \A w \in Members : Idle.got[w] = <<>> BY DEF Idle
<1>3. \A w \in Members : /\ Rising(Idle.got[w]) /\ UpTo(Idle.got[w], sent[w])
                         /\ Before(Idle.got[w], file[w].lines)
  BY <1>2 DEF Rising, UpTo, Before
<1>4. Idle.queue = {} /\ Idle.completed = {} BY DEF Idle
<1> QED BY <1>1, <1>3, <1>4 DEF CallOK

LEMMA EndStep ==
  ASSUME SwarmInv, NEW c \in Callers, End(c), UNCHANGED <<team, stopper, mail>>
  PROVE  SwarmInv'
<1>1. TypeOK /\ Set(c, Idle) BY DEF End, SwarmInv
<1>2. Idle \in Calls /\ CallOK(Idle, file, sent) /\ Idle.pc # "spawning" BY <1>1, IdleOK
<1> QED BY <1>1, <1>2, LonelyStep

(* The fields of a call that its reports depend on. *)
LEMMA SameReports ==
  ASSUME NEW f, NEW n, NEW q, CallOK(q, f, n), NEW r,
         r.got = q.got, r.queue \subseteq r.crew, r.completed \subseteq r.crew,
         r.pc = "synthesize" => r.queue = {} /\ r.completed = {},
         r.pc = "spawning" => r.cur \in Members /\ r.left > 0,
         r.pc \in {"read", "clear", "sleep"} => r.elapsed < Timeout,
         r.pc # "clear"
  PROVE  CallOK(r, f, n)
BY DEF CallOK

LEMMA RoundsOK ==
  ASSUME NEW q \in Calls, CallOK(q, file, sent)
  PROVE  Rounds(q) \in Calls /\ CallOK(Rounds(q), file, sent) /\ Rounds(q).pc # "spawning"
<1>0. q.completed \subseteq q.crew BY DEF CallOK
<1>1. CASE q.crew # q.completed /\ q.elapsed < Timeout
  <2> DEFINE r == [q EXCEPT !.queue = q.crew \ q.completed, !.pc = "read"]
  <2>1. Rounds(q) = r BY <1>1 DEF Rounds
  <2>2. r \in Calls BY DEF Calls, Pcs
  <2>3. /\ r.got = q.got /\ r.queue \subseteq r.crew /\ r.completed \subseteq r.crew
        /\ r.pc = "read" /\ r.elapsed < Timeout
    BY <1>0, <1>1 DEF Calls
  <2> HIDE DEF r
  <2>4. CallOK(r, file, sent) BY <2>3, SameReports
  <2> QED BY <2>1, <2>2, <2>3, <2>4
<1>2. CASE ~(q.crew # q.completed /\ q.elapsed < Timeout)
  <2> DEFINE r == [q EXCEPT !.pc = "aggregate"]
  <2>1. Rounds(q) = r BY <1>2 DEF Rounds
  <2>2. r \in Calls BY DEF Calls, Pcs
  <2>3. /\ r.got = q.got /\ r.queue \subseteq r.crew /\ r.completed \subseteq r.crew
        /\ r.pc = "aggregate"
    BY <1>0 DEF Calls, CallOK
  <2> HIDE DEF r
  <2>4. CallOK(r, file, sent) BY <2>3, SameReports
  <2> QED BY <2>1, <2>2, <2>3, <2>4
<1> QED BY <1>1, <1>2
-----------------------------------------------------------------------------
LEMMA StartStep ==
  ASSUME SwarmInv, NEW c \in Callers, Coordinate(c) \/ SwarmCreate(c)
  PROVE  SwarmInv'
<1>0. TypeOK BY DEF SwarmInv
<1>1. 1 \in 0..MaxMembers BY SwarmAssumption
<1>2. Idle \in Calls /\ CallOK(Idle, file, sent) BY <1>0, IdleOK
<1>3. Idle.queue = {} /\ Idle.completed = {} BY DEF Idle
<1>4. CASE Coordinate(c)
  <2> DEFINE r == [Idle EXCEPT !.op = "coordinate", !.pc = "synthesize"]
  <2>1. Set(c, r) /\ UNCHANGED <<team, stopper, mail>> BY <1>4 DEF Coordinate
  <2>2. r \in Calls /\ r.got = Idle.got /\ r.queue = Idle.queue /\ r.crew = Idle.crew
        /\ r.completed = Idle.completed /\ r.pc = "synthesize"
    BY <1>2 DEF Calls, Pcs
  <2> HIDE DEF r
  <2>3. CallOK(r, file, sent) BY <1>2, <1>3, <2>2, SameReports
  <2> QED BY <2>1, <2>2, <2>3, LonelyStep
<1>5. CASE SwarmCreate(c)
  <2> DEFINE r == [Idle EXCEPT !.op = "create", !.pc = "spawn", !.left = 1]
  <2>1. Set(c, r) /\ UNCHANGED <<team, stopper, mail>> BY <1>5 DEF SwarmCreate
  <2>2. r \in Calls /\ r.got = Idle.got /\ r.queue = Idle.queue /\ r.crew = Idle.crew
        /\ r.completed = Idle.completed /\ r.pc = "spawn"
    BY <1>1, <1>2 DEF Calls, Pcs
  <2> HIDE DEF r
  <2>3. CallOK(r, file, sent) BY <1>2, <1>3, <2>2, SameReports
  <2> QED BY <2>1, <2>2, <2>3, LonelyStep
<1> QED BY <1>4, <1>5

LEMMA SynthesizeStep ==
  ASSUME SwarmInv, NEW c \in Callers, Synthesize(c) PROVE SwarmInv'
<1>0. TypeOK /\ CallOK(call[c], file, sent) /\ call[c] \in Calls BY DEF SwarmInv, TypeOK
<1>1. /\ UNCHANGED <<team, stopper, mail>> /\ call[c].pc = "synthesize"
      /\ call[c].queue = {} /\ call[c].completed = {}
  BY <1>0 DEF Synthesize, At, CallOK
<1>2. CASE End(c) BY <1>1, <1>2, EndStep
<1>3. ASSUME Set(c, [call[c] EXCEPT !.pc = "decompose"]) PROVE SwarmInv'
  <2> DEFINE r == [call[c] EXCEPT !.pc = "decompose"]
  <2>1. Set(c, r) BY <1>3
  <2>2. /\ r \in Calls /\ r.got = call[c].got /\ r.queue = call[c].queue /\ r.crew = call[c].crew
        /\ r.completed = call[c].completed /\ r.pc = "decompose"
    BY <1>0 DEF Calls, Pcs
  <2> HIDE DEF r
  <2>3. CallOK(r, file, sent) BY <1>0, <1>1, <2>2, SameReports
  <2> QED BY <1>1, <2>1, <2>2, <2>3, LonelyStep
<1>4. ASSUME NEW crew \in SUBSET Members, Set(c, Rounds([call[c] EXCEPT !.crew = crew]))
      PROVE  SwarmInv'
  <2> DEFINE q == [call[c] EXCEPT !.crew = crew]
  <2>1. Set(c, Rounds(q)) BY <1>4
  <2>2. /\ q \in Calls /\ q.got = call[c].got /\ q.queue = {} /\ q.crew = crew
        /\ q.completed = {} /\ q.pc = "synthesize"
    BY <1>0, <1>1, <1>4 DEF Calls
  <2> HIDE DEF q
  <2>3. CallOK(q, file, sent) BY <1>0, <2>2, SameReports
  <2>4. Rounds(q) \in Calls /\ CallOK(Rounds(q), file, sent) /\ Rounds(q).pc # "spawning"
    BY <2>2, <2>3, RoundsOK
  <2> QED BY <1>1, <2>1, <2>4, LonelyStep
<1>5. CASE \E resume \in SUBSET Members :
             \E crew \in (IF resume \cap members # {} THEN {resume \cap members}
                          ELSE {{}} \cup {{m} : m \in members}) :
               Set(c, IF crew = {} THEN [call[c] EXCEPT !.pc = "decompose"]
                      ELSE Rounds([call[c] EXCEPT !.crew = crew]))
  <2>1. PICK resume \in SUBSET Members :
             \E crew \in (IF resume \cap members # {} THEN {resume \cap members}
                          ELSE {{}} \cup {{m} : m \in members}) :
               Set(c, IF crew = {} THEN [call[c] EXCEPT !.pc = "decompose"]
                      ELSE Rounds([call[c] EXCEPT !.crew = crew]))
    BY <1>5
  <2>2. PICK crew \in (IF resume \cap members # {} THEN {resume \cap members}
                       ELSE {{}} \cup {{m} : m \in members}) :
               Set(c, IF crew = {} THEN [call[c] EXCEPT !.pc = "decompose"]
                      ELSE Rounds([call[c] EXCEPT !.crew = crew]))
    BY <2>1
  <2>3. members \subseteq Members BY <1>0 DEF TypeOK
  <2>4. crew \in SUBSET Members BY <2>3
  <2>5. CASE crew = {} BY <1>3, <2>2, <2>5
  <2>6. CASE crew # {} BY <1>4, <2>2, <2>4, <2>6
  <2> QED BY <2>5, <2>6
<1> QED BY <1>2, <1>5 DEF Synthesize

LEMMA DecomposeStep ==
  ASSUME SwarmInv, NEW c \in Callers, Decompose(c) PROVE SwarmInv'
<1>0. TypeOK /\ CallOK(call[c], file, sent) /\ call[c] \in Calls BY DEF SwarmInv, TypeOK
<1>1. UNCHANGED <<team, stopper, mail>> BY DEF Decompose
<1>2. CASE End(c) BY <1>1, <1>2, EndStep
<1>3. ASSUME NEW n \in 0..MaxMembers, Set(c, [call[c] EXCEPT !.left = n, !.pc = "spawn"])
      PROVE  SwarmInv'
  <2> DEFINE r == [call[c] EXCEPT !.left = n, !.pc = "spawn"]
  <2>1. Set(c, r) BY <1>3
  <2>2. /\ r \in Calls /\ r.got = call[c].got /\ r.queue = call[c].queue /\ r.crew = call[c].crew
        /\ r.completed = call[c].completed /\ r.pc = "spawn"
    BY <1>0 DEF Calls, Pcs
  <2> HIDE DEF r
  <2>3. r.queue \subseteq r.crew /\ r.completed \subseteq r.crew BY <1>0, <2>2 DEF CallOK
  <2>4. CallOK(r, file, sent) BY <1>0, <2>2, <2>3, SameReports
  <2> QED BY <1>1, <2>1, <2>2, <2>4, LonelyStep
<1> QED BY <1>2, <1>3 DEF Decompose

LEMMA SpawnStep ==
  ASSUME SwarmInv, NEW c \in Callers, Spawn(c) PROVE SwarmInv'
<1>0. TypeOK /\ SpawnInv /\ CallOK(call[c], file, sent) /\ call[c] \in Calls
  BY DEF SwarmInv, TypeOK
<1>1. CASE AfterSpawning(c) /\ UNCHANGED team
  <2>1. UNCHANGED <<team, stopper, mail>> BY <1>1 DEF Spawn
  <2>2. CASE End(c) BY <2>1, <2>2, EndStep
  <2>3. CASE Set(c, Rounds([call[c] EXCEPT !.left = 0]))
    <3> DEFINE q == [call[c] EXCEPT !.left = 0]
    <3>1. 0 \in 0..MaxMembers BY SwarmAssumption
    <3>2. /\ q \in Calls /\ q.got = call[c].got /\ q.queue = call[c].queue /\ q.crew = call[c].crew
          /\ q.completed = call[c].completed /\ q.pc = "spawn"
      BY <1>0, <3>1 DEF Calls, Spawn, At
    <3>3. Set(c, Rounds(q)) BY <2>3
    <3> HIDE DEF q
    <3>4. q.queue \subseteq q.crew /\ q.completed \subseteq q.crew BY <1>0, <3>2 DEF CallOK
    <3>5. CallOK(q, file, sent) BY <1>0, <3>2, <3>4, SameReports
    <3>6. Rounds(q) \in Calls /\ CallOK(Rounds(q), file, sent) /\ Rounds(q).pc # "spawning"
      BY <3>2, <3>5, RoundsOK
    <3> QED BY <2>1, <3>3, <3>6, LonelyStep
  <2> QED BY <1>1, <2>2, <2>3 DEF AfterSpawning
<1>2. ASSUME ~LimitReached, call[c].left > 0, UNCHANGED members, UNCHANGED <<stopper, mail>>,
             NEW m \in Members, proc' = [proc EXCEPT ![m] = "spawning"],
             Set(c, [call[c] EXCEPT !.cur = m, !.pc = "spawning"])
      PROVE  SwarmInv'
  <2> DEFINE r == [call[c] EXCEPT !.cur = m, !.pc = "spawning"]
  <2>1. Set(c, r) BY <1>2
  <2>2. /\ r \in Calls /\ r.got = call[c].got /\ r.queue = call[c].queue /\ r.crew = call[c].crew
        /\ r.completed = call[c].completed /\ r.pc = "spawning" /\ r.cur = m /\ r.left = call[c].left
    BY <1>0 DEF Calls, Pcs
  <2> HIDE DEF r
  <2>3. r.queue \subseteq r.crew /\ r.completed \subseteq r.crew BY <1>0, <2>2 DEF CallOK
  <2>4. CallOK(r, file, sent) BY <1>0, <1>2, <2>2, <2>3, SameReports
  <2>5. SpawnInv'
    <3>1. Cardinality(members) \in Nat /\ MaxMembers \in Nat
      BY <1>0, SwarmAssumption, FS_CardinalityType DEF SpawnInv
    <3>2. Cardinality(members) < MaxMembers BY <1>2, <3>1 DEF LimitReached
    <3> QED BY <1>0, <1>2, <3>2, SpawnBegins
  <2>6. members' \subseteq Members /\ proc' \in [Members -> Procs] BY <1>0, <1>2 DEF TypeOK, Procs
  <2> QED BY <1>2, <2>1, <2>2, <2>4, <2>5, <2>6, QuietStep
<1> QED BY <1>1, <1>2 DEF Spawn

LEMMA SpawnedStep ==
  ASSUME SwarmInv, NEW c \in Callers, Spawned(c) PROVE SwarmInv'
<1>0. TypeOK /\ SpawnInv /\ CallOK(call[c], file, sent) /\ call[c] \in Calls
  BY DEF SwarmInv, TypeOK
<1>1. call[c].pc = "spawning" BY DEF Spawned, At
<1>2. call[c].cur \in Members /\ call[c].left > 0 BY <1>0, <1>1 DEF CallOK
<1>3. call[c].left - 1 \in 0..MaxMembers
  <2>1. call[c].left \in 0..MaxMembers /\ MaxMembers \in Nat BY <1>0, SwarmAssumption DEF Calls
  <2> QED BY <1>2, <2>1
<1> DEFINE m == call[c].cur
           r == [call[c] EXCEPT !.crew = @ \cup {m}, !.left = @ - 1, !.pc = "spawn",
                                !.cur = "none"]
<1>4. Set(c, r) /\ members' = members \cup {m} /\ UNCHANGED <<stopper, mail>> BY DEF Spawned
<1>5. /\ r \in Calls /\ r.got = call[c].got /\ r.queue = call[c].queue
      /\ r.crew = call[c].crew \cup {m} /\ r.completed = call[c].completed /\ r.pc = "spawn"
  BY <1>0, <1>2, <1>3 DEF Calls, Pcs
<1> HIDE DEF r
<1>6. r.queue \subseteq r.crew /\ r.completed \subseteq r.crew BY <1>0, <1>5 DEF CallOK
<1>7. CallOK(r, file, sent) BY <1>0, <1>5, <1>6, SameReports
<1>8. SpawnInv'
  <2>1. c \notin Spawning' /\ Spawning = Spawning' \cup {c} BY <1>0, <1>1, <1>4, <1>5, NotSpawning
  <2> QED BY <1>0, <1>2, <1>4, <2>1, SpawnEnds
<1>9. members' \subseteq Members /\ proc' \in [Members -> Procs]
  BY <1>0, <1>2, <1>4 DEF Spawned, TypeOK, Procs
<1> QED BY <1>4, <1>5, <1>7, <1>8, <1>9, QuietStep

LEMMA SpawnFailsStep ==
  ASSUME SwarmInv, NEW c \in Callers, SpawnFails(c) PROVE SwarmInv'
<1>0. TypeOK /\ SpawnInv BY DEF SwarmInv
<1>1. Set(c, Idle) /\ UNCHANGED <<members, stopper, mail>> BY DEF SpawnFails, End
<1>2. Idle \in Calls /\ CallOK(Idle, file, sent) /\ Idle.pc # "spawning" BY <1>0, IdleOK
<1>3. SpawnInv' BY <1>0, <1>1, <1>2, NotSpawning, SpawnKept
<1>4. members' \subseteq Members /\ proc' \in [Members -> Procs]
  BY <1>0, <1>1 DEF SpawnFails, TypeOK, Procs
<1> QED BY <1>1, <1>2, <1>3, <1>4, QuietStep

LEMMA ReadStep ==
  ASSUME SwarmInv, NEW c \in Callers, Read(c) PROVE SwarmInv'
<1>0. TypeOK /\ CallOK(call[c], file, sent) /\ call[c] \in Calls BY DEF SwarmInv, TypeOK
<1>1. PICK m \in call[c].queue :
        Set(c, [call[c] EXCEPT !.cur = m, !.read = file[m].lines, !.pc = "clear"])
  BY DEF Read
<1>2. m \in Members /\ file[m].lines \in Seq(Nat) BY <1>0, <1>1 DEF Calls, TypeOK
<1> DEFINE r == [call[c] EXCEPT !.cur = m, !.read = file[m].lines, !.pc = "clear"]
<1>3. Set(c, r) /\ UNCHANGED <<team, stopper, mail>> BY <1>1 DEF Read
<1>4. /\ r \in Calls /\ r.got = call[c].got /\ r.queue = call[c].queue /\ r.crew = call[c].crew
      /\ r.completed = call[c].completed /\ r.pc = "clear" /\ r.cur = m
      /\ r.read = file[m].lines /\ r.elapsed = call[c].elapsed
  BY <1>0, <1>2 DEF Calls, Pcs
<1> HIDE DEF r
<1>5. call[c].elapsed < Timeout BY <1>0 DEF CallOK, Read, At
<1>6. /\ Rising(r.read) /\ UpTo(r.read, sent[m]) /\ Before(r.got[m], r.read)
  BY <1>0, <1>2, <1>4 DEF SwarmInv, FileOK, CallOK
<1>7. /\ r.queue \subseteq r.crew /\ r.completed \subseteq r.crew
      /\ \A w \in Members : Rising(r.got[w]) /\ UpTo(r.got[w], sent[w]) /\ Before(r.got[w], file[w].lines)
  BY <1>0, <1>4 DEF CallOK
<1>8. CallOK(r, file, sent) BY <1>1, <1>4, <1>5, <1>6, <1>7 DEF CallOK
<1> QED BY <1>3, <1>4, <1>8, LonelyStep

LEMMA SleepStep ==
  ASSUME SwarmInv, NEW c \in Callers, Sleep(c) PROVE SwarmInv'
<1>0. TypeOK /\ CallOK(call[c], file, sent) /\ call[c] \in Calls BY DEF SwarmInv, TypeOK
<1>1. UNCHANGED <<team, stopper, mail>> /\ call[c].pc = "sleep" BY DEF Sleep, At
<1>2. CASE call[c].completed = call[c].crew
  <2>1. Set(c, Rounds(call[c])) BY <1>2 DEF Sleep
  <2> QED BY <1>0, <1>1, <2>1, RoundsOK, LonelyStep
<1>3. CASE call[c].completed # call[c].crew
  <2> DEFINE q == [call[c] EXCEPT !.elapsed = @ + 1]
  <2>1. Set(c, Rounds(q)) BY <1>3 DEF Sleep
  <2>2. call[c].elapsed + 1 \in 0..Timeout
    <3>1. call[c].elapsed \in 0..Timeout /\ Timeout \in Nat BY <1>0, SwarmAssumption DEF Calls
    <3>2. call[c].elapsed < Timeout BY <1>0, <1>1 DEF CallOK
    <3> QED BY <3>1, <3>2
  <2>3. q \in Calls BY <1>0, <2>2 DEF Calls
  <2> DEFINE p == [q EXCEPT !.pc = "aggregate"]
  <2>4. /\ p \in Calls /\ p.got = call[c].got /\ p.queue = call[c].queue /\ p.crew = call[c].crew
        /\ p.completed = call[c].completed /\ p.pc = "aggregate"
    BY <1>0, <2>3 DEF Calls, Pcs
  <2>5. Rounds(p) = Rounds(q) BY <1>0, <2>3 DEF Rounds, Calls
  <2> HIDE DEF p, q
  <2>6. p.queue \subseteq p.crew /\ p.completed \subseteq p.crew BY <1>0, <2>4 DEF CallOK
  <2>7. CallOK(p, file, sent) BY <1>0, <2>4, <2>6, SameReports
  <2>8. Rounds(q) \in Calls /\ CallOK(Rounds(q), file, sent) /\ Rounds(q).pc # "spawning"
    BY <2>4, <2>5, <2>7, RoundsOK
  <2> QED BY <1>1, <2>1, <2>8, LonelyStep
<1> QED BY <1>2, <1>3

(* What was read is handed on, and what is in the file by now is deleted. *)
LEMMA ClearStep ==
  ASSUME SwarmInv, NEW c \in Callers, Clear(c) PROVE SwarmInv'
<1>0. /\ TypeOK /\ SpawnInv /\ CallOK(call[c], file, sent) /\ call[c] \in Calls
      /\ \A d \in Callers : CallOK(call[d], file, sent)
      /\ \A w \in Members : FileOK(w)
  BY DEF SwarmInv, TypeOK
<1> DEFINE m == call[c].cur
           lines == call[c].read
           old == call[c].got[m]
           pc == IF call[c].queue = {m} THEN "sleep" ELSE "read"
           r == [call[c] EXCEPT
              !.got[m] = @ \o lines,
              !.completed = IF \E i \in DOMAIN lines : IsLast(lines[i])
                            THEN @ \cup {m} ELSE @,
              !.queue = @ \ {m}, !.read = <<>>, !.cur = "none",
              !.pc = IF call[c].queue = {m} THEN "sleep" ELSE "read"]
<1>1. /\ call[c].pc = "clear" /\ Set(c, r) /\ UNCHANGED <<team, stopper, sent>>
      /\ IF file[m].there THEN Unlink(m) ELSE UNCHANGED <<file, fd>>
  BY DEF Clear, At
<1>2. m \in call[c].queue /\ m \in Members /\ m \in call[c].crew /\ call[c].elapsed < Timeout
      /\ Rising(lines) /\ UpTo(lines, sent[m]) /\ Before(old, lines)
      /\ Rising(old) /\ UpTo(old, sent[m])
  BY <1>0, <1>1 DEF CallOK, Calls
<1>3. lines \in Seq(Nat) /\ old \in Seq(Nat) BY <1>0, <1>2 DEF Calls
<1>4. old \o lines \in Seq(Nat) /\ Rising(old \o lines) /\ UpTo(old \o lines, sent[m])
  BY <1>2, <1>3, RisingConcat, UpToConcat
<1>5. /\ file' \in Files /\ fd' \in [Members -> {"none", "open", "unlinked"}]
      /\ file'[m].lines = <<>> /\ (fd'[m] = "open" => file'[m].there)
      /\ (fd'[m] # "none" => fd[m] # "none")
      /\ \A w \in Members : w # m => file'[w] = file[w] /\ fd'[w] = fd[w]
  <2>1. file \in Files /\ fd \in [Members -> {"none", "open", "unlinked"}]
    BY <1>0 DEF TypeOK, Files
  <2>2. CASE file[m].there
    <3>1. file' = [file EXCEPT ![m] = NoFile]
          /\ fd' = [fd EXCEPT ![m] = IF @ = "open" THEN "unlinked" ELSE @]
      BY <1>1, <2>2 DEF Unlink
    <3>2. NoFile \in [there : BOOLEAN, lines : Seq(Nat)] /\ NoFile.lines = <<>> BY DEF NoFile
    <3> QED BY <1>2, <2>1, <3>1, <3>2 DEF Files
  <2>3. CASE ~file[m].there
    <3>1. file' = file /\ fd' = fd BY <1>1, <2>3
    <3>2. file[m].lines = <<>> /\ fd[m] # "open" BY <1>0, <1>2, <2>3 DEF FileOK
    <3> QED BY <2>1, <3>1, <3>2
  <2> QED BY <2>2, <2>3
<1>6. sent' = sent BY <1>1
<1>7. MailStep
  <2>1. sent \in [Members -> Nat] BY <1>0, SwarmAssumption DEF TypeOK
  <2>2. \A w \in Members : file'[w].lines = file[w].lines \/ file'[w].lines = <<>> BY <1>5
  <2>3. \A w \in Members : sent[w] <= sent'[w] BY <1>6, <2>1
  <2> QED BY <1>5, <1>6, <2>1, <2>2, <2>3 DEF MailStep
<1>8. \A w \in Members : FileOK(w)'
  <2> SUFFICES ASSUME NEW w \in Members PROVE FileOK(w)' OBVIOUS
  <2>1. CASE w = m
    <3>1. Rising(<<>>) /\ UpTo(<<>>, sent[w]) BY DEF Rising, UpTo
    <3>2. FileOK(w) BY <1>0
    <3> QED BY <1>5, <1>6, <2>1, <3>1, <3>2 DEF FileOK
  <2>2. CASE w # m
    <3>1. FileOK(w) BY <1>0
    <3> QED BY <1>5, <1>6, <2>2, <3>1 DEF FileOK
  <2> QED BY <2>1, <2>2
<1>9. /\ r.got = [call[c].got EXCEPT ![m] = old \o lines]
      /\ r.queue = call[c].queue \ {m} /\ r.crew = call[c].crew /\ r.pc = pc
      /\ r.elapsed = call[c].elapsed
      /\ r.completed = (IF \E i \in DOMAIN lines : IsLast(lines[i])
                        THEN call[c].completed \cup {m} ELSE call[c].completed)
      /\ r.op = call[c].op /\ r.left = call[c].left /\ r.read = <<>> /\ r.cur = "none"
  BY <1>0 DEF Calls
<1>10. r \in Calls
  <2>1. [call[c].got EXCEPT ![m] = old \o lines] \in [Members -> Seq(Nat)]
    BY <1>0, <1>4 DEF Calls
  <2> DEFINE g == [call[c].got EXCEPT ![m] = old \o lines]
             d == IF \E i \in DOMAIN lines : IsLast(lines[i])
                  THEN call[c].completed \cup {m} ELSE call[c].completed
             q == call[c].queue \ {m}
  <2>2. pc \in Pcs BY DEF Pcs
  <2>3. d \subseteq Members /\ q \subseteq Members BY <1>0, <1>2 DEF Calls
  <2>4. r = [call[c] EXCEPT !.got = g, !.completed = d, !.queue = q, !.read = <<>>,
                            !.cur = "none", !.pc = pc]
    BY <1>0 DEF Calls
  <2>5. g \in [Members -> Seq(Nat)] /\ <<>> \in Seq(Nat) BY <2>1
  <2> HIDE DEF g, d, q, pc, r
  <2> QED BY <1>0, <2>2, <2>3, <2>4, <2>5 DEF Calls
<1>11. CallOK(call[c], file', sent') BY <1>0, <1>7, CallKept
<1> HIDE DEF r
<1>12. ASSUME NEW w \in Members
       PROVE  Rising(r.got[w]) /\ UpTo(r.got[w], sent'[w]) /\ Before(r.got[w], file'[w].lines)
  <2>0. call[c].got \in [Members -> Seq(Nat)] BY <1>0 DEF Calls
  <2>1. CASE w = m
    <3>1. r.got[w] = old \o lines BY <1>9, <2>0, <2>1
    <3>2. Before(old \o lines, <<>>) BY DEF Before
    <3> QED BY <1>4, <1>5, <1>6, <2>1, <3>1, <3>2
  <2>2. CASE w # m
    <3>1. r.got[w] = call[c].got[w] BY <1>9, <2>0, <2>2
    <3> QED BY <1>11, <3>1 DEF CallOK
  <2> QED BY <2>1, <2>2
<1>13. r.queue \subseteq r.crew /\ r.completed \subseteq r.crew
  BY <1>0, <1>2, <1>9 DEF CallOK
<1>14. CallOK(r, file', sent')
  BY <1>2, <1>9, <1>12, <1>13 DEF CallOK
<1>15. call' \in [Callers -> Calls] /\ \A d \in Callers : CallOK(call'[d], file', sent')
  BY <1>0, <1>1, <1>7, <1>10, <1>14, CallChanged
<1>16. r.pc # "spawning" BY <1>9
<1>17. members' = members /\ proc' = proc /\ stopper' = stopper BY <1>1 DEF team
<1>18. SpawnInv' BY <1>0, <1>1, <1>16, <1>17, NotSpawning, SpawnKept
<1>19. TypeOK'
  <2>1. \A d \in Callers : call'[d].queue \subseteq call'[d].crew /\ call'[d].completed \subseteq call'[d].crew
    BY <1>15 DEF CallOK
  <2>2. \A w \in Members : file'[w].lines # <<>> => file'[w].there BY <1>8 DEF FileOK
  <2> QED BY <1>0, <1>5, <1>6, <1>15, <1>17, <2>1, <2>2 DEF TypeOK, Files
<1> QED BY <1>8, <1>15, <1>18, <1>19 DEF SwarmInv

(* A step of a worker or of the one who stops them. *)
LEMMA MailSteps ==
  ASSUME SwarmInv, call' = call, members' \subseteq members, MailStep,
         \A w \in Members : FileOK(w)', proc' \in [Members -> Procs],
         stopper' \in [op : {"none", "stop", "stop_all"}, left : SUBSET Members],
         fd' \in [Members -> {"none", "open", "unlinked"}], sent' \in [Members -> 0..MaxReports]
  PROVE  SwarmInv'
<1>0. /\ TypeOK /\ SpawnInv /\ \A d \in Callers : CallOK(call[d], file, sent)
      /\ \A w \in Members : FileOK(w)
  BY DEF SwarmInv
<1>1. call \in [Callers -> Calls] BY <1>0 DEF TypeOK
<1>2. \A d \in Callers : CallOK(call'[d], file', sent') BY <1>0, <1>1, CallKept
<1>3. Spawning' = Spawning BY DEF Spawning
<1>4. SpawnInv' BY <1>0, <1>3, SpawnKept
<1>5. TypeOK'
  <2>1. \A w \in Members : file'[w].lines # <<>> => file'[w].there BY DEF FileOK
  <2> QED BY <1>0, <2>1 DEF TypeOK, Procs, MailStep, Files
<1> QED BY <1>2, <1>4, <1>5 DEF SwarmInv

(* The mail is left alone, but for descriptors that are closed. *)
LEMMA ClosedStep ==
  ASSUME SwarmInv, call' = call, members' \subseteq members, UNCHANGED <<file, sent>>,
         proc' \in [Members -> Procs],
         stopper' \in [op : {"none", "stop", "stop_all"}, left : SUBSET Members],
         fd' \in [Members -> {"none", "open", "unlinked"}],
         \A w \in Members : fd'[w] = fd[w] \/ fd'[w] = "none"
  PROVE  SwarmInv'
<1>0. TypeOK /\ \A w \in Members : FileOK(w) BY DEF SwarmInv
<1>1. file \in Files /\ sent \in [Members -> 0..MaxReports] /\ MaxReports \in Nat
  BY <1>0, SwarmAssumption DEF TypeOK, Files
<1>2. MailStep BY <1>1 DEF MailStep
<1>3. \A w \in Members : FileOK(w)' BY <1>0 DEF FileOK
<1> QED BY <1>1, <1>2, <1>3, MailSteps

LEMMA OpenStep ==
  ASSUME SwarmInv, NEW m \in Members, Open(m) PROVE SwarmInv'
<1>0. TypeOK /\ \A w \in Members : FileOK(w) BY DEF SwarmInv
<1>1. /\ file \in Files /\ sent \in [Members -> 0..MaxReports] /\ MaxReports \in Nat
      /\ fd \in [Members -> {"none", "open", "unlinked"}]
  BY <1>0, SwarmAssumption DEF TypeOK, Files
<1>2. /\ UNCHANGED <<members, proc, call, stopper, sent>>
      /\ fd' = [fd EXCEPT ![m] = "open"] /\ file' = [file EXCEPT ![m].there = TRUE]
      /\ sent[m] < MaxReports
  BY DEF Open, team
<1>3. /\ file' \in Files /\ file'[m].there = TRUE
      /\ \A w \in Members : file'[w].lines = file[w].lines /\ (w # m => file'[w] = file[w])
  BY <1>1, <1>2 DEF Files
<1>4. MailStep BY <1>1, <1>2, <1>3 DEF MailStep
<1>5. \A w \in Members : FileOK(w)' BY <1>0, <1>1, <1>2, <1>3 DEF FileOK
<1>6. fd' \in [Members -> {"none", "open", "unlinked"}] BY <1>1, <1>2
<1> QED BY <1>0, <1>1, <1>2, <1>4, <1>5, <1>6, MailSteps DEF TypeOK, Procs

LEMMA WriteStep ==
  ASSUME SwarmInv, NEW m \in Members, Write(m) PROVE SwarmInv'
<1>0. TypeOK /\ \A w \in Members : FileOK(w) BY DEF SwarmInv
<1>1. /\ file \in Files /\ sent \in [Members -> 0..MaxReports] /\ MaxReports \in Nat
      /\ fd \in [Members -> {"none", "open", "unlinked"}] /\ sent \in [Members -> Nat]
  BY <1>0, SwarmAssumption DEF TypeOK, Files
<1>2. /\ UNCHANGED <<members, proc, call, stopper>>
      /\ fd' = [fd EXCEPT ![m] = "none"] /\ sent' = [sent EXCEPT ![m] = @ + 1]
      /\ file' = IF fd[m] = "open" THEN [file EXCEPT ![m].lines = Append(@, sent[m] + 1)]
                 ELSE file
  BY DEF Write, team
<1>3. /\ Append(file[m].lines, sent[m] + 1) \in Seq(Nat)
      /\ Rising(Append(file[m].lines, sent[m] + 1))
      /\ UpTo(Append(file[m].lines, sent[m] + 1), sent[m] + 1)
  <2>1. Rising(file[m].lines) /\ UpTo(file[m].lines, sent[m]) BY <1>0 DEF FileOK
  <2>2. file[m].lines \in Seq(Nat) /\ sent[m] \in Nat BY <1>1 DEF Files
  <2> QED BY <2>1, <2>2, RisingAppend
<1>4. /\ sent' \in [Members -> 0..MaxReports] /\ sent'[m] = sent[m] + 1
      /\ \A w \in Members : w # m => sent'[w] = sent[w]
  <2>1. sent[m] < MaxReports BY <1>0 DEF FileOK, Write
  <2>2. sent[m] + 1 \in 0..MaxReports BY <1>1, <2>1
  <2> QED BY <1>1, <1>2, <2>2
<1>5. /\ file' \in Files /\ \A w \in Members : w # m => file'[w] = file[w]
      /\ \/ file'[m] = file[m]
         \/ /\ fd[m] = "open" /\ file'[m].there = file[m].there
            /\ file'[m].lines = Append(file[m].lines, sent[m] + 1)
  BY <1>1, <1>2, <1>3 DEF Files
<1>6. MailStep
  <2>1. \A w \in Members : sent[w] \in Nat /\ sent[w] <= sent[w] + 1 /\ sent[w] <= sent[w]
    BY <1>1
  <2>2. sent' \in [Members -> Nat] BY <1>1, <1>4
  <2> QED BY <1>4, <1>5, <2>1, <2>2 DEF MailStep
<1>7. \A w \in Members : FileOK(w)'
  <2> SUFFICES ASSUME NEW w \in Members PROVE FileOK(w)' OBVIOUS
  <2>0. FileOK(w) BY <1>0
  <2>1. CASE w # m BY <1>1, <1>2, <1>4, <1>5, <2>0, <2>1 DEF FileOK
  <2>2. CASE w = m
    <3>1. Rising(file'[m].lines) BY <1>3, <1>5, <2>0, <2>2 DEF FileOK
    <3>2. UpTo(file'[m].lines, sent'[m])
      <4>1. file[m].lines \in Seq(Nat) /\ sent[m] \in Nat /\ UpTo(file[m].lines, sent[m])
        BY <1>1, <2>0, <2>2 DEF Files, FileOK
      <4>2. UpTo(file[m].lines, sent[m] + 1) BY <4>1, UpToMonotonic
      <4> QED BY <1>3, <1>4, <1>5, <4>2
    <3>3. file'[m].lines # <<>> => file'[m].there BY <1>5, <2>0, <2>2 DEF FileOK
    <3>4. fd'[m] = "none" BY <1>1, <1>2
    <3> QED BY <2>2, <3>1, <3>2, <3>3, <3>4 DEF FileOK
  <2> QED BY <2>1, <2>2
<1>8. fd' \in [Members -> {"none", "open", "unlinked"}] BY <1>1, <1>2
<1> QED BY <1>0, <1>2, <1>4, <1>6, <1>7, <1>8, MailSteps DEF TypeOK, Procs

LEMMA StopStep ==
  ASSUME SwarmInv, StopMember \/ StopAll \/ StopNext \/ Stopped PROVE SwarmInv'
<1>0. /\ members \subseteq Members /\ proc \in [Members -> Procs]
      /\ stopper \in [op : {"none", "stop", "stop_all"}, left : SUBSET Members]
      /\ fd \in [Members -> {"none", "open", "unlinked"}]
  BY DEF SwarmInv, TypeOK, Procs
<1>1. ASSUME NEW m \in Members, Kill(m)
      PROVE  /\ proc' \in [Members -> Procs] /\ fd' \in [Members -> {"none", "open", "unlinked"}]
             /\ \A w \in Members : fd'[w] = fd[w] \/ fd'[w] = "none"
  BY <1>0, <1>1 DEF Kill, Procs
<1>2. CASE StopMember
  <2>1. PICK m \in members : stopper' = [op |-> "stop", left |-> {m}] /\ Kill(m)
    BY <1>2 DEF StopMember
  <2>2. UNCHANGED <<members, call, file, sent>> BY <1>2 DEF StopMember
  <2>3. stopper' \in [op : {"none", "stop", "stop_all"}, left : SUBSET Members] BY <1>0, <2>1
  <2> QED BY <1>0, <1>1, <2>1, <2>2, <2>3, ClosedStep
<1>3. CASE StopAll
  <2>1. UNCHANGED <<members, proc, call, file, fd, sent>> BY <1>3 DEF StopAll, team, mail
  <2>2. stopper' \in [op : {"none", "stop", "stop_all"}, left : SUBSET Members]
    BY <1>3 DEF StopAll
  <2> QED BY <1>0, <2>1, <2>2, ClosedStep
<1>4. CASE StopNext
  <2>1. PICK m \in stopper.left : Kill(m) /\ stopper' = [stopper EXCEPT !.left = @ \ {m}]
    BY <1>4 DEF StopNext
  <2>2. UNCHANGED <<members, call, file, sent>> BY <1>4 DEF StopNext
  <2>3. stopper' \in [op : {"none", "stop", "stop_all"}, left : SUBSET Members] BY <1>0, <2>1
  <2> QED BY <1>0, <1>1, <2>1, <2>2, <2>3, ClosedStep
<1>5. CASE Stopped
  <2>1. UNCHANGED <<proc, call, file, fd, sent>> /\ members' \subseteq members
    BY <1>5 DEF Stopped, mail
  <2>2. stopper' \in [op : {"none", "stop", "stop_all"}, left : SUBSET Members]
    BY <1>5 DEF Stopped
  <2> QED BY <1>0, <2>1, <2>2, ClosedStep
<1> QED BY <1>2, <1>3, <1>4, <1>5

LEMMA SwarmInit == ASSUME Init PROVE SwarmInv
<1>0. MaxMembers \in Nat /\ MaxMembers > 0 /\ MaxReports \in Nat BY SwarmAssumption
<1>1. TypeOK
  <2>1. Idle \in Calls /\ Idle.queue \subseteq Idle.crew /\ Idle.completed \subseteq Idle.crew
    BY SwarmAssumption DEF Idle, Calls
  <2>2. call = [c \in Callers |-> Idle] BY DEF Init
  <2>3. NoFile \in [there : BOOLEAN, lines : Seq(Nat)] /\ NoFile.lines = <<>> BY DEF NoFile
  <2> HIDE DEF Idle, NoFile
  <2>4. file \in [Members -> [there : BOOLEAN, lines : Seq(Nat)]]
        /\ \A m \in Members : file[m].lines # <<>> => file[m].there
    BY <2>3 DEF Init
  <2>5. sent \in [Members -> 0..MaxReports] BY <1>0 DEF Init
  <2> QED BY <2>1, <2>2, <2>4, <2>5 DEF Init, TypeOK
<1>2. SpawnInv
  <2>1. Spawning = {}
    <3>1. Idle.pc = "idle" BY DEF Idle
    <3>2. \A c \in Callers : call[c] = Idle BY DEF Init
    <3> QED BY <3>1, <3>2 DEF Spawning
  <2>2. Cardinality(members) = 0 /\ Cardinality(Spawning) = 0 /\ IsFiniteSet(members)
    BY <2>1, FS_EmptySet DEF Init
  <2>3. Cardinality(Callers) \in Nat BY SwarmAssumption, FS_CardinalityType
  <2> QED BY <1>0, <2>2, <2>3 DEF SpawnInv
<1>3. \A c \in Callers : CallOK(call[c], file, sent)
  <2>1. \A c \in Callers : call[c] = Idle BY DEF Init
  <2> QED BY <1>1, <2>1, IdleOK
<1>4. \A w \in Members : FileOK(w)
  BY DEF Init, FileOK, NoFile, Rising, UpTo
<1> QED BY <1>1, <1>2, <1>3, <1>4 DEF SwarmInv

LEMMA SwarmStep == ASSUME SwarmInv, [Next]_vars PROVE SwarmInv'
<1>1. CASE UNCHANGED vars
  <2>1. UNCHANGED <<members, proc, call, stopper, file, fd, sent>> BY <1>1 DEF vars
  <2>2. /\ proc \in [Members -> Procs] /\ fd \in [Members -> {"none", "open", "unlinked"}]
        /\ stopper \in [op : {"none", "stop", "stop_all"}, left : SUBSET Members]
    BY DEF SwarmInv, TypeOK, Procs
  <2> QED BY <2>1, <2>2, ClosedStep
<1>2. ASSUME NEW c \in Callers, Coordinate(c) \/ SwarmCreate(c) \/ Work(c) PROVE SwarmInv'
  <2>1. CASE Aggregate(c) BY <2>1, EndStep DEF Aggregate
  <2> QED BY <1>2, <2>1, StartStep, SynthesizeStep, DecomposeStep, SpawnStep, SpawnedStep,
             SpawnFailsStep, ReadStep, ClearStep, SleepStep DEF Work
<1>3. ASSUME NEW m \in Talkers, Open(m) \/ Write(m) \/ Die(m) PROVE SwarmInv'
  <2>0. m \in Members BY SwarmAssumption
  <2>1. CASE Open(m) \/ Write(m) BY <2>0, <2>1, OpenStep, WriteStep
  <2>2. CASE Die(m)
    <3>1. /\ proc \in [Members -> Procs] /\ fd \in [Members -> {"none", "open", "unlinked"}]
          /\ stopper \in [op : {"none", "stop", "stop_all"}, left : SUBSET Members]
      BY DEF SwarmInv, TypeOK, Procs
    <3>2. UNCHANGED <<members, call, stopper, file, sent>> BY <2>2 DEF Die
    <3>3. proc' \in [Members -> Procs] /\ fd' \in [Members -> {"none", "open", "unlinked"}]
          /\ \A w \in Members : fd'[w] = fd[w] \/ fd'[w] = "none"
      BY <3>1, <2>2 DEF Die, Procs
    <3> QED BY <3>1, <3>2, <3>3, ClosedStep
  <2> QED BY <1>3, <2>1, <2>2
<1> QED BY <1>1, <1>2, <1>3, StopStep DEF Next
-----------------------------------------------------------------------------
(* The invariant of the team and of its mail is inductive. *)
THEOREM SwarmInvariant == Spec => []SwarmInv
BY SwarmInit, SwarmStep, PTL DEF Spec

(* The types of the manager's, the coordinators' and the mailbox's state: no
   poll runs past the timeout (_wait_for_completion), nobody counts a worker
   as finished that it did not start or resume, and a file with lines is there. *)
THEOREM SwarmIsTyped == Spec => []TypeOK
<1>1. SwarmInv => TypeOK BY DEF SwarmInv
<1> QED BY <1>1, SwarmInvariant, PTL

(* Tool calls that interleave at the await of a spawn pass the limit by less
   than their number (SwarmManager.create_member). *)
THEOREM LimitIsPassedByCallers == Spec => []OvershootBound
<1>1. ASSUME SwarmInv PROVE OvershootBound
  <2>1. IsFiniteSet(members) /\ IsFiniteSet(Spawning) /\ IsFiniteSet(Callers)
    BY <1>1, SwarmAssumption, FS_Subset DEF SwarmInv, SpawnInv, Spawning
  <2>2. PICK a \in Nat, b \in Nat, k \in Nat, l \in Nat :
          /\ a = Cardinality(members) /\ b = Cardinality(Spawning)
          /\ k = MaxMembers /\ l = Cardinality(Callers)
    <3>1. MaxMembers \in Nat BY SwarmAssumption
    <3> QED BY <2>1, <3>1, FS_CardinalityType
  <2>3. a + b + 1 <= k + l BY <1>1, <2>2, Zenon DEF SwarmInv, SpawnInv
  <2>4. a + 1 <= k + l BY <2>3
  <2> QED BY <2>2, <2>4, Zenon DEF OvershootBound
<1> QED BY <1>1, SwarmInvariant, PTL

(* A coordinator has of a worker reports it sent, in order and none twice,
   whoever else reads or deletes the file meanwhile (receive_and_clear). *)
THEOREM ReportsComeOnce == Spec => []DeliveredOnce
<1>1. ASSUME SwarmInv PROVE DeliveredOnce
  <2> SUFFICES ASSUME NEW c \in Callers, NEW m \in Members, NEW i \in DOMAIN call[c].got[m]
               PROVE  /\ call[c].got[m][i] <= sent[m]
                      /\ i > 1 => call[c].got[m][i - 1] < call[c].got[m][i]
    BY DEF DeliveredOnce
  <2> DEFINE g == call[c].got[m]
  <2>1. g \in Seq(Nat) /\ Rising(g) /\ UpTo(g, sent[m])
    BY <1>1 DEF SwarmInv, TypeOK, Calls, CallOK
  <2> HIDE DEF g
  <2>2. i \in DOMAIN g /\ DOMAIN g = 1..Len(g) /\ Len(g) \in Nat BY <2>1 DEF g
  <2>3. i > 1 => i - 1 \in DOMAIN g /\ i - 1 < i BY <2>2
  <2>4. g[i] <= sent[m] /\ (i > 1 => g[i - 1] < g[i]) BY <2>1, <2>2, <2>3 DEF Rising, UpTo
  <2> QED BY <2>4 DEF g
<1> QED BY <1>1, SwarmInvariant, PTL
=============================================================================
