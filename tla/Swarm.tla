-------------------------------- MODULE Swarm --------------------------------
(***************************************************************************)
(* Swarm workers and those who direct them: SwarmManager                   *)
(* (swarm/manager.py), the Coordinator that splits a task among workers    *)
(* and polls for their reports (swarm/coordinator.py), the file mailbox    *)
(* between them (swarm/mailbox.py), the backends that start and stop       *)
(* processes (swarm/backend_*.py), and the tools that call them            *)
(* (tools/swarm_tools.py, tools/coordinator_tool.py).  Every tool call     *)
(* runs in a thread with an event loop of its own, so that callers         *)
(* interleave wherever they touch a file and wherever they await; workers  *)
(* are processes of their own and external: they report, report that they  *)
(* are done, or die.                                                       *)
(*                                                                         *)
(* Abstracted: roles, tasks, models and texts (a report says it is the     *)
(* last or not), the score of an overlap (any candidate may reach it), the *)
(* length of a poll interval.                                              *)
(***************************************************************************)
EXTENDS Naturals, Sequences, FiniteSets

CONSTANTS
  Callers,       \* tool calls: "coordinate" or "swarm_create"
  Members,       \* bound: ids that can be drawn
  MaxMembers,    \* max_members, of the manager and of the Coordinator
  Backend,       \* the backend each of them gets, asked for or found ("auto")
  Timeout,       \* TIMEOUT, in poll intervals
  Talkers,       \* bound: the workers that do anything, the others hang
  MaxReports     \* bound: reports of one worker, the last one included

ASSUME SwarmAssumption ==
  /\ IsFiniteSet(Callers)
  /\ MaxMembers \in Nat \ {0} /\ Timeout \in Nat \ {0} /\ MaxReports \in Nat \ {0}
  /\ Talkers \subseteq Members
  /\ Backend \in [Members -> {"subprocess", "tmux", "worktree"}]

VARIABLES
  members,    \* keys of SwarmManager._members
  proc,       \* its process: "unborn", "spawning", "running", "dead"
  call,       \* the tool calls
  stopper,    \* a swarm_delete call: its action, what is left to stop
  file,       \* the file <member>_to_coordinator.jsonl: there or not, lines
  fd,         \* a worker's append: "none", "open", "unlinked" since
  sent        \* reports a worker has sent

vars == <<members, proc, call, stopper, file, fd, sent>>
team == <<members, proc>>
mail == <<file, fd, sent>>

NoFile == [there |-> FALSE, lines |-> <<>>]
Idle == [op |-> "none", pc |-> "idle", left |-> 0, cur |-> "none",
         crew |-> {}, queue |-> {}, read |-> <<>>, completed |-> {}, elapsed |-> 0,
         got |-> [m \in Members |-> <<>>]]

Init ==
  /\ members = {} /\ proc = [m \in Members |-> "unborn"]
  /\ call = [c \in Callers |-> Idle]
  /\ stopper = [op |-> "none", left |-> {}]
  /\ file = [m \in Members |-> NoFile] /\ fd = [m \in Members |-> "none"]
  /\ sent = [m \in Members |-> 0]

Set(c, r) == call' = [call EXCEPT ![c] = r]
End(c) == Set(c, Idle)
At(c, pc) == call[c].pc = pc
-----------------------------------------------------------------------------
(* The two tools.  swarm_create is one create_member. *)
Coordinate(c) ==
  /\ At(c, "idle")
  /\ Set(c, [Idle EXCEPT !.op = "coordinate", !.pc = "synthesize"])
  /\ UNCHANGED <<team, stopper, mail>>

SwarmCreate(c) ==
  /\ At(c, "idle")
  /\ Set(c, [Idle EXCEPT !.op = "create", !.pc = "spawn", !.left = 1])
  /\ UNCHANGED <<team, stopper, mail>>

Rounds_OneMore(r) ==   \* mutant: elapsed <= timeout
  IF r.crew # r.completed /\ r.elapsed <= Timeout
  THEN [r EXCEPT !.queue = r.crew \ r.completed, !.pc = "read"]
  ELSE [r EXCEPT !.pc = "aggregate"]

(* The loop of _wait_for_completion: a round over those who have not reported
   the end, while there are such and there is time. *)
Rounds(r) ==
  IF r.crew # r.completed /\ r.elapsed < Timeout
  THEN [r EXCEPT !.queue = r.crew \ r.completed, !.pc = "read"]
  ELSE [r EXCEPT !.pc = "aggregate"]

(* orchestrate: delegate or not, and to whom.  Of the ids given for resumption
   those of present members count; without any, one may be found to overlap. *)
Synthesize(c) ==
  /\ At(c, "synthesize")
  /\ \/ End(c)
     \/ \E resume \in SUBSET Members :
        \E crew \in (IF resume \cap members # {} THEN {resume \cap members}
                     ELSE {{}} \cup {{m} : m \in members}) :
          Set(c, IF crew = {} THEN [call[c] EXCEPT !.pc = "decompose"]
                 ELSE Rounds([call[c] EXCEPT !.crew = crew]))
  /\ UNCHANGED <<team, stopper, mail>>

(* The model names subtasks; no more than MaxMembers are taken. *)
Decompose(c) ==
  /\ At(c, "decompose")
  /\ \E n \in 0..MaxMembers :
       IF n = 0 THEN End(c)
       ELSE Set(c, [call[c] EXCEPT !.left = n, !.pc = "spawn"])
  /\ UNCHANGED <<team, stopper, mail>>
-----------------------------------------------------------------------------
LimitReached_Late == Cardinality(members) > MaxMembers   \* mutant
LimitReached == Cardinality(members) >= MaxMembers

AfterSpawning(c) ==
  IF call[c].op = "create" \/ call[c].crew = {} THEN End(c)
  ELSE Set(c, Rounds([call[c] EXCEPT !.left = 0]))

(* create_member: the limit, then a fresh id and the spawn, awaited. *)
Spawn(c) ==
  /\ At(c, "spawn")
  /\ \/ /\ LimitReached \/ call[c].left = 0
        /\ AfterSpawning(c)
        /\ UNCHANGED team
     \/ /\ ~LimitReached /\ call[c].left > 0
        /\ \E m \in Members :
             /\ proc[m] = "unborn"
             /\ proc' = [proc EXCEPT ![m] = "spawning"]
             /\ Set(c, [call[c] EXCEPT !.cur = m, !.pc = "spawning"])
        /\ UNCHANGED members
  /\ UNCHANGED <<stopper, mail>>

(* A pane that tmux could not open is a member all the same. *)
Spawned(c) ==
  /\ At(c, "spawning")
  /\ LET m == call[c].cur IN
     /\ members' = members \cup {m}
     /\ \E p \in {"running"} \cup (IF Backend[m] = "tmux" THEN {"dead"} ELSE {}) :
          proc' = [proc EXCEPT ![m] = p]
     /\ Set(c, [call[c] EXCEPT !.crew = @ \cup {m}, !.left = @ - 1, !.pc = "spawn",
                               !.cur = "none"])
  /\ UNCHANGED <<stopper, mail>>

(* The exception of a spawn ends the tool call; workers spawned before stay. *)
SpawnFails(c) ==
  /\ At(c, "spawning") /\ Backend[call[c].cur] # "tmux"
  /\ proc' = [proc EXCEPT ![call[c].cur] = "dead"]
  /\ End(c)
  /\ UNCHANGED <<members, stopper, mail>>
-----------------------------------------------------------------------------
(* receive_and_clear reads, and then deletes what is there by then. *)
Read(c) ==
  /\ At(c, "read")
  /\ \E m \in call[c].queue :
       Set(c, [call[c] EXCEPT !.cur = m, !.read = file[m].lines, !.pc = "clear"])
  /\ UNCHANGED <<team, stopper, mail>>

Unlink_Forgotten(m) == UNCHANGED <<file, fd>>   \* mutant: receive, not clear
Unlink(m) ==
  /\ file' = [file EXCEPT ![m] = NoFile]
  /\ fd' = [fd EXCEPT ![m] = IF @ = "open" THEN "unlinked" ELSE @]

IsLast(n) == n = MaxReports

Clear(c) ==
  /\ At(c, "clear")
  /\ LET m == call[c].cur
         lines == call[c].read
     IN  /\ IF file[m].there THEN Unlink(m) ELSE UNCHANGED <<file, fd>>
         /\ Set(c, [call[c] EXCEPT
              !.got[m] = @ \o lines,
              !.completed = IF \E i \in DOMAIN lines : IsLast(lines[i])
                            THEN @ \cup {m} ELSE @,
              !.queue = @ \ {m}, !.read = <<>>, !.cur = "none",
              !.pc = IF call[c].queue = {m} THEN "sleep" ELSE "read"])
  /\ UNCHANGED <<team, stopper, sent>>

Sleep(c) ==
  /\ At(c, "sleep")
  /\ Set(c, Rounds(IF call[c].completed = call[c].crew THEN call[c]
                   ELSE [call[c] EXCEPT !.elapsed = @ + 1]))
  /\ UNCHANGED <<team, stopper, mail>>

Aggregate(c) ==
  /\ At(c, "aggregate") /\ End(c)
  /\ UNCHANGED <<team, stopper, mail>>
-----------------------------------------------------------------------------
(* A worker appends a report: open, then the buffered line on close.  The lock
   is held between the two and kept by nobody else.  The n-th report is n. *)
Open(m) ==
  /\ proc[m] = "running" /\ fd[m] = "none" /\ sent[m] < MaxReports
  /\ fd' = [fd EXCEPT ![m] = "open"]
  /\ file' = [file EXCEPT ![m].there = TRUE]
  /\ UNCHANGED <<team, call, stopper, sent>>

Write(m) ==
  /\ proc[m] = "running" /\ fd[m] # "none"
  /\ sent' = [sent EXCEPT ![m] = @ + 1]
  /\ file' = IF fd[m] = "open" THEN [file EXCEPT ![m].lines = Append(@, sent[m] + 1)]
             ELSE file
  /\ fd' = [fd EXCEPT ![m] = "none"]
  /\ UNCHANGED <<team, call, stopper>>

Die(m) ==
  /\ proc[m] = "running"
  /\ proc' = [proc EXCEPT ![m] = "dead"] /\ fd' = [fd EXCEPT ![m] = "none"]
  /\ UNCHANGED <<members, call, stopper, file, sent>>
-----------------------------------------------------------------------------
(* swarm_delete.  A worktree member is looked for at the subprocess backend,
   which has no process of it.  stop_all takes a snapshot. *)
Kill(m) ==
  /\ proc' = [proc EXCEPT ![m] = IF @ = "running" /\ Backend[m] # "worktree"
                                 THEN "dead" ELSE @]
  /\ fd' = [fd EXCEPT ![m] = IF proc'[m] = "dead" THEN "none" ELSE @]

StopMember ==
  /\ stopper.op = "none"
  /\ \E m \in members : stopper' = [op |-> "stop", left |-> {m}] /\ Kill(m)
  /\ UNCHANGED <<members, call, file, sent>>

StopAll ==
  /\ stopper.op = "none"
  /\ stopper' = [op |-> "stop_all",
                 left |-> {m \in Members : proc[m] = "running"}]
  /\ UNCHANGED <<team, call, mail>>

StopNext ==
  /\ stopper.op = "stop_all" /\ stopper.left # {}
  /\ \E m \in stopper.left :
       Kill(m) /\ stopper' = [stopper EXCEPT !.left = @ \ {m}]
  /\ UNCHANGED <<members, call, file, sent>>

Stopped ==
  /\ stopper.op = "stop" \/ (stopper.op = "stop_all" /\ stopper.left = {})
  /\ members' = IF stopper.op = "stop" THEN members \ stopper.left ELSE {}
  /\ stopper' = [op |-> "none", left |-> {}]
  /\ UNCHANGED <<proc, call, mail>>

Work(c) ==
  \/ Synthesize(c) \/ Decompose(c) \/ Spawn(c) \/ Spawned(c) \/ SpawnFails(c)
  \/ Read(c) \/ Clear(c) \/ Sleep(c) \/ Aggregate(c)

Next ==
  \/ \E c \in Callers : Coordinate(c) \/ SwarmCreate(c) \/ Work(c)
  \/ \E m \in Talkers : Open(m) \/ Write(m) \/ Die(m)
  \/ StopMember \/ StopAll \/ StopNext \/ Stopped

Spec == Init /\ [][Next]_vars
-----------------------------------------------------------------------------
Pcs == {"synthesize", "decompose", "spawn", "spawning", "read", "clear",
        "sleep", "aggregate"}

Calls ==
  [op : {"none", "coordinate", "create"}, pc : Pcs \cup {"idle"}, left : 0..MaxMembers,
   cur : Members \cup {"none"}, crew : SUBSET Members, queue : SUBSET Members,
   read : Seq(Nat), completed : SUBSET Members, elapsed : 0..Timeout,
   got : [Members -> Seq(Nat)]]

TypeOK ==
  /\ members \subseteq Members
  /\ proc \in [Members -> {"unborn", "spawning", "running", "dead"}]
  /\ call \in [Callers -> Calls]
  /\ \A c \in Callers :
       call[c].queue \subseteq call[c].crew /\ call[c].completed \subseteq call[c].crew
  /\ stopper \in [op : {"none", "stop", "stop_all"}, left : SUBSET Members]
  /\ file \in [Members -> [there : BOOLEAN, lines : Seq(Nat)]]
  /\ fd \in [Members -> {"none", "open", "unlinked"}]
  /\ sent \in [Members -> 0..MaxReports]
  /\ \A m \in Members : file[m].lines # <<>> => file[m].there

(* The limit is checked before the spawn is awaited: concurrent tool calls can
   pass it, each by one and no more, whatever is stopped in between. *)
OvershootBound == Cardinality(members) + 1 <= MaxMembers + Cardinality(Callers)

(* What a coordinator has of a worker are reports this worker sent, in their
   order and none twice, although nothing keeps others, the worker or a second
   coordinator, from the file between reading and deleting it. *)
DeliveredOnce ==
  \A c \in Callers, m \in Members :
    LET got == call[c].got[m] IN
    \A i \in DOMAIN got :
      got[i] <= sent[m] /\ (i > 1 => got[i - 1] < got[i])
=============================================================================
