---------------------------- MODULE SessionServer ----------------------------
(***************************************************************************)
(* The shared-session server: SessionManager (server/server.py), one       *)
(* handle_connection task and one writer task per websocket                *)
(* (server/websocket_transport.py), and the reconnecting ServerClient      *)
(* (server/client.py).                                                     *)
(*                                                                         *)
(* The bodies under the manager's lock never suspend, so a dispatched      *)
(* request is one step; the sending of its response is another, and the    *)
(* transport wires the connection to its session only after that.  What is *)
(* abstracted: tokens (a refused request changes nothing), payloads, and   *)
(* the wire, which delivers in order until it is cut.                      *)
(***************************************************************************)
EXTENDS Naturals, Sequences, FiniteSets

CONSTANTS
  Sessions, Clients,
  Conns,         \* connections; the server names a client by its connection
  None,
  BufferSize,    \* EVENT_BUFFER_SIZE
  MaxEvents,     \* bound: events per session
  MaxRequests    \* bound: attach, send, detach and close requests per connection

ASSUME ServerAssumption ==
  /\ None \notin Sessions \cup Conns
  /\ BufferSize \in Nat \ {0} /\ MaxEvents \in Nat /\ MaxRequests \in Nat

VARIABLES
  status,     \* of each session
  writer,     \* writer_client_id
  role,       \* observers: the role of each connection in each session
  wired,      \* the connections whose handle has the queue they drain
  next,       \* next_event_id
  buffer,     \* event_buffer: event ids
  running,    \* a turn was started in the session, and emits events
  cpc,        \* of each connection: where its handler is suspended
  resp,       \* the response the handler sends
  queue,      \* the events the writer task of a connection will send
  attached,   \* attached_session
  requests,   \* history: such requests dispatched on a connection
  moves,      \* history: how many of them attached or detached it
  cut,        \* history: connections that died before an attach was answered
  conn,       \* the connection a client believes it has
  cursor,     \* its _last_event_id
  heard       \* history: the last event it was given, of each session

server == <<status, writer, role, wired, next, buffer, running>>
transport == <<cpc, resp, queue, attached, requests, moves, cut>>
client == <<conn, cursor, heard>>
vars == <<server, transport, client>>

Roles == {"writer", "observer"}
NoResponse == [kind |-> "none"]
-----------------------------------------------------------------------------
Init ==
  /\ status = [s \in Sessions |-> "unborn"]
  /\ writer = [s \in Sessions |-> None]
  /\ role = [s \in Sessions |-> [c \in Conns |-> "none"]]
  /\ wired = [s \in Sessions |-> {}]
  /\ next = [s \in Sessions |-> 1]
  /\ buffer = [s \in Sessions |-> <<>>]
  /\ running = [s \in Sessions |-> FALSE]
  /\ cpc = [c \in Conns |-> "unused"]
  /\ resp = [c \in Conns |-> NoResponse]
  /\ queue = [c \in Conns |-> <<>>]
  /\ attached = [c \in Conns |-> None]
  /\ requests = [c \in Conns |-> 0]
  /\ moves = [c \in Conns |-> 0]
  /\ cut = {}
  /\ conn = [k \in Clients |-> None]
  /\ cursor = [k \in Clients |-> 0]
  /\ heard = [k \in Clients |-> [s \in Sessions |-> 0]]

Connect(k) ==
  /\ conn[k] = None
  /\ \E c \in Conns :
       /\ cpc[c] = "unused"
       /\ cpc' = [cpc EXCEPT ![c] = "idle"]
       /\ conn' = [conn EXCEPT ![k] = c]
  /\ UNCHANGED <<server, resp, queue, attached, requests, moves, cut, cursor, heard>>

(* The request of client k is dispatched on its connection c, and answered. *)
Idle(k, c) == conn[k] = c /\ cpc[c] = "idle"
Requests(k, c) ==
  /\ Idle(k, c) /\ requests[c] < MaxRequests
  /\ requests' = [requests EXCEPT ![c] = @ + 1]
Answered(c, r) ==
  /\ resp' = [resp EXCEPT ![c] = r]
  /\ cpc' = [cpc EXCEPT ![c] = "sending"]
  /\ UNCHANGED <<attached, cut, client>>
Ok == [kind |-> "ok"]

(* session.create and session.fork: a new session, with no client. *)
Create(k, c) ==
  /\ Idle(k, c)
  /\ \E s \in Sessions :
       /\ status[s] = "unborn"
       /\ status' = [status EXCEPT ![s] = "open"]
       /\ Answered(c, Ok)
  /\ UNCHANGED <<writer, role, wired, next, buffer, running, queue, requests, moves>>
-----------------------------------------------------------------------------
(* emit_event: number, buffer, and fan out.  The queue of a handle that is not
   wired is nobody's: the transport drops it when it wires the connection.  The
   queue of a connection whose client is gone is left out: nobody reads it. *)
Open(c) == \E k \in Clients : conn[k] = c

Kept_All(b) == b   \* mutant: an unbounded buffer
Kept_First(b) ==   \* mutant: a full buffer refuses the new event
  IF Len(b) > BufferSize THEN SubSeq(b, 1, BufferSize) ELSE b
Kept(b) ==
  IF Len(b) > BufferSize THEN Tail(b) ELSE b

Emit(s) ==
  /\ status[s] = "open" /\ next[s] <= MaxEvents
  /\ next' = [next EXCEPT ![s] = @ + 1]
  /\ buffer' = [buffer EXCEPT ![s] = Kept(Append(@, next[s]))]
  /\ queue' = [c \in Conns |->
       IF c \in wired[s] /\ Open(c) THEN Append(queue[c], [s |-> s, id |-> next[s]])
       ELSE queue[c]]

(* session.send, by the writer: the message is an event, and the runtime
   starts a turn in a task of its own. *)
Send(k, c, s) ==
  /\ Requests(k, c)
  /\ writer[s] = c /\ Emit(s)
  /\ running' = [running EXCEPT ![s] = TRUE]
  /\ Answered(c, Ok)
  /\ UNCHANGED <<status, writer, role, wired, moves>>

RuntimeEmits(s) ==
  /\ running[s] /\ Emit(s)
  /\ UNCHANGED <<status, writer, role, wired, running>>
  /\ UNCHANGED <<cpc, resp, attached, requests, moves, cut, client>>
-----------------------------------------------------------------------------
Conflict(s, c) == writer[s] \notin {None, c}

(* The slot after an attach of c: taken, or given back by its holder. *)
SlotAfter_KeptByObserver(s, c, r) == IF r = "writer" THEN c ELSE writer[s]  \* mutant
SlotAfter(s, c, r) ==
  IF r = "writer" THEN c ELSE IF writer[s] = c THEN None ELSE writer[s]

(* replay_after answers None: the cursor is older than the buffer; or there is
   no event yet, and the cursor is ahead of the session. *)
Evicted_OffByOne(s, n) ==   \* mutant
  IF buffer[s] = <<>> THEN n >= next[s] ELSE n + 2 < Head(buffer[s])
Evicted(s, n) ==
  IF buffer[s] = <<>> THEN n >= next[s] ELSE n + 1 < Head(buffer[s])

(* The ids of b after n, in their order: the filter that replay_after returns. *)
Past(b, n) ==
  LET f[i \in 0..Len(b)] ==
        IF i = 0 THEN <<>> ELSE IF b[i] > n THEN Append(f[i - 1], b[i]) ELSE f[i - 1]
  IN  f[Len(b)]
Missed(s, n) == Past(buffer[s], n)

Detached(s, c) ==
  /\ writer' = [writer EXCEPT ![s] = IF @ = c THEN None ELSE @]
  /\ role' = [role EXCEPT ![s][c] = "none"]
  /\ wired' = [wired EXCEPT ![s] = @ \ {c}]

(* A replay goes into the response and into the queue of the handle: to the
   wire only if the connection was attached before. *)
OnWire(s, ids) == [i \in DOMAIN ids |-> [s |-> s, id |-> ids[i]]]
Requeued_Always(c, s, ids) == queue[c] \o OnWire(s, ids)   \* mutant
Requeued(c, s, ids) ==
  IF c \in wired[s] THEN queue[c] \o OnWire(s, ids) ELSE queue[c]

Attach(k, c, s, r) ==
  /\ Requests(k, c)
  /\ status[s] = "open" /\ ~(r = "writer" /\ Conflict(s, c))
  /\ cursor[k] = 0 \/ ~Evicted(s, cursor[k])
  /\ writer' = [writer EXCEPT ![s] = SlotAfter(s, c, r)]
  /\ role' = [role EXCEPT ![s][c] = r]
  /\ LET replayed == IF cursor[k] > 0 THEN Missed(s, cursor[k]) ELSE <<>> IN
     /\ queue' = [queue EXCEPT ![c] = Requeued(c, s, replayed)]
     /\ Answered(c, [kind |-> "attached", s |-> s, after |-> cursor[k],
                     replayed |-> replayed])
  /\ moves' = [moves EXCEPT ![c] = @ + 1]
  /\ UNCHANGED <<status, wired, next, buffer, running>>

AttachEvicted(k, c, s, r) ==
  /\ Requests(k, c)
  /\ status[s] = "open" /\ ~(r = "writer" /\ Conflict(s, c))
  /\ cursor[k] > 0 /\ Evicted(s, cursor[k])
  /\ Detached(s, c)
  /\ Answered(c, [kind |-> "evicted", s |-> s, after |-> cursor[k]])
  /\ UNCHANGED <<status, next, buffer, running, queue, moves>>

(* session.detach; the connection need not be attached. *)
Detach(k, c, s) ==
  /\ Requests(k, c)
  /\ IF status[s] = "open" THEN Detached(s, c)
     ELSE UNCHANGED <<writer, role, wired>>
  /\ Answered(c, [kind |-> "detached", s |-> s])
  /\ moves' = [moves EXCEPT ![c] = @ + 1]
  /\ UNCHANGED <<status, next, buffer, running, queue>>

(* session.close, by the writer; the others are not told. *)
Close(k, c, s) ==
  /\ Requests(k, c)
  /\ status[s] = "open" /\ writer[s] = c
  /\ status' = [status EXCEPT ![s] = "closed"]
  /\ Answered(c, Ok)
  /\ UNCHANGED <<writer, role, wired, next, buffer, running, queue, moves>>

(* Any request that is refused: no such session, a conflict, not the writer. *)
Refuse(k, c, s) ==
  /\ Idle(k, c)
  /\ status[s] # "open" \/ writer[s] # c
  /\ Answered(c, [kind |-> "refused"])
  /\ UNCHANGED <<server, queue, requests, moves>>
-----------------------------------------------------------------------------
(* The response is on the wire, and its replay with it, which the client does
   not count in its cursor; a successful attach then wires the connection: its
   handle gets the connection's queue in place of its own. *)
Respond(c) ==
  /\ cpc[c] = "sending"
  /\ cpc' = [cpc EXCEPT ![c] = "idle"]
  /\ resp' = [resp EXCEPT ![c] = NoResponse]
  /\ LET r == resp[c] IN
     /\ attached' = [attached EXCEPT ![c] =
          CASE r.kind = "attached" -> r.s
            [] r.kind = "detached" -> None
            [] OTHER -> @]
     /\ wired' = [s \in Sessions |->
          IF r.kind = "attached" /\ r.s = s /\ status[s] = "open" /\ role[s][c] # "none"
          THEN wired[s] \cup {c} ELSE wired[s]]
     /\ heard' = [k \in Clients |->
          IF r.kind = "attached" /\ conn[k] = c /\ r.replayed # <<>>
          THEN [heard[k] EXCEPT ![r.s] = r.replayed[Len(r.replayed)]] ELSE heard[k]]
     /\ cursor' = [k \in Clients |->
          IF r.kind = "evicted" /\ conn[k] = c THEN 0 ELSE cursor[k]]
  /\ UNCHANGED <<status, writer, role, next, buffer, running>>
  /\ UNCHANGED <<queue, requests, moves, cut, conn>>

(* The client's end goes away: a crash, a closed laptop, reconnect. *)
ClientLeaves(k) ==
  /\ conn[k] # None
  /\ conn' = [conn EXCEPT ![k] = None]
  /\ queue' = [queue EXCEPT ![conn[k]] = <<>>]
  /\ UNCHANGED <<server, cpc, resp, attached, requests, moves, cut, cursor, heard>>

Drop_Forgets(c) ==   \* mutant: only the reader of the socket is ended
  /\ cpc[c] \in {"idle", "sending"} /\ ~Open(c)
  /\ cpc' = [cpc EXCEPT ![c] = "closed"]
  /\ cut' = IF resp[c].kind = "attached" THEN cut \cup {c} ELSE cut
  /\ resp' = [resp EXCEPT ![c] = NoResponse]
  /\ UNCHANGED <<server, queue, attached, requests, moves, client>>

(* The server notices: the loop or the send under way ends with an exception,
   and the session this task knows of is detached. *)
Drop(c) ==
  /\ cpc[c] \in {"idle", "sending"} /\ ~Open(c)
  /\ cpc' = [cpc EXCEPT ![c] = "closed"]
  /\ IF attached[c] # None /\ status[attached[c]] = "open" THEN Detached(attached[c], c)
     ELSE UNCHANGED <<writer, role, wired>>
  /\ cut' = IF resp[c].kind = "attached" THEN cut \cup {c} ELSE cut
  /\ UNCHANGED <<status, next, buffer, running>>
  /\ resp' = [resp EXCEPT ![c] = NoResponse]
  /\ UNCHANGED <<queue, attached, requests, moves, client>>

(* The writer task sends an event and the client's reader takes it. *)
Deliver(k, c) ==
  /\ conn[k] = c /\ cpc[c] # "closed" /\ queue[c] # <<>>
  /\ queue' = [queue EXCEPT ![c] = Tail(@)]
  /\ LET e == Head(queue[c]) IN
     /\ cursor' = [cursor EXCEPT ![k] = IF e.id > @ THEN e.id ELSE @]
     /\ heard' = [heard EXCEPT ![k][e.s] = e.id]
  /\ UNCHANGED <<server, cpc, resp, attached, requests, moves, cut, conn>>

Next ==
  \/ \E k \in Clients : Connect(k) \/ ClientLeaves(k)
  \/ \E k \in Clients, c \in Conns : Create(k, c) \/ Deliver(k, c)
  \/ \E k \in Clients, c \in Conns, s \in Sessions :
       Send(k, c, s) \/ Detach(k, c, s) \/ Close(k, c, s) \/ Refuse(k, c, s)
  \/ \E k \in Clients, c \in Conns, s \in Sessions, r \in Roles :
       Attach(k, c, s, r) \/ AttachEvicted(k, c, s, r)
  \/ \E c \in Conns : Respond(c) \/ Drop(c)
  \/ \E s \in Sessions : RuntimeEmits(s)

Spec == Init /\ [][Next]_vars
-----------------------------------------------------------------------------
(* Types; the buffer is a ring of BufferSize. *)
TypeOK ==
  /\ status \in [Sessions -> {"unborn", "open", "closed"}]
  /\ writer \in [Sessions -> Conns \cup {None}]
  /\ role \in [Sessions -> [Conns -> Roles \cup {"none"}]]
  /\ wired \in [Sessions -> SUBSET Conns]
  /\ next \in [Sessions -> 1..MaxEvents + 1]
  /\ \A s \in Sessions : buffer[s] \in Seq(1..MaxEvents) /\ Len(buffer[s]) <= BufferSize
  /\ running \in [Sessions -> BOOLEAN]
  /\ cpc \in [Conns -> {"unused", "idle", "sending", "closed"}]
  /\ attached \in [Conns -> Sessions \cup {None}]
  /\ conn \in [Clients -> Conns \cup {None}]
  /\ cursor \in [Clients -> 0..MaxEvents]

(* The slot and the handles agree: a connection holds the slot of a session if
   and only if it is in the session as writer, so nobody but the holder was
   told it is the writer and no slot is held by one who was made observer. *)
SlotMatchesRole ==
  \A s \in Sessions, c \in Conns : writer[s] = c <=> role[s][c] = "writer"

(* The buffer always holds the latest events and skips none. *)
BufferIsTail ==
  \A s \in Sessions :
    /\ Len(buffer[s]) = IF next[s] <= BufferSize THEN next[s] - 1 ELSE BufferSize
    /\ \A i \in DOMAIN buffer[s] : buffer[s][i] = next[s] - Len(buffer[s]) + i - 1

(* A resumed attach answers with all the events after the cursor, and refuses
   only when one of them is gone or the cursor is not of this session. *)
ReplayExact ==
  [][\A c \in Conns : cpc[c] = "idle" /\ cpc'[c] = "sending" =>
       LET r == resp'[c]
           n == next[r.s] - 1
       IN  /\ r.kind = "attached" /\ r.after > 0 =>
                r.replayed = [i \in 1..(IF n > r.after THEN n - r.after ELSE 0)
                                |-> r.after + i]
           /\ r.kind = "evicted" => n = 0 \/ r.after + BufferSize < n]_vars

(* A dead connection keeps no writer slot, however its death falls between the
   requests of others, unless its attach was dispatched but not yet answered,
   or it attached or detached a second time. *)
DeadWriter ==
  \A s \in Sessions, c \in Conns :
    status[s] = "open" /\ writer[s] = c /\ cpc[c] = "closed" =>
      c \in cut \/ moves[c] > 1

(* A connection that attached once carries each event of a session once, in
   order, and none that its client was given before: in a replay, on another
   connection, or by the response that is not sent yet. *)
InOrder ==
  \A k \in Clients, c \in Conns :
    conn[k] = c /\ moves[c] <= 1 =>
      \A i \in DOMAIN queue[c] :
        /\ queue[c][i].id > heard[k][queue[c][i].s]
        /\ \A j \in 1..(i - 1) :
             queue[c][j].s = queue[c][i].s => queue[c][j].id < queue[c][i].id

(* Reconnecting with last_event_id is lossless: a client that has a cursor is
   given the next event after the last it was given, or a replay from there. *)
Lossless ==
  [][\A k \in Clients, s \in Sessions :
       cursor[k] > 0 /\ heard'[k][s] > heard[k][s] + 1 =>
         \E c \in Conns :
           /\ resp[c].kind = "attached"
           /\ \E i \in DOMAIN resp[c].replayed : resp[c].replayed[i] = heard[k][s] + 1]_vars
=============================================================================
