------------------------------ MODULE Provider ------------------------------
(***************************************************************************)
(* A model provider shared by concurrent requests: the OpenAI-compatible   *)
(* and the Anthropic provider (api/openai_compat.py,                       *)
(* api/anthropic_provider.py) with the sliding-window limiter and the      *)
(* retry handler under them (api/rate_limiter.py).  A request is one       *)
(* send_message ("post") or one stream_message ("stream"), run as a task   *)
(* that may be cancelled wherever it awaits.  The HTTP server is external: *)
(* it answers, refuses, times out, breaks a stream off, in any order.      *)
(*                                                                         *)
(* Kept: the two retry loops and their budgets, the counters an injected   *)
(* RateLimitHandler shares between requests, what a slot of the limiter    *)
(* covers and where it is given back, how the events of a stream are       *)
(* handed on.  Abstracted: payloads, the text of events, the length of a   *)
(* back-off; the age of a timestamp is kept up to the length of the        *)
(* window.                                                                 *)
(***************************************************************************)
EXTENDS Naturals, Sequences, FiniteSets

CONSTANTS
  Requests,
  MaxRequests, Window,   \* SlidingWindowLimiter(max_requests, window_seconds)
  Configs,               \* api, concurrency and handler of the providers checked
  MaxRetries,            \* max_retries of the provider
  OverloadBackoffs,      \* length of _OVERLOAD_BACKOFFS
  RateLimitMax, ConnectionMax, OverloadMax,  \* the handler's, per request kind
  MaxChunks              \* bound: events of one streaming attempt

Kinds == {"foreground", "background"}

ASSUME ProviderAssumption ==
  /\ IsFiniteSet(Requests) /\ {MaxRequests, Window} \subseteq Nat \ {0}
  /\ Configs \subseteq {"openai", "anthropic"} \X (Nat \ {0})
                        \X (Kinds \cup {"none"})
  /\ {MaxRetries, OverloadBackoffs, MaxChunks} \subseteq Nat
  /\ {RateLimitMax, ConnectionMax, OverloadMax} \subseteq [Kinds -> Nat]

VARIABLES
  api,        \* which provider: "openai" or "anthropic"
  cap,        \* concurrency of its limiter
  handler,    \* the injected RateLimitHandler, or "none", and its request_kind
  req,        \* the tasks: kind, pc, the counters of the retry loop
  out,        \* the events each request's consumer has been given
  tail,       \* parser: chunks of this attempt, the held stop, usage seen
  stamps,     \* _timestamps, as ages
  slots,      \* _semaphore
  attempt, overload,   \* the handler's counters
  admitted    \* history: the ages of the admissions within the window, oldest first

vars == <<api, cap, handler, req, out, tail, stamps, slots, attempt, overload, admitted>>
config == <<api, cap, handler>>
limiter == <<stamps, slots, admitted>>
counters == <<attempt, overload>>

NewTail == [chunks |-> 0, held |-> FALSE, usage |-> FALSE]

Init ==
  /\ \E c \in Configs : api = c[1] /\ cap = c[2] /\ handler = c[3]
  /\ req = [r \in Requests |-> [kind |-> "post", pc |-> "idle", attempt |-> 0,
                                overload |-> 0, left |-> 0]]
  /\ out = [r \in Requests |-> <<>>] /\ tail = [r \in Requests |-> NewTail]
  /\ stamps = <<>> /\ slots = cap /\ admitted = <<>>
  /\ attempt = 0 /\ overload = 0

Goto(r, pc) == req' = [req EXCEPT ![r].pc = pc, ![r].left = 0]

(* send_message, stream_message: the first attempt asks the limiter. *)
Start(r) ==
  /\ req[r].pc = "idle"
  /\ \E k \in {"post", "stream"} :
       req' = [req EXCEPT ![r].kind = k, ![r].pc = "semaphore"]
  /\ UNCHANGED <<config, out, tail, limiter, counters>>
-----------------------------------------------------------------------------
(* SlidingWindowLimiter.  Under its lock acquire has no await: one step. *)

(* while the oldest is older than the window: popleft *)
PopOld(ages, w) ==
  LET k == CHOOSE k \in 1..(Len(ages) + 1) :
             /\ \A i \in 1..(k - 1) : ages[i] >= w
             /\ k \in DOMAIN ages => ages[k] < w
  IN  SubSeq(ages, k, Len(ages))

RollOff_Early == PopOld(stamps, Window - 1)   \* mutant: one tick too soon
RollOff == PopOld(stamps, Window)

TryWindow(r) ==
  \/ /\ Len(RollOff) < MaxRequests
     /\ stamps' = Append(RollOff, 0) /\ admitted' = Append(admitted, 0)
     /\ Goto(r, "post")
     /\ tail' = [tail EXCEPT ![r] = NewTail]
  \/ /\ Len(RollOff) >= MaxRequests
     /\ stamps' = RollOff
     /\ req' = [req EXCEPT ![r].pc = "waiting", ![r].left = Window - RollOff[1]]
     /\ UNCHANGED <<tail, admitted>>

Acquire(r) ==
  /\ req[r].pc = "semaphore" /\ slots > 0
  /\ slots' = slots - 1
  /\ TryWindow(r)
  /\ UNCHANGED <<config, out, counters>>

WaitOver(r) ==
  /\ req[r].pc = "waiting" /\ req[r].left = 0
  /\ TryWindow(r)
  /\ UNCHANGED <<config, out, slots, counters>>

(* One unit of time, for the window and for those who wait for it. *)
Tick ==
  /\ stamps' = [i \in DOMAIN stamps |->
       IF stamps[i] < Window THEN stamps[i] + 1 ELSE Window]
  /\ admitted' = PopOld([i \in DOMAIN admitted |-> admitted[i] + 1], Window)
  /\ req' = [r \in Requests |->
       [req[r] EXCEPT !.left = IF @ > 0 THEN @ - 1 ELSE 0]]
  /\ UNCHANGED <<config, out, tail, slots, counters>>

(* Where a request has a slot: the Anthropic stream only while it connects. *)
HasSlot(r) ==
  \/ req[r].pc \in {"waiting", "post"}
  \/ req[r].pc = "streaming" /\ api = "openai"

Release_OnReturnOnly(r) ==   \* mutant: acquire forgets its except clause
  slots' = IF HasSlot(r) /\ req[r].pc # "waiting" THEN slots + 1 ELSE slots
Release(r) == slots' = IF HasSlot(r) THEN slots + 1 ELSE slots
-----------------------------------------------------------------------------
(* should_retry and on_exception of the shared handler, which counts every
   failure, also of a request that gives up. *)
HandlerRetries(err) ==
  CASE err = "rate_limit" -> attempt < RateLimitMax[handler]
    [] err = "connection" -> attempt < ConnectionMax[handler]
    [] err = "overload" -> overload < OverloadMax[handler]
    [] err = "permanent" -> FALSE
    [] err = "unknown" -> handler = "foreground" /\ attempt = 0

OnException(r, err, end) ==
  /\ Goto(r, IF HandlerRetries(err) THEN "backoff" ELSE end)
  /\ IF err = "overload" THEN overload' = overload + 1 /\ UNCHANGED attempt
                         ELSE attempt' = attempt + 1 /\ UNCHANGED overload

LoopRetries_OneMore(r, err) ==   \* mutant: <= max_retries
  CASE err \in {"rate_limit", "connection"} -> req[r].attempt <= MaxRetries
    [] err = "overload" -> req[r].overload < OverloadBackoffs
    [] OTHER -> FALSE

(* The loop of _post_with_retry and of _stream_with_retry: overload has a
   budget of its own. *)
LoopRetries(r, err) ==
  CASE err \in {"rate_limit", "connection"} -> req[r].attempt < MaxRetries
    [] err = "overload" -> req[r].overload < OverloadBackoffs
    [] OTHER -> FALSE

Loop(r, err) ==
  /\ \/ ~LoopRetries(r, err) /\ req' = [req EXCEPT ![r].pc = "failed"]
     \/ /\ LoopRetries(r, err) /\ err = "overload"
        /\ req' = [req EXCEPT ![r].pc = "backoff", ![r].overload = @ + 1]
     \/ /\ LoopRetries(r, err) /\ err # "overload"
        /\ req' = [req EXCEPT ![r].pc = "backoff", ![r].attempt = @ + 1]
  /\ UNCHANGED counters

Handled(r) == req[r].kind = "post" /\ handler # "none"

(* An attempt raises.  The Anthropic stream has no retry. *)
Raise(r, err) ==
  /\ Release(r)
  /\ CASE Handled(r) -> OnException(r, err, "failed")
       [] ~Handled(r) /\ (req[r].kind = "post" \/ api = "openai") -> Loop(r, err)
       [] OTHER -> Goto(r, "failed") /\ UNCHANGED counters
  /\ UNCHANGED <<config, out, tail, stamps, admitted>>

(* The server answers a post with 200: record_success. *)
PostReturns(r) ==
  /\ req[r].pc = "post" /\ req[r].kind = "post"
  /\ Goto(r, "done") /\ Release(r)
  /\ IF Handled(r) THEN attempt' = 0 /\ overload' = 0 ELSE UNCHANGED counters
  /\ UNCHANGED <<config, out, tail, stamps, admitted>>

RequestFails(r) ==
  /\ req[r].pc = "post"
  /\ \E err \in {"rate_limit", "connection", "overload", "permanent", "unknown"} :
       Raise(r, err)

BackoffOver(r) ==
  /\ req[r].pc = "backoff" /\ Goto(r, "semaphore")
  /\ UNCHANGED <<config, out, tail, limiter, counters>>
-----------------------------------------------------------------------------
(* Streams.  The status is checked before the first event. *)
StreamOpens(r) ==
  /\ req[r].pc = "post" /\ req[r].kind = "stream"
  /\ Goto(r, "streaming")
  /\ slots' = IF api = "anthropic" THEN slots + 1 ELSE slots
  /\ UNCHANGED <<config, out, tail, stamps, admitted, counters>>

Emit(r, ev) == out' = [out EXCEPT ![r] = Append(@, ev)]

Delta(r) ==
  /\ req[r].pc = "streaming" /\ tail[r].chunks < MaxChunks
  /\ tail' = [tail EXCEPT ![r].chunks = @ + 1]
  /\ Emit(r, [ev |-> "delta", at |-> tail[r].chunks + 1])
  /\ UNCHANGED <<config, req, limiter, counters>>

Finish_AtOnce(r) ==   \* mutant: the stop is not held back
  /\ req[r].pc = "streaming" /\ api = "openai" /\ ~tail[r].held
  /\ tail' = [tail EXCEPT ![r].held = TRUE]
  /\ Emit(r, [ev |-> "stop", at |-> 0])
  /\ UNCHANGED <<config, req, limiter, counters>>

(* The chunk with finish_reason: its stop is held until the stream ends. *)
Finish(r) ==
  /\ req[r].pc = "streaming" /\ api = "openai" /\ ~tail[r].held
  /\ tail' = [tail EXCEPT ![r].held = TRUE]
  /\ UNCHANGED <<config, req, out, limiter, counters>>

(* Usage comes with any chunk, or in a last one after finish_reason. *)
Usage(r) ==
  /\ req[r].pc = "streaming" /\ ~tail[r].usage
  /\ tail' = [tail EXCEPT ![r].usage = TRUE]
  /\ UNCHANGED <<config, req, out, limiter, counters>>

(* End of input or [DONE].  The Anthropic iterator always makes a stop, the
   other one hands on the stop it holds, with the usage seen by then. *)
StreamEnds(r) ==
  /\ req[r].pc = "streaming"
  /\ IF tail[r].held \/ api = "anthropic"
     THEN Emit(r, [ev |-> "stop", at |-> IF tail[r].usage THEN 1 ELSE 0])
     ELSE UNCHANGED out
  /\ Goto(r, "done") /\ Release(r)
  /\ UNCHANGED <<config, tail, stamps, admitted, counters>>

(* A read times out, or the connection is lost. *)
StreamBreaks(r) ==
  /\ req[r].pc = "streaming"
  /\ \E err \in {"connection", "unknown"} : Raise(r, err)
-----------------------------------------------------------------------------
(* The task is cancelled, or its consumer stops iterating.  run_with_rate_limit
   catches the CancelledError of an attempt like any other exception. *)
Cancel(r) ==
  /\ req[r].pc \in {"semaphore", "waiting", "post", "streaming", "backoff"}
  /\ Release(r)
  /\ IF Handled(r) /\ req[r].pc # "backoff" THEN OnException(r, "unknown", "cancelled")
     ELSE Goto(r, "cancelled") /\ UNCHANGED counters
  /\ UNCHANGED <<config, out, tail, stamps, admitted>>

Serve(r) ==
  PostReturns(r) \/ RequestFails(r) \/ StreamOpens(r) \/ StreamEnds(r) \/ StreamBreaks(r)
Chunk(r) == Delta(r) \/ Finish(r) \/ Usage(r)
Task(r) == Acquire(r) \/ WaitOver(r) \/ BackoffOver(r) \/ Serve(r)

Next == Tick \/ \E r \in Requests : Start(r) \/ Task(r) \/ Chunk(r) \/ Cancel(r)

Spec == Init /\ [][Next]_vars

(* Fair: time goes on, waits and back-offs end, and an attempt ends one way
   or another (the HTTP client has a timeout).  Nobody has to start or cancel. *)
FairSpec == Spec /\ WF_vars(Tick) /\ \A r \in Requests : WF_vars(Task(r))
-----------------------------------------------------------------------------
Active == {"semaphore", "waiting", "post", "streaming", "backoff"}
Settled == {"done", "failed", "cancelled"}

TypeOK ==
  /\ <<api, cap, handler>> \in Configs
  /\ req \in [Requests -> [kind : {"post", "stream"},
                           pc : {"idle"} \cup Active \cup Settled,
                           attempt : 0..MaxRetries, overload : 0..OverloadBackoffs,
                           left : 0..Window]]
  /\ out \in [Requests -> Seq([ev : {"delta", "stop"}, at : 0..(MaxChunks + 1)])]
  /\ tail \in [Requests -> [chunks : 0..MaxChunks, held : BOOLEAN, usage : BOOLEAN]]
  /\ stamps \in Seq(0..Window) /\ slots \in 0..cap
  /\ attempt \in Nat /\ overload \in Nat

(* No more than MaxRequests attempts are sent within any window, however
   requests, their retries and their cancellations interleave, and although
   every waiter sleeps without the lock and looks again. *)
WindowCap == Len(admitted) <= MaxRequests

(* A consumer sees at most one stop, after everything else, and only of a
   stream that ran to its end: an attempt that breaks off after its finish
   chunk, and is repeated, must not have handed its stop on.  The stop carries
   the usage if the stream reported any, also after finish_reason. *)
StopLast ==
  \A r \in Requests : \A i \in DOMAIN out[r] :
    out[r][i].ev = "stop" =>
      /\ i = Len(out[r]) /\ req[r].pc = "done"
      /\ out[r][i].at = IF tail[r].usage THEN 1 ELSE 0

(* Every request comes to an end: a slot that a cancelled or failed request
   kept, or a retry nobody counts, would leave it or the others hanging. *)
Settles == \A r \in Requests : req[r].pc \in Active ~> req[r].pc \in Settled

(* "Retries are honored only when the failure happens before the first event
   yields" (openai_compat.py, _stream_with_retry): no event is given twice. *)
NoEventTwice ==
  \A r \in Requests : \A i, j \in DOMAIN out[r] : out[r][i] = out[r][j] => i = j
=============================================================================
