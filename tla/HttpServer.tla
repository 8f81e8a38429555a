------------------------------- MODULE HttpServer -------------------------------
(***************************************************************************)
(* The HTTP process: serve_http (the accept loop, the slots of the         *)
(* connections, the drain), the SSE streams that hold a permit and read    *)
(* the broadcast channel of the poller, and the select of run_server that  *)
(* ends the process.                                                       *)
(*                                                                         *)
(* A request is one step to be answered: its content is another module's.  *)
(* A client has one connection at a time; seen[c] is what it has received  *)
(* on all of them.                                                         *)
(***************************************************************************)
EXTENDS Naturals, FiniteSets, Sequences

CONSTANTS
    Clients,
    MaxConnections,   \* HttpServerLimits.max_connections
    SseMax,           \* SseLimiter::new(sse_max_connections)
    RingCap,          \* capacity of the broadcast channel
    MaxStamp          \* bound: instants measured

ASSUME ServerAssumption ==
    /\ IsFiniteSet(Clients)
    /\ MaxConnections \in Nat \ {0} /\ SseMax \in Nat \ {0}
    /\ RingCap \in Nat \ {0} /\ MaxStamp \in Nat

VARIABLES
    exit,        \* how the process ended, "no" while it runs
    cancelled,   \* the shutdown token
    loop,        \* where serve_http is
    slots,       \* available permits of the connections
    permits,     \* available permits of SseLimiter
    conn,        \* conn[c]: where the connection of c is
    pending,     \* pending[c]: updates its broadcast receiver has not read
    latest,      \* instant of the latest national measurement, 0 without
    seen         \* history: instant of the last event c received

vars == <<exit, cancelled, loop, slots, permits, conn, pending, latest, seen>>

Held == {c \in Clients : conn[c] \in {"streaming", "lost"}}
Served == {c \in Clients : conn[c] \in {"idle", "handling"}} \cup Held
Accepting == exit = "no" /\ loop \in {"slot", "accept"}

(* The connection of c ends: its task drops the slot and, with the body of  *)
(* a stream, its permit.                                                    *)
Close(c) ==
    /\ conn' = [conn EXCEPT ![c] = "none"]
    /\ pending' = [pending EXCEPT ![c] = <<>>]
    /\ slots' = slots + 1
    /\ permits' = IF c \in Held THEN permits + 1 ELSE permits

(* A response is complete: the connection is kept alive, except in a drain. *)
Complete(c) ==
    IF loop = "drain" THEN Close(c)
    ELSE /\ conn' = [conn EXCEPT ![c] = "idle"]
         /\ pending' = [pending EXCEPT ![c] = <<>>]
         /\ permits' = IF c \in Held THEN permits + 1 ELSE permits
         /\ UNCHANGED slots

(* A lagging receiver resumes from the oldest update the channel still has. *)
Received(unread, stamp) ==
    Append(IF Len(unread) < RingCap THEN unread ELSE Tail(unread), stamp)
-----------------------------------------------------------------------------
Init ==
    /\ exit = "no"
    /\ cancelled = FALSE
    /\ loop = "slot"
    /\ slots = MaxConnections
    /\ permits = SseMax
    /\ conn = [c \in Clients |-> "none"]
    /\ pending = [c \in Clients |-> <<>>]
    /\ latest = 0
    /\ seen = [c \in Clients |-> 0]

(* A client opens a connection, or gives up before it is accepted.          *)
Connect(c) ==
    /\ Accepting /\ conn[c] = "none"
    /\ conn' = [conn EXCEPT ![c] = "backlog"]
    /\ UNCHANGED <<exit, cancelled, loop, slots, permits, pending, latest, seen>>

LeaveBacklog(c) ==
    /\ exit = "no" /\ conn[c] = "backlog"
    /\ conn' = [conn EXCEPT ![c] = "none"]
    /\ UNCHANGED <<exit, cancelled, loop, slots, permits, pending, latest, seen>>

(* The accept loop: a slot first, then a connection for it; the token is    *)
(* looked at before both.                                                   *)
TakeSlot ==
    /\ exit = "no" /\ loop = "slot" /\ ~cancelled /\ slots > 0
    /\ loop' = "accept"
    /\ slots' = slots - 1
    /\ UNCHANGED <<exit, cancelled, permits, conn, pending, latest, seen>>

Accept(c) ==
    /\ exit = "no" /\ loop = "accept" /\ ~cancelled /\ conn[c] = "backlog"
    /\ conn' = [conn EXCEPT ![c] = "idle"]
    /\ loop' = "slot"
    /\ UNCHANGED <<exit, cancelled, slots, permits, pending, latest, seen>>

AcceptFails ==
    /\ exit = "no" /\ loop = "accept" /\ ~cancelled
    /\ loop' = "slot"
    /\ slots' = slots + 1
    /\ UNCHANGED <<exit, cancelled, permits, conn, pending, latest, seen>>

(* The listener is dropped, and with it what nobody has accepted.           *)
StopAccepting ==
    /\ Accepting /\ cancelled
    /\ loop' = "drain"
    /\ slots' = IF loop = "accept" THEN slots + 1 ELSE slots
    /\ conn' = [c \in Clients |-> IF conn[c] = "backlog" THEN "none" ELSE conn[c]]
    /\ UNCHANGED <<exit, cancelled, permits, pending, latest, seen>>

Request(c) ==
    /\ exit = "no" /\ conn[c] = "idle"
    /\ conn' = [conn EXCEPT ![c] = "handling"]
    /\ UNCHANGED <<exit, cancelled, loop, slots, permits, pending, latest, seen>>

(* Any answer but an open stream, the refusals for load and the 503 of      *)
(* request_timeout included.                                                *)
Respond(c) ==
    /\ exit = "no" /\ conn[c] = "handling"
    /\ Complete(c)
    /\ UNCHANGED <<exit, cancelled, loop, latest, seen>>

(* GET /v1/intensity/stream under the cap: the receiver only gets what is   *)
(* published from now on, and the permit goes with the body.                *)
OpenStreamFreed(c) ==
    /\ exit = "no" /\ conn[c] = "handling" /\ permits > 0
    /\ conn' = [conn EXCEPT ![c] = "streaming"]
    /\ UNCHANGED <<exit, cancelled, loop, slots, permits, pending, latest, seen>>

OpenStream(c) ==
    /\ exit = "no" /\ conn[c] = "handling" /\ permits > 0
    /\ conn' = [conn EXCEPT ![c] = "streaming"]
    /\ permits' = permits - 1
    /\ UNCHANGED <<exit, cancelled, loop, slots, pending, latest, seen>>

(* A cycle of the poller sends the latest national measurement, new or not. *)
PublishAny ==
    /\ exit = "no"
    /\ \E stamp \in 1 .. MaxStamp :
          /\ stamp <= latest + 1
          /\ latest' = IF stamp > latest THEN stamp ELSE latest
          /\ pending' = [c \in Clients |->
                            IF conn[c] = "streaming" THEN Received(pending[c], stamp) ELSE pending[c]]
    /\ UNCHANGED <<exit, cancelled, loop, slots, permits, conn, seen>>

Publish ==
    /\ exit = "no"
    /\ \E stamp \in {latest, latest + 1} \cap (1 .. MaxStamp) :
          /\ latest' = stamp
          /\ pending' = [c \in Clients |->
                            IF conn[c] = "streaming" THEN Received(pending[c], stamp) ELSE pending[c]]
    /\ UNCHANGED <<exit, cancelled, loop, slots, permits, conn, seen>>

(* The next update, sent unless the filters of the stream exclude it.       *)
Deliver(c) ==
    /\ exit = "no" /\ ~cancelled /\ conn[c] = "streaming" /\ pending[c] # <<>>
    /\ pending' = [pending EXCEPT ![c] = Tail(pending[c])]
    /\ \/ seen' = [seen EXCEPT ![c] = Head(pending[c])]
       \/ UNCHANGED seen
    /\ UNCHANGED <<exit, cancelled, loop, slots, permits, conn, latest>>

(* take_until: the token ends every stream.                                 *)
EndStreamNever(c) == FALSE /\ UNCHANGED vars

EndStream(c) ==
    /\ exit = "no" /\ cancelled /\ conn[c] = "streaming"
    /\ Complete(c)
    /\ UNCHANGED <<exit, cancelled, loop, latest, seen>>

(* The client closes, or disappears: the connection and the permit of its   *)
(* stream then stay until the kernel gives up.                              *)
ClientCloses(c) ==
    /\ exit = "no" /\ c \in Served /\ conn[c] # "lost"
    /\ Close(c)
    /\ UNCHANGED <<exit, cancelled, loop, latest, seen>>

Vanish(c) ==
    /\ exit = "no" /\ conn[c] = "streaming"
    /\ conn' = [conn EXCEPT ![c] = "lost"]
    /\ pending' = [pending EXCEPT ![c] = <<>>]
    /\ UNCHANGED <<exit, cancelled, loop, slots, permits, latest, seen>>

GiveUp(c) ==
    /\ exit = "no" /\ conn[c] = "lost"
    /\ Close(c)
    /\ UNCHANGED <<exit, cancelled, loop, latest, seen>>

(* header_read_timeout between two requests; in a drain at once.            *)
HeaderTimeoutNever(c) ==
    /\ exit = "no" /\ loop = "drain" /\ conn[c] = "idle"
    /\ Close(c)
    /\ UNCHANGED <<exit, cancelled, loop, latest, seen>>

HeaderTimeout(c) ==
    /\ exit = "no" /\ conn[c] = "idle"
    /\ Close(c)
    /\ UNCHANGED <<exit, cancelled, loop, latest, seen>>

(* SIGTERM or SIGINT.                                                       *)
Signal ==
    /\ exit = "no" /\ ~cancelled
    /\ cancelled' = TRUE
    /\ UNCHANGED <<exit, loop, slots, permits, conn, pending, latest, seen>>

(* The select of run_server: the server has drained, the grace is over, or  *)
(* one of the tasks has stopped.                                            *)
Drained ==
    /\ exit = "no" /\ loop = "drain" /\ Served = {}
    /\ exit' = "drained"
    /\ UNCHANGED <<cancelled, loop, slots, permits, conn, pending, latest, seen>>

GraceOver ==
    /\ exit = "no" /\ cancelled
    /\ exit' = "forced"
    /\ UNCHANGED <<cancelled, loop, slots, permits, conn, pending, latest, seen>>

TaskStops ==
    /\ exit = "no"
    /\ exit' = "failed"
    /\ UNCHANGED <<cancelled, loop, slots, permits, conn, pending, latest, seen>>

Restart ==
    /\ exit # "no"
    /\ exit' = "no" /\ cancelled' = FALSE /\ loop' = "slot"
    /\ slots' = MaxConnections /\ permits' = SseMax
    /\ conn' = [c \in Clients |-> "none"]
    /\ pending' = [c \in Clients |-> <<>>]
    /\ UNCHANGED <<latest, seen>>

Step(c) ==
    \/ Connect(c) \/ LeaveBacklog(c) \/ Accept(c)
    \/ Request(c) \/ Respond(c) \/ OpenStream(c) \/ Deliver(c) \/ EndStream(c)
    \/ ClientCloses(c) \/ Vanish(c) \/ GiveUp(c) \/ HeaderTimeout(c)

Next ==
    \/ TakeSlot \/ AcceptFails \/ StopAccepting
    \/ Publish \/ Signal \/ Drained \/ GraceOver \/ TaskStops \/ Restart
    \/ \E c \in Clients : Step(c)

Spec == Init /\ [][Next]_vars

(* The runtime schedules every task, every request ends (request_timeout)   *)
(* and its answer is read, the kernel gives up on a lost peer; accept is    *)
(* first come, first served; and a kept-alive client pauses now and then    *)
(* for longer than header_read_timeout.  Nothing is assumed of GraceOver,   *)
(* nor of a client that it ever closes.                                     *)
Fairness ==
    /\ WF_vars(TakeSlot) /\ WF_vars(StopAccepting) /\ WF_vars(Drained)
    /\ \A c \in Clients :
          /\ WF_vars(Respond(c)) /\ WF_vars(EndStream(c)) /\ WF_vars(GiveUp(c))
          /\ SF_vars(Accept(c)) /\ SF_vars(HeaderTimeout(c))

FairSpec == Spec /\ Fairness

-----------------------------------------------------------------------------
ConnStates == {"none", "backlog", "idle", "handling", "streaming", "lost"}

TypeOK ==
    /\ exit \in {"no", "drained", "forced", "failed"}
    /\ cancelled \in BOOLEAN
    /\ loop \in {"slot", "accept", "drain"}
    /\ slots \in Nat /\ permits \in Nat
    /\ conn \in [Clients -> ConnStates]
    /\ pending \in [Clients -> Seq(Nat)]
    /\ latest \in Nat /\ seen \in [Clients -> Nat]

(* The books of both semaphores balance on every path a connection can      *)
(* take: nothing leaks when a client closes, disappears, is timed out or    *)
(* drained, and neither cap is ever exceeded.                               *)
CapsKept ==
    /\ slots + Cardinality(Served) + (IF loop = "accept" THEN 1 ELSE 0) = MaxConnections
    /\ permits + Cardinality(Held) = SseMax

(* A client never receives an event older than one it has received, over    *)
(* lags, reconnections and restarts of the server.                          *)
ForwardOnly == [][\A c \in Clients : seen'[c] >= seen[c]]_vars

(* The shutdown ends by itself: the open streams, the idle connections and  *)
(* the backlog do not hold it until the grace period is over.               *)
DrainEnds == cancelled ~> exit # "no"

(* A waiting client is accepted in the end, however long the streams last,  *)
(* since they cannot take every slot; or the process stops.                 *)
BacklogServed ==
    SseMax < MaxConnections =>
        \A c \in Clients : conn[c] = "backlog" ~> (conn[c] # "backlog" \/ cancelled \/ exit # "no")
=============================================================================
