------------------------------- MODULE SdkStream -------------------------------
(***************************************************************************)
(* The live stream of the two SDKs, IntensityStream in Rust, streamEvents  *)
(* in TypeScript: a connection read with a deadline that any byte re-arms, *)
(* and opened again after a delay that doubles.  The caller polls when it  *)
(* likes; time passes between two polls, and so may a deadline whose bytes *)
(* are already there.  In TypeScript a poll is a turn of the event loop,   *)
(* the caller is waited for once it has been handed an event, and a        *)
(* deadline that has passed may win over what is already there.            *)
(*                                                                         *)
(* The server is the one of HttpServer seen from a client: a permit per    *)
(* stream, a refusal when none is left, a keep-alive, a clean end when it  *)
(* stops.  It holds the permit of a connection the client has dropped      *)
(* until a write fails.  The network may reset a connection, or swallow    *)
(* everything on it without a word (cut).                                  *)
(***************************************************************************)
EXTENDS Integers, Sequences

CONSTANTS
    Sdks,            \* "rust", "typescript"
    Policies,        \* Reconnect: "enabled", "disabled"
    InitialBackoff, MaxBackoff,
    ConnectTimeout,
    IdleTimeout,     \* StreamConfig.idle_timeout
    KeepAlive,       \* interval of the keep-alive of the server
    SseMax,          \* streams the server accepts
    Unread,          \* bound: frames the client has not read
    MaxFaults        \* bound: resets, cuts and closes of connections

StreamAssumption ==
    /\ Sdks \subseteq {"rust", "typescript"} /\ Policies \subseteq {"enabled", "disabled"}
    /\ InitialBackoff \in Nat /\ MaxBackoff \in Nat
    /\ ConnectTimeout \in Nat \ {0} /\ SseMax \in Nat \ {0} /\ Unread \in Nat \ {0}
    /\ KeepAlive \in Nat \ {0} /\ IdleTimeout \in Nat /\ KeepAlive < IdleTimeout
    /\ MaxFaults \in Nat

VARIABLES
    sdk, policy,
    state,     \* State of IntensityStream; "yielded": the caller has an event
    timer,     \* ticks before the deadline or the end of the sleep of that state
    backoff,   \* the next delay
    conn,      \* the connection: no answer yet, its headers, its stream, its end
    cut,       \* nothing arrives any more on that connection
    unread,    \* frames received and not read
    quiet,     \* ticks since something arrived, at most IdleTimeout
    server,    \* "up" or "down"
    others,    \* permits of the other clients
    held,      \* the server has a permit out for this connection
    ghosts,    \* permits of connections this client has dropped
    failures,  \* history: failures since a connection last opened, up to MaxBackoff + 1
    faults     \* history: faults of the network so far

stream == <<sdk, policy, state, timer, backoff, failures>>
network == <<conn, cut, unread, quiet>>
served == <<server, others, held, ghosts>>
vars == <<stream, network, served, faults>>

(* What a frame is for the parser and the decoder. *)
Frames == {"comment", "intensity", "other", "undecodable", "malformed"}

Least(a, b) == IF a < b THEN a ELSE b

(* The deadline of the answer: its own in Rust, that of the stream in       *)
(* TypeScript.                                                              *)
HeadersTimeout == IF sdk = "rust" THEN ConnectTimeout ELSE IdleTimeout

Pending == {"asked", "accepted", "busy", "denied", "body", "open"}

Permit(b) == IF b THEN 1 ELSE 0
Free == SseMax - others - ghosts - Permit(held)
-----------------------------------------------------------------------------
Init ==
    /\ sdk \in Sdks /\ policy \in Policies
    /\ state = "connecting" /\ conn = "asked"
    /\ timer = HeadersTimeout
    /\ backoff = IF policy = "enabled" THEN InitialBackoff ELSE 0
    /\ cut = FALSE /\ unread = <<>> /\ quiet = 0
    /\ server \in {"up", "down"} /\ others = 0
    /\ held = FALSE /\ ghosts = 0
    /\ failures = 0 /\ faults = 0

(* next_backoff: the delay of an attempt, and the one of the next.  Rust    *)
(* sleeps for a first delay greater than the cap, TypeScript does not.       *)
Slept(delay) == IF sdk = "rust" THEN delay ELSE Least(delay, MaxBackoff)

NotDoubled(delay) == delay

Doubled(delay) == Least(2 * delay, MaxBackoff)

(* The future or the stream is dropped, and with it the connection: the     *)
(* server does not know it yet.                                             *)
Drop ==
    /\ failures' = Least(failures + 1, MaxBackoff + 1)
    /\ conn' = "none" /\ cut' = FALSE /\ unread' = <<>> /\ quiet' = 0
    /\ held' = FALSE /\ ghosts' = ghosts + Permit(held)
    /\ UNCHANGED <<sdk, policy, server, others, faults>>

End(how) == state' = how /\ timer' = 0 /\ UNCHANGED backoff /\ Drop

(* A delay before the next attempt, or the end. *)
Fail ==
    \/ /\ policy = "enabled"
       /\ state' = "waiting" /\ timer' = Slept(backoff) /\ backoff' = Doubled(backoff)
       /\ Drop
    \/ policy = "disabled" /\ End("done")

(* A refusal.  Rust reads its body until it ends or breaks, without a       *)
(* deadline, and tries again whatever the status.  TypeScript tries again   *)
(* after a transient status, its body left unread, and throws after another, *)
(* its body read, broken or given up in time.                                *)
Refused ==
    /\ state = "connecting" /\ conn \in {"busy", "denied"}
    /\ IF sdk = "typescript" /\ policy = "enabled" /\ conn = "busy" THEN Fail
       ELSE /\ conn' = "body"
            /\ timer' = IdleTimeout
            /\ UNCHANGED <<sdk, policy, state, backoff, failures, cut, unread, quiet, served, faults>>

RefusalRead ==
    /\ state = "connecting" /\ conn = "body"
    /\ IF sdk = "rust" THEN ~cut /\ Fail
       ELSE (~cut \/ timer = 0) /\ End("done")

(* connect: the answer is looked at before the deadline in Rust, settle     *)
(* lets the first of the two win.                                            *)
ConnectFailsNoDeadline == state = "connecting" /\ conn = "broken" /\ Fail

ConnectFails ==
    /\ state = "connecting"
    /\ \/ conn = "broken"
       \/ conn = "asked" /\ timer = 0
       \/ sdk = "typescript" /\ conn \in {"accepted", "busy", "denied"} /\ timer = 0
    /\ Fail

Opened ==
    /\ state = "connecting" /\ conn = "accepted"
    /\ state' = "streaming" /\ conn' = "open"
    /\ timer' = IdleTimeout
    /\ backoff' = IF policy = "enabled" THEN InitialBackoff ELSE backoff
    /\ failures' = 0
    /\ UNCHANGED <<sdk, policy, cut, unread, quiet, served, faults>>

(* A frame is read: only a malformed frame ends the connection, in Rust.    *)
(* The others are an item, or skipped, and the deadline goes on; in          *)
(* TypeScript a frame with data is handed to the caller, and there is no     *)
(* deadline until the next read.                                             *)
ReadFrame ==
    /\ state = "streaming" /\ unread # <<>>
    /\ IF Head(unread) = "malformed" /\ sdk = "rust" THEN Fail
       ELSE /\ unread' = Tail(unread)
            /\ \/ state' = state /\ timer' = IdleTimeout
               \/ /\ sdk = "typescript" /\ Head(unread) \in {"intensity", "other", "malformed"}
                  /\ state' = "yielded" /\ timer' = 0
            /\ UNCHANGED <<sdk, policy, backoff, failures, conn, cut, quiet, served, faults>>

Resumed ==
    /\ state = "yielded"
    /\ state' = "streaming" /\ timer' = IdleTimeout
    /\ UNCHANGED <<sdk, policy, backoff, failures, network, served, faults>>

(* with_idle_timeout: the deadline counts only when nothing can be read; in *)
(* TypeScript it races the read.                                             *)
IdleElapsedFirst == timer = 0

IdleElapsed == timer = 0 /\ (unread = <<>> \/ sdk = "typescript")

(* What was not read of a broken connection is lost in TypeScript. *)
StreamEnds ==
    /\ state = "streaming"
    /\ \/ conn \in {"ended", "broken"} /\ unread = <<>>
       \/ conn = "broken" /\ sdk = "typescript"
       \/ IdleElapsed
    /\ Fail

Retry ==
    /\ state = "waiting" /\ timer = 0
    /\ state' = "connecting" /\ conn' = "asked"
    /\ timer' = HeadersTimeout
    /\ UNCHANGED <<sdk, policy, backoff, failures, cut, unread, quiet, served, faults>>

Poll == Refused \/ RefusalRead \/ ConnectFails \/ Opened \/ ReadFrame \/ Resumed \/ StreamEnds \/ Retry

(* The caller drops the stream, or aborts its signal. *)
Abort == state \notin {"done", "dropped"} /\ End("dropped")
-----------------------------------------------------------------------------
(* A keep-alive that is due is sent before the clock moves on. *)
Due == conn = "open" /\ held /\ ~cut /\ quiet >= KeepAlive /\ Len(unread) < Unread

Tick ==
    /\ ~Due
    /\ timer' = IF timer = 0 THEN 0 ELSE timer - 1
    /\ quiet' = IF conn = "open" THEN Least(quiet + 1, IdleTimeout) ELSE 0
    /\ UNCHANGED <<sdk, policy, state, backoff, failures, conn, cut, unread, served, faults>>

(* SseLimiter: a permit and an open stream, or a transient refusal; or the  *)
(* request is refused for good (its key was revoked).                       *)
Answer ==
    /\ conn = "asked" /\ ~cut
    /\ IF server = "down" THEN conn' = "broken" /\ UNCHANGED held
       ELSE IF Free > 0 THEN conn' = "accepted" /\ held' = TRUE
       ELSE conn' = "busy" /\ UNCHANGED held
    /\ UNCHANGED <<stream, cut, unread, quiet, server, others, ghosts, faults>>

Deny ==
    /\ conn = "asked" /\ ~cut /\ server = "up"
    /\ faults < MaxFaults /\ faults' = faults + 1
    /\ conn' = "denied"
    /\ UNCHANGED <<stream, cut, unread, quiet, served>>

AnswerLost ==
    /\ conn = "asked" /\ cut /\ ~held /\ server = "up" /\ Free > 0
    /\ held' = TRUE
    /\ UNCHANGED <<stream, network, server, others, ghosts, faults>>

Send(frame) ==
    /\ conn = "open" /\ held /\ ~cut /\ Len(unread) < Unread
    /\ IF frame = "malformed" THEN faults < MaxFaults /\ faults' = faults + 1
       ELSE UNCHANGED faults
    /\ unread' = Append(unread, frame)
    /\ quiet' = 0
    /\ UNCHANGED <<stream, conn, cut, served>>

KeepAliveSent == Due /\ Send("comment")

(* Everything is swallowed from now on; or the connection is reset (while   *)
(* the body of a refusal is read, that is its end); or the server ends the   *)
(* stream it has just opened.                                                *)
Fault ==
    /\ faults < MaxFaults /\ faults' = faults + 1
    /\ ~cut /\ UNCHANGED <<stream, unread, quiet, server, others, ghosts>>
    /\ \/ conn \in Pending
          /\ cut' = TRUE /\ UNCHANGED <<conn, held>>
       \/ conn \in Pending \ {"body"}
          /\ conn' = "broken" /\ UNCHANGED <<cut, held>>
       \/ conn = "open" /\ held
          /\ conn' = "ended" /\ held' = FALSE /\ UNCHANGED cut

(* The server stops, its streams end; it starts again. *)
Stop ==
    /\ server = "up" /\ server' = "down"
    /\ conn' = CASE cut -> conn
                 [] conn = "open" -> "ended"
                 [] conn \in {"asked", "accepted"} -> "broken"
                 [] OTHER -> conn
    /\ others' = 0 /\ ghosts' = 0 /\ held' = FALSE
    /\ UNCHANGED <<stream, cut, unread, quiet, faults>>

Restart ==
    /\ server = "down" /\ server' = "up"
    /\ UNCHANGED <<stream, network, others, held, ghosts, faults>>

(* The other clients come and go. *)
OthersMove ==
    /\ server = "up"
    /\ \/ Free > 0 /\ others' = others + 1
       \/ others > 0 /\ others' = others - 1
    /\ UNCHANGED <<stream, network, server, held, ghosts, faults>>

(* A write to a dropped connection fails, or its peer is given up.          *)
GhostGone ==
    /\ ghosts > 0 /\ ghosts' = ghosts - 1
    /\ UNCHANGED <<stream, network, server, others, held, faults>>

Next ==
    \/ Poll \/ Abort \/ Tick \/ Answer \/ Deny \/ AnswerLost \/ KeepAliveSent
    \/ Fault \/ Stop \/ Restart \/ OthersMove \/ GhostGone
    \/ \E f \in Frames : Send(f)

Spec == Init /\ [][Next]_vars

(* The caller polls, time passes, the server sends its keep-alive and       *)
(* notices the connections it has lost; it does not answer always after the *)
(* deadline, and the event loop does not look at every answer after it       *)
(* (strong: the attempts keep coming).                                       *)
FairSpec ==
    /\ Spec
    /\ WF_vars(Poll) /\ WF_vars(Tick) /\ SF_vars(Answer) /\ SF_vars(Opened)
    /\ WF_vars(KeepAliveSent) /\ WF_vars(GhostGone)
-----------------------------------------------------------------------------
(* Shape of the state; no permit is given twice or lost.                    *)
TypeOK ==
    /\ sdk \in Sdks /\ policy \in Policies
    /\ state \in {"connecting", "streaming", "yielded", "waiting", "done", "dropped"}
    /\ timer \in Nat /\ backoff \in Nat
    /\ conn \in {"none", "asked", "accepted", "busy", "denied", "body", "open", "ended",
                "broken"}
    /\ state \in {"waiting", "done", "dropped"} <=> conn = "none"
    /\ Len(unread) <= Unread /\ quiet \in 0 .. IdleTimeout
    /\ others + ghosts + Permit(held) <= SseMax
    /\ failures \in 0 .. MaxBackoff + 1 /\ faults \in 0 .. MaxFaults

Delay(n) ==
    IF sdk = "rust" /\ n = 0 THEN InitialBackoff ELSE Least(InitialBackoff * 2 ^ n, MaxBackoff)

(* The delay before an attempt is fixed by the failures since a connection  *)
(* last opened: InitialBackoff, doubled by each, and none exceeds            *)
(* MaxBackoff but the first of Rust, which is InitialBackoff even when that  *)
(* is greater.  A server that accepts and closes is called again after that  *)
(* first delay, never sooner.                                                *)
DelayFitsFailures ==
    [][state # "waiting" /\ state' = "waiting" => timer' = Delay(failures)]_vars

(* A caller that polls late, or a quiet grid, never costs a live            *)
(* connection: it is given up only when it has ended, or is broken, or      *)
(* nothing arrives on it any more, or a frame is malformed; or, in           *)
(* TypeScript, when the event loop comes back after the deadline with bytes  *)
(* already there, and turns to the deadline first.                           *)
GivesUpForCause ==
    [][state = "streaming" /\ state' = "waiting" =>
          \/ conn \in {"ended", "broken"}
          \/ cut
          \/ unread # <<>> /\ (IF sdk = "rust" THEN Head(unread) = "malformed" ELSE timer = 0)]_vars

Healthy == server = "up" /\ others = 0

(* Whatever was lost before, a client that reconnects streams again as long *)
(* as the server has room for it, and is not locked out by its own dropped  *)
(* connections; except, in Rust, while the body of a refusal is awaited,    *)
(* which no deadline bounds, and in TypeScript after a definitive refusal.  *)
ComesBack ==
    (policy = "enabled" /\ <>[]Healthy) =>
        \/ []<>(state = "streaming")
        \/ <>(state = "dropped")
        \/ <>(sdk = "typescript" /\ state = "done")
        \/ <>[](sdk = "rust" /\ conn = "body" /\ cut)
=============================================================================
