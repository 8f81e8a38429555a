---------------------------- MODULE HttpServerProofs ----------------------------
(***************************************************************************)
(* Proofs about HttpServer for any number of clients, slots, permits and   *)
(* any capacity of the channel: the balance of both semaphores, and the    *)
(* order in which a client receives events; then about SdkStream, the      *)
(* client of such a stream: what it gives a connection up for, and how     *)
(* long it waits before the next; and about ApiContract, the requests of    *)
(* the client libraries and their answers: how much is read for one, on     *)
(* which basis, what a call is never refused for, and that what the server *)
(* writes is read.                                                          *)
(***************************************************************************)
EXTENDS HttpServer, StreamClient, ApiContract, FiniteSetTheorems, TLAPS

-----------------------------------------------------------------------------
(* Types. *)
LEMMA ReceivedType ==
    ASSUME NEW unread \in Seq(Nat), NEW stamp \in Nat
    PROVE  Received(unread, stamp) \in Seq(Nat)
<1>1. CASE Len(unread) < RingCap
  <2>1. Received(unread, stamp) = Append(unread, stamp)
    BY <1>1 DEF Received
  <2> QED  BY <2>1
<1>2. CASE ~(Len(unread) < RingCap)
  <2>1. unread # <<>>
    BY <1>2, ServerAssumption
  <2>2. Tail(unread) \in Seq(Nat)
    BY <2>1
  <2>3. Received(unread, stamp) = Append(Tail(unread), stamp)
    BY <1>2 DEF Received
  <2> QED  BY <2>2, <2>3
<1> QED  BY <1>1, <1>2

(* The part of TypeOK that is about the receivers, and the rest. *)
PendingOK == pending \in [Clients -> Seq(Nat)]

OtherOK ==
    /\ exit \in {"no", "drained", "forced", "failed"}
    /\ cancelled \in BOOLEAN
    /\ loop \in {"slot", "accept", "drain"}
    /\ slots \in Nat /\ permits \in Nat
    /\ conn \in [Clients -> ConnStates]
    /\ latest \in Nat /\ seen \in [Clients -> Nat]

LEMMA TypeParts == (TypeOK <=> OtherOK /\ PendingOK) /\ (TypeOK' <=> OtherOK' /\ PendingOK')
BY DEF TypeOK, OtherOK, PendingOK

LEMMA NoneUnread == <<>> \in Seq(Nat)
OBVIOUS

LEMMA TypeInit == Init => TypeOK
<1> SUFFICES ASSUME Init PROVE OtherOK /\ PendingOK
  BY TypeParts
<1>1. PendingOK
  BY NoneUnread DEF Init, PendingOK
<1> QED  BY <1>1, ServerAssumption DEF Init, OtherOK, ConnStates

LEMMA PendingNext == PendingOK /\ OtherOK /\ [Next]_vars => PendingOK'
<1> SUFFICES ASSUME PendingOK, OtherOK, [Next]_vars PROVE PendingOK'
  OBVIOUS
<1>1. CASE UNCHANGED pending
  BY <1>1 DEF PendingOK
<1>2. ASSUME NEW c \in Clients, NEW unread \in Seq(Nat),
             pending' = [pending EXCEPT ![c] = unread]
      PROVE  PendingOK'
  BY <1>2 DEF PendingOK
<1>3. CASE Restart
  BY <1>3, NoneUnread DEF Restart, PendingOK
<1>4. CASE Publish
  <2>1. PICK stamp \in {latest, latest + 1} \cap (1 .. MaxStamp) :
           pending' = [c \in Clients |->
                 IF conn[c] = "streaming" THEN Received(pending[c], stamp) ELSE pending[c]]
    BY <1>4 DEF Publish
  <2>2. stamp \in Nat
    BY DEF OtherOK
  <2>3. \A c \in Clients : pending[c] \in Seq(Nat)
    BY DEF PendingOK
  <2>4. \A c \in Clients : Received(pending[c], stamp) \in Seq(Nat)
    BY <2>2, <2>3, ReceivedType
  <2> QED  BY <2>1, <2>3, <2>4, Zenon DEF PendingOK
<1>5. ASSUME NEW c \in Clients, Deliver(c) PROVE PendingOK'
  <2>1. pending[c] \in Seq(Nat) /\ pending[c] # <<>>
    BY <1>5 DEF PendingOK, Deliver
  <2>2. Tail(pending[c]) \in Seq(Nat)
    BY <2>1
  <2> QED  BY <1>2, <1>5, <2>2 DEF Deliver
<1>6. ASSUME NEW c \in Clients, Step(c), ~Deliver(c) PROVE PendingOK'
  <2>1. pending' = pending \/ pending' = [pending EXCEPT ![c] = <<>>]
    BY <1>6 DEF Step, Connect, LeaveBacklog, Accept, Request, Respond, OpenStream, EndStream,
                ClientCloses, Vanish, GiveUp, HeaderTimeout, Complete, Close
  <2> QED  BY <1>1, <1>2, <2>1, NoneUnread
<1>7. CASE UNCHANGED vars \/ TakeSlot \/ AcceptFails \/ StopAccepting \/ Signal \/ Drained
           \/ GraceOver \/ TaskStops
  BY <1>1, <1>7 DEF vars, TakeSlot, AcceptFails, StopAccepting, Signal, Drained, GraceOver, TaskStops
<1> QED  BY <1>3, <1>4, <1>5, <1>6, <1>7 DEF Next

LEMMA OtherNext == PendingOK /\ OtherOK /\ [Next]_vars => OtherOK'
<1> SUFFICES ASSUME PendingOK, OtherOK, [Next]_vars PROVE OtherOK'
  OBVIOUS
<1> USE ServerAssumption DEF OtherOK
<1>1. CASE UNCHANGED vars
  BY <1>1 DEF vars
<1>2. CASE TakeSlot \/ AcceptFails
  BY <1>2 DEF TakeSlot, AcceptFails
<1>3. CASE Signal \/ Drained \/ GraceOver \/ TaskStops
  BY <1>3, Zenon DEF Signal, Drained, GraceOver, TaskStops
<1>6. CASE StopAccepting
  <2>1. \A c \in Clients : (IF conn[c] = "backlog" THEN "none" ELSE conn[c]) \in ConnStates
    BY DEF ConnStates
  <2>2. conn' \in [Clients -> ConnStates]
    BY <1>6, <2>1, Zenon DEF StopAccepting
  <2>3. slots' \in Nat
    BY <1>6 DEF StopAccepting
  <2> QED  BY <1>6, <2>2, <2>3, Zenon DEF StopAccepting
<1>7. CASE Restart
  <2>1. conn' \in [Clients -> ConnStates]
    BY <1>7 DEF Restart, ConnStates
  <2>2. slots' \in Nat /\ permits' \in Nat
    BY <1>7 DEF Restart
  <2> QED  BY <1>7, <2>1, <2>2, Zenon DEF Restart
<1>4. CASE Publish
  BY <1>4 DEF Publish
<1>5. ASSUME NEW c \in Clients, Step(c) PROVE OtherOK'
  <2>1. CASE Connect(c) \/ LeaveBacklog(c) \/ Accept(c) \/ Request(c) \/ OpenStream(c) \/ Vanish(c)
    BY <2>1 DEF ConnStates, Connect, LeaveBacklog, Accept, Request, OpenStream, Vanish
  <2>2. CASE Deliver(c)
    <3>1. Head(pending[c]) \in Nat
      <4>1. pending[c] \in Seq(Nat) /\ pending[c] # <<>>
        BY <2>2 DEF PendingOK, Deliver
      <4> QED  BY <4>1
    <3> QED  BY <2>2, <3>1 DEF Deliver
  <2>3. CASE Respond(c) \/ EndStream(c)
    BY <2>3 DEF ConnStates, Respond, EndStream, Complete, Close
  <2>4. CASE ClientCloses(c) \/ GiveUp(c) \/ HeaderTimeout(c)
    BY <2>4 DEF ConnStates, ClientCloses, GiveUp, HeaderTimeout, Close
  <2> QED  BY <1>5, <2>1, <2>2, <2>3, <2>4 DEF Step
<1> QED  BY <1>1, <1>2, <1>3, <1>4, <1>5, <1>6, <1>7 DEF Next

LEMMA TypeNext == TypeOK /\ [Next]_vars => TypeOK'
BY TypeParts, PendingNext, OtherNext

(* The shape of the state, in particular that no semaphore goes below zero. *)
THEOREM TypeCorrect == Spec => []TypeOK
BY TypeInit, TypeNext, PTL DEF Spec

-----------------------------------------------------------------------------
(* The two semaphores.  A step moves at most one connection in or out of    *)
(* the sets that hold them, or keeps both sets.                             *)
LEMMA Grown ==
    ASSUME NEW group \in SUBSET Clients, NEW c \in Clients \ group
    PROVE  Cardinality(group \cup {c}) = Cardinality(group) + 1
BY ServerAssumption, FS_Subset, FS_AddElement

LEMMA Shrunk ==
    ASSUME NEW group \in SUBSET Clients, NEW c \in group
    PROVE  Cardinality(group \ {c}) = Cardinality(group) - 1
BY ServerAssumption, FS_Subset, FS_RemoveElement

LEMMA Counted ==
    ASSUME NEW group \in SUBSET Clients
    PROVE  Cardinality(group) \in Nat
BY ServerAssumption, FS_Subset, FS_CardinalityType

(* The end of a connection: its slot and its permit come back. *)
LEMMA CloseBalance ==
    ASSUME TypeOK, CapsKept, NEW c \in Served, Close(c), loop' = loop
    PROVE  CapsKept'
<1> USE DEF Served, Held
<1>1. Served' = Served \ {c} /\ Held' = Held \ {c}
  BY DEF Close, TypeOK
<1>2. Served \in SUBSET Clients /\ Held \in SUBSET Clients
  OBVIOUS
<1> HIDE DEF Served, Held
<1>3. Cardinality(Served') = Cardinality(Served) - 1 /\ Cardinality(Served) \in Nat
  BY <1>1, <1>2, Shrunk, Counted
<1>4. permits' + Cardinality(Held') = SseMax
  <2>1. CASE c \in Held
    <3>1. Cardinality(Held') = Cardinality(Held) - 1 /\ Cardinality(Held) \in Nat
      BY <1>1, <1>2, <2>1, Shrunk, Counted
    <3> QED  BY <2>1, <3>1 DEF Close, CapsKept, TypeOK
  <2>2. CASE c \notin Held
    <3>1. Held' = Held
      BY <1>1, <2>2
    <3> QED  BY <2>2, <3>1 DEF Close, CapsKept, TypeOK
  <2> QED  BY <2>1, <2>2
<1> QED  BY <1>3, <1>4, ServerAssumption DEF Close, CapsKept, TypeOK

(* The end of a response: only its permit comes back. *)
LEMMA CompleteBalance ==
    ASSUME TypeOK, CapsKept, NEW c \in Served, Complete(c), loop' = loop
    PROVE  CapsKept'
<1>1. CASE loop = "drain"
  BY <1>1, CloseBalance DEF Complete
<1>2. CASE loop # "drain"
  <2>1. /\ conn' = [conn EXCEPT ![c] = "idle"] /\ slots' = slots
        /\ permits' = IF c \in Held THEN permits + 1 ELSE permits
    BY <1>2 DEF Complete
  <2>2. Served' = Served /\ Held' = Held \ {c} /\ Held \in SUBSET Clients
    BY <2>1 DEF Served, Held, TypeOK
  <2>3. permits' + Cardinality(Held') = SseMax
    <3>1. CASE c \in Held
      <4>1. Cardinality(Held') = Cardinality(Held) - 1 /\ Cardinality(Held) \in Nat
        BY <2>2, <3>1, Shrunk, Counted
      <4> QED  BY <2>1, <3>1, <4>1 DEF CapsKept, TypeOK
    <3>2. CASE c \notin Held
      <4>1. Held' = Held
        BY <2>2, <3>2
      <4> QED  BY <2>1, <3>2, <4>1 DEF CapsKept
    <3> QED  BY <3>1, <3>2
  <2> QED  BY <2>1, <2>2, <2>3 DEF CapsKept
<1> QED  BY <1>1, <1>2

LEMMA CapsInit == Init => CapsKept
<1> SUFFICES ASSUME Init PROVE CapsKept
  OBVIOUS
<1>1. Served = {} /\ Held = {}
  BY DEF Init, Served, Held
<1> QED  BY <1>1, FS_EmptySet, ServerAssumption DEF Init, CapsKept

LEMMA CapsNext == TypeOK /\ CapsKept /\ [Next]_vars => CapsKept'
<1> SUFFICES ASSUME TypeOK, CapsKept, [Next]_vars PROVE CapsKept'
  OBVIOUS
<1> USE ServerAssumption
<1>0. /\ Served \in SUBSET Clients /\ Held \in SUBSET Clients
      /\ Cardinality(Served) \in Nat /\ Cardinality(Held) \in Nat
  <2>1. Served \in SUBSET Clients /\ Held \in SUBSET Clients
    BY DEF Served, Held
  <2> QED  BY <2>1, Counted
<1>1. ASSUME conn' = conn, permits' = permits,
             slots' + (IF loop' = "accept" THEN 1 ELSE 0) = slots + (IF loop = "accept" THEN 1 ELSE 0),
             slots' \in Nat
      PROVE CapsKept'
  <2>1. Served' = Served /\ Held' = Held
    BY <1>1 DEF Served, Held
  <2>2. PICK n \in Nat : n = Cardinality(Served)
    BY <1>0
  <2>3. PICK a \in Nat, b \in Nat :
           a = (IF loop = "accept" THEN 1 ELSE 0) /\ b = (IF loop' = "accept" THEN 1 ELSE 0)
    OBVIOUS
  <2>4. slots + n + a = MaxConnections /\ permits + Cardinality(Held) = SseMax
    BY <2>2, <2>3 DEF CapsKept
  <2>5. slots \in Nat /\ slots' \in Nat /\ slots' + b = slots + a
    BY <1>1, <2>3 DEF TypeOK
  <2>6. slots' + n + b = MaxConnections
    <3>1. PICK x \in Nat, y \in Nat : x = slots /\ y = slots'
      BY <2>5
    <3>2. y + b = x + a /\ x + n + a = MaxConnections
      BY <2>4, <2>5, <3>1
    <3>3. y + n + b = x + n + a
      BY <3>2
    <3> QED  BY <3>1, <3>2, <3>3
  <2> QED  BY <1>1, <2>1, <2>2, <2>3, <2>4, <2>6 DEF CapsKept
<1>2. CASE UNCHANGED vars \/ Signal \/ Drained \/ GraceOver \/ TaskStops \/ Publish
  BY <1>1, <1>2 DEF vars, Signal, Drained, GraceOver, TaskStops, Publish, TypeOK
<1>3. CASE TakeSlot \/ AcceptFails
  BY <1>1, <1>3 DEF TakeSlot, AcceptFails, TypeOK
<1>4. CASE StopAccepting
  <2>1. Served' = Served /\ Held' = Held
    BY <1>4 DEF StopAccepting, Served, Held, TypeOK
  <2> QED  BY <1>0, <1>4, <2>1 DEF StopAccepting, Accepting, CapsKept, TypeOK
<1>5. CASE Restart
  <2>1. Served' = {} /\ Held' = {}
    BY <1>5 DEF Restart, Served, Held
  <2>2. Cardinality({}) = 0
    BY FS_EmptySet
  <2>3. slots' = MaxConnections /\ permits' = SseMax /\ loop' # "accept"
    BY <1>5 DEF Restart
  <2>4. Cardinality(Served') = 0 /\ Cardinality(Held') = 0
    BY <2>1, <2>2
  <2>5. slots' + Cardinality(Served') + 0 = MaxConnections /\ permits' + Cardinality(Held') = SseMax
    BY <2>3, <2>4
  <2> QED  BY <2>3, <2>5 DEF CapsKept
<1>6. ASSUME NEW c \in Clients, Step(c) PROVE CapsKept'
  <2>1. CASE Connect(c) \/ LeaveBacklog(c) \/ Request(c)
    <3>1. Served' = Served /\ Held' = Held
      BY <2>1 DEF Connect, LeaveBacklog, Request, Served, Held, TypeOK
    <3> QED  BY <2>1, <3>1 DEF Connect, LeaveBacklog, Request, CapsKept
  <2>2. CASE Accept(c)
    <3>1. Served' = Served \cup {c} /\ Held' = Held /\ c \notin Served
      BY <2>2 DEF Accept, Served, Held, TypeOK
    <3>2. Cardinality(Served') = Cardinality(Served) + 1
      BY <1>0, <3>1, Grown
    <3> QED  BY <1>0, <2>2, <3>1, <3>2 DEF Accept, CapsKept, TypeOK
  <2>3. CASE OpenStream(c)
    <3>1. Served' = Served /\ Held' = Held \cup {c} /\ c \notin Held
      BY <2>3 DEF OpenStream, Served, Held, TypeOK
    <3>2. Cardinality(Held') = Cardinality(Held) + 1
      BY <1>0, <3>1, Grown
    <3> QED  BY <1>0, <2>3, <3>1, <3>2 DEF OpenStream, CapsKept, TypeOK
  <2>4. CASE Deliver(c)
    BY <1>1, <2>4 DEF Deliver, TypeOK
  <2>5. CASE Respond(c) \/ EndStream(c)
    <3>1. c \in Served /\ Complete(c) /\ loop' = loop
      BY <2>5 DEF Respond, EndStream, Served, Held
    <3> QED  BY <3>1, CompleteBalance
  <2>6. CASE ClientCloses(c) \/ GiveUp(c) \/ HeaderTimeout(c)
    <3>1. c \in Served /\ Close(c) /\ loop' = loop
      BY <2>6 DEF ClientCloses, GiveUp, HeaderTimeout, Served, Held
    <3> QED  BY <3>1, CloseBalance
  <2>7. CASE Vanish(c)
    <3>1. Served' = Served /\ Held' = Held
      BY <2>7 DEF Vanish, Served, Held, TypeOK
    <3> QED  BY <2>7, <3>1 DEF Vanish, CapsKept
  <2> QED  BY <1>6, <2>1, <2>2, <2>3, <2>4, <2>5, <2>6, <2>7 DEF Step
<1> QED  BY <1>2, <1>3, <1>4, <1>5, <1>6 DEF Next

(* For any number of clients, neither semaphore leaks or is exceeded.       *)
THEOREM CapsHold == Spec => []CapsKept
BY TypeInit, TypeNext, CapsInit, CapsNext, PTL DEF Spec

-----------------------------------------------------------------------------
(* The order of events.  What a receiver has not read is sorted, between    *)
(* what its client has seen and the latest measurement.                     *)
Ordered(unread, from, to) ==
    /\ \A i \in 1 .. Len(unread) : from <= unread[i] /\ unread[i] <= to
    /\ \A i, j \in 1 .. Len(unread) : i <= j => unread[i] <= unread[j]

OrderInv ==
    \A c \in Clients : seen[c] <= latest /\ Ordered(pending[c], seen[c], latest)

LEMMA OrderedAppend ==
    ASSUME NEW unread \in Seq(Nat), NEW from \in Nat, NEW to \in Nat, NEW stamp \in Nat,
           Ordered(unread, from, to), from <= to, to <= stamp
    PROVE  Ordered(Append(unread, stamp), from, stamp)
<1> DEFINE s == Append(unread, stamp)
<1>1. Len(s) = Len(unread) + 1 /\ s[Len(s)] = stamp
  OBVIOUS
<1>2. \A i \in 1 .. Len(unread) : s[i] = unread[i] /\ unread[i] \in Nat
  OBVIOUS
<1>3. \A i \in 1 .. Len(s) : i = Len(s) \/ i \in 1 .. Len(unread)
  BY <1>1
<1> HIDE DEF s
<1>4. \A i \in 1 .. Len(s) : from <= s[i] /\ s[i] <= stamp
  BY <1>1, <1>2, <1>3 DEF Ordered
<1>5. \A i, j \in 1 .. Len(s) : i <= j => s[i] <= s[j]
  BY <1>1, <1>2, <1>3, <1>4 DEF Ordered
<1> QED  BY <1>4, <1>5 DEF Ordered, s

LEMMA OrderedTail ==
    ASSUME NEW unread \in Seq(Nat), NEW from \in Nat, NEW to \in Nat,
           Ordered(unread, from, to), unread # <<>>
    PROVE  /\ Head(unread) \in Nat /\ from <= Head(unread) /\ Head(unread) <= to
           /\ Tail(unread) \in Seq(Nat)
           /\ Ordered(Tail(unread), from, to)
           /\ Ordered(Tail(unread), Head(unread), to)
<1>1. /\ Len(unread) \in Nat \ {0} /\ Tail(unread) \in Seq(Nat)
      /\ Len(Tail(unread)) = Len(unread) - 1 /\ Head(unread) = unread[1] /\ unread[1] \in Nat
  OBVIOUS
<1>2. \A i \in 1 .. Len(Tail(unread)) : Tail(unread)[i] = unread[i + 1] /\ i + 1 \in 1 .. Len(unread)
  BY <1>1
<1>3. \A i \in 1 .. Len(Tail(unread)) : unread[1] <= Tail(unread)[i]
  BY <1>1, <1>2 DEF Ordered
<1> QED  BY <1>1, <1>2, <1>3 DEF Ordered

LEMMA OrderInit == Init => OrderInv
BY DEF Init, OrderInv, Ordered

LEMMA OrderNext ==
    TypeOK /\ OrderInv /\ [Next]_vars =>
        OrderInv' /\ \A c \in Clients : seen'[c] >= seen[c]
<1> SUFFICES ASSUME TypeOK, OrderInv, [Next]_vars
             PROVE  OrderInv' /\ \A c \in Clients : seen'[c] >= seen[c]
  OBVIOUS
<1>0. \A c \in Clients : seen[c] \in Nat /\ pending[c] \in Seq(Nat)
  BY DEF TypeOK
<1>1. ASSUME seen' = seen, latest' = latest,
             \A c \in Clients : pending'[c] \in {pending[c], <<>>}
      PROVE  OrderInv' /\ \A c \in Clients : seen'[c] >= seen[c]
  <2>1. \A c \in Clients : Ordered(<<>>, seen[c], latest)
    BY DEF Ordered
  <2> QED  BY <1>0, <1>1, <2>1 DEF OrderInv
<1>2. CASE Publish
  <2>1. PICK stamp \in {latest, latest + 1} :
           /\ latest' = stamp
           /\ pending' = [c \in Clients |->
                 IF conn[c] = "streaming" THEN Received(pending[c], stamp) ELSE pending[c]]
    BY <1>2 DEF Publish
  <2>2. latest \in Nat /\ stamp \in Nat /\ latest <= stamp /\ seen' = seen
    BY <1>2 DEF Publish, TypeOK
  <2>3. ASSUME NEW c \in Clients PROVE seen'[c] <= latest' /\ Ordered(pending'[c], seen'[c], latest')
    <3>1. /\ seen[c] \in Nat /\ pending[c] \in Seq(Nat) /\ seen[c] <= latest
          /\ Ordered(pending[c], seen[c], latest)
      BY <1>0 DEF OrderInv
    <3>2. Ordered(pending[c], seen[c], stamp)
      BY <2>2, <3>1, SMTT(30) DEF Ordered
    <3>3. Ordered(Received(pending[c], stamp), seen[c], stamp)
      <4>1. CASE Len(pending[c]) < RingCap
        BY <2>2, <3>1, <4>1, OrderedAppend DEF Received
      <4>2. CASE ~(Len(pending[c]) < RingCap)
        <5>1. pending[c] # <<>>
          BY <4>2, ServerAssumption
        <5>2. Tail(pending[c]) \in Seq(Nat) /\ Ordered(Tail(pending[c]), seen[c], latest)
          BY <2>2, <3>1, <5>1, OrderedTail
        <5> QED  BY <2>2, <3>1, <4>2, <5>2, OrderedAppend DEF Received
      <4> QED  BY <4>1, <4>2
    <3> QED  BY <2>1, <2>2, <3>1, <3>2, <3>3
  <2> QED  BY <1>0, <2>2, <2>3 DEF OrderInv
<1>3. ASSUME NEW c \in Clients, Deliver(c)
      PROVE  OrderInv' /\ \A d \in Clients : seen'[d] >= seen[d]
  <2>1. /\ seen[c] \in Nat /\ pending[c] \in Seq(Nat) /\ latest \in Nat /\ pending[c] # <<>>
        /\ Ordered(pending[c], seen[c], latest)
    BY <1>0, <1>3 DEF OrderInv, Deliver, TypeOK
  <2>2. /\ Head(pending[c]) \in Nat /\ seen[c] <= Head(pending[c]) /\ Head(pending[c]) <= latest
        /\ Ordered(Tail(pending[c]), seen[c], latest)
        /\ Ordered(Tail(pending[c]), Head(pending[c]), latest)
    BY <2>1, OrderedTail
  <2>3. /\ latest' = latest /\ pending'[c] = Tail(pending[c])
        /\ seen'[c] \in {seen[c], Head(pending[c])}
        /\ \A d \in Clients \ {c} : seen'[d] = seen[d] /\ pending'[d] = pending[d]
    BY <1>3 DEF Deliver, TypeOK
  <2>4. seen'[c] <= latest' /\ Ordered(pending'[c], seen'[c], latest') /\ seen'[c] >= seen[c]
    BY <1>0, <2>1, <2>2, <2>3 DEF OrderInv
  <2>5. \A d \in Clients \ {c} : seen'[d] <= latest' /\ Ordered(pending'[d], seen'[d], latest')
                                 /\ seen'[d] >= seen[d]
    BY <1>0, <2>3 DEF OrderInv
  <2> QED  BY <2>4, <2>5 DEF OrderInv
<1>4. CASE UNCHANGED vars \/ TakeSlot \/ AcceptFails \/ StopAccepting \/ Signal \/ Drained
           \/ GraceOver \/ TaskStops \/ Restart
  BY <1>1, <1>4 DEF vars, TakeSlot, AcceptFails, StopAccepting, Signal, Drained, GraceOver,
                    TaskStops, Restart
<1>5. ASSUME NEW c \in Clients, Step(c), ~Deliver(c)
      PROVE  OrderInv' /\ \A d \in Clients : seen'[d] >= seen[d]
  <2>1. seen' = seen /\ latest' = latest
    BY <1>5 DEF Step, Connect, LeaveBacklog, Accept, Request, Respond, OpenStream, EndStream,
                ClientCloses, Vanish, GiveUp, HeaderTimeout
  <2>2. pending' \in {pending, [pending EXCEPT ![c] = <<>>]}
    BY <1>5 DEF Step, Connect, LeaveBacklog, Accept, Request, Respond, OpenStream, EndStream,
                ClientCloses, Vanish, GiveUp, HeaderTimeout, Complete, Close
  <2>3. \A d \in Clients : pending'[d] \in {pending[d], <<>>}
    BY <2>2 DEF TypeOK
  <2> QED  BY <1>1, <2>1, <2>3
<1> QED  BY <1>2, <1>3, <1>4, <1>5 DEF Next

(* Over lags, reconnections and restarts, a client's events never go back.  *)
THEOREM EventsForward == Spec => ForwardOnly
<1>1. TypeOK /\ OrderInv /\ [Next]_vars => [\A c \in Clients : seen'[c] >= seen[c]]_vars
  BY OrderNext
<1>2. TypeOK /\ OrderInv /\ [Next]_vars => OrderInv'
  BY OrderNext
<1> QED  BY TypeInit, TypeNext, OrderInit, <1>1, <1>2, PTL DEF Spec, ForwardOnly

-----------------------------------------------------------------------------
(* The client of a stream, for any delays, deadlines and limits of its own  *)
(* and of the server.                                                        *)

(* What a connection in each state is: nothing is read before it is open,   *)
(* and one that is open, and not cut, holds a permit of the server.          *)
LinkInv ==
    /\ state \notin {"streaming", "yielded"} => frames = <<>>
    /\ state = "connecting" => link \in {"asked", "accepted", "busy", "denied", "body", "broken"}
    /\ state \in {"streaming", "yielded"} => link \in {"open", "ended", "broken"}
    /\ link \in {"accepted", "open"} /\ ~cut => held

(* While nothing can be read the deadline is as far as the silence is short, *)
(* and the clock does not pass a keep-alive that is due; the silence may be  *)
(* longer when the caller has not read what it had, but then reading it has  *)
(* just armed the deadline again.                                            *)
DeadlineInv ==
    state = "streaming" /\ link = "open" /\ ~cut /\ frames = <<>> =>
        /\ timer + quiet >= IdleTimeout
        /\ quiet <= KeepAlive \/ timer = IdleTimeout

ClientInv ==
    /\ Client!TypeOK
    /\ frames \in Seq(Client!Frames) /\ cut \in BOOLEAN /\ held \in BOOLEAN
    /\ server \in {"up", "down"} /\ others \in Nat /\ ghosts \in Nat
    /\ LinkInv /\ DeadlineInv

LEMMA ClientInit ==
    ASSUME Client!StreamAssumption, Client!Init PROVE ClientInv
<1>1. <<>> \in Seq(Client!Frames) /\ Len(<<>>) = 0  OBVIOUS
<1>2. frames = <<>> /\ state = "connecting" /\ link = "asked" /\ held = FALSE /\ cut = FALSE /\ quiet = 0
      /\ others = 0 /\ ghosts = 0 /\ failures = 0 /\ faults = 0 /\ server \in {"up", "down"}
      /\ sdk \in Sdks /\ policy \in Policies
  BY DEF Client!Init
<1>3. timer \in Nat /\ backoff \in Nat
  BY DEF Client!Init, Client!HeadersTimeout, Client!StreamAssumption
<1>4. LinkInv /\ DeadlineInv  BY <1>2 DEF LinkInv, DeadlineInv
<1>5. Client!TypeOK
  BY <1>1, <1>2, <1>3 DEF Client!TypeOK, Client!Permit, Client!StreamAssumption
<1> QED  BY <1>1, <1>2, <1>4, <1>5 DEF ClientInv

(* A connection is dropped: its permit becomes one the server will miss.    *)
LEMMA DropKeeps ==
    ASSUME Client!StreamAssumption, ClientInv, Client!Drop,
           state' \in {"waiting", "done", "dropped"}, timer' \in Nat, backoff' \in Nat
    PROVE  ClientInv'
<1>1. /\ link' = "none" /\ cut' = FALSE /\ frames' = <<>> /\ quiet' = 0 /\ held' = FALSE
      /\ ghosts' = ghosts + Client!Permit(held) /\ failures' = Client!Least(failures + 1, MaxBackoff + 1)
      /\ UNCHANGED <<sdk, policy, server, others, faults>>
  BY DEF Client!Drop
<1>2. failures' \in 0 .. MaxBackoff + 1
  <2>1. failures \in 0 .. MaxBackoff + 1 /\ MaxBackoff \in Nat
    BY DEF ClientInv, Client!TypeOK, Client!StreamAssumption
  <2> QED  BY <1>1, <2>1 DEF Client!Least
<1>3. ghosts' \in Nat /\ others' + ghosts' + Client!Permit(held') <= StreamMax
  BY <1>1 DEF ClientInv, Client!TypeOK, Client!Permit
<1>4. frames' \in Seq(Client!Frames) /\ Len(frames') = 0  BY <1>1
<1>5. LinkInv' /\ DeadlineInv'  BY <1>1 DEF LinkInv, DeadlineInv
<1>6. Client!TypeOK'
  BY <1>1, <1>2, <1>3, <1>4 DEF ClientInv, Client!TypeOK, Client!StreamAssumption
<1> QED  BY <1>1, <1>3, <1>4, <1>5, <1>6 DEF ClientInv

LEMMA FailKeeps ==
    ASSUME Client!StreamAssumption, ClientInv, Client!Fail PROVE ClientInv'
<1>1. backoff \in Nat /\ Client!Doubled(backoff) \in Nat /\ Client!Slept(backoff) \in Nat
  BY DEF ClientInv, Client!TypeOK, Client!Doubled, Client!Slept, Client!Least, Client!StreamAssumption
<1> QED  BY <1>1, DropKeeps DEF Client!Fail, Client!End

LEMMA EndKeeps ==
    ASSUME Client!StreamAssumption, ClientInv, NEW how \in {"done", "dropped"}, Client!End(how)
    PROVE  ClientInv'
<1>1. backoff \in Nat  BY DEF ClientInv, Client!TypeOK
<1> QED  BY <1>1, DropKeeps DEF Client!End

(* The steps of the caller, one lemma for those that keep the connection.   *)
LEMMA PollKeeps ==
    ASSUME Client!StreamAssumption, ClientInv, Client!Poll PROVE ClientInv'
<1>0. Client!HeadersTimeout \in Nat /\ IdleTimeout \in Nat
  BY DEF Client!HeadersTimeout, Client!StreamAssumption
<1>1. CASE Client!Fail \/ Client!End("done")
  BY <1>1, FailKeeps, EndKeeps
<1>2. CASE Client!Refused /\ ~Client!Fail
  <2>1. /\ state = "connecting" /\ link' = "body" /\ timer' = IdleTimeout
        /\ UNCHANGED <<sdk, policy, state, backoff, failures, cut, frames, quiet, server, others, held, ghosts, faults>>
    BY <1>2 DEF Client!Refused, Client!served
  <2> QED  BY <1>0, <2>1 DEF ClientInv, Client!TypeOK, LinkInv, DeadlineInv
<1>3. CASE Client!Opened
  <2>1. /\ state = "connecting" /\ link = "accepted" /\ state' = "streaming" /\ link' = "open"
        /\ timer' = IdleTimeout /\ failures' = 0
        /\ backoff' \in {InitialBackoff, backoff}
        /\ UNCHANGED <<sdk, policy, cut, frames, quiet, server, others, held, ghosts, faults>>
    BY <1>3 DEF Client!Opened, Client!served
  <2>2. backoff' \in Nat  BY <2>1 DEF ClientInv, Client!TypeOK, Client!StreamAssumption
  <2>3. LinkInv'  BY <2>1 DEF ClientInv, LinkInv
  <2>4. DeadlineInv'  BY <1>0, <2>1 DEF ClientInv, Client!TypeOK, DeadlineInv
  <2>5. Client!TypeOK'  BY <1>0, <2>1, <2>2 DEF ClientInv, Client!TypeOK, Client!StreamAssumption
  <2> QED  BY <2>1, <2>3, <2>4, <2>5 DEF ClientInv
<1>4. CASE Client!ReadFrame /\ ~Client!Fail
  <2>1. /\ state = "streaming" /\ frames # <<>> /\ frames' = Tail(frames)
        /\ (state' = "streaming" /\ timer' = IdleTimeout) \/ (state' = "yielded" /\ timer' = 0)
        /\ UNCHANGED <<sdk, policy, backoff, failures, link, cut, quiet, server, others, held, ghosts, faults>>
    BY <1>4 DEF Client!ReadFrame, Client!served
  <2>2. frames' \in Seq(Client!Frames) /\ Len(frames') <= Unread
    <3>1. frames \in Seq(Client!Frames) /\ Len(frames) <= Unread  BY DEF ClientInv, Client!TypeOK
    <3> QED  BY <2>1, <3>1 DEF Client!StreamAssumption
  <2>3. LinkInv'  BY <2>1 DEF ClientInv, LinkInv
  <2>4. DeadlineInv'  BY <1>0, <2>1 DEF ClientInv, Client!TypeOK, DeadlineInv
  <2>5. Client!TypeOK'  BY <1>0, <2>1, <2>2 DEF ClientInv, Client!TypeOK
  <2> QED  BY <2>1, <2>2, <2>3, <2>4, <2>5 DEF ClientInv
<1>5. CASE Client!Retry
  <2>1. /\ state = "waiting" /\ state' = "connecting" /\ link' = "asked" /\ timer' = Client!HeadersTimeout
        /\ UNCHANGED <<sdk, policy, backoff, failures, cut, frames, quiet, server, others, held, ghosts, faults>>
    BY <1>5 DEF Client!Retry, Client!served
  <2> QED  BY <1>0, <2>1 DEF ClientInv, Client!TypeOK, LinkInv, DeadlineInv
<1>6. CASE Client!Resumed
  <2>1. /\ state = "yielded" /\ state' = "streaming" /\ timer' = IdleTimeout
        /\ UNCHANGED <<sdk, policy, backoff, failures, link, cut, frames, quiet, server, others, held, ghosts, faults>>
    BY <1>6 DEF Client!Resumed, Client!network, Client!served
  <2>2. DeadlineInv'  BY <1>0, <2>1 DEF ClientInv, Client!TypeOK, DeadlineInv
  <2>3. LinkInv' /\ Client!TypeOK'  BY <1>0, <2>1 DEF ClientInv, Client!TypeOK, LinkInv
  <2> QED  BY <2>1, <2>2, <2>3 DEF ClientInv
<1> QED
  BY <1>1, <1>2, <1>3, <1>4, <1>5, <1>6
     DEF Client!Poll, Client!Refused, Client!RefusalRead, Client!ConnectFails, Client!ReadFrame, Client!StreamEnds

LEMMA TickKeeps ==
    ASSUME Client!StreamAssumption, ClientInv, Client!Tick PROVE ClientInv'
<1>1. /\ ~Client!Due
      /\ timer' = IF timer = 0 THEN 0 ELSE timer - 1
      /\ quiet' = IF link = "open" THEN Client!Least(quiet + 1, IdleTimeout) ELSE 0
      /\ UNCHANGED <<sdk, policy, state, backoff, failures, link, cut, frames, server, others, held, ghosts, faults>>
  BY DEF Client!Tick, Client!served
<1>2. timer \in Nat /\ quiet \in 0 .. IdleTimeout /\ IdleTimeout \in Nat /\ KeepAlive \in Nat /\ KeepAlive < IdleTimeout
  BY DEF ClientInv, Client!TypeOK, Client!StreamAssumption
<1>3. timer' \in Nat /\ quiet' \in 0 .. IdleTimeout  BY <1>1, <1>2 DEF Client!Least
<1>4. LinkInv'  BY <1>1 DEF ClientInv, LinkInv
<1>5. DeadlineInv'
  <2>1. SUFFICES ASSUME state = "streaming", link = "open", ~cut, frames = <<>>
                 PROVE  timer' + quiet' >= IdleTimeout /\ (quiet' <= KeepAlive \/ timer' = IdleTimeout)
    BY <1>1 DEF DeadlineInv
  <2>2. quiet < KeepAlive
    <3>1. held /\ Len(frames) < Unread
      BY <2>1 DEF ClientInv, LinkInv, Client!StreamAssumption
    <3> QED  BY <1>1, <1>2, <2>1, <3>1 DEF Client!Due
  <2>3. timer + quiet >= IdleTimeout  BY <2>1 DEF ClientInv, DeadlineInv
  <2>4. quiet' = quiet + 1 /\ timer' = timer - 1
    BY <1>1, <1>2, <2>1, <2>2, <2>3 DEF Client!Least
  <2> QED  BY <1>2, <2>2, <2>3, <2>4
<1>6. Client!TypeOK'  BY <1>1, <1>3 DEF ClientInv, Client!TypeOK
<1> QED  BY <1>1, <1>4, <1>5, <1>6 DEF ClientInv

(* What arrives of the server: an answer, a frame. *)
LEMMA ArrivalKeeps ==
    ASSUME Client!StreamAssumption, ClientInv,
           Client!Answer \/ Client!Deny \/ Client!AnswerLost \/ \E f \in Client!Frames : Client!Send(f)
    PROVE  ClientInv'
<1>1. CASE Client!Answer \/ Client!Deny \/ Client!AnswerLost
  <2>0. faults \in 0 .. MaxFaults /\ held \in BOOLEAN
        /\ (faults < MaxFaults => faults + 1 \in 0 .. MaxFaults)
    BY DEF ClientInv, Client!TypeOK, Client!StreamAssumption
  <2>1. /\ link = "asked" /\ link' \in {"asked", "broken", "accepted", "busy", "denied"}
        /\ held' \in {held, TRUE} /\ (link' = "accepted" => held')
        /\ faults' \in 0 .. MaxFaults
        /\ held' # held => Client!Free > 0
        /\ UNCHANGED <<sdk, policy, state, timer, backoff, failures, cut, frames, quiet, server, others, ghosts>>
    <3>1. CASE Client!Answer
      <4>1. CASE server = "down"
        BY <2>0, <3>1, <4>1 DEF Client!Answer, Client!stream
      <4>2. CASE server # "down" /\ Client!Free > 0
        BY <2>0, <3>1, <4>2 DEF Client!Answer, Client!stream
      <4>3. CASE server # "down" /\ ~(Client!Free > 0)
        BY <2>0, <3>1, <4>3 DEF Client!Answer, Client!stream
      <4> QED  BY <4>1, <4>2, <4>3
    <3>2. CASE Client!Deny
      BY <2>0, <3>2 DEF Client!Deny, Client!stream, Client!served
    <3>3. CASE Client!AnswerLost
      BY <2>0, <3>3 DEF Client!AnswerLost, Client!stream, Client!network
    <3> QED  BY <1>1, <3>1, <3>2, <3>3
  <2>2. others' + ghosts' + Client!Permit(held') <= StreamMax
    BY <2>1 DEF ClientInv, Client!TypeOK, Client!Free, Client!Permit, Client!StreamAssumption
  <2>3. state = "connecting"  BY <2>1 DEF ClientInv, Client!TypeOK, LinkInv
  <2>4. LinkInv' /\ DeadlineInv'  BY <2>1, <2>3 DEF ClientInv, LinkInv, DeadlineInv
  <2>5. Client!TypeOK'  BY <2>1, <2>2, <2>3 DEF ClientInv, Client!TypeOK
  <2> QED  BY <2>1, <2>4, <2>5 DEF ClientInv
<1>2. CASE \E f \in Client!Frames : Client!Send(f)
  <2>1. PICK f \in Client!Frames : Client!Send(f)  BY <1>2
  <2>2. /\ link = "open" /\ held /\ ~cut /\ Len(frames) < Unread
        /\ frames' = Append(frames, f) /\ quiet' = 0 /\ faults' \in 0 .. MaxFaults
        /\ UNCHANGED <<sdk, policy, state, timer, backoff, failures, link, cut, server, others, held, ghosts>>
    BY <2>1 DEF Client!Send, Client!stream, Client!served, ClientInv, Client!TypeOK, Client!StreamAssumption
  <2>3. frames' \in Seq(Client!Frames) /\ Len(frames') <= Unread /\ frames' # <<>>
    <3>1. frames \in Seq(Client!Frames)  BY DEF ClientInv
    <3> QED  BY <2>1, <2>2, <3>1 DEF Client!StreamAssumption
  <2>4. state \in {"streaming", "yielded"}  BY <2>2 DEF ClientInv, Client!TypeOK, LinkInv
  <2>5. LinkInv' /\ DeadlineInv'  BY <2>2, <2>3, <2>4 DEF ClientInv, LinkInv, DeadlineInv
  <2>6. Client!TypeOK'
    <3>1. Client!TypeOK  BY DEF ClientInv
    <3>2. 0 \in 0 .. IdleTimeout  BY DEF Client!StreamAssumption
    <3> QED  BY <2>2, <2>3, <3>1, <3>2 DEF Client!TypeOK
  <2> QED  BY <2>2, <2>3, <2>5, <2>6 DEF ClientInv
<1> QED  BY <1>1, <1>2

(* The network, the server and its other clients. *)
LEMMA OutsideKeeps ==
    ASSUME Client!StreamAssumption, ClientInv,
           Client!Fault \/ Client!Stop \/ Client!Restart \/ Client!OthersMove \/ Client!GhostGone
    PROVE  ClientInv'
<1>1. CASE Client!Fault
  <2>1. /\ faults' \in 0 .. MaxFaults
        /\ \/ link \in Client!Pending /\ cut' = TRUE /\ UNCHANGED <<link, held>>
           \/ link \in Client!Pending \ {"body"} /\ link' = "broken" /\ UNCHANGED <<cut, held>>
           \/ link = "open" /\ link' = "ended" /\ held' = FALSE /\ UNCHANGED cut
        /\ UNCHANGED <<sdk, policy, state, timer, backoff, failures, frames, quiet, server, others, ghosts>>
    BY <1>1 DEF Client!Fault, Client!stream, ClientInv, Client!TypeOK, Client!StreamAssumption
  <2>2. others' + ghosts' + Client!Permit(held') <= StreamMax
    BY <2>1 DEF ClientInv, Client!TypeOK, Client!Permit, Client!StreamAssumption
  <2>3. LinkInv' /\ DeadlineInv'  BY <2>1 DEF ClientInv, LinkInv, DeadlineInv, Client!Pending
  <2>4. Client!TypeOK'  BY <2>1, <2>2 DEF ClientInv, Client!TypeOK, Client!Pending
  <2> QED  BY <2>1, <2>3, <2>4 DEF ClientInv
<1>2. CASE Client!Stop
  <2>1. /\ server' = "down" /\ others' = 0 /\ ghosts' = 0 /\ held' = FALSE
        /\ \/ link' = link /\ (cut \/ link \notin {"open", "accepted"})
           \/ link = "open" /\ link' = "ended"
           \/ link \in {"asked", "accepted"} /\ link' = "broken"
        /\ UNCHANGED <<sdk, policy, state, timer, backoff, failures, cut, frames, quiet, faults>>
    BY <1>2 DEF Client!Stop, Client!stream
  <2>2. others' + ghosts' + Client!Permit(held') <= StreamMax
    BY <2>1 DEF Client!Permit, Client!StreamAssumption
  <2>3. LinkInv' /\ DeadlineInv'  BY <2>1 DEF ClientInv, LinkInv, DeadlineInv
  <2>4. Client!TypeOK'  BY <2>1, <2>2 DEF ClientInv, Client!TypeOK
  <2> QED  BY <2>1, <2>3, <2>4 DEF ClientInv
<1>3. CASE Client!Restart \/ Client!OthersMove \/ Client!GhostGone
  <2>1. /\ server' \in {"up", "down"} /\ others' \in Nat /\ ghosts' \in Nat
        /\ others' + ghosts' + Client!Permit(held) <= StreamMax
        /\ UNCHANGED <<sdk, policy, state, timer, backoff, failures, link, cut, frames, quiet, held, faults>>
    <3>0. others \in Nat /\ ghosts \in Nat /\ server \in {"up", "down"} /\ StreamMax \in Nat
          /\ Client!Permit(held) \in 0 .. 1 /\ others + ghosts + Client!Permit(held) <= StreamMax
      BY DEF ClientInv, Client!TypeOK, Client!Permit, Client!StreamAssumption
    <3> HIDE DEF ClientInv
    <3>1. CASE Client!Restart
      BY <3>0, <3>1 DEF Client!Restart, Client!stream, Client!network
    <3>2. CASE Client!OthersMove
      BY <3>0, <3>2 DEF Client!OthersMove, Client!stream, Client!network, Client!Free
    <3>3. CASE Client!GhostGone
      BY <3>0, <3>3 DEF Client!GhostGone, Client!stream, Client!network
    <3> QED  BY <1>3, <3>1, <3>2, <3>3
  <2>2. LinkInv' /\ DeadlineInv'  BY <2>1 DEF ClientInv, LinkInv, DeadlineInv
  <2>3. Client!TypeOK'  BY <2>1 DEF ClientInv, Client!TypeOK
  <2> QED  BY <2>1, <2>2, <2>3 DEF ClientInv
<1> QED  BY <1>1, <1>2, <1>3

LEMMA ClientNext ==
    ASSUME Client!StreamAssumption, ClientInv, [Client!Next]_(Client!vars) PROVE ClientInv'
<1>1. CASE Client!Poll  BY <1>1, PollKeeps
<1>2. CASE Client!Abort  BY <1>2, EndKeeps DEF Client!Abort
<1>3. CASE Client!Tick  BY <1>3, TickKeeps
<1>4. CASE Client!KeepAliveSent \/ Client!Answer \/ Client!Deny \/ Client!AnswerLost
           \/ \E f \in Client!Frames : Client!Send(f)
  <2>1. Client!KeepAliveSent => \E f \in Client!Frames : Client!Send(f)
    BY DEF Client!KeepAliveSent, Client!Frames
  <2> QED  BY <1>4, <2>1, ArrivalKeeps
<1>5. CASE Client!Fault \/ Client!Stop \/ Client!Restart \/ Client!OthersMove \/ Client!GhostGone
  BY <1>5, OutsideKeeps
<1>6. CASE UNCHANGED Client!vars
  BY <1>6 DEF Client!vars, Client!stream, Client!network, Client!served, ClientInv, Client!TypeOK, LinkInv, DeadlineInv
<1> QED  BY <1>1, <1>2, <1>3, <1>4, <1>5, <1>6 DEF Client!Next

(* Both libraries (IntensityStream, streamEvents): the state, the deadlines  *)
(* and the permits keep their shape; in particular the server never has     *)
(* more permits out than it has.                                             *)
THEOREM ClientTypeCorrect == Client!Spec => []Client!TypeOK
<1>1. Client!Init => ClientInv  BY ClientInit, ClientAssumption
<1>2. ClientInv /\ [Client!Next]_(Client!vars) => ClientInv'  BY ClientNext, ClientAssumption
<1>3. ClientInv => Client!TypeOK  BY DEF ClientInv
<1> QED  BY <1>1, <1>2, <1>3, PTL DEF Client!Spec

(* Both libraries (with_idle_timeout, nextRead): with a deadline longer than *)
(* the keep-alive of the server, however late the caller polls, a stream is  *)
(* given up only when it has ended, or is broken, or nothing arrives on it   *)
(* any more, or a frame is malformed; or, in TypeScript, when its deadline    *)
(* has passed while the event loop was busy and is looked at before the       *)
(* bytes that are there.                                                      *)
THEOREM StreamKept == Client!Spec => GivesUpForCause
<1> DEFINE ForCause ==
      state = "streaming" /\ state' = "waiting" =>
          \/ link \in {"ended", "broken"}
          \/ cut
          \/ frames # <<>> /\ (IF sdk = "rust" THEN Head(frames) = "malformed" ELSE timer = 0)
<1>1. Client!Init => ClientInv  BY ClientInit, ClientAssumption
<1>2. ClientInv /\ [Client!Next]_(Client!vars) => ClientInv'  BY ClientNext, ClientAssumption
<1>3. ClientInv /\ [Client!Next]_(Client!vars) => [ForCause]_(Client!vars)
  <2> SUFFICES ASSUME ClientInv, Client!Next, state = "streaming", state' = "waiting"
               PROVE  ForCause
    OBVIOUS
  <2>1. Client!ReadFrame \/ Client!StreamEnds
    <3>1. ~Client!Refused /\ ~Client!RefusalRead /\ ~Client!ConnectFails /\ ~Client!Opened /\ ~Client!Resumed
          /\ ~Client!Retry
      BY DEF Client!Refused, Client!RefusalRead, Client!ConnectFails, Client!Opened, Client!Resumed, Client!Retry
    <3>2. ~Client!Abort  BY DEF Client!Abort, Client!End
    <3>3. Client!Tick \/ Client!Answer \/ Client!Deny \/ Client!AnswerLost \/ Client!Fault \/ Client!Stop
          \/ Client!Restart \/ Client!OthersMove \/ Client!GhostGone \/ (\E f \in Client!Frames : Client!Send(f))
          \/ Client!KeepAliveSent => state' = state
      BY DEF Client!Tick, Client!Answer, Client!Deny, Client!AnswerLost, Client!Fault, Client!Stop, Client!Restart,
         Client!OthersMove, Client!GhostGone, Client!Send, Client!KeepAliveSent, Client!stream
    <3> QED  BY <3>1, <3>2, <3>3 DEF Client!Next, Client!Poll
  <2>2. CASE Client!ReadFrame
    BY <2>2 DEF Client!ReadFrame
  <2>3. CASE Client!StreamEnds
    <3>1. \/ link \in {"ended", "broken"}
          \/ timer = 0 /\ frames = <<>>
          \/ timer = 0 /\ sdk = "typescript"
      BY <2>3 DEF Client!StreamEnds, Client!IdleElapsed
    <3>4. link \in {"open", "ended", "broken"}  BY DEF ClientInv, LinkInv
    <3>2. ASSUME link = "open", timer = 0, frames = <<>>, ~cut  PROVE FALSE
      <4>1. quiet >= IdleTimeout /\ (quiet <= KeepAlive \/ IdleTimeout = 0)
        BY <3>2, ClientAssumption DEF ClientInv, DeadlineInv, Client!TypeOK, Client!StreamAssumption
      <4> QED  BY <4>1, ClientAssumption DEF ClientInv, Client!TypeOK, Client!StreamAssumption
    <3> QED  BY <3>1, <3>2, <3>4
  <2> QED  BY <2>1, <2>2, <2>3
<1>4. GivesUpForCause <=> [][ForCause]_(Client!vars)  BY DEF GivesUpForCause, Client!GivesUpForCause
<1> QED  BY <1>1, <1>2, <1>3, <1>4, PTL DEF Client!Spec

-----------------------------------------------------------------------------
(* The delays of a client. *)

(* What is known of powers of two comes from counting subsets: those of      *)
(* 1 .. n + 1 are those of 1 .. n, without and with n + 1.                    *)
LEMMA PowersDouble ==
    ASSUME NEW n \in Nat
    PROVE  2 ^ n \in Nat /\ n <= 2 ^ n /\ 2 ^ (n + 1) = 2 * 2 ^ n
<1> DEFINE Old == SUBSET (1 .. n)
           With == {L \cup {n + 1} : L \in Old}
           add == [L \in Old |-> L \cup {n + 1}]
           alone == [k \in 1 .. n |-> {k}]
<1>1. /\ IsFiniteSet(1 .. n) /\ Cardinality(1 .. n) = n
      /\ IsFiniteSet(1 .. n + 1) /\ Cardinality(1 .. n + 1) = n + 1
  BY FS_Interval
<1>2. IsFiniteSet(Old) /\ Cardinality(Old) = 2 ^ n
  BY <1>1, FS_SUBSET
<1>3. Cardinality(SUBSET (1 .. n + 1)) = 2 ^ (n + 1)
  BY <1>1, FS_SUBSET
<1>4. 2 ^ n \in Nat  BY <1>2, FS_CardinalityType
<1>5. IsFiniteSet(With) /\ Cardinality(With) = Cardinality(Old)
  <2>1. n + 1 \notin 1 .. n  OBVIOUS
  <2>2. \A L \in Old : n + 1 \notin L  BY <2>1
  <2>3. \A L, M \in Old : L \cup {n + 1} = M \cup {n + 1} => L = M
    <3> SUFFICES ASSUME NEW L \in Old, NEW M \in Old, L \cup {n + 1} = M \cup {n + 1}
                 PROVE  L = M
      OBVIOUS
    <3>1. L = (L \cup {n + 1}) \ {n + 1} /\ M = (M \cup {n + 1}) \ {n + 1}  BY <2>2
    <3> QED  BY <3>1
  <2>4. add \in Bijection(Old, With)
    <3>1. add \in [Old -> With]  OBVIOUS
    <3>2. \A L, M \in Old : add[L] = add[M] => L = M  BY <2>3
    <3>3. \A K \in With : \E L \in Old : add[L] = K  OBVIOUS
    <3> HIDE DEF Old, With, add
    <3> QED  BY <3>1, <3>2, <3>3 DEF Bijection, Injection, Surjection, IsInjective
  <2>5. ExistsBijection(Old, With)  BY <2>4 DEF ExistsBijection
  <2> QED  BY <1>2, <2>5, FS_Bijection
<1>6. SUBSET (1 .. n + 1) = Old \cup With
  <2>1. 1 .. n + 1 = (1 .. n) \cup {n + 1}  OBVIOUS
  <2>2. ASSUME NEW L \in SUBSET (1 .. n + 1), n + 1 \in L  PROVE L \in With
    <3>1. L \ {n + 1} \in Old  BY <2>1, <2>2
    <3>2. L = (L \ {n + 1}) \cup {n + 1}  BY <2>2
    <3> QED  BY <3>1, <3>2
  <2>3. ASSUME NEW L \in SUBSET (1 .. n + 1), n + 1 \notin L  PROVE L \in Old
    BY <2>1, <2>3
  <2>4. Old \subseteq SUBSET (1 .. n + 1) /\ With \subseteq SUBSET (1 .. n + 1)
    BY <2>1
  <2> QED  BY <2>2, <2>3, <2>4
<1>7. Old \cap With = {}
  <2>1. n + 1 \notin 1 .. n  OBVIOUS
  <2> QED  BY <2>1
<1>8. Cardinality(Old \cup With) = Cardinality(Old) + Cardinality(With)
  <2>1. Cardinality(Old \cap With) = 0  BY <1>7, FS_EmptySet
  <2>2. Cardinality(Old) \in Nat /\ Cardinality(With) \in Nat  BY <1>2, <1>5, FS_CardinalityType
  <2>3. Cardinality(Old \cup With) = Cardinality(Old) + Cardinality(With) - Cardinality(Old \cap With)
    BY <1>2, <1>5, FS_Union
  <2> QED  BY <2>1, <2>2, <2>3
<1>9. n <= 2 ^ n
  <2>1. alone \in Injection(1 .. n, Old)
    <3>1. alone \in [1 .. n -> Old]  OBVIOUS
    <3>2. \A j, k \in 1 .. n : alone[j] = alone[k] => j = k  OBVIOUS
    <3> HIDE DEF Old, alone
    <3> QED  BY <3>1, <3>2 DEF Injection, IsInjective
  <2> QED  BY <1>1, <1>2, <2>1, FS_Injection
<1>10. 2 ^ (n + 1) = 2 ^ n + 2 ^ n  BY <1>2, <1>3, <1>5, <1>6, <1>8
<1> HIDE DEF Old, With, add, alone
<1> QED  BY <1>4, <1>9, <1>10

(* Doubling a delay that is capped is capping a delay that is doubled; and a  *)
(* delay at its cap stays there.                                              *)
LEMMA CappedDoubles ==
    ASSUME NEW x \in Nat, NEW cap \in Nat
    PROVE  Client!Least(2 * Client!Least(x, cap), cap) = Client!Least(2 * x, cap)
BY DEF Client!Least

(* The delay kept for the next attempt, after n failures: the first is as it  *)
(* was given, the later ones are capped.                                      *)
NextDelay(n) == IF n = 0 THEN InitialBackoff ELSE Client!Least(InitialBackoff * 2 ^ n, MaxBackoff)

LEMMA DelayDoubles ==
    ASSUME Client!StreamAssumption, NEW n \in 0 .. MaxBackoff + 1
    PROVE  Client!Doubled(NextDelay(n)) = NextDelay(Client!Least(n + 1, MaxBackoff + 1))
<1> DEFINE p == 2 ^ n
<1>1. InitialBackoff \in Nat /\ MaxBackoff \in Nat /\ n \in Nat /\ n <= MaxBackoff + 1
  BY DEF Client!StreamAssumption
<1>2. p \in Nat /\ n <= p /\ 2 ^ (n + 1) = 2 * p /\ (n = 0 => p = 1)
  <2>1. 2 ^ 0 = 1  OBVIOUS
  <2>2. n = 0 => 2 ^ n = 1  BY <2>1, Zenon
  <2>3. 2 ^ n \in Nat /\ n <= 2 ^ n /\ 2 ^ (n + 1) = 2 * 2 ^ n  BY <1>1, PowersDouble
  <2> QED  BY <2>2, <2>3
<1>3. /\ InitialBackoff * p \in Nat /\ InitialBackoff * (2 * p) = 2 * (InitialBackoff * p)
      /\ InitialBackoff = 0 => InitialBackoff * p = 0
      /\ InitialBackoff # 0 => p <= InitialBackoff * p
      /\ n = 0 => InitialBackoff * p = InitialBackoff
  <2> HIDE DEF p
  <2>1. \A i, q \in Nat : i * q \in Nat /\ i * (2 * q) = 2 * (i * q)  OBVIOUS
  <2>2. \A q \in Nat : 0 * q = 0  OBVIOUS
  <2>3. \A i \in Nat \ {0}, q \in Nat : q <= i * q  OBVIOUS
  <2>4. InitialBackoff * 1 = InitialBackoff  BY <1>1
  <2> QED  BY <1>1, <1>2, <2>1, <2>2, <2>3, <2>4
<1>4. Client!Doubled(NextDelay(n)) = Client!Least(2 * (InitialBackoff * p), MaxBackoff)
  <2>1. CASE n = 0  BY <1>3, <2>1 DEF Client!Doubled, NextDelay
  <2>2. CASE n # 0
    <3>1. NextDelay(n) = Client!Least(InitialBackoff * p, MaxBackoff)  BY <2>2 DEF NextDelay
    <3> QED  BY <1>1, <1>3, <3>1, CappedDoubles DEF Client!Doubled
  <2> QED  BY <2>1, <2>2
<1>5. CASE n < MaxBackoff + 1
  <2>1. Client!Least(n + 1, MaxBackoff + 1) = n + 1 /\ n + 1 # 0  BY <1>1, <1>5 DEF Client!Least
  <2>2. NextDelay(n + 1) = Client!Least(InitialBackoff * (2 * p), MaxBackoff)
    BY <1>2, <2>1 DEF NextDelay
  <2> QED  BY <1>3, <1>4, <2>1, <2>2
<1>6. CASE n = MaxBackoff + 1
  <2>1. Client!Least(n + 1, MaxBackoff + 1) = n /\ n # 0  BY <1>1, <1>6 DEF Client!Least
  <2>2. NextDelay(n) = Client!Least(InitialBackoff * p, MaxBackoff)  BY <2>1 DEF NextDelay
  <2>3. InitialBackoff * p = 0 \/ MaxBackoff <= InitialBackoff * p  BY <1>1, <1>2, <1>3, <1>6
  <2> HIDE DEF p
  <2>4. Client!Least(InitialBackoff * p, MaxBackoff) = Client!Least(2 * (InitialBackoff * p), MaxBackoff)
    BY <1>1, <1>3, <2>3 DEF Client!Least
  <2> QED  BY <1>4, <2>1, <2>2, <2>4
<1> QED  BY <1>1, <1>5, <1>6

(* While a client goes on, the next delay is the one of its failures: a        *)
(* connection that opens resets both.                                          *)
DelayInv ==
    policy = "enabled" /\ state \notin {"done", "dropped"} => backoff = NextDelay(failures)

LEMMA FirstDelay == NextDelay(0) = InitialBackoff
BY DEF NextDelay

(* The delay slept is the one kept, capped in TypeScript.                      *)
LEMMA SleptIsDelay ==
    ASSUME Client!StreamAssumption, NEW n \in 0 .. MaxBackoff + 1
    PROVE  Client!Slept(NextDelay(n)) = Client!Delay(n)
<1>1. InitialBackoff \in Nat /\ MaxBackoff \in Nat /\ n \in Nat
  BY DEF Client!StreamAssumption
<1>2. CASE n = 0
  <2>1. 2 ^ 0 = 1 /\ InitialBackoff * 1 = InitialBackoff  BY <1>1
  <2> QED  BY <1>2, <2>1 DEF Client!Slept, Client!Delay, NextDelay
<1>3. CASE n # 0
  <2>1. 2 ^ n \in Nat  BY <1>1, PowersDouble
  <2>2. \A i, q \in Nat : i * q \in Nat  OBVIOUS
  <2>3. InitialBackoff * 2 ^ n \in Nat  BY <1>1, <2>1, <2>2
  <2>4. \A x \in Nat : Client!Least(Client!Least(x, MaxBackoff), MaxBackoff) = Client!Least(x, MaxBackoff)
    BY <1>1 DEF Client!Least
  <2>5. NextDelay(n) = Client!Least(InitialBackoff * 2 ^ n, MaxBackoff)
        /\ Client!Delay(n) = Client!Least(InitialBackoff * 2 ^ n, MaxBackoff)
    BY <1>3 DEF NextDelay, Client!Delay
  <2> QED  BY <2>3, <2>4, <2>5 DEF Client!Slept
<1> QED  BY <1>2, <1>3

LEMMA FailFits ==
    ASSUME Client!StreamAssumption, ClientInv, DelayInv, Client!Fail, state \notin {"done", "dropped"}
    PROVE  DelayInv' /\ (state' = "waiting" => timer' = Client!Delay(failures))
<1>1. CASE policy = "enabled" /\ timer' = Client!Slept(backoff) /\ backoff' = Client!Doubled(backoff) /\ Client!Drop
  <2>1. backoff = NextDelay(failures) /\ failures \in 0 .. MaxBackoff + 1
    BY <1>1 DEF DelayInv, ClientInv, Client!TypeOK
  <2>2. failures' = Client!Least(failures + 1, MaxBackoff + 1)  BY <1>1 DEF Client!Drop
  <2>3. backoff' = NextDelay(failures')  BY <1>1, <2>1, <2>2, DelayDoubles
  <2>4. timer' = Client!Delay(failures)  BY <1>1, <2>1, SleptIsDelay
  <2> QED  BY <2>3, <2>4 DEF DelayInv
<1>2. CASE policy = "disabled" /\ Client!End("done")
  BY <1>2 DEF Client!End, Client!Drop, DelayInv
<1> QED  BY <1>1, <1>2 DEF Client!Fail

(* One lemma for all steps: what a step does to the delays.                    *)
LEMMA DelayStep ==
    ASSUME Client!StreamAssumption, ClientInv, DelayInv, Client!Next
    PROVE  /\ DelayInv'
           /\ state # "waiting" /\ state' = "waiting" => timer' = Client!Delay(failures)
<1>1. CASE Client!Fail /\ state \notin {"done", "dropped"}
  BY <1>1, FailFits
<1>2. CASE \E how \in {"done", "dropped"} : Client!End(how)
  BY <1>2 DEF Client!End, DelayInv
<1>3. CASE Client!Opened
  BY <1>3, FirstDelay DEF Client!Opened, DelayInv
<1>4. CASE /\ UNCHANGED <<policy, backoff, failures>>
           /\ state' = state \/ (state \notin {"done", "dropped"} /\ state' # "waiting")
  BY <1>4 DEF DelayInv
<1>5. Client!Poll => \/ Client!Fail /\ state \notin {"done", "dropped"}
                    \/ Client!End("done") \/ Client!Opened
                    \/ /\ UNCHANGED <<policy, backoff, failures>>
                       /\ state' = state \/ (state \notin {"done", "dropped"} /\ state' # "waiting")
  BY DEF Client!Poll, Client!Refused, Client!RefusalRead, Client!ConnectFails, Client!ReadFrame,
     Client!Resumed, Client!StreamEnds, Client!Retry
<1>6. Client!Abort => Client!End("dropped")  BY DEF Client!Abort
<1>7. Client!Tick \/ Client!Answer \/ Client!Deny \/ Client!AnswerLost \/ Client!Fault \/ Client!Stop
      \/ Client!Restart \/ Client!OthersMove \/ Client!GhostGone \/ (\E f \in Client!Frames : Client!Send(f))
      \/ Client!KeepAliveSent => UNCHANGED <<policy, state, backoff, failures>>
  BY DEF Client!Tick, Client!Answer, Client!Deny, Client!AnswerLost, Client!Fault, Client!Stop, Client!Restart,
     Client!OthersMove, Client!GhostGone, Client!Send, Client!KeepAliveSent, Client!stream
<1> QED  BY <1>1, <1>2, <1>3, <1>4, <1>5, <1>6, <1>7 DEF Client!Next

(* Both libraries (next_backoff, reset_backoff; the loop of streamEvents): the *)
(* delay before an attempt is InitialBackoff times two to the failures since a *)
(* connection last opened, at most MaxBackoff, whatever ends in between; but   *)
(* the first of Rust is InitialBackoff, capped by nothing.  Nothing is assumed *)
(* of the order of the two.                                                    *)
THEOREM DelaysFit == Client!Spec => DelayFitsFailures
<1> DEFINE Fits == state # "waiting" /\ state' = "waiting" => timer' = Client!Delay(failures)
<1>1. Client!Init => ClientInv /\ DelayInv
  BY ClientInit, FirstDelay, ClientAssumption DEF Client!Init, DelayInv
<1>2. ClientInv /\ DelayInv /\ [Client!Next]_(Client!vars) => (ClientInv /\ DelayInv)'
  <2>1. ClientInv /\ [Client!Next]_(Client!vars) => ClientInv'  BY ClientNext, ClientAssumption
  <2>2. ClientInv /\ DelayInv /\ Client!Next => DelayInv'  BY DelayStep, ClientAssumption
  <2>3. DelayInv /\ UNCHANGED Client!vars => DelayInv'
    BY DEF DelayInv, Client!vars, Client!stream
  <2> QED  BY <2>1, <2>2, <2>3
<1>3. ClientInv /\ DelayInv /\ [Client!Next]_(Client!vars) => [Fits]_(Client!vars)
  BY DelayStep, ClientAssumption
<1>4. DelayFitsFailures <=> [][Fits]_(Client!vars)  BY DEF DelayFitsFailures, Client!DelayFitsFailures
<1> QED  BY <1>1, <1>2, <1>3, <1>4, PTL DEF Client!Spec

-----------------------------------------------------------------------------
(* The calls: the client library, the routes and the queries between them.  *)
(* A call gives nothing that its route does not read; a methodology goes    *)
(* with every version.                                                        *)
Named(call) ==
    /\ call.route \in DOMAIN Routes
    /\ call.gives \cup call.options \subseteq Routes[call.route].reads
    /\ "methodology" \notin call.gives /\ "format" \notin call.gives \cup call.options
    /\ "version" \in call.gives \cup call.options => "methodology" \in call.options
    /\ "version" \in Routes[call.route].reads => "methodology" \in Routes[call.route].reads

LEMMA CallsNamed == \A call \in Calls : Named(call)
<1>1. Named(intensity_now)
  BY SMTT(30) DEF Named, intensity_now, Call, IntensityNowOptions, IntensityNowAllOptions, Routes, Route, RegionQuery
<1>2. Named(intensity_now_all)
  BY SMTT(30) DEF Named, intensity_now_all, Call, IntensityNowAllOptions, Routes, Route, AllRegionsQuery
<1>3. Named(intensity_date)
  BY SMTT(30) DEF Named, intensity_date, Call, FromTo, IntensityDateOptions, IntensityNowOptions, IntensityNowAllOptions, Routes, Route, HistoryQuery
<1>4. Named(intensity_stats)
  BY SMTT(30) DEF Named, intensity_stats, Call, FromTo, IntensityStatsOptions, IntensityNowOptions, IntensityNowAllOptions, Routes, Route, StatsQuery
<1>5. Named(below)
  BY SMTT(30) DEF Named, below, Call, BelowOptions, IntensityNowOptions, IntensityNowAllOptions, Routes, Route, BelowQuery
<1>6. Named(forecast)
  BY SMTT(30) DEF Named, forecast, Call, ForecastOptions, IntensityNowOptions, IntensityNowAllOptions, Routes, Route, ForecastQuery
<1>7. Named(greenest_window)
  BY SMTT(30) DEF Named, greenest_window, Call, GreenestWindowOptions, BelowOptions, IntensityNowOptions, IntensityNowAllOptions, Routes, Route, GreenestWindowQuery
<1>8. Named(schedule)
  BY SMTT(30) DEF Named, schedule, Call, ScheduleOptions, BelowOptions, IntensityNowOptions, IntensityNowAllOptions, Routes, Route, ScheduleQuery
<1>9. Named(schedule_slots)
  BY SMTT(30) DEF Named, schedule_slots, Call, ScheduleSlotsOptions, BelowOptions, IntensityNowOptions, IntensityNowAllOptions, Routes, Route, SlotsQuery
<1>10. Named(mix)
  BY SMTT(30) DEF Named, mix, Call, MixOptions, IntensityNowOptions, IntensityNowAllOptions, Routes, Route, RegionQuery
<1>11. Named(exchanges)
  BY SMTT(30) DEF Named, exchanges, Call, Routes, Route
<1>12. Named(exchanges_history)
  BY SMTT(30) DEF Named, exchanges_history, Call, FromTo, Routes, Route, DateRangeQuery
<1>13. Named(weather)
  BY SMTT(30) DEF Named, weather, Call, Routes, Route
<1>14. Named(weather_history)
  BY SMTT(30) DEF Named, weather_history, Call, FromTo, Routes, Route, DateRangeQuery
<1>15. Named(renewable)
  BY SMTT(30) DEF Named, renewable, Call, Routes, Route
<1>16. Named(methodologies)
  BY SMTT(30) DEF Named, methodologies, Call, Routes, Route
<1>17. Named(regions)
  BY SMTT(30) DEF Named, regions, Call, Routes, Route
<1>18. Named(factors)
  BY SMTT(30) DEF Named, factors, Call, FactorsOptions, IntensityNowAllOptions, Routes, Route, FactorsQuery
<1>19. Named(intensity_index)
  BY SMTT(30) DEF Named, intensity_index, Call, Routes, Route
<1>20. Named(price)
  BY SMTT(30) DEF Named, price, Call, PriceOptions, Routes, Route, PriceQuery
<1>21. Named(price_history)
  BY SMTT(30) DEF Named, price_history, Call, FromTo, PriceHistoryOptions, Routes, Route, PriceHistoryQuery
<1>22. Named(cost_reference)
  BY SMTT(30) DEF Named, cost_reference, Call, CostReferenceOptions, Routes, Route, CostReferenceQuery
<1>23. Named(eligibility_rulesets)
  BY SMTT(30) DEF Named, eligibility_rulesets, Call, Routes, Route
<1>24. Named(visit_stats)
  BY SMTT(30) DEF Named, visit_stats, Call, Routes, Route
<1>25. Named(record_visit)
  BY SMTT(30) DEF Named, record_visit, Call, Routes, Route
<1>26. Named(list_webhooks)
  BY SMTT(30) DEF Named, list_webhooks, Call, Routes, Route
<1>27. Named(create_webhook)
  BY SMTT(30) DEF Named, create_webhook, Call, Routes, Route
<1>28. Named(delete_webhook)
  BY SMTT(30) DEF Named, delete_webhook, Call, Routes, Route
<1>29. Named(intensity_stream)
  BY SMTT(30) DEF Named, intensity_stream, Call, IntensityStreamOptions, Routes, Route, StreamQuery
<1> QED  BY <1>1, <1>2, <1>3, <1>4, <1>5, <1>6, <1>7, <1>8, <1>9, <1>10, <1>11, <1>12, <1>13, <1>14, <1>15, <1>16, <1>17, <1>18, <1>19, <1>20, <1>21, <1>22, <1>23, <1>24, <1>25, <1>26, <1>27, <1>28, <1>29 DEF Calls

LEMMA CallOfRoute == \A route \in DOMAIN Routes : CallOf(route) \in Calls /\ CallOf(route).route = route
<1> SUFFICES ASSUME NEW route \in DOMAIN Routes PROVE \E call \in Calls : call.route = route
  BY DEF CallOf
<1>1. intensity_now \in Calls /\ intensity_now.route = "intensity_now"  BY DEF Calls, intensity_now, Call
<1>2. intensity_now_all \in Calls /\ intensity_now_all.route = "intensity_now_all"  BY DEF Calls, intensity_now_all, Call
<1>3. intensity_date \in Calls /\ intensity_date.route = "intensity_date"  BY DEF Calls, intensity_date, Call
<1>4. intensity_stats \in Calls /\ intensity_stats.route = "intensity_stats"  BY DEF Calls, intensity_stats, Call
<1>5. below \in Calls /\ below.route = "intensity_below"  BY DEF Calls, below, Call
<1>6. forecast \in Calls /\ forecast.route = "forecast"  BY DEF Calls, forecast, Call
<1>7. greenest_window \in Calls /\ greenest_window.route = "greenest_window"  BY DEF Calls, greenest_window, Call
<1>8. schedule \in Calls /\ schedule.route = "schedule"  BY DEF Calls, schedule, Call
<1>9. schedule_slots \in Calls /\ schedule_slots.route = "schedule_slots"  BY DEF Calls, schedule_slots, Call
<1>10. mix \in Calls /\ mix.route = "mix"  BY DEF Calls, mix, Call
<1>11. exchanges \in Calls /\ exchanges.route = "exchanges"  BY DEF Calls, exchanges, Call
<1>12. exchanges_history \in Calls /\ exchanges_history.route = "exchanges_date"  BY DEF Calls, exchanges_history, Call
<1>13. weather \in Calls /\ weather.route = "weather"  BY DEF Calls, weather, Call
<1>14. weather_history \in Calls /\ weather_history.route = "weather_date"  BY DEF Calls, weather_history, Call
<1>15. renewable \in Calls /\ renewable.route = "renewable"  BY DEF Calls, renewable, Call
<1>16. methodologies \in Calls /\ methodologies.route = "methodologies"  BY DEF Calls, methodologies, Call
<1>17. regions \in Calls /\ regions.route = "regions"  BY DEF Calls, regions, Call
<1>18. factors \in Calls /\ factors.route = "factors"  BY DEF Calls, factors, Call
<1>19. intensity_index \in Calls /\ intensity_index.route = "intensity_index"  BY DEF Calls, intensity_index, Call
<1>20. price \in Calls /\ price.route = "price"  BY DEF Calls, price, Call
<1>21. price_history \in Calls /\ price_history.route = "price_date"  BY DEF Calls, price_history, Call
<1>22. cost_reference \in Calls /\ cost_reference.route = "cost_reference"  BY DEF Calls, cost_reference, Call
<1>23. eligibility_rulesets \in Calls /\ eligibility_rulesets.route = "eligibility_rulesets"  BY DEF Calls, eligibility_rulesets, Call
<1>24. visit_stats \in Calls /\ visit_stats.route = "visit_stats"  BY DEF Calls, visit_stats, Call
<1>25. record_visit \in Calls /\ record_visit.route = "record_visit"  BY DEF Calls, record_visit, Call
<1>26. list_webhooks \in Calls /\ list_webhooks.route = "list_webhooks"  BY DEF Calls, list_webhooks, Call
<1>27. create_webhook \in Calls /\ create_webhook.route = "create_webhook"  BY DEF Calls, create_webhook, Call
<1>28. delete_webhook \in Calls /\ delete_webhook.route = "delete_webhook"  BY DEF Calls, delete_webhook, Call
<1>29. intensity_stream \in Calls /\ intensity_stream.route = "intensity_stream"  BY DEF Calls, intensity_stream, Call
<1> QED
  BY <1>1, <1>2, <1>3, <1>4, <1>5, <1>6, <1>7, <1>8, <1>9, <1>10, <1>11, <1>12, <1>13, <1>14, <1>15, <1>16, <1>17, <1>18, <1>19, <1>20, <1>21, <1>22, <1>23, <1>24, <1>25, <1>26, <1>27, <1>28, <1>29 DEF Routes

-----------------------------------------------------------------------------
(* Queries.  What is not a date is never counted in days.                   *)
DatesRead(q) == \A p \in DOMAIN q : p \in {"from", "to"} => q[p] \in Int \cup {Unreadable}

QueryFits(q, required, all) == required \subseteq DOMAIN q /\ DOMAIN q \subseteq all /\ DatesRead(q)

LEMMA MergeIs ==
    \A r, s : /\ DOMAIN (r @@ s) = DOMAIN r \cup DOMAIN s
              /\ \A f \in DOMAIN r : (r @@ s)[f] = r[f]
              /\ \A f \in DOMAIN s \ DOMAIN r : (r @@ s)[f] = s[f]
BY DEF @@

LEMMA MergeDates ==
    ASSUME NEW r, NEW s, DatesRead(r), DatesRead(s)
    PROVE  DatesRead(r @@ s)
<1> SUFFICES ASSUME NEW p \in DOMAIN (r @@ s), p \in {"from", "to"}
             PROVE  (r @@ s)[p] \in Int \cup {Unreadable}
  BY DEF DatesRead
<1>1. CASE p \in DOMAIN r
  BY <1>1, MergeIs DEF DatesRead
<1>2. CASE p \in DOMAIN s \ DOMAIN r
  BY <1>2, MergeIs DEF DatesRead
<1>3. DOMAIN (r @@ s) = DOMAIN r \cup DOMAIN s
  BY MergeIs
<1> QED  BY <1>1, <1>2, <1>3

LEMMA MergeFits ==
    ASSUME NEW r, NEW s, NEW required, NEW all,
           DOMAIN r \subseteq all, DatesRead(r), QueryFits(s, required, all)
    PROVE  QueryFits(r @@ s, required, all)
BY MergeIs, MergeDates DEF QueryFits

LEMMA GivenFits ==
    ASSUME NEW required, NEW all, required \subseteq all
    PROVE  QueryFits(Give(required), required, all)
<1>1. \A p \in {"from", "to"} : Ordinary[p] \in Int  BY DEF Ordinary
<1> QED  BY <1>1 DEF Give, QueryFits, DatesRead

LEMMA ChoiceFits ==
    ASSUME NEW p, NEW choice \in Choices(p)
    PROVE  DOMAIN choice = {p} /\ DatesRead(choice)
<1>1. PICK v \in {Ordinary[p]} \cup Others(p) : choice = [name \in {p} |-> v]
  BY DEF Choices
<1>2. p = "from" => v \in Int \cup {Unreadable}
  BY DEF Ordinary, Others
<1>3. p = "to" => v \in Int
  BY DEF Ordinary, Others
<1> QED  BY <1>1, <1>2, <1>3 DEF DatesRead

LEMMA QueriesFit ==
    ASSUME NEW required, NEW all, required \subseteq all, "version" \in all => "methodology" \in all,
           NEW q \in Queries(required, all)
    PROVE  QueryFits(q, required, all)
<1> DEFINE Bases == {Give({})} \cup Consumption(all)
<1>1. \A basis \in Bases : DOMAIN basis \subseteq all /\ DatesRead(basis)
  BY DEF Consumption, Give, DatesRead
<1>2. CASE q = Give(all)
  BY <1>2, GivenFits DEF QueryFits
<1>3. CASE \E basis \in Bases : q = basis @@ Give(required)
  BY <1>1, <1>3, GivenFits, MergeFits
<1>4. CASE \E a, b \in UNION {Choices(p) : p \in all}, basis \in Bases : q = a @@ b @@ basis @@ Give(required)
  <2>1. PICK a, b \in UNION {Choices(p) : p \in all}, basis \in Bases : q = a @@ b @@ basis @@ Give(required)
    BY <1>4
  <2>2. \A choice \in UNION {Choices(p) : p \in all} : DOMAIN choice \subseteq all /\ DatesRead(choice)
    <3> SUFFICES ASSUME NEW p \in all, NEW choice \in Choices(p)
                 PROVE  DOMAIN choice \subseteq all /\ DatesRead(choice)
      OBVIOUS
    <3>1. DOMAIN choice = {p} /\ DatesRead(choice)
      BY ChoiceFits
    <3> QED  BY <3>1
  <2>3. DOMAIN (a @@ b) \subseteq all /\ DatesRead(a @@ b)
    BY <2>2, MergeIs, MergeDates
  <2>4. DOMAIN (a @@ b @@ basis) \subseteq all /\ DatesRead(a @@ b @@ basis)
    BY <1>1, <2>3, MergeIs, MergeDates
  <2> QED  BY <2>1, <2>4, GivenFits, MergeFits
<1> QED  BY <1>2, <1>3, <1>4 DEF Queries

-----------------------------------------------------------------------------
(* Handlers.  What may be read for an answer on a basis, and the basis a    *)
(* request asks.                                                             *)
Modest(a) == a.days <= (IF a.basis = "production" THEN 366 ELSE 92) /\ a.hours <= 72

AsksConsumption(route, q) ==
    /\ Get(q, "version", 0) = 2
    /\ Get(q, "methodology", IF route = "factors" THEN "acv-ademe" ELSE "rte-direct") = "acv-ademe"

AsAsked(route, q, basis) == basis # "none" => (basis = "consumption" <=> AsksConsumption(route, q))

HandlerSound(route, q, h) ==
    /\ h.accepts \in BOOLEAN
    /\ h.reads \in {"nothing", "unavailable", "unwired", "last", "range", "forecast"}
    /\ DatesRead(q) => Modest(h)
    /\ h.accepts /\ DOMAIN q \subseteq Routes[route].reads => AsAsked(route, q, h.basis)

LEMMA ProductionAsAsked ==
    ASSUME NEW route, NEW q, route # "factors", ProductionOnly(q)
    PROVE  AsAsked(route, q, "production")
BY DEF AsAsked, AsksConsumption, ProductionOnly, WantsConsumption, MethodologyOf

LEMMA DoesSound ==
    ASSUME NEW route, NEW q, NEW ok \in BOOLEAN, NEW basis, NEW empty, ok => AsAsked(route, q, basis),
           NEW reads \in {"nothing", "unavailable", "unwired", "last", "range", "forecast"}
    PROVE  HandlerSound(route, q, Does(ok, reads, basis, empty))
BY DEF HandlerSound, Modest, Does

LEMMA ForecastingSound ==
    ASSUME NEW route, NEW q, NEW ok \in BOOLEAN, ok => ForecastWindow(q) /\ ProductionOnly(q), route # "factors"
    PROVE  /\ HandlerSound(route, q, Forecasting(q, ok, "production"))
           /\ HandlerSound(route, q, [Forecasting(q, ok, "production") EXCEPT !.late = EligibilityAccepted(q)])
<1>1. ok => HorizonOf(q) \in 1 .. 72
  BY DEF ForecastWindow, MAX_HORIZON_HOURS
<1>2. ok => AsAsked(route, q, "production")
  BY ProductionAsAsked
<1> QED  BY <1>1, <1>2 DEF HandlerSound, Modest, Forecasting, Does

(* Of any request at all, not only of those the instance enumerates. *)
LEMMA HandlersSound ==
    ASSUME NEW route \in DOMAIN Routes, ~NeedsKey([route |-> route]), NEW q, NEW wired \in BOOLEAN
    PROVE  HandlerSound(route, q, HandlerOf(route, q, wired))
<1>1. CASE route = "intensity_now"
  <2>1. HandlerOf(route, q, wired) = IntensityNow(q)  BY <1>1 DEF HandlerOf
  <2>2. HandlerSound("intensity_now", q, IntensityNow(q))
    BY DEF IntensityNow, BasisOf, WantsConsumption, OnlyNational, RegionOf, MethodologyOf, Get, Does, HandlerSound, Modest, AsAsked, AsksConsumption, DatesRead
  <2> QED  BY <1>1, <2>1, <2>2
<1>2. CASE route = "intensity_now_all"
  <2>1. HandlerOf(route, q, wired) = IntensityNowAll(q)  BY <1>2 DEF HandlerOf
  <2> DEFINE ok == SeriesKnown(q) /\ ProductionOnly(q)
  <2>2. ok \in BOOLEAN  BY DEF Scheduling
  <2>3. ok => AsAsked("intensity_now_all", q, "production")  BY ProductionAsAsked
  <2>4. IntensityNowAll(q) = Does(ok, "last", "production", 200)  BY DEF IntensityNowAll
  <2> HIDE DEF ok
  <2>5. HandlerSound("intensity_now_all", q, IntensityNowAll(q))
    BY <2>2, <2>3, <2>4, DoesSound
  <2> QED  BY <1>2, <2>1, <2>5
<1>3. CASE route = "mix"
  <2>1. HandlerOf(route, q, wired) = Mix(q)  BY <1>3 DEF HandlerOf
  <2> DEFINE ok == SeriesKnown(q) /\ ProductionOnly(q)
  <2>2. ok \in BOOLEAN  BY DEF Scheduling
  <2>3. ok => AsAsked("mix", q, "production")  BY ProductionAsAsked
  <2>4. Mix(q) = Does(ok, "last", "production", 404)  BY DEF Mix
  <2> HIDE DEF ok
  <2>5. HandlerSound("mix", q, Mix(q))
    BY <2>2, <2>3, <2>4, DoesSound
  <2> QED  BY <1>3, <2>1, <2>5
<1>4. CASE route = "intensity_date"
  <2>1. HandlerOf(route, q, wired) = IntensityDate(q)  BY <1>4 DEF HandlerOf
  <2>2. HandlerSound("intensity_date", q, IntensityDate(q))
    BY DEF IntensityDate, BasisOf, WantsConsumption, OnlyNational, RegionOf, MethodologyOf, Get, Over, RangeUpTo, RangeGiven, Span, MAX_DENSE_SERIES_SPAN, MAX_HISTORY_SPAN, Gives, Does, HandlerSound, Modest, AsAsked, AsksConsumption, DatesRead
  <2> QED  BY <1>4, <2>1, <2>2
<1>5. CASE route = "intensity_stats"
  <2>1. HandlerOf(route, q, wired) = IntensityStats(q)  BY <1>5 DEF HandlerOf
  <2>2. HandlerSound("intensity_stats", q, IntensityStats(q))
    BY DEF IntensityStats, BasisOf, WantsConsumption, OnlyNational, RegionOf, MethodologyOf, Get, Over, RangeUpTo, RangeGiven, Span, MAX_DENSE_SERIES_SPAN, MAX_HISTORY_SPAN, Gives, Does, HandlerSound, Modest, AsAsked, AsksConsumption, DatesRead
  <2> QED  BY <1>5, <2>1, <2>2
<1>6. CASE route = "exchanges"
  <2>1. HandlerOf(route, q, wired) = Exchanges(q)  BY <1>6 DEF HandlerOf
  <2>2. HandlerSound("exchanges", q, Exchanges(q))
    BY DEF Exchanges, Does, HandlerSound, Modest, AsAsked, AsksConsumption, DatesRead
  <2> QED  BY <1>6, <2>1, <2>2
<1>7. CASE route = "exchanges_date"
  <2>1. HandlerOf(route, q, wired) = ExchangesDate(q)  BY <1>7 DEF HandlerOf
  <2>2. HandlerSound("exchanges_date", q, ExchangesDate(q))
    BY DEF ExchangesDate, DenseRange, Over, RangeUpTo, RangeGiven, Span, MAX_DENSE_SERIES_SPAN, MAX_HISTORY_SPAN, Gives, Does, HandlerSound, Modest, AsAsked, AsksConsumption, DatesRead
  <2> QED  BY <1>7, <2>1, <2>2
<1>8. CASE route = "weather"
  <2>1. HandlerOf(route, q, wired) = Weather(q)  BY <1>8 DEF HandlerOf
  <2>2. HandlerSound("weather", q, Weather(q))
    BY DEF Weather, Does, HandlerSound, Modest, AsAsked, AsksConsumption, DatesRead
  <2> QED  BY <1>8, <2>1, <2>2
<1>9. CASE route = "weather_date"
  <2>1. HandlerOf(route, q, wired) = WeatherDate(q)  BY <1>9 DEF HandlerOf
  <2>2. HandlerSound("weather_date", q, WeatherDate(q))
    BY DEF WeatherDate, DenseRange, Over, RangeUpTo, RangeGiven, Span, MAX_DENSE_SERIES_SPAN, MAX_HISTORY_SPAN, Gives, Does, HandlerSound, Modest, AsAsked, AsksConsumption, DatesRead
  <2> QED  BY <1>9, <2>1, <2>2
<1>10. CASE route = "renewable"
  <2>1. HandlerOf(route, q, wired) = Renewable(q, wired)  BY <1>10 DEF HandlerOf
  <2>2. HandlerSound("renewable", q, Renewable(q, wired))
    BY DEF Renewable, Does, HandlerSound, Modest, AsAsked, AsksConsumption, DatesRead
  <2> QED  BY <1>10, <2>1, <2>2
<1>11. CASE route = "price"
  <2>1. HandlerOf(route, q, wired) = Price(q)  BY <1>11 DEF HandlerOf
  <2>2. HandlerSound("price", q, Price(q))
    BY DEF Price, RequireNational, Does, HandlerSound, Modest, AsAsked, AsksConsumption, DatesRead
  <2> QED  BY <1>11, <2>1, <2>2
<1>12. CASE route = "price_date"
  <2>1. HandlerOf(route, q, wired) = PriceDate(q)  BY <1>12 DEF HandlerOf
  <2>2. HandlerSound("price_date", q, PriceDate(q))
    BY DEF PriceDate, DenseRange, RequireNational, Over, RangeUpTo, RangeGiven, Span, MAX_DENSE_SERIES_SPAN, MAX_HISTORY_SPAN, Gives, Does, HandlerSound, Modest, AsAsked, AsksConsumption, DatesRead
  <2> QED  BY <1>12, <2>1, <2>2
<1>13. CASE route = "forecast"
  <2>1. HandlerOf(route, q, wired) = Forecast(q, wired)  BY <1>13 DEF HandlerOf
  <2>2. HandlerSound("forecast", q, Forecast(q, wired))
    BY DEF Forecast, BasisOf, WantsConsumption, OnlyNational, RegionOf, MethodologyOf, Get, Forecasting, ForecastWindow, HorizonOf, MAX_HORIZON_HOURS, DEFAULT_HORIZON_HOURS, Readable, Does, HandlerSound, Modest, AsAsked, AsksConsumption, DatesRead
  <2> QED  BY <1>13, <2>1, <2>2
<1>14. CASE route = "greenest_window"
  <2>1. HandlerOf(route, q, wired) = GreenestWindow(q)  BY <1>14 DEF HandlerOf
  <2> DEFINE ok == Scheduling(q) /\ FitsHorizon(q, "window_minutes")
  <2>2. ok \in BOOLEAN  BY DEF Scheduling
  <2>3. ok => ForecastWindow(q) /\ ProductionOnly(q)  BY DEF Scheduling
  <2>4. GreenestWindow(q) = [Forecasting(q, ok, "production") EXCEPT !.late = EligibilityAccepted(q)]  BY DEF GreenestWindow
  <2> HIDE DEF ok
  <2>5. HandlerSound("greenest_window", q, GreenestWindow(q))
    BY <2>2, <2>3, <2>4, ForecastingSound
  <2> QED  BY <1>14, <2>1, <2>5
<1>15. CASE route = "schedule"
  <2>1. HandlerOf(route, q, wired) = Schedule(q)  BY <1>15 DEF HandlerOf
  <2> DEFINE ok == /\ Scheduling(q) /\ FitsHorizon(q, "duration_minutes")
                           /\ Readable(q, "deadline") /\ InRange(q, "energy_kwh")
  <2>2. ok \in BOOLEAN  BY DEF Scheduling
  <2>3. ok => ForecastWindow(q) /\ ProductionOnly(q)  BY DEF Scheduling
  <2>4. Schedule(q) = Forecasting(q, ok, "production")  BY DEF Schedule
  <2> HIDE DEF ok
  <2>5. HandlerSound("schedule", q, Schedule(q))
    BY <2>2, <2>3, <2>4, ForecastingSound
  <2> QED  BY <1>15, <2>1, <2>5
<1>16. CASE route = "schedule_slots"
  <2>1. HandlerOf(route, q, wired) = ScheduleSlots(q)  BY <1>16 DEF HandlerOf
  <2> DEFINE ok == Scheduling(q) /\ Get(q, "count", 0) > 0
  <2>2. ok \in BOOLEAN  BY DEF Scheduling
  <2>3. ok => ForecastWindow(q) /\ ProductionOnly(q)  BY DEF Scheduling
  <2>4. ScheduleSlots(q) = Forecasting(q, ok, "production")  BY DEF ScheduleSlots
  <2> HIDE DEF ok
  <2>5. HandlerSound("schedule_slots", q, ScheduleSlots(q))
    BY <2>2, <2>3, <2>4, ForecastingSound
  <2> QED  BY <1>16, <2>1, <2>5
<1>17. CASE route = "intensity_below"
  <2>1. HandlerOf(route, q, wired) = IntensityBelow(q)  BY <1>17 DEF HandlerOf
  <2> DEFINE ok == Scheduling(q) /\ Get(q, "threshold", "out") = "in"
  <2>2. ok \in BOOLEAN  BY DEF Scheduling
  <2>3. ok => ForecastWindow(q) /\ ProductionOnly(q)  BY DEF Scheduling
  <2>4. IntensityBelow(q) = Forecasting(q, ok, "production")  BY DEF IntensityBelow
  <2> HIDE DEF ok
  <2>5. HandlerSound("intensity_below", q, IntensityBelow(q))
    BY <2>2, <2>3, <2>4, ForecastingSound
  <2> QED  BY <1>17, <2>1, <2>5
<1>18. CASE route = "intensity_stream"
  <2>1. HandlerOf(route, q, wired) = IntensityStream(q)  BY <1>18 DEF HandlerOf
  <2>2. HandlerSound("intensity_stream", q, IntensityStream(q))
    BY DEF IntensityStream, Get, StreamQuery, Routes, Route, Gives, Does, HandlerSound, Modest, AsAsked, AsksConsumption, DatesRead
  <2> QED  BY <1>18, <2>1, <2>2
<1>19. CASE route = "factors"
  <2>1. HandlerOf(route, q, wired) = Factors(q)  BY <1>19 DEF HandlerOf
  <2> DEFINE ok == MethodologyOf(q, "acv-ademe") = "acv-ademe" /\ Get(q, "version", 1) \in {1, 2}
             basis == IF Get(q, "version", 1) = 2 THEN "consumption" ELSE "production"
  <2>2. ok \in BOOLEAN  OBVIOUS
  <2>3. ok => AsAsked("factors", q, basis)  BY DEF AsAsked, AsksConsumption, MethodologyOf, Get
  <2>4. Factors(q) = Does(ok, "nothing", basis, 200)  BY DEF Factors
  <2> HIDE DEF ok, basis
  <2>5. HandlerSound("factors", q, Factors(q))
    BY <2>2, <2>3, <2>4, DoesSound
  <2> QED  BY <1>19, <2>1, <2>5
<1>20. CASE route = "cost_reference"
  <2>1. HandlerOf(route, q, wired) = CostReference(q)  BY <1>20 DEF HandlerOf
  <2>2. HandlerSound("cost_reference", q, CostReference(q))
    BY DEF CostReference, Does, HandlerSound, Modest, AsAsked, AsksConsumption, DatesRead
  <2> QED  BY <1>20, <2>1, <2>2
<1>21. CASE route = "visit_stats"
  <2>1. HandlerOf(route, q, wired) = VisitStats(q)  BY <1>21 DEF HandlerOf
  <2>2. HandlerSound("visit_stats", q, VisitStats(q))
    BY DEF VisitStats, Does, HandlerSound, Modest, AsAsked, AsksConsumption, DatesRead
  <2> QED  BY <1>21, <2>1, <2>2
<1>22. CASE route = "record_visit"
  <2>1. HandlerOf(route, q, wired) = VisitStats(q)  BY <1>22 DEF HandlerOf
  <2>2. HandlerSound("record_visit", q, VisitStats(q))
    BY DEF VisitStats, Does, HandlerSound, Modest, AsAsked, AsksConsumption, DatesRead
  <2> QED  BY <1>22, <2>1, <2>2
<1>23. CASE route = "methodologies"
  <2>1. HandlerOf(route, q, wired) = Catalogue(q)  BY <1>23 DEF HandlerOf
  <2>2. HandlerSound("methodologies", q, Catalogue(q))
    BY DEF Catalogue, Does, HandlerSound, Modest, AsAsked, AsksConsumption, DatesRead
  <2> QED  BY <1>23, <2>1, <2>2
<1>24. CASE route = "regions"
  <2>1. HandlerOf(route, q, wired) = Catalogue(q)  BY <1>24 DEF HandlerOf
  <2>2. HandlerSound("regions", q, Catalogue(q))
    BY DEF Catalogue, Does, HandlerSound, Modest, AsAsked, AsksConsumption, DatesRead
  <2> QED  BY <1>24, <2>1, <2>2
<1>25. CASE route = "intensity_index"
  <2>1. HandlerOf(route, q, wired) = Catalogue(q)  BY <1>25 DEF HandlerOf
  <2>2. HandlerSound("intensity_index", q, Catalogue(q))
    BY DEF Catalogue, Does, HandlerSound, Modest, AsAsked, AsksConsumption, DatesRead
  <2> QED  BY <1>25, <2>1, <2>2
<1>26. CASE route = "eligibility_rulesets"
  <2>1. HandlerOf(route, q, wired) = Catalogue(q)  BY <1>26 DEF HandlerOf
  <2>2. HandlerSound("eligibility_rulesets", q, Catalogue(q))
    BY DEF Catalogue, Does, HandlerSound, Modest, AsAsked, AsksConsumption, DatesRead
  <2> QED  BY <1>26, <2>1, <2>2
<1> QED  BY <1>1, <1>2, <1>3, <1>4, <1>5, <1>6, <1>7, <1>8, <1>9, <1>10, <1>11, <1>12, <1>13, <1>14, <1>15, <1>16, <1>17, <1>18, <1>19, <1>20, <1>21, <1>22, <1>23, <1>24, <1>25, <1>26 DEF Routes, NeedsKey

-----------------------------------------------------------------------------
(* A call whose values are all ordinary is accepted by the handler of its   *)
(* route.                                                                    *)
OrdinaryQuery(q) == \A p \in DOMAIN q : q[p] = Ordinary[p]

Accepted(call) ==
    \A q, wired : call.gives \subseteq DOMAIN q /\ OrdinaryQuery(q) =>
        HandlerOf(call.route, q, wired).accepts /\ HandlerOf(call.route, q, wired).late

LEMMA OrdinarySeries ==
    ASSUME NEW q, OrdinaryQuery(q)
    PROVE  SeriesKnown(q) /\ ProductionOnly(q) /\ OnlyNational(q) /\ RequireNational(q)
<1>1. RegionOf(q) = "national"
  BY DEF OrdinaryQuery, Ordinary, RegionOf, Get
<1>2. MethodologyOf(q, "rte-direct") \in KNOWN_METHODOLOGIES
  BY DEF OrdinaryQuery, Ordinary, MethodologyOf, Get, KNOWN_METHODOLOGIES
<1>3. Gives(q, "version") => q.version = 1
  BY DEF OrdinaryQuery, Ordinary, Gives
<1> QED
  BY <1>1, <1>2, <1>3 DEF SeriesKnown, RegionKnown, VersionKnown, ProductionOnly, WantsConsumption, Get, Gives,
     OnlyNational, RequireNational

LEMMA OrdinaryRange ==
    ASSUME NEW q, OrdinaryQuery(q), {"from", "to"} \subseteq DOMAIN q, NEW days \in {MAX_HISTORY_SPAN, MAX_DENSE_SERIES_SPAN}
    PROVE  RangeUpTo(q, days)
<1>1. q.from = 0 /\ q.to = 1
  BY DEF OrdinaryQuery, Ordinary
<1> QED
  BY <1>1, RoutesAssumption DEF RangeUpTo, RangeGiven, Span, Gives, MAX_HISTORY_SPAN, MAX_DENSE_SERIES_SPAN

LEMMA OrdinaryForecast ==
    ASSUME NEW q, OrdinaryQuery(q)
    PROVE  /\ ForecastWindow(q) /\ EstimatorKnown(q) /\ Readable(q, "deadline")
           /\ FitsHorizon(q, "window_minutes") /\ FitsHorizon(q, "duration_minutes")
<1>1. HorizonOf(q) = 24
  BY DEF OrdinaryQuery, Ordinary, HorizonOf, Get, DEFAULT_HORIZON_HOURS
<1>2. Readable(q, "from") /\ Readable(q, "deadline")
  <2>1. Get(q, "from", 0) = 0 /\ Get(q, "deadline", 0) \in {0, 1}  BY DEF OrdinaryQuery, Ordinary, Get
  <2> QED  BY <2>1, RoutesAssumption DEF Readable
<1>3. Get(q, "window_minutes", DEFAULT_WINDOW_MINUTES) \in {30, 60}
  BY DEF OrdinaryQuery, Ordinary, Get, DEFAULT_WINDOW_MINUTES
<1>4. Get(q, "duration_minutes", DEFAULT_WINDOW_MINUTES) \in {30, 60}
  BY DEF OrdinaryQuery, Ordinary, Get, DEFAULT_WINDOW_MINUTES
<1>5. EstimatorKnown(q)
  BY DEF OrdinaryQuery, Ordinary, EstimatorKnown, Get
<1> QED
  BY <1>1, <1>2, <1>3, <1>4, <1>5 DEF ForecastWindow, FitsHorizon, MAX_HORIZON_HOURS

LEMMA OrdinaryInRange ==
    ASSUME NEW q, OrdinaryQuery(q),
           NEW p \in {"eligibility_version", "surplus_price_eur_mwh", "low_carbon_threshold_g_per_kwh",
                      "electrolyzer_kwh_per_kg", "energy_kwh", "below", "source", "technology", "perimeter"}
    PROVE  InRange(q, p)
BY DEF OrdinaryQuery, Ordinary, InRange, Get

LEMMA CallsAccepted == \A call \in Calls : NeedsKey(call) \/ Accepted(call)
<1>1. Accepted(intensity_now)
  <2> SUFFICES ASSUME NEW q, NEW wired, {} \subseteq DOMAIN q, OrdinaryQuery(q)
               PROVE  IntensityNow(q).accepts /\ IntensityNow(q).late
    BY DEF Accepted, HandlerOf, intensity_now, Call
  <2> QED  BY OrdinarySeries DEF IntensityNow, Does
<1>2. Accepted(intensity_now_all)
  <2> SUFFICES ASSUME NEW q, NEW wired, {} \subseteq DOMAIN q, OrdinaryQuery(q)
               PROVE  IntensityNowAll(q).accepts /\ IntensityNowAll(q).late
    BY DEF Accepted, HandlerOf, intensity_now_all, Call
  <2> QED  BY OrdinarySeries DEF IntensityNowAll, Does
<1>3. Accepted(intensity_date)
  <2> SUFFICES ASSUME NEW q, NEW wired, {"from", "to"} \subseteq DOMAIN q, OrdinaryQuery(q)
               PROVE  IntensityDate(q).accepts /\ IntensityDate(q).late
    BY DEF Accepted, HandlerOf, intensity_date, Call, FromTo
  <2>1. Get(q, "format", "json") = "json"  BY DEF OrdinaryQuery, Ordinary, Get
  <2> QED  BY OrdinarySeries, OrdinaryRange, <2>1 DEF IntensityDate, Over, Does
<1>4. Accepted(intensity_stats)
  <2> SUFFICES ASSUME NEW q, NEW wired, {"from", "to"} \subseteq DOMAIN q, OrdinaryQuery(q)
               PROVE  IntensityStats(q).accepts /\ IntensityStats(q).late
    BY DEF Accepted, HandlerOf, intensity_stats, Call, FromTo
  <2>1. Get(q, "interval", "hour") \in {"hour", "day"}  BY DEF OrdinaryQuery, Ordinary, Get
  <2> QED  BY OrdinarySeries, OrdinaryRange, <2>1 DEF IntensityStats, Over, Does
<1>5. Accepted(below)
  <2> SUFFICES ASSUME NEW q, NEW wired, {"threshold"} \subseteq DOMAIN q, OrdinaryQuery(q)
               PROVE  IntensityBelow(q).accepts /\ IntensityBelow(q).late
    BY DEF Accepted, HandlerOf, below, Call
  <2>1. Get(q, "threshold", "out") = "in"  BY DEF OrdinaryQuery, Ordinary, Get
  <2> QED  BY OrdinarySeries, OrdinaryForecast, <2>1 DEF IntensityBelow, Forecasting, Scheduling, Does
<1>6. Accepted(forecast)
  <2> SUFFICES ASSUME NEW q, NEW wired, {} \subseteq DOMAIN q, OrdinaryQuery(q)
               PROVE  Forecast(q, wired).accepts /\ Forecast(q, wired).late
    BY DEF Accepted, HandlerOf, forecast, Call
  <2> QED  BY OrdinarySeries, OrdinaryForecast DEF Forecast, Forecasting, Does
<1>7. Accepted(greenest_window)
  <2> SUFFICES ASSUME NEW q, NEW wired, {} \subseteq DOMAIN q, OrdinaryQuery(q)
               PROVE  GreenestWindow(q).accepts /\ GreenestWindow(q).late
    BY DEF Accepted, HandlerOf, greenest_window, Call
  <2>1. Gives(q, "eligibility") => q.eligibility = "rfnbo"  BY DEF OrdinaryQuery, Ordinary, Gives
  <2> QED  BY OrdinarySeries, OrdinaryForecast, OrdinaryInRange, <2>1 DEF GreenestWindow, Forecasting, Scheduling, EligibilityAccepted, Does
<1>8. Accepted(schedule)
  <2> SUFFICES ASSUME NEW q, NEW wired, {} \subseteq DOMAIN q, OrdinaryQuery(q)
               PROVE  Schedule(q).accepts /\ Schedule(q).late
    BY DEF Accepted, HandlerOf, schedule, Call
  <2> QED  BY OrdinarySeries, OrdinaryForecast, OrdinaryInRange DEF Schedule, Forecasting, Scheduling, Does
<1>9. Accepted(schedule_slots)
  <2> SUFFICES ASSUME NEW q, NEW wired, {"count"} \subseteq DOMAIN q, OrdinaryQuery(q)
               PROVE  ScheduleSlots(q).accepts /\ ScheduleSlots(q).late
    BY DEF Accepted, HandlerOf, schedule_slots, Call
  <2>1. (Get(q, "count", 0) > 0) = TRUE  BY DEF OrdinaryQuery, Ordinary, Get
  <2> QED  BY OrdinarySeries, OrdinaryForecast, <2>1 DEF ScheduleSlots, Forecasting, Scheduling, Does
<1>10. Accepted(mix)
  <2> SUFFICES ASSUME NEW q, NEW wired, {} \subseteq DOMAIN q, OrdinaryQuery(q)
               PROVE  Mix(q).accepts /\ Mix(q).late
    BY DEF Accepted, HandlerOf, mix, Call
  <2> QED  BY OrdinarySeries DEF Mix, Does
<1>11. Accepted(exchanges)
  <2> SUFFICES ASSUME NEW q, NEW wired, {} \subseteq DOMAIN q, OrdinaryQuery(q)
               PROVE  Exchanges(q).accepts /\ Exchanges(q).late
    BY DEF Accepted, HandlerOf, exchanges, Call
  <2> QED  BY DEF Exchanges, Does
<1>12. Accepted(exchanges_history)
  <2> SUFFICES ASSUME NEW q, NEW wired, {"from", "to"} \subseteq DOMAIN q, OrdinaryQuery(q)
               PROVE  ExchangesDate(q).accepts /\ ExchangesDate(q).late
    BY DEF Accepted, HandlerOf, exchanges_history, Call, FromTo
  <2> QED  BY OrdinaryRange DEF ExchangesDate, DenseRange, Over, Does
<1>13. Accepted(weather)
  <2> SUFFICES ASSUME NEW q, NEW wired, {} \subseteq DOMAIN q, OrdinaryQuery(q)
               PROVE  Weather(q).accepts /\ Weather(q).late
    BY DEF Accepted, HandlerOf, weather, Call
  <2> QED  BY DEF Weather, Does
<1>14. Accepted(weather_history)
  <2> SUFFICES ASSUME NEW q, NEW wired, {"from", "to"} \subseteq DOMAIN q, OrdinaryQuery(q)
               PROVE  WeatherDate(q).accepts /\ WeatherDate(q).late
    BY DEF Accepted, HandlerOf, weather_history, Call, FromTo
  <2> QED  BY OrdinaryRange DEF WeatherDate, DenseRange, Over, Does
<1>15. Accepted(renewable)
  <2> SUFFICES ASSUME NEW q, NEW wired, {} \subseteq DOMAIN q, OrdinaryQuery(q)
               PROVE  Renewable(q, wired).accepts /\ Renewable(q, wired).late
    BY DEF Accepted, HandlerOf, renewable, Call
  <2> QED  BY DEF Renewable, Does
<1>16. Accepted(methodologies)
  <2> SUFFICES ASSUME NEW q, NEW wired, {} \subseteq DOMAIN q, OrdinaryQuery(q)
               PROVE  Catalogue(q).accepts /\ Catalogue(q).late
    BY DEF Accepted, HandlerOf, methodologies, Call
  <2> QED  BY DEF Catalogue, Does
<1>17. Accepted(regions)
  <2> SUFFICES ASSUME NEW q, NEW wired, {} \subseteq DOMAIN q, OrdinaryQuery(q)
               PROVE  Catalogue(q).accepts /\ Catalogue(q).late
    BY DEF Accepted, HandlerOf, regions, Call
  <2> QED  BY DEF Catalogue, Does
<1>18. Accepted(factors)
  <2> SUFFICES ASSUME NEW q, NEW wired, {} \subseteq DOMAIN q, OrdinaryQuery(q)
               PROVE  Factors(q).accepts /\ Factors(q).late
    BY DEF Accepted, HandlerOf, factors, Call
  <2>1. MethodologyOf(q, "acv-ademe") = "acv-ademe" /\ Get(q, "version", 1) = 1  BY DEF OrdinaryQuery, Ordinary, MethodologyOf, Get
  <2> QED  BY <2>1 DEF Factors, Does
<1>19. Accepted(intensity_index)
  <2> SUFFICES ASSUME NEW q, NEW wired, {} \subseteq DOMAIN q, OrdinaryQuery(q)
               PROVE  Catalogue(q).accepts /\ Catalogue(q).late
    BY DEF Accepted, HandlerOf, intensity_index, Call
  <2> QED  BY DEF Catalogue, Does
<1>20. Accepted(price)
  <2> SUFFICES ASSUME NEW q, NEW wired, {} \subseteq DOMAIN q, OrdinaryQuery(q)
               PROVE  Price(q).accepts /\ Price(q).late
    BY DEF Accepted, HandlerOf, price, Call
  <2> QED  BY OrdinarySeries DEF Price, Does
<1>21. Accepted(price_history)
  <2> SUFFICES ASSUME NEW q, NEW wired, {"from", "to"} \subseteq DOMAIN q, OrdinaryQuery(q)
               PROVE  PriceDate(q).accepts /\ PriceDate(q).late
    BY DEF Accepted, HandlerOf, price_history, Call, FromTo
  <2> QED  BY OrdinarySeries, OrdinaryRange DEF PriceDate, DenseRange, Over, Does
<1>22. Accepted(cost_reference)
  <2> SUFFICES ASSUME NEW q, NEW wired, {} \subseteq DOMAIN q, OrdinaryQuery(q)
               PROVE  CostReference(q).accepts /\ CostReference(q).late
    BY DEF Accepted, HandlerOf, cost_reference, Call
  <2> QED  BY OrdinaryInRange DEF CostReference, Does
<1>23. Accepted(eligibility_rulesets)
  <2> SUFFICES ASSUME NEW q, NEW wired, {} \subseteq DOMAIN q, OrdinaryQuery(q)
               PROVE  Catalogue(q).accepts /\ Catalogue(q).late
    BY DEF Accepted, HandlerOf, eligibility_rulesets, Call
  <2> QED  BY DEF Catalogue, Does
<1>24. Accepted(visit_stats)
  <2> SUFFICES ASSUME NEW q, NEW wired, {} \subseteq DOMAIN q, OrdinaryQuery(q)
               PROVE  VisitStats(q).accepts /\ VisitStats(q).late
    BY DEF Accepted, HandlerOf, visit_stats, Call
  <2> QED  BY DEF VisitStats, Does
<1>25. Accepted(record_visit)
  <2> SUFFICES ASSUME NEW q, NEW wired, {} \subseteq DOMAIN q, OrdinaryQuery(q)
               PROVE  VisitStats(q).accepts /\ VisitStats(q).late
    BY DEF Accepted, HandlerOf, record_visit, Call
  <2> QED  BY DEF VisitStats, Does
<1>26. Accepted(intensity_stream)
  <2> SUFFICES ASSUME NEW q, NEW wired, {} \subseteq DOMAIN q, OrdinaryQuery(q)
               PROVE  IntensityStream(q).accepts /\ IntensityStream(q).late
    BY DEF Accepted, HandlerOf, intensity_stream, Call
  <2> QED  BY OrdinarySeries, OrdinaryInRange DEF IntensityStream, SeriesKnown, Does
<1>27. NeedsKey(list_webhooks)  BY DEF NeedsKey, list_webhooks, Call
<1>28. NeedsKey(create_webhook)  BY DEF NeedsKey, create_webhook, Call
<1>29. NeedsKey(delete_webhook)  BY DEF NeedsKey, delete_webhook, Call
<1> QED  BY <1>1, <1>2, <1>3, <1>4, <1>5, <1>6, <1>7, <1>8, <1>9, <1>10, <1>11, <1>12, <1>13, <1>14, <1>15, <1>16, <1>17, <1>18, <1>19, <1>20, <1>21, <1>22, <1>23, <1>24, <1>25, <1>26, <1>27, <1>28, <1>29 DEF Calls

-----------------------------------------------------------------------------
(* Answers.                                                                  *)
LEMMA OutcomeIs ==
    ASSUME NEW route \in DOMAIN Routes, NEW q, NEW h, HandlerSound(route, q, h), NEW db
    PROVE  /\ DOMAIN Outcome(route, h, db) = {"status", "body", "code"}
           /\ Outcome(route, h, db).status = 200 => h.accepts
           /\ h.accepts /\ h.late => Outcome(route, h, db).status # 400
BY DEF HandlerSound, Outcome, Refusal, Success

(* What is known of a request that waits for its answer, and of an answer.  *)
RequestOK(a) ==
    /\ a.route \in DOMAIN Routes /\ DOMAIN a.query \subseteq Routes[a.route].reads /\ DatesRead(a.query)
    /\ a.client = "sdk" => \E call \in Calls : call.route = a.route /\ call.gives \subseteq DOMAIN a.query

CallInv == (answer = NoAnswer /\ asked # Nobody => RequestOK(asked)) /\ Modest(answer)

(* An answer to the request a: it reads no more than it may, it is on the   *)
(* basis asked, and an ordinary call is not refused for what it gives.       *)
AnswerFits(a, given) ==
    /\ Modest(given)
    /\ given.status = 200 => AsAsked(a.route, a.query, given.basis)
    /\ a.client = "sdk" /\ OrdinaryQuery(a.query) => given.status # 400

LEMMA RequestAnswered ==
    ASSUME RequestOK(asked), NEW db, NEW wired \in BOOLEAN, AnswerRequest(db, wired)
    PROVE  AnswerFits(asked, answer')
<1> DEFINE h == HandlerOf(asked.route, asked.query, wired)
           outcome == Outcome(asked.route, h, db)
           formatted == Formatted(outcome)
<1>1. ~NeedsKey(asked) /\ answer' = Handled(h, formatted)
  BY DEF AnswerRequest, AnswerWith
<1>2. HandlerSound(asked.route, asked.query, h)
  BY <1>1, HandlersSound DEF NeedsKey, RequestOK
<1>3. /\ DOMAIN outcome = {"status", "body", "code"}
      /\ outcome.status = 200 => h.accepts
      /\ h.accepts /\ h.late => outcome.status # 400
  BY <1>2, OutcomeIs DEF RequestOK
<1>4. asked.client = "sdk" /\ OrdinaryQuery(asked.query) => h.accepts /\ h.late
  <2> SUFFICES ASSUME asked.client = "sdk", OrdinaryQuery(asked.query)
               PROVE  h.accepts /\ h.late
    OBVIOUS
  <2>1. PICK call \in Calls : call.route = asked.route /\ call.gives \subseteq DOMAIN asked.query
    BY DEF RequestOK
  <2>2. Accepted(call)
    BY <1>1, <2>1, CallsAccepted DEF NeedsKey
  <2> QED  BY <2>1, <2>2 DEF Accepted
<1> HIDE DEF h, outcome
<1>5. formatted.status = outcome.status
  BY <1>3 DEF Formatted
<1>6. /\ answer'.status = outcome.status /\ answer'.basis = h.basis
      /\ answer'.days = h.days /\ answer'.hours = h.hours
  <2> HIDE DEF formatted
  <2>1. DOMAIN formatted = {"status", "body", "code"}
    BY <1>3 DEF Formatted, formatted
  <2> QED  BY <1>1, <1>5, <2>1, MergeIs DEF Handled
<1>7. Modest(answer')
  BY <1>2, <1>6 DEF HandlerSound, Modest, RequestOK
<1>8. answer'.status = 200 => AsAsked(asked.route, asked.query, answer'.basis)
  BY <1>2, <1>3, <1>6 DEF HandlerSound, RequestOK
<1> QED  BY <1>3, <1>4, <1>6, <1>7, <1>8 DEF AnswerFits

LEMMA WebhookGives ==
    ASSUME NEW call \in Calls, call.route = "create_webhook"
    PROVE  call.gives = {"region", "threshold", "direction", "callback_url"}
BY DEF Calls, Call, FromTo, intensity_now, intensity_now_all, intensity_date, intensity_stats, below, forecast, greenest_window, schedule, schedule_slots, mix, exchanges, exchanges_history, weather, weather_history, renewable, methodologies, regions, factors, intensity_index, price, price_history, cost_reference, eligibility_rulesets, visit_stats, record_visit, list_webhooks, create_webhook, delete_webhook, intensity_stream

LEMMA HandledIs ==
    ASSUME NEW h, NEW outcome, DOMAIN outcome = {"status", "body", "code"}
    PROVE  /\ Handled(h, outcome).status = outcome.status
           /\ Handled(h, outcome).basis = h.basis
           /\ Handled(h, outcome).days = h.days /\ Handled(h, outcome).hours = h.hours
BY MergeIs DEF Handled

(* Without a basis nothing was read. *)
LEMMA CatalogueFits ==
    ASSUME NEW a, NEW outcome, DOMAIN outcome = {"status", "body", "code"},
           a.client = "sdk" /\ OrdinaryQuery(a.query) => outcome.status # 400
    PROVE  AnswerFits(a, Handled(Catalogue(a.query), outcome))
BY HandledIs DEF AnswerFits, Modest, AsAsked, Catalogue, Does

LEMMA OrdinaryWebhook ==
    ASSUME NEW q, OrdinaryQuery(q), {"region", "threshold", "direction", "callback_url"} \subseteq DOMAIN q, NEW key
    PROVE  CreateWebhook(q, key).status # 400
<1>1. /\ RegionOf(q) = "national" /\ Get(q, "direction", "none") = "below"
      /\ Get(q, "threshold", "out") = "in" /\ Get(q, "callback_url", "out") = "in"
  BY DEF OrdinaryQuery, Ordinary, RegionOf, Get
<1> QED  BY <1>1 DEF CreateWebhook, Refusal, Success

LEMMA WebhookAnswered ==
    ASSUME RequestOK(asked), NEW found \in BOOLEAN, AnswerWebhook(found)
    PROVE  AnswerFits(asked, answer')
<1> DEFINE outcome == CASE asked.route = "create_webhook" -> CreateWebhook(asked.query, asked.key)
                        [] asked.route = "list_webhooks" -> ListWebhooks(asked.query, asked.key)
                        [] asked.route = "delete_webhook" -> DeleteWebhook(asked.query, asked.key, found)
<1>1. NeedsKey(asked) /\ answer' = Handled(Catalogue(asked.query), outcome)
  BY DEF AnswerWebhook, AnswerWith
<1>2. DOMAIN outcome = {"status", "body", "code"}
  BY <1>1 DEF NeedsKey, CreateWebhook, ListWebhooks, DeleteWebhook, Refusal, Success
<1>3. asked.client = "sdk" /\ OrdinaryQuery(asked.query) => outcome.status # 400
  <2> SUFFICES ASSUME asked.client = "sdk", OrdinaryQuery(asked.query)
               PROVE  outcome.status # 400
    OBVIOUS
  <2>1. PICK call \in Calls : call.route = asked.route /\ call.gives \subseteq DOMAIN asked.query
    BY DEF RequestOK
  <2>2. asked.route = "create_webhook" => {"region", "threshold", "direction", "callback_url"} \subseteq DOMAIN asked.query
    BY <2>1, WebhookGives
  <2>3. asked.route = "create_webhook" => outcome.status # 400
    BY <2>2, OrdinaryWebhook
  <2> QED  BY <1>1, <2>3 DEF NeedsKey, ListWebhooks, DeleteWebhook, Refusal, Success
<1> HIDE DEF outcome
<1> QED  BY <1>1, <1>2, <1>3, CatalogueFits

LEMMA GatewayAnswered ==
    ASSUME AnswerGateway
    PROVE  AnswerFits(asked, answer')
<1> DEFINE outcome == [status |-> 502, body |-> "page", code |-> "none"]
<1>1. answer' = Handled(Catalogue(asked.query), outcome)
  BY DEF AnswerGateway, AnswerWith
<1>2. DOMAIN outcome = {"status", "body", "code"} /\ outcome.status # 400
  OBVIOUS
<1> HIDE DEF outcome
<1> QED  BY <1>1, <1>2, CatalogueFits

LEMMA KeptAnswered ==
    ASSUME RequestOK(asked), AnswerKept
    PROVE  AnswerFits(asked, answer')
<1>1. PICK accept \in DOMAIN shared :
        /\ asked.query = PlainDate
        /\ answer' = Handled(IntensityDate(asked.query), [Success(asked.route) EXCEPT !.body = shared[accept]])
  BY DEF AnswerKept, AnswerWith
<1> DEFINE outcome == [Success(asked.route) EXCEPT !.body = shared[accept]]
<1>2. DOMAIN outcome = {"status", "body", "code"} /\ outcome.status # 400
  BY DEF Success
<1>3. DOMAIN asked.query = {"from", "to"}
  BY <1>1 DEF PlainDate, Give
<1>4. ~WantsConsumption(asked.query) /\ ~AsksConsumption(asked.route, asked.query)
  BY <1>3 DEF WantsConsumption, AsksConsumption, Get
<1>5. IntensityDate(asked.query).basis = "production"
  BY <1>4 DEF IntensityDate, BasisOf, Over, Does
<1>6. Modest(IntensityDate(asked.query))
  <2>1. DatesRead(asked.query)
    BY DEF RequestOK
  <2>2. HandlerSound("intensity_date", asked.query, HandlerOf("intensity_date", asked.query, TRUE))
    BY HandlersSound DEF Routes, NeedsKey
  <2>3. HandlerOf("intensity_date", asked.query, TRUE) = IntensityDate(asked.query)
    BY DEF HandlerOf
  <2> QED  BY <2>1, <2>2, <2>3 DEF HandlerSound
<1> HIDE DEF outcome
<1> QED  BY <1>1, <1>2, <1>4, <1>5, <1>6, HandledIs DEF AnswerFits, AsAsked, Modest, outcome

-----------------------------------------------------------------------------
(* Steps. *)
LEMMA AskFits ==
    ASSUME AskCall \/ AskOther
    PROVE  answer' = answer /\ (asked' # Nobody => RequestOK(asked'))
<1>1. CASE AskCall
  <2>1. PICK call \in Calls : \E q \in Queries(call.gives, call.gives \cup call.options) : \E key :
          Ask([client |-> "sdk", route |-> call.route, query |-> q, key |-> key, accept |-> "any"])
    BY <1>1 DEF AskCall
  <2>2. PICK q \in Queries(call.gives, call.gives \cup call.options) : \E key :
          Ask([client |-> "sdk", route |-> call.route, query |-> q, key |-> key, accept |-> "any"])
    BY <2>1
  <2>3. Named(call)
    BY CallsNamed
  <2>4. QueryFits(q, call.gives, call.gives \cup call.options)
    BY <2>3, QueriesFit DEF Named
  <2> QED  BY <2>2, <2>3, <2>4 DEF Ask, RequestOK, Named, QueryFits
<1>2. CASE AskOther
  <2>1. PICK route \in DOMAIN Routes : \E omits \in SUBSET CallOf(route).gives :
          \E q \in Queries(CallOf(route).gives \ omits, Routes[route].reads \ omits) : \E accept :
              Ask([client |-> "other", route |-> route, query |-> q, key |-> "none", accept |-> accept])
    BY <1>2, ZenonT(30) DEF AskOther, Accepts
  <2> PICK omits \in SUBSET CallOf(route).gives :
          \E q \in Queries(CallOf(route).gives \ omits, Routes[route].reads \ omits) : \E accept :
              Ask([client |-> "other", route |-> route, query |-> q, key |-> "none", accept |-> accept])
    BY <2>1
  <2>2. PICK q \in Queries(CallOf(route).gives \ omits, Routes[route].reads \ omits) : \E accept :
          Ask([client |-> "other", route |-> route, query |-> q, key |-> "none", accept |-> accept])
    OBVIOUS
  <2>3. Named(CallOf(route)) /\ CallOf(route).route = route
    BY CallsNamed, CallOfRoute
  <2> DEFINE required == CallOf(route).gives \ omits
             all == Routes[route].reads \ omits
  <2>4. required \subseteq all
    BY <2>3 DEF Named
  <2>5. "version" \in all => "methodology" \in all
    BY <2>3 DEF Named
  <2> HIDE DEF required, all
  <2>6. QueryFits(q, required, all)
    BY <2>4, <2>5, <2>2, QueriesFit DEF required, all
  <2>7. DOMAIN q \subseteq Routes[route].reads /\ DatesRead(q)
    BY <2>6 DEF QueryFits, all
  <2> QED  BY <2>7, <2>2 DEF Ask, RequestOK
<1> QED  BY <1>1, <1>2

(* A step answers the request that waits, or leaves nothing to be said of   *)
(* one, and keeps the invariant.                                              *)
LEMMA CallStep ==
    ASSUME CallInv, [CallsNext]_callVars
    PROVE  /\ CallInv'
           /\ answer = NoAnswer /\ answer' # NoAnswer => RequestOK(asked) /\ AnswerFits(asked, answer')
<1>1. CASE AskCall \/ AskOther
  BY <1>1, AskFits DEF CallInv
<1>2. ASSUME asked # Nobody, answer = NoAnswer, asked' = asked, RequestOK(asked) => AnswerFits(asked, answer')
      PROVE  /\ CallInv'
             /\ RequestOK(asked) /\ AnswerFits(asked, answer')
  BY <1>2 DEF CallInv, AnswerFits
<1>3. CASE \E db \in {"up", "empty", "down"}, wired \in BOOLEAN : AnswerRequest(db, wired)
  BY <1>2, <1>3, RequestAnswered DEF AnswerRequest, AnswerWith, Waiting
<1>4. CASE \E found \in BOOLEAN : AnswerWebhook(found)
  BY <1>2, <1>4, WebhookAnswered DEF AnswerWebhook, AnswerWith, Waiting
<1>5. CASE AnswerKept
  BY <1>2, <1>5, KeptAnswered DEF AnswerKept, AnswerWith, Waiting
<1>6. CASE AnswerGateway
  BY <1>2, <1>6, GatewayAnswered DEF AnswerGateway, AnswerWith, Waiting
<1>7. CASE WriteDocument
  <2>1. answer' = Handled(Catalogue(asked.query), Success(asked.route)) /\ answer # NoAnswer
    BY <1>7 DEF WriteDocument
  <2>2. DOMAIN Success(asked.route) = {"status", "body", "code"} /\ Success(asked.route).status # 400
    BY DEF Success
  <2>3. AnswerFits(asked, answer') /\ answer'.status \in {200, 201, 204}
    BY <2>1, <2>2, CatalogueFits, HandledIs DEF Success
  <2>4. answer' # NoAnswer
    BY <2>3 DEF NoAnswer
  <2> QED  BY <2>1, <2>3, <2>4 DEF CallInv, AnswerFits
<1>8. CASE ReadDocument
  BY <1>8 DEF ReadDocument, CallInv
<1>9. CASE Again
  BY <1>9 DEF Again, CallInv, Modest, NoAnswer
<1>10. CASE UNCHANGED callVars
  BY <1>10 DEF callVars, CallInv
<1> QED  BY <1>1, <1>3, <1>4, <1>5, <1>6, <1>7, <1>8, <1>9, <1>10 DEF CallsNext

LEMMA CallInvariant == CallsSpec => []CallInv
<1>1. CallsInit => CallInv
  BY DEF CallsInit, CallInv, Modest, NoAnswer, Nobody
<1>2. CallInv /\ [CallsNext]_callVars => CallInv'
  BY CallStep
<1> QED  BY <1>1, <1>2, PTL DEF CallsSpec

(* The handlers (TimeRange::new, resolve_forecast_window): whatever a       *)
(* request gives, no more than 366 days are read for its answer, no more    *)
(* than 92 when the points are not aggregated, and no more than 72 hours    *)
(* are forecast.                                                             *)
THEOREM ReadsStayBounded == CallsSpec => ReadsBounded
<1>1. CallInv /\ [CallsNext]_callVars => [Modest(answer')]_callVars
  BY CallStep DEF CallInv
<1> QED  BY <1>1, CallInvariant, PTL DEF CallsSpec, ReadsBounded, Modest

(* The handlers (wants_consumption, reject_consumption_version): a request  *)
(* of the second version of acv-ademe is answered on consumption or not     *)
(* with a 200, by the server or by a shared cache, and no other is.          *)
THEOREM VersionServed == CallsSpec => VersionServedAsAsked
<1>1. CallInv /\ [CallsNext]_callVars =>
        [answer = NoAnswer /\ answer'.status = 200 => AsAsked(asked.route, asked.query, answer'.basis)]_callVars
  BY CallStep DEF AnswerFits, NoAnswer
<1> QED  BY <1>1, CallInvariant, PTL DEF CallsSpec, VersionServedAsAsked, AsAsked, AsksConsumption

(* sdk/methods.rs against the query structures of adapter-http: every name  *)
(* a call may give is read by its route, and a call whose values are all    *)
(* acceptable is not refused for them, whatever options it combines.         *)
THEOREM CallsAreUnderstood == CallsSpec => CallsUnderstood
<1>1. CallInv /\ [CallsNext]_callVars =>
        [answer = NoAnswer /\ answer' # NoAnswer /\ asked.client = "sdk" =>
            /\ DOMAIN asked.query \subseteq Routes[asked.route].reads
            /\ Ordinarily => answer'.status # 400]_callVars
  BY CallStep DEF RequestOK, AnswerFits, Ordinarily, OrdinaryQuery
<1> QED  BY <1>1, CallInvariant, PTL DEF CallsSpec, CallsUnderstood

-----------------------------------------------------------------------------
(* Documents.                                                                *)
ScalarNames ==
    {"Num", "Count", "Bool", "Text", "Instant", "Region", "IntensityIndex", "Provenance", "Methodology", "Estimator",
     "Framework", "Interval", "FlowDirection", "ThresholdDirection", "WebhookStatus", "Verdict"}

(* A structure is read as the one of its name, but for two. *)
Names == (DOMAIN Sent \cap DOMAIN Read) \ {"CreateWebhookRequest", "ProblemDetails"}
Pairs == {<<name, name>> : name \in Names}
    \cup {<<"MixShareBody", "PriceMixShareBody">>, <<"StreamEventBody", "IntensityEvent">>}

(* The type u reads what the type t writes in the field f, by an older      *)
(* server or a later one included.                                            *)
Matches(f, t, u) ==
    /\ t.shape \in {"scalar", "one", "many"} /\ u.shape = t.shape
    /\ IF t.shape = "scalar"
       THEN t.of \in ScalarNames /\ (u.of = t.of \/ (u.of = "Text" /\ t.of \notin {"Num", "Count", "Bool"}))
       ELSE <<t.of, u.of>> \in Pairs
    /\ (t.when = "maybe" \/ f \in {"index", "shares"}) => u.when \in {"optional", "defaulted"}
    /\ t.when = "nullable" => u.when \in {"optional", "present"}

LEMMA WordsKnown ==
    ASSUME NEW of \in DOMAIN A!Words
    PROVE  of \in S!Open \/ (A!Words[of] = S!Known[of] /\ of \notin Extensible)
BY DEF Extensible, A!Words, S!Known, S!Open, A!RegionWords, A!IntensityIndexWords, A!ProvenanceWords,
   A!MethodologyWords, A!EstimatorWords, A!FrameworkWords, A!IntervalWords, A!FlowDirectionWords,
   A!ThresholdDirectionWords, A!WebhookStatusWords, A!VerdictWords, S!RegionWords, S!IntensityIndexWords,
   S!ProvenanceWords, S!MethodologyWords, S!EstimatorWords, S!FrameworkWords, S!IntervalWords, S!FlowDirectionWords,
   S!ThresholdDirectionWords, S!WebhookStatusWords, S!VerdictWords

LEMMA ScalarsRead ==
    ASSUME NEW of \in ScalarNames, NEW v \in Plain(of)
    PROVE  /\ v # Missing /\ v # Null
           /\ ReadsScalar(of, v)
           /\ of \notin {"Num", "Count", "Bool"} => ReadsScalar("Text", v)
<1>1. CASE of = "Num"
  <2>1. v = Json("float", "number")  BY <1>1 DEF Plain
  <2> QED  BY <1>1, <2>1 DEF Json, Missing, Null, ReadsScalar
<1>2. CASE of = "Count"
  <2>1. v = Json("int", "number")  BY <1>2 DEF Plain
  <2> QED  BY <1>2, <2>1 DEF Json, Missing, Null, ReadsScalar
<1>3. CASE of = "Bool"
  <2>1. v = Json("bool", "bool")  BY <1>3 DEF Plain
  <2> QED  BY <1>3, <2>1 DEF Json, Missing, Null, ReadsScalar
<1>4. CASE of = "Text"
  <2>1. v = Json("string", "text")  BY <1>4 DEF Plain
  <2> QED  BY <1>4, <2>1 DEF Json, Missing, Null, ReadsScalar
<1>5. CASE of = "Instant"
  <2>1. v = Json("string", "instant")  BY <1>5 DEF Plain
  <2> QED  BY <1>5, <2>1 DEF Json, Missing, Null, ReadsScalar
<1>6. CASE of \notin {"Num", "Count", "Bool", "Text", "Instant"}
  <2>1. of \in DOMAIN A!Words
    BY <1>6 DEF ScalarNames, A!Words
  <2>2. PICK word \in A!Words[of] \cup (IF of \in Extensible THEN {"word of a later server"} ELSE {}) :
          v = Json("string", word)
    BY <1>6 DEF Plain
  <2>3. word \in S!Known[of] \/ of \in S!Open
    BY <2>1, <2>2, WordsKnown
  <2>4. v.json = "string" /\ v.is = word /\ v # Missing /\ v # Null
    BY <2>2 DEF Json, Missing, Null
  <2> QED  BY <1>6, <2>3, <2>4 DEF ReadsScalar
<1> QED  BY <1>1, <1>2, <1>3, <1>4, <1>5, <1>6

LEMMA MatchesReads ==
    ASSUME NEW f, NEW t, NEW u, Matches(f, t, u), NEW v \in Written(f, t)
    PROVE  Reads(u, v)
<1>1. CASE v = Missing /\ (t.when = "maybe" \/ f \in {"index", "shares"})
  BY <1>1 DEF Matches, Reads
<1>2. CASE v = Null /\ t.when = "nullable"
  BY <1>2 DEF Matches, Reads, Missing, Null
<1>3. CASE v \in Present(t) /\ t.shape = "scalar"
  <2>1. v \in Plain(t.of) /\ t.of \in ScalarNames /\ u.shape = "scalar"
    BY <1>3 DEF Present, Matches
  <2>2. v # Missing /\ v # Null /\ ReadsScalar(u.of, v)
    BY <1>3, <2>1, ScalarsRead DEF Matches
  <2> QED  BY <2>1, <2>2 DEF Reads
<1>4. CASE v \in Present(t) /\ t.shape = "one"
  <2>1. v.json = "object" /\ v # Missing /\ v # Null /\ u.shape = "one"
    BY <1>4 DEF Present, Json, Matches, Missing, Null
  <2> QED  BY <2>1 DEF Reads
<1>5. CASE v \in Present(t) /\ t.shape = "many"
  <2>1. v.json = "array" /\ v # Missing /\ v # Null /\ u.shape = "many"
    BY <1>5 DEF Present, Json, Matches, Missing, Null
  <2> QED  BY <2>1 DEF Reads
<1> QED  BY <1>1, <1>2, <1>3, <1>4, <1>5 DEF Written, Matches

(* The types that stand against each other. *)
LEMMA TypesMatch ==
    ASSUME NEW f
    PROVE  /\ \A s \in ScalarNames :
                /\ f \notin {"index", "shares"} => Matches(f, A!Scalar(s), S!Scalar(s))
                /\ Matches(f, A!Scalar(s), S!Optional(S!Scalar(s)))
                /\ Matches(f, A!Maybe(A!Scalar(s)), S!Optional(S!Scalar(s)))
                /\ Matches(f, A!Nullable(A!Scalar(s)), S!Optional(S!Scalar(s)))
                /\ f \notin {"index", "shares"} => Matches(f, A!Nullable(A!Scalar(s)), S!PresentOption(S!Scalar(s)))
           /\ \A s \in ScalarNames \ {"Num", "Count", "Bool"} :
                f \notin {"index", "shares"} => Matches(f, A!Scalar(s), S!Scalar("Text"))
           /\ \A w, r : <<w, r>> \in Pairs =>
                /\ f \notin {"index", "shares"} => Matches(f, A!One(w), S!One(r))
                /\ f \notin {"index", "shares"} => Matches(f, A!Many(w), S!Many(r))
                /\ Matches(f, A!Many(w), S!Defaulted(S!Many(r)))
                /\ Matches(f, A!Maybe(A!One(w)), S!Optional(S!One(r)))
                /\ Matches(f, A!Maybe(A!Many(w)), S!Optional(S!Many(r)))
                /\ Matches(f, A!Nullable(A!One(w)), S!Optional(S!One(r)))
BY DEF Matches, A!Scalar, A!One, A!Many, A!Maybe, A!Nullable, A!Field, S!Scalar, S!One, S!Many, S!Optional,
   S!Defaulted, S!PresentOption, S!Field

Agree(w, r) == DOMAIN w = DOMAIN r /\ \A f \in DOMAIN w : Matches(f, w[f], r[f])


LEMMA StructuresMatch ==
    ASSUME NEW f, NEW n \in Names
    PROVE  /\ f \notin {"index", "shares"} => Matches(f, A!One(n), S!One(n))
           /\ f \notin {"index", "shares"} => Matches(f, A!Many(n), S!Many(n))
           /\ Matches(f, A!Many(n), S!Defaulted(S!Many(n)))
           /\ Matches(f, A!Maybe(A!One(n)), S!Optional(S!One(n)))
           /\ Matches(f, A!Maybe(A!Many(n)), S!Optional(S!Many(n)))
           /\ Matches(f, A!Nullable(A!One(n)), S!Optional(S!One(n)))
<1>1. <<n, n>> \in Pairs  BY DEF Pairs
<1> QED  BY <1>1, TypesMatch

(* Structures are made of parts that agree. *)
LEMMA EachAgrees ==
    ASSUME NEW names, NEW t, NEW u, \A f \in names : Matches(f, t, u)
    PROVE  Agree(A!Each(names, t), S!Each(names, u))
BY DEF Agree, A!Each, S!Each

LEMMA MergeAgrees ==
    ASSUME NEW w1, NEW r1, NEW w2, NEW r2, Agree(w1, r1), Agree(w2, r2)
    PROVE  Agree(A!@@(w1, w2), S!@@(r1, r2))
<1>1. \A w, v : /\ DOMAIN A!@@(w, v) = DOMAIN w \cup DOMAIN v
                /\ \A f \in DOMAIN w : A!@@(w, v)[f] = w[f]
                /\ \A f \in DOMAIN v \ DOMAIN w : A!@@(w, v)[f] = v[f]
  BY DEF A!@@
<1>2. \A w, v : /\ DOMAIN S!@@(w, v) = DOMAIN w \cup DOMAIN v
                /\ \A f \in DOMAIN w : S!@@(w, v)[f] = w[f]
                /\ \A f \in DOMAIN v \ DOMAIN w : S!@@(w, v)[f] = v[f]
  BY DEF S!@@
<1>3. DOMAIN A!@@(w1, w2) = DOMAIN S!@@(r1, r2)
  <2>1. DOMAIN A!@@(w1, w2) = DOMAIN w1 \cup DOMAIN w2  BY <1>1
  <2>2. DOMAIN S!@@(r1, r2) = DOMAIN r1 \cup DOMAIN r2  BY <1>2
  <2> QED  BY <2>1, <2>2 DEF Agree
<1>4. ASSUME NEW f \in DOMAIN w1  PROVE  Matches(f, A!@@(w1, w2)[f], S!@@(r1, r2)[f])
  BY <1>1, <1>2 DEF Agree
<1>5. ASSUME NEW f \in DOMAIN w2 \ DOMAIN w1  PROVE  Matches(f, A!@@(w1, w2)[f], S!@@(r1, r2)[f])
  BY <1>1, <1>2 DEF Agree
<1>6. DOMAIN A!@@(w1, w2) = DOMAIN w1 \cup DOMAIN w2
  BY <1>1
<1> QED  BY <1>3, <1>4, <1>5, <1>6 DEF Agree

LEMMA EligibleSlotBodyAgrees == Agree(A!EligibleSlotBody, S!EligibleSlotBody)
BY TypesMatch DEF Agree, ScalarNames, A!EligibleSlotBody, S!EligibleSlotBody, A!Each, A!@@, S!Each, S!@@, A!Num, S!Num, A!Instant, S!Instant

LEMMA WeatherPointAgrees == Agree(A!WeatherPoint, S!WeatherPoint)
BY TypesMatch DEF Agree, ScalarNames, A!WeatherPoint, S!WeatherPoint, A!Each, A!@@, S!Each, S!@@, A!Num, S!Num, A!Instant, S!Instant

LEMMA ForecastResponseAgrees == Agree(A!ForecastResponse, S!ForecastResponse)
<1>0. {"ForecastPointBody"} \subseteq Names
  BY DEF Names, Sent, Read
<1>1. Agree(A!Each({"model", "unit"}, A!Text), S!Each({"model", "unit"}, S!Text))
  BY EachAgrees, TypesMatch DEF ScalarNames, A!Text, S!Text
<1>2. Agree(A!Each({"horizon_hours", "count"}, A!Count), S!Each({"horizon_hours", "count"}, S!Count))
  BY EachAgrees, TypesMatch DEF ScalarNames, A!Count, S!Count
<1>3. Agree([region |-> A!RegionSlug, methodology |-> A!MethodologyId, from |-> A!Instant,
             data |-> A!Many("ForecastPointBody")],
            [region |-> S!Place, methodology |-> S!Method, from |-> S!Instant,
             data |-> S!Many("ForecastPointBody")])
  BY <1>0, StructuresMatch, TypesMatch DEF Agree, ScalarNames, A!Instant, A!RegionSlug, A!MethodologyId, S!Instant, S!Place, S!Method
<1> QED  BY <1>1, <1>2, <1>3, MergeAgrees DEF A!ForecastResponse, S!ForecastResponse

LEMMA GreenestWindowResponseAgrees == Agree(A!GreenestWindowResponse, S!GreenestWindowResponse)
<1>0. {"EligibilityBody"} \subseteq Names
  BY DEF Names, Sent, Read
<1>1. Agree(A!Each({"start", "end"}, A!Instant), S!Each({"start", "end"}, S!Instant))
  BY EachAgrees, TypesMatch DEF ScalarNames, A!Instant, S!Instant
<1>2. Agree(A!Each({"model", "unit"}, A!Text), S!Each({"model", "unit"}, S!Text))
  BY EachAgrees, TypesMatch DEF ScalarNames, A!Text, S!Text
<1>3. Agree([region |-> A!RegionSlug, methodology |-> A!MethodologyId, average_intensity |-> A!Num,
             eligibility |-> A!Maybe(A!One("EligibilityBody"))],
            [region |-> S!Place, methodology |-> S!Method, average_intensity |-> S!Num,
             eligibility |-> S!Optional(S!One("EligibilityBody"))])
  BY <1>0, StructuresMatch, TypesMatch DEF Agree, ScalarNames, A!Num, A!RegionSlug, A!MethodologyId, S!Num, S!Place, S!Method
<1> QED  BY <1>1, <1>2, <1>3, MergeAgrees DEF A!GreenestWindowResponse, S!GreenestWindowResponse

LEMMA EligibilitySlotBodyAgrees == Agree(A!EligibilitySlotBody, S!EligibilitySlotBody)
<1>0. {"EligibilitySignalBody"} \subseteq Names
  BY DEF Names, Sent, Read
<1>1. Agree(A!EligibleSlotBody, S!EligibleSlotBody)
  BY EligibleSlotBodyAgrees
<1>2. Agree([eligible |-> A!Bool, signals |-> A!Many("EligibilitySignalBody")],
            [eligible |-> S!Bool, signals |-> S!Many("EligibilitySignalBody")])
  BY <1>0, StructuresMatch, TypesMatch DEF Agree, ScalarNames, A!Bool, S!Bool
<1> QED  BY <1>1, <1>2, MergeAgrees DEF A!EligibilitySlotBody, S!EligibilitySlotBody

LEMMA EligibilityBodyAgrees == Agree(A!EligibilityBody, S!EligibilityBody)
<1>0. {"EligibilitySlotBody", "EligibleSlotBody"} \subseteq Names
  BY DEF Names, Sent, Read
<1>1. Agree(A!Each({"ruleset_version", "ruleset_status", "bidding_zone", "disclaimer"}, A!Text),
            S!Each({"ruleset_version", "ruleset_status", "bidding_zone", "disclaimer"}, S!Text))
  BY EachAgrees, TypesMatch DEF ScalarNames, A!Text, S!Text
<1>2. Agree(A!Each({"overridden", "window_eligible"}, A!Bool),
            S!Each({"overridden", "window_eligible"}, S!Bool))
  BY EachAgrees, TypesMatch DEF ScalarNames, A!Bool, S!Bool
<1>3. Agree(A!Each({"count_eligible", "count_indeterminate"}, A!Count),
            S!Each({"count_eligible", "count_indeterminate"}, S!Count))
  BY EachAgrees, TypesMatch DEF ScalarNames, A!Count, S!Count
<1>4. Agree([framework |-> A!Scalar("Framework"), share_model |-> A!Maybe(A!Text),
             best_eligible |-> A!Maybe(A!One("EligibleSlotBody")), slots |-> A!Many("EligibilitySlotBody")],
            [framework |-> S!Scalar("Framework"), slots |-> S!Many("EligibilitySlotBody"),
             best_eligible |-> S!Optional(S!One("EligibleSlotBody")), share_model |-> S!Optional(S!Text)])
  BY <1>0, StructuresMatch, TypesMatch DEF Agree, ScalarNames, A!Text, S!Text
<1> QED  BY <1>1, <1>2, <1>3, <1>4, MergeAgrees DEF A!EligibilityBody, S!EligibilityBody

LEMMA SlotsResponseAgrees == Agree(A!SlotsResponse, S!SlotsResponse)
<1>0. {"SlotBody"} \subseteq Names
  BY DEF Names, Sent, Read
<1>1. Agree(A!Each({"model", "unit"}, A!Text), S!Each({"model", "unit"}, S!Text))
  BY EachAgrees, TypesMatch DEF ScalarNames, A!Text, S!Text
<1>2. Agree([region |-> A!RegionSlug, methodology |-> A!MethodologyId, estimator |-> A!Scalar("Estimator"),
             count |-> A!Count, slots |-> A!Many("SlotBody")],
            [region |-> S!Place, methodology |-> S!Method, estimator |-> S!Scalar("Estimator"),
             count |-> S!Count, slots |-> S!Many("SlotBody")])
  BY <1>0, StructuresMatch, TypesMatch DEF Agree, ScalarNames, A!Count, A!RegionSlug, A!MethodologyId, S!Count, S!Place, S!Method
<1> QED  BY <1>1, <1>2, MergeAgrees DEF A!SlotsResponse, S!SlotsResponse

LEMMA WeatherResponseAgrees == Agree(A!WeatherResponse, S!WeatherResponse)
<1>1. Agree(A!WeatherPoint, S!WeatherPoint)
  BY WeatherPointAgrees
<1>2. Agree([source |-> A!Text], [source |-> S!Text])
  BY TypesMatch DEF Agree, ScalarNames, A!Text, S!Text
<1> QED  BY <1>1, <1>2, MergeAgrees DEF A!WeatherResponse, S!WeatherResponse

LEMMA WeatherHistoryResponseAgrees == Agree(A!WeatherHistoryResponse, S!WeatherHistoryResponse)
<1>0. {"WeatherPoint"} \subseteq Names
  BY DEF Names, Sent, Read
<1>1. Agree(A!Each({"from", "to"}, A!Instant), S!Each({"from", "to"}, S!Instant))
  BY EachAgrees, TypesMatch DEF ScalarNames, A!Instant, S!Instant
<1>2. Agree([source |-> A!Text, count |-> A!Count, points |-> A!Many("WeatherPoint")],
            [source |-> S!Text, count |-> S!Count, points |-> S!Many("WeatherPoint")])
  BY <1>0, StructuresMatch, TypesMatch DEF Agree, ScalarNames, A!Text, A!Count, S!Text, S!Count
<1> QED  BY <1>1, <1>2, MergeAgrees DEF A!WeatherHistoryResponse, S!WeatherHistoryResponse

LEMMA FactorsResponseAgrees == Agree(A!FactorsResponse, S!FactorsResponse)
<1>0. {"FactorEntry"} \subseteq Names
  BY DEF Names, Sent, Read
<1>1. Agree(A!Each({"unit", "source"}, A!Text), S!Each({"unit", "source"}, S!Text))
  BY EachAgrees, TypesMatch DEF ScalarNames, A!Text, S!Text
<1>2. Agree([methodology |-> A!MethodologyId, methodology_version |-> A!Count,
             factors |-> A!Many("FactorEntry"), td_loss_factor |-> A!Nullable(A!Num)],
            [methodology |-> S!Method, methodology_version |-> S!Count, td_loss_factor |-> S!Optional(S!Num),
             factors |-> S!Many("FactorEntry")])
  BY <1>0, StructuresMatch, TypesMatch DEF Agree, ScalarNames, A!Num, A!Count, A!MethodologyId, S!Num, S!Count, S!Method
<1> QED  BY <1>1, <1>2, MergeAgrees DEF A!FactorsResponse, S!FactorsResponse

LEMMA IntensityIndexResponseAgrees == Agree(A!IntensityIndexResponse, S!IntensityIndexResponse)
<1>0. {"IndexBand", "IndexThreshold"} \subseteq Names
  BY DEF Names, Sent, Read
<1>1. Agree(A!Each({"unit", "note", "source"}, A!Text), S!Each({"unit", "note", "source"}, S!Text))
  BY EachAgrees, TypesMatch DEF ScalarNames, A!Text, S!Text
<1>2. Agree([version |-> A!Count, bands |-> A!Many("IndexBand"), thresholds |-> A!Many("IndexThreshold")],
            [version |-> S!Count, bands |-> S!Many("IndexBand"), thresholds |-> S!Many("IndexThreshold")])
  BY <1>0, StructuresMatch, TypesMatch DEF Agree, ScalarNames, A!Count, S!Count
<1> QED  BY <1>1, <1>2, MergeAgrees DEF A!IntensityIndexResponse, S!IntensityIndexResponse

LEMMA PriceResponseAgrees == Agree(A!PriceResponse, S!PriceResponse)
<1>0. {"PriceComponentBody", "PriceContextBody"} \subseteq Names
  BY DEF Names, Sent, Read
<1>1. Agree(A!Each({"vintage", "unit", "currency", "disclaimer"}, A!Text),
            S!Each({"vintage", "unit", "currency", "disclaimer"}, S!Text))
  BY EachAgrees, TypesMatch DEF ScalarNames, A!Text, S!Text
<1>2. Agree(A!Each({"total_eur_mwh", "total_eur_kwh"}, A!Num),
            S!Each({"total_eur_mwh", "total_eur_kwh"}, S!Num))
  BY EachAgrees, TypesMatch DEF ScalarNames, A!Num, S!Num
<1>3. Agree([region |-> A!RegionSlug, timestamp |-> A!Instant, components |-> A!Many("PriceComponentBody"),
             context |-> A!One("PriceContextBody")],
            [region |-> S!Place, timestamp |-> S!Instant, components |-> S!Many("PriceComponentBody"),
             context |-> S!One("PriceContextBody")])
  BY <1>0, StructuresMatch, TypesMatch DEF Agree, ScalarNames, A!Instant, A!RegionSlug, S!Instant, S!Place
<1> QED  BY <1>1, <1>2, <1>3, MergeAgrees DEF A!PriceResponse, S!PriceResponse

LEMMA CostReferenceEntryAgrees == Agree(A!CostReferenceEntry, S!CostReferenceEntry)
<1>0. {"CostAssumptionsBody", "LcoeRangeBody"} \subseteq Names
  BY DEF Names, Sent, Read
<1>1. Agree(A!Each({"technology", "technology_label", "source", "source_label", "source_attribution",
             "geography", "perimeter", "perimeter_label", "basis", "basis_label", "kind"}, A!Text),
            S!Each({"technology", "technology_label", "source", "source_label", "source_attribution",
             "geography", "perimeter", "perimeter_label", "basis", "basis_label", "kind"}, S!Text))
  BY EachAgrees, TypesMatch DEF ScalarNames, A!Text, S!Text
<1>2. Agree(A!Each({"technology_source_count", "vintage"}, A!Count),
            S!Each({"technology_source_count", "vintage"}, S!Count))
  BY EachAgrees, TypesMatch DEF ScalarNames, A!Count, S!Count
<1>3. Agree([range |-> A!One("LcoeRangeBody"), hypotheses |-> A!One("CostAssumptionsBody")],
            [range |-> S!One("LcoeRangeBody"), hypotheses |-> S!One("CostAssumptionsBody")])
  BY <1>0, StructuresMatch, TypesMatch DEF Agree, ScalarNames
<1> QED  BY <1>1, <1>2, <1>3, MergeAgrees DEF A!CostReferenceEntry, S!CostReferenceEntry

LEMMA NamesAre == Names = {
    "IntensityValue", "IntensityResponse", "IntensityAllResponse", "HistoryPoint", "HistoryResponse",
    "StatsBucket", "StatsResponse", "ForecastPointBody", "ForecastResponse", "GreenestWindowResponse",
    "EligibleSlotBody", "EligibilitySlotBody", "EligibilitySignalBody", "EligibilityBody", "RulesetInfo",
    "RulesetsResponse", "SlotBody", "SlotsResponse", "SavingsBody", "ScheduleResponse", "MixBody",
    "MixShareBody", "MixResponse", "ExchangeEntry", "ExchangesResponse", "ExchangesHistoryResponse",
    "WeatherPoint", "WeatherResponse", "WeatherHistoryResponse", "RenewableModelInfo",
    "RenewableResponse", "MethodologyInfo", "MethodologiesResponse", "RegionInfo", "RegionsResponse",
    "FactorEntry", "FactorsResponse", "IndexBand", "IndexThreshold", "IntensityIndexResponse",
    "PriceComponentBody", "MarginalTechnologyBody", "PriceContextBody", "PriceResponse",
    "PricePointBody", "PriceHistoryResponse", "CostAssumptionsBody", "LcoeRangeBody",
    "CostReferenceEntry", "CostReferenceResponse", "VisitStatsResponse", "CreatedWebhookResponse",
    "WebhookSummary", "WebhookListResponse"}
BY DEF Names, Sent, Read

(* Every structure the library reads agrees with the one the server writes   *)
(* in its place.                                                             *)
LEMMA SchemasAgree == \A pair \in Pairs : Agree(Sent[pair[1]], Read[pair[2]])
<1>1. Agree(Sent.IntensityValue, Read.IntensityValue)
  <2>1. Agree(A!IntensityValue, S!IntensityValue)
    BY TypesMatch DEF Agree, ScalarNames, A!IntensityValue, S!IntensityValue, A!Num, S!Num, A!Text,
    S!Text
  <2> QED  BY <2>1 DEF Sent, Read
<1>2. Agree(Sent.IntensityResponse, Read.IntensityResponse)
  <2>1. {"IntensityValue"} \subseteq Names  BY NamesAre
  <2>2. Agree(A!IntensityResponse, S!IntensityResponse)
    BY <2>1, StructuresMatch, TypesMatch DEF Agree, ScalarNames, A!IntensityResponse,
    S!IntensityResponse, A!Text, S!Text, A!Count, S!Count, A!Instant, S!Instant, A!RegionSlug, S!Place,
    A!MethodologyId, S!Method, A!Label, S!Band
  <2> QED  BY <2>2 DEF Sent, Read
<1>3. Agree(Sent.IntensityAllResponse, Read.IntensityAllResponse)
  <2>1. {"IntensityResponse"} \subseteq Names  BY NamesAre
  <2>2. Agree(A!IntensityAllResponse, S!IntensityAllResponse)
    BY <2>1, StructuresMatch, TypesMatch DEF Agree, ScalarNames, A!IntensityAllResponse,
    S!IntensityAllResponse, A!Count, S!Count, A!MethodologyId, S!Method
  <2> QED  BY <2>2 DEF Sent, Read
<1>4. Agree(Sent.HistoryPoint, Read.HistoryPoint)
  <2>1. Agree(A!HistoryPoint, S!HistoryPoint)
    BY TypesMatch DEF Agree, ScalarNames, A!HistoryPoint, S!HistoryPoint, A!Num, S!Num, A!Text, S!Text,
    A!Instant, S!Instant, A!Label, S!Band
  <2> QED  BY <2>1 DEF Sent, Read
<1>5. Agree(Sent.HistoryResponse, Read.HistoryResponse)
  <2>1. {"HistoryPoint"} \subseteq Names  BY NamesAre
  <2>2. Agree(A!HistoryResponse, S!HistoryResponse)
    BY <2>1, StructuresMatch, TypesMatch DEF Agree, ScalarNames, A!HistoryResponse, S!HistoryResponse,
    A!Each, A!@@, S!Each, S!@@, A!Text, S!Text, A!Count, S!Count, A!Instant, S!Instant, A!RegionSlug,
    S!Place, A!MethodologyId, S!Method
  <2> QED  BY <2>2 DEF Sent, Read
<1>6. Agree(Sent.StatsBucket, Read.StatsBucket)
  <2>1. Agree(A!StatsBucket, S!StatsBucket)
    BY TypesMatch DEF Agree, ScalarNames, A!StatsBucket, S!StatsBucket, A!Each, A!@@, S!Each, S!@@,
    A!Num, S!Num, A!Count, S!Count, A!Instant, S!Instant
  <2> QED  BY <2>1 DEF Sent, Read
<1>7. Agree(Sent.StatsResponse, Read.StatsResponse)
  <2>1. {"StatsBucket"} \subseteq Names  BY NamesAre
  <2>2. Agree(A!StatsResponse, S!StatsResponse)
    BY <2>1, StructuresMatch, TypesMatch DEF Agree, ScalarNames, A!StatsResponse, S!StatsResponse,
    A!Each, A!@@, S!Each, S!@@, A!Num, S!Num, A!Text, S!Text, A!Count, S!Count, A!Instant, S!Instant,
    A!RegionSlug, S!Place, A!MethodologyId, S!Method
  <2> QED  BY <2>2 DEF Sent, Read
<1>8. Agree(Sent.ForecastPointBody, Read.ForecastPointBody)
  <2>1. Agree(A!ForecastPointBody, S!ForecastPointBody)
    BY TypesMatch DEF Agree, ScalarNames, A!ForecastPointBody, S!ForecastPointBody, A!Each, A!@@, S!Each,
    S!@@, A!Num, S!Num, A!Instant, S!Instant, A!Label, S!Band
  <2> QED  BY <2>1 DEF Sent, Read
<1>9. Agree(Sent.ForecastResponse, Read.ForecastResponse)
  BY ForecastResponseAgrees DEF Sent, Read
<1>10. Agree(Sent.GreenestWindowResponse, Read.GreenestWindowResponse)
  BY GreenestWindowResponseAgrees DEF Sent, Read
<1>11. Agree(Sent.EligibleSlotBody, Read.EligibleSlotBody)
  BY EligibleSlotBodyAgrees DEF Sent, Read
<1>12. Agree(Sent.EligibilitySlotBody, Read.EligibilitySlotBody)
  BY EligibilitySlotBodyAgrees DEF Sent, Read
<1>13. Agree(Sent.EligibilitySignalBody, Read.EligibilitySignalBody)
  <2>1. Agree(A!EligibilitySignalBody, S!EligibilitySignalBody)
    BY TypesMatch DEF Agree, ScalarNames, A!EligibilitySignalBody, S!EligibilitySignalBody, A!Each, A!@@,
    S!Each, S!@@, A!Num, S!Num, A!Text, S!Text
  <2> QED  BY <2>1 DEF Sent, Read
<1>14. Agree(Sent.EligibilityBody, Read.EligibilityBody)
  BY EligibilityBodyAgrees DEF Sent, Read
<1>15. Agree(Sent.RulesetInfo, Read.RulesetInfo)
  <2>1. Agree(A!RulesetInfo, S!RulesetInfo)
    BY TypesMatch DEF Agree, ScalarNames, A!RulesetInfo, S!RulesetInfo, A!Each, A!@@, S!Each, S!@@,
    A!Num, S!Num, A!Text, S!Text, A!Bool, S!Bool
  <2> QED  BY <2>1 DEF Sent, Read
<1>16. Agree(Sent.RulesetsResponse, Read.RulesetsResponse)
  <2>1. {"RulesetInfo"} \subseteq Names  BY NamesAre
  <2>2. Agree(A!RulesetsResponse, S!RulesetsResponse)
    BY <2>1, StructuresMatch, TypesMatch DEF Agree, ScalarNames, A!RulesetsResponse, S!RulesetsResponse,
    A!Text, S!Text
  <2> QED  BY <2>2 DEF Sent, Read
<1>17. Agree(Sent.SlotBody, Read.SlotBody)
  <2>1. Agree(A!SlotBody, S!SlotBody)
    BY TypesMatch DEF Agree, ScalarNames, A!SlotBody, S!SlotBody, A!Num, S!Num, A!Instant, S!Instant
  <2> QED  BY <2>1 DEF Sent, Read
<1>18. Agree(Sent.SlotsResponse, Read.SlotsResponse)
  BY SlotsResponseAgrees DEF Sent, Read
<1>19. Agree(Sent.SavingsBody, Read.SavingsBody)
  <2>1. Agree(A!SavingsBody, S!SavingsBody)
    BY TypesMatch DEF Agree, ScalarNames, A!SavingsBody, S!SavingsBody, A!Each, A!@@, S!Each, S!@@,
    A!Num, S!Num
  <2> QED  BY <2>1 DEF Sent, Read
<1>20. Agree(Sent.ScheduleResponse, Read.ScheduleResponse)
  <2>1. {"SavingsBody"} \subseteq Names  BY NamesAre
  <2>2. Agree(A!ScheduleResponse, S!ScheduleResponse)
    BY <2>1, StructuresMatch, TypesMatch DEF Agree, ScalarNames, A!ScheduleResponse, S!ScheduleResponse,
    A!Each, A!@@, S!Each, S!@@, A!Num, S!Num, A!Text, S!Text, A!Instant, S!Instant, A!RegionSlug,
    S!Place, A!MethodologyId, S!Method
  <2> QED  BY <2>2 DEF Sent, Read
<1>21. Agree(Sent.MixBody, Read.MixBody)
  <2>1. Agree(A!MixBody, S!MixBody)
    BY TypesMatch DEF Agree, ScalarNames, A!MixBody, S!MixBody, A!Each, A!@@, S!Each, S!@@, A!Num, S!Num
  <2> QED  BY <2>1 DEF Sent, Read
<1>22. Agree(Sent.MixShareBody, Read.MixShareBody)
  <2>1. Agree(A!MixShareBody, S!MixShareBody)
    BY TypesMatch DEF Agree, ScalarNames, A!MixShareBody, S!MixShareBody, A!Each, A!@@, S!Each, S!@@,
    A!Num, S!Num, A!Text, S!Text
  <2> QED  BY <2>1 DEF Sent, Read
<1>23. Agree(Sent.MixResponse, Read.MixResponse)
  <2>1. {"MixBody", "MixShareBody"} \subseteq Names  BY NamesAre
  <2>2. Agree(A!MixResponse, S!MixResponse)
    BY <2>1, StructuresMatch, TypesMatch DEF Agree, ScalarNames, A!MixResponse, S!MixResponse, A!Text,
    S!Text, A!Instant, S!Instant, A!RegionSlug, S!Place
  <2> QED  BY <2>2 DEF Sent, Read
<1>24. Agree(Sent.ExchangeEntry, Read.ExchangeEntry)
  <2>1. {"IntensityValue"} \subseteq Names  BY NamesAre
  <2>2. Agree(A!ExchangeEntry, S!ExchangeEntry)
    BY <2>1, StructuresMatch, TypesMatch DEF Agree, ScalarNames, A!ExchangeEntry, S!ExchangeEntry,
    S!Each, S!@@, A!Num, S!Num, A!Text, S!Text, A!Direction, S!Flow
  <2> QED  BY <2>2 DEF Sent, Read
<1>25. Agree(Sent.ExchangesResponse, Read.ExchangesResponse)
  <2>1. {"ExchangeEntry"} \subseteq Names  BY NamesAre
  <2>2. Agree(A!ExchangesResponse, S!ExchangesResponse)
    BY <2>1, StructuresMatch, TypesMatch DEF Agree, ScalarNames, A!ExchangesResponse,
    S!ExchangesResponse, A!Each, A!@@, S!Each, S!@@, A!Num, S!Num, A!Instant, S!Instant, A!Direction,
    S!Flow
  <2> QED  BY <2>2 DEF Sent, Read
<1>26. Agree(Sent.ExchangesHistoryResponse, Read.ExchangesHistoryResponse)
  <2>1. {"ExchangesResponse"} \subseteq Names  BY NamesAre
  <2>2. Agree(A!ExchangesHistoryResponse, S!ExchangesHistoryResponse)
    BY <2>1, StructuresMatch, TypesMatch DEF Agree, ScalarNames, A!ExchangesHistoryResponse,
    S!ExchangesHistoryResponse, A!Each, A!@@, S!Each, S!@@, A!Count, S!Count, A!Instant, S!Instant
  <2> QED  BY <2>2 DEF Sent, Read
<1>27. Agree(Sent.WeatherPoint, Read.WeatherPoint)
  BY WeatherPointAgrees DEF Sent, Read
<1>28. Agree(Sent.WeatherResponse, Read.WeatherResponse)
  BY WeatherResponseAgrees DEF Sent, Read
<1>29. Agree(Sent.WeatherHistoryResponse, Read.WeatherHistoryResponse)
  BY WeatherHistoryResponseAgrees DEF Sent, Read
<1>30. Agree(Sent.RenewableModelInfo, Read.RenewableModelInfo)
  <2>1. Agree(A!RenewableModelInfo, S!RenewableModelInfo)
    BY TypesMatch DEF Agree, ScalarNames, A!RenewableModelInfo, S!RenewableModelInfo, A!Each, A!@@,
    S!Each, S!@@, A!Num, S!Num
  <2> QED  BY <2>1 DEF Sent, Read
<1>31. Agree(Sent.RenewableResponse, Read.RenewableResponse)
  <2>1. {"RenewableModelInfo"} \subseteq Names  BY NamesAre
  <2>2. Agree(A!RenewableResponse, S!RenewableResponse)
    BY <2>1, StructuresMatch, TypesMatch DEF Agree, ScalarNames, A!RenewableResponse,
    S!RenewableResponse, A!Each, A!@@, S!Each, S!@@, A!Num, S!Num, A!Text, S!Text, A!Instant, S!Instant
  <2> QED  BY <2>2 DEF Sent, Read
<1>32. Agree(Sent.MethodologyInfo, Read.MethodologyInfo)
  <2>1. Agree(A!MethodologyInfo, S!MethodologyInfo)
    BY TypesMatch DEF Agree, ScalarNames, A!MethodologyInfo, S!MethodologyInfo, A!Each, A!@@, S!Each,
    S!@@, A!Text, S!Text, A!Count, S!Count, A!Bool, S!Bool
  <2> QED  BY <2>1 DEF Sent, Read
<1>33. Agree(Sent.MethodologiesResponse, Read.MethodologiesResponse)
  <2>1. {"MethodologyInfo"} \subseteq Names  BY NamesAre
  <2>2. Agree(A!MethodologiesResponse, S!MethodologiesResponse)
    BY <2>1, StructuresMatch, TypesMatch DEF Agree, ScalarNames, A!MethodologiesResponse,
    S!MethodologiesResponse
  <2> QED  BY <2>2 DEF Sent, Read
<1>34. Agree(Sent.RegionInfo, Read.RegionInfo)
  <2>1. Agree(A!RegionInfo, S!RegionInfo)
    BY TypesMatch DEF Agree, ScalarNames, A!RegionInfo, S!RegionInfo, A!Text, S!Text, A!Bool, S!Bool,
    A!RegionSlug, S!Place
  <2> QED  BY <2>1 DEF Sent, Read
<1>35. Agree(Sent.RegionsResponse, Read.RegionsResponse)
  <2>1. {"RegionInfo"} \subseteq Names  BY NamesAre
  <2>2. Agree(A!RegionsResponse, S!RegionsResponse)
    BY <2>1, StructuresMatch, TypesMatch DEF Agree, ScalarNames, A!RegionsResponse, S!RegionsResponse
  <2> QED  BY <2>2 DEF Sent, Read
<1>36. Agree(Sent.FactorEntry, Read.FactorEntry)
  <2>1. Agree(A!FactorEntry, S!FactorEntry)
    BY TypesMatch DEF Agree, ScalarNames, A!FactorEntry, S!FactorEntry, A!Num, S!Num, A!Text, S!Text
  <2> QED  BY <2>1 DEF Sent, Read
<1>37. Agree(Sent.FactorsResponse, Read.FactorsResponse)
  BY FactorsResponseAgrees DEF Sent, Read
<1>38. Agree(Sent.IndexBand, Read.IndexBand)
  <2>1. Agree(A!IndexBand, S!IndexBand)
    BY TypesMatch DEF Agree, ScalarNames, A!IndexBand, S!IndexBand, A!Each, A!@@, S!Each, S!@@, A!Num,
    S!Num, A!Text, S!Text, A!Label, S!Band
  <2> QED  BY <2>1 DEF Sent, Read
<1>39. Agree(Sent.IndexThreshold, Read.IndexThreshold)
  <2>1. Agree(A!IndexThreshold, S!IndexThreshold)
    BY TypesMatch DEF Agree, ScalarNames, A!IndexThreshold, S!IndexThreshold, A!Each, A!@@, S!Each, S!@@,
    A!Num, S!Num, A!Text, S!Text, A!Label, S!Band
  <2> QED  BY <2>1 DEF Sent, Read
<1>40. Agree(Sent.IntensityIndexResponse, Read.IntensityIndexResponse)
  BY IntensityIndexResponseAgrees DEF Sent, Read
<1>41. Agree(Sent.PriceComponentBody, Read.PriceComponentBody)
  <2>1. Agree(A!PriceComponentBody, S!PriceComponentBody)
    BY TypesMatch DEF Agree, ScalarNames, A!PriceComponentBody, S!PriceComponentBody, A!Each, A!@@,
    S!Each, S!@@, A!Num, S!Num, A!Text, S!Text
  <2> QED  BY <2>1 DEF Sent, Read
<1>42. Agree(Sent.MarginalTechnologyBody, Read.MarginalTechnologyBody)
  <2>1. Agree(A!MarginalTechnologyBody, S!MarginalTechnologyBody)
    BY TypesMatch DEF Agree, ScalarNames, A!MarginalTechnologyBody, S!MarginalTechnologyBody, A!Each,
    A!@@, S!Each, S!@@, A!Text, S!Text, A!Bool, S!Bool
  <2> QED  BY <2>1 DEF Sent, Read
<1>43. Agree(Sent.PriceContextBody, Read.PriceContextBody)
  <2>1. <<"MixShareBody", "PriceMixShareBody">> \in Pairs  BY DEF Pairs
  <2>2. Matches("mix", A!Many("MixShareBody"), S!Many("PriceMixShareBody"))  BY <2>1, TypesMatch
  <2>3. "MarginalTechnologyBody" \in Names  BY NamesAre
  <2>4. Agree(A!PriceContextBody, S!PriceContextBody)
    BY <2>2, <2>3, StructuresMatch DEF Agree, A!PriceContextBody, S!PriceContextBody
  <2> QED  BY <2>4 DEF Sent, Read
<1>44. Agree(Sent.PriceResponse, Read.PriceResponse)
  BY PriceResponseAgrees DEF Sent, Read
<1>45. Agree(Sent.PricePointBody, Read.PricePointBody)
  <2>1. Agree(A!PricePointBody, S!PricePointBody)
    BY TypesMatch DEF Agree, ScalarNames, A!PricePointBody, S!PricePointBody, A!Each, A!@@, S!Each, S!@@,
    A!Num, S!Num, A!Instant, S!Instant
  <2> QED  BY <2>1 DEF Sent, Read
<1>46. Agree(Sent.PriceHistoryResponse, Read.PriceHistoryResponse)
  <2>1. {"PricePointBody"} \subseteq Names  BY NamesAre
  <2>2. Agree(A!PriceHistoryResponse, S!PriceHistoryResponse)
    BY <2>1, StructuresMatch, TypesMatch DEF Agree, ScalarNames, A!PriceHistoryResponse,
    S!PriceHistoryResponse, A!Each, A!@@, S!Each, S!@@, A!Text, S!Text, A!Count, S!Count, A!Instant,
    S!Instant
  <2> QED  BY <2>2 DEF Sent, Read
<1>47. Agree(Sent.CostAssumptionsBody, Read.CostAssumptionsBody)
  <2>1. Agree(A!CostAssumptionsBody, S!CostAssumptionsBody)
    BY TypesMatch DEF Agree, ScalarNames, A!CostAssumptionsBody, S!CostAssumptionsBody, A!Each, A!@@,
    S!Each, S!@@, A!Num, S!Num, A!Count, S!Count
  <2> QED  BY <2>1 DEF Sent, Read
<1>48. Agree(Sent.LcoeRangeBody, Read.LcoeRangeBody)
  <2>1. Agree(A!LcoeRangeBody, S!LcoeRangeBody)
    BY TypesMatch DEF Agree, ScalarNames, A!LcoeRangeBody, S!LcoeRangeBody, A!Each, A!@@, S!Each, S!@@,
    A!Num, S!Num, A!Text, S!Text
  <2> QED  BY <2>1 DEF Sent, Read
<1>49. Agree(Sent.CostReferenceEntry, Read.CostReferenceEntry)
  BY CostReferenceEntryAgrees DEF Sent, Read
<1>50. Agree(Sent.CostReferenceResponse, Read.CostReferenceResponse)
  <2>1. {"CostReferenceEntry"} \subseteq Names  BY NamesAre
  <2>2. Agree(A!CostReferenceResponse, S!CostReferenceResponse)
    BY <2>1, StructuresMatch, TypesMatch DEF Agree, ScalarNames, A!CostReferenceResponse,
    S!CostReferenceResponse, A!Each, A!@@, S!Each, S!@@, A!Text, S!Text, A!Count, S!Count
  <2> QED  BY <2>2 DEF Sent, Read
<1>51. Agree(Sent.VisitStatsResponse, Read.VisitStatsResponse)
  <2>1. Agree(A!VisitStatsResponse, S!VisitStatsResponse)
    BY TypesMatch DEF Agree, ScalarNames, A!VisitStatsResponse, S!VisitStatsResponse, A!Each, A!@@,
    S!Each, S!@@, A!Text, S!Text, A!Count, S!Count
  <2> QED  BY <2>1 DEF Sent, Read
<1>52. Agree(Sent.CreatedWebhookResponse, Read.CreatedWebhookResponse)
  <2>1. Agree(A!CreatedWebhookResponse, S!CreatedWebhookResponse)
    BY TypesMatch DEF Agree, ScalarNames, A!CreatedWebhookResponse, S!CreatedWebhookResponse, A!Each,
    A!@@, S!Each, S!@@, A!Num, S!Num, A!Text, S!Text, A!RegionSlug, S!Place, A!Side, S!Crossing
  <2> QED  BY <2>1 DEF Sent, Read
<1>53. Agree(Sent.WebhookSummary, Read.WebhookSummary)
  <2>1. Agree(A!WebhookSummary, S!WebhookSummary)
    BY TypesMatch DEF Agree, ScalarNames, A!WebhookSummary, S!WebhookSummary, A!Each, A!@@, S!Each, S!@@,
    A!Num, S!Num, A!Text, S!Text, A!Instant, S!Instant, A!RegionSlug, S!Place, A!Side, S!Crossing
  <2> QED  BY <2>1 DEF Sent, Read
<1>54. Agree(Sent.WebhookListResponse, Read.WebhookListResponse)
  <2>1. {"WebhookSummary"} \subseteq Names  BY NamesAre
  <2>2. Agree(A!WebhookListResponse, S!WebhookListResponse)
    BY <2>1, StructuresMatch, TypesMatch DEF Agree, ScalarNames, A!WebhookListResponse,
    S!WebhookListResponse, A!Count, S!Count
  <2> QED  BY <2>2 DEF Sent, Read
<1>55. Agree(Sent.MixShareBody, Read.PriceMixShareBody)
  <2>1. Agree(A!MixShareBody, S!PriceMixShareBody)
    BY TypesMatch DEF Agree, ScalarNames, A!MixShareBody, S!PriceMixShareBody, A!Each, A!@@, S!Each,
    S!@@, A!Num, S!Num, A!Text, S!Text
  <2> QED  BY <2>1 DEF Sent, Read
<1>56. Agree(Sent.StreamEventBody, Read.IntensityEvent)
  <2>1. Agree(A!StreamEventBody, S!IntensityEvent)
    BY TypesMatch, SMTT(30) DEF Agree, ScalarNames, A!StreamEventBody, S!IntensityEvent, S!Each, S!@@, A!Num,
    S!Num, A!Text, S!Text, A!Count, S!Count, A!Instant, S!Instant, A!RegionSlug, A!MethodologyId,
    A!Label, S!Band
  <2> QED  BY <2>1 DEF Sent, Read
<1> QED
  BY NamesAre,
     <1>1, <1>2, <1>3, <1>4, <1>5, <1>6, <1>7, <1>8, <1>9, <1>10, <1>11, <1>12, <1>13, <1>14, <1>15,
     <1>16, <1>17, <1>18, <1>19, <1>20, <1>21, <1>22, <1>23, <1>24, <1>25, <1>26, <1>27, <1>28, <1>29,
     <1>30, <1>31, <1>32, <1>33, <1>34, <1>35, <1>36, <1>37, <1>38, <1>39, <1>40, <1>41, <1>42, <1>43,
     <1>44, <1>45, <1>46, <1>47, <1>48, <1>49, <1>50, <1>51, <1>52, <1>53, <1>54, <1>55, <1>56 DEF Pairs

LEMMA WithinPairs == \A pair \in Pairs : Within(pair) \subseteq Pairs
<1> SUFFICES ASSUME NEW pair \in Pairs, NEW f \in DOMAIN Sent[pair[1]] \cap DOMAIN Read[pair[2]],
                    Sent[pair[1]][f].shape # "scalar"
             PROVE  <<Sent[pair[1]][f].of, Read[pair[2]][f].of>> \in Pairs
  BY DEF Within
<1>1. Matches(f, Sent[pair[1]][f], Read[pair[2]][f])
  BY SchemasAgree DEF Agree
<1> QED  BY <1>1 DEF Matches

LEMMA StructuresPairs ==
    ASSUME NEW w, NEW r, <<w, r>> \in Pairs
    PROVE  Structures(w, r) \subseteq Pairs
<1>1. \A ps \in SUBSET Pairs : Deeper(ps) \in SUBSET Pairs
  BY WithinPairs DEF Deeper
<1>2. Deeper({<<w, r>>}) \in SUBSET Pairs
  BY <1>1
<1>3. Deeper(Deeper({<<w, r>>})) \in SUBSET Pairs
  BY <1>1, <1>2
<1>4. Deeper(Deeper(Deeper({<<w, r>>}))) \in SUBSET Pairs
  BY <1>1, <1>3
<1>5. Deeper(Deeper(Deeper(Deeper({<<w, r>>})))) \in SUBSET Pairs
  BY <1>1, <1>4
<1> QED  BY <1>5 DEF Structures

(* A call reads what its route answers with: nothing when it deletes.       *)
Returns(call) ==
    IF call.route = "delete_webhook" THEN call.returns = "none" /\ Routes[call.route].body = "none"
    ELSE <<Routes[call.route].body, call.returns>> \in Pairs

LEMMA CallsReturn == \A call \in Calls : Returns(call)
<1>0. \A n \in Names : <<n, n>> \in Pairs  BY DEF Pairs
<1>1. Returns(intensity_now)
  BY <1>0, NamesAre, ZenonT(30) DEF Returns, intensity_now, Call, Routes, Route
<1>2. Returns(intensity_now_all)
  BY <1>0, NamesAre, ZenonT(30) DEF Returns, intensity_now_all, Call, Routes, Route
<1>3. Returns(intensity_date)
  BY <1>0, NamesAre, ZenonT(30) DEF Returns, intensity_date, Call, Routes, Route
<1>4. Returns(intensity_stats)
  BY <1>0, NamesAre, ZenonT(30) DEF Returns, intensity_stats, Call, Routes, Route
<1>5. Returns(below)
  BY <1>0, NamesAre, ZenonT(30) DEF Returns, below, Call, Routes, Route
<1>6. Returns(forecast)
  BY <1>0, NamesAre, ZenonT(30) DEF Returns, forecast, Call, Routes, Route
<1>7. Returns(greenest_window)
  BY <1>0, NamesAre, ZenonT(30) DEF Returns, greenest_window, Call, Routes, Route
<1>8. Returns(schedule)
  BY <1>0, NamesAre, ZenonT(30) DEF Returns, schedule, Call, Routes, Route
<1>9. Returns(schedule_slots)
  BY <1>0, NamesAre, ZenonT(30) DEF Returns, schedule_slots, Call, Routes, Route
<1>10. Returns(mix)
  BY <1>0, NamesAre, ZenonT(30) DEF Returns, mix, Call, Routes, Route
<1>11. Returns(exchanges)
  BY <1>0, NamesAre, ZenonT(30) DEF Returns, exchanges, Call, Routes, Route
<1>12. Returns(exchanges_history)
  BY <1>0, NamesAre, ZenonT(30) DEF Returns, exchanges_history, Call, Routes, Route
<1>13. Returns(weather)
  BY <1>0, NamesAre, ZenonT(30) DEF Returns, weather, Call, Routes, Route
<1>14. Returns(weather_history)
  BY <1>0, NamesAre, ZenonT(30) DEF Returns, weather_history, Call, Routes, Route
<1>15. Returns(renewable)
  BY <1>0, NamesAre, ZenonT(30) DEF Returns, renewable, Call, Routes, Route
<1>16. Returns(methodologies)
  BY <1>0, NamesAre, ZenonT(30) DEF Returns, methodologies, Call, Routes, Route
<1>17. Returns(regions)
  BY <1>0, NamesAre, ZenonT(30) DEF Returns, regions, Call, Routes, Route
<1>18. Returns(factors)
  BY <1>0, NamesAre, ZenonT(30) DEF Returns, factors, Call, Routes, Route
<1>19. Returns(intensity_index)
  BY <1>0, NamesAre, ZenonT(30) DEF Returns, intensity_index, Call, Routes, Route
<1>20. Returns(price)
  BY <1>0, NamesAre, ZenonT(30) DEF Returns, price, Call, Routes, Route
<1>21. Returns(price_history)
  BY <1>0, NamesAre, ZenonT(30) DEF Returns, price_history, Call, Routes, Route
<1>22. Returns(cost_reference)
  BY <1>0, NamesAre, ZenonT(30) DEF Returns, cost_reference, Call, Routes, Route
<1>23. Returns(eligibility_rulesets)
  BY <1>0, NamesAre, ZenonT(30) DEF Returns, eligibility_rulesets, Call, Routes, Route
<1>24. Returns(visit_stats)
  BY <1>0, NamesAre, ZenonT(30) DEF Returns, visit_stats, Call, Routes, Route
<1>25. Returns(record_visit)
  BY <1>0, NamesAre, ZenonT(30) DEF Returns, record_visit, Call, Routes, Route
<1>26. Returns(list_webhooks)
  BY <1>0, NamesAre, ZenonT(30) DEF Returns, list_webhooks, Call, Routes, Route
<1>27. Returns(create_webhook)
  BY <1>0, NamesAre, ZenonT(30) DEF Returns, create_webhook, Call, Routes, Route
<1>28. Returns(delete_webhook)
  BY DEF Returns, delete_webhook, Call, Routes, Route, Pairs
<1>29. Returns(intensity_stream)
  BY DEF Returns, intensity_stream, Call, Routes, Route, Pairs
<1> QED
  BY <1>1, <1>2, <1>3, <1>4, <1>5, <1>6, <1>7, <1>8, <1>9, <1>10, <1>11, <1>12, <1>13, <1>14, <1>15,
     <1>16, <1>17, <1>18, <1>19, <1>20, <1>21, <1>22, <1>23, <1>24, <1>25, <1>26, <1>27, <1>28, <1>29 DEF Calls

LEMMA PairsSent == \A pair \in Pairs : pair[1] \in DOMAIN Sent /\ pair[1] # "none"
<1>1. "none" \notin DOMAIN Sent /\ {"MixShareBody", "StreamEventBody"} \subseteq DOMAIN Sent
  BY DEF Sent
<1>2. \A n \in Names : n \in DOMAIN Sent
  BY DEF Names
<1> QED  BY <1>1, <1>2 DEF Pairs

LEMMA RouteBody ==
    ASSUME NEW route \in DOMAIN Routes
    PROVE  IF route = "delete_webhook" THEN Routes[route].body = "none" /\ "none" \notin DOMAIN Sent
           ELSE Routes[route].body \in DOMAIN Sent
<1>1. CallOf(route) \in Calls /\ CallOf(route).route = route
  BY CallOfRoute
<1>2. Returns(CallOf(route))
  BY <1>1, CallsReturn
<1>3. "none" \notin DOMAIN Sent
  BY DEF Sent
<1> QED  BY <1>1, <1>2, <1>3, PairsSent DEF Returns

(* Any document of a route is read: the field that is not ordinary, and     *)
(* every field the library waits for.                                        *)
LEMMA DocumentRead ==
    ASSUME NEW route \in DOMAIN Routes, Routes[route].body \in DOMAIN Sent, NEW d \in Documents[route]
    PROVE  /\ d # NoDocument
           /\ d.field \in DOMAIN Read[d.in[2]] => Reads(Read[d.in[2]][d.field], d.holds)
           /\ \A pair \in StructuresOf[route] : DOMAIN Read[pair[2]] \ DOMAIN Sent[pair[1]] = {}
<1>1. route \in Answered /\ route # "delete_webhook"
  BY RouteBody DEF Answered
<1>2. <<Routes[route].body, CallOf(route).returns>> \in Pairs
  BY <1>1, CallOfRoute, CallsReturn DEF Returns
<1>3. StructuresOf[route] \subseteq Pairs
  BY <1>1, <1>2, StructuresPairs DEF StructuresOf
<1>4. PICK p \in StructuresOf[route] : \E f \in DOMAIN Sent[p[1]] : \E v \in Written(f, Sent[p[1]][f]) :
        d = [in |-> p, field |-> f, holds |-> v]
  BY <1>1 DEF Documents
<1>5. PICK f \in DOMAIN Sent[p[1]] : \E v \in Written(f, Sent[p[1]][f]) : d = [in |-> p, field |-> f, holds |-> v]
  BY <1>4
<1>6. PICK v \in Written(f, Sent[p[1]][f]) : d = [in |-> p, field |-> f, holds |-> v]
  BY <1>5
<1>7. \A pair \in Pairs : DOMAIN Read[pair[2]] = DOMAIN Sent[pair[1]]
  BY SchemasAgree DEF Agree
<1>8. Matches(f, Sent[p[1]][f], Read[p[2]][f])
  BY <1>3, SchemasAgree DEF Agree
<1>9. Reads(Read[p[2]][f], v)
  BY <1>8, MatchesReads
<1>10. d # NoDocument
  <2>1. p[1] # "none"  BY <1>3, PairsSent
  <2>2. d.in = p /\ NoDocument.in[1] = "none"  BY <1>6 DEF NoDocument
  <2> QED  BY <2>1, <2>2
<1> QED  BY <1>3, <1>6, <1>7, <1>9, <1>10

-----------------------------------------------------------------------------
(* What the library makes of an answer.                                      *)
(* An error has a problem for its body or no code of its own; a success has *)
(* the document of its route.                                                *)
AnswerSound(route, a) ==
    /\ ~Passed(a) => a.body = "ProblemDetails" \/ a.code = "none"
    /\ Passed(a) => IF route = "delete_webhook" THEN a.body = "none" ELSE a.body \in DOMAIN Sent

(* The library asks for no format, and the cache kept no other for it.       *)
Plainly(a) == a.accept = "any" /\ "format" \notin DOMAIN a.query

ReadInv ==
    /\ asked = Nobody => answer = NoAnswer /\ document = NoDocument /\ result = NoResult
    /\ DOMAIN asked = {"client", "route", "query", "key", "accept"}
    /\ asked # Nobody => asked.route \in DOMAIN Routes
    /\ asked # Nobody /\ asked.client = "sdk" => Plainly(asked)
    /\ answer # NoAnswer /\ asked.client = "sdk" /\ result = NoResult => AnswerSound(asked.route, answer)
    /\ document # NoDocument => Decoded
    /\ DOMAIN shared = {"any", "csv", "either"} /\ shared["any"] \in {"none", "HistoryResponse"}
    /\ AnswerDecoded

LEMMA OutcomeCases ==
    ASSUME NEW route \in DOMAIN Routes, NEW q, NEW h, HandlerSound(route, q, h), NEW db
    PROVE  Outcome(route, h, db) \in {Refusal(400), Refusal(404), Refusal(500), Refusal(503), Success(route)}
BY DEF HandlerSound, Outcome

LEMMA Problems ==
    ASSUME NEW status
    PROVE  /\ DOMAIN Refusal(status) = {"status", "body", "code"}
           /\ Refusal(status).status = status /\ Refusal(status).body = "ProblemDetails"
BY DEF Refusal

LEMMA Successes ==
    ASSUME NEW route
    PROVE  /\ DOMAIN Success(route) = {"status", "body", "code"}
           /\ Success(route).status \in {200, 201, 204}
           /\ Success(route).body = Routes[route].body /\ Success(route).code = "none"
BY DEF Success

LEMMA HandledSound ==
    ASSUME NEW route \in DOMAIN Routes, NEW h, NEW outcome,
           DOMAIN outcome = {"status", "body", "code"},
           \/ outcome = Success(route)
           \/ outcome.body = "ProblemDetails" /\ outcome.status \notin 200 .. 299
           \/ outcome.code = "none" /\ outcome.status \notin 200 .. 299
    PROVE  AnswerSound(route, Handled(h, outcome))
<1>1. /\ Handled(h, outcome).status = outcome.status /\ Handled(h, outcome).body = outcome.body
      /\ Handled(h, outcome).code = outcome.code
  BY MergeIs DEF Handled
<1>2. CASE outcome = Success(route)
  <2>1. outcome.status \in 200 .. 299 /\ outcome.body = Routes[route].body
    BY <1>2, Successes
  <2> QED  BY <1>1, <2>1, RouteBody DEF AnswerSound, Passed
<1>3. CASE outcome # Success(route)
  BY <1>1, <1>3 DEF AnswerSound, Passed
<1> QED  BY <1>2, <1>3

(* An answer leaves the request, the document and the result alone.          *)
LEMMA RequestSound ==
    ASSUME ReadInv, RequestOK(asked), NEW db, NEW wired \in BOOLEAN, AnswerRequest(db, wired)
    PROVE  /\ asked.client = "sdk" => AnswerSound(asked.route, answer')
           /\ DOMAIN shared' = {"any", "csv", "either"} /\ shared'["any"] \in {"none", "HistoryResponse"}
<1> DEFINE h == HandlerOf(asked.route, asked.query, wired)
           outcome == Outcome(asked.route, h, db)
           formatted == Formatted(outcome)
<1>1. /\ ~NeedsKey(asked) /\ asked # Nobody /\ answer' = Handled(h, formatted)
      /\ shared' = IF asked.query = PlainDate /\ asked.route = "intensity_date" /\ Cacheable(asked.route, formatted.status)
                   THEN [shared EXCEPT ![asked.accept] = formatted.body] ELSE shared
  BY DEF AnswerRequest, AnswerWith, Waiting
<1>2. asked.route \in DOMAIN Routes /\ HandlerSound(asked.route, asked.query, h)
  BY <1>1, HandlersSound DEF NeedsKey, RequestOK
<1>3. outcome \in {Refusal(400), Refusal(404), Refusal(500), Refusal(503), Success(asked.route)}
  BY <1>2, OutcomeCases
<1> HIDE DEF h, outcome
<1>4. Plainly(asked) => formatted = outcome
  <2>1. ~PrefersCsv(Accepts["any"])
    BY DEF PrefersCsv, Accepts
  <2> QED  BY <2>1 DEF Plainly, Formatted, FormatOf, Gives
<1> HIDE DEF formatted
<1>5. ASSUME asked.client = "sdk"  PROVE AnswerSound(asked.route, answer')
  <2>1. answer' = Handled(h, outcome)
    BY <1>1, <1>4, <1>5 DEF ReadInv
  <2>2. DOMAIN outcome = {"status", "body", "code"}
    BY <1>3, Problems, Successes
  <2>3. outcome = Success(asked.route) \/ (outcome.body = "ProblemDetails" /\ outcome.status \notin 200 .. 299)
    BY <1>3, Problems
  <2> QED  BY <1>2, <2>1, <2>2, <2>3, HandledSound
<1>6. ASSUME asked.query = PlainDate, asked.route = "intensity_date", Cacheable(asked.route, formatted.status),
             asked.accept = "any"
      PROVE  formatted.body = "HistoryResponse"
  <2>1. Plainly(asked)
    BY <1>6 DEF Plainly, PlainDate, Give
  <2>2. formatted = outcome /\ outcome.status = 200
    BY <1>4, <1>6, <2>1 DEF Cacheable
  <2>3. outcome = Success(asked.route)
    BY <1>3, <2>2, Problems
  <2>4. Routes["intensity_date"].body = "HistoryResponse"
    BY DEF Routes, Route
  <2> QED  BY <1>6, <2>2, <2>3, <2>4, Successes
<1>7. DOMAIN shared' = {"any", "csv", "either"} /\ shared'["any"] \in {"none", "HistoryResponse"}
  BY <1>1, <1>6 DEF ReadInv
<1> QED  BY <1>5, <1>7

LEMMA WebhookSound ==
    ASSUME RequestOK(asked), NEW found \in BOOLEAN, AnswerWebhook(found)
    PROVE  AnswerSound(asked.route, answer')
<1> DEFINE outcome == CASE asked.route = "create_webhook" -> CreateWebhook(asked.query, asked.key)
                        [] asked.route = "list_webhooks" -> ListWebhooks(asked.query, asked.key)
                        [] asked.route = "delete_webhook" -> DeleteWebhook(asked.query, asked.key, found)
<1>1. NeedsKey(asked) /\ answer' = Handled(Catalogue(asked.query), outcome)
  BY DEF AnswerWebhook, AnswerWith
<1>2. outcome \in {Refusal(400), Refusal(401), Refusal(404), Success(asked.route)}
  BY <1>1 DEF NeedsKey, CreateWebhook, ListWebhooks, DeleteWebhook
<1> HIDE DEF outcome
<1>3. DOMAIN outcome = {"status", "body", "code"}
  BY <1>2, Problems, Successes
<1>4. outcome = Success(asked.route) \/ (outcome.body = "ProblemDetails" /\ outcome.status \notin 200 .. 299)
  BY <1>2, Problems
<1> QED  BY <1>1, <1>3, <1>4, HandledSound DEF RequestOK

LEMMA KeptSound ==
    ASSUME ReadInv, RequestOK(asked), asked.client = "sdk", AnswerKept
    PROVE  AnswerSound(asked.route, answer')
<1>1. PICK accept \in DOMAIN shared :
        /\ asked.query = PlainDate /\ shared[accept] # "none" /\ asked # Nobody
        /\ VariesOnAccept("intensity_date") => accept = asked.accept
        /\ answer' = Handled(IntensityDate(asked.query), [Success(asked.route) EXCEPT !.body = shared[accept]])
  BY DEF AnswerKept, AnswerWith, Waiting
<1>2. accept = "any" /\ shared[accept] = "HistoryResponse"
  BY <1>1 DEF ReadInv, Plainly, VariesOnAccept
<1> DEFINE outcome == [Success(asked.route) EXCEPT !.body = shared[accept]]
<1>3. DOMAIN outcome = {"status", "body", "code"} /\ outcome.body = "HistoryResponse"
  BY <1>2, Successes
<1>4. asked.route # "delete_webhook"
  <2>1. {"from", "to"} \subseteq Routes[asked.route].reads
    BY <1>1 DEF RequestOK, PlainDate, Give
  <2>2. Routes["delete_webhook"].reads = {"id"}
    BY DEF Routes, Route
  <2> QED  BY <2>1, <2>2
<1> HIDE DEF outcome
<1>5. Handled(IntensityDate(asked.query), outcome).body = "HistoryResponse"
  BY <1>3, MergeIs DEF Handled
<1>6. "HistoryResponse" \in DOMAIN Sent
  BY DEF Sent
<1>7. Passed(answer')
  <2>1. outcome.status \in {200, 201, 204}
    BY <1>3, Successes DEF outcome
  <2> QED  BY <1>1, <1>3, <2>1, HandledIs DEF Passed, outcome
<1> QED  BY <1>1, <1>4, <1>5, <1>6, <1>7 DEF AnswerSound, outcome

LEMMA GatewaySound ==
    ASSUME ReadInv, RequestOK(asked), AnswerGateway
    PROVE  AnswerSound(asked.route, answer')
<1> DEFINE outcome == [status |-> 502, body |-> "page", code |-> "none"]
<1>1. answer' = Handled(Catalogue(asked.query), outcome)
  BY DEF AnswerGateway, AnswerWith
<1>2. DOMAIN outcome = {"status", "body", "code"} /\ outcome.code = "none" /\ outcome.status \notin 200 .. 299
  OBVIOUS
<1> HIDE DEF outcome
<1> QED  BY <1>1, <1>2, HandledSound DEF RequestOK

(* A call without a key it needs ends where it begins.                       *)
LEMMA AskRead ==
    ASSUME ReadInv, AskCall \/ AskOther
    PROVE  ReadInv'
<1>1. asked = Nobody /\ answer = NoAnswer /\ document = NoDocument /\ result = NoResult
  BY DEF ReadInv, AskCall, AskOther
<1>2. answer' = NoAnswer /\ document' = NoDocument /\ shared' \in {shared, NothingKept}
  BY <1>1, ZenonT(30) DEF AskCall, AskOther, Ask
<1>3. result' \in {NoResult, Config}
  BY <1>1 DEF AskCall, AskOther
<1>4. /\ asked'.route \in DOMAIN Routes /\ (asked'.client = "sdk" => Plainly(asked')) /\ asked' # Nobody
      /\ DOMAIN asked' = {"client", "route", "query", "key", "accept"}
  <2>1. CASE AskCall
    <3>1. PICK call \in Calls : \E q \in Queries(call.gives, call.gives \cup call.options) : \E key :
            Ask([client |-> "sdk", route |-> call.route, query |-> q, key |-> key, accept |-> "any"])
      BY <2>1 DEF AskCall
    <3>2. PICK q \in Queries(call.gives, call.gives \cup call.options) : \E key :
            Ask([client |-> "sdk", route |-> call.route, query |-> q, key |-> key, accept |-> "any"])
      BY <3>1
    <3>3. Named(call)
      BY CallsNamed
    <3>4. DOMAIN q \subseteq call.gives \cup call.options
      BY <3>3, QueriesFit DEF Named, QueryFits
    <3> QED  BY <3>2, <3>3, <3>4 DEF Ask, Named, Plainly, Nobody
  <2>2. CASE AskOther
    <3>1. PICK route \in DOMAIN Routes : \E query, key, accept :
            Ask([client |-> "other", route |-> route, query |-> query, key |-> key, accept |-> accept])
      BY <2>2 DEF AskOther
    <3> QED  BY <3>1 DEF Ask, Nobody
  <2> QED  BY <2>1, <2>2
<1>5. DOMAIN shared' = {"any", "csv", "either"} /\ shared'["any"] \in {"none", "HistoryResponse"}
  BY <1>2 DEF ReadInv, NothingKept
<1> QED  BY <1>2, <1>3, <1>4, <1>5 DEF ReadInv, AnswerDecoded

(* A step that answers the request that waits. *)
LEMMA AnswerRead ==
    ASSUME ReadInv, Waiting, UNCHANGED <<asked, document, result>>,
           asked.client = "sdk" => AnswerSound(asked.route, answer'),
           DOMAIN shared' = {"any", "csv", "either"}, shared'["any"] \in {"none", "HistoryResponse"}
    PROVE  ReadInv'
<1>1. document # NoDocument => Decoded'
  BY DEF ReadInv, Decoded, Decodes
<1> QED  BY <1>1 DEF ReadInv, Waiting, AnswerDecoded

LEMMA WriteRead ==
    ASSUME ReadInv, WriteDocument
    PROVE  ReadInv'
<1>1. /\ answer # NoAnswer /\ Passed(answer) /\ asked.client = "sdk" /\ result = NoResult
      /\ answer.body \in DOMAIN Sent /\ document' \in Documents[asked.route]
      /\ asked' = [asked EXCEPT !.query = Give({})]
      /\ answer' = Handled(Catalogue(asked.query), Success(asked.route))
      /\ UNCHANGED <<result, shared>>
  BY DEF WriteDocument
<1>2. asked # Nobody /\ asked.route \in DOMAIN Routes
  BY <1>1 DEF ReadInv
<1>3. Routes[asked.route].body \in DOMAIN Sent
  BY <1>1, <1>2, RouteBody DEF ReadInv, AnswerSound
<1>4. /\ asked'.route = asked.route /\ asked'.client = "sdk" /\ Plainly(asked')
      /\ DOMAIN asked' = {"client", "route", "query", "key", "accept"}
  <2>1. Plainly(asked)
    BY <1>1, <1>2 DEF ReadInv
  <2>2. DOMAIN asked = {"client", "route", "query", "key", "accept"}
    BY DEF ReadInv
  <2> QED  BY <1>1, <2>1, <2>2 DEF Plainly, Give
<1>5. Decoded'
  BY <1>1, <1>2, <1>3, <1>4, DocumentRead DEF Decoded, Decodes
<1>6. AnswerSound(asked.route, answer')
  BY <1>1, <1>2, Successes, HandledSound
<1>7. asked' # Nobody
  BY <1>4 DEF Nobody
<1> QED  BY <1>1, <1>2, <1>4, <1>5, <1>6, <1>7 DEF ReadInv, AnswerDecoded

LEMMA ReadRead ==
    ASSUME ReadInv, ReadDocument
    PROVE  ReadInv'
<1>1. /\ answer # NoAnswer /\ asked.client = "sdk" /\ result = NoResult
      /\ Passed(answer) /\ answer.body \in DOMAIN Sent => document # NoDocument
      /\ result' = Returned(CallOf(asked.route), answer, document # NoDocument /\ Decoded)
      /\ UNCHANGED <<asked, answer, document, shared>>
  BY DEF ReadDocument
<1>2. asked # Nobody /\ asked.route \in DOMAIN Routes /\ AnswerSound(asked.route, answer)
  BY <1>1 DEF ReadInv
<1>3. CASE Passed(answer)
  <2>1. asked.route = "delete_webhook" => CallOf(asked.route).returns = "none"
    BY <1>2, CallOfRoute, CallsReturn DEF Returns
  <2>2. asked.route # "delete_webhook" => document # NoDocument /\ Decoded
    BY <1>1, <1>2, <1>3 DEF AnswerSound, ReadInv
  <2>3. result' = NoError
    BY <1>1, <1>3, <2>1, <2>2 DEF Returned
  <2> QED  BY <1>1, <1>2, <1>3, <2>3 DEF ReadInv, AnswerDecoded, Decoded, Decodes, Passed
<1>4. CASE ~Passed(answer)
  <2>1. result' = Api(answer)
    BY <1>1, <1>4 DEF Returned
  <2>2. ProblemOf(answer).status = answer.status /\ ProblemOf(answer).code = answer.code
        /\ DOMAIN ProblemOf(answer) = {"status", "code"}
    BY <1>2, <1>4 DEF AnswerSound, ProblemOf, Fallback
  <2>3. result'.error = "Api" /\ result'.status = answer.status /\ result'.code = answer.code
    BY <2>1, <2>2, MergeIs DEF Api
  <2> QED  BY <1>1, <1>2, <1>4, <2>3 DEF ReadInv, AnswerDecoded, Decoded, Decodes, Passed
<1> QED  BY <1>3, <1>4

LEMMA ReadStep ==
    ASSUME CallInv, ReadInv, [CallsNext]_callVars
    PROVE  ReadInv'
<1>1. CASE AskCall \/ AskOther
  BY <1>1, AskRead
<1>2. CASE \E db \in {"up", "empty", "down"}, wired \in BOOLEAN : AnswerRequest(db, wired)
  <2>1. PICK db \in {"up", "empty", "down"}, wired \in BOOLEAN : AnswerRequest(db, wired)
    BY <1>2
  <2>2. Waiting /\ UNCHANGED <<asked, document, result>> /\ RequestOK(asked)
    BY <2>1 DEF AnswerRequest, AnswerWith, Waiting, CallInv
  <2> QED  BY <2>1, <2>2, RequestSound, AnswerRead
<1>3. CASE \E found \in BOOLEAN : AnswerWebhook(found)
  <2>1. PICK found \in BOOLEAN : AnswerWebhook(found)
    BY <1>3
  <2>2. Waiting /\ UNCHANGED <<asked, document, result, shared>> /\ RequestOK(asked)
    BY <2>1 DEF AnswerWebhook, AnswerWith, Waiting, CallInv
  <2> QED  BY <2>1, <2>2, WebhookSound, AnswerRead DEF ReadInv
<1>4. CASE AnswerKept
  <2>1. Waiting /\ UNCHANGED <<asked, document, result, shared>> /\ RequestOK(asked)
    BY <1>4 DEF AnswerKept, AnswerWith, Waiting, CallInv
  <2> QED  BY <1>4, <2>1, KeptSound, AnswerRead DEF ReadInv
<1>5. CASE AnswerGateway
  <2>1. Waiting /\ UNCHANGED <<asked, document, result, shared>> /\ RequestOK(asked)
    BY <1>5 DEF AnswerGateway, AnswerWith, Waiting, CallInv
  <2> QED  BY <1>5, <2>1, GatewaySound, AnswerRead DEF ReadInv
<1>6. CASE WriteDocument
  BY <1>6, WriteRead
<1>7. CASE ReadDocument
  BY <1>7, ReadRead
<1>8. CASE Again
  BY <1>8 DEF Again, ReadInv, AnswerDecoded, Nobody, NoAnswer
<1>9. CASE UNCHANGED callVars
  BY <1>9 DEF callVars, ReadInv, Plainly, Decoded, Decodes, AnswerDecoded
<1> QED  BY <1>1, <1>2, <1>3, <1>4, <1>5, <1>6, <1>7, <1>8, <1>9 DEF CallsNext

(* adapter-http/dto.rs and error.rs against sdk/dto.rs, enums.rs and         *)
(* error.rs: whatever a document of the server holds in any of its fields,   *)
(* a field left out or null and a word of another release included, the     *)
(* library reads it; and an error comes out with the status and the code it  *)
(* left the server with, also through a shared cache or from a gateway.      *)
THEOREM AnswersAreDecoded == CallsSpec => []AnswerDecoded
<1>1. CallsInit => ReadInv
  BY DEF CallsInit, Nobody, ReadInv, AnswerDecoded, NothingKept
<1>2. CallInv /\ ReadInv /\ [CallsNext]_callVars => ReadInv'
  BY ReadStep
<1>3. ReadInv => AnswerDecoded
  BY DEF ReadInv
<1> QED  BY <1>1, <1>2, <1>3, CallInvariant, PTL DEF CallsSpec
=============================================================================
