------------------------------ MODULE HttpProofs ------------------------------
(***************************************************************************)
(* Proofs about HttpServer, for every number of connections, every length  *)
(* of requests, replies and queues, and every number of failed receives.   *)
(***************************************************************************)
EXTENDS HttpServer, FiniteSetTheorems, SequenceTheorems, TLAPS

-----------------------------------------------------------------------------
(* The inductive invariant *)

(* States a socket is in while its connection is served. *)
Live == {"established", "close_wait", "listen"}

(* Places of the thread: before it has a peer, and while it serves one.    *)
Before == {"start", "stopped", "accept", "accepting"}
Served == {"receive", "receiving", "route", "send", "sending", "disconnect",
           "closing", "unaccept"}

(* The thread calls accept, or is suspended in it. *)
Awaits == In("accept") \/ In("accepting")

USE DEF In, Back, Live, Before, Served, Awaits

(* The state of the socket, by the place of the thread: whatever frames    *)
(* and timeouts do to the socket, no call finds it in a state the code     *)
(* around the call has not prepared for.                                   *)
Staged ==
  /\ web.res # "none" => web.pc \in {"accepting", "receiving", "sending", "closing"}
  /\ web.pc \in {"start", "stopped"} => sock.state = "closed" /\ listen.queue = <<>>
  /\ web.pc = "accept" => sock.state = "listen"
  /\ web.pc = "accepting" =>
       \/ web.res = "none" /\ sock.state = "syn_received"
       \/ web.res = "ok"   /\ sock.state \in Live
       \/ web.res = "err"  /\ sock.state = "listen"
  /\ web.pc \in {"receive", "route", "send", "disconnect"} => sock.state \in Live
  /\ web.pc = "receiving" =>
       Receiving /\ sock.state \in IF web.res = "none" THEN {"established"} ELSE Live
  /\ web.pc = "sending" => sock.state \in IF web.res = "err" THEN {"listen"} ELSE Live
  /\ web.pc = "closing" =>
       sock.state \in {"fin_wait_1", "fin_wait_2", "closing", "last_ack", "timed_wait", "listen"}
  /\ web.pc = "unaccept" => sock.state \in {"timed_wait", "listen"}
  /\ web.pc = "relisten" => sock.state = "closed"

(* Who has the socket: the listen request, or a peer, or a peer that is    *)
(* gone.                                                                   *)
Bound ==
  /\ sock.state = "closed" => ~sock.bound
  /\ sock.peer # NoConn => sock.bound
  /\ sock.state \notin {"closed", "listen", "syn_received"} => sock.bound /\ sock.peer # NoConn
  /\ web.pc \in Served \/ (web.pc = "accepting" /\ web.res # "none") =>
       sock.bound /\ (sock.state = "listen" => sock.peer = NoConn)
  /\ listen.holds => Awaits /\ ~sock.bound
  /\ Awaits => listen.holds \/ sock.bound

(* When the socket holds no packets. *)
Emptied ==
  /\ sock.state \in {"closed", "listen", "syn_received", "fin_wait_2", "timed_wait"} => sock.out = 0
  /\ web.pc \in {"start", "stopped", "relisten"} \/ Awaits \/ Back("accepting", "err")
       => sock.rxq = <<>>
  /\ web.pc = "receiving" => (web.res = "none" => sock.rxq = <<>>) /\ (web.res = "ok" => sock.rxq # <<>>)

(* Whose bytes and replies are under way: one connection's. *)
Involved == web.from \cup ToSet(sock.rxq) \cup ({sock.peer} \ {NoConn})

Owner ==
  /\ web.pc \in Before => web.from = {} /\ web.total = 0
  /\ web.total > 0 => web.from # {}
  /\ web.pc \in {"send", "sending"} => web.total > 0
  /\ \A c, d \in Involved : c = d

(* Nothing is twice in a queue. *)
Once(q) == \A i, j \in DOMAIN q : q[i] = q[j] => i = j

(* A connection that is not accepted yet is queued once and has got nothing. *)
Fresh ==
  /\ Once(listen.queue)
  /\ \A c \in ToSet(listen.queue) :
       sock.peer # c /\ peer[c].is \in {"opening", "closed"} /\ peer[c].got = 0
  /\ \A c \in Conn : peer[c].is = "opening" => peer[c].got = 0
  /\ \A c \in Conn : sock.peer = c /\ Awaits => peer[c].is \in {"opening", "closed"}

(* What only holds when peers finish their handshakes. *)
Honest ==
  reliable =>
    /\ lost = 0
    /\ ~Back("accepting", "err")
    /\ Awaits /\ sock.bound => sock.peer # NoConn
    /\ \A c \in ToSet(listen.queue) : peer[c].is = "opening"
    /\ \A c \in Conn : sock.peer = c /\ Awaits => peer[c].is = "opening"

(* How much of the reply the peer has got. *)
Replied ==
  /\ \A c \in Conn : peer[c].is = "done" => peer[c].got \in {0, ReplyLen}
  /\ \A c \in Conn : sock.peer = c =>
       /\ web.pc \in {"accept", "accepting", "receive", "receiving", "route"} =>
            peer[c].got = 0 /\ sock.out = 0
       /\ web.pc \in {"send", "sending"} => peer[c].got + sock.out + web.left = ReplyLen
       /\ web.pc \in {"disconnect", "closing"} => peer[c].got + sock.out \in {0, ReplyLen}

Orderly == Staged /\ Bound /\ Emptied /\ Owner /\ Fresh /\ Honest /\ Replied

-----------------------------------------------------------------------------
(* Types *)

SockType ==
  [state : TcpState, bound : BOOLEAN, peer : Conn \cup {NoConn},
   rxq : Seq(Conn), out : 0..OutMax, win : BOOLEAN]

WebType ==
  [pc : WebPC, res : {"none", "ok", "err"}, total : 0..Room, from : SUBSET Conn,
   waits : 0..MaxWaits, left : 0..ReplyLen]

PeerType ==
  [is : {"closed", "opening", "open", "finished", "done"}, sent : 0..Size, got : 0..ReplyLen]

ListenType == {l \in [holds : BOOLEAN, queue : Seq(Conn)] : Len(l.queue) <= ListenMax}

(* The types of the variables, one by one. *)
LEMMA Types ==
  TypeOK <=> /\ sock \in SockType /\ web \in WebType /\ listen \in ListenType
             /\ peer \in [Conn -> PeerType] /\ lost \in 0..MaxLost /\ reliable \in BOOLEAN
  BY DEF TypeOK, SockType, WebType, PeerType, ListenType

(* The same after a step. *)
LEMMA TypesAfter ==
  ASSUME sock' \in SockType, web' \in WebType, listen' \in ListenType,
         peer' \in [Conn -> PeerType], lost' \in 0..MaxLost, reliable' \in BOOLEAN
  PROVE  TypeOK'
  BY DEF TypeOK, SockType, WebType, PeerType, ListenType

(* The fields of the socket and of the thread. *)
LEMMA Fields ==
  ASSUME TypeOK
  PROVE  /\ sock.state \in TcpState /\ sock.bound \in BOOLEAN /\ sock.peer \in Conn \cup {NoConn}
         /\ sock.rxq \in Seq(Conn) /\ sock.out \in 0..OutMax /\ sock.win \in BOOLEAN
         /\ web.pc \in WebPC /\ web.res \in {"none", "ok", "err"} /\ web.total \in 0..Room
         /\ web.from \subseteq Conn /\ web.waits \in 0..MaxWaits /\ web.left \in 0..ReplyLen
         /\ listen.holds \in BOOLEAN /\ listen.queue \in Seq(Conn)
         /\ Len(listen.queue) <= ListenMax
         /\ \A c \in Conn : peer[c].got \in 0..ReplyLen /\ peer[c].sent \in 0..Size
  BY DEF TypeOK

(* The parameters are natural numbers. *)
LEMMA Numbers ==
  /\ NoConn \notin Conn
  /\ Header \in Nat /\ Size \in Nat /\ Room \in Nat /\ MaxWaits \in Nat
  /\ ReplyLen \in Nat \ {0} /\ OutMax \in Nat /\ MaxLost \in Nat /\ ListenMax \in Nat
  BY HttpAssumption

(* What is counted up or down stays within its bounds. *)
LEMMA Counts ==
  ASSUME TypeOK
  PROVE  /\ sock.out \in Nat /\ web.left \in Nat /\ \A c \in Conn : peer[c].got \in Nat
         /\ sock.out < OutMax => sock.out + 1 \in 0..OutMax
         /\ sock.out > 0 => sock.out # 0 /\ sock.out - 1 \in 0..OutMax
         /\ web.left > 0 => web.left - 1 \in 0..ReplyLen
         /\ \A c \in Conn : peer[c].sent < Size => peer[c].sent + 1 \in 0..Size
         /\ web.waits < MaxWaits => web.waits + 1 \in 0..MaxWaits
         /\ web.total < Room => web.total + 1 \in 0..Room
<1>1. /\ sock.out \in 0..OutMax /\ web.left \in 0..ReplyLen
      /\ \A c \in Conn : peer[c].got \in 0..ReplyLen /\ peer[c].sent \in 0..Size
      /\ web.waits \in 0..MaxWaits /\ web.total \in 0..Room
      /\ OutMax \in Nat /\ ReplyLen \in Nat /\ Size \in Nat /\ MaxWaits \in Nat /\ Room \in Nat
  BY Fields, Numbers
<1>2. \A m \in Nat : \A k \in 0..m : /\ k \in Nat
                                     /\ k < m => k + 1 \in 0..m
                                     /\ k > 0 => k # 0 /\ k - 1 \in 0..m
  OBVIOUS
<1> QED
  BY <1>1, <1>2

(* Nothing queued and nothing outstanding is within the bounds. *)
LEMMA Nothing == <<>> \in Seq(Conn) /\ 0 \in 0..OutMax /\ 0 \in 0..Room /\ 0 \in 0..ReplyLen
  BY Numbers, EmptySeq

(* The thread moves on. *)
LEMMA GoEffect ==
  ASSUME web \in WebType, NEW l \in WebPC, Go(l)
  PROVE  /\ web' \in WebType /\ web'.pc = l /\ web'.res = "none"
         /\ web'.total = web.total /\ web'.from = web.from
         /\ web'.waits = web.waits /\ web'.left = web.left
  BY DEF Go, WebType

(* The thread is resumed. *)
LEMMA ResumeEffect ==
  ASSUME web \in WebType, NEW r \in {"ok", "err"}, Resume(r)
  PROVE  /\ web' \in WebType /\ web'.pc = web.pc /\ web'.res = r
         /\ web'.total = web.total /\ web'.from = web.from
         /\ web'.waits = web.waits /\ web'.left = web.left
  BY DEF Resume, WebType

(* A peer's state changes. *)
LEMMA IsEffect ==
  ASSUME peer \in [Conn -> PeerType], NEW c \in Conn,
         NEW s \in {"closed", "opening", "open", "finished", "done"}, Is(c, s)
  PROVE  /\ peer' \in [Conn -> PeerType]
         /\ peer'[c].is = s
         /\ \A d \in Conn : peer'[d].got = peer[d].got /\ (d # c => peer'[d].is = peer[d].is)
  BY DEF Is, PeerType

(* Queues as sets of what is in them. *)
LEMMA Queues ==
  ASSUME NEW S, NEW q \in Seq(S), NEW e \in S
  PROVE  /\ Append(q, e) \in Seq(S) /\ Append(q, e) # <<>> /\ ToSet(Append(q, e)) = ToSet(q) \cup {e}
         /\ ToSet(<<>>) = {}
         /\ q # <<>> => /\ Head(q) \in ToSet(q) /\ Tail(q) \in Seq(S)
                        /\ ToSet(Tail(q)) \subseteq ToSet(q)
         /\ ToSet(q) \subseteq S
<1>1. Append(q, e) \in Seq(S) /\ Append(q, e) # <<>> /\ ToSet(<<>>) = {} /\ ToSet(q) \subseteq S
  BY DEF ToSet
<1>2. ToSet(Append(q, e)) = ToSet(q) \cup {e}
  <2>1. DOMAIN Append(q, e) = 1..(Len(q) + 1) /\ DOMAIN q = 1..Len(q) /\ Len(q) \in Nat
    BY AppendProperties
  <2>2. \A i \in 1..(Len(q) + 1) : Append(q, e)[i] = IF i = Len(q) + 1 THEN e ELSE q[i]
    BY AppendProperties
  <2>3. ToSet(q) \cup {e} \subseteq ToSet(Append(q, e))
    BY <2>1, <2>2 DEF ToSet
  <2>4. ToSet(Append(q, e)) \subseteq ToSet(q) \cup {e}
    BY <2>1, <2>2 DEF ToSet
  <2> QED
    BY <2>3, <2>4
<1>3. ASSUME q # <<>>
      PROVE  Head(q) \in ToSet(q) /\ Tail(q) \in Seq(S) /\ ToSet(Tail(q)) \subseteq ToSet(q)
  <2>1. /\ Len(q) \in Nat \ {0} /\ DOMAIN q = 1..Len(q) /\ Head(q) = q[1]
        /\ Tail(q) \in Seq(S) /\ DOMAIN Tail(q) = 1..(Len(q) - 1)
        /\ \A i \in 1..(Len(q) - 1) : Tail(q)[i] = q[i + 1]
    BY <1>3, HeadTailProperties, EmptySeq
  <2>2. \A i \in 1..(Len(q) - 1) : i + 1 \in 1..Len(q)
    BY <2>1
  <2> QED
    BY <2>1, <2>2 DEF ToSet
<1> QED
  BY <1>1, <1>2, <1>3

(* The rest of a queue in which nothing is twice. *)
LEMMA OnceTail ==
  ASSUME NEW S, NEW q \in Seq(S), q # <<>>, Once(q)
  PROVE  Once(Tail(q)) /\ Head(q) \notin ToSet(Tail(q))
<1>1. /\ Len(q) \in Nat \ {0} /\ DOMAIN q = 1..Len(q) /\ Head(q) = q[1]
      /\ DOMAIN Tail(q) = 1..(Len(q) - 1)
      /\ \A i \in 1..(Len(q) - 1) : Tail(q)[i] = q[i + 1]
  BY HeadTailProperties, EmptySeq
<1>2. \A i \in 1..(Len(q) - 1) : i + 1 \in 1..Len(q) /\ i + 1 # 1
  BY <1>1
<1>3. ASSUME NEW i \in DOMAIN Tail(q), NEW j \in DOMAIN Tail(q), Tail(q)[i] = Tail(q)[j]
      PROVE  i = j
  <2>1. i + 1 = j + 1
    BY <1>1, <1>2, <1>3 DEF Once
  <2> QED
    BY <1>1, <2>1
<1>4. Head(q) \notin ToSet(Tail(q))
  BY <1>1, <1>2 DEF Once, ToSet
<1> QED
  BY <1>3, <1>4 DEF Once

-----------------------------------------------------------------------------
(* Steps of the thread alone *)

(* A step that leaves the socket, the queue and the peers alone and keeps  *)
(* the request keeps whose bytes are whose.                                *)
LEMMA Aside ==
  ASSUME Orderly, UNCHANGED <<sock, listen, peer, lost, reliable>>,
         web'.from = web.from, web'.total = web.total, web'.pc \in Served,
         web'.pc \in {"send", "sending"} => web.pc \in {"send", "sending"} \/ web.total > 0
  PROVE  Owner' /\ Fresh' /\ Honest'
<1>1. Involved' = Involved
  BY DEF Involved
<1>2. Owner'
  BY <1>1 DEF Orderly, Owner
<1>3. Fresh'
  BY DEF Orderly, Fresh
<1>4. Honest'
  BY DEF Orderly, Honest
<1> QED
  BY <1>2, <1>3, <1>4

(* Between two calls, or into a call that waits, the thread moves from     *)
(* where it serves a peer to where it still serves it.                     *)
LEMMA Onward ==
  ASSUME TypeOK, Orderly, UNCHANGED <<sock, listen, peer, lost, reliable>>,
         web' \in WebType, web'.pc \in Served, web'.from = web.from, web'.total = web.total,
         web'.pc \in {"send", "sending"} => web.pc \in {"send", "sending"} \/ web.total > 0,
         Staged', Bound', Emptied', Replied'
  PROVE  TypeOK' /\ Orderly'
<1>1. TypeOK'
  BY Types, TypesAfter
<1> QED
  BY <1>1, Aside DEF Orderly

LEMMA AcceptDoneStep ==
  ASSUME TypeOK, Orderly, AcceptDone
  PROVE  TypeOK' /\ Orderly'
<1> USE Fields DEF AcceptDone, Orderly
<1>1. web.pc = "accepting" /\ web.res = "ok" /\ UNCHANGED <<sock, listen, peer, lost, reliable>>
  OBVIOUS
<1>2. /\ web' \in WebType /\ web'.pc = "receive" /\ web'.res = "none"
      /\ web'.total = web.total /\ web'.from = web.from
  BY GoEffect, Types DEF WebPC
<1>3. Staged'
  BY <1>1, <1>2 DEF Staged
<1>4. Bound'
  BY <1>1, <1>2 DEF Bound, Staged
<1>5. Emptied'
  BY <1>1, <1>2 DEF Emptied
<1>6. Replied'
  BY <1>1, <1>2 DEF Replied
<1> QED
  BY <1>1, <1>2, <1>3, <1>4, <1>5, <1>6, Onward

(* A receive that fails, at once or after it was suspended. *)
LEMMA WaitedStep ==
  ASSUME TypeOK, Orderly, ReceiveRefused \/ ReceiveFailed
  PROVE  TypeOK' /\ Orderly'
<1> USE Fields DEF Orderly
<1>1. /\ In("receive") \/ Back("receiving", "err")
      /\ Receiving /\ UNCHANGED <<sock, listen, peer, lost, reliable>>
      /\ web' = Waited(web)
  BY DEF ReceiveRefused, ReceiveFailed, Staged
<1>2. /\ web'.pc \in {"receive", "route"} /\ web'.res = "none"
      /\ web'.total = web.total /\ web'.from = web.from
      /\ web' \in WebType
  <2>1. web.waits + 1 \in 0..MaxWaits
    BY <1>1, Counts DEF Receiving
  <2> QED
    BY <1>1, <2>1, Types DEF Waited, WebType, WebPC
<1>3. Staged'
  BY <1>1, <1>2 DEF Staged
<1>4. Bound'
  BY <1>1, <1>2 DEF Bound
<1>5. Emptied'
  BY <1>1, <1>2 DEF Emptied
<1>6. Replied'
  BY <1>1, <1>2 DEF Replied
<1> QED
  BY <1>1, <1>2, <1>3, <1>4, <1>5, <1>6, Onward

LEMMA ReceiveSuspendStep ==
  ASSUME TypeOK, Orderly, ReceiveSuspend
  PROVE  TypeOK' /\ Orderly'
<1> USE Fields DEF ReceiveSuspend, Orderly
<1>1. /\ In("receive") /\ Receiving /\ sock.rxq = <<>> /\ sock.state = "established"
      /\ UNCHANGED <<sock, listen, peer, lost, reliable>>
  OBVIOUS
<1>2. /\ web' \in WebType /\ web'.pc = "receiving" /\ web'.res = "none"
      /\ web'.total = web.total /\ web'.from = web.from /\ web'.waits = web.waits
  BY GoEffect, Types DEF WebPC
<1>3. Staged'
  BY <1>1, <1>2 DEF Staged, Receiving
<1>4. Bound'
  BY <1>1, <1>2 DEF Bound
<1>5. Emptied'
  BY <1>1, <1>2 DEF Emptied
<1>6. Replied'
  BY <1>1, <1>2 DEF Replied
<1> QED
  BY <1>1, <1>2, <1>3, <1>4, <1>5, <1>6, Onward

LEMMA ReceiveEndStep ==
  ASSUME TypeOK, Orderly, ReceiveEnd
  PROVE  TypeOK' /\ Orderly'
<1> USE Fields DEF ReceiveEnd, Orderly
<1>1. In("receive") /\ UNCHANGED <<sock, listen, peer, lost, reliable>>
  OBVIOUS
<1>2. /\ web' \in WebType /\ web'.pc = "route" /\ web'.res = "none"
      /\ web'.total = web.total /\ web'.from = web.from
  BY GoEffect, Types DEF WebPC
<1>3. Staged'
  BY <1>1, <1>2 DEF Staged
<1>4. Bound'
  BY <1>1, <1>2 DEF Bound
<1>5. Emptied'
  BY <1>1, <1>2 DEF Emptied
<1>6. Replied'
  BY <1>1, <1>2 DEF Replied
<1> QED
  BY <1>1, <1>2, <1>3, <1>4, <1>5, <1>6, Onward

LEMMA RouteStep ==
  ASSUME TypeOK, Orderly, Route
  PROVE  TypeOK' /\ Orderly'
<1> USE Fields, Numbers DEF Orderly
<1>1. In("route") /\ UNCHANGED <<sock, listen, peer, lost, reliable>>
  BY DEF Route
<1>2. /\ web' \in WebType /\ web'.res = "none"
      /\ web'.pc \in {"send", "disconnect"} /\ (web'.pc = "send" => web'.left = ReplyLen /\ web.total > 0)
      /\ web'.total = web.total /\ web'.from = web.from
  <2>1. CASE web' = [web EXCEPT !.pc = "disconnect"]
    BY <1>1, <2>1, Types DEF WebType, WebPC
  <2>2. CASE web' = [web EXCEPT !.pc = "send", !.left = ReplyLen] /\ web.total > 0
    <3>1. ReplyLen \in 0..ReplyLen
      OBVIOUS
    <3> QED
      BY <1>1, <2>2, <3>1, Types DEF WebType, WebPC
  <2> QED
    BY <2>1, <2>2 DEF Route
<1>3. Staged'
  BY <1>1, <1>2 DEF Staged
<1>4. Bound'
  BY <1>1, <1>2 DEF Bound
<1>5. Emptied'
  BY <1>1, <1>2 DEF Emptied
<1>6. Replied'
  BY <1>1, <1>2 DEF Replied
<1> QED
  BY <1>1, <1>2, <1>3, <1>4, <1>5, <1>6, Onward

(* The sender suspends, goes on, or ends the reply. *)
LEMMA SendSuspendStep ==
  ASSUME TypeOK, Orderly, SendSuspend
  PROVE  TypeOK' /\ Orderly'
<1> USE Fields DEF SendSuspend, Orderly
<1>1. In("send") /\ Sendable /\ UNCHANGED <<sock, listen, peer, lost, reliable>>
  OBVIOUS
<1>2. /\ web' \in WebType /\ web'.pc = "sending" /\ web'.res = "none"
      /\ web'.total = web.total /\ web'.from = web.from /\ web'.left = web.left
  BY GoEffect, Types DEF WebPC
<1>3. Staged'
  BY <1>1, <1>2 DEF Staged
<1>4. Bound'
  BY <1>1, <1>2 DEF Bound
<1>5. Emptied'
  BY <1>1, <1>2 DEF Emptied
<1>6. Replied'
  BY <1>1, <1>2 DEF Replied
<1> QED
  BY <1>1, <1>2, <1>3, <1>4, <1>5, <1>6, Onward

LEMMA SendAgainStep ==
  ASSUME TypeOK, Orderly, SendAgain
  PROVE  TypeOK' /\ Orderly'
<1> USE Fields DEF SendAgain, Orderly
<1>1. Back("sending", "ok") /\ UNCHANGED <<sock, listen, peer, lost, reliable>>
  OBVIOUS
<1>2. /\ web' \in WebType /\ web'.pc = "send" /\ web'.res = "none"
      /\ web'.total = web.total /\ web'.from = web.from /\ web'.left = web.left
  BY GoEffect, Types DEF WebPC
<1>3. Staged'
  BY <1>1, <1>2 DEF Staged
<1>4. Bound'
  BY <1>1, <1>2 DEF Bound
<1>5. Emptied'
  BY <1>1, <1>2 DEF Emptied
<1>6. Replied'
  BY <1>1, <1>2 DEF Replied
<1> QED
  BY <1>1, <1>2, <1>3, <1>4, <1>5, <1>6, Onward

(* A reply ends when it is complete, or when there is no peer any more.    *)
LEMMA SendEndStep ==
  ASSUME TypeOK, Orderly, SendEnd
  PROVE  TypeOK' /\ Orderly'
<1> USE Fields DEF Orderly
<1>1. /\ \/ In("send") /\ (web.left = 0 \/ ~Sendable)
         \/ Back("sending", "err")
      /\ UNCHANGED <<sock, listen, peer, lost, reliable>>
  BY DEF SendEnd
<1>2. /\ web' \in WebType /\ web'.pc = "disconnect" /\ web'.res = "none"
      /\ web'.total = web.total /\ web'.from = web.from
  BY GoEffect, Types DEF WebPC, SendEnd
<1>3. Staged'
  BY <1>1, <1>2 DEF Staged
<1>4. Bound'
  BY <1>1, <1>2 DEF Bound
<1>5. Emptied'
  BY <1>1, <1>2 DEF Emptied
<1>6. Replied'
  <2>1. (In("send") /\ web.left = 0) \/ sock.peer = NoConn
    BY <1>1 DEF Staged, Bound, Sendable
  <2>2. \A c \in Conn : sock.peer = c => peer[c].got + sock.out \in {0, ReplyLen}
    BY <2>1, Numbers DEF Replied
  <2> QED
    BY <1>1, <1>2, <2>2 DEF Replied
<1> QED
  BY <1>1, <1>2, <1>3, <1>4, <1>5, <1>6, Onward

LEMMA DisconnectRefusedStep ==
  ASSUME TypeOK, Orderly, DisconnectRefused
  PROVE  TypeOK' /\ Orderly'
<1> USE Fields DEF DisconnectRefused, Orderly
<1>1. In("disconnect") /\ ~Sendable /\ UNCHANGED <<sock, listen, peer, lost, reliable>>
  OBVIOUS
<1>2. /\ web' \in WebType /\ web'.pc = "unaccept" /\ web'.res = "none"
      /\ web'.total = web.total /\ web'.from = web.from
  BY GoEffect, Types DEF WebPC
<1>3. Staged'
  BY <1>1, <1>2 DEF Staged, Sendable
<1>4. Bound'
  BY <1>1, <1>2 DEF Bound
<1>5. Emptied'
  BY <1>1, <1>2 DEF Emptied
<1>6. Replied'
  BY <1>1, <1>2 DEF Replied
<1> QED
  BY <1>1, <1>2, <1>3, <1>4, <1>5, <1>6, Onward

LEMMA TimeoutStep ==
  ASSUME TypeOK, Orderly, Timeout
  PROVE  TypeOK' /\ Orderly'
<1> USE Fields DEF Timeout, Orderly
<1>1. In("receiving") \/ In("closing")
  OBVIOUS
<1>2. UNCHANGED <<sock, listen, peer, lost, reliable>>
  OBVIOUS
<1>3. /\ web' \in WebType /\ web'.pc = web.pc /\ web'.res = "err"
      /\ web'.total = web.total /\ web'.from = web.from /\ web'.waits = web.waits
  BY ResumeEffect, Types
<1>4. Staged'
  BY <1>1, <1>2, <1>3 DEF Staged, Receiving
<1>5. Bound'
  BY <1>1, <1>2, <1>3 DEF Bound
<1>6. Emptied'
  BY <1>1, <1>2, <1>3 DEF Emptied
<1>7. Replied'
  BY <1>1, <1>2, <1>3 DEF Replied
<1> QED
  BY <1>1, <1>2, <1>3, <1>4, <1>5, <1>6, <1>7, Onward

-----------------------------------------------------------------------------
(* Steps of the thread that change the socket *)

LEMMA StartStep ==
  ASSUME TypeOK, Orderly, Start
  PROVE  TypeOK' /\ Orderly'
<1> USE Fields, Numbers DEF Orderly
<1>1. In("start") /\ UNCHANGED <<peer, lost, reliable>> /\ sock.state = "closed"
      /\ listen.queue = <<>> /\ ~sock.bound /\ sock.peer = NoConn /\ sock.rxq = <<>>
      /\ sock.out = 0 /\ ~listen.holds
  BY DEF Start, Staged, Bound, Emptied
<1>2. CASE Go("stopped") /\ UNCHANGED <<sock, listen>>
  <2>1. /\ web' \in WebType /\ web'.pc = "stopped" /\ web'.res = "none"
        /\ web'.total = web.total /\ web'.from = web.from
    BY <1>2, GoEffect, Types DEF WebPC
  <2>2. TypeOK'
    BY <1>1, <1>2, <2>1, Types, TypesAfter
  <2>3. Staged' /\ Bound' /\ Emptied'
    BY <1>1, <1>2, <2>1 DEF Staged, Bound, Emptied
  <2>4. Owner' /\ Replied'
    BY <1>1, <1>2, <2>1 DEF Owner, Replied, Involved
  <2>5. Fresh' /\ Honest'
    BY <1>1, <1>2, <2>1 DEF Fresh, Honest
  <2> QED
    BY <2>2, <2>3, <2>4, <2>5
<1>3. CASE /\ Go("accept")
           /\ sock' = [sock EXCEPT !.state = "listen"]
           /\ listen' = [listen EXCEPT !.holds = TRUE]
  <2>1. /\ web' \in WebType /\ web'.pc = "accept" /\ web'.res = "none"
        /\ web'.total = web.total /\ web'.from = web.from
    BY <1>3, GoEffect, Types DEF WebPC
  <2>2. /\ sock' \in SockType /\ sock'.state = "listen" /\ sock'.bound = sock.bound
        /\ sock'.peer = sock.peer /\ sock'.rxq = sock.rxq /\ sock'.out = sock.out
    BY <1>3, Types DEF SockType, TcpState
  <2>3. listen' \in ListenType /\ listen'.holds = TRUE /\ listen'.queue = listen.queue
    BY <1>3, Types DEF ListenType
  <2>4. TypeOK'
    BY <1>1, <2>1, <2>2, <2>3, Types, TypesAfter
  <2>5. Staged' /\ Bound' /\ Emptied'
    BY <1>1, <2>1, <2>2, <2>3 DEF Staged, Bound, Emptied
  <2>6. Owner'
    BY <1>1, <2>1, <2>2 DEF Owner, Involved, Staged
  <2>7. Fresh' /\ Honest'
    BY <1>1, <2>1, <2>2, <2>3 DEF Fresh, Honest
  <2>8. Replied'
    BY <1>1, <2>1, <2>2 DEF Replied
  <2> QED
    BY <2>4, <2>5, <2>6, <2>7, <2>8
<1> QED
  BY <1>1, <1>2, <1>3 DEF Start

(* What accept loses, if anything, it loses to a peer that did not finish  *)
(* its handshake.                                                          *)
LEMMA AcceptStep ==
  ASSUME TypeOK, Orderly, Accept
  PROVE  TypeOK' /\ Orderly'
<1> USE Fields, Numbers DEF Orderly
<1>1. In("accept") /\ sock.state = "listen" /\ UNCHANGED <<listen, peer, reliable>>
  BY DEF Accept
<1>2. sock.rxq = <<>> /\ sock.out = 0 /\ Len(sock.rxq) = 0
  BY <1>1, EmptySeq DEF Emptied
<1>3. /\ web' \in WebType /\ web'.pc = "accepting" /\ web'.res = "none"
      /\ web'.total = web.total /\ web'.from = web.from
  BY GoEffect, Types DEF WebPC, Accept
<1>4. /\ sock' \in SockType /\ sock'.state = "syn_received" /\ sock'.bound = sock.bound
      /\ sock'.peer = sock.peer /\ sock'.rxq = <<>> /\ sock'.out = 0
  <2>1. CASE sock.bound
    <3>1. sock' = [sock EXCEPT !.state = "syn_received", !.rxq = <<>>, !.out = 0, !.win = TRUE]
      BY <2>1 DEF Accept
    <3> QED
      BY <3>1, Types, Nothing DEF SockType, TcpState
  <2>2. CASE ~sock.bound
    <3>1. sock' = [sock EXCEPT !.state = "syn_received"]
      BY <2>2 DEF Accept
    <3> QED
      BY <3>1, <1>2, Types DEF SockType, TcpState
  <2> QED
    BY <2>1, <2>2
<1>5. lost' \in 0..MaxLost /\ (reliable => lost' = 0)
  <2>1. CASE sock.bound
    <3>1. lost' = IF lost + (IF sock.peer = NoConn THEN 1 ELSE 0) > MaxLost
                  THEN MaxLost ELSE lost + (IF sock.peer = NoConn THEN 1 ELSE 0)
      BY <1>2, <2>1 DEF Accept, Lose
    <3>2. reliable => lost = 0 /\ sock.peer # NoConn
      BY <1>1, <2>1 DEF Honest
    <3>3. lost' \in 0..MaxLost
      <4>1. lost \in 0..MaxLost /\ MaxLost \in Nat
        BY Types
      <4>2. \A m \in Nat : \A k \in 0..m :
              (IF k + 1 > m THEN m ELSE k + 1) \in 0..m /\ (IF k + 0 > m THEN m ELSE k + 0) \in 0..m
        OBVIOUS
      <4> QED
        BY <3>1, <4>1, <4>2
    <3>4. reliable => lost' = 0
      BY <3>1, <3>2
    <3> QED
      BY <3>3, <3>4
  <2>2. CASE ~sock.bound
    BY <2>2, Types DEF Accept, Honest
  <2> QED
    BY <2>1, <2>2
<1>6. TypeOK'
  BY <1>1, <1>3, <1>4, <1>5, Types, TypesAfter
<1>7. Staged' /\ Bound' /\ Emptied'
  BY <1>1, <1>3, <1>4 DEF Staged, Bound, Emptied
<1>8. Owner'
  BY <1>1, <1>2, <1>3, <1>4 DEF Owner, Involved
<1>9. Fresh' /\ Honest'
  BY <1>1, <1>3, <1>4, <1>5 DEF Fresh, Honest
<1>10. Replied'
  BY <1>1, <1>2, <1>3, <1>4 DEF Replied
<1> QED
  BY <1>6, <1>7, <1>8, <1>9, <1>10

LEMMA AcceptFailedStep ==
  ASSUME TypeOK, Orderly, AcceptFailed
  PROVE  TypeOK' /\ Orderly'
<1> USE Fields, Numbers DEF Orderly
<1>1. Back("accepting", "err") /\ UNCHANGED <<listen, peer, lost, reliable>>
  BY DEF AcceptFailed
<1>2. ~reliable /\ sock.state = "listen" /\ sock.bound /\ sock.peer = NoConn /\ sock.rxq = <<>>
  BY <1>1 DEF Honest, Staged, Bound, Emptied
<1>3. /\ web' \in WebType /\ web'.pc = "accept" /\ web'.res = "none"
      /\ web'.total = 0 /\ web'.from = {}
  BY DEF AcceptFailed, Idle, WebType, WebPC
<1>4. /\ sock' \in SockType /\ sock'.state = "listen" /\ sock'.bound = sock.bound
      /\ sock'.peer = sock.peer /\ sock'.rxq = sock.rxq /\ sock'.out = sock.out
  BY Types DEF AcceptFailed, SockType, TcpState
<1>5. TypeOK'
  BY <1>1, <1>3, <1>4, Types, TypesAfter
<1>6. Staged' /\ Bound' /\ Emptied'
  BY <1>1, <1>2, <1>3, <1>4 DEF Staged, Bound, Emptied
<1>7. Owner'
  BY <1>1, <1>2, <1>3, <1>4 DEF Owner, Involved
<1>8. Fresh' /\ Honest'
  BY <1>1, <1>2, <1>3, <1>4 DEF Fresh, Honest
<1>9. Replied'
  BY <1>1, <1>2, <1>3, <1>4 DEF Replied
<1> QED
  BY <1>5, <1>6, <1>7, <1>8, <1>9

(* A piece of the request goes from the socket to the request's buffer.    *)
LEMMA ReceivedStep ==
  ASSUME TypeOK, Orderly, ReceiveQueued \/ ReceiveDone
  PROVE  TypeOK' /\ Orderly'
<1> USE Fields, Numbers DEF Orderly
<1>1. /\ In("receive") \/ Back("receiving", "ok")
      /\ Receiving /\ sock.rxq # <<>>
      /\ sock' = [sock EXCEPT !.rxq = Tail(@)]
      /\ web' = Appended(web, Head(sock.rxq))
      /\ UNCHANGED <<listen, peer, lost, reliable>>
  BY DEF ReceiveQueued, ReceiveDone, Staged, Emptied
<1> DEFINE h == Head(sock.rxq)
<1>2. /\ h \in ToSet(sock.rxq) /\ h \in Conn /\ Tail(sock.rxq) \in Seq(Conn)
      /\ ToSet(Tail(sock.rxq)) \subseteq ToSet(sock.rxq)
  <2>1. h \in Conn
    BY <1>1, HeadTailProperties
  <2>2. \A q \in Seq(Conn) :
          q # <<>> => /\ Head(q) \in ToSet(q) /\ Tail(q) \in Seq(Conn)
                      /\ ToSet(Tail(q)) \subseteq ToSet(q)
    BY <2>1, Queues
  <2> QED
    BY <1>1, <2>1, <2>2
<1> HIDE DEF h
<1>3. /\ sock' \in SockType /\ sock'.state = sock.state /\ sock'.bound = sock.bound
      /\ sock'.peer = sock.peer /\ sock'.rxq = Tail(sock.rxq) /\ sock'.out = sock.out
  BY <1>1, <1>2, Types DEF SockType
<1>4. /\ web'.pc \in {"receive", "route"} /\ web'.res = "none"
      /\ web'.total = web.total + 1 /\ web'.from = web.from \cup {h}
      /\ web' \in WebType
  <2>1. web.total + 1 \in 0..Room
    <3>1. web.total < Room
      BY <1>1 DEF Receiving
    <3>2. web.total \in 0..Room /\ Room \in Nat
      OBVIOUS
    <3> HIDE Fields, Numbers
    <3> QED
      BY <3>1, <3>2
  <2>2. web' = Appended(web, h)
    BY <1>1 DEF h
  <2> QED
    BY <1>2, <2>1, <2>2, Types DEF Appended, WebType, WebPC
<1>5. TypeOK'
  BY <1>1, <1>3, <1>4, Types, TypesAfter
<1>6. Staged' /\ Bound' /\ Emptied'
  BY <1>1, <1>3, <1>4 DEF Staged, Bound, Emptied
<1>7. Owner'
  <2>1. Involved' \subseteq Involved
    BY <1>2, <1>3, <1>4 DEF Involved
  <2>2. web'.total > 0 => web'.from # {}
    BY <1>4
  <2> QED
    BY <1>4, <2>1, <2>2 DEF Owner
<1>8. Fresh' /\ Honest'
  <2>1. ~Awaits' /\ ~(Back("accepting", "err"))' /\ ~Back("accepting", "err")
    BY <1>1, <1>4
  <2>2. \A c \in ToSet(listen.queue) : c \in Conn
    BY DEF ToSet
  <2>3. Fresh'
    BY <1>1, <1>3, <2>1, <2>2 DEF Fresh
  <2>4. Honest'
    BY <1>1, <1>3, <2>1, <2>2 DEF Honest
  <2> QED
    BY <2>3, <2>4
<1>9. Replied'
  BY <1>1, <1>3, <1>4 DEF Replied
<1> QED
  BY <1>5, <1>6, <1>7, <1>8, <1>9

LEMMA SendStep ==
  ASSUME TypeOK, Orderly, Send
  PROVE  TypeOK' /\ Orderly'
<1> USE DEF Orderly
<1>1. /\ In("send") /\ web.left > 0 /\ Sendable /\ sock.out < OutMax
      /\ UNCHANGED <<listen, peer, lost, reliable>>
  BY DEF Send
<1>2. /\ sock' \in SockType /\ sock'.state = sock.state /\ sock'.bound = sock.bound
      /\ sock'.peer = sock.peer /\ sock'.rxq = sock.rxq /\ sock'.out = sock.out + 1
  <2>1. sock.out + 1 \in 0..OutMax
    BY <1>1, Counts
  <2> QED
    BY <2>1, Types DEF Send, SockType
<1>3. /\ web' \in WebType /\ web'.pc = web.pc /\ web'.res = web.res
      /\ web'.total = web.total /\ web'.from = web.from /\ web'.left = web.left - 1
  <2>1. web.left - 1 \in 0..ReplyLen
    BY <1>1, Counts
  <2> QED
    BY <2>1, Types DEF Send, WebType
<1>4. TypeOK'
  BY <1>1, <1>2, <1>3, Types, TypesAfter
<1>5. Staged' /\ Bound' /\ Emptied'
  BY <1>1, <1>2, <1>3 DEF Staged, Bound, Emptied, Sendable
<1>6. Owner'
  BY <1>1, <1>2, <1>3 DEF Owner, Involved
<1>7. Fresh' /\ Honest'
  BY <1>1, <1>2, <1>3 DEF Fresh, Honest
<1>8. Replied'
  <2>1. ASSUME NEW c \in Conn, sock.peer = c
        PROVE  peer[c].got + sock'.out + web'.left = ReplyLen
    <3> DEFINE g == peer[c].got
               o == sock.out
               n == web.left
    <3>1. g + o + n = ReplyLen
      BY <1>1, <2>1 DEF Replied
    <3>2. g \in Nat /\ o \in Nat /\ n \in Nat /\ sock'.out = o + 1 /\ web'.left = n - 1
      BY <1>2, <1>3, Counts
    <3> HIDE DEF g, o, n
    <3>3. g + (o + 1) + (n - 1) = ReplyLen
      BY <3>1, <3>2
    <3> QED
      BY <3>2, <3>3 DEF g
  <2> QED
    BY <1>1, <1>2, <1>3, <2>1 DEF Replied
<1> QED
  BY <1>4, <1>5, <1>6, <1>7, <1>8

LEMMA DisconnectStep ==
  ASSUME TypeOK, Orderly, Disconnect
  PROVE  TypeOK' /\ Orderly'
<1> USE Fields, Numbers DEF Orderly
<1>1. In("disconnect") /\ Sendable /\ UNCHANGED <<listen, peer, lost, reliable>>
  BY DEF Disconnect
<1>2. /\ sock' \in SockType /\ sock'.state \in {"fin_wait_1", "last_ack"}
      /\ sock'.bound = sock.bound
      /\ sock'.peer = sock.peer /\ sock'.rxq = sock.rxq /\ sock'.out = sock.out
  BY Types DEF Disconnect, SockType, TcpState
<1>3. /\ web' \in WebType /\ web'.pc = "closing" /\ web'.res = "none"
      /\ web'.total = web.total /\ web'.from = web.from
  BY GoEffect, Types DEF WebPC, Disconnect
<1>4. TypeOK'
  BY <1>1, <1>2, <1>3, Types, TypesAfter
<1>5. Staged' /\ Bound' /\ Emptied'
  BY <1>1, <1>2, <1>3 DEF Staged, Bound, Emptied, Sendable
<1>6. Owner'
  BY <1>1, <1>2, <1>3 DEF Owner, Involved
<1>7. Fresh' /\ Honest'
  BY <1>1, <1>2, <1>3 DEF Fresh, Honest
<1>8. Replied'
  BY <1>1, <1>2, <1>3 DEF Replied
<1> QED
  BY <1>4, <1>5, <1>6, <1>7, <1>8

LEMMA DisconnectDoneStep ==
  ASSUME TypeOK, Orderly, DisconnectDone
  PROVE  TypeOK' /\ Orderly'
<1> USE Fields, Numbers DEF Orderly
<1>1. web.pc = "closing" /\ UNCHANGED <<listen, peer, lost, reliable>>
  BY DEF DisconnectDone
<1>2. /\ sock' \in SockType /\ sock'.bound = sock.bound /\ sock'.rxq = sock.rxq /\ sock'.out = 0
      /\ \/ sock'.state = "timed_wait" /\ sock.state = "timed_wait" /\ sock'.peer = sock.peer
         \/ sock'.state = "listen" /\ sock'.peer = NoConn
  <2>1. CASE sock.state = "timed_wait"
    <3>1. sock' = [sock EXCEPT !.out = 0]
      BY <2>1 DEF DisconnectDone
    <3> QED
      BY <2>1, <3>1, Types, Nothing DEF SockType
  <2>2. CASE sock.state # "timed_wait"
    <3>1. sock' = [sock EXCEPT !.state = "listen", !.peer = NoConn, !.out = 0]
      BY <2>2, Types DEF DisconnectDone, Cleaned, SockType
    <3> QED
      BY <3>1, Types, Nothing DEF SockType, TcpState
  <2> QED
    BY <2>1, <2>2
<1>3. /\ web' \in WebType /\ web'.pc = "unaccept" /\ web'.res = "none"
      /\ web'.total = web.total /\ web'.from = web.from
  BY GoEffect, Types DEF WebPC, DisconnectDone
<1>4. TypeOK'
  BY <1>1, <1>2, <1>3, Types, TypesAfter
<1>5. Staged' /\ Bound' /\ Emptied'
  BY <1>1, <1>2, <1>3 DEF Staged, Bound, Emptied
<1>6. Owner'
  BY <1>1, <1>2, <1>3 DEF Owner, Involved
<1>7. Fresh' /\ Honest'
  BY <1>1, <1>2, <1>3, Queues DEF Fresh, Honest
<1>8. Replied'
  BY <1>1, <1>2, <1>3 DEF Replied
<1> QED
  BY <1>4, <1>5, <1>6, <1>7, <1>8

LEMMA UnacceptStep ==
  ASSUME TypeOK, Orderly, Unaccept
  PROVE  TypeOK' /\ Orderly'
<1> USE Fields, Numbers DEF Orderly
<1>1. /\ In("unaccept") /\ sock.state \in {"timed_wait", "listen"} /\ sock.out = 0
      /\ UNCHANGED <<listen, peer, lost, reliable>>
  BY DEF Unaccept, Staged, Emptied
<1>2. /\ sock' \in SockType /\ sock'.state = "closed" /\ ~sock'.bound
      /\ sock'.peer = NoConn /\ sock'.rxq = <<>> /\ sock'.out = 0
  <2>1. sock' = [sock EXCEPT !.rxq = <<>>, !.state = "closed", !.peer = NoConn, !.bound = FALSE]
    BY <1>1, Types DEF Unaccept, Flushed, SockType
  <2> QED
    BY <1>1, <2>1, Types, Nothing DEF SockType, TcpState
<1>3. /\ web' \in WebType /\ web'.pc = "relisten" /\ web'.res = "none"
      /\ web'.total = web.total /\ web'.from = web.from
  BY GoEffect, Types DEF WebPC, Unaccept
<1>4. TypeOK'
  BY <1>1, <1>2, <1>3, Types, TypesAfter
<1>5. Staged' /\ Bound' /\ Emptied'
  BY <1>1, <1>2, <1>3 DEF Staged, Bound, Emptied
<1>6. Owner'
  <2>1. Involved' \subseteq Involved
    BY <1>2, <1>3 DEF Involved, ToSet
  <2> QED
    BY <1>1, <1>3, <2>1 DEF Owner
<1>7. Fresh' /\ Honest'
  <2>1. \A c \in ToSet(listen.queue) : c \in Conn
    BY DEF ToSet
  <2> QED
    BY <1>1, <1>2, <1>3, <2>1 DEF Fresh, Honest
<1>8. Replied'
  BY <1>1, <1>2, <1>3 DEF Replied
<1> QED
  BY <1>4, <1>5, <1>6, <1>7, <1>8

(* The socket goes to the listen request or to the oldest SYN queued.      *)
LEMMA RelistenStep ==
  ASSUME TypeOK, Orderly, Relisten
  PROVE  TypeOK' /\ Orderly'
<1> USE Fields, Numbers DEF Orderly
<1>1. /\ In("relisten") /\ sock.state = "closed" /\ ~sock.bound /\ ~listen.holds
      /\ sock.peer = NoConn /\ sock.rxq = <<>> /\ sock.out = 0
      /\ UNCHANGED <<peer, lost, reliable>>
  BY DEF Relisten, Staged, Bound, Emptied
<1>2. /\ web' \in WebType /\ web'.pc = "accept" /\ web'.res = "none"
      /\ web'.total = 0 /\ web'.from = {}
  BY DEF Relisten, Idle, WebType, WebPC
<1>3. CASE listen.queue = <<>>
  <2>1. /\ sock' \in SockType /\ sock'.state = "listen" /\ sock'.bound = sock.bound
        /\ sock'.peer = sock.peer /\ sock'.rxq = sock.rxq /\ sock'.out = sock.out
    <3>1. sock' = [sock EXCEPT !.state = "listen"]
      BY <1>1, <1>3 DEF Relisten
    <3> QED
      BY <3>1, Types DEF SockType, TcpState
  <2>2. listen' \in ListenType /\ listen'.holds = TRUE /\ listen'.queue = listen.queue
    BY <1>1, <1>3, Types DEF Relisten, ListenType
  <2>3. TypeOK'
    BY <1>1, <1>2, <2>1, <2>2, Types, TypesAfter
  <2>4. Staged' /\ Bound' /\ Emptied'
    BY <1>1, <1>2, <2>1, <2>2 DEF Staged, Bound, Emptied
  <2>5. Owner'
    BY <1>1, <1>2, <2>1, Queues DEF Owner, Involved, ToSet
  <2>6. Fresh' /\ Honest'
    BY <1>1, <1>2, <2>1, <2>2 DEF Fresh, Honest
  <2>7. Replied'
    BY <1>1, <1>2, <2>1 DEF Replied
  <2> QED
    BY <2>3, <2>4, <2>5, <2>6, <2>7
<1>4. CASE listen.queue # <<>>
  <2> DEFINE h == Head(listen.queue)
  <2>1. /\ h \in ToSet(listen.queue) /\ h \in Conn /\ h = listen.queue[1]
        /\ Tail(listen.queue) \in Seq(Conn)
        /\ Len(Tail(listen.queue)) = Len(listen.queue) - 1
        /\ \A i \in 1..(Len(listen.queue) - 1) : Tail(listen.queue)[i] = listen.queue[i + 1]
        /\ ToSet(Tail(listen.queue)) \subseteq ToSet(listen.queue)
    <3>1. h \in Conn
      BY <1>4, HeadTailProperties
    <3>2. Len(listen.queue) \in Nat /\ h = listen.queue[1]
      OBVIOUS
    <3>3. h \in ToSet(listen.queue) /\ ToSet(Tail(listen.queue)) \subseteq ToSet(listen.queue)
      BY <1>4, <3>1, Queues
    <3> QED
      BY <1>4, <3>1, <3>2, <3>3, HeadTailProperties
  <2>2. /\ sock' \in SockType /\ sock'.state = "listen" /\ sock'.bound = TRUE
        /\ sock'.peer = h /\ sock'.rxq = <<>> /\ sock'.out = 0
    <3>1. sock' = [sock EXCEPT !.state = "listen", !.bound = TRUE, !.peer = h]
      BY <1>1, <1>4 DEF Relisten
    <3>2. h \in Conn \cup {NoConn}
      BY <2>1
    <3> HIDE DEF h
    <3> QED
      BY <1>1, <3>1, <3>2, Types DEF SockType, TcpState
  <2>3. /\ listen' \in ListenType /\ listen'.holds = listen.holds
        /\ listen'.queue = Tail(listen.queue)
    <3>1. listen' = [listen EXCEPT !.queue = Tail(@)]
      BY <1>1, <1>4 DEF Relisten
    <3>2. Len(Tail(listen.queue)) <= ListenMax
      BY <2>1
    <3> QED
      BY <2>1, <3>1, <3>2, Types DEF ListenType
  <2> HIDE DEF h
  <2>4. TypeOK'
    BY <1>1, <1>2, <2>2, <2>3, Types, TypesAfter
  <2>5. Staged' /\ Bound' /\ Emptied'
    BY <1>1, <1>2, <2>1, <2>2, <2>3 DEF Staged, Bound, Emptied
  <2>6. Owner'
    BY <1>2, <2>2, Queues DEF Owner, Involved, ToSet
  <2>7. Once(Tail(listen.queue)) /\ h \notin ToSet(Tail(listen.queue))
    BY <1>4, <2>1, OnceTail DEF Fresh
  <2>8. Fresh' /\ Honest'
    BY <1>1, <1>2, <2>1, <2>2, <2>3, <2>7 DEF Fresh, Honest
  <2>9. Replied'
    BY <1>1, <1>2, <2>1, <2>2 DEF Replied, Fresh
  <2> QED
    BY <2>4, <2>5, <2>6, <2>8, <2>9
<1> QED
  BY <1>3, <1>4

-----------------------------------------------------------------------------
(* Steps of the peers *)

(* What the peers do on their own, without the server.                     *)
LEMMA PeerAlone ==
  ASSUME TypeOK, Orderly, UNCHANGED <<sock, listen, web, lost, reliable>>,
         peer' \in [Conn -> PeerType], Fresh', Replied',
         Honest'
  PROVE  TypeOK' /\ Orderly'
<1>1. TypeOK'
  BY Types, TypesAfter
<1>2. Staged' /\ Bound' /\ Emptied'
  BY DEF Orderly, Staged, Bound, Emptied, Receiving
<1>3. Owner'
  BY DEF Orderly, Owner, Involved
<1> QED
  BY <1>1, <1>2, <1>3 DEF Orderly

LEMMA OpenStep ==
  ASSUME TypeOK, Orderly, NEW c \in Conn, Open(c)
  PROVE  TypeOK' /\ Orderly'
<1> USE Fields, Numbers DEF Orderly
<1>1. /\ UNCHANGED <<sock, listen, web, lost, reliable>>
      /\ sock.peer # c \/ ~sock.bound
      /\ c \notin ToSet(listen.queue)
  BY DEF Open, Known, Matched, Queued, ToSet
<1>2. /\ peer' \in [Conn -> PeerType] /\ peer'[c].is = "opening" /\ peer'[c].got = 0
      /\ \A d \in Conn : d # c => peer'[d] = peer[d]
  BY Types, Nothing, Numbers DEF Open, PeerType
<1>3. sock.peer # c
  BY <1>1 DEF Bound
<1>4. Fresh'
  <2>0. \A d \in ToSet(listen.queue) : d \in Conn
    BY DEF ToSet
  <2>1. \A d \in ToSet(listen.queue) : d \in Conn /\ peer'[d] = peer[d]
    BY <1>1, <1>2, <2>0
  <2>2. \A d \in Conn : peer'[d].is = "opening" => peer'[d].got = 0
    BY <1>2 DEF Fresh
  <2>3. \A d \in Conn : sock'.peer = d /\ Awaits' => peer'[d].is \in {"opening", "closed"}
    BY <1>1, <1>2, <1>3 DEF Fresh
  <2> QED
    BY <1>1, <2>1, <2>2, <2>3 DEF Fresh
<1>5. Replied'
  BY <1>1, <1>2, <1>3 DEF Replied
<1>6. Honest'
  <2>0. \A d \in ToSet(listen.queue) : d \in Conn
    BY DEF ToSet
  <2>1. \A d \in ToSet(listen.queue) : d \in Conn /\ peer'[d] = peer[d]
    BY <1>1, <1>2, <2>0
  <2> QED
    BY <1>1, <1>2, <1>3, <2>1 DEF Honest
<1> QED
  BY <1>1, <1>2, <1>4, <1>5, <1>6, PeerAlone

(* A peer that vanishes, or finds itself forgotten. *)
LEMMA GoneStep ==
  ASSUME TypeOK, Orderly, NEW c \in Conn, Vanish(c) \/ Forgotten(c)
  PROVE  TypeOK' /\ Orderly'
<1> USE Fields, Numbers DEF Orderly
<1>1. Is(c, "closed") /\ UNCHANGED <<sock, listen, web, lost, reliable>>
  BY DEF Vanish, Forgotten
<1>2. /\ peer' \in [Conn -> PeerType] /\ peer'[c].is = "closed"
      /\ \A d \in Conn : peer'[d].got = peer[d].got /\ (d # c => peer'[d].is = peer[d].is)
  BY <1>1, Types, IsEffect
<1>3. reliable => c \notin ToSet(listen.queue) /\ ~(sock.peer = c /\ Awaits)
  <2>1. CASE peer[c].is # "opening"
    BY <2>1 DEF Honest
  <2>2. CASE peer[c].is = "opening" /\ reliable
    <3>1. web.pc \in {"start", "stopped"}
      BY <2>2 DEF Vanish, Forgotten
    <3> QED
      BY <3>1, Nothing DEF Staged, ToSet
  <2> QED
    BY <2>1, <2>2
<1>4. Fresh'
  <2>1. \A d \in ToSet(listen.queue) : d \in Conn
    BY DEF ToSet
  <2> QED
    BY <1>1, <1>2, <2>1 DEF Fresh
<1>5. Replied'
  BY <1>1, <1>2 DEF Replied
<1>6. Honest'
  <2>1. \A d \in ToSet(listen.queue) : d \in Conn
    BY DEF ToSet
  <2> QED
    BY <1>1, <1>2, <1>3, <2>1 DEF Honest
<1> QED
  BY <1>1, <1>2, <1>4, <1>5, <1>6, PeerAlone

(* A queue that got one more is cut at its old end. *)
LEMMA CappedQueue ==
  ASSUME NEW q \in Seq(Conn), NEW c \in Conn, Once(q), c \notin ToSet(q), Len(q) <= ListenMax
  PROVE  /\ Capped(Append(q, c)) \in Seq(Conn) /\ Len(Capped(Append(q, c))) <= ListenMax
         /\ Once(Capped(Append(q, c)))
         /\ ToSet(Capped(Append(q, c))) \subseteq ToSet(q) \cup {c}
<1> DEFINE a == Append(q, c)
<1>1. /\ a \in Seq(Conn) /\ a # <<>> /\ Len(a) = Len(q) + 1 /\ Len(q) \in Nat
      /\ DOMAIN a = 1..(Len(q) + 1) /\ DOMAIN q = 1..Len(q)
      /\ \A i \in 1..(Len(q) + 1) : a[i] = IF i = Len(q) + 1 THEN c ELSE q[i]
  BY AppendProperties
<1>2. ToSet(a) = ToSet(q) \cup {c}
  BY Queues
<1>3. Once(a)
  <2>1. \A i \in 1..Len(q) : q[i] # c
    BY <1>1 DEF ToSet
  <2> QED
    BY <1>1, <2>1 DEF Once
<1> HIDE DEF a
<1>4. /\ Tail(a) \in Seq(Conn) /\ Len(Tail(a)) = Len(q)
      /\ Once(Tail(a)) /\ ToSet(Tail(a)) \subseteq ToSet(a)
  <2>1. Tail(a) \in Seq(Conn) /\ Len(Tail(a)) = Len(a) - 1
    BY <1>1, HeadTailProperties
  <2>2. Once(Tail(a))
    BY <1>1, <1>3, OnceTail
  <2>3. ToSet(Tail(a)) \subseteq ToSet(a)
    BY <1>1, Queues
  <2> QED
    BY <1>1, <2>1, <2>2, <2>3
<1>5. CASE Len(a) > ListenMax
  BY <1>1, <1>2, <1>4, <1>5, Numbers DEF Capped, a
<1>6. CASE ~(Len(a) > ListenMax)
  BY <1>1, <1>2, <1>3, <1>6, Numbers DEF Capped, a
<1> QED
  BY <1>5, <1>6

LEMMA SynStep ==
  ASSUME TypeOK, Orderly, NEW c \in Conn, Syn(c)
  PROVE  TypeOK' /\ Orderly'
<1> USE Fields, Numbers DEF Orderly
<1>1. /\ UNCHANGED <<web, peer, lost, reliable>>
      /\ peer[c].is = "opening" /\ c \notin ToSet(listen.queue)
      /\ sock.peer # c \/ ~sock.bound
      /\ web.pc \notin {"start", "stopped"}
  BY DEF Syn, Known, Matched, Queued, ToSet
<1>2. sock.peer # c
  BY <1>1 DEF Bound
<1>3. CASE listen.holds
  <2>1. /\ Awaits /\ ~sock.bound /\ sock.peer = NoConn
        /\ sock.rxq = <<>> /\ sock.out = 0 /\ sock.state \in {"listen", "syn_received"}
        /\ web.from = {} /\ web.total = 0
    BY <1>3 DEF Bound, Emptied, Staged, Owner
  <2>2. /\ sock' \in SockType /\ sock'.state = sock.state /\ sock'.bound = TRUE
        /\ sock'.peer = c /\ sock'.rxq = <<>> /\ sock'.out = 0
    <3>1. sock' = [sock EXCEPT !.bound = TRUE, !.peer = c]
      BY <1>3 DEF Syn
    <3> QED
      BY <2>1, <3>1, Types DEF SockType
  <2>3. listen' \in ListenType /\ listen'.holds = FALSE /\ listen'.queue = listen.queue
    BY <1>3, Types DEF Syn, ListenType
  <2>4. TypeOK'
    BY <1>1, <2>2, <2>3, Types, TypesAfter
  <2>5. Staged' /\ Bound' /\ Emptied'
    BY <1>1, <2>1, <2>2, <2>3 DEF Staged, Bound, Emptied, Receiving
  <2>6. Owner'
    BY <1>1, <2>1, <2>2 DEF Owner, Involved, ToSet
  <2>7. Fresh' /\ Honest'
    BY <1>1, <2>1, <2>2, <2>3 DEF Fresh, Honest
  <2>8. Replied'
    BY <1>1, <2>1, <2>2 DEF Replied, Fresh, Staged
  <2> QED
    BY <2>4, <2>5, <2>6, <2>7, <2>8
<1>4. CASE ~listen.holds
  <2>1. UNCHANGED sock
    BY <1>4 DEF Syn
  <2> DEFINE q == Capped(Append(listen.queue, c))
  <2>2. /\ q \in Seq(Conn) /\ Len(q) <= ListenMax /\ Once(q)
        /\ ToSet(q) \subseteq ToSet(listen.queue) \cup {c}
    BY <1>1, CappedQueue DEF Fresh
  <2>3. listen' \in ListenType /\ listen'.holds = listen.holds /\ listen'.queue = q
    <3>1. listen' = [listen EXCEPT !.queue = q]
      BY <1>4 DEF Syn
    <3> HIDE DEF q
    <3> QED
      BY <2>2, <3>1, Types DEF ListenType
  <2> HIDE DEF q
  <2>4. TypeOK'
    BY <1>1, <2>1, <2>3, Types, TypesAfter
  <2>5. Staged' /\ Bound' /\ Emptied'
    BY <1>1, <2>1, <2>3 DEF Staged, Bound, Emptied, Receiving
  <2>6. Owner'
    BY <1>1, <2>1 DEF Owner, Involved
  <2>7. Fresh' /\ Honest'
    BY <1>1, <1>2, <2>1, <2>2, <2>3 DEF Fresh, Honest
  <2>8. Replied'
    BY <1>1, <2>1 DEF Replied
  <2> QED
    BY <2>4, <2>5, <2>6, <2>7, <2>8
<1> QED
  BY <1>3, <1>4

(* What is queued stays as it is when a step changes no connection that is *)
(* queued or about to be accepted.                                         *)
LEMMA QueuedKept ==
  ASSUME TypeOK, Orderly,
         listen'.queue = listen.queue, lost' = lost, reliable' = reliable,
         sock'.peer \in {sock.peer, NoConn},
         Awaits' => Awaits /\ sock'.peer = sock.peer /\ sock'.bound = sock.bound,
         reliable => (Back("accepting", "err"))' = Back("accepting", "err"),
         \A d \in Conn :
           \/ peer'[d].is = peer[d].is /\ peer'[d].got = peer[d].got
           \/ d \notin ToSet(listen.queue) /\ peer'[d].is # "opening" /\ ~(sock.peer = d /\ Awaits')
  PROVE  Fresh' /\ Honest'
<1> USE Fields, Numbers DEF Orderly
<1>1. \A d \in ToSet(listen.queue) :
        d \in Conn /\ peer'[d].is = peer[d].is /\ peer'[d].got = peer[d].got
  <2>1. \A d \in ToSet(listen.queue) : d \in Conn
    BY DEF ToSet
  <2> QED
    BY <2>1
<1>2. \A d \in Conn : sock'.peer = d /\ Awaits' =>
        sock.peer = d /\ Awaits /\ peer'[d].is = peer[d].is
  OBVIOUS
<1>3. \A d \in Conn : peer'[d].is = "opening" => peer'[d].got = 0
  BY DEF Fresh
<1>4. Fresh'
  <2>1. Once(listen'.queue) /\ ToSet(listen'.queue) = ToSet(listen.queue)
    BY DEF Fresh
  <2>2. \A d \in ToSet(listen.queue) :
          sock'.peer # d /\ peer'[d].is \in {"opening", "closed"} /\ peer'[d].got = 0
    BY <1>1 DEF Fresh
  <2>3. \A d \in Conn : sock'.peer = d /\ Awaits' => peer'[d].is \in {"opening", "closed"}
    BY <1>2 DEF Fresh
  <2> QED
    BY <1>3, <2>1, <2>2, <2>3 DEF Fresh
<1>5. Honest'
  <2>1. reliable => /\ lost' = 0 /\ ~(Back("accepting", "err"))'
                    /\ Awaits' /\ sock'.bound => sock'.peer # NoConn
    BY DEF Honest
  <2>2. reliable => \A d \in ToSet(listen.queue) : peer'[d].is = "opening"
    BY <1>1 DEF Honest
  <2>3. reliable => \A d \in Conn : sock'.peer = d /\ Awaits' => peer'[d].is = "opening"
    BY <1>2 DEF Honest
  <2> QED
    BY <2>1, <2>2, <2>3 DEF Honest
<1> QED
  BY <1>4, <1>5

LEMMA EstablishedStep ==
  ASSUME TypeOK, Orderly, NEW c \in Conn, Established(c)
  PROVE  TypeOK' /\ Orderly'
<1> USE Fields, Numbers DEF Orderly
<1>1. /\ UNCHANGED <<listen, lost, reliable>> /\ Is(c, "open")
      /\ peer[c].is = "opening" /\ sock.bound /\ sock.peer = c /\ sock.state = "syn_received"
  BY DEF Established, Matched
<1>2. In("accepting") /\ Resume("ok")
  BY <1>1 DEF Established, Staged, WebPC
<1>3. /\ web' \in WebType /\ web'.pc = web.pc /\ web'.res = "ok"
      /\ web'.total = web.total /\ web'.from = web.from
  BY <1>2, ResumeEffect, Types
<1>4. /\ sock' \in SockType /\ sock'.state = "established" /\ sock'.bound = sock.bound
      /\ sock'.peer = sock.peer /\ sock'.rxq = sock.rxq /\ sock'.out = sock.out
  BY Types DEF Established, SockType, TcpState
<1>5. /\ peer' \in [Conn -> PeerType] /\ peer'[c].is = "open"
      /\ \A d \in Conn : peer'[d].got = peer[d].got /\ (d # c => peer'[d].is = peer[d].is)
  BY <1>1, Types, IsEffect
<1>6. TypeOK'
  BY <1>1, <1>3, <1>4, <1>5, Types, TypesAfter
<1>7. Staged' /\ Bound' /\ Emptied'
  BY <1>1, <1>2, <1>3, <1>4 DEF Staged, Bound, Emptied
<1>8. Owner'
  BY <1>2, <1>3, <1>4 DEF Owner, Involved
<1>9. Fresh' /\ Honest'
  <2>1. c \notin ToSet(listen.queue)
    BY <1>1 DEF Fresh
  <2> QED
    BY <1>1, <1>2, <1>3, <1>4, <1>5, <2>1, QueuedKept
<1>10. Replied'
  <2>1. \A d \in Conn : peer'[d].is = "done" => peer'[d].got \in {0, ReplyLen}
    BY <1>5 DEF Replied
  <2>2. /\ sock'.peer = c /\ sock'.out = sock.out /\ peer'[c].got = peer[c].got
        /\ web'.pc = "accepting"
    BY <1>1, <1>2, <1>3, <1>4, <1>5
  <2>3. peer[c].got = 0 /\ sock.out = 0
    BY <1>1, <1>2 DEF Replied
  <2> QED
    BY <2>1, <2>2, <2>3 DEF Replied
<1> QED
  BY <1>6, <1>7, <1>8, <1>9, <1>10

(* A frame that changes the thread's result, if anything of the thread.    *)
Woken == /\ web' \in WebType /\ web'.pc = web.pc
         /\ web'.total = web.total /\ web'.from = web.from
         /\ web'.waits = web.waits /\ web'.left = web.left

LEMMA WokenIf ==
  ASSUME web \in WebType, NEW w \in BOOLEAN, NEW r \in {"ok", "err"},
         IF w THEN Resume(r) ELSE UNCHANGED web
  PROVE  Woken /\ web'.res = IF w THEN r ELSE web.res
  BY ResumeEffect DEF Woken

LEMMA DataStep ==
  ASSUME TypeOK, Orderly, NEW c \in Conn, Data(c)
  PROVE  TypeOK' /\ Orderly'
<1> USE Fields, Numbers DEF Orderly
<1>1. /\ UNCHANGED <<listen, lost, reliable>>
      /\ peer[c].is = "open" /\ peer[c].sent < Size
      /\ sock.bound /\ sock.peer = c /\ sock.state \in {"established", "fin_wait_1", "fin_wait_2"}
  BY DEF Data, Matched
<1>2. Woken /\ web'.res = IF In("receiving") THEN "ok" ELSE web.res
  BY WokenIf, Types DEF Data
<1>3. /\ Append(sock.rxq, c) \in Seq(Conn) /\ Append(sock.rxq, c) # <<>>
      /\ ToSet(Append(sock.rxq, c)) = ToSet(sock.rxq) \cup {c}
  BY Queues
<1>4. /\ sock' \in SockType /\ sock'.state = sock.state /\ sock'.bound = sock.bound
      /\ sock'.peer = sock.peer /\ sock'.rxq = Append(sock.rxq, c) /\ sock'.out = sock.out
  BY <1>3, Types DEF Data, SockType
<1>5. /\ peer' \in [Conn -> PeerType]
      /\ \A d \in Conn : peer'[d].got = peer[d].got /\ peer'[d].is = peer[d].is
  <2>1. peer[c].sent + 1 \in 0..Size
    BY <1>1, Counts
  <2>2. peer' = [peer EXCEPT ![c].sent = @ + 1]
    BY DEF Data
  <2> QED
    BY <2>1, <2>2, Types DEF PeerType
<1>6. TypeOK'
  BY <1>1, <1>2, <1>4, <1>5, Types, TypesAfter DEF Woken
<1>7. Staged' /\ Bound' /\ Emptied'
  BY <1>1, <1>2, <1>3, <1>4 DEF Staged, Bound, Emptied, Woken, Receiving
<1>8. Owner'
  <2>1. /\ web'.from = web.from /\ sock'.peer = sock.peer /\ sock.peer = c
        /\ ToSet(sock'.rxq) = ToSet(sock.rxq) \cup {c}
    BY <1>1, <1>2, <1>3, <1>4 DEF Woken
  <2>2. Involved' = Involved
    BY <2>1 DEF Involved
  <2> QED
    BY <1>2, <2>2 DEF Owner, Woken
<1>9. Fresh' /\ Honest'
  BY <1>1, <1>2, <1>4, <1>5, QueuedKept DEF Woken
<1>10. Replied'
  <2>1. \A d \in Conn : peer'[d].is = "done" => peer'[d].got \in {0, ReplyLen}
    BY <1>5 DEF Replied
  <2>2. /\ sock'.peer = c /\ sock'.out = sock.out /\ peer'[c].got = peer[c].got
        /\ web'.pc = web.pc /\ web'.left = web.left
    BY <1>1, <1>2, <1>4, <1>5 DEF Woken
  <2>3. /\ web.pc \in {"accept", "accepting", "receive", "receiving", "route"} =>
             peer[c].got = 0 /\ sock.out = 0
        /\ web.pc \in {"send", "sending"} => peer[c].got + sock.out + web.left = ReplyLen
        /\ web.pc \in {"disconnect", "closing"} => peer[c].got + sock.out \in {0, ReplyLen}
    BY <1>1 DEF Replied
  <2> HIDE DEF Orderly
  <2> QED
    BY <2>1, <2>2, <2>3 DEF Replied
<1> QED
  BY <1>6, <1>7, <1>8, <1>9, <1>10

LEMMA AckStep ==
  ASSUME TypeOK, Orderly, NEW c \in Conn, Ack(c)
  PROVE  TypeOK' /\ Orderly'
<1> USE Numbers DEF Orderly
<1>1. /\ UNCHANGED <<listen, lost, reliable>>
      /\ peer[c].is \in {"open", "finished"}
      /\ sock.bound /\ sock.peer = c /\ sock.out > 0
      /\ sock.out # 0 /\ web.pc \in WebPC
  BY Counts, Fields DEF Ack, Matched
<1>2. PICK win \in BOOLEAN :
        /\ sock' = [sock EXCEPT !.out = @ - 1, !.win = win]
        /\ IF win /\ In("sending") THEN Resume("ok") ELSE UNCHANGED web
  <2>1. {TRUE, sock.out > 1} \subseteq BOOLEAN
    OBVIOUS
  <2> QED
    BY <2>1 DEF Ack
<1>3. Woken /\ web'.res = IF win /\ In("sending") THEN "ok" ELSE web.res
  BY <1>2, WokenIf, Types
<1>31. /\ sock' \in SockType /\ sock'.state = sock.state /\ sock'.bound = sock.bound
      /\ sock'.peer = sock.peer /\ sock'.rxq = sock.rxq /\ sock'.out = sock.out - 1
  <2>1. sock.out - 1 \in 0..OutMax
    BY <1>1, Counts
  <2>2. sock' = [sock EXCEPT !.out = sock.out - 1, !.win = win]
    BY <1>2
  <2> QED
    BY <2>1, <2>2, Types DEF SockType
<1>4. /\ web.pc \in {"send", "sending", "disconnect", "closing"}
      /\ peer[c].got + 1 \in 0..ReplyLen
  <2> DEFINE g == peer[c].got
             o == sock.out
             n == web.left
  <2>1. g \in Nat /\ o \in Nat /\ o > 0 /\ n \in Nat
    BY <1>1, Counts
  <2>2. sock.state \notin {"closed", "listen", "syn_received", "timed_wait"}
    BY <1>1 DEF Emptied
  <2>3. web.pc \in {"send", "sending", "disconnect", "closing"}
    BY <1>1, <2>2 DEF Staged, Replied, WebPC
  <2>4. \/ g + o + n = ReplyLen
        \/ g + o \in {0, ReplyLen}
    BY <1>1, <2>3 DEF Replied
  <2> HIDE DEF g, o, n
  <2>5. g + 1 \in 0..ReplyLen
    <3>1. CASE g + o + n = ReplyLen
      BY <2>1, <3>1
    <3>2. CASE g + o = ReplyLen
      BY <2>1, <3>2
    <3>3. g + o # 0
      BY <2>1
    <3> QED
      BY <2>4, <3>1, <3>2, <3>3
  <2> QED
    BY <2>3, <2>5 DEF g
<1>5. /\ peer' \in [Conn -> PeerType] /\ peer'[c].got = peer[c].got + 1
      /\ peer'[c].is = peer[c].is
      /\ \A d \in Conn : d # c => peer'[d] = peer[d]
  <2>1. peer' = [peer EXCEPT ![c].got = @ + 1]
    BY DEF Ack
  <2> QED
    BY <1>4, <2>1, Types DEF PeerType
<1>6. TypeOK'
  BY <1>1, <1>3, <1>31, <1>5, Types, TypesAfter DEF Woken
<1>7. Staged' /\ Bound' /\ Emptied'
  <2>1. sock'.state = sock.state /\ sock.state \notin {"closed", "listen", "syn_received", "fin_wait_2", "timed_wait"}
    BY <1>1, <1>31 DEF Emptied
  <2>2. Staged'
    BY <1>3, <1>4, <2>1 DEF Staged, Woken
  <2>3. Bound'
    BY <1>1, <1>3, <1>31, <1>4, <2>1 DEF Bound, Woken
  <2>4. Emptied'
    BY <1>3, <1>4, <2>1 DEF Emptied, Woken
  <2> QED
    BY <2>2, <2>3, <2>4
<1>8. Owner'
  BY <1>3, <1>31 DEF Owner, Involved, Woken
<1>9. Fresh' /\ Honest'
  <2>1. c \notin ToSet(listen.queue)
    BY <1>1 DEF Fresh
  <2> QED
    BY <1>1, <1>3, <1>31, <1>4, <1>5, <2>1, QueuedKept DEF Woken
<1>10. Replied'
  <2> DEFINE g == peer[c].got
             o == sock.out
  <2>1. g \in Nat /\ o \in Nat /\ peer'[c].got = g + 1 /\ sock'.out = o - 1
    BY <1>31, <1>5, Counts
  <2>2. peer'[c].got + sock'.out = g + o
    <3> HIDE DEF g, o
    <3> QED
      BY <2>1
  <2>3. \A d \in Conn : peer'[d].is = "done" => peer'[d].got \in {0, ReplyLen}
    BY <1>1, <1>5 DEF Replied
  <2>4. sock'.peer = c /\ web'.pc = web.pc /\ web'.left = web.left
    BY <1>1, <1>3, <1>31 DEF Woken
  <2>5. web.pc \in {"send", "sending"} => peer'[c].got + sock'.out + web'.left = ReplyLen
    BY <1>1, <2>2, <2>4 DEF Replied
  <2>6. web.pc \in {"disconnect", "closing"} => peer'[c].got + sock'.out \in {0, ReplyLen}
    BY <1>1, <2>2 DEF Replied
  <2> QED
    BY <1>4, <2>3, <2>4, <2>5, <2>6 DEF Replied
<1> QED
  BY <1>6, <1>7, <1>8, <1>9, <1>10

LEMMA WindowOpensStep ==
  ASSUME TypeOK, Orderly, NEW c \in Conn, WindowOpens(c)
  PROVE  TypeOK' /\ Orderly'
<1> USE Fields, Numbers DEF Orderly
<1>1. UNCHANGED <<listen, peer, lost, reliable>>
  BY DEF WindowOpens
<1>2. Woken /\ web'.res = IF In("sending") THEN "ok" ELSE web.res
  BY WokenIf, Types DEF WindowOpens
<1>3. /\ sock' \in SockType /\ sock'.state = sock.state /\ sock'.bound = sock.bound
      /\ sock'.peer = sock.peer /\ sock'.rxq = sock.rxq /\ sock'.out = sock.out
  BY Types DEF WindowOpens, SockType
<1>4. TypeOK'
  BY <1>1, <1>2, <1>3, Types, TypesAfter DEF Woken
<1>5. Staged' /\ Bound' /\ Emptied'
  BY <1>1, <1>2, <1>3 DEF Staged, Bound, Emptied, Woken, Receiving
<1>6. Owner'
  BY <1>2, <1>3 DEF Owner, Involved, Woken
<1>7. Fresh' /\ Honest'
  BY <1>1, <1>2, <1>3, QueuedKept DEF Woken
<1>8. Replied'
  BY <1>1, <1>2, <1>3 DEF Replied, Woken
<1> QED
  BY <1>4, <1>5, <1>6, <1>7, <1>8

(* The steps that end a connection change the state of the socket, wake   *)
(* the thread, and keep the rest.                                          *)
LEMMA FinStep ==
  ASSUME TypeOK, Orderly, NEW c \in Conn, Fin(c)
  PROVE  TypeOK' /\ Orderly'
<1> USE Fields, Numbers DEF Orderly
<1> DEFINE old == sock.state
           new == CASE old = "established" -> "close_wait"
                    [] old = "fin_wait_1" -> "closing"
                    [] OTHER -> "timed_wait"
           is == IF old = "fin_wait_2" THEN "done" ELSE "finished"
           in == \/ old = "established" /\ In("receiving")
                 \/ old = "fin_wait_2" /\ In("closing")
           r == IF old = "established" THEN "err" ELSE "ok"
<1>1. /\ UNCHANGED <<listen, lost, reliable>> /\ Is(c, is)
      /\ peer[c].is = "open" /\ sock.bound /\ sock.peer = c
      /\ old \in {"established", "fin_wait_1", "fin_wait_2"}
      /\ sock' = [sock EXCEPT !.state = new]
  BY DEF Fin, Matched
<1>2. IF in THEN Resume(r) ELSE UNCHANGED web
  <2>1. CASE old = "established"
    <3>1. IF In("receiving") THEN Resume("err") ELSE UNCHANGED web
      BY <2>1 DEF Fin
    <3>2. (in <=> In("receiving")) /\ r = "err"
      BY <2>1
    <3> QED
      BY <3>1, <3>2
  <2>2. CASE old = "fin_wait_1"
    BY <2>2 DEF Fin
  <2>3. CASE old = "fin_wait_2"
    BY <2>3 DEF Fin, WakeClosing
  <2> QED
    BY <1>1, <2>1, <2>2, <2>3
<1>3. Woken /\ web'.res = IF in THEN r ELSE web.res
  <2> r \in {"ok", "err"} /\ in \in BOOLEAN
    OBVIOUS
  <2> HIDE DEF r, in
  <2> QED
    BY <1>2, WokenIf, Types
<1>4. /\ sock' \in SockType /\ sock'.state = new /\ sock'.bound = sock.bound
      /\ sock'.peer = sock.peer /\ sock'.rxq = sock.rxq /\ sock'.out = sock.out
  BY <1>1, Types DEF SockType, TcpState
<1>5. /\ peer' \in [Conn -> PeerType] /\ peer'[c].is = is
      /\ \A d \in Conn : peer'[d].got = peer[d].got /\ (d # c => peer'[d].is = peer[d].is)
  BY <1>1, Types, IsEffect
<1>6. TypeOK'
  BY <1>1, <1>3, <1>4, <1>5, Types, TypesAfter DEF Woken
<1>7. ~Awaits /\ c \notin ToSet(listen.queue)
  BY <1>1 DEF Fresh
<1>8. Staged' /\ Bound' /\ Emptied'
  <2>1. Staged'
    <3>1. CASE old = "established"
      <4>1. new = "close_wait" /\ (in <=> In("receiving")) /\ r = "err"
        BY <3>1
      <4>2. web.pc = "accepting" => web.res = "ok"
        BY <3>1 DEF Staged
      <4>3. /\ web.pc \notin {"start", "stopped", "accept", "closing", "unaccept", "relisten"}
            /\ web.pc = "sending" => web.res # "err"
        BY <3>1 DEF Staged
      <4> HIDE DEF new, in, r
      <4> QED
        BY <1>3, <1>4, <4>1, <4>2, <4>3 DEF Staged, Woken, Receiving
    <3>2. CASE old # "established"
      <4>1. web.pc = "closing" /\ new \in {"closing", "timed_wait"}
        BY <1>1, <3>2 DEF Staged, WebPC
      <4> QED
        BY <1>3, <1>4, <4>1 DEF Staged, Woken
    <3> QED
      BY <3>1, <3>2
  <2>2. Bound'
    BY <1>1, <1>3, <1>4, <1>7 DEF Bound, Staged, Woken
  <2>3. Emptied'
    BY <1>1, <1>3, <1>4, <1>7 DEF Emptied, Staged, Woken
  <2> QED
    BY <2>1, <2>2, <2>3
<1>9. Owner'
  BY <1>3, <1>4 DEF Owner, Involved, Woken
<1>10. Fresh' /\ Honest'
  BY <1>1, <1>3, <1>4, <1>5, <1>7, QueuedKept DEF Woken, Staged
<1>11. Replied'
  <2>1. peer'[c].is = "done" => peer'[c].got \in {0, ReplyLen}
    <3>1. CASE old = "fin_wait_2"
      <4>1. web.pc = "closing" /\ sock.out = 0
        BY <3>1 DEF Staged, Emptied, WebPC
      <4>2. peer[c].got + 0 \in {0, ReplyLen} /\ peer[c].got \in Nat
        BY <1>1, <4>1, Counts DEF Replied
      <4>3. \A k \in Nat : k + 0 = k
        OBVIOUS
      <4> QED
        BY <1>5, <4>2, <4>3
    <3> QED
      BY <1>5, <3>1
  <2>2. \A d \in Conn : peer'[d].is = "done" => peer'[d].got \in {0, ReplyLen}
    BY <1>5, <2>1 DEF Replied
  <2>3. /\ sock'.peer = c /\ sock'.out = sock.out /\ peer'[c].got = peer[c].got
        /\ web'.pc = web.pc /\ web'.left = web.left /\ sock.peer = c
    BY <1>1, <1>3, <1>4, <1>5 DEF Woken
  <2> QED
    BY <2>2, <2>3 DEF Replied
<1> QED
  BY <1>6, <1>8, <1>9, <1>10, <1>11

LEMMA AckFinStep ==
  ASSUME TypeOK, Orderly, NEW c \in Conn, AckFin(c)
  PROVE  TypeOK' /\ Orderly'
<1> USE Fields, Numbers DEF Orderly
<1> DEFINE old == sock.state
<1>1. /\ UNCHANGED <<listen, lost, reliable>>
      /\ sock.bound /\ sock.peer = c /\ sock.out = 0
      /\ peer[c].is \in {"open", "finished"}
      /\ old \in {"fin_wait_1", "closing", "last_ack"}
  BY DEF AckFin, Matched
<1>2. web.pc = "closing"
  BY <1>1 DEF Staged, WebPC
<1>3. Woken /\ (web'.res # web.res => In("closing") /\ web'.res = "ok")
  <2>1. CASE old = "fin_wait_1"
    BY <2>1, Types DEF AckFin, Woken
  <2>2. CASE old # "fin_wait_1"
    <3>1. IF In("closing") THEN Resume("ok") ELSE UNCHANGED web
      BY <2>2 DEF AckFin, WakeClosing
    <3> QED
      BY <3>1, WokenIf, Types
  <2> QED
    BY <2>1, <2>2
<1>4. /\ sock' \in SockType /\ sock'.bound = sock.bound /\ sock'.rxq = sock.rxq
      /\ sock'.out = 0
      /\ \/ sock'.state \in {"fin_wait_2", "timed_wait"} /\ sock'.peer = sock.peer
         \/ sock'.state = "listen" /\ sock'.peer = NoConn
  <2>1. \/ sock' = [sock EXCEPT !.state = "fin_wait_2"]
        \/ sock' = [sock EXCEPT !.state = "timed_wait"]
        \/ sock' = [sock EXCEPT !.state = "listen", !.peer = NoConn]
    BY DEF AckFin, Cleaned
  <2>2. CASE sock' = [sock EXCEPT !.state = "fin_wait_2"]
    BY <1>1, <2>2, Types DEF SockType, TcpState
  <2>3. CASE sock' = [sock EXCEPT !.state = "timed_wait"]
    BY <1>1, <2>3, Types DEF SockType, TcpState
  <2>4. CASE sock' = [sock EXCEPT !.state = "listen", !.peer = NoConn]
    BY <1>1, <2>4, Types DEF SockType, TcpState
  <2> QED
    BY <2>1, <2>2, <2>3, <2>4
<1>5. /\ peer' \in [Conn -> PeerType]
      /\ \A d \in Conn : peer'[d].got = peer[d].got /\ (d # c => peer'[d].is = peer[d].is)
      /\ peer'[c].is # "opening"
  <2>1. CASE UNCHANGED peer
    BY <1>1, <2>1, Types
  <2>2. CASE Is(c, "done")
    BY <2>2, Types, IsEffect
  <2> QED
    BY <2>1, <2>2 DEF AckFin
<1>6. TypeOK'
  BY <1>1, <1>3, <1>4, <1>5, Types, TypesAfter DEF Woken
<1>7. c \notin ToSet(listen.queue)
  BY <1>1 DEF Fresh
<1>8. Staged' /\ Bound' /\ Emptied'
  BY <1>1, <1>2, <1>3, <1>4 DEF Staged, Bound, Emptied, Woken
<1>9. Owner'
  BY <1>2, <1>3, <1>4 DEF Owner, Involved, Woken
<1>10. Fresh' /\ Honest'
  <2>1. ~Awaits' /\ ~(Back("accepting", "err"))' /\ ~Back("accepting", "err")
    BY <1>2, <1>3 DEF Woken
  <2> QED
    BY <1>1, <1>4, <1>5, <1>7, <2>1, QueuedKept
<1>11. Replied'
  <2>1. peer[c].got \in {0, ReplyLen}
    BY <1>1, <1>2 DEF Replied
  <2>2. \A d \in Conn : peer'[d].is = "done" => peer'[d].got \in {0, ReplyLen}
    BY <1>5, <2>1 DEF Replied
  <2>3. \A d \in Conn : sock'.peer = d => d = c
    BY <1>1, <1>4
  <2>4. web'.pc = "closing" /\ peer'[c].got + sock'.out \in {0, ReplyLen}
    BY <1>2, <1>3, <1>4, <1>5, <2>1 DEF Woken
  <2> QED
    BY <2>2, <2>3, <2>4 DEF Replied
<1> QED
  BY <1>6, <1>8, <1>9, <1>10, <1>11

(* A reset gives up the peer, and whoever waits fails. *)
LEMMA ResetStep ==
  ASSUME TypeOK, Orderly, Reset, UNCHANGED <<listen, lost, reliable>>,
         sock.bound, sock.state # "closed", web.pc # "accept",
         sock.state = "listen" => ~Awaits,
         reliable => ~In("accepting"),
         peer' \in [Conn -> PeerType],
         \A d \in Conn :
           \/ peer'[d].is = peer[d].is /\ peer'[d].got = peer[d].got
           \/ d \notin ToSet(listen.queue) /\ peer'[d].is = "closed"
  PROVE  TypeOK' /\ Orderly'
<1> USE Fields, Numbers DEF Orderly
<1> DEFINE in == web.pc \in {"accepting", "receiving", "sending", "closing"} /\ web.res = "none"
<1>1. Woken /\ web'.res = IF in THEN "err" ELSE web.res
  <2>1. IF in THEN Resume("err") ELSE UNCHANGED web
    BY DEF Reset
  <2> in \in BOOLEAN
    OBVIOUS
  <2> HIDE DEF in
  <2> QED
    BY <2>1, WokenIf, Types
<1>2. /\ sock' \in SockType /\ sock'.state = "listen" /\ sock'.peer = NoConn
      /\ sock'.bound /\ sock'.rxq = sock.rxq /\ sock'.out = 0
  BY Nothing, Types DEF Reset, Cleaned, SockType, TcpState
<1>3. ~Awaits'
  BY <1>1 DEF Woken
<1>4. TypeOK'
  BY <1>1, <1>2, Types, TypesAfter DEF Woken
<1>5. Staged'
  BY <1>1, <1>2 DEF Staged, Woken, Receiving
<1>6. Bound'
  BY <1>1, <1>2, <1>3 DEF Bound, Staged, Woken
<1>7. Emptied'
  BY <1>1, <1>2, <1>3 DEF Emptied, Staged, Woken
<1>8. Owner'
  <2>1. Involved' \subseteq Involved
    BY <1>1, <1>2 DEF Involved, Woken
  <2> QED
    BY <1>1, <2>1 DEF Owner, Woken
<1>9. Fresh' /\ Honest'
  <2>1. reliable => (Back("accepting", "err"))' = Back("accepting", "err")
    BY <1>1 DEF Woken
  <2>2. \A d \in Conn :
          \/ peer'[d].is = peer[d].is /\ peer'[d].got = peer[d].got
          \/ d \notin ToSet(listen.queue) /\ peer'[d].is # "opening" /\ ~(sock.peer = d /\ Awaits')
    BY <1>3
  <2> QED
    BY <1>2, <1>3, <2>1, <2>2, QueuedKept
<1>10. Replied'
  BY <1>2 DEF Replied
<1> QED
  BY <1>4, <1>5, <1>6, <1>7, <1>8, <1>9, <1>10

(* A queue without the SYN of c. *)
LEMMA UnqueuedQueue ==
  ASSUME NEW q \in Seq(Conn), NEW c \in Conn, Once(q)
  PROVE  /\ Unqueued(q, c) \in Seq(Conn) /\ Len(Unqueued(q, c)) <= Len(q)
         /\ Once(Unqueued(q, c)) /\ ToSet(Unqueued(q, c)) \subseteq ToSet(q) \ {c}
<1>1. /\ Len(q) \in Nat /\ DOMAIN q = 1..Len(q) /\ \A j \in 1..Len(q) : q[j] \in Conn
  OBVIOUS
<1>2. CASE ~\E i \in DOMAIN q : q[i] = c
  BY <1>1, <1>2 DEF Unqueued, ToSet
<1>3. CASE \E i \in DOMAIN q : q[i] = c
  <2> DEFINE i == CHOOSE i \in DOMAIN q : q[i] = c
             a == SubSeq(q, 1, i - 1)
             b == SubSeq(q, i + 1, Len(q))
  <2>1. i \in 1..Len(q) /\ q[i] = c
    BY <1>1, <1>3
  <2>2. Unqueued(q, c) = a \o b
    BY <1>3 DEF Unqueued, RemoveAt
  <2> HIDE DEF i
  <2>3. /\ a \in Seq(Conn) /\ Len(a) = i - 1 /\ \A j \in 1..(i - 1) : a[j] = q[j]
    <3>1. /\ 1 \in Int /\ i - 1 \in Int /\ \A j \in 1..(i - 1) : q[j] \in Conn
      BY <1>1, <2>1
    <3>2. /\ SubSeq(q, 1, i - 1) \in Seq(Conn)
          /\ Len(SubSeq(q, 1, i - 1)) = IF 1 <= i - 1 THEN (i - 1) - 1 + 1 ELSE 0
          /\ \A j \in 1..((i - 1) - 1 + 1) : SubSeq(q, 1, i - 1)[j] = q[1 + j - 1]
      BY <3>1, SubSeqProperties
    <3> QED
      BY <2>1, <3>2
  <2>4. /\ b \in Seq(Conn) /\ Len(b) = Len(q) - i /\ \A j \in 1..(Len(q) - i) : b[j] = q[i + j]
    <3>1. /\ i + 1 \in Int /\ Len(q) \in Int /\ \A j \in (i + 1)..Len(q) : q[j] \in Conn
      BY <1>1, <2>1
    <3>2. /\ SubSeq(q, i + 1, Len(q)) \in Seq(Conn)
          /\ Len(SubSeq(q, i + 1, Len(q))) = IF i + 1 <= Len(q) THEN Len(q) - (i + 1) + 1 ELSE 0
          /\ \A j \in 1..(Len(q) - (i + 1) + 1) : SubSeq(q, i + 1, Len(q))[j] = q[(i + 1) + j - 1]
      BY <3>1, SubSeqProperties
    <3>3. Len(b) = Len(q) - i /\ Len(q) - (i + 1) + 1 = Len(q) - i
      <4>1. CASE i = Len(q)
        BY <1>1, <2>1, <3>2, <4>1
      <4>2. CASE i # Len(q)
        <5>1. i + 1 <= Len(q) /\ Len(q) - (i + 1) + 1 = Len(q) - i
          <6>1. \A n \in Nat : \A k \in 1..n :
                  k # n => k + 1 <= n /\ n - (k + 1) + 1 = n - k
            OBVIOUS
          <6> QED
            BY <1>1, <2>1, <4>2, <6>1
        <5> QED
          BY <3>2, <5>1
      <4> QED
        BY <4>1, <4>2
    <3>4. ASSUME NEW j \in 1..(Len(q) - i)
          PROVE  b[j] = q[i + j]
      <4>1. (i + 1) + j - 1 = i + j
        BY <2>1
      <4> QED
        BY <3>2, <3>3, <4>1
    <3> QED
      BY <3>2, <3>3, <3>4
  <2> HIDE DEF a, b
  <2> DEFINE u == a \o b
             from(j) == IF j < i THEN j ELSE j + 1
  <2>5. /\ u \in Seq(Conn) /\ Len(u) = Len(a) + Len(b)
        /\ \A j \in 1..(Len(a) + Len(b)) : u[j] = IF j <= Len(a) THEN a[j] ELSE b[j - Len(a)]
    BY <2>3, <2>4, ConcatProperties
  <2>6. /\ Len(u) = Len(q) - 1 /\ DOMAIN u = 1..(Len(q) - 1)
        /\ \A j \in 1..(Len(q) - 1) : from(j) \in 1..Len(q) /\ from(j) # i /\ u[j] = q[from(j)]
    <3>1. Len(u) = Len(q) - 1 /\ DOMAIN u = 1..(Len(q) - 1)
      <4>1. Len(a) + Len(b) = Len(q) - 1
        BY <1>1, <2>1, <2>3, <2>4
      <4>2. Len(u) = Len(q) - 1
        BY <2>5, <4>1
      <4> HIDE DEF u
      <4> QED
        BY <2>5, <4>2
    <3>2. ASSUME NEW j \in 1..(Len(q) - 1)
          PROVE  from(j) \in 1..Len(q) /\ from(j) # i
      BY <1>1, <2>1
    <3>3. ASSUME NEW j \in 1..(Len(q) - 1)
          PROVE  u[j] = q[from(j)]
      <4>1. CASE j < i
        BY <1>1, <2>1, <2>3, <2>4, <2>5, <4>1
      <4>2. CASE ~(j < i)
        <5>1. j - (i - 1) \in 1..(Len(q) - i) /\ i + (j - (i - 1)) = j + 1
          BY <1>1, <2>1, <4>2
        <5>2. u[j] = b[j - (i - 1)]
          BY <1>1, <2>1, <2>3, <2>4, <2>5, <4>2
        <5>3. b[j - (i - 1)] = q[i + (j - (i - 1))]
          BY <2>4, <5>1
        <5> QED
          BY <4>2, <5>1, <5>2, <5>3
      <4> QED
        BY <4>1, <4>2
    <3> QED
      BY <3>1, <3>2, <3>3
  <2>7. \A j, k \in 1..(Len(q) - 1) : from(j) = from(k) => j = k
    BY <1>1, <2>1
  <2> HIDE DEF u, from
  <2>8. Once(u)
    BY <1>1, <2>6, <2>7 DEF Once
  <2>9. ToSet(u) \subseteq ToSet(q) \ {c}
    <3>1. ASSUME NEW j \in 1..(Len(q) - 1)
          PROVE  u[j] \in ToSet(q) /\ u[j] # c
      <4>1. q[from(j)] # q[i]
        BY <1>1, <2>1, <2>6 DEF Once
      <4> QED
        BY <1>1, <2>1, <2>6, <4>1 DEF ToSet
    <3> QED
      BY <2>6, <3>1 DEF ToSet
  <2>10. Len(u) <= Len(q)
    BY <1>1, <2>6
  <2> QED
    BY <2>2, <2>5, <2>8, <2>9, <2>10 DEF u
<1> QED
  BY <1>2, <1>3

LEMMA AbortStep ==
  ASSUME TypeOK, Orderly, NEW c \in Conn, Abort(c)
  PROVE  TypeOK' /\ Orderly'
<1> USE Fields, Numbers DEF Orderly
<1>1. /\ UNCHANGED <<lost, reliable>> /\ Is(c, "closed")
      /\ reliable => peer[c].is \in {"open", "finished"}
      /\ peer[c].is \in {"open", "finished", "opening"}
  BY DEF Abort
<1>2. /\ peer' \in [Conn -> PeerType] /\ peer'[c].is = "closed"
      /\ \A d \in Conn : peer'[d].got = peer[d].got /\ (d # c => peer'[d].is = peer[d].is)
  BY <1>1, Types, IsEffect
<1>3. reliable => c \notin ToSet(listen.queue) /\ ~(sock.peer = c /\ Awaits)
  BY <1>1 DEF Honest
<1>4. CASE Matched(c) /\ sock.state \notin {"closed", "listen"}
  <2>1. Reset /\ UNCHANGED listen /\ sock.bound /\ sock.peer = c
    BY <1>4 DEF Abort, Matched
  <2>2. web.pc # "accept"
    BY <1>4 DEF Staged
  <2>3. c \notin ToSet(listen.queue)
    BY <2>1 DEF Fresh
  <2>4. \A d \in Conn :
          \/ peer'[d].is = peer[d].is /\ peer'[d].got = peer[d].got
          \/ d \notin ToSet(listen.queue) /\ peer'[d].is = "closed"
    BY <1>2, <2>3
  <2> QED
    BY <1>1, <1>2, <1>3, <1>4, <2>1, <2>2, <2>4, ResetStep
<1>5. CASE ~(Matched(c) /\ sock.state \notin {"closed", "listen"})
  <2>1. UNCHANGED <<sock, web>>
    BY <1>5 DEF Abort
  <2>2. /\ listen' \in ListenType /\ listen'.holds = listen.holds
        /\ Once(listen'.queue) /\ ToSet(listen'.queue) \subseteq ToSet(listen.queue)
    <3>1. CASE listen' = listen
      BY <3>1, Types DEF Fresh
    <3>2. CASE listen' = [listen EXCEPT !.queue = Unqueued(@, c)]
      <4> DEFINE q == Unqueued(listen.queue, c)
      <4>1. /\ q \in Seq(Conn) /\ Len(q) <= Len(listen.queue) /\ Once(q)
            /\ ToSet(q) \subseteq ToSet(listen.queue) \ {c}
        BY UnqueuedQueue DEF Fresh
      <4>2. listen' = [listen EXCEPT !.queue = q]
        BY <3>2
      <4> HIDE DEF q
      <4>3. \A s, t \in Seq(Conn) : Len(s) <= Len(t) /\ Len(t) <= ListenMax => Len(s) <= ListenMax
        OBVIOUS
      <4>4. Len(q) <= ListenMax
        BY <4>1, <4>3
      <4> QED
        BY <4>1, <4>2, <4>4, Types DEF ListenType
    <3> QED
      BY <1>5, <3>1, <3>2 DEF Abort
  <2>3. TypeOK'
    BY <1>1, <1>2, <2>1, <2>2, Types, TypesAfter
  <2>4. Staged' /\ Bound' /\ Emptied'
    <3>1. Staged'
      <4>1. web.pc \in {"start", "stopped"} => listen'.queue = <<>>
        <5>1. ASSUME listen.queue = <<>>
              PROVE  listen'.queue = <<>>
          <6>1. ToSet(listen.queue) = {}
            BY <5>1, Queues
          <6>2. ToSet(listen'.queue) = {} /\ listen'.queue \in Seq(Conn)
            BY <2>2, <6>1 DEF ListenType
          <6>3. \A q \in Seq(Conn) : q # <<>> => Head(q) \in ToSet(q)
            BY Queues
          <6> QED
            BY <6>2, <6>3
        <5> QED
          BY <5>1 DEF Staged
      <4> QED
        BY <2>1, <4>1 DEF Staged, Receiving
    <3> QED
      BY <2>1, <2>2, <3>1 DEF Bound, Emptied
  <2>5. Owner'
    BY <2>1 DEF Owner, Involved
  <2>6. \A d \in ToSet(listen'.queue) : d \in ToSet(listen.queue) /\ d \in Conn
    BY <2>2, Queues
  <2>7. Fresh'
    <3>1. \A d \in ToSet(listen'.queue) :
            sock'.peer # d /\ peer'[d].is \in {"opening", "closed"} /\ peer'[d].got = 0
      BY <1>2, <2>1, <2>6 DEF Fresh
    <3>2. \A d \in Conn : peer'[d].is = "opening" => peer'[d].got = 0
      BY <1>2 DEF Fresh
    <3>3. \A d \in Conn : sock'.peer = d /\ Awaits' => peer'[d].is \in {"opening", "closed"}
      BY <1>2, <2>1 DEF Fresh
    <3> QED
      BY <2>2, <3>1, <3>2, <3>3 DEF Fresh
  <2>8. Honest'
    <3>1. reliable => \A d \in ToSet(listen'.queue) : peer'[d].is = "opening"
      BY <1>2, <1>3, <2>6 DEF Honest
    <3>2. reliable => \A d \in Conn : sock'.peer = d /\ Awaits' => peer'[d].is = "opening"
      BY <1>2, <1>3, <2>1 DEF Honest
    <3> QED
      BY <1>1, <2>1, <3>1, <3>2 DEF Honest
  <2>9. Replied'
    BY <1>2, <2>1 DEF Replied
  <2> QED
    BY <2>3, <2>4, <2>5, <2>7, <2>8, <2>9
<1> QED
  BY <1>4, <1>5

(* A retransmission of a SYN that goes to nobody. *)
LEMMA SynAgainStep ==
  ASSUME TypeOK, Orderly, SynAgain
  PROVE  TypeOK' /\ Orderly'
<1> USE Fields, Numbers DEF Orderly
<1>1. /\ UNCHANGED <<sock, listen, web, peer, reliable>>
      /\ sock.state = "syn_received" /\ sock.bound /\ sock.peer = NoConn
  BY DEF SynAgain
<1>2. In("accepting") /\ ~reliable
  BY <1>1 DEF Staged, Honest, WebPC
<1>3. lost' \in 0..MaxLost
  <2>1. lost \in 0..MaxLost /\ lost' = IF lost + 1 > MaxLost THEN MaxLost ELSE lost + 1
    BY Types DEF SynAgain, Lose
  <2> QED
    BY <2>1
<1>4. TypeOK'
  BY <1>1, <1>3, Types, TypesAfter
<1>5. Staged' /\ Bound' /\ Emptied'
  BY <1>1 DEF Staged, Bound, Emptied, Receiving
<1>6. Owner' /\ Replied'
  BY <1>1 DEF Owner, Involved, Replied
<1>7. Fresh' /\ Honest'
  BY <1>1, <1>2 DEF Fresh, Honest
<1> QED
  BY <1>4, <1>5, <1>6, <1>7

LEMMA RetriesOverStep ==
  ASSUME TypeOK, Orderly, RetriesOver
  PROVE  TypeOK' /\ Orderly'
<1> USE Fields, Numbers DEF Orderly
<1>1. Unacked /\ Reset /\ UNCHANGED <<listen, peer, lost, reliable>>
  BY DEF RetriesOver
<1>2. /\ sock.bound /\ sock.state # "closed" /\ web.pc # "accept"
      /\ sock.state = "listen" => ~Awaits
      /\ reliable => ~In("accepting")
  <2>1. CASE sock.state = "syn_received" /\ sock.bound /\ (~reliable \/ sock.peer = NoConn)
    BY <2>1 DEF Staged, Honest
  <2>2. CASE sock.out > 0
    <3>1. sock.state \notin {"closed", "listen", "syn_received"}
      BY <2>2 DEF Emptied
    <3> QED
      BY <3>1 DEF Staged, Bound
  <2>3. CASE web.pc = "sending"
    BY <2>3 DEF Staged, Bound
  <2>4. CASE sock.state \in {"fin_wait_1", "closing", "last_ack"}
    BY <2>4 DEF Staged, Bound
  <2> QED
    BY <1>1, <2>1, <2>2, <2>3, <2>4 DEF Unacked
<1>3. /\ peer' \in [Conn -> PeerType]
      /\ \A d \in Conn : peer'[d].is = peer[d].is /\ peer'[d].got = peer[d].got
  BY <1>1, Types
<1> QED
  BY <1>1, <1>2, <1>3, ResetStep

LEMMA TimedWaitOverStep ==
  ASSUME TypeOK, Orderly, TimedWaitOver
  PROVE  TypeOK' /\ Orderly'
<1> USE Fields, Numbers DEF Orderly
<1>1. UNCHANGED <<listen, web, peer, lost, reliable>> /\ sock.state = "timed_wait"
  BY DEF TimedWaitOver
<1>2. /\ sock' \in SockType /\ sock'.state = "listen" /\ sock'.peer = NoConn
      /\ sock'.bound = sock.bound /\ sock'.rxq = sock.rxq /\ sock'.out = sock.out
  BY Types DEF TimedWaitOver, Cleaned, SockType, TcpState
<1>3. web.pc \in {"closing", "unaccept"} /\ sock.out = 0 /\ sock.bound
  BY <1>1 DEF Staged, Emptied, Bound, WebPC
<1>4. TypeOK'
  BY <1>1, <1>2, Types, TypesAfter
<1>5. Staged' /\ Bound' /\ Emptied'
  BY <1>1, <1>2, <1>3 DEF Staged, Bound, Emptied
<1>6. Owner'
  <2>1. Involved' \subseteq Involved
    BY <1>1, <1>2 DEF Involved
  <2> QED
    BY <1>1, <2>1 DEF Owner
<1>7. Fresh' /\ Honest'
  BY <1>1, <1>2, <1>3, QueuedKept
<1>8. Replied'
  BY <1>1, <1>2 DEF Replied
<1> QED
  BY <1>4, <1>5, <1>6, <1>7, <1>8

-----------------------------------------------------------------------------
(* The invariant holds. *)

LEMMA InitOrderly == Init => TypeOK /\ Orderly
<1> SUFFICES ASSUME Init PROVE TypeOK /\ Orderly
  OBVIOUS
<1> USE Numbers, Nothing
<1>1. TypeOK
  BY DEF Init, Idle, TypeOK, TcpState, WebPC
<1>2. /\ sock.state = "closed" /\ sock.peer = NoConn /\ sock.rxq = <<>> /\ sock.out = 0
      /\ sock.bound = FALSE /\ listen.holds = FALSE /\ listen.queue = <<>>
      /\ web.pc = "start" /\ web.res = "none" /\ web.from = {} /\ web.total = 0
      /\ \A c \in Conn : peer[c].is = "closed" /\ peer[c].got = 0
      /\ lost = 0
  BY DEF Init, Idle
<1>3. ToSet(<<>>) = {}
  BY DEF ToSet
<1>4. Staged /\ Bound /\ Emptied
  BY <1>2 DEF Staged, Bound, Emptied
<1>5. Owner
  BY <1>2, <1>3 DEF Owner, Involved
<1>6. Fresh /\ Honest /\ Replied
  BY <1>2, <1>3 DEF Fresh, Honest, Replied, Once
<1> QED
  BY <1>1, <1>4, <1>5, <1>6 DEF Orderly

LEMMA StutterOrderly == TypeOK /\ Orderly /\ UNCHANGED vars => TypeOK' /\ Orderly'
<1> SUFFICES ASSUME TypeOK, Orderly, UNCHANGED vars PROVE TypeOK' /\ Orderly'
  OBVIOUS
<1>1. UNCHANGED <<sock, listen, web, peer, lost, reliable>>
  BY DEF vars
<1>2. TypeOK'
  BY <1>1 DEF TypeOK
<1>3. Staged' /\ Bound' /\ Emptied' /\ Owner' /\ Fresh' /\ Honest' /\ Replied'
  BY <1>1 DEF Orderly, Staged, Bound, Emptied, Owner, Involved, Fresh, Honest, Replied, Receiving
<1> QED
  BY <1>2, <1>3 DEF Orderly

LEMMA NextOrderly == TypeOK /\ Orderly /\ [Next]_vars => TypeOK' /\ Orderly'
<1> SUFFICES ASSUME TypeOK, Orderly, [Next]_vars PROVE TypeOK' /\ Orderly'
  OBVIOUS
<1>1. CASE Web
  BY <1>1, StartStep, AcceptStep, AcceptDoneStep, AcceptFailedStep, ReceivedStep, WaitedStep,
     ReceiveSuspendStep, ReceiveEndStep, RouteStep, SendStep, SendSuspendStep, SendAgainStep,
     SendEndStep, DisconnectStep, DisconnectRefusedStep, DisconnectDoneStep, UnacceptStep,
     RelistenStep DEF Web
<1>2. ASSUME NEW c \in Conn, Frame(c)
      PROVE  TypeOK' /\ Orderly'
  BY <1>2, OpenStep, SynStep, EstablishedStep, DataStep, AckStep, WindowOpensStep, FinStep,
     AckFinStep, AbortStep, GoneStep DEF Frame
<1>3. CASE Timers
  BY <1>3, TimeoutStep, SynAgainStep, RetriesOverStep, TimedWaitOverStep DEF Timers
<1> QED
  BY <1>1, <1>2, <1>3, StutterOrderly DEF Next

(* The inductive invariant: the types, and the socket, the listen request, *)
(* the thread and the peers in step.                                       *)
THEOREM Inductive == Spec => [](TypeOK /\ Orderly)
<1>1. Init => TypeOK /\ Orderly
  BY InitOrderly
<1>2. TypeOK /\ Orderly /\ [Next]_vars => (TypeOK /\ Orderly)'
  BY NextOrderly
<1> QED
  BY <1>1, <1>2, PTL DEF Spec

(* Every call of the thread finds the socket in a state it is made for,    *)
(* and a server that waits for a connection can get one as long as the     *)
(* handshakes are finished.                                                *)
THEOREM InvHolds == Spec => []Inv
<1>1. TypeOK /\ Orderly => Inv
  BY DEF Orderly, Staged, Bound, Honest, Inv, Listening
<1> QED
  BY <1>1, Inductive, PTL

(* A request and its reply belong to one connection, whatever frames of    *)
(* others come in between.                                                 *)
THEOREM OwnRequestHolds == Spec => []OwnRequest
<1>1. ASSUME TypeOK, Orderly
      PROVE  OwnRequest
  <2> USE Fields, Numbers DEF Orderly
  <2>1. \A i \in DOMAIN sock.rxq : sock.peer \in {NoConn, sock.rxq[i]}
    <3>1. \A i \in DOMAIN sock.rxq : sock.rxq[i] \in Involved
      BY <1>1 DEF Involved, ToSet
    <3>2. sock.peer # NoConn => sock.peer \in Involved
      BY DEF Involved
    <3> QED
      BY <1>1, <3>1, <3>2 DEF Owner
  <2>2. Cardinality(web.from) <= 1
    <3>1. CASE web.from = {}
      BY <3>1, FS_EmptySet
    <3>2. CASE web.from # {}
      <4>1. PICK c \in web.from : TRUE
        BY <3>2
      <4>2. \A d \in web.from : d = c
        BY <1>1, <4>1 DEF Owner, Involved
      <4>3. web.from = {c} /\ Cardinality({c}) = 1
        BY <4>1, <4>2, FS_Singleton
      <4> QED
        BY <4>3
    <3> QED
      BY <3>1, <3>2
  <2>3. web.pc \in {"send", "sending"} /\ Sendable => web.from = {sock.peer}
    <3> SUFFICES ASSUME web.pc \in {"send", "sending"}, Sendable
                 PROVE  web.from = {sock.peer}
      OBVIOUS
    <3>1. web.from # {}
      BY <1>1 DEF Owner
    <3>2. sock.peer # NoConn
      BY <1>1 DEF Sendable, Bound
    <3>3. sock.peer \in Involved /\ web.from \subseteq Involved
      BY <3>2 DEF Involved
    <3>4. \A d \in web.from : d = sock.peer
      BY <1>1, <3>3 DEF Owner
    <3> QED
      BY <3>1, <3>4
  <2> QED
    BY <2>1, <2>2, <2>3 DEF OwnRequest
<1> QED
  BY <1>1, Inductive, PTL

(* No packet of the pool is lost as long as peers finish the handshakes.   *)
THEOREM NothingLostHolds == Spec => []NothingLost
<1>1. Orderly => NothingLost
  BY DEF Orderly, Honest, NothingLost
<1> QED
  BY <1>1, Inductive, PTL

(* A connection that ends in order has got the whole reply, or none.       *)
THEOREM OrderlyIsWholeHolds == Spec => []OrderlyIsWhole
<1>1. Orderly => OrderlyIsWhole
  BY DEF Orderly, Replied, OrderlyIsWhole
<1> QED
  BY <1>1, Inductive, PTL
=============================================================================
