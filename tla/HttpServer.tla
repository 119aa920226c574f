------------------------------ MODULE HttpServer ------------------------------
(***************************************************************************)
(* The HTTP server of the power console (web.c): one thread and one socket *)
(* serve one connection after the other. Under it the server side of NetX  *)
(* TCP: the listen request and its queue, the states of the socket, and    *)
(* what frames and timeouts do to a thread that waits in a call.           *)
(*                                                                         *)
(* A NetX call runs under the IP mutex up to the point where it suspends   *)
(* the thread; frames and timeouts are processed under the mutex too, by a *)
(* more urgent thread. So each is one step, and between the wake-up of the *)
(* web thread and its next step any number of them may pass.               *)
(*                                                                         *)
(* A request is a number of pieces, the header being complete with piece   *)
(* Header; a reply is a number of packets.                                 *)
(***************************************************************************)
EXTENDS Naturals, FiniteSets, SequencesExt

CONSTANTS
  Conn,      \* connections: an address and port of a peer
  NoConn,    \* the cleared nx_tcp_socket_connect_ip and _port
  Header,    \* pieces up to the empty line of a request
  Size,      \* pieces of a whole request
  Room,      \* pieces that fit HTTP_REQ_MAX
  MaxWaits,  \* receive calls that may fail (8)
  ReplyLen,  \* packets of a reply
  OutMax,    \* packets the peer's window, or the transmit queue, takes
  ListenMax, \* listen_queue_size
  MaxLost    \* bound on the packets lost

ASSUME HttpAssumption ==
  /\ NoConn \notin Conn
  /\ {Header, Size, Room, MaxWaits, ReplyLen, OutMax, MaxLost} \subseteq Nat \ {0}
  /\ Header <= Size /\ ListenMax \in Nat

VARIABLES
  sock,   \* http_socket: state, bound, peer, received pieces (rxq: whose each
          \* is), unacknowledged packets (out), and whether the window is open
  listen, \* the listen request: whether it holds the socket, and its queue
  web,    \* the thread: where it is, what its suspended call returns (res), the
          \* pieces of the request, whose they are, failed receives, packets left
  peer,   \* peer[c]: what connection c is to the peer, pieces sent, packets got
  lost,   \* packets of the pool nobody holds or will release any more
  reliable \* the peers of this behaviour finish the handshakes they begin

vars == <<sock, listen, web, peer, lost, reliable>>

TcpState == {"closed", "listen", "syn_received", "established", "close_wait",
             "fin_wait_1", "fin_wait_2", "closing", "last_ack", "timed_wait"}
WebPC == {"start", "stopped", "accept", "accepting", "receive", "receiving", "route",
          "send", "sending", "disconnect", "closing", "unaccept", "relisten"}

Idle == [pc |-> "accept", res |-> "none", total |-> 0, from |-> {}, waits |-> 0, left |-> 0]

Init ==
  /\ sock = [state |-> "closed", bound |-> FALSE, peer |-> NoConn, rxq |-> <<>>,
             out |-> 0, win |-> TRUE]
  /\ listen = [holds |-> FALSE, queue |-> <<>>]
  /\ web = [Idle EXCEPT !.pc = "start"]
  /\ peer = [c \in Conn |-> [is |-> "closed", sent |-> 0, got |-> 0]]
  /\ lost = 0
  /\ reliable \in BOOLEAN

-----------------------------------------------------------------------------
(* A thread suspended in a call is resumed with a result, once.            *)
In(pc)    == web.pc = pc /\ web.res = "none"
Back(pc, res) == web.pc = pc /\ web.res = res
Resume(res) == web' = [web EXCEPT !.res = res]
Go(pc)    == web' = [web EXCEPT !.pc = pc, !.res = "none"]

Lose(n) == lost' = IF lost + n > MaxLost THEN MaxLost ELSE lost + n

(* _nx_tcp_socket_block_cleanup, for a server socket.                      *)
Cleaned(s) == [s EXCEPT !.state = "listen", !.peer = NoConn]

(* Mutant: the packets received and never read are forgotten. *)
FlushedNot(s) == s

(* _nx_tcp_socket_receive_queue_flush *)
Flushed(s) == [s EXCEPT !.rxq = <<>>]

-----------------------------------------------------------------------------
(* web_thread_entry and http_serve_one.                                    *)

(* net_start and the listen call; either may fail, and the thread ends.    *)
Start ==
  /\ In("start")
  /\ \/ Go("stopped") /\ UNCHANGED <<sock, listen>>
     \/ /\ Go("accept")
        /\ sock' = [sock EXCEPT !.state = "listen"]
        /\ listen' = [listen EXCEPT !.holds = TRUE]
  /\ UNCHANGED <<peer, lost, reliable>>

(* nx_tcp_server_socket_accept up to its suspension. A bound socket has    *)
(* got its peer's SYN already: the queues are cleared and the SYN of the   *)
(* server is sent. Without a peer its packet goes nowhere and is not       *)
(* released. In other states the call returns at once; that it is never    *)
(* made in them is part of Listening below.                                *)
Accept ==
  /\ In("accept") /\ sock.state = "listen"
  /\ Go("accepting")
  /\ IF sock.bound
     THEN /\ sock' = [sock EXCEPT !.state = "syn_received", !.rxq = <<>>, !.out = 0, !.win = TRUE]
          /\ Lose(Len(sock.rxq) + sock.out + IF sock.peer = NoConn THEN 1 ELSE 0)
     ELSE sock' = [sock EXCEPT !.state = "syn_received"] /\ UNCHANGED lost
  /\ UNCHANGED <<listen, peer, reliable>>

AcceptDone ==
  /\ Back("accepting", "ok")
  /\ Go("receive")
  /\ UNCHANGED <<sock, listen, peer, lost, reliable>>

(* A failed accept: http_serve_one returns and is called again.            *)
AcceptFailed ==
  /\ Back("accepting", "err")
  /\ sock' = [sock EXCEPT !.state = "listen"]
  /\ web' = Idle
  /\ UNCHANGED <<listen, peer, lost, reliable>>

Receiving == web.total < Room /\ web.waits < MaxWaits

(* A piece is appended to the request; a whole request ends the loop.      *)
Appended(w, c) ==
  [w EXCEPT !.total = @ + 1, !.from = @ \cup {c}, !.res = "none",
            !.pc = IF w.total + 1 >= Size THEN "route" ELSE "receive"]

(* Mutant: the failed receives are not counted. *)
WaitedUncounted(w) ==
  [w EXCEPT !.res = "none", !.pc = IF w.total >= Header THEN "route" ELSE "receive"]

(* A failed receive; with the header complete it ends the loop.            *)
Waited(w) ==
  [w EXCEPT !.waits = @ + 1, !.res = "none",
            !.pc = IF w.total >= Header THEN "route" ELSE "receive"]

ReceiveQueued ==
  /\ In("receive") /\ Receiving /\ sock.rxq # <<>>
  /\ sock' = [sock EXCEPT !.rxq = Tail(@)]
  /\ web' = Appended(web, Head(sock.rxq))
  /\ UNCHANGED <<listen, peer, lost, reliable>>

(* The connection is gone, or the peer has closed it.                      *)
ReceiveRefused ==
  /\ In("receive") /\ Receiving /\ sock.rxq = <<>>
  /\ sock.state \in {"closed", "listen", "close_wait"}
  /\ web' = Waited(web)
  /\ UNCHANGED <<sock, listen, peer, lost, reliable>>

ReceiveSuspend ==
  /\ In("receive") /\ Receiving /\ sock.rxq = <<>> /\ sock.state = "established"
  /\ Go("receiving")
  /\ UNCHANGED <<sock, listen, peer, lost, reliable>>

(* A suspended receive comes back: with a piece, or after 2000 or 500      *)
(* ticks, or because the connection is gone.                               *)
ReceiveDone ==
  /\ Back("receiving", "ok")
  /\ sock' = [sock EXCEPT !.rxq = Tail(@)]
  /\ web' = Appended(web, Head(sock.rxq))
  /\ UNCHANGED <<listen, peer, lost, reliable>>

ReceiveFailed ==
  /\ Back("receiving", "err")
  /\ web' = Waited(web)
  /\ UNCHANGED <<sock, listen, peer, lost, reliable>>

ReceiveEnd ==
  /\ In("receive") /\ ~Receiving
  /\ Go("route")
  /\ UNCHANGED <<sock, listen, peer, lost, reliable>>

(* http_route, if anything was received; a request of less than five bytes *)
(* is not answered.                                                        *)
Route ==
  /\ In("route")
  /\ \/ web' = [web EXCEPT !.pc = "disconnect"] /\ web.total < Size
     \/ web' = [web EXCEPT !.pc = "send", !.left = ReplyLen] /\ web.total > 0
  /\ UNCHANGED <<sock, listen, peer, lost, reliable>>

Sendable == sock.state \in {"established", "close_wait"}

(* nx_tcp_socket_send: into the transmit queue, or suspended. A failure    *)
(* ends the reply.                                                         *)
Send ==
  /\ In("send") /\ web.left > 0 /\ Sendable /\ sock.win /\ sock.out < OutMax
  /\ sock' = [sock EXCEPT !.out = @ + 1]
  /\ web' = [web EXCEPT !.left = @ - 1]
  /\ UNCHANGED <<listen, peer, lost, reliable>>

(* Mutant: the sender does not wait for the window. *)
SendSuspendNot ==
  /\ In("send") /\ web.left > 0 /\ Sendable /\ ~(sock.win /\ sock.out < OutMax)
  /\ Go("disconnect")
  /\ UNCHANGED <<sock, listen, peer, lost, reliable>>

SendSuspend ==
  /\ In("send") /\ web.left > 0 /\ Sendable /\ ~(sock.win /\ sock.out < OutMax)
  /\ Go("sending")
  /\ UNCHANGED <<sock, listen, peer, lost, reliable>>

SendAgain ==
  /\ Back("sending", "ok")
  /\ Go("send")
  /\ UNCHANGED <<sock, listen, peer, lost, reliable>>

SendEnd ==
  /\ \/ In("send") /\ (web.left = 0 \/ ~Sendable)
     \/ Back("sending", "err")
  /\ Go("disconnect")
  /\ UNCHANGED <<sock, listen, peer, lost, reliable>>

(* nx_tcp_socket_disconnect: a FIN is sent and the thread suspended.       *)
Disconnect ==
  /\ In("disconnect") /\ Sendable
  /\ sock' = [sock EXCEPT !.state = IF @ = "established" THEN "fin_wait_1" ELSE "last_ack"]
  /\ Go("closing")
  /\ UNCHANGED <<listen, peer, lost, reliable>>

DisconnectRefused ==
  /\ In("disconnect") /\ ~Sendable
  /\ Go("unaccept")
  /\ UNCHANGED <<sock, listen, peer, lost, reliable>>

(* The connection is closed, or 1000 ticks are over: packets that are not  *)
(* acknowledged are given up.                                              *)
DisconnectDone ==
  /\ web.pc = "closing" /\ web.res # "none"
  /\ sock' = [(IF sock.state = "timed_wait" THEN sock ELSE Cleaned(sock)) EXCEPT !.out = 0]
  /\ Go("unaccept")
  /\ UNCHANGED <<listen, peer, lost, reliable>>

(* Mutant: a socket in TIME_WAIT is not closed. *)
UnacceptWaits ==
  /\ In("unaccept")
  /\ Go("relisten")
  /\ sock' = IF sock.state = "timed_wait" THEN sock
             ELSE [Flushed(sock) EXCEPT !.state = "closed", !.peer = NoConn, !.bound = FALSE]
  /\ UNCHANGED <<listen, peer, lost, reliable>>

(* nx_tcp_server_socket_unaccept: a socket in LISTEN, or past ESTABLISHED, *)
(* becomes CLOSED, unbound and empty.                                      *)
Unaccept ==
  /\ In("unaccept")
  /\ Go("relisten")
  /\ sock' = IF sock.state \in {"syn_received", "established"} THEN sock
             ELSE [Flushed(sock) EXCEPT !.state = "closed", !.peer = NoConn, !.bound = FALSE]
  /\ UNCHANGED <<listen, peer, lost, reliable>>

(* Mutant: the queue is not looked at. *)
RelistenOnly ==
  /\ In("relisten")
  /\ web' = Idle
  /\ listen' = [listen EXCEPT !.holds = TRUE]
  /\ sock' = [sock EXCEPT !.state = "listen"]
  /\ UNCHANGED <<peer, lost, reliable>>

(* nx_tcp_server_socket_relisten: the socket waits for a SYN or, when one  *)
(* is queued, is bound to its sender.                                      *)
Relisten ==
  /\ In("relisten")
  /\ web' = Idle
  /\ IF sock.state # "closed" \/ sock.bound \/ listen.holds
     THEN UNCHANGED <<sock, listen>>
     ELSE IF listen.queue = <<>>
     THEN /\ listen' = [listen EXCEPT !.holds = TRUE]
          /\ sock' = [sock EXCEPT !.state = "listen"]
     ELSE /\ listen' = [listen EXCEPT !.queue = Tail(@)]
          /\ sock' = [sock EXCEPT !.state = "listen", !.bound = TRUE, !.peer = Head(listen.queue)]
  /\ UNCHANGED <<peer, lost, reliable>>

-----------------------------------------------------------------------------
(* Frames of connection c, as _nx_tcp_packet_process finds them.           *)

(* Mutant: the address and port of the peer are not compared. *)
MatchedAny(c) == sock.bound /\ sock.peer # NoConn

Matched(c) == sock.bound /\ sock.peer = c

Queued(c) == \E i \in DOMAIN listen.queue : listen.queue[i] = c
Known(c)  == Matched(c) \/ Queued(c)
Is(c, s)  == peer' = [peer EXCEPT ![c].is = s]

(* A peer opens a connection; the address and port may be used again when  *)
(* the server has forgotten them.                                          *)
Open(c) ==
  /\ peer[c].is = "closed" /\ ~Known(c) /\ c \notin web.from
  /\ peer' = [peer EXCEPT ![c] = [is |-> "opening", sent |-> 0, got |-> 0]]
  /\ UNCHANGED <<sock, listen, web, lost, reliable>>

(* The oldest SYN of a queue that is too long is dropped.                  *)
Capped(q) == IF Len(q) > ListenMax THEN Tail(q) ELSE q

(* Its SYN, perhaps not the first: the listen request gives its socket     *)
(* away, or the SYN is queued.                                             *)
Syn(c) ==
  /\ peer[c].is = "opening" /\ ~Known(c) /\ web.pc \notin {"start", "stopped"}
  /\ IF listen.holds
     THEN /\ listen' = [listen EXCEPT !.holds = FALSE]
          /\ sock' = [sock EXCEPT !.bound = TRUE, !.peer = c]
     ELSE /\ listen' = [listen EXCEPT !.queue = Capped(Append(@, c))]
          /\ UNCHANGED sock
  /\ UNCHANGED <<web, peer, lost, reliable>>

(* The last step of the handshake; accept returns.                         *)
Established(c) ==
  /\ peer[c].is = "opening" /\ Matched(c) /\ sock.state = "syn_received"
  /\ sock' = [sock EXCEPT !.state = "established"]
  /\ Is(c, "open")
  /\ IF In("accepting") THEN Resume("ok") ELSE UNCHANGED web
  /\ UNCHANGED <<listen, lost, reliable>>

(* A piece of the request; a thread that waits for one gets it.            *)
Data(c) ==
  /\ peer[c].is = "open" /\ peer[c].sent < Size
  /\ Matched(c) /\ sock.state \in {"established", "fin_wait_1", "fin_wait_2"}
  /\ peer' = [peer EXCEPT ![c].sent = @ + 1]
  /\ sock' = [sock EXCEPT !.rxq = Append(@, c)]
  /\ IF In("receiving") THEN Resume("ok") ELSE UNCHANGED web
  /\ UNCHANGED <<listen, lost, reliable>>

(* The peer acknowledges a packet; with nothing outstanding it may close   *)
(* its window. A thread that waits to send goes on when it is open.        *)
Ack(c) ==
  /\ peer[c].is \in {"open", "finished"} /\ Matched(c) /\ sock.out > 0
  /\ peer' = [peer EXCEPT ![c].got = @ + 1]
  /\ \E win \in {TRUE, sock.out > 1} :
       /\ sock' = [sock EXCEPT !.out = @ - 1, !.win = win]
       /\ IF win /\ In("sending") THEN Resume("ok") ELSE UNCHANGED web
  /\ UNCHANGED <<listen, lost, reliable>>

WindowOpens(c) ==
  /\ peer[c].is \in {"open", "finished"} /\ Matched(c) /\ ~sock.win
  /\ sock' = [sock EXCEPT !.win = TRUE]
  /\ IF In("sending") THEN Resume("ok") ELSE UNCHANGED web
  /\ UNCHANGED <<listen, peer, lost, reliable>>

WakeClosing == IF In("closing") THEN Resume("ok") ELSE UNCHANGED web

(* The peer's FIN.                                                         *)
Fin(c) ==
  /\ peer[c].is = "open" /\ Matched(c)
  /\ \/ /\ sock.state = "established"
        /\ sock' = [sock EXCEPT !.state = "close_wait"]
        /\ IF In("receiving") THEN Resume("err") ELSE UNCHANGED web
     \/ /\ sock.state = "fin_wait_1"
        /\ sock' = [sock EXCEPT !.state = "closing"]
        /\ UNCHANGED web
     \/ /\ sock.state = "fin_wait_2"
        /\ sock' = [sock EXCEPT !.state = "timed_wait"]
        /\ WakeClosing
  /\ Is(c, IF sock.state = "fin_wait_2" THEN "done" ELSE "finished")
  /\ UNCHANGED <<listen, lost, reliable>>

(* The peer has got everything up to the server's FIN.                     *)
AckFin(c) ==
  /\ Matched(c) /\ sock.out = 0
  /\ \/ /\ peer[c].is = "open" /\ sock.state = "fin_wait_1"
        /\ sock' = [sock EXCEPT !.state = "fin_wait_2"]
        /\ UNCHANGED <<web, peer>>
     \/ /\ peer[c].is = "finished" /\ sock.state \in {"closing", "last_ack"}
        /\ sock' = IF sock.state = "closing" THEN [sock EXCEPT !.state = "timed_wait"] ELSE Cleaned(sock)
        /\ Is(c, "done")
        /\ WakeClosing
  /\ UNCHANGED <<listen, lost, reliable>>

(* _nx_tcp_socket_connection_reset: whoever waits in a call fails.         *)
Reset ==
  /\ sock' = [Cleaned(sock) EXCEPT !.out = 0]
  /\ IF web.pc \in {"accepting", "receiving", "sending", "closing"} /\ web.res = "none"
     THEN Resume("err") ELSE UNCHANGED web

(* The SYN of c leaves the queue, in which there is one of c at most. *)
Unqueued(q, c) ==
  IF \E i \in DOMAIN q : q[i] = c
  THEN RemoveAt(q, CHOOSE i \in DOMAIN q : q[i] = c) ELSE q

(* The peer aborts the connection with a RST: in LISTEN it is ignored, a   *)
(* queued SYN is removed.                                                  *)
Abort(c) ==
  /\ peer[c].is \in {"open", "finished"} \cup (IF reliable THEN {} ELSE {"opening"})
  /\ Is(c, "closed")
  /\ IF Matched(c) /\ sock.state \notin {"closed", "listen"}
     THEN Reset /\ UNCHANGED listen
     ELSE /\ listen' = IF listen.holds THEN listen
                       ELSE [listen EXCEPT !.queue = Unqueued(@, c)]
          /\ UNCHANGED <<sock, web>>
  /\ UNCHANGED <<lost, reliable>>

(* The peer vanishes without a word.                                       *)
Vanish(c) ==
  /\ peer[c].is \in {"open", "finished"} \cup (IF reliable THEN {} ELSE {"opening"})
  /\ Is(c, "closed")
  /\ UNCHANGED <<sock, listen, web, lost, reliable>>

(* The peer finds that the server has forgotten the connection, or that    *)
(* nothing listens.                                                        *)
Forgotten(c) ==
  /\ \/ peer[c].is \in {"open", "finished", "done"} /\ ~Matched(c)
     \/ peer[c].is = "opening" /\ web.pc \in {"start", "stopped"}
  /\ Is(c, "closed")
  /\ UNCHANGED <<sock, listen, web, lost, reliable>>

-----------------------------------------------------------------------------
(* Timeouts. A call that waits is given up by the IP thread, unless it was *)
(* resumed before.                                                         *)
Timeout ==
  /\ \/ In("receiving")
     \/ In("closing")
  /\ Resume("err")
  /\ UNCHANGED <<sock, listen, peer, lost, reliable>>

(* The SYN of the server is sent again; without a peer it is lost.         *)
SynAgain ==
  /\ sock.state = "syn_received" /\ sock.bound /\ sock.peer = NoConn /\ lost < MaxLost
  /\ Lose(1)
  /\ UNCHANGED <<sock, listen, web, peer, reliable>>

(* The last retransmission is not answered either.                         *)
Unacked ==
  \/ sock.state = "syn_received" /\ sock.bound /\ (~reliable \/ sock.peer = NoConn)
  \/ sock.out > 0
  \/ ~sock.win /\ web.pc = "sending"
  \/ sock.state \in {"fin_wait_1", "closing", "last_ack"}

RetriesOver ==
  /\ Unacked
  /\ Reset
  /\ UNCHANGED <<listen, peer, lost, reliable>>

TimedWaitOver ==
  /\ sock.state = "timed_wait"
  /\ sock' = Cleaned(sock)
  /\ UNCHANGED <<listen, web, peer, lost, reliable>>

-----------------------------------------------------------------------------
Web ==
  \/ Start \/ Accept \/ AcceptDone \/ AcceptFailed \/ ReceiveQueued \/ ReceiveRefused
  \/ ReceiveSuspend \/ ReceiveDone \/ ReceiveFailed \/ ReceiveEnd \/ Route \/ Send
  \/ SendSuspend \/ SendAgain \/ SendEnd \/ Disconnect \/ DisconnectRefused
  \/ DisconnectDone \/ Unaccept \/ Relisten

Frame(c) ==
  \/ Open(c) \/ Syn(c) \/ Established(c) \/ Data(c) \/ Ack(c) \/ WindowOpens(c)
  \/ Fin(c) \/ AckFin(c) \/ Abort(c) \/ Vanish(c) \/ Forgotten(c)

Timers == Timeout \/ SynAgain \/ RetriesOver \/ TimedWaitOver

Next == Web \/ (\E c \in Conn : Frame(c)) \/ Timers

Spec == Init /\ [][Next]_vars

(* The thread runs and the timeouts expire; a peer owes nothing, except    *)
(* that a reliable one does finish its handshake.                          *)
Fairness ==
  /\ WF_vars(Web) /\ WF_vars(Timeout) /\ WF_vars(RetriesOver)
  /\ \A c \in Conn : /\ WF_vars(reliable /\ Syn(c))
                     /\ WF_vars(reliable /\ Established(c))

FairSpec == Spec /\ Fairness

-----------------------------------------------------------------------------
(* The types and the bounds of the queues.                                 *)
TypeOK ==
  /\ sock \in [state : TcpState, bound : BOOLEAN, peer : Conn \cup {NoConn},
               rxq : Seq(Conn), out : 0..OutMax, win : BOOLEAN]
  /\ listen \in [holds : BOOLEAN, queue : Seq(Conn)] /\ Len(listen.queue) <= ListenMax
  /\ web \in [pc : WebPC, res : {"none", "ok", "err"}, total : 0..Room, from : SUBSET Conn,
              waits : 0..MaxWaits, left : 0..ReplyLen]
  /\ peer \in [Conn -> [is : {"closed", "opening", "open", "finished", "done"},
                        sent : 0..Size, got : 0..ReplyLen]]
  /\ lost \in 0..MaxLost /\ reliable \in BOOLEAN

(* One connection never sees another one's: what is in the socket's queue  *)
(* was sent by its present peer, a request has one sender, and a reply     *)
(* that can still be sent goes to the sender of the request.               *)
OwnRequest ==
  /\ \A i \in DOMAIN sock.rxq : sock.peer \in {NoConn, sock.rxq[i]}
  /\ Cardinality(web.from) <= 1
  /\ web.pc \in {"send", "sending"} /\ Sendable => web.from = {sock.peer}

(* No packet of the pool is lost while the handshakes are finished: what   *)
(* the socket holds when it is given up is released before the next        *)
(* connection forgets it. (The handshake that fails costs packets: the     *)
(* socket then sends its SYN to nobody.)                                   *)
NothingLost == reliable => lost = 0

(* A server that waits for a connection can get one while the handshakes   *)
(* are finished: it has a peer, or the listen request holds its socket. So *)
(* it does before the call, in which the socket is in LISTEN.              *)
Listening ==
  /\ In("accept") => sock.state = "listen"
  /\ reliable /\ (In("accept") \/ In("accepting"))
        => listen.holds \/ sock.peer # NoConn

(* The server and its socket are in step.                                  *)
Inv == TypeOK /\ Listening

(* What nx_tcp_server_socket_accept.c says of a connection that failed:    *)
(* the socket is in the listen state again "so it can be tried again".     *)
TriedAgain == In("accepting") => listen.holds \/ sock.peer # NoConn

(* A connection that ends in order, with both FINs acknowledged, has got   *)
(* the whole reply, or none when there was nothing to answer. (A peer that *)
(* is too slow is cut off after 1000 ticks: it does not end in order.)     *)
OrderlyIsWhole == \A c \in Conn : peer[c].is = "done" => peer[c].got \in {0, ReplyLen}

(* Whatever the peer does after it is connected, silence included, the     *)
(* server is back in accept some time, provided the peer does not keep its *)
(* window shut for ever: nx_tcp_socket_send waits without a limit.         *)
ServerReturns == <>[](sock.win) => (web.pc = "receive" ~> web.pc = "accept")

(* A connection whose SYN is queued is not forgotten while the handshakes  *)
(* are finished: it is accepted some time, or its SYN is dropped for newer *)
(* ones.                                                                   *)
QueueMoves ==
  reliable /\ <>[](sock.win) => \A c \in Conn : Queued(c) ~> ~Queued(c)
=============================================================================
