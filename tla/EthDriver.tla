------------------------------ MODULE EthDriver -------------------------------
(***************************************************************************)
(* The way of a network packet through the Ethernet driver                 *)
(* (platform/netxduo/ethernet/nx_stm32_eth_driver.c), the descriptor rings *)
(* of the HAL under it (stm32h7xx_hal_eth.c), the packet pool the driver   *)
(* shares with NetX (nx_packet_*.c), the part of NetX that keeps TCP       *)
(* packets for retransmission, and the web thread that replies (web.c,     *)
(* tcp_send_bytes).                                                        *)
(*                                                                         *)
(* Four parties run concurrently: the DMA of the MAC, the Ethernet         *)
(* interrupt, the NetX IP thread and the web thread. Driver calls are made *)
(* under the IP mutex: by the IP thread, which holds it except while it    *)
(* waits for events, or by the web thread. The web thread is less urgent   *)
(* and runs only while the IP thread waits.                                *)
(*                                                                         *)
(* Every frame fits one descriptor (buffers are larger than the MTU).      *)
(***************************************************************************)
EXTENDS Naturals, Sequences, FiniteSets

CONSTANTS
  Packet,      \* the packets of nx_pool
  NoPacket,    \* NULL
  RxCount,     \* ETH_RX_DESC_CNT
  TxCount,     \* ETH_TX_DESC_CNT
  QueueMax,    \* NX_TCP_MAXIMUM_TX_QUEUE
  MaxRetries,  \* NX_TCP_MAXIMUM_RETRIES
  MaxHeld,     \* bound on the packets in the receive queue of the socket
  MaxBacklog,  \* bound on the frames received and not yet processed
  MayFail,     \* whether the DMA may meet a fatal bus error
  MayClose     \* whether the peer may close its window

ASSUME EthAssumption ==
  /\ NoPacket \notin Packet
  /\ RxCount \in Nat \ {0} /\ TxCount \in Nat \ {0}
  /\ QueueMax \in Nat \ {0} /\ MaxRetries \in Nat \ {0}
  /\ MaxHeld \in Nat /\ MaxBacklog \in Nat
  /\ MayFail \in BOOLEAN /\ MayClose \in BOOLEAN

RxSlot == 0..(RxCount - 1)
TxSlot == 0..(TxCount - 1)
Flag   == {"rx", "tx", "fatal"}

VARIABLES
  eth,      \* "down" until the link is enabled, then "up" or "error"
  pool,     \* the packet pool and the marks of its packets
  rx,       \* the receive ring
  tx,       \* the transmit ring
  irq,      \* DMA status flags that raise the Ethernet interrupt
  deferred, \* nx_driver_information_deferred_events
  events,   \* nx_ip_events: "receive", "driver" (for the timer see Ticks)
  ip,       \* the IP thread
  rxq,      \* nx_ip_deferred_received_packet_head ... tail
  sentq,    \* nx_tcp_socket_transmit_sent_head ... tail
  wire,     \* packets of sentq the peer has been sent at least once
  sock,     \* the socket's receive queue
  conn,     \* the connection is established
  snd,      \* the peer's window, and the time-out of the socket
  web       \* the web thread

vars == <<eth, pool, rx, tx, irq, deferred, events, ip, rxq, sentq, wire,
          sock, conn, snd, web>>

hw  == <<eth, irq, deferred>>
tcp == <<sentq, wire, sock, conn, snd>>

IpPC  == {"enable", "loop", "frame", "reply", "reset", "resend", "deferred",
          "read", "build"}
WebPC == {"listen", "open", "pool", "send", "pool_seg", "send_seg", "trim",
          "queue", "closing", "flush"}

(* What the socket knows for sending: open, the window the peer advertised *)
(* last is not zero; says, what the frame at hand advertises; probe,       *)
(* nx_tcp_socket_zero_window_probe_has_data; failures, the probes not      *)
(* answered (counts while probe holds); armed, nx_tcp_socket_timeout runs, *)
(* and retries, how often it has expired (counts while it runs).           *)
(* nx_tcp_socket_block_cleanup stops it; nothing is known any more then.   *)
Cleaned == [open |-> TRUE, says |-> TRUE, probe |-> FALSE, failures |-> 0,
            armed |-> FALSE, retries |-> 0]

Init ==
  /\ eth = "down"
  /\ pool = [free |-> Packet, tag |-> [p \in Packet |-> "free"],
             done |-> [p \in Packet |-> FALSE],
             waits |-> FALSE, given |-> NoPacket]
  /\ rx = [buf |-> [i \in RxSlot |-> NoPacket], own |-> [i \in RxSlot |-> FALSE],
           idx |-> 0, bidx |-> 0, bcnt |-> 0, dma |-> 0]
  /\ tx = [pkt |-> [i \in TxSlot |-> NoPacket], own |-> [i \in TxSlot |-> FALSE],
           cur |-> 0, rel |-> 0, used |-> 0, dma |-> 0]
  /\ irq = {} /\ deferred = {} /\ events = {}
  /\ ip = [pc |-> "enable", got |-> {}, work |-> {}, frame |-> NoPacket, pos |-> 1]
  /\ rxq = <<>> /\ sentq = <<>> /\ wire = {} /\ sock = {}
  /\ conn = FALSE /\ snd = Cleaned
  /\ web = [pc |-> "listen", hand |-> NoPacket, seg |-> NoPacket]

-----------------------------------------------------------------------------
(* The packet pool. A packet is marked "allocated", "free" or "enqueued"   *)
(* (in a TCP queue); done is NX_DRIVER_TX_DONE: the driver is not, or no   *)
(* longer, holding this packet of a TCP queue.                             *)

(* nx_packet_allocate, when the pool has a packet.                         *)
Allocated(q, p) ==
  [q EXCEPT !.free = @ \ {p}, !.tag[p] = "allocated", !.done[p] = FALSE]

(* Mutant: a thread suspended on the pool is not looked for. *)
ReleasedToPool(q, p) ==
  IF q.tag[p] # "allocated" THEN q
  ELSE [q EXCEPT !.free = @ \cup {p}, !.tag[p] = "free", !.done[p] = FALSE]

(* nx_packet_release: a packet that is not marked as allocated is refused; *)
(* a thread suspended on the pool gets the packet, else it becomes free.   *)
Released(q, p) ==
  IF q.tag[p] # "allocated" THEN q
  ELSE IF q.waits
       THEN [q EXCEPT !.waits = FALSE, !.given = p, !.done[p] = FALSE]
       ELSE [q EXCEPT !.free = @ \cup {p}, !.tag[p] = "free", !.done[p] = FALSE]

(* nx_packet_transmit_release: a packet TCP keeps is only marked.          *)
TransmitReleased(q, p) ==
  IF q.tag[p] = "enqueued" THEN [q EXCEPT !.done[p] = TRUE] ELSE Released(q, p)

(* Mutant: TCP frees a packet the driver still holds. *)
DequeuedAlways(q, p) == Released([q EXCEPT !.tag[p] = "allocated"], p)

(* TCP gives a packet of its queue up (ack, flush): it is released unless  *)
(* the driver still holds it and will release it.                          *)
Dequeued(q, p) ==
  LET r == [q EXCEPT !.tag[p] = "allocated"]
  IN  IF q.done[p] THEN Released(r, p) ELSE r

-----------------------------------------------------------------------------
(* The rings.                                                              *)

NextRx(i) == IF i = RxCount - 1 THEN 0 ELSE i + 1
NextTx(i) == IF i = TxCount - 1 THEN 0 ELSE i + 1

(* Mutant: the packet address of the descriptor is not looked at. *)
TxReadyOwnOnly == eth = "up" /\ ~tx.own[tx.cur]

(* HAL_ETH_Transmit_IT has a descriptor for a packet.                      *)
TxReady == eth = "up" /\ ~tx.own[tx.cur] /\ tx.pkt[tx.cur] = NoPacket

(* _nx_driver_packet_send, the pool being q: the packet goes into the ring *)
(* or, when the link is down or the ring is full, is released.             *)
PacketSend(q, p) ==
  IF TxReady
  THEN /\ tx' = [tx EXCEPT !.pkt[tx.cur] = p, !.own[tx.cur] = TRUE,
                           !.cur = NextTx(@), !.used = @ + 1]
       /\ pool' = q
  ELSE /\ pool' = TransmitReleased(q, p)
       /\ UNCHANGED tx

(* The DMA stores a frame in the next descriptor it owns.                  *)
Backlog == Cardinality({i \in RxSlot : rx.buf[i] # NoPacket /\ ~rx.own[i]}) + Len(rxq)

DmaReceive ==
  /\ eth = "up" /\ "fatal" \notin irq
  /\ rx.own[rx.dma] /\ Backlog < MaxBacklog
  /\ rx' = [rx EXCEPT !.own[rx.dma] = FALSE, !.dma = NextRx(@)]
  /\ irq' = irq \cup {"rx"}
  /\ UNCHANGED <<eth, pool, tx, deferred, events, ip, rxq, tcp, web>>

(* The DMA has sent the packet of the next descriptor it owns.             *)
DmaSend ==
  /\ eth = "up" /\ "fatal" \notin irq
  /\ tx.own[tx.dma]
  /\ tx' = [tx EXCEPT !.own[tx.dma] = FALSE, !.dma = NextTx(@)]
  /\ wire' = wire \cup ({tx.pkt[tx.dma]} \cap {sentq[i] : i \in DOMAIN sentq})
  /\ irq' = irq \cup {"tx"}
  /\ UNCHANGED <<eth, pool, rx, deferred, events, ip, rxq, sentq, sock, conn,
                 snd, web>>

(* A fatal bus error stops the DMA.                                        *)
DmaFatal ==
  /\ MayFail /\ eth = "up" /\ "fatal" \notin irq
  /\ irq' = irq \cup {"fatal"}
  /\ UNCHANGED <<eth, pool, rx, tx, deferred, events, ip, rxq, tcp, web>>

(* ETH_IRQHandler and its callbacks: the IP thread is woken only when no   *)
(* event was noted before (wake). A fatal error switches the interrupts    *)
(* off for good.                                                           *)
Interrupt(wake) ==
  /\ eth = "up" /\ irq # {}
  /\ deferred' = deferred \cup (irq \ {"fatal"})
  /\ events' = IF wake THEN events \cup {"driver"} ELSE events
  /\ eth' = IF "fatal" \in irq THEN "error" ELSE eth
  /\ irq' = {}
  /\ UNCHANGED <<pool, rx, tx, ip, rxq, tcp, web>>

(* Mutant: only the receive callback wakes the IP thread. *)
EthIrqRxOnly == Interrupt(deferred = {} /\ "rx" \in irq)

EthIrq == Interrupt(deferred = {} /\ irq # {"fatal"})

-----------------------------------------------------------------------------
(* The IP thread. It holds the IP mutex except while it waits for events.  *)
Waiting == ip.pc = "loop" /\ ip.got = {}
Go(pc)  == ip' = [ip EXCEPT !.pc = pc]

(* NX_LINK_ENABLE and HAL_ETH_Start_IT: the descriptors are built before   *)
(* the DMA is started. The PHY may fail; the link then stays down.         *)
Enable ==
  /\ ip.pc = "enable"
  /\ \/ Go("loop") /\ UNCHANGED rx
     \/ Go("build") /\ rx' = [rx EXCEPT !.bcnt = RxCount]
  /\ UNCHANGED <<hw, pool, tx, events, rxq, tcp, web>>

(* What _nx_ip_fast_periodic_timer_entry may have added to the flags. One  *)
(* set while the thread works is seen when it waits again, like one set    *)
(* then. Ticks nothing is due at are left out.                             *)
Ticks == {{}, {"timer"}}

(* tx_event_flags_get, clearing the flags, and the IP mutex.               *)
Wake ==
  /\ Waiting /\ web.pc \notin {"flush", "trim"}
  /\ \E tick \in Ticks :
       /\ events \cup tick # {}
       /\ ip' = [ip EXCEPT !.got = events \cup tick]
  /\ events' = {}
  /\ UNCHANGED <<hw, pool, rx, tx, rxq, tcp, web>>

(* The events picked up are served in this order.                          *)
Serving(e) ==
  /\ ip.pc = "loop" /\ e \in ip.got
  /\ e # "receive" => "receive" \notin ip.got
  /\ e = "driver" => "timer" \notin ip.got

Served(e) == ip' = [ip EXCEPT !.pc = "loop", !.got = @ \ {e}]

(* NX_IP_RECEIVE_EVENT: the frames queued by the driver, one by one. The   *)
(* window in a frame is the peer's choice.                                 *)
TakeFrame ==
  /\ Serving("receive")
  /\ IF rxq = <<>> THEN Served("receive") /\ UNCHANGED <<rxq, snd>>
     ELSE /\ ip' = [ip EXCEPT !.pc = "frame", !.frame = Head(rxq)]
          /\ rxq' = Tail(rxq)
          /\ \/ UNCHANGED snd
             \/ /\ MayClose /\ (conn \/ web.pc = "listen")
                /\ snd' = [snd EXCEPT !.says = ~@]
  /\ UNCHANGED <<hw, pool, rx, tx, events, sentq, wire, sock, conn, web>>

(* The frame acknowledges the oldest packet TCP keeps. The time-out starts *)
(* anew for the packets left, or for the FIN; with none left it is         *)
(* switched off, but not if the window is closed.                          *)
Acked ==
  /\ ip.pc = "frame" /\ conn /\ sentq # <<>> /\ Head(sentq) \in wire
  /\ pool' = Dequeued(pool, Head(sentq))
  /\ wire' = wire \ {Head(sentq)}
  /\ sentq' = Tail(sentq)
  /\ LET again == Len(sentq) > 1 \/ web.pc = "closing"
     IN  snd' = [snd EXCEPT !.open = snd.says, !.armed = again \/ (@ /\ ~snd.says),
                            !.retries = IF again \/ snd.says THEN 0 ELSE @]
  /\ UNCHANGED <<hw, rx, tx, events, ip, rxq, sock, conn, web>>

(* A thread suspended in nx_tcp_socket_send goes on when the frame opens   *)
(* the window wider than what is outstanding, which is certain when        *)
(* nothing is.                                                             *)
Resumed ==
  IF web.pc = "queue" /\ snd.says /\ Len(sentq) < QueueMax
  THEN \/ web' = [web EXCEPT !.pc = "send"]
       \/ sentq # <<>> /\ UNCHANGED web
  ELSE UNCHANGED web

(* The window of the frame is the peer's window now. One that is no wider  *)
(* than what is outstanding may answer a probe.                            *)
Heard ==
  \E f \in {snd.failures, 0} :
    /\ f # snd.failures => ~snd.says \/ sentq # <<>>
    /\ snd' = [snd EXCEPT !.open = snd.says, !.failures = f]

(* The frame carries data for the socket.                                  *)
Deliver ==
  /\ ip.pc = "frame" /\ conn /\ Cardinality(sock) < MaxHeld
  /\ sock' = sock \cup {ip.frame}
  /\ ip' = [ip EXCEPT !.pc = "reply", !.frame = NoPacket]
  /\ Resumed /\ Heard
  /\ UNCHANGED <<hw, pool, rx, tx, events, rxq, sentq, wire, conn>>

(* Any other frame is given up; it may ask for an answer.                  *)
Discard ==
  /\ ip.pc = "frame"
  /\ pool' = Released(pool, ip.frame)
  /\ ip' = [ip EXCEPT !.pc = "reply", !.frame = NoPacket]
  /\ \/ /\ web.pc = "listen" /\ ~conn \* the handshake of a new connection
        /\ web' = [web EXCEPT !.pc = "open"]
        /\ conn' = TRUE
        /\ Heard
     \/ conn /\ Resumed /\ Heard /\ UNCHANGED conn
     \/ ~conn /\ snd' = Cleaned /\ UNCHANGED <<web, conn>>
  /\ UNCHANGED <<hw, rx, tx, events, rxq, sentq, wire, sock>>

(* A RST segment.                                                          *)
ResetByPeer ==
  /\ ip.pc = "frame" /\ conn
  /\ conn' = FALSE /\ snd' = Cleaned
  /\ Go("reset")
  /\ UNCHANGED <<hw, pool, rx, tx, events, rxq, sentq, wire, sock, web>>

(* An acknowledgement (a delayed one too), the FIN again, an echo reply    *)
(* ...: a packet is built without waiting and handed to the driver.        *)
Reply ==
  /\ ip.pc = "reply"
  /\ Go("loop")
  /\ \/ UNCHANGED <<pool, tx>>
     \/ \E p \in pool.free : PacketSend(Allocated(pool, p), p)
  /\ UNCHANGED <<hw, rx, events, rxq, tcp, web>>

Retried == IF snd.retries < MaxRetries THEN snd.retries + 1 ELSE snd.retries

(* nx_tcp_socket_retransmit, its beginning: with the window closed a probe *)
(* is sent instead of the packets, and unacknowledged data starts the      *)
(* count of failures anew each time.                                       *)
Retransmit(got) ==
  /\ ip' = [ip EXCEPT !.pc = "resend", !.got = got, !.pos = 1]
  /\ snd' = [snd EXCEPT
              !.armed = TRUE, !.retries = Retried, !.probe = ~snd.open,
              !.failures = IF snd.open THEN 0 ELSE IF sentq # <<>> THEN 1 ELSE @ + 1]

(* nx_tcp_fast_periodic_processing gives a connection up.                  *)
TimedOut ==
  snd.armed /\ (IF snd.probe THEN snd.failures ELSE snd.retries) >= MaxRetries

(* There is something to send again, or a window to probe and a byte for   *)
(* it.                                                                     *)
Overdue ==
  snd.armed /\ ~TimedOut /\ (sentq # <<>> \/ (~snd.open /\ snd.probe /\ web.pc # "closing"))

Timer ==
  /\ Serving("timer")
  /\ \/ /\ TimedOut
        /\ ip' = [ip EXCEPT !.pc = "reset", !.got = @ \ {"timer"}]
        /\ conn' = FALSE /\ snd' = Cleaned
     \/ Overdue /\ Retransmit(ip.got \ {"timer"}) /\ UNCHANGED conn
     \/ /\ ~TimedOut /\ ~Overdue
        /\ ip' = [ip EXCEPT !.pc = IF conn THEN "reply" ELSE "loop",
                            !.got = @ \ {"timer"}]
        /\ snd' = IF snd.armed /\ web.pc = "closing"
                  THEN [snd EXCEPT !.retries = Retried] ELSE snd
        /\ UNCHANGED conn
  /\ UNCHANGED <<hw, pool, rx, tx, events, rxq, sentq, wire, sock, web>>

(* The third duplicate acknowledgement: retransmission without the timer,  *)
(* and before the window of the frame is looked at.                        *)
FastRetransmit ==
  /\ ip.pc = "frame" /\ conn /\ sentq # <<>> /\ pool.done[Head(sentq)]
  /\ Retransmit(ip.got)
  /\ UNCHANGED <<hw, pool, rx, tx, events, rxq, sentq, wire, sock, conn, web>>

(* The packets of the queue the driver has given back are sent again, up   *)
(* to the first one it has not, or to the end of the congestion window.    *)
Resend ==
  /\ ip.pc = "resend" /\ snd.open /\ ip.pos <= Len(sentq) /\ pool.done[sentq[ip.pos]]
  /\ PacketSend([pool EXCEPT !.done[sentq[ip.pos]] = FALSE], sentq[ip.pos])
  /\ ip' = [ip EXCEPT !.pos = @ + 1]
  /\ UNCHANGED <<hw, rx, events, rxq, tcp, web>>

(* nx_tcp_packet_send_probe: one packet, if the pool has one.              *)
Probe ==
  /\ ip.pc = "resend" /\ ~snd.open /\ ip.pos = 1
  /\ \/ UNCHANGED <<pool, tx>>
     \/ \E p \in pool.free : PacketSend(Allocated(pool, p), p)
  /\ ip' = [ip EXCEPT !.pos = 2]
  /\ UNCHANGED <<hw, rx, events, rxq, tcp, web>>

(* The end of it, and of the frame that started it, if any.                *)
ReleasedFrame == IF ip.frame = NoPacket THEN pool ELSE Released(pool, ip.frame)

ResendEnd ==
  /\ ip.pc = "resend"
  /\ (snd.open /\ ip.pos <= Len(sentq) /\ pool.done[sentq[ip.pos]]) => ip.pos > 1
  /\ ~snd.open => ip.pos > 1
  /\ pool' = ReleasedFrame
  /\ ip' = [ip EXCEPT !.pc = "loop", !.frame = NoPacket, !.pos = 1]
  /\ IF ip.frame = NoPacket THEN UNCHANGED <<web, snd>> ELSE Resumed /\ Heard
  /\ UNCHANGED <<hw, rx, tx, events, rxq, sentq, wire, sock, conn>>

(* nx_tcp_socket_connection_reset: the queue is flushed packet by packet,  *)
(* then a suspended sender is resumed with an error.                       *)
ResetFlush ==
  /\ ip.pc = "reset" /\ sentq # <<>>
  /\ pool' = Dequeued(pool, Head(sentq))
  /\ sentq' = Tail(sentq)
  /\ wire' = wire \ {Head(sentq)}
  /\ UNCHANGED <<hw, rx, tx, events, ip, rxq, sock, conn, snd, web>>

ResetEnd ==
  /\ ip.pc = "reset" /\ sentq = <<>>
  /\ pool' = ReleasedFrame
  /\ ip' = [ip EXCEPT !.pc = "loop", !.frame = NoPacket]
  /\ web' = IF web.pc = "queue" THEN [web EXCEPT !.pc = "send"] ELSE web
  /\ UNCHANGED <<hw, rx, tx, events, rxq, tcp>>

(* _nx_driver_deferred_processing: the noted events are taken with the     *)
(* interrupts off.                                                         *)
PickUp ==
  /\ Serving("driver")
  /\ ip' = [ip EXCEPT !.pc = "deferred", !.work = deferred]
  /\ deferred' = {}
  /\ UNCHANGED <<eth, irq, pool, rx, tx, events, rxq, tcp, web>>

(* HAL_ETH_ReleaseTxPacket and HAL_ETH_TxFreeCallback, for one packet.     *)
Transmitted == tx.used > 0 /\ tx.pkt[tx.rel] # NoPacket /\ ~tx.own[tx.rel]

TxFree ==
  /\ ip.pc = "deferred" /\ "tx" \in ip.work /\ Transmitted
  /\ pool' = TransmitReleased(pool, tx.pkt[tx.rel])
  /\ tx' = [tx EXCEPT !.pkt[tx.rel] = NoPacket, !.rel = NextTx(@), !.used = @ - 1]
  /\ UNCHANGED <<hw, rx, events, ip, rxq, tcp, web>>

Deferred ==
  /\ ip.pc = "deferred" /\ ~("tx" \in ip.work /\ Transmitted)
  /\ ip' = [ip EXCEPT !.work = {}, !.pc = IF "rx" \in ip.work THEN "read" ELSE "loop",
                      !.got = IF "rx" \in ip.work THEN @ ELSE @ \ {"driver"}]
  /\ UNCHANGED <<hw, pool, rx, tx, events, rxq, tcp, web>>

(* HAL_ETH_ReadData: one received frame, if any, is taken off the ring and *)
(* the descriptors that have no buffer are built.                          *)
Filled == ~rx.own[rx.idx] /\ rx.bcnt < RxCount

Read ==
  /\ ip.pc = "read"
  /\ IF eth = "up" /\ Filled
     THEN /\ ip' = [ip EXCEPT !.pc = "build", !.frame = rx.buf[rx.idx]]
          /\ rx' = [rx EXCEPT !.buf[rx.idx] = NoPacket, !.idx = NextRx(@), !.bcnt = @ + 1]
     ELSE /\ UNCHANGED rx
          /\ IF eth = "up" /\ rx.bcnt # 0 THEN Go("build") ELSE Served("driver")
  /\ UNCHANGED <<hw, pool, tx, events, rxq, tcp, web>>

(* ETH_UpdateDescriptor and HAL_ETH_RxAllocateCallback, for one descriptor.*)
Build ==
  /\ ip.pc = "build" /\ rx.bcnt > 0
  /\ \E p \in pool.free :
       /\ pool' = Allocated(pool, p)
       /\ rx' = [rx EXCEPT !.buf[rx.bidx] = p, !.own[rx.bidx] = TRUE,
                           !.bidx = NextRx(@), !.bcnt = @ - 1]
  /\ UNCHANGED <<hw, tx, events, ip, rxq, tcp, web>>

Built == rx.bcnt = 0 \/ pool.free = {}

(* The frame goes to the IP thread's own queue, or back to the pool when   *)
(* its type is unknown, and the next one is read.                          *)
Queue ==
  /\ ip.pc = "build" /\ Built /\ ip.frame # NoPacket
  /\ ip' = [ip EXCEPT !.pc = "read", !.frame = NoPacket]
  /\ \/ /\ rxq' = Append(rxq, ip.frame)
        /\ events' = IF rxq = <<>> THEN events \cup {"receive"} ELSE events
        /\ UNCHANGED pool
     \/ /\ pool' = Released(pool, ip.frame)
        /\ UNCHANGED <<rxq, events>>
  /\ UNCHANGED <<hw, rx, tx, tcp, web>>

(* Without a frame the loop of reads ends; after the first build the DMA   *)
(* is started.                                                             *)
BuildEnd ==
  /\ ip.pc = "build" /\ Built /\ ip.frame = NoPacket
  /\ Served("driver")
  /\ eth' = IF eth = "down" THEN "up" ELSE eth
  /\ UNCHANGED <<irq, deferred, pool, rx, tx, events, rxq, tcp, web>>

-----------------------------------------------------------------------------
(* The web thread, while the IP thread waits.                              *)
WebGo(pc) == web' = [web EXCEPT !.pc = pc]

(* nx_tcp_socket_receive and nx_packet_release.                            *)
WebRead ==
  /\ Waiting /\ web.pc = "open"
  /\ \E p \in sock :
       /\ sock' = sock \ {p}
       /\ pool' = Released(pool, p)
  /\ UNCHANGED <<hw, rx, tx, events, ip, rxq, sentq, wire, conn, snd, web>>

(* nx_packet_allocate with NX_WAIT_FOREVER: a packet, or a place in the    *)
(* pool's suspension list.                                                 *)
AllocateWaiting(ready, suspended, field) ==
  IF pool.free # {}
  THEN \E p \in pool.free :
         /\ pool' = Allocated(pool, p)
         /\ web' = IF field = "hand" THEN [web EXCEPT !.pc = ready, !.hand = p]
                                     ELSE [web EXCEPT !.pc = ready, !.seg = p]
  ELSE /\ pool' = [pool EXCEPT !.waits = TRUE]
       /\ WebGo(suspended)

(* tcp_send_bytes takes a packet for the next chunk of the reply.          *)
WebChunk ==
  /\ Waiting /\ web.pc = "open"
  /\ AllocateWaiting("send", "pool", "hand")
  /\ UNCHANGED <<hw, rx, tx, events, ip, rxq, tcp>>

(* The suspended thread goes on with the packet it was given.              *)
WebGiven ==
  /\ Waiting /\ web.pc \in {"pool", "pool_seg"} /\ ~pool.waits
  /\ pool' = [pool EXCEPT !.given = NoPacket]
  /\ web' = IF web.pc = "pool" THEN [web EXCEPT !.pc = "send", !.hand = pool.given]
                               ELSE [web EXCEPT !.pc = "send_seg", !.seg = pool.given]
  /\ UNCHANGED <<hw, rx, tx, events, ip, rxq, tcp>>

(* nx_tcp_socket_send on a connection that is gone: tcp_send_bytes gives   *)
(* the packet up (a segment of it is given up by NetX first).              *)
WebSendFails ==
  /\ Waiting /\ ~conn
  /\ \/ /\ web.pc = "send"
        /\ pool' = Released(pool, web.hand)
        /\ web' = [web EXCEPT !.pc = "closing", !.hand = NoPacket]
     \/ /\ web.pc = "send_seg"
        /\ pool' = Released(pool, web.seg)
        /\ web' = [web EXCEPT !.pc = "send", !.seg = NoPacket]
  /\ UNCHANGED <<hw, rx, tx, events, ip, rxq, tcp>>

(* The window is closed, or full with what is outstanding, or the queue is *)
(* full: the thread is suspended. Its first byte is kept for a probe, but  *)
(* the time-out is not started.                                            *)
WebSuspend ==
  /\ Waiting /\ web.pc = "send" /\ conn /\ (snd.open => sentq # <<>>)
  /\ WebGo("queue")
  /\ snd' = [snd EXCEPT !.probe = TRUE, !.failures = IF snd.probe THEN @ ELSE 0]
  /\ UNCHANGED <<hw, pool, rx, tx, events, ip, rxq, sentq, wire, sock, conn>>

(* The packet does not fit the window or is not aligned: a segment of it   *)
(* is copied into a packet of its own.                                     *)
WebSplit ==
  /\ Waiting /\ web.pc = "send" /\ conn /\ snd.open /\ Len(sentq) < QueueMax
  /\ AllocateWaiting("send_seg", "pool_seg", "seg")
  /\ UNCHANGED <<hw, rx, tx, events, ip, rxq, tcp>>

(* Packet p goes to the tail of the socket's queue and to the driver.      *)
Enqueue(p) ==
  /\ sentq' = Append(sentq, p)
  /\ snd' = [snd EXCEPT !.probe = FALSE, !.failures = 0, !.armed = @ \/ sentq = <<>>,
                        !.retries = IF sentq = <<>> THEN 0 ELSE @]
  /\ PacketSend([pool EXCEPT !.tag[p] = "enqueued"], p)
  /\ UNCHANGED <<hw, rx, events, ip, rxq, wire, sock, conn>>

WebSend ==
  /\ Waiting /\ web.pc = "send" /\ conn /\ snd.open /\ Len(sentq) < QueueMax
  /\ Enqueue(web.hand)
  /\ web' = [web EXCEPT !.pc = "open", !.hand = NoPacket]

(* After the segment, the rest of the packet is sent or, if there is none, *)
(* the packet is given up.                                                 *)
WebSendSeg ==
  /\ Waiting /\ web.pc = "send_seg" /\ conn
  /\ Enqueue(web.seg)
  /\ \E pc \in {"send", "trim"} : web' = [web EXCEPT !.pc = pc, !.seg = NoPacket]

WebTrim ==
  /\ Waiting /\ web.pc = "trim"
  /\ pool' = Released(pool, web.hand)
  /\ web' = [web EXCEPT !.pc = "open", !.hand = NoPacket]
  /\ UNCHANGED <<hw, rx, tx, events, ip, rxq, tcp>>

(* nx_tcp_socket_disconnect: a FIN is sent if the connection is still      *)
(* there and the pool has a packet; the time-out is the FIN's if nothing   *)
(* else is outstanding. The thread then waits, while the peer acknowledges.*)
WebClose ==
  /\ Waiting /\ web.pc = "open"
  /\ WebGo("closing")
  /\ IF conn /\ sentq = <<>> THEN snd' = [snd EXCEPT !.armed = TRUE, !.retries = 0]
                             ELSE UNCHANGED snd
  /\ \/ UNCHANGED <<pool, tx>>
     \/ conn /\ \E p \in pool.free : PacketSend(Allocated(pool, p), p)
  /\ UNCHANGED <<hw, rx, events, ip, rxq, sentq, wire, sock, conn>>

(* The wait is over, by the peer's FIN or by the timeout; what is left in  *)
(* the queues is released (disconnect, then unaccept), and the socket      *)
(* listens again.                                                          *)
WebClosed ==
  /\ Waiting /\ web.pc = "closing"
  /\ conn' = FALSE /\ snd' = Cleaned
  /\ WebGo("flush")
  /\ UNCHANGED <<hw, pool, rx, tx, events, ip, rxq, sentq, wire, sock>>

WebFlush ==
  /\ web.pc = "flush"
  /\ IF sentq # <<>>
     THEN /\ pool' = Dequeued(pool, Head(sentq))
          /\ sentq' = Tail(sentq)
          /\ wire' = wire \ {Head(sentq)}
          /\ UNCHANGED <<sock, web>>
     ELSE IF sock # {}
     THEN /\ \E p \in sock : sock' = sock \ {p} /\ pool' = Released(pool, p)
          /\ UNCHANGED <<sentq, wire, web>>
     ELSE WebGo("listen") /\ UNCHANGED <<pool, sentq, wire, sock>>
  /\ UNCHANGED <<hw, rx, tx, events, ip, rxq, conn, snd>>

-----------------------------------------------------------------------------
Dma == DmaReceive \/ DmaSend \/ DmaFatal

IpThread ==
  \/ Enable \/ Wake \/ TakeFrame \/ Acked \/ Deliver \/ Discard \/ ResetByPeer
  \/ Reply \/ Timer \/ FastRetransmit \/ Resend \/ Probe \/ ResendEnd
  \/ ResetFlush \/ ResetEnd \/ PickUp \/ TxFree \/ Deferred \/ Read \/ Build \/ Queue \/ BuildEnd

WebThread ==
  \/ WebRead \/ WebChunk \/ WebGiven \/ WebSendFails \/ WebSuspend \/ WebSplit
  \/ WebSend \/ WebSendSeg \/ WebTrim \/ WebClose \/ WebClosed \/ WebFlush

Next == Dma \/ EthIrq \/ IpThread \/ WebThread

Spec == Init /\ [][Next]_vars

(* The interrupt and the IP thread are never kept from running; the timer  *)
(* ticks and the MAC transmits. The web thread runs when the IP thread     *)
(* waits. The driver reads frames until there are none, so the traffic has *)
(* to let it finish: the IP thread waits again and again. Nothing else is  *)
(* assumed of the peer: it answers or not, closes its window or not.       *)
Fairness ==
  /\ WF_vars(EthIrq) /\ WF_vars(DmaSend)
  /\ SF_vars(Wake /\ "timer" \in ip'.got)
  /\ WF_vars(IpThread)
  /\ SF_vars(WebThread)
  /\ []<>Waiting

FairSpec == Spec /\ Fairness

-----------------------------------------------------------------------------
(* Where the packets are.                                                  *)
Queued == {sentq[i] : i \in DOMAIN sentq}
InRing == {tx.pkt[i] : i \in TxSlot} \ {NoPacket}

Uses ==
  [rx     |-> {rx.buf[i] : i \in RxSlot} \ {NoPacket},
   stack  |-> ({ip.frame} \cup {rxq[i] : i \in DOMAIN rxq}) \ {NoPacket},
   app    |-> sock \cup ({web.hand, web.seg, pool.given} \ {NoPacket}),
   tcp    |-> Queued,
   driver |-> InRing]

(* The packet pool NetX and the driver share keeps the promise of          *)
(* PacketPool: every step of the driver, of NetX and of the web thread     *)
(* hands a packet from one user to the next, and a packet returns to the   *)
(* pool exactly when its last user, be it TCP or the driver, gives it up.  *)
Abstract   == INSTANCE PacketPool WITH free <- pool.free, uses <- Uses
Implements == Abstract!Spec

PacketOrNull == Packet \cup {NoPacket}

(* The types, and the bounds of the queues and counters.                   *)
TypeOK ==
  /\ eth \in {"down", "up", "error"}
  /\ pool \in [free : SUBSET Packet, tag : [Packet -> {"free", "allocated", "enqueued"}],
               done : [Packet -> BOOLEAN], waits : BOOLEAN, given : PacketOrNull]
  /\ rx \in [buf : [RxSlot -> PacketOrNull], own : [RxSlot -> BOOLEAN],
             idx : RxSlot, bidx : RxSlot, bcnt : 0..RxCount, dma : RxSlot]
  /\ tx \in [pkt : [TxSlot -> PacketOrNull], own : [TxSlot -> BOOLEAN],
             cur : TxSlot, rel : TxSlot, used : 0..TxCount, dma : TxSlot]
  /\ irq \subseteq Flag /\ deferred \subseteq {"rx", "tx"}
  /\ events \subseteq {"receive", "driver"}
  /\ ip \in [pc : IpPC, got : SUBSET {"receive", "timer", "driver"},
             work : SUBSET {"rx", "tx"}, frame : PacketOrNull, pos : 1..(QueueMax + 1)]
  /\ rxq \in Seq(Packet) /\ sentq \in Seq(Packet) /\ Len(sentq) <= QueueMax
  /\ wire \subseteq Packet /\ sock \subseteq Packet
  /\ conn \in BOOLEAN
  /\ snd \in [open : BOOLEAN, says : BOOLEAN, probe : BOOLEAN,
              failures : 0..MaxRetries, armed : BOOLEAN, retries : 0..MaxRetries]
  /\ web \in [pc : WebPC, hand : PacketOrNull, seg : PacketOrNull]

(* No packet is in two places at once: two descriptors, a queue and a      *)
(* thread's hand, twice in one queue. Only the retransmission queue and    *)
(* the transmit ring may both hold it.                                     *)
Twice(s) == \E i, j \in DOMAIN s : i # j /\ s[i] = s[j] /\ s[i] # NoPacket

OnePlace ==
  /\ ~Twice(rx.buf) /\ ~Twice(tx.pkt) /\ ~Twice(rxq) /\ ~Twice(sentq)
  /\ ip.frame # NoPacket => ip.frame \notin {rxq[i] : i \in DOMAIN rxq}
  /\ \A p \in sock : p \notin {web.hand, web.seg, pool.given}
  /\ web.hand # NoPacket => web.hand \notin {web.seg, pool.given}
  /\ web.seg # NoPacket => pool.given = NoPacket

(* The marks nx_packet_release and nx_packet_transmit_release go by tell   *)
(* the truth: "enqueued" exactly while TCP keeps the packet, "free" exactly*)
(* in the pool, and TX_DONE on a packet TCP keeps exactly when the driver  *)
(* does not hold it, so that neither frees it under the other.             *)
MarksTrue ==
  \A p \in Packet :
    /\ pool.tag[p] = "free" <=> p \in pool.free
    /\ pool.tag[p] = "enqueued" <=> p \in Queued
    /\ p \in Queued => (pool.done[p] <=> p \notin InRing)

(* The rings stay in step with the DMA: the descriptors without a buffer   *)
(* are those from the build index to the read index, the DMA owns those    *)
(* from its own position on, and no descriptor it owns lacks a buffer or   *)
(* has one the driver counts as released.                                  *)
After(i, k, n) == (i + k) % n

RingsSound ==
  /\ eth # "down" =>
       /\ rx.idx = After(rx.bidx, rx.bcnt, RxCount)
       /\ \A k \in RxSlot :
            LET i == After(rx.bidx, k, RxCount)
            IN  IF k < rx.bcnt THEN rx.buf[i] = NoPacket /\ ~rx.own[i]
                               ELSE rx.buf[i] # NoPacket
       /\ \A k \in RxSlot : rx.own[After(rx.dma, k, RxCount)] <=>
                              k < Cardinality({i \in RxSlot : rx.own[i]})
  /\ tx.cur = After(tx.rel, tx.used, TxCount)
  /\ \A k \in TxSlot :
       /\ (tx.pkt[After(tx.rel, k, TxCount)] # NoPacket) <=> k < tx.used
       /\ tx.own[After(tx.dma, k, TxCount)] <=>
            k < Cardinality({i \in TxSlot : tx.own[i]})
  /\ \A i \in TxSlot : tx.own[i] => tx.pkt[i] # NoPacket

(* Packets, rings and queues are consistent.                               *)
Inv == TypeOK /\ OnePlace /\ RingsSound

(* An event the interrupt noted for the driver is never left behind: while *)
(* one is noted the IP thread has been told, or has yet to take its notes, *)
(* although the interrupt tells it only when nothing was noted before.     *)
NoLostEvent == deferred # {} => "driver" \in events \cup ip.got

(* What stm32h7xx_hal_eth.c says of ETH_UpdateDescriptor: the descriptors  *)
(* of the received packet are given back to the DMA "to receive next       *)
(* Packets". So while the link is up the DMA has a descriptor to receive   *)
(* into, or a read that builds some is on its way.                         *)
GivesBackDescriptors ==
  eth = "up" => \/ \E i \in RxSlot : rx.own[i]
                \/ "rx" \in irq \cup deferred \cup ip.work
                \/ ip.pc \in {"read", "build"}

(* What the DMA has done with is sooner or later taken off the rings, sent *)
(* packets and received frames alike, although an event that is noted      *)
(* while the driver works does not wake it by itself.                      *)
RingsDrain ==
  /\ \A i \in TxSlot :
       (tx.pkt[i] # NoPacket /\ ~tx.own[i]) ~> (tx.pkt[i] = NoPacket \/ tx.own[i])
  /\ \A i \in RxSlot :
       (eth = "up" /\ rx.buf[i] # NoPacket /\ ~rx.own[i])
         ~> (eth = "error" \/ rx.buf[i] = NoPacket \/ rx.own[i])

(* A reply that waits, for a packet of the pool or for its place in the    *)
(* window, does not wait for ever while the peer keeps its window open,    *)
(* even if the peer is gone: the retransmissions end in a reset that frees *)
(* the queue. A peer that closes its window holds the reply as long as it  *)
(* likes: probes are sent, if at all, and their failures do not add up     *)
(* while data is outstanding. Nor does the pool help when frames not yet   *)
(* read have taken all packets but the receive ring's and the reply's own. *)
Closed  == conn /\ ~snd.open
Starved == RxCount + Cardinality(sock) + Cardinality({web.hand} \ {NoPacket})
             >= Cardinality(Packet)

SenderGoesOn ==
  /\ (web.pc \in {"pool", "pool_seg"})
       ~> (web.pc \notin {"pool", "pool_seg"} \/ Closed \/ Starved)
  /\ (web.pc = "queue") ~> (web.pc # "queue" \/ Closed)
=============================================================================
