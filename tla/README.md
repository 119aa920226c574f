# STM32H753-ThreadX: verification project

TLA+ models, TLC runs and TLAPS proofs for the firmware of the NUCLEO-H753ZI
power console: two battery-charger chips (SHP8808 and BQ25756) on one I2C bus,
sampled by one ThreadX thread and commanded over HTTP by another, on ThreadX
and NetX Duo. Paths are relative to the repository root.

## 1. Inventory

| Component | State it keeps | Operations | Interacts with |
|---|---|---|---|
| power module, `src/modules/power/power.c` | two snapshots (configuration, status, ADC, latches, log, `present`), `power_ready`, `power_lock` | search for the chips, 5 Hz sampling, `power_*_copy_snapshot`, `power_*_command` | drivers (calls), web thread (shared snapshots under `power_lock`), console |
| charger drivers, `src/modules/power/shp8808/`, `bq25756/` | none of their own; the chips' registers | setters (`update8`), configuration groups, status, flags, ADC | I2C functions of the board |
| I2C bus, `platform/board/board.c` | the HAL handle (busy or ready) | open, write, write_read: polling, with a time limit | both threads, without a lock of its own |
| HTTP server, `src/modules/web/web.c` | one listening socket, one request buffer, one JSON buffer | accept, receive, route, reply, disconnect, relisten | power module, NetX Duo |
| NetX TCP, server side, `middleware/netxduo/common/src/nx_tcp_*.c` | socket state, listen request and its queue, receive and transmit queues | accept, receive, send, disconnect, unaccept, relisten; frames and timeouts | web thread (suspended in calls), IP thread |
| Ethernet driver, `platform/netxduo/ethernet/` and the ETH HAL | descriptor rings, deferred events, interface state | enable, send, deferred processing, interrupt callbacks | NetX IP thread, ETH interrupt, DMA |
| packet pool, `nx_packet_*.c` | the free list, marks in each packet, a suspended thread | allocate, release, transmit release | driver, TCP, web thread |
| heap, `src/modules/runtime/heap.c`, and ThreadX byte pool | the chain of blocks, counters, `heap_lock`, a header per block | alloc, free, realloc | the C library's malloc wrappers |
| ThreadX mutex, `tx_mutex_*.c` | owner, count, suspension list, priorities | get, put, time-out of a wait | every thread |
| console, led, board, PHY, DHCP, boot, web pages | see section 6 | | |

Threads, most urgent first: NetX IP (2), web (8), power (11), led (12); the
tick is 1 ms.

What is hard here:

* The web thread preempts the power thread anywhere, also in the middle of a
  bus transfer; the HAL then answers `HAL_BUSY` at once.
* `power_lock` covers the snapshots and every chip that is present. The search
  initialises chips *without* it, and goes on to the BQ25756 when the SHP8808
  has already been published and accepts commands.
* Every driver call is a sequence of transfers, each of which can fail; a
  failed write may nevertheless have reached the chip.
* `update8` is a read and a write of a register shared by several settings,
  the watchdog kick included.
* Configuration commands write a whole group from the snapshot, which is only
  as good as the last refresh, and only if decoding and encoding agree.
* Flags that are cleared by reading can be lost between the read and the latch.
* The Ethernet interrupt wakes the IP thread only for the first event it
  notes; TCP and the driver share a packet and either may finish with it first;
  the pool may be empty when descriptors are rebuilt.
* The web thread waits in NetX calls while frames, resets and time-outs change
  the socket under it; queued connections belong to peers that may be gone.
* The heap's search enables interrupts between two blocks, joins blocks while
  it counts them, and gives up early by counters.
* Priorities inherited through nested mutexes have to be given back when the
  mutexes are put in some order and waits time out.

`PROJECT.json` lists each such hazard at its line, with the property about it.

| What makes the component correct | Where |
|---|---|
| the lock is held where, and only where, the code means to hold it; one chip is driven by one thread at a time | `Power!Inv`, `DeviceExclusive` |
| no `update8` undoes another thread's write; only commands change a published chip | `RmwFresh`, `OnlyCommandsWrite` |
| charging is off until commanded | `PublishedOff`, `ChargeDefaultOff` (violated) |
| an acknowledged command stays in force | `AckedHolds` |
| commands start from, and leave, a true snapshot | `SnapshotFresh`, `FootprintOnly`, `FailedNoEffect`, `ReplyConsistent` |
| callers get the service they are promised; the search ends, requests are answered, sampling recurs | `Implements` (of `PowerService`), `SearchEnds`, `RequestAnswered`, `SamplingRecurs` |
| no fault that was read is lost; the log is the recent history | `FaultLog!NothingLost`, `LogSound`, `LastingFaultLatched` |
| a setting nobody named keeps its code, and a number comes back as the nearest code | `Codec!UnnamedKept`, `Settled`, `Nearest` |
| packets are neither lost nor freed early; rings stay in step; no wake-up is lost | `EthDriver!Inv`, `MarksTrue`, `NoLostEvent`, `Implements` (of `PacketPool`), `SenderGoesOn`, `RingsDrain` |
| one connection never sees another's bytes; a cut reply is noticed; the server always comes back | `HttpServer!Inv`, `OwnRequest`, `OrderlyIsWhole`, `NothingLost`, `ServerReturns`, `QueueMoves` |
| no memory is handed out twice, a refusal is justified, every call returns | `Heap!Inv`, `Owned`, `RefusedForGood`, `CallsReturn` |
| the owner of a mutex is as urgent as its waiters, and no longer than that | `Mutex!Inv`, `NotOutranked`, `HandedToMostUrgent`, `SomeoneGoesOn` |

## 2. Modules

| Module | Models | Extended or instantiated by |
|---|---|---|
| `ChargerOps` | what the drivers do on the bus | `Power` |
| `Power` | power module, bus, the web thread as far as it calls them | `MCPower`, `PowerProofs` |
| `PowerService` | abstract: what the power module promises its callers | instantiated by `Power` |
| `FaultLog` | latches and log of one charger | `MCFaultLog`, `FaultLogProofs` |
| `Codec` | register codes and numbers of both chargers | `MCCodec`, `CodecProofs` |
| `EthDriver` | rings, interrupt, IP thread, TCP's queues, replies | `MCEthDriver`, `EthProofs` |
| `PacketPool` | abstract: what a shared pool of packets promises | instantiated by `EthDriver` |
| `HttpServer` | server thread, server socket, listen queue, peers | `MCHttpServer`, `HttpProofs` |
| `Heap` | heap and byte pool | `MCHeap`, `HeapProofs` |
| `Mutex` | ThreadX mutexes with priority inheritance | `MCMutex`, `MutexProofs` |

`MC*` modules give constants their values; `*Proofs` and `PowerEffects` hold the
theorems. The variables of every module are explained
at its top, and `map` in `PROJECT.json` gives the source lines of every
definition. Definitions named as mutants ("Mutant: ...") are plausible bugs;
each run's properties are shown to be sensitive to one of them.

### `ChargerOps`

A driver call is a program, a sequence of register accesses in source order; a
register is the set of its bits that are 1. Multi-bit fields (a current, a
timer, a threshold) are one bit, "which of two settings"; neighbouring limit
registers that are always written and read together are one register. Which
bits share a register, which access is a whole write and which an `update8`,
the masks and the order are those of the source. The commands `vbat_lowv`,
`vrechg` and `vfloat` of the SHP8808 are the one command `thresholds` (one
register, one form), `safety` and `precharge_tmr`/`topoff` the command
`timers`.

### `Power`

| Variable | Code |
|---|---|
| `reg[c]` | the registers of chip `c` |
| `snap[c]`, `present[c]` | `snap`, `shp_snap`: configuration fields; `.present` |
| `ready` | `power_ready` |
| `owner`, `waiting` | `power_lock` |
| `bus` | the HAL handle: the thread whose transfer is on the wire |
| `pc`, `run` | where each thread is; the driver program it executes and the value an `update8` has read |
| `req`, `view` | the HTTP request being served; what a GET copied |
| `faults` | failed transfers so far (bounded by `MaxFaults`) |
| `last`, `req.before` | history: the last acknowledged command per chip; the chip before the command |

| Action | Code |
|---|---|
| `TakeLock`, `PutLock`, `LockTimeout` | `tx_mutex_get`, `tx_mutex_put`, the wait limits 200 and 500 |
| `BeginTransfer`, `Transfer`, `FailTransfer` | begin of a transfer (or `HAL_BUSY`), its end, its failure |
| `SkipKick` | the kick when the snapshot says the watchdog is off |
| `OpenBus`, `InitDone`, `Publish`, `PublishDone`, `NapOver` | the search of `power_thread_entry` |
| `SampleStart`, `SampleNext`, `SleepOver` | its sampling loop |
| `Request`, `Reply` | `http_route`, as far as it calls the power module |
| `CopySnapshot`, `CopyReturn` | `power_*_copy_snapshot`; the flag is read after the mutex is put |
| `CommandAbsent`, `CommandStart`, `CommandDone`, `CommandRefreshed` | `power_*_command` |

Scheduling is part of the model (`CanRun`): a thread moves only if no more
urgent thread can. Since `power_lock` inherits priorities, a power thread that
owns it stays as urgent as web, even after web's wait has timed out, until the
mutex is put (`Inherits`, `Urgency`; the mechanism itself is `Mutex`).
`ReplyConsistent` holds because of the priorities. The preemption of a transfer
is the possibility of `Request` between its two steps. A transfer that times
out because it was preempted for too long is a `FailTransfer`. Console output
is left out: printing only delays a thread at a point where no transfer can be
on the wire.

`Power!Implements` maps the module to `PowerService`: a chip's settings are
visible from the moment it is present, a command is "working" while its program
runs, and what it promises is `Holds`. `PowerService` forbids a chip to appear
feeding the battery, anything but the command being served to change a visible
chip, and success without effect.

### `FaultLog`

Latches and log of one chip, at the grain of bus transactions, with the chip
raising and dropping faults in between. The variable `charger`, chosen at the
start, is the BQ25756 (flag registers read-cleared in one transaction, fault
status latched after the ADC read) or the SHP8808 (status read, then sticky
bits cleared by `update8`; the later status read is not latched). `power_lock`
makes refreshes and `clear_latch` exclusive; that is proved in `Power`, so one
actor suffices. `history` and `seen` are history variables.

### `Codec`

`Decode` and `Encode` are the conversions of the drivers for the sixteen
currents and voltages of the configuration groups, with the drivers' shunts,
offsets, roundings, masks and limits; a command (`Configure`) decodes the
snapshot, replaces the named fields, encodes and writes the group, and
refreshes. Both chargers are in one behaviour, their fields named apart. A
request's number is what `json_u32` makes of its digits (it wraps modulo 2^32
before), and is narrowed to the 16 bits of the C parameter where the code
narrows it (so 65536 + x is accepted as x).

### `EthDriver`

| Variable | Code |
|---|---|
| `rx`, `tx` | `heth.RxDescList`, `TxDescList`: buffers, own bits, the indices of driver and HAL, and the position of the DMA |
| `irq`, `deferred`, `events` | DMA status flags; `nx_driver_information_deferred_events`; `nx_ip_events` |
| `pool` | `nx_pool`, the marks in each packet's queue links (`tag`, `done`), a suspended allocator |
| `ip`, `web` | where the IP thread and the web thread are |
| `rxq`, `sentq`, `sock`, `conn` | the IP's deferred queue; the socket's transmit and receive queues; whether it is connected |
| `snd` | the window the peer advertised last and the one in the frame at hand; whether a byte for a probe is kept and the probes not answered; whether the time-out runs and how often it has expired |
| `wire` | history: packets of `sentq` the peer has been sent at least once |

| Action | Code |
|---|---|
| `DmaReceive`, `DmaSend`, `DmaFatal` | the MAC's DMA |
| `EthIrq` | `HAL_ETH_IRQHandler` with the driver's callbacks |
| `Enable` | `_nx_driver_enable`, `HAL_ETH_Start_IT` |
| `Wake`, `TakeFrame`, `Timer`, `PickUp` | `nx_ip_thread_entry` and the events it serves; the flag of the periodic timer may be among those `Wake` finds (`Ticks`) |
| `Acked`, `Deliver`, `Discard`, `ResetByPeer`, `Reply`, `FastRetransmit`, `Resend`, `Probe`, `ResendEnd`, `ResetFlush`, `ResetEnd` | `_nx_tcp_*` on a frame or a time-out, as far as packets change hands |
| `TxFree`, `Deferred`, `Read`, `Build`, `Queue`, `BuildEnd` | `_nx_driver_deferred_processing`, `HAL_ETH_ReleaseTxPacket`, `HAL_ETH_ReadData`, `ETH_UpdateDescriptor` |
| `Web*` | `tcp_send_bytes` and the socket calls under it: allocate, append, send, suspend, close, flush |

Every frame fits one descriptor (buffers are larger than the MTU); ARP is
resolved; the handshake and the listen queue are merged into one step (they are
`HttpServer`'s subject). Sizes are not modelled: the window is closed, wide
enough for one more packet, or too narrow for what is outstanding, which is a
choice at the steps that compare it. A peer may close and open it in any frame
(if `MayClose`); a thread that sends then waits, the retransmission sends probes
instead of packets, and answered probes start the count of failures anew.
`MaxBacklog` bounds what the environment sends ahead of the driver, `MaxHeld`
what it sends ahead of the web thread's reads; `snd.retries` and `snd.failures`
saturate where they end the connection; a fatal bus error is never recovered, as
in the code.
`PacketPool` is the abstract specification: a packet has one user, except that
TCP and the driver share one, and it returns to the pool exactly when its last
user gives it up.

### `HttpServer`

One thread, one socket, peers that open, send, acknowledge, close, abort and
vanish at any moment. A request is a number of pieces, a reply a number of
packets. NetX calls run under the IP mutex up to their suspension, so each is
one step; between the wake-up of the thread and its next step any number of
frames and time-outs may pass.

| Variable | Code |
|---|---|
| `sock` | `http_socket`: state, bound, peer address, receive queue, unacknowledged packets, window |
| `listen` | the listen request: whether it holds the socket, and its queue |
| `web` | where `http_serve_one` is, the result of the call it waits in, the pieces received and whose they are, failed receives, packets left |
| `peer` | the peers: what the connection is to them, pieces sent, packets received |
| `lost` | packets nobody will release any more |
| `reliable` | chosen at the start: peers finish the handshakes they begin |

| Action | Code |
|---|---|
| `Start`, `Accept*`, `Receive*`, `Route`, `Send*`, `Disconnect*`, `Unaccept`, `Relisten` | `web_thread_entry`, `http_serve_one`, `tcp_send_bytes` and the `nx_tcp_*` calls they make |
| `Syn`, `Established`, `Data`, `Ack`, `WindowOpens`, `Fin`, `AckFin`, `Abort` | `_nx_tcp_packet_process` and the state handlers |
| `Timeout`, `SynAgain`, `RetriesOver`, `TimedWaitOver` | the suspension time-outs and `_nx_tcp_fast_periodic_processing` |
| `Open`, `Vanish`, `Forgotten` | peers only |

The loss of the server's SYN and its retransmissions are nondeterministic; a
peer never takes back window except by closing it with nothing outstanding.

### `Heap`, `Mutex`

`Heap` follows `_tx_byte_pool_search` block by block; every other call is one
step under `heap_lock`. Addresses are words. Clients are correct (they free
what they own, once), so the magic word and the check of a foreign pointer are
abstracted; the re-check of the pool's owner in `_tx_byte_allocate` cannot fire
because `heap_lock` admits one thread; nobody suspends on the pool.

`Mutex`: `GetFree`, `GetAgain`, `GetWait`, `PutAgain`, `PutFree`, `PutHand` and
`Timeout` are the branches of `_tx_mutex_get`, `_tx_mutex_put` and
`_tx_mutex_cleanup`; each runs without preemption to its end and is one step.
Two traits of the code are kept: inheritance does not follow a chain of owners,
and the boost of a waiter that timed out stays until the owner puts the mutex.
`Rank` states that the firmware nests mutexes in one order; no line of the source
defines that order, its users keep it (`power.c`, `console.c`, NetX). Threads
sleep or wait for the network only without a mutex. The one exception is left
out: at start-up the IP thread sleeps 50 ticks in the driver (`board_eth.c:47`)
while it owns `nx_ip_protection`. That sleep ends by itself.

## 3. Runs

| Run | Distinct states | Asks |
|---|---|---|
| `power_faults` | 1,032,866 | both chips, converter, reset, watchdog and configuration commands, one failed transfer anywhere: `Inv`, `DeviceExclusive`, `RmwFresh`, `PublishedOff`, `AckedHolds`, `OnlyCommandsWrite`, `SnapshotFresh`, `ReplyConsistent`, `FailedNoEffect`, `FootprintOnly` |
| `power_live` | 120,787 | both chips, two failed transfers: `Implements` (of `PowerService`), `SearchEnds`, `RequestAnswered`, `SamplingRecurs` |
| `power_default_off` | violation | `ChargeDefaultOff` |
| `faultlog` | 167,136 | either charger, more faults than log entries, two failed transactions: `LogSound`, `NothingLost`, `LastingFaultLatched` |
| `eth_safe` | 1,491,156 | `Inv`, `NoLostEvent`, `MarksTrue`, `Implements` (of `PacketPool`) |
| `eth_live` | 313,510 | `SenderGoesOn`, `RingsDrain` |
| `eth_stall` | violation | `GivesBackDescriptors` |
| `http` | 305,364 | `Inv`, `OwnRequest`, `OrderlyIsWhole`, `NothingLost`, `ServerReturns`, `QueueMoves` |
| `http_retry` | violation | `TriedAgain` |
| `heap` | 288,045 | `Inv`, `Owned`, `RefusedForGood`, `CallsReturn` |
| `mutex_inherit` | 611,686 | `Inv`, `NotOutranked`, `SomeoneGoesOn`, `HandedToMostUrgent` |
| `codec` | 704,509 | `Settled`, `Nearest`, `UnnamedKept` |

### Bounds

* `power_faults`: `MaxFaults` 1. One failed transfer is enough to leave any
  program half done, and the bus-busy failures come on top without limit. The
  menu is a few commands chosen so that they meet: converter commands, reset, a
  configuration command that starts from the snapshot, and one that shares its
  register with the watchdog kick. `Boot` and `Por`, what the chips hold at
  start-up and after a reset, are the unfavourable values (SHP8808 in reverse
  mode, converters on). The theorems hold for every menu, boot content and
  number of failures.
* `power_default_off`: neither chip charges at start-up (`OffBoot`), so that the
  violation is what the search itself does.
* `power_live`: `MaxFaults` 2, so that both chips' initialisations can fail
  once; one command for the SHP8808, and snapshots of both chips.
* `faultlog`: four log entries for 16, five faults for the BQ25756 (more than
  the log holds, two of them in one register) and four for the SHP8808;
  `MaxErrors` 2, a failure before and after a success.
* `eth_safe`: three packets for two receive descriptors and one transmit
  descriptor, a transmit queue of two, one retransmission before the reset, one
  frame ahead of the driver, and a fatal error at any moment; unread packets are
  left to `eth_live` (`MaxHeld` is 0 here, 1 there) and to the theorems, which
  prove all four properties for every bound; so the pool runs empty, the rings wrap and TCP and the driver finish
  with a packet in either order; the peer closes and opens its window. Packets
  are symmetric. `eth_live`: one descriptor each way, one packet in the transmit
  queue, one unread packet, and no fatal error, because the code never recovers
  from one. The peer may vanish or reset but keeps its window open: `Closed` is
  the exception of `SenderGoesOn`, and without closed windows the run stays
  small. `eth_stall`: four packets, so that the queues can hold all of them.
  `MaxRetries` is 1 for the code's 10 in all three. With 1, the first time-out
  with outstanding data and a closed window is also the last; with 10 it is not,
  because `nx_tcp_socket_retransmit` restarts the count of failures for
  outstanding data at every probe, and such a connection never times out. The
  theorems hold for every `MaxRetries`.
* `http`: two peers; a header of one piece, a request of two, a buffer of two,
  two failing receives (8 in the code), a reply of two packets with one
  outstanding at a time, a listen queue of one, so that it overflows.
* `heap`: 24 words, headers of two words each, blocks of one and five words,
  two threads: enough for a fragmented pool, for joins, for splits refused by
  `SplitMin`, and for refusals. Each search is interleaved with the other
  thread's calls.
* `mutex_inherit`: the firmware's four threads with their priorities, two
  inheriting mutexes and the IP's, which does not inherit; `MaxCount` 2.
* `codec`: codes at, below and above the limits of each field, numbers at,
  between and outside them, two commands in a row (`MaxCommands`); shunts of
  5 and 7 milliohms for the BQ25756, which do not divide evenly, and the
  board's 2 and 5 for the SHP8808. Deadlock checking is off in this run alone: after
  `MaxCommands` commands the behaviour is over.

### Fairness

* `Power`: weak for the web thread, the more urgent one, which never sleeps
  while it serves a request; strong for the power thread, which runs whenever
  web waits for the network, again and again but not without interruption.
  Nothing forces a client to ask or a lock wait to time out.
* `FaultLog`: the steps of the refresh, because sampling recurs.
* `EthDriver`: weak for interrupt, transmitting DMA and IP thread; strong for
  the wake-up by the periodic timer, whose flag stays set until it is served, and
  for the web thread, both of which come when the IP thread waits; and
  `[]<>Waiting`, traffic lets the IP thread finish reading (the driver reads
  until there is nothing left). Nothing else is assumed of the peer. Two
  exceptions are part of `SenderGoesOn`, because the code does wait for ever
  there. `Closed`: a peer that keeps its window closed holds a reply as long as
  it likes (answered probes never end the connection, nor do unanswered ones
  while data is outstanding; with nothing outstanding the time-out may be off,
  and no probe is sent at all). `Starved`: frames that were received but not read
  can hold all packets but those of the receive ring and the reply, while the
  thread that would read them waits for a packet (`web.c:52`). The board's pool
  has 24 packets (`web.c:19`), and its receive window of 2048 bytes admits as many
  segments of one byte.
* `HttpServer`: weak for the web thread, suspension time-outs and the end of
  retransmissions; when `reliable`, also for a peer's SYN and the end of its
  handshake. `ServerReturns` and `QueueMoves` have the premise that the window
  is open at last, because `nx_tcp_socket_send` waits without a limit.
* `Heap`: strong for each thread. `heap_lock` is handed to the most urgent
  waiter; between two threads that is the other one.

### Findings

* `power_default_off`. `CHANGELOG.md:9` promises for the SHP8808 that charging
  is off by default. `shp8808_configure_software_host` leaves HIZ first, which
  turns the converter on, and turns charging off with its last write. When the
  first of these writes takes effect but is reported as failed, or a transfer in
  between fails, the initialisation fails with the converter on. If
  the BQ25756 answers next, the search ends: the SHP8808 is never initialised
  again, and every command to it is refused because it is not `present`. For
  chips that *are* published the promise holds: `PublishedOff`, proved.
* `eth_stall`. `stm32h7xx_hal_eth.c:1168` says that `ETH_UpdateDescriptor`
  gives descriptors back so that reception goes on. When the packet pool is
  empty at that moment the descriptors stay with the software, and nothing
  calls it again: with no descriptor there is no receive interrupt. Packets are
  released later, but reception has stopped. A pool larger than all that can
  hold packets at a time rules this out.
* `http_retry`. `nx_tcp_server_socket_accept.c:189` says that a connection
  that failed in accept can be tried again. `http_serve_one` does call accept
  again, but without relisten; the listen request no longer holds the socket,
  and the server waits for ever. One SYN whose handshake is not finished is
  enough.

## 4. Proofs

All theorems hold for every value of the constants within the modules' named
assumptions: the types of the constants; for `Power` also that `Boot` and `Por`
lie within a chip's settings, that web is more urgent than power (8 and 11 in
the code), and that the three history markers are no commands.

| Module | Theorem | Property |
|---|---|---|
| `PowerProofs` | `Programs` | programs are well-formed, refreshes quiet |
| | `Inductive` | `Inv` |
| | `LockSafe`, `SearchOrdered` | its parts `LockDiscipline`, `SearchOrder` |
| | `Exclusive` | `DeviceExclusive` |
| | `NoLostUpdate` | `RmwFresh` |
| | `QuietSampling` | `OnlyCommandsWrite` |
| `PowerEffects` | `PublishedNotCharging` | `PublishedOff` |
| | `AcknowledgedHolds` | `AckedHolds` |
| | `RepliesConsistent` | `ReplyConsistent` |
| | `FailureHasNoEffect` | `FailedNoEffect` |
| | `ServiceImplemented` | `Implements`: `Power` refines `PowerService` |
| | `SnapshotsAccurate` | `SnapshotFresh` |
| | `CommandsKeepToTheirBits` | `FootprintOnly` |
| `FaultLogProofs` | `NoFaultLost`, `LogSoundHolds` | `NothingLost`, `LogSound` |
| `MutexProofs` | `Inductive` | `Inv` |
| | `NoInversion`, `MostUrgentFirst` | `NotOutranked`, `HandedToMostUrgent` |
| | `NothingInheritedStays` | nothing inherited outlasts the mutexes |
| `CodecProofs` | `CodesFit` | `Fits` |
| | `NothingUnnamed` | `UnnamedKept` |
| | `SettledHolds`, `NearestHolds` | `Settled`, `Nearest` |
| `EthProofs` | `SoundHolds` | the inductive invariant `Sound` |
| | `RingsAndPlaces`, `MarksAreTrue`, `EventsAreKept` | `Inv`, `MarksTrue`, `NoLostEvent` |
| | `PoolPromise` | `Implements`: `EthDriver` refines `PacketPool` |
| | `NoPacketLeaks` | no packet is lost or freed early |
| `HttpProofs` | `Inductive` | the inductive invariant `TypeOK /\ Orderly` |
| | `InvHolds`, `OwnRequestHolds` | `Inv`, `OwnRequest` |
| | `NothingLostHolds`, `OrderlyIsWholeHolds` | `NothingLost`, `OrderlyIsWhole` |
| `HeapProofs` | `Soundness` | the inductive invariant `Sound` |
| | `InvHolds`, `OwnedHolds` | `Inv`, `Owned` |
| | `RefusedForGoodHolds` | `RefusedForGood` |

**Power.** The inductive invariant is
`Inv == TypeOK /\ LockDiscipline /\ SearchOrder /\ Execution`. Exclusion is not
inductive by itself. A thread inside a program either owns `power_lock` and
drives a present chip, or is the search and drives a chip that is not present
(`Guarded`); that this survives the hand-over of the mutex needs where owners
and waiters stand (`OwnerPlaced`, `WaitersPlaced`, `HolderOwns`); that it
survives `Publish` and the step to the BQ25756 needs what is present at each
place of the search (`SearchOrder`); and that programs end before the lock is
put needs where programs run (`Execution`). Two threads on one chip would then
need it both present and absent, or two owners. `RmwFresh` is inductive
relative to `Inv`: while a thread has a value in hand, the other thread writes
another chip. Because a refresh is quiet, its writes store what the register
still holds, so a change to a present chip comes from a command.

`PowerEffects` looks at the rest of a program that is still to run. A program
*aims* at an effect if executing its remaining accesses without a failure ends
in it, whatever the chip holds; initialisations aim at a converter that does
not feed the battery, commands at what they promise (`Aims`). A chip nobody
commanded stays `Untouched`; while a request is served the web thread cannot
be overtaken by a sample, which is where the priorities are needed
(`GetsServed`). The refinement theorem has one step per action: each is a step of
`PowerService` or leaves its variables alone. `PowerService` lets a command work
on its chip in several steps, so `Implements` says who changes a chip and how
requests are answered, not that a command takes effect at one instant.

Its last part adds, for behaviours without a failed transfer, how much of the
snapshot a refresh in progress has already read, and that a command's remaining
program stores in each register the snapshot's bits except those it names
(`Snapshots`).

**FaultLog.** `Held`: without errors, every fault read to be latched is in the
latches or in `flags` on its way there. `LogSound` needs the log against all
that was ever logged: `Ledger` says that the log is the end of the history
(`Recent`), that the events of the history are disjoint, and that the latches are
their union. One event added to array and history keeps it (`OneEvent`; that
shifting the full array is taking the end of the longer history is `RecentNext`,
entry by entry). A refresh adds up to three, one per kind: they are disjoint, new,
and all that rises, provided that every flag in hand is of one of the kinds
logged (`LatchKeeps`), which `Kept` carries over the step between the two
transactions of the SHP8808.

**Mutex.** `Inv == TypeOK /\ Recorded /\ PriorityRestored`. `Recorded` says
that the priority a mutex records is at most that of its waiters;
`PriorityRestored` that a thread runs at the most urgent of its own priority
and the records of the inheriting mutexes it owns. That the search for the
most urgent waiter finds one needs a least element of a finite set of numbers
(`Least`, by well-founded induction on proper subsets).

**Codec.** `Inv`: the codes fit their fields and the snapshot is what they
decode to. `UnnamedKept` then reduces to one lemma per conversion, that
encoding after decoding gives the code back whenever it does not refuse;
these are statements about integer division with arbitrary shunts.

`Settled` and `Nearest` need where a code comes from: `Written` says that the
codes of the last accepted command's group are encodings of accepted numbers, and
that those it named are the encodings of its own. `NearestCode` then compares the
two neighbours of a code obtained by one rounded division and shown by another:
two codes are at least one step apart (`Apart`), and what the second division cuts
off is less than a milliampere, hence the `+ 1` of `Nearest`. It holds for all
shunts. `Settled` does not: on a battery shunt of 7 milliohms the SHP8808's driver
accepts 715 mA as code 0, shows it as 714 mA and refuses that number, so that a
user who sends back what is shown gets an error. `SettledHolds` therefore assumes `WholeOffsets`: on
the shunts of the SHP8808 the offsets of its codes are whole numbers of
milliamperes. The board's shunts of 5 and 2 milliohms (`board_config.h`) satisfy
it, and `MCCodec_codec.cfg` uses them. A change of these shunts should be checked
against `WholeOffsets`.

**EthDriver.** `Sound` adds to the types: the receive ring is three windows
that follow each other (without a buffer; with a buffer the DMA has filled;
owned by the DMA), the transmit ring likewise (`RxSound`, `TxSound`, with
lemmas on windows that wrap around); notes of the interrupt (`Told`), what is
empty before the link is up (`Idle`), and where each packet is (`Packets`): a
place for each packet according to the pool's marks, and one according to
rings, queues and hands, which agree. The rings' steps and the packets' steps
are proved apart. `PoolPromise` has one lemma per kind of abstract step (taken,
passed on, sent, sent again, dropped), and `NoPacketLeaks` follows from
`PacketPool`'s own invariant through the refinement.

**HttpServer.** None of the properties is inductive. `Orderly` says in which
states the socket can be at each place of the thread, given the result its
call is about to return (`Staged`): frames and time-outs change both between
the wake-up and the next step. `Bound` says when the listen request, a peer or
nobody has the socket, `Emptied` when its queues are empty. `Owner` generalises
`OwnRequest` to all bytes, replies and addresses under way, `Fresh` says that a
connection not accepted yet is queued once and has got nothing, so that the
socket can be given to it while bytes of the last one are flushed. `Honest` is
what holds while handshakes are finished, and gives `NothingLost` and the second
half of `Inv`. `Replied` counts: what the peer has got, what is unacknowledged
and what is left make up the reply. One lemma per action shows each part kept;
frames that only wake the thread share `WokenIf` and `QueuedKept`, and the
three ways to lose a connection `ResetStep`.

**Heap.** `Sound` holds between the steps of a search too. `Chain` is kept by
joining and splitting whatever the lengths (`LinkedJoin`, `LinkedSplit`; a split
needs that the least rest has room for a header). `Shared` says whose each block
in use is. `Found` is why a refusal is justified: either no run of free blocks
is large enough, or none of those behind the search is and the search may pass
more blocks than there are ahead, so that it cannot give up before it has been
all the way round; a join takes one of each away. That the counters are right
needs sums over finite sets: the library's fold chooses an order, so `FoldExists`
to `WordsMonotone` show by minimal counterexamples that the sum exists, takes its
elements one at a time in any order and grows with the set; `WordsBetween` that
the blocks between two addresses have all the words between them. The test on the
counters (`HopelessNowhere`) then refuses only what no run can hold.

### Only model-checked

* Liveness (`SearchEnds`, `RequestAnswered`, `SamplingRecurs`,
  `LastingFaultLatched`, `SenderGoesOn`, `RingsDrain`, `ServerReturns`,
  `QueueMoves`, `CallsReturn`) and `SomeoneGoesOn`, which is about which
  actions are enabled: the proof system does not handle fairness or `ENABLED`.

Every other property of the runs is stated by a theorem.

## 5. How far the map goes

The repository is dominated by vendored code: ThreadX, NetX Duo with its
add-ons, the HAL for the whole STM32H7 family and CMSIS device headers make up
most of its 586,769 lines. The firmware calls a small part of them. The map
names the lines of the application that carry state and the parts of ThreadX,
NetX and HAL on whose behaviour the application depends, so that its share of
all lines is small and cannot become large without modelling peripherals the
board does not use.

## 6. Not modelled

* JSON scanner and URL matching (pure functions of the request; a refused value
  is the command `invalid`, which fails before its first access), ADC values,
  decoded status, timestamps, console output.
* Time: the charger's watchdog does not expire, time limits are
  nondeterministic.
* Network start-up and DHCP client: one exchange with a server; nothing reads
  its state after it is over. A failed start is `HttpServer!Start`.
* TCP sequence arithmetic, out-of-order segments, the width of windows,
  congestion control; ARP, ICMP,
  UDP; packet chains; multicast filters; disabling of the interface; the PHY.
* Console (`console_lock` is one of the locks of `Mutex`), led, pins and clocks,
  C library wrappers, boot, browser pages.
* The rest of ThreadX; the scheduler is used through its promise that the most
  urgent ready thread runs.

Hazards without a property are listed in `PROJECT.json` with the reason.

## 7. What is left

1. The DHCP client's states with its retransmissions and the fallback address;
   link changes by PHY polling.
