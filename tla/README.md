# A TLA+ model of the bcmbm firmware

The firmware is a bare-metal program for Broadcom BCM47xx/535x SoCs. `main()` starts
one mruby script; the script calls a C API for network, timer, I2C, NVRAM and switch.
There is no operating system: one CPU runs the *foreground* (the script) and the
*interrupts* (a 100 Hz timer and the Ethernet MAC). lwIP runs in both, BearSSL in the
foreground. Nothing in the repository tests it. These modules say what the code does
where the two contexts, the DMA engine and the peers of a connection meet, and what
holds of it.

## The system

| component | state | operations | talks to |
|---|---|---|---|
| MAC driver, `cfe/dev_sb_mac.c` | free list, two descriptor rings, `rxdscr_onring`, interrupt status | attach, `bcm4401_isr` (`procrxring`, `proctxring`), `cfe_output` | DMA engine; calls `net_rcv`; called by lwIP, by the MAC interrupt and by itself through `cfe_output` (XPOLL) |
| Interrupts, `cfe/bcmcore_irq.c`, `cfe/bcmcore_ircpoll.S`, `cfe/exception.S`, `cli`/`sti` in `main.c` | SR enable bits, per-level `depth` and handler chain | `cfe_enable_irq`, `cfe_disable_irq`, `cfe_request_irq`, entry, demultiplexer | every critical section |
| Frame queue, `bcm_ether.c` | `inque`, `inquestart`, `inqueend` | `net_rcv`/`eninque`, `doque` | MAC driver above, `netif.input` below |
| Timer, `bcm_timer.c`, `cfe/cfe_timer.c` | alarm, jiffies, watchdog counters | `timer_isr` (calls `net_poll`), delays, watchdog, `time` | lwIP timeouts, frame queue |
| HTTP(S) client, `net.c`, `bear.c` | `tcpbuff`, `tcplen`, `tcpoff`, `tcpstat`, the pcb | connect, read, write, close; callbacks | lwIP in the interrupt, script in the foreground |
| HTTP server, `httpsvr.c` | listener, per-connection state, `reqbuff`, `resbuff` | lwIP callbacks, `setres`, `copyreq` | the same two |
| UDP, SNTP, DNS, network start, `net.c` | `udpbuff`, SNTP pcb, `dnsstat`, `netstat` | bind, send, recv, `sntp`, `lookup`, `net_init` | the same two |
| NVRAM, `cfe/bcmnvram.c` | hash table, heap of strings | get, set, unset, commit | flash |
| I2C and GPIO, `i2c.c`, `bcm_gpio.c` | pin directions and levels | byte write, byte read | slave devices |
| Switch, `cfe/etc_robo.c`, `robosw_r/w` | VLAN tables | configure, enable | NVRAM, MDIO |
| Bring-up of the MAC, `cfe_ether_init` in `cfe/dev_sb_mac.c` | link speed, CAM, MAC control registers | attach, probe, autonegotiate, start | PHY or switch |
| Intrusive queue, `cfe/lib_queue.c` | links of a queue block and its elements | enqueue, dequeue, count, find, map | MAC driver, try blocks |
| Address parsing in `cfe/net_ether.c`; image tool `tools/asustrx.c` and the search of `main.c` | a string; an image | parse; pack, boot | NVRAM; flash |
| try blocks, clock rates, random numbers | | | |

What makes this hard: a handler that interrupts the foreground in the middle of a
driver call; the same driver routine running in both contexts, one preempting the
other; a critical section that masks the MAC's level but not the timer's, whose handler
runs the same code; DMA completing between the read and the clearing of a status
register; rings and pools at their limit; lwIP callbacks between two reads of shared
variables; and, where nothing runs concurrently, external devices that see only edges and register writes (I2C slave,
switch), and long sequences of legal calls on linked structures. `PROJECT.json` lists each such hazard at its line.

What each component has to guarantee: the MAC driver neither loses nor duplicates a
buffer or a frame and never sleeps on unseen work; the interrupt code leaves the right
levels enabled and keeps handlers out of critical sections; the queue hands every frame
up once and in order; the client delivers the peer's bytes exactly and reports status
truthfully; a call of the API returns; control blocks and datagrams are neither lost nor used twice; the store is a map that
survives a restart; the switch forwards as configured; time does not drift.

## Modules

### SbMac: the MAC driver's data path

`free`, `rxbuf`/`rxrem`/`rxadd`/`onring`, `txbuf`/`txrem`/`txadd` are the free list and
the two rings of the soft context; `rxcd`, `rxptr`, `txcd`, `txptr`, `intstatus` are the
registers. `pc[c]` is where context `c` (`fg` or `irq`) stands in
`bcm4401_isr` or `cfe_output`; `pkt`, `slot`, `cur`, `stat` are the locals that live
across an access to shared state: the packet, the descriptor pointer read at the head of
a loop, the hardware's current descriptor, the status word. One action is one access or
one critical section: `RxTake` reads `rxdscr_remove` into a local, `RxAdvance` writes
the value computed *from that local*. `EnterCS` is `CS_ENTER`; a foreground inside a
section blocks the MAC's interrupt (`EthLine`) but not the timer's. `IrqEntry`
snapshots the levels; `ServeTimer` runs `net_poll`, in which lwIP may call `cfe_output`
any number of times (`Send("irq")`), each polling the interrupt routine before and after.
`FgSends` says whether the script transmits too. `DmaRx` and `DmaTx` are the hardware; they run from `Hwinit` on.
Attach is four kinds of steps: `FillRxRing` for each buffer, `Hwinit` (`bcm4401_hwinit` gives the rings to the hardware and enables
the MAC), `StartRead` and `StartClear` (`bcm4401_start` reads the pending status and writes it back). A frame stored before `StartClear`
loses its RI there and nobody looks at the ring: it waits for the next frame. `early` remembers the last such frame.

### Irq: masking and dispatch

`sr` is the set of enable bits (IE and one per level). A foreground call is four steps:
`ReadSR`, `WriteSR` (the two halves of `cfe_irq_disable`), `Body`, `Restore`
(`cfe_irq_enable`). `Take` enters the exception, `Serve` picks levels from the snapshot,
highest first, `IsrEnter`/`IsrExit` are the critical sections of the MAC driver that a
handler passes through, `Eret` leaves. The API's calls are sequences of such calls:
`TimerInit`, `AttachCalls`, `CriticalSection`, `AtomicSection` (cli/sti).

### FrameQueue, BcmEther, BcmEtherClient: the input queue

`FrameQueue` is the promise: frames leave once each in order, and all leave. `BcmEther`
is the ring with `eninque` nested in `netif.input`; its `Queue` is the refinement mapping
(the slots from `inquestart`, one further while `doque` is inside `netif.input`).
`BcmEtherClient` adds a foreground that runs `eninque` in two stores.

### HttpClient: the TCP client

Foreground steps are accesses to the four shared variables (`ReadTest` before
`ReadCopy`, which is the cli/sti section, or `ReadStat`); `TcpConnect` and `ClearStat` keep
the order of `net.c:150-151`. lwIP's callbacks are one step each. Bytes carry their
connection and position, so a misplaced byte shows. `MaxConns` connections are made in a row.

### HttpServer: the HTTP server

`pcb[c]`, `es[c]` and `p[c]` are the connection's TCP state, its `httpsvr_state` and its chain of
pbufs, `ref` their reference counts. A callback is one step, except that each turn of the loop of
`httpsvr_send` is its own (`SendOne`), so that `ERR_MEM` can end it anywhere (`SendEnd`); `sending`
keeps everything else out meanwhile. `Advanced` is the hand-over from a pbuf to the next: reference
the next, free the head. In the foreground `httpsvr_copyreq` is three steps (`CopyTest`, `CopyOut`,
`CopyClear`), since it takes no lock. `debt` is what lwIP has received and not been told of with
`tcp_recved`: `tcp_close` resets a connection that has some.

### NetServices: start, UDP, SNTP, time, lookup

`pc` is where the foreground stands in a call; `netstat` gates every callback, as in `net_poll`. `echo` and
`sntp` are the two static pcbs of `net.c`, `memp` is lwIP's stack of free ones, `live` says which blocks still have a
callback. `sntp` does not lock, so its steps, from the script's decision
(`SntpCall`) over the test and the removal of the old block (`SntpTest`, `SntpRemove`) to `SntpNew`, `SntpRecv` and `SntpSend`, meet
`SntpReply` anywhere; the reply ends in the comparison `udpsntp_raw_pcb == NULL` that assigns nothing. `crossed` remembers that an answer
came before `SntpRemove` was done. `rtl_udp_recv` is its test and then three
steps under `cli` (`Unlocked` keeps the interrupt out). `time()` is two reads; `SysNow` keeps the width and
the sign of the `int`. `lookup` waits for `dnsstat`. The branch of `net_init` that would clear
`netstat` after a failed DHCP wait compares a pointer with 0 and is dead; the model has no such step.

### NvStore, Nvram: the NVRAM store

`NvStore` is the promise: a map in memory and a map in flash. `Nvram` is the hash chains
with their pointers (`hashtab`, `next`), tuples taken off a chain and parked on `nv_pending` with the same
field, `nvram_commit` with an image that does not fit or a write that does not happen, and restarts. `Mem` walks the chains
and `Saved` reads the image; together they are the refinement mapping.

### SeqQueue, LibQueue: the intrusive queue

`SeqQueue` is a sequence with a walk over it. `LibQueue` has the links `q_next` and `q_prev`; `q_map` is
one step per callback, which may take its element off. `Along`, the elements that `q_next` leads to, is the refinement
mapping.

### I2c: bit banging against a slave

`prog` is the rest of the accesses that the call in progress makes; `gpioout` and `outen` are the GPIO registers.
A setter reads both pins and writes both. The slave is external and sees edges: `Condition`, `Rises`, `Falls`
are its reactions, and it may hold SCL where `i2c_read` waits for it.

### RoboSwitch, MacSetup: bring-up

`RoboSwitch` is `robosw_init`: `Reads` and `Writes` name the register accesses in their order,
`Vlan`, `Token`, `Stored`, `Access` are the VLAN loop with its tokenizer. An access is the MII operations of `robosw_r` and
`robosw_w` (`AccPage`, `AccData` per word, `AccGo`, `AccEnd`); the switch carries the command out at any time after `AccGo`, with what
its MII registers hold then (`Commit`), and stores an address entry when it likes (`StoreAddress`). `MacSetup` is the way of
`cfe_ether_init` around it: attach, `mii_probe`, autonegotiation with a PHY or a switch, the CAM, the control registers.

### HwAddr, TrxImage: parsing and packing

`HwAddr` runs `enet_parse_hwaddr` for its two callers on one string, one turn of the loop per step; a malformed string ends it
where it is, with what was stored. `TrxImage` packs file after file (`Pack`), adds the footer and rounds (`Finish`), and
lets `main` look for the script (`Boot`).

### Clock: ticks, delays, watchdog

`count` goes round modulo `Wrap`, one round of a polling loop at a time; a match with `compare` raises
the interrupt, and `timer_isr` runs from `IsrEnter` to `IsrEnd` while the foreground stands still.
`Sleep`, `WaitWrap`, `WaitEnd` are `cfe_usleep`. `watchdog_start` is two stores.
`due` and `owed` belong to an exact clock that the ticks are compared with, `slept` and `starved`
measure what the property speaks of.

### Parts, MCParts: seven small parts side by side

`Clock`, `MacSetup` (with `RoboSwitch`), `Nvram`, `LibQueue`, `I2c`, `HwAddr` and `TrxImage` share no state, so their
product would only multiply the state spaces. `Parts` instantiates each; `Init` chooses the part that moves
(`part`), the variables of the others hold `NULL`, and every property is the part's own under `part = ...`.
The states of the run are the sum of the parts' states, and a behaviour of `Parts` is a behaviour of one part.

### The theorems

`SbMacProofs`, `IrqProofs`, `BcmEtherProofs`, `HttpClientProofs`, `HttpServerProofs` and
`NetServicesProofs` extend the module they speak of. `DeviceProofs` (lemmas about `RoboSwitch` and `MacSetup`, and `I2c`) extends `Parts`, and
`PartsProofs` (lemmas about `Clock`, `TrxImage`, `HwAddr`, `LibQueue` and `Nvram`, and the theorems about all of the parts) extends it. Each begins with the inductive invariant as a conjunction of named parts, has one lemma per action (or per group of actions that touch the same
variables) and ends in the theorems, whose statements name the properties of the runs.

## Runs

| run | what it asks | bounds |
|---|---|---|
| `sbmac_server` | when only lwIP's timer transmits: every buffer accounted for, space in the receive ring, a ring that stays charged, no work unseen, frames in order; every good frame goes up (one that the start-up lost sight of, with the next), every transmitted buffer returns | pool 4, rings of 3, 3 frames, 3 sends |
| `sbmac_client` | every call returns when the script transmits as well | pool 3, rings of 3, 2 frames, 2 sends |
| `sbmac_client_rx` | violation: "The ring must have space now" (dev_sb_mac.c:564) | pool 4, rings of 3 |
| `irq` | settled masks, no stale SR, exclusion, every interrupt served | 3 levels, 2 attaches, 3 other calls |
| `http_client` | stream integrity, truthful status, connect returns | buffer 4, stream 5, 2 connections |
| `http_client_write` | violation: "all our request bytes are sent onto the wire" (bear.c:232) | send buffer 2 |
| `http_server` | replies whole and in order, pbufs accounted for, graceful closes, requests once, every connection ends | pool 4, send buffer 2, response 1-3 pbufs, request 1-2, 2 connections on 2 pcbs, 1 text |
| `bcm_ether` | the queue implements `FrameQueue`; pbufs accounted for | ring 4, pool 5, bursts of 3, 7 frames |
| `bcm_ether_client` | violation: a frame lost inside a critical section (dev_sb_mac.c:271) | ring 4, 3 frames |
| `net_services` | datagrams whole, once, in order; control blocks owned, until an answer falls between a decision to ask and the removal; time truthful; lookup truthful and back | 2 pcbs, 2 hosts, datagrams up to 2 and room for 1, 2 datagrams, 2 sntp calls, 4 ticks of 2 a second, an int of 6 values |
| `net_sntp` | violation: a second `sntp` after an answer removes a control block a second time (net.c:372) | the same, the script asks again |
| `parts` | the seven small parts: types, time, the switch, bring-up, the store, the queue, I2C, the address, the image | see below |

The bounds of `parts`: Count of 11 values, a tick of 4, handlers up to 2, delays up to 6, periods up to 2; 3 VLANs and 4 port
lists (flags, unknown ports, runs of spaces, a word too long); 3 names of which two share a chain, 2 values, 3 tuples, room for 2 in
flash; 4 queue elements; bytes of 3 bits; addresses of 2 bytes, strings up to 6 characters; a header of 2
units, a footer of 1, alignment 2, pages of 4, files of 0 to 2, images up to 12.

Why the bounds are enough. The rings of `SbMac` wrap at 3, more frames arrive than
there are slots, and with a pool of 4 and 2 receive buffers the transmissions drain the free
list, so every failure path of `cfe_output` and of the ring processors fires (`RxDec` only with
a transmitting script). In `Irq` a second attach takes the depth to 2, where critical
sections no longer mask. In `HttpClient` a response is longer than the buffer, so the
offset has to return to zero, and the second connection starts with the first one's status.
In `HttpServer` the longest response exceeds the
send buffer, two of them exceed the pool, and a short one is answered to a longer request.
In `BcmEther` 7 frames wrap a ring of 4 twice. In `NetServices` the two pcbs are those of the code, so the
mailbox and SNTP exhaust the pool and hand blocks to each other; a datagram is longer than the script's room, and
the second arrives at every point of a receive; 4 ticks cross a second and the sign of the int.
In `Clock` every start of Count is an initial state, a range that is no multiple of the tick
lets alarms fall on every side of the wrap, and a delay of more than half the range meets the wrap from each of them. In `RoboSwitch` the third VLAN is
one that nvram cannot define, the other two are defined, empty or absent, in every combination. In `Nvram` two of three names collide, so deletion meets
the first and the later tuple of a chain; memory runs out; an image fits or not. In `LibQueue` a queue of 4 has a head, a tail and inner elements on both sides of the one removed. In `I2c`
3 bits are a first, an inner and a last one, the inner one with either neighbour. In `HwAddr` the strings end before, in
and after each of the two bytes. In `TrxImage` files end on and off every
alignment, offsets lie before and behind what is packed, and the footer fits in the last page or asks for one more.
The violations are of the code, not of the model: each trace is a sequence of statements of
the source, and each quotes the line it contradicts.

Definitions whose names end in `_Mut` are faulty variants of the definition that
follows them: every property of a passing run fails for at least one of them.

### Fairness

A level-triggered interrupt that stays enabled is taken and its handler runs to the end
(`WF` on the dispatcher and on `Driver("irq")`). The foreground is given `SF`: between two
ticks 10 ms apart it does run, although interrupts may disable any one of its steps again and
again. The DMA engine finishes what it was given. Arrival of frames, calls
of the script, answers of a peer are never promised. lwIP polls an active connection
(`WF` on `Poll`), which is what `http_poll` relies on; the server's polls are given `SF`, because a callback
in progress disables them again and again. A peer that is sent data acknowledges it or lwIP gives the connection up
(`SF` on `Sent` or `Error` with something in flight). `tcp_write` that is tried again and again finds memory
some time (`SF` on `SendOne`). In `NetServices` lwIP answers or gives up a query it has taken (`WF` on `DnsFound`: its own timer
counts the retries) and the wait loop of `lookup` looks again (`WF` on `LookupDone`). In `MacSetup` the processor goes on (`WF` on
`Cpu` and on `RoboswCpu`) and the switch carries out a command and stores an entry in the end (`WF` on `Commit` and `StoreAddress`); the CAM is
promised nothing, because the driver does not wait for it.

### Assumptions

- A call into lwIP is one step of the model. The build has no protection there (`SYS_LIGHTWEIGHT_PROT` is 0), so an interrupt inside one is a hazard no module covers.
- No interrupt nests: handlers run with `Status.EXL` set and nothing clears it (`exception.S`).
- `SbMac`: `FgSends = FALSE` describes a firmware after its start-up. While the network starts, `net_init` transmits from the foreground (`net.c:227`, `232`) with the
  MAC's interrupt open; that is the situation of `sbmac_client_rx`. A frame whose RI `bcm4401_start` clears is promised nothing before the next frame arrives:
  without this exception (`early`) TLC finds `NoLostWork` violated.
- `BcmEther`: fewer than `INQEULEN` frames between two polls, and lwIP holds few enough
  pbufs (`MaxBurst`, `MaxHeld`); the code checks neither (see the hazards).
- `HttpClient`: a response fits behind what is unread; the script makes a connection after the
  previous one has gone, and neither writes nor closes on a pcb lwIP has freed. `tcp_new`
  succeeds.
- `HttpServer`: `pbuf_alloc`, `pbuf_free` and `tcp_close` do what lwIP's documentation says; no callback comes
  for a pcb after its close.
- `Clock`: the match with Compare, the latency and the handler together leave the foreground a count before the next match (`MaxIsr + 1 < Interval`).
  The code does not bound `net_poll`; with a handler longer than a tick the alarm is set in the past and ticks stop until Count wraps, and with one exactly a
  count shorter two handlers in a row can hide the end of a delay (`SleepExact` fails then).
  A delay is shorter than one round of Count, as `usec * cfe_clocks_per_usec` must be. One that ends within a handler and a count of the wrap may be late by whole
  rounds of Count on top ("XXX fix the wrap problem"): when the end and the wrap both pass unseen, the code waits for the next time.
- A failed DHCP start is outside `BcmEther`: it leaves `netstat` 0 and nothing polls the queue any more. `NetServices` has it.
- `NetServices`: datagrams are shorter than `udpbuff` (the code does not test it) and contain no zero byte. In `net_services` the script does not call `sntp` again after an
  answer; `net_sntp` shows what happens when it does. Nor does `PcbsOwned` say anything once an answer has come between the script's decision to ask and the `udp_remove` at
  `net.c:382` (`crossed`): interrupts are on, the callback removes the block and `382` removes it again. Without this exception TLC finds that double removal in `net_services`,
  although the script never asked after an answer. A lookup that lwIP refuses at once waits for ever (`LookupReturns`
  speaks of queries taken). An answer between the two reads of `time()` makes one result wrong (`straddled`).
- `Nvram`: an image binds a name once, as those do that `nvram_commit` writes. With a name bound twice, by other firmware, an
  unset uncovers the older value. A write of flash happens whole or not at all. `NULL` is not a value, an address or a record of a tuple.
- `I2c`: the script addresses the slave first, and after an acknowledged byte without a stop it goes on with what the slave expects. A repeated start is
  not made: i2c_write moves SDA with SCL low, and no slave sees a start. Nothing is claimed about how long a slave holds SCL.
- `RoboSwitch`: one processor touches the MII registers, interrupts are off. One MII operation is one step. `mii_rreg` stores 16 bits through a pointer to a `uint8_t`
  (`etc_robo.c:388`); what the byte behind it holds is not in the model.
- `HwAddr`: the first start of the network. At a later one a malformed string leaves in `netif.hwaddr` what the first start put there.
- `LibQueue`: the callers in use are `q_enqueue` and `q_deqnext` of the driver's free list; nothing calls `q_map` or `q_find`.
- `TrxImage`: no more `-b` than files and no offset so far behind that the footer or the last page leaves the buffer; asustrx tests neither.

## What is proved

TLAPS checks the following for every value of the constants that satisfies the modules' named assumptions. Where the inductive
invariant is stronger than the property, TLC has checked it as an invariant of the run's instance.

| theorem | says | rests on |
|---|---|---|
| `SbMacProofs!TypeCorrect` | `TypeOK`, in both settings | itself |
| `SbMacProofs!ServerNoLostWork` | `NoLostWork`, if `FgSends = FALSE` | see below |
| `SbMacProofs!ServerAccounted`, `ServerRxSpace`, `ServerRingStaysCharged`, `ServerInOrder` | `Accounted`, `RxSpace`, `RingStaysCharged`, `InOrder`, if `FgSends = FALSE` | `ServerInv` |
| `IrqProofs!MasksSettle`, `SavedIsFresh`, `SectionsExclude` | the three safety properties of `Irq` | `Inv` |
| `BcmEtherProofs!PbufsKnown`, `RingIsQueue` | `PbufsAccounted`; the step simulation of `FrameQueue` by `BcmEther` | `QueueInv` |
| `HttpClientProofs!StreamWhole`, `StatusKnown` | `StreamIntegrity`, `StatusTruthful` | `ClientInv` |
| `HttpServerProofs!RequestsSeenOnce` | `RequestsOnce` | `RequestInv` |
| `HttpServerProofs!ReplyWhole`, `CloseIsGraceful`, `PbufsOwnedOnce` | `ReplyIntact`, `CloseGraceful`, `PbufsOwned` | `ServerInv` |
| `NetServicesProofs!LookupAnswers`, `MailboxWhole`, `TimeTold` | `LookupTruthful`, `UdpWhole`, `TimeTruthful` | `LookupInv`, `MailboxInv`, `TimeInv` |
| `NetServicesProofs!PcbsAccounted` | `PcbsOwned`, if `SntpAgain = FALSE` | `PcbsInv` |
| `PartsProofs!TickExact`, `DelayExact`, `WatchdogBites` | `NoDrift`, `SleepExact`, `WatchdogExact` | `ClockInv` |
| `PartsProofs!ScriptWhole` | `ScriptFound` | `TrxInv` |
| `PartsProofs!AccessesLand` | the action property `AccessesWhole` | `BusInv` |
| `PartsProofs!SwitchRight` | `SwitchDescribed` | `BusInv`, `SwitchInv` |
| `PartsProofs!AddressesEqual` | `AddressesAgree` | `AddrInv` |
| `PartsProofs!QueueIsFifo` | `IsFifo`: `LibQueue` implements `SeqQueue` | `QueueInv` |
| `PartsProofs!StoreIsKept` | `StoreKept`: `Nvram` implements `NvStore` | `StoreInv` |
| `PartsProofs!TuplesStay` | `ValuesStay` | `StoreInv` |
| `PartsProofs!BytesAgree` | `BytesHeard` | `PinsInv` |

Two theorems have a hypothesis on a constant, and a run shows that they need it. `FgSends = FALSE` is a firmware whose script does not transmit through a driver
call of its own: lwIP answers from the timer only, and so, after start-up, nobody is inside the driver twice; `sbmac_client_rx` violates `RxSpace` without it. `SntpAgain = FALSE` is a script that does not call
`sntp` again after an answer; `net_sntp` violates `PcbsOwned` without it. Two properties have an exception of their own: `NoLostWork` the frames of the start-up until another
arrives, `PcbsOwned` what follows an answer in the window of `net.c:381-382`.

The arguments:

- `NoLostWork` speaks only of a driver at rest. The inductive invariant says for each program point what a set or a not yet rechecked status bit still
  covers: before the rings are looked at, a bit in the local `stat` counts as well as one in `intstatus`; once `cur` is read, what lies beyond it is
  covered by `intstatus`. It needs that only `irq` is ever inside the driver.
  During the start-up DMA stores frames already while nobody is inside; what `StartClear` wipes out is the frames up to `early`, and the next frame sets RI again.
- `ServerInv` of `SbMac`: only `irq` runs in the driver; in each ring the software's remove index, the hardware's pointer and the add index follow each other
  cyclically, and the local `cur` lies between; `onring` is the number of filled slots, less the buffer the context has in hand. From it the ring has room for that
  buffer, every buffer is in one place, and what lies between remove index and hardware pointer are the frames that arrived, in order.
- `Inv` of `Irq`: `DepthOK` ties `depth` to the number of handlers and to the calls still to be made, `MaskOK` says what `sr` and `saved` are at each step, given
  that a handler restores what it found.
- `QueueInv` of `BcmEther`: the used slots follow `inquestart` up to `inqueend` and hold the next frames to be passed, one by one and in order, also while `doque`
  has one of them in `netif.input` and the index has not moved; at most a burst of them is used, so the ring never laps itself (`RingInv`). What lwIP holds was
  passed to it, at most one pbuf over its limit (`HeldInv`). A step of the ring maps to `FrameQueue`'s arrival or departure, or to a stutter.
- `ClientInv` of `HttpClient`: what the status can be for each state of the connection and each program point (`StatInv`), and where the bytes lie while
  `http_read` is between its test and its copy (`StreamInv`).
- `ServerInv` of `HttpServer`: a pbuf is in one chain, once, and has a reference exactly then (`ChainInv`); for each connection, what was given to TCP followed by what
  is still in the chain is the text of the answer, and while the connection is up `debt` is what was received, less one for each pbuf sent (`ConnInv`).
- `PcbsInv` of `NetServices`: `memp` is free of duplicates and disjoint from what `echo`, `sntp` and `live` hold, with the steps of `sntp` at which a block is in neither
  place accounted for, as long as no answer has crossed a call (`~crossed`). `MailboxInv` says what `udpbuff` holds at each step under `cli`.
- `ClockInv`: before a match `count + due = compare`, after it `count = compare + age` and `due = Interval - age` (`TickInv`); while somebody has to feed the dog, `starved + wdcount = wdticks`
  (`DogInv`); for `cfe_usleep`, how many counts are unseen (`LagInv`), that what is slept is what has been counted (`WrapInv`, `WaitInv`), and that a look after the end comes at most one handler late;
  `RoundsInv` and `SleptInv` say that Count stands where the delay does but for whole rounds, of which there are some only if it ends that close to the wrap.
- `TrxInv`: what is packed lies below `cur_len`, so neither the third file nor the footer reaches the script; without a script no unit looks like one.
- `BusInv`: a word of an access is stored or still to be stored, the page stays, and a command is out only while its access waits for it. Hence `Commit` can only
  carry out that access, whole.
- `SwitchInv` says, at every access of `robosw_init`, what the loops have built: which VLANs have their row in the switch (`TableInv`) and their
  addresses stored or being stored (`AddressInv`), which tokens of the current list are in the row's bits (`ListInv`, `RowInv`), and whose default tags the ports carry
  (`TagInv`); `WorkInv` ties them to the program counter, `PlaceInv` and `SentInv` to the words still to be sent. What the tokenizer has consumed is stated
  with `Begins`, the characters that begin a word: the last one not yet seen is found by `NatMin`, and each `Token` step moves it by one.
- `ReadInv` of `HwAddr` has a function `P` of the positions after each turn of the loop, and `Bytes(P, m)`, what `m` turns store. The first parse leaves a `P` behind; the
  second is at some turn of the same `P`, because each turn depends on the string and the position only. That what is stored is the text between the colons rests on
  `Pieces`: where the pieces of a concatenation lie in the whole.
- `QueueInv` of `LibQueue`: there is a sequence `s` without duplicates whose elements are those on the queue, and `q_next` and `q_prev` lead along it from the block to the block
  (`Linked`). Each action maps `s` to the sequence that `SeqQueue` prescribes; `Along`, the refinement mapping's walk, reads `s` back (`AlongIs`), also from the element at which `q_map` is.
- `StoreInv` of `Nvram`: there is a sequence for each hash chain and for `nv_pending`, the links lead along each to `NULL` (`Path`), no tuple is on two of them and every
  tuple that was allocated is on one (`Shape`, `Filed`); the names on a chain have its hash and occur once. `nvram_delete` cuts a path and pushes the tuple on another,
  `nvram_insert` pushes a new one (`Moved`, `Inserted`), and a name means what it meant unless it is the one that is set (`Carried`). `List`, which the model's
  `Lookup` and `Contents` walk along, reads a path back (`ListIs`). `nvram_commit` concatenates the chains; each tuple lies in one piece (`ContentsSay`), so what the image says
  of a name is what memory says. After a restart the chain of a bucket is the tuples of the image with that hash, newest first, by induction over the image (`StoreRestart`).
- `PinsInv` of `I2c` says for every access of `i2c_write`, `i2c_read` and the stop, for any number of bits, which pins the master drives, at which levels, and how far the
  slave is: how many bits of the byte it has taken (`Receives`) or sent (`Transmits`), whether it pulls SDA (`Answers`), and that it is left alone where the bus is free (`Freed`).
  Where an access lies in its program follows from `Pieces` and `StepIs`: bit `i` is the five accesses behind `BitAt`. A step of the master changes one pin, and `RiseIs`, `FallIs` and `ConditionIs`
  say what the slave makes of the edge: while SCL is high no access moves SDA but the start and the stop, so no data bit is one of them to the slave, and each bit is one rise of SCL.

Only model-checked, and why:

- the liveness properties (`RingsServed`, `CallsReturn`, `InterruptsServed`, `ConnectReturns`, `ConnectionEnds`, `LookupReturns`, `BringUpEnds`) and the fairness in
  `ImplementsFrameQueue`: out of the prover's reach;
- `TypeOK` of `Parts`, which is the sum of the parts' types; what the theorems need of it is in their invariants.

The library's induction theorems take an operator as a parameter and cannot be used. Where the walks along links, the texts of an address and the images of the store need induction
over the data, the proofs take a least counterexample instead: `NatMin` (from `WFMin`) gives the least element of a set of naturals, and `Upward` is induction up to a bound for a set.

`PartsAssumption` collects the assumptions on the parts' constants; TLC evaluates them in `parts`.

## What the violations say

- `sbmac_client_rx`: with a script that transmits, two contexts run `bcm4401_procrxring` and take the buffer of the same slot. Both store the same `rxdscr_remove`, and each puts back
  a replacement for that one slot: the second finds the ring full and is dropped.
- `http_client_write`: `my_tcp_write` sends what fits and reports all of it as sent.
- `bcm_ether_client`: a critical section masks the MAC's level only, and the timer's handler enters the frame queue in the middle of `eninque`.
- `net_sntp`: after an answer `udpsntp_raw_pcb` still points to the removed block; the next `sntp` removes it again, and the pool holds it twice, or it
  belongs to the mailbox by then.

## Plan

Modelling is complete as far as it is worth while, and every safety property but one is proved; what is left is `TypeOK` of `Parts`, part by part.

## Not modelled

- lwIP, BearSSL and mruby are not in the repository; the modules have what the code uses of them, marked external.
- `cacert.h` (8072 lines, a third of the repository) is a table of certificates; `sb_mac.h`, `sbmips32.h` and the other headers are register layouts. They keep no
  state and do nothing; `map` cannot cover them, which bounds the share of the lines it covers.
- Chip, cache, relocation and CPU set-up (`sb_utils.c`, assembler): register sequences without state a property could speak of. The entry of exceptions, as
  far as it concerns interrupts, is in `Irq`.
- `cfe_api.c` marshals arguments for a firmware outside the repository.
- Code that the build compiles out or nothing calls: the CFE dispatch of the MAC driver, `sprom_read_all` and with it the try blocks (`lib_try.c`), most of `net_ether.c`,
  the parts of `etc_robo.c` under `#if 0` and for the other switch.
- `factor6` and `sb_clock_rate` compute a number from a register once; `mt19937ar.c` is data, its reentrancy a listed hazard.
- Console output, hexadecimal dumps, `mii_dump`: formatting.
- The duplex that bring-up writes for a switch (half, since only the local link speed is set) is in the model, but what it means depends on the switch's MII port.
