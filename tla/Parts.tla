------------------------------- MODULE Parts -------------------------------
(***************************************************************************)
(* Seven parts that share no state, checked in one run: Init chooses the    *)
(* part that moves, and the variables of the others hold no value.  (pc is *)
(* a variable of two of them.)                                             *)
(***************************************************************************)
EXTENDS Integers, Sequences, FiniteSets

CONSTANTS
  NULL,
  Wrap, Interval, MaxIsr, MaxSleep, MaxTicks,      \* Clock
  NumVlans, PortLists,                             \* MacSetup
  Names, Values, MaxTuples, Hash, Space,           \* Nvram
  Items, QB,                                       \* LibQueue
  BITS,                                            \* I2c
  ADDR_LEN, MaxStr,                                \* HwAddr
  HEADER, FOOTER, ALIGN, PAGE, MaxLen, MaxFile     \* TrxImage

VARIABLES
  part, pc,
  count, compare, alarm, pending, isr, age, wdticks, wdcount, bite,
  now, newcount, seen, asked, slept, period, due, owed, starved,
  nvram, robo, at, vid, cur, row, val8, acc, page, data, cmd, regs, vtable, arl,
  chip, internal, phyint, status, linkspeed, tries, cam, busy, enet, xmt, intmask,
  up, binding, next, hashtab, nv_pending, flash, held,
  q_next, q_prev, on, qe, res,
  prog, call, gpioout, outen, scl, sda, ch, ack, slave, n, bits, read, pull, hold, heard, rw,
  str, reader, pos, idx, hwaddr,
  lens, prod_id, offsets, file, cur_len, buf, script

Time  == INSTANCE Clock
Mac   == INSTANCE MacSetup
Store == INSTANCE Nvram
Queue == INSTANCE LibQueue
Pins  == INSTANCE I2c
Addr  == INSTANCE HwAddr
Trx   == INSTANCE TrxImage

ASSUME PartsAssumption ==
  /\ Time!ClockAssumption /\ Mac!RoboAssumption /\ Store!NvramAssumption
  /\ Queue!QueueAssumption /\ Pins!I2cAssumption /\ Addr!AddrAssumption
  /\ Trx!TrxAssumption

time  == <<count, compare, alarm, pending, isr, age, wdticks, wdcount, bite,
           now, newcount, seen, asked, slept, period, due, owed, starved>>
mac   == <<nvram, robo, at, vid, cur, row, val8, acc, page, data, cmd, regs, vtable, arl,
           chip, internal, phyint, status, linkspeed, tries, cam, busy, enet, xmt, intmask>>
store == <<up, binding, next, hashtab, nv_pending, flash, held>>
queue == <<q_next, q_prev, on, qe, res>>
pins  == <<prog, call, gpioout, outen, scl, sda, ch, ack, slave, n, bits, read, pull, hold, heard, rw>>
addr  == <<str, reader, pos, idx, hwaddr>>
trx   == <<lens, prod_id, offsets, file, cur_len, buf, script>>
vars  == <<part, pc, time, mac, store, queue, pins, addr, trx>>

-----------------------------------------------------------------------------
NoTime ==
  /\ count = NULL /\ compare = NULL /\ alarm = NULL /\ pending = NULL /\ isr = NULL /\ age = NULL
  /\ wdticks = NULL /\ wdcount = NULL /\ bite = NULL /\ now = NULL /\ newcount = NULL /\ seen = NULL
  /\ asked = NULL /\ slept = NULL /\ period = NULL /\ due = NULL /\ owed = NULL /\ starved = NULL
NoMac ==
  /\ nvram = NULL /\ robo = NULL /\ at = NULL /\ vid = NULL /\ cur = NULL /\ row = NULL
  /\ val8 = NULL /\ acc = NULL /\ page = NULL /\ data = NULL /\ cmd = NULL /\ regs = NULL
  /\ vtable = NULL /\ arl = NULL /\ chip = NULL /\ internal = NULL /\ phyint = NULL /\ status = NULL
  /\ linkspeed = NULL /\ tries = NULL /\ cam = NULL /\ busy = NULL /\ enet = NULL /\ xmt = NULL
  /\ intmask = NULL
NoStore ==
  /\ up = NULL /\ binding = NULL /\ next = NULL /\ hashtab = NULL /\ nv_pending = NULL
  /\ flash = NULL /\ held = NULL
NoQueue == q_next = NULL /\ q_prev = NULL /\ on = NULL /\ qe = NULL /\ res = NULL
NoPins ==
  /\ prog = NULL /\ call = NULL /\ gpioout = NULL /\ outen = NULL /\ scl = NULL /\ sda = NULL
  /\ ch = NULL /\ ack = NULL /\ slave = NULL /\ n = NULL /\ bits = NULL /\ read = NULL
  /\ pull = NULL /\ hold = NULL /\ heard = NULL /\ rw = NULL
NoAddr == str = NULL /\ reader = NULL /\ pos = NULL /\ idx = NULL /\ hwaddr = NULL
NoTrx ==
  /\ lens = NULL /\ prod_id = NULL /\ offsets = NULL /\ file = NULL /\ cur_len = NULL
  /\ buf = NULL /\ script = NULL

Init ==
  \/ part = "time" /\ Time!Init
     /\ NoMac /\ NoStore /\ NoQueue /\ NoPins /\ NoAddr /\ NoTrx
  \/ part = "mac" /\ Mac!Init
     /\ NoTime /\ NoStore /\ NoQueue /\ NoPins /\ NoAddr /\ NoTrx
  \/ part = "store" /\ Store!Init /\ pc = NULL
     /\ NoTime /\ NoMac /\ NoQueue /\ NoPins /\ NoAddr /\ NoTrx
  \/ part = "queue" /\ Queue!Init /\ pc = NULL
     /\ NoTime /\ NoMac /\ NoStore /\ NoPins /\ NoAddr /\ NoTrx
  \/ part = "pins" /\ Pins!Init /\ pc = NULL
     /\ NoTime /\ NoMac /\ NoStore /\ NoQueue /\ NoAddr /\ NoTrx
  \/ part = "addr" /\ Addr!Init /\ pc = NULL
     /\ NoTime /\ NoMac /\ NoStore /\ NoQueue /\ NoPins /\ NoTrx
  \/ part = "trx" /\ Trx!Init /\ pc = NULL
     /\ NoTime /\ NoMac /\ NoStore /\ NoQueue /\ NoPins /\ NoAddr

TimeNext == part = "time" /\ Time!Next /\ UNCHANGED <<part, mac, store, queue, pins, addr, trx>>
MacNext == part = "mac" /\ Mac!Next /\ UNCHANGED <<part, time, store, queue, pins, addr, trx>>
StoreNext == part = "store" /\ Store!Next /\ UNCHANGED <<part, pc, time, mac, queue, pins, addr, trx>>
QueueNext == part = "queue" /\ Queue!Next /\ UNCHANGED <<part, pc, time, mac, store, pins, addr, trx>>
PinsNext == part = "pins" /\ Pins!Next /\ UNCHANGED <<part, pc, time, mac, store, queue, addr, trx>>
AddrNext == part = "addr" /\ Addr!Next /\ UNCHANGED <<part, pc, time, mac, store, queue, pins, trx>>
TrxNext == part = "trx" /\ Trx!Next /\ UNCHANGED <<part, pc, time, mac, store, queue, pins, addr>>
Next == TimeNext \/ MacNext \/ StoreNext \/ QueueNext \/ PinsNext \/ AddrNext \/ TrxNext

Moves(A) == part = "mac" /\ A /\ UNCHANGED <<part, time, store, queue, pins, addr, trx>>
(* The fairness of MacSetup.                                               *)
LiveSpec ==
  /\ Init /\ [][Next]_vars
  /\ WF_vars(Moves(Mac!Cpu)) /\ WF_vars(Moves(Mac!RoboswCpu))
  /\ WF_vars(Moves(Mac!RoboswCommit)) /\ WF_vars(Moves(Mac!RoboswStore))

-----------------------------------------------------------------------------
(* The variables of the part that moves keep their types.                  *)
TypeOK ==
  /\ part = "time" => Time!TypeOK
  /\ part = "mac" => Mac!TypeOK
  /\ part = "store" => Store!TypeOK
  /\ part = "queue" => Queue!TypeOK
  /\ part = "pins" => Pins!TypeOK
  /\ part = "addr" => Addr!TypeOK
  /\ part = "trx" => Trx!TypeOK

(* timer_isr does not drift, however late it runs and across the wrap.     *)
NoDrift == part = "time" => Time!NoDrift

(* cfe_usleep is not early, and not more than a handler late, but for      *)
(* whole rounds of Count when it ends close before the wrap.               *)
SleepExact == part = "time" => Time!SleepExact

(* The watchdog resets the chip when nobody feeds it, and only then.       *)
WatchdogExact == part = "time" => Time!WatchdogExact

(* The registers of the switch take what robosw_w was asked to write.      *)
AccessesWhole == [][part = "mac" => Mac!Landed]_vars

(* The switch forwards along the VLANs that nvram lists.                   *)
SwitchDescribed == part = "mac" => Mac!SwitchDescribed

(* cfe_ether_init comes to its end through every poll.                     *)
BringUpEnds == part = "mac" => Mac!BringUpEnds

(* bcmnvram.c implements NvStore.                                          *)
StoreKept ==
  /\ part = "store" => Store!Store!Init
  /\ [][part = "store" => [Store!Store!Next]_(Store!Store!vars)]_vars

(* A string that nvram_get returned stays, and no tuple is lost.           *)
ValuesStay == part = "store" => Store!ValuesStay

(* lib_queue.c implements SeqQueue.                                        *)
IsFifo ==
  /\ part = "queue" => Queue!Fifo!Init
  /\ [][part = "queue" => [Queue!Fifo!Next]_(Queue!Fifo!vars)]_vars

(* i2c.c and its slave agree on every byte and on when the bus is free.    *)
BytesHeard == part = "pins" => Pins!BytesHeard

(* lwIP and the MAC get the same Ethernet address out of nvram's string.   *)
AddressesAgree == part = "addr" => Addr!AddressesAgree

(* main.c finds the script where asustrx put it, whole.                    *)
ScriptFound == part = "trx" => Trx!ScriptFound
=============================================================================
