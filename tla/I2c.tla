-------------------------------- MODULE I2c --------------------------------
(***************************************************************************)
(* i2c.c and the GPIO registers of bcm_gpio.c: a master that moves two     *)
(* pins, and a slave that sees nothing but their edges.                    *)
(*                                                                         *)
(* The setters read the levels of both pins (GPIOIN) and write both        *)
(* (GPIOOUT).  A pin that nobody drives rises in a DELAY and not between   *)
(* two accesses to a register: i2c_write needs it, for it lets SDA go      *)
(* while SCL is still high.  The slave holds SCL only where i2c_read waits *)
(* for it.                                                                 *)
(***************************************************************************)
EXTENDS Integers, Sequences, SequencesExt

CONSTANT BITS  \* bound: bits in a byte, 8 in the code

I2cAssumption == BITS \in Nat \ {0}  \* assumed in Parts

VARIABLES
  prog, call,          \* the rest of the call; what it was called with
  gpioout, outen,      \* GPIOOUT and GPIOOUTEN of both pins
  scl, sda,            \* the levels
  ch, ack,             \* bits read; res of i2c_write
  slave,               \* "off", "rx", "ack", "nack", "tx", "wait", "more"
  n, bits, read,       \* bits done; the byte; it is the one that asks to read
  pull, hold,          \* the slave pulls SDA, SCL
  heard,               \* the last byte it received or sent, and its acknowledgement
  rw                   \* what the script may do next: "start", "write", "read"

master == <<gpioout, outen, ch, ack>>
device == <<slave, n, bits, read, pull, hold, heard>>
vars == <<prog, call, scl, sda, master, device, rw>>

Bytes == [1..BITS -> 0..1]
Scl(v) == [op |-> "scl", v |-> v]
Sda(v) == [op |-> "sda", v |-> v]
Op(o) == [op |-> o, v |-> 0]
Delay == Op("delay")

Init ==  \* after i2c_init
  /\ prog = <<>> /\ call = [fn |-> "none"]
  /\ gpioout = [scl |-> 1, sda |-> 1] /\ outen = {"scl", "sda"} /\ scl = 1 /\ sda = 1
  /\ ch = <<>> /\ ack = 0
  /\ slave = "off" /\ n = 0 /\ bits = <<>> /\ read = FALSE /\ pull = FALSE /\ hold = FALSE
  /\ heard = [byte |-> <<>>, ack |-> FALSE]
  /\ rw = "start"

-----------------------------------------------------------------------------
(* i2c_write and i2c_read as sequences of what they do to the pins.        *)

\* Definitions whose names end in _Mut are faulty variants of the definition that
\* follows them; no other definition uses them.  They show that the properties bite.
WriteBit_Mut(b) == <<Sda(b), Scl(0), Delay, Scl(1), Delay>>  \* SDA first
WriteBit(b) == <<Scl(0), Sda(b), Delay, Scl(1), Delay>>
WriteProg(byte, start) ==
  <<Op("out")>> \o (IF start THEN <<Sda(0)>> ELSE <<>>) \o <<Delay>>
  \o FlattenSeq([i \in 1..BITS |-> WriteBit(byte[i])])
  \o <<Op("in"), Scl(0), Delay, Scl(1), Op("ack"), Delay, Scl(0), Delay, Op("end")>>

StopProg == <<Op("out"), Sda(0), Scl(1), Delay, Sda(1)>>

ReadProg(stop) ==
  <<Op("in"), Op("sclin"), Op("wait"), Op("bit"), Op("sclout")>>
  \o FlattenSeq([i \in 1..BITS - 1 |-> <<Scl(0), Delay, Scl(1), Op("bit"), Delay>>])
  \o <<Scl(0), Op("out"), Sda(IF stop THEN 1 ELSE 0), Delay, Scl(1), Delay, Scl(0), Delay>>
  \o (IF stop THEN <<Scl(1), Delay, Sda(1), Delay>> ELSE <<>>)

(* The script: a start on an idle bus, then what the address asks for.  A  *)
(* start after a byte without stop makes no start condition (see README).  *)
Write ==
  /\ call.fn = "none" /\ rw \in {"start", "write"}
  /\ \E byte \in Bytes, stop \in BOOLEAN :
       /\ rw = "start" /\ byte[BITS] = 1 => ~stop  \* a read is asked for
       /\ call' = [fn |-> "write", byte |-> byte, stop |-> stop, start |-> rw = "start"]
       /\ prog' = WriteProg(byte, rw = "start")
  /\ ch' = <<>> /\ ack' = 0
  /\ UNCHANGED <<gpioout, outen, scl, sda, device, rw>>

Read ==
  /\ call.fn = "none" /\ rw = "read"
  /\ \E stop \in BOOLEAN : call' = [fn |-> "read", stop |-> stop] /\ prog' = ReadProg(stop)
  /\ ch' = <<>>
  /\ UNCHANGED <<gpioout, outen, ack, scl, sda, device, rw>>

-----------------------------------------------------------------------------
(* The slave (external): what an edge makes of it.  d is its state.        *)

D == [slave |-> slave, n |-> n, bits |-> bits, read |-> read, pull |-> pull, hold |-> hold,
      heard |-> heard]
Becomes(d) ==
  /\ slave' = d.slave /\ n' = d.n /\ bits' = d.bits
  /\ read' = d.read /\ pull' = d.pull /\ hold' = d.hold /\ heard' = d.heard

Condition(s1, s2) ==  \* SDA moves while SCL is high
  IF s2 = 0 THEN [D EXCEPT !.slave = "rx", !.n = 0, !.bits = <<>>, !.read = TRUE, !.pull = FALSE]
            ELSE [D EXCEPT !.slave = "off", !.pull = FALSE]
Rises ==
  CASE slave = "rx" -> [D EXCEPT !.n = n + 1, !.bits = Append(bits, sda)]
    [] slave = "tx" -> [D EXCEPT !.n = n + 1]
    [] slave = "wait" -> [D EXCEPT !.slave = IF sda = 0 THEN "more" ELSE "off"]
    [] OTHER -> D
Sends(h) ==  \* a byte of its own, the first bit of it
  {[D EXCEPT !.slave = "tx", !.n = 0, !.bits = b, !.pull = (b[1] = 0), !.hold = h] : b \in Bytes}
Falls ==
  CASE slave = "rx" /\ n = BITS -> 
         {[D EXCEPT !.slave = "ack", !.pull = TRUE, !.heard = [byte |-> bits, ack |-> TRUE]],
          [D EXCEPT !.slave = "nack", !.heard = [byte |-> bits, ack |-> FALSE]]}
    [] slave = "nack" -> {[D EXCEPT !.slave = "off"]}
    [] slave = "ack" /\ read /\ bits[BITS] = 1 -> UNION {Sends(h) : h \in BOOLEAN}
    [] slave = "ack" /\ ~(read /\ bits[BITS] = 1) ->
         {[D EXCEPT !.slave = "rx", !.n = 0, !.bits = <<>>, !.read = FALSE, !.pull = FALSE]}
    [] slave = "tx" /\ n < BITS -> {[D EXCEPT !.pull = (bits[n + 1] = 0)]}
    [] slave = "tx" /\ n >= BITS ->
         {[D EXCEPT !.slave = "wait", !.pull = FALSE, !.heard = [byte |-> bits, ack |-> TRUE]]}
    [] slave = "more" -> UNION {Sends(h) : h \in BOOLEAN}
    [] OTHER -> {D}

(* A pin: who drives it, or what pulls it, or the level that it had.       *)
Level(pin, out, en, low, old) == IF pin \in en THEN out[pin] ELSE IF low THEN 0 ELSE old
Pins(out, en, oldscl, oldsda) ==
  LET c == Level("scl", out, en, hold, oldscl)
      d == Level("sda", out, en, pull, oldsda)
  IN /\ scl' = c
     /\ \E e \in IF c # scl THEN IF c = 1 THEN {Rises} ELSE Falls
                 ELSE IF c = 1 /\ d # sda THEN {Condition(sda, d)} ELSE {D} :
          /\ Becomes(e)
          /\ sda' = Level("sda", out, en, e.pull, d)

-----------------------------------------------------------------------------
(* One access to a pin.  The setters write both pins as they read them.    *)
Is(o) == prog # <<>> /\ Head(prog).op = o
Keep == UNCHANGED <<call, rw>>

SetPin ==
  /\ Is("scl") \/ Is("sda")
  /\ LET o == Head(prog)
         out == [[scl |-> scl, sda |-> sda] EXCEPT ![o.op] = o.v]
     IN gpioout' = out /\ Pins(out, outen, scl, sda)
  /\ prog' = Tail(prog) /\ Keep
  /\ UNCHANGED <<outen, ch, ack>>

SetDir ==
  /\ Is("in") \/ Is("out") \/ Is("sclin") \/ Is("sclout")
  /\ outen' = CASE Is("in") -> outen \ {"sda"} [] Is("out") -> outen \cup {"sda"}
                [] Is("sclin") -> outen \ {"scl"} [] OTHER -> outen \cup {"scl"}
  /\ Pins(gpioout, outen', scl, sda)
  /\ prog' = Tail(prog) /\ Keep
  /\ UNCHANGED <<gpioout, ch, ack>>

Wait ==  \* DELAY: what nobody drives rises; and the wait for SCL, by delays
  /\ \/ Is("delay") /\ prog' = Tail(prog)
     \/ Is("wait") /\ prog' = IF scl = 1 THEN Tail(prog) ELSE prog
  /\ IF Is("wait") /\ scl = 1 THEN UNCHANGED <<scl, sda, device>>
     ELSE Pins(gpioout, outen, 1, 1)
  /\ Keep /\ UNCHANGED master

ReadPin ==  \* readsda, for a bit or up to 1000 times for the acknowledgement
  /\ Is("bit") \/ Is("ack")
  /\ IF Is("bit") THEN ch' = Append(ch, sda) /\ UNCHANGED ack
                  ELSE ack' = 1 - sda /\ UNCHANGED ch
  /\ prog' = Tail(prog) /\ Keep
  /\ UNCHANGED <<gpioout, outen, scl, sda, device>>

StopOrNot ==  \* the last test of i2c_write
  /\ Is("end")
  /\ prog' = (IF call.stop \/ ack = 0 THEN StopProg ELSE <<>>)
  /\ UNCHANGED <<call, scl, sda, master, device, rw>>

Return ==
  /\ prog = <<>> /\ call.fn # "none"
  /\ rw' = IF call.stop \/ (call.fn = "write" /\ ack = 0) THEN "start"
           ELSE IF call.fn = "read" \/ (call.start /\ call.byte[BITS] = 1) THEN "read" ELSE "write"
  /\ call' = [fn |-> "none"]
  /\ UNCHANGED <<prog, scl, sda, master, device>>

LetGo ==  \* the slave ends its hold on SCL
  /\ hold /\ hold' = FALSE
  /\ UNCHANGED <<prog, call, scl, sda, master, slave, n, bits, read, pull, heard, rw>>

Next == Write \/ Read \/ SetPin \/ SetDir \/ Wait \/ ReadPin \/ StopOrNot \/ Return \/ LetGo
Spec == Init /\ [][Next]_vars

-----------------------------------------------------------------------------
TypeOK ==
  /\ scl \in 0..1 /\ sda \in 0..1 /\ ack \in 0..1 /\ outen \subseteq {"scl", "sda"}
  /\ Len(ch) <= BITS /\ Len(bits) <= BITS /\ n \in 0..BITS

(* When i2c_write or i2c_read comes back, the byte that one side put on    *)
(* the pins is the byte that the other took from them, i2c_write returns   *)
(* what the slave acknowledged, and the slave is left alone, on an idle    *)
(* bus, exactly when the call stopped or was not acknowledged: nothing     *)
(* that the driver does to the pins on the way was a start or a stop, or   *)
(* one clock too many, to the slave.                                       *)
BytesHeard ==
  prog = <<>> /\ call.fn # "none" =>
    /\ heard.byte = IF call.fn = "write" THEN call.byte ELSE ch
    /\ call.fn = "write" => (ack = 1) = heard.ack
    /\ LET ends == call.stop \/ ~heard.ack IN
       /\ (slave = "off") = ends
       /\ ends => scl = 1 /\ sda = 1
=============================================================================
