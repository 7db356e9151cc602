----------------------------- MODULE HttpClient -----------------------------
(***************************************************************************)
(* The TCP client of net.c and the socket callbacks of bear.c: the script  *)
(* calls http_connect (https_connect), http_read (sock_read), sock_write   *)
(* and http_close in the foreground; lwIP (external) calls http_connected, *)
(* http_recv, http_err and http_poll from the timer interrupt.  Both sides *)
(* share tcpbuff, tcplen, tcpoff and tcpstat.                              *)
(*                                                                         *)
(* A callback runs inside the interrupt, so it is one step; the foreground *)
(* takes one step for each access to the shared variables, and one for a   *)
(* section between cli and sti.  A connection is its number; a byte is its *)
(* connection and its position in the response.                            *)
(***************************************************************************)
EXTENDS Integers, FiniteSets

CONSTANTS
  BufSize,    \* sizeof tcpbuff
  SndBuf,     \* TCP_SND_BUF
  MaxRead,    \* the len of http_read is 1..MaxRead
  MaxWrite,   \* the len of sock_write is 1..MaxWrite
  StreamLen,  \* bound: bytes of a response
  RequestLen, \* bound: bytes of a request
  MaxConns    \* bound: connections made

ASSUME SizesAssumption ==
  /\ BufSize \in Nat \ {0} /\ SndBuf \in Nat /\ MaxRead \in Nat /\ MaxWrite \in Nat
  /\ StreamLen \in Nat /\ RequestLen \in Nat /\ MaxConns \in Nat

VARIABLES
  tcpbuff, tcplen, tcpoff, tcpstat,
  conn,    \* tcphttp_raw_pcb
  pcb,     \* lwIP's state of each connection
  pc,      \* where the foreground is
  want,    \* the len of the read in progress
  result,  \* what the last http_read returned: "none", "zero", "data", "end"
  open,    \* the last http_connect returned 1
  sent,    \* bytes of the response handed to http_recv so far
  nread,   \* bytes the script has read of the current connection
  claimed, \* bytes the foreground takes for written
  queued,  \* bytes tcp_write has taken
  acked    \* of those, bytes the peer has acknowledged

shared == <<tcpbuff, tcplen, tcpoff, tcpstat>>
fg     == <<pc, want, result, open>>
ghosts == <<sent, nread>>
output == <<claimed, queued, acked>>
vars   == <<shared, conn, pcb, fg, ghosts, output>>

Conns  == 1..MaxConns
Slots  == 0..(BufSize - 1)
Byte(c, i) == [conn |-> c, pos |-> i]
NoByte == Byte(0, 0)

Init ==
  /\ tcpbuff = [s \in Slots |-> NoByte] /\ tcplen = 0 /\ tcpoff = 0 /\ tcpstat = 0
  /\ conn = 0 /\ pcb = [c \in Conns |-> "none"]
  /\ pc = "idle" /\ want = 0 /\ result = "none" /\ open = FALSE
  /\ sent = 0 /\ nread = 0
  /\ claimed = 0 /\ queued = 0 /\ acked = 0

-----------------------------------------------------------------------------
(* Foreground: tcphttp_raw_init, then the wait for the connection.         *)

\* The script waits for the end of one connection before it makes the next.
Alive(c) == pcb[c] \in {"syn", "up", "eof", "closing"}

\* tcp_new_ip_type and the registration of the callbacks.
TcpNew ==
  /\ pc = "idle" /\ ~open /\ conn < MaxConns
  /\ \A c \in Conns : ~Alive(c)
  /\ conn' = conn + 1
  /\ pc' = "tcpconnect" /\ result' = "none"
  /\ UNCHANGED <<shared, pcb, want, open, ghosts, output>>

\* The result of tcp_connect is ignored: without a route nothing is sent.
TcpConnect ==
  /\ pc = "tcpconnect"
  /\ \E s \in {"syn", "none"} : pcb' = [pcb EXCEPT ![conn] = s]
  /\ pc' = "clear"
  /\ UNCHANGED <<shared, conn, want, result, open, ghosts, output>>

\* Definitions whose names end in _Mut are faulty variants of the definition that
\* follows them; no other definition uses them.  They show that the properties bite.
StatCleared_Mut == tcpstat  \* keeps the status of the connection before
\* tcpstat is cleared after the connection attempt has begun.
StatCleared == 0
ClearStat ==
  /\ pc = "clear"
  /\ tcpstat' = StatCleared
  /\ pc' = "wait"
  /\ UNCHANGED <<tcpbuff, tcplen, tcpoff, conn, pcb, want, result, open, ghosts, output>>

\* while (tcpstat == 0) delay_ms(10); then the caller tests it once more.
Wait ==
  /\ pc = "wait" /\ tcpstat # 0
  /\ pc' = "test"
  /\ UNCHANGED <<shared, conn, pcb, want, result, open, ghosts, output>>

\* my_tcp_write hands over what the send buffer has room for.
Taken(n, room) == IF n <= room THEN n ELSE room

(* http_connect then writes the request header, and reports nothing of it; *)
(* https_connect writes nothing.                                           *)
Established ==
  /\ pc = "test"
  /\ pc' = "idle" /\ open' = (tcpstat = 1)
  /\ \E n \in IF tcpstat = 1 THEN 0..RequestLen ELSE {0} :
       claimed' = Taken(n, SndBuf) /\ queued' = Taken(n, SndBuf)
  /\ acked' = 0
  /\ UNCHANGED <<shared, conn, pcb, want, result, ghosts>>

-----------------------------------------------------------------------------
(* Foreground: read, write, close.                                         *)

\* tcplen is tested before interrupts are disabled.
ReadTest ==
  /\ pc = "idle" /\ open
  /\ \E n \in 1..MaxRead : want' = n
  /\ pc' = IF tcplen # 0 THEN "copy" ELSE "stat"
  /\ UNCHANGED <<shared, conn, pcb, result, open, ghosts, output>>

ReadLen == IF tcplen > want THEN want ELSE tcplen
\* Between cli and sti.
ReadCopy ==
  /\ pc = "copy"
  /\ tcplen' = tcplen - ReadLen /\ tcpoff' = tcpoff + ReadLen
  /\ nread' = nread + ReadLen
  /\ pc' = "idle" /\ result' = "data"
  /\ UNCHANGED <<tcpbuff, tcpstat, conn, pcb, want, open, sent, output>>

\* else if (tcpstat >= 2): a tcplen that has grown in between is not seen.
ReadStat ==
  /\ pc = "stat"
  /\ result' = IF tcpstat >= 2 THEN "end" ELSE "zero"
  /\ pc' = "idle"
  /\ UNCHANGED <<shared, conn, pcb, want, open, ghosts, output>>

\* sock_write reports that it has written all it was given.
Write ==
  /\ pc = "idle" /\ open /\ pcb[conn] \in {"up", "eof"}
  /\ \E n \in 1..MaxWrite :
       /\ claimed + n <= RequestLen
       /\ queued' = queued + Taken(n, SndBuf - (queued - acked))
       /\ claimed' = claimed + n
  /\ UNCHANGED <<shared, conn, pcb, fg, ghosts, acked>>

\* http_close, https_close: on a connection that lwIP has not freed.
Close ==
  /\ pc = "idle" /\ open
  /\ open' = FALSE /\ result' = "none"
  /\ pcb' = [pcb EXCEPT ![conn] = IF Alive(conn) THEN "closing" ELSE @]
  /\ UNCHANGED <<shared, conn, pc, want, ghosts, output>>

-----------------------------------------------------------------------------
(* Interrupt: the callbacks of lwIP (external) for connection c.           *)

Connected(c) ==
  /\ pcb[c] = "syn" /\ pcb' = [pcb EXCEPT ![c] = "up"]
  /\ tcplen' = 0 /\ tcpoff' = 0 /\ tcpstat' = 1
  /\ sent' = 0 /\ nread' = 0
  /\ UNCHANGED <<tcpbuff, conn, fg, output>>

RecvOff == IF tcplen = 0 THEN 0 ELSE tcpoff
RecvAt_Mut(off) == off          \* forgets what is still unread
RecvAt(off) == off + tcplen
(* http_recv.  It does not check for room: that the peer sends no more     *)
(* than fits behind what the script has yet to read is an assumption.      *)
Recv(c) ==
  /\ pcb[c] = "up"
  /\ \E k \in 1..(StreamLen - sent) :
       /\ RecvOff + tcplen + k <= BufSize
       /\ tcpbuff' = [s \in Slots |-> IF s \in RecvAt(RecvOff)..(RecvAt(RecvOff) + k - 1)
                                      THEN Byte(c, sent + 1 + s - RecvAt(RecvOff))
                                      ELSE tcpbuff[s]]
       /\ tcplen' = tcplen + k /\ sent' = sent + k
  /\ tcpoff' = RecvOff
  /\ UNCHANGED <<tcpstat, conn, pcb, fg, nread, output>>

\* http_recv without a pbuf: the peer has closed.
Fin(c) ==
  /\ pcb[c] \in {"up", "closing"}
  /\ pcb' = [pcb EXCEPT ![c] = IF @ = "up" THEN "eof" ELSE "gone"]
  /\ tcpstat' = 2
  /\ UNCHANGED <<tcpbuff, tcplen, tcpoff, conn, fg, ghosts, output>>

\* http_err, on a reset.
Err(c) ==
  /\ Alive(c)
  /\ pcb' = [pcb EXCEPT ![c] = "gone"] /\ tcpstat' = 3
  /\ UNCHANGED <<tcpbuff, tcplen, tcpoff, conn, fg, ghosts, output>>

AbortStat_Mut == tcpstat  \* aborts without a word to the script
AbortStat == 3
\* http_poll aborts, every 60 coarse ticks, whatever the connection is doing.
Poll(c) ==
  /\ Alive(c)
  /\ pcb' = [pcb EXCEPT ![c] = "gone"] /\ tcpstat' = AbortStat
  /\ UNCHANGED <<tcpbuff, tcplen, tcpoff, conn, fg, ghosts, output>>

\* The last acknowledgement of a connection both sides have closed.
Freed(c) ==
  /\ pcb[c] = "closing" /\ pcb' = [pcb EXCEPT ![c] = "gone"]
  /\ UNCHANGED <<shared, conn, fg, ghosts, output>>

Acked ==
  /\ acked < queued /\ acked' = queued
  /\ UNCHANGED <<shared, conn, pcb, fg, ghosts, claimed, queued>>

-----------------------------------------------------------------------------
Connect == TcpNew \/ TcpConnect \/ ClearStat \/ Wait \/ Established
Read    == ReadTest \/ ReadCopy \/ ReadStat
Lwip(c) == Connected(c) \/ Recv(c) \/ Fin(c) \/ Err(c) \/ Poll(c) \/ Freed(c)
Next == Connect \/ Read \/ Write \/ Close \/ Acked \/ \E c \in Conns : Lwip(c)
Spec == Init /\ [][Next]_vars

(* The foreground keeps running, and lwIP polls a connection that does not *)
(* end otherwise.  Neither an answer of the peer nor a read is promised.   *)
LiveSpec ==
  Spec /\ WF_vars(TcpConnect \/ ClearStat \/ Wait \/ Established)
       /\ \A c \in Conns : WF_vars(Poll(c))

-----------------------------------------------------------------------------
(* While a connection is up, or has ended with data yet to be read, the     *)
(* unread part of tcpbuff is exactly what follows the bytes read so far, in *)
(* order, none lost or repeated, whatever http_recv and the cli/sti section *)
(* of http_read do to tcplen and tcpoff in turn.                           *)
StreamIntegrity ==
  open \/ (conn # 0 /\ pcb[conn] \in {"up", "eof"}) =>
    /\ nread + tcplen = sent
    /\ tcpoff + tcplen <= BufSize
    /\ \A i \in 0..(tcplen - 1) : tcpbuff[tcpoff + i] = Byte(conn, nread + 1 + i)

(* A read reports the end only after the peer has closed or the connection  *)
(* has failed, and http_connect reports failure only then, although tcpstat *)
(* still says how the connection before ended when the new one begins.     *)
StatusTruthful ==
  /\ result = "end" => pcb[conn] \in {"eof", "gone"}
  /\ pc \in {"wait", "test"} =>
       /\ tcpstat >= 2 => pcb[conn] \in {"eof", "gone"}
       /\ tcpstat = 1 => pcb[conn] = "up"

(* sock_write reports what it was given; these bytes have to go to the      *)
(* wire: "we make sure that all our request bytes are sent onto the wire"   *)
(* (bear.c:232).                                                           *)
RequestSent == claimed = queued

(* http_connect returns when the attempt is alive as the wait begins, also  *)
(* if the connected event came before tcpstat was cleared and is lost:      *)
(* http_poll ends the wait.  (A connection that fails in that window leaves *)
(* nothing to end it.)                                                     *)
ConnectReturns ==
  pc = "wait" /\ (Alive(conn) \/ tcpstat # 0) ~> pc = "idle"
=============================================================================
