-------------------------- MODULE HttpClientProofs --------------------------
(***************************************************************************)
(* Proofs about the TCP client of net.c (HttpClient), for every size of    *)
(* buffer, length of read, write, request and response, and any number of  *)
(* connections.                                                            *)
(***************************************************************************)
EXTENDS HttpClient, TLAPS

States == {"none", "syn", "up", "eof", "closing", "gone"}
Connecting == {"tcpconnect", "clear", "wait", "test"}
Reading == {"copy", "stat"}

Types ==
  /\ tcplen \in Nat /\ tcpoff \in Nat /\ tcpstat \in 0..3
  /\ conn \in 0..MaxConns /\ pcb \in [Conns -> States]
  /\ pc \in {"idle"} \cup Connecting \cup Reading /\ open \in BOOLEAN /\ want \in Nat
  /\ sent \in Nat /\ nread \in Nat

(* Only the connection made last may still be alive; a read belongs to an  *)
(* open one, and what http_close has shut down is not open.                *)
PcbInv ==
  /\ \A c \in Conns : c > conn => pcb[c] = "none"
  /\ \A c \in Conns : c # conn => pcb[c] \in {"none", "gone"}
  /\ pc \in Connecting => conn # 0 /\ ~open /\ result = "none" /\ pcb[conn] # "closing"
  /\ pc = "tcpconnect" => pcb[conn] = "none"
  /\ open => conn # 0 /\ pcb[conn] # "closing"
  /\ pc \in Reading => open

(* From the moment tcpstat is cleared it speaks of this connection.        *)
StatInv ==
  /\ pc \in {"wait", "test"} \/ open =>
       /\ tcpstat >= 2 => pcb[conn] \in {"eof", "gone"}
       /\ tcpstat = 1 => pcb[conn] = "up"
  /\ result = "end" => open /\ pcb[conn] \in {"eof", "gone"}

InUse == open \/ (conn # 0 /\ pcb[conn] \in {"up", "eof"})

Unread ==
  /\ nread + tcplen = sent
  /\ tcpoff + tcplen <= BufSize
  /\ \A i \in 0..(tcplen - 1) : tcpbuff[tcpoff + i] = Byte(conn, nread + 1 + i)

StreamInv == InUse => Unread

ClientInv == Types /\ PcbInv /\ StatInv /\ StreamInv

-----------------------------------------------------------------------------
LEMMA Sizes == /\ BufSize \in Nat \ {0} /\ SndBuf \in Nat /\ MaxRead \in Nat /\ MaxWrite \in Nat
               /\ StreamLen \in Nat /\ RequestLen \in Nat /\ MaxConns \in Nat
  BY SizesAssumption

LEMMA ConnectKeeps ==
  ASSUME ClientInv, Connect
  PROVE  Types' /\ PcbInv' /\ StatInv'
<1> USE Sizes
<1>1. CASE TcpNew
  BY <1>1 DEF TcpNew, Alive, ClientInv, Types, PcbInv, StatInv, shared, ghosts, output, Conns, States,
     Connecting, Reading
<1>2. CASE TcpConnect
  BY <1>2 DEF TcpConnect, ClientInv, Types, PcbInv, StatInv, shared, ghosts, output, Conns, States,
     Connecting, Reading
<1>3. CASE ClearStat
  BY <1>3 DEF ClearStat, StatCleared, ClientInv, Types, PcbInv, StatInv, shared, ghosts, output,
     Conns, States, Connecting, Reading
<1>4. CASE Wait
  BY <1>4 DEF Wait, ClientInv, Types, PcbInv, StatInv, shared, ghosts, output, Connecting, Reading
<1>5. CASE Established
  BY <1>5 DEF Established, ClientInv, Types, PcbInv, StatInv, shared, ghosts, output, Connecting,
     Reading
<1>6. QED
  BY <1>1, <1>2, <1>3, <1>4, <1>5 DEF Connect

LEMMA ScriptKeeps ==
  ASSUME ClientInv, Read \/ Write \/ Close \/ Acked \/ UNCHANGED vars
  PROVE  Types' /\ PcbInv' /\ StatInv'
<1> USE Sizes
<1>1. CASE ReadTest
  BY <1>1 DEF ReadTest, ClientInv, Types, PcbInv, StatInv, shared, ghosts, output, Connecting, Reading
<1>2. CASE ReadCopy
  BY <1>2 DEF ReadCopy, ReadLen, ClientInv, Types, PcbInv, StatInv, shared, ghosts, output,
     Connecting, Reading
<1>3. CASE ReadStat
  BY <1>3 DEF ReadStat, ClientInv, Types, PcbInv, StatInv, shared, ghosts, output, Connecting, Reading
<1>4. CASE Write
  BY <1>4 DEF Write, ClientInv, Types, PcbInv, StatInv, shared, fg, ghosts, Connecting, Reading
<1>5. CASE Close
  BY <1>5 DEF Close, Alive, ClientInv, Types, PcbInv, StatInv, shared, ghosts, output, Conns, States,
     Connecting, Reading
<1>6. CASE Acked \/ UNCHANGED vars
  BY <1>6 DEF Acked, vars, ClientInv, Types, PcbInv, StatInv, shared, fg, ghosts, Connecting, Reading
<1>7. QED
  BY <1>1, <1>2, <1>3, <1>4, <1>5, <1>6 DEF Read

(* lwIP calls back for the connection made last only.                      *)
LEMMA LwipOne ==
  ASSUME Types, PcbInv, NEW c \in Conns, Lwip(c)
  PROVE  c = conn /\ conn # 0 /\ pcb[c] \in {"syn", "up", "eof", "closing"}
<1>1. pcb[c] \in {"syn", "up", "eof", "closing"}
  BY DEF Lwip, Connected, Recv, Fin, Err, Poll, Freed, Alive
<1>2. QED
  BY <1>1, Sizes DEF PcbInv, Conns

LEMMA LwipKeeps ==
  ASSUME ClientInv, NEW c \in Conns, Lwip(c)
  PROVE  Types' /\ PcbInv' /\ StatInv'
<1> USE Sizes
<1>1. c = conn /\ conn # 0 /\ conn \in Conns
  BY LwipOne DEF ClientInv
<1>2. CASE Connected(c)
  BY <1>1, <1>2 DEF Connected, ClientInv, Types, PcbInv, StatInv, fg, Conns, States, Connecting, Reading
<1>3. CASE Recv(c)
  <2>1. PICK k \in 1..(StreamLen - sent) : tcplen' = tcplen + k /\ sent' = sent + k
    BY <1>3 DEF Recv
  <2>2. tcplen' \in Nat /\ sent' \in Nat /\ tcpoff' \in Nat
    BY <1>3, <2>1 DEF Recv, RecvOff, ClientInv, Types
  <2>3. UNCHANGED <<tcpstat, conn, pcb, fg, nread>>
    BY <1>3 DEF Recv
  <2>4. QED
    BY <2>2, <2>3 DEF ClientInv, Types, PcbInv, StatInv, fg
<1>4. CASE Fin(c)
  BY <1>1, <1>4 DEF Fin, ClientInv, Types, PcbInv, StatInv, fg, ghosts, Conns, States, Connecting, Reading
<1>5. CASE Err(c)
  BY <1>1, <1>5 DEF Err, Alive, ClientInv, Types, PcbInv, StatInv, fg, ghosts, Conns, States,
     Connecting, Reading
<1>6. CASE Poll(c)
  BY <1>1, <1>6 DEF Poll, AbortStat, Alive, ClientInv, Types, PcbInv, StatInv, fg, ghosts, Conns,
     States, Connecting, Reading
<1>7. CASE Freed(c)
  BY <1>1, <1>7 DEF Freed, ClientInv, Types, PcbInv, StatInv, shared, fg, ghosts, Conns, States,
     Connecting, Reading
<1>8. QED
  BY <1>2, <1>3, <1>4, <1>5, <1>6, <1>7 DEF Lwip

-----------------------------------------------------------------------------
(* The unread bytes: who does not touch the buffer does not bring a        *)
(* connection into use either, except Connected, which empties it.         *)

LEMMA BufferStays ==
  ASSUME StreamInv, UNCHANGED <<tcpbuff, tcplen, tcpoff, sent, nread, conn>>, InUse' => InUse
  PROVE  StreamInv'
  BY DEF StreamInv, Unread

LEMMA ConnectStream ==
  ASSUME ClientInv, Connect
  PROVE  StreamInv'
<1> USE Sizes
<1>1. CASE TcpNew
  <2>1. ~InUse'
    BY <1>1 DEF TcpNew, ClientInv, Types, PcbInv, InUse, Conns
  <2>2. QED
    BY <2>1 DEF StreamInv
<1>2. CASE TcpConnect
  <2>1. ~InUse'
    BY <1>2 DEF TcpConnect, ClientInv, Types, PcbInv, InUse, Conns, Connecting
  <2>2. QED
    BY <2>1 DEF StreamInv
<1>3. CASE ClearStat \/ Wait
  BY <1>3, BufferStays DEF ClearStat, Wait, ClientInv, InUse, shared, ghosts
<1>4. CASE Established
  <2>1. InUse' => InUse
    BY <1>4 DEF Established, ClientInv, PcbInv, StatInv, InUse, Connecting
  <2>2. QED
    BY <1>4, <2>1, BufferStays DEF Established, ClientInv, shared, ghosts
<1>5. QED
  BY <1>1, <1>2, <1>3, <1>4 DEF Connect

(* http_read takes bytes from the front.                                   *)
LEMMA CopyStream ==
  ASSUME ClientInv, ReadCopy
  PROVE  StreamInv'
<1>1. /\ tcplen' = tcplen - ReadLen /\ tcpoff' = tcpoff + ReadLen /\ nread' = nread + ReadLen
      /\ UNCHANGED <<tcpbuff, sent>>
  BY DEF ReadCopy
<1>2. /\ tcplen \in Nat /\ tcpoff \in Nat /\ nread \in Nat /\ sent \in Nat /\ want \in Nat
      /\ ReadLen \in Nat /\ ReadLen <= tcplen /\ BufSize \in Nat
  BY Sizes DEF ClientInv, Types, ReadLen
<1>3. Unread
  BY DEF ReadCopy, ClientInv, PcbInv, StreamInv, InUse, Reading
<1>4. nread' + tcplen' = sent' /\ tcpoff' + tcplen' <= BufSize
  BY <1>1, <1>2, <1>3 DEF Unread
<1>5. ASSUME NEW i \in 0..(tcplen' - 1)
      PROVE  tcpbuff'[tcpoff' + i] = Byte(conn', nread' + 1 + i)
  <2> DEFINE j == ReadLen + i
  <2>1. j \in 0..(tcplen - 1) /\ tcpoff' + i = tcpoff + j /\ nread' + 1 + i = nread + 1 + j
    BY <1>1, <1>2
  <2> HIDE DEF j
  <2>2. tcpbuff[tcpoff + j] = Byte(conn, nread + 1 + j)
    BY <1>3, <2>1 DEF Unread
  <2>3. UNCHANGED conn
    BY DEF ReadCopy
  <2>4. QED
    BY <1>1, <2>1, <2>2, <2>3
<1>6. QED
  BY <1>4, <1>5 DEF StreamInv, Unread

LEMMA ScriptStream ==
  ASSUME ClientInv, Read \/ Write \/ Close \/ Acked \/ UNCHANGED vars
  PROVE  StreamInv'
<1>1. CASE ReadTest \/ ReadStat \/ Write \/ Acked \/ UNCHANGED vars
  BY <1>1, BufferStays DEF ReadTest, ReadStat, Write, Acked, vars, ClientInv, InUse, shared, fg, ghosts
<1>2. CASE ReadCopy
  BY <1>2, CopyStream
<1>3. CASE Close
  <2>1. InUse' => InUse
    BY <1>3 DEF Close, InUse
  <2>2. QED
    BY <1>3, <2>1, BufferStays DEF Close, ClientInv, shared, ghosts
<1>4. QED
  BY <1>1, <1>2, <1>3 DEF Read

(* http_recv puts bytes behind the unread ones.                            *)
LEMMA RecvStream ==
  ASSUME ClientInv, NEW c \in Conns, Recv(c)
  PROVE  StreamInv'
<1> DEFINE at == RecvOff + tcplen
<1>1. PICK k \in 1..(StreamLen - sent) :
        /\ RecvOff + tcplen + k <= BufSize
        /\ tcpbuff' = [s \in Slots |-> IF s \in at..(at + k - 1)
                                       THEN Byte(c, sent + 1 + s - at) ELSE tcpbuff[s]]
        /\ tcplen' = tcplen + k /\ sent' = sent + k
  BY DEF Recv, RecvAt
<1>2. tcpoff' = RecvOff /\ UNCHANGED <<conn, nread>> /\ pcb[c] = "up"
  BY DEF Recv
<1>3. c = conn /\ conn # 0
  BY LwipOne DEF ClientInv, Lwip
<1>4. Unread
  BY <1>2, <1>3 DEF ClientInv, StreamInv, InUse
<1>5. /\ tcplen \in Nat /\ tcpoff \in Nat /\ nread \in Nat /\ sent \in Nat /\ k \in Nat
      /\ RecvOff \in Nat /\ BufSize \in Nat /\ (tcplen # 0 => RecvOff = tcpoff)
  BY <1>1, Sizes DEF ClientInv, Types, RecvOff
<1>6. nread' + tcplen' = sent' /\ tcpoff' + tcplen' <= BufSize
  BY <1>1, <1>2, <1>4, <1>5 DEF Unread
<1>7. ASSUME NEW i \in 0..(tcplen' - 1)
      PROVE  tcpbuff'[tcpoff' + i] = Byte(conn', nread' + 1 + i)
  <2> DEFINE s == RecvOff + i
  <2>1. i \in Nat /\ i < tcplen + k /\ s \in Slots
    BY <1>1, <1>5, <1>7 DEF Slots
  <2>2. CASE i < tcplen
    <3>1. s \notin at..(at + k - 1) /\ i \in 0..(tcplen - 1) /\ s = tcpoff + i
      BY <1>5, <2>1, <2>2
    <3>2. tcpbuff'[s] = tcpbuff[s]
      BY <1>1, <2>1, <3>1
    <3>3. tcpbuff[tcpoff + i] = Byte(conn, nread + 1 + i)
      BY <1>4, <3>1 DEF Unread
    <3>4. QED
      BY <1>2, <3>1, <3>2, <3>3
  <2>3. CASE ~(i < tcplen)
    <3>1. s \in at..(at + k - 1) /\ sent + 1 + s - at = nread + 1 + i
      BY <1>4, <1>5, <2>1, <2>3 DEF Unread
    <3>2. tcpbuff'[s] = Byte(c, sent + 1 + s - at)
      BY <1>1, <2>1, <3>1
    <3>3. QED
      BY <1>2, <1>3, <3>1, <3>2
  <2>4. QED
    BY <2>2, <2>3
<1>8. QED
  BY <1>6, <1>7 DEF StreamInv, Unread

LEMMA LwipStream ==
  ASSUME ClientInv, NEW c \in Conns, Lwip(c)
  PROVE  StreamInv'
<1> USE Sizes
<1>1. c = conn /\ conn # 0 /\ conn \in Conns
  BY LwipOne DEF ClientInv
<1>2. CASE Connected(c)
  BY <1>2 DEF Connected, StreamInv, Unread
<1>3. CASE Recv(c)
  BY <1>3, RecvStream
<1>4. CASE Fin(c)
  <2>1. InUse' => InUse
    BY <1>1, <1>4 DEF Fin, ClientInv, Types, InUse, fg
  <2>2. QED
    BY <1>4, <2>1, BufferStays DEF Fin, ClientInv, ghosts
<1>5. CASE Err(c) \/ Poll(c) \/ Freed(c)
  <2>1. InUse' => InUse
    BY <1>1, <1>5 DEF Err, Poll, Freed, ClientInv, Types, InUse, fg
  <2>2. QED
    BY <1>5, <2>1, BufferStays DEF Err, Poll, Freed, ClientInv, shared, ghosts
<1>6. QED
  BY <1>2, <1>3, <1>4, <1>5 DEF Lwip

-----------------------------------------------------------------------------
LEMMA ClientFirst == Init => ClientInv
<1>1. SUFFICES ASSUME Init PROVE ClientInv
  OBVIOUS
<1>2. Types
  <2>1. pcb \in [Conns -> States]
    BY <1>1 DEF Init, States
  <2>2. conn \in 0..MaxConns /\ tcpstat \in 0..3
    BY <1>1, Sizes DEF Init
  <2>3. QED
    BY <1>1, <2>1, <2>2 DEF Init, Types, shared
<1>3. PcbInv /\ StatInv /\ StreamInv
  BY <1>1, Sizes DEF Init, PcbInv, StatInv, StreamInv, InUse, Conns, Connecting, Reading
<1>4. QED
  BY <1>2, <1>3 DEF ClientInv

LEMMA ClientKeeps == ClientInv /\ [Next]_vars => ClientInv'
  BY ConnectKeeps, ConnectStream, ScriptKeeps, ScriptStream, LwipKeeps, LwipStream DEF Next, ClientInv

LEMMA ClientAlways == Spec => []ClientInv
  BY ClientFirst, ClientKeeps, PTL DEF Spec

(* StreamIntegrity: the script reads the response of the connection it     *)
(* opened, byte for byte, whatever http_recv and the cli/sti section of    *)
(* http_read (net.c) do to tcplen and tcpoff in turn.                      *)
THEOREM StreamWhole == Spec => []StreamIntegrity
<1>1. ClientInv => StreamIntegrity
  BY DEF ClientInv, StreamInv, InUse, Unread, StreamIntegrity
<1>2. QED
  BY <1>1, ClientAlways, PTL

(* StatusTruthful: http_connect and http_read (net.c) report a failure or  *)
(* the end only when the connection they work on has come to it, although  *)
(* tcpstat is shared with the connection before.                           *)
THEOREM StatusKnown == Spec => []StatusTruthful
<1>1. ClientInv => StatusTruthful
  BY DEF ClientInv, StatInv, StatusTruthful
<1>2. QED
  BY <1>1, ClientAlways, PTL
=============================================================================
