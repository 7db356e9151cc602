----------------------------- MODULE HttpServer -----------------------------
(***************************************************************************)
(* The HTTP server of httpsvr.c: a state machine for each connection,      *)
(* driven by lwIP's callbacks in the interrupt, and the script's calls     *)
(* httpsvr_setres and httpsvr_copyreq in the foreground.                   *)
(*                                                                         *)
(* A callback is one step, except that each turn of the loop of            *)
(* httpsvr_send is a step of its own; nothing else runs until it returns.  *)
(* lwIP's pcb and its pbuf pool are external.  Lengths are in full pbufs.  *)
(*                                                                         *)
(* ES_RECEIVED is never set and lwIP passes no pbuf with an error, so the  *)
(* branches of httpsvr_recv for them are left out; a segment that comes in *)
(* ES_CLOSING is taken and dropped, and changes nothing.                   *)
(***************************************************************************)
EXTENDS Integers, Sequences, FiniteSets

CONSTANTS
  PoolSize,  \* PBUF_POOL_SIZE
  SndBuf,    \* TCP_SND_BUF
  Pcbs,      \* MEMP_NUM_TCP_PCB
  MaxRes,    \* the longest response that fits resbuff
  MaxReq,    \* bound: the longest segment that starts a request
  MaxConns,  \* bound: connections accepted
  MaxTexts   \* bound: calls of httpsvr_setres

ASSUME SizesAssumption ==
  /\ PoolSize \in Nat /\ SndBuf \in Nat \ {0} /\ Pcbs \in Nat \ {0}
  /\ MaxRes \in Nat \ {0} /\ MaxReq \in Nat /\ MaxConns \in Nat /\ MaxTexts \in Nat

VARIABLES
  resbuff, reslen,   \* the response: its text, and the length in force
  reqbuff, reqlen,   \* the number of the request held; 0 when it has been seen
  listening, conns,  \* the listener is up; connections accepted so far
  pcb,               \* lwIP's state of each connection
  es, p,             \* es->state and the chain es->p
  content, ref,      \* of each pbuf
  inflight,          \* what tcp_write took and the peer has yet to acknowledge
  debt,              \* what was received and not given back with tcp_recved
  sending,           \* the connection httpsvr_send works on, or 0
  pc, got,           \* the foreground, and the requests it has been given
  reply, out         \* of each connection: the text and the length taken for its
                     \* response, with that of its request; what TCP was given

texts  == <<resbuff, reslen>>
requests == <<reqbuff, reqlen>>
pbufs  == <<p, content, ref>>
tcp    == <<listening, conns, inflight, debt>>
hist   == <<got, reply, out>>
vars   == <<texts, requests, tcp, pcb, es, pbufs, sending, pc, hist>>

Conns == 1..MaxConns
Pbufs == 1..PoolSize
Text(v, n) == [version |-> v, len |-> n]
NoText == Text(0, 0)
NoReply == [text |-> NoText, len |-> 0, req |-> 0]
Part(t, i) == [version |-> t.version, part |-> i]

Init ==
  /\ resbuff = NoText /\ reslen = 0 /\ reqbuff = 0 /\ reqlen = 0
  /\ listening = FALSE /\ conns = 0
  /\ pcb = [c \in Conns |-> "none"] /\ es = [c \in Conns |-> "none"]
  /\ p = [c \in Conns |-> <<>>]
  /\ content = [b \in Pbufs |-> Part(NoText, 0)] /\ ref = [b \in Pbufs |-> 0]
  /\ inflight = [c \in Conns |-> 0] /\ debt = [c \in Conns |-> 0]
  /\ sending = 0 /\ pc = "init" /\ got = <<>>
  /\ reply = [c \in Conns |-> NoReply] /\ out = [c \in Conns |-> <<>>]

-----------------------------------------------------------------------------
(* Foreground.                                                             *)

Foreground(at) == pc = at /\ sending = 0

(* httpsvr_init: the built-in page.                                        *)
HttpsvrInit ==
  /\ Foreground("init")
  /\ resbuff' = Text(1, 1) /\ reslen' = 1 /\ reqlen' = 0
  /\ pc' = "bind"
  /\ UNCHANGED <<reqbuff, tcp, pcb, es, pbufs, sending, hist>>

(* httpsvr_bind: without a pcb or a free port nothing listens.             *)
HttpsvrBind ==
  /\ Foreground("bind")
  /\ listening' \in BOOLEAN
  /\ pc' = "idle"
  /\ UNCHANGED <<texts, requests, conns, inflight, debt, pcb, es, pbufs, sending, hist>>

SetLen(n) == n
(* httpsvr_setres, between cli and sti.                                    *)
SetRes ==
  /\ Foreground("idle") /\ resbuff.version <= MaxTexts
  /\ \E n \in 1..MaxRes :
       resbuff' = Text(resbuff.version + 1, n) /\ reslen' = SetLen(n)
  /\ UNCHANGED <<requests, tcp, pcb, es, pbufs, sending, pc, hist>>

(* httpsvr_copyreq holds no lock: it tests reqlen, copies, and clears it.  *)
CopyTest ==
  /\ Foreground("idle") /\ reqlen # 0
  /\ pc' = "copy"
  /\ UNCHANGED <<texts, requests, tcp, pcb, es, pbufs, sending, hist>>

CopyOut ==
  /\ Foreground("copy")
  /\ got' = Append(got, reqbuff)
  /\ pc' = "clear"
  /\ UNCHANGED <<texts, requests, tcp, pcb, es, pbufs, sending, reply, out>>

\* Definitions whose names end in _Mut are faulty variants of the definition that
\* follows them; no other definition uses them.  They show that the properties bite.
Seen_Mut == reqlen  \* does not mark the request as seen
Seen == 0
CopyClear ==
  /\ Foreground("clear")
  /\ reqlen' = Seen
  /\ pc' = "idle"
  /\ UNCHANGED <<texts, reqbuff, tcp, pcb, es, pbufs, sending, hist>>

-----------------------------------------------------------------------------
(* lwIP (external): the pool and the close of a connection.                *)

(* pbuf_free drops a reference of the first pbuf of a chain and goes on to *)
(* the next one as long as none is left.                                   *)
PbufFree(r, s) ==
  [b \in Pbufs |-> IF \E i \in DOMAIN s : s[i] = b /\ \A j \in 1..(i - 1) : r[s[j]] = 1
                   THEN r[b] - 1 ELSE r[b]]

(* pbuf_alloc takes the first free pbufs.                                  *)
Chains(n) ==
  LET unused == {b \in Pbufs : ref[b] = 0} IN
  {s \in [1..n -> unused] :
     /\ \A i, j \in 1..n : i < j => s[i] < s[j]
     /\ \A b \in unused : b < s[n] => \E i \in 1..n : s[i] = b}

\* tcp_close resets a connection whose window is not fully open again.
TcpClose(c) == IF debt[c] = 0 THEN "fin" ELSE "reset"

-----------------------------------------------------------------------------
(* Interrupt: the callbacks.                                               *)

Callback(c) == sending = 0 /\ pcb[c] = "up" /\ es[c] # "none"

(* httpsvr_free.                                                           *)
Free(c) ==
  /\ es' = [es EXCEPT ![c] = "none"]
  /\ p' = [p EXCEPT ![c] = <<>>] /\ ref' = PbufFree(ref, p[c])

(* httpsvr_close.                                                          *)
Close(c) ==
  /\ Free(c)
  /\ pcb' = [pcb EXCEPT ![c] = TcpClose(c)]
  /\ UNCHANGED sending

(* httpsvr_send, for a callback that ends with it.                         *)
StartSend(c) ==
  /\ sending' = c
  /\ UNCHANGED <<pcb, p, ref>>

Idle_Mut(c) == TRUE  \* closes with the response half sent
Idle(c) == p[c] = <<>>

(* httpsvr_accept: without memory for its state lwIP aborts the connection. *)
Accept ==
  LET c == conns + 1 IN
  /\ listening /\ sending = 0 /\ c \in Conns
  /\ Cardinality({d \in Conns : pcb[d] \in {"up", "fin"}}) < Pcbs
  /\ conns' = c
  /\ \/ pcb' = [pcb EXCEPT ![c] = "up"] /\ es' = [es EXCEPT ![c] = "accepted"]
     \/ pcb' = [pcb EXCEPT ![c] = "gone"] /\ UNCHANGED es
  /\ UNCHANGED <<texts, requests, listening, inflight, debt, pbufs, sending, pc, hist>>

(* httpsvr_recv, the first segment: it is shown to the script, and         *)
(* answered when it ends with a blank line.  The answer needs pbufs.       *)
RecvRequest(c) ==
  /\ Callback(c) /\ es[c] = "accepted"
  /\ es' = [es EXCEPT ![c] = "closing"]
  /\ reqbuff' = reqbuff + 1 /\ reqlen' = 1
  /\ debt' \in {[debt EXCEPT ![c] = n] : n \in 1..MaxReq}
  /\ \/ \E s \in Chains(reslen) :
          /\ p' = [p EXCEPT ![c] = s]
          /\ ref' = [b \in Pbufs |-> IF \E i \in DOMAIN s : s[i] = b THEN 1 ELSE ref[b]]
          /\ content' = [b \in Pbufs |-> IF \E i \in DOMAIN s : s[i] = b
                           THEN Part(resbuff, CHOOSE i \in DOMAIN s : s[i] = b)
                           ELSE content[b]]
          /\ reply' = [reply EXCEPT ![c] = [text |-> resbuff, len |-> reslen, req |-> debt'[c]]]
          /\ sending' = c
     \/ UNCHANGED <<pbufs, reply, sending>>  \* not the end of a request, or no pbuf
  /\ UNCHANGED <<texts, listening, conns, inflight, pcb, pc, got, out>>

(* httpsvr_recv without a pbuf: the peer has closed its side.              *)
RecvFin(c) ==
  /\ Callback(c)
  /\ \/ Idle(c) /\ Close(c)
     \/ ~Idle(c) /\ es' = [es EXCEPT ![c] = "closing"] /\ StartSend(c)
  /\ UNCHANGED <<texts, requests, tcp, content, pc, hist>>

Room(c) == inflight[c] + 1 <= SndBuf
Recved_Mut(c) == debt[c]  \* does not open the window
Recved(c) == IF debt[c] = 0 THEN 0 ELSE debt[c] - 1
Advanced_Mut(s) == PbufFree(ref, s)  \* without the reference to the next pbuf
Advanced(s) ==
  PbufFree([b \in Pbufs |-> IF Len(s) > 1 /\ b = s[2] THEN ref[b] + 1 ELSE ref[b]], s)

(* One turn of the loop of httpsvr_send: tcp_write takes the first pbuf.   *)
SendOne(c) ==
  /\ sending = c /\ p[c] # <<>> /\ Room(c)
  /\ out' = [out EXCEPT ![c] = Append(@, content[Head(p[c])])]
  /\ inflight' = [inflight EXCEPT ![c] = @ + 1]
  /\ p' = [p EXCEPT ![c] = Tail(@)] /\ ref' = Advanced(p[c])
  /\ debt' = [debt EXCEPT ![c] = Recved(c)]
  /\ UNCHANGED <<texts, requests, listening, conns, pcb, es, content, sending, pc, got, reply>>

(* The loop ends: nothing is left, no room, or tcp_write has no memory.    *)
SendEnd(c) ==
  /\ sending = c /\ sending' = 0
  /\ UNCHANGED <<texts, requests, tcp, pcb, es, pbufs, pc, hist>>

(* httpsvr_sent: an acknowledgement.                                       *)
Sent(c) ==
  /\ Callback(c)
  /\ \E k \in 1..inflight[c] : inflight' = [inflight EXCEPT ![c] = @ - k]
  /\ \/ ~Idle(c) /\ StartSend(c) /\ UNCHANGED es
     \/ Idle(c) /\ es[c] = "closing" /\ Close(c)
  /\ UNCHANGED <<texts, requests, listening, conns, debt, content, pc, hist>>

Poll_Mut(c) ==  \* leaves the close to httpsvr_sent
  /\ Callback(c) /\ ~Idle(c)
  /\ StartSend(c)
  /\ UNCHANGED <<texts, requests, tcp, content, es, pc, hist>>

(* httpsvr_poll, on every slow tick.                                       *)
Poll(c) ==
  /\ Callback(c)
  /\ \/ ~Idle(c) /\ StartSend(c) /\ UNCHANGED es
     \/ Idle(c) /\ es[c] = "closing" /\ Close(c)
  /\ UNCHANGED <<texts, requests, tcp, content, pc, hist>>

(* httpsvr_error: a reset, a retransmission given up, or a pcb taken for a *)
(* connection with a higher priority.                                      *)
Error(c) ==
  /\ Callback(c)
  /\ Free(c)
  /\ pcb' = [pcb EXCEPT ![c] = "gone"]
  /\ UNCHANGED <<texts, requests, tcp, content, sending, pc, hist>>

(* lwIP frees a pcb after the close.                                       *)
Freed(c) ==
  /\ sending = 0 /\ pcb[c] = "fin"
  /\ pcb' = [pcb EXCEPT ![c] = "gone"]
  /\ UNCHANGED <<texts, requests, tcp, es, pbufs, sending, pc, hist>>

-----------------------------------------------------------------------------
Script == HttpsvrInit \/ HttpsvrBind \/ SetRes \/ CopyTest \/ CopyOut \/ CopyClear
Lwip(c) == RecvRequest(c) \/ RecvFin(c) \/ SendOne(c) \/ SendEnd(c) \/ Sent(c) \/ Poll(c)
           \/ Error(c) \/ Freed(c)
Next == Script \/ Accept \/ \E c \in Conns : Lwip(c)
Spec == Init /\ [][Next]_vars

(* lwIP ticks; a peer acknowledges or lwIP gives it up; a callback ends,   *)
(* and tcp_write, asked again and again, finds memory some time.           *)
LiveSpec ==
  /\ Spec
  /\ \A c \in Conns : SF_vars(Poll(c))
  /\ SF_vars(\E c \in Conns : inflight[c] > 0 /\ (Sent(c) \/ Error(c)))
  /\ SF_vars(\E c \in Conns : SendOne(c)) /\ WF_vars(\E c \in Conns : SendEnd(c))

-----------------------------------------------------------------------------
(* A pbuf of a response is in one chain, once, with one reference, and      *)
(* every other one is back in the pool: httpsvr_send, which passes its      *)
(* reference along the chain, httpsvr_close and httpsvr_error neither leak  *)
(* one nor free one that is still to be sent.                              *)
PbufsOwned ==
  \A b \in Pbufs :
    /\ ref[b] = Cardinality({l \in Conns \X (1..PoolSize) : l[2] \in DOMAIN p[l[1]] /\ p[l[1]][l[2]] = b})
    /\ ref[b] <= 1

(* A response is the text of one httpsvr_setres, whole and in order, in     *)
(* spite of ERR_MEM, a full send buffer, the peer's early close, polls and  *)
(* a new text set meanwhile: what was given to TCP and what is left in the  *)
(* chain make it up, and a connection is not closed before all is given.    *)
ReplyIntact ==
  \A c \in Conns : reply[c] # NoReply =>
    /\ reply[c].len = reply[c].text.len
    /\ out[c] = [i \in 1..Len(out[c]) |-> Part(reply[c].text, i)]
    /\ \A i \in DOMAIN p[c] : content[p[c][i]] = Part(reply[c].text, Len(out[c]) + i)
    /\ es[c] = "closing" => Len(out[c]) + Len(p[c]) = reply[c].len
    /\ pcb[c] \in {"fin", "reset"} => Len(out[c]) = reply[c].len

(* The server's close resets a connection, and drops what is in flight,     *)
(* only when it has answered nothing or less than it had received: it is    *)
(* the tcp_recved of httpsvr_send that opens the window for the close.      *)
CloseGraceful ==
  \A c \in Conns : pcb[c] = "reset" => reply[c] = NoReply \/ reply[c].len < reply[c].req

(* The script is given each request at most once and never an older one     *)
(* after a newer, although httpsvr_copyreq holds no lock.                  *)
RequestsOnce == \A i, j \in DOMAIN got : i < j => got[i] < got[j]

(* A connection whose request has come is closed in the end: by the         *)
(* acknowledgement of the last pbuf, or by a poll when there is no answer.  *)
ConnectionEnds == \A c \in Conns : es[c] = "closing" ~> pcb[c] # "up"
=============================================================================
