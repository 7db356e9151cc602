---------------------------- MODULE NetServices ----------------------------
(***************************************************************************)
(* The services of net.c beside TCP: net_init with DHCP, the UDP mailbox,  *)
(* SNTP and the time of day (with bcm_timer.c), lookup.                    *)
(*                                                                         *)
(* The foreground (pc) runs the script's calls, one access to shared state *)
(* at a time.  The callbacks run in the timer interrupt, from net_poll.    *)
(* lwIP is external: its pool of UDP control blocks, the answers.          *)
(***************************************************************************)
EXTENDS Integers, Sequences, FiniteSets

CONSTANTS
  Pcbs,       \* the UDP control blocks these services may have
  NULL,       \* no control block, no host
  Hosts,      \* names that lookup is asked for; each is its own address
  MaxLen,     \* bound: the longest datagram, in characters
  Room,       \* the len that the script gives rtl_udp_recv
  HZ,         \* ticks in a second
  WORD,       \* the values of an int
  MaxDgrams, MaxSntp, MaxClock, \* bounds: events, calls, ticks
  SntpAgain   \* the script calls sntp again after an answer

ASSUME NetAssumption ==
  /\ NULL \notin Pcbs \cup Hosts /\ IsFiniteSet(Pcbs)
  /\ {MaxLen, Room, HZ, WORD} \subseteq Nat \ {0}
  /\ {MaxDgrams, MaxSntp, MaxClock} \subseteq Nat /\ SntpAgain \in BOOLEAN

VARIABLES
  pc,                     \* the foreground
  netstat, lease,         \* netstat; "none", DHCP "asked", an address "here"
  udpbuff, udplen, got,   \* the mailbox; a local; what the script was given
  dgrams,                 \* the lengths of the datagrams so far
  memp, echo, sntp,       \* lwIP's free control blocks, a stack;
  live,                   \* udpecho_raw_pcb, udpsntp_raw_pcb; block-callback pairs
  calls, replies,         \* sntp calls so far; answers on their way
  answered, crossed,      \* an answer has come; one came before sntp's removal was done
  jiffies, starttime,     \* bcm_timer.c
  clock,                  \* the true time, in ticks
  synced,                 \* an answer has set starttime
  secs, told,             \* locals of time(): sys_now()/1000, the result
  began, straddled,       \* when time() read jiffies; an answer came in its middle
  dnsstat, resolvip,
  query, host, answer     \* what lwIP resolves; what lookup was asked; its result

init    == <<netstat, lease>>
mailbox == <<udpbuff, udplen, got, dgrams>>
blocks  == <<memp, echo, sntp, live>>
sntpcl  == <<calls, replies, answered, crossed>>
time    == <<jiffies, starttime, clock, synced, secs, told, began, straddled>>
dns     == <<dnsstat, resolvip, query, host, answer>>
vars    == <<pc, init, mailbox, blocks, sntpcl, time, dns>>

Text(n, l) == [id |-> n, len |-> l]  \* the first l characters of datagram n
NoText == Text(0, 0)
NoTime == [clock |-> 0, up |-> 0]
NoAnswer == [res |-> 0, addr |-> NULL]

Init ==
  /\ pc = "off" /\ netstat = 0 /\ lease = "none"
  /\ udpbuff = NoText /\ udplen = 0 /\ got = <<>> /\ dgrams = <<>>
  /\ memp \in {s \in [1..Cardinality(Pcbs) -> Pcbs] :
                  {s[i] : i \in DOMAIN s} = Pcbs /\ \A i, j \in DOMAIN s : i # j => s[i] # s[j]}
  /\ echo = NULL /\ sntp = NULL /\ live = {}
  /\ calls = 0 /\ replies = 0 /\ answered = FALSE /\ crossed = FALSE
  /\ jiffies = 0 /\ starttime = 0 /\ clock = 0 /\ synced = FALSE
  /\ secs = 0 /\ told = 0 /\ began = NoTime /\ straddled = FALSE
  /\ dnsstat = 0 /\ resolvip = NULL /\ query = NULL /\ host = NULL /\ answer = NoAnswer

-----------------------------------------------------------------------------
(* lwIP's pool (external): memp_malloc and memp_free without a check.      *)

New == Head(memp)
Rest == Tail(memp)
Removed(pcb) == <<pcb>> \o memp
Silent(pcb) == {l \in live : l[1] # pcb}

-----------------------------------------------------------------------------
(* net_init.  Only netstat = 1 lets net_poll call lwIP.                    *)

NetStart ==  \* net_start: a fixed address
  /\ pc = "off"
  /\ pc' = "idle" /\ netstat' = 1 /\ lease' = "here" /\ sntp' = NULL
  /\ UNCHANGED <<mailbox, memp, echo, live, sntpcl, time, dns>>

NetStartDhcp ==  \* net_startdhcp, as far as dhcp_start
  /\ pc = "off"
  /\ \/ pc' = "dhcp" /\ netstat' = 1 /\ lease' = "asked"
     \/ pc' = "started" /\ netstat' = 0 /\ UNCHANGED lease  \* dhcp_start fails
  /\ UNCHANGED <<mailbox, blocks, sntpcl, time, dns>>

(* The wait for an address ends when it is there or after 100 seconds.    *)
(* Either way netstat stays 1: net.c:250 compares a pointer with 0, which  *)
(* no address of netif is, so the branch that clears netstat is dead.      *)
DhcpWait ==
  /\ pc = "dhcp"
  /\ pc' = "started"
  /\ UNCHANGED <<init, mailbox, blocks, sntpcl, time, dns>>

NetStarted ==
  /\ pc = "started"
  /\ pc' = "idle" /\ sntp' = NULL
  /\ UNCHANGED <<init, mailbox, memp, echo, live, sntpcl, time, dns>>

-----------------------------------------------------------------------------
(* The UDP mailbox.                                                        *)

UdpInit ==  \* rtl_udp_init, once
  /\ pc = "idle" /\ echo = NULL /\ memp # <<>>
  /\ echo' = New /\ memp' = Rest
  /\ UNCHANGED <<pc, init, mailbox, sntp, live, sntpcl, time, dns>>

UdpBind ==  \* rtl_udp_bind; the port may be in use
  /\ pc = "idle" /\ echo # NULL
  /\ udpbuff' = NoText
  /\ live' \in {live, live \cup {<<echo, "udpecho">>}}
  /\ UNCHANGED <<pc, init, udplen, got, dgrams, memp, echo, sntp, sntpcl, time, dns>>

(* rtl_udp_recv: the test, then strlen, memcpy and the clearing under cli. *)
UdpTest ==
  /\ pc = "idle" /\ udpbuff.len # 0
  /\ pc' = "strlen"
  /\ UNCHANGED <<init, mailbox, blocks, sntpcl, time, dns>>

UdpStrlen ==
  /\ pc = "strlen"
  /\ udplen' = udpbuff.len /\ pc' = "memcpy"
  /\ UNCHANGED <<init, udpbuff, got, dgrams, blocks, sntpcl, time, dns>>

Rlen == IF udplen > Room THEN Room ELSE udplen
UdpMemcpy ==
  /\ pc = "memcpy"
  /\ got' = IF Rlen = 0 THEN got ELSE Append(got, Text(udpbuff.id, Rlen))
  /\ pc' = "clear"
  /\ UNCHANGED <<init, udpbuff, udplen, dgrams, blocks, sntpcl, time, dns>>

UdpClear ==
  /\ pc = "clear"
  /\ udpbuff' = NoText /\ udplen' = 0 /\ pc' = "idle"
  /\ UNCHANGED <<init, got, dgrams, blocks, sntpcl, time, dns>>

-----------------------------------------------------------------------------
(* sntp, without a lock: the script decides to ask, the call tests         *)
(* udpsntp_raw_pcb, and removes what it then finds there.                   *)

SntpCall ==
  /\ pc = "idle" /\ calls < MaxSntp /\ (answered => SntpAgain)
  /\ calls' = calls + 1 /\ pc' = "sntptest"
  /\ UNCHANGED <<init, mailbox, blocks, replies, answered, crossed, time, dns>>

\* Definitions whose names end in _Mut are faulty variants of the definition that
\* follows them; no other definition uses them.  They show that the properties bite.
MustRemove_Mut == FALSE  \* the old block is forgotten
MustRemove == sntp # NULL
SntpTest ==
  /\ pc = "sntptest"
  /\ pc' = (IF MustRemove THEN "sntpremove" ELSE "sntpnew")
  /\ UNCHANGED <<init, mailbox, blocks, sntpcl, time, dns>>

SntpRemove ==
  /\ pc = "sntpremove"
  /\ memp' = Removed(sntp) /\ live' = Silent(sntp) /\ pc' = "sntpnew"
  /\ UNCHANGED <<init, mailbox, echo, sntp, sntpcl, time, dns>>

SntpNew ==  \* udp_new_ip_type and udp_bind
  /\ pc = "sntpnew" /\ memp # <<>>
  /\ sntp' = New /\ memp' = Rest /\ pc' = "sntprecv"
  /\ UNCHANGED <<init, mailbox, echo, live, sntpcl, time, dns>>

SntpRecv ==
  /\ pc = "sntprecv"
  /\ live' = live \cup {<<sntp, "sntp">>} /\ pc' = "sntpsend"
  /\ UNCHANGED <<init, mailbox, memp, echo, sntp, sntpcl, time, dns>>

SntpSend ==  \* the request, or its answer, may be lost
  /\ pc = "sntpsend"
  /\ replies' \in {replies, replies + 1} /\ pc' = "idle"
  /\ UNCHANGED <<init, mailbox, blocks, calls, answered, crossed, time, dns>>

(* sys_now() is a signed int of milliseconds; a tick is 1000 \div HZ of    *)
(* them, here one unit.                                                    *)
SysNow ==
  LET n == jiffies % WORD IN IF n < WORD \div 2 THEN n ELSE n - WORD
Seconds(n) == IF n < 0 THEN -((-n) \div HZ) ELSE n \div HZ  \* C truncates

(* time(): sys_now()/1000, then starttime.                                 *)
TimeJiffies ==
  /\ pc = "idle"
  /\ secs' = Seconds(SysNow) /\ pc' = "time"
  /\ began' = [clock |-> clock, up |-> jiffies] /\ straddled' = FALSE
  /\ UNCHANGED <<init, mailbox, blocks, sntpcl, jiffies, starttime, clock, synced, told, dns>>

TimeStart ==
  /\ pc = "time"
  /\ told' = secs + starttime /\ pc' = "told"
  /\ UNCHANGED <<init, mailbox, blocks, sntpcl, jiffies, starttime, clock, synced, secs, began, straddled, dns>>

TimeReturn ==
  /\ pc = "told" /\ pc' = "idle"
  /\ secs' = 0 /\ told' = 0 /\ began' = NoTime /\ straddled' = FALSE
  /\ UNCHANGED <<init, mailbox, blocks, sntpcl, jiffies, starttime, clock, synced, dns>>

-----------------------------------------------------------------------------
(* lookup.                                                                 *)

Cleared_Mut == dnsstat  \* left from the lookup before
Cleared == 0
LookupClear ==
  /\ pc = "idle" /\ host' \in Hosts
  /\ dnsstat' = Cleared /\ pc' = "ask"
  /\ UNCHANGED <<init, mailbox, blocks, sntpcl, time, resolvip, query, answer>>

(* dns_gethostbyname_addrtype: in the cache, in progress, or an error      *)
(* (always, without a server), for which no callback comes and lookup      *)
(* waits for ever.                                                         *)
LookupAsk ==
  /\ pc = "ask"
  /\ \/ answer' = [res |-> 1, addr |-> host] /\ pc' = "looked" /\ UNCHANGED query
     \/ lease = "here" /\ query' = host /\ pc' = "resolve" /\ UNCHANGED answer
     \/ pc' = "refused" /\ UNCHANGED <<query, answer>>
  /\ UNCHANGED <<init, mailbox, blocks, sntpcl, time, dnsstat, resolvip, host>>

LookupDone ==
  /\ pc = "resolve" /\ dnsstat # 0
  /\ answer' = IF dnsstat = 1 THEN [res |-> 1, addr |-> resolvip] ELSE NoAnswer
  /\ pc' = "looked"
  /\ UNCHANGED <<init, mailbox, blocks, sntpcl, time, dnsstat, resolvip, query, host>>

LookupReturn ==
  /\ pc = "looked" /\ pc' = "idle"
  /\ host' = NULL /\ answer' = NoAnswer
  /\ UNCHANGED <<init, mailbox, blocks, sntpcl, time, dnsstat, resolvip, query>>

-----------------------------------------------------------------------------
(* The interrupt.                                                          *)

Unlocked_Mut == TRUE  \* rtl_udp_recv takes no lock
Unlocked == pc \notin {"strlen", "memcpy", "clear"}
Poll == netstat = 1 /\ Unlocked

(* timer_isr.                                                              *)
Tick ==
  /\ clock < MaxClock /\ Unlocked
  /\ clock' = clock + 1 /\ jiffies' = jiffies + 1
  /\ UNCHANGED <<pc, init, mailbox, blocks, sntpcl, starttime, synced, secs, told, began, straddled, dns>>

Lease ==
  /\ Poll /\ lease = "asked"
  /\ lease' = "here"
  /\ UNCHANGED <<pc, netstat, mailbox, blocks, sntpcl, time, dns>>

(* udpecho_raw_recv: a datagram, possibly an empty one.                    *)
UdpArrives ==
  /\ Poll /\ <<echo, "udpecho">> \in live /\ Len(dgrams) < MaxDgrams
  /\ \E l \in 0..MaxLen :
       /\ dgrams' = Append(dgrams, l)
       /\ udpbuff' = Text(Len(dgrams) + 1, l)
  /\ UNCHANGED <<pc, init, udplen, got, blocks, sntpcl, time, dns>>

Reset_Mut == jiffies  \* without reset_counter
Reset == 0
(* udpsntp_raw_recv.  Its last line compares udpsntp_raw_pcb with NULL     *)
(* and assigns nothing.                                                    *)
SntpReply ==
  /\ Poll /\ <<sntp, "sntp">> \in live /\ replies > 0
  /\ replies' = replies - 1 /\ answered' = TRUE
  /\ crossed' = (crossed \/ pc \in {"sntptest", "sntpremove"})
  /\ \/ jiffies' = Reset /\ starttime' = clock \div HZ
        /\ synced' = TRUE /\ straddled' = (straddled \/ pc = "time")
     \/ UNCHANGED <<jiffies, starttime, synced, straddled>>  \* not 48 bytes
  /\ memp' = Removed(sntp) /\ live' = Silent(sntp)
  /\ UNCHANGED <<pc, init, mailbox, echo, sntp, calls, clock, secs, told, began, dns>>

NotFound_Mut == dnsstat  \* only a success is noted
NotFound == 2
(* dns_found.  lwIP gives every query up in the end.                       *)
DnsFound ==
  /\ Poll /\ query # NULL
  /\ \/ resolvip' = query /\ dnsstat' = 1
     \/ dnsstat' = NotFound /\ UNCHANGED resolvip
  /\ query' = NULL
  /\ UNCHANGED <<pc, init, mailbox, blocks, sntpcl, time, host, answer>>

-----------------------------------------------------------------------------
NetInit == NetStart \/ NetStartDhcp \/ DhcpWait \/ NetStarted
Udp == UdpInit \/ UdpBind \/ UdpTest \/ UdpStrlen \/ UdpMemcpy \/ UdpClear
Sntp == SntpCall \/ SntpTest \/ SntpRemove \/ SntpNew \/ SntpRecv \/ SntpSend
        \/ TimeJiffies \/ TimeStart \/ TimeReturn
Lookup == LookupClear \/ LookupAsk \/ LookupDone \/ LookupReturn
Interrupt == Tick \/ Lease \/ UdpArrives \/ SntpReply \/ DnsFound
Next == NetInit \/ Udp \/ Sntp \/ Lookup \/ Interrupt
Spec == Init /\ [][Next]_vars

(* The timer interrupts for ever, and a wait loop looks again.             *)
LiveSpec == Spec /\ WF_vars(DnsFound) /\ WF_vars(LookupDone)

-----------------------------------------------------------------------------
(* rtl_udp_recv gives the script the beginning of one datagram, never a    *)
(* mixture of two, as much of it as there is room for, each datagram at    *)
(* most once and in the order of arrival, whatever arrives meanwhile.      *)
UdpWhole ==
  /\ \A k \in 1..Len(got) :
       LET n == dgrams[got[k].id] IN got[k].len = (IF n < Room THEN n ELSE Room)
  /\ \A k \in 2..Len(got) : got[k - 1].id < got[k].id

(* Every control block is free, once, or held by udpecho_raw_pcb or by     *)
(* udpsntp_raw_pcb: sntp and its callback remove what they create, once.   *)
(* Unless the script asks again after an answer (it needs ~SntpAgain), or  *)
(* an answer comes between its decision to ask and udp_remove: both remove *)
(* the block then, for the callback leaves udpsntp_raw_pcb as it was.      *)
PcbsOwned ==
  ~crossed =>
    LET free == {memp[k] : k \in 1..Len(memp)} IN
    /\ \A j, k \in 1..Len(memp) : j # k => memp[j] # memp[k]
    /\ free \cup ({echo, sntp} \ {NULL}) = Pcbs
    /\ echo \notin free /\ \A l \in live : l[1] \notin free

(* time() is at most a second behind the server's clock after an answer,   *)
(* while sys_now() has not left the positive ints, unless the answer came  *)
(* between the two reads that time() makes.                                *)
TimeTruthful ==
  pc = "told" /\ synced /\ ~straddled /\ began.up < WORD \div 2
    => (began.clock \div HZ) - told \in 0..1

(* lookup returns 1 only with the address of the host it was asked for,    *)
(* though the answer comes through the globals dnsstat and resolvip.       *)
LookupTruthful == answer.res = 1 => answer.addr = host

(* lookup returns once lwIP has taken the query.                           *)
LookupReturns == pc = "resolve" ~> pc # "resolve"
=============================================================================
