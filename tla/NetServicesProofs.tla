------------------------- MODULE NetServicesProofs -------------------------
(***************************************************************************)
(* Proofs about the services of net.c (NetServices), for every pool of UDP *)
(* control blocks, every set of hosts, any lengths, tick rate and width of *)
(* an int, and any number of calls, datagrams and ticks.                   *)
(***************************************************************************)
EXTENDS NetServices, FiniteSetTheorems, TLAPS

-----------------------------------------------------------------------------
(* lookup.                                                                 *)

(* A query is on its way only while lookup waits for it, with dnsstat      *)
(* still clear; what it leaves in resolvip is the address of host.         *)
LookupInv ==
  /\ answer # NoAnswer => pc = "looked" /\ answer = [res |-> 1, addr |-> host]
  /\ query # NULL => pc = "resolve" /\ query = host /\ dnsstat = 0
  /\ pc = "ask" => dnsstat = 0
  /\ pc = "resolve" /\ dnsstat = 1 => resolvip = host

(* No other service takes the place of the one that runs in the foreground. *)
LEMMA LookupApart ==
  ASSUME NetInit \/ Udp \/ Sntp \/ Tick \/ Lease \/ UdpArrives \/ SntpReply
  PROVE  /\ UNCHANGED dns
         /\ pc' \in {"ask", "resolve", "looked", "refused"} => pc' = pc
         /\ pc \in {"ask", "resolve", "looked", "refused"} => pc' = pc
  BY DEF NetInit, NetStart, NetStartDhcp, DhcpWait, NetStarted, Udp, UdpInit, UdpBind, UdpTest,
         UdpStrlen, UdpMemcpy, UdpClear, Sntp, SntpCall, SntpTest, SntpRemove, SntpNew, SntpRecv, SntpSend, TimeJiffies,
         TimeStart, TimeReturn, Tick, Lease, UdpArrives, SntpReply, dns

LEMMA LookupKeeps ==
  ASSUME LookupInv, [Next]_vars
  PROVE  LookupInv'
<1>1. CASE NetInit \/ Udp \/ Sntp \/ Tick \/ Lease \/ UdpArrives \/ SntpReply
  BY <1>1, LookupApart DEF LookupInv, dns
<1>2. CASE LookupClear
  BY <1>2 DEF LookupInv, LookupClear, Cleared, NoAnswer
<1>3. CASE LookupAsk
  BY <1>3 DEF LookupInv, LookupAsk, NoAnswer
<1>4. CASE LookupDone
  BY <1>4 DEF LookupInv, LookupDone, NoAnswer
<1>5. CASE LookupReturn
  BY <1>5 DEF LookupInv, LookupReturn, NoAnswer
<1>6. CASE DnsFound
  BY <1>6 DEF LookupInv, DnsFound, NotFound, NoAnswer
<1>7. CASE UNCHANGED vars
  BY <1>7 DEF LookupInv, vars, dns, NoAnswer
<1>8. QED
  BY <1>1, <1>2, <1>3, <1>4, <1>5, <1>6, <1>7 DEF Next, Lookup, Interrupt

(* LookupTruthful: lookup returns 1 only with the address of the host it   *)
(* was asked for (net.c, lookup and dns_found), whatever the services      *)
(* beside it do.                                                           *)
THEOREM LookupAnswers == Spec => []LookupTruthful
<1>1. Init => LookupInv
  BY DEF Init, LookupInv
<1>2. LookupInv /\ [Next]_vars => LookupInv'
  BY LookupKeeps
<1>3. LookupInv => LookupTruthful
  BY DEF LookupInv, LookupTruthful, NoAnswer
<1>4. QED
  BY <1>1, <1>2, <1>3, PTL DEF Spec

-----------------------------------------------------------------------------
(* The UDP mailbox.                                                        *)

Shorter(n) == IF n < Room THEN n ELSE Room

(* What the mailbox holds is a datagram that arrived, and from the time    *)
(* rtl_udp_recv has copied it until it clears the mailbox, the last that   *)
(* the script was given.                                                   *)
MailboxInv ==
  /\ udpbuff \in [id : Nat, len : Nat] /\ udplen \in Nat
  /\ dgrams \in Seq(Nat) /\ got \in Seq([id : Nat, len : Nat])
  /\ udpbuff.len # 0 => udpbuff.id \in 1..Len(dgrams) /\ dgrams[udpbuff.id] = udpbuff.len
  /\ pc \in {"strlen", "memcpy"} => udpbuff.len # 0
  /\ pc = "memcpy" => udplen = udpbuff.len
  /\ \A k \in 1..Len(got) : got[k].id \in 1..Len(dgrams)
  /\ \A k \in 1..Len(got) : got[k].len = Shorter(dgrams[got[k].id])
  /\ \A j, k \in 1..Len(got) : j < k => got[j].id < got[k].id
  /\ udpbuff.len # 0 /\ pc # "clear" => \A k \in 1..Len(got) : got[k].id < udpbuff.id

LEMMA MailboxApart ==
  ASSUME NetInit \/ Sntp \/ Lookup \/ Tick \/ Lease \/ SntpReply \/ DnsFound \/ UdpInit
  PROVE  /\ UNCHANGED mailbox
         /\ pc' \in {"strlen", "memcpy", "clear"} => pc' = pc
         /\ pc \in {"strlen", "memcpy", "clear"} => pc' = pc
  BY DEF NetInit, NetStart, NetStartDhcp, DhcpWait, NetStarted, UdpInit, Sntp, SntpCall, SntpTest, SntpRemove, SntpNew,
         SntpRecv, SntpSend, TimeJiffies, TimeStart, TimeReturn, Lookup, LookupClear, LookupAsk,
         LookupDone, LookupReturn, Tick, Lease, SntpReply, DnsFound, mailbox

LEMMA MailboxKeeps ==
  ASSUME MailboxInv, [Next]_vars
  PROVE  MailboxInv'
<1> USE NetAssumption
<1>1. CASE NetInit \/ Sntp \/ Lookup \/ Tick \/ Lease \/ SntpReply \/ DnsFound \/ UdpInit
  BY <1>1, MailboxApart DEF MailboxInv, mailbox, Shorter
<1>2. CASE UdpBind
  BY <1>2 DEF MailboxInv, UdpBind, NoText, Text, Shorter
<1>3. CASE UdpTest
  BY <1>3 DEF MailboxInv, UdpTest, mailbox, Shorter
<1>4. CASE UdpStrlen
  BY <1>4 DEF MailboxInv, UdpStrlen, Shorter
<1>5. CASE UdpMemcpy
  <2>1. udpbuff.len # 0 /\ udplen = udpbuff.len /\ udpbuff.id \in 1..Len(dgrams)
    BY <1>5 DEF MailboxInv, UdpMemcpy
  <2>2. Rlen # 0 /\ Rlen \in Nat /\ Rlen = Shorter(dgrams[udpbuff.id])
    BY <2>1 DEF MailboxInv, Rlen, Shorter
  <2>3. got' = Append(got, Text(udpbuff.id, Rlen)) /\ Text(udpbuff.id, Rlen) \in [id : Nat, len : Nat]
    BY <1>5, <2>2 DEF UdpMemcpy, MailboxInv, Text
  <2>4. /\ got' \in Seq([id : Nat, len : Nat]) /\ Len(got') = Len(got) + 1
        /\ \A k \in 1..Len(got) : got'[k] = got[k]
        /\ got'[Len(got) + 1].id = udpbuff.id
        /\ got'[Len(got) + 1].len = Rlen
    BY <2>3 DEF MailboxInv, Text
  <2>5. UNCHANGED <<udpbuff, udplen, dgrams>> /\ pc' = "clear" /\ pc = "memcpy"
    BY <1>5 DEF UdpMemcpy
  <2> DEFINE here == Len(got) + 1
  <2>6. Len(got) \in Nat /\ 1..Len(got') = 1..Len(got) \cup {here} /\ here \notin 1..Len(got)
    BY SMTT(40), <2>4 DEF MailboxInv
  <2>7. /\ \A k \in 1..Len(got) : got[k].id \in 1..Len(dgrams)
        /\ \A k \in 1..Len(got) : got[k].len = Shorter(dgrams[got[k].id])
        /\ \A j, k \in 1..Len(got) : j < k => got[j].id < got[k].id
        /\ \A k \in 1..Len(got) : got[k].id < udpbuff.id
    BY <2>1, <2>5 DEF MailboxInv
  <2>8. /\ \A k \in 1..Len(got') : got'[k].id \in 1..Len(dgrams')
        /\ \A k \in 1..Len(got') : got'[k].len = Shorter(dgrams'[got'[k].id])
    BY <2>1, <2>2, <2>4, <2>5, <2>6, <2>7
  <2>10. ASSUME NEW j \in 1..Len(got'), NEW k \in 1..Len(got'), j < k
         PROVE  got'[j].id < got'[k].id
    <3>1. j \in 1..Len(got)
      BY SMTT(40), <2>6, <2>10
    <3>2. CASE k \in 1..Len(got)
      BY <2>4, <2>7, <2>10, <3>1, <3>2
    <3>3. CASE k = here
      BY <2>4, <2>7, <3>1, <3>3
    <3>4. QED
      BY <2>6, <3>2, <3>3
  <2>9. QED
    BY <2>1, <2>4, <2>5, <2>8, <2>10 DEF MailboxInv, Shorter
<1>6. CASE UdpClear
  BY <1>6 DEF MailboxInv, UdpClear, NoText, Text, Shorter
<1>7. CASE UdpArrives
  <2>1. PICK l \in 0..MaxLen : dgrams' = Append(dgrams, l) /\ udpbuff' = Text(Len(dgrams) + 1, l)
    BY <1>7 DEF UdpArrives
  <2>2. /\ dgrams' \in Seq(Nat) /\ Len(dgrams') = Len(dgrams) + 1
        /\ \A n \in 1..Len(dgrams) : dgrams'[n] = dgrams[n]
        /\ dgrams'[Len(dgrams) + 1] = l
    BY <2>1 DEF MailboxInv
  <2>3. UNCHANGED <<udplen, got, pc>> /\ pc \notin {"strlen", "memcpy", "clear"}
    BY <1>7 DEF UdpArrives, Poll, Unlocked
  <2>4. /\ udpbuff' \in [id : Nat, len : Nat]
        /\ udpbuff'.id = Len(dgrams) + 1 /\ udpbuff'.len = l
    BY <2>1 DEF MailboxInv, Text
  <2>9. /\ \A k \in 1..Len(got) : got[k].id \in 1..Len(dgrams)
        /\ \A k \in 1..Len(got) : got[k].len = Shorter(dgrams[got[k].id])
        /\ \A j, k \in 1..Len(got) : j < k => got[j].id < got[k].id
    BY Zenon DEF MailboxInv
  <2>5. /\ Len(dgrams) \in Nat /\ Len(got) \in Nat
        /\ \A k \in 1..Len(got) : got[k].id \in 1..Len(dgrams)
        /\ \A k \in 1..Len(got) : got[k].len = Shorter(dgrams[got[k].id])
        /\ \A j, k \in 1..Len(got) : j < k => got[j].id < got[k].id
    <3>1. Len(dgrams) \in Nat /\ Len(got) \in Nat
      BY DEF MailboxInv
    <3>2. QED
      BY ONLY <2>9, <3>1
  <2>6. /\ \A k \in 1..Len(got) : got[k].id \in 1..Len(dgrams')
        /\ \A k \in 1..Len(got) : got[k].len = Shorter(dgrams'[got[k].id])
        /\ \A k \in 1..Len(got) : got[k].id < udpbuff'.id
    <3>1. \A k \in 1..Len(got) : dgrams'[got[k].id] = dgrams[got[k].id]
      BY <2>2, <2>5
    <3>2. \A k \in 1..Len(got) : got[k].id \in 1..Len(dgrams') /\ got[k].id < Len(dgrams) + 1
      BY SMTT(40), <2>2, <2>5
    <3>3. QED
      BY <2>4, <2>5, <3>1, <3>2
  <2>7. udpbuff'.len # 0 => udpbuff'.id \in 1..Len(dgrams') /\ dgrams'[udpbuff'.id] = udpbuff'.len
    BY <2>2, <2>4, <2>5
  <2>8. QED
    BY <2>2, <2>3, <2>4, <2>5, <2>6, <2>7 DEF MailboxInv, Shorter
<1>8. CASE UNCHANGED vars
  BY <1>8 DEF MailboxInv, vars, mailbox, Shorter
<1>9. QED
  BY <1>1, <1>2, <1>3, <1>4, <1>5, <1>6, <1>7, <1>8 DEF Next, Udp, Interrupt

(* UdpWhole: rtl_udp_recv gives the script the beginning of one datagram,  *)
(* as much as fits, each at most once and in the order of arrival (net.c,  *)
(* rtl_udp_recv under cli, udpecho_raw_recv).                              *)
THEOREM MailboxWhole == Spec => []UdpWhole
<1>1. Init => MailboxInv
  BY DEF Init, MailboxInv, NoText, Text
<1>2. MailboxInv /\ [Next]_vars => MailboxInv'
  BY MailboxKeeps
<1>3. MailboxInv => UdpWhole
  <2>1. SUFFICES ASSUME MailboxInv PROVE UdpWhole
    OBVIOUS
  <2>2. Len(got) \in Nat /\ \A k \in 2..Len(got) : k - 1 \in 1..Len(got) /\ k \in 1..Len(got) /\ k - 1 < k
    BY SMTT(40), <2>1 DEF MailboxInv
  <2>3. \A k \in 2..Len(got) : got[k - 1].id < got[k].id
    BY <2>1, <2>2 DEF MailboxInv
  <2>4. QED
    BY <2>1, <2>3 DEF MailboxInv, UdpWhole, Shorter
<1>4. QED
  BY <1>1, <1>2, <1>3, PTL DEF Spec

-----------------------------------------------------------------------------
(* The time of day.                                                        *)

(* The counter and starttime make up the true time, to the second; time()  *)
(* keeps the sum it began with while no answer moves a part of it from the *)
(* counter to starttime.                                                   *)
TimeInv ==
  /\ clock \in Nat /\ jiffies \in Nat /\ jiffies <= clock
  /\ starttime = (clock - jiffies) \div HZ
  /\ pc \in {"time", "told"} =>
       began.clock \in Nat /\ began.up \in Nat /\ began.up <= began.clock
  /\ pc = "time" /\ ~straddled => clock - jiffies = began.clock - began.up
  /\ pc = "time" /\ began.up < WORD \div 2 => secs = began.up \div HZ
  /\ pc = "told" /\ ~straddled /\ began.up < WORD \div 2 =>
       told = (began.up \div HZ) + ((began.clock - began.up) \div HZ)

(* Whole seconds of a sum: the two parts lose less than two seconds,       *)
(* which is one when they are put together.                                *)
LEMMA WholeSeconds ==
  ASSUME NEW a \in Nat, NEW b \in Nat, NEW h \in Nat \ {0}
  PROVE  ((a + b) \div h) - ((a \div h) + (b \div h)) \in 0..1
  OBVIOUS

(* sys_now() is the counter while the counter is half a word or less.      *)
LEMMA SmallWord ==
  ASSUME NEW a \in Nat, NEW w \in Nat \ {0}, a < w \div 2
  PROVE  (a % w) = a
  OBVIOUS

LEMMA SecondsUp ==
  ASSUME jiffies \in Nat, jiffies < WORD \div 2
  PROVE  Seconds(SysNow) = jiffies \div HZ
<1>1. WORD \in Nat \ {0}
  BY NetAssumption
<1>2. jiffies % WORD = jiffies
  BY <1>1, SmallWord
<1>3. SysNow = jiffies
  BY <1>2 DEF SysNow
<1>4. QED
  BY <1>3 DEF Seconds

LEMMA TimeApart ==
  ASSUME NetInit \/ Udp \/ SntpCall \/ SntpTest \/ SntpRemove \/ SntpNew \/ SntpRecv \/ SntpSend
           \/ Lookup \/ Lease \/ UdpArrives \/ DnsFound
  PROVE  UNCHANGED time /\ (pc' \in {"time", "told"} \/ pc \in {"time", "told"} => pc' = pc)
  BY DEF NetInit, NetStart, NetStartDhcp, DhcpWait, NetStarted, Udp, UdpInit, UdpBind, UdpTest,
         UdpStrlen, UdpMemcpy, UdpClear, SntpCall, SntpTest, SntpRemove, SntpNew, SntpRecv, SntpSend, Lookup,
         LookupClear, LookupAsk, LookupDone, LookupReturn, Lease, UdpArrives, DnsFound, time

LEMMA TimeKeeps ==
  ASSUME TimeInv, [Next]_vars
  PROVE  TimeInv'
<1> USE NetAssumption
<1>1. CASE NetInit \/ Udp \/ SntpCall \/ SntpTest \/ SntpRemove \/ SntpNew \/ SntpRecv \/ SntpSend
             \/ Lookup \/ Lease \/ UdpArrives \/ DnsFound
  BY <1>1, TimeApart DEF TimeInv, time
<1>2. CASE TimeJiffies
  <2>1. jiffies < WORD \div 2 => secs' = jiffies \div HZ
    BY <1>2, SecondsUp DEF TimeInv, TimeJiffies
  <2>2. QED
    BY <1>2, <2>1 DEF TimeInv, TimeJiffies
<1>3. CASE TimeStart
  BY <1>3 DEF TimeInv, TimeStart
<1>4. CASE TimeReturn
  BY <1>4 DEF TimeInv, TimeReturn
<1>5. CASE Tick
  <2>1. /\ clock' = clock + 1 /\ jiffies' = jiffies + 1
        /\ UNCHANGED <<pc, starttime, secs, told, began, straddled>>
    BY <1>5 DEF Tick
  <2>2. clock' - jiffies' = clock - jiffies /\ clock' \in Nat /\ jiffies' \in Nat /\ jiffies' <= clock'
    BY <2>1 DEF TimeInv
  <2>3. QED
    BY <2>1, <2>2 DEF TimeInv
<1>6. CASE SntpReply
  <2>1. CASE UNCHANGED <<jiffies, starttime, straddled>>
    BY <1>6, <2>1 DEF TimeInv, SntpReply
  <2>2. CASE jiffies' = 0 /\ starttime' = clock \div HZ /\ straddled' = (straddled \/ pc = "time")
    <3>1. UNCHANGED <<pc, clock, secs, told, began>>
      BY <1>6 DEF SntpReply
    <3>2. clock' - jiffies' = clock' /\ clock' \in Nat
      BY <2>2, <3>1 DEF TimeInv
    <3>3. (pc = "time" => straddled') /\ (straddled => straddled')
      BY <2>2
    <3>4. starttime' = (clock' - jiffies') \div HZ /\ jiffies' \in Nat /\ jiffies' <= clock'
      BY <2>2, <3>1, <3>2
    <3>5. QED
      BY <3>1, <3>2, <3>3, <3>4 DEF TimeInv
  <2>3. QED
    BY <1>6, <2>1, <2>2 DEF SntpReply, Reset
<1>7. CASE UNCHANGED vars
  BY <1>7 DEF TimeInv, vars, time
<1>8. QED
  BY <1>1, <1>2, <1>3, <1>4, <1>5, <1>6, <1>7 DEF Next, Sntp, Interrupt

(* TimeTruthful: time() (net.c) is at most a second behind the server's    *)
(* clock, while sys_now() is not negative and no answer came between its   *)
(* two reads.                                                              *)
THEOREM TimeTold == Spec => []TimeTruthful
<1>1. Init => TimeInv
  BY NetAssumption DEF Init, TimeInv
<1>2. TimeInv /\ [Next]_vars => TimeInv'
  BY TimeKeeps
<1>3. TimeInv => TimeTruthful
  <2>1. SUFFICES ASSUME TimeInv, pc = "told", ~straddled, began.up < WORD \div 2
                 PROVE  (began.clock \div HZ) - told \in 0..1
    BY DEF TimeTruthful
  <2> DEFINE a == began.up
             b == began.clock - began.up
  <2>2. a \in Nat /\ b \in Nat /\ a + b = began.clock /\ HZ \in Nat \ {0}
    BY <2>1, NetAssumption DEF TimeInv
  <2>3. told = (a \div HZ) + (b \div HZ)
    BY <2>1 DEF TimeInv
  <2> HIDE DEF a, b
  <2>4. ((a + b) \div HZ) - told \in 0..1
    BY <2>2, <2>3, WholeSeconds
  <2>5. QED
    BY <2>2, <2>4
<1>4. QED
  BY <1>1, <1>2, <1>3, PTL DEF Spec

-----------------------------------------------------------------------------
(* The control blocks.                                                     *)

Members(s) == {s[k] : k \in 1..Len(s)}
Distinct(s) == \A j, k \in 1..Len(s) : j # k => s[j] # s[k]

LEMMA HeadOff ==
  ASSUME NEW S, NEW s \in Seq(S), s # <<>>, Distinct(s)
  PROVE  /\ Head(s) \in Members(s) /\ Head(s) \in S
         /\ Tail(s) \in Seq(S) /\ Distinct(Tail(s))
         /\ Members(Tail(s)) = Members(s) \ {Head(s)}
<1> DEFINE t == Tail(s)
<1>1. /\ Len(s) \in Nat /\ Len(s) > 0 /\ Head(s) = s[1] /\ t \in Seq(S) /\ Len(t) = Len(s) - 1
      /\ \A k \in 1..Len(t) : t[k] = s[k + 1]
  OBVIOUS
<1> HIDE DEF t
<1>2. Distinct(t)
  BY <1>1 DEF Distinct
<1>3. Members(t) \subseteq Members(s) \ {Head(s)}
  BY <1>1 DEF Members, Distinct
<1>4. ASSUME NEW k \in 1..Len(s), s[k] # Head(s)
      PROVE  s[k] \in Members(t)
  <2>1. k - 1 \in 1..Len(t) /\ t[k - 1] = s[k]
    BY <1>1, <1>4
  <2>2. QED
    BY <2>1 DEF Members
<1>5. Head(s) \in Members(s) /\ Head(s) \in S
  BY <1>1 DEF Members
<1>6. Members(s) \ {Head(s)} \subseteq Members(t)
  BY <1>4 DEF Members
<1>7. QED
  BY <1>1, <1>2, <1>3, <1>5, <1>6 DEF t

LEMMA PutBack ==
  ASSUME NEW S, NEW s \in Seq(S), NEW e \in S, Distinct(s), e \notin Members(s)
  PROVE  /\ <<e>> \o s \in Seq(S) /\ Distinct(<<e>> \o s)
         /\ Members(<<e>> \o s) = Members(s) \cup {e}
<1> DEFINE t == <<e>> \o s
<1>1. /\ Len(s) \in Nat /\ t \in Seq(S) /\ Len(t) = Len(s) + 1 /\ t[1] = e
      /\ \A k \in 2..Len(t) : t[k] = s[k - 1]
  OBVIOUS
<1> HIDE DEF t
<1>2. \A k \in 2..Len(t) : k - 1 \in 1..Len(s) /\ t[k] \in Members(s)
  BY <1>1 DEF Members
<1>3. ASSUME NEW j \in 1..Len(t), NEW k \in 1..Len(t), j # k
      PROVE  t[j] # t[k]
  <2>1. CASE j = 1 \/ k = 1
    BY <1>1, <1>2, <1>3, <2>1
  <2>2. CASE j # 1 /\ k # 1
    <3>1. t[j] = s[j - 1] /\ t[k] = s[k - 1]
      BY <1>1, <2>2
    <3>2. j - 1 \in 1..Len(s) /\ k - 1 \in 1..Len(s) /\ j - 1 # k - 1
      BY <1>1, <1>3, <2>2
    <3>3. QED
      BY <3>1, <3>2 DEF Distinct
  <2>3. QED
    BY <2>1, <2>2
<1>4. ASSUME NEW k \in 1..Len(s)
      PROVE  s[k] \in Members(t)
  <2>1. k + 1 \in 1..Len(t) /\ t[k + 1] = s[k]
    BY <1>1, <1>4
  <2>2. QED
    BY <2>1 DEF Members
<1>5. e \in Members(t)
  BY <1>1 DEF Members
<1>6. ASSUME NEW k \in 1..Len(t)
      PROVE  t[k] \in Members(s) \cup {e}
  BY <1>1, <1>2
<1>7. Members(t) = Members(s) \cup {e}
  <2>1. Members(t) \subseteq Members(s) \cup {e}
    BY <1>6 DEF Members
  <2>2. Members(s) \subseteq Members(t)
    BY <1>4 DEF Members
  <2>3. QED
    BY <1>5, <2>1, <2>2
<1>8. Distinct(t)
  BY <1>3 DEF Distinct
<1>9. QED
  BY <1>1, <1>7, <1>8 DEF t

(* A block is free, echo, or the block of the sntp call that still waits   *)
(* for its answer.  The removal leaves sntp at a free block until udp_new  *)
(* replaces it, the answer for ever: the callback is set at neither.       *)
(* Until an answer crosses sntp's removal, that is: then nothing is kept.  *)
Asking == pc \in {"sntptest", "sntpremove", "sntpnew", "sntprecv"}
PcbsInv ==
  ~crossed =>
  /\ memp \in Seq(Pcbs) /\ Distinct(memp)
  /\ echo \in Pcbs \cup {NULL} /\ sntp \in Pcbs \cup {NULL}
  /\ Members(memp) \cup ({echo, sntp} \ {NULL}) = Pcbs
  /\ echo \notin Members(memp)
  /\ \A l \in live : l = <<echo, "udpecho">> \/ l = <<sntp, "sntp">>
  /\ <<echo, "udpecho">> \in live => echo # NULL
  /\ <<sntp, "sntp">> \in live => ~answered /\ sntp # NULL /\ pc \notin {"sntpnew", "sntprecv"}
  /\ pc \in {"off", "dhcp", "started"} => sntp = NULL
  /\ Asking => ~answered
  /\ pc = "sntpnew" => sntp = NULL \/ sntp \in Members(memp)
  /\ pc \in {"sntpremove", "sntprecv"} => sntp # NULL
  /\ ~answered /\ sntp # NULL /\ pc # "sntpnew" => sntp \notin Members(memp)
  /\ ~answered /\ sntp # NULL => sntp # echo

LEMMA PcbsApart ==
  ASSUME UdpTest \/ UdpStrlen \/ UdpMemcpy \/ UdpClear \/ SntpSend \/ TimeJiffies \/ TimeStart
           \/ TimeReturn \/ Lookup \/ Tick \/ Lease \/ UdpArrives \/ DnsFound
  PROVE  /\ UNCHANGED <<blocks, answered, crossed>>
         /\ \/ pc' \notin {"off", "dhcp", "started"} /\ ~Asking' /\ ~Asking
            \/ pc' = pc
  BY DEF UdpTest, UdpStrlen, UdpMemcpy, UdpClear, SntpSend, TimeJiffies, TimeStart, TimeReturn,
         Lookup, LookupClear, LookupAsk, LookupDone, LookupReturn, Tick, Lease, UdpArrives, DnsFound,
         Asking, blocks, sntpcl

LEMMA PcbsKeeps ==
  ASSUME PcbsInv, [Next]_vars, SntpAgain = FALSE
  PROVE  PcbsInv'
<1> NULL \notin Pcbs
  BY NetAssumption
<1> USE DEF Asking
<1>s. SUFFICES ASSUME ~crossed' PROVE PcbsInv'
  BY DEF PcbsInv
<1>p. ~crossed
  BY <1>s DEF Next, NetInit, NetStart, NetStartDhcp, DhcpWait, NetStarted, Udp, UdpInit, UdpBind,
     UdpTest, UdpStrlen, UdpMemcpy, UdpClear, Sntp, SntpCall, SntpTest, SntpRemove, SntpNew, SntpRecv,
     SntpSend, TimeJiffies, TimeStart, TimeReturn, Lookup, LookupClear, LookupAsk, LookupDone,
     LookupReturn, Interrupt, Tick, Lease, UdpArrives, SntpReply, DnsFound, vars, sntpcl
<1> USE <1>p
<1>1. CASE UdpTest \/ UdpStrlen \/ UdpMemcpy \/ UdpClear \/ SntpSend \/ TimeJiffies \/ TimeStart
             \/ TimeReturn \/ Lookup \/ Tick \/ Lease \/ UdpArrives \/ DnsFound
  <2>1. UNCHANGED <<memp, echo, sntp, live, answered>>
    BY <1>1, PcbsApart DEF blocks
  <2>2. (pc' \notin {"off", "dhcp", "started"} /\ ~Asking' /\ ~Asking) \/ pc' = pc
    BY <1>1, PcbsApart
  <2>3. QED
    BY <2>1, <2>2 DEF PcbsInv
<1>2. CASE NetInit
  BY <1>2 DEF PcbsInv, NetInit, NetStart, NetStartDhcp, DhcpWait, NetStarted, blocks, sntpcl
<1>3. CASE UdpInit
  <2>1. /\ pc = "idle" /\ echo = NULL /\ echo' = Head(memp) /\ memp' = Tail(memp)
        /\ UNCHANGED <<pc, sntp, live, answered>> /\ memp # <<>>
    BY <1>3 DEF UdpInit, New, Rest, sntpcl
  <2>2. /\ Head(memp) \in Members(memp) /\ Head(memp) \in Pcbs
        /\ memp' \in Seq(Pcbs) /\ Distinct(memp')
        /\ Members(memp') = Members(memp) \ {Head(memp)}
    BY <2>1, HeadOff DEF PcbsInv
  <2>3. QED
    BY <2>1, <2>2 DEF PcbsInv
<1>4. CASE UdpBind
  BY <1>4 DEF PcbsInv, UdpBind, sntpcl
<1>5. CASE SntpRemove
  <2>1. /\ pc = "sntpremove" /\ pc' = "sntpnew" /\ UNCHANGED <<echo, sntp, answered>>
        /\ memp' = <<sntp>> \o memp /\ live' = {l \in live : l[1] # sntp}
    BY <1>5 DEF SntpRemove, Removed, Silent, sntpcl
  <2>2. sntp \in Pcbs /\ sntp \notin Members(memp) /\ sntp # echo /\ ~answered
    BY <2>1 DEF PcbsInv
  <2>3. /\ memp' \in Seq(Pcbs) /\ Distinct(memp')
        /\ Members(memp') = Members(memp) \cup {sntp}
    BY <2>1, <2>2, PutBack DEF PcbsInv
  <2>4. <<sntp, "sntp">> \notin live' /\ live' \subseteq live
    BY <2>1
  <2>5. QED
    BY <2>1, <2>2, <2>3, <2>4 DEF PcbsInv
<1>6. CASE SntpNew
  <2>1. /\ pc = "sntpnew" /\ pc' = "sntprecv" /\ sntp' = Head(memp) /\ memp' = Tail(memp)
        /\ UNCHANGED <<echo, live, answered>> /\ memp # <<>>
    BY <1>6 DEF SntpNew, New, Rest, sntpcl
  <2>2. /\ Head(memp) \in Members(memp) /\ Head(memp) \in Pcbs
        /\ memp' \in Seq(Pcbs) /\ Distinct(memp')
        /\ Members(memp') = Members(memp) \ {Head(memp)}
    BY <2>1, HeadOff DEF PcbsInv
  <2>3. \A l \in live : l = <<echo, "udpecho">>
    BY <2>1 DEF PcbsInv
  <2>4. QED
    BY <2>1, <2>2, <2>3 DEF PcbsInv
<1>7. CASE SntpRecv
  BY <1>7 DEF PcbsInv, SntpRecv, sntpcl
<1>8. CASE SntpReply
  <2>1. /\ <<sntp, "sntp">> \in live /\ answered' = TRUE /\ UNCHANGED <<pc, echo, sntp>>
        /\ memp' = <<sntp>> \o memp /\ live' = {l \in live : l[1] # sntp}
    BY <1>8 DEF SntpReply, Removed, Silent
  <2>2. sntp \in Pcbs /\ sntp \notin Members(memp) /\ sntp # echo /\ sntp # NULL
        /\ pc \notin {"off", "dhcp", "started"} /\ ~Asking
    BY <1>s, <1>8, <2>1 DEF PcbsInv, SntpReply
  <2>3. /\ memp' \in Seq(Pcbs) /\ Distinct(memp')
        /\ Members(memp') = Members(memp) \cup {sntp}
    BY <2>1, <2>2, PutBack DEF PcbsInv
  <2>4. <<sntp, "sntp">> \notin live' /\ live' \subseteq live
    BY <2>1
  <2>5. QED
    BY <2>1, <2>2, <2>3, <2>4 DEF PcbsInv
<1>9. CASE SntpCall
  BY <1>9 DEF PcbsInv, SntpCall, blocks
<1>10. CASE SntpTest
  BY <1>10 DEF PcbsInv, SntpTest, MustRemove, blocks, sntpcl
<1>11. CASE UNCHANGED vars
  BY <1>11 DEF PcbsInv, vars, blocks, sntpcl
<1>12. QED
  BY <1>1, <1>2, <1>3, <1>4, <1>5, <1>6, <1>7, <1>8, <1>9, <1>10, <1>11 DEF Next, Udp, Sntp, Interrupt

LEMMA PcbsFirst == Init => PcbsInv
<1>1. SUFFICES ASSUME Init PROVE PcbsInv
  OBVIOUS
<1> DEFINE n == Cardinality(Pcbs)
<1>2. n \in Nat
  BY NetAssumption, FS_CardinalityType
<1> HIDE DEF n
<1>3. memp \in [1..n -> Pcbs] /\ {memp[i] : i \in DOMAIN memp} = Pcbs
      /\ \A i, j \in DOMAIN memp : i # j => memp[i] # memp[j]
  BY <1>1 DEF Init, n
<1>4. memp \in Seq(Pcbs) /\ Len(memp) = n /\ DOMAIN memp = 1..n
  BY <1>2, <1>3
<1>5. Members(memp) = Pcbs /\ Distinct(memp)
  BY <1>3, <1>4 DEF Members, Distinct
<1>6. echo = NULL /\ sntp = NULL /\ live = {} /\ pc = "off" /\ ~answered
  BY <1>1 DEF Init
<1>7. QED
  BY <1>4, <1>5, <1>6, NetAssumption DEF PcbsInv, Asking

(* PcbsOwned: every control block of lwIP's pool is free, once, or held    *)
(* by udpecho_raw_pcb or by udpsntp_raw_pcb (net.c, sntp and its callback, *)
(* which both remove it), when the script does not call sntp after an      *)
(* answer, until an answer comes between its decision to call and          *)
(* udp_remove.  The run NetServicesSntp shows that it needs the first.     *)
THEOREM PcbsAccounted == ASSUME SntpAgain = FALSE PROVE Spec => []PcbsOwned
<1>1. Init => PcbsInv
  BY PcbsFirst
<1>2. PcbsInv /\ [Next]_vars => PcbsInv'
  BY PcbsKeeps
<1>3. PcbsInv => PcbsOwned
  <2>1. SUFFICES ASSUME PcbsInv, ~crossed PROVE PcbsOwned
    BY DEF PcbsOwned
  <2>2. ASSUME NEW l \in live PROVE l[1] \notin Members(memp)
    BY <2>1, <2>2 DEF PcbsInv
  <2>3. QED
    BY <2>1, <2>2 DEF PcbsInv, PcbsOwned, Members, Distinct
<1>4. QED
  BY <1>1, <1>2, <1>3, PTL DEF Spec
=============================================================================
