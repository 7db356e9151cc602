-------------------------- MODULE HttpServerProofs --------------------------
(***************************************************************************)
(* Proofs about the HTTP server (HttpServer), for every size of the pbuf   *)
(* pool and of the send buffer, every length of response and request, and  *)
(* any number of control blocks, connections and texts.                    *)
(***************************************************************************)
EXTENDS HttpServer, FiniteSetTheorems, TLAPS

LEMMA Sizes == /\ PoolSize \in Nat /\ SndBuf \in Nat /\ Pcbs \in Nat /\ MaxRes \in Nat
               /\ MaxReq \in Nat /\ MaxConns \in Nat /\ MaxTexts \in Nat
  BY SizesAssumption

-----------------------------------------------------------------------------
(* The requests.                                                           *)

(* What the script was given is older than the request held, unless it is  *)
(* just marking that one as seen.                                          *)
RequestInv ==
  /\ reqbuff \in Nat /\ got \in Seq(Nat)
  /\ \A i \in 1..Len(got) : got[i] <= reqbuff
  /\ \A i, j \in 1..Len(got) : i < j => got[i] < got[j]
  /\ pc = "copy" => reqlen # 0
  /\ reqlen # 0 /\ pc # "clear" => \A i \in 1..Len(got) : got[i] < reqbuff

LEMMA RequestApart ==
  ASSUME HttpsvrBind \/ SetRes \/ Accept
           \/ \E c \in Conns : RecvFin(c) \/ SendOne(c) \/ SendEnd(c) \/ Sent(c) \/ Poll(c)
                                 \/ Error(c) \/ Freed(c)
  PROVE  UNCHANGED <<reqbuff, reqlen, got>> /\ (pc' # pc => pc = "bind" /\ pc' = "idle")
<1>1. CASE HttpsvrBind \/ SetRes \/ Accept
  BY <1>1 DEF HttpsvrBind, SetRes, Accept, requests, hist, Foreground
<1>2. ASSUME NEW c \in Conns, RecvFin(c) \/ SendOne(c) \/ SendEnd(c) \/ Sent(c) \/ Poll(c)
                                \/ Error(c) \/ Freed(c)
      PROVE  UNCHANGED <<reqbuff, reqlen, got, pc>>
  BY <1>2 DEF RecvFin, SendOne, SendEnd, Sent, Poll, Error, Freed, requests, hist
<1>3. QED
  BY <1>1, <1>2

LEMMA RequestKeeps ==
  ASSUME RequestInv, [Next]_vars
  PROVE  RequestInv'
<1>1. CASE HttpsvrBind \/ SetRes \/ Accept
             \/ \E c \in Conns : RecvFin(c) \/ SendOne(c) \/ SendEnd(c) \/ Sent(c) \/ Poll(c)
                                   \/ Error(c) \/ Freed(c)
  BY <1>1, RequestApart DEF RequestInv
<1>2. CASE HttpsvrInit
  BY <1>2 DEF HttpsvrInit, RequestInv, hist
<1>3. CASE CopyTest
  BY <1>3 DEF CopyTest, Foreground, RequestInv, requests, hist
<1>4. CASE CopyOut
  <2>1. /\ got' = Append(got, reqbuff) /\ pc = "copy" /\ pc' = "clear" /\ UNCHANGED <<reqbuff, reqlen>>
    BY <1>4 DEF CopyOut, Foreground, requests
  <2>2. \A i \in 1..Len(got) : got[i] < reqbuff
    BY <2>1 DEF RequestInv
  <2>3. /\ got' \in Seq(Nat) /\ Len(got') = Len(got) + 1 /\ Len(got) \in Nat /\ reqbuff \in Nat
        /\ \A i \in 1..Len(got) : got'[i] = got[i]
        /\ got'[Len(got) + 1] = reqbuff
    BY <2>1 DEF RequestInv
  <2>4. \A i, j \in 1..Len(got) : i < j => got[i] < got[j]
    BY DEF RequestInv
  <2>5. ASSUME NEW i \in 1..Len(got'), NEW j \in 1..Len(got'), i < j
        PROVE  got'[i] < got'[j]
    <3>1. i \in 1..Len(got) /\ got'[i] = got[i]
      BY <2>3, <2>5
    <3>2. CASE j \in 1..Len(got)
      BY <2>3, <2>4, <2>5, <3>1, <3>2
    <3>3. CASE j = Len(got) + 1
      BY <2>2, <2>3, <3>1, <3>3
    <3>4. QED
      BY <2>3, <3>2, <3>3
  <2>6. ASSUME NEW i \in 1..Len(got')
        PROVE  got'[i] <= reqbuff'
    <3>1. CASE i \in 1..Len(got)
      <4>1. got[i] \in Nat /\ got[i] < reqbuff
        BY <2>2, <3>1 DEF RequestInv
      <4>2. QED
        BY <2>1, <2>3, <3>1, <4>1
    <3>2. CASE i = Len(got) + 1
      BY <2>1, <2>3, <3>2
    <3>3. QED
      BY <2>3, <3>1, <3>2
  <2>7. QED
    BY <2>1, <2>3, <2>5, <2>6 DEF RequestInv
<1>5. CASE CopyClear
  BY <1>5 DEF CopyClear, Seen, RequestInv, hist
<1>6. CASE \E c \in Conns : RecvRequest(c)
  <2>1. reqbuff' = reqbuff + 1 /\ reqlen' = 1 /\ UNCHANGED <<pc, got>>
    BY <1>6 DEF RecvRequest
  <2>2. ASSUME NEW i \in 1..Len(got)
        PROVE  got[i] < reqbuff' /\ got[i] <= reqbuff'
    <3>1. got[i] \in Nat /\ got[i] <= reqbuff /\ reqbuff \in Nat
      BY DEF RequestInv
    <3>2. QED
      BY <2>1, <3>1
  <2>3. reqbuff' \in Nat
    BY <2>1 DEF RequestInv
  <2>4. QED
    BY <2>1, <2>2, <2>3 DEF RequestInv
<1>7. CASE UNCHANGED vars
  BY <1>7 DEF RequestInv, vars, requests, hist
<1>8. QED
  BY <1>1, <1>2, <1>3, <1>4, <1>5, <1>6, <1>7 DEF Next, Script, Lwip

(* RequestsOnce: httpsvr_copyreq (httpsvr.c) gives each request at most    *)
(* once, and none after a newer one, without a lock.                       *)
THEOREM RequestsSeenOnce == Spec => []RequestsOnce
<1>1. Init => RequestInv
  BY DEF Init, RequestInv
<1>2. RequestInv /\ [Next]_vars => RequestInv'
  BY RequestKeeps
<1>3. RequestInv => RequestsOnce
  BY DEF RequestInv, RequestsOnce
<1>4. QED
  BY <1>1, <1>2, <1>3, PTL DEF Spec

-----------------------------------------------------------------------------
(* The chains of pbufs.                                                    *)

Members(s) == {s[i] : i \in 1..Len(s)}
Distinct(s) == \A i, j \in 1..Len(s) : i # j => s[i] # s[j]

PcbStates == {"none", "up", "fin", "reset", "gone"}
EsStates == {"none", "accepted", "closing"}
PartSet == [version : Nat, part : Nat]
TextSet == [version : Nat, len : Nat]

Types ==
  /\ resbuff \in TextSet /\ reslen = resbuff.len
  /\ conns \in Nat /\ debt \in [Conns -> Nat]
  /\ pcb \in [Conns -> PcbStates] /\ es \in [Conns -> EsStates]
  /\ p \in [Conns -> Seq(Pbufs)] /\ content \in [Pbufs -> PartSet] /\ ref \in [Pbufs -> 0..1]
  /\ reply \in [Conns -> [text : TextSet, len : Nat, req : Nat]]
  /\ out \in [Conns -> Seq(PartSet)]

(* A pbuf is in use while it is in a chain, and then in one, once.         *)
ChainInv ==
  /\ \A c \in Conns : Distinct(p[c])
  /\ \A c, d \in Conns : c # d => Members(p[c]) \cap Members(p[d]) = {}
  /\ \A b \in Pbufs : ref[b] = 1 <=> \E c \in Conns : b \in Members(p[c])

(* A chain that changes, and the references with it.                       *)
LEMMA ChainMoves ==
  ASSUME Types, ChainInv, NEW c \in Conns, NEW s, p' = [p EXCEPT ![c] = s], Distinct(s),
         \A d \in Conns : d # c => Members(s) \cap Members(p[d]) = {},
         \A b \in Pbufs : ref'[b] = 1 <=> b \in Members(s) \/ (ref[b] = 1 /\ b \notin Members(p[c]))
  PROVE  ChainInv'
<1>1. p'[c] = s /\ \A d \in Conns : d # c => p'[d] = p[d]
  BY DEF Types
<1>2. \A d \in Conns : Distinct(p'[d])
  BY <1>1 DEF ChainInv
<1>3. \A d, e \in Conns : d # e => Members(p'[d]) \cap Members(p'[e]) = {}
  BY <1>1 DEF ChainInv
<1>4. ASSUME NEW b \in Pbufs
      PROVE  ref'[b] = 1 <=> \E d \in Conns : b \in Members(p'[d])
  <2>1. CASE b \in Members(s)
    BY <1>1, <2>1
  <2>2. CASE b \notin Members(s)
    <3>1. (\E d \in Conns : b \in Members(p'[d])) <=> \E d \in Conns : d # c /\ b \in Members(p[d])
      BY <1>1, <2>2
    <3>2. (ref[b] = 1 /\ b \notin Members(p[c])) <=> \E d \in Conns : d # c /\ b \in Members(p[d])
      BY DEF ChainInv
    <3>3. QED
      BY <2>2, <3>1, <3>2
  <2>3. QED
    BY <2>1, <2>2
<1>5. QED
  BY <1>2, <1>3, <1>4 DEF ChainInv

(* httpsvr_free frees the whole chain.                                     *)
LEMMA FreesAll ==
  ASSUME Types, ChainInv, NEW c \in Conns
  PROVE  PbufFree(ref, p[c]) = [b \in Pbufs |-> IF b \in Members(p[c]) THEN 0 ELSE ref[b]]
<1> DEFINE s == p[c]
<1>1. s \in Seq(Pbufs) /\ DOMAIN s = 1..Len(s) /\ Len(s) \in Nat
  BY DEF Types
<1>2. \A i \in 1..Len(s) : s[i] \in Pbufs /\ ref[s[i]] = 1
  BY <1>1 DEF ChainInv, Members
<1> HIDE DEF s
<1>3. ASSUME NEW b \in Pbufs
      PROVE  (\E i \in DOMAIN s : s[i] = b /\ \A j \in 1..(i - 1) : ref[s[j]] = 1) <=> b \in Members(s)
  <2>1. \A i \in DOMAIN s : \A j \in 1..(i - 1) : j \in 1..Len(s)
    BY <1>1
  <2>2. QED
    BY <1>1, <1>2, <2>1 DEF Members
<1>4. \A b \in Pbufs : b \in Members(s) => ref[b] - 1 = 0
  BY <1>2 DEF Members
<1>5. QED
  BY <1>3, <1>4 DEF PbufFree, s

(* A turn of httpsvr_send frees the first pbuf alone.                      *)
LEMMA FreesFirst ==
  ASSUME Types, ChainInv, NEW c \in Conns, p[c] # <<>>
  PROVE  Advanced(p[c]) = [b \in Pbufs |-> IF b = p[c][1] THEN 0 ELSE ref[b]]
<1> DEFINE s == p[c]
           r == [b \in Pbufs |-> IF Len(s) > 1 /\ b = s[2] THEN ref[b] + 1 ELSE ref[b]]
           cut(b) == \E i \in DOMAIN s : s[i] = b /\ \A j \in 1..(i - 1) : r[s[j]] = 1
<1>1. s \in Seq(Pbufs) /\ DOMAIN s = 1..Len(s) /\ Len(s) \in Nat /\ Len(s) > 0
  BY DEF Types
<1>2. \A i \in 1..Len(s) : s[i] \in Pbufs /\ ref[s[i]] = 1
  BY <1>1 DEF ChainInv, Members
<1>3. \A i, j \in 1..Len(s) : i # j => s[i] # s[j]
  BY DEF ChainInv, Distinct
<1>4. Advanced(s) = [b \in Pbufs |-> IF cut(b) THEN r[b] - 1 ELSE r[b]]
  BY DEF Advanced, PbufFree
<1> HIDE DEF s
<1>5. r[s[1]] = 1
  BY <1>1, <1>2, <1>3
<1>6. ASSUME NEW b \in Pbufs
      PROVE  (IF cut(b) THEN r[b] - 1 ELSE r[b]) = IF b = s[1] THEN 0 ELSE ref[b]
  <2>1. CASE b = s[1]
    <3>1. 1 \in DOMAIN s /\ \A j \in 1..(1 - 1) : r[s[j]] = 1
      BY <1>1
    <3>2. cut(b)
      BY <2>1, <3>1
    <3>3. QED
      BY <1>5, <2>1, <3>2
  <2>2. CASE b # s[1] /\ Len(s) > 1 /\ b = s[2]
    <3>1. 2 \in DOMAIN s /\ \A j \in 1..(2 - 1) : r[s[j]] = 1
      BY <1>1, <1>5, <2>2
    <3>2. cut(b)
      BY <2>2, <3>1
    <3>3. r[b] = ref[b] + 1 /\ ref[b] = 1
      BY <1>1, <1>2, <2>2
    <3>4. QED
      BY <2>2, <3>2, <3>3
  <2>3. CASE b # s[1] /\ ~(Len(s) > 1 /\ b = s[2])
    <3>1. r[b] = ref[b]
      BY <2>3
    <3>2. ASSUME cut(b)
          PROVE  FALSE
      <4>1. PICK i \in DOMAIN s : s[i] = b /\ \A j \in 1..(i - 1) : r[s[j]] = 1
        BY <3>2
      <4>2. i > 2 /\ i <= Len(s) /\ i \in Nat
        BY <1>1, <2>3, <4>1
      <4>3. r[s[2]] = 1
        BY <4>1, <4>2
      <4>4. r[s[2]] = ref[s[2]] + 1 /\ ref[s[2]] = 1
        BY <1>1, <1>2, <4>2
      <4>5. QED
        BY <4>3, <4>4
    <3>3. QED
      BY <2>3, <3>1, <3>2
  <2>4. QED
    BY <2>1, <2>2, <2>3
<1>7. QED
  BY <1>4, <1>6 DEF s

-----------------------------------------------------------------------------
(* Types and chains, action by action.                                     *)

LEMMA ForegroundTypes ==
  ASSUME Types, Script \/ UNCHANGED vars
  PROVE  Types' /\ UNCHANGED pbufs
<1> USE Sizes
<1>1. CASE HttpsvrInit
  BY <1>1 DEF HttpsvrInit, Types, Text, TextSet, tcp, pbufs, hist
<1>2. CASE SetRes
  BY <1>2 DEF SetRes, SetLen, Types, Text, TextSet, tcp, pbufs, hist
<1>3. CASE HttpsvrBind \/ CopyTest \/ CopyOut \/ CopyClear \/ UNCHANGED vars
  BY <1>3 DEF HttpsvrBind, CopyTest, CopyOut, CopyClear, vars, Types, texts, tcp, pbufs, hist
<1>4. QED
  BY <1>1, <1>2, <1>3 DEF Script

LEMMA AcceptTypes ==
  ASSUME Types, Accept
  PROVE  Types' /\ UNCHANGED pbufs
<1>1. conns' = conns + 1 /\ pcb' \in [Conns -> PcbStates] /\ es' \in [Conns -> EsStates]
  BY DEF Accept, Types, PcbStates, EsStates
<1>2. UNCHANGED <<texts, debt, pbufs, hist>>
  BY DEF Accept
<1>3. QED
  BY <1>1, <1>2 DEF Types, texts, pbufs, hist

(* What RecvRequest does to the connection, when it answers.               *)
Answers(c, s) ==
  /\ s \in Chains(reslen)
  /\ p' = [p EXCEPT ![c] = s]
  /\ ref' = [b \in Pbufs |-> IF \E i \in DOMAIN s : s[i] = b THEN 1 ELSE ref[b]]
  /\ content' = [b \in Pbufs |-> IF \E i \in DOMAIN s : s[i] = b
                   THEN Part(resbuff, CHOOSE i \in DOMAIN s : s[i] = b)
                   ELSE content[b]]
  /\ reply' = [reply EXCEPT ![c] = [text |-> resbuff, len |-> reslen, req |-> debt'[c]]]

LEMMA ChainIs ==
  ASSUME Types, NEW s \in Chains(reslen)
  PROVE  /\ s \in Seq(Pbufs) /\ Len(s) = reslen /\ DOMAIN s = 1..Len(s) /\ reslen \in Nat
         /\ Distinct(s) /\ \A i \in 1..Len(s) : s[i] \in Pbufs /\ ref[s[i]] = 0
<1>1. reslen \in Nat
  BY DEF Types, TextSet
<1>2. s \in [1..reslen -> {b \in Pbufs : ref[b] = 0}]
      /\ \A i, j \in 1..reslen : i < j => s[i] < s[j]
  BY DEF Chains
<1>3. s \in Seq(Pbufs) /\ Len(s) = reslen /\ DOMAIN s = 1..Len(s)
  BY <1>1, <1>2
<1>4. \A i \in 1..Len(s) : s[i] \in Pbufs /\ ref[s[i]] = 0
  BY <1>2, <1>3
<1>5. ASSUME NEW i \in 1..Len(s), NEW j \in 1..Len(s), i # j
      PROVE  s[i] # s[j]
  <2>1. s[i] \in Int /\ s[j] \in Int
    BY <1>4 DEF Pbufs
  <2>2. i < j \/ j < i
    BY <1>1, <1>3, <1>5
  <2>3. s[i] < s[j] \/ s[j] < s[i]
    BY <1>2, <1>3, <2>2
  <2>4. QED
    BY <2>1, <2>3
<1>6. QED
  BY <1>1, <1>3, <1>4, <1>5 DEF Distinct

LEMMA ChosenPart ==
  ASSUME NEW s, Distinct(s), DOMAIN s = 1..Len(s), NEW i \in 1..Len(s)
  PROVE  (CHOOSE j \in DOMAIN s : s[j] = s[i]) = i
  BY DEF Distinct

LEMMA AnswersKeep ==
  ASSUME Types, ChainInv, NEW c \in Conns, NEW s, Answers(c, s), debt' \in [Conns -> Nat], p[c] = <<>>
  PROVE  /\ p' \in [Conns -> Seq(Pbufs)] /\ content' \in [Pbufs -> PartSet]
         /\ ref' \in [Pbufs -> 0..1]
         /\ reply' \in [Conns -> [text : TextSet, len : Nat, req : Nat]]
         /\ ChainInv'
<1>1. /\ s \in Seq(Pbufs) /\ Len(s) = reslen /\ DOMAIN s = 1..Len(s) /\ reslen \in Nat
      /\ Distinct(s) /\ \A i \in 1..Len(s) : s[i] \in Pbufs /\ ref[s[i]] = 0
  BY ChainIs DEF Answers
<1>2. p' \in [Conns -> Seq(Pbufs)] /\ ref' \in [Pbufs -> 0..1]
  BY <1>1 DEF Answers, Types
<1>3. content' \in [Pbufs -> PartSet]
  <2>1. ASSUME NEW b \in Pbufs, \E i \in DOMAIN s : s[i] = b
        PROVE  Part(resbuff, CHOOSE i \in DOMAIN s : s[i] = b) \in PartSet
    <3>1. PICK i \in 1..Len(s) : s[i] = b
      BY <1>1, <2>1
    <3>2. (CHOOSE j \in DOMAIN s : s[j] = b) = i
      BY <1>1, <3>1, ChosenPart
    <3>3. i \in Nat /\ resbuff.version \in Nat
      BY DEF Types, TextSet
    <3>4. QED
      BY <3>2, <3>3 DEF Part, PartSet
  <2>2. QED
    BY <2>1 DEF Answers, Types
<1>4. reply' \in [Conns -> [text : TextSet, len : Nat, req : Nat]]
  BY <1>1 DEF Answers, Types
<1>5. ChainInv'
  <2>1. \A d \in Conns : d # c => Members(s) \cap Members(p[d]) = {}
    <3>1. \A b \in Members(s) : b \in Pbufs /\ ref[b] = 0
      BY <1>1 DEF Members
    <3>2. QED
      BY <3>1 DEF ChainInv
  <2>2. Members(p[c]) = {}
    BY DEF Members
  <2>3. \A b \in Pbufs : ref'[b] = 1 <=> b \in Members(s) \/ (ref[b] = 1 /\ b \notin Members(p[c]))
    BY <1>1, <2>2 DEF Answers, Members
  <2>4. p' = [p EXCEPT ![c] = s]
    BY DEF Answers
  <2>5. QED
    BY <1>1, <2>1, <2>3, <2>4, ChainMoves
<1>6. QED
  BY <1>2, <1>3, <1>4, <1>5

-----------------------------------------------------------------------------
(* The replies.                                                            *)

(* The first n parts of a text.                                            *)
Given(t, n) == [i \in 1..n |-> Part(t, i)]
(* What is not yet given back of n received when k pbufs are sent.         *)
Owing(n, k) == IF k < n THEN n - k ELSE 0

(* A connection has a chain only while its answer is on its way; what was  *)
(* given to TCP and what is in the chain make up the text taken for it.    *)
ConnInv(c) ==
  /\ c > conns => pcb[c] = "none"
  /\ es[c] # "none" => pcb[c] = "up"
  /\ es[c] # "closing" => p[c] = <<>>
  /\ pcb[c] = "none" \/ es[c] = "accepted" => reply[c] = NoReply
  /\ reply[c] = NoReply => p[c] = <<>> /\ out[c] = <<>>
  /\ reply[c] # NoReply =>
       /\ reply[c].len = reply[c].text.len
       /\ out[c] = Given(reply[c].text, Len(out[c]))
       /\ \A i \in 1..Len(p[c]) : content[p[c][i]] = Part(reply[c].text, Len(out[c]) + i)
       /\ es[c] = "closing" => Len(out[c]) + Len(p[c]) = reply[c].len
       /\ pcb[c] \in {"fin", "reset"} => Len(out[c]) = reply[c].len
       /\ pcb[c] = "up" => debt[c] = Owing(reply[c].req, Len(out[c]))
  /\ pcb[c] = "reset" => reply[c] = NoReply \/ reply[c].len < reply[c].req

ServerInv == Types /\ ChainInv /\ \A c \in Conns : ConnInv(c)

LEMMA GivenMore ==
  ASSUME NEW t, NEW n \in Nat
  PROVE  /\ Append(Given(t, n), Part(t, n + 1)) = Given(t, n + 1)
         /\ Len(Given(t, n)) = n
  BY DEF Given

(* A connection that a step does not touch.                                *)
LEMMA ConnStays ==
  ASSUME Types, NEW c \in Conns, ConnInv(c), conns' \in Nat, conns <= conns',
         pcb'[c] = pcb[c], es'[c] = es[c], p'[c] = p[c], reply'[c] = reply[c], out'[c] = out[c],
         debt'[c] = debt[c],
         \A i \in 1..Len(p[c]) : content'[p[c][i]] = content[p[c][i]]
  PROVE  ConnInv(c)'
<1>1. c > conns' => c > conns
  BY DEF Types, Conns
<1>2. QED
  BY <1>1 DEF ConnInv

LEMMA ForegroundKeeps ==
  ASSUME ServerInv, Script \/ UNCHANGED vars
  PROVE  ServerInv'
<1>1. Types' /\ UNCHANGED pbufs
  BY ForegroundTypes DEF ServerInv
<1>2. ChainInv'
  BY <1>1 DEF ServerInv, ChainInv, pbufs
<1>3. UNCHANGED <<conns, pcb, es, reply, out, debt>>
  BY DEF Script, HttpsvrInit, HttpsvrBind, SetRes, CopyTest, CopyOut, CopyClear, vars, tcp, hist
<1>4. ASSUME NEW c \in Conns
      PROVE  ConnInv(c)'
  <2>1. Types /\ ConnInv(c) /\ conns' \in Nat /\ conns <= conns'
    BY <1>1, <1>3 DEF ServerInv, Types
  <2>2. QED
    BY <1>1, <1>3, <2>1, ConnStays DEF pbufs
<1>5. QED
  BY <1>1, <1>2, <1>4 DEF ServerInv

LEMMA AcceptKeeps ==
  ASSUME ServerInv, Accept
  PROVE  ServerInv'
<1>1. Types' /\ UNCHANGED pbufs
  BY AcceptTypes DEF ServerInv
<1>2. ChainInv'
  BY <1>1 DEF ServerInv, ChainInv, pbufs
<1> PICK new \in Conns : new = conns + 1
  BY DEF Accept
<1>3. /\ new \in Conns /\ conns' = new /\ UNCHANGED <<debt, reply, out>>
      /\ \/ pcb' = [pcb EXCEPT ![new] = "up"] /\ es' = [es EXCEPT ![new] = "accepted"]
         \/ pcb' = [pcb EXCEPT ![new] = "gone"] /\ UNCHANGED es
  BY DEF Accept, hist
<1>4. Types /\ \A c \in Conns : ConnInv(c)
  BY DEF ServerInv
<1>5. ASSUME NEW c \in Conns, c # new
      PROVE  ConnInv(c)'
  <2>1. pcb'[c] = pcb[c] /\ es'[c] = es[c]
    BY <1>3, <1>4, <1>5 DEF Types
  <2>2. conns' \in Nat /\ conns <= conns'
    BY <1>3, <1>4 DEF Types
  <2>3. QED
    BY <1>1, <1>3, <1>4, <2>1, <2>2, ConnStays DEF pbufs
<1>6. ConnInv(new)'
  <2>1. new > conns /\ ~(new > conns') /\ ConnInv(new)
    BY <1>3, <1>4 DEF Types
  <2>2. pcb[new] = "none" /\ reply[new] = NoReply /\ es[new] = "none" /\ p[new] = <<>> /\ out[new] = <<>>
    BY <1>3, <1>4, <2>1 DEF ConnInv
  <2>3. p'[new] = <<>> /\ out'[new] = <<>> /\ reply'[new] = NoReply
    BY <1>1, <1>3, <2>2 DEF pbufs
  <2>4. \/ pcb'[new] = "up" /\ es'[new] = "accepted"
        \/ pcb'[new] = "gone" /\ es'[new] = "none"
    BY <1>3, <1>4, <2>2 DEF Types
  <2>5. QED
    BY <2>1, <2>3, <2>4 DEF ConnInv
<1>7. QED
  BY <1>1, <1>2, <1>5, <1>6 DEF ServerInv

(* The first segment of a connection.                                      *)
LEMMA RequestServed ==
  ASSUME ServerInv, NEW c \in Conns, RecvRequest(c)
  PROVE  ServerInv'
<1>1. Types /\ ChainInv /\ \A d \in Conns : ConnInv(d)
  BY DEF ServerInv
<1>2. /\ es[c] = "accepted" /\ es' = [es EXCEPT ![c] = "closing"] /\ pcb[c] = "up"
      /\ UNCHANGED <<texts, conns, pcb, out>>
  BY DEF RecvRequest, Callback
<1>3. p[c] = <<>> /\ reply[c] = NoReply /\ out[c] = <<>>
  BY <1>1, <1>2 DEF ConnInv
<1>4. PICK n \in 1..MaxReq : debt' = [debt EXCEPT ![c] = n]
  BY DEF RecvRequest
<1>5. debt' \in [Conns -> Nat] /\ debt'[c] = n /\ n \in Nat /\ n > 0
      /\ \A d \in Conns : d # c => debt'[d] = debt[d]
  BY <1>1, <1>4, Sizes DEF Types
<1>6. es' \in [Conns -> EsStates] /\ es'[c] = "closing" /\ \A d \in Conns : d # c => es'[d] = es[d]
  BY <1>1, <1>2 DEF Types, EsStates
<1>7. conns' \in Nat /\ conns <= conns'
  BY <1>1, <1>2 DEF Types
<1>8. CASE UNCHANGED <<pbufs, reply>>
  <2>1. Types' /\ ChainInv'
    BY <1>1, <1>2, <1>5, <1>6, <1>8 DEF Types, ChainInv, texts, pbufs
  <2>2. ASSUME NEW d \in Conns, d # c
        PROVE  ConnInv(d)'
    BY <1>1, <1>2, <1>5, <1>6, <1>7, <1>8, <2>2, ConnStays DEF pbufs
  <2>3. ConnInv(c)'
    BY <1>1, <1>2, <1>3, <1>6, <1>8 DEF ConnInv, pbufs
  <2>4. QED
    BY <2>1, <2>2, <2>3 DEF ServerInv
<1>9. CASE \E s \in Chains(reslen) : Answers(c, s)
  <2>1. PICK s : Answers(c, s)
    BY <1>9
  <2>2. /\ p' \in [Conns -> Seq(Pbufs)] /\ content' \in [Pbufs -> PartSet]
        /\ ref' \in [Pbufs -> 0..1]
        /\ reply' \in [Conns -> [text : TextSet, len : Nat, req : Nat]]
        /\ ChainInv'
    BY <1>1, <1>3, <1>5, <2>1, AnswersKeep
  <2>3. Types'
    BY <1>1, <1>2, <1>5, <1>6, <2>2 DEF Types, texts
  <2>4. /\ s \in Seq(Pbufs) /\ Len(s) = reslen /\ DOMAIN s = 1..Len(s) /\ reslen \in Nat
        /\ Distinct(s) /\ \A i \in 1..Len(s) : s[i] \in Pbufs /\ ref[s[i]] = 0
    BY <1>1, <2>1, ChainIs DEF Answers
  <2>5. ASSUME NEW d \in Conns, d # c
        PROVE  ConnInv(d)'
    <3>1. p'[d] = p[d] /\ reply'[d] = reply[d]
      BY <1>1, <2>1, <2>5 DEF Answers, Types
    <3>2. ASSUME NEW i \in 1..Len(p[d])
          PROVE  content'[p[d][i]] = content[p[d][i]]
      <4>1. p[d][i] \in Pbufs /\ ref[p[d][i]] = 1
        BY <1>1, <3>2 DEF Types, ChainInv, Members
      <4>2. ~ \E j \in DOMAIN s : s[j] = p[d][i]
        BY <2>4, <4>1
      <4>3. QED
        BY <2>1, <4>1, <4>2 DEF Answers
    <3>3. QED
      BY <1>1, <1>2, <1>5, <1>6, <1>7, <2>5, <3>1, <3>2, ConnStays
  <2>6. ConnInv(c)'
    <3>1. p'[c] = s /\ reply'[c] = [text |-> resbuff, len |-> reslen, req |-> n]
      BY <1>1, <1>5, <2>1 DEF Answers, Types
    <3>2. ASSUME NEW i \in 1..Len(s)
          PROVE  content'[s[i]] = Part(resbuff, i)
      <4>1. (CHOOSE j \in DOMAIN s : s[j] = s[i]) = i
        BY <2>4, <3>2, ChosenPart
      <4>2. s[i] \in Pbufs /\ \E j \in DOMAIN s : s[j] = s[i]
        BY <2>4, <3>2
      <4>3. QED
        BY <2>1, <4>1, <4>2 DEF Answers
    <3>3. reply'[c] # NoReply /\ reply'[c].len = reply'[c].text.len /\ reslen = resbuff.len
      BY <1>1, <1>5, <3>1 DEF NoReply, Types
    <3>4. out'[c] = <<>> /\ Len(out'[c]) = 0
      BY <1>2, <1>3
    <3>5. out'[c] = Given(reply'[c].text, Len(out'[c]))
      BY <3>4 DEF Given
    <3>6. \A i \in 1..Len(p'[c]) : content'[p'[c][i]] = Part(reply'[c].text, Len(out'[c]) + i)
      BY <3>1, <3>2, <3>4
    <3>7. Len(out'[c]) + Len(p'[c]) = reply'[c].len
      BY <2>4, <3>1, <3>4
    <3>8. debt'[c] = Owing(reply'[c].req, Len(out'[c]))
      BY <1>5, <3>1, <3>4 DEF Owing
    <3>9. pcb'[c] = "up" /\ es'[c] = "closing"
      BY <1>2, <1>6
    <3>10. ~(c > conns')
      BY <1>1, <1>2 DEF ConnInv
    <3>11. QED
      BY <3>3, <3>5, <3>6, <3>7, <3>8, <3>9, <3>10 DEF ConnInv
  <2>7. QED
    BY <2>2, <2>3, <2>5, <2>6 DEF ServerInv
<1>10. QED
  BY <1>8, <1>9 DEF RecvRequest, Answers, pbufs

(* The end of a connection's state; its control block goes to x.           *)
LEMMA FreeKeeps ==
  ASSUME ServerInv, NEW c \in Conns, NEW x \in PcbStates, Free(c), pcb' = [pcb EXCEPT ![c] = x],
         UNCHANGED <<texts, conns, debt, content, reply, out>>
  PROVE  /\ Types' /\ ChainInv' /\ \A d \in Conns : d # c => ConnInv(d)'
         /\ pcb'[c] = x /\ es'[c] = "none" /\ p'[c] = <<>>
<1>1. Types /\ ChainInv /\ \A d \in Conns : ConnInv(d)
  BY DEF ServerInv
<1>2. /\ es' = [es EXCEPT ![c] = "none"] /\ p' = [p EXCEPT ![c] = <<>>]
      /\ ref' = [b \in Pbufs |-> IF b \in Members(p[c]) THEN 0 ELSE ref[b]]
  BY <1>1, FreesAll DEF Free
<1>3. /\ pcb'[c] = x /\ es'[c] = "none" /\ p'[c] = <<>>
      /\ \A d \in Conns : d # c => pcb'[d] = pcb[d] /\ es'[d] = es[d] /\ p'[d] = p[d]
  BY <1>1, <1>2 DEF Types
<1>4. Types'
  BY <1>1, <1>2 DEF Types, EsStates, texts
<1>5. ChainInv'
  <2>1. Members(<<>>) = {} /\ Distinct(<<>>)
    BY DEF Members, Distinct
  <2>2. \A b \in Pbufs : ref'[b] = 1 <=> b \in Members(<<>>) \/ (ref[b] = 1 /\ b \notin Members(p[c]))
    BY <1>2, <2>1
  <2>3. QED
    BY <1>1, <1>2, <2>1, <2>2, ChainMoves
<1>6. conns' \in Nat /\ conns <= conns'
  BY <1>1 DEF Types
<1>7. ASSUME NEW d \in Conns, d # c
      PROVE  ConnInv(d)'
  BY <1>1, <1>3, <1>6, <1>7, ConnStays
<1>8. QED
  BY <1>3, <1>4, <1>5, <1>7

(* httpsvr_close, with nothing left in the chain.                          *)
LEMMA CloseKeeps ==
  ASSUME ServerInv, NEW c \in Conns, Close(c), p[c] = <<>>, pcb[c] = "up",
         es[c] \in {"accepted", "closing"}, UNCHANGED <<texts, conns, debt, content, reply, out>>
  PROVE  ServerInv'
<1>1. Types /\ ConnInv(c)
  BY DEF ServerInv
<1> DEFINE x == TcpClose(c)
<1>2. x \in {"fin", "reset"} /\ (x = "reset" => debt[c] # 0)
  BY DEF TcpClose
<1>3. Free(c) /\ pcb' = [pcb EXCEPT ![c] = x]
  BY DEF Close
<1> HIDE DEF x
<1>4. x \in PcbStates
  BY <1>2 DEF PcbStates
<1>5. /\ Types' /\ ChainInv' /\ \A d \in Conns : d # c => ConnInv(d)'
      /\ pcb'[c] = x /\ es'[c] = "none" /\ p'[c] = <<>>
  BY <1>3, <1>4, FreeKeeps
<1>6. ASSUME reply[c] # NoReply
      PROVE  Len(out[c]) = reply[c].len /\ (x = "reset" => reply[c].len < reply[c].req)
  <2>1. es[c] = "closing"
    BY <1>1, <1>6 DEF ConnInv
  <2>2. Len(out[c]) \in Nat /\ reply[c].len \in Nat /\ reply[c].req \in Nat
    BY <1>1 DEF Types
  <2>3. Len(out[c]) + Len(p[c]) = reply[c].len /\ debt[c] = Owing(reply[c].req, Len(out[c]))
    BY <1>1, <1>6, <2>1 DEF ConnInv
  <2>4. Len(p[c]) = 0
    OBVIOUS
  <2>5. QED
    BY <1>2, <2>2, <2>3, <2>4 DEF Owing
<1>7. ~(c > conns)
  BY <1>1 DEF ConnInv
<1>8. ConnInv(c)'
  BY <1>1, <1>2, <1>5, <1>6, <1>7 DEF ConnInv
<1>9. QED
  BY <1>5, <1>8 DEF ServerInv

(* Steps that leave the connections to what they are.                      *)
LEMMA QuietKeeps ==
  ASSUME ServerInv, UNCHANGED <<texts, conns, debt, pcb, es, pbufs, reply, out>>
  PROVE  ServerInv'
<1>1. Types' /\ ChainInv'
  BY DEF ServerInv, Types, ChainInv, texts, pbufs
<1>2. ASSUME NEW c \in Conns
      PROVE  ConnInv(c)'
  <2>1. Types /\ ConnInv(c) /\ conns' \in Nat /\ conns <= conns'
    BY DEF ServerInv, Types
  <2>2. QED
    BY <2>1, ConnStays DEF pbufs
<1>3. QED
  BY <1>1, <1>2 DEF ServerInv

(* httpsvr_recv at the end, httpsvr_sent and httpsvr_poll send on or close. *)
LEMMA CallbacksKeep ==
  ASSUME ServerInv, NEW c \in Conns, RecvFin(c) \/ Sent(c) \/ Poll(c)
  PROVE  ServerInv'
<1>1. /\ pcb[c] = "up" /\ es[c] \in {"accepted", "closing"} /\ UNCHANGED <<texts, conns, debt, content, reply, out>>
      /\ es \in [Conns -> EsStates]
  BY DEF RecvFin, Sent, Poll, Callback, tcp, hist, ServerInv, Types, EsStates
<1>2. CASE p[c] = <<>>
  <2>1. Close(c)
    BY <1>2 DEF RecvFin, Sent, Poll, Idle
  <2>2. QED
    BY <1>1, <1>2, <2>1, CloseKeeps
<1>3. CASE p[c] # <<>>
  <2>1. es[c] = "closing"
    BY <1>3 DEF ServerInv, ConnInv
  <2>2. UNCHANGED <<pcb, p, ref>> /\ (es' = es \/ es' = [es EXCEPT ![c] = "closing"])
    BY <1>3 DEF RecvFin, Sent, Poll, Idle, StartSend
  <2>3. es' = es
    BY <1>1, <2>1, <2>2
  <2>4. QED
    BY <1>1, <2>2, <2>3, QuietKeeps DEF pbufs
<1>4. QED
  BY <1>2, <1>3

LEMMA ErrorKeeps ==
  ASSUME ServerInv, NEW c \in Conns, Error(c)
  PROVE  ServerInv'
<1>1. /\ Free(c) /\ pcb' = [pcb EXCEPT ![c] = "gone"] /\ pcb[c] = "up"
      /\ UNCHANGED <<texts, conns, debt, content, reply, out>>
  BY DEF Error, Callback, tcp, hist
<1>2. "gone" \in PcbStates
  BY DEF PcbStates
<1>3. /\ Types' /\ ChainInv' /\ \A d \in Conns : d # c => ConnInv(d)'
      /\ pcb'[c] = "gone" /\ es'[c] = "none" /\ p'[c] = <<>>
  BY <1>1, <1>2, FreeKeeps
<1>4. ConnInv(c)
  BY DEF ServerInv
<1>5. ConnInv(c)'
  <2>1. ~(c > conns) /\ UNCHANGED <<conns, reply, out>>
    BY <1>1, <1>4 DEF ConnInv
  <2>2. \A i \in 1..Len(p'[c]) : FALSE
    BY <1>3
  <2>3. reply'[c] = NoReply => p'[c] = <<>> /\ out'[c] = <<>>
    BY <1>3, <1>4, <2>1 DEF ConnInv
  <2>4. reply'[c] # NoReply =>
          reply'[c].len = reply'[c].text.len /\ out'[c] = Given(reply'[c].text, Len(out'[c]))
    BY <1>4, <2>1 DEF ConnInv
  <2>5. QED
    BY <1>3, <2>1, <2>2, <2>3, <2>4 DEF ConnInv
<1>6. QED
  BY <1>3, <1>5 DEF ServerInv

LEMMA FreedKeeps ==
  ASSUME ServerInv, NEW c \in Conns, Freed(c)
  PROVE  ServerInv'
<1>1. /\ pcb' = [pcb EXCEPT ![c] = "gone"] /\ pcb[c] = "fin"
      /\ UNCHANGED <<texts, conns, debt, es, pbufs, reply, out>>
  BY DEF Freed, tcp, hist
<1>2. Types /\ ChainInv /\ \A d \in Conns : ConnInv(d)
  BY DEF ServerInv
<1>3. pcb'[c] = "gone" /\ \A d \in Conns : d # c => pcb'[d] = pcb[d]
  BY <1>1, <1>2 DEF Types
<1>4. Types' /\ ChainInv'
  BY <1>1, <1>2 DEF Types, ChainInv, PcbStates, texts, pbufs
<1>5. conns' \in Nat /\ conns <= conns'
  BY <1>1, <1>2 DEF Types
<1>6. ASSUME NEW d \in Conns, d # c
      PROVE  ConnInv(d)'
  BY <1>1, <1>2, <1>3, <1>5, <1>6, ConnStays DEF pbufs
<1>7. ConnInv(c)'
  <2>1. ConnInv(c) /\ p' = p /\ content' = content
    BY <1>1, <1>2 DEF pbufs
  <2>2. QED
    BY <1>1, <1>3, <2>1 DEF ConnInv
<1>8. QED
  BY <1>4, <1>6, <1>7 DEF ServerInv

(* A turn of the loop of httpsvr_send: the first part of what is left goes *)
(* to TCP.                                                                 *)
LEMMA SendOneKeeps ==
  ASSUME ServerInv, NEW c \in Conns, SendOne(c)
  PROVE  ServerInv'
<1>1. Types /\ ChainInv /\ \A d \in Conns : ConnInv(d)
  BY DEF ServerInv
<1> DEFINE s == p[c]
           first == s[1]
           n == Len(out[c])
<1>2. s \in Seq(Pbufs) /\ s # <<>> /\ Len(s) \in Nat /\ Len(s) > 0 /\ first \in Pbufs /\ first = Head(s)
  BY <1>1 DEF SendOne, Types
<1>3. /\ out' = [out EXCEPT ![c] = Append(out[c], content[first])]
      /\ p' = [p EXCEPT ![c] = Tail(s)]
      /\ ref' = [b \in Pbufs |-> IF b = first THEN 0 ELSE ref[b]]
      /\ debt' = [debt EXCEPT ![c] = IF debt[c] = 0 THEN 0 ELSE debt[c] - 1]
      /\ UNCHANGED <<texts, conns, pcb, es, content, reply>>
  BY <1>1, <1>2, FreesFirst DEF SendOne, Recved
<1>4. /\ Tail(s) \in Seq(Pbufs) /\ Len(Tail(s)) = Len(s) - 1
      /\ \A i \in 1..Len(Tail(s)) : i + 1 \in 1..Len(s) /\ Tail(s)[i] = s[i + 1]
  BY <1>2
<1>5. out[c] \in Seq(PartSet) /\ content[first] \in PartSet /\ n \in Nat /\ debt[c] \in Nat
  BY <1>1, <1>2 DEF Types
<1>6. \A d \in Conns : d # c => out'[d] = out[d] /\ p'[d] = p[d] /\ debt'[d] = debt[d]
  BY <1>1, <1>3 DEF Types
<1>7. /\ out'[c] = Append(out[c], content[first]) /\ p'[c] = Tail(s)
      /\ debt'[c] = IF debt[c] = 0 THEN 0 ELSE debt[c] - 1
  BY <1>1, <1>3 DEF Types
<1>8. Types'
  <2>1. Append(out[c], content[first]) \in Seq(PartSet)
    BY <1>5
  <2>2. out' \in [Conns -> Seq(PartSet)] /\ p' \in [Conns -> Seq(Pbufs)] /\ debt' \in [Conns -> Nat]
        /\ ref' \in [Pbufs -> 0..1]
    BY <1>1, <1>3, <1>4, <1>5, <2>1 DEF Types
  <2>3. QED
    BY <1>1, <1>3, <2>2 DEF Types, texts
<1>9. ChainInv'
  <2>1. Distinct(s) /\ \A d \in Conns : d # c => Members(s) \cap Members(p[d]) = {}
    BY <1>1 DEF ChainInv
  <2> HIDE DEF s
  <2>2. ASSUME NEW i \in 1..Len(Tail(s)), NEW j \in 1..Len(Tail(s)), i # j
        PROVE  Tail(s)[i] # Tail(s)[j]
    <3>1. i + 1 \in 1..Len(s) /\ j + 1 \in 1..Len(s) /\ i + 1 # j + 1
      BY <1>2, <1>4, <2>2
    <3>2. QED
      BY <1>4, <2>1, <3>1 DEF Distinct
  <2>3. Distinct(Tail(s))
    BY <2>2 DEF Distinct
  <2>4. Members(Tail(s)) = Members(s) \ {first}
    <3>1. Members(Tail(s)) \subseteq Members(s)
      BY <1>4 DEF Members
    <3>2. first \notin Members(Tail(s))
      <4>1. \A i \in 1..Len(Tail(s)) : i + 1 # 1 /\ 1 \in 1..Len(s)
        BY <1>2, <1>4
      <4>2. QED
        BY <1>4, <2>1, <4>1 DEF Members, Distinct
    <3>3. ASSUME NEW i \in 1..Len(s), s[i] # first
          PROVE  s[i] \in Members(Tail(s))
      <4>1. i - 1 \in 1..Len(Tail(s)) /\ (i - 1) + 1 = i
        BY <1>2, <1>4, <3>3
      <4>2. QED
        BY <1>4, <4>1 DEF Members
    <3>4. Members(s) \ {first} \subseteq Members(Tail(s))
      BY <3>3 DEF Members
    <3>5. QED
      BY <3>1, <3>2, <3>4
  <2>5. \A d \in Conns : d # c => Members(Tail(s)) \cap Members(p[d]) = {}
    BY <2>1, <2>4
  <2>6. first \in Members(s)
    BY <1>2 DEF Members
  <2>7. \A b \in Members(s) : b \in Pbufs => ref[b] = 1
    BY <1>1 DEF ChainInv, s
  <2>8. \A b \in Pbufs : ref'[b] = 1 <=> b \in Members(Tail(s)) \/ (ref[b] = 1 /\ b \notin Members(s))
    BY <1>3, <2>4, <2>6, <2>7
  <2>9. p' = [p EXCEPT ![c] = Tail(s)]
    BY <1>3
  <2>10. QED
    BY <1>1, <2>3, <2>5, <2>8, <2>9, ChainMoves DEF s
<1>10. conns' \in Nat /\ conns <= conns'
  BY <1>1, <1>3 DEF Types
<1>11. ASSUME NEW d \in Conns, d # c
       PROVE  ConnInv(d)'
  BY <1>1, <1>3, <1>6, <1>10, <1>11, ConnStays
<1>12. ConnInv(c)'
  <2> DEFINE t == reply[c].text
  <2>1. es[c] = "closing" /\ reply[c] # NoReply /\ pcb[c] = "up" /\ ~(c > conns)
    BY <1>1, <1>2 DEF ConnInv
  <2>2. /\ reply[c].len = t.len /\ out[c] = Given(t, n)
        /\ \A i \in 1..Len(s) : content[s[i]] = Part(t, n + i)
        /\ n + Len(s) = reply[c].len
        /\ debt[c] = Owing(reply[c].req, n)
    BY <1>1, <2>1 DEF ConnInv
  <2> HIDE DEF t, n, s
  <2>3. content[first] = Part(t, n + 1)
    BY <1>2, <2>2
  <2>4. out'[c] = Given(t, n + 1) /\ Len(out'[c]) = n + 1
    <3>1. n \in Nat /\ n + 1 \in Nat
      BY <1>5
    <3>2. Append(Given(t, n), Part(t, n + 1)) = Given(t, n + 1)
      BY <3>1, GivenMore
    <3>3. Len(Given(t, n + 1)) = n + 1
      BY <3>1, GivenMore
    <3>4. QED
      BY <1>7, <2>2, <2>3, <3>2, <3>3
  <2>5. ASSUME NEW i \in 1..Len(Tail(s))
        PROVE  content'[Tail(s)[i]] = Part(t, (n + 1) + i)
    <3>1. i + 1 \in 1..Len(s) /\ Tail(s)[i] = s[i + 1] /\ n + (i + 1) = (n + 1) + i
      BY <1>4, <1>5, <2>5
    <3>2. QED
      BY <1>3, <2>2, <3>1
  <2>6. (n + 1) + Len(Tail(s)) = reply[c].len
    BY <1>2, <1>4, <1>5, <2>2
  <2>7. debt'[c] = Owing(reply[c].req, n + 1)
    <3>1. reply[c].req \in Nat
      BY <1>1 DEF Types
    <3>2. QED
      BY SMTT(40), <1>5, <1>7, <2>2, <3>1 DEF Owing
  <2>8. reply' = reply /\ pcb'[c] = "up" /\ es'[c] = "closing" /\ conns' = conns /\ p'[c] = Tail(s)
    BY <1>3, <1>7, <2>1
  <2>9. QED
    BY <2>1, <2>2, <2>4, <2>5, <2>6, <2>7, <2>8 DEF ConnInv, t
<1>13. QED
  BY <1>8, <1>9, <1>11, <1>12 DEF ServerInv

LEMMA ServerKeeps == ServerInv /\ [Next]_vars => ServerInv'
<1>1. ASSUME ServerInv, NEW c \in Conns, SendEnd(c)
      PROVE  ServerInv'
  BY <1>1, QuietKeeps DEF SendEnd, tcp, hist
<1>2. QED
  BY <1>1, ForegroundKeeps, AcceptKeeps, RequestServed, CallbacksKeep, ErrorKeeps, FreedKeeps, SendOneKeeps
     DEF Next, Lwip

LEMMA ServerFirst == Init => ServerInv
<1>1. SUFFICES ASSUME Init PROVE ServerInv
  OBVIOUS
<1>2. Types
  <2>1. resbuff \in TextSet /\ reslen = resbuff.len /\ conns \in Nat
    BY <1>1 DEF Init, NoText, Text, TextSet
  <2>2. content \in [Pbufs -> PartSet]
    BY <1>1 DEF Init, Part, NoText, Text, PartSet
  <2>3. reply \in [Conns -> [text : TextSet, len : Nat, req : Nat]] /\ out \in [Conns -> Seq(PartSet)]
    BY <1>1 DEF Init, NoReply, NoText, Text, TextSet
  <2>4. /\ pcb \in [Conns -> PcbStates] /\ es \in [Conns -> EsStates]
        /\ p \in [Conns -> Seq(Pbufs)] /\ debt \in [Conns -> Nat] /\ ref \in [Pbufs -> 0..1]
    BY <1>1 DEF Init, PcbStates, EsStates
  <2>5. QED
    BY <2>1, <2>2, <2>3, <2>4 DEF Types
<1>3. ChainInv
  <2>1. Members(<<>>) = {} /\ Distinct(<<>>)
    BY DEF Members, Distinct
  <2>2. \A c \in Conns : p[c] = <<>>
    BY <1>1 DEF Init
  <2>3. \A b \in Pbufs : ref[b] = 0
    BY <1>1 DEF Init
  <2>4. QED
    BY <2>1, <2>2, <2>3 DEF ChainInv
<1>4. ASSUME NEW c \in Conns
      PROVE  ConnInv(c)
  <2>1. pcb[c] = "none" /\ es[c] = "none" /\ p[c] = <<>> /\ reply[c] = NoReply /\ out[c] = <<>>
    BY <1>1 DEF Init
  <2>2. QED
    BY <2>1 DEF ConnInv
<1>5. QED
  BY <1>2, <1>3, <1>4 DEF ServerInv

LEMMA ServerAlways == Spec => []ServerInv
  BY ServerFirst, ServerKeeps, PTL DEF Spec

(* ReplyIntact: a response is the text of one httpsvr_setres, whole and in *)
(* order, and its connection is closed only when all is given to TCP       *)
(* (httpsvr.c, httpsvr_recv, httpsvr_send, httpsvr_sent, httpsvr_poll).    *)
THEOREM ReplyWhole == Spec => []ReplyIntact
<1>1. ServerInv => ReplyIntact
  <2>1. SUFFICES ASSUME ServerInv, NEW c \in Conns, reply[c] # NoReply
                 PROVE  /\ reply[c].len = reply[c].text.len
                        /\ out[c] = [i \in 1..Len(out[c]) |-> Part(reply[c].text, i)]
                        /\ \A i \in DOMAIN p[c] : content[p[c][i]] = Part(reply[c].text, Len(out[c]) + i)
                        /\ es[c] = "closing" => Len(out[c]) + Len(p[c]) = reply[c].len
                        /\ pcb[c] \in {"fin", "reset"} => Len(out[c]) = reply[c].len
    BY DEF ReplyIntact
  <2>2. DOMAIN p[c] = 1..Len(p[c])
    BY <2>1 DEF ServerInv, Types
  <2>3. QED
    BY <2>1, <2>2 DEF ServerInv, ConnInv, Given
<1>2. QED
  BY <1>1, ServerAlways, PTL

(* CloseGraceful: tcp_close resets a connection only when it was answered  *)
(* with less than it had sent (httpsvr.c, the tcp_recved of httpsvr_send). *)
THEOREM CloseIsGraceful == Spec => []CloseGraceful
<1>1. ServerInv => CloseGraceful
  BY DEF ServerInv, ConnInv, CloseGraceful
<1>2. QED
  BY <1>1, ServerAlways, PTL

-----------------------------------------------------------------------------
(* A chain has no more members than the pool.                              *)
LEMMA ChainFits ==
  ASSUME NEW s \in Seq(Pbufs), Distinct(s)
  PROVE  Len(s) <= PoolSize
<1>1. Len(s) \in Nat /\ PoolSize \in Nat
  BY Sizes
<1> DEFINE n == Len(s)
           f == [i \in 1..n |-> s[i]]
<1>2. f \in Injection(1..n, Pbufs)
  <2>1. f \in [1..n -> Pbufs]
    BY <1>1
  <2>2. \A i, j \in 1..n : i # j => f[i] # f[j]
    BY DEF Distinct
  <2> HIDE DEF f, n
  <2>3. QED
    BY <2>1, <2>2 DEF Injection, IsInjective
<1>3. IsFiniteSet(Pbufs) /\ Cardinality(Pbufs) = PoolSize
  <2>1. Cardinality(1..PoolSize) = (IF 1 > PoolSize THEN 0 ELSE PoolSize - 1 + 1) /\ IsFiniteSet(1..PoolSize)
    BY <1>1, FS_Interval
  <2>2. QED
    BY <1>1, <2>1 DEF Pbufs
<1>4. Cardinality(1..n) = n
  <2>1. n \in Int /\ 1 \in Int
    BY <1>1
  <2> HIDE DEF n
  <2>2. Cardinality(1..n) = IF 1 > n THEN 0 ELSE n - 1 + 1
    BY <2>1, FS_Interval
  <2>3. n \in Nat
    BY <1>1 DEF n
  <2>4. QED
    BY <2>2, <2>3
<1> HIDE DEF f, n
<1>5. Cardinality(1..n) <= Cardinality(Pbufs)
  BY <1>2, <1>3, FS_Injection
<1>6. QED
  BY <1>3, <1>4, <1>5 DEF n

(* PbufsOwned: every pbuf is free, or in one chain, once, with one         *)
(* reference (httpsvr.c, httpsvr_send, httpsvr_free).                      *)
THEOREM PbufsOwnedOnce == Spec => []PbufsOwned
<1>1. ServerInv => PbufsOwned
  <2>1. SUFFICES ASSUME ServerInv, NEW b \in Pbufs
                 PROVE  /\ ref[b] = Cardinality({l \in Conns \X (1..PoolSize) :
                                                   l[2] \in DOMAIN p[l[1]] /\ p[l[1]][l[2]] = b})
                        /\ ref[b] <= 1
    BY DEF PbufsOwned
  <2> DEFINE places == {l \in Conns \X (1..PoolSize) : l[2] \in DOMAIN p[l[1]] /\ p[l[1]][l[2]] = b}
  <2>2. /\ ref[b] \in 0..1
        /\ \A c \in Conns : p[c] \in Seq(Pbufs) /\ DOMAIN p[c] = 1..Len(p[c]) /\ Len(p[c]) \in Nat
    BY <2>1 DEF ServerInv, Types
  <2>3. ChainInv
    BY <2>1 DEF ServerInv
  <2>4. CASE ref[b] = 0
    <3>1. \A c \in Conns : \A i \in DOMAIN p[c] : p[c][i] # b
      BY <2>2, <2>3, <2>4 DEF ChainInv, Members
    <3>2. places = {}
      BY <3>1
    <3> HIDE DEF places
    <3>3. Cardinality(places) = 0
      BY <3>2, FS_EmptySet
    <3>4. QED
      BY <2>4, <3>3 DEF places
  <2>5. CASE ref[b] = 1
    <3>1. PICK c \in Conns : b \in Members(p[c])
      BY <2>3, <2>5 DEF ChainInv
    <3>2. PICK k \in 1..Len(p[c]) : p[c][k] = b
      BY <3>1 DEF Members
    <3>3. k \in 1..PoolSize
      <4>1. Len(p[c]) <= PoolSize
        BY <2>2, <2>3, ChainFits DEF ChainInv
      <4>2. QED
        BY <2>2, <4>1, Sizes
    <3>4. <<c, k>> \in places
      BY <2>2, <3>2, <3>3
    <3>5. ASSUME NEW l \in places
          PROVE  l = <<c, k>>
      <4>1. l[1] \in Conns /\ l[2] \in 1..Len(p[l[1]]) /\ p[l[1]][l[2]] = b /\ l = <<l[1], l[2]>>
        BY <2>2, <3>5
      <4>2. l[1] = c
        BY <2>3, <3>1, <4>1 DEF ChainInv, Members
      <4>3. l[2] = k
        BY <2>3, <3>2, <4>1, <4>2 DEF ChainInv, Distinct
      <4>4. QED
        BY <4>1, <4>2, <4>3
    <3>6. places = {<<c, k>>}
      BY <3>4, <3>5
    <3> HIDE DEF places
    <3>7. Cardinality(places) = 1
      BY <3>6, FS_Singleton
    <3>8. QED
      BY <2>5, <3>7 DEF places
  <2>6. QED
    BY <2>2, <2>4, <2>5
<1>2. QED
  BY <1>1, ServerAlways, PTL
=============================================================================
