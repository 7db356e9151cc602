----------------------------- MODULE PartsProofs -----------------------------
(***************************************************************************)
(* Theorems about the parts that share no state: the timer tick, the delay *)
(* and the watchdog for every width of Count and every interval; the       *)
(* firmware image for every size of its files; the parse of an address,    *)
(* the queue and the store of nvram, for every string, set of elements and *)
(* hash; and by the invariants of DeviceProofs the switch and the bus.     *)
(***************************************************************************)
EXTENDS DeviceProofs

-----------------------------------------------------------------------------
(* The two parses of an address.  Parse says that m turns of the loop take *)
(* the position through P; what they store is then Bytes(P, m).            *)
PairAt(p) == p + 1 <= Len(str) /\ str[p] \in Addr!Digits /\ str[p + 1] \in Addr!Digits \cup {Addr!Sep}
Behind(p) == IF str[p + 1] = Addr!Sep THEN p + 1 ELSE p + 2
Following(p) == IF Behind(p) <= Len(str) /\ str[Behind(p)] = Addr!Sep THEN Behind(p) + 1 ELSE Behind(p)
Value(p) == IF str[p + 1] = Addr!Sep THEN Addr!Alone(str[p]) ELSE <<str[p], str[p + 1]>>
Positions == [0..ADDR_LEN -> 1..Len(str) + 1]
Parse(P, m) == P[0] = 1 /\ \A k \in 1..m : PairAt(P[k - 1]) /\ P[k] = Following(P[k - 1])
Bytes(P, m) == [k \in 1..ADDR_LEN |-> IF k <= m THEN Value(P[k - 1]) ELSE <<"0", "0">>]
Stops(P, m) == m = ADDR_LEN \/ ~PairAt(P[m])

(* The second parse stores what the first has stored, as far as it is.     *)
ReadInv ==
  \E P \in Positions, m \in 0..ADDR_LEN :
    /\ Parse(P, m) /\ hwaddr.netif = Bytes(P, m)
    /\ reader = "netif" => idx = ADDR_LEN - m /\ pos = P[m] /\ hwaddr.softc = Bytes(P, 0)
    /\ reader = "softc" => /\ Stops(P, m) /\ ADDR_LEN - m <= idx
                           /\ pos = P[ADDR_LEN - idx] /\ hwaddr.softc = Bytes(P, ADDR_LEN - idx)
    /\ reader = "none" => Stops(P, m) /\ hwaddr.softc = hwaddr.netif

AddrTypes ==
  /\ str \in Seq(Addr!Chars) /\ Len(str) <= MaxStr
  /\ reader \in {"netif", "softc", "none"}
  /\ idx \in 0..ADDR_LEN /\ pos \in 1..Len(str) + 1
  /\ DOMAIN hwaddr = {"netif", "softc"}
AddrInv == AddrTypes /\ ReadInv

(* The queue is the sequence s: q_next and q_prev lead along it, from the  *)
(* block to the block.                                                     *)
Node(s, k) == IF k \in 1..Len(s) THEN s[k] ELSE QB
Linked(nx, pv, s) ==
  /\ s \in Seq(Items) /\ \A j, k \in 1..Len(s) : s[j] = s[k] => j = k
  /\ nx \in [Items \cup {QB} -> Items \cup {QB}] /\ pv \in [Items \cup {QB} -> Items \cup {QB}]
  /\ \A k \in 0..Len(s) : nx[Node(s, k)] = Node(s, k + 1) /\ pv[Node(s, k + 1)] = Node(s, k)
Elements(s) == {s[k] : k \in 1..Len(s)}
QueueInv ==
  /\ \E s : Linked(q_next, q_prev, s) /\ on = Elements(s)
  /\ qe \in on \cup {QB}

(* The store: the chains and nv_pending are paths that share no tuple.    *)
(* A path: the links lead from p along the sequence s of tuples to NULL.   *)
Addresses == 1..MaxTuples
Nth(s, k) == IF k \in 1..Len(s) THEN s[k] ELSE NULL
Elems(s) == {s[k] : k \in 1..Len(s)}
Path(nx, p, s) ==
  /\ s \in Seq(Addresses) /\ p = Nth(s, 1)
  /\ \A j, k \in 1..Len(s) : s[j] = s[k] => j = k
  /\ \A k \in 1..Len(s) : nx[s[k]] = Nth(s, k + 1)
(* The lists: the chain of every bucket, and nv_pending.                   *)
Pending == -1
Chains == Store!Buckets \cup {Pending}
Links == [Addresses -> Addresses \cup {NULL}]
Roots == [Store!Buckets -> Addresses \cup {NULL}]
Root(ht, pd, l) == IF l = Pending THEN pd ELSE ht[l]
Shape(nx, ht, pd, L) ==
  /\ nx \in Links /\ ht \in Roots /\ pd \in Addresses \cup {NULL} /\ L \in [Chains -> Seq(Addresses)]
  /\ \A l \in Chains : Path(nx, Root(ht, pd, l), L[l])
  /\ \A l, m \in Chains : \A t \in Elems(L[l]) : t \in Elems(L[m]) => l = m
(* The list of which element is what.                                      *)
Records == [name : Names, value : Values]
Filed(b, L) ==
  /\ b \in [Addresses -> Records \cup {NULL}]
  /\ \A t \in Addresses : b[t] # NULL <=> \E l \in Chains : t \in Elems(L[l])
  /\ \A h \in Store!Buckets : \A t \in Elems(L[h]) : Hash[b[t].name] = h
  /\ \A h \in Store!Buckets : \A t, u \in Elems(L[h]) : b[t].name = b[u].name => t = u
Kept(L) == Shape(next, hashtab, nv_pending, L) /\ Filed(binding, L)
StoreInv ==
  /\ up \in BOOLEAN /\ flash \in Store!Images
  /\ \E L : Kept(L)
  /\ \A g \in held : g.ptr \in Addresses /\ binding[g.ptr] # NULL /\ binding[g.ptr].value = g.value

-----------------------------------------------------------------------------
(* The counts from seen to count: what the foreground has not yet seen.    *)
Lag == IF count >= seen THEN count - seen ELSE count - seen + Wrap
(* How far the delay has gone beyond what was asked.                       *)
Over == slept - asked

(* Compare is an interval after the last alarm, and the exact clock stands *)
(* where Count stands: before the match due counts short of it, after the  *)
(* match age counts beyond.                                                *)
TickInv ==
  /\ Time!TypeOK
  /\ compare = alarm
  /\ isr => pending
  /\ ~pending => owed = 0 /\ age = 0 /\ Time!Plus(count, due) = compare
  /\ pending => owed = 1 /\ due = Interval - age /\ count = Time!Plus(compare, age)

(* A tick is counted down or starves the dog.                              *)
DogInv ==
  /\ bite => starved > wdticks \/ pc = "wdcount"
  /\ ~bite /\ wdticks # 0 /\ pc # "wdcount" => starved + wdcount = wdticks

(* The foreground misses the counts of one handler and one more; after a   *)
(* handler it has a count before the next match.                           *)
LagInv ==
  Time!Asleep =>
    /\ Lag <= MaxIsr + 1
    /\ pending => Lag <= age + 1
    /\ ~pending /\ Lag >= 2 => due >= 2

(* Before the wrap: what has been slept ends at the last look.             *)
WrapInv ==
  pc = "wrap" =>
    /\ newcount < now /\ now <= seen /\ asked = newcount + Wrap - now
    /\ slept = seen - now + Lag

(* After it: Count runs from newcount as the delay from its end, unless     *)
(* the end was missed, and it can be missed by one handler only.            *)
WaitInv ==
  pc = "wait" =>
    /\ slept >= asked \/ count = newcount + Over
    /\ newcount + MaxIsr + 1 < Wrap =>
         /\ count = newcount + Over /\ Over <= MaxIsr + 1
         /\ pending => Over <= age + 1 /\ (Lag = 0 => Over <= age)
         /\ ~pending /\ Lag = 0 /\ Over > 0 => due >= 2 /\ Over <= MaxIsr

(* Whether missed or not, Count stands where the delay does but for whole  *)
(* rounds.                                                                 *)
RoundsInv == pc = "wait" => \E k \in Nat : count = newcount + Over - k * Wrap

SleptInv ==
  pc = "slept" =>
    \E k \in Nat : Over - k * Wrap \in 0..(MaxIsr + 1) /\ (newcount + MaxIsr + 1 < Wrap => k = 0)

ClockInv == TickInv /\ DogInv /\ LagInv /\ WrapInv /\ WaitInv /\ RoundsInv /\ SleptInv

-----------------------------------------------------------------------------
(* What is packed lies below cur_len, so the second file lies where its    *)
(* offset says and nothing that comes later touches it.                    *)
HasScript == Len(lens) > 1
Packed == file \in 3..6
TrxTypes ==
  /\ lens \in Seq(0..MaxFile) /\ Len(lens) \in 1..3 /\ prod_id \in BOOLEAN
  /\ offsets \in [1..3 -> Nat] /\ file \in 0..6
  /\ cur_len \in Nat /\ HEADER <= cur_len
  /\ DOMAIN buf = 0..(MaxLen - 1)
(* The script is in the buffer once it is packed, below what is free.      *)
InPlace ==
  HasScript /\ Packed =>
    /\ offsets[2] + lens[2] < MaxLen
    /\ \A k \in 0..(lens[2] - 1) : buf[offsets[2] + k] = Trx!From(2, k)
    /\ file \in {3, 4} => offsets[2] + lens[2] <= cur_len
(* Without one there is nothing that looks like one.                       *)
Absent ==
  ~HasScript => /\ offsets[2] = 0
                /\ \A a \in 0..(MaxLen - 1) : buf[a] # Trx!From(2, 0)
                /\ file \in {2, 5} => MaxLen > 0
TrxInv == TrxTypes /\ InPlace /\ Absent /\ Trx!ScriptFound

-----------------------------------------------------------------------------
PartsInv ==
  /\ part = "time" => ClockInv
  /\ part = "trx" => TrxInv
  /\ part = "mac" => BusInv /\ SwitchInv
  /\ part = "addr" => AddrInv
  /\ part = "queue" => QueueInv
  /\ part = "store" => StoreInv
  /\ part = "pins" => PinsInv

-----------------------------------------------------------------------------
LEMMA Constants ==
  /\ Wrap \in Nat /\ Interval \in Nat /\ MaxIsr \in Nat /\ MaxSleep \in Nat /\ MaxTicks \in Nat
  /\ 0 < MaxIsr /\ MaxIsr + 1 < Interval /\ Interval < Wrap /\ MaxSleep + MaxIsr < Wrap
BY PartsAssumption DEF Time!ClockAssumption

(* Plus goes round once at most.                                           *)
LEMMA PlusIs ==
  ASSUME NEW a \in Time!Counts, NEW b \in 0..Wrap
  PROVE  /\ Time!Plus(a, b) = IF a + b < Wrap THEN a + b ELSE a + b - Wrap
         /\ Time!Plus(a, b) \in Time!Counts
<1>1. CASE a + b < Wrap
  BY <1>1, Constants DEF Time!Plus, Time!Counts
<1>2. CASE a + b >= Wrap
  <2>1. (a + b) % Wrap = (a + b - Wrap) % Wrap
    BY <1>2, Constants DEF Time!Counts
  <2> QED BY <1>2, <2>1, Constants DEF Time!Plus, Time!Counts
<1> QED BY <1>1, <1>2, Constants DEF Time!Counts

-----------------------------------------------------------------------------
LEMMA ClockInit == ASSUME Time!Init PROVE ClockInv
<1> USE Constants
<1>1. alarm = Time!Plus(count, Interval) /\ alarm \in Time!Counts /\ count \in Time!Counts
  BY PlusIs DEF Time!Init
<1>2. TickInv
  <2>1. compare = alarm /\ 0 \in Time!Counts /\ Interval \in 1..Interval /\ 0 \in 0..MaxTicks
         /\ 0 \in 0..MaxIsr /\ 0 \in 0..MaxSleep /\ 0 \in 0..1 /\ 0 \in Nat
    BY DEF Time!Init, Time!Counts
  <2>2. Time!TypeOK
    BY ONLY <1>1, <2>1, Time!Init DEF Time!Init, Time!TypeOK
  <2> QED BY <1>1, <2>2 DEF TickInv, Time!Init
<1>3. DogInv
  BY DEF DogInv, Time!Init
<1>4. LagInv /\ WrapInv /\ WaitInv /\ RoundsInv /\ SleptInv
  BY DEF LagInv, WrapInv, WaitInv, RoundsInv, SleptInv, Time!Asleep, Time!Init
<1> QED BY <1>2, <1>3, <1>4 DEF ClockInv

(* One more count: a match when due is one.                                *)
LEMMA AdvanceTick ==
  ASSUME TickInv, Time!Advance
  PROVE  /\ TickInv'
         /\ ~pending => age' = 0 /\ (pending' <=> due = 1)
         /\ pending => pending' /\ age' = age + 1 /\ age < MaxIsr
         /\ ~pending' => due' = due - 1
         /\ count' = IF count + 1 < Wrap THEN count + 1 ELSE 0
<1> USE Constants
<1>1. /\ count \in 0..(Wrap - 1) /\ compare \in 0..(Wrap - 1) /\ due \in 1..Interval
      /\ age \in 0..MaxIsr /\ pending \in BOOLEAN /\ isr \in BOOLEAN /\ owed \in 0..1
  BY DEF TickInv, Time!TypeOK, Time!Counts
<1>2. count' = (IF count + 1 < Wrap THEN count + 1 ELSE count + 1 - Wrap) /\ count' \in Time!Counts
  <2>1. 1 \in 0..Wrap /\ count \in Time!Counts
    BY <1>1 DEF Time!Counts
  <2> QED BY <2>1, PlusIs DEF Time!Advance
<1>3. Time!Plus(count, due) = IF count + due < Wrap THEN count + due ELSE count + due - Wrap
  BY <1>1, PlusIs DEF Time!Counts
<1>4. Time!Plus(compare, age) = IF compare + age < Wrap THEN compare + age ELSE compare + age - Wrap
  BY <1>1, PlusIs DEF Time!Counts
<1>5. compare' = compare /\ alarm' = alarm /\ isr' = isr /\ pending' = (pending \/ count' = compare)
  BY DEF Time!Advance
<1>6. CASE ~pending
  <2>1. ~isr /\ owed = 0 /\ age = 0 /\ Time!Plus(count, due) = compare
    BY <1>6 DEF TickInv
  <2>2. age' = 0
    BY <1>6, <2>1 DEF Time!Advance
  <2>3. pending' <=> due = 1
    <3>1. pending' <=> count' = compare
      BY <1>5, <1>6
    <3>2. compare = IF count + due < Wrap THEN count + due ELSE count + due - Wrap
      BY <1>3, <2>1
    <3>3. count' = compare <=> due = 1
      BY <1>1, <1>2, <3>2
    <3> QED BY <3>1, <3>3
  <2>4. CASE due = 1
    <3>1. due' = Interval /\ owed' = 1 /\ count' = compare /\ pending'
      BY <1>5, <1>6, <2>1, <2>3, <2>4 DEF Time!Advance
    <3>2. Time!Plus(compare', 0) = compare'
      BY <1>1, <1>5, PlusIs DEF Time!Counts
    <3>3. Time!TypeOK'
      BY <1>1, <1>2, <1>5, <2>2, <3>1 DEF TickInv, Time!TypeOK, Time!Advance, Time!Counts, Time!watch
    <3> QED BY <1>1, <1>2, <1>5, <1>6, <2>1, <2>2, <2>3, <2>4, <3>1, <3>2, <3>3 DEF TickInv
  <2>5. CASE due # 1
    <3>1. due' = due - 1 /\ owed' = 0 /\ ~pending'
      BY <2>1, <2>3, <2>5 DEF Time!Advance
    <3>2. Time!Plus(count', due') = compare'
      <4>1. count' \in Time!Counts /\ due' \in 0..Wrap
        BY <1>1, <1>2, <2>5, <3>1
      <4>2. Time!Plus(count', due') = IF count' + due' < Wrap THEN count' + due' ELSE count' + due' - Wrap
        BY <4>1, PlusIs
      <4> QED BY <1>1, <1>2, <1>3, <1>5, <2>1, <2>5, <3>1, <4>2
    <3>3. Time!TypeOK'
      BY <1>1, <1>2, <1>5, <2>2, <2>5, <3>1 DEF TickInv, Time!TypeOK, Time!Advance, Time!Counts, Time!watch
    <3> QED BY <1>1, <1>2, <1>5, <1>6, <2>1, <2>2, <2>3, <2>5, <3>1, <3>2, <3>3 DEF TickInv
  <2> QED BY <2>4, <2>5
<1>7. CASE pending
  <2>1. owed = 1 /\ due = Interval - age /\ count = Time!Plus(compare, age) /\ age < MaxIsr
    BY <1>7 DEF TickInv, Time!Advance
  <2>2. pending' /\ age' = age + 1 /\ due' = due - 1 /\ owed' = 1 /\ due # 1
    <3>1. due # 1
      BY <1>1, <2>1
    <3> QED BY <1>5, <1>7, <2>1, <3>1 DEF Time!Advance
  <2>3. count' = Time!Plus(compare', age')
    <3>1. Time!Plus(compare', age')
            = IF compare + (age + 1) < Wrap THEN compare + (age + 1) ELSE compare + (age + 1) - Wrap
      <4>1. compare' = compare /\ compare \in Time!Counts /\ age' \in 0..Wrap
        BY <1>1, <1>5, <2>1, <2>2 DEF Time!Counts
      <4> QED BY <2>2, <4>1, PlusIs
    <3> QED BY <1>1, <1>2, <1>4, <2>1, <3>1
  <2>4. Time!TypeOK'
    BY <1>1, <1>2, <1>5, <1>7, <2>1, <2>2 DEF TickInv, Time!TypeOK, Time!Advance, Time!Counts, Time!watch
  <2> QED BY <1>1, <1>2, <1>5, <1>7, <2>1, <2>2, <2>3, <2>4 DEF TickInv
<1> QED BY <1>1, <1>6, <1>7

(* The delay's share of a count.                                           *)
LEMMA AdvanceSleep == ASSUME ClockInv, Time!Advance PROVE LagInv' /\ WrapInv' /\ WaitInv' /\ RoundsInv' /\ SleptInv'
<1> USE Constants
<1>1. /\ count \in 0..(Wrap - 1) /\ seen \in 0..(Wrap - 1) /\ newcount \in 0..(Wrap - 1)
      /\ now \in 0..(Wrap - 1) /\ asked \in 0..MaxSleep /\ slept \in Nat
      /\ age \in 0..MaxIsr /\ due \in 1..Interval /\ pending \in BOOLEAN
  BY DEF ClockInv, TickInv, Time!TypeOK, Time!Counts
<1>2. /\ ~pending => age' = 0 /\ (pending' <=> due = 1)
      /\ pending => pending' /\ age' = age + 1 /\ age < MaxIsr
      /\ ~pending' => due' = due - 1
      /\ count' = IF count + 1 < Wrap THEN count + 1 ELSE 0
  BY AdvanceTick DEF ClockInv
<1>3. /\ pc' = pc /\ seen' = seen /\ newcount' = newcount /\ now' = now /\ asked' = asked
      /\ slept' = (IF Time!Asleep THEN slept + 1 ELSE slept)
      /\ ~pending /\ Time!Asleep => seen = count
  BY DEF Time!Advance, ClockInv, TickInv
<1>4. Time!Asleep <=> pc = "wrap" \/ pc = "wait"
  BY DEF Time!Asleep
<1>5. Time!Asleep' <=> Time!Asleep
  BY <1>3 DEF Time!Asleep
<1>6. ASSUME Time!Asleep
      PROVE  /\ Lag \in Nat /\ Lag <= MaxIsr /\ Lag' = Lag + 1
             /\ ~pending => Lag = 0
             /\ pending => Lag <= age + 1
  <2>1. Lag = IF count >= seen THEN count - seen ELSE count - seen + Wrap
    BY DEF Lag
  <2>2. Lag' = IF count' >= seen THEN count' - seen ELSE count' - seen + Wrap
    BY <1>3 DEF Lag
  <2>3. pending => Lag <= age + 1
    BY <1>6 DEF ClockInv, LagInv
  <2>4. ~pending => Lag = 0
    BY <1>1, <1>3, <1>6, <2>1
  <2>5. Lag \in Nat /\ Lag <= MaxIsr
    BY <1>1, <1>2, <2>1, <2>3, <2>4
  <2>6. Lag' = Lag + 1
    BY <1>1, <1>2, <2>1, <2>2, <2>5
  <2> QED BY <2>3, <2>4, <2>5, <2>6
<1>7. LagInv'
  BY <1>1, <1>2, <1>5, <1>6 DEF LagInv
<1>8. WrapInv'
  BY <1>1, <1>3, <1>4, <1>6 DEF ClockInv, WrapInv
<1>9. WaitInv'
  <2> SUFFICES ASSUME pc = "wait" PROVE WaitInv'
    BY <1>3 DEF WaitInv
  <2>1. /\ Over = slept - asked /\ Over' = Over + 1 /\ Over \in Int /\ slept' = slept + 1
    BY <1>1, <1>3, <1>4 DEF Over
  <2>2. slept >= asked \/ count = newcount + Over
    BY DEF ClockInv, WaitInv
  <2>3. slept' >= asked' \/ count' = newcount' + Over'
    BY <1>1, <1>2, <1>3, <2>1, <2>2
  <2>4. ASSUME newcount + MaxIsr + 1 < Wrap
        PROVE  /\ count' = newcount + Over' /\ Over' <= MaxIsr + 1
               /\ pending' => Over' <= age' + 1 /\ (Lag' = 0 => Over' <= age')
               /\ ~(Lag' = 0)
    <3>1. /\ count = newcount + Over /\ Over <= MaxIsr + 1
          /\ pending => Over <= age + 1
          /\ ~pending /\ Lag = 0 /\ Over > 0 => due >= 2 /\ Over <= MaxIsr
      BY <2>4 DEF ClockInv, WaitInv
    <3>2. ~(Lag' = 0)
      BY <1>4, <1>6
    <3>3. pending' => Over' <= age' + 1
      BY <1>1, <1>2, <1>4, <1>6, <2>1, <3>1
    <3>4. Over <= MaxIsr
      BY <1>1, <1>2, <1>4, <1>6, <2>1, <3>1
    <3>5. count' = newcount + Over' /\ Over' <= MaxIsr + 1
      BY <1>1, <1>2, <2>1, <2>4, <3>1, <3>4
    <3> QED BY <3>2, <3>3, <3>5
  <2> QED BY <1>3, <2>3, <2>4 DEF WaitInv
<1>10. SleptInv'
  BY <1>3, <1>4 DEF ClockInv, SleptInv, Over
<1>11. RoundsInv'
  <2> SUFFICES ASSUME pc = "wait" PROVE \E k \in Nat : count' = newcount' + Over' - k * Wrap
    BY <1>3 DEF RoundsInv
  <2>1. Over' = Over + 1 /\ Over \in Int
    BY <1>1, <1>3, <1>4 DEF Over
  <2>2. PICK k \in Nat : count = newcount + Over - k * Wrap
    BY DEF ClockInv, RoundsInv
  <2>3. k * Wrap \in Nat /\ (k + 1) * Wrap = k * Wrap + Wrap /\ k + 1 \in Nat
    OBVIOUS
  <2>4. \/ count' = newcount' + Over' - k * Wrap
        \/ count' = newcount' + Over' - (k * Wrap + Wrap)
    BY <1>1, <1>2, <1>3, <2>1, <2>2, <2>3
  <2> QED BY <2>3, <2>4
<1> QED BY <1>7, <1>8, <1>9, <1>10, <1>11

LEMMA AdvanceInv == ASSUME ClockInv, Time!Advance PROVE ClockInv'
<1>1. TickInv'
  BY AdvanceTick DEF ClockInv
<1>2. DogInv'
  BY DEF ClockInv, DogInv, Time!Advance, Time!watch
<1> QED BY <1>1, <1>2, AdvanceSleep DEF ClockInv

-----------------------------------------------------------------------------
LEMMA IsrEnterInv == ASSUME ClockInv, Time!IsrEnter PROVE ClockInv'
<1>1. /\ pending /\ isr' = TRUE
      /\ UNCHANGED <<count, compare, alarm, pending, age, pc, period, due, owed>>
      /\ UNCHANGED <<wdticks, wdcount, bite, starved>>
      /\ UNCHANGED <<now, newcount, seen, asked, slept>>
  BY DEF Time!IsrEnter, Time!watch, Time!sleep
<1>2. TickInv'
  <2>1. Time!TypeOK'
    BY <1>1 DEF ClockInv, TickInv, Time!TypeOK, Time!Counts
  <2> QED BY <1>1, <2>1 DEF ClockInv, TickInv, Time!Plus
<1>3. DogInv'
  BY <1>1 DEF ClockInv, DogInv
<1>4. Lag' = Lag /\ Over' = Over /\ (Time!Asleep' <=> Time!Asleep)
  BY <1>1 DEF Lag, Over, Time!Asleep
<1>5. LagInv' /\ WrapInv' /\ WaitInv' /\ RoundsInv' /\ SleptInv'
  BY <1>1, <1>4 DEF ClockInv, LagInv, WrapInv, WaitInv, RoundsInv, SleptInv
<1> QED BY <1>2, <1>3, <1>5 DEF ClockInv

(* The next alarm is due counts ahead: it cannot be behind.                *)
LEMMA IsrEndInv == ASSUME ClockInv, Time!IsrEnd PROVE ClockInv'
<1> USE Constants
<1>1. /\ count \in 0..(Wrap - 1) /\ compare \in 0..(Wrap - 1) /\ due \in 1..Interval
      /\ age \in 0..MaxIsr /\ slept \in Nat /\ asked \in 0..MaxSleep /\ newcount \in 0..(Wrap - 1)
      /\ wdticks \in 0..MaxTicks /\ wdcount \in 0..MaxTicks /\ starved \in Nat /\ bite \in BOOLEAN
  BY DEF ClockInv, TickInv, Time!TypeOK, Time!Counts
<1>2. /\ isr /\ pending /\ ~bite /\ owed = 1 /\ due = Interval - age
      /\ count = Time!Plus(compare, age) /\ compare = alarm
  BY DEF Time!IsrEnd, ClockInv, TickInv
<1>3. /\ alarm' = Time!Plus(compare, Interval) /\ compare' = alarm' /\ pending' = FALSE
      /\ isr' = FALSE /\ age' = 0 /\ owed' = owed - 1
      /\ UNCHANGED <<count, pc, period, due>> /\ UNCHANGED <<now, newcount, seen, asked, slept>>
  BY <1>2 DEF Time!IsrEnd, Time!NextAlarm, Time!sleep
<1>4. /\ wdticks' = wdticks
      /\ wdticks = 0 => UNCHANGED <<wdcount, bite, starved>>
      /\ wdticks # 0 /\ wdcount = 0 => starved' = starved + 1 /\ bite' = TRUE /\ wdcount' = wdcount
      /\ wdticks # 0 /\ wdcount # 0 => starved' = starved + 1 /\ bite' = bite /\ wdcount' = wdcount - 1
  BY DEF Time!IsrEnd, Time!watch, Time!Fed, Time!Spent
<1>5. Time!Plus(compare, age) = IF compare + age < Wrap THEN compare + age ELSE compare + age - Wrap
  <2>1. compare \in Time!Counts /\ age \in 0..Wrap
    BY <1>1 DEF Time!Counts
  <2> QED BY <2>1, PlusIs
<1>6. /\ alarm' = IF compare + Interval < Wrap THEN compare + Interval ELSE compare + Interval - Wrap
      /\ alarm' \in Time!Counts
  <2>1. compare \in Time!Counts /\ Interval \in 0..Wrap
    BY <1>1 DEF Time!Counts
  <2> QED BY <1>3, <2>1, PlusIs
<1>7. Time!Plus(count, due) = IF count + due < Wrap THEN count + due ELSE count + due - Wrap
  <2>1. count \in Time!Counts /\ due \in 0..Wrap
    BY <1>1 DEF Time!Counts
  <2> QED BY <2>1, PlusIs
<1>8. Time!Plus(count', due') = compare'
  <2>1. Time!Plus(count, due) = alarm'
    BY <1>1, <1>2, <1>5, <1>6, <1>7
  <2> QED BY <1>3, <2>1
<1>9. Time!TypeOK'
  <2>1. wdcount' \in 0..MaxTicks /\ bite' \in BOOLEAN /\ starved' \in Nat /\ wdticks' \in 0..MaxTicks
    <3>1. wdcount' \in 0..MaxTicks /\ starved' \in Nat /\ wdticks' \in 0..MaxTicks
      BY <1>1, <1>4
    <3>2. bite' \in BOOLEAN
      BY <1>1, <1>4, Zenon
    <3> QED BY <3>1, <3>2
  <2>2. owed' = 0 /\ owed' \in 0..1 /\ age' \in 0..MaxIsr
    BY <1>2, <1>3
  <2> QED BY <1>3, <1>6, <2>1, <2>2 DEF ClockInv, TickInv, Time!TypeOK, Time!Counts
<1>10. TickInv'
  BY <1>2, <1>3, <1>8, <1>9 DEF TickInv
<1>11. DogInv'
  BY <1>1, <1>2, <1>3, <1>4 DEF ClockInv, DogInv
<1>12. Lag' = Lag /\ Over' = Over /\ (Time!Asleep' <=> Time!Asleep)
  BY <1>3 DEF Lag, Over, Time!Asleep
<1>13. due' >= 2
  BY <1>1, <1>2, <1>3
<1>14. LagInv' /\ WrapInv'
  BY <1>1, <1>2, <1>3, <1>12, <1>13 DEF ClockInv, LagInv, WrapInv
<1>15. WaitInv'
  <2> SUFFICES ASSUME pc = "wait" PROVE WaitInv'
    BY <1>3 DEF WaitInv
  <2>1. slept' >= asked' \/ count' = newcount' + Over'
    BY <1>3, <1>12 DEF ClockInv, WaitInv
  <2>2. Over \in Int
    BY <1>1 DEF Over
  <2>3. ASSUME newcount + MaxIsr + 1 < Wrap
        PROVE  /\ count' = newcount' + Over' /\ Over' <= MaxIsr + 1
               /\ Lag' = 0 => Over' <= MaxIsr
    BY <1>1, <1>2, <1>3, <1>12, <2>2, <2>3 DEF ClockInv, WaitInv
  <2> QED BY <1>3, <1>13, <2>1, <2>3 DEF WaitInv
<1>16. RoundsInv' /\ SleptInv'
  BY <1>3, <1>12 DEF ClockInv, RoundsInv, SleptInv
<1> QED BY <1>10, <1>11, <1>14, <1>15, <1>16 DEF ClockInv

-----------------------------------------------------------------------------
(* The foreground moves neither Count nor the alarm.                       *)
LEMMA ForegroundTick ==
  ASSUME TickInv, Time!TypeOK', UNCHANGED count, UNCHANGED Time!timer, UNCHANGED due, UNCHANGED owed
  PROVE  TickInv'
BY DEF TickInv, Time!timer, Time!Plus

LEMMA SleepInv == ASSUME ClockInv, Time!Sleep PROVE ClockInv'
<1> USE Constants
<1>1. PICK d \in 0..MaxSleep :
        /\ asked' = d /\ newcount' = Time!Plus(count, d)
        /\ pc' = IF Time!Plus(count, d) < count THEN "wrap" ELSE "wait"
  BY DEF Time!Sleep
<1>2. /\ now' = count /\ seen' = count /\ slept' = 0 /\ pc = "idle" /\ ~bite
      /\ UNCHANGED count /\ UNCHANGED Time!timer /\ UNCHANGED Time!watch
      /\ UNCHANGED <<period, due, owed>>
  BY DEF Time!Sleep, Time!Runs
<1>3. count \in 0..(Wrap - 1) /\ age \in 0..MaxIsr
  BY DEF ClockInv, TickInv, Time!TypeOK, Time!Counts
<1>4. /\ newcount' = IF count + d < Wrap THEN count + d ELSE count + d - Wrap
      /\ newcount' \in Time!Counts
  <2>1. count \in Time!Counts /\ d \in 0..Wrap
    BY <1>3 DEF Time!Counts
  <2> QED BY <1>1, <2>1, PlusIs
<1>5. TickInv'
  <2>1. Time!TypeOK'
    <3>1. pc' \in {"wrap", "wait"} /\ slept' \in Nat /\ count' \in Time!Counts
      BY <1>1, <1>2, <1>3 DEF Time!Counts
    <3> QED BY <1>1, <1>2, <1>4, <3>1 DEF ClockInv, TickInv, Time!TypeOK, Time!timer, Time!watch, Time!Counts
  <2> QED BY <1>2, <2>1, ForegroundTick DEF ClockInv
<1>6. DogInv'
  BY <1>1, <1>2 DEF ClockInv, DogInv, Time!watch
<1>7. Lag' = 0 /\ Over' = -d /\ Over' \in Int /\ Over' <= 0
  BY <1>1, <1>2, <1>3 DEF Lag, Over
<1>8. age' = age
  BY <1>2 DEF Time!timer
<1>9. LagInv'
  BY <1>3, <1>7, <1>8 DEF LagInv
<1>10. WrapInv'
  BY <1>1, <1>2, <1>3, <1>4, <1>7 DEF WrapInv
<1>11. WaitInv'
  <2> SUFFICES ASSUME pc' = "wait" PROVE WaitInv'
    BY DEF WaitInv
  <2>1. count' = newcount' + Over'
    BY <1>1, <1>2, <1>3, <1>4, <1>7
  <2>2. /\ Over' <= MaxIsr + 1 /\ Over' <= age' + 1 /\ Over' <= age' /\ ~(Over' > 0)
    BY <1>3, <1>7, <1>8
  <2> QED BY <2>1, <2>2 DEF WaitInv
<1>12. SleptInv'
  BY <1>1 DEF SleptInv
<1>13. RoundsInv'
  <2> SUFFICES ASSUME pc' = "wait" PROVE \E k \in Nat : count' = newcount' + Over' - k * Wrap
    BY DEF RoundsInv
  <2>1. count' = newcount' + Over' - 0 * Wrap
    BY <1>1, <1>2, <1>3, <1>4, <1>7
  <2> QED BY <2>1
<1> QED BY <1>5, <1>6, <1>9, <1>10, <1>11, <1>12, <1>13 DEF ClockInv

(* The look that finds the wrap: the counts beyond newcount are unseen.    *)
LEMMA WaitWrapInv == ASSUME ClockInv, Time!WaitWrap PROVE ClockInv'
<1> USE Constants
<1>1. /\ pc = "wrap" /\ count # seen /\ seen' = count /\ ~bite
      /\ pc' = IF ~(count > now) THEN "wait" ELSE "wrap"
      /\ UNCHANGED count /\ UNCHANGED Time!timer /\ UNCHANGED Time!watch
      /\ UNCHANGED <<now, newcount, asked, slept>> /\ UNCHANGED <<period, due, owed>>
  BY DEF Time!WaitWrap, Time!Runs, Time!Wrapped
<1>2. /\ count \in 0..(Wrap - 1) /\ seen \in 0..(Wrap - 1) /\ newcount \in 0..(Wrap - 1)
      /\ now \in 0..(Wrap - 1) /\ asked \in 0..MaxSleep /\ slept \in Nat
      /\ age \in 0..MaxIsr /\ due \in 1..Interval /\ pending \in BOOLEAN
  BY DEF ClockInv, TickInv, Time!TypeOK, Time!Counts
<1>3. TickInv'
  <2>1. Time!TypeOK'
    BY <1>1, <1>2 DEF ClockInv, TickInv, Time!TypeOK, Time!timer, Time!watch, Time!Counts
  <2> QED BY <1>1, <2>1, ForegroundTick DEF ClockInv
<1>4. DogInv'
  BY <1>1 DEF ClockInv, DogInv, Time!watch
<1>5. Lag' = 0 /\ Over' = Over /\ Over = slept - asked /\ age' = age /\ pending' = pending
  BY <1>1, <1>2 DEF Lag, Over, Time!timer
<1>6. LagInv'
  BY <1>2, <1>5 DEF LagInv
<1>7. /\ Lag = IF count >= seen THEN count - seen ELSE count - seen + Wrap
      /\ Lag <= MaxIsr + 1 /\ (pending => Lag <= age + 1) /\ (~pending /\ Lag >= 2 => due >= 2)
      /\ newcount < now /\ now <= seen /\ asked = newcount + Wrap - now
      /\ slept = seen - now + Lag
  BY <1>1 DEF ClockInv, LagInv, WrapInv, Lag, Time!Asleep
<1>8. WrapInv'
  BY <1>1, <1>2, <1>5, <1>7 DEF WrapInv
<1>9. WaitInv'
  <2> SUFFICES ASSUME pc' = "wait" PROVE WaitInv'
    BY DEF WaitInv
  <2>1. count < seen /\ Lag = count - seen + Wrap
    BY <1>1, <1>2, <1>7
  <2>2. count = newcount + Over
    BY <1>2, <1>5, <1>7, <2>1
  <2>3. Over <= Lag - 1
    BY <1>2, <1>5, <1>7, <2>1, <2>2
  <2>4. Over <= MaxIsr /\ (pending => Over <= age) /\ (~pending /\ Over > 0 => due >= 2)
    BY <1>2, <1>5, <1>7, <2>1, <2>3
  <2> QED BY <1>1, <1>2, <1>5, <2>2, <2>4 DEF WaitInv
<1>10. SleptInv'
  BY <1>1 DEF SleptInv
<1>11. RoundsInv'
  <2> SUFFICES ASSUME pc' = "wait" PROVE \E k \in Nat : count' = newcount' + Over' - k * Wrap
    BY DEF RoundsInv
  <2>1. count < seen /\ Lag = count - seen + Wrap
    BY <1>1, <1>2, <1>7
  <2>2. count' = newcount' + Over' - 0 * Wrap
    BY <1>1, <1>2, <1>5, <1>7, <2>1
  <2> QED BY <2>2
<1> QED BY <1>3, <1>4, <1>6, <1>8, <1>9, <1>10, <1>11 DEF ClockInv

LEMMA WaitEndInv == ASSUME ClockInv, Time!WaitEnd PROVE ClockInv'
<1> USE Constants
<1>1. /\ pc = "wait" /\ seen' = count /\ ~bite
      /\ pc' = IF ~(count < newcount) THEN "slept" ELSE "wait"
      /\ UNCHANGED count /\ UNCHANGED Time!timer /\ UNCHANGED Time!watch
      /\ UNCHANGED <<now, newcount, asked, slept>> /\ UNCHANGED <<period, due, owed>>
  BY DEF Time!WaitEnd, Time!Runs, Time!Reached
<1>2. /\ count \in 0..(Wrap - 1) /\ newcount \in 0..(Wrap - 1)
      /\ asked \in 0..MaxSleep /\ slept \in Nat /\ age \in 0..MaxIsr
  BY DEF ClockInv, TickInv, Time!TypeOK, Time!Counts
<1>3. TickInv'
  <2>1. Time!TypeOK'
    BY <1>1, <1>2 DEF ClockInv, TickInv, Time!TypeOK, Time!timer, Time!watch, Time!Counts
  <2> QED BY <1>1, <2>1, ForegroundTick DEF ClockInv
<1>4. DogInv'
  BY <1>1 DEF ClockInv, DogInv, Time!watch
<1>5. Lag' = 0 /\ Over' = Over /\ Over = slept - asked /\ age' = age /\ pending' = pending
  BY <1>1, <1>2 DEF Lag, Over, Time!timer
<1>6. LagInv'
  BY <1>2, <1>5 DEF LagInv
<1>7. WrapInv'
  BY <1>1 DEF WrapInv
<1>8. /\ slept >= asked \/ count = newcount + Over
      /\ newcount + MaxIsr + 1 < Wrap => count = newcount + Over /\ Over <= MaxIsr + 1
  BY <1>1 DEF ClockInv, WaitInv
<1>9. WaitInv'
  <2> SUFFICES ASSUME pc' = "wait" PROVE WaitInv'
    BY DEF WaitInv
  <2>1. count < newcount
    BY <1>1
  <2>2. newcount + MaxIsr + 1 < Wrap => Over < 0
    BY <1>2, <1>5, <1>8, <2>1
  <2> QED BY <1>1, <1>2, <1>5, <1>8, <2>2 DEF WaitInv
<1>10. PICK k \in Nat : count = newcount + Over - k * Wrap
  BY <1>1 DEF ClockInv, RoundsInv
<1>11. RoundsInv'
  BY <1>1, <1>5, <1>10 DEF RoundsInv
<1>12. SleptInv'
  <2> SUFFICES ASSUME pc' = "slept"
               PROVE  \E j \in Nat : /\ Over - j * Wrap \in 0..(MaxIsr + 1)
                                     /\ newcount + MaxIsr + 1 < Wrap => j = 0
    BY <1>1, <1>5 DEF SleptInv
  <2>1. ~(count < newcount)
    BY <1>1
  <2>2. CASE newcount + MaxIsr + 1 < Wrap
    <3>1. Over - 0 * Wrap \in 0..(MaxIsr + 1)
      BY <1>2, <1>5, <1>8, <2>1, <2>2
    <3> QED BY <3>1
  <2>3. CASE ~(newcount + MaxIsr + 1 < Wrap)
    <3>1. k * Wrap \in Nat
      OBVIOUS
    <3>2. Over - k * Wrap \in 0..(MaxIsr + 1)
      BY <1>2, <1>5, <1>10, <2>1, <2>3, <3>1
    <3> QED BY <2>3, <3>2
  <2> QED BY <2>2, <2>3
<1> QED BY <1>3, <1>4, <1>6, <1>7, <1>9, <1>11, <1>12 DEF ClockInv

-----------------------------------------------------------------------------
(* What neither sleeps nor moves the clock: the feeding of the watchdog.   *)
LEMMA AwakeInv ==
  ASSUME TickInv, DogInv', Time!TypeOK', pc' \in {"idle", "wdcount"},
         UNCHANGED count, UNCHANGED Time!timer, UNCHANGED due, UNCHANGED owed
  PROVE  ClockInv'
<1>1. TickInv'
  BY ForegroundTick
<1>2. LagInv' /\ WrapInv' /\ WaitInv' /\ RoundsInv' /\ SleptInv'
  BY DEF LagInv, WrapInv, WaitInv, RoundsInv, SleptInv, Time!Asleep
<1> QED BY <1>1, <1>2 DEF ClockInv

LEMMA WatchdogInv == ASSUME ClockInv, Time!Return \/ Time!Watchdog PROVE ClockInv'
<1> USE Constants
<1> USE DEF Time!timer, Time!sleep
<1>1. wdticks \in 0..MaxTicks /\ wdcount \in 0..MaxTicks /\ starved \in Nat /\ TickInv /\ Time!TypeOK
  BY DEF ClockInv, TickInv, Time!TypeOK
<1>2. CASE Time!Return
  <2>1. DogInv' /\ Time!TypeOK' /\ pc' = "idle"
    BY <1>1, <1>2 DEF ClockInv, DogInv, Time!TypeOK, Time!Counts, Time!Return, Time!watch
  <2> QED BY <1>1, <1>2, <2>1, AwakeInv DEF Time!Return
<1>3. CASE Time!WatchdogTicks
  <2>1. DogInv' /\ Time!TypeOK' /\ pc' = "wdcount"
    BY <1>1, <1>3 DEF ClockInv, DogInv, Time!TypeOK, Time!Counts, Time!WatchdogTicks
  <2> QED BY <1>1, <1>3, <2>1, AwakeInv DEF Time!WatchdogTicks
<1>4. CASE Time!WatchdogCount
  <2>1. DogInv' /\ pc' = "idle"
    BY <1>1, <1>4 DEF ClockInv, DogInv, Time!WatchdogCount, Time!Runs
  <2>2. Time!TypeOK'
    BY <1>1, <1>4 DEF Time!TypeOK, Time!Counts, Time!WatchdogCount
  <2> QED BY <1>1, <1>4, <2>1, <2>2, AwakeInv DEF Time!WatchdogCount
<1>5. CASE Time!WatchdogReset
  <2>1. DogInv' /\ pc' = "idle"
    BY <1>1, <1>5 DEF ClockInv, DogInv, Time!WatchdogReset, Time!Runs
  <2>2. Time!TypeOK'
    BY <1>1, <1>5 DEF Time!TypeOK, Time!Counts, Time!WatchdogReset
  <2> QED BY <1>1, <1>5, <2>1, <2>2, AwakeInv DEF Time!WatchdogReset
<1>6. CASE Time!WatchdogStop
  <2>1. DogInv' /\ pc' = "idle"
    BY <1>1, <1>6 DEF ClockInv, DogInv, Time!WatchdogStop, Time!Runs
  <2>2. Time!TypeOK'
    BY <1>1, <1>6 DEF Time!TypeOK, Time!Counts, Time!WatchdogStop
  <2> QED BY <1>1, <1>6, <2>1, <2>2, AwakeInv DEF Time!WatchdogStop
<1> QED BY <1>2, <1>3, <1>4, <1>5, <1>6 DEF Time!Watchdog

LEMMA ClockStep == ASSUME ClockInv, [Time!Next]_(Time!vars) PROVE ClockInv'
<1>1. CASE UNCHANGED Time!vars
  <2>1. /\ UNCHANGED <<count, compare, alarm, pending, isr, age, wdticks, wdcount, bite, starved>>
        /\ UNCHANGED <<pc, now, newcount, seen, asked, slept, period, due, owed>>
    BY <1>1 DEF Time!vars, Time!timer, Time!watch, Time!sleep
  <2>2. Lag' = Lag /\ Over' = Over /\ (Time!Asleep' <=> Time!Asleep)
    BY <2>1 DEF Lag, Over, Time!Asleep
  <2>3. TickInv'
    <3>1. Time!TypeOK'
      BY <2>1 DEF ClockInv, TickInv, Time!TypeOK, Time!Counts
    <3> QED BY <2>1, <3>1 DEF ClockInv, TickInv, Time!Plus
  <2>4. DogInv' /\ LagInv' /\ WrapInv' /\ WaitInv' /\ RoundsInv' /\ SleptInv'
    BY <2>1, <2>2 DEF ClockInv, DogInv, LagInv, WrapInv, WaitInv, RoundsInv, SleptInv
  <2> QED BY <2>3, <2>4 DEF ClockInv
<1>2. CASE Time!Next
  BY <1>2, AdvanceInv, IsrEnterInv, IsrEndInv, SleepInv, WaitWrapInv, WaitEndInv, WatchdogInv
     DEF Time!Next, Time!Interrupt, Time!Delay
<1> QED BY <1>1, <1>2

-----------------------------------------------------------------------------
LEMMA TrxConstants ==
  /\ HEADER \in Nat /\ 0 < HEADER /\ FOOTER \in Nat /\ 0 < FOOTER /\ ALIGN \in Nat /\ 0 < ALIGN
  /\ PAGE \in Nat /\ 0 < PAGE /\ MaxFile \in Nat /\ MaxLen \in Nat
BY PartsAssumption DEF Trx!TrxAssumption

(* Rounding does not go down.                                              *)
LEMMA UpIs == ASSUME NEW x \in Nat, NEW r \in Nat, 0 < r PROVE Trx!Up(x, r) \in Nat /\ x <= Trx!Up(x, r)
<1>1. (r - (x % r)) % r \in 0..(r - 1)
  <2>1. x % r \in 0..(r - 1)
    OBVIOUS
  <2> QED BY <2>1
<1> QED BY <1>1 DEF Trx!Up

(* The addresses of a file that lies below m and below c.                  *)
LEMMA Below ==
  ASSUME NEW o \in Nat, NEW l \in Nat, NEW m \in Nat, NEW c \in Nat, o + l < m, o + l <= c
  PROVE  \A k \in 0..(l - 1) : o + k \in 0..(m - 1) /\ o + k < c
OBVIOUS

LEMMA TrxInit == ASSUME Trx!Init PROVE TrxInv
<1> USE TrxConstants
<1>1. PICK m \in 1..3 : lens \in [1..m -> 0..MaxFile]
  BY DEF Trx!Init
<1>2. lens \in Seq(0..MaxFile) /\ Len(lens) = m
  BY <1>1
<1>3. PICK b : /\ \E j \in 0..Len(lens) : b \in [1..j -> 0..(MaxLen - PAGE)]
               /\ offsets = [i \in 1..3 |-> IF i <= Len(b) THEN b[i] ELSE 0]
  BY DEF Trx!Init
<1>4. PICK j \in 0..Len(lens) : b \in [1..j -> 0..(MaxLen - PAGE)]
  BY <1>3
<1>5. Len(b) = j
  BY <1>2, <1>4
<1>6. offsets \in [1..3 -> Nat] /\ (~HasScript => offsets[2] = 0)
  <2>1. \A i \in 1..3 : (IF i <= Len(b) THEN b[i] ELSE 0) \in Nat
    BY <1>2, <1>4, <1>5
  <2>2. ~HasScript => ~(2 <= Len(b))
    BY <1>2, <1>4, <1>5 DEF HasScript
  <2> QED BY <1>3, <2>1, <2>2
<1>7. file = 1 /\ cur_len = HEADER /\ prod_id \in BOOLEAN /\ buf = [a \in 0..MaxLen - 1 |-> <<0, 0>>]
  BY DEF Trx!Init, Trx!Zero
<1>8. TrxTypes
  BY <1>2, <1>6, <1>7 DEF TrxTypes
<1>9. InPlace /\ Trx!ScriptFound
  BY <1>7 DEF InPlace, Packed, Trx!ScriptFound
<1>10. Absent
  <2>1. \A a \in 0..(MaxLen - 1) : buf[a] # Trx!From(2, 0)
    BY <1>7 DEF Trx!From
  <2> QED BY <1>6, <1>7, <2>1 DEF Absent
<1> QED BY <1>8, <1>9, <1>10 DEF TrxInv

LEMMA PackInv == ASSUME TrxInv, Trx!Pack PROVE TrxInv'
<1> USE TrxConstants
<1>1. /\ lens \in Seq(0..MaxFile) /\ Len(lens) \in 1..3 /\ offsets \in [1..3 -> Nat]
      /\ cur_len \in Nat /\ HEADER <= cur_len
      /\ DOMAIN buf = 0..(MaxLen - 1)
      /\ file \in 1..Len(lens) /\ file \in 1..3 /\ lens' = lens /\ prod_id' = prod_id /\ script' = script
  <2>1. Len(lens) \in 1..3 /\ file \in 1..Len(lens)
    BY DEF TrxInv, TrxTypes, Trx!Pack
  <2>2. \A m \in 1..3 : \A f \in 1..m : f \in 1..3
    OBVIOUS
  <2>3. file \in 1..3
    BY <2>1, <2>2
  <2> QED BY <2>1, <2>3 DEF TrxInv, TrxTypes, Trx!Pack
<1>2. HasScript' <=> HasScript
  BY <1>1 DEF HasScript
<1>3. CASE file' = 0
  <2>1. UNCHANGED <<cur_len, buf, offsets>>
    BY <1>1, <1>3 DEF Trx!Pack
  <2>2. TrxTypes'
    BY <1>1, <1>3, <2>1 DEF TrxInv, TrxTypes
  <2>3. InPlace' /\ Absent' /\ (Trx!ScriptFound)'
    BY <1>1, <1>2, <1>3, <2>1 DEF TrxInv, InPlace, Packed, Absent, Trx!ScriptFound, Trx!From
  <2> QED BY <2>2, <2>3 DEF TrxInv
<1>4. CASE file' # 0
  <2>1. PICK size, base, units :
          /\ size = lens[file] /\ base = Trx!Base /\ units = [k \in 0..size - 1 |-> Trx!From(file, k)]
    OBVIOUS
  <2>2. /\ ~(cur_len > base) /\ size < MaxLen - base
        /\ offsets' = [offsets EXCEPT ![file] = base]
        /\ buf' = Trx!Overwrite(base, units)
        /\ cur_len' = base + (IF file < Len(lens) THEN Trx!Up(size, ALIGN) ELSE size)
        /\ file' = file + 1
    BY <1>4, <2>1 DEF Trx!Pack
  <2>3. size \in Nat /\ (file = 2 => size = lens[2])
    BY <1>1, <2>1
  <2>4. base \in Nat /\ cur_len <= base
    <3>1. Trx!Base \in Nat
      BY <1>1 DEF Trx!Base
    <3> QED BY <1>1, <2>1, <2>2, <3>1
  <2>5. cur_len' \in Nat /\ base + size <= cur_len'
    <3>1. Trx!Up(size, ALIGN) \in Nat /\ size <= Trx!Up(size, ALIGN)
      BY <2>3, UpIs
    <3> QED BY <2>2, <2>3, <2>4, <3>1
  <2>6. /\ DOMAIN buf' = 0..(MaxLen - 1)
        /\ \A k \in 0..(size - 1) : buf'[base + k] = Trx!From(file, k)
        /\ \A a \in 0..(MaxLen - 1) : a < base => buf'[a] = buf[a]
        /\ \A a \in 0..(MaxLen - 1) : buf'[a] = buf[a] \/ \E k : buf'[a] = Trx!From(file, k)
    <3>1. buf' = [a \in 0..(MaxLen - 1) |-> IF a - base \in 0..(size - 1) THEN units[a - base] ELSE buf[a]]
      BY <1>1, <2>1, <2>2 DEF Trx!Overwrite
    <3>2. \A k \in 0..(size - 1) : base + k \in 0..(MaxLen - 1) /\ (base + k) - base = k
      BY <2>2, <2>3, <2>4
    <3>3. \A k \in 0..(size - 1) : buf'[base + k] = Trx!From(file, k)
      BY <2>1, <3>1, <3>2
    <3>4. \A a \in 0..(MaxLen - 1) : a < base => ~(a - base \in 0..(size - 1))
      BY <2>3, <2>4
    <3>5. \A a \in 0..(MaxLen - 1) : buf'[a] = buf[a] \/ \E k : buf'[a] = Trx!From(file, k)
      <4> TAKE a \in 0..(MaxLen - 1)
      <4>1. CASE a - base \in 0..(size - 1)
        BY <2>1, <3>1, <4>1
      <4>2. CASE ~(a - base \in 0..(size - 1))
        BY <3>1, <4>2
      <4> QED BY <4>1, <4>2
    <3> QED BY <3>1, <3>3, <3>4, <3>5
  <2>7. offsets' \in [1..3 -> Nat] /\ offsets'[file] = base /\ (file # 2 => offsets'[2] = offsets[2])
    BY SMTT(40), <1>1, <2>2, <2>4
  <2>8. TrxTypes'
    <3>1. HEADER <= cur_len' /\ file' \in 0..6
      BY SMTT(40), <1>1, <2>2, <2>3, <2>4, <2>5
    <3> QED BY <1>1, <2>5, <2>6, <2>7, <3>1 DEF TrxInv, TrxTypes
  <2>9. InPlace'
    <3> SUFFICES ASSUME HasScript, Packed'
                 PROVE  /\ offsets'[2] + lens[2] < MaxLen
                        /\ \A k \in 0..(lens[2] - 1) : buf'[offsets'[2] + k] = Trx!From(2, k)
                        /\ offsets'[2] + lens[2] <= cur_len'
      BY <1>1, <1>2 DEF InPlace
    <3>1. CASE file = 2
      BY <2>2, <2>3, <2>4, <2>5, <2>6, <2>7, <3>1
    <3>2. CASE file = 3
      <4>1. /\ offsets[2] + lens[2] < MaxLen
            /\ \A k \in 0..(lens[2] - 1) : buf[offsets[2] + k] = Trx!From(2, k)
            /\ offsets[2] + lens[2] <= cur_len
        BY <3>2 DEF TrxInv, InPlace, Packed
      <4>2. lens[2] \in Nat /\ offsets[2] \in Nat
        BY <1>1, <3>2
      <4>3. \A k \in 0..(lens[2] - 1) :
              offsets[2] + k \in 0..(MaxLen - 1) /\ offsets[2] + k < base
        <5>1. base \in Nat /\ offsets[2] + lens[2] <= base
          BY SMTT(40), <1>1, <2>4, <4>1, <4>2
        <5> QED BY <4>1, <4>2, <5>1, Below
      <4>4. \A k \in 0..(lens[2] - 1) : buf'[offsets[2] + k] = Trx!From(2, k)
        BY <2>6, <4>1, <4>3
      <4>5. offsets[2] + lens[2] <= cur_len'
        BY SMTT(40), <1>1, <2>3, <2>4, <2>5, <4>1, <4>2
      <4> QED BY <2>7, <3>2, <4>1, <4>4, <4>5
    <3>3. CASE file = 1
      BY <2>2, <3>3 DEF Packed
    <3> QED BY <1>1, <3>1, <3>2, <3>3
  <2>10. Absent'
    <3> SUFFICES ASSUME ~HasScript
                 PROVE  /\ offsets'[2] = 0 /\ MaxLen > 0
                        /\ \A a \in 0..(MaxLen - 1) : buf'[a] # Trx!From(2, 0)
      BY <1>2 DEF Absent
    <3>1. file = 1 /\ offsets[2] = 0 /\ \A a \in 0..(MaxLen - 1) : buf[a] # Trx!From(2, 0)
      BY <1>1 DEF HasScript, TrxInv, Absent
    <3>2. \A k : Trx!From(1, k) # Trx!From(2, 0)
      BY DEF Trx!From
    <3>3. MaxLen > 0
      BY <1>1, <2>2, <2>3, <2>4
    <3> QED BY <2>6, <2>7, <3>1, <3>2, <3>3
  <2>11. (Trx!ScriptFound)'
    <3>1. file' # 6
      BY <1>1, <2>2
    <3> QED BY <3>1 DEF Trx!ScriptFound
  <2> QED BY <2>8, <2>9, <2>10, <2>11 DEF TrxInv
<1> QED BY <1>3, <1>4

(* The footer lies at the end of a page, behind what is packed.            *)
LEMMA FinishInv == ASSUME TrxInv, Trx!Finish PROVE TrxInv'
<1> USE TrxConstants
<1>1. /\ lens \in Seq(0..MaxFile) /\ Len(lens) \in 1..3 /\ offsets \in [1..3 -> Nat]
      /\ cur_len \in Nat /\ HEADER <= cur_len /\ prod_id \in BOOLEAN
      /\ DOMAIN buf = 0..(MaxLen - 1)
      /\ file = Len(lens) + 1 /\ file' = 5
      /\ lens' = lens /\ prod_id' = prod_id /\ offsets' = offsets /\ script' = script
  BY DEF TrxInv, TrxTypes, Trx!Finish
<1>2. PICK len : len = Trx!Up(Trx!Reserved, PAGE)
  OBVIOUS
<1>3. /\ cur_len' = len /\ len <= MaxLen
      /\ buf' = IF prod_id THEN Trx!Overwrite(len - FOOTER, [k \in 0..FOOTER - 1 |-> Trx!Footer]) ELSE buf
  BY <1>2 DEF Trx!Finish
<1>4. Trx!Reserved \in Nat /\ cur_len <= Trx!Reserved /\ (prod_id => cur_len + FOOTER = Trx!Reserved)
  BY <1>1 DEF Trx!Reserved
<1>5. len \in Nat /\ cur_len <= len /\ (prod_id => cur_len <= len - FOOTER)
  <2>1. len \in Nat /\ Trx!Reserved <= len
    BY <1>2, <1>4, UpIs
  <2> QED BY <1>1, <1>4, <2>1
<1>6. /\ DOMAIN buf' = 0..(MaxLen - 1)
      /\ \A a \in 0..(MaxLen - 1) : a < cur_len => buf'[a] = buf[a]
      /\ \A a \in 0..(MaxLen - 1) : buf'[a] = buf[a] \/ buf'[a] = Trx!Footer
  <2>1. CASE ~prod_id
    BY <1>1, <1>3, <2>1
  <2>2. CASE prod_id
    <3>1. PICK at0, units : at0 = len - FOOTER /\ units = [k \in 0..FOOTER - 1 |-> Trx!Footer]
      OBVIOUS
    <3>2. buf' = [a \in 0..(MaxLen - 1) |-> IF a - at0 \in 0..(FOOTER - 1) THEN units[a - at0] ELSE buf[a]]
      BY <1>1, <1>3, <2>2, <3>1 DEF Trx!Overwrite
    <3>3. \A a \in 0..(MaxLen - 1) : a < cur_len => ~(a - at0 \in 0..(FOOTER - 1))
      BY <1>1, <1>5, <2>2, <3>1
    <3>4. \A a \in 0..(MaxLen - 1) : buf'[a] = buf[a] \/ buf'[a] = Trx!Footer
      BY <3>1, <3>2
    <3> QED BY <3>2, <3>3, <3>4
  <2> QED BY <1>1, <2>1, <2>2
<1>7. TrxTypes'
  BY <1>1, <1>3, <1>5, <1>6 DEF TrxInv, TrxTypes
<1>8. HasScript' <=> HasScript
  BY <1>1 DEF HasScript
<1>9. InPlace'
  <2> SUFFICES ASSUME HasScript
               PROVE  /\ offsets[2] + lens[2] < MaxLen
                      /\ \A k \in 0..(lens[2] - 1) : buf'[offsets[2] + k] = Trx!From(2, k)
    BY <1>1, <1>8 DEF InPlace
  <2>1. /\ offsets[2] + lens[2] < MaxLen
        /\ \A k \in 0..(lens[2] - 1) : buf[offsets[2] + k] = Trx!From(2, k)
        /\ offsets[2] + lens[2] <= cur_len
    <3>1. file = 3 \/ file = 4
      <4>1. \A m \in 1..3 : m > 1 => m + 1 = 3 \/ m + 1 = 4
        OBVIOUS
      <4> QED BY <1>1, <4>1 DEF HasScript
    <3> QED BY <3>1 DEF TrxInv, InPlace, Packed
  <2>2. lens[2] \in Nat /\ offsets[2] \in Nat
    BY <1>1 DEF HasScript
  <2>3. \A k \in 0..(lens[2] - 1) : offsets[2] + k \in 0..(MaxLen - 1) /\ offsets[2] + k < cur_len
    BY <1>1, <2>1, <2>2, Below
  <2> QED BY <1>6, <2>1, <2>3
<1>10. Absent'
  <2> SUFFICES ASSUME ~HasScript
               PROVE  /\ offsets[2] = 0 /\ MaxLen > 0
                      /\ \A a \in 0..(MaxLen - 1) : buf'[a] # Trx!From(2, 0)
    BY <1>1, <1>8 DEF Absent
  <2>1. offsets[2] = 0 /\ \A a \in 0..(MaxLen - 1) : buf[a] # Trx!From(2, 0)
    BY DEF TrxInv, Absent
  <2>2. Trx!Footer # Trx!From(2, 0)
    BY DEF Trx!Footer, Trx!From
  <2>3. MaxLen > 0
    BY <1>1, <1>3, <1>5
  <2> QED BY <1>6, <2>1, <2>2, <2>3
<1>11. (Trx!ScriptFound)'
  BY <1>1 DEF Trx!ScriptFound
<1> QED BY <1>7, <1>9, <1>10, <1>11 DEF TrxInv

(* main looks for the script where the second offset says.                 *)
LEMMA BootInv == ASSUME TrxInv, Trx!Boot PROVE TrxInv'
<1> USE TrxConstants
<1>1. /\ file = 5 /\ file' = 6
      /\ script' = IF buf[offsets[2]] # Trx!From(2, 0) THEN <<>>
                   ELSE [k \in 1..lens[2] |-> buf[offsets[2] + k - 1]]
      /\ lens' = lens /\ prod_id' = prod_id /\ offsets' = offsets /\ cur_len' = cur_len /\ buf' = buf
  BY DEF Trx!Boot
<1>2. TrxTypes'
  BY <1>1 DEF TrxInv, TrxTypes
<1>3. InPlace' /\ Absent'
  BY <1>1 DEF TrxInv, InPlace, Packed, Absent, HasScript, Trx!From
<1>4. script' = IF HasScript THEN [k \in 1..lens[2] |-> Trx!From(2, k - 1)] ELSE <<>>
  <2>1. CASE ~HasScript
    <3>1. buf[offsets[2]] # Trx!From(2, 0)
      BY <1>1, <2>1 DEF TrxInv, Absent
    <3> QED BY <1>1, <2>1, <3>1
  <2>2. CASE HasScript
    <3>1. \A k \in 0..(lens[2] - 1) : buf[offsets[2] + k] = Trx!From(2, k)
      BY <1>1, <2>2 DEF TrxInv, InPlace, Packed
    <3>2. lens[2] \in Nat /\ offsets[2] \in Nat
      BY <2>2 DEF TrxInv, TrxTypes, HasScript
    <3>3. \A k \in 1..lens[2] : buf[offsets[2] + k - 1] = Trx!From(2, k - 1)
      <4> TAKE k \in 1..lens[2]
      <4>1. k - 1 \in 0..(lens[2] - 1) /\ offsets[2] + k - 1 = offsets[2] + (k - 1)
        BY <3>2
      <4> QED BY <3>1, <4>1
    <3>4. CASE lens[2] = 0
      <4>1. 1..lens[2] = {}
        BY <3>4
      <4>2. \A f, g : [k \in 1..lens[2] |-> f[k]] = <<>>
        BY <4>1
      <4>3. [k \in 1..lens[2] |-> Trx!From(2, k - 1)] = <<>> /\ [k \in 1..lens[2] |-> buf[offsets[2] + k - 1]] = <<>>
        BY <4>1
      <4> QED BY <1>1, <2>2, <4>3
    <3>5. CASE lens[2] # 0
      <4>1. 0 \in 0..(lens[2] - 1) /\ offsets[2] + 0 = offsets[2]
        BY <3>2, <3>5
      <4>2. buf[offsets[2]] = Trx!From(2, 0)
        BY <3>1, <4>1
      <4> QED BY <1>1, <2>2, <3>3, <4>2
    <3> QED BY <3>4, <3>5
  <2> QED BY <2>1, <2>2
<1>5. (Trx!ScriptFound)'
  BY <1>1, <1>4 DEF Trx!ScriptFound, HasScript
<1> QED BY <1>2, <1>3, <1>5 DEF TrxInv

LEMMA TrxStep == ASSUME TrxInv, [Trx!Next]_(Trx!vars) PROVE TrxInv'
<1>1. CASE UNCHANGED Trx!vars
  BY <1>1 DEF Trx!vars, TrxInv, TrxTypes, InPlace, Packed, Absent, HasScript, Trx!ScriptFound, Trx!From
<1>2. CASE Trx!Next
  BY <1>2, PackInv, FinishInv, BootInv DEF Trx!Next
<1> QED BY <1>1, <1>2

-----------------------------------------------------------------------------
LEMMA AddrConstants == ADDR_LEN \in Nat /\ ADDR_LEN > 0 /\ MaxStr \in Nat
BY PartsAssumption DEF Addr!AddrAssumption

LEMMA FollowingIs ==
  ASSUME NEW p \in 1..Len(str) + 1, str \in Seq(Addr!Chars), PairAt(p)
  PROVE  Following(p) \in 1..Len(str) + 1
<1>1. Len(str) \in Nat
  BY LenProperties
<1> QED BY <1>1 DEF Following, Behind, PairAt

LEMMA AddrInit == ASSUME Addr!Init PROVE AddrInv
<1> USE AddrConstants
<1>1. PICK k \in 0..MaxStr : str \in [1..k -> Addr!Chars]
  BY DEF Addr!Init
<1>2. str \in Seq(Addr!Chars) /\ Len(str) = k
  BY <1>1
<1>3. AddrTypes
  BY <1>2 DEF AddrTypes, Addr!Init
<1> DEFINE P == [k2 \in 0..ADDR_LEN |-> 1]
<1>4. P \in Positions /\ P[0] = 1
  BY <1>2 DEF Positions
<1>5. Parse(P, 0)
  BY <1>4 DEF Parse
<1>6. Bytes(P, 0) = [k2 \in 1..ADDR_LEN |-> <<"0", "0">>]
  BY DEF Bytes
<1>7. hwaddr.netif = Bytes(P, 0) /\ hwaddr.softc = Bytes(P, 0) /\ reader = "netif" /\ idx = ADDR_LEN /\ pos = 1
  BY <1>6 DEF Addr!Init, Addr!Zeros
<1> HIDE DEF P
<1>8. ReadInv
  BY <1>4, <1>5, <1>7 DEF ReadInv
<1> QED BY <1>3, <1>8 DEF AddrInv

(* A turn of the loop in the terms above.                                  *)
LEMMA ByteIs ==
  ASSUME AddrTypes, Addr!Byte, reader # "none"
  PROVE  /\ PairAt(pos) /\ idx > 0 /\ idx' = idx - 1 /\ pos' = Following(pos)
         /\ str' = str /\ reader' = reader
         /\ hwaddr' = [hwaddr EXCEPT ![reader] = [hwaddr[reader] EXCEPT ![ADDR_LEN - idx + 1] = Value(pos)]]
<1>1. Len(str) \in Nat /\ pos \in 1..Len(str) + 1
  BY LenProperties DEF AddrTypes
<1>2. PairAt(pos)
  BY <1>1 DEF Addr!Byte, Addr!Pair, Addr!Ends, PairAt
<1>3. pos' = Following(pos)
  BY <1>1 DEF Addr!Byte, Addr!Ends, Following, Behind
<1>4. hwaddr' = [hwaddr EXCEPT ![reader] = [hwaddr[reader] EXCEPT ![ADDR_LEN - idx + 1] = Value(pos)]]
  BY DEF Addr!Byte, Value
<1> QED BY <1>2, <1>3, <1>4 DEF Addr!Byte

(* The bytes after one more turn.                                          *)
LEMMA BytesMore ==
  ASSUME NEW P, NEW m \in 0..ADDR_LEN, m < ADDR_LEN
  PROVE  [Bytes(P, m) EXCEPT ![m + 1] = Value(P[m])] = Bytes(P, m + 1)
<1> USE AddrConstants
<1> DEFINE L == [Bytes(P, m) EXCEPT ![m + 1] = Value(P[m])]
<1>1. L = [k \in 1..ADDR_LEN |-> IF k = m + 1 THEN Value(P[m]) ELSE Bytes(P, m)[k]]
  BY DEF Bytes
<1>2. \A k \in 1..ADDR_LEN : (IF k = m + 1 THEN Value(P[m]) ELSE Bytes(P, m)[k]) = (IF k <= m + 1 THEN Value(P[k - 1]) ELSE <<"0", "0">>)
  <2> TAKE k \in 1..ADDR_LEN
  <2>1. CASE k = m + 1
    <3>1. k - 1 = m
      BY <2>1
    <3> QED BY <2>1, <3>1
  <2>2. CASE k # m + 1
    <3>1. k <= m + 1 <=> k <= m
      BY <2>2
    <3> QED BY <2>2, <3>1 DEF Bytes
  <2> QED BY <2>1, <2>2
<1> HIDE DEF L
<1>3. L = [k \in 1..ADDR_LEN |-> IF k <= m + 1 THEN Value(P[k - 1]) ELSE <<"0", "0">>]
  BY <1>1, <1>2
<1> QED BY <1>3 DEF L, Bytes

(* The terms speak of the string only.                                     *)
LEMMA SameString ==
  ASSUME str' = str
  PROVE  /\ \A P, m : Parse(P, m)' <=> Parse(P, m)
         /\ \A P, m : Stops(P, m)' <=> Stops(P, m)
         /\ \A P, m : Bytes(P, m)' = Bytes(P, m)
         /\ Positions' = Positions
BY DEF Parse, Stops, Bytes, Positions, PairAt, Following, Behind, Value, Addr!Alone

LEMMA ByteNetif ==
  ASSUME AddrInv, Addr!Byte, reader = "netif"
  PROVE  AddrInv'
<1> USE AddrConstants
<1>0. AddrTypes /\ Len(str) \in Nat
  BY LenProperties DEF AddrInv, AddrTypes
<1>1. /\ PairAt(pos) /\ idx > 0 /\ idx' = idx - 1 /\ pos' = Following(pos) /\ str' = str /\ reader' = reader
      /\ hwaddr' = [hwaddr EXCEPT !["netif"] = [hwaddr.netif EXCEPT ![ADDR_LEN - idx + 1] = Value(pos)]]
  BY <1>0, ByteIs
<1>2. pos' \in 1..Len(str) + 1
  BY <1>0, <1>1, FollowingIs DEF AddrTypes
<1>3. AddrTypes'
  BY <1>0, <1>1, <1>2 DEF AddrTypes
<1>4. PICK P \in Positions, m \in 0..ADDR_LEN :
        /\ Parse(P, m) /\ hwaddr.netif = Bytes(P, m)
        /\ idx = ADDR_LEN - m /\ pos = P[m] /\ hwaddr.softc = Bytes(P, 0)
  BY DEF AddrInv, ReadInv
<1>5. m < ADDR_LEN /\ m + 1 \in 0..ADDR_LEN /\ idx' = ADDR_LEN - (m + 1) /\ ADDR_LEN - idx + 1 = m + 1
  BY <1>1, <1>4
<1> DEFINE Q == [P EXCEPT ![m + 1] = pos']
<1>6. Q \in Positions /\ \A k \in 0..m : Q[k] = P[k]
  BY <1>2, <1>5 DEF Positions
<1>7. Q[m + 1] = pos'
  BY <1>5 DEF Positions
<1> HIDE DEF Q
<1>8. Parse(Q, m + 1)
  <2>1. Q[0] = 1
    BY <1>4, <1>6 DEF Parse
  <2>2. ASSUME NEW k \in 1..m + 1 PROVE PairAt(Q[k - 1]) /\ Q[k] = Following(Q[k - 1])
    <3>1. k - 1 \in 0..m /\ Q[k - 1] = P[k - 1]
      BY <1>6
    <3>2. CASE k = m + 1
      BY <3>1, <3>2, <1>1, <1>4, <1>7
    <3>3. CASE k # m + 1
      <4>1. k \in 1..m /\ k \in 0..m
        BY <3>3
      <4> QED BY <4>1, <3>1, <1>4, <1>6 DEF Parse
    <3> QED BY <3>2, <3>3
  <2> QED BY <2>1, <2>2 DEF Parse
<1>9. Bytes(Q, m) = Bytes(P, m) /\ Bytes(Q, 0) = Bytes(P, 0)
  <2>1. \A k \in 1..ADDR_LEN : k <= m => k - 1 \in 0..m /\ Q[k - 1] = P[k - 1]
    BY <1>6
  <2> QED BY <2>1 DEF Bytes
<1>10. hwaddr'.netif = Bytes(Q, m + 1) /\ hwaddr'.softc = Bytes(Q, 0)
  <2>1. hwaddr'.netif = [Bytes(Q, m) EXCEPT ![m + 1] = Value(Q[m])]
    <3>1. hwaddr'.netif = [hwaddr.netif EXCEPT ![ADDR_LEN - idx + 1] = Value(pos)]
      BY <1>0, <1>1 DEF AddrTypes
    <3>2. Q[m] = pos /\ hwaddr.netif = Bytes(Q, m) /\ ADDR_LEN - idx + 1 = m + 1
      BY <1>4, <1>5, <1>6, <1>9
    <3> QED BY <3>1, <3>2
  <2>2. hwaddr'.softc = hwaddr.softc
    BY <1>0, <1>1 DEF AddrTypes
  <2> QED BY <2>1, <2>2, <1>4, <1>5, <1>9, BytesMore
<1>11. ReadInv'
  <2>1. reader' = "netif"
    BY <1>1
  <2> QED BY <2>1, <1>1, <1>5, <1>6, <1>7, <1>8, <1>10, SameString DEF ReadInv
<1> QED BY <1>3, <1>11 DEF AddrInv

LEMMA ByteSoftc ==
  ASSUME AddrInv, Addr!Byte, reader = "softc"
  PROVE  AddrInv'
<1> USE AddrConstants
<1>0. AddrTypes /\ Len(str) \in Nat
  BY LenProperties DEF AddrInv, AddrTypes
<1>1. /\ PairAt(pos) /\ idx > 0 /\ idx' = idx - 1 /\ pos' = Following(pos) /\ str' = str /\ reader' = reader
      /\ hwaddr' = [hwaddr EXCEPT !["softc"] = [hwaddr.softc EXCEPT ![ADDR_LEN - idx + 1] = Value(pos)]]
  BY <1>0, ByteIs
<1>2. pos' \in 1..Len(str) + 1
  BY <1>0, <1>1, FollowingIs DEF AddrTypes
<1>3. AddrTypes'
  BY <1>0, <1>1, <1>2 DEF AddrTypes
<1>4. PICK P \in Positions, m \in 0..ADDR_LEN :
        /\ Parse(P, m) /\ hwaddr.netif = Bytes(P, m) /\ Stops(P, m) /\ ADDR_LEN - m <= idx
        /\ pos = P[ADDR_LEN - idx] /\ hwaddr.softc = Bytes(P, ADDR_LEN - idx)
  BY DEF AddrInv, ReadInv
<1> DEFINE j == ADDR_LEN - idx
<1>5. j \in 0..m /\ j < ADDR_LEN
  BY <1>0, <1>1, <1>4 DEF AddrTypes
<1>6. j # m
  BY <1>1, <1>4, <1>5 DEF Stops
<1>7. j + 1 \in 1..m /\ ADDR_LEN - idx' = j + 1 /\ ADDR_LEN - m <= idx'
  BY <1>0, <1>1, <1>5, <1>6 DEF AddrTypes
<1>8. P[j + 1] = pos'
  <2>1. P[j + 1] = Following(P[(j + 1) - 1]) /\ (j + 1) - 1 = j
    <3>1. (j + 1) - 1 = j
      BY <1>5
    <3> QED BY <3>1, <1>4, <1>7 DEF Parse
  <2> QED BY <2>1, <1>1, <1>4
<1>9. hwaddr'.netif = hwaddr.netif /\ hwaddr'.softc = Bytes(P, j + 1)
  <2>1. hwaddr'.softc = [hwaddr.softc EXCEPT ![j + 1] = Value(pos)] /\ hwaddr'.netif = hwaddr.netif
    BY <1>0, <1>1 DEF AddrTypes
  <2>2. [Bytes(P, j) EXCEPT ![j + 1] = Value(P[j])] = Bytes(P, j + 1)
    BY <1>5, BytesMore
  <2> QED BY <2>1, <2>2, <1>4
<1> HIDE DEF j
<1>10. ReadInv'
  <2>1. reader' = "softc"
    BY <1>1
  <2> QED BY <2>1, <1>1, <1>4, <1>7, <1>8, <1>9, SameString DEF ReadInv
<1> QED BY <1>3, <1>10 DEF AddrInv

(* The end of a call, wherever it is.                                      *)
LEMMA AddrReturn ==
  ASSUME AddrInv, reader # "none", Addr!Return, UNCHANGED <<str, hwaddr>>, idx = 0 \/ ~PairAt(pos)
  PROVE  AddrInv'
<1> USE AddrConstants
<1>0. AddrTypes /\ Len(str) \in Nat
  BY LenProperties DEF AddrInv, AddrTypes
<1>1. pos' = 1 /\ idx' = ADDR_LEN /\ reader' = (IF reader = "netif" THEN "softc" ELSE "none")
      /\ str' = str /\ hwaddr' = hwaddr
  BY DEF Addr!Return, Addr!Next2
<1>2. AddrTypes'
  BY <1>0, <1>1 DEF AddrTypes
<1>3. CASE reader = "netif"
  <2>1. PICK P \in Positions, m \in 0..ADDR_LEN :
          /\ Parse(P, m) /\ hwaddr.netif = Bytes(P, m)
          /\ idx = ADDR_LEN - m /\ pos = P[m] /\ hwaddr.softc = Bytes(P, 0)
    BY <1>3 DEF AddrInv, ReadInv
  <2>2. Stops(P, m)
    BY <2>1 DEF Stops
  <2>3. ADDR_LEN - idx' = 0 /\ pos' = P[0] /\ ADDR_LEN - m <= idx' /\ reader' = "softc"
    BY <1>1, <1>3, <2>1 DEF Parse
  <2>4. ReadInv'
    BY <1>1, <2>1, <2>2, <2>3, SameString DEF ReadInv
  <2> QED BY <1>2, <2>4 DEF AddrInv
<1>4. CASE reader = "softc"
  <2>1. PICK P \in Positions, m \in 0..ADDR_LEN :
        /\ Parse(P, m) /\ hwaddr.netif = Bytes(P, m) /\ Stops(P, m) /\ ADDR_LEN - m <= idx
        /\ pos = P[ADDR_LEN - idx] /\ hwaddr.softc = Bytes(P, ADDR_LEN - idx)
    BY <1>4 DEF AddrInv, ReadInv
  <2>2. ADDR_LEN - idx = m
    <3>1. ASSUME ADDR_LEN - idx # m PROVE FALSE
      <4>1. ADDR_LEN - idx + 1 \in 1..m /\ idx # 0 /\ (ADDR_LEN - idx + 1) - 1 = ADDR_LEN - idx
        BY <1>0, <2>1, <3>1 DEF AddrTypes
      <4>2. PairAt(P[(ADDR_LEN - idx + 1) - 1])
        BY <2>1, <4>1 DEF Parse
      <4> QED BY <2>1, <4>1, <4>2
    <3> QED BY <3>1
  <2>3. reader' = "none"
    BY <1>1, <1>4
  <2>4. ReadInv'
    BY <1>1, <2>1, <2>2, <2>3, SameString DEF ReadInv
  <2> QED BY <1>2, <2>4 DEF AddrInv
<1> QED BY <1>0, <1>3, <1>4 DEF AddrTypes

LEMMA AddrStep == ASSUME AddrInv, [Addr!Next]_(Addr!vars) PROVE AddrInv'
<1>1. CASE UNCHANGED Addr!vars
  <2>1. str' = str /\ reader' = reader /\ pos' = pos /\ idx' = idx /\ hwaddr' = hwaddr
    BY <1>1 DEF Addr!vars
  <2>2. AddrTypes'
    BY <2>1 DEF AddrInv, AddrTypes
  <2>3. ReadInv'
    BY <2>1, SameString DEF AddrInv, ReadInv
  <2> QED BY <2>2, <2>3 DEF AddrInv
<1>2. CASE Addr!Next
  <2>1. reader \in {"netif", "softc"} /\ Len(str) \in Nat /\ pos \in 1..Len(str) + 1
    BY <1>2, LenProperties DEF AddrInv, AddrTypes, Addr!Next
  <2>2. CASE Addr!Byte
    BY <2>1, <2>2, ByteNetif, ByteSoftc
  <2>3. CASE Addr!Malformed
    BY <2>1, <2>3, AddrReturn DEF Addr!Malformed, Addr!Pair, Addr!Ends, PairAt
  <2>4. CASE Addr!Parsed
    BY <2>1, <2>4, AddrReturn DEF Addr!Parsed, Addr!Ends, PairAt
  <2> QED BY <1>2, <2>2, <2>3, <2>4 DEF Addr!Next
<1> QED BY <1>1, <1>2

(* One byte of a written address, and the turn of the loop that reads it.  *)
LEMMA TextRead ==
  ASSUME str \in Seq(Addr!Chars), NEW b \in Addr!Digits \X Addr!Digits, NEW w \in Addr!Texts(b), NEW q \in Nat,
         \A i \in 1..Len(w) : str[q + i] = w[i],
         \/ q + Len(w) = Len(str) /\ Len(w) = 2
         \/ q + Len(w) < Len(str) /\ str[q + Len(w) + 1] = Addr!Sep
  PROVE  /\ PairAt(q + 1) /\ Value(q + 1) = b
         /\ q + Len(w) < Len(str) => Following(q + 1) = q + Len(w) + 2
<1>0. Len(str) \in Nat
  BY LenProperties
<1>1. PICK x \in Addr!Digits, y \in Addr!Digits : b = <<x, y>>
  OBVIOUS
<1>2. Addr!Sep \notin Addr!Digits
  BY DEF Addr!Sep, Addr!Digits
<1>3. CASE w = <<x, y>>
  <2>1. Len(w) = 2 /\ str[q + 1] = x /\ str[q + 2] = y
    BY <1>3
  <2>2. (q + 1) + 1 = q + 2 /\ (q + 1) + 2 = q + 3
    OBVIOUS
  <2>3. PairAt(q + 1)
    BY <2>1, <2>2, <1>0 DEF PairAt
  <2>4. Value(q + 1) = b
    BY <2>1, <2>2, <1>1, <1>2 DEF Value
  <2>5. Behind(q + 1) = q + 3
    BY <2>1, <2>2, <1>2 DEF Behind
  <2>6. ASSUME q + Len(w) < Len(str) PROVE Following(q + 1) = q + Len(w) + 2
    <3>1. q + 3 <= Len(str) /\ str[q + 3] = Addr!Sep
      BY <2>1, <2>6, <1>0
    <3> QED BY <2>1, <2>5, <3>1 DEF Following
  <2> QED BY <2>3, <2>4, <2>6
<1>4. CASE w # <<x, y>>
  <2>1. w = <<y>> /\ x = "0"
    BY <1>1, <1>4 DEF Addr!Texts
  <2>2. Len(w) = 1 /\ str[q + 1] = y
    BY <2>1
  <2>3. q + 2 <= Len(str) /\ str[q + 2] = Addr!Sep /\ (q + 1) + 1 = q + 2 /\ q + 2 + 1 = q + 3
    BY <2>2, <1>0
  <2>4. PairAt(q + 1)
    BY <2>2, <2>3, <1>1 DEF PairAt
  <2>5. Value(q + 1) = b
    BY <2>1, <2>2, <2>3, <1>1 DEF Value, Addr!Alone
  <2>6. Following(q + 1) = q + 3
    BY <2>2, <2>3 DEF Following, Behind
  <2> QED BY <2>2, <2>4, <2>5, <2>6
<1> QED BY <1>3, <1>4

(* Where the bytes of a written address begin.                             *)
LEMMA WrittenAt ==
  ASSUME str \in Seq(Addr!Chars), NEW a \in [1..ADDR_LEN -> Addr!Digits \X Addr!Digits], Addr!Writes(str, a)
  PROVE  \E q \in [1..ADDR_LEN -> Nat] :
           /\ q[1] = 0
           /\ \A k \in 1..ADDR_LEN : PairAt(q[k] + 1) /\ Value(q[k] + 1) = a[k]
           /\ \A k \in 1..ADDR_LEN - 1 : Following(q[k] + 1) = q[k + 1] + 1
<1> USE AddrConstants
<1> DEFINE pieces(t) == [k \in 1..2 * ADDR_LEN - 1 |-> IF k % 2 = 1 THEN t[(k + 1) \div 2] ELSE <<Addr!Sep>>]
<1>1. PICK t : /\ \A k \in 1..ADDR_LEN : t[k] \in Addr!Texts(a[k])
               /\ Len(t[ADDR_LEN]) = 2
               /\ str = Addr!FlattenSeq(pieces(t))
  BY DEF Addr!Writes
<1> DEFINE s == pieces(t)
<1>2. Len(s) = 2 * ADDR_LEN - 1 /\ Len(s) > 0 /\ DOMAIN s = 1..2 * ADDR_LEN - 1
  OBVIOUS
<1>3. \A k \in 1..ADDR_LEN : 2 * k - 1 \in 1..Len(s) /\ s[2 * k - 1] = t[k]
  <2> TAKE k \in 1..ADDR_LEN
  <2>1. (2 * k - 1) % 2 = 1 /\ ((2 * k - 1) + 1) \div 2 = k /\ 2 * k - 1 \in 1..2 * ADDR_LEN - 1
    OBVIOUS
  <2> QED BY <2>1, <1>2
<1>4. \A k \in 1..ADDR_LEN - 1 : 2 * k \in 1..Len(s) /\ s[2 * k] = <<Addr!Sep>>
  <2> TAKE k \in 1..ADDR_LEN - 1
  <2>1. (2 * k) % 2 = 0 /\ 2 * k \in 1..2 * ADDR_LEN - 1
    OBVIOUS
  <2> QED BY <2>1, <1>2
<1>5. \A k \in 1..ADDR_LEN : t[k] \in Seq(Addr!Chars) /\ Len(t[k]) \in 1..2
  <2> TAKE k \in 1..ADDR_LEN
  <2>1. PICK x \in Addr!Digits, y \in Addr!Digits : a[k] = <<x, y>>
    OBVIOUS
  <2>2. t[k] = <<x, y>> \/ t[k] = <<y>>
    BY <2>1, <1>1 DEF Addr!Texts
  <2>3. x \in Addr!Chars /\ y \in Addr!Chars
    BY DEF Addr!Chars
  <2>4. CASE t[k] = <<x, y>>
    BY <2>4, <2>3
  <2>5. CASE t[k] = <<y>>
    BY <2>5, <2>3
  <2> QED BY <2>2, <2>4, <2>5
<1>6. s \in Seq(Seq(Addr!Chars))
  <2>1. ASSUME NEW k \in 1..2 * ADDR_LEN - 1 PROVE s[k] \in Seq(Addr!Chars)
    <3>1. CASE k % 2 = 1
      <4>1. (k + 1) \div 2 \in 1..ADDR_LEN
        BY <3>1
      <4> QED BY <3>1, <4>1, <1>5
    <3>2. CASE k % 2 # 1
      <4>1. <<Addr!Sep>> \in Seq(Addr!Chars)
        BY DEF Addr!Chars
      <4> QED BY <3>2, <4>1
    <3> QED BY <3>1, <3>2
  <2>2. s \in [1..2 * ADDR_LEN - 1 -> Seq(Addr!Chars)]
    BY <2>1
  <2>3. 2 * ADDR_LEN - 1 \in Nat
    OBVIOUS
  <2> HIDE DEF s
  <2> QED BY <2>2, <2>3
<1>7. str = Addr!FlattenSeq(s)
  BY <1>1
<1> HIDE DEF s
<1>8. PICK o \in [0..Len(s) -> Nat] :
        /\ o[0] = 0 /\ Len(str) = o[Len(s)]
        /\ \A k \in 1..Len(s) : o[k] = o[k - 1] + Len(s[k]) /\ o[k] <= Len(str)
        /\ \A k \in 1..Len(s) : \A i \in 1..Len(s[k]) : str[o[k - 1] + i] = s[k][i]
  <2>1. Len(s) > 0 /\ s \in Seq(Seq(Addr!Chars))
    BY <1>2, <1>6
  <2>2. PICK o : Places(s, o)
    BY <2>1, Pieces
  <2> QED BY <2>2, <1>7 DEF Places
<1> DEFINE q == [k \in 1..ADDR_LEN |-> o[2 * k - 2]]
<1>9. \A k \in 1..ADDR_LEN : 2 * k - 2 \in 0..Len(s) /\ q[k] \in Nat /\ q[k] = o[2 * k - 2]
  <2> TAKE k \in 1..ADDR_LEN
  <2>1. 2 * k - 2 \in 0..Len(s)
    BY <1>2
  <2> QED BY <2>1, <1>8
<1>10. q \in [1..ADDR_LEN -> Nat] /\ q[1] = 0
  <2>1. 2 * 1 - 2 = 0 /\ 1 \in 1..ADDR_LEN
    OBVIOUS
  <2> QED BY <2>1, <1>8, <1>9
<1> HIDE DEF q
<1>11. ASSUME NEW k \in 1..ADDR_LEN
       PROVE  /\ PairAt(q[k] + 1) /\ Value(q[k] + 1) = a[k]
              /\ k < ADDR_LEN => Following(q[k] + 1) = q[k + 1] + 1
  <2>1. /\ 2 * k - 1 \in 1..Len(s) /\ s[2 * k - 1] = t[k] /\ (2 * k - 1) - 1 = 2 * k - 2
        /\ o[2 * k - 1] = q[k] + Len(t[k])
        /\ \A i \in 1..Len(t[k]) : str[q[k] + i] = t[k][i]
    <3>1. 2 * k - 1 \in 1..Len(s) /\ s[2 * k - 1] = t[k] /\ (2 * k - 1) - 1 = 2 * k - 2
      BY <1>3
    <3>2. q[k] = o[2 * k - 2]
      BY <1>9
    <3>3. o[2 * k - 1] = o[(2 * k - 1) - 1] + Len(s[2 * k - 1])
      BY <3>1, <1>8
    <3>4. \A i \in 1..Len(s[2 * k - 1]) : str[o[(2 * k - 1) - 1] + i] = s[2 * k - 1][i]
      BY <3>1, <1>8
    <3> QED BY <3>1, <3>2, <3>3, <3>4
  <2>2. q[k] \in Nat /\ t[k] \in Addr!Texts(a[k]) /\ a[k] \in Addr!Digits \X Addr!Digits /\ Len(t[k]) \in 1..2
    BY <1>1, <1>5, <1>9
  <2>3. CASE k = ADDR_LEN
    <3>1. q[k] + Len(t[k]) = Len(str) /\ Len(t[k]) = 2
      BY <2>1, <2>3, <1>1, <1>2, <1>8
    <3>2. PairAt(q[k] + 1) /\ Value(q[k] + 1) = a[k]
      BY <2>1, <2>2, <3>1, TextRead
    <3> QED BY <2>3, <3>2
  <2>4. CASE k # ADDR_LEN
    <3>1. k \in 1..ADDR_LEN - 1 /\ k + 1 \in 1..ADDR_LEN /\ 2 * (k + 1) - 2 = 2 * k /\ 2 * (k + 1) - 1 = 2 * k + 1
      BY <2>4
    <3>2. o[2 * k] = o[2 * k - 1] + 1 /\ str[o[2 * k - 1] + 1] = Addr!Sep
      <4>1. 2 * k \in 1..Len(s) /\ s[2 * k] = <<Addr!Sep>> 
        BY <3>1, <1>4
      <4>3. Len(<<Addr!Sep>>) = 1 /\ <<Addr!Sep>>[1] = Addr!Sep /\ 1 \in 1..1
        OBVIOUS
      <4>2. o[2 * k] = o[2 * k - 1] + Len(s[2 * k]) /\ \A i \in 1..Len(s[2 * k]) : str[o[2 * k - 1] + i] = s[2 * k][i]
        BY <4>1, <1>8
      <4> QED BY <4>1, <4>2, <4>3
    <3>3. q[k + 1] = q[k] + Len(t[k]) + 1
      BY <3>1, <3>2, <2>1, <1>9
    <3>4. q[k] + Len(t[k]) < Len(str) /\ str[q[k] + Len(t[k]) + 1] = Addr!Sep
      <4>1. o[2 * k] <= Len(str) /\ Len(str) \in Nat /\ q[k] \in Nat /\ Len(t[k]) \in 1..2
        BY <3>1, <1>4, <1>8, <2>2, LenProperties
      <4> QED BY <4>1, <3>2, <2>1
    <3>5. PairAt(q[k] + 1) /\ Value(q[k] + 1) = a[k] /\ Following(q[k] + 1) = q[k] + Len(t[k]) + 2
      BY <2>1, <2>2, <3>4, TextRead
    <3>6. q[k] + Len(t[k]) + 2 = q[k + 1] + 1
      BY <3>3, <2>2
    <3> QED BY <3>5, <3>6
  <2> QED BY <2>3, <2>4
<1>12. \A k \in 1..ADDR_LEN : PairAt(q[k] + 1) /\ Value(q[k] + 1) = a[k]
  BY <1>11
<1>13. \A k \in 1..ADDR_LEN - 1 : Following(q[k] + 1) = q[k + 1] + 1
  <2> TAKE k \in 1..ADDR_LEN - 1
  <2>1. k \in 1..ADDR_LEN /\ k < ADDR_LEN
    OBVIOUS
  <2> QED BY <2>1, <1>11
<1> QED BY <1>10, <1>12, <1>13

(* The bytes of an address that is written there are what the parse stores.*)
LEMMA WrittenRead ==
  ASSUME AddrTypes, NEW a \in [1..ADDR_LEN -> Addr!Digits \X Addr!Digits], Addr!Writes(str, a),
         NEW P \in Positions, NEW m \in 0..ADDR_LEN, Parse(P, m), Stops(P, m)
  PROVE  Bytes(P, m) = a
<1> USE AddrConstants
<1>1. PICK q \in [1..ADDR_LEN -> Nat] :
        /\ q[1] = 0
        /\ \A k \in 1..ADDR_LEN : PairAt(q[k] + 1) /\ Value(q[k] + 1) = a[k]
        /\ \A k \in 1..ADDR_LEN - 1 : Following(q[k] + 1) = q[k + 1] + 1
  BY WrittenAt DEF AddrTypes
<1> DEFINE T == {k \in 0..m : k = ADDR_LEN \/ P[k] = q[k + 1] + 1}
<1>2. \A k \in 0..m : k \in T
  <2>1. 0 \in T
    BY <1>1 DEF Parse
  <2>2. ASSUME NEW k \in 0..m - 1, k \in T PROVE k + 1 \in T
    <3>1. k + 1 \in 1..m /\ (k + 1) - 1 = k /\ k # ADDR_LEN /\ k + 1 \in 1..ADDR_LEN
      OBVIOUS
    <3>2. P[k + 1] = Following(P[k]) /\ P[k] = q[k + 1] + 1
      BY <3>1, <2>2 DEF Parse
    <3>3. CASE k + 1 = ADDR_LEN
      BY <3>1, <3>3
    <3>4. CASE k + 1 # ADDR_LEN
      <4>1. k + 1 \in 1..ADDR_LEN - 1
        BY <3>1, <3>4
      <4>2. P[k + 1] = q[k + 1 + 1] + 1
        BY <4>1, <3>2, <1>1
      <4> QED BY <4>2, <3>1
    <3> QED BY <3>3, <3>4
  <2>3. m \in Nat
    OBVIOUS
  <2> HIDE DEF T
  <2> QED BY <2>1, <2>2, <2>3, Upward
<1>3. m = ADDR_LEN
  <2>1. ASSUME m # ADDR_LEN PROVE FALSE
    <3>1. m + 1 \in 1..ADDR_LEN /\ P[m] = q[m + 1] + 1
      BY <2>1, <1>2
    <3>2. PairAt(P[m])
      BY <3>1, <1>1
    <3> QED BY <2>1, <3>2 DEF Stops
  <2> QED BY <2>1
<1>4. ASSUME NEW k \in 1..ADDR_LEN PROVE Bytes(P, m)[k] = a[k]
  <2>1. k - 1 \in 0..m /\ k - 1 # ADDR_LEN /\ (k - 1) + 1 = k
    BY <1>3
  <2>2. P[k - 1] = q[k] + 1
    BY <2>1, <1>2
  <2> QED BY <2>2, <1>1, <1>3 DEF Bytes
<1>5. DOMAIN Bytes(P, m) = 1..ADDR_LEN /\ Bytes(P, m) = [k \in 1..ADDR_LEN |-> Bytes(P, m)[k]]
  BY DEF Bytes
<1>6. a = [k \in 1..ADDR_LEN |-> a[k]]
  OBVIOUS
<1> QED BY <1>4, <1>5, <1>6

LEMMA AddressIs == ASSUME AddrInv PROVE Addr!AddressesAgree
<1>1. SUFFICES ASSUME reader = "none"
               PROVE  /\ hwaddr.netif = hwaddr.softc
                      /\ \A a \in [1..ADDR_LEN -> Addr!Digits \X Addr!Digits] : Addr!Writes(str, a) => hwaddr.netif = a
  BY DEF Addr!AddressesAgree
<1>2. PICK P \in Positions, m \in 0..ADDR_LEN :
        Parse(P, m) /\ hwaddr.netif = Bytes(P, m) /\ Stops(P, m) /\ hwaddr.softc = hwaddr.netif
  BY <1>1 DEF AddrInv, ReadInv
<1> QED BY <1>2, WrittenRead DEF AddrInv

-----------------------------------------------------------------------------
LEMMA QueueConstants == NULL \notin Items /\ QB \notin Items /\ QB # NULL /\ IsFiniteSet(Items) /\ Cardinality(Items) \in Nat
<1>1. NULL \notin Items /\ QB \notin Items /\ QB # NULL /\ IsFiniteSet(Items)
  BY PartsAssumption DEF Queue!QueueAssumption, Queue!IsFiniteSet, IsFiniteSet
<1> QED BY <1>1, FS_CardinalityType

(* The walks of the model, in terms of the links alone.                    *)
Hops(nx, i) == CHOOSE at1 : at1 = [j \in 0..Cardinality(Items) |->
                 IF j = 0 THEN i ELSE IF at1[j - 1] = QB THEN QB ELSE nx[at1[j - 1]]]
AlongOf(nx, i) == [j \in 1..Cardinality({j \in 0..Cardinality(Items) - 1 : Hops(nx, i)[j] # QB}) |-> Hops(nx, i)[j - 1]]
Round(nx) == CHOOSE at1 : at1 = [j \in 0..Cardinality(Items) + 1 |-> IF j = 0 THEN QB ELSE nx[at1[j - 1]]]

LEMMA SameCard == \A S : Queue!Cardinality(S) = Cardinality(S)
BY DEF Queue!Cardinality, Cardinality
LEMMA AlongSame == \A i : Queue!Along(i) = AlongOf(q_next, i)
<1> TAKE i
<1> DEFINE h == CHOOSE at1 : at1 = [j \in 0..Queue!Cardinality(Items) |->
                 IF j = 0 THEN i ELSE IF at1[j - 1] = QB THEN QB ELSE q_next[at1[j - 1]]]
<1>1. Queue!Along(i) = [j \in 1..Queue!Cardinality({j \in 0..Queue!Cardinality(Items) - 1 : h[j] # QB}) |-> h[j - 1]]
  BY DEF Queue!Along
<1>2. Queue!Cardinality(Items) = Cardinality(Items)
  BY SameCard
<1>3. h = Hops(q_next, i)
  BY <1>2 DEF Hops
<1> HIDE DEF h
<1>4. Queue!Cardinality({j \in 0..Queue!Cardinality(Items) - 1 : h[j] # QB}) = Cardinality({j \in 0..Cardinality(Items) - 1 : h[j] # QB})
  BY <1>2, SameCard
<1> QED BY <1>1, <1>3, <1>4 DEF AlongOf

LEMMA AtSame == \A k : Queue!At(k) = Round(q_next)[k]
BY SameCard DEF Queue!At, Round

(* One more link than the walk for q_count and q_find.                     *)
LEMMA RoundExists ==
  ASSUME NEW nx, NEW N \in Nat
  PROVE  \E f : f = [j \in 0..N |-> IF j = 0 THEN QB ELSE nx[f[j - 1]]]
<1> DEFINE Eq(f, c) == f = [j \in 0..c |-> IF j = 0 THEN QB ELSE nx[f[j - 1]]]
<1> DEFINE T == {c \in 0..N : \E f : Eq(f, c)}
<1>1. 0 \in T
  <2>1. Eq([j \in 0..0 |-> QB], 0)
    OBVIOUS
  <2> HIDE DEF Eq
  <2> QED BY <2>1
<1>2. ASSUME NEW c \in 0..N - 1, c \in T PROVE c + 1 \in T
  <2>1. PICK f : Eq(f, c)
    BY <1>2
  <2> DEFINE g == [j \in 0..c + 1 |-> IF j <= c THEN f[j] ELSE nx[f[j - 1]]]
  <2>2. ASSUME NEW j \in 0..c + 1 PROVE g[j] = IF j = 0 THEN QB ELSE nx[g[j - 1]]
    <3>1. CASE j <= c
      <4>1. j \in 0..c /\ (j # 0 => j - 1 \in 0..c + 1 /\ j - 1 <= c)
        BY <3>1
      <4>2. f[j] = IF j = 0 THEN QB ELSE nx[f[j - 1]]
        BY <4>1, <2>1
      <4> QED BY <4>1, <4>2
    <3>2. CASE ~(j <= c)
      <4>1. j = c + 1 /\ j - 1 = c /\ j # 0 /\ j - 1 \in 0..c + 1
        BY <3>2
      <4> QED BY <4>1
    <3> QED BY <3>1, <3>2
  <2>3. Eq(g, c + 1)
    BY <2>2
  <2> HIDE DEF g, Eq
  <2>4. c + 1 \in 0..N
    OBVIOUS
  <2> QED BY <2>3, <2>4
<1> HIDE DEF T
<1>3. N \in T
  BY <1>1, <1>2, Upward
<1> QED BY <1>3 DEF T

(* The elements are no more than there are.                                *)
LEMMA LengthBound ==
  ASSUME NEW nx, NEW pv, NEW s, Linked(nx, pv, s)
  PROVE  Len(s) \in 0..Cardinality(Items)
<1>1. Len(s) \in Nat /\ s \in [1..Len(s) -> Items]
  BY LenProperties DEF Linked
<1>2. s \in Injection(1..Len(s), Items)
  BY <1>1 DEF Linked, Injection, IsInjective
<1>3. Cardinality(1..Len(s)) <= Cardinality(Items)
  BY <1>2, QueueConstants, FS_Injection
<1>4. Cardinality(1..Len(s)) = Len(s)
  BY <1>1, FS_Interval
<1> QED BY <1>1, <1>3, <1>4, QueueConstants

LEMMA NodeIs ==
  ASSUME NEW s \in Seq(Items)
  PROVE  /\ \A k \in 1..Len(s) : Node(s, k) = s[k] /\ Node(s, k) \in Items /\ Node(s, k) # QB
         /\ Node(s, 0) = QB /\ Node(s, Len(s) + 1) = QB /\ \A k : Node(s, k) \in Items \cup {QB}
         /\ \A k \in Nat : k > Len(s) => Node(s, k) = QB
         /\ Len(s) \in Nat
<1>1. Len(s) \in Nat /\ \A k \in 1..Len(s) : s[k] \in Items
  BY LenProperties
<1> QED BY <1>1, QueueConstants DEF Node

(* The walk from the first element of a path.                              *)
LEMMA AlongIs ==
  ASSUME NEW nx, NEW s \in Seq(Items), Len(s) <= Cardinality(Items),
         \A k \in 1..Len(s) : nx[s[k]] = Node(s, k + 1)
  PROVE  AlongOf(nx, Node(s, 1)) = s
<1> DEFINE C == Cardinality(Items)
<1> DEFINE i == Node(s, 1)
<1> DEFINE Eq(f) == f = [j \in 0..C |-> IF j = 0 THEN i ELSE IF f[j - 1] = QB THEN QB ELSE nx[f[j - 1]]]
<1> DEFINE g == [j \in 0..C |-> Node(s, j + 1)]
<1>0. C \in Nat /\ Len(s) \in Nat
  BY QueueConstants, NodeIs
<1> HIDE DEF C
<1>1. ASSUME NEW j \in 1..C PROVE Node(s, j + 1) = IF Node(s, j) = QB THEN QB ELSE nx[Node(s, j)]
  BY <1>0, NodeIs
<1>2. Eq(g)
  <2>1. ASSUME NEW j \in 0..C PROVE g[j] = IF j = 0 THEN i ELSE IF g[j - 1] = QB THEN QB ELSE nx[g[j - 1]]
    <3>1. CASE j = 0
      BY <3>1
    <3>2. CASE j # 0
      <4>1. j \in 1..C /\ j - 1 \in 0..C /\ (j - 1) + 1 = j
        BY <3>2, <1>0
      <4> QED BY <4>1, <3>2, <1>1
    <3> QED BY <3>1, <3>2
  <2> QED BY <2>1
<1> DEFINE h == CHOOSE f : Eq(f)
<1>3. Eq(h)
  <2> HIDE DEF Eq, g
  <2> QED BY <1>2
<1>4. h = Hops(nx, i)
  BY DEF Hops, C
<1> HIDE DEF h, g
<1>5. h[0] = Node(s, 1) /\ \A j \in 1..C : h[j] = IF h[j - 1] = QB THEN QB ELSE nx[h[j - 1]]
  BY <1>0, <1>3
<1> HIDE DEF i
<1> DEFINE T == {j \in 0..C : h[j] = Node(s, j + 1)}
<1>6. \A j \in 0..C : j \in T
  <2>1. 0 \in T
    BY <1>0, <1>5
  <2>2. ASSUME NEW j \in 0..C - 1, j \in T PROVE j + 1 \in T
    <3>1. j + 1 \in 1..C /\ (j + 1) - 1 = j
      BY <1>0
    <3>2. h[j + 1] = IF h[j] = QB THEN QB ELSE nx[h[j]]
      BY <3>1, <1>5
    <3>3. h[j + 1] = Node(s, (j + 1) + 1)
      BY <3>1, <3>2, <2>2, <1>1
    <3> QED BY <3>1, <3>3
  <2> HIDE DEF T
  <2> QED BY <2>1, <2>2, <1>0, Upward
<1>7. \A j \in 0..C : h[j] = Node(s, j + 1)
  BY <1>6
<1> HIDE DEF T
<1>8. {j \in 0..C - 1 : h[j] # QB} = 0..Len(s) - 1
  <2>1. ASSUME NEW j \in 0..C - 1 PROVE h[j] # QB <=> j \in 0..Len(s) - 1
    <3>1. j \in 0..C /\ h[j] = Node(s, j + 1)
      BY <1>0, <1>7
    <3>2. CASE j <= Len(s) - 1
      <4>1. j + 1 \in 1..Len(s)
        BY <3>2, <1>0
      <4> QED BY <3>1, <3>2, <4>1, NodeIs, <1>0
    <3>3. CASE ~(j <= Len(s) - 1)
      <4>1. j + 1 \in Nat /\ j + 1 > Len(s)
        BY <3>3, <1>0
      <4> QED BY <3>1, <3>3, <4>1, NodeIs, <1>0
    <3> QED BY <3>2, <3>3
  <2>2. \A j \in 0..Len(s) - 1 : j \in 0..C - 1
    BY <1>0 DEF C
  <2> QED BY <2>1, <2>2
<1>9. Cardinality(0..Len(s) - 1) = Len(s)
  <2>1. 0 \in Int /\ Len(s) - 1 \in Int
    BY <1>0
  <2>2. Cardinality(0..Len(s) - 1) = IF 0 > Len(s) - 1 THEN 0 ELSE Len(s) - 1 - 0 + 1
    BY <2>1, FS_Interval
  <2> QED BY <2>2, <1>0
<1>10. AlongOf(nx, i) = [j \in 1..Len(s) |-> h[j - 1]]
  BY <1>4, <1>8, <1>9 DEF AlongOf, C
<1>11. ASSUME NEW j \in 1..Len(s) PROVE h[j - 1] = s[j]
  <2>1. j - 1 \in 0..C /\ (j - 1) + 1 = j
    BY <1>0 DEF C
  <2> QED BY <2>1, <1>7, NodeIs
<1>12. s = [j \in 1..Len(s) |-> s[j]]
  BY <1>0
<1> QED BY <1>10, <1>11, <1>12 DEF i

LEMMA RoundIs ==
  ASSUME NEW nx, NEW pv, NEW s, Linked(nx, pv, s)
  PROVE  \A j \in 0..Len(s) + 1 : Round(nx)[j] = Node(s, j)
<1> DEFINE C == Cardinality(Items) + 1
<1> DEFINE Eq(f) == f = [j \in 0..C |-> IF j = 0 THEN QB ELSE nx[f[j - 1]]]
<1>0. C \in Nat /\ Len(s) + 1 \in 0..C /\ Len(s) \in Nat /\ s \in Seq(Items)
  <2>1. Len(s) \in 0..Cardinality(Items)
    BY LengthBound
  <2>2. s \in Seq(Items)
    BY DEF Linked
  <2> QED BY <2>1, <2>2, QueueConstants
<1>1. \E f : Eq(f)
  BY <1>0, RoundExists
<1> HIDE DEF C
<1> DEFINE h == CHOOSE f : Eq(f)
<1>2. Eq(h)
  <2> HIDE DEF Eq
  <2> QED BY <1>1
<1>3. h = Round(nx)
  BY DEF Round, C
<1> HIDE DEF h
<1>4. h[0] = QB /\ \A j \in 1..C : h[j] = nx[h[j - 1]]
  BY <1>0, <1>2
<1> DEFINE T == {j \in 0..Len(s) + 1 : h[j] = Node(s, j)}
<1>5. \A j \in 0..Len(s) + 1 : j \in T
  <2>1. 0 \in T
    BY <1>0, <1>4, NodeIs
  <2>2. ASSUME NEW j \in 0..(Len(s) + 1) - 1, j \in T PROVE j + 1 \in T
    <3>1. j + 1 \in 1..C /\ (j + 1) - 1 = j /\ j \in 0..Len(s) /\ j + 1 \in 0..Len(s) + 1
      BY <1>0
    <3>2. h[j + 1] = nx[Node(s, j)]
      BY <3>1, <1>4, <2>2
    <3>3. h[j + 1] = Node(s, j + 1)
      BY <3>1, <3>2 DEF Linked
    <3> QED BY <3>1, <3>3
  <2>3. Len(s) + 1 \in Nat
    BY <1>0
  <2> HIDE DEF T
  <2> QED BY <2>1, <2>2, <2>3, Upward
<1> QED BY <1>3, <1>5

(* A sequence without its element p.                                       *)
Cut(s, p) == SubSeq(s, 1, p - 1) \o SubSeq(s, p + 1, Len(s))
LEMMA CutIs ==
  ASSUME NEW S, NEW s \in Seq(S), NEW p \in 1..Len(s)
  PROVE  /\ Cut(s, p) \in Seq(S) /\ Len(Cut(s, p)) = Len(s) - 1
         /\ \A k \in 1..Len(s) - 1 : Cut(s, p)[k] = IF k < p THEN s[k] ELSE s[k + 1]
<1>0. Len(s) \in Nat /\ \A k \in 1..Len(s) : s[k] \in S
  BY LenProperties
<1> DEFINE a == SubSeq(s, 1, p - 1)
<1> DEFINE b == SubSeq(s, p + 1, Len(s))
<1>1. a \in Seq(S) /\ Len(a) = p - 1 /\ \A k \in 1..p - 1 : a[k] = s[k]
  BY <1>0, SubSeqProperties
<1>2. b \in Seq(S) /\ Len(b) = Len(s) - p /\ \A k \in 1..Len(s) - p : b[k] = s[p + k]
  BY <1>0, SubSeqProperties
<1>3. Cut(s, p) = a \o b
  BY DEF Cut
<1> HIDE DEF a, b
<1>4. a \o b \in Seq(S) /\ Len(a \o b) = Len(s) - 1
  <2>1. a \o b \in Seq(S) /\ Len(a \o b) = Len(a) + Len(b)
    BY <1>1, <1>2, ConcatProperties
  <2> QED BY <2>1, <1>0, <1>1, <1>2
<1>5. ASSUME NEW k \in 1..Len(s) - 1 PROVE (a \o b)[k] = IF k < p THEN s[k] ELSE s[k + 1]
  <2>1. (a \o b)[k] = IF k <= Len(a) THEN a[k] ELSE b[k - Len(a)]
    <3>1. k \in 1..Len(a) + Len(b)
      BY <1>0, <1>1, <1>2
    <3> QED BY <3>1, <1>1, <1>2, ConcatProperties
  <2>2. CASE k < p
    BY <2>1, <2>2, <1>0, <1>1
  <2>3. CASE ~(k < p)
    <3>1. ~(k <= Len(a)) /\ k - Len(a) \in 1..Len(s) - p /\ p + (k - Len(a)) = k + 1
      BY <2>3, <1>0, <1>1
    <3> QED BY <3>1, <2>1, <2>3, <1>2
  <2> QED BY <2>2, <2>3
<1> QED BY <1>3, <1>4, <1>5

-----------------------------------------------------------------------------
(* The ring does not meet itself.                                          *)
LEMMA NodesDiffer ==
  ASSUME NEW nx, NEW pv, NEW s, Linked(nx, pv, s)
  PROVE  /\ \A j, k \in 0..Len(s) : Node(s, j) = Node(s, k) => j = k
         /\ \A j, k \in 1..Len(s) + 1 : Node(s, j) = Node(s, k) => j = k
<1>0. s \in Seq(Items) /\ \A j, k \in 1..Len(s) : s[j] = s[k] => j = k
  BY DEF Linked
<1>1. Len(s) \in Nat /\ \A k \in 1..Len(s) : Node(s, k) = s[k] /\ Node(s, k) # QB
  BY <1>0, NodeIs
<1>2. Node(s, 0) = QB /\ Node(s, Len(s) + 1) = QB
  BY <1>0, NodeIs
<1> QED BY <1>0, <1>1, <1>2

(* The links of an element of the queue.                                   *)
LEMMA LinksOf ==
  ASSUME NEW nx, NEW pv, NEW s, Linked(nx, pv, s), NEW p \in 1..Len(s)
  PROVE  /\ nx[s[p]] = Node(s, p + 1) /\ pv[s[p]] = Node(s, p - 1) /\ s[p] = Node(s, p)
         /\ s[p] \in Items /\ s[p] # QB
<1>0. s \in Seq(Items) /\ Len(s) \in Nat
  BY NodeIs DEF Linked
<1>1. s[p] = Node(s, p) /\ s[p] \in Items /\ s[p] # QB
  BY <1>0, NodeIs
<1>2. p \in 0..Len(s) /\ p - 1 \in 0..Len(s) /\ (p - 1) + 1 = p
  BY <1>0
<1>3. nx[Node(s, p)] = Node(s, p + 1) /\ pv[Node(s, (p - 1) + 1)] = Node(s, p - 1)
  BY <1>2 DEF Linked
<1> QED BY <1>1, <1>2, <1>3

(* q_dequeue: the neighbours are linked to each other.                     *)
LEMMA UnlinkLinks ==
  ASSUME NEW nx, NEW pv, NEW s, Linked(nx, pv, s), NEW p \in 1..Len(s)
  PROVE  /\ Linked([nx EXCEPT ![pv[s[p]]] = nx[s[p]]], [pv EXCEPT ![nx[s[p]]] = pv[s[p]]], Cut(s, p))
         /\ Elements(Cut(s, p)) = Elements(s) \ {s[p]}
<1> DEFINE t == Cut(s, p)
<1> DEFINE mx == [nx EXCEPT ![pv[s[p]]] = nx[s[p]]]
<1> DEFINE mv == [pv EXCEPT ![nx[s[p]]] = pv[s[p]]]
<1>0. s \in Seq(Items) /\ Len(s) \in Nat /\ p \in Nat /\ p >= 1 /\ p <= Len(s)
  BY NodeIs DEF Linked
<1>1. t \in Seq(Items) /\ Len(t) = Len(s) - 1 /\ \A k \in 1..Len(s) - 1 : t[k] = IF k < p THEN s[k] ELSE s[k + 1]
  BY <1>0, CutIs
<1> HIDE DEF t
<1>2. ASSUME NEW k \in 0..Len(s) PROVE Node(t, k) = IF k < p THEN Node(s, k) ELSE Node(s, k + 1)
  <2>1. CASE k = 0
    BY <2>1, <1>0, <1>1, NodeIs
  <2>2. CASE k \in 1..Len(s) - 1
    <3>1. Node(t, k) = t[k]
      BY <2>2, <1>1, NodeIs
    <3>2. k \in 1..Len(s) /\ k + 1 \in 1..Len(s)
      BY <2>2, <1>0
    <3>3. Node(s, k) = s[k] /\ Node(s, k + 1) = s[k + 1]
      BY <3>2, <1>0, NodeIs
    <3> QED BY <2>2, <3>1, <3>3, <1>1
  <2>3. CASE k = Len(s) /\ k # 0
    <3>1. k = Len(t) + 1 /\ ~(k < p)
      BY <2>3, <1>0, <1>1
    <3> QED BY <2>3, <3>1, <1>0, <1>1, NodeIs
  <2> QED BY <2>1, <2>2, <2>3, <1>0
<1>3. nx[s[p]] = Node(s, p + 1) /\ pv[s[p]] = Node(s, p - 1)
  BY LinksOf
<1>4. Node(s, p + 1) \in Items \cup {QB} /\ Node(s, p - 1) \in Items \cup {QB}
  BY <1>0, NodeIs
<1>5. mx \in [Items \cup {QB} -> Items \cup {QB}] /\ mv \in [Items \cup {QB} -> Items \cup {QB}]
  BY <1>3, <1>4 DEF Linked
<1>6. /\ \A x \in Items \cup {QB} : mx[x] = IF x = Node(s, p - 1) THEN Node(s, p + 1) ELSE nx[x]
      /\ \A x \in Items \cup {QB} : mv[x] = IF x = Node(s, p + 1) THEN Node(s, p - 1) ELSE pv[x]
  BY <1>3, <1>4 DEF Linked
<1> HIDE DEF mx, mv
<1>7. /\ \A k \in 0..Len(s) : nx[Node(s, k)] = Node(s, k + 1) /\ pv[Node(s, k + 1)] = Node(s, k)
      /\ \A k : Node(s, k) \in Items \cup {QB}
  BY <1>0, NodeIs DEF Linked
<1>8. ASSUME NEW k \in 0..Len(s) - 1 PROVE mx[Node(t, k)] = Node(t, k + 1) /\ mv[Node(t, k + 1)] = Node(t, k)
  <2>0. k \in 0..Len(s) /\ k + 1 \in 0..Len(s) /\ p - 1 \in 0..Len(s) /\ p + 1 \in 1..Len(s) + 1
    BY <1>0
  <2>1. CASE k + 1 < p
    <3>1. Node(t, k) = Node(s, k) /\ Node(t, k + 1) = Node(s, k + 1)
      BY <2>0, <2>1, <1>0, <1>2
    <3>2. Node(s, k) # Node(s, p - 1) /\ Node(s, k + 1) # Node(s, p + 1)
      <4>1. k # p - 1 /\ k + 1 # p + 1 /\ k + 1 \in 1..Len(s) + 1
        BY <2>0, <2>1, <1>0
      <4> QED BY <4>1, <2>0, NodesDiffer
    <3> QED BY <3>1, <3>2, <2>0, <1>6, <1>7
  <2>2. CASE k + 1 = p
    <3>1. Node(t, k) = Node(s, p - 1) /\ Node(t, k + 1) = Node(s, p + 1)
      <4>1. k = p - 1 /\ k < p /\ ~(k + 1 < p) /\ (k + 1) + 1 = p + 1
        BY <2>2, <1>0
      <4> QED BY <4>1, <2>0, <1>2
    <3> QED BY <3>1, <1>4, <1>6
  <2>3. CASE k + 1 > p
    <3>1. Node(t, k) = Node(s, k + 1) /\ Node(t, k + 1) = Node(s, (k + 1) + 1)
      <4>1. ~(k < p) /\ ~(k + 1 < p)
        BY <2>3, <1>0
      <4> QED BY <4>1, <2>0, <1>2
    <3>2. Node(s, k + 1) # Node(s, p - 1) /\ Node(s, (k + 1) + 1) # Node(s, p + 1)
      <4>1. k + 1 # p - 1 /\ (k + 1) + 1 # p + 1 /\ (k + 1) + 1 \in 1..Len(s) + 1
        BY <2>0, <2>3, <1>0
      <4> QED BY <4>1, <2>0, NodesDiffer
    <3> QED BY <3>1, <3>2, <2>0, <1>6, <1>7
  <2> QED BY <2>1, <2>2, <2>3, <1>0
<1>9. \A j, k \in 1..Len(t) : t[j] = t[k] => j = k
  <2> SUFFICES ASSUME NEW j \in 1..Len(t), NEW k \in 1..Len(t), t[j] = t[k] PROVE j = k
    OBVIOUS
  <2>1. j \in 1..Len(s) - 1 /\ k \in 1..Len(s) - 1
    BY <1>1
  <2> DEFINE a == IF j < p THEN j ELSE j + 1
  <2> DEFINE b == IF k < p THEN k ELSE k + 1
  <2>2. a \in 1..Len(s) /\ b \in 1..Len(s) /\ t[j] = s[a] /\ t[k] = s[b]
    BY <2>1, <1>0, <1>1
  <2>3. a = b
    BY <2>2 DEF Linked
  <2> QED BY <2>1, <2>3, <1>0
<1>10. Linked(mx, mv, t)
  BY <1>1, <1>5, <1>8, <1>9 DEF Linked
<1>11. Elements(t) = Elements(s) \ {s[p]}
  <2>0. \A j, k \in 1..Len(s) : s[j] = s[k] => j = k
    BY DEF Linked
  <2>1. ASSUME NEW k \in 1..Len(t) PROVE t[k] \in Elements(s) /\ t[k] # s[p]
    <3> DEFINE a == IF k < p THEN k ELSE k + 1
    <3>1. a \in 1..Len(s) /\ t[k] = s[a] /\ a # p
      BY <1>0, <1>1
    <3> QED BY <3>1, <2>0 DEF Elements
  <2>2. ASSUME NEW k \in 1..Len(s), s[k] # s[p] PROVE s[k] \in Elements(t)
    <3> DEFINE a == IF k < p THEN k ELSE k - 1
    <3>1. a \in 1..Len(t) /\ t[a] = s[k]
      <4>1. k # p
        BY <2>2
      <4>2. CASE k < p
        BY <4>2, <1>0, <1>1
      <4>3. CASE k > p
        <5>1. a = k - 1 /\ k - 1 \in 1..Len(s) - 1 /\ ~(k - 1 < p) /\ (k - 1) + 1 = k
          BY <4>3, <1>0
        <5> QED BY <5>1, <1>1
      <4> QED BY <4>1, <4>2, <4>3, <1>0
    <3> QED BY <3>1 DEF Elements
  <2> QED BY <2>1, <2>2 DEF Elements
<1> QED BY <1>10, <1>11 DEF t, mx, mv

(* q_enqueue: behind the element before the block.                         *)
LEMMA EnqueueLinks ==
  ASSUME NEW nx, NEW pv, NEW s, Linked(nx, pv, s), NEW i \in Items, i \notin Elements(s)
  PROVE  /\ Linked([nx EXCEPT ![pv[QB]] = i, ![i] = QB], [pv EXCEPT ![i] = pv[QB], ![QB] = i], Append(s, i))
         /\ Elements(Append(s, i)) = Elements(s) \cup {i}
<1> DEFINE t == Append(s, i)
<1> DEFINE mx == [nx EXCEPT ![pv[QB]] = i, ![i] = QB]
<1> DEFINE mv == [pv EXCEPT ![i] = pv[QB], ![QB] = i]
<1>0. s \in Seq(Items) /\ Len(s) \in Nat /\ i # QB
  BY NodeIs, QueueConstants DEF Linked
<1>1. t \in Seq(Items) /\ Len(t) = Len(s) + 1 /\ (\A k \in 1..Len(s) : t[k] = s[k]) /\ t[Len(s) + 1] = i
  BY <1>0, AppendProperties
<1> HIDE DEF t
<1>2. /\ \A k \in 0..Len(s) : Node(t, k) = Node(s, k)
      /\ Node(t, Len(s) + 1) = i /\ Node(t, (Len(s) + 1) + 1) = QB
  BY <1>0, <1>1 DEF Node
<1>3. pv[QB] = Node(s, Len(s)) /\ Node(s, Len(s)) \in Items \cup {QB} /\ Node(s, Len(s)) # i
  <2>1. Len(s) \in 0..Len(s) /\ Node(s, Len(s) + 1) = QB
    BY <1>0, NodeIs
  <2>2. pv[Node(s, Len(s) + 1)] = Node(s, Len(s))
    BY <2>1 DEF Linked
  <2>3. Node(s, Len(s)) # i
    BY <1>0 DEF Node, Elements
  <2> QED BY <2>1, <2>2, <2>3, <1>0, NodeIs
<1>4. mx \in [Items \cup {QB} -> Items \cup {QB}] /\ mv \in [Items \cup {QB} -> Items \cup {QB}]
  BY <1>3 DEF Linked
<1>5. /\ \A x \in Items \cup {QB} : mx[x] = IF x = i THEN QB ELSE IF x = Node(s, Len(s)) THEN i ELSE nx[x]
      /\ \A x \in Items \cup {QB} : mv[x] = IF x = QB THEN i ELSE IF x = i THEN Node(s, Len(s)) ELSE pv[x]
  BY <1>0, <1>3 DEF Linked
<1> HIDE DEF mx, mv
<1>6. /\ \A k \in 0..Len(s) : nx[Node(s, k)] = Node(s, k + 1) /\ pv[Node(s, k + 1)] = Node(s, k)
      /\ \A k : Node(s, k) \in Items \cup {QB}
      /\ \A k \in 1..Len(s) : Node(s, k) # QB
  BY <1>0, NodeIs DEF Linked
<1>7. \A k \in 0..Len(s) : Node(s, k) # i
  BY <1>0 DEF Node, Elements
<1>8. ASSUME NEW k \in 0..Len(s) + 1 PROVE mx[Node(t, k)] = Node(t, k + 1) /\ mv[Node(t, k + 1)] = Node(t, k)
  <2>1. CASE k < Len(s)
    <3>1. k \in 0..Len(s) /\ k + 1 \in 0..Len(s) /\ k + 1 \in 1..Len(s) /\ Len(s) \in 0..Len(s) /\ k # Len(s)
      BY <2>1, <1>0
    <3>2. Node(t, k) = Node(s, k) /\ Node(t, k + 1) = Node(s, k + 1)
      BY <3>1, <1>2
    <3>3. Node(s, k) # Node(s, Len(s))
      BY <3>1, NodesDiffer
    <3> QED BY <3>1, <3>2, <3>3, <1>5, <1>6, <1>7
  <2>2. CASE k = Len(s)
    <3>1. Node(t, k) = Node(s, Len(s)) /\ Node(t, k + 1) = i
      BY <2>2, <1>0, <1>2
    <3> QED BY <3>1, <1>0, <1>3, <1>5
  <2>3. CASE k = Len(s) + 1
    <3>1. Node(t, k) = i /\ Node(t, k + 1) = QB
      BY <2>3, <1>2
    <3> QED BY <3>1, <1>0, <1>5
  <2> QED BY <2>1, <2>2, <2>3, <1>0
<1>9. \A j, k \in 1..Len(t) : t[j] = t[k] => j = k
  BY <1>0, <1>1 DEF Linked, Elements
<1>10. Linked(mx, mv, t)
  BY <1>1, <1>4, <1>8, <1>9 DEF Linked
<1>11. Elements(t) = Elements(s) \cup {i}
  BY <1>0, <1>1 DEF Elements
<1> QED BY <1>10, <1>11 DEF t, mx, mv

-----------------------------------------------------------------------------
(* The refinement mapping in the terms above, before and after a step.     *)
Mapped ==
  /\ Queue!Along(q_next[QB]) = AlongOf(q_next, q_next[QB])
  /\ Queue!Along(qe) = AlongOf(q_next, qe)
  /\ \A k : Queue!At(k) = Round(q_next)[k]
LEMMA MappedNow == Mapped
BY AlongSame, AtSame DEF Mapped
LEMMA MappedThen == Mapped'
BY MappedNow, PTL

LEMMA SuffixIs ==
  ASSUME NEW nx, NEW pv, NEW s, Linked(nx, pv, s), NEW j \in 1..Len(s) + 1
  PROVE  AlongOf(nx, Node(s, j)) = SubSeq(s, j, Len(s))
<1> DEFINE w == SubSeq(s, j, Len(s))
<1>0. s \in Seq(Items) /\ Len(s) \in Nat /\ \A k \in 1..Len(s) : s[k] \in Items
  BY NodeIs, LenProperties DEF Linked
<1>1. w \in Seq(Items) /\ Len(w) = Len(s) + 1 - j /\ \A k \in 1..Len(s) + 1 - j : w[k] = s[j + k - 1]
  BY <1>0, SubSeqProperties
<1> HIDE DEF w
<1>2. \A k \in 1..(Len(s) + 1 - j) + 1 : Node(w, k) = Node(s, j + k - 1)
  BY <1>0, <1>1 DEF Node
<1>3. Len(w) <= Cardinality(Items)
  <2>1. Len(s) \in 0..Cardinality(Items)
    BY LengthBound
  <2> QED BY <2>1, <1>0, <1>1, QueueConstants
<1>4. ASSUME NEW k \in 1..Len(w) PROVE nx[w[k]] = Node(w, k + 1)
  <2>1. j + k - 1 \in 1..Len(s) /\ (j + k - 1) + 1 = j + (k + 1) - 1 /\ k + 1 \in 1..(Len(s) + 1 - j) + 1
        /\ k \in 1..Len(s) + 1 - j
    BY <1>0, <1>1
  <2>2. nx[s[j + k - 1]] = Node(s, (j + k - 1) + 1)
    BY <2>1, LinksOf
  <2> QED BY <2>1, <2>2, <1>1, <1>2
<1>5. AlongOf(nx, Node(w, 1)) = w
  BY <1>1, <1>3, <1>4, AlongIs
<1>6. Node(w, 1) = Node(s, j)
  <2>1. 1 \in 1..(Len(s) + 1 - j) + 1 /\ j + 1 - 1 = j
    BY <1>0
  <2> QED BY <2>1, <1>2
<1> QED BY <1>5, <1>6 DEF w

(* The mapping of a queue that is s, and of a walk at place j of it.       *)
LEMMA Views ==
  ASSUME NEW nx, NEW pv, NEW s, Linked(nx, pv, s)
  PROVE  /\ AlongOf(nx, nx[QB]) = s /\ AlongOf(nx, QB) = <<>> /\ nx[QB] = Node(s, 1)
         /\ \A j \in 1..Len(s) : AlongOf(nx, s[j]) = SubSeq(s, j, Len(s))
<1>0. s \in Seq(Items) /\ Len(s) \in Nat /\ Node(s, 0) = QB /\ Node(s, Len(s) + 1) = QB
  BY NodeIs DEF Linked
<1>1. nx[QB] = Node(s, 1)
  <2>1. 0 \in 0..Len(s) /\ 0 + 1 = 1
    BY <1>0
  <2> QED BY <2>1, <1>0 DEF Linked
<1>2. SubSeq(s, 1, Len(s)) = s /\ SubSeq(s, Len(s) + 1, Len(s)) = <<>>
  BY <1>0
<1>3. AlongOf(nx, nx[QB]) = s
  <2>1. 1 \in 1..Len(s) + 1
    BY <1>0
  <2> QED BY <2>1, <1>1, <1>2, SuffixIs
<1>4. AlongOf(nx, QB) = <<>>
  <2>1. Len(s) + 1 \in 1..Len(s) + 1
    BY <1>0
  <2> QED BY <2>1, <1>0, <1>2, SuffixIs
<1>5. ASSUME NEW j \in 1..Len(s) PROVE AlongOf(nx, s[j]) = SubSeq(s, j, Len(s))
  <2>1. j \in 1..Len(s) + 1 /\ Node(s, j) = s[j]
    BY <1>0, NodeIs
  <2> QED BY <2>1, SuffixIs
<1> QED BY <1>1, <1>3, <1>4, <1>5

(* The position of an element, and its removal.                            *)
LEMMA PosIs ==
  ASSUME NEW nx, NEW pv, NEW s, Linked(nx, pv, s)
  PROVE  /\ \A j \in 1..Len(s) : Queue!Fifo!Pos(s, s[j]) = j /\ Queue!Fifo!Without(s, s[j]) = Cut(s, j)
         /\ \A i : i \notin Elements(s) => Queue!Fifo!Pos(s, i) = 0
<1>0. Len(s) \in Nat /\ \A j, k \in 1..Len(s) : s[j] = s[k] => j = k
  BY NodeIs DEF Linked
<1>1. ASSUME NEW j \in 1..Len(s) PROVE Queue!Fifo!Pos(s, s[j]) = j
  <2>1. \A k \in 1..Len(s) : s[k] = s[j] <=> k = j
    BY <1>0
  <2>2. (CHOOSE k \in 1..Len(s) : s[k] = s[j]) = j
    BY <2>1
  <2> QED BY <2>1, <2>2 DEF Queue!Fifo!Pos
<1>2. ASSUME NEW j \in 1..Len(s) PROVE Queue!Fifo!Without(s, s[j]) = Cut(s, j)
  <2>1. Queue!Fifo!Pos(s, s[j]) = j /\ j # 0
    BY <1>0, <1>1
  <2> QED BY <2>1 DEF Queue!Fifo!Without, Cut
<1>3. \A i : i \notin Elements(s) => Queue!Fifo!Pos(s, i) = 0
  BY DEF Queue!Fifo!Pos, Elements
<1> QED BY <1>1, <1>2, <1>3

-----------------------------------------------------------------------------
LEMMA SeenNow ==
  ASSUME NEW s, Linked(q_next, q_prev, s)
  PROVE  /\ Queue!Along(q_next[QB]) = s
         /\ qe = QB => Queue!Along(qe) = <<>>
         /\ \A j \in 1..Len(s) : qe = s[j] => Queue!Along(qe) = SubSeq(s, j, Len(s))
BY Views, MappedNow DEF Mapped

LEMMA SeenThen ==
  ASSUME NEW s, Linked(q_next', q_prev', s)
  PROVE  /\ Queue!Along(q_next[QB])' = s
         /\ qe' = QB => Queue!Along(qe)' = <<>>
         /\ \A j \in 1..Len(s) : qe' = s[j] => Queue!Along(qe)' = SubSeq(s, j, Len(s))
<1>1. Queue!Along(q_next[QB])' = AlongOf(q_next', q_next'[QB]) /\ Queue!Along(qe)' = AlongOf(q_next', qe')
  BY MappedThen DEF Mapped, AlongOf, Hops
<1> QED BY <1>1, Views

LEMMA Rebuilt ==
  ASSUME NEW s, Linked(q_next', q_prev', s), on' = Elements(s), qe' \in on' \cup {QB}
  PROVE  QueueInv'
BY DEF QueueInv

LEMMA FifoEnqueue ==
  ASSUME QueueInv, NEW i \in Items, Queue!Enqueue(i)
  PROVE  QueueInv' /\ Queue!Fifo!Next
<1>1. PICK s : Linked(q_next, q_prev, s) /\ on = Elements(s)
  BY DEF QueueInv
<1>2. /\ qe = QB /\ qe' = QB /\ i \notin on /\ on' = on \cup {i} /\ res' = NULL
      /\ q_next' = [q_next EXCEPT ![q_prev[QB]] = i, ![i] = QB]
      /\ q_prev' = [q_prev EXCEPT ![i] = q_prev[QB], ![QB] = i]
  BY DEF Queue!Enqueue, Queue!Tail1
<1>3. Linked(q_next', q_prev', Append(s, i)) /\ on' = Elements(Append(s, i))
  <2>1. i \notin Elements(s)
    BY <1>1, <1>2
  <2>2. /\ Linked([q_next EXCEPT ![q_prev[QB]] = i, ![i] = QB], [q_prev EXCEPT ![i] = q_prev[QB], ![QB] = i], Append(s, i))
        /\ Elements(Append(s, i)) = Elements(s) \cup {i}
    BY <1>1, <2>1, EnqueueLinks
  <2> QED BY <1>1, <1>2, <2>2
<1>4. QueueInv'
  BY <1>2, <1>3, Rebuilt
<1>5. /\ Queue!Along(q_next[QB]) = s /\ Queue!Along(qe) = <<>>
      /\ Queue!Along(q_next[QB])' = Append(s, i) /\ Queue!Along(qe)' = <<>>
  BY <1>1, <1>2, <1>3, SeenNow, SeenThen
<1>6. Queue!Fifo!Pos(s, i) = 0
  BY <1>1, <1>2, PosIs
<1> QED BY <1>2, <1>4, <1>5, <1>6 DEF Queue!Fifo!Next, Queue!Fifo!Enqueue

LEMMA FifoDequeue ==
  ASSUME QueueInv, NEW i \in Items, Queue!Dequeue(i)
  PROVE  QueueInv' /\ Queue!Fifo!Next
<1>1. PICK s : Linked(q_next, q_prev, s) /\ on = Elements(s)
  BY DEF QueueInv
<1>2. PICK p \in 1..Len(s) : i = s[p]
  BY <1>1 DEF Queue!Dequeue, Elements
<1>3. /\ qe = QB /\ qe' = QB /\ on' = on \ {s[p]} /\ res' = NULL
      /\ q_next' = [q_next EXCEPT ![q_prev[s[p]]] = q_next[s[p]]]
      /\ q_prev' = [q_prev EXCEPT ![q_next[s[p]]] = q_prev[s[p]]]
  BY <1>2 DEF Queue!Dequeue, Queue!Unlink
<1>4. Linked(q_next', q_prev', Cut(s, p)) /\ on' = Elements(Cut(s, p))
  <2>1. /\ Linked([q_next EXCEPT ![q_prev[s[p]]] = q_next[s[p]]], [q_prev EXCEPT ![q_next[s[p]]] = q_prev[s[p]]], Cut(s, p))
        /\ Elements(Cut(s, p)) = Elements(s) \ {s[p]}
    BY <1>1, UnlinkLinks
  <2> QED BY <1>1, <1>3, <2>1
<1>5. QueueInv'
  BY <1>3, <1>4, Rebuilt
<1>6. /\ Queue!Along(q_next[QB]) = s /\ Queue!Along(qe) = <<>>
      /\ Queue!Along(q_next[QB])' = Cut(s, p) /\ Queue!Along(qe)' = <<>>
  BY <1>1, <1>3, <1>4, SeenNow, SeenThen
<1>7. Queue!Fifo!Pos(s, i) # 0 /\ Queue!Fifo!Without(s, i) = Cut(s, p)
  BY <1>1, <1>2, PosIs
<1> QED BY <1>3, <1>5, <1>6, <1>7 DEF Queue!Fifo!Next, Queue!Fifo!Dequeue

LEMMA CutFirst ==
  ASSUME NEW S, NEW s \in Seq(S), s # <<>>
  PROVE  Cut(s, 1) = Tail(s) /\ Len(s) \in Nat \ {0}
<1>1. Len(s) \in Nat /\ Len(s) # 0 /\ 1 \in 1..Len(s)
  BY LenProperties, EmptySeq
<1>2. Cut(s, 1) \in Seq(S) /\ Len(Cut(s, 1)) = Len(s) - 1 /\ \A k \in 1..Len(s) - 1 : Cut(s, 1)[k] = s[k + 1]
  BY <1>1, CutIs
<1>3. Tail(s) \in Seq(S) /\ Len(Tail(s)) = Len(s) - 1 /\ \A k \in 1..Len(s) - 1 : Tail(s)[k] = s[k + 1]
  BY <1>1, HeadTailProperties
<1> QED BY <1>1, <1>2, <1>3, SeqEqual

LEMMA FifoDeqnext ==
  ASSUME QueueInv, Queue!Deqnext
  PROVE  QueueInv' /\ Queue!Fifo!Next
<1>1. PICK s : Linked(q_next, q_prev, s) /\ on = Elements(s)
  BY DEF QueueInv
<1>2. s \in Seq(Items) /\ Len(s) \in Nat /\ q_next[QB] = Node(s, 1)
  BY <1>1, Views, NodeIs DEF Linked
<1>3. qe = QB /\ qe' = QB /\ Queue!Along(q_next[QB]) = s /\ Queue!Along(qe) = <<>>
  BY <1>1, SeenNow DEF Queue!Deqnext
<1>4. CASE s = <<>>
  <2>1. q_next[QB] = QB
    BY <1>2, <1>4 DEF Node
  <2>2. res' = NULL /\ q_next' = q_next /\ q_prev' = q_prev /\ on' = on
    BY <2>1 DEF Queue!Deqnext
  <2>3. Queue!Along(q_next[QB])' = s /\ Queue!Along(qe)' = <<>>
    BY <1>1, <1>3, <2>2, SeenThen
  <2>4. QueueInv'
    BY <1>1, <1>3, <2>2, Rebuilt
  <2> QED BY <1>3, <1>4, <2>2, <2>3, <2>4 DEF Queue!Fifo!Next, Queue!Fifo!Deqnext
<1>5. CASE s # <<>>
  <2>1. 1 \in 1..Len(s) /\ Cut(s, 1) = Tail(s) /\ Head(s) = s[1]
    BY <1>2, <1>5, CutFirst
  <2>2. q_next[QB] = s[1] /\ s[1] # QB
    BY <1>2, <2>1, NodeIs
  <2>3. /\ res' = s[1] /\ on' = on \ {s[1]}
        /\ q_next' = [q_next EXCEPT ![q_prev[s[1]]] = q_next[s[1]]]
        /\ q_prev' = [q_prev EXCEPT ![q_next[s[1]]] = q_prev[s[1]]]
    BY <2>2 DEF Queue!Deqnext, Queue!Unlink
  <2>4. Linked(q_next', q_prev', Cut(s, 1)) /\ on' = Elements(Cut(s, 1))
    <3>1. /\ Linked([q_next EXCEPT ![q_prev[s[1]]] = q_next[s[1]]], [q_prev EXCEPT ![q_next[s[1]]] = q_prev[s[1]]], Cut(s, 1))
          /\ Elements(Cut(s, 1)) = Elements(s) \ {s[1]}
      BY <1>1, <2>1, UnlinkLinks
    <3> QED BY <1>1, <2>3, <3>1
  <2>5. Queue!Along(q_next[QB])' = Tail(s) /\ Queue!Along(qe)' = <<>>
    BY <1>3, <2>1, <2>4, SeenThen
  <2>6. QueueInv'
    BY <1>3, <2>4, Rebuilt
  <2> QED BY <1>3, <1>5, <2>1, <2>3, <2>5, <2>6 DEF Queue!Fifo!Next, Queue!Fifo!Deqnext
<1> QED BY <1>4, <1>5

LEMMA LeastIs ==
  ASSUME NEW S, S \subseteq Nat, NEW m \in S, \A j \in S : m <= j
  PROVE  Queue!Walk(S) = m
<1>1. \A k \in S : (\A j \in S : k <= j) => k = m
  OBVIOUS
<1> QED BY <1>1 DEF Queue!Walk

LEMMA FifoCount ==
  ASSUME QueueInv, Queue!Count
  PROVE  QueueInv' /\ Queue!Fifo!Next
<1>1. PICK s : Linked(q_next, q_prev, s) /\ on = Elements(s)
  BY DEF QueueInv
<1>2. s \in Seq(Items) /\ Len(s) \in 0..Cardinality(Items) /\ Len(s) \in Nat /\ Cardinality(Items) \in Nat
  <2>1. Len(s) \in 0..Cardinality(Items)
    BY <1>1, LengthBound
  <2>2. s \in Seq(Items)
    BY <1>1 DEF Linked
  <2> QED BY <2>1, <2>2, QueueConstants
<1>3. /\ qe = QB /\ qe' = QB /\ q_next' = q_next /\ q_prev' = q_prev /\ on' = on
      /\ res' = Queue!Walk({k \in 0..Queue!Cardinality(Items) : Queue!At(k + 1) = QB})
  BY DEF Queue!Count
<1>4. \A j \in 0..Len(s) + 1 : Queue!At(j) = Node(s, j)
  BY <1>1, RoundIs, MappedNow DEF Mapped
<1> DEFINE S == {k \in 0..Queue!Cardinality(Items) : Queue!At(k + 1) = QB}
<1>5. Len(s) \in S /\ \A k \in S : Len(s) <= k
  <2>1. Queue!At(Len(s) + 1) = QB
    BY <1>2, <1>4, NodeIs
  <2>2. ASSUME NEW k \in S, k < Len(s) PROVE FALSE
    <3>1. k + 1 \in 1..Len(s) /\ k + 1 \in 0..Len(s) + 1 /\ Queue!At(k + 1) = QB
      BY <2>2, <1>2, SameCard
    <3> QED BY <3>1, <1>2, <1>4, NodeIs
  <2>3. Len(s) \in S
    BY <2>1, <1>2, SameCard
  <2>4. \A k \in S : k \in Nat
    BY SameCard
  <2> QED BY <2>2, <2>3, <2>4, <1>2
<1>6. S \subseteq Nat
  BY SameCard
<1>7. res' = Len(s)
  <2> HIDE DEF S
  <2>1. Queue!Walk(S) = Len(s)
    BY <1>5, <1>6, LeastIs
  <2> QED BY <2>1, <1>3 DEF S
<1>8. /\ Queue!Along(q_next[QB]) = s /\ Queue!Along(qe) = <<>>
      /\ Queue!Along(q_next[QB])' = s /\ Queue!Along(qe)' = <<>>
  BY <1>1, <1>3, SeenNow, SeenThen
<1>9. QueueInv'
  BY <1>1, <1>3, Rebuilt
<1> QED BY <1>7, <1>8, <1>9 DEF Queue!Fifo!Next, Queue!Fifo!Count

LEMMA FifoFind ==
  ASSUME QueueInv, NEW i \in Items, Queue!Find(i)
  PROVE  QueueInv' /\ Queue!Fifo!Next
<1>1. PICK s : Linked(q_next, q_prev, s) /\ on = Elements(s)
  BY DEF QueueInv
<1>2. s \in Seq(Items) /\ Len(s) \in 0..Cardinality(Items) /\ Len(s) \in Nat /\ Cardinality(Items) \in Nat /\ i # QB
  <2>1. Len(s) \in 0..Cardinality(Items)
    BY <1>1, LengthBound
  <2>2. s \in Seq(Items)
    BY <1>1 DEF Linked
  <2> QED BY <2>1, <2>2, QueueConstants
<1> DEFINE S == {k \in 1..Queue!Cardinality(Items) + 1 : Queue!At(k) \in {i, QB}}
<1>3. /\ qe = QB /\ qe' = QB /\ q_next' = q_next /\ q_prev' = q_prev /\ on' = on
      /\ res' = IF Queue!At(Queue!Walk(S)) = i THEN Queue!Walk(S) ELSE 0
  BY DEF Queue!Find
<1>4. \A j \in 0..Len(s) + 1 : Queue!At(j) = Node(s, j)
  BY <1>1, RoundIs, MappedNow DEF Mapped
<1>5. S \subseteq Nat
  BY SameCard
<1>6. \A k \in S : k \in Nat /\ k >= 1 /\ Queue!At(k) \in {i, QB}
  BY <1>2, SameCard
<1>7. \A k \in 1..Len(s) + 1 : Queue!At(k) \in {i, QB} => k \in S
  BY <1>2, SameCard
<1> HIDE DEF S
<1>8. res' = Queue!Fifo!Pos(s, i)
  <2>1. CASE i \in Elements(s)
    <3>1. PICK p \in 1..Len(s) : i = s[p]
      BY <2>1 DEF Elements
    <3>2. Queue!At(p) = i /\ p \in 1..Len(s) + 1 /\ p \in S
      <4>1. p \in 0..Len(s) + 1 /\ Node(s, p) = i /\ p \in 1..Len(s) + 1
        BY <3>1, <1>2, NodeIs
      <4> QED BY <4>1, <1>4, <1>7
    <3>3. ASSUME NEW k \in S PROVE p <= k
      <4>1. ASSUME k < p PROVE FALSE
        <5>1. k \in 1..Len(s) /\ k \in 0..Len(s) + 1 /\ Queue!At(k) \in {i, QB}
          BY <4>1, <3>3, <1>2, <1>6
        <5>2. Node(s, k) = s[p] /\ Node(s, k) = s[k]
          BY <5>1, <3>1, <1>2, <1>4, NodeIs
        <5>3. \A x, y \in 1..Len(s) : s[x] = s[y] => x = y
          BY <1>1 DEF Linked
        <5>4. s[k] = s[p] /\ k \in 1..Len(s) /\ p \in 1..Len(s)
          BY <5>1, <5>2
        <5>5. k = p
          BY <5>3, <5>4
        <5> QED BY <5>5, <4>1, <3>1, <1>2
      <4> QED BY <4>1, <3>3, <1>2, <1>6
    <3>4. Queue!Walk(S) = p
      BY <1>5, <3>2, <3>3, LeastIs
    <3> QED BY <3>1, <3>2, <3>4, <1>1, <1>3, PosIs
  <2>2. CASE i \notin Elements(s)
    <3>1. Queue!At(Len(s) + 1) = QB /\ Len(s) + 1 \in S
      <4>1. Len(s) + 1 \in 0..Len(s) + 1 /\ Node(s, Len(s) + 1) = QB /\ Len(s) + 1 \in 1..Len(s) + 1
        BY <1>2, NodeIs
      <4> QED BY <4>1, <1>4, <1>7
    <3>2. ASSUME NEW k \in S PROVE Len(s) + 1 <= k
      <4>1. ASSUME k < Len(s) + 1 PROVE FALSE
        <5>1. k \in 1..Len(s) /\ k \in 0..Len(s) + 1 /\ Queue!At(k) \in {i, QB}
          BY <4>1, <3>2, <1>2, <1>6
        <5>2. Node(s, k) = s[k] /\ Node(s, k) # QB /\ s[k] = i
          BY <5>1, <1>2, <1>4, NodeIs
        <5> QED BY <5>1, <5>2, <2>2 DEF Elements
      <4> QED BY <4>1, <3>2, <1>2, <1>6
    <3>3. Queue!Walk(S) = Len(s) + 1
      BY <1>5, <3>1, <3>2, LeastIs
    <3> QED BY <2>2, <3>1, <3>3, <1>1, <1>2, <1>3, PosIs
  <2> QED BY <2>1, <2>2
<1>9. /\ Queue!Along(q_next[QB]) = s /\ Queue!Along(qe) = <<>>
      /\ Queue!Along(q_next[QB])' = s /\ Queue!Along(qe)' = <<>>
  BY <1>1, <1>3, SeenNow, SeenThen
<1>10. QueueInv'
  BY <1>1, <1>3, Rebuilt
<1> QED BY <1>8, <1>9, <1>10 DEF Queue!Fifo!Next, Queue!Fifo!Find

LEMMA FifoMap ==
  ASSUME QueueInv, Queue!Map
  PROVE  QueueInv' /\ Queue!Fifo!Next
<1>1. PICK s : Linked(q_next, q_prev, s) /\ on = Elements(s)
  BY DEF QueueInv
<1>2. s \in Seq(Items) /\ Len(s) \in Nat /\ q_next[QB] = Node(s, 1)
  BY <1>1, Views, NodeIs DEF Linked
<1>3. qe = QB /\ qe' = Node(s, 1) /\ res' = NULL /\ q_next' = q_next /\ q_prev' = q_prev /\ on' = on
  BY <1>2 DEF Queue!Map
<1>4. /\ Queue!Along(q_next[QB]) = s /\ Queue!Along(qe) = <<>>
      /\ Queue!Along(q_next[QB])' = s /\ Queue!Along(qe)' = s
  <2>1. Queue!Along(q_next[QB]) = s /\ Queue!Along(qe) = <<>> /\ Queue!Along(q_next[QB])' = s
    BY <1>1, <1>3, SeenNow, SeenThen
  <2>2. CASE s = <<>>
    <3>1. qe' = QB
      BY <1>2, <1>3, <2>2 DEF Node
    <3> QED BY <1>1, <1>3, <2>1, <2>2, <3>1, SeenThen
  <2>3. CASE s # <<>>
    <3>1. 1 \in 1..Len(s) /\ SubSeq(s, 1, Len(s)) = s
      BY <1>2, <2>3, EmptySeq
    <3>2. qe' = s[1]
      BY <1>2, <1>3, <3>1, NodeIs
    <3> QED BY <1>1, <1>3, <2>1, <3>1, <3>2, SeenThen
  <2> QED BY <2>2, <2>3
<1>5. QueueInv'
  <2>1. qe' \in on' \cup {QB}
    BY <1>1, <1>2, <1>3 DEF Node, Elements
  <2> QED BY <1>1, <1>3, <2>1, Rebuilt
<1> QED BY <1>3, <1>4, <1>5 DEF Queue!Fifo!Next, Queue!Fifo!Map

(* What a walk has still before it behind place j, with and without the    *)
(* element at j.                                                           *)
LEMMA Rests ==
  ASSUME NEW S, NEW s \in Seq(S), NEW j \in 1..Len(s)
  PROVE  /\ SubSeq(s, j, Len(s)) # <<>> /\ Head(SubSeq(s, j, Len(s))) = s[j]
         /\ Tail(SubSeq(s, j, Len(s))) = SubSeq(s, j + 1, Len(s))
         /\ SubSeq(Cut(s, j), j, Len(Cut(s, j))) = SubSeq(s, j + 1, Len(s))
         /\ j = Len(s) => SubSeq(s, j + 1, Len(s)) = <<>>
<1>0. Len(s) \in Nat /\ j \in Nat /\ \A k \in 1..Len(s) : s[k] \in S
  BY LenProperties
<1> DEFINE w == SubSeq(s, j, Len(s))
<1> DEFINE v == SubSeq(s, j + 1, Len(s))
<1> DEFINE c == Cut(s, j)
<1> DEFINE u == SubSeq(c, j, Len(c))
<1>1. w \in Seq(S) /\ Len(w) = Len(s) + 1 - j /\ \A k \in 1..Len(s) + 1 - j : w[k] = s[j + k - 1]
  BY <1>0, SubSeqProperties
<1>2. v \in Seq(S) /\ Len(v) = Len(s) - j /\ \A k \in 1..Len(s) - j : v[k] = s[j + k]
  BY <1>0, SubSeqProperties
<1>3. c \in Seq(S) /\ Len(c) = Len(s) - 1 /\ \A k \in 1..Len(s) - 1 : c[k] = IF k < j THEN s[k] ELSE s[k + 1]
  BY <1>0, CutIs
<1> HIDE DEF c
<1>4. u \in Seq(S) /\ Len(u) = Len(s) - j /\ \A k \in 1..Len(s) - j : u[k] = c[j + k - 1]
  <2>1. \A k \in 1..Len(c) : c[k] \in S
    BY <1>3, LenProperties
  <2> QED BY <1>0, <1>3, <2>1, SubSeqProperties
<1> HIDE DEF w, v, u
<1>5. w # <<>> /\ Head(w) = s[j]
  <2>1. Len(w) # 0 /\ 1 \in 1..Len(s) + 1 - j /\ j + 1 - 1 = j
    BY <1>0, <1>1
  <2> QED BY <2>1, <1>1
<1>6. Tail(w) = v
  <2>1. Tail(w) \in Seq(S) /\ Len(Tail(w)) = Len(s) - j /\ \A k \in 1..Len(s) - j : Tail(w)[k] = s[j + k]
    <3>1. Tail(w) \in Seq(S) /\ Len(Tail(w)) = Len(w) - 1 /\ \A k \in 1..Len(Tail(w)) : Tail(w)[k] = w[k + 1]
      BY <1>1, <1>5, HeadTailProperties
    <3>2. ASSUME NEW k \in 1..Len(s) - j PROVE Tail(w)[k] = s[j + k]
      <4>1. k \in 1..Len(Tail(w)) /\ k + 1 \in 1..Len(s) + 1 - j /\ j + (k + 1) - 1 = j + k
        BY <3>1, <1>0, <1>1
      <4> QED BY <4>1, <3>1, <1>1
    <3> QED BY <3>1, <3>2, <1>0, <1>1
  <2> QED BY <2>1, <1>2, SeqEqual
<1>7. u = v
  <2>1. ASSUME NEW k \in 1..Len(s) - j PROVE u[k] = s[j + k]
    <3>1. j + k - 1 \in 1..Len(s) - 1 /\ ~(j + k - 1 < j) /\ (j + k - 1) + 1 = j + k
      BY <1>0
    <3> QED BY <3>1, <1>3, <1>4
  <2> QED BY <2>1, <1>2, <1>4, SeqEqual
<1>8. ASSUME j = Len(s) PROVE v = <<>>
  BY <1>8, <1>0, <1>2, EmptySeq
<1> QED BY <1>5, <1>6, <1>7, <1>8 DEF w, v, u, c

LEMMA FifoVisit ==
  ASSUME QueueInv, Queue!Visit
  PROVE  QueueInv' /\ Queue!Fifo!Next
<1>1. PICK s : Linked(q_next, q_prev, s) /\ on = Elements(s)
  BY DEF QueueInv
<1>2. s \in Seq(Items) /\ Len(s) \in Nat
  BY <1>1, NodeIs DEF Linked
<1>3. PICK j \in 1..Len(s) : qe = s[j]
  BY <1>1 DEF QueueInv, Queue!Visit, Elements
<1>4. q_next[qe] = Node(s, j + 1) /\ res' = s[j] /\ qe' \in {Node(s, j + 1), QB}
  BY <1>1, <1>3, LinksOf DEF Queue!Visit
<1> DEFINE w == SubSeq(s, j, Len(s))
<1> DEFINE v == SubSeq(s, j + 1, Len(s))
<1>5. w # <<>> /\ Head(w) = s[j] /\ Tail(w) = v /\ (j = Len(s) => v = <<>>)
      /\ SubSeq(Cut(s, j), j, Len(Cut(s, j))) = v
  BY <1>2, Rests
<1> HIDE DEF w, v
<1>6. Queue!Along(q_next[QB]) = s /\ Queue!Along(qe) = w
  BY <1>1, <1>3, SeenNow DEF w
<1>7. Queue!Fifo!Without(s, s[j]) = Cut(s, j)
  BY <1>1, PosIs
<1>8. CASE UNCHANGED <<q_next, q_prev, on>>
  <2>1. q_next' = q_next /\ q_prev' = q_prev /\ on' = on
    BY <1>8
  <2>2. Queue!Along(q_next[QB])' = s
    BY <1>1, <2>1, SeenThen
  <2>3. Queue!Along(qe)' \in {v, <<>>} /\ qe' \in on' \cup {QB}
    <3>1. CASE qe' = QB
      BY <1>1, <2>1, <3>1, SeenThen
    <3>2. CASE qe' = Node(s, j + 1) /\ j # Len(s)
      <4>1. j + 1 \in 1..Len(s) /\ qe' = s[j + 1]
        BY <3>2, <1>2, NodeIs
      <4> QED BY <4>1, <1>1, <2>1, SeenThen DEF v, Elements
    <3>3. CASE qe' = Node(s, j + 1) /\ j = Len(s)
      <4>1. qe' = QB
        BY <3>3, <1>2, NodeIs
      <4> QED BY <4>1, <1>1, <2>1, SeenThen
    <3> QED BY <3>1, <3>2, <3>3, <1>4
  <2>4. QueueInv'
    BY <1>1, <2>1, <2>3, Rebuilt
  <2> QED BY <1>4, <1>5, <1>6, <2>2, <2>3, <2>4 DEF Queue!Fifo!Next, Queue!Fifo!Visit
<1>9. CASE Queue!Unlink(qe)
  <2> DEFINE t == Cut(s, j)
  <2>1. Linked(q_next', q_prev', t) /\ on' = Elements(t)
    <3>1. /\ Linked([q_next EXCEPT ![q_prev[s[j]]] = q_next[s[j]]], [q_prev EXCEPT ![q_next[s[j]]] = q_prev[s[j]]], t)
          /\ Elements(t) = Elements(s) \ {s[j]}
      BY <1>1, UnlinkLinks
    <3> QED BY <3>1, <1>1, <1>3, <1>9 DEF Queue!Unlink
  <2>2. t \in Seq(Items) /\ Len(t) = Len(s) - 1 /\ \A k \in 1..Len(s) - 1 : t[k] = IF k < j THEN s[k] ELSE s[k + 1]
    BY <1>2, CutIs
  <2> HIDE DEF t
  <2>3. Queue!Along(q_next[QB])' = t
    BY <2>1, SeenThen
  <2>4. Queue!Along(qe)' \in {v, <<>>} /\ qe' \in on' \cup {QB}
    <3>1. CASE qe' = QB
      BY <2>1, <3>1, SeenThen
    <3>2. CASE qe' = Node(s, j + 1) /\ j # Len(s)
      <4>1. j \in 1..Len(s) - 1 /\ j + 1 \in 1..Len(s) /\ ~(j < j)
        BY <3>2, <1>2
      <4>2. qe' = t[j] /\ j \in 1..Len(t)
        BY <4>1, <3>2, <1>2, <2>2, NodeIs
      <4>3. Queue!Along(qe)' = SubSeq(t, j, Len(t))
        BY <4>2, <2>1, SeenThen
      <4> QED BY <4>2, <4>3, <2>1, <1>5 DEF t, Elements
    <3>3. CASE qe' = Node(s, j + 1) /\ j = Len(s)
      <4>1. qe' = QB
        BY <3>3, <1>2, NodeIs
      <4> QED BY <4>1, <2>1, SeenThen
    <3> QED BY <3>1, <3>2, <3>3, <1>4
  <2>5. QueueInv'
    BY <2>1, <2>4, Rebuilt
  <2> QED BY <1>4, <1>5, <1>6, <1>7, <2>3, <2>4, <2>5 DEF t, Queue!Fifo!Next, Queue!Fifo!Visit
<1> QED BY <1>8, <1>9 DEF Queue!Visit

LEMMA QueueStep ==
  ASSUME QueueInv, [Queue!Next]_(Queue!vars)
  PROVE  QueueInv' /\ [Queue!Fifo!Next]_(Queue!Fifo!vars)
<1>1. CASE Queue!Next
  BY <1>1, FifoEnqueue, FifoDequeue, FifoDeqnext, FifoCount, FifoFind, FifoMap, FifoVisit DEF Queue!Next
<1>2. CASE UNCHANGED Queue!vars
  <2>1. q_next' = q_next /\ q_prev' = q_prev /\ on' = on /\ qe' = qe /\ res' = res
    BY <1>2 DEF Queue!vars
  <2>2. QueueInv'
    BY <2>1 DEF QueueInv
  <2>3. Queue!Along(q_next[QB])' = Queue!Along(q_next[QB]) /\ Queue!Along(qe)' = Queue!Along(qe)
    BY <2>1, MappedNow, MappedThen DEF Mapped, AlongOf, Hops
  <2> QED BY <2>1, <2>2, <2>3 DEF Queue!Fifo!vars
<1> QED BY <1>1, <1>2

LEMMA QueueInit ==
  ASSUME Queue!Init
  PROVE  QueueInv /\ Queue!Fifo!Init
<1>1. /\ q_next = [i \in Items \cup {QB} |-> QB] /\ q_prev = [i \in Items \cup {QB} |-> QB]
      /\ on = {} /\ qe = QB /\ res = NULL
  BY DEF Queue!Init
<1>2. Linked(q_next, q_prev, <<>>) /\ on = Elements(<<>>)
  BY <1>1 DEF Linked, Node, Elements
<1>3. QueueInv
  BY <1>1, <1>2 DEF QueueInv
<1>4. Queue!Along(q_next[QB]) = <<>> /\ Queue!Along(qe) = <<>>
  BY <1>1, <1>2, SeenNow
<1> QED BY <1>1, <1>3, <1>4 DEF Queue!Fifo!Init

-----------------------------------------------------------------------------
LEMMA StoreConstants ==
  /\ MaxTuples \in Nat /\ Space \in 0..MaxTuples /\ NULL \notin Values /\ NULL \notin Addresses /\ NULL \notin Records
  /\ IsFiniteSet(Names) /\ Cardinality(Names) \in Nat /\ DOMAIN Hash = Names
  /\ \A w \in Names : Hash[w] \in 0..Cardinality(Names) /\ Hash[w] \in Store!Buckets
  /\ \A h \in Store!Buckets : h \in 0..Cardinality(Names)
  /\ Store!Tuples = Addresses
<1>1. Store!NvramAssumption
  BY PartsAssumption
<1>2. \A S : Store!IsFiniteSet(S) = IsFiniteSet(S) /\ Store!Cardinality(S) = Cardinality(S)
  BY DEF Store!IsFiniteSet, IsFiniteSet, Store!Cardinality, Cardinality
<1>3. IsFiniteSet(Names)
  BY <1>1, <1>2 DEF Store!NvramAssumption
<1>4. Cardinality(Names) \in Nat
  BY <1>3, FS_CardinalityType
<1>5. \A w \in Names : Hash[w] \in 0..Cardinality(Names)
  BY <1>1, <1>2 DEF Store!NvramAssumption
<1> QED BY <1>1, <1>3, <1>4, <1>5 DEF Store!NvramAssumption, Addresses, Records, Store!Tuples, Store!Buckets

LEMMA ListsAre ==
  /\ Pending \in Chains /\ Pending \notin Store!Buckets /\ Store!Buckets \subseteq Chains
  /\ \A l \in Chains : l # Pending => l \in Store!Buckets
<1>1. Cardinality(Names) \in Nat /\ \A g \in Store!Buckets : g \in 0..Cardinality(Names)
  BY StoreConstants
<1>2. Pending \notin Store!Buckets
  BY <1>1 DEF Pending
<1> QED BY <1>2 DEF Chains

LEMMA CardStore == \A S : Store!Cardinality(S) = Cardinality(S)
BY DEF Store!Cardinality, Cardinality

LEMMA NthIs ==
  ASSUME NEW s \in Seq(Addresses)
  PROVE  /\ \A k \in 1..Len(s) : Nth(s, k) = s[k] /\ s[k] \in Addresses /\ s[k] # NULL
         /\ \A k \in Nat : k > Len(s) => Nth(s, k) = NULL
         /\ \A k : Nth(s, k) \in Addresses \cup {NULL}
         /\ Len(s) \in Nat
<1>1. Len(s) \in Nat /\ \A k \in 1..Len(s) : s[k] \in Addresses
  BY LenProperties
<1> QED BY <1>1, StoreConstants DEF Nth

LEMMA PathBound ==
  ASSUME NEW nx, NEW p, NEW s, Path(nx, p, s)
  PROVE  Len(s) \in 0..MaxTuples
<1>1. Len(s) \in Nat /\ s \in [1..Len(s) -> Addresses]
  BY LenProperties DEF Path
<1>2. s \in Injection(1..Len(s), Addresses)
  BY <1>1 DEF Path, Injection, IsInjective
<1>0. MaxTuples \in Nat /\ 1 \in Int
  BY StoreConstants
<1>3. IsFiniteSet(Addresses) /\ Cardinality(Addresses) = MaxTuples
  <2>1. IsFiniteSet(1..MaxTuples) /\ Cardinality(1..MaxTuples) = IF 1 > MaxTuples THEN 0 ELSE MaxTuples - 1 + 1
    BY <1>0, FS_Interval
  <2> QED BY <2>1, <1>0 DEF Addresses
<1>4. Cardinality(1..Len(s)) <= Cardinality(Addresses)
  BY <1>2, <1>3, FS_Injection
<1>5. Cardinality(1..Len(s)) = Len(s)
  BY <1>1, FS_Interval
<1> QED BY <1>0, <1>1, <1>3, <1>4, <1>5

(* The walk of List, along the links nx.                                   *)
Walked(nx, p) == CHOOSE at1 : at1 = [k \in 1..MaxTuples |-> IF k = 1 THEN p ELSE
                    [t \in Addresses \cup {NULL} |-> IF t = NULL THEN NULL ELSE nx[t]][at1[k - 1]]]
ListOf(nx, p) == [k \in 1..Cardinality({j \in Addresses : Walked(nx, p)[j] # NULL}) |-> Walked(nx, p)[k]]
LEMMA ListSame == \A p : Store!List(p) = ListOf(next, p)
<1> TAKE p
<1> DEFINE h == CHOOSE at1 : at1 = [k \in 1..MaxTuples |-> IF k = 1 THEN p ELSE Store!After[at1[k - 1]]]
<1>1. Store!List(p) = [k \in 1..Store!Cardinality({j \in Store!Tuples : h[j] # NULL}) |-> h[k]]
  BY DEF Store!List
<1>2. Store!After = [t \in Addresses \cup {NULL} |-> IF t = NULL THEN NULL ELSE next[t]]
  BY DEF Store!After, Store!Tuples, Addresses
<1>3. h = Walked(next, p)
  BY <1>2 DEF Walked
<1> HIDE DEF h
<1>4. Store!Cardinality({j \in Store!Tuples : h[j] # NULL}) = Cardinality({j \in Addresses : h[j] # NULL})
  BY StoreConstants, CardStore
<1> QED BY <1>1, <1>3, <1>4 DEF ListOf

LEMMA ListIs ==
  ASSUME NEW nx, NEW p, NEW s, Path(nx, p, s)
  PROVE  ListOf(nx, p) = s
<1> DEFINE C == MaxTuples
<1> DEFINE Af == [t \in Addresses \cup {NULL} |-> IF t = NULL THEN NULL ELSE nx[t]]
<1> DEFINE Eq(f) == f = [k \in 1..C |-> IF k = 1 THEN p ELSE Af[f[k - 1]]]
<1> DEFINE g == [k \in 1..C |-> Nth(s, k)]
<1>0. C \in Nat /\ Len(s) \in Nat /\ Len(s) <= C /\ s \in Seq(Addresses) /\ p = Nth(s, 1) /\ 1..C = Addresses
  <2>1. Len(s) \in 0..MaxTuples
    BY PathBound
  <2> QED BY <2>1, StoreConstants DEF Path, Addresses
<1>1. ASSUME NEW k \in 1..C PROVE Nth(s, k + 1) = Af[Nth(s, k)]
  <2>1. CASE k <= Len(s)
    <3>1. k \in 1..Len(s) /\ Nth(s, k) = s[k] /\ s[k] \in Addresses /\ s[k] # NULL
      BY <2>1, <1>0, NthIs
    <3>2. nx[s[k]] = Nth(s, k + 1)
      BY <3>1 DEF Path
    <3> QED BY <3>1, <3>2
  <2>2. CASE ~(k <= Len(s))
    <3>1. k \in Nat /\ k > Len(s) /\ k + 1 \in Nat /\ k + 1 > Len(s)
      BY <2>2, <1>0
    <3>2. Nth(s, k) = NULL /\ Nth(s, k + 1) = NULL
      BY <3>1, <1>0, NthIs
    <3> QED BY <3>2
  <2> QED BY <2>1, <2>2
<1> HIDE DEF C, Af
<1>2. Eq(g)
  <2>1. ASSUME NEW k \in 1..C PROVE g[k] = IF k = 1 THEN p ELSE Af[g[k - 1]]
    <3>1. CASE k = 1
      BY <3>1, <1>0
    <3>2. CASE k # 1
      <4>1. k - 1 \in 1..C /\ (k - 1) + 1 = k
        BY <3>2, <1>0
      <4>2. Nth(s, (k - 1) + 1) = Af[Nth(s, k - 1)]
        BY <4>1, <1>1
      <4> QED BY <4>1, <4>2, <3>2
    <3> QED BY <3>1, <3>2
  <2> QED BY <2>1
<1> DEFINE h == CHOOSE f : Eq(f)
<1>3. Eq(h)
  <2> HIDE DEF Eq, g
  <2> QED BY <1>2
<1>4. h = Walked(nx, p)
  BY DEF Walked, C, Af
<1> HIDE DEF h, g
<1>5. \A k \in 1..C : h[k] = IF k = 1 THEN p ELSE Af[h[k - 1]]
  BY <1>3
<1> DEFINE T == {k \in 0..C : k # 0 => h[k] = Nth(s, k)}
<1>6. \A k \in 0..C : k \in T
  <2>1. 0 \in T
    BY <1>0
  <2>2. ASSUME NEW k \in 0..C - 1, k \in T PROVE k + 1 \in T
    <3>1. k + 1 \in 1..C /\ (k + 1) - 1 = k /\ k + 1 \in 0..C
      BY <1>0
    <3>2. CASE k = 0
      BY <3>1, <3>2, <1>0, <1>5
    <3>3. CASE k # 0
      <4>1. k \in 1..C /\ h[k] = Nth(s, k) /\ k + 1 # 1
        BY <2>2, <3>3, <1>0
      <4>2. h[k + 1] = Af[h[k]]
        BY <4>1, <3>1, <1>5
      <4> QED BY <4>1, <4>2, <3>1, <1>1
    <3> QED BY <3>2, <3>3
  <2> HIDE DEF T
  <2> QED BY <2>1, <2>2, <1>0, Upward
<1>7. \A k \in 1..C : h[k] = Nth(s, k)
  BY <1>6, <1>0
<1> HIDE DEF T
<1>8. {j \in Addresses : h[j] # NULL} = 1..Len(s)
  <2>1. ASSUME NEW j \in 1..C PROVE h[j] # NULL <=> j \in 1..Len(s)
    <3>2. CASE j <= Len(s)
      <4>1. j \in 1..Len(s)
        BY <3>2, <1>0
      <4> QED BY <4>1, <1>7, NthIs, <1>0
    <3>3. CASE ~(j <= Len(s))
      <4>1. j \in Nat /\ j > Len(s)
        BY <3>3, <1>0
      <4> QED BY <4>1, <1>7, NthIs, <1>0
    <3> QED BY <3>2, <3>3
  <2>2. \A j \in 1..Len(s) : j \in 1..C
    BY <1>0
  <2> QED BY <2>1, <2>2, <1>0
<1>9. Cardinality(1..Len(s)) = Len(s)
  <2>1. 1 \in Int /\ Len(s) \in Int
    BY <1>0
  <2>2. Cardinality(1..Len(s)) = IF 1 > Len(s) THEN 0 ELSE Len(s) - 1 + 1
    BY <2>1, FS_Interval
  <2> QED BY <2>2, <1>0
<1>10. ListOf(nx, p) = [k \in 1..Len(s) |-> h[k]]
  BY <1>4, <1>8, <1>9 DEF ListOf
<1>11. ASSUME NEW k \in 1..Len(s) PROVE h[k] = s[k]
  <2>1. k \in 1..C
    BY <1>0
  <2> QED BY <2>1, <1>7, <1>0, NthIs
<1>12. s = [k \in 1..Len(s) |-> s[k]]
  BY <1>0
<1> QED BY <1>10, <1>11, <1>12

(* A path stays when links of tuples that are not on it change.            *)
LEMMA PathStays ==
  ASSUME NEW nx, NEW p, NEW s, Path(nx, p, s), NEW my, \A t \in Elems(s) : my[t] = nx[t]
  PROVE  Path(my, p, s)
BY DEF Path, Elems

LEMMA PathPush ==
  ASSUME NEW nx, NEW p, NEW s, Path(nx, p, s), NEW my, NEW t \in Addresses, t \notin Elems(s),
         my[t] = p, \A u \in Elems(s) : my[u] = nx[u]
  PROVE  Path(my, t, <<t>> \o s) /\ Elems(<<t>> \o s) = Elems(s) \cup {t} /\ <<t>> \o s \in Seq(Addresses)
<1> DEFINE w == <<t>> \o s
<1> DEFINE a == <<t>>
<1>0. s \in Seq(Addresses) /\ Len(s) \in Nat /\ p = Nth(s, 1)
  BY NthIs DEF Path
<1>1. a \in Seq(Addresses) /\ Len(a) = 1 /\ a[1] = t
  OBVIOUS
<1> HIDE DEF a
<1>2. /\ a \o s \in Seq(Addresses) /\ Len(a \o s) = 1 + Len(s) /\ (a \o s)[1] = t
      /\ \A i \in 1..Len(s) : (a \o s)[1 + i] = s[i]
  <2>1. a \o s \in Seq(Addresses) /\ Len(a \o s) = 1 + Len(s)
    <3>1. a \in Seq(Addresses) /\ s \in Seq(Addresses)
      BY <1>0, <1>1
    <3>2. a \o s \in Seq(Addresses) /\ Len(a \o s) = Len(a) + Len(s)
      BY <3>1, ConcatProperties
    <3> QED BY <3>2, <1>1
  <2>2. /\ \A i \in 1..Len(a) : (a \o s)[i] = a[i]
        /\ \A i \in 1..Len(s) : (a \o s)[Len(a) + i] = s[i]
    <3>1. a \in Seq(Addresses) /\ s \in Seq(Addresses)
      BY <1>0, <1>1
    <3> QED BY ONLY <3>1, ConcatAt
  <2> QED BY <2>1, <2>2, <1>1
<1>3. w = a \o s
  BY DEF a
<1> HIDE DEF w
<1>4. w \in Seq(Addresses) /\ Len(w) = Len(s) + 1 /\ w[1] = t /\ \A i \in 1..Len(s) : w[i + 1] = s[i]
  BY <1>0, <1>2, <1>3
<1>5. \A k \in 1..Len(w) : k = 1 \/ (k - 1 \in 1..Len(s) /\ w[k] = s[k - 1])
  <2>1. ASSUME NEW k \in 1..Len(w), k # 1 PROVE k - 1 \in 1..Len(s) /\ w[k] = s[k - 1]
    <3>1. k - 1 \in 1..Len(s) /\ (k - 1) + 1 = k
      BY <2>1, <1>0, <1>4
    <3> QED BY <3>1, <1>4
  <2> QED BY <2>1
<1>6. \A j, k \in 1..Len(w) : w[j] = w[k] => j = k
  <2>1. \A i \in 1..Len(s) : s[i] # t
    BY DEF Elems
  <2>2. ASSUME NEW j \in 1..Len(w), NEW k \in 1..Len(w), w[j] = w[k] PROVE j = k
    <3>1. CASE j = 1 \/ k = 1
      BY <3>1, <2>2, <2>1, <1>4, <1>5
    <3>2. CASE j # 1 /\ k # 1
      <4>1. j - 1 \in 1..Len(s) /\ k - 1 \in 1..Len(s) /\ s[j - 1] = s[k - 1]
        BY <3>2, <2>2, <1>5
      <4>2. j - 1 = k - 1
        BY <4>1 DEF Path
      <4> QED BY <4>2, <1>4, <1>0
    <3> QED BY <3>1, <3>2
  <2> QED BY <2>2
<1>7. Elems(w) = Elems(s) \cup {t}
  <2>1. ASSUME NEW u \in Elems(w) PROVE u \in Elems(s) \cup {t}
    <3>1. PICK k \in 1..Len(w) : u = w[k]
      BY DEF Elems
    <3> QED BY <3>1, <1>4, <1>5 DEF Elems
  <2>2. ASSUME NEW u \in Elems(s) PROVE u \in Elems(w)
    <3>1. PICK k \in 1..Len(s) : u = s[k]
      BY DEF Elems
    <3>2. k + 1 \in 1..Len(w) /\ w[k + 1] = u
      BY <3>1, <1>0, <1>4
    <3> QED BY <3>2 DEF Elems
  <2>3. 1 \in 1..Len(w)
    BY <1>0, <1>4
  <2>4. t \in Elems(w)
    BY <2>3, <1>4 DEF Elems
  <2> QED BY <2>1, <2>2, <2>4
<1>8. ASSUME NEW k \in 1..Len(w) PROVE my[w[k]] = Nth(w, k + 1)
  <2>1. CASE k = 1
    <3>1. Nth(w, 2) = Nth(s, 1)
      <4>1. CASE Len(s) = 0
        BY <4>1, <1>4 DEF Nth
      <4>2. CASE Len(s) # 0
        <5>1. 1 \in 1..Len(s) /\ 2 \in 1..Len(w) /\ w[1 + 1] = s[1]
          BY <4>2, <1>0, <1>4
        <5> QED BY <5>1 DEF Nth
      <4> QED BY <4>1, <4>2
    <3> QED BY <2>1, <3>1, <1>0, <1>4
  <2>2. CASE k # 1
    <3>1. k - 1 \in 1..Len(s) /\ w[k] = s[k - 1] /\ (k - 1) + 1 = k
      BY <2>2, <1>5, <1>4, <1>0
    <3>2. my[s[k - 1]] = nx[s[k - 1]] /\ nx[s[k - 1]] = Nth(s, (k - 1) + 1)
      BY <3>1 DEF Elems, Path
    <3>3. Nth(s, k) = Nth(w, k + 1)
      <4>1. CASE k \in 1..Len(s)
        <5>1. k + 1 \in 1..Len(w) /\ w[k + 1] = s[k]
          BY <4>1, <1>0, <1>4
        <5> QED BY <4>1, <5>1 DEF Nth
      <4>2. CASE k \notin 1..Len(s)
        <5>1. k + 1 \notin 1..Len(w)
          BY <4>2, <1>0, <1>4
        <5> QED BY <4>2, <5>1 DEF Nth
      <4> QED BY <4>1, <4>2
    <3> QED BY <3>1, <3>2, <3>3
  <2> QED BY <2>1, <2>2
<1>9. t = Nth(w, 1)
  <2>1. 1 \in 1..Len(w)
    BY <1>0, <1>4
  <2> QED BY <2>1, <1>4 DEF Nth
<1> QED BY <1>4, <1>6, <1>7, <1>8, <1>9 DEF Path, w

(* nvram_delete: the links lead past p.                                    *)
LEMMA PathCut ==
  ASSUME NEW nx, NEW p, NEW s, Path(nx, p, s), NEW k \in 1..Len(s), NEW my,
         IF k = 1 THEN \A t \in Elems(s) : my[t] = nx[t]
                  ELSE \A t \in Elems(s) : my[t] = IF t = s[k - 1] THEN nx[s[k]] ELSE nx[t]
  PROVE  /\ Path(my, IF k = 1 THEN nx[s[k]] ELSE p, Cut(s, k)) /\ Elems(Cut(s, k)) = Elems(s) \ {s[k]}
         /\ Cut(s, k) \in Seq(Addresses)
<1> DEFINE w == Cut(s, k)
<1>0. s \in Seq(Addresses) /\ Len(s) \in Nat /\ k \in Nat /\ k >= 1 /\ k <= Len(s) /\ p = Nth(s, 1)
  BY NthIs DEF Path
<1>1. w \in Seq(Addresses) /\ Len(w) = Len(s) - 1 /\ \A i \in 1..Len(s) - 1 : w[i] = IF i < k THEN s[i] ELSE s[i + 1]
  BY <1>0, CutIs
<1> HIDE DEF w
<1>2. ASSUME NEW i \in 1..Len(s) PROVE Nth(w, i) = IF i < k THEN Nth(s, i) ELSE Nth(s, i + 1)
  <2>1. CASE i = Len(s)
    BY <2>1, <1>0, <1>1 DEF Nth
  <2>2. CASE i # Len(s)
    <3>1. i \in 1..Len(s) - 1 /\ i + 1 \in 1..Len(s)
      BY <2>2, <1>0
    <3> QED BY <3>1, <1>1 DEF Nth
  <2> QED BY <2>1, <2>2
<1>3. \A i, j \in 1..Len(s) : s[i] = s[j] => i = j
  BY DEF Path
<1>4. \A i \in 1..Len(s) : nx[s[i]] = Nth(s, i + 1) /\ s[i] \in Elems(s)
  BY DEF Path, Elems
<1>5. ASSUME NEW i \in 1..Len(s), i # k PROVE my[s[i]] = IF i + 1 = k THEN Nth(s, k + 1) ELSE Nth(s, i + 1)
  <2>1. CASE k = 1
    <3>1. i + 1 # k
      BY <2>1, <1>0
    <3> QED BY <2>1, <3>1, <1>4
  <2>2. CASE k # 1
    <3>1. my[s[i]] = IF s[i] = s[k - 1] THEN nx[s[k]] ELSE nx[s[i]]
      BY <2>2, <1>4
    <3>2. k - 1 \in 1..Len(s) /\ (s[i] = s[k - 1] <=> i + 1 = k)
      <4>1. k - 1 \in 1..Len(s) /\ (i = k - 1 <=> i + 1 = k)
        BY <2>2, <1>0
      <4> QED BY <4>1, <1>3
    <3> QED BY <3>1, <3>2, <1>4
  <2> QED BY <2>1, <2>2
<1>6. ASSUME NEW i \in 1..Len(w) PROVE my[w[i]] = Nth(w, i + 1)
  <2>0. i \in 1..Len(s) - 1 /\ i \in 1..Len(s) /\ i + 1 \in 1..Len(s) /\ w[i] = IF i < k THEN s[i] ELSE s[i + 1]
    BY <1>0, <1>1
  <2>1. Nth(w, i + 1) = IF i + 1 < k THEN Nth(s, i + 1) ELSE Nth(s, (i + 1) + 1)
    BY <2>0, <1>2
  <2>2. CASE i < k
    <3>1. my[s[i]] = IF i + 1 = k THEN Nth(s, k + 1) ELSE Nth(s, i + 1)
      BY <2>0, <2>2, <1>5
    <3>2. i + 1 = k \/ i + 1 < k
      BY <2>0, <2>2, <1>0
    <3> QED BY <2>0, <2>1, <2>2, <3>1, <3>2, <1>0
  <2>3. CASE ~(i < k)
    <3>1. i + 1 # k /\ (i + 1) + 1 # k /\ ~(i + 1 < k)
      BY <2>0, <2>3, <1>0
    <3>2. my[s[i + 1]] = Nth(s, (i + 1) + 1)
      BY <2>0, <3>1, <1>5
    <3> QED BY <2>0, <2>1, <2>3, <3>1, <3>2
  <2> QED BY <2>2, <2>3
<1>7. \A i, j \in 1..Len(w) : w[i] = w[j] => i = j
  <2>1. ASSUME NEW i \in 1..Len(w), NEW j \in 1..Len(w), w[i] = w[j] PROVE i = j
    <3>1. /\ i \in 1..Len(s) /\ i + 1 \in 1..Len(s) /\ w[i] = IF i < k THEN s[i] ELSE s[i + 1]
          /\ j \in 1..Len(s) /\ j + 1 \in 1..Len(s) /\ w[j] = IF j < k THEN s[j] ELSE s[j + 1]
      BY <1>0, <1>1
    <3>2. CASE i < k /\ j < k
      BY <3>1, <3>2, <2>1, <1>3
    <3>3. CASE i < k /\ ~(j < k)
      <4>1. i = j + 1
        BY <3>1, <3>3, <2>1, <1>3
      <4> QED BY <4>1, <3>3, <1>0
    <3>4. CASE ~(i < k) /\ j < k
      <4>1. i + 1 = j
        BY <3>1, <3>4, <2>1, <1>3
      <4> QED BY <4>1, <3>4, <1>0
    <3>5. CASE ~(i < k) /\ ~(j < k)
      <4>1. i + 1 = j + 1
        BY <3>1, <3>5, <2>1, <1>3
      <4> QED BY <4>1, <3>1
    <3> QED BY <3>2, <3>3, <3>4, <3>5
  <2> QED BY <2>1
<1>8. Elems(w) = Elems(s) \ {s[k]}
  <2>1. ASSUME NEW i \in 1..Len(w) PROVE w[i] \in Elems(s) \ {s[k]}
    <3>1. i \in 1..Len(s) /\ i + 1 \in 1..Len(s) /\ w[i] = IF i < k THEN s[i] ELSE s[i + 1]
      BY <1>0, <1>1
    <3>2. CASE i < k
      <4>1. i # k
        BY <3>2, <1>0
      <4> QED BY <4>1, <3>1, <3>2, <1>3, <1>4
    <3>3. CASE ~(i < k)
      <4>1. i + 1 # k
        BY <3>3, <1>0
      <4> QED BY <4>1, <3>1, <3>3, <1>3, <1>4
    <3> QED BY <3>2, <3>3
  <2>2. ASSUME NEW i \in 1..Len(s), i # k PROVE \E j \in 1..Len(w) : w[j] = s[i]
    <3>1. CASE i < k
      <4>1. i \in 1..Len(w) /\ i \in 1..Len(s) - 1
        BY <3>1, <1>0, <1>1
      <4>2. w[i] = s[i]
        BY <4>1, <3>1, <1>1
      <4> QED BY <4>1, <4>2
    <3>2. CASE ~(i < k)
      <4>1. i - 1 \in 1..Len(w) /\ i - 1 \in 1..Len(s) - 1 /\ ~(i - 1 < k) /\ (i - 1) + 1 = i
        BY <3>2, <2>2, <1>0, <1>1
      <4>2. w[i - 1] = s[i]
        BY <4>1, <1>1
      <4> QED BY <4>1, <4>2
    <3> QED BY <3>1, <3>2
  <2>3. Elems(w) \subseteq Elems(s) \ {s[k]}
    BY <2>1 DEF Elems
  <2>4. Elems(s) \ {s[k]} \subseteq Elems(w)
    <3>1. ASSUME NEW u \in Elems(s) \ {s[k]} PROVE u \in Elems(w)
      <4>1. PICK i \in 1..Len(s) : u = s[i]
        BY DEF Elems
      <4>2. i # k
        BY <4>1
      <4>3. PICK j \in 1..Len(w) : w[j] = s[i]
        BY <4>2, <2>2
      <4> QED BY <4>1, <4>3 DEF Elems
    <3> QED BY <3>1
  <2> QED BY <2>3, <2>4
<1>9. (IF k = 1 THEN nx[s[k]] ELSE p) = Nth(w, 1)
  <2>1. 1 \in 1..Len(s) /\ k \in 1..Len(s)
    BY <1>0
  <2>2. Nth(w, 1) = IF 1 < k THEN Nth(s, 1) ELSE Nth(s, 1 + 1)
    BY <2>1, <1>2
  <2>3. CASE k = 1
    BY <2>2, <2>3, <1>4, <2>1
  <2>4. CASE k # 1
    <3>1. 1 < k
      BY <2>4, <1>0
    <3> QED BY <3>1, <2>2, <2>4, <1>0
  <2> QED BY <2>3, <2>4
<1> QED BY <1>1, <1>6, <1>7, <1>8, <1>9 DEF Path, w

Apart(nx, ht, pd, L) ==
  /\ \A m \in Chains : Path(nx, Root(ht, pd, m), L[m])
  /\ \A m \in Chains : L[m] \in Seq(Addresses) /\ Elems(L[m]) \subseteq Addresses
  /\ \A k, m \in Chains : \A t \in Elems(L[k]) : t \in Elems(L[m]) => k = m
  /\ nx \in Links /\ ht \in Roots /\ pd \in Addresses \cup {NULL} /\ L \in [Chains -> Seq(Addresses)]
LEMMA ShapeIs ==
  ASSUME NEW nx, NEW ht, NEW pd, NEW L, Shape(nx, ht, pd, L)
  PROVE  Apart(nx, ht, pd, L)
<1>1. \A m \in Chains : Path(nx, Root(ht, pd, m), L[m]) /\ L[m] \in Seq(Addresses)
  BY DEF Shape
<1>2. \A m \in Chains : Elems(L[m]) \subseteq Addresses
  BY <1>1, NthIs DEF Elems
<1> QED BY <1>1, <1>2 DEF Apart, Shape

(* An element more at the head of a list.                                  *)
Pushed(nx, ht, pd, l, t, my, hu, pe) ==
  /\ my \in Links /\ my[t] = Root(ht, pd, l) /\ \A u \in Addresses : u # t => my[u] = nx[u]
  /\ hu \in Roots /\ pe \in Addresses \cup {NULL} /\ Root(hu, pe, l) = t
  /\ \A m \in Chains : m # l => Root(hu, pe, m) = Root(ht, pd, m)
Grown(L, l, t, M) == \A m \in Chains : Elems(M[m]) = IF m = l THEN Elems(L[m]) \cup {t} ELSE Elems(L[m])
LEMMA ShapePush ==
  ASSUME NEW nx, NEW ht, NEW pd, NEW L, Shape(nx, ht, pd, L), NEW l \in Chains, NEW t \in Addresses,
         \A m \in Chains : t \notin Elems(L[m]),
         NEW my, NEW hu, NEW pe, Pushed(nx, ht, pd, l, t, my, hu, pe)
  PROVE  \E M : Shape(my, hu, pe, M) /\ Grown(L, l, t, M)
<1> DEFINE M == [L EXCEPT ![l] = <<t>> \o L[l]]
<1>0. /\ my \in Links /\ my[t] = Root(ht, pd, l) /\ \A u \in Addresses : u # t => my[u] = nx[u]
      /\ hu \in Roots /\ pe \in Addresses \cup {NULL} /\ Root(hu, pe, l) = t
      /\ \A m \in Chains : m # l => Root(hu, pe, m) = Root(ht, pd, m)
  BY DEF Pushed
<1>1. Apart(nx, ht, pd, L)
  BY ShapeIs
<1>2. /\ \A m \in Chains : Path(nx, Root(ht, pd, m), L[m]) /\ L[m] \in Seq(Addresses) /\ Elems(L[m]) \subseteq Addresses
      /\ \A k, m \in Chains : \A u \in Elems(L[k]) : u \in Elems(L[m]) => k = m
      /\ L \in [Chains -> Seq(Addresses)]
  BY <1>1 DEF Apart
<1>3. /\ Path(my, t, <<t>> \o L[l]) /\ Elems(<<t>> \o L[l]) = Elems(L[l]) \cup {t}
      /\ <<t>> \o L[l] \in Seq(Addresses)
  <2> DEFINE s == L[l]
  <2> DEFINE p == Root(ht, pd, l)
  <2>1. Path(nx, p, s) /\ t \notin Elems(s) /\ my[t] = p /\ \A u \in Elems(s) : my[u] = nx[u]
    BY <1>0, <1>2
  <2> HIDE DEF s, p
  <2>2. Path(my, t, <<t>> \o s) /\ Elems(<<t>> \o s) = Elems(s) \cup {t} /\ <<t>> \o s \in Seq(Addresses)
    BY <2>1, PathPush
  <2> QED BY <2>2 DEF s
<1>4. M \in [Chains -> Seq(Addresses)] /\ M[l] = <<t>> \o L[l] /\ \A m \in Chains : m # l => M[m] = L[m]
  BY <1>2, <1>3
<1> HIDE DEF M
<1>5. \A m \in Chains : Elems(M[m]) = IF m = l THEN Elems(L[m]) \cup {t} ELSE Elems(L[m])
  BY <1>3, <1>4
<1>6. ASSUME NEW m \in Chains PROVE Path(my, Root(hu, pe, m), M[m])
  <2>1. CASE m = l
    BY <2>1, <1>0, <1>3, <1>4
  <2>2. CASE m # l
    <3>1. \A u \in Elems(L[m]) : my[u] = nx[u]
      BY <1>0, <1>2
    <3>2. Path(my, Root(ht, pd, m), L[m])
      BY <3>1, <1>2, PathStays
    <3> QED BY <2>2, <3>2, <1>0, <1>4
  <2> QED BY <2>1, <2>2
<1>7. ASSUME NEW k \in Chains, NEW m \in Chains, NEW u \in Elems(M[k]), u \in Elems(M[m]) PROVE k = m
  <2>1. /\ u \in Elems(L[k]) \/ (k = l /\ u = t)
        /\ u \in Elems(L[m]) \/ (m = l /\ u = t)
    BY <1>5, <1>7
  <2> QED BY <2>1, <1>2
<1>8. Shape(my, hu, pe, M)
  BY <1>0, <1>4, <1>6, <1>7 DEF Shape
<1> QED BY <1>5, <1>8 DEF Grown

(* The tuple before the one at place k.                                    *)
LEMMA PrevIs ==
  ASSUME NEW nx, NEW p, NEW s, Path(nx, p, s), NEW k \in 1..Len(s)
  PROVE  {q \in Elems(s) : nx[q] = s[k]} = IF k = 1 THEN {} ELSE {s[k - 1]}
<1>0. s \in Seq(Addresses) /\ Len(s) \in Nat
  BY NthIs DEF Path
<1>1. ASSUME NEW j \in 1..Len(s) PROVE nx[s[j]] = s[k] <=> j + 1 = k
  <2>1. nx[s[j]] = Nth(s, j + 1)
    BY DEF Path
  <2>2. CASE j = Len(s)
    <3>1. Nth(s, j + 1) = NULL /\ j + 1 # k
      BY <2>2, <1>0, NthIs
    <3> QED BY <2>1, <3>1, <1>0, NthIs
  <2>3. CASE j # Len(s)
    <3>1. j + 1 \in 1..Len(s)
      BY <2>3, <1>0
    <3>2. Nth(s, j + 1) = s[j + 1] /\ (s[j + 1] = s[k] => j + 1 = k)
      BY <3>1 DEF Nth, Path
    <3> QED BY <2>1, <3>2
  <2> QED BY <2>2, <2>3
<1>2. CASE k = 1
  <2>1. \A j \in 1..Len(s) : nx[s[j]] # s[k]
    BY <1>0, <1>1, <1>2
  <2> QED BY <2>1, <1>2 DEF Elems
<1>3. CASE k # 1
  <2>1. k - 1 \in 1..Len(s) /\ (k - 1) + 1 = k
    BY <1>0, <1>3
  <2>2. \A j \in 1..Len(s) : nx[s[j]] = s[k] <=> j = k - 1
    BY <1>0, <1>1, <2>1
  <2> QED BY <2>1, <2>2, <1>3 DEF Elems
<1> QED BY <1>2, <1>3

(* nvram_delete.                                                           *)
Deleted(nx, ht, pd, L, l, k, my, hu, pe) ==
  /\ my \in Links /\ \A u \in Addresses : my[u] = IF k # 1 /\ u = L[l][k - 1] THEN nx[L[l][k]] ELSE nx[u]
  /\ hu \in Roots /\ pe \in Addresses \cup {NULL}
  /\ Root(hu, pe, l) = IF k = 1 THEN nx[L[l][k]] ELSE Root(ht, pd, l)
  /\ \A m \in Chains : m # l => Root(hu, pe, m) = Root(ht, pd, m)
Shrunk(L, l, p, M) == \A m \in Chains : Elems(M[m]) = IF m = l THEN Elems(L[m]) \ {p} ELSE Elems(L[m])
LEMMA ShapeCut ==
  ASSUME NEW nx, NEW ht, NEW pd, NEW L, Shape(nx, ht, pd, L), NEW l \in Chains, NEW k \in 1..Len(L[l]),
         NEW my, NEW hu, NEW pe, Deleted(nx, ht, pd, L, l, k, my, hu, pe)
  PROVE  \E M : Shape(my, hu, pe, M) /\ Shrunk(L, l, L[l][k], M)
<1> DEFINE s == L[l]
<1> DEFINE M == [L EXCEPT ![l] = Cut(s, k)]
<1>0. /\ my \in Links /\ \A u \in Addresses : my[u] = IF k # 1 /\ u = L[l][k - 1] THEN nx[L[l][k]] ELSE nx[u]
      /\ hu \in Roots /\ pe \in Addresses \cup {NULL}
      /\ Root(hu, pe, l) = IF k = 1 THEN nx[L[l][k]] ELSE Root(ht, pd, l)
      /\ \A m \in Chains : m # l => Root(hu, pe, m) = Root(ht, pd, m)
  BY DEF Deleted
<1>1. Apart(nx, ht, pd, L)
  BY ShapeIs
<1>2. /\ \A m \in Chains : Path(nx, Root(ht, pd, m), L[m]) /\ L[m] \in Seq(Addresses) /\ Elems(L[m]) \subseteq Addresses
      /\ \A i, m \in Chains : \A u \in Elems(L[i]) : u \in Elems(L[m]) => i = m
      /\ L \in [Chains -> Seq(Addresses)]
  BY <1>1 DEF Apart
<1>3. s \in Seq(Addresses) /\ Len(s) \in Nat /\ Path(nx, Root(ht, pd, l), s) /\ k \in 1..Len(s) /\ s = L[l]
  BY <1>2, NthIs
<1>4. /\ \A u \in Addresses : my[u] = IF k # 1 /\ u = s[k - 1] THEN nx[s[k]] ELSE nx[u]
      /\ Root(hu, pe, l) = IF k = 1 THEN nx[s[k]] ELSE Root(ht, pd, l)
  BY <1>0
<1>5. /\ Path(my, Root(hu, pe, l), Cut(s, k)) /\ Elems(Cut(s, k)) = Elems(s) \ {s[k]} /\ Cut(s, k) \in Seq(Addresses)
  <2> DEFINE p == Root(ht, pd, l)
  <2>1. Elems(s) \subseteq Addresses /\ Path(nx, p, s)
    BY <1>2
  <2> HIDE DEF s, p
  <2>2. IF k = 1 THEN \A t \in Elems(s) : my[t] = nx[t]
                 ELSE \A t \in Elems(s) : my[t] = IF t = s[k - 1] THEN nx[s[k]] ELSE nx[t]
    BY <1>4, <2>1
  <2>3. /\ Path(my, IF k = 1 THEN nx[s[k]] ELSE p, Cut(s, k)) /\ Elems(Cut(s, k)) = Elems(s) \ {s[k]}
        /\ Cut(s, k) \in Seq(Addresses)
    BY <2>1, <2>2, <1>3, PathCut
  <2> QED BY <2>3, <1>4 DEF p
<1> HIDE DEF s
<1>6. M \in [Chains -> Seq(Addresses)] /\ M[l] = Cut(s, k) /\ \A m \in Chains : m # l => M[m] = L[m]
  BY <1>2, <1>5
<1> HIDE DEF M
<1>7. \A m \in Chains : Elems(M[m]) = IF m = l THEN Elems(L[m]) \ {s[k]} ELSE Elems(L[m])
  BY <1>3, <1>5, <1>6
<1>8. ASSUME NEW m \in Chains PROVE Path(my, Root(hu, pe, m), M[m])
  <2>1. CASE m = l
    BY <2>1, <1>5, <1>6
  <2>2. CASE m # l
    <3>1. ASSUME NEW u \in Elems(L[m]) PROVE my[u] = nx[u]
      <4>1. k # 1 => s[k - 1] \in Elems(L[l])
        BY <1>3 DEF Elems
      <4>2. k # 1 => u # s[k - 1]
        BY <4>1, <1>2, <2>2
      <4> QED BY <4>2, <1>2, <1>4
    <3>2. Path(my, Root(ht, pd, m), L[m])
      BY <3>1, <1>2, PathStays
    <3> QED BY <2>2, <3>2, <1>0, <1>6
  <2> QED BY <2>1, <2>2
<1>9. ASSUME NEW i \in Chains, NEW m \in Chains, NEW u \in Elems(M[i]), u \in Elems(M[m]) PROVE i = m
  <2>1. u \in Elems(L[i]) /\ u \in Elems(L[m])
    BY <1>7, <1>9
  <2> QED BY <2>1, <1>2
<1>10. Shape(my, hu, pe, M)
  BY <1>0, <1>6, <1>8, <1>9 DEF Shape
<1> QED BY <1>3, <1>7, <1>10 DEF Shrunk

(* nvram_delete and the move to nv_pending.                                *)
Left(L, h, p, m) == IF m = h THEN Elems(L[m]) \ {p} ELSE IF m = Pending THEN Elems(L[m]) \cup {p} ELSE Elems(L[m])
Unlinks(nx, ht, S, h, p, ny, hu) ==
  LET prev == {q \in S : nx[q] = p} IN
  /\ ny = IF prev = {} THEN nx ELSE [nx EXCEPT ![CHOOSE q \in prev : TRUE] = nx[p]]
  /\ hu = IF prev = {} THEN [ht EXCEPT ![h] = nx[p]] ELSE ht
Parks(ny, p, pd, nz) == nz = [ny EXCEPT ![p] = pd]
MovedTo(L, h, p, M) == \A m \in Chains : Elems(M[m]) = Left(L, h, p, m)
LEMMA Moved ==
  ASSUME NEW nx, NEW ht, NEW pd, NEW L, NEW h, NEW p, NEW ny, NEW hu, NEW nz,
         Shape(nx, ht, pd, L), h \in Store!Buckets, p \in Elems(L[h]),
         Unlinks(nx, ht, Elems(L[h]), h, p, ny, hu), Parks(ny, p, pd, nz)
  PROVE  \E M : Shape(nz, hu, p, M) /\ MovedTo(L, h, p, M)
<1> PICK prev : prev = {q \in Elems(L[h]) : nx[q] = p}
  OBVIOUS
<1>0. /\ ny = IF prev = {} THEN nx ELSE [nx EXCEPT ![CHOOSE q \in prev : TRUE] = nx[p]]
      /\ hu = IF prev = {} THEN [ht EXCEPT ![h] = nx[p]] ELSE ht
  BY DEF Unlinks
<1>1. PICK k \in 1..Len(L[h]) : p = L[h][k]
  BY DEF Elems
<1>2. h \in Chains /\ Pending \in Chains /\ h # Pending /\ \A l \in Chains : l # Pending => l \in Store!Buckets
  BY ListsAre
<1>3. /\ nx \in Links /\ ht \in Roots /\ pd \in Addresses \cup {NULL} /\ Path(nx, Root(ht, pd, h), L[h])
      /\ \A i, m \in Chains : \A t \in Elems(L[i]) : t \in Elems(L[m]) => i = m
  <2>1. Apart(nx, ht, pd, L)
    BY ShapeIs
  <2> QED BY <2>1, <1>2 DEF Apart
<1>4. prev = IF k = 1 THEN {} ELSE {L[h][k - 1]}
  BY <1>1, <1>3, PrevIs
<1>5. p \in Addresses /\ (k # 1 => L[h][k - 1] \in Addresses)
  <2>1. L[h] \in Seq(Addresses) /\ Len(L[h]) \in Nat
    BY <1>3, NthIs DEF Path
  <2>2. k # 1 => k - 1 \in 1..Len(L[h])
    BY <2>1
  <2> QED BY <1>1, <2>1, <2>2, NthIs
<1>6. /\ ny = IF k = 1 THEN nx ELSE [nx EXCEPT ![L[h][k - 1]] = nx[L[h][k]]]
      /\ hu = IF k = 1 THEN [ht EXCEPT ![h] = nx[L[h][k]]] ELSE ht
  <2>1. CASE k = 1
    BY <2>1, <1>0, <1>1, <1>4
  <2>2. CASE k # 1
    <3>1. prev = {L[h][k - 1]}
      BY <2>2, <1>4
    <3>2. (CHOOSE q \in prev : TRUE) = L[h][k - 1] /\ prev # {}
      BY ONLY <3>1
    <3> QED BY <2>2, <3>2, <1>0, <1>1
  <2> QED BY <2>1, <2>2
<1>7. /\ ny \in Links /\ \A u \in Addresses : ny[u] = IF k # 1 /\ u = L[h][k - 1] THEN nx[L[h][k]] ELSE nx[u]
      /\ hu \in Roots /\ hu[h] = (IF k = 1 THEN nx[L[h][k]] ELSE ht[h])
      /\ \A g \in Store!Buckets : g # h => hu[g] = ht[g]
  <2>1. nx[p] \in Addresses \cup {NULL}
    BY <1>3, <1>5 DEF Links
  <2>2. CASE k = 1
    BY <2>1, <2>2, <1>1, <1>3, <1>6 DEF Links, Roots
  <2>3. CASE k # 1
    BY <2>1, <2>3, <1>1, <1>3, <1>5, <1>6 DEF Links, Roots
  <2> QED BY <2>2, <2>3
<1>8. /\ nz \in Links /\ nz[p] = pd /\ \A u \in Addresses : u # p => nz[u] = ny[u]
  BY <1>3, <1>5, <1>7 DEF Links, Parks
<1>9. /\ Root(hu, pd, h) = (IF k = 1 THEN nx[L[h][k]] ELSE Root(ht, pd, h))
      /\ \A m \in Chains : m # h => Root(hu, pd, m) = Root(ht, pd, m)
      /\ Root(hu, p, Pending) = p /\ Root(hu, pd, Pending) = pd
      /\ \A m \in Chains : m # Pending => Root(hu, p, m) = Root(hu, pd, m)
  BY <1>2, <1>7 DEF Root
<1>14. Deleted(nx, ht, pd, L, h, k, ny, hu, pd) /\ Pushed(ny, hu, pd, Pending, p, nz, hu, p)
  BY <1>3, <1>5, <1>7, <1>8, <1>9 DEF Deleted, Pushed
<1>10. PICK K : Shape(ny, hu, pd, K) /\ Shrunk(L, h, p, K)
  BY <1>1, <1>2, <1>14, ShapeCut
<1>11. \A m \in Chains : p \notin Elems(K[m])
  BY <1>2, <1>3, <1>10 DEF Shrunk
<1>12. PICK M : Shape(nz, hu, p, M) /\ Grown(K, Pending, p, M)
  BY <1>2, <1>5, <1>10, <1>11, <1>14, ShapePush
<1>13. \A m \in Chains : Elems(M[m]) = Left(L, h, p, m)
  BY <1>2, <1>10, <1>12 DEF Left, Shrunk, Grown
<1> QED BY <1>12, <1>13 DEF MovedTo

(* nvram_insert.                                                           *)
LEMMA Inserted ==
  ASSUME NEW nx, NEW ht, NEW pd, NEW L, Shape(nx, ht, pd, L),
         NEW h \in Store!Buckets, NEW t \in Addresses, \A m \in Chains : t \notin Elems(L[m]),
         NEW nz, nz = [nx EXCEPT ![t] = ht[h]], NEW hu, hu = [ht EXCEPT ![h] = t]
  PROVE  \E M : Shape(nz, hu, pd, M) /\ Grown(L, h, t, M)
<1>1. h \in Chains /\ h # Pending /\ \A l \in Chains : l # Pending => l \in Store!Buckets
  BY ListsAre
<1>2. nx \in Links /\ ht \in Roots /\ pd \in Addresses \cup {NULL}
  BY DEF Shape
<1>3. /\ nz \in Links /\ nz[t] = ht[h] /\ \A u \in Addresses : u # t => nz[u] = nx[u]
      /\ hu \in Roots /\ hu[h] = t /\ \A g \in Store!Buckets : g # h => hu[g] = ht[g]
  BY <1>2 DEF Links, Roots
<1>4. /\ Root(ht, pd, h) = ht[h] /\ Root(hu, pd, h) = t
      /\ \A m \in Chains : m # h => Root(hu, pd, m) = Root(ht, pd, m)
  BY <1>1, <1>3 DEF Root
<1>5. Pushed(nx, ht, pd, h, t, nz, hu, pd)
  BY <1>2, <1>3, <1>4 DEF Pushed
<1> QED BY <1>1, <1>5, ShapePush

(* What the list of the bucket says of name w: the value of its tuple.     *)
Bound(b, L, w, y) ==
  \/ \E t \in Elems(L[Hash[w]]) : b[t].name = w /\ y = b[t].value
  \/ y = NULL /\ \A t \in Elems(L[Hash[w]]) : b[t].name # w
LEMMA BoundOnce ==
  ASSUME NEW b, NEW L, Filed(b, L), NEW w \in Names, NEW y, NEW z, Bound(b, L, w, y), Bound(b, L, w, z)
  PROVE  y = z
<1>1. Hash[w] \in Store!Buckets
  BY StoreConstants
<1>2. \A t, u \in Elems(L[Hash[w]]) : b[t].name = b[u].name => t = u
  BY <1>1 DEF Filed
<1> QED BY <1>2 DEF Bound

(* nvram_lookup finds the tuple of the name if there is one.               *)
Found(L, w, p) ==
  /\ \A t \in Elems(L[Hash[w]]) : binding[t].name = w => p = t
  /\ p # NULL => p \in Elems(L[Hash[w]]) /\ binding[p].name = w
  /\ Store!List(hashtab[Hash[w]]) = L[Hash[w]]
Looks ==
  \A L : Kept(L) => \A w \in Names : Found(L, w, Store!Lookup(w)) /\ Bound(binding, L, w, Store!Mem[w])
Memory == Store!Mem = [w \in Names |-> Store!Mem[w]]
LEMMA LooksNow == Looks /\ Memory
<1>1. SUFFICES ASSUME NEW L, Kept(L), NEW w \in Names
               PROVE  Found(L, w, Store!Lookup(w)) /\ Bound(binding, L, w, Store!Mem[w])
  BY DEF Looks, Memory, Store!Mem
<1> DEFINE h == Hash[w]
<1> DEFINE s == L[h]
<1> DEFINE hits == {k \in 1..Len(s) : binding[s[k]].name = w}
<1>2. h \in Store!Buckets /\ h \in Chains /\ h # Pending
  BY StoreConstants, ListsAre
<1>3. Apart(next, hashtab, nv_pending, L) /\ Filed(binding, L)
  BY <1>1, ShapeIs DEF Kept
<1>4. Path(next, hashtab[h], s) /\ s \in Seq(Addresses)
  BY <1>2, <1>3 DEF Apart, Root
<1>5. Store!List(hashtab[h]) = s
  BY <1>4, ListSame, ListIs
<1>6. \A t, u \in Elems(s) : binding[t].name = binding[u].name => t = u
  BY <1>2, <1>3 DEF Filed
<1>7. Store!Lookup(w) = IF hits = {} THEN NULL ELSE s[CHOOSE k \in hits : \A j \in hits : k <= j]
  BY <1>5 DEF Store!Lookup
<1>8. hits = {} <=> \A t \in Elems(s) : binding[t].name # w
  BY DEF Elems
<1>9. Len(s) \in Nat /\ \A k \in 1..Len(s) : s[k] \in Elems(s) /\ s[k] # NULL
  BY <1>4, NthIs DEF Elems
<1>10. ASSUME hits # {}
       PROVE  /\ Store!Lookup(w) \in Elems(s) /\ binding[Store!Lookup(w)].name = w /\ Store!Lookup(w) # NULL
  <2> DEFINE c == CHOOSE k \in hits : \A j \in hits : k <= j
  <2>1. hits \subseteq Nat
    BY <1>9
  <2> HIDE DEF hits
  <2>2. \E k \in hits : \A j \in hits : k <= j
    BY <2>1, <1>10, NatMin
  <2>3. c \in hits
    BY <2>2
  <2>4. Store!Lookup(w) = s[c]
    BY <1>7, <1>10
  <2> HIDE DEF c
  <2>5. c \in 1..Len(s) /\ binding[s[c]].name = w
    BY <2>3 DEF hits
  <2> QED BY <2>4, <2>5, <1>9
<1>11. Store!Mem[w] = IF Store!Lookup(w) = NULL THEN NULL ELSE binding[Store!Lookup(w)].value
  BY DEF Store!Mem
<1> HIDE DEF hits
<1>12. CASE hits = {}
  <2>1. Store!Lookup(w) = NULL /\ \A t \in Elems(L[Hash[w]]) : binding[t].name # w
    BY <1>7, <1>8, <1>12
  <2> QED BY <2>1, <1>5, <1>11 DEF Found, Bound
<1>13. CASE hits # {}
  <2>1. \A t \in Elems(L[Hash[w]]) : binding[t].name = w => Store!Lookup(w) = t
    BY <1>6, <1>10, <1>13
  <2> QED BY <2>1, <1>5, <1>10, <1>11, <1>13 DEF Found, Bound
<1> QED BY <1>12, <1>13
LEMMA LooksThen == Looks' /\ Memory'
BY LooksNow, PTL

LEMMA SeenStore ==
  ASSUME NEW L, Kept(L), NEW w \in Names
  PROVE  Found(L, w, Store!Lookup(w)) /\ Bound(binding, L, w, Store!Mem[w])
BY LooksNow DEF Looks

LEMMA SeenStoreThen ==
  ASSUME NEW M, Shape(next', hashtab', nv_pending', M), Filed(binding', M), NEW w \in Names
  PROVE  Bound(binding', M, w, Store!Mem'[w])
<1>1. Kept(M)'
  BY DEF Kept
<1>2. Bound(binding, M, w, Store!Mem[w])'
  BY <1>1, LooksThen DEF Looks
<1> QED BY <1>2

(* What is bound after a step gives the memory after it.                   *)
LEMMA MemThen ==
  ASSUME NEW M, Shape(next', hashtab', nv_pending', M), Filed(binding', M), NEW F,
         F = [w \in Names |-> F[w]], \A w \in Names : Bound(binding', M, w, F[w])
  PROVE  Store!Mem' = F
<1>1. ASSUME NEW w \in Names PROVE Store!Mem'[w] = F[w]
  BY SeenStoreThen, BoundOnce
<1>2. Store!Mem' = [w \in Names |-> Store!Mem'[w]]
  BY LooksThen DEF Memory
<1> QED BY <1>1, <1>2

-----------------------------------------------------------------------------
LEMMA FiledMoved ==
  ASSUME NEW b, NEW L, Filed(b, L), NEW h \in Store!Buckets, NEW p \in Elems(L[h]), NEW K,
         \A m \in Chains : Elems(K[m]) = Left(L, h, p, m)
  PROVE  Filed(b, K)
<1>1. Pending \in Chains /\ Pending \notin Store!Buckets /\ Store!Buckets \subseteq Chains
  BY ListsAre
<1>2. \A g \in Store!Buckets : Elems(K[g]) \subseteq Elems(L[g])
  BY <1>1 DEF Left
<1>3. ASSUME NEW t \in Addresses
      PROVE  (\E l \in Chains : t \in Elems(L[l])) <=> (\E l \in Chains : t \in Elems(K[l]))
  <2>1. CASE t = p
    <3>1. t \in Elems(L[h]) /\ t \in Elems(K[Pending]) /\ h \in Chains
      BY <2>1, <1>1 DEF Left
    <3> QED BY <3>1, <1>1
  <2>2. CASE t # p
    <3>1. \A m \in Chains : t \in Elems(K[m]) <=> t \in Elems(L[m])
      BY <2>2 DEF Left
    <3> QED BY <3>1
  <2> QED BY <2>1, <2>2
<1> QED BY <1>2, <1>3 DEF Filed

LEMMA FiledGrown ==
  ASSUME NEW b, NEW K, Filed(b, K), NEW t \in Addresses, b[t] = NULL, NEW w \in Names, NEW v \in Values,
         \A u \in Elems(K[Hash[w]]) : b[u].name # w, NEW M, Grown(K, Hash[w], t, M),
         \A m \in Chains : Elems(K[m]) \subseteq Addresses,
         NEW c, c = [b EXCEPT ![t] = [name |-> w, value |-> v]]
  PROVE  Filed(c, M)
<1>1. Hash[w] \in Store!Buckets /\ Hash[w] \in Chains /\ Store!Buckets \subseteq Chains
  BY StoreConstants, ListsAre
<1>2. b \in [Addresses -> Records \cup {NULL}] /\ \A u \in Addresses : b[u] # NULL <=> \E l \in Chains : u \in Elems(K[l])
  BY DEF Filed
<1>3. /\ c \in [Addresses -> Records \cup {NULL}] /\ c[t].name = w /\ c[t] \in Records
      /\ \A u \in Addresses : u # t => c[u] = b[u]
  <2>1. [name |-> w, value |-> v] \in Records
    BY DEF Records
  <2>2. c[t] = [name |-> w, value |-> v]
    BY <1>2
  <2> QED BY <2>1, <2>2, <1>2
<1>4. \A m \in Chains : t \notin Elems(K[m])
  BY <1>2
<1>5. \A m \in Chains : Elems(M[m]) = IF m = Hash[w] THEN Elems(K[m]) \cup {t} ELSE Elems(K[m])
  BY DEF Grown
<1>6. ASSUME NEW u \in Addresses PROVE c[u] # NULL <=> \E l \in Chains : u \in Elems(M[l])
  <2>1. CASE u = t
    <3>1. c[u] # NULL
      BY <2>1, <1>3, StoreConstants
    <3>2. u \in Elems(M[Hash[w]])
      BY <2>1, <1>1, <1>5
    <3> QED BY <3>1, <3>2, <1>1
  <2>2. CASE u # t
    <3>1. \A m \in Chains : u \in Elems(M[m]) <=> u \in Elems(K[m])
      BY <2>2, <1>5
    <3> QED BY <3>1, <2>2, <1>2, <1>3
  <2> QED BY <2>1, <2>2
<1>7. ASSUME NEW h \in Store!Buckets, NEW u \in Elems(M[h]) PROVE Hash[c[u].name] = h
  <2>1. CASE u = t
    <3>1. h = Hash[w]
      BY <2>1, <1>1, <1>4, <1>5, <1>7
    <3> QED BY <3>1, <2>1, <1>3
  <2>2. CASE u # t
    <3>1. u \in Elems(K[h]) /\ u \in Addresses
      BY <2>2, <1>1, <1>5
    <3>2. c[u] = b[u]
      BY <3>1, <2>2, <1>3
    <3>3. Hash[b[u].name] = h
      BY <3>1 DEF Filed
    <3> QED BY <3>2, <3>3
  <2> QED BY <2>1, <2>2
<1>8. ASSUME NEW h \in Store!Buckets, NEW u \in Elems(M[h]), NEW x \in Elems(M[h]), c[u].name = c[x].name
      PROVE  u = x
  <2>0. h \in Chains /\ (t \in Elems(M[h]) => h = Hash[w])
    BY <1>1, <1>4, <1>5
  <2>1. ASSUME NEW y \in Elems(M[h]), y # t PROVE y \in Elems(K[h]) /\ c[y] = b[y]
    <3>1. y \in Elems(K[h]) /\ y \in Addresses
      BY <2>0, <2>1, <1>5
    <3> QED BY <3>1, <2>1, <1>3
  <2>2. CASE u = t \/ x = t
    BY <2>0, <2>1, <2>2, <1>3, <1>8
  <2>3. CASE u # t /\ x # t
    <3>1. u \in Elems(K[h]) /\ x \in Elems(K[h]) /\ b[u].name = b[x].name
      BY <2>1, <2>3, <1>8
    <3> QED BY <3>1 DEF Filed
  <2> QED BY <2>2, <2>3
<1> QED BY <1>3, <1>6, <1>7, <1>8 DEF Filed

Carried(b, L, c, M, w) == \A x \in Names : \A y : x # w /\ Bound(b, L, x, y) => Bound(c, M, x, y)

LEMMA BoundMoved ==
  ASSUME NEW b, NEW L, Filed(b, L), NEW w \in Names, NEW p \in Elems(L[Hash[w]]), b[p].name = w, NEW K,
         \A m \in Chains : Elems(K[m]) = Left(L, Hash[w], p, m)
  PROVE  /\ Bound(b, K, w, NULL)
         /\ Carried(b, L, b, K, w)
<1>1. /\ \A x \in Names : Hash[x] \in Chains /\ Hash[x] # Pending /\ Hash[x] \in Store!Buckets
  BY StoreConstants, ListsAre
<1>2. \A x \in Names : Elems(K[Hash[x]]) = IF Hash[x] = Hash[w] THEN Elems(L[Hash[x]]) \ {p} ELSE Elems(L[Hash[x]])
  BY <1>1 DEF Left
<1>3. \A t, u \in Elems(L[Hash[w]]) : b[t].name = b[u].name => t = u
  BY <1>1 DEF Filed
<1>4. Bound(b, K, w, NULL)
  BY <1>2, <1>3 DEF Bound
<1>5. ASSUME NEW x \in Names, NEW y, x # w, Bound(b, L, x, y) PROVE Bound(b, K, x, y)
  <2>1. \A t \in Elems(L[Hash[x]]) : b[t].name = x => t \in Elems(K[Hash[x]])
    BY <1>2, <1>5
  <2>2. Elems(K[Hash[x]]) \subseteq Elems(L[Hash[x]])
    BY <1>2
  <2> QED BY <2>1, <2>2, <1>5 DEF Bound
<1> QED BY <1>4, <1>5 DEF Carried

LEMMA BoundGrown ==
  ASSUME NEW b, NEW K, Filed(b, K), NEW t \in Addresses, b[t] = NULL, NEW w \in Names, NEW v \in Values,
         NEW M, Grown(K, Hash[w], t, M), \A m \in Chains : Elems(K[m]) \subseteq Addresses,
         NEW c, c = [b EXCEPT ![t] = [name |-> w, value |-> v]]
  PROVE  /\ Bound(c, M, w, v)
         /\ Carried(b, K, c, M, w)
<1>1. /\ \A x \in Names : Hash[x] \in Chains
  BY StoreConstants, ListsAre
<1>2. b \in [Addresses -> Records \cup {NULL}] /\ \A l \in Chains : t \notin Elems(K[l])
  BY DEF Filed
<1>3. /\ c[t].name = w /\ c[t].value = v /\ \A u \in Addresses : u # t => c[u] = b[u]
  BY <1>2
<1>4. \A x \in Names : Elems(M[Hash[x]]) = IF Hash[x] = Hash[w] THEN Elems(K[Hash[x]]) \cup {t} ELSE Elems(K[Hash[x]])
  BY <1>1 DEF Grown
<1>5. Bound(c, M, w, v)
  BY <1>3, <1>4 DEF Bound
<1>6. ASSUME NEW x \in Names, NEW y, x # w, Bound(b, K, x, y) PROVE Bound(c, M, x, y)
  <2>1. \A u \in Elems(K[Hash[x]]) : u \in Elems(M[Hash[x]]) /\ c[u] = b[u]
    BY <1>1, <1>2, <1>3, <1>4
  <2>2. \A u \in Elems(M[Hash[x]]) : c[u].name = x => u \in Elems(K[Hash[x]])
    BY <1>3, <1>4, <1>6
  <2> QED BY <2>1, <2>2, <1>6 DEF Bound
<1> QED BY <1>5, <1>6 DEF Carried

LEMMA UnlinkedIs ==
  ASSUME NEW h, NEW p, NEW s, Store!List(hashtab[h]) = s
  PROVE  Unlinks(next, hashtab, Elems(s), h, p, Store!Unlinked(h, p).link, Store!Unlinked(h, p).head)
<1> DEFINE prev == {q \in Elems(s) : next[q] = p}
<1> DEFINE a == [next EXCEPT ![CHOOSE q \in prev : TRUE] = next[p]]
<1> DEFINE c == [hashtab EXCEPT ![h] = next[p]]
<1>1. prev = {q \in Store!On(Store!List(hashtab[h])) : next[q] = p}
  BY DEF Elems, Store!On
<1>2. Store!Unlinked(h, p) = IF prev = {} THEN [link |-> next, head |-> c] ELSE [link |-> a, head |-> hashtab]
  BY <1>1 DEF Store!Unlinked
<1> HIDE DEF a, c, prev
<1>3. /\ Store!Unlinked(h, p).link = IF prev = {} THEN next ELSE a
      /\ Store!Unlinked(h, p).head = IF prev = {} THEN c ELSE hashtab
  <2>1. CASE prev = {}
    BY <1>2, <2>1
  <2>2. CASE prev # {}
    BY <1>2, <2>2
  <2> QED BY <2>1, <2>2
<1> QED BY <1>3, Zenon DEF a, c, prev, Unlinks

LEMMA StoreRebuilt ==
  ASSUME NEW M, Shape(next', hashtab', nv_pending', M), Filed(binding', M),
         up' \in BOOLEAN, flash' \in Store!Images,
         \A g \in held' : g.ptr \in Addresses /\ binding'[g.ptr] # NULL /\ binding'[g.ptr].value = g.value
  PROVE  StoreInv'
BY DEF StoreInv, Kept

LEMMA SavedSame == ASSUME flash' = flash PROVE Store!Saved' = Store!Saved
BY DEF Store!Saved

LEMMA BoundFree ==
  ASSUME NEW b, NEW K, NEW w, Bound(b, K, w, NULL), \A t \in Elems(K[Hash[w]]) : b[t].value \in Values
  PROVE  \A t \in Elems(K[Hash[w]]) : b[t].name # w
BY StoreConstants DEF Bound

(* The tuple at p of the chain goes to nv_pending.                         *)
LEMMA Parked ==
  ASSUME NEW L, Kept(L), NEW w \in Names, NEW p, p = Store!Lookup(w), p # NULL,
         NEW hu, hu = Store!Unlinked(Hash[w], p).head,
         NEW nz, nz = [Store!Unlinked(Hash[w], p).link EXCEPT ![p] = nv_pending]
  PROVE  \E K : /\ Shape(nz, hu, p, K) /\ Filed(binding, K)
                /\ Bound(binding, K, w, NULL)
                /\ \A x \in Names : x # w => Bound(binding, K, x, Store!Mem[x])
<1> DEFINE h == Hash[w]
<1> DEFINE ny == Store!Unlinked(Hash[w], p).link
<1>1. h \in Store!Buckets
  BY StoreConstants
<1>2. Found(L, w, p) /\ \A x \in Names : Bound(binding, L, x, Store!Mem[x])
  BY SeenStore
<1>3. p \in Elems(L[h]) /\ binding[p].name = w /\ Store!List(hashtab[h]) = L[h]
  BY <1>2 DEF Found
<1>4. Unlinks(next, hashtab, Elems(L[h]), h, p, ny, hu)
  BY <1>3, UnlinkedIs
<1>5. Shape(next, hashtab, nv_pending, L) /\ Filed(binding, L) /\ Parks(ny, p, nv_pending, nz)
  BY DEF Kept, Parks
<1> HIDE DEF h, ny
<1>6. PICK K : Shape(nz, hu, p, K) /\ MovedTo(L, h, p, K)
  BY ONLY <1>1, <1>3, <1>4, <1>5, Moved
<1>7. Shape(nz, hu, p, K) /\ \A m \in Chains : Elems(K[m]) = Left(L, h, p, m)
  BY <1>6 DEF MovedTo
<1> USE DEF h
<1>8. Filed(binding, K)
  BY <1>1, <1>3, <1>5, <1>7, FiledMoved
<1>9. /\ Bound(binding, K, w, NULL)
      /\ Carried(binding, L, binding, K, w)
  BY <1>3, <1>5, <1>7, BoundMoved
<1> QED BY <1>2, <1>7, <1>8, <1>9 DEF Carried

LEMMA StoreUnset ==
  ASSUME StoreInv, NEW w \in Names, Store!Unset(w)
  PROVE  StoreInv' /\ Store!Store!Unset(w)
<1>1. PICK L : Kept(L)
  BY DEF StoreInv
<1> DEFINE p == Store!Lookup(w)
<1>2. /\ up /\ p # NULL /\ hashtab' = Store!Unlinked(Hash[w], p).head
      /\ next' = [Store!Unlinked(Hash[w], p).link EXCEPT ![p] = nv_pending]
      /\ nv_pending' = p /\ up' = up /\ binding' = binding /\ flash' = flash /\ held' = held
  BY DEF Store!Unset
<1>3. p = Store!Lookup(w)
  OBVIOUS
<1> HIDE DEF p
<1>4. PICK K : /\ Shape(next', hashtab', p, K) /\ Filed(binding, K) /\ Bound(binding, K, w, NULL)
               /\ \A x \in Names : x # w => Bound(binding, K, x, Store!Mem[x])
  BY <1>1, <1>2, <1>3, Parked
<1>5. StoreInv'
  <2>1. Shape(next', hashtab', nv_pending', K) /\ Filed(binding', K)
    BY <1>2, <1>4
  <2>2. /\ up' \in BOOLEAN /\ flash' \in Store!Images
        /\ \A g \in held' : g.ptr \in Addresses /\ binding'[g.ptr] # NULL /\ binding'[g.ptr].value = g.value
    BY <1>2 DEF StoreInv
  <2> QED BY <2>1, <2>2, StoreRebuilt
<1> DEFINE F == [Store!Mem EXCEPT ![w] = NULL]
<1>6. F = [x \in Names |-> F[x]] /\ F[w] = NULL /\ \A x \in Names : x # w => F[x] = Store!Mem[x]
  <2>1. Store!Mem = [x \in Names |-> Store!Mem[x]]
    BY LooksNow DEF Memory
  <2> QED BY <2>1
<1> HIDE DEF F
<1>7. Store!Mem' = F
  <2>1. \A x \in Names : Bound(binding', K, x, F[x])
    BY <1>2, <1>4, <1>6
  <2>2. Shape(next', hashtab', nv_pending', K) /\ Filed(binding', K)
    BY <1>2, <1>4
  <2> QED BY <2>1, <2>2, <1>6, MemThen
<1>8. Store!Saved' = Store!Saved
  BY <1>2, SavedSame
<1> QED BY <1>2, <1>5, <1>7, <1>8 DEF Store!Store!Unset, F

LEMMA StoreSet ==
  ASSUME StoreInv, NEW w \in Names, NEW v \in Values, Store!Set(w, v)
  PROVE  StoreInv' /\ Store!Store!Set(w, v)
<1>1. PICK L : Kept(L)
  BY DEF StoreInv
<1> DEFINE p == Store!Lookup(w)
<1> DEFINE h == Hash[w]
<1> DEFINE t == Store!New(w)
<1> DEFINE link == IF p = NULL THEN next ELSE [Store!Unlinked(h, p).link EXCEPT ![p] = nv_pending]
<1> DEFINE head == IF p = NULL THEN hashtab ELSE Store!Unlinked(h, p).head
<1> DEFINE pend == IF p = NULL THEN nv_pending ELSE p
<1>2. /\ up /\ Store!Free # {} /\ nv_pending' = pend
      /\ binding' = [binding EXCEPT ![t] = [name |-> w, value |-> v]]
      /\ next' = [link EXCEPT ![t] = head[h]] /\ hashtab' = [head EXCEPT ![h] = t]
      /\ up' = up /\ flash' = flash /\ held' = held
  <2>1. CASE p = NULL
    BY <2>1 DEF Store!Set
  <2>2. CASE p # NULL
    BY <2>2 DEF Store!Set
  <2> QED BY <2>1, <2>2
<1>3. t \in Addresses /\ binding[t] = NULL
  BY <1>2, StoreConstants DEF Store!New, Store!Free
<1>4. h \in Store!Buckets /\ p = Store!Lookup(w)
  BY StoreConstants
<1> HIDE DEF p, t
<1>5. Found(L, w, p) /\ \A x \in Names : Bound(binding, L, x, Store!Mem[x])
  BY <1>1, <1>4, SeenStore
<1>6. PICK K : /\ Shape(link, head, pend, K) /\ Filed(binding, K) /\ Bound(binding, K, w, NULL)
               /\ \A x \in Names : x # w => Bound(binding, K, x, Store!Mem[x])
  <2>1. CASE p = NULL
    <3>1. Shape(next, hashtab, nv_pending, L) /\ Filed(binding, L)
      BY <1>1 DEF Kept
    <3>2. \A u \in Elems(L[h]) : binding[u].name # w
      <4>1. h \in Chains /\ Elems(L[h]) \subseteq Addresses
        BY <1>4, <3>1, ListsAre, ShapeIs DEF Apart
      <4>2. \A u \in Elems(L[h]) : binding[u].name = w => u = NULL
        BY <1>5, <2>1 DEF Found
      <4> QED BY <4>1, <4>2, StoreConstants
    <3>3. Bound(binding, L, w, NULL)
      BY <3>2 DEF Bound
    <3> QED BY <2>1, <3>1, <3>3, <1>5
  <2>2. CASE p # NULL
    BY <2>2, <1>1, <1>4, Parked
  <2> QED BY <2>1, <2>2
<1> HIDE DEF link, head, pend
<1>7. /\ \A m \in Chains : t \notin Elems(K[m]) /\ Elems(K[m]) \subseteq Addresses
      /\ \A u \in Elems(K[h]) : binding[u].name # w
  <2>1. \A m \in Chains : Elems(K[m]) \subseteq Addresses
    BY <1>6, ShapeIs DEF Apart
  <2>2. \A m \in Chains : t \notin Elems(K[m])
    BY <1>3, <1>6 DEF Filed
  <2>3. \A u \in Elems(K[h]) : binding[u] \in Records
    <3>1. h \in Chains
      BY <1>4, ListsAre
    <3>2. binding \in [Addresses -> Records \cup {NULL}] /\ \A u \in Addresses : binding[u] # NULL <=> \E l \in Chains : u \in Elems(K[l])
      BY <1>6 DEF Filed
    <3> QED BY <3>1, <3>2, <2>1
  <2>4. \A u \in Elems(K[h]) : binding[u].value \in Values
    BY <2>3 DEF Records
  <2>5. \A u \in Elems(K[h]) : binding[u].name # w
    BY <2>4, <1>6, BoundFree
  <2> QED BY <2>1, <2>2, <2>5
<1>8. PICK M : Shape(next', hashtab', nv_pending', M) /\ Grown(K, h, t, M)
  BY <1>2, <1>3, <1>4, <1>6, <1>7, Inserted
<1>9. Filed(binding', M)
  BY <1>2, <1>3, <1>6, <1>7, <1>8, FiledGrown
<1>10. /\ Bound(binding', M, w, v)
       /\ Carried(binding, K, binding', M, w)
  BY <1>2, <1>3, <1>6, <1>7, <1>8, BoundGrown
<1>11. StoreInv'
  <2>1. /\ up' \in BOOLEAN /\ flash' \in Store!Images
    BY <1>2 DEF StoreInv
  <2>2. ASSUME NEW g \in held'
        PROVE  g.ptr \in Addresses /\ binding'[g.ptr] # NULL /\ binding'[g.ptr].value = g.value
    <3>1. g.ptr \in Addresses /\ binding[g.ptr] # NULL /\ binding[g.ptr].value = g.value
      BY <1>2 DEF StoreInv
    <3>2. g.ptr # t
      BY <3>1, <1>3
    <3>3. binding \in [Addresses -> Records \cup {NULL}]
      BY <1>6 DEF Filed
    <3>4. binding'[g.ptr] = binding[g.ptr]
      BY <3>1, <3>2, <3>3, <1>2
    <3> QED BY <3>1, <3>4
  <2> QED BY <2>1, <2>2, <1>8, <1>9, StoreRebuilt
<1> DEFINE F == [Store!Mem EXCEPT ![w] = v]
<1>12. F = [x \in Names |-> F[x]] /\ F[w] = v /\ \A x \in Names : x # w => F[x] = Store!Mem[x]
  <2>1. Store!Mem = [x \in Names |-> Store!Mem[x]]
    BY LooksNow DEF Memory
  <2> QED BY <2>1
<1> HIDE DEF F
<1>13. Store!Mem' = F
  <2>1. \A x \in Names : Bound(binding', M, x, F[x])
    BY <1>6, <1>10, <1>12 DEF Carried
  <2> QED BY <2>1, <1>8, <1>9, <1>12, MemThen
<1>14. Store!Saved' = Store!Saved
  BY <1>2, SavedSame
<1> QED BY <1>2, <1>11, <1>13, <1>14 DEF Store!Store!Set, F

(* An image is a sequence of tuples with different names.                  *)
LEMMA ImageIs ==
  ASSUME NEW f \in Store!Images
  PROVE  /\ Len(f) \in 0..Space /\ f \in Seq(Records) /\ \A i \in 1..Len(f) : f[i] \in Records
         /\ \A i, j \in 1..Len(f) : f[i].name = f[j].name => i = j
<1>1. PICK k \in 0..Space : f \in [1..k -> Records]
  BY DEF Store!Images, Records
<1>2. k \in Nat
  BY StoreConstants
<1>3. f \in Seq(Records) /\ Len(f) = k
  BY <1>1, <1>2
<1>4. \A i, j \in 1..Len(f) : i # j => f[i].name # f[j].name
  BY DEF Store!Images
<1> QED BY <1>1, <1>2, <1>3, <1>4

LEMMA IsImage ==
  ASSUME NEW f \in Seq(Records), Len(f) <= Space,
         \A i, j \in 1..Len(f) : f[i].name = f[j].name => i = j
  PROVE  f \in Store!Images
<1>1. Len(f) \in 0..Space /\ f \in [1..Len(f) -> Records]
  BY LenProperties, StoreConstants
<1>2. f \in UNION {[1..k -> Records] : k \in 0..Space}
  BY <1>1
<1> QED BY <1>2 DEF Store!Images, Records

Says(f, w, y) ==
  \/ \E i \in 1..Len(f) : f[i].name = w /\ y = f[i].value
  \/ y = NULL /\ \A i \in 1..Len(f) : f[i].name # w
LEMMA SaysOnce ==
  ASSUME NEW f \in Store!Images, NEW w, NEW y, NEW z, Says(f, w, y), Says(f, w, z)
  PROVE  y = z
<1>1. \A i, j \in 1..Len(f) : f[i].name = f[j].name => i = j
  BY ImageIs
<1> QED BY <1>1 DEF Says

SavedView == Store!Saved = [w \in Names |-> Store!Saved[w]] /\ \A w \in Names : Says(flash, w, Store!Saved[w])
LEMMA SavedNow == SavedView
<1>1. Store!Saved = [w \in Names |-> Store!Saved[w]]
  BY DEF Store!Saved
<1>2. ASSUME NEW w \in Names PROVE Says(flash, w, Store!Saved[w])
  <2> DEFINE k == {k \in 1..Len(flash) : flash[k].name = w}
  <2>1. Store!Saved[w] = IF k = {} THEN NULL ELSE flash[CHOOSE i \in k : TRUE].value
    BY DEF Store!Saved
  <2>2. CASE k = {}
    BY <2>1, <2>2 DEF Says
  <2>3. CASE k # {}
    <3> DEFINE i == CHOOSE i \in k : TRUE
    <3>1. i \in k /\ Store!Saved[w] = flash[i].value
      <4> HIDE DEF k
      <4> QED BY <2>1, <2>3
    <3> HIDE DEF i
    <3> QED BY <3>1 DEF Says
  <2> QED BY <2>2, <2>3
<1> QED BY <1>1, <1>2 DEF SavedView
LEMMA SavedThen == SavedView'
BY SavedNow, PTL

LEMMA SavedIs ==
  ASSUME flash' \in Store!Images, NEW F, F = [w \in Names |-> F[w]], \A w \in Names : Says(flash', w, F[w])
  PROVE  Store!Saved' = F
<1>1. Store!Saved' = [w \in Names |-> Store!Saved'[w]] /\ \A w \in Names : Says(flash', w, Store!Saved'[w])
  BY SavedThen DEF SavedView, Says
<1>2. \A w \in Names : Store!Saved'[w] = F[w]
  BY <1>1, SaysOnce
<1> QED BY <1>1, <1>2

-----------------------------------------------------------------------------
(* nvram_internalize: the chain of a bucket holds the tuples that hash to  *)
(* it, the last first.                                                     *)
HashedTo(f, h, k) == {i \in 1..k : Hash[f[i].name] = h}
NewestOf(s) == IF s = {} THEN NULL ELSE CHOOSE i \in s : \A j \in s : j <= i
Chained(nx, f, h, k) == \E s : Path(nx, NewestOf(HashedTo(f, h, k)), s) /\ Elems(s) = HashedTo(f, h, k)
LEMMA EmptyPath == ASSUME NEW nx PROVE Path(nx, NULL, <<>>) /\ Elems(<<>>) = {} /\ <<>> \in Seq(Addresses)
BY DEF Path, Nth, Elems
LEMMA ChainsAre ==
  ASSUME NEW f \in Store!Images, NEW h, NEW nx,
         \A t \in 1..Len(f) : nx[t] = NewestOf(HashedTo(f, Hash[f[t].name], t - 1))
  PROVE  Chained(nx, f, h, Len(f))
<1> DEFINE N == Len(f)
<1>0. N \in Nat /\ N <= MaxTuples /\ MaxTuples \in Nat
  BY ImageIs, StoreConstants
<1> HIDE DEF N
<1> DEFINE T == {k \in 0..N : Chained(nx, f, h, k)}
<1>1. 0 \in T
  <2>1. HashedTo(f, h, 0) = {}
    BY DEF HashedTo
  <2>2. NewestOf(HashedTo(f, h, 0)) = NULL
    BY <2>1 DEF NewestOf
  <2>3. Chained(nx, f, h, 0)
    BY <2>1, <2>2, EmptyPath DEF Chained
  <2> QED BY <2>3, <1>0
<1>2. ASSUME NEW k \in 0..N - 1, k \in T PROVE k + 1 \in T
  <2>0. k + 1 \in 1..N /\ k + 1 \in 0..N /\ (k + 1) - 1 = k /\ k \in Nat /\ k + 1 \in Addresses
    BY <1>0 DEF Addresses
  <2>1. PICK s : Path(nx, NewestOf(HashedTo(f, h, k)), s) /\ Elems(s) = HashedTo(f, h, k)
    BY <1>2 DEF Chained
  <2>2. CASE Hash[f[k + 1].name] = h
    <3>1. HashedTo(f, h, k + 1) = HashedTo(f, h, k) \cup {k + 1} /\ k + 1 \notin HashedTo(f, h, k)
      BY <2>0, <2>2 DEF HashedTo
    <3>2. NewestOf(HashedTo(f, h, k + 1)) = k + 1
      <4> DEFINE S == HashedTo(f, h, k + 1)
      <4>1. k + 1 \in S /\ \A j \in S : j \in Nat /\ j <= k + 1
        BY <3>1, <2>0 DEF HashedTo
      <4> HIDE DEF S
      <4>2. \A i \in S : (\A j \in S : j <= i) => i = k + 1
        BY <4>1
      <4>3. (CHOOSE i \in S : \A j \in S : j <= i) = k + 1
        BY <4>1, <4>2
      <4> QED BY <4>1, <4>3 DEF NewestOf, S
    <3>3. nx[k + 1] = NewestOf(HashedTo(f, h, k))
      BY <2>0, <2>2 DEF N
    <3> DEFINE p == NewestOf(HashedTo(f, h, k))
    <3>4. Path(nx, p, s) /\ nx[k + 1] = p /\ k + 1 \notin Elems(s)
      BY <2>1, <3>1, <3>3
    <3> HIDE DEF p
    <3>5. Path(nx, k + 1, <<k + 1>> \o s) /\ Elems(<<k + 1>> \o s) = Elems(s) \cup {k + 1}
      BY <2>0, <3>4, PathPush
    <3>6. Chained(nx, f, h, k + 1)
      BY <2>1, <3>1, <3>2, <3>5 DEF Chained
    <3> QED BY <2>0, <3>6
  <2>3. CASE Hash[f[k + 1].name] # h
    <3>1. HashedTo(f, h, k + 1) = HashedTo(f, h, k)
      BY <2>0, <2>3 DEF HashedTo
    <3>2. Chained(nx, f, h, k + 1)
      BY <2>1, <3>1 DEF Chained
    <3> QED BY <2>0, <3>2
  <2> QED BY <2>2, <2>3
<1>3. \A k \in 0..N : k \in T
  <2> HIDE DEF T
  <2> QED BY <1>0, <1>1, <1>2, Upward
<1>4. N \in T
  BY <1>0, <1>3
<1> QED BY <1>4 DEF N

LEMMA NewestIn ==
  ASSUME NEW f \in Store!Images, NEW h, NEW k \in 0..Len(f)
  PROVE  NewestOf(HashedTo(f, h, k)) \in Addresses \cup {NULL} /\ HashedTo(f, h, k) \subseteq 1..Len(f)
<1>0. Len(f) \in Nat /\ Len(f) <= MaxTuples /\ MaxTuples \in Nat
  BY ImageIs, StoreConstants
<1>1. HashedTo(f, h, k) \subseteq 1..k
  BY DEF HashedTo
<1>2. HashedTo(f, h, k) \subseteq 1..Len(f) /\ HashedTo(f, h, k) \subseteq Addresses
  BY <1>0, <1>1 DEF Addresses
<1> DEFINE S == HashedTo(f, h, k)
<1> HIDE DEF S
<1>3. CASE S = {}
  BY <1>2, <1>3 DEF NewestOf, S
<1>4. CASE S # {}
  <2> DEFINE U == {k - i : i \in S}
  <2>1. S \subseteq 1..k
    BY <1>1 DEF S
  <2>2. U \subseteq Nat /\ U # {}
    <3>1. \A i \in S : i \in Nat /\ i <= k /\ k \in Nat
      BY <2>1, <1>0
    <3>2. \A i \in S : k - i \in Nat
      BY <3>1
    <3> QED BY <3>2, <1>4
  <2>3. PICK m \in U : \A u \in U : m <= u
    <3> HIDE DEF U
    <3> QED BY <2>2, NatMin
  <2>4. PICK i \in S : m = k - i
    BY DEF U
  <2>5. \A j \in S : j <= i
    <3>1. ASSUME NEW j \in S PROVE j <= i
      <4>1. k - i <= k - j /\ i \in Nat /\ j \in Nat /\ k \in Nat
        <5>1. k - j \in U
          OBVIOUS
        <5>2. k - i <= k - j
          BY <5>1, <2>3, <2>4
        <5> QED BY <5>2, <2>1, <1>0
      <4> QED BY <4>1
    <3> QED BY <3>1
  <2>6. (CHOOSE x \in S : \A j \in S : j <= x) \in S
    BY <2>5
  <2> QED BY <2>6, <1>2, <1>4 DEF NewestOf, S
<1> QED BY <1>2, <1>3, <1>4

LEMMA StoreRestart ==
  ASSUME StoreInv, Store!Restart
  PROVE  StoreInv' /\ Store!Store!Restart
<1> DEFINE N == Len(flash)
<1>1. flash \in Store!Images /\ flash' = flash /\ up' = TRUE /\ nv_pending' = NULL /\ held' = {}
  BY DEF Store!Restart, StoreInv
<1>2. /\ N \in Nat /\ N <= MaxTuples /\ MaxTuples \in Nat /\ \A i \in 1..N : i \in Addresses /\ flash[i] \in Records
      /\ \A i, j \in 1..N : flash[i].name = flash[j].name => i = j
  BY <1>1, ImageIs, StoreConstants DEF Addresses
<1>3. /\ binding' = [t \in Addresses |-> IF t <= N THEN flash[t] ELSE NULL]
      /\ next' = [t \in Addresses |-> IF t <= N THEN NewestOf(HashedTo(flash, Hash[flash[t].name], t - 1)) ELSE NULL]
      /\ hashtab' = [h \in Store!Buckets |-> NewestOf(HashedTo(flash, h, N))]
  BY DEF Store!Restart, Store!Internalize, NewestOf, HashedTo, Addresses, Store!Tuples
<1> HIDE DEF N
<1>4. \A t \in 1..N : t <= N /\ t - 1 \in 0..N
  BY <1>2
<1>5. \A t \in Addresses : t <= N <=> t \in 1..N
  BY <1>2 DEF Addresses
<1>6. \A t \in 1..N : NewestOf(HashedTo(flash, Hash[flash[t].name], t - 1)) \in Addresses \cup {NULL}
  BY <1>1, <1>4, NewestIn DEF N
<1>7. \A h : NewestOf(HashedTo(flash, h, N)) \in Addresses \cup {NULL} /\ HashedTo(flash, h, N) \subseteq 1..N
  <2>1. N \in 0..Len(flash)
    BY <1>2 DEF N
  <2> QED BY <1>1, <2>1, NewestIn DEF N
<1>8. /\ next' \in Links /\ hashtab' \in Roots
      /\ \A t \in 1..N : next'[t] = NewestOf(HashedTo(flash, Hash[flash[t].name], t - 1))
      /\ \A h \in Store!Buckets : hashtab'[h] = NewestOf(HashedTo(flash, h, N))
  <2>1. next' \in Links
    BY <1>3, <1>5, <1>6 DEF Links
  <2>2. hashtab' \in Roots
    BY <1>3, <1>7 DEF Roots
  <2> QED BY <2>1, <2>2, <1>2, <1>3, <1>4
<1> DEFINE L == [l \in Chains |-> IF l = Pending THEN <<>> ELSE
                   CHOOSE s : Path(next', NewestOf(HashedTo(flash, l, N)), s) /\ Elems(s) = HashedTo(flash, l, N)]
<1>9. \A h : Chained(next', flash, h, N)
  BY <1>1, <1>8, ChainsAre DEF N
<1>10. \A l \in Chains : l # Pending => Path(next', NewestOf(HashedTo(flash, l, N)), L[l]) /\ Elems(L[l]) = HashedTo(flash, l, N)
  BY <1>9 DEF Chained
<1>11. Pending \in Chains /\ L[Pending] = <<>> /\ DOMAIN L = Chains /\ L = [l \in Chains |-> L[l]]
  BY ListsAre
<1> HIDE DEF L
<1>12. \A l \in Chains : /\ Path(next', Root(hashtab', nv_pending', l), L[l])
                        /\ Elems(L[l]) = IF l = Pending THEN {} ELSE HashedTo(flash, l, N)
  <2>1. ASSUME NEW l \in Chains, l # Pending PROVE Root(hashtab', nv_pending', l) = NewestOf(HashedTo(flash, l, N))
    BY <2>1, <1>8, ListsAre DEF Root
  <2>2. Root(hashtab', nv_pending', Pending) = NULL
    BY <1>1 DEF Root
  <2> QED BY <2>1, <2>2, <1>10, <1>11, EmptyPath
<1>13. Shape(next', hashtab', nv_pending', L)
  <2>1. L \in [Chains -> Seq(Addresses)]
    BY <1>11, <1>12 DEF Path
  <2>2. \A l, m \in Chains : \A t \in Elems(L[l]) : t \in Elems(L[m]) => l = m
    <3>1. \A l \in Chains : \A t \in Elems(L[l]) : l # Pending /\ l = Hash[flash[t].name]
      BY <1>12 DEF HashedTo
    <3>2. ASSUME NEW l \in Chains, NEW m \in Chains, NEW t \in Elems(L[l]), t \in Elems(L[m]) PROVE l = m
      <4>1. l = Hash[flash[t].name]
        BY <3>1
      <4>2. m = Hash[flash[t].name]
        BY <3>1, <3>2
      <4> QED BY <4>1, <4>2
    <3> QED BY <3>2
  <2>3. nv_pending' \in Addresses \cup {NULL} /\ \A l \in Chains : Path(next', Root(hashtab', nv_pending', l), L[l])
    BY <1>1, <1>12
  <2> QED BY <2>1, <2>2, <2>3, <1>8 DEF Shape
<1>14. /\ binding' \in [Addresses -> Records \cup {NULL}]
       /\ \A t \in 1..N : binding'[t] = flash[t] /\ binding'[t] # NULL
       /\ \A t \in Addresses : t \notin 1..N => binding'[t] = NULL
  BY <1>2, <1>3, <1>5, StoreConstants
<1>15. /\ \A h \in Store!Buckets : \A t \in Elems(L[h]) : t \in 1..N /\ Hash[flash[t].name] = h
       /\ \A t \in 1..N : t \in Elems(L[Hash[flash[t].name]]) /\ flash[t].name \in Names
  <2>1. \A h \in Store!Buckets : Elems(L[h]) = HashedTo(flash, h, N)
    BY <1>12, ListsAre
  <2>2. \A t \in 1..N : flash[t].name \in Names
    BY <1>2 DEF Records
  <2> QED BY <2>1, <2>2, StoreConstants DEF HashedTo
<1>16. Filed(binding', L)
  <2>1. ASSUME NEW t \in Addresses PROVE binding'[t] # NULL <=> \E l \in Chains : t \in Elems(L[l])
    <3>1. CASE t \in 1..N
      <4>1. Hash[flash[t].name] \in Chains
        BY <3>1, <1>15, StoreConstants, ListsAre
      <4> QED BY <3>1, <4>1, <1>14, <1>15
    <3>2. CASE t \notin 1..N
      <4>1. \A l \in Chains : t \notin Elems(L[l])
        BY <3>2, <1>12 DEF HashedTo
      <4> QED BY <3>2, <4>1, <1>14
    <3> QED BY <3>1, <3>2
  <2>2. \A h \in Store!Buckets : \A t \in Elems(L[h]) : Hash[binding'[t].name] = h
    BY <1>14, <1>15
  <2>3. \A h \in Store!Buckets : \A t, u \in Elems(L[h]) : binding'[t].name = binding'[u].name => t = u
    BY <1>2, <1>14, <1>15
  <2> QED BY <2>1, <2>2, <2>3, <1>14 DEF Filed
<1>17. StoreInv'
  BY <1>1, <1>13, <1>16, StoreRebuilt
<1>18. Store!Mem' = Store!Saved
  <2>1. SavedView
    BY SavedNow
  <2>2. ASSUME NEW w \in Names PROVE Bound(binding', L, w, Store!Saved[w])
    <3>1. Says(flash, w, Store!Saved[w])
      BY <2>1 DEF SavedView
    <3>2. \A t \in Elems(L[Hash[w]]) : t \in 1..N /\ binding'[t] = flash[t]
      BY <1>14, <1>15, StoreConstants
    <3>3. \A i \in 1..N : flash[i].name = w => i \in Elems(L[Hash[w]]) /\ binding'[i] = flash[i]
      BY <1>14, <1>15
    <3> QED BY <3>1, <3>2, <3>3 DEF Says, Bound, N
  <2>3. Store!Saved = [w \in Names |-> Store!Saved[w]]
    BY <2>1 DEF SavedView
  <2> QED BY <2>2, <2>3, <1>13, <1>16, MemThen
<1>19. Store!Saved' = Store!Saved
  BY <1>1, SavedSame
<1> QED BY <1>1, <1>17, <1>18, <1>19 DEF Store!Store!Restart

(* Every place of the whole lies in a piece.                               *)
InPiece(s, o, i) == \E k \in 1..Len(s) : \E j \in 1..Len(s[k]) : i = o[k - 1] + j
LEMMA PieceOf ==
  ASSUME NEW S, NEW s \in Seq(Seq(S)), NEW o, Places(s, o), NEW i \in 1..Len(Addr!FlattenSeq(s))
  PROVE  InPiece(s, o, i)
<1> DEFINE N == Len(s)
<1>0. N \in Nat /\ \A k \in 1..N : Len(s[k]) \in Nat
  BY LenProperties
<1>1. /\ o \in [0..N -> Nat] /\ o[0] = 0 /\ Len(Addr!FlattenSeq(s)) = o[N]
      /\ \A k \in 1..N : o[k] = o[k - 1] + Len(s[k])
  BY DEF Places
<1> HIDE DEF N
<1> DEFINE K == {k \in 1..N : i <= o[k]}
<1>2. i \in Nat /\ i >= 1 /\ i <= o[N]
  BY <1>0, <1>1
<1>3. K \subseteq Nat /\ K # {}
  <2>1. N # 0
    BY <1>1, <1>2
  <2>2. N \in K
    BY <2>1, <1>0, <1>2
  <2>3. \A k \in K : k \in Nat
    BY <1>0
  <2> QED BY <2>2, <2>3
<1> HIDE DEF K
<1>4. PICK k \in K : \A m \in K : k <= m
  BY <1>3, NatMin
<1>5. k \in 1..N /\ i <= o[k] /\ k - 1 \in 0..N
  BY <1>0 DEF K
<1>6. o[k - 1] < i
  <2>1. CASE k = 1
    BY <2>1, <1>1, <1>2
  <2>2. CASE k # 1
    <3>1. k - 1 \in 1..N /\ ~(k <= k - 1)
      BY <2>2, <1>0, <1>5
    <3>2. k - 1 \notin K
      BY <3>1, <1>4
    <3>3. o[k - 1] \in Nat
      BY <1>1, <1>5
    <3> QED BY <3>1, <3>2, <3>3, <1>2 DEF K
  <2> QED BY <2>1, <2>2
<1>7. i - o[k - 1] \in 1..Len(s[k]) /\ i = o[k - 1] + (i - o[k - 1])
  <2>1. o[k - 1] \in Nat /\ o[k] = o[k - 1] + Len(s[k]) /\ Len(s[k]) \in Nat
    BY <1>0, <1>1, <1>5
  <2> QED BY <2>1, <1>2, <1>5, <1>6
<1> QED BY <1>5, <1>7 DEF N, InPiece

LEMMA FlattenSame == \A s : Store!FlattenSeq(s) = Addr!FlattenSeq(s)
BY DEF Store!FlattenSeq, Addr!FlattenSeq

(* What nvram_commit writes: the tuples of the chains, each once.          *)
Written(L, c, o) ==
  /\ c \in Seq(Records)
  /\ \A i \in 1..Len(c) : \E h \in Store!Buckets : \E j \in 1..Len(L[h]) : i = o[h] + j /\ c[i] = binding[L[h][j]]
  /\ \A h \in Store!Buckets : \A j \in 1..Len(L[h]) : o[h] + j \in 1..Len(c) /\ c[o[h] + j] = binding[L[h][j]]
LEMMA ContentsAre ==
  ASSUME NEW L, Kept(L)
  PROVE  \E o : Written(L, Store!Contents, o)
<1> DEFINE N == Cardinality(Names) + 1
<1> DEFINE s == [k \in 1..N |-> IF k - 1 \in Store!Buckets THEN Store!Chain(k - 1) ELSE <<>>]
<1> DEFINE c == Addr!FlattenSeq(s)
<1>0. /\ N \in Nat /\ N > 0 /\ \A h \in Store!Buckets : h \in 0..N - 1 /\ h + 1 \in 1..N /\ (h + 1) - 1 = h
  BY StoreConstants
<1>1. Store!Contents = c
  <2>1. Store!Contents = Store!FlattenSeq([k \in 1..Store!Cardinality(Names) + 1 |-> IF k - 1 \in Store!Buckets THEN Store!Chain(k - 1) ELSE <<>>])
    BY DEF Store!Contents
  <2>2. Store!Cardinality(Names) = Cardinality(Names)
    BY CardStore
  <2> QED BY <2>1, <2>2, FlattenSame
<1>2. Apart(next, hashtab, nv_pending, L) /\ Filed(binding, L)
  BY ShapeIs DEF Kept
<1>3. ASSUME NEW h \in Store!Buckets
      PROVE  /\ L[h] \in Seq(Addresses) /\ Len(L[h]) \in Nat
             /\ \A j \in 1..Len(L[h]) : binding[L[h][j]] \in Records
             /\ Store!Chain(h) = [j \in 1..Len(L[h]) |-> binding[L[h][j]]]
  <2>1. h \in Chains /\ h # Pending
    BY ListsAre
  <2>2. Path(next, hashtab[h], L[h]) /\ L[h] \in Seq(Addresses)
    BY <2>1, <1>2 DEF Apart, Root
  <2>3. Store!List(hashtab[h]) = L[h]
    BY <2>2, ListSame, ListIs
  <2>4. Len(L[h]) \in Nat /\ \A j \in 1..Len(L[h]) : L[h][j] \in Addresses /\ L[h][j] \in Elems(L[h])
    BY <2>2, NthIs DEF Elems
  <2>5. \A j \in 1..Len(L[h]) : binding[L[h][j]] \in Records
    <3>1. binding \in [Addresses -> Records \cup {NULL}] /\ \A t \in Addresses : (\E l \in Chains : t \in Elems(L[l])) => binding[t] # NULL
      BY <1>2 DEF Filed
    <3> QED BY <3>1, <2>1, <2>4
  <2>6. Store!Chain(h) = [j \in 1..Len(L[h]) |-> binding[L[h][j]]]
    BY <2>3 DEF Store!Chain
  <2> QED BY <2>2, <2>4, <2>5, <2>6
<1>4. \A h \in Store!Buckets : Store!Chain(h) \in Seq(Records) /\ Len(Store!Chain(h)) = Len(L[h])
                               /\ \A j \in 1..Len(L[h]) : Store!Chain(h)[j] = binding[L[h][j]]
  <2>1. ASSUME NEW h \in Store!Buckets
        PROVE  Store!Chain(h) \in Seq(Records) /\ Len(Store!Chain(h)) = Len(L[h])
               /\ \A j \in 1..Len(L[h]) : Store!Chain(h)[j] = binding[L[h][j]]
    <3> DEFINE m == Len(L[h])
    <3> DEFINE b == [j \in 1..m |-> binding[L[h][j]]]
    <3>1. m \in Nat /\ \A j \in 1..m : b[j] \in Records /\ b[j] = binding[L[h][j]]
      BY <1>3
    <3>2. b \in [1..m -> Records] /\ Store!Chain(h) = b
      BY <3>1, <1>3
    <3>3. \A j \in 1..m : b[j] = binding[L[h][j]]
      BY <3>1
    <3> HIDE DEF b, m
    <3>4. b \in Seq(Records) /\ Len(b) = m
      BY <3>1, <3>2
    <3> QED BY <3>2, <3>3, <3>4 DEF m
  <2> QED BY <2>1
<1>5. /\ s \in Seq(Seq(Records)) /\ Len(s) = N
      /\ \A h \in Store!Buckets : s[h + 1] = Store!Chain(h)
      /\ \A k \in 1..N : k - 1 \notin Store!Buckets => s[k] = <<>>
  <2>0. \A k \in 1..N : k - 1 \in Store!Buckets => s[k] = Store!Chain(k - 1)
    OBVIOUS
  <2>1. \A k \in 1..N : k - 1 \notin Store!Buckets => s[k] = <<>>
    OBVIOUS
  <2>2. <<>> \in Seq(Records)
    OBVIOUS
  <2>3. \A k \in 1..N : s[k] \in Seq(Records)
    <3> HIDE DEF s
    <3> QED BY <2>0, <2>1, <2>2, <1>4
  <2>4. s \in [1..N -> Seq(Records)]
    <3>1. s = [k \in 1..N |-> s[k]]
      OBVIOUS
    <3> HIDE DEF s
    <3> QED BY <2>3, <3>1
  <2> HIDE DEF s, N
  <2> QED BY <2>0, <2>1, <2>4, <1>0
<1> HIDE DEF s
<1>6. PICK o : Places(s, o)
  BY <1>0, <1>5, Pieces
<1>7. /\ o \in [0..N -> Nat] /\ Len(c) = o[N]
      /\ \A k \in 1..N : o[k] = o[k - 1] + Len(s[k]) /\ o[k] <= o[N]
      /\ \A k \in 1..N : \A j \in 1..Len(s[k]) : c[o[k - 1] + j] = s[k][j]
  BY <1>5, <1>6 DEF Places
<1>8. ASSUME NEW h \in Store!Buckets, NEW j \in 1..Len(L[h])
      PROVE  o[h] + j \in 1..Len(c) /\ c[o[h] + j] = binding[L[h][j]]
  <2>1. s[h + 1] = Store!Chain(h) /\ Len(s[h + 1]) = Len(L[h]) /\ Len(L[h]) \in Nat /\ o[h] \in Nat /\ o[N] \in Nat
    <3>1. h \in 0..N /\ N \in 0..N
      BY <1>0
    <3> QED BY <3>1, <1>3, <1>4, <1>5, <1>7
  <2>2. o[h + 1] = o[h] + Len(L[h]) /\ o[h + 1] <= o[N]
    <3>1. o[h + 1] = o[(h + 1) - 1] + Len(s[h + 1]) /\ o[h + 1] <= o[N]
      BY <1>0, <1>7
    <3> QED BY <3>1, <2>1, <1>0
  <2>3. c[o[(h + 1) - 1] + j] = s[h + 1][j]
    BY <2>1, <1>0, <1>7
  <2>4. o[h] + j \in 1..Len(c)
    BY <2>1, <2>2, <1>7
  <2> QED BY <2>1, <2>3, <2>4, <1>0, <1>4
<1>9. ASSUME NEW i \in 1..Len(c)
      PROVE  \E h \in Store!Buckets : \E j \in 1..Len(L[h]) : i = o[h] + j /\ c[i] = binding[L[h][j]]
  <2>1. PICK k \in 1..N : \E j \in 1..Len(s[k]) : i = o[k - 1] + j
    <3>1. InPiece(s, o, i)
      BY <1>5, <1>6, PieceOf
    <3> QED BY <3>1, <1>5 DEF InPiece
  <2>2. PICK j \in 1..Len(s[k]) : i = o[k - 1] + j
    BY <2>1
  <2>3. k - 1 \in Store!Buckets
    <3>1. Len(<<>>) = 0
      OBVIOUS
    <3>2. s[k] # <<>>
      BY <3>1
    <3> QED BY <3>2, <1>5
  <2> DEFINE h == k - 1
  <2>4. h \in Store!Buckets /\ h + 1 = k /\ i = o[h] + j
    BY <2>2, <2>3, <1>0
  <2> HIDE DEF h
  <2>5. j \in 1..Len(L[h])
    BY <2>4, <1>4, <1>5
  <2> QED BY <2>4, <2>5, <1>8
<1>10. c \in Seq(Records)
  <2>1. \A i \in 1..Len(c) : c[i] \in Records
    BY <1>3, <1>9
  <2>2. c \in Seq(Records)
    BY <1>0, <1>5, Pieces
  <2> QED BY <2>2
<1>11. Written(L, c, o)
  BY <1>8, <1>9, <1>10 DEF Written
<1> QED BY <1>1, <1>11

(* A step that leaves the tuples and the links keeps the memory.           *)
LEMMA MemSame ==
  ASSUME StoreInv, binding' = binding, next' = next, hashtab' = hashtab, nv_pending' = nv_pending
  PROVE  Store!Mem' = Store!Mem
<1>1. PICK L : Kept(L)
  BY DEF StoreInv
<1> DEFINE F == Store!Mem
<1>2. /\ F = [w \in Names |-> F[w]] /\ \A w \in Names : Bound(binding, L, w, F[w])
  <2>1. \A w \in Names : Bound(binding, L, w, Store!Mem[w])
    BY <1>1, SeenStore
  <2>2. Store!Mem = [w \in Names |-> Store!Mem[w]]
    BY LooksNow DEF Memory
  <2> QED BY <2>1, <2>2
<1>3. Shape(next', hashtab', nv_pending', L) /\ Filed(binding', L)
  BY <1>1 DEF Kept
<1> HIDE DEF F
<1>4. \A w \in Names : Bound(binding', L, w, F[w])
  BY <1>2
<1>5. Store!Mem' = F
  BY <1>2, <1>3, <1>4, MemThen
<1> QED BY <1>5 DEF F

(* What is written is an image, and says of every name what memory says.   *)
LEMMA ContentsSay ==
  ASSUME NEW L, Kept(L), Len(Store!Contents) <= Space
  PROVE  Store!Contents \in Store!Images /\ \A w \in Names : Says(Store!Contents, w, Store!Mem[w])
<1> DEFINE c == Store!Contents
<1>1. PICK o : Written(L, c, o)
  BY ContentsAre
<1> HIDE DEF c
<1>2. /\ c \in Seq(Records)
      /\ \A i \in 1..Len(c) : \E h \in Store!Buckets : \E j \in 1..Len(L[h]) : i = o[h] + j /\ c[i] = binding[L[h][j]]
      /\ \A h \in Store!Buckets : \A j \in 1..Len(L[h]) : o[h] + j \in 1..Len(c) /\ c[o[h] + j] = binding[L[h][j]]
  BY <1>1 DEF Written
<1>3. Apart(next, hashtab, nv_pending, L) /\ Filed(binding, L)
  BY ShapeIs DEF Kept
<1>4. ASSUME NEW h \in Store!Buckets
      PROVE  /\ \A j, k \in 1..Len(L[h]) : L[h][j] = L[h][k] => j = k
             /\ \A j \in 1..Len(L[h]) : L[h][j] \in Elems(L[h]) /\ Hash[binding[L[h][j]].name] = h
             /\ \A t, u \in Elems(L[h]) : binding[t].name = binding[u].name => t = u
             /\ \A t \in Elems(L[h]) : \E j \in 1..Len(L[h]) : t = L[h][j]
  <2>1. h \in Chains
    BY ListsAre
  <2>2. Path(next, Root(hashtab, nv_pending, h), L[h])
    BY <2>1, <1>3 DEF Apart
  <2>3. \A j, k \in 1..Len(L[h]) : L[h][j] = L[h][k] => j = k
    BY <2>2 DEF Path
  <2>4. \A t \in Elems(L[h]) : Hash[binding[t].name] = h
    BY <1>3 DEF Filed
  <2>5. \A t, u \in Elems(L[h]) : binding[t].name = binding[u].name => t = u
    BY <1>3 DEF Filed
  <2> QED BY <2>3, <2>4, <2>5 DEF Elems
<1>5. ASSUME NEW i \in 1..Len(c), NEW k \in 1..Len(c), c[i].name = c[k].name PROVE i = k
  <2>1. PICK h \in Store!Buckets : \E j \in 1..Len(L[h]) : i = o[h] + j /\ c[i] = binding[L[h][j]]
    BY <1>2
  <2>2. PICK j \in 1..Len(L[h]) : i = o[h] + j /\ c[i] = binding[L[h][j]]
    BY <2>1
  <2>3. PICK g \in Store!Buckets : \E m \in 1..Len(L[g]) : k = o[g] + m /\ c[k] = binding[L[g][m]]
    BY <1>2
  <2>4. PICK m \in 1..Len(L[g]) : k = o[g] + m /\ c[k] = binding[L[g][m]]
    BY <2>3
  <2>5. Hash[c[i].name] = h /\ Hash[c[k].name] = g
    BY <2>2, <2>4, <1>4
  <2>6. g = h
    BY <2>5, <1>5
  <2>7. L[h][j] = L[h][m]
    BY <2>2, <2>4, <2>6, <1>4, <1>5
  <2>8. j = m
    BY <2>4, <2>6, <2>7, <1>4
  <2> QED BY <2>2, <2>4, <2>6, <2>8
<1>6. c \in Store!Images
  BY <1>2, <1>5, IsImage DEF c
<1>7. ASSUME NEW w \in Names PROVE Says(c, w, Store!Mem[w])
  <2>0. Hash[w] \in Store!Buckets
    BY StoreConstants
  <2>1. Bound(binding, L, w, Store!Mem[w])
    BY SeenStore
  <2>2. CASE \E t \in Elems(L[Hash[w]]) : binding[t].name = w /\ Store!Mem[w] = binding[t].value
    <3>1. PICK t \in Elems(L[Hash[w]]) : binding[t].name = w /\ Store!Mem[w] = binding[t].value
      BY <2>2
    <3>2. PICK j \in 1..Len(L[Hash[w]]) : t = L[Hash[w]][j]
      BY <2>0, <1>4
    <3>3. o[Hash[w]] + j \in 1..Len(c) /\ c[o[Hash[w]] + j] = binding[t]
      BY <2>0, <3>2, <1>2
    <3>4. \E i \in 1..Len(c) : c[i].name = w /\ Store!Mem[w] = c[i].value
      BY <3>1, <3>3
    <3> QED BY <3>4 DEF Says
  <2>3. CASE Store!Mem[w] = NULL /\ \A t \in Elems(L[Hash[w]]) : binding[t].name # w
    <3>1. ASSUME NEW i \in 1..Len(c), c[i].name = w PROVE FALSE
      <4>1. PICK h \in Store!Buckets : \E j \in 1..Len(L[h]) : i = o[h] + j /\ c[i] = binding[L[h][j]]
        BY <1>2
      <4>2. PICK j \in 1..Len(L[h]) : c[i] = binding[L[h][j]]
        BY <4>1
      <4>3. h = Hash[w] /\ L[h][j] \in Elems(L[h])
        BY <4>2, <3>1, <1>4
      <4> QED BY <4>2, <4>3, <3>1, <2>3
    <3> QED BY <3>1, <2>3 DEF Says
  <2> QED BY <2>1, <2>2, <2>3 DEF Bound
<1> QED BY <1>6, <1>7 DEF c

LEMMA StoreCommit ==
  ASSUME StoreInv, Store!Commit
  PROVE  StoreInv' /\ [Store!Store!Next]_(Store!Store!vars)
<1>1. PICK L : Kept(L)
  BY DEF StoreInv
<1>2. /\ up /\ up' = up /\ binding' = binding /\ next' = next /\ hashtab' = hashtab /\ nv_pending' = nv_pending
      /\ held' = held /\ Len(Store!Contents) <= Space /\ flash' \in {flash, Store!Contents}
  BY DEF Store!Commit
<1>3. Store!Contents \in Store!Images /\ \A w \in Names : Says(Store!Contents, w, Store!Mem[w])
  BY <1>1, <1>2, ContentsSay
<1>4. StoreInv'
  <2>1. up' \in BOOLEAN /\ flash' \in Store!Images
    BY <1>2, <1>3 DEF StoreInv
  <2>2. \A g \in held' : g.ptr \in Addresses /\ binding'[g.ptr] # NULL /\ binding'[g.ptr].value = g.value
    BY <1>2 DEF StoreInv
  <2>3. Shape(next', hashtab', nv_pending', L) /\ Filed(binding', L)
    BY <1>1, <1>2 DEF Kept
  <2> QED BY <2>1, <2>2, <2>3, StoreRebuilt
<1>5. Store!Mem' = Store!Mem
  BY <1>2, MemSame
<1>6. CASE flash' = flash
  <2>1. Store!Saved' = Store!Saved
    BY <1>6, SavedSame
  <2> QED BY <2>1, <1>2, <1>4, <1>5 DEF Store!Store!vars
<1>7. CASE flash' = Store!Contents
  <2> DEFINE F == Store!Mem
  <2>1. F = [w \in Names |-> F[w]] /\ \A w \in Names : Says(flash', w, F[w])
    <3>1. Store!Mem = [w \in Names |-> Store!Mem[w]]
      BY LooksNow DEF Memory
    <3> QED BY <3>1, <1>3, <1>7
  <2>2. flash' \in Store!Images
    BY <1>3, <1>7
  <2> HIDE DEF F
  <2>3. Store!Saved' = F
    BY <2>1, <2>2, SavedIs
  <2> USE DEF F
  <2>4. Store!Store!Commit
    BY <2>3, <1>2, <1>5 DEF Store!Store!Commit
  <2> QED BY <2>4, <1>4 DEF Store!Store!Next
<1> QED BY <1>2, <1>6, <1>7

LEMMA StoreGet ==
  ASSUME StoreInv, NEW w \in Names, Store!Get(w)
  PROVE  StoreInv' /\ UNCHANGED Store!Store!vars
<1>1. PICK L : Kept(L)
  BY DEF StoreInv
<1> DEFINE p == Store!Lookup(w)
<1>2. /\ up' = up /\ binding' = binding /\ next' = next /\ hashtab' = hashtab /\ nv_pending' = nv_pending
      /\ flash' = flash /\ held' = {[ptr |-> p, value |-> binding[p].value]} /\ p # NULL
  BY DEF Store!Get
<1>3. Found(L, w, p)
  BY <1>1, SeenStore
<1> HIDE DEF p
<1>4. p \in Addresses /\ binding[p] # NULL
  <2>1. p \in Elems(L[Hash[w]]) /\ Hash[w] \in Chains
    BY <1>2, <1>3, StoreConstants, ListsAre DEF Found
  <2>2. Apart(next, hashtab, nv_pending, L) /\ Filed(binding, L)
    BY <1>1, ShapeIs DEF Kept
  <2>3. p \in Addresses
    BY <2>1, <2>2 DEF Apart
  <2> QED BY <2>1, <2>2, <2>3 DEF Filed
<1>5. StoreInv'
  <2>1. up' \in BOOLEAN /\ flash' \in Store!Images
    BY <1>2 DEF StoreInv
  <2>2. \A g \in held' : g.ptr \in Addresses /\ binding'[g.ptr] # NULL /\ binding'[g.ptr].value = g.value
    BY <1>2, <1>4
  <2>3. Shape(next', hashtab', nv_pending', L) /\ Filed(binding', L)
    BY <1>1, <1>2 DEF Kept
  <2> QED BY <2>1, <2>2, <2>3, StoreRebuilt
<1>6. Store!Mem' = Store!Mem /\ Store!Saved' = Store!Saved
  BY <1>2, MemSame, SavedSame
<1> QED BY <1>2, <1>5, <1>6 DEF Store!Store!vars

LEMMA StoreInit ==
  ASSUME Store!Init
  PROVE  StoreInv /\ Store!Store!Init
<1>1. /\ up = FALSE /\ flash \in Store!Images /\ binding = [t \in Addresses |-> NULL] /\ next = [t \in Addresses |-> NULL]
      /\ hashtab = [h \in Store!Buckets |-> NULL] /\ nv_pending = NULL /\ held = {}
  BY StoreConstants DEF Store!Init
<1> DEFINE L == [l \in Chains |-> <<>>]
<1>2. Kept(L)
  <2>1. \A l \in Chains : L[l] = <<>> /\ Elems(L[l]) = {} /\ Root(hashtab, nv_pending, l) = NULL
    BY <1>1, ListsAre DEF Root, Elems
  <2>2. L \in [Chains -> Seq(Addresses)] /\ next \in Links /\ hashtab \in Roots /\ nv_pending \in Addresses \cup {NULL}
    BY <1>1 DEF Links, Roots
  <2> HIDE DEF L
  <2>3. \A l \in Chains : Path(next, Root(hashtab, nv_pending, l), L[l])
    BY <2>1, EmptyPath
  <2>4. Shape(next, hashtab, nv_pending, L)
    BY <2>1, <2>2, <2>3 DEF Shape
  <2>5. Filed(binding, L)
    BY <1>1, <2>1, ListsAre DEF Filed
  <2> QED BY <2>4, <2>5 DEF Kept
<1>3. StoreInv
  BY <1>1, <1>2 DEF StoreInv
<1>4. Store!Saved \in [Names -> Values \cup {NULL}]
  <2>1. Store!Saved = [w \in Names |-> Store!Saved[w]] /\ \A w \in Names : Says(flash, w, Store!Saved[w])
    BY SavedNow DEF SavedView
  <2>2. \A i \in 1..Len(flash) : flash[i].value \in Values
    BY <1>1, ImageIs DEF Records
  <2>3. \A w \in Names : Store!Saved[w] \in Values \cup {NULL}
    BY <2>1, <2>2 DEF Says
  <2> QED BY <2>1, <2>3
<1> QED BY <1>1, <1>3, <1>4 DEF Store!Store!Init

LEMMA StoreStep ==
  ASSUME StoreInv, [Store!Next]_(Store!vars)
  PROVE  StoreInv' /\ [Store!Store!Next]_(Store!Store!vars)
<1>1. ASSUME NEW w \in Names, Store!Get(w) PROVE StoreInv' /\ [Store!Store!Next]_(Store!Store!vars)
  BY <1>1, StoreGet
<1>2. ASSUME NEW w \in Names, Store!Unset(w) PROVE StoreInv' /\ [Store!Store!Next]_(Store!Store!vars)
  BY <1>2, StoreUnset DEF Store!Store!Next
<1>3. ASSUME NEW w \in Names, NEW v \in Values, Store!Set(w, v) PROVE StoreInv' /\ [Store!Store!Next]_(Store!Store!vars)
  BY <1>3, StoreSet DEF Store!Store!Next
<1>4. CASE Store!Restart
  BY <1>4, StoreRestart DEF Store!Store!Next
<1>5. CASE UNCHANGED Store!vars
  <2>1. /\ up' = up /\ binding' = binding /\ next' = next /\ hashtab' = hashtab /\ nv_pending' = nv_pending
        /\ flash' = flash /\ held' = held
    BY <1>5 DEF Store!vars
  <2>2. StoreInv'
    BY <2>1 DEF StoreInv, Kept
  <2>3. Store!Mem' = Store!Mem /\ Store!Saved' = Store!Saved
    BY <2>1, MemSame, SavedSame
  <2> QED BY <2>1, <2>2, <2>3 DEF Store!Store!vars
<1> QED BY <1>1, <1>2, <1>3, <1>4, <1>5, StoreCommit DEF Store!Next

(* Every tuple is on one list, and the pointers given out still lead to    *)
(* the strings they led to.                                                *)
LEMMA StaysIs == ASSUME StoreInv PROVE Store!ValuesStay
<1>1. PICK L : Kept(L)
  BY DEF StoreInv
<1>2. Apart(next, hashtab, nv_pending, L) /\ Filed(binding, L)
  BY <1>1, ShapeIs DEF Kept
<1> DEFINE roots == ({hashtab[h] : h \in Store!Buckets} \cup {nv_pending}) \ {NULL}
<1> DEFINE lists == {<<l, Store!List(l)>> : l \in roots}
<1>3. \A l \in Chains : Store!List(Root(hashtab, nv_pending, l)) = L[l]
  <2>1. ASSUME NEW l \in Chains PROVE Store!List(Root(hashtab, nv_pending, l)) = L[l]
    <3> DEFINE r == Root(hashtab, nv_pending, l)
    <3>1. Path(next, r, L[l])
      BY <1>2 DEF Apart
    <3> HIDE DEF r
    <3>2. Store!List(r) = L[l]
      BY <3>1, ListSame, ListIs
    <3> QED BY <3>2 DEF r
  <2> QED BY <2>1
<1>4. \A l \in Chains : \A t \in Elems(L[l]) : Root(hashtab, nv_pending, l) # NULL
  <2>1. ASSUME NEW l \in Chains, NEW t \in Elems(L[l]) PROVE Root(hashtab, nv_pending, l) # NULL
    <3>1. Path(next, Root(hashtab, nv_pending, l), L[l]) /\ L[l] \in Seq(Addresses)
      BY <1>2 DEF Apart
    <3>2. Len(L[l]) \in Nat /\ 1 \in 1..Len(L[l])
      <4>1. Len(L[l]) \in Nat /\ \E k \in 1..Len(L[l]) : TRUE
        BY <3>1, NthIs DEF Elems
      <4> QED BY <4>1
    <3> QED BY <3>1, <3>2, NthIs DEF Path
  <2> QED BY <2>1
<1>5. \A r \in roots : \E l \in Chains : r = Root(hashtab, nv_pending, l)
  BY ListsAre DEF Root
<1>6. \A l \in Chains : Root(hashtab, nv_pending, l) # NULL => Root(hashtab, nv_pending, l) \in roots
  BY ListsAre DEF Root
<1> HIDE DEF roots
<1>7. ASSUME NEW t \in Store!Tuples \ Store!Free PROVE Store!Cardinality({l \in lists : t \in Store!On(l[2])}) = 1
  <2>1. t \in Addresses /\ binding[t] # NULL
    BY StoreConstants DEF Store!Free
  <2>2. PICK m \in Chains : t \in Elems(L[m])
    BY <2>1, <1>2 DEF Filed
  <2> DEFINE r == Root(hashtab, nv_pending, m)
  <2>3. r \in roots /\ Store!List(r) = L[m]
    BY <2>2, <1>3, <1>4, <1>6
  <2>4. ASSUME NEW q \in roots, t \in Elems(Store!List(q)) PROVE q = r
    <3>1. PICK l \in Chains : q = Root(hashtab, nv_pending, l)
      BY <1>5
    <3>2. t \in Elems(L[l])
      BY <3>1, <2>4, <1>3
    <3>3. l = m
      BY <2>2, <3>2, <1>2 DEF Apart
    <3> QED BY <3>1, <3>3
  <2>5. \A q : Store!On(q) = Elems(q)
    BY DEF Store!On, Elems
  <2> HIDE DEF r
  <2>6. {l \in lists : t \in Store!On(l[2])} = {<<r, L[m]>>}
    <3>1. ASSUME NEW l \in lists, t \in Store!On(l[2]) PROVE l = <<r, L[m]>>
      <4>1. PICK q \in roots : l = <<q, Store!List(q)>>
        OBVIOUS
      <4>2. t \in Elems(Store!List(q))
        BY <4>1, <3>1, <2>5
      <4> QED BY <4>1, <4>2, <2>3, <2>4
    <3>2. <<r, L[m]>> \in lists /\ t \in Store!On(<<r, L[m]>>[2])
      BY <2>2, <2>3, <2>5
    <3> QED BY <3>1, <3>2
  <2>7. Store!Cardinality({<<r, L[m]>>}) = 1
    BY CardStore, FS_Singleton
  <2> QED BY <2>6, <2>7
<1>8. \A g \in held : binding[g.ptr] # NULL /\ binding[g.ptr].value = g.value
  BY DEF StoreInv
<1> QED BY <1>7, <1>8 DEF Store!ValuesStay, roots

-----------------------------------------------------------------------------
(* The other parts leave the variable part alone.                          *)
LEMMA MacStep == ASSUME part = "mac", [Next]_vars PROVE [Mac!Next]_(Mac!vars)
BY DEF Next, vars, mac, TimeNext, MacNext, StoreNext, QueueNext, PinsNext, AddrNext, TrxNext,
   Mac!vars, Mac!robovars, Mac!config, Mac!switch, Mac!mii, Mac!mac

LEMMA QueueMoves == ASSUME part = "queue", [Next]_vars PROVE [Queue!Next]_(Queue!vars)
BY DEF Next, vars, queue, TimeNext, MacNext, StoreNext, QueueNext, PinsNext, AddrNext, TrxNext, Queue!vars

LEMMA StoreMoves == ASSUME part = "store", [Next]_vars PROVE [Store!Next]_(Store!vars)
BY DEF Next, vars, store, TimeNext, MacNext, StoreNext, QueueNext, PinsNext, AddrNext, TrxNext, Store!vars

LEMMA PinsMoves == ASSUME part = "pins", [Next]_vars PROVE [Pins!Next]_(Pins!vars)
BY DEF Next, vars, pins, TimeNext, MacNext, StoreNext, QueueNext, PinsNext, AddrNext, TrxNext,
   Pins!vars, Pins!master, Pins!device

LEMMA PartsStep == PartsInv /\ [Next]_vars => PartsInv'
<1> SUFFICES ASSUME PartsInv, [Next]_vars PROVE PartsInv'
  OBVIOUS
<1>1. part' = part
  BY DEF Next, vars, TimeNext, MacNext, StoreNext, QueueNext, PinsNext, AddrNext, TrxNext
<1>2. ASSUME part = "time" PROVE ClockInv'
  <2>1. [Time!Next]_(Time!vars)
    BY <1>2 DEF Next, vars, time, TimeNext, MacNext, StoreNext, QueueNext, PinsNext, AddrNext, TrxNext,
       Time!vars, Time!timer, Time!watch, Time!sleep
  <2> QED BY <1>2, <2>1, ClockStep DEF PartsInv
<1>3. ASSUME part = "trx" PROVE TrxInv'
  <2>1. [Trx!Next]_(Trx!vars)
    BY <1>3 DEF Next, vars, trx, TimeNext, MacNext, StoreNext, QueueNext, PinsNext, AddrNext, TrxNext, Trx!vars
  <2> QED BY <1>3, <2>1, TrxStep DEF PartsInv
<1>4. ASSUME part = "mac" PROVE BusInv' /\ SwitchInv'
  BY <1>4, MacStep, BusStep, SwitchKept DEF PartsInv
<1>5. ASSUME part = "addr" PROVE AddrInv'
  <2>1. [Addr!Next]_(Addr!vars)
    BY <1>5 DEF Next, vars, addr, TimeNext, MacNext, StoreNext, QueueNext, PinsNext, AddrNext, TrxNext, Addr!vars
  <2> QED BY <1>5, <2>1, AddrStep DEF PartsInv
<1>6. ASSUME part = "queue" PROVE QueueInv'
  BY <1>6, QueueMoves, QueueStep DEF PartsInv
<1>7. ASSUME part = "store" PROVE StoreInv'
  BY <1>7, StoreMoves, StoreStep DEF PartsInv
<1>8. ASSUME part = "pins" PROVE PinsInv'
  BY <1>8, PinsMoves, PinsStep DEF PartsInv
<1> QED BY <1>1, <1>2, <1>3, <1>4, <1>5, <1>6, <1>7, <1>8 DEF PartsInv

LEMMA PartsInvariant == LiveSpec => []PartsInv
<1>1. Init => PartsInv
  BY ClockInit, TrxInit, BusInit, SwitchInit, AddrInit, QueueInit, StoreInit, PinsInit DEF Init, PartsInv
<1> QED BY <1>1, PartsStep, PTL DEF LiveSpec

(* The timer tick: timer_isr counts every tick of an exact clock once, and *)
(* the next alarm stands where that clock has its next tick, for every     *)
(* range of Count and every interval, across the wrap (alarm += interval,  *)
(* bcm_timer.c).                                                           *)
THEOREM TickExact == LiveSpec => []NoDrift
<1>1. PartsInv => NoDrift
  BY DEF PartsInv, ClockInv, TickInv, NoDrift, Time!NoDrift
<1> QED BY <1>1, PartsInvariant, PTL

(* cfe_usleep: the two polling loops never return before the delay that    *)
(* was asked, and at most a handler and a count after it.  If the delay    *)
(* ends that close before the wrap of Count, a handler can hide the end,   *)
(* and whole rounds of Count come on top ("XXX fix the wrap problem",      *)
(* cfe_timer.c:238).                                                       *)
THEOREM DelayExact == LiveSpec => []SleepExact
<1>1. PartsInv => SleepExact
  <2> USE Constants
  <2> SUFFICES ASSUME ClockInv, pc = "slept" PROVE Time!SleepExact
    BY DEF PartsInv, SleepExact, Time!SleepExact
  <2>1. slept \in Nat /\ asked \in 0..MaxSleep /\ newcount \in 0..(Wrap - 1) /\ Over = slept - asked
    BY DEF ClockInv, TickInv, Time!TypeOK, Time!Counts, Over
  <2>2. PICK k \in Nat : Over - k * Wrap \in 0..(MaxIsr + 1) /\ (newcount + MaxIsr + 1 < Wrap => k = 0)
    BY DEF ClockInv, SleptInv
  <2>3. k <= k * Wrap /\ k * Wrap \in Nat
    OBVIOUS
  <2>4. k \in 0..slept /\ slept - asked - k * Wrap \in 0..(MaxIsr + 1)
    BY <2>1, <2>2, <2>3
  <2>5. newcount + (MaxIsr + 1) < Wrap => k = 0
    BY <2>1, <2>2
  <2> QED BY <2>4, <2>5 DEF Time!SleepExact, Time!Late
<1> QED BY <1>1, PartsInvariant, PTL

(* watchdog_start, watchdog_reset and timer_isr: the chip is reset after a *)
(* whole period without food, or in the middle of a watchdog_start, and no *)
(* later.                                                                  *)
THEOREM WatchdogBites == LiveSpec => []WatchdogExact
<1>1. PartsInv => WatchdogExact
  <2> SUFFICES ASSUME ClockInv PROVE Time!WatchdogExact
    BY DEF PartsInv, WatchdogExact
  <2>1. wdticks \in 0..MaxTicks /\ wdcount \in 0..MaxTicks /\ starved \in Nat
    BY DEF ClockInv, TickInv, Time!TypeOK
  <2> QED BY <2>1, Constants DEF ClockInv, DogInv, Time!WatchdogExact
<1> QED BY <1>1, PartsInvariant, PTL

(* asustrx and main: the boot finds the script that was packed, whole, and *)
(* nothing else, for every size of the files, every offset given with -b   *)
(* and every rounding (the footer lies behind what is reserved for it).    *)
THEOREM ScriptWhole == LiveSpec => []ScriptFound
<1>1. PartsInv => ScriptFound
  BY DEF PartsInv, TrxInv, ScriptFound
<1> QED BY <1>1, PartsInvariant, PTL

(* robosw_w: the switch changes no register but the one that was asked for *)
(* and all of its words at once, although the program stores them one by   *)
(* one and the switch carries a command out when it likes, for every       *)
(* content of nvram and every number of VLANs.                             *)
THEOREM AccessesLand == LiveSpec => AccessesWhole
<1>1. PartsInv /\ [Next]_vars => [part = "mac" => Mac!Landed]_vars
  BY MacStep, BusStep DEF PartsInv
<1> QED BY <1>1, PartsInvariant, PTL DEF LiveSpec, AccessesWhole

(* robosw_init: when the switch is told to forward, every VLAN has exactly *)
(* the ports that begin a word of its list in nvram, a port's default VLAN *)
(* is the last that lists it, and the host's address leads to the MII port *)
(* in the VLANs that nvram lists and in no other, although every access    *)
(* and the storing of an address end when the switch likes.                *)
THEOREM SwitchRight == LiveSpec => []SwitchDescribed
<1>1. PartsInv => SwitchDescribed
  BY DescribedIs DEF PartsInv, SwitchDescribed
<1> QED BY <1>1, PartsInvariant, PTL

(* enet_parse_hwaddr, run for lwIP and for the MAC on one string of nvram:  *)
(* both have the same address in the end, whatever the string is and       *)
(* wherever the parse gives up, and it is the one that is written there if *)
(* one is, for every length of an address.                                 *)
THEOREM AddressesEqual == LiveSpec => []AddressesAgree
<1>1. PartsInv => AddressesAgree
  BY AddressIs DEF PartsInv, AddressesAgree
<1> QED BY <1>1, PartsInvariant, PTL

(* lib_queue.c implements a first-in first-out queue: enqueue, dequeue     *)
(* anywhere and dequeue of the next keep the order, q_count and q_find     *)
(* tell the truth, and q_map visits every element once, also when the      *)
(* callback takes it out, for every set of elements.                       *)
THEOREM QueueIsFifo == LiveSpec => IsFifo
<1>1. Init => (part = "queue" => Queue!Fifo!Init)
  BY QueueInit DEF Init
<1>2. PartsInv /\ [Next]_vars => [part = "queue" => [Queue!Fifo!Next]_(Queue!Fifo!vars)]_vars
  BY QueueMoves, QueueStep DEF PartsInv
<1> QED BY <1>1, <1>2, PartsInvariant, PTL DEF LiveSpec, IsFifo

(* bcmnvram.c implements a store of names: after any sets, unsets, commits *)
(* and restarts a name has the value set last, or the saved one, however   *)
(* many names nvram_hash puts on one chain and wherever on it nvram_delete *)
(* takes a tuple out, for every hash and every number of tuples.           *)
THEOREM StoreIsKept == LiveSpec => StoreKept
<1>1. Init => (part = "store" => Store!Store!Init)
  BY StoreInit DEF Init
<1>2. PartsInv /\ [Next]_vars => [part = "store" => [Store!Store!Next]_(Store!Store!vars)]_vars
  BY StoreMoves, StoreStep DEF PartsInv
<1> QED BY <1>1, <1>2, PartsInvariant, PTL DEF LiveSpec, StoreKept

(* nvram_get: a string that was returned is still the same string however  *)
(* its name and the others are set and unset, since nvram_set and          *)
(* nvram_unset move the tuple to nv_pending, and every tuple is on exactly *)
(* one list.                                                               *)
THEOREM TuplesStay == LiveSpec => []ValuesStay
<1>1. PartsInv => ValuesStay
  BY StaysIs DEF PartsInv, ValuesStay
<1> QED BY <1>1, PartsInvariant, PTL

(* i2c_write and i2c_read over a slave on the two pins: when the call      *)
(* returns, the byte that one side put on the pins is the one the other    *)
(* took from them, i2c_write returns what the slave acknowledged, and the  *)
(* slave is let go on an idle bus exactly as the call says, for every      *)
(* number of bits in a byte, although the slave moves on every edge of     *)
(* either pin, holds SCL as long as it likes and need not acknowledge      *)
(* (i2c.c).                                                                *)
THEOREM BytesAgree == LiveSpec => []BytesHeard
<1>1. PartsInv => BytesHeard
  BY HeardIs DEF PartsInv, BytesHeard
<1> QED BY <1>1, PartsInvariant, PTL
=============================================================================
