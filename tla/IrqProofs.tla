----------------------------- MODULE IrqProofs -----------------------------
(***************************************************************************)
(* Proofs about interrupt masking (Irq), for every set of levels, every    *)
(* pair of device levels and any number of calls and attaches.             *)
(***************************************************************************)
EXTENDS Irq, TLAPS

(* What the foreground may still have to do.                               *)
LastEth   == <<Call("enable", Eth)>>
LastTimer == <<Call("enable", Timer)>>
TwoTimer  == <<Call("enable", Timer), Call("enable", Timer)>>
Request   == <<Call("request", Eth), Call("enable", Eth)>>
MidAttach == <<Call("enable", Eth), Call("request", Eth), Call("enable", Eth)>>
TimerTodos == {TimerInit, TwoTimer, LastTimer}
EthTodos   == {CriticalSection, AttachCalls, LastEth, Request, MidAttach}
Todos      == TimerTodos \cup EthTodos \cup {<<>>, AtomicSection}

(* The mask that depth calls for.                                          *)
MaskOf(d) == {IE} \cup {l \in Levels : d[l] > 0}

(* depth as the foreground knows it: a handler in a critical section has   *)
(* taken one from the level of the MAC.                                    *)
FgDepth == IF incs THEN [depth EXCEPT ![Eth] = @ + 1] ELSE depth

(* Does the call at the head of todo owe its level an increment of depth?  *)
Owed(l) ==
  /\ todo # <<>>
  /\ \/ Head(todo) = Call("enable", l) /\ step # "restore"
     \/ Head(todo) \in {Call("disable", l), Call("request", l)} /\ step = "restore"

TodoOK ==
  /\ todo \in Todos
  /\ todo = <<>> => step = "call"

(* Each call leaves depth of the MAC at the number of its handlers, and    *)
(* timer_init ends with the depth of the timer at 2.                       *)
TimerDepth ==
  IF todo = TimerInit THEN 0
  ELSE IF todo = TwoTimer THEN (IF step = "restore" THEN 1 ELSE 0)
  ELSE IF todo = LastTimer THEN (IF step = "restore" THEN 2 ELSE 1)
  ELSE 2

DepthOK ==
  /\ FgDepth[Eth] = actions[Eth] - (IF Owed(Eth) THEN 1 ELSE 0)
  /\ depth[Timer] = TimerDepth
  /\ actions[Timer] = IF todo = TimerInit /\ step # "restore" THEN 0 ELSE 1
  /\ \A l \in Levels \ {Timer, Eth} : depth[l] = 0 /\ actions[l] = 0

(* SR is what depth calls for, except while the foreground holds all off.  *)
MaskOK ==
  /\ step \in {"call", "write"} => sr = MaskOf(depth)
  /\ step \in {"body", "restore"} => sr = {} /\ ~exl /\ saved = MaskOf(depth)
  /\ step = "write" => saved = MaskOf(FgDepth)

ServeOK ==
  /\ incs => serving # None
  /\ serving # None => exl
  /\ \A l \in snap : actions[l] > 0
  /\ exl /\ todo # <<>> /\ Head(todo) = Call("enable", Eth) /\ actions[Eth] <= 1 =>
       Eth \notin snap /\ serving # Eth

Inv == TypeOK /\ TodoOK /\ DepthOK /\ MaskOK /\ ServeOK

-----------------------------------------------------------------------------
(* The head and the tail of each list of calls.                            *)
LEMMA TodoTable ==
  /\ Head(TimerInit) = Call("request", Timer) /\ Tail(TimerInit) = TwoTimer
  /\ Head(TwoTimer) = Call("enable", Timer) /\ Tail(TwoTimer) = LastTimer
  /\ Head(LastTimer) = Call("enable", Timer) /\ Tail(LastTimer) = <<>>
  /\ Head(AtomicSection) = Call("atomic", Timer) /\ Tail(AtomicSection) = <<>>
  /\ Head(CriticalSection) = Call("disable", Eth) /\ Tail(CriticalSection) = LastEth
  /\ Head(LastEth) = Call("enable", Eth) /\ Tail(LastEth) = <<>>
  /\ Head(AttachCalls) = Call("disable", Eth) /\ Tail(AttachCalls) = MidAttach
  /\ Head(MidAttach) = Call("enable", Eth) /\ Tail(MidAttach) = Request
  /\ Head(Request) = Call("request", Eth) /\ Tail(Request) = LastEth
  BY DEF TimerInit, TwoTimer, LastTimer, AtomicSection, CriticalSection, LastEth, AttachCalls,
         MidAttach, Request

(* Calls differ when their operation or their level does.                  *)
LEMMA CallsDiffer ==
  ASSUME NEW o, NEW p, NEW l, NEW m
  PROVE  /\ Call(o, l) = Call(p, m) <=> o = p /\ l = m
         /\ Call(o, l).op = o /\ Call(o, l).level = l
  BY DEF Call

(* The lists that concern the timer, those that concern the MAC and the    *)
(* rest differ.                                                            *)
LEMMA TodosDiffer ==
  /\ <<>> \notin TimerTodos \cup EthTodos /\ AtomicSection # <<>>
  /\ AtomicSection \notin TimerTodos /\ \A t \in EthTodos : t \notin TimerTodos
  /\ TimerInit # TwoTimer /\ TimerInit # LastTimer /\ TwoTimer # LastTimer
<1> Timer # Eth
  BY LevelsAssumption
<1>1. \A t \in TimerTodos : t # <<>> /\ Head(t).level = Timer /\ Head(t).op # "atomic"
  <2>1. TimerInit # <<>> /\ TwoTimer # <<>> /\ LastTimer # <<>>
    BY DEF TimerInit, TwoTimer, LastTimer
  <2>2. /\ Call("request", Timer).level = Timer /\ Call("request", Timer).op = "request"
        /\ Call("enable", Timer).level = Timer /\ Call("enable", Timer).op = "enable"
    BY CallsDiffer
  <2> QED BY <2>1, <2>2, TodoTable DEF TimerTodos
<1>2. \A t \in EthTodos : t # <<>> /\ Head(t).level = Eth
  <2>1. CriticalSection # <<>> /\ AttachCalls # <<>> /\ LastEth # <<>>
        /\ Request # <<>> /\ MidAttach # <<>>
    BY DEF CriticalSection, AttachCalls, LastEth, Request, MidAttach
  <2>2. \A o \in {"disable", "enable", "request"} : Call(o, Eth).level = Eth
    BY CallsDiffer
  <2> QED BY <2>1, <2>2, TodoTable DEF EthTodos
<1>3. AtomicSection # <<>> /\ Head(AtomicSection).op = "atomic"
  BY TodoTable, CallsDiffer DEF AtomicSection
<1>4. Len(TimerInit) = 3 /\ Len(TwoTimer) = 2 /\ Len(LastTimer) = 1
  BY DEF TimerInit, TwoTimer, LastTimer
<1> QED BY <1>1, <1>2, <1>3, <1>4

LEMMA TodosAreSeqs == \A t \in Todos : t \in Seq(Calls)
<1>1. \A o \in {"disable", "enable", "atomic", "request"}, l \in {Timer, Eth} : Call(o, l) \in Calls
  BY DEF Call, Calls
<1>2. \A a, b, c, d \in Calls : /\ <<a>> \in Seq(Calls) /\ <<a, b>> \in Seq(Calls)
                              /\ <<a, b, c>> \in Seq(Calls) /\ <<a, b, c, d>> \in Seq(Calls)
  OBVIOUS
<1>3. \A t \in TimerTodos : t \in Seq(Calls)
  <2>1. TimerInit \in Seq(Calls)
    BY <1>1, <1>2 DEF TimerInit
  <2>2. TwoTimer \in Seq(Calls) /\ LastTimer \in Seq(Calls)
    BY <1>1, <1>2 DEF TwoTimer, LastTimer
  <2>3. QED
    BY <2>1, <2>2 DEF TimerTodos
<1>4. \A t \in EthTodos : t \in Seq(Calls)
  <2>1. CriticalSection \in Seq(Calls) /\ LastEth \in Seq(Calls) /\ Request \in Seq(Calls)
    BY <1>1, <1>2 DEF CriticalSection, LastEth, Request
  <2>2. MidAttach \in Seq(Calls)
    BY <1>1, <1>2 DEF MidAttach
  <2>3. AttachCalls \in Seq(Calls)
    BY <1>1, <1>2 DEF AttachCalls
  <2> QED BY <2>1, <2>2, <2>3 DEF EthTodos
<1>5. AtomicSection \in Seq(Calls) /\ <<>> \in Seq(Calls)
  BY <1>1, <1>2 DEF AtomicSection
<1> QED BY <1>3, <1>4, <1>5 DEF Todos

(* One call done: what is left is again such a list.                       *)
LEMMA TodoNext ==
  ASSUME NEW t \in Todos, t # <<>>
  PROVE  Tail(t) \in Todos
BY TodoTable, TodosDiffer DEF Todos, TimerTodos, EthTodos

-----------------------------------------------------------------------------
LEMMA InvInit == Init => Inv
<1> SUFFICES ASSUME Init PROVE Inv
  OBVIOUS
<1> Timer # Eth /\ Timer \in Levels /\ Eth \in Levels /\ Levels \subseteq Nat /\ IE \notin Levels
  BY LevelsAssumption
<1>1. todo \in Todos /\ todo # <<>> /\ Head(todo) = Call("request", Timer)
  BY TodosDiffer, TodoTable DEF Init, Todos, TimerTodos
<1>2. TypeOK
  <2>1. todo \in Seq(Calls)
    BY <1>1, TodosAreSeqs
  <2>2. depth \in [Levels -> Int] /\ actions \in [Levels -> Nat]
    BY DEF Init
  <2>3. UNION {sr, saved, snap, pending} \subseteq {IE}
    BY DEF Init
  <2>4. pending = {} /\ snap = {} /\ exl \in BOOLEAN /\ incs \in BOOLEAN /\ serving = None
        /\ calls \in Nat /\ step = "call"
    BY DEF Init
  <2> QED BY <2>1, <2>2, <2>3, <2>4 DEF TypeOK
<1>3. TodoOK
  BY <1>1 DEF TodoOK
<1>4. DepthOK
  <2>1. Call("request", Timer) # Call("enable", Eth)
    BY CallsDiffer
  <2>2. step = "call" /\ step # "restore"
    BY DEF Init
  <2>3. ~Owed(Eth)
    BY <1>1, <2>1, <2>2 DEF Owed
  <2> QED BY <2>3 DEF Init, DepthOK, FgDepth, TimerDepth
<1>5. MaskOK
  BY DEF Init, MaskOK, MaskOf, FgDepth
<1>6. ServeOK
  BY DEF Init, ServeOK, None
<1> QED BY <1>2, <1>3, <1>4, <1>5, <1>6 DEF Inv

LEMMA ScriptInv == Inv /\ Script => Inv'
<1> SUFFICES ASSUME Inv, Script PROVE Inv'
  OBVIOUS
<1> USE DEF Script, FgRuns
<1> Timer # Eth
  BY LevelsAssumption
<1>1. todo' \in EthTodos \cup {AtomicSection}
  BY DEF EthTodos, iqvars
<1>2. todo' # <<>> /\ todo' \notin TimerTodos /\ todo' \in Todos /\ todo \notin TimerTodos
  BY <1>1, TodosDiffer DEF Todos
<1>3. TypeOK'
  BY <1>2, TodosAreSeqs DEF Inv, TypeOK, iqvars
<1>4. TodoOK'
  BY <1>2 DEF TodoOK
<1>5. step = "call" /\ step' = "call" /\ UNCHANGED <<sr, depth, actions, saved, iqvars>>
  BY DEF Inv, TodoOK
<1>6. Head(todo') \in {Call("disable", Eth), Call("atomic", Timer)}
  BY TodoTable
<1>7. DepthOK'
  <2>1. ~Owed(Eth) /\ ~Owed(Eth)'
    BY <1>5, <1>6, CallsDiffer DEF Owed
  <2>2. TimerDepth = 2 /\ TimerDepth' = 2 /\ todo # TimerInit /\ todo' # TimerInit
    BY <1>2 DEF TimerDepth, TimerTodos
  <2> QED BY <2>1, <2>2, <1>5 DEF Inv, DepthOK, FgDepth, iqvars
<1>8. MaskOK'
  BY <1>5 DEF Inv, MaskOK, MaskOf, FgDepth, iqvars
<1>9. ServeOK'
  BY <1>5, <1>6, CallsDiffer DEF Inv, ServeOK, iqvars
<1> QED BY <1>3, <1>4, <1>7, <1>8, <1>9 DEF Inv

LEMMA ReadSRInv == Inv /\ ReadSR => Inv'
<1> SUFFICES ASSUME Inv, ReadSR PROVE Inv'
  OBVIOUS
<1> USE DEF ReadSR, FgRuns
<1>0. ~incs
  BY DEF Inv, ServeOK
<1>1. TypeOK'
  BY DEF Inv, TypeOK, iqvars
<1>2. TodoOK'
  BY DEF Inv, TodoOK
<1>3. DepthOK'
  BY DEF Inv, DepthOK, FgDepth, Owed, TimerDepth, iqvars
<1>4. MaskOK'
  BY <1>0 DEF Inv, MaskOK, MaskOf, FgDepth, iqvars
<1>5. ServeOK'
  BY DEF Inv, ServeOK, iqvars
<1> QED BY <1>1, <1>2, <1>3, <1>4, <1>5 DEF Inv

LEMMA WriteSRInv == Inv /\ WriteSR => Inv'
<1> SUFFICES ASSUME Inv, WriteSR PROVE Inv'
  OBVIOUS
<1> USE DEF WriteSR, FgRuns
<1>0. ~incs
  BY DEF Inv, ServeOK
<1>1. TypeOK'
  BY DEF Inv, TypeOK, AllOff, iqvars
<1>2. TodoOK'
  BY DEF Inv, TodoOK
<1>3. DepthOK'
  BY DEF Inv, DepthOK, FgDepth, Owed, TimerDepth, iqvars
<1>4. MaskOK'
  BY <1>0 DEF Inv, TypeOK, MaskOK, MaskOf, FgDepth, AllOff, iqvars
<1>5. ServeOK'
  BY DEF Inv, ServeOK, iqvars
<1> QED BY <1>1, <1>2, <1>3, <1>4, <1>5 DEF Inv

LEMMA BodyInv == Inv /\ Body => Inv'
<1> SUFFICES ASSUME Inv, Body PROVE Inv'
  OBVIOUS
<1> DEFINE l == Head(todo).level
<1> USE DEF FgRuns
<1> Timer # Eth /\ Timer \in Levels /\ Eth \in Levels /\ Levels \subseteq Nat /\ IE \notin Levels
  BY LevelsAssumption
<1>0. /\ ~incs /\ ~incs' /\ ~exl /\ ~exl' /\ step = "body" /\ step' = "restore"
      /\ todo' = todo /\ todo # <<>> /\ todo \in Todos
      /\ sr = {} /\ sr' = {} /\ saved = MaskOf(depth)
      /\ UNCHANGED <<pending, snap, serving, calls>>
  BY DEF Inv, Body, ServeOK, MaskOK, TodoOK, iqvars
<1>t. /\ sr' = {} /\ todo' = todo /\ step' = "restore" /\ exl' = FALSE /\ incs' = FALSE
      /\ UNCHANGED <<pending, snap, serving, calls>>
  BY <1>0 DEF Inv, TypeOK
<1>u. TypeOK
  BY DEF Inv
<1>v. ASSUME saved' \subseteq Levels \cup {IE}, depth' \in [Levels -> Int],
             actions' \in [Levels -> Nat]
      PROVE  TypeOK'
  BY <1>t, <1>u, <1>v DEF TypeOK
<1>1. CASE todo = AtomicSection
  <2>1. UNCHANGED <<saved, depth, actions>>
    BY <1>1, TodoTable, CallsDiffer DEF Body
  <2>2. TypeOK' /\ TodoOK' /\ MaskOK' /\ ServeOK'
    <3>1. TypeOK'
      BY <1>t, <1>u, <2>1 DEF TypeOK
    <3>2. TodoOK'
      BY <1>0, <2>1 DEF TodoOK
    <3>3. ServeOK'
      BY <1>0, <2>1 DEF Inv, TypeOK, ServeOK
    <3>4. MaskOK'
      BY <1>0, <2>1 DEF Inv, MaskOK, MaskOf
    <3> QED BY <3>1, <3>2, <3>3, <3>4
  <2>3. ~Owed(Eth) /\ ~Owed(Eth)'
    <3>1. /\ Head(todo) # Call("enable", Eth) /\ Head(todo) # Call("disable", Eth)
          /\ Head(todo) # Call("request", Eth)
      BY <1>1, TodoTable, CallsDiffer
    <3> QED BY <3>1, <1>0 DEF Owed
  <2>4. todo \notin TimerTodos
    BY <1>1, TodosDiffer
  <2>5. DepthOK'
    BY <2>1, <2>3, <2>4, <1>0 DEF Inv, DepthOK, FgDepth, TimerDepth, TimerTodos
  <2> QED BY <2>2, <2>5 DEF Inv
<1>2. CASE todo \in EthTodos
  <2>1. todo \notin TimerTodos
    BY <1>2, TodosDiffer
  <2>2. l = Eth
    BY <1>2, TodoTable, CallsDiffer DEF EthTodos
  <2>3. depth[Timer] = 2 /\ actions[Timer] = 1 /\ TimerDepth' = 2
    BY <2>1, <1>0 DEF Inv, DepthOK, TimerDepth, TimerTodos
  <2>4. CASE Head(todo) = Call("enable", Eth)
    <3>1. /\ saved' = EnabledMask(saved, depth[Eth], Eth)
          /\ depth' = [depth EXCEPT ![Eth] = @ + 1] /\ actions' = actions
      BY <2>4, CallsDiffer DEF Body
    <3>2. Owed(Eth) /\ ~Owed(Eth)'
      <4>1. /\ Head(todo) # Call("disable", Eth) /\ Head(todo) # Call("request", Eth)
        BY <2>4, CallsDiffer
      <4> QED BY <2>4, <4>1, <1>0 DEF Owed
    <3>3. TypeOK' /\ TodoOK' /\ ServeOK'
      <4>1. TypeOK'
        <5>1. saved' \subseteq Levels \cup {IE}
          BY <1>u, <3>1 DEF TypeOK, EnabledMask
        <5>2. depth' \in [Levels -> Int] /\ actions' \in [Levels -> Nat]
          BY <1>u, <3>1 DEF TypeOK
        <5> QED BY <5>1, <5>2, <1>v
      <4>2. TodoOK'
        BY <1>0, <3>1 DEF TodoOK
      <4>3. ServeOK'
        BY <1>0, <3>1 DEF Inv, TypeOK, ServeOK
      <4> QED BY <4>1, <4>2, <4>3
    <3>4. MaskOK'
      BY <1>0, <3>1 DEF Inv, TypeOK, MaskOK, MaskOf, EnabledMask
    <3>5. DepthOK'
      BY <1>0, <2>1, <2>3, <3>1, <3>2 DEF Inv, TypeOK, DepthOK, FgDepth, TimerTodos
    <3> QED BY <3>3, <3>4, <3>5 DEF Inv
  <2>5. CASE Head(todo) = Call("disable", Eth)
    <3>1. /\ saved' = DisabledMask(saved, depth[Eth], Eth)
          /\ depth' = [depth EXCEPT ![Eth] = @ - 1] /\ actions' = actions
      BY <2>5, CallsDiffer DEF Body
    <3>2. ~Owed(Eth) /\ Owed(Eth)' /\ Head(todo) # Call("enable", Eth)
      <4>1. Head(todo) # Call("enable", Eth)
        BY <2>5, CallsDiffer
      <4> QED BY <2>5, <4>1, <1>0 DEF Owed
    <3>3. TypeOK' /\ TodoOK' /\ ServeOK'
      <4>1. TypeOK'
        <5>1. saved' \subseteq Levels \cup {IE}
          BY <1>u, <3>1 DEF TypeOK, DisabledMask
        <5>2. depth' \in [Levels -> Int] /\ actions' \in [Levels -> Nat]
          BY <1>u, <3>1 DEF TypeOK
        <5> QED BY <5>1, <5>2, <1>v
      <4>2. TodoOK'
        BY <1>0, <3>1, <3>2 DEF TodoOK
      <4>3. ServeOK'
        BY <1>0, <3>1, <3>2 DEF Inv, TypeOK, ServeOK
      <4> QED BY <4>1, <4>2, <4>3
    <3>4. MaskOK'
      BY <1>0, <3>1 DEF Inv, TypeOK, MaskOK, MaskOf, DisabledMask
    <3>5. DepthOK'
      BY <1>0, <2>1, <2>3, <3>1, <3>2 DEF Inv, TypeOK, DepthOK, FgDepth, TimerTodos
    <3> QED BY <3>3, <3>4, <3>5 DEF Inv
  <2>6. CASE Head(todo) = Call("request", Eth)
    <3>1. \/ /\ actions[Eth] = 0 /\ saved' = saved \ {Eth}
             /\ depth' = [depth EXCEPT ![Eth] = 0] /\ actions' = [actions EXCEPT ![Eth] = 1]
          \/ /\ actions[Eth] > 0 /\ UNCHANGED <<saved, depth>>
             /\ actions' = [actions EXCEPT ![Eth] = @ + 1]
      BY <2>6, CallsDiffer DEF Body
    <3>2. ~Owed(Eth) /\ Owed(Eth)' /\ Head(todo) # Call("enable", Eth)
      <4>1. Head(todo) # Call("enable", Eth)
        BY <2>6, CallsDiffer
      <4> QED BY <2>6, <4>1, <1>0 DEF Owed
    <3>3. depth[Eth] = actions[Eth]
      BY <1>0, <3>2 DEF Inv, TypeOK, DepthOK, FgDepth
    <3>4. TypeOK' /\ TodoOK' /\ ServeOK'
      <4>1. TypeOK'
        <5>1. saved' \subseteq Levels \cup {IE}
          BY <1>u, <3>1 DEF TypeOK
        <5>2. depth' \in [Levels -> Int] /\ actions' \in [Levels -> Nat]
          BY SMTT(40), <1>u, <3>1 DEF TypeOK
        <5> QED BY <5>1, <5>2, <1>v
      <4>2. TodoOK'
        BY <1>0, <3>1, <3>2 DEF TodoOK
      <4>3. ServeOK'
        BY <1>0, <3>1, <3>2 DEF Inv, TypeOK, ServeOK
      <4> QED BY <4>1, <4>2, <4>3
    <3>5. MaskOK'
      <4>1. \A k \in Levels : depth'[k] = depth[k]
        BY <1>u, <3>1, <3>3 DEF TypeOK
      <4>2. saved' = saved
        BY <1>0, <3>1, <3>3 DEF MaskOf
      <4> QED BY <1>0, <4>1, <4>2 DEF MaskOK, MaskOf
    <3>6. DepthOK'
      BY <1>0, <2>1, <2>3, <3>1, <3>2, <3>3 DEF Inv, TypeOK, DepthOK, FgDepth, TimerTodos
    <3> QED BY <3>4, <3>5, <3>6 DEF Inv
  <2> QED BY <1>2, <2>4, <2>5, <2>6, TodoTable DEF EthTodos
<1>3. CASE todo \in TimerTodos
  <2>1. l = Timer /\ Head(todo) # Call("enable", Eth) /\ Head(todo) # Call("disable", Eth)
        /\ Head(todo) # Call("request", Eth)
    <3>1. \A o, p : Call(o, Timer) # Call(p, Eth)
      BY CallsDiffer
    <3> QED BY <1>3, <3>1, TodoTable, CallsDiffer DEF TimerTodos
  <2>2. ~Owed(Eth) /\ ~Owed(Eth)'
    BY <2>1, <1>0 DEF Owed
  <2>3. CASE todo = TimerInit
    <3>1. depth[Timer] = 0 /\ actions[Timer] = 0 /\ TimerDepth' = 0
      <4>1. TimerDepth = 0 /\ TimerDepth' = 0
        BY <2>3, <1>t DEF TimerDepth
      <4>2. step # "restore"
        BY <1>0
      <4> QED BY <2>3, <4>1, <4>2 DEF Inv, DepthOK
    <3>2. /\ saved' = saved \ {Timer} /\ depth' = [depth EXCEPT ![Timer] = 0]
          /\ actions' = [actions EXCEPT ![Timer] = 1]
      BY SMTT(40), <2>3, <3>1, TodoTable, CallsDiffer DEF Body
    <3>3. TypeOK' /\ TodoOK' /\ ServeOK'
      <4>1. TypeOK'
        <5>1. saved' \subseteq Levels \cup {IE}
          BY <1>u, <3>2 DEF TypeOK
        <5>2. depth' \in [Levels -> Int] /\ actions' \in [Levels -> Nat]
          BY <1>u, <3>2 DEF TypeOK
        <5> QED BY <5>1, <5>2, <1>v
      <4>2. TodoOK'
        BY <1>0, <3>2, <2>1 DEF TodoOK
      <4>3. ServeOK'
        BY <1>0, <3>2, <2>1 DEF Inv, TypeOK, ServeOK
      <4> QED BY <4>1, <4>2, <4>3
    <3>4. MaskOK'
      BY <1>0, <3>1, <3>2 DEF Inv, TypeOK, MaskOK, MaskOf
    <3>5. DepthOK'
      BY <1>0, <2>2, <2>3, <3>1, <3>2 DEF Inv, TypeOK, DepthOK, FgDepth
    <3> QED BY <3>3, <3>4, <3>5 DEF Inv
  <2>4. CASE todo \in {TwoTimer, LastTimer}
    <3>1. /\ saved' = EnabledMask(saved, depth[Timer], Timer)
          /\ depth' = [depth EXCEPT ![Timer] = @ + 1] /\ actions' = actions
      BY <2>4, TodoTable, CallsDiffer DEF Body
    <3>2. /\ todo # TimerInit /\ depth[Timer] = TimerDepth /\ TimerDepth' = TimerDepth + 1
      BY <2>4, <1>0, TodosDiffer DEF Inv, DepthOK, TimerDepth
    <3>3. TypeOK' /\ TodoOK' /\ ServeOK'
      <4>1. TypeOK'
        <5>1. saved' \subseteq Levels \cup {IE}
          BY <1>u, <3>1 DEF TypeOK, EnabledMask
        <5>2. depth' \in [Levels -> Int] /\ actions' \in [Levels -> Nat]
          BY <1>u, <3>1 DEF TypeOK
        <5> QED BY <5>1, <5>2, <1>v
      <4>2. TodoOK'
        BY <1>0, <3>1, <2>1 DEF TodoOK
      <4>3. ServeOK'
        BY <1>0, <3>1, <2>1 DEF Inv, TypeOK, ServeOK
      <4> QED BY <4>1, <4>2, <4>3
    <3>4. MaskOK'
      BY <1>0, <3>1 DEF Inv, TypeOK, MaskOK, MaskOf, EnabledMask
    <3>5. DepthOK'
      BY <1>0, <2>2, <3>1, <3>2 DEF Inv, TypeOK, DepthOK, FgDepth
    <3> QED BY <3>3, <3>4, <3>5 DEF Inv
  <2> QED BY <1>3, <2>3, <2>4 DEF TimerTodos
<1> QED BY <1>0, <1>1, <1>2, <1>3 DEF Todos

LEMMA RestoreInv == Inv /\ Restore => Inv'
<1> SUFFICES ASSUME Inv, Restore PROVE Inv'
  OBVIOUS
<1> USE DEF FgRuns
<1> Timer # Eth /\ IE \notin Levels
  BY LevelsAssumption
<1>0. /\ ~incs /\ ~incs' /\ ~exl /\ ~exl' /\ step = "restore" /\ step' = "call"
      /\ todo # <<>> /\ todo \in Todos /\ todo' = Tail(todo)
      /\ saved = MaskOf(depth) /\ sr = {}
      /\ UNCHANGED <<depth, actions, saved, pending, snap, serving, calls>>
  BY DEF Inv, Restore, ServeOK, MaskOK, TodoOK, iqvars
<1>1. sr' = MaskOf(depth)
  BY <1>0 DEF Restore, AllOff
<1>2. todo' \in Todos
  BY <1>0, TodoNext
<1>3. TypeOK'
  <2>1. todo' \in Seq(Calls)
    BY <1>2, TodosAreSeqs
  <2>2. sr' \subseteq Levels \cup {IE}
    BY <1>1 DEF MaskOf
  <2>3. TypeOK
    BY DEF Inv
  <2>4. /\ step' = "call" /\ exl' = FALSE /\ incs' = FALSE
        /\ UNCHANGED <<depth, actions, saved, pending, snap, serving, calls>>
    BY <1>0
  <2> QED BY <2>1, <2>2, <2>3, <2>4 DEF TypeOK
<1>4. TodoOK'
  BY <1>0, <1>2 DEF TodoOK
<1>5. MaskOK'
  BY <1>0, <1>1 DEF MaskOK
<1>6. ServeOK'
  BY <1>0 DEF Inv, ServeOK
<1>7. TimerDepth' = TimerDepth /\ todo' # TimerInit
  <2>1. CASE todo \in TimerTodos
    <3>1. todo' # TimerInit
      BY <1>0, <2>1, TodoTable, TodosDiffer DEF TimerTodos
    <3>2. TimerDepth' = TimerDepth
      BY <1>0, <2>1, TodoTable, TodosDiffer DEF TimerTodos, TimerDepth
    <3> QED BY <3>1, <3>2
  <2>2. CASE todo \in EthTodos \cup {AtomicSection}
    <3>1. todo' \notin TimerTodos /\ todo \notin TimerTodos
      <4>1. todo' \in EthTodos \cup {<<>>}
        BY <1>0, <2>2, TodoTable DEF EthTodos
      <4> QED BY <4>1, <2>2, TodosDiffer
    <3> QED BY <3>1 DEF TimerDepth, TimerTodos
  <2> QED BY <1>0, <2>1, <2>2 DEF Todos
<1>8. Owed(Eth) <=> Owed(Eth)'
  <2>1. CASE todo \in TimerTodos \cup {AtomicSection}
    <3>1. \A o, p : Call(o, Timer) # Call(p, Eth)
      BY CallsDiffer
    <3>2. ~Owed(Eth)
      BY <1>0, <2>1, <3>1, TodoTable DEF TimerTodos, Owed
    <3>3. ~Owed(Eth)'
      BY <1>0, <2>1, <3>1, TodoTable DEF TimerTodos, Owed
    <3> QED BY <3>2, <3>3
  <2>2. CASE Head(todo) \in {Call("disable", Eth), Call("request", Eth)} /\ todo \in EthTodos
    <3>1. Owed(Eth)
      BY <1>0, <2>2 DEF Owed
    <3>2. todo \in {CriticalSection, AttachCalls, Request}
      <4>1. Call("enable", Eth) \notin {Call("disable", Eth), Call("request", Eth)}
        BY CallsDiffer
      <4> QED BY <2>2, <4>1, TodoTable DEF EthTodos
    <3>3. todo' \in {LastEth, MidAttach}
      BY <1>0, <3>2, TodoTable
    <3>4. todo' # <<>> /\ Head(todo') = Call("enable", Eth)
      BY <3>3, TodoTable, TodosDiffer DEF EthTodos
    <3> QED BY <1>0, <3>1, <3>4 DEF Owed
  <2>3. CASE Head(todo) = Call("enable", Eth) /\ todo \in EthTodos
    <3>0. Call("enable", Eth) \notin {Call("disable", Eth), Call("request", Eth)}
      BY CallsDiffer
    <3>1. ~Owed(Eth)
      BY <1>0, <2>3, <3>0 DEF Owed
    <3>2. todo' \in {<<>>, Request}
      BY <1>0, <2>3, <3>0, TodoTable DEF EthTodos
    <3>3. ~Owed(Eth)'
      BY <1>0, <3>0, <3>2, TodoTable DEF Owed
    <3> QED BY <3>1, <3>3
  <2> QED BY <1>0, <2>1, <2>2, <2>3, TodoTable DEF Todos, EthTodos
<1>9. DepthOK'
  <2>1. actions[Timer] = 1
    BY <1>0 DEF Inv, DepthOK
  <2> QED BY <1>0, <1>7, <1>8, <2>1 DEF Inv, DepthOK, FgDepth
<1> QED BY <1>3, <1>4, <1>5, <1>6, <1>9 DEF Inv

-----------------------------------------------------------------------------
(* The dispatcher and the handlers leave the foreground's variables alone. *)
LEMMA DispatchInv == Inv /\ (Dispatch \/ Raise) => Inv'
<1> SUFFICES ASSUME Inv, Dispatch \/ Raise PROVE Inv'
  OBVIOUS
<1> Timer # Eth /\ Timer \in Levels /\ Eth \in Levels /\ Levels \subseteq Nat /\ IE \notin Levels
  BY LevelsAssumption
<1>1. \A l \in Levels : depth[l] > 0 /\ ~incs => actions[l] > 0
  <2>1. ~incs => depth[Eth] <= actions[Eth]
    BY DEF Inv, TypeOK, DepthOK, FgDepth
  <2>2. depth[Timer] > 0 => actions[Timer] > 0
    BY DEF Inv, DepthOK, TimerDepth
  <2>3. \A l \in Levels \ {Timer, Eth} : depth[l] = 0
    BY DEF Inv, DepthOK
  <2> QED BY <2>1, <2>2, <2>3 DEF Inv, TypeOK
<1>2. CASE Raise
  <2> USE <1>2 DEF Raise, fgvars, iqvars
  <2>1. TypeOK'
    BY DEF Inv, TypeOK
  <2>2. TodoOK' /\ DepthOK' /\ MaskOK' /\ ServeOK'
    BY DEF Inv, TodoOK, DepthOK, MaskOK, ServeOK, FgDepth, Owed, TimerDepth, MaskOf
  <2> QED BY <2>1, <2>2 DEF Inv
<1>3. CASE Eret
  <2> USE <1>3 DEF Eret, fgvars
  <2>1. TypeOK'
    BY DEF Inv, TypeOK
  <2>2. TodoOK' /\ DepthOK' /\ MaskOK' /\ ServeOK'
    BY DEF Inv, TodoOK, DepthOK, MaskOK, ServeOK, FgDepth, Owed, TimerDepth, MaskOf
  <2> QED BY <2>1, <2>2 DEF Inv
<1>4. CASE Take
  <2> USE <1>4 DEF Take, fgvars, Deliverable, Taken
  <2>1. ~incs /\ serving = None /\ serving' = None /\ sr = MaskOf(depth)
    BY DEF Inv, TypeOK, MaskOK, ServeOK
  <2>2. TypeOK'
    BY <1>4 DEF Inv, TypeOK
  <2>3. TodoOK' /\ DepthOK' /\ MaskOK'
    BY <2>1 DEF Inv, TypeOK, TodoOK, DepthOK, MaskOK, FgDepth, Owed, TimerDepth, MaskOf
  <2>4. \A l \in snap' : actions[l] > 0
    BY <1>1, <2>1 DEF Inv, TypeOK, MaskOf
  <2>5. todo # <<>> /\ Head(todo) = Call("enable", Eth) /\ actions[Eth] <= 1 => Eth \notin snap'
    <3>1. SUFFICES ASSUME todo # <<>>, Head(todo) = Call("enable", Eth), actions[Eth] <= 1
                   PROVE  ~(depth[Eth] > 0)
      BY <2>1 DEF MaskOf
    <3>2. Owed(Eth)
      BY <3>1 DEF Inv, MaskOK, Owed
    <3> QED BY <2>1, <3>1, <3>2 DEF Inv, TypeOK, DepthOK, FgDepth
  <2>6. ServeOK'
    BY <2>1, <2>4, <2>5 DEF Inv, ServeOK, None
  <2> QED BY <2>2, <2>3, <2>6 DEF Inv
<1>5. CASE Serve
  <2>1. PICK l \in snap : /\ snap' = snap \ {l}
                          /\ actions[l] > 0 => serving' = l /\ pending' = pending \ {l} /\ sr' = sr
    BY <1>5 DEF Serve
  <2>2. actions[l] > 0
    BY DEF Inv, ServeOK
  <2>3. /\ UNCHANGED <<depth, actions, todo, step, saved, calls, exl, incs>> /\ exl /\ serving = None
    BY <1>5 DEF Serve, fgvars
  <2>4. TypeOK'
    BY <2>1, <2>2, <2>3 DEF Inv, TypeOK
  <2>5. TodoOK' /\ DepthOK' /\ MaskOK'
    BY <2>1, <2>2, <2>3 DEF Inv, TodoOK, DepthOK, MaskOK, FgDepth, Owed, TimerDepth, MaskOf
  <2>6. ServeOK'
    BY <2>1, <2>2, <2>3 DEF Inv, TypeOK, ServeOK, None
  <2> QED BY <2>4, <2>5, <2>6 DEF Inv
<1> QED BY <1>2, <1>3, <1>4, <1>5 DEF Dispatch

(* A critical section of a handler takes one from depth and gives it back. *)
LEMMA HandlerInv == Inv /\ Handler => Inv'
<1> SUFFICES ASSUME Inv, Handler PROVE Inv'
  OBVIOUS
<1> Timer # Eth /\ Timer \in Levels /\ Eth \in Levels /\ Levels \subseteq Nat /\ IE \notin Levels
  BY LevelsAssumption
<1>0. /\ UNCHANGED <<actions, pending, todo, step, saved, calls, exl, snap>>
      /\ exl /\ step \in {"call", "write"} /\ sr = MaskOf(depth)
      /\ TypeOK
  BY DEF Inv, TypeOK, MaskOK, ServeOK, Handler, IsrEnter, IsrExit, IsrReturn, fgvars
<1>1. TodoOK' /\ (Owed(Eth)' <=> Owed(Eth)) /\ TimerDepth' = TimerDepth
  BY <1>0 DEF Inv, TodoOK, Owed, TimerDepth
<1>2. CASE IsrReturn
  <2>1. TypeOK'
    BY <1>0, <1>2 DEF IsrReturn, TypeOK
  <2>2. DepthOK' /\ MaskOK' /\ ServeOK'
    BY <1>0, <1>1, <1>2 DEF IsrReturn, Inv, DepthOK, MaskOK, ServeOK, FgDepth, MaskOf, None
  <2> QED BY <1>1, <2>1, <2>2 DEF Inv
<1>3. CASE IsrEnter
  <2>1. /\ ~incs /\ incs' /\ serving' = serving /\ serving # None
        /\ depth' = [depth EXCEPT ![Eth] = @ - 1] /\ sr' = DisabledMask(sr, depth[Eth], Eth)
    BY <1>3 DEF IsrEnter, Inv, TypeOK
  <2>2. FgDepth' = FgDepth
    <3>1. FgDepth' = [depth' EXCEPT ![Eth] = @ + 1] /\ FgDepth = depth
      BY <2>1 DEF FgDepth
    <3> QED BY <1>0, <2>1, <3>1 DEF TypeOK
  <2>3. sr' = MaskOf(depth)'
    BY <1>0, <2>1 DEF MaskOf, DisabledMask, TypeOK
  <2>4. TypeOK'
    <3>1. sr' \subseteq Levels \cup {IE}
      BY <2>3 DEF MaskOf
    <3>2. depth' \in [Levels -> Int]
      BY <1>0, <2>1 DEF TypeOK
    <3> QED BY <1>0, <2>1, <3>1, <3>2 DEF TypeOK
  <2>5. DepthOK'
    BY <1>0, <1>1, <2>1, <2>2 DEF Inv, DepthOK, TypeOK
  <2>6. MaskOK'
    <3>1. MaskOf(FgDepth)' = MaskOf(FgDepth)
      BY <2>2 DEF MaskOf
    <3> QED BY <1>0, <2>3, <3>1 DEF Inv, MaskOK
  <2>7. ServeOK'
    BY <1>0, <2>1 DEF Inv, ServeOK
  <2> QED BY <1>1, <2>4, <2>5, <2>6, <2>7 DEF Inv
<1>4. CASE IsrExit
  <2>1. /\ incs /\ ~incs' /\ serving' = serving /\ serving # None
        /\ depth' = [depth EXCEPT ![Eth] = @ + 1] /\ sr' = EnabledMask(sr, depth[Eth], Eth)
    BY <1>4 DEF IsrExit, Inv, TypeOK
  <2>2. FgDepth' = FgDepth
    BY <2>1 DEF FgDepth
  <2>3. sr' = MaskOf(depth)'
    BY <1>0, <2>1 DEF MaskOf, EnabledMask, TypeOK
  <2>4. TypeOK'
    <3>1. sr' \subseteq Levels \cup {IE}
      BY <2>3 DEF MaskOf
    <3>2. depth' \in [Levels -> Int]
      BY <1>0, <2>1 DEF TypeOK
    <3>3. /\ UNCHANGED <<actions, pending, todo, step, saved, calls, exl, snap, serving>>
          /\ incs' = FALSE
      BY <1>0, <2>1
    <3> QED BY <1>0, <3>1, <3>2, <3>3 DEF TypeOK
  <2>5. DepthOK'
    BY <1>0, <1>1, <2>1, <2>2 DEF Inv, DepthOK, TypeOK
  <2>6. MaskOK'
    <3>1. MaskOf(FgDepth)' = MaskOf(FgDepth)
      BY <2>2 DEF MaskOf
    <3> QED BY <1>0, <2>3, <3>1 DEF Inv, MaskOK
  <2>7. ServeOK'
    BY <1>0, <2>1 DEF Inv, ServeOK
  <2> QED BY <1>1, <2>4, <2>5, <2>6, <2>7 DEF Inv
<1> QED BY <1>2, <1>3, <1>4 DEF Handler

-----------------------------------------------------------------------------
LEMMA InvHolds == Spec => []Inv
<1>1. Inv /\ UNCHANGED vars => Inv'
  BY DEF vars, fgvars, iqvars, Inv, TypeOK, TodoOK, DepthOK, MaskOK, ServeOK, FgDepth, Owed,
         TimerDepth, MaskOf
<1>2. Inv /\ [Next]_vars => Inv'
  BY <1>1, ScriptInv, ReadSRInv, WriteSRInv, BodyInv, RestoreInv, DispatchInv, HandlerInv
     DEF Next, Foreground
<1> QED BY InvInit, <1>2, PTL DEF Spec

(* Between calls every requested level is unmasked and every other masked.  *)
THEOREM MasksSettle == Spec => []MasksSettled
<1>1. Inv => MasksSettled
  <2> SUFFICES ASSUME Inv, todo = <<>>, ~incs
               PROVE  sr = {IE} \cup {l \in Levels : actions[l] > 0}
    BY DEF MasksSettled
  <2>1. step = "call" /\ sr = MaskOf(depth)
    BY DEF Inv, TodoOK, MaskOK
  <2>2. depth[Eth] = actions[Eth]
    <3>1. ~Owed(Eth) /\ FgDepth = depth
      BY DEF Owed, FgDepth
    <3>2. actions[Eth] \in Nat
      BY LevelsAssumption DEF Inv, TypeOK
    <3> QED BY <3>1, <3>2 DEF Inv, DepthOK
  <2>3. depth[Timer] = 2 /\ actions[Timer] = 1
    BY TodosDiffer DEF Inv, DepthOK, TimerDepth, TimerTodos
  <2>4. \A l \in Levels \ {Timer, Eth} : depth[l] = 0 /\ actions[l] = 0
    BY DEF Inv, DepthOK
  <2>5. \A l \in Levels : depth[l] > 0 <=> actions[l] > 0
    <3> TAKE l \in Levels
    <3>1. CASE l = Eth
      BY <2>2, <3>1
    <3>2. CASE l = Timer
      BY <2>3, <3>2
    <3>3. CASE l \notin {Timer, Eth}
      BY <2>4, <3>3
    <3> QED BY <3>1, <3>2, <3>3
  <2> QED BY <2>1, <2>5 DEF MaskOf
<1> QED BY <1>1, InvHolds, PTL

(* No mask change made by a handler is overwritten by a stale copy of SR.  *)
THEOREM SavedIsFresh == Spec => []SavedNotStale
<1>1. Inv => SavedNotStale
  BY DEF Inv, MaskOK, ServeOK, FgDepth, SavedNotStale
<1> QED BY <1>1, InvHolds, PTL

(* Masked sections exclude the handlers they mean to exclude.              *)
THEOREM SectionsExclude == Spec => []HandlersExcluded
<1>1. Inv => HandlersExcluded
  <2>1. Eth # None
    BY LevelsAssumption DEF None
  <2> QED BY <2>1 DEF Inv, MaskOK, ServeOK, HandlersExcluded
<1> QED BY <1>1, InvHolds, PTL
=============================================================================
