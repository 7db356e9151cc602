-------------------------------- MODULE Clock --------------------------------
(***************************************************************************)
(* Time: the Count and Compare registers, timer_isr, the delays and the    *)
(* watchdog (bcm_timer.c, cfe/cfe_timer.c).                                *)
(*                                                                         *)
(* Count goes round modulo Wrap (2^32).  The handler takes a while, most   *)
(* of it in net_poll; the foreground stands still meanwhile.  The code     *)
(* does not bound that while: MaxIsr is an assumption, from the match of   *)
(* Count and Compare to the end of the handler.  Between two handlers the  *)
(* foreground gets a count at least (MaxIsr + 1 < Interval): with less, two *)
(* in a row could hide the end of a delay.                                 *)
(***************************************************************************)
EXTENDS Integers

CONSTANTS
  Wrap,      \* 2^32, the range of Count
  Interval,  \* interval: counts in a tick of the timer
  MaxIsr,    \* assumption: the latency and the duration of timer_isr
  MaxSleep,  \* bound: the delay asked of cfe_usleep, in counts
  MaxTicks   \* bound: the period asked of watchdog_start, in ticks

ClockAssumption ==  \* assumed in Parts
  /\ Wrap \in Nat /\ Interval \in Nat /\ MaxIsr \in Nat \ {0}
  /\ MaxSleep \in Nat /\ MaxTicks \in Nat
  /\ MaxIsr + 1 < Interval /\ Interval < Wrap
  /\ MaxSleep + MaxIsr < Wrap

VARIABLES
  count, compare, alarm,  \* the registers, and the variable alarm
  pending,                \* the timer asserts its interrupt
  isr,                    \* timer_isr runs
  age,                    \* counts since the match
  wdticks, wdcount,
  bite,                   \* the chip has been reset
  pc,                     \* the foreground
  now, newcount,          \* the locals of cfe_usleep
  seen,                   \* the count it has read last
  asked, slept,           \* the delay asked for, and how long it has taken
  period,                 \* the argument of watchdog_start
  due, owed,              \* counts to the next tick of an exact clock, and
                          \* ticks of that clock timer_isr has yet to count
  starved                 \* ticks since the watchdog was last fed

timer == <<compare, alarm, pending, isr, age>>
watch == <<wdticks, wdcount, bite, starved>>
sleep == <<now, newcount, seen, asked, slept>>
vars  == <<count, timer, watch, pc, sleep, period, due, owed>>

Counts == 0..(Wrap - 1)
Plus(a, b) == (a + b) % Wrap

\* timer_init has set the first alarm.
Init ==
  /\ count \in Counts /\ alarm = Plus(count, Interval) /\ compare = alarm
  /\ pending = FALSE /\ isr = FALSE /\ age = 0
  /\ wdticks = 0 /\ wdcount = 0 /\ bite = FALSE /\ starved = 0
  /\ pc = "idle" /\ now = 0 /\ newcount = 0 /\ seen = 0 /\ asked = 0 /\ slept = 0
  /\ period = 0 /\ due = Interval /\ owed = 0

Asleep == pc \in {"wrap", "wait"}
Runs == ~isr /\ ~bite  \* the foreground

-----------------------------------------------------------------------------
(* Count advances (external).  The model's count is the time of one round of *)
(* a polling loop, which therefore sees every value except while an         *)
(* interrupt is pending or served.                                         *)
Advance ==
  /\ ~bite
  /\ pending \/ isr => age < MaxIsr
  /\ Asleep /\ ~pending /\ ~isr => seen = count
  /\ count' = Plus(count, 1)
  /\ pending' = (pending \/ count' = compare)
  /\ age' = IF pending \/ isr THEN age + 1 ELSE 0
  /\ slept' = IF Asleep THEN slept + 1 ELSE slept
  /\ IF due = 1 THEN due' = Interval /\ owed' = owed + 1
                ELSE due' = due - 1 /\ UNCHANGED owed
  /\ UNCHANGED <<compare, alarm, isr, watch, pc, now, newcount, seen, asked, period>>

(* The interrupt is taken: net_poll runs.                                  *)
IsrEnter ==
  /\ pending /\ ~isr /\ ~bite
  /\ isr' = TRUE
  /\ UNCHANGED <<count, compare, alarm, pending, age, watch, pc, sleep, period, due, owed>>

\* Definitions whose names end in _Mut are faulty variants of the definition that
\* follows them; no other definition uses them.  They show that the properties bite.
NextAlarm_Mut == Plus(count, Interval)  \* an interval from now
NextAlarm == Plus(alarm, Interval)

Fed == wdcount
Spent_Mut == wdcount  \* does not count down
Spent == wdcount - 1
(* The rest of timer_isr: writing Compare withdraws the interrupt; the     *)
(* watchdog counts down and, at zero, resets the chip.                     *)
IsrEnd ==
  /\ isr /\ ~bite
  /\ alarm' = NextAlarm /\ compare' = NextAlarm /\ pending' = FALSE
  /\ isr' = FALSE /\ age' = 0 /\ owed' = owed - 1
  /\ IF wdticks = 0 THEN UNCHANGED watch
     ELSE /\ starved' = starved + 1
          /\ IF Fed = 0 THEN bite' = TRUE /\ UNCHANGED wdcount
                        ELSE wdcount' = Spent /\ UNCHANGED bite
          /\ UNCHANGED wdticks
  /\ UNCHANGED <<count, pc, sleep, period, due>>

-----------------------------------------------------------------------------
(* cfe_usleep.                                                             *)

Sleep ==
  /\ Runs /\ pc = "idle"
  /\ \E d \in 0..MaxSleep :
       /\ asked' = d /\ newcount' = Plus(count, d)
       /\ pc' = IF Plus(count, d) < count THEN "wrap" ELSE "wait"
  /\ now' = count /\ seen' = count /\ slept' = 0
  /\ UNCHANGED <<count, timer, watch, period, due, owed>>

Wrapped == ~(count > now)
(* while (_getticks() > now), between two counts at least.                  *)
WaitWrap ==
  /\ Runs /\ pc = "wrap" /\ count # seen
  /\ seen' = count
  /\ pc' = IF Wrapped THEN "wait" ELSE "wrap"
  /\ UNCHANGED <<count, timer, watch, now, newcount, asked, slept, period, due, owed>>

Reached_Mut == ~(count < newcount) \/ count = 0  \* takes the wrap for the end
Reached == ~(count < newcount)
(* while (_getticks() < newcount)                                          *)
WaitEnd ==
  /\ Runs /\ pc = "wait"
  /\ seen' = count
  /\ pc' = IF Reached THEN "slept" ELSE "wait"
  /\ UNCHANGED <<count, timer, watch, now, newcount, asked, slept, period, due, owed>>

Return ==
  /\ Runs /\ pc = "slept"
  /\ pc' = "idle"
  /\ UNCHANGED <<count, timer, watch, sleep, period, due, owed>>

-----------------------------------------------------------------------------
(* watchdog_start stores twice; watchdog_reset; watchdog_stop.             *)

WatchdogTicks ==
  /\ Runs /\ pc = "idle"
  /\ \E t \in 1..MaxTicks : period' = t /\ wdticks' = t
  /\ pc' = "wdcount"
  /\ UNCHANGED <<count, timer, wdcount, bite, starved, sleep, due, owed>>

WatchdogCount ==
  /\ Runs /\ pc = "wdcount"
  /\ wdcount' = wdticks /\ starved' = 0
  /\ pc' = "idle"
  /\ UNCHANGED <<count, timer, wdticks, bite, sleep, period, due, owed>>

WatchdogReset ==
  /\ Runs /\ pc = "idle"
  /\ wdcount' = wdticks /\ starved' = 0
  /\ UNCHANGED <<count, timer, wdticks, bite, pc, sleep, period, due, owed>>

WatchdogStop ==
  /\ Runs /\ pc = "idle"
  /\ wdticks' = 0
  /\ UNCHANGED <<count, timer, wdcount, bite, starved, pc, sleep, period, due, owed>>

-----------------------------------------------------------------------------
Interrupt == IsrEnter \/ IsrEnd
Delay == Sleep \/ WaitWrap \/ WaitEnd \/ Return
Watchdog == WatchdogTicks \/ WatchdogCount \/ WatchdogReset \/ WatchdogStop
Next == Advance \/ Interrupt \/ Delay \/ Watchdog
Spec == Init /\ [][Next]_vars

-----------------------------------------------------------------------------
TypeOK ==
  /\ count \in Counts /\ compare \in Counts /\ alarm \in Counts
  /\ pending \in BOOLEAN /\ isr \in BOOLEAN /\ age \in 0..MaxIsr
  /\ wdticks \in 0..MaxTicks /\ wdcount \in 0..MaxTicks /\ bite \in BOOLEAN /\ starved \in Nat
  /\ pc \in {"idle", "wrap", "wait", "slept", "wdcount"}
  /\ now \in Counts /\ newcount \in Counts /\ seen \in Counts
  /\ asked \in 0..MaxSleep /\ slept \in Nat /\ period \in 0..MaxTicks
  /\ due \in 1..Interval /\ owed \in 0..1

(* timer_isr counts every tick of an exact clock once, without drift and    *)
(* across the wrap of Count, however late it runs: the next alarm is always *)
(* ahead and where the exact clock has it.                                 *)
NoDrift ==
  /\ owed = (IF pending \/ isr THEN 1 ELSE 0)
  /\ ~pending => Plus(count, due) = compare

(* cfe_usleep never returns early, whatever count it starts from, and is   *)
(* late by no more than one handler and the count that raised it.  Only    *)
(* when the end of the delay lies so close before the wrap that a handler  *)
(* can hide it ("XXX fix the wrap problem", cfe_timer.c:238) does it wait  *)
(* longer: whole rounds of Count more.                                     *)
Late == MaxIsr + 1
SleepExact ==
  pc = "slept" =>
    \E rounds \in 0..slept :
      /\ slept - asked - rounds * Wrap \in 0..Late
      /\ newcount + Late < Wrap => rounds = 0

(* The watchdog resets the chip only after a whole period in which nobody   *)
(* fed it, or in the middle of a watchdog_start, and it does reset it then: *)
(* it is never starved for longer than the period.                         *)
WatchdogExact ==
  /\ bite => starved > wdticks \/ pc = "wdcount"
  /\ ~bite /\ wdticks # 0 /\ pc # "wdcount" => starved <= wdticks
=============================================================================
