-------------------------------- MODULE Irq --------------------------------
(***************************************************************************)
(* Interrupt masking: cfe/bcmcore_irq.c over the primitives of             *)
(* cfe/bcmcore_ircpoll.S and the cli/sti pair of main.c.                   *)
(*                                                                         *)
(* sr holds the enable bits of CP0 Status: IE and one mask bit for each    *)
(* level.  The foreground executes a call as the instructions that matter: *)
(* read SR, write SR with everything disabled, the body, write SR back     *)
(* ("XXX: This is not really atomic").  Between any two of them the CPU    *)
(* takes an interrupt that is pending and enabled.  Handlers run with      *)
(* Status.EXL set: they are not interrupted, and what they leave in SR is  *)
(* what the interrupted code finds.                                        *)
(***************************************************************************)
EXTENDS Integers, Sequences

CONSTANTS
  Levels,      \* the interrupt levels of SR.IM
  Timer, Eth,  \* the levels of the two devices (bcmcore_map_irq)
  IE,          \* the global enable bit
  MaxAttach,   \* bound: times the script attaches the MAC driver (net start)
  MaxCalls     \* bound: other calls the script makes

ASSUME LevelsAssumption ==
  /\ Levels \subseteq Nat /\ IE \notin Levels
  /\ Timer \in Levels /\ Eth \in Levels /\ Eth < Timer
  /\ MaxAttach \in Nat /\ MaxCalls \in Nat

VARIABLES
  sr,       \* the set of enable bits that are on
  depth,    \* irq_desc[].depth
  actions,  \* the length of irq_desc[].actions
  todo,     \* the calls the foreground has yet to make, the current one first
  step,     \* its progress: "call", "write", "body", "restore"
  saved,    \* the mask the call saved: a local sr, or cli's global one
  pending,  \* levels whose device asserts its interrupt line
  exl,      \* Status.EXL: the dispatcher runs
  snap,     \* the levels it has yet to serve
  serving,  \* the level whose handler runs, or none
  incs,     \* that handler is between CS_ENTER and CS_EXIT
  calls

fgvars == <<todo, step, saved, calls>>
iqvars == <<exl, snap, serving, incs>>
vars   == <<sr, depth, actions, pending, fgvars, iqvars>>

None == -1
Call(op, l) == [op |-> op, level |-> l]

(* What the C API asks of this code, as the calls it makes: a critical     *)
(* section of the MAC driver; a section between cli and sti (http_read,    *)
(* rtl_udp_recv, setres), which is one call whose body is that section;    *)
(* the attach of the MAC driver, which passes through critical sections    *)
(* before cfe_request_irq; and timer_init, which enables its level once    *)
(* more than cfe_request_irq does.                                         *)
CriticalSection == <<Call("disable", Eth), Call("enable", Eth)>>
AtomicSection   == <<Call("atomic", Timer)>>
AttachCalls     == <<Call("disable", Eth), Call("enable", Eth),
                     Call("request", Eth), Call("enable", Eth)>>

\* Definitions whose names end in _Mut are faulty variants of the definition that
\* follows them; no other definition uses them.  They show that the properties bite.
TimerInit_Mut   == <<Call("request", Timer)>>  \* never enables the level
TimerInit       == <<Call("request", Timer), Call("enable", Timer), Call("enable", Timer)>>

\* cfe_irq_init leaves every level masked and IE set.
Init ==
  /\ sr = {IE}
  /\ depth = [l \in Levels |-> 0] /\ actions = [l \in Levels |-> 0]
  /\ todo = TimerInit /\ step = "call" /\ saved = {}
  /\ pending = {} /\ exl = FALSE /\ snap = {} /\ serving = None /\ incs = FALSE
  /\ calls = 0

-----------------------------------------------------------------------------
(* What the bodies do to the mask they saved.                              *)

\* cfe_enable_irq: "If depth is 0, unmask the interrupt.  Increment depth."
EnabledMask_Mut(m, d, l) == IF d + 1 = 0 THEN m \cup {l} ELSE m  \* increments first
EnabledMask(m, d, l) == IF d = 0 THEN m \cup {l} ELSE m
\* cfe_disable_irq: "Decrement depth.  If depth is 0, mask the interrupt."
DisabledMask_Mut(m, d, l) == IF d = 0 THEN m \ {l} ELSE m        \* tests first
DisabledMask(m, d, l) == IF d - 1 = 0 THEN m \ {l} ELSE m

Deliverable == ~exl /\ IE \in sr /\ pending \cap sr # {}
\* An instruction of the foreground may still complete when an interrupt is raised.
FgRuns == ~exl

(* The script makes a call.                                                *)
Script ==
  /\ FgRuns /\ todo = <<>>
  /\ \/ /\ actions[Eth] < MaxAttach /\ todo' = AttachCalls
        /\ UNCHANGED calls
     \/ /\ calls < MaxCalls /\ calls' = calls + 1
        /\ actions[Eth] > 0 /\ todo' \in {CriticalSection, AtomicSection}
  /\ UNCHANGED <<sr, depth, actions, pending, step, saved, iqvars>>

(* cfe_irq_disable, first half: mfc0.                                      *)
ReadSR ==
  /\ FgRuns /\ todo # <<>> /\ step = "call"
  /\ saved' = sr
  /\ step' = "write"
  /\ UNCHANGED <<sr, depth, actions, pending, todo, calls, iqvars>>

(* Second half: mtc0 with IE and every mask bit off.                       *)
AllOff(s) == s \ (Levels \cup {IE})
WriteSR ==
  /\ FgRuns /\ todo # <<>> /\ step = "write"
  /\ sr' = AllOff(sr)
  /\ step' = "body"
  /\ UNCHANGED <<depth, actions, pending, todo, saved, calls, iqvars>>

(* The code between cfe_irq_disable and cfe_irq_enable.                    *)
Body ==
  LET op == Head(todo).op
      l  == Head(todo).level IN
  /\ FgRuns /\ todo # <<>> /\ step = "body"
  /\ step' = "restore"
  /\ \/ op = "atomic" /\ UNCHANGED <<saved, depth, actions>>
     \/ /\ op = "enable"
        /\ saved' = EnabledMask(saved, depth[l], l)
        /\ depth' = [depth EXCEPT ![l] = @ + 1]
        /\ UNCHANGED actions
     \/ /\ op = "disable"
        /\ saved' = DisabledMask(saved, depth[l], l)
        /\ depth' = [depth EXCEPT ![l] = @ - 1]
        /\ UNCHANGED actions
     \/ /\ op = "request" /\ actions[l] = 0  \* the first handler of the level
        /\ saved' = saved \ {l}
        /\ depth' = [depth EXCEPT ![l] = 0]
        /\ actions' = [actions EXCEPT ![l] = 1]
     \/ /\ op = "request" /\ actions[l] > 0  \* one more, all of them shareable
        /\ actions' = [actions EXCEPT ![l] = @ + 1]
        /\ UNCHANGED <<saved, depth>>
  /\ UNCHANGED <<sr, pending, todo, calls, iqvars>>

(* cfe_irq_enable: the saved bits replace those of SR.                     *)
Restore ==
  /\ FgRuns /\ todo # <<>> /\ step = "restore"
  /\ sr' = AllOff(sr) \cup saved
  /\ todo' = Tail(todo) /\ step' = "call"
  /\ UNCHANGED <<depth, actions, pending, saved, calls, iqvars>>

-----------------------------------------------------------------------------
(* The devices (external) and the dispatcher.                              *)

Raise ==
  /\ \E l \in {Timer, Eth} \ pending : pending' = pending \cup {l}
  /\ UNCHANGED <<sr, depth, actions, fgvars, iqvars>>

Taken == pending \cap sr

\* _exc_entry saves CAUSE and SR; bcmcore_irq_demux works from that copy.
Take ==
  /\ Deliverable
  /\ exl' = TRUE /\ snap' = Taken
  /\ UNCHANGED <<sr, depth, actions, pending, fgvars, serving, incs>>

\* The highest level first; a level nobody handles is masked off.
Serve ==
  /\ exl /\ serving = None
  /\ \E l \in snap :
       /\ \A k \in snap : k <= l
       /\ snap' = snap \ {l}
       /\ IF actions[l] = 0
          THEN sr' = sr \ {l} /\ UNCHANGED <<serving, pending>>
          ELSE serving' = l /\ pending' = pending \ {l} /\ UNCHANGED sr
  /\ UNCHANGED <<depth, actions, fgvars, exl, incs>>

(* A handler, the timer's through lwIP and XPOLL, runs the MAC driver,     *)
(* which enters and leaves its critical sections.                          *)
IsrEnter ==
  /\ serving # None /\ ~incs /\ actions[Eth] > 0
  /\ incs' = TRUE
  /\ sr' = DisabledMask(sr, depth[Eth], Eth)
  /\ depth' = [depth EXCEPT ![Eth] = @ - 1]
  /\ UNCHANGED <<actions, pending, fgvars, exl, snap, serving>>

IsrExit ==
  /\ serving # None /\ incs
  /\ incs' = FALSE
  /\ sr' = EnabledMask(sr, depth[Eth], Eth)
  /\ depth' = [depth EXCEPT ![Eth] = @ + 1]
  /\ UNCHANGED <<actions, pending, fgvars, exl, snap, serving>>

IsrReturn ==
  /\ serving # None /\ ~incs
  /\ serving' = None
  /\ UNCHANGED <<sr, depth, actions, pending, fgvars, exl, snap, incs>>

\* ERET clears EXL and nothing else of SR.
Eret ==
  /\ exl /\ serving = None /\ snap = {}
  /\ exl' = FALSE
  /\ UNCHANGED <<sr, depth, actions, pending, fgvars, snap, serving, incs>>

Foreground == Script \/ ReadSR \/ WriteSR \/ Body \/ Restore
Dispatch == Take \/ Serve \/ Eret
Handler == IsrEnter \/ IsrExit \/ IsrReturn
Next == Foreground \/ Dispatch \/ Handler \/ Raise
Spec == Init /\ [][Next]_vars

(* The CPU takes a deliverable interrupt and runs the dispatcher; a        *)
(* handler ends its critical sections and returns; the foreground is not   *)
(* starved by interrupts that arrive at 100 Hz and at packet rate.         *)
LiveSpec ==
  /\ Spec
  /\ WF_vars(Dispatch) /\ WF_vars(IsrExit) /\ SF_vars(IsrReturn) /\ SF_vars(Foreground)

-----------------------------------------------------------------------------
Calls == [op : {"disable", "enable", "atomic", "request"}, level : {Timer, Eth}]

(* Everything in SR is an enable bit and the dispatcher serves levels only. *)
TypeOK ==
  /\ sr \subseteq Levels \cup {IE} /\ saved \subseteq Levels \cup {IE}
  /\ depth \in [Levels -> Int] /\ actions \in [Levels -> Nat]
  /\ todo \in Seq(Calls) /\ step \in {"call", "write", "body", "restore"}
  /\ pending \subseteq {Timer, Eth} /\ snap \subseteq Levels
  /\ exl \in BOOLEAN /\ incs \in BOOLEAN /\ serving \in Levels \cup {None}
  /\ calls \in Nat

(* Between calls SR is what the requested handlers ask for: the levels      *)
(* that have one are unmasked, the others masked, although every handler    *)
(* passes through cfe_disable_irq and cfe_enable_irq and a critical section *)
(* before the attach takes depth below zero.                               *)
MasksSettled ==
  todo = <<>> /\ ~incs => sr = {IE} \cup {l \in Levels : actions[l] > 0}

(* cfe_irq_disable reads SR and writes it back ("XXX: This is not really    *)
(* atomic"), but what an interrupt in between leaves in SR is what was read, *)
(* so no mask change of a handler is overwritten.                          *)
SavedNotStale == step = "write" /\ ~exl => saved = sr

(* No handler runs while the foreground is in a body or between cli and     *)
(* sti, and with one MAC driver attached its handler does not run while the *)
(* foreground is between CS_ENTER and CS_EXIT.                             *)
HandlersExcluded ==
  /\ step \in {"body", "restore"} => ~exl
  /\ todo # <<>> /\ Head(todo) = Call("enable", Eth) /\ actions[Eth] <= 1 => serving # Eth

(* An interrupt that is raised is served, however the foreground and the    *)
(* handlers mask and unmask: no mask is lost for good.                     *)
InterruptsServed ==
  /\ Timer \in pending ~> serving = Timer
  /\ Eth \in pending /\ actions[Eth] > 0 ~> serving = Eth
=============================================================================
