------------------------------ MODULE NvStore ------------------------------
(***************************************************************************)
(* What bcmnvram.c promises: names bound to values, in memory and saved.   *)
(***************************************************************************)
CONSTANTS Names, Values, NULL
VARIABLES mem, saved  \* [Names -> Values \cup {NULL}]

Init == mem = saved /\ mem \in [Names -> Values \cup {NULL}]
Set(n, v) == mem' = [mem EXCEPT ![n] = v] /\ UNCHANGED saved
Unset(n) == mem' = [mem EXCEPT ![n] = NULL] /\ UNCHANGED saved
Commit == saved' = mem /\ UNCHANGED mem
Restart == mem' = saved /\ UNCHANGED saved
Next == \/ \E n \in Names : Unset(n) \/ \E v \in Values : Set(n, v)
        \/ Commit \/ Restart
vars == <<mem, saved>>
Spec == Init /\ [][Next]_vars
=============================================================================
