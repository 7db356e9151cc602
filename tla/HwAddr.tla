------------------------------- MODULE HwAddr -------------------------------
(***************************************************************************)
(* The Ethernet address: ethernetif_init (bcm_ether.c) and sb_ether_attach *)
(* (dev_sb_mac.c) parse one string, from nvram, with enet_parse_hwaddr     *)
(* (net_ether.c).  Neither looks at its result.  The string is not checked *)
(* when the script sets it.                                                *)
(***************************************************************************)
EXTENDS Integers, Sequences, SequencesExt

CONSTANTS
  ADDR_LEN,  \* ENET_ADDR_LEN
  MaxStr     \* bound: the length of et0macaddr

AddrAssumption == ADDR_LEN \in Nat \ {0} /\ MaxStr \in Nat  \* assumed in Parts

VARIABLES
  str,      \* the string: digits, separators, something else
  reader,   \* who parses: "netif", then "softc"
  pos, idx, \* the next character; bytes that are still missing
  hwaddr    \* of both: pairs of digits

vars == <<str, reader, pos, idx, hwaddr>>

Digits == {"0", "1"}  \* two of the sixteen tell a nibble from the other
Sep == ":"
Chars == Digits \cup {Sep, "other"}
Zeros == [k \in 1..ADDR_LEN |-> <<"0", "0">>]

Init ==
  /\ str \in UNION {[1..k -> Chars] : k \in 0..MaxStr}
  /\ reader = "netif" /\ pos = 1 /\ idx = ADDR_LEN
  /\ hwaddr = [netif |-> Zeros, softc |-> Zeros]  \* static storage; memset

Ends(p) == p > Len(str)
Next2 == IF reader = "netif" THEN "softc" ELSE "none"
(* The end of a call, with 0 or with -1: what was stored stays.            *)
Return == reader' = Next2 /\ pos' = 1 /\ idx' = ADDR_LEN

\* Definitions whose names end in _Mut are faulty variants of the definition that
\* follows them; no other definition uses them.  They show that the properties bite.
Alone_Mut(d) == <<d, "0">>  \* the nibbles not exchanged
Alone(d) == <<"0", d>>

Pair == str[pos] \in Digits /\ ~Ends(pos + 1) /\ str[pos + 1] \in Digits \cup {Sep}
(* One turn of the loop: a digit, and a digit or a separator; then perhaps  *)
(* the separator behind them.                                              *)
Byte ==
  LET alone == str[pos + 1] = Sep
      after == IF alone THEN pos + 1 ELSE pos + 2
  IN /\ ~Ends(pos) /\ idx > 0 /\ Pair
     /\ hwaddr' = [hwaddr EXCEPT ![reader][ADDR_LEN - idx + 1] =
                     IF alone THEN Alone(str[pos]) ELSE <<str[pos], str[pos + 1]>>]
     /\ idx' = idx - 1
     /\ pos' = IF ~Ends(after) /\ str[after] = Sep THEN after + 1 ELSE after
     /\ UNCHANGED <<str, reader>>

Malformed ==  \* return -1
  /\ ~Ends(pos) /\ idx > 0 /\ ~Pair
  /\ Return /\ UNCHANGED <<str, hwaddr>>

Parsed ==  \* return 0, also when the string ends early
  /\ Ends(pos) \/ idx = 0
  /\ Return /\ UNCHANGED <<str, hwaddr>>

Next == reader # "none" /\ (Byte \/ Malformed \/ Parsed)
Spec == Init /\ [][Next]_vars

-----------------------------------------------------------------------------
TypeOK == pos \in 1..MaxStr + 1 /\ idx \in 0..ADDR_LEN /\ reader \in {"netif", "softc", "none"}

(* "a string in the form xx:xx:xx:xx:xx:xx" (net_ether.c:732): bytes of one *)
(* or two digits with a separator between them.                            *)
Texts(b) == {b} \cup (IF b[1] = "0" THEN {<<b[2]>>} ELSE {})
Writes(s, a) ==
  \E t \in [1..ADDR_LEN -> UNION {Texts(a[k]) : k \in 1..ADDR_LEN}] :
    /\ \A k \in 1..ADDR_LEN : t[k] \in Texts(a[k])
    /\ Len(t[ADDR_LEN]) = 2  \* nothing follows the last
    /\ s = FlattenSeq([k \in 1..2 * ADDR_LEN - 1 |-> IF k % 2 = 1 THEN t[(k + 1) \div 2] ELSE <<Sep>>])

(* lwIP and the MAC have the same address, whatever the string is, and the *)
(* one that is written there if one is.                                    *)
AddressesAgree ==
  reader = "none" =>
    /\ hwaddr.netif = hwaddr.softc
    /\ \A a \in [1..ADDR_LEN -> Digits \X Digits] : Writes(str, a) => hwaddr.netif = a
=============================================================================
