------------------------------ MODULE TrxImage ------------------------------
(***************************************************************************)
(* The flash image: tools/asustrx.c packs the firmware and a compiled      *)
(* script behind a header; after the flashing main.c looks for the script  *)
(* where the header's second offset says.  A unit stands for four bytes    *)
(* where files lie; file contents are positions in a file.                 *)
(*                                                                         *)
(* The inputs leave room for the footer and give no more offsets than      *)
(* files: asustrx does not test either (see README).                       *)
(***************************************************************************)
EXTENDS Integers, Sequences

CONSTANTS
  HEADER, FOOTER,  \* sizes of struct trx_header and of asus
  ALIGN, PAGE,     \* both ROUNDs
  MaxLen,          \* maxlen
  MaxFile          \* bound: the length of a file

TrxAssumption ==  \* assumed in Parts
  /\ HEADER \in Nat \ {0} /\ FOOTER \in Nat \ {0} /\ ALIGN \in Nat \ {0} /\ PAGE \in Nat \ {0}
  /\ MaxFile \in Nat /\ MaxLen \in Nat
  /\ HEADER % ALIGN = 0 /\ PAGE % ALIGN = 0 /\ MaxLen % PAGE = 0

VARIABLES
  lens,     \* the lengths of the files: firmware, script, a third
  prod_id,  \* -p: a footer
  offsets,  \* the header's, 0 when not given
  file,     \* the file that comes next; 5, packed; 6, booted; 0, refused
  cur_len,
  buf,      \* what is at an address
  script    \* what main found: <<>>, nothing

vars == <<lens, prod_id, offsets, file, cur_len, buf, script>>

Up(x, r) == x + ((r - (x % r)) % r)
Zero == <<0, 0>>       \* memset
From(f, k) == <<f, k>>  \* the k-th unit of file f
Footer == <<4, 0>>

Init ==
  /\ lens \in UNION {[1..n -> 0..MaxFile] : n \in 1..3}
  /\ prod_id \in BOOLEAN
  /\ \E b \in UNION {[1..n -> 0..MaxLen - PAGE] : n \in 0..Len(lens)} :
       offsets = [i \in 1..3 |-> IF i <= Len(b) THEN b[i] ELSE 0]
  /\ file = 1 /\ cur_len = HEADER
  /\ buf = [a \in 0..MaxLen - 1 |-> Zero] /\ script = <<>>

Overwrite(at, v) == [a \in DOMAIN buf |-> IF a - at \in DOMAIN v THEN v[a - at] ELSE buf[a]]

Base == IF offsets[file] = 0 THEN cur_len ELSE offsets[file]
(* One file: at its offset, or at the next free place, which it is told.   *)
Pack ==
  LET n == lens[file] IN
  /\ file \in 1..Len(lens)
  /\ IF cur_len > Base \/ ~(n < MaxLen - Base)  \* "offset too large", "file too large"
       THEN file' = 0 /\ UNCHANGED <<cur_len, buf, offsets>>
       ELSE /\ offsets' = [offsets EXCEPT ![file] = Base]
            /\ buf' = Overwrite(Base, [k \in 0..n - 1 |-> From(file, k)])
            /\ cur_len' = Base + (IF file < Len(lens) THEN Up(n, ALIGN) ELSE n)
            /\ file' = file + 1
  /\ UNCHANGED <<lens, prod_id, script>>

\* The definition whose name ends in _Mut is a faulty variant of the one that follows
\* it; no other definition uses it.  It shows that the property bites.
Reserved_Mut == cur_len  \* the footer lies in the rounding
Reserved == IF prod_id THEN cur_len + FOOTER ELSE cur_len
(* The footer at the end of the last page; the header's length and crc.    *)
Finish ==
  LET len == Up(Reserved, PAGE) IN
  /\ file = Len(lens) + 1 /\ len <= MaxLen
  /\ cur_len' = len /\ file' = 5
  /\ buf' = IF prod_id THEN Overwrite(len - FOOTER, [k \in 0..FOOTER - 1 |-> Footer]) ELSE buf
  /\ UNCHANGED <<lens, prod_id, offsets, script>>

(* main: a script whose own length follows its magic number.               *)
Boot ==
  /\ file = 5 /\ file' = 6
  /\ script' = IF buf[offsets[2]] # From(2, 0) THEN <<>>
               ELSE [k \in 1..lens[2] |-> buf[offsets[2] + k - 1]]
  /\ UNCHANGED <<lens, prod_id, offsets, cur_len, buf>>

Next == Pack \/ Finish \/ Boot
Spec == Init /\ [][Next]_vars

-----------------------------------------------------------------------------
TypeOK == file \in 0..6 /\ cur_len \in 0..MaxLen /\ offsets \in [1..3 -> 0..MaxLen]

(* main finds the script that was packed, whole, and nothing else, however *)
(* long the firmware is and wherever -b puts it: neither the firmware, the *)
(* padding nor the footer takes a unit of it.                              *)
ScriptFound ==
  file = 6 =>
    script = IF Len(lens) > 1 THEN [k \in 1..lens[2] |-> From(2, k - 1)] ELSE <<>>
=============================================================================
