------------------------------- MODULE Nvram -------------------------------
(***************************************************************************)
(* The store of bcmnvram.c: name=value tuples on hash chains, linked by    *)
(* pointers, read from flash and written back to it.  A tuple that was     *)
(* replaced or unset goes to nv_pending and is never freed.                *)
(*                                                                         *)
(* A flash image is the sequence of its tuples.  An image that binds a     *)
(* name twice (see README) and a write cut short are not among the states. *)
(***************************************************************************)
EXTENDS Integers, Sequences, FiniteSets, SequencesExt

CONSTANTS
  Names, Values, NULL,
  MaxTuples,  \* bound: the addresses that KMALLOC can return, 1 to MaxTuples
  Hash,       \* nvram_hash, with collisions
  Space       \* the tuples for which NVRAM_SPACE has room

NvramAssumption ==  \* assumed in Parts
  /\ MaxTuples \in Nat /\ Space \in 0..MaxTuples /\ NULL \notin Values \cup 1..MaxTuples \cup [name : Names, value : Values]
  /\ IsFiniteSet(Names) /\ DOMAIN Hash = Names /\ \A n \in Names : Hash[n] \in 0..Cardinality(Names)

VARIABLES
  up,         \* nvram_init has run
  binding,    \* what is at an address: a tuple, or NULL
  next,       \* the link of a tuple
  hashtab, nv_pending,
  flash,      \* the image
  held        \* a pointer that nvram_get returned and what was there, as a set

vars == <<up, binding, next, hashtab, nv_pending, flash, held>>
Tuples == 1..MaxTuples
Buckets == {Hash[n] : n \in Names}

-----------------------------------------------------------------------------
(* The tuples on the list that begins at p.                                *)
After == [t \in Tuples \cup {NULL} |-> IF t = NULL THEN NULL ELSE next[t]]
List(p) ==
  LET at[k \in 1..MaxTuples] == IF k = 1 THEN p ELSE After[at[k - 1]]
  IN [k \in 1..Cardinality({j \in Tuples : at[j] # NULL}) |-> at[k]]
On(list) == {list[k] : k \in 1..Len(list)}

(* nvram_lookup: the first tuple on the chain of the name.                 *)
Lookup(n) ==
  LET chain == List(hashtab[Hash[n]])
      hits  == {k \in 1..Len(chain) : binding[chain[k]].name = n}
  IN IF hits = {} THEN NULL ELSE chain[CHOOSE k \in hits : \A j \in hits : k <= j]

Free == {t \in Tuples : binding[t] = NULL}

(* nvram_internalize: each tuple in turn becomes the head of its chain.    *)
Internalize(image) ==
  LET Hashed(h, k) == {i \in 1..k : Hash[image[i].name] = h}
      Newest(s) == IF s = {} THEN NULL ELSE CHOOSE i \in s : \A j \in s : j <= i
  IN /\ binding' = [t \in Tuples |-> IF t <= Len(image) THEN image[t] ELSE NULL]
     /\ next' = [t \in Tuples |-> IF t <= Len(image) THEN Newest(Hashed(Hash[image[t].name], t - 1))
                                  ELSE NULL]
     /\ hashtab' = [h \in Buckets |-> Newest(Hashed(h, Len(image)))]

Images ==
  {s \in UNION {[1..k -> [name : Names, value : Values]] : k \in 0..Space} :
     \A i, j \in 1..Len(s) : i # j => s[i].name # s[j].name}

Init ==
  /\ up = FALSE /\ flash \in Images
  /\ binding = [t \in Tuples |-> NULL] /\ next = [t \in Tuples |-> NULL]
  /\ hashtab = [h \in Buckets |-> NULL] /\ nv_pending = NULL /\ held = {}

-----------------------------------------------------------------------------
Get(n) ==  \* nvram_get
  /\ up /\ Lookup(n) # NULL
  /\ held' = {[ptr |-> Lookup(n), value |-> binding[Lookup(n)].value]}
  /\ UNCHANGED <<up, binding, next, hashtab, nv_pending, flash>>

\* Definitions whose names end in _Mut are faulty variants of the definition that
\* follows them; no other definition uses them.  They show that the properties bite.
Unlinked_Mut(h, p) ==  \* does not remember the tuple before
  [link |-> next, head |-> [hashtab EXCEPT ![h] = next[p]]]
(* nvram_delete: the chain without p.                                      *)
Unlinked(h, p) ==
  LET prev == {q \in On(List(hashtab[h])) : next[q] = p} IN
  IF prev = {} THEN [link |-> next, head |-> [hashtab EXCEPT ![h] = next[p]]]
  ELSE [link |-> [next EXCEPT ![CHOOSE q \in prev : TRUE] = next[p]], head |-> hashtab]

New_Mut(n) == IF Lookup(n) # NULL THEN Lookup(n) ELSE CHOOSE t \in Free : TRUE  \* in place
New(n) == CHOOSE t \in Free : TRUE
(* nvram_set.  Out of memory changes nothing.                              *)
Set(n, v) ==
  LET p == Lookup(n)
      h == Hash[n]
      del == IF p = NULL THEN [link |-> next, head |-> hashtab] ELSE Unlinked(h, p)
      parked == IF p = NULL THEN del.link ELSE [del.link EXCEPT ![p] = nv_pending]
  IN /\ up /\ Free # {}
     /\ nv_pending' = IF p = NULL THEN nv_pending ELSE p
     /\ binding' = [binding EXCEPT ![New(n)] = [name |-> n, value |-> v]]
     /\ next' = [parked EXCEPT ![New(n)] = del.head[h]]  \* nvram_insert
     /\ hashtab' = [del.head EXCEPT ![h] = New(n)]
     /\ UNCHANGED <<up, flash, held>>

(* nvram_unset.                                                            *)
Unset(n) ==
  LET p == Lookup(n)
      del == Unlinked(Hash[n], p)
  IN /\ up /\ p # NULL
     /\ hashtab' = del.head /\ next' = [del.link EXCEPT ![p] = nv_pending]
     /\ nv_pending' = p
     /\ UNCHANGED <<up, binding, flash, held>>

(* nvram_commit: chain after chain.  Without room nothing changes; nobody  *)
(* looks at what cfe_writeblk returns, so a failed write is not noticed.   *)
Chain(h) == LET l == List(hashtab[h]) IN [k \in 1..Len(l) |-> binding[l[k]]]
Contents ==
  FlattenSeq([k \in 1..Cardinality(Names) + 1 |-> IF k - 1 \in Buckets THEN Chain(k - 1) ELSE <<>>])
Commit ==
  /\ up /\ Len(Contents) <= Space
  /\ flash' \in {flash, Contents}
  /\ UNCHANGED <<up, binding, next, hashtab, nv_pending, held>>

(* A start of the firmware: nvram_init.                                    *)
Restart ==
  /\ Internalize(flash)
  /\ up' = TRUE /\ nv_pending' = NULL /\ held' = {}
  /\ UNCHANGED flash

Next == \/ \E n \in Names : Get(n) \/ Unset(n) \/ \E v \in Values : Set(n, v)
        \/ Commit \/ Restart
Spec == Init /\ [][Next]_vars

-----------------------------------------------------------------------------
TypeOK ==
  /\ binding \in [Tuples -> [name : Names, value : Values] \cup {NULL}]
  /\ next \in [Tuples -> Tuples \cup {NULL}]
  /\ hashtab \in [Buckets -> Tuples \cup {NULL}] /\ nv_pending \in Tuples \cup {NULL}

Saved == [n \in Names |-> LET k == {k \in 1..Len(flash) : flash[k].name = n}
                          IN IF k = {} THEN NULL ELSE flash[CHOOSE i \in k : TRUE].value]
Mem == [n \in Names |-> IF Lookup(n) = NULL THEN NULL ELSE binding[Lookup(n)].value]
Store == INSTANCE NvStore WITH mem <- (IF up THEN Mem ELSE Saved), saved <- Saved

(* The chains and the image implement the store: a name has the value set  *)
(* last, also when names share a chain, and after a commit and a restart.  *)
StoreKept == Store!Spec

(* A string that nvram_get returned stays what it was while other names    *)
(* and the same name are set and unset, and every tuple is on exactly one  *)
(* list.                                                                   *)
ValuesStay ==
  LET lists == {<<l, List(l)>> : l \in ({hashtab[h] : h \in Buckets} \cup {nv_pending}) \ {NULL}} IN
  /\ \A g \in held : binding[g.ptr] # NULL /\ binding[g.ptr].value = g.value
  /\ \A t \in Tuples \ Free : Cardinality({l \in lists : t \in On(l[2])}) = 1
=============================================================================
