------------------------------ MODULE MCParts ------------------------------
(* Values of Parts' constants.  Port lists: words with and without a flag, *)
(* unknown ports, spaces before, between and after, a word that is too     *)
(* long.  Hash: two names share a chain.                                   *)
EXTENDS Parts
MCPortLists ==
  {<<" ">>, <<"0", " ", "5", "*">>, <<" ", "1", " ", " ", "2", "t", " ", "5">>,
   <<"5", "1", "2", "3", "*", " ", "9", " ", "0", " ">>}
MCHash == LET a == CHOOSE x \in Names : TRUE IN [x \in Names |-> IF x = a THEN 0 ELSE 1]
=============================================================================
