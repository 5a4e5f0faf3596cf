------------------------------ MODULE MCStage2 ------------------------------
(* Blocks, pages, and ranges that begin or end inside a block, over a part *)
(* of the guest's addresses that two level-2 tables map.  The root has two *)
(* pages, and the second held entries before.                              *)
EXTENDS Stage2

MCCalls ==
  [pa: {NoPa, 2, 3, 8}, ipa: {0, 2, 3}, len: 1 .. 3]

MCLeftover == [x \in 2 .. 3 |-> IF x = 2 THEN <<"01", 8>> ELSE Invalid]
=============================================================================
