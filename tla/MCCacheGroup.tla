---------------------------- MODULE MCCacheGroup ---------------------------
(* Two nodes that list each other in different orders; the key "a" belongs *)
(* to n1 and the others to n2.                                             *)
EXTENDS CacheGroup

CONSTANTS n1, n2, g1, g2, g3

SortIntsDef(s) == SortSeq(s, LAMBDA a, b : a < b)
KeysDef == {NoKey, <<"a">>, <<"+">>, <<" ">>}
NodeOfDef == [g \in Gets |-> IF g = g3 THEN n2 ELSE n1]
KeysOfDef == [g \in Gets |-> IF g = g1 THEN {<<"a">>, NoKey} ELSE {<<"+">>}]
Spaces == [g \in Gets |-> {<<" ">>}]
PeerListsDef == {<<n1, n2>>, <<n2, n1>>}
hashDef == [n \in Nodes |-> [i \in 0 .. 1 |-> IF n = n1 THEN 1 + 2 * i ELSE 2 + 2 * i]]
keyHashDef == [k \in KeysDef |-> IF k = <<"a">> THEN 5 ELSE 2]
=============================================================================
