----------------------------- MODULE MCXClient -----------------------------
(* A broadcast to two servers beside a call to the first of them.       *)
EXTENDS XClient

CONSTANTS a1, a2, w1, w2, w3, b1

AddrOfDef == [w \in Workers |-> IF w = w2 THEN a2 ELSE a1]
PartDef == [b \in Broadcasts |-> {w1, w2}]
=============================================================================
