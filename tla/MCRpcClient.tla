---------------------------- MODULE MCRpcClient ----------------------------
(* One call made with Call and two with Go, which share a Done channel of  *)
(* capacity 1.                                                             *)
EXTENDS RpcClient

CONSTANTS s1, a1, a2, ch1, chA

DoneOfDef == [c \in Calls |-> IF c = s1 THEN ch1 ELSE chA]
CapDef == [ch \in Chan |-> 1]
=============================================================================
