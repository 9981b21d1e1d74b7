-------------------------- MODULE MCRpcConnection --------------------------
(* One call made with Call and one with Go over one connection, to a       *)
(* server with one of two receivers of a name, one of which has a reply    *)
(* that is no pointer.                                                     *)
EXTENDS RpcConnection

CONSTANTS s1, a1, ch1, chA

DoneOfDef == [c \in Calls |-> IF c = s1 THEN ch1 ELSE chA]
CapDef == [ch \in Chan |-> 1]
Foo(rep) == [name |-> "Foo", exported |-> TRUE,
             methods |-> [Sum |-> [in |-> <<"pointer", "exported", rep>>, out |-> <<"error">>]]]
ReceiversDef == {Foo("pointer"), Foo("builtin")}
MethodOfDef == [c \in Calls |-> <<"Foo", IF c = s1 THEN "Sum" ELSE "Len">>]
=============================================================================
