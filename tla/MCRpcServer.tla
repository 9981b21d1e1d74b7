---------------------------- MODULE MCRpcServer ----------------------------
(* A few requests on one connection, for methods of a service Foo that two *)
(* receivers compete for; in the second no reply is a pointer.             *)
EXTENDS RpcServer

CONSTANTS c1, c2, c3

Sig(i, o) == [in |-> <<"pointer">> \o i, out |-> o]
Foo == [name |-> "Foo", exported |-> TRUE,
        methods |-> [Sum |-> Sig(<<"exported", "pointer">>, <<"error">>),
                     Len |-> Sig(<<"exported", "pointer">>, <<"builtin">>)]]
OtherFoo == [Foo EXCEPT !.methods.Sum = Sig(<<"pointer", "builtin">>, <<"error">>),
                        !.methods.Len = Sig(<<"exported", "elem">>, <<"error">>)]
foo == [name |-> "foo", exported |-> FALSE, methods |-> << >>]

ReceiversDef == {Foo, OtherFoo, foo}
OnlyFoo == {Foo}
MethodOfDef == [c \in Calls |-> <<"Foo", IF c = c3 THEN "Len" ELSE "Sum">>]
NoDot == [c \in Calls |-> IF c = c1 THEN <<"Sum">> ELSE <<"Foo", "Sum">>]
=============================================================================
