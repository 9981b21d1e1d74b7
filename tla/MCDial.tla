------------------------------- MODULE MCDial ------------------------------
(* The addresses and options that take every path of XDial.                *)
EXTENDS Dial

AddressesDef == {<<"addr">>, <<"tcp", "addr">>, <<"http", "addr">>}
OptListsDef == {<< >>, <<Nil>>, <<Nil, ZeroOption>>, <<ZeroOption>>,
                <<ZeroOption, ZeroOption>>,
                <<[ZeroOption EXCEPT !.codec = "json", !.timeout = TRUE]>>}
=============================================================================
