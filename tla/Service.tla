------------------------------ MODULE Service ------------------------------
(***************************************************************************)
(* Services by reflection (MyRPC/service.go) and their lookup              *)
(* (findService of MyRPC/server.go), as operators.                         *)
(*                                                                         *)
(* A receiver is a struct type with its methods: its name, whether that is *)
(* exported, and the signatures, whose parameter 1 is the receiver itself. *)
(* Of a type only its kind matters: "error", "builtin", "exported" and     *)
(* "unexported" named types, "pointer", which has neither a name nor a     *)
(* package path, whatever it points to, and "elem", the other types that   *)
(* have elements and pass for exported: maps, slices, arrays, channels.    *)
(***************************************************************************)
EXTENDS Integers, Sequences, Functions

Kinds == {"error", "builtin", "exported", "unexported", "pointer", "elem"}

isExportedOrBuiltinType(typ) == typ # "unexported"

\* Mutant: any result will do.
Suitable_AnyResult(sig) ==
    /\ Len(sig.in) = 3 /\ Len(sig.out) = 1
    /\ isExportedOrBuiltinType(sig.in[2]) /\ isExportedOrBuiltinType(sig.in[3])

\* The filter of registerMethods.
Suitable(sig) ==
    /\ Len(sig.in) = 3 /\ Len(sig.out) = 1
    /\ sig.out[1] = "error"
    /\ isExportedOrBuiltinType(sig.in[2]) /\ isExportedOrBuiltinType(sig.in[3])

\* newService: the methods that pass, each with its ArgType and ReplyType.
newService(rcvr) ==
    [name |-> rcvr.name,
     method |-> [m \in {x \in DOMAIN rcvr.methods : Suitable(rcvr.methods[x])} |->
                    [arg |-> rcvr.methods[m].in[2], reply |-> rcvr.methods[m].in[3]]]]

\* newReplyv takes the Elem of the reply's type, which panics on a type that has
\* none; registerMethods has not looked at that.
ReplyPanics(mtype) == mtype.reply \notin {"pointer", "elem"}

\* On another type with elements it makes a pointer to one, and f.Call panics because
\* that is no value of the parameter's type.
CallPanics(mtype) == mtype.reply = "elem"

\* findService.  A ServiceMethod is the sequence of its parts between dots; the
\* last is the method's name, and a service's name has no dot.
ServiceName(sm) == SubSeq(sm, 1, Len(sm) - 1)
Found(serviceMap, sm) ==
    /\ Len(sm) > 1
    /\ \E s \in DOMAIN serviceMap : /\ ServiceName(sm) = <<s>>
                                    /\ sm[Len(sm)] \in DOMAIN serviceMap[s].method
MType(serviceMap, sm) == serviceMap[sm[1]].method[sm[Len(sm)]]
=============================================================================
