--------------------------- MODULE RpcConnection ---------------------------
(***************************************************************************)
(* A client and the server's end of its connection, composed: the modules  *)
(* RpcClient and RpcServer share the two streams and the two open flags,   *)
(* and each takes the place of the peer that the other one assumes.        *)
(*                                                                         *)
(* Each module has an account of what its peer does: `handling', what      *)
(* RpcClient's peer has read and may answer, and `sent', what RpcServer's  *)
(* peer has sent.  Here they are histories of what the other side did, and *)
(* ClientSpec and ServerSpec say that it is a peer of the kind assumed, so *)
(* that what is shown of each side alone holds of the two together.        *)
(***************************************************************************)
EXTENDS Integers, Sequences, FiniteSets

CONSTANTS
    Calls, NoCall, Sync, Chan, DoneOf, Cap, Unencodable, Undecodable,
    MethodOf, Receivers, BadArgs, BadReply, Options, Panics, ReadAhead

\* What RpcClient and RpcServer assume.
ASSUME ConnectionAssumption ==
    /\ Sync \subseteq Calls
    /\ DoneOf \in [Calls -> Chan]
    /\ Cap \in [Chan -> Nat \ {0}]
    /\ \A c \in Sync : /\ Cap[DoneOf[c]] = 1
                       /\ \A d \in Calls : DoneOf[d] = DoneOf[c] => d = c
    /\ NoCall \notin Calls
    /\ Unencodable \subseteq Calls /\ Undecodable \subseteq Calls
    /\ BadArgs \subseteq Calls /\ BadReply \subseteq Calls
    /\ \A c \in Calls : MethodOf[c] \in Seq(STRING) /\ MethodOf[c] # << >>
    /\ \A r \in Receivers : \A m \in DOMAIN r.methods :
         /\ r.methods[m].in \in
              Seq({"error", "builtin", "exported", "unexported", "pointer", "elem"})
         /\ r.methods[m].out \in
              Seq({"error", "builtin", "exported", "unexported", "pointer", "elem"})
    /\ Panics \in BOOLEAN
    /\ Options \subseteq {"plain", "timeout", "badMagic", "badCodec", "notJson"}
    /\ ReadAhead \in Nat

VARIABLES
    seq, pend, closing, shutdown, pc, seqOf, err, reply, result, dones,
    completions, rcv, rmsg, rcall, rerr, notify, wbuf, bufErr, handling,
    serviceMap, opt, spc, cur, rseq, herr, werr, executed, answered, desync,
    swbuf, sbufErr, sent,
    c2s, s2c, cOpen, sOpen

clientOnly == <<seq, pend, closing, shutdown, pc, seqOf, err, reply, result, dones,
                completions, rcv, rmsg, rcall, rerr, notify, wbuf, bufErr>>
serverOnly == <<serviceMap, opt, spc, cur, rseq, herr, werr, executed, answered, desync,
                swbuf, sbufErr>>
vars == <<seq, pend, closing, shutdown, pc, seqOf, err, reply, result, dones,
          completions, rcv, rmsg, rcall, rerr, notify, wbuf, bufErr, handling,
          serviceMap, opt, spc, cur, rseq, herr, werr, executed, answered, desync,
          swbuf, sbufErr, sent, c2s, s2c, cOpen, sOpen>>

Client == INSTANCE RpcClient

Server == INSTANCE RpcServer WITH pc <- spc, wbuf <- swbuf, bufErr <- sbufErr

-----------------------------------------------------------------------------
\* The requests whose header is among the values a step took from a stream, and
\* those among the values it put on one.
RequestsIn(s) == {[seq |-> s[i].seq, call |-> s[i].call] :
                    i \in {j \in 1 .. Len(s) : s[j].k = "head"}}
Taken(s, t) == SubSeq(s, 1, Len(s) - Len(t))
Put(s, t) == SubSeq(t, Len(s) + 1, Len(t))

Init == Client!Init /\ Server!Init

\* A step of one side, which leaves the other side's own state alone.
ByClient(A) ==
    /\ A
    /\ sent' = sent \cup {r.call : r \in RequestsIn(Put(c2s, c2s'))}
    /\ UNCHANGED serverOnly

ByServer(A) ==
    /\ A
    /\ handling' = (handling \cup RequestsIn(Taken(c2s, c2s'))) \ RequestsIn(Put(s2c, s2c'))
    /\ UNCHANGED clientOnly

ClientMoves == ByClient(Client!ClientStep)

ServerMoves == ByServer(Server!ServerStep)

Next == ClientMoves \/ ServerMoves

Spec == Init /\ [][Next]_vars

\* The fairness of the two modules, restated for the composed state.
FairSpec == /\ Spec
            /\ WF_vars(ByClient(Client!Progress))
            /\ WF_vars(ByServer(Server!Progress))

-----------------------------------------------------------------------------
\* The server behaves as the peer that RpcClient is verified against: it answers
\* only requests whose header it has read, each at most once, with whole
\* responses, and stops writing when it has closed its end.
ClientSpec == Client!Spec

\* The client behaves as the peer that RpcServer is verified against: it sends each
\* request once, numbered 1, 2, 3 and so on, whole or cut short after the header,
\* and it writes nothing once either end is closed.
ServerSpec == Server!Spec

\* What a call reports is what happened at the server: it succeeds only with the
\* body of its own response, after the method's one run, which returned nil or an
\* error without a text (server.go:222, client.go:117; then the body is the
\* placeholder); an error reported as the server's was put there for this very call;
\* the method ran at most once, and not at all for a call that Send refused with
\* ErrShutdown.
ResultIsTrue ==
    \A c \in Calls :
        /\ result[c] = "ok" => executed[c] = 1 /\ werr[c] # "text" /\ reply[c] = c
        /\ err[c] = "server" => herr[c] /\ answered[c] = 1
        /\ executed[c] <= 1
        /\ err[c] = "shutdown" => executed[c] = 0

\* Every call ends, with an answer or an error, without any help from a context:
\* the request is processed and answered, or the connection ends, with the
\* server's whole process if a method panics (service.go:107).
EveryCallEnds ==
    <>[](\A c \in Calls : /\ pc[c] = "returned"
                          /\ c \notin Sync => completions[c] = 1)
=============================================================================
