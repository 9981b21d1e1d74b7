------------------------ MODULE RpcConnectionProofs ------------------------
(***************************************************************************)
(* Proofs about a client and the server's end of its connection together,  *)
(* for any calls, any channels, any receivers and any option.              *)
(*                                                                         *)
(* Each side is shown to be a peer of the kind that the other one's module *)
(* assumes.  The two facts depend on each other: that a step of the server *)
(* is one of RpcClient's peer follows from the server's own invariant,     *)
(* which holds because the client's steps so far were those of RpcServer's *)
(* peer, and the other way round.  One induction carries both invariants   *)
(* (Inv), with what relates the two sides (Link) and what the client has   *)
(* concluded from the server's answers (Learnt).                           *)
(***************************************************************************)
EXTENDS RpcConnection, SequenceTheorems, FiniteSetTheorems, TLAPS

\* The two sides with what is proved of them.
ClientP == INSTANCE RpcClientProofs
ServerP == INSTANCE RpcServerProofs WITH pc <- spc, wbuf <- swbuf, bufErr <- sbufErr

-----------------------------------------------------------------------------
\* The calls that have a number and have not been written.
Unwritten == {"writeHeader", "writeBody"}

\* The client's numbers are those of RpcServer's peer: while the connection is up,
\* the next number follows the requests sent and the one about to be.
Numbers ==
    /\ \A c \in sent : pc[c] \notin {"init"} \cup Unwritten
    /\ bufErr => ~ClientP!Up
    /\ ClientP!Up /\ (\A c \in Calls : pc[c] \notin Unwritten) => seq = Cardinality(sent) + 1
    /\ \A c \in Calls : ClientP!Up /\ pc[c] \in Unwritten =>
         seqOf[c] = Cardinality(sent) + 1 /\ seq = Cardinality(sent) + 2

\* A request whose header the server has read and whose answer it has not flushed
\* is one that RpcClient's peer may answer.
Duties ==
    \A c \in Calls : ServerP!Pending(c) => [seq |-> rseq[c], call |-> c] \in handling

Link == Numbers /\ Duties

\* What the client has been told, in the response it is reading and in its calls,
\* the server has said.
Reading ==
    rcv \in {"remove", "readBody"} =>
        \E c \in Calls : seqOf[c] = rmsg.seq /\ rmsg.seq > 0 /\ ServerP!Said(c, rmsg.err)
Learnt ==
    /\ Reading
    /\ \A c \in Calls : /\ reply[c] # NoCall => ServerP!Said(c, FALSE)
                        /\ err[c] = "server" => ServerP!Said(c, TRUE)
                        /\ err[c] = "shutdown" => pc[c] \notin {"init"} \cup Unwritten
                        /\ err[c] = "shutdown" => c \notin sent

Inv == /\ ClientP!IndInv /\ ClientP!Wire
       /\ ServerP!IndInv
       /\ Link /\ Learnt

-----------------------------------------------------------------------------
(* The two sides.                                                          *)

\* Client and ClientP name the same specification twice, once with its theorems.
LEMMA SameClient ==
    /\ Client!Init <=> ClientP!Init
    /\ Client!ClientStep <=> ClientP!ClientStep
    /\ [Client!Next]_(Client!vars) <=> [ClientP!Next]_(ClientP!vars)
BY DEF Client!Restrict, ClientP!Restrict, Client!Range, ClientP!Range,
       Client!clientVars, ClientP!clientVars, Client!callVars, ClientP!callVars,
       Client!recvVars, ClientP!recvVars, Client!bufVars, ClientP!bufVars,
       Client!wireVars, ClientP!wireVars, Client!vars, ClientP!vars, Client!Frame,
       ClientP!Frame, Client!Up, ClientP!Up, Client!Sending, ClientP!Sending,
       Client!Terminating, ClientP!Terminating, Client!SendFree, ClientP!SendFree,
       Client!MuFree, ClientP!MuFree, Client!Room, ClientP!Room, Client!Done,
       ClientP!Done, Client!Lookup, ClientP!Lookup, Client!Removed, ClientP!Removed,
       Client!AfterSend, ClientP!AfterSend, Client!Refusing, ClientP!Refusing,
       Client!Register, ClientP!Register, Client!WriteHeader, ClientP!WriteHeader,
       Client!Flush, ClientP!Flush, Client!WriteBody, ClientP!WriteBody,
       Client!CloseConn, ClientP!CloseConn, Client!Remove, ClientP!Remove,
       Client!SendDone, ClientP!SendDone, Client!Await, ClientP!Await, Client!Cancel,
       ClientP!Cancel, Client!Drain, ClientP!Drain, Client!Close, ClientP!Close,
       Client!RecvHeader, ClientP!RecvHeader, Client!RecvFail, ClientP!RecvFail,
       Client!RecvRemove, ClientP!RecvRemove, Client!RecvBody, ClientP!RecvBody,
       Client!RecvDone, ClientP!RecvDone, Client!TerminateLock, ClientP!TerminateLock,
       Client!Notify, ClientP!Notify, Client!NotifyDone, ClientP!NotifyDone,
       Client!TerminateEnd, ClientP!TerminateEnd, Client!PeerRead, ClientP!PeerRead,
       Client!PeerRespond, ClientP!PeerRespond, Client!PeerBreak, ClientP!PeerBreak,
       Client!PeerHangup, ClientP!PeerHangup, Client!SendStep, ClientP!SendStep,
       Client!Receive, ClientP!Receive, Client!Peer, ClientP!Peer, Client!ClientStep,
       ClientP!ClientStep, Client!Next, ClientP!Next, Client!Init, ClientP!Init,
       Client!FirstSeq, ClientP!FirstSeq

\* So do Server and ServerP.
LEMMA SameServer ==
    /\ Server!Init <=> ServerP!Init
    /\ Server!ServerStep <=> ServerP!ServerStep
    /\ [Server!Next]_(Server!vars) <=> [ServerP!Next]_(ServerP!vars)
BY DEF Server!Cardinality, ServerP!Cardinality, Server!reqVars, ServerP!reqVars,
       Server!bufVars, ServerP!bufVars, Server!wireVars, ServerP!wireVars, Server!vars,
       ServerP!vars, Server!Loop, ServerP!Loop, Server!Handler, ServerP!Handler,
       Server!Worker, ServerP!Worker, Server!Threads, ServerP!Threads, Server!Frame,
       ServerP!Frame, Server!GoodOption, ServerP!GoodOption, Server!HandleTimeout,
       ServerP!HandleTimeout, Server!Up, ServerP!Up, Server!ReqOf, ServerP!ReqOf,
       Server!SendFree, ServerP!SendFree, Server!AfterResponse, ServerP!AfterResponse,
       Server!Die, ServerP!Die, Server!Alive, ServerP!Alive, Server!Stored,
       ServerP!Stored, Server!Register, ServerP!Register, Server!Panic, ServerP!Panic,
       Server!ReadOption, ServerP!ReadOption, Server!RefuseOption, ServerP!RefuseOption,
       Server!ReadHeader, ServerP!ReadHeader, Server!ReplyPanic, ServerP!ReplyPanic,
       Server!RecoveredPanic, ServerP!RecoveredPanic, Server!CallFails, ServerP!CallFails,
       Server!CallPanics, ServerP!CallPanics, Server!Returns, ServerP!Returns,
       Server!ReadHeaderFail, ServerP!ReadHeaderFail, Server!ReadArgs, ServerP!ReadArgs,
       Server!ReadArgsFail, ServerP!ReadArgsFail, Server!WaitDone, ServerP!WaitDone,
       Server!Drain, ServerP!Drain, Server!RunMethod, ServerP!RunMethod, Server!Called,
       ServerP!Called, Server!Timeout, ServerP!Timeout, Server!Sent, ServerP!Sent,
       Server!LockSend, ServerP!LockSend, Server!Return, ServerP!Return,
       Server!WriteHead, ServerP!WriteHead, Server!Flush, ServerP!Flush,
       Server!WriteBody, ServerP!WriteBody, Server!PeerSend, ServerP!PeerSend,
       Server!PeerBreak, ServerP!PeerBreak, Server!PeerReceive, ServerP!PeerReceive,
       Server!PeerClose, ServerP!PeerClose, Server!ConnStep, ServerP!ConnStep,
       Server!SendResponse, ServerP!SendResponse, Server!Meet, ServerP!Meet,
       Server!Peer, ServerP!Peer, Server!Program, ServerP!Program, Server!ServerStep,
       ServerP!ServerStep, Server!Next, ServerP!Next, Server!Suitable, ServerP!Suitable,
       Server!ReplyPanics, ServerP!ReplyPanics, Server!ServiceName, ServerP!ServiceName,
       Server!Found, ServerP!Found, Server!MType, ServerP!MType, Server!newService,
       ServerP!newService, Server!isExportedOrBuiltinType,
       ServerP!isExportedOrBuiltinType, Server!Init, ServerP!Init

\* What the client's module proves of its steps, for this connection.
LEMMA ClientStart == ClientP!Init => ClientP!IndInv /\ ClientP!Wire
BY ConnectionAssumption, ClientP!Start, ClientP!WireStart

\* Every step keeps the client's invariants.
LEMMA ClientKeeps ==
    ClientP!IndInv /\ ClientP!Wire /\ [ClientP!Next]_(ClientP!vars)
      => ClientP!IndInv' /\ ClientP!Wire'
BY ConnectionAssumption, ClientP!Step, ClientP!WireStep

\* On the wire the client takes one item, writes a frame or its head, or closes.
LEMMA ClientOnWire ==
    ClientP!IndInv /\ ClientP!Wire /\ ClientP!ClientStep =>
      /\ UNCHANGED <<sOpen, handling>>
      /\ \/ UNCHANGED <<c2s, s2c>> /\ cOpen' \in {cOpen, FALSE}
         \/ cOpen /\ s2c # << >> /\ s2c' = Tail(s2c) /\ UNCHANGED <<c2s, cOpen>>
         \/ /\ UNCHANGED <<s2c, cOpen>> /\ ClientP!Up
            /\ \E c \in Calls :
                 /\ pc[c] = "writeBody"
                 /\ \/ c2s' = c2s \o ClientP!Frame(seqOf[c], c, FALSE)
                    \/ c2s' = c2s \o <<ClientP!Frame(seqOf[c], c, FALSE)[1]>>
BY ConnectionAssumption, ClientP!WireEffect, Zenon DEF ClientP!Wire

\* A call's write puts its frame, or the head alone, on the wire.
LEMMA ClientWrites ==
    \A c \in Calls :
      ClientP!IndInv /\ ClientP!Wire /\ ClientP!WriteBody(c) /\ ClientP!Up =>
        \/ c2s' = c2s \o <<ClientP!Frame(seqOf[c], c, FALSE)[1]>>
        \/ c2s' = c2s \o ClientP!Frame(seqOf[c], c, FALSE)
BY ConnectionAssumption, ClientP!BodyEffect, Zenon DEF ClientP!Wire

\* A call keeps the number it was given.
LEMMA ClientNumberStays ==
    \A c \in Calls :
      ClientP!IndInv /\ [ClientP!Next]_(ClientP!vars) /\ seqOf[c] > 0
        => seqOf'[c] = seqOf[c]
BY ConnectionAssumption, ClientP!NumberStays, Zenon

\* What the server's module proves of its steps, for this connection.
LEMMA ServerStart == ServerP!Init => ServerP!IndInv
BY ConnectionAssumption, ServerP!Start, Zenon DEF ServerP!Kinds

\* Every step keeps the server's invariant.
LEMMA ServerKeeps ==
    ServerP!IndInv /\ [ServerP!Next]_(ServerP!vars) => ServerP!IndInv'
BY ConnectionAssumption, ServerP!Step, Zenon DEF ServerP!Kinds

\* On the wire the server takes items, answers a request it has read, or closes.
LEMMA ServerOnWire ==
    ServerP!IndInv /\ ServerP!ServerStep =>
      /\ UNCHANGED <<cOpen, sent>>
      /\ \/ UNCHANGED <<c2s, s2c>> /\ sOpen' \in {sOpen, FALSE}
         \/ /\ UNCHANGED <<s2c, sOpen>> /\ sOpen
            /\ \E n \in 1 .. Len(c2s) : c2s' = SubSeq(c2s, n + 1, Len(c2s))
         \/ /\ UNCHANGED c2s /\ ServerP!Up
            /\ \E c \in Calls :
                 /\ ServerP!Pending(c) /\ ~ServerP!Pending(c)'
                 /\ \/ s2c' = s2c \o ServerP!Frame(rseq[c], c, herr[c]) /\ sOpen' = sOpen
                    \/ /\ s2c' = s2c \o <<ServerP!Frame(rseq[c], c, FALSE)[1]>>
                       /\ sOpen' = FALSE
BY ConnectionAssumption, ServerP!WireEffect, Zenon DEF ServerP!Kinds

\* A request becomes pending when its header is read.
LEMMA ServerTakesOn ==
    \A c \in Calls :
      ServerP!IndInv /\ ServerP!ServerStep /\ ServerP!Pending(c)' =>
        \/ ServerP!Pending(c) /\ rseq'[c] = rseq[c]
        \/ /\ c2s # << >> /\ c2s' = Tail(c2s)
           /\ Head(c2s).k = "head" /\ Head(c2s).call = c /\ rseq'[c] = Head(c2s).seq
BY ConnectionAssumption, ServerP!PendingStep, Zenon DEF ServerP!Kinds

\* What the server has answered stays answered.
LEMMA ServerStandsByIt ==
    \A c \in Calls, e \in BOOLEAN :
      ServerP!IndInv /\ [ServerP!Next]_(ServerP!vars) /\ ServerP!Said(c, e)
        => ServerP!Said(c, e)'
BY ConnectionAssumption, ServerP!SaidStep, Zenon DEF ServerP!Kinds, ServerP!IndInv

-----------------------------------------------------------------------------
(* The histories.                                                          *)

\* Both sides send the same messages, and have the same idea of an open connection.
LEMMA SameMessages ==
    /\ \A n, c, e : ServerP!Frame(n, c, e) = ClientP!Frame(n, c, e)
    /\ ServerP!Item = ClientP!Item
    /\ ServerP!Up <=> ClientP!Up
    /\ ServerP!Cardinality(sent) = Cardinality(sent)
    /\ ServerP!IsFiniteSet(sent) <=> IsFiniteSet(sent)
BY DEF ServerP!Frame, ClientP!Frame, ServerP!Item, ClientP!Item, ServerP!Up, ClientP!Up,
       ServerP!Cardinality, Cardinality, ServerP!IsFiniteSet, IsFiniteSet

\* The requests in a message, whole or cut short.
LEMMA MessageRequests ==
    \A n \in Nat, c \in Calls, e \in BOOLEAN :
      LET f == ClientP!Frame(n, c, e) IN
      /\ f \in Seq(ClientP!Item) /\ <<f[1]>> \in Seq(ClientP!Item) /\ f[1] \in ClientP!Item
      /\ RequestsIn(f) = {[seq |-> n, call |-> c]}
      /\ RequestsIn(<<f[1]>>) = {[seq |-> n, call |-> c]}
<1> SUFFICES ASSUME NEW n \in Nat, NEW c \in Calls, NEW e \in BOOLEAN
             PROVE  LET f == ClientP!Frame(n, c, e) IN
                    /\ f \in Seq(ClientP!Item) /\ <<f[1]>> \in Seq(ClientP!Item)
                    /\ f[1] \in ClientP!Item
                    /\ RequestsIn(f) = {[seq |-> n, call |-> c]}
                    /\ RequestsIn(<<f[1]>>) = {[seq |-> n, call |-> c]}
  OBVIOUS
<1> DEFINE h == [k |-> "head", seq |-> n, call |-> c, err |-> e]
           b == [k |-> "body", seq |-> n, call |-> c, err |-> e]
<1>1. h \in ClientP!Item /\ b \in ClientP!Item
  BY DEF ClientP!Item
<1>2. h.k = "head" /\ b.k = "body" /\ h.seq = n /\ h.call = c
  OBVIOUS
<1>3. ClientP!Frame(n, c, e) = <<h, b>>
  BY DEF ClientP!Frame
<1> HIDE DEF h, b
<1>4. /\ Len(<<h, b>>) = 2 /\ <<h, b>>[1] = h /\ <<h, b>>[2] = b
      /\ Len(<<h>>) = 1 /\ <<h>>[1] = h
      /\ <<h, b>> \in Seq(ClientP!Item) /\ <<h>> \in Seq(ClientP!Item)
  BY <1>1
<1>5. {j \in 1 .. Len(<<h, b>>) : <<h, b>>[j].k = "head"} = {1}
  BY <1>2, <1>4
<1>6. {j \in 1 .. Len(<<h>>) : <<h>>[j].k = "head"} = {1}
  BY <1>2, <1>4
<1>7. RequestsIn(<<h, b>>) = {[seq |-> n, call |-> c]}
  BY <1>2, <1>4, <1>5 DEF RequestsIn
<1>8. RequestsIn(<<h>>) = {[seq |-> n, call |-> c]}
  BY <1>2, <1>4, <1>6 DEF RequestsIn
<1> QED
  BY <1>1, <1>3, <1>4, <1>7, <1>8

\* A stream that stays as it is moves no request.
LEMMA NothingMoved ==
    ASSUME NEW S, NEW s \in Seq(S)
    PROVE  RequestsIn(Put(s, s)) = {} /\ RequestsIn(Taken(s, s)) = {}
<1>1. Len(s) \in Nat /\ Len(s) - Len(s) = 0 /\ Len(s) + 1 > Len(s)
  BY LenProperties
<1>2. PICK m \in Int : m = Len(s) + 1
  BY <1>1
<1>3. Put(s, s) = << >>
  <2>1. SubSeq(s, m, Len(s)) = << >>
    BY <1>1, <1>2, SubSeqEmpty
  <2> QED
    BY <1>2, <2>1 DEF Put
<1>4. Taken(s, s) = << >>
  <2>1. SubSeq(s, 1, 0) = << >>
    BY SubSeqEmpty
  <2> QED
    BY <1>1, <2>1 DEF Taken
<1>5. RequestsIn(<< >>) = {}
  BY DEF RequestsIn
<1> QED
  BY <1>3, <1>4, <1>5

\* What was appended was put there ...
LEMMA AppendedIsPut ==
    ASSUME NEW S, NEW s \in Seq(S), NEW t \in Seq(S)
    PROVE  Put(s, s \o t) = t
<1>1. Len(s) \in Nat /\ Len(t) \in Nat /\ Len(s \o t) = Len(s) + Len(t)
  BY LenProperties, ConcatProperties
<1>2. SubSeq(s \o t, Len(s) + 1, Len(s \o t)) = t
  BY <1>1, SubSeqOfConcat2
<1> QED
  BY <1>2 DEF Put

\* ... which makes a difference ...
LEMMA AppendingChanges ==
    ASSUME NEW S, NEW s \in Seq(S), NEW t \in Seq(S), t # << >>
    PROVE  s \o t # s
<1>1. PICK m \in Nat : m = Len(s)
  BY LenProperties
<1>2. PICK n \in Nat : n = Len(t) /\ n # 0
  BY LenProperties, EmptySeq
<1>3. Len(s \o t) = m + n
  BY <1>1, <1>2, ConcatProperties
<1>4. m + n # m
  BY <1>2
<1> QED
  BY <1>1, <1>3, <1>4, Zenon

\* ... and what the stream begins with was taken.
LEMMA FrontIsTaken ==
    ASSUME NEW S, NEW s \in Seq(S), NEW n \in 1 .. Len(s)
    PROVE  RequestsIn(Taken(s, SubSeq(s, n + 1, Len(s))))
             = {[seq |-> s[i].seq, call |-> s[i].call] :
                  i \in {j \in 1 .. n : s[j].k = "head"}}
<1>1. Len(s) \in Nat /\ n \in Nat /\ n <= Len(s)
  BY LenProperties
<1>2. PICK m \in Int : m = n + 1
  BY <1>1
<1>3. Len(SubSeq(s, m, Len(s))) = Len(s) - n
  <2>1. \A i \in m .. Len(s) : s[i] \in S
    BY <1>1, <1>2, ElementOfSeq
  <2>2. Len(SubSeq(s, m, Len(s))) = IF m <= Len(s) THEN Len(s) - m + 1 ELSE 0
    BY <1>1, <2>1, SubSeqProperties
  <2> QED
    BY <1>1, <1>2, <2>2
<1>4. Taken(s, SubSeq(s, n + 1, Len(s))) = SubSeq(s, 1, n)
  <2>1. Len(s) - (Len(s) - n) = n
    BY <1>1
  <2> QED
    BY <1>2, <1>3, <2>1 DEF Taken
<1>5. Len(SubSeq(s, 1, n)) = n /\ \A i \in 1 .. n : SubSeq(s, 1, n)[i] = s[i]
  <2>1. \A i \in 1 .. n : s[i] \in S
    BY <1>1, ElementOfSeq
  <2>2. /\ Len(SubSeq(s, 1, n)) = IF 1 <= n THEN n - 1 + 1 ELSE 0
        /\ \A i \in 1 .. n - 1 + 1 : SubSeq(s, 1, n)[i] = s[1 + i - 1]
    BY <1>1, <2>1, SubSeqProperties
  <2>3. n - 1 + 1 = n /\ 1 <= n /\ \A i \in 1 .. n : 1 + i - 1 = i
    BY <1>1
  <2> QED
    BY <2>2, <2>3
<1>6. PICK t : t = SubSeq(s, 1, n)
  OBVIOUS
<1>7. {j \in 1 .. Len(t) : t[j].k = "head"} = {j \in 1 .. n : s[j].k = "head"}
  BY <1>5, <1>6
<1>8. RequestsIn(t) = {[seq |-> s[i].seq, call |-> s[i].call] :
                         i \in {j \in 1 .. n : s[j].k = "head"}}
  BY <1>5, <1>6, <1>7 DEF RequestsIn
<1> QED
  BY <1>4, <1>6, <1>8

-----------------------------------------------------------------------------
(* Each side is the other one's peer.                                      *)

\* What the types of the two sides say here.
LEMMA Types ==
    ClientP!IndInv /\ ServerP!IndInv =>
      /\ c2s \in Seq(ClientP!Item) /\ s2c \in Seq(ClientP!Item)
      /\ cOpen \in BOOLEAN /\ sOpen \in BOOLEAN
      /\ pc \in [Calls -> {"init", "writeHeader", "writeBody", "closeConn", "remove",
                           "done", "await", "returned"}]
      /\ seq \in Nat /\ seqOf \in [Calls -> Nat] /\ rseq \in [Calls -> Nat]
      /\ herr \in [Calls -> BOOLEAN] /\ answered \in [Calls -> Nat]
      /\ sent \subseteq Calls /\ IsFiniteSet(sent)
<1>1. ClientP!IndInv => /\ c2s \in Seq(ClientP!Item) /\ s2c \in Seq(ClientP!Item)
                        /\ cOpen \in BOOLEAN /\ sOpen \in BOOLEAN
  BY DEF ClientP!IndInv, ClientP!TypeOK, ClientP!WireTypeOK
<1>2. ClientP!IndInv =>
        /\ pc \in [Calls -> {"init", "writeHeader", "writeBody", "closeConn", "remove",
                             "done", "await", "returned"}]
        /\ seq \in Nat /\ seqOf \in [Calls -> Nat]
  BY DEF ClientP!IndInv, ClientP!TypeOK, ClientP!CallTypeOK, ClientP!ClientTypeOK
<1>3. ServerP!IndInv =>
        /\ rseq \in [Calls -> Nat] /\ herr \in [Calls -> BOOLEAN]
        /\ answered \in [Calls -> Nat] /\ sent \subseteq Calls
  BY DEF ServerP!IndInv, ServerP!TypeOK
<1>4. ServerP!IndInv => IsFiniteSet(sent)
  BY SameMessages DEF ServerP!IndInv, ServerP!Requests
<1> QED
  BY <1>1, <1>2, <1>3, <1>4

\* What a step of the server does to the account of its duties.
LEMMA DutiesEffect ==
    ASSUME ClientP!IndInv, ServerP!IndInv, ServerMoves
    PROVE  /\ UNCHANGED <<cOpen, sent, clientOnly>>
           /\ \/ UNCHANGED <<c2s, s2c, handling>> /\ sOpen' \in {sOpen, FALSE}
              \/ /\ UNCHANGED <<s2c, sOpen>> /\ sOpen
                 /\ \E n \in 1 .. Len(c2s) :
                      /\ c2s' = SubSeq(c2s, n + 1, Len(c2s))
                      /\ handling' = handling \cup
                           {[seq |-> c2s[i].seq, call |-> c2s[i].call] :
                               i \in {j \in 1 .. n : c2s[j].k = "head"}}
              \/ /\ UNCHANGED c2s /\ cOpen /\ sOpen
                 /\ \E c \in Calls :
                      /\ ServerP!Pending(c) /\ ~ServerP!Pending(c)'
                      /\ handling' = handling \ {[seq |-> rseq[c], call |-> c]}
                      /\ \/ /\ s2c' = s2c \o ClientP!Frame(rseq[c], c, herr[c])
                            /\ sOpen' = sOpen
                         \/ /\ s2c' = s2c \o <<ClientP!Frame(rseq[c], c, FALSE)[1]>>
                            /\ sOpen' = FALSE
<1>1. /\ c2s \in Seq(ClientP!Item) /\ s2c \in Seq(ClientP!Item)
      /\ rseq \in [Calls -> Nat] /\ herr \in [Calls -> BOOLEAN]
  BY Types
<1>2. /\ ServerP!ServerStep /\ UNCHANGED clientOnly
      /\ handling' = (handling \cup RequestsIn(Taken(c2s, c2s')))
                       \ RequestsIn(Put(s2c, s2c'))
  BY SameServer DEF ServerMoves, ByServer
<1>3. UNCHANGED <<cOpen, sent>>
  BY <1>2, ServerOnWire
<1>4. s2c' = s2c => RequestsIn(Put(s2c, s2c')) = {}
  BY <1>1, NothingMoved
<1>5. c2s' = c2s => RequestsIn(Taken(c2s, c2s')) = {}
  BY <1>1, NothingMoved
<1>6. CASE UNCHANGED <<c2s, s2c>> /\ sOpen' \in {sOpen, FALSE}
  <2>1. UNCHANGED handling
    BY <1>2, <1>4, <1>5, <1>6
  <2> QED
    BY <1>2, <1>3, <1>6, <2>1
<1>7. ASSUME UNCHANGED <<s2c, sOpen>>, sOpen,
             NEW n \in 1 .. Len(c2s), c2s' = SubSeq(c2s, n + 1, Len(c2s))
      PROVE  handling' = handling \cup
                           {[seq |-> c2s[i].seq, call |-> c2s[i].call] :
                               i \in {j \in 1 .. n : c2s[j].k = "head"}}
  <2>1. RequestsIn(Taken(c2s, c2s')) = {[seq |-> c2s[i].seq, call |-> c2s[i].call] :
                                          i \in {j \in 1 .. n : c2s[j].k = "head"}}
    BY <1>1, <1>7, FrontIsTaken
  <2> QED
    BY <1>2, <1>4, <1>7, <2>1
<1>8. ASSUME UNCHANGED c2s, NEW c \in Calls, NEW t \in Seq(ClientP!Item),
             RequestsIn(t) = {[seq |-> rseq[c], call |-> c]}, s2c' = s2c \o t
      PROVE  handling' = handling \ {[seq |-> rseq[c], call |-> c]}
  <2>1. Put(s2c, s2c') = t
    BY <1>1, <1>8, AppendedIsPut
  <2> QED
    BY <1>2, <1>5, <1>8, <2>1
<1>9. ASSUME UNCHANGED c2s, ServerP!Up, NEW c \in Calls,
             \/ s2c' = s2c \o ServerP!Frame(rseq[c], c, herr[c])
             \/ s2c' = s2c \o <<ServerP!Frame(rseq[c], c, FALSE)[1]>>
      PROVE  /\ cOpen /\ sOpen /\ handling' = handling \ {[seq |-> rseq[c], call |-> c]}
             /\ ServerP!Frame(rseq[c], c, herr[c]) = ClientP!Frame(rseq[c], c, herr[c])
             /\ ServerP!Frame(rseq[c], c, FALSE) = ClientP!Frame(rseq[c], c, FALSE)
  <2>1. rseq[c] \in Nat /\ herr[c] \in BOOLEAN
    BY <1>1
  <2>2. PICK t \in Seq(ClientP!Item) :
          RequestsIn(t) = {[seq |-> rseq[c], call |-> c]} /\ s2c' = s2c \o t
    BY <1>9, <2>1, MessageRequests, SameMessages
  <2>3. cOpen /\ sOpen
    BY <1>9 DEF ServerP!Up
  <2> QED
    BY <1>8, <1>9, <2>2, <2>3, SameMessages
<1> QED
  BY <1>2, <1>3, <1>6, <1>7, <1>9, ServerOnWire

\* A step of the server is one that RpcClient's peer could take.
LEMMA ServerIsAPeer ==
    ASSUME ClientP!IndInv, ServerP!IndInv, Duties, ServerMoves
    PROVE  [ClientP!Next]_(ClientP!vars)
<1> USE DEF ClientP!clientVars, ClientP!callVars, ClientP!recvVars, ClientP!bufVars
<1>1. /\ c2s \in Seq(ClientP!Item) /\ s2c \in Seq(ClientP!Item)
      /\ cOpen \in BOOLEAN /\ sOpen \in BOOLEAN
      /\ rseq \in [Calls -> Nat] /\ herr \in [Calls -> BOOLEAN]
  BY Types
<1>2. UNCHANGED <<cOpen, clientOnly>>
  BY DutiesEffect
<1>3. CASE UNCHANGED <<c2s, s2c, handling>> /\ sOpen' \in {sOpen, FALSE}
  <2>1. CASE sOpen' = sOpen
    BY <1>2, <1>3, <2>1 DEF clientOnly, ClientP!vars
  <2>2. CASE sOpen' # sOpen
    <3>1. sOpen /\ sOpen' = FALSE
      BY <1>1, <1>3, <2>2
    <3>2. ClientP!PeerHangup
      BY <1>2, <1>3, <3>1 DEF clientOnly, ClientP!PeerHangup
    <3> QED
      BY <3>2 DEF ClientP!Next, ClientP!Peer
  <2> QED
    BY <2>1, <2>2
<1>4. ASSUME UNCHANGED <<s2c, sOpen>>, sOpen, NEW n \in 1 .. Len(c2s),
             c2s' = SubSeq(c2s, n + 1, Len(c2s)),
             handling' = handling \cup
               {[seq |-> c2s[i].seq, call |-> c2s[i].call] :
                   i \in {j \in 1 .. n : c2s[j].k = "head"}}
      PROVE  ClientP!Next
  <2>1. ClientP!PeerRead(n)
    BY <1>2, <1>4 DEF clientOnly, ClientP!PeerRead
  <2> QED
    BY <2>1 DEF ClientP!Next, ClientP!Peer
<1>5. ASSUME UNCHANGED c2s, cOpen, sOpen, NEW c \in Calls, ServerP!Pending(c),
             handling' = handling \ {[seq |-> rseq[c], call |-> c]},
             \/ s2c' = s2c \o ClientP!Frame(rseq[c], c, herr[c]) /\ sOpen' = sOpen
             \/ s2c' = s2c \o <<ClientP!Frame(rseq[c], c, FALSE)[1]>> /\ sOpen' = FALSE
      PROVE  ClientP!Next
  <2>1. PICK r : r = [seq |-> rseq[c], call |-> c]
    OBVIOUS
  <2>2. r \in handling /\ r.seq = rseq[c] /\ r.call = c
    BY <1>5, <2>1 DEF Duties
  <2>3. CASE s2c' = s2c \o ClientP!Frame(rseq[c], c, herr[c]) /\ sOpen' = sOpen
    <3>1. ClientP!PeerRespond(r, herr[c])
      BY <1>2, <1>5, <2>1, <2>2, <2>3 DEF clientOnly, ClientP!PeerRespond
    <3> QED
      BY <1>1, <2>2, <3>1 DEF ClientP!Next, ClientP!Peer
  <2>4. CASE s2c' = s2c \o <<ClientP!Frame(rseq[c], c, FALSE)[1]>> /\ sOpen' = FALSE
    <3>1. PICK h \in ClientP!Item : h = ClientP!Frame(rseq[c], c, FALSE)[1]
      BY <1>1, MessageRequests
    <3>2. Append(s2c, h) = s2c \o <<h>>
      BY <1>1
    <3>3. ClientP!PeerBreak(r)
      BY <1>2, <1>5, <2>1, <2>2, <2>4, <3>1, <3>2 DEF clientOnly, ClientP!PeerBreak
    <3> QED
      BY <2>2, <3>3 DEF ClientP!Next, ClientP!Peer
  <2> QED
    BY <1>5, <2>3, <2>4
<1> QED
  BY <1>3, <1>4, <1>5, DutiesEffect

\* What a step of the client does to the account of the requests sent.
LEMMA SentEffect ==
    ASSUME ClientP!IndInv, ClientP!Wire, ServerP!IndInv, ClientMoves
    PROVE  /\ UNCHANGED <<sOpen, handling, serverOnly>>
           /\ \/ UNCHANGED <<c2s, s2c, sent>> /\ cOpen' \in {cOpen, FALSE}
              \/ /\ cOpen /\ s2c # << >> /\ s2c' = Tail(s2c)
                 /\ UNCHANGED <<c2s, cOpen, sent>>
              \/ /\ UNCHANGED <<s2c, cOpen>> /\ cOpen /\ sOpen
                 /\ \E c \in Calls :
                      /\ pc[c] = "writeBody" /\ sent' = sent \cup {c}
                      /\ \/ c2s' = c2s \o ClientP!Frame(seqOf[c], c, FALSE)
                         \/ c2s' = c2s \o <<ClientP!Frame(seqOf[c], c, FALSE)[1]>>
<1>1. c2s \in Seq(ClientP!Item) /\ seqOf \in [Calls -> Nat]
  BY Types
<1>2. /\ ClientP!ClientStep /\ UNCHANGED serverOnly
      /\ sent' = sent \cup {r.call : r \in RequestsIn(Put(c2s, c2s'))}
  BY SameClient DEF ClientMoves, ByClient
<1>3. UNCHANGED <<sOpen, handling>>
  BY <1>2, ClientOnWire
<1>4. c2s' = c2s => sent' = sent
  BY <1>1, <1>2, NothingMoved
<1>5. ASSUME ClientP!Up, NEW c \in Calls,
             \/ c2s' = c2s \o ClientP!Frame(seqOf[c], c, FALSE)
             \/ c2s' = c2s \o <<ClientP!Frame(seqOf[c], c, FALSE)[1]>>
      PROVE  cOpen /\ sOpen /\ sent' = sent \cup {c}
  <2>1. PICK t \in Seq(ClientP!Item) :
          RequestsIn(t) = {[seq |-> seqOf[c], call |-> c]} /\ c2s' = c2s \o t
    BY <1>1, <1>5, MessageRequests
  <2>2. Put(c2s, c2s') = t
    BY <1>1, <2>1, AppendedIsPut
  <2>3. {r.call : r \in RequestsIn(t)} = {c}
    BY <2>1
  <2> QED
    BY <1>2, <1>5, <2>2, <2>3 DEF ClientP!Up
<1> QED
  BY <1>2, <1>3, <1>4, <1>5, ClientOnWire

\* A step of the client is one that RpcServer's peer could take.
LEMMA ClientIsAPeer ==
    ASSUME ClientP!IndInv, ClientP!Wire, ServerP!IndInv, Numbers, ClientMoves
    PROVE  [ServerP!Next]_(ServerP!vars)
<1> USE DEF ServerP!reqVars, ServerP!bufVars
<1>1. /\ c2s \in Seq(ClientP!Item) /\ seqOf \in [Calls -> Nat]
      /\ cOpen \in BOOLEAN /\ sOpen \in BOOLEAN
  BY Types
<1>2. UNCHANGED <<sOpen, serverOnly>>
  BY SentEffect
<1>3. CASE UNCHANGED <<c2s, s2c, sent>> /\ cOpen' \in {cOpen, FALSE}
  <2>1. CASE cOpen' = cOpen
    BY <1>2, <1>3, <2>1 DEF serverOnly, ServerP!vars
  <2>2. CASE cOpen' # cOpen
    <3>1. cOpen /\ cOpen' = FALSE
      BY <1>1, <1>3, <2>2
    <3>2. ServerP!PeerClose
      BY <1>2, <1>3, <3>1 DEF serverOnly, ServerP!PeerClose
    <3> QED
      BY <3>2 DEF ServerP!Next, ServerP!Peer
  <2> QED
    BY <2>1, <2>2
<1>4. CASE cOpen /\ s2c # << >> /\ s2c' = Tail(s2c) /\ UNCHANGED <<c2s, cOpen, sent>>
  <2>1. ServerP!PeerReceive
    BY <1>2, <1>4 DEF serverOnly, ServerP!PeerReceive
  <2> QED
    BY <2>1 DEF ServerP!Next, ServerP!Peer
<1>5. ASSUME UNCHANGED <<s2c, cOpen>>, cOpen, sOpen, NEW c \in Calls, pc[c] = "writeBody",
             sent' = sent \cup {c},
             \/ c2s' = c2s \o ClientP!Frame(seqOf[c], c, FALSE)
             \/ c2s' = c2s \o <<ClientP!Frame(seqOf[c], c, FALSE)[1]>>
      PROVE  ServerP!Next
  <2>1. c \notin sent /\ seqOf[c] = ServerP!Cardinality(sent) + 1
    BY <1>5, SameMessages DEF Numbers, Unwritten, ClientP!Up
  <2>2. PICK n \in Nat : n = seqOf[c]
    BY <1>1
  <2>3. ServerP!Frame(n, c, FALSE) = ClientP!Frame(n, c, FALSE)
    BY SameMessages
  <2>4. CASE c2s' = c2s \o ClientP!Frame(n, c, FALSE)
    <3>1. ServerP!PeerSend(c)
      BY <1>2, <1>5, <2>1, <2>2, <2>3, <2>4 DEF serverOnly, ServerP!PeerSend
    <3> QED
      BY <3>1 DEF ServerP!Next, ServerP!Peer
  <2>5. CASE c2s' = c2s \o <<ClientP!Frame(n, c, FALSE)[1]>>
    <3>1. PICK h \in ClientP!Item : h = ClientP!Frame(n, c, FALSE)[1]
      BY MessageRequests
    <3>2. Append(c2s, h) = c2s \o <<h>>
      BY <1>1
    <3>3. ServerP!PeerBreak(c)
      BY <1>2, <1>5, <2>1, <2>2, <2>3, <2>5, <3>1, <3>2 DEF serverOnly, ServerP!PeerBreak
    <3> QED
      BY <3>3 DEF ServerP!Next, ServerP!Peer
  <2> QED
    BY <1>5, <2>2, <2>4, <2>5
<1> QED
  BY <1>3, <1>4, <1>5, SentEffect

-----------------------------------------------------------------------------
(* What relates the two sides.                                             *)

\* A step of the server leaves the client's numbers alone and opens nothing.
LEMMA NumbersByServer ==
    ClientP!IndInv /\ ServerP!IndInv /\ Numbers /\ ServerMoves => Numbers'
<1> SUFFICES ASSUME ClientP!IndInv, ServerP!IndInv, Numbers, ServerMoves PROVE Numbers'
  OBVIOUS
<1>1. UNCHANGED <<pc, seq, seqOf, bufErr, sent, cOpen>>
  BY DutiesEffect DEF clientOnly
<1>2. sOpen' \in {sOpen, FALSE}
  BY DutiesEffect
<1>3. ClientP!Up' => ClientP!Up
  BY <1>1, <1>2, Types DEF ClientP!Up
<1> QED
  BY <1>1, <1>3 DEF Numbers

\* A request that the server takes on is entered, and one it still has to answer is
\* not struck out.
LEMMA DutiesByServer ==
    ClientP!IndInv /\ ServerP!IndInv /\ Duties /\ ServerMoves => Duties'
<1> SUFFICES ASSUME ClientP!IndInv, ServerP!IndInv, Duties, ServerMoves,
                    NEW c \in Calls, ServerP!Pending(c)'
             PROVE  [seq |-> rseq'[c], call |-> c] \in handling'
  BY DEF Duties
<1>1. c2s \in Seq(ClientP!Item) /\ ServerP!ServerStep
  BY Types, SameServer DEF ServerMoves, ByServer
<1>2. CASE ServerP!Pending(c) /\ rseq'[c] = rseq[c]
  <2>1. [seq |-> rseq[c], call |-> c] \in handling
    BY <1>2 DEF Duties
  <2>2. ASSUME NEW d \in Calls, ~ServerP!Pending(d)',
               handling' = handling \ {[seq |-> rseq[d], call |-> d]}
        PROVE  [seq |-> rseq[c], call |-> c] \in handling'
    <3>1. d # c
      BY <2>2
    <3>2. [seq |-> rseq[c], call |-> c] # [seq |-> rseq[d], call |-> d]
      BY <3>1
    <3> QED
      BY <2>1, <2>2, <3>2
  <2>3. [seq |-> rseq[c], call |-> c] \in handling'
    BY <2>1, <2>2, DutiesEffect
  <2> QED
    BY <1>2, <2>3
<1>3. CASE /\ c2s # << >> /\ c2s' = Tail(c2s)
           /\ Head(c2s).k = "head" /\ Head(c2s).call = c /\ rseq'[c] = Head(c2s).seq
  <2>1. /\ Len(c2s) \in Nat /\ Len(c2s') = Len(c2s) - 1 /\ Len(c2s) # 0 /\ Head(c2s) = c2s[1]
    BY <1>1, <1>3, HeadTailProperties, LenProperties, EmptySeq
  <2>2. c2s' # c2s
    BY <2>1
  <2>3. PICK n \in 1 .. Len(c2s) :
          handling' = handling \cup
            {[seq |-> c2s[i].seq, call |-> c2s[i].call] :
                i \in {j \in 1 .. n : c2s[j].k = "head"}}
    BY <2>2, DutiesEffect
  <2>4. 1 \in {j \in 1 .. n : c2s[j].k = "head"}
    BY <1>3, <2>1
  <2>5. [seq |-> c2s[1].seq, call |-> c2s[1].call] \in handling'
    BY <2>3, <2>4
  <2> QED
    BY <1>3, <2>1, <2>5
<1> QED
  BY <1>1, <1>2, <1>3, ServerTakesOn

\* A step of the client changes neither.
LEMMA DutiesByClient ==
    ClientP!IndInv /\ ClientP!Wire /\ ServerP!IndInv /\ Duties /\ ClientMoves => Duties'
<1> SUFFICES ASSUME ClientP!IndInv, ClientP!Wire, ServerP!IndInv, Duties, ClientMoves
             PROVE  Duties'
  OBVIOUS
<1>1. UNCHANGED <<handling, cur, spc, rseq>>
  BY SentEffect DEF serverOnly
<1> QED
  BY <1>1 DEF Duties, ServerP!Pending, ServerP!Handler, ServerP!Worker

\* The client's steps, as far as its numbers are concerned.
LEMMA NumberCases ==
    ASSUME ClientP!IndInv, ClientP!ClientStep
    PROVE  \/ \E c \in Calls : \/ ClientP!Register(c) \/ ClientP!WriteHeader(c)
                               \/ ClientP!WriteBody(c)
           \/ /\ UNCHANGED <<seq, seqOf, bufErr, c2s>>
              /\ \A d \in Calls : \/ pc'[d] = pc[d]
                                  \/ pc[d] \notin {"init"} \cup Unwritten
                                     /\ pc'[d] \notin {"init"} \cup Unwritten
<1> USE DEF ClientP!clientVars, ClientP!callVars, ClientP!recvVars, ClientP!bufVars,
            ClientP!wireVars
<1>1. pc \in [Calls -> {"init", "writeHeader", "writeBody", "closeConn", "remove",
                        "done", "await", "returned"}]
  BY DEF ClientP!IndInv, ClientP!TypeOK, ClientP!CallTypeOK
<1>2. ASSUME NEW c \in Calls,
             \/ ClientP!CloseConn(c) \/ ClientP!Remove(c) \/ ClientP!SendDone(c)
             \/ ClientP!Await(c) \/ ClientP!Cancel(c)
      PROVE  /\ UNCHANGED <<seq, seqOf, bufErr, c2s>>
             /\ \A d \in Calls : \/ pc'[d] = pc[d]
                                 \/ pc[d] \notin {"init"} \cup Unwritten
                                    /\ pc'[d] \notin {"init"} \cup Unwritten
  <2>1. /\ UNCHANGED <<seq, seqOf, bufErr, c2s>>
        /\ pc[c] \notin {"init"} \cup Unwritten
        /\ \E p \in {"remove", "done", "await", "returned"} : pc' = [pc EXCEPT ![c] = p]
    BY <1>2 DEF ClientP!CloseConn, ClientP!Remove, ClientP!SendDone, ClientP!Await,
                ClientP!Cancel, ClientP!AfterSend, Unwritten
  <2> QED
    BY <1>1, <2>1 DEF Unwritten
<1>3. CASE ClientP!Close \/ (\E ch \in Chan : ClientP!Drain(ch)) \/ ClientP!Receive
  <2>1. UNCHANGED <<seq, seqOf, bufErr, c2s, pc>>
    BY <1>3 DEF ClientP!Close, ClientP!Drain, ClientP!Receive, ClientP!RecvHeader,
                ClientP!RecvFail, ClientP!RecvRemove, ClientP!RecvBody, ClientP!RecvDone,
                ClientP!TerminateLock, ClientP!Notify, ClientP!NotifyDone,
                ClientP!TerminateEnd
  <2> QED
    BY <2>1
<1> QED
  BY <1>2, <1>3 DEF ClientP!ClientStep, ClientP!SendStep

\* The client's numbers follow the requests sent: Send registers and writes with
\* the mutex held, and a request that is not written leaves the connection down.
LEMMA NumbersByClient ==
    ClientP!IndInv /\ ClientP!Wire /\ ServerP!IndInv /\ Numbers /\ ClientMoves => Numbers'
<1> SUFFICES ASSUME ClientP!IndInv, ClientP!Wire, ServerP!IndInv, Numbers, ClientMoves
             PROVE  Numbers'
  OBVIOUS
<1> USE DEF ClientP!clientVars, ClientP!callVars, ClientP!recvVars, ClientP!bufVars,
            ClientP!wireVars
<1>1. /\ pc \in [Calls -> {"init", "writeHeader", "writeBody", "closeConn", "remove",
                           "done", "await", "returned"}]
      /\ seq \in Nat /\ seqOf \in [Calls -> Nat]
      /\ cOpen \in BOOLEAN /\ sOpen \in BOOLEAN
      /\ sent \subseteq Calls /\ IsFiniteSet(sent)
  BY Types
<1>2. PICK k \in Nat : k = Cardinality(sent)
  BY <1>1, FS_CardinalityType
<1>3. ClientP!ClientStep
  BY SameClient DEF ClientMoves, ByClient
<1>4. ClientP!Up' => ClientP!Up
  BY <1>1, SentEffect DEF ClientP!Up
<1>5. c2s' = c2s => sent' = sent
  BY SentEffect, Types, NothingMoved DEF ClientMoves, ByClient
<1>6. ASSUME UNCHANGED <<seq, seqOf, bufErr, c2s>>,
             \A d \in Calls : \/ pc'[d] = pc[d]
                              \/ pc[d] \notin {"init"} \cup Unwritten
                                 /\ pc'[d] \notin {"init"} \cup Unwritten
      PROVE  Numbers'
  <2>1. sent' = sent
    BY <1>5, <1>6
  <2> QED
    BY <1>1, <1>4, <1>6, <2>1 DEF Numbers
<1>7. ASSUME NEW c \in Calls, ClientP!Register(c) PROVE Numbers'
  <2>1. UNCHANGED <<bufErr, c2s, cOpen, sOpen>> /\ sent' = sent /\ pc[c] = "init"
    BY <1>5, <1>7 DEF ClientP!Register
  <2>2. c \notin sent /\ \A d \in Calls : pc[d] \notin Unwritten
    BY <1>7, <2>1 DEF ClientP!Register, ClientP!SendFree, ClientP!Sending, Numbers, Unwritten
  <2>3. (ClientP!Up' <=> ClientP!Up) /\ (ClientP!Up => seq = k + 1)
    BY <1>2, <2>1, <2>2 DEF Numbers, ClientP!Up
  <2>4. CASE pc' = [pc EXCEPT ![c] = "done"] /\ UNCHANGED <<seq, seqOf>>
    BY <1>1, <2>1, <2>2, <2>3, <2>4 DEF Numbers, Unwritten
  <2>5. CASE /\ pc' = [pc EXCEPT ![c] = "writeHeader"] /\ seq' = seq + 1
             /\ seqOf' = [seqOf EXCEPT ![c] = seq]
    <3>1. \A d \in sent' : pc'[d] \notin {"init"} \cup Unwritten
      BY <1>1, <2>1, <2>2, <2>5 DEF Numbers
    <3>2. \A d \in Calls : pc'[d] \in Unwritten <=> d = c
      BY <1>1, <2>2, <2>5 DEF Unwritten
    <3>3. ClientP!Up' => seqOf'[c] = k + 1 /\ seq' = k + 2
      BY <1>1, <1>2, <2>3, <2>5
    <3> QED
      BY <1>2, <2>1, <2>3, <3>1, <3>2, <3>3 DEF Numbers
  <2> QED
    BY <1>7, <2>4, <2>5 DEF ClientP!Register
<1>8. ASSUME NEW c \in Calls, ClientP!WriteHeader(c) PROVE Numbers'
  <2>1. /\ UNCHANGED <<bufErr, c2s, cOpen, sOpen, seq, seqOf>> /\ sent' = sent
        /\ pc[c] = "writeHeader"
    BY <1>5, <1>8 DEF ClientP!WriteHeader
  <2>2. CASE bufErr /\ pc' = [pc EXCEPT ![c] = "closeConn"]
    <3>1. ~ClientP!Up'
      BY <1>4, <2>2 DEF Numbers
    <3> QED
      BY <1>1, <2>1, <2>2, <3>1 DEF Numbers, Unwritten
  <2>3. CASE ~bufErr /\ pc' = [pc EXCEPT ![c] = "writeBody"]
    <3>1. \A d \in Calls : pc'[d] \in {"init"} \cup Unwritten <=> pc[d] \in {"init"} \cup Unwritten
      BY <1>1, <2>1, <2>3 DEF Unwritten
    <3>2. \A d \in Calls : pc'[d] \in Unwritten <=> pc[d] \in Unwritten
      BY <1>1, <2>1, <2>3 DEF Unwritten
    <3> QED
      BY <1>1, <1>4, <2>1, <2>3, <3>1, <3>2 DEF Numbers
  <2> QED
    BY <1>8, <2>2, <2>3 DEF ClientP!WriteHeader
<1>9. ASSUME NEW c \in Calls, ClientP!WriteBody(c) PROVE Numbers'
  <2>1. /\ UNCHANGED <<seq, seqOf, cOpen, sOpen>> /\ pc[c] = "writeBody"
        /\ \E p \in {"closeConn", "await", "returned"} : pc' = [pc EXCEPT ![c] = p]
        /\ bufErr' \in (IF ClientP!Up THEN {FALSE} ELSE IF cOpen THEN BOOLEAN ELSE {TRUE})
    BY <1>9 DEF ClientP!WriteBody, ClientP!Flush, ClientP!AfterSend
  <2>2. \A d \in Calls \ {c} : pc[d] \notin Unwritten /\ pc'[d] = pc[d]
    <3>1. \A d \in Calls \ {c} : pc[d] \notin Unwritten
      BY <2>1 DEF ClientP!IndInv, ClientP!Safe, ClientP!Locking, ClientP!Sending, Unwritten
    <3> QED
      BY <1>1, <2>1, <3>1
  <2>3. \A d \in Calls : pc'[d] \notin Unwritten
    BY <1>1, <2>1, <2>2 DEF Unwritten
  <2>4. (ClientP!Up' <=> ClientP!Up) /\ (bufErr' => ~ClientP!Up')
    BY <2>1 DEF ClientP!Up
  <2>5. sent' \subseteq sent \cup {c}
    <3>1. \A d \in Calls : pc[d] = "writeBody" => d = c
      BY <2>2 DEF Unwritten
    <3> QED
      BY <3>1, SentEffect
  <2>6. \A d \in sent' : pc'[d] \notin {"init"} \cup Unwritten
    BY <1>1, <2>1, <2>2, <2>3, <2>5 DEF Numbers
  <2>7. ClientP!Up => seq' = Cardinality(sent') + 1
    <3> SUFFICES ASSUME ClientP!Up PROVE seq' = Cardinality(sent') + 1
      OBVIOUS
    <3>1. seq = k + 2 /\ c \notin sent
      BY <1>2, <2>1 DEF Numbers, Unwritten
    <3>2. sent' = sent \cup {c}
      <4>1. c2s' # c2s
        <5>1. \/ c2s' = c2s \o <<ClientP!Frame(seqOf[c], c, FALSE)[1]>>
              \/ c2s' = c2s \o ClientP!Frame(seqOf[c], c, FALSE)
          BY <1>9, ClientWrites
        <5>2. PICK t \in Seq(ClientP!Item) : t # << >> /\ c2s' = c2s \o t
          <6>1. seqOf[c] \in Nat
            BY <1>1
          <6>2. /\ ClientP!Frame(seqOf[c], c, FALSE) # << >>
                /\ <<ClientP!Frame(seqOf[c], c, FALSE)[1]>> # << >>
            BY DEF ClientP!Frame
          <6> QED
            BY <5>1, <6>1, <6>2, MessageRequests
        <5> QED
          BY <5>2, Types, AppendingChanges
      <4>2. \A d \in Calls : pc[d] = "writeBody" => d = c
        BY <2>2 DEF Unwritten
      <4> QED
        BY <4>1, <4>2, SentEffect
    <3>3. Cardinality(sent') = k + 1
      BY <1>1, <1>2, <3>1, <3>2, FS_AddElement
    <3> QED
      BY <1>2, <2>1, <3>1, <3>3
  <2> QED
    BY <2>3, <2>4, <2>6, <2>7 DEF Numbers
<1> QED
  BY <1>3, <1>6, <1>7, <1>8, <1>9, NumberCases

-----------------------------------------------------------------------------
(* What the client has learnt.                                             *)

\* What the server has said stays said, and the client's own state is not touched.
LEMMA LearntByServer ==
    ASSUME ClientP!IndInv, ServerP!IndInv, Learnt, ServerMoves PROVE Learnt'
<1>1. UNCHANGED <<sent, rcv, rmsg, seqOf, reply, err, pc>>
  BY DutiesEffect DEF clientOnly
<1>2. \A c \in Calls, e \in BOOLEAN : ServerP!Said(c, e) => ServerP!Said(c, e)'
  <2>1. [ServerP!Next]_(ServerP!vars)
    BY SameServer DEF ServerMoves, ByServer, ServerP!Next
  <2> QED
    BY <2>1, ServerStandsByIt
<1>3. rmsg.err \in BOOLEAN
  BY DEF ClientP!IndInv, ClientP!TypeOK, ClientP!RecvTypeOK
<1>4. Reading'
  <2> SUFFICES ASSUME rcv' \in {"remove", "readBody"}
               PROVE  \E c \in Calls : /\ seqOf'[c] = rmsg'.seq /\ rmsg'.seq > 0
                                       /\ ServerP!Said(c, rmsg.err)'
    BY <1>1 DEF Reading, ServerP!Said
  <2>1. PICK c \in Calls : seqOf[c] = rmsg.seq /\ rmsg.seq > 0 /\ ServerP!Said(c, rmsg.err)
    BY <1>1 DEF Learnt, Reading
  <2>2. PICK e \in BOOLEAN : e = rmsg.err
    BY <1>3
  <2>3. ServerP!Said(c, e)'
    BY <1>2, <2>1, <2>2
  <2>4. ServerP!Said(c, rmsg.err)'
    BY <1>1, <2>2, <2>3 DEF ServerP!Said
  <2> QED
    BY <1>1, <2>1, <2>4
<1>5. ASSUME NEW c \in Calls
      PROVE  /\ reply'[c] # NoCall => ServerP!Said(c, FALSE)'
             /\ err'[c] = "server" => ServerP!Said(c, TRUE)'
             /\ err'[c] = "shutdown" => pc'[c] \notin {"init"} \cup Unwritten
             /\ err'[c] = "shutdown" => c \notin sent'
  BY <1>1, <1>2 DEF Learnt
<1> QED
  BY <1>4, <1>5 DEF Learnt

\* The header that the receiver reads was written by the server for the call that
\* has its number.
LEMMA ReadingByClient ==
    ASSUME ClientP!IndInv, ClientP!Wire, ServerP!IndInv, Reading, ClientMoves
    PROVE  Reading'
<1> USE DEF ClientP!clientVars, ClientP!callVars, ClientP!recvVars, ClientP!bufVars,
            ClientP!wireVars
<1>1. ClientP!ClientStep /\ UNCHANGED <<answered, herr>>
  BY SameClient DEF ClientMoves, ByClient, serverOnly
<1>2. \A c, e : ServerP!Said(c, e)' <=> ServerP!Said(c, e)
  BY <1>1 DEF ServerP!Said
<1>3. \A c \in Calls : seqOf[c] > 0 => seqOf'[c] = seqOf[c]
  BY <1>1, ClientNumberStays DEF ClientP!Next
<1>4. CASE ClientP!RecvHeader
  <2>1. /\ s2c # << >> /\ UNCHANGED seqOf
        /\ rmsg' = [seq |-> Head(s2c).seq, err |-> Head(s2c).err]
    BY <1>4 DEF ClientP!RecvHeader
  <2>2. Head(s2c) = s2c[1] /\ 1 \in 1 .. Len(s2c) /\ s2c[1].call \in Calls
    <3>1. s2c \in Seq(ClientP!Item) /\ Len(s2c) \in Nat /\ Len(s2c) # 0
      BY <2>1, Types, LenProperties, EmptySeq
    <3>2. Head(s2c) \in ClientP!Item /\ Head(s2c) = s2c[1]
      BY <2>1, <3>1, HeadTailProperties
    <3> QED
      BY <3>1, <3>2 DEF ClientP!Item
  <2>3. ServerP!Said(s2c[1].call, s2c[1].err)
    BY <2>2 DEF ServerP!IndInv, ServerP!History, ServerP!Told
  <2>4. s2c[1].seq > 0 /\ seqOf[s2c[1].call] = s2c[1].seq
    BY <2>2 DEF ClientP!Wire, ClientP!Stamps, ClientP!Numbered
  <2>5. PICK c \in Calls : c = s2c[1].call
    BY <2>2
  <2>6. rmsg'.seq = s2c[1].seq /\ rmsg'.err = s2c[1].err
    BY <2>1, <2>2
  <2>7. ServerP!Said(c, rmsg.err)'
    BY <1>1, <2>3, <2>5, <2>6 DEF ServerP!Said
  <2> QED
    BY <2>1, <2>4, <2>5, <2>6, <2>7 DEF Reading
<1>5. CASE rcv' \in {"remove", "readBody"} =>
             rcv \in {"remove", "readBody"} /\ UNCHANGED rmsg
  BY <1>1, <1>3, <1>5 DEF Reading, ServerP!Said
<1>6. ASSUME NEW c \in Calls, ClientP!SendStep(c) \/ ClientP!Await(c) \/ ClientP!Cancel(c)
      PROVE  UNCHANGED <<rcv, rmsg>>
  BY <1>6 DEF ClientP!SendStep, ClientP!Register, ClientP!WriteHeader, ClientP!WriteBody,
              ClientP!CloseConn, ClientP!Remove, ClientP!SendDone, ClientP!Await,
              ClientP!Cancel
<1>7. CASE ClientP!Close \/ \E ch \in Chan : ClientP!Drain(ch)
  BY <1>5, <1>7 DEF ClientP!Close, ClientP!Drain
<1>8. CASE ClientP!Receive
  BY <1>4, <1>5, <1>8
     DEF ClientP!Receive, ClientP!RecvFail, ClientP!RecvRemove, ClientP!RecvBody,
         ClientP!RecvDone, ClientP!TerminateLock, ClientP!Notify, ClientP!NotifyDone,
         ClientP!TerminateEnd
<1> QED
  BY <1>1, <1>5, <1>6, <1>7, <1>8 DEF ClientP!ClientStep

\* The call that the receiver holds while it reads a body is the one the server
\* answered.
LEMMA HeldIsAnswered ==
    ASSUME ClientP!IndInv, ClientP!Wire, Reading, rcv = "readBody", rcall # NoCall
    PROVE  rcall \in Calls /\ ServerP!Said(rcall, rmsg.err)
<1>1. PICK c \in Calls : seqOf[c] = rmsg.seq /\ rmsg.seq > 0 /\ ServerP!Said(c, rmsg.err)
  BY DEF Reading
<1>2. rcall \in Calls
  BY DEF ClientP!IndInv, ClientP!TypeOK, ClientP!RecvTypeOK
<1>3. seqOf[rcall] = rmsg.seq
  BY DEF ClientP!Wire, ClientP!Expecting
<1>4. c = rcall
  BY <1>1, <1>2, <1>3 DEF ClientP!IndInv, ClientP!Safe, ClientP!Numbering
<1> QED
  BY <1>1, <1>2, <1>4

\* The client's steps, as far as errors and replies are concerned.
LEMMA ReportCases ==
    ASSUME ClientP!IndInv, ClientP!ClientStep
    PROVE  \/ \E c \in Calls : ClientP!Register(c)
           \/ ClientP!RecvBody
           \/ /\ UNCHANGED reply
              /\ \A d \in Calls : err'[d] \in {"server", "shutdown"} => err'[d] = err[d]
<1> USE DEF ClientP!clientVars, ClientP!callVars, ClientP!recvVars
<1>1. err \in [Calls -> {"none", "shutdown", "write", "server", "body", "conn"}]
  BY DEF ClientP!IndInv, ClientP!TypeOK, ClientP!CallTypeOK
<1>2. ASSUME UNCHANGED <<reply, err>>
      PROVE  /\ UNCHANGED reply
             /\ \A d \in Calls : err'[d] \in {"server", "shutdown"} => err'[d] = err[d]
  BY <1>2
<1>3. ASSUME NEW c \in Calls, ClientP!Remove(c) \/ ClientP!Notify(c)
      PROVE  /\ UNCHANGED reply
             /\ \A d \in Calls : err'[d] \in {"server", "shutdown"} => err'[d] = err[d]
  BY <1>1, <1>3 DEF ClientP!Remove, ClientP!Notify
<1>4. ASSUME NEW c \in Calls,
             \/ ClientP!WriteHeader(c) \/ ClientP!WriteBody(c) \/ ClientP!CloseConn(c)
             \/ ClientP!SendDone(c) \/ ClientP!Await(c) \/ ClientP!Cancel(c)
      PROVE  UNCHANGED <<reply, err>>
  BY <1>4 DEF ClientP!WriteHeader, ClientP!WriteBody, ClientP!CloseConn, ClientP!SendDone,
              ClientP!Await, ClientP!Cancel
<1>5. CASE \/ ClientP!Close \/ \E ch \in Chan : ClientP!Drain(ch)
           \/ ClientP!RecvHeader \/ ClientP!RecvFail \/ ClientP!RecvRemove
           \/ ClientP!RecvDone \/ ClientP!TerminateLock \/ ClientP!NotifyDone
           \/ ClientP!TerminateEnd
  BY <1>2, <1>5
     DEF ClientP!Close, ClientP!Drain, ClientP!RecvHeader, ClientP!RecvFail,
         ClientP!RecvRemove, ClientP!RecvDone, ClientP!TerminateLock, ClientP!NotifyDone,
         ClientP!TerminateEnd
<1> QED
  BY <1>2, <1>3, <1>4, <1>5 DEF ClientP!ClientStep, ClientP!SendStep, ClientP!Receive

\* A call's reply or error is taken from the server's answer to it; a call that
\* was refused is not sent later.
LEMMA LearntByClient ==
    ASSUME ClientP!IndInv, ClientP!Wire, ServerP!IndInv, Numbers, Learnt, ClientMoves
    PROVE  Learnt'
<1> USE DEF ClientP!clientVars, ClientP!callVars, ClientP!recvVars, ClientP!bufVars,
            ClientP!wireVars
<1>1. ClientP!ClientStep /\ UNCHANGED <<answered, herr>>
  BY SameClient DEF ClientMoves, ByClient, serverOnly
<1>2. /\ err \in [Calls -> {"none", "shutdown", "write", "server", "body", "conn"}]
      /\ reply \in [Calls -> Calls \cup {NoCall}] /\ rmsg.err \in BOOLEAN
      /\ pc \in [Calls -> {"init", "writeHeader", "writeBody", "closeConn", "remove",
                           "done", "await", "returned"}]
  BY DEF ClientP!IndInv, ClientP!TypeOK, ClientP!CallTypeOK, ClientP!RecvTypeOK
<1>3. Reading'
  BY ReadingByClient DEF Learnt
<1>4. \A c, e : ServerP!Said(c, e)' <=> ServerP!Said(c, e)
  BY <1>1 DEF ServerP!Said
<1>5. \A c \in Calls : c \in sent' => c \in sent \/ pc[c] = "writeBody"
  BY SentEffect
<1>6. ASSUME NEW c \in Calls
      PROVE  /\ reply'[c] # NoCall => ServerP!Said(c, FALSE)
             /\ err'[c] = "server" => ServerP!Said(c, TRUE)
  <2>1. /\ reply[c] # NoCall => ServerP!Said(c, FALSE)
        /\ err[c] = "server" => ServerP!Said(c, TRUE)
    BY DEF Learnt
  <2>2. CASE reply'[c] = reply[c] /\ (err'[c] = "server" => err'[c] = err[c])
    BY <2>1, <2>2
  <2>3. ASSUME NEW d \in Calls, ClientP!Register(d)
        PROVE  reply'[c] = reply[c] /\ (err'[c] = "server" => err'[c] = err[c])
    BY <1>2, <2>3 DEF ClientP!Register
  <2>4. CASE ClientP!RecvBody
    <3>1. CASE rcall = NoCall \/ rcall # c
      BY <1>2, <2>1, <2>4, <3>1 DEF ClientP!RecvBody
    <3>2. CASE rcall # NoCall /\ rcall = c
      <4>1. ServerP!Said(c, rmsg.err)
        BY <2>4, <3>2, HeldIsAnswered DEF ClientP!RecvBody, Learnt
      <4>2. \/ rmsg.err = TRUE /\ reply'[c] = reply[c]
            \/ rmsg.err = FALSE /\ (err'[c] = "server" => err'[c] = err[c])
        BY <1>2, <2>4, <3>2 DEF ClientP!RecvBody
      <4>3. rmsg.err = TRUE => ServerP!Said(c, TRUE)
        BY <4>1
      <4>4. rmsg.err = FALSE => ServerP!Said(c, FALSE)
        BY <4>1
      <4> QED
        BY <2>1, <4>2, <4>3, <4>4
    <3> QED
      BY <3>1, <3>2
  <2> QED
    BY <1>1, <2>2, <2>3, <2>4, ReportCases
<1>7. ASSUME NEW c \in Calls, err'[c] = "shutdown"
      PROVE  pc'[c] \notin {"init"} \cup Unwritten /\ c \notin sent'
  <2>1. CASE err[c] = "shutdown"
    <3>1. pc[c] \notin {"init"} \cup Unwritten /\ c \notin sent
      BY <2>1 DEF Learnt
    <3>2. c \notin sent'
      BY <1>5, <3>1 DEF Unwritten
    <3>3. ASSUME NEW d \in Calls,
                 \/ ClientP!Register(d) \/ ClientP!WriteHeader(d) \/ ClientP!WriteBody(d)
          PROVE  pc'[c] = pc[c]
      <4>1. d # c
        BY <3>1, <3>3
           DEF ClientP!Register, ClientP!WriteHeader, ClientP!WriteBody, Unwritten
      <4> QED
        BY <1>2, <3>3, <4>1 DEF ClientP!Register, ClientP!WriteHeader, ClientP!WriteBody
    <3> QED
      BY <1>1, <3>1, <3>2, <3>3, NumberCases
  <2>2. CASE err[c] # "shutdown"
    <3>1. ~ClientP!RecvBody
      BY <1>2, <1>7, <2>2 DEF ClientP!RecvBody
    <3>2. PICK d \in Calls : ClientP!Register(d)
      BY <1>1, <1>7, <2>2, <3>1, ReportCases
    <3>3. c = d /\ pc[c] = "init" /\ pc' = [pc EXCEPT ![c] = "done"]
      BY <1>2, <1>7, <2>2, <3>2 DEF ClientP!Register
    <3>4. c \notin sent
      BY <3>3 DEF Numbers
    <3> QED
      BY <1>2, <1>5, <3>3, <3>4 DEF Unwritten
  <2> QED
    BY <2>1, <2>2
<1> QED
  BY <1>3, <1>4, <1>6, <1>7 DEF Learnt

-----------------------------------------------------------------------------
(* The connection.                                                         *)

\* At first nothing has been sent or said.
LEMMA Start == Init => Inv
<1> SUFFICES ASSUME Init PROVE Inv
  OBVIOUS
<1>1. ClientP!Init /\ ServerP!Init
  BY SameClient, SameServer DEF Init
<1>2. ClientP!IndInv /\ ClientP!Wire /\ ServerP!IndInv
  BY <1>1, ClientStart, ServerStart
<1>3. /\ seq = 1 /\ pc = [c \in Calls |-> "init"] /\ bufErr = FALSE
      /\ err = [c \in Calls |-> "none"] /\ reply = [c \in Calls |-> NoCall]
      /\ rcv = "readHeader"
  BY <1>1 DEF ClientP!Init, ClientP!FirstSeq
<1>4. /\ sent = {} /\ cur = NoCall
      /\ spc = [t \in ServerP!Threads |-> IF t = ServerP!Loop THEN "option" ELSE "none"]
  BY <1>1 DEF ServerP!Init
<1>5. Numbers
  BY <1>3, <1>4, FS_EmptySet DEF Numbers, Unwritten
<1>6. ASSUME NEW c \in Calls PROVE ~ServerP!Pending(c)
  <2>1. spc[ServerP!Handler(c)] = "none" /\ c # NoCall
    BY <1>4, ConnectionAssumption DEF ServerP!Threads, ServerP!Handler, ServerP!Loop
  <2> QED
    BY <1>4, <2>1 DEF ServerP!Pending
<1>7. Learnt
  BY <1>3 DEF Learnt, Reading
<1> QED
  BY <1>2, <1>5, <1>6, <1>7 DEF Inv, Link, Duties

\* A step of the connection is one of each side with its peer ...
LEMMA BothSides ==
    Inv /\ [Next]_vars => [ClientP!Next]_(ClientP!vars) /\ [ServerP!Next]_(ServerP!vars)
<1> SUFFICES ASSUME Inv, [Next]_vars
             PROVE  [ClientP!Next]_(ClientP!vars) /\ [ServerP!Next]_(ServerP!vars)
  OBVIOUS
<1>1. /\ ClientP!IndInv /\ ClientP!Wire /\ ServerP!IndInv
      /\ Numbers /\ Duties
  BY DEF Inv, Link
<1>2. CASE ClientMoves
  <2>1. ClientP!Next
    BY <1>2, SameClient DEF ClientMoves, ByClient, ClientP!Next
  <2> QED
    BY <1>1, <1>2, <2>1, ClientIsAPeer
<1>3. CASE ServerMoves
  <2>1. ServerP!Next
    BY <1>3, SameServer DEF ServerMoves, ByServer, ServerP!Next
  <2> QED
    BY <1>1, <1>3, <2>1, ServerIsAPeer
<1>4. CASE UNCHANGED vars
  BY <1>4 DEF vars, ClientP!vars, ServerP!vars
<1> QED
  BY <1>2, <1>3, <1>4 DEF Next

\* ... and so preserves the invariants of both, and what relates them.
LEMMA Step == Inv /\ [Next]_vars => Inv'
<1> SUFFICES ASSUME Inv, [Next]_vars PROVE Inv'
  OBVIOUS
<1>1. /\ ClientP!IndInv /\ ClientP!Wire /\ ServerP!IndInv
      /\ Numbers /\ Duties /\ Learnt
  BY DEF Inv, Link
<1>2. ClientP!IndInv' /\ ClientP!Wire' /\ ServerP!IndInv'
  BY <1>1, BothSides, ClientKeeps, ServerKeeps
<1>3. CASE ClientMoves
  BY <1>1, <1>2, <1>3, NumbersByClient, DutiesByClient, LearntByClient DEF Inv, Link
<1>4. CASE ServerMoves
  BY <1>1, <1>2, <1>4, NumbersByServer, DutiesByServer, LearntByServer DEF Inv, Link
<1>5. CASE UNCHANGED vars
  <2>1. Numbers' /\ Duties'
    BY <1>1, <1>5 DEF vars, Numbers, Duties, ClientP!Up, ServerP!Pending,
                      ServerP!Handler, ServerP!Worker
  <2>2. Learnt'
    BY <1>1, <1>5 DEF vars, Learnt, Reading, ServerP!Said
  <2> QED
    BY <1>2, <2>1, <2>2 DEF Inv, Link
<1> QED
  BY <1>3, <1>4, <1>5 DEF Next

\* The invariant of both sides holds throughout.
LEMMA Invariance == Spec => []Inv
BY Start, Step, PTL DEF Spec

\* The server of this connection is a peer of the kind that the client was verified
\* against (RpcClient): it answers only requests it has read, each at most once, in
\* whole messages, and none after it has closed its end.
THEOREM ServerImplementsPeer == Spec => ClientSpec
<1>1. Init => Client!Init
  BY DEF Init
<1>2. Inv /\ [Next]_vars => [Client!Next]_(Client!vars)
  BY BothSides, SameClient
<1> QED
  BY <1>1, <1>2, Invariance, PTL DEF Spec, ClientSpec, Client!Spec

\* The client of this connection is a peer of the kind that the server was verified
\* against (RpcServer): it sends each call's request once, numbered in the order
\* in which they are written, and nothing once an end is closed.
THEOREM ClientImplementsPeer == Spec => ServerSpec
<1>1. Init => Server!Init
  BY DEF Init
<1>2. Inv /\ [Next]_vars => [Server!Next]_(Server!vars)
  BY BothSides, SameServer
<1> QED
  BY <1>1, <1>2, Invariance, PTL DEF Spec, ServerSpec, Server!Spec

\* What a call reports is what happened at the server: success only with the body of
\* its own response, after the method's one run, whose error, if it returned one, had
\* no text; the server's error only for this very call; at most one run, and none of
\* a call that Send refused.
THEOREM ResultsAreTrue == Spec => []ResultIsTrue
<1>1. Inv => ResultIsTrue
  <2> SUFFICES ASSUME Inv, NEW c \in Calls
               PROVE  /\ result[c] = "ok" => executed[c] = 1 /\ werr[c] # "text" /\ reply[c] = c
                      /\ err[c] = "server" => herr[c] /\ answered[c] = 1
                      /\ executed[c] <= 1
                      /\ err[c] = "shutdown" => executed[c] = 0
    BY DEF ResultIsTrue
  <2>1. executed[c] \in {0, 1} /\ (c \notin sent => executed[c] = 0)
    BY DEF Inv, ServerP!IndInv, ServerP!History, ServerP!Runs
  <2>2. ASSUME result[c] = "ok" PROVE executed[c] = 1 /\ werr[c] # "text" /\ reply[c] = c
    <3>1. reply[c] = c /\ c # NoCall
      BY <2>2, ConnectionAssumption DEF Inv, ClientP!Wire, ClientP!Reports, ClientP!Reported
    <3>2. ServerP!Said(c, FALSE)
      BY <3>1 DEF Inv, Learnt
    <3>3. ServerP!Succeeded(c)
      BY <3>2 DEF Inv, ServerP!IndInv, ServerP!History, ServerP!Answers
    <3> QED
      BY <3>1, <3>3 DEF ServerP!Succeeded
  <2>3. err[c] = "server" => herr[c] /\ answered[c] = 1
    BY DEF Inv, Learnt, ServerP!Said
  <2>4. err[c] = "shutdown" => executed[c] = 0
    BY <2>1 DEF Inv, Learnt
  <2> QED
    BY <2>1, <2>2, <2>3, <2>4
<1> QED
  BY <1>1, Invariance, PTL

\* What each side promises with the peer its own module assumes, it keeps on this
\* connection: a call that has been sent is completed at most once and never
\* forgotten, its reply is its own, the requests are whole; and the server answers
\* a request at most once, in whole messages, leaves the error out only after a run,
\* and closes the connection before its handlers are done only after a failed Write,
\* a panic that net/http recovers, or with the whole process.
THEOREM PromisesHoldTogether ==
    Spec => /\ [](/\ ClientP!NoLostCall /\ ClientP!CompletedAtMostOnce
                  /\ ClientP!RightReply /\ ClientP!RequestFraming
                  /\ ServerP!AtMostOneResponse /\ ServerP!ResponseFraming
                  /\ ServerP!SuccessMeansExecuted)
            /\ ServerP!ClosedAfterHandlers
<1>1. Spec => ClientP!Spec /\ ServerP!Spec
  <2>1. Init => ClientP!Init /\ ServerP!Init
    BY SameClient, SameServer DEF Init
  <2>2. Inv /\ [Next]_vars
          => [ClientP!Next]_(ClientP!vars) /\ [ServerP!Next]_(ServerP!vars)
    BY BothSides
  <2> QED
    BY <2>1, <2>2, Invariance, PTL DEF Spec, ClientP!Spec, ServerP!Spec
<1>2. ClientP!Spec => []ClientP!NoLostCall
  BY ConnectionAssumption, ClientP!CallsAreNotLost, Zenon
<1>3. ClientP!Spec => []ClientP!CompletedAtMostOnce
  BY ConnectionAssumption, ClientP!CompletionIsUnique, Zenon
<1>4. ClientP!Spec => []ClientP!RightReply
  BY ConnectionAssumption, ClientP!RepliesAreRight, Zenon
<1>5. ClientP!Spec => []ClientP!RequestFraming
  BY ConnectionAssumption, ClientP!RequestsAreFramed, Zenon
<1>6. ServerP!Spec => []ServerP!AtMostOneResponse
  BY ConnectionAssumption, ServerP!OneResponsePerRequest, Zenon DEF ServerP!Kinds
<1>7. ServerP!Spec => []ServerP!ResponseFraming
  BY ConnectionAssumption, ServerP!ResponsesAreFramed, Zenon DEF ServerP!Kinds
<1>8. ServerP!Spec => []ServerP!SuccessMeansExecuted
  BY ConnectionAssumption, ServerP!SuccessIsARun, Zenon DEF ServerP!Kinds
<1>9. ServerP!Spec => ServerP!ClosedAfterHandlers
  BY ConnectionAssumption, ServerP!ServedConnectionsAreDrained, Zenon DEF ServerP!Kinds
<1> QED
  BY <1>1, <1>2, <1>3, <1>4, <1>5, <1>6, <1>7, <1>8, <1>9, PTL
=============================================================================
