-------------------------- MODULE RpcServerProofs --------------------------
(***************************************************************************)
(* Proofs about one connection of the RPC server, for any number of        *)
(* requests, any methods and any peer.                                     *)
(*                                                                         *)
(* Phase says, for each request, how far the loop, its handler and its     *)
(* worker have come, and how many responses that makes; Requests that a    *)
(* request still on its way has none of them; Writer that the one holder   *)
(* of the mutex alone has something in the codec's buffer; Outcomes and    *)
(* History what the responses say.                                         *)
(***************************************************************************)
EXTENDS RpcServer, SequenceTheorems, FiniteSetTheorems, TLAPS

Writing == {"head", "body"}

\* The goroutines of a request and its responses: the handler and the worker run
\* once its body is read, and who answers depends on who was first at `called'.
Phase(c) ==
    LET h == pc[Handler(c)]
        w == pc[Worker(c)]
    IN  \/ /\ pc[Loop] = "dead" /\ h = "dead" /\ w = "dead"
           /\ answered[c] \in {0, 1}
        \/ /\ h = "none" /\ w = "none" /\ cur # c
           /\ pc[Loop] # "dead" /\ answered[c] \in {0, 1}
        \/ /\ h = "none" /\ w = "none" /\ cur = c
           /\ \/ pc[Loop] \in {"newReplyv", "args", "lock", "head"} /\ answered[c] = 0
              \/ pc[Loop] = "body" /\ answered[c] = 1
        \/ /\ cur # c /\ pc[Loop] # "dead"
           /\ \/ h \in {"select", "lock", "head"} /\ w \in {"call", "called"} /\ answered[c] = 0
              \/ h \in {"body", "returned"} /\ w \in {"call", "called"} /\ answered[c] = 1
              \/ h = "sent" /\ w \in {"lock", "head"} /\ answered[c] = 0
              \/ h = "sent" /\ w \in {"body", "sent"} /\ answered[c] = 1
              \/ h = "returned" /\ w = "returned" /\ answered[c] = 1
Phases == \A c \in Calls : Phase(c)

\* The server has not begun with a request that is not sent or not yet read, and
\* there is one header of each.
Waiting(c) == pc[Handler(c)] \in {"none", "dead"} /\ answered[c] = 0 /\ cur # c
InFlight(c) == \E i \in 1 .. Len(c2s) : c2s[i].k = "head" /\ c2s[i].call = c
Requests ==
    /\ IsFiniteSet(sent)
    /\ \A c \in Calls : InFlight(c) => c \in sent
    /\ \A c \in Calls : InFlight(c) \/ c \notin sent => Waiting(c)
    /\ \A i, j \in 1 .. Len(c2s) :
         c2s[i].k = "head" /\ c2s[j].k = "head" /\ c2s[i].call = c2s[j].call => i = j

\* `send' is held by one goroutine, and the buffer has its header or is empty.
Header(t) == Frame(rseq[ReqOf(t)], ReqOf(t), herr[ReqOf(t)])[1]
Writer ==
    /\ \A s, t \in Threads : pc[s] \in Writing /\ pc[t] \in Writing => s = t
    /\ (\A t \in Threads : pc[t] # "body") => wbuf = << >>
    /\ \A t \in Threads : pc[t] = "body" => wbuf = <<Header(t)>>

\* What Register stored.
Registered ==
    \A n \in DOMAIN serviceMap :
        \E r \in Receivers : r.exported /\ r.name = n /\ serviceMap[n] = newService(r)

\* The service of a request is stored, with a method of its name; newReplyv does not
\* panic, or the call does not either.
Offered(c) == /\ Found(serviceMap, MethodOf[c])
              /\ ~ReplyPanics(MType(serviceMap, MethodOf[c]))
IsCallable(c) == Offered(c) /\ ~CallPanics(MType(serviceMap, MethodOf[c]))

\* A request with a handler is offered, and callable once its method has run; the loop
\* and a handler answer with an error, a worker with the outcome of its one run.
Outcome(c) ==
    LET h == pc[Handler(c)]
        w == pc[Worker(c)]
    IN  /\ cur = c /\ pc[Loop] = "args" => Offered(c)
        /\ cur = c /\ pc[Loop] \in {"lock", "head", "body"} => herr[c]
        /\ h \notin {"none", "dead"} => Offered(c)
        /\ h \in {"lock", "head", "body"} => herr[c]
        /\ w \in {"none", "call"} => executed[c] = 0
        /\ w \notin {"none", "call", "dead"} => executed[c] = 1 /\ IsCallable(c)
        /\ w \in {"lock", "head", "body"} => (herr[c] <=> werr[c] = "text")
Outcomes == \A c \in Calls : Outcome(c)

\* A request answered with success is a worker's who is done with the method.
Succeeded(c) ==
    /\ pc[Worker(c)] \in {"body", "sent", "returned", "dead"}
    /\ executed[c] = 1 /\ werr[c] # "text" /\ IsCallable(c)

\* A request was answered, with an error or without.
Said(c, e) == answered[c] = 1 /\ herr[c] = e

\* What is on its way to the client was said, and success only of a method that
\* ran; a method runs at most once, for a request that was sent.
Told == \A i \in 1 .. Len(s2c) : Said(s2c[i].call, s2c[i].err)
Answers == \A c \in Calls : Said(c, FALSE) => Succeeded(c)
Runs == \A c \in Calls : executed[c] \in {0, 1} /\ (c \notin sent => executed[c] = 0)
History == Told /\ Answers /\ Runs

\* Nothing has happened before the option is read.
Fresh ==
    pc[Loop] = "option" =>
        sOpen /\ \A c \in Calls : pc[Handler(c)] = "none" /\ pc[Worker(c)] = "none"

IndInv == /\ TypeOK /\ Phases /\ Requests /\ Writer /\ ResponseFraming
          /\ Registered /\ Outcomes /\ History /\ Fresh
-----------------------------------------------------------------------------
(* The goroutines.                                                         *)

\* The goroutines are distinct.
LEMMA ThreadFacts ==
    /\ Loop \in Threads
    /\ \A c \in Calls : /\ Handler(c) \in Threads /\ Worker(c) \in Threads
                        /\ Handler(c) # Loop /\ Worker(c) # Loop
    /\ \A c, d \in Calls : /\ Handler(c) # Worker(d)
                           /\ Handler(c) = Handler(d) => c = d
                           /\ Worker(c) = Worker(d) => c = d
    /\ \A t \in Threads : \/ t = Loop
                          \/ \E c \in Calls : t = Handler(c) \/ t = Worker(c)
BY DEF Threads, Loop, Handler, Worker

\* The request that a goroutine answers, and where it goes on.
LEMMA ThreadRequests ==
    /\ ReqOf(Loop) = cur /\ AfterResponse(Loop) = "header"
    /\ \A c \in Calls : /\ ReqOf(Handler(c)) = c /\ AfterResponse(Handler(c)) = "returned"
                        /\ ReqOf(Worker(c)) = c /\ AfterResponse(Worker(c)) = "sent"
<1>1. ReqOf(Loop) = cur /\ AfterResponse(Loop) = "header"
  BY DEF ReqOf, AfterResponse, Loop
<1>2. ASSUME NEW c \in Calls
      PROVE  ReqOf(Handler(c)) = c /\ AfterResponse(Handler(c)) = "returned"
  BY ThreadFacts DEF ReqOf, AfterResponse, Handler
<1>3. ASSUME NEW c \in Calls
      PROVE  ReqOf(Worker(c)) = c /\ AfterResponse(Worker(c)) = "sent"
  BY ThreadFacts DEF ReqOf, AfterResponse, Worker
<1> QED
  BY <1>1, <1>2, <1>3

-----------------------------------------------------------------------------
(* Types.                                                                  *)

ServicesOK == \A n \in DOMAIN serviceMap : serviceMap[n].name = n
Positions == {"none", "option", "header", "newReplyv", "args", "drain", "closed", "select",
              "call", "called", "sent", "returned", "lock", "head", "body", "dead"}
ControlOK ==
    /\ opt \in Options
    /\ pc \in [Threads -> Positions]
    /\ cur \in Calls \cup {NoCall}
    /\ cur # NoCall <=> pc[Loop] \in {"newReplyv", "args", "lock", "head", "body"}
TablesOK ==
    /\ rseq \in [Calls -> Nat]
    /\ herr \in [Calls -> BOOLEAN] /\ werr \in [Calls -> Returns]
    /\ executed \in [Calls -> Nat] /\ answered \in [Calls -> Nat]
StreamsOK ==
    /\ wbuf \in Seq(Item) /\ c2s \in Seq(Item) /\ s2c \in Seq(Item)
    /\ sent \subseteq Calls
FlagsOK ==
    /\ desync \in BOOLEAN /\ bufErr \in BOOLEAN
    /\ cOpen \in BOOLEAN /\ sOpen \in BOOLEAN

\* The parts of TypeOK.
LEMMA TypeParts ==
    TypeOK <=> ServicesOK /\ ControlOK /\ TablesOK /\ StreamsOK /\ FlagsOK
BY DEF TypeOK, ServicesOK, ControlOK, TablesOK, StreamsOK, FlagsOK, Positions

\* A goroutine that answers has a request to answer.
LEMMA WriterRequest ==
    ASSUME TypeOK, NEW t \in Threads, pc[t] \in {"lock", "head", "body"}
    PROVE  ReqOf(t) \in Calls
<1>1. CASE t = Loop
  <2>1. cur \in Calls
    BY <1>1, TypeParts DEF ControlOK
  <2> QED
    BY <1>1, <2>1, ThreadRequests
<1>2. CASE t # Loop
  BY <1>2, ThreadFacts, ThreadRequests
<1> QED
  BY <1>1, <1>2

\* A message is a header and a body of the same request.
LEMMA FrameType ==
    \A n \in Nat, c \in Calls, e \in BOOLEAN :
        /\ Frame(n, c, e) \in Seq(Item) /\ Len(Frame(n, c, e)) = 2
        /\ Frame(n, c, e)[1] \in Item /\ Frame(n, c, e)[2] \in Item
BY DEF Frame, Item

\* Its parts ...
LEMMA FrameParts ==
    \A n \in Nat, c \in Calls, e \in BOOLEAN :
        /\ Frame(n, c, e)[1].k = "head" /\ Frame(n, c, e)[2].k = "body"
        /\ Frame(n, c, e)[1].call = c /\ Frame(n, c, e)[2].call = c
BY DEF Frame

\* ... the body that goes with the header ...
LEMMA FrameBody ==
    ASSUME NEW n \in Nat, NEW c \in Calls, NEW e \in BOOLEAN
    PROVE  Frame(n, c, e)[2] = [Frame(n, c, e)[1] EXCEPT !.k = "body"]
BY DEF Frame

\* ... and the error, which both carry.
LEMMA FrameError ==
    \A n \in Nat, c \in Calls, e \in BOOLEAN :
        Frame(n, c, e)[1].err = e /\ Frame(n, c, e)[2].err = e
BY DEF Frame

\* The services.
LEMMA ServicesStep == ServicesOK /\ [Next]_vars => ServicesOK'
<1> SUFFICES ASSUME ServicesOK, [Next]_vars PROVE ServicesOK'
  OBVIOUS
<1>1. CASE UNCHANGED serviceMap
  BY <1>1 DEF ServicesOK
<1>2. ASSUME NEW r \in Receivers, serviceMap' = Stored(newService(r)) PROVE ServicesOK'
  BY <1>2 DEF Stored, newService, ServicesOK
<1>3. ASSUME NEW r \in Receivers, Register(r) PROVE ServicesOK'
  BY <1>1, <1>2, <1>3 DEF Register
<1> QED
  BY <1>1, <1>3
     DEF vars, Next, ServerStep, Peer, Program, ConnStep, SendResponse, Meet, Panic,
         ReadOption, RefuseOption, ReadHeader, ReadHeaderFail, ReplyPanic, RecoveredPanic,
         ReadArgs, ReadArgsFail, Drain, LockSend, WriteHead, WriteBody, RunMethod, Called,
         Sent, Timeout, PeerSend, PeerBreak, PeerReceive, PeerClose

\* The goroutines' positions and the loop's request.
LEMMA ControlStep == TypeOK /\ [Next]_vars => ControlOK'
<1> SUFFICES ASSUME TypeOK, ControlOK, StreamsOK, [Next]_vars PROVE ControlOK'
  BY TypeParts
<1> USE ServerAssumption, ThreadFacts
    DEF ControlOK, Positions, reqVars, bufVars, wireVars
<1>1. CASE UNCHANGED <<opt, pc, cur>>
  BY <1>1
<1>2. CASE Die /\ UNCHANGED opt
  BY <1>2 DEF Die
<1>3. ASSUME NEW r \in Receivers, Register(r) PROVE ControlOK'
  BY <1>1, <1>2, <1>3 DEF Register
<1>4. CASE Panic \/ ReplyPanic
  BY <1>2, <1>4 DEF Panic, ReplyPanic
<1>5. ASSUME NEW n \in 0 .. ReadAhead, ReadOption(n) PROVE ControlOK'
  BY <1>5 DEF ReadOption
<1>6. CASE RefuseOption \/ RecoveredPanic
  BY <1>6 DEF RefuseOption, RecoveredPanic
<1>7. CASE ReadHeader
  <2>1. Head(c2s).call \in Calls
    <3>1. c2s \in Seq(Item) /\ c2s # << >>
      BY <1>7 DEF ReadHeader, StreamsOK
    <3>2. Head(c2s) \in Item
      BY <3>1, HeadTailProperties
    <3> QED
      BY <3>2 DEF Item
  <2>2. CASE /\ cur' = Head(c2s).call
             /\ \E l \in {"newReplyv", "args", "lock"} : pc' = [pc EXCEPT ![Loop] = l]
    BY <1>7, <2>1, <2>2 DEF ReadHeader
  <2> QED
    BY <1>7, <2>2 DEF ReadHeader
<1>8. CASE ReadHeaderFail
  BY <1>8 DEF ReadHeaderFail
<1>9. CASE ReadArgs
  <2>1. cur \in Calls
    BY <1>9 DEF ReadArgs
  <2> QED
    BY <1>9, <2>1 DEF ReadArgs
<1>10. CASE ReadArgsFail
  BY <1>10 DEF ReadArgsFail
<1>11. CASE Drain
  BY <1>11 DEF Drain
<1>12. ASSUME NEW t \in Threads, SendResponse(t) PROVE ControlOK'
  <2>1. CASE LockSend(t)
    BY <2>1 DEF LockSend
  <2>2. CASE pc[t] \in Writing /\ Return(t) /\ UNCHANGED opt
    BY <2>2, ThreadRequests DEF Return, Writing
  <2>3. CASE pc[t] = "head" /\ pc' = [pc EXCEPT ![t] = "body"] /\ UNCHANGED <<opt, cur>>
    BY <2>3
  <2> QED
    BY <1>12, <2>1, <2>2, <2>3 DEF SendResponse, WriteHead, WriteBody, Writing
<1>13. ASSUME NEW c \in Calls, NEW e \in Returns, RunMethod(c, e) PROVE ControlOK'
  BY <1>13 DEF RunMethod
<1>14. ASSUME NEW c \in Calls, Meet(c) \/ Timeout(c) PROVE ControlOK'
  <2>1. CASE Called(c)
    BY <2>1 DEF Called
  <2>2. CASE Sent(c)
    BY <2>2 DEF Sent
  <2>3. CASE Timeout(c)
    BY <2>3 DEF Timeout
  <2> QED
    BY <1>14, <2>1, <2>2, <2>3 DEF Meet
<1>15. CASE Peer \/ UNCHANGED vars
  BY <1>1, <1>15 DEF Peer, PeerSend, PeerBreak, PeerReceive, PeerClose, vars
<1> HIDE DEF ControlOK
<1> QED
  BY <1>3, <1>4, <1>5, <1>6, <1>7, <1>8, <1>9, <1>10, <1>11, <1>12, <1>13, <1>14, <1>15
     DEF Next, ServerStep, Program, ConnStep

\* The headers and the histories.
LEMMA TablesStep == TypeOK /\ [Next]_vars => TablesOK'
<1> SUFFICES ASSUME TypeOK, ControlOK, StreamsOK, TablesOK, [Next]_vars PROVE TablesOK'
  BY TypeParts
<1> USE DEF TablesOK, reqVars, bufVars, wireVars
<1>1. CASE UNCHANGED <<rseq, herr, werr, executed, answered>>
  BY <1>1
<1>2. CASE ReadHeader
  <2>1. c2s \in Seq(Item) /\ c2s # << >>
    BY <1>2 DEF ReadHeader, StreamsOK
  <2>2. Head(c2s) \in Item
    BY <2>1, HeadTailProperties
  <2>3. Head(c2s).seq \in Nat
    BY <2>2 DEF Item
  <2>4. herr' \in [Calls -> BOOLEAN]
    <3>1. PICK b : b \in BOOLEAN /\ herr' = [herr EXCEPT ![Head(c2s).call] = b]
      BY <1>2 DEF ReadHeader
    <3> QED
      BY <3>1
  <2> QED
    BY <1>2, <2>3, <2>4 DEF ReadHeader
<1>3. CASE ReadArgsFail
  BY <1>3 DEF ReadArgsFail
<1>4. ASSUME NEW t \in Threads, SendResponse(t) PROVE TablesOK'
  <2>1. CASE UNCHANGED answered
    BY <1>1, <1>4, <2>1 DEF SendResponse, LockSend, WriteHead, WriteBody
  <2>2. CASE WriteHead(t)
    <3>1. answered' = [answered EXCEPT ![ReqOf(t)] = answered[ReqOf(t)] + 1]
      BY <2>2 DEF WriteHead
    <3>2. answered' \in [Calls -> Nat]
      <4>1. ReqOf(t) \in Calls
        BY <2>2, WriterRequest DEF WriteHead
      <4> QED
        BY <3>1, <4>1
    <3> QED
      BY <2>2, <3>2 DEF WriteHead
  <2> QED
    BY <1>4, <2>1, <2>2 DEF SendResponse, LockSend, WriteBody
<1>5. ASSUME NEW c \in Calls, NEW e \in Returns, RunMethod(c, e) PROVE TablesOK'
  BY <1>5 DEF RunMethod
<1>6. ASSUME NEW c \in Calls, Called(c) PROVE TablesOK'
  BY <1>6 DEF Called
<1>7. ASSUME NEW c \in Calls, Timeout(c) PROVE TablesOK'
  BY <1>7 DEF Timeout
<1>8. ASSUME NEW c \in Calls, Sent(c) PROVE TablesOK'
  BY <1>1, <1>8 DEF Sent
<1>9. CASE Peer \/ UNCHANGED vars
  BY <1>1, <1>9 DEF Peer, PeerSend, PeerBreak, PeerReceive, PeerClose, vars
<1>10. CASE Program
  BY <1>1, <1>10 DEF Program, Panic, Register
<1>11. CASE ConnStep
  BY <1>1, <1>2, <1>3, <1>11
     DEF ConnStep, ReadOption, RefuseOption, ReadHeaderFail, ReplyPanic, RecoveredPanic,
         ReadArgs, Drain
<1> QED
  BY <1>4, <1>5, <1>6, <1>7, <1>8, <1>9, <1>10, <1>11, Zenon DEF Next, ServerStep, Meet

\* The streams, the codec's buffer and what was sent.
LEMMA StreamsStep == TypeOK /\ IsFiniteSet(sent) /\ [Next]_vars => StreamsOK'
<1> SUFFICES ASSUME TypeOK, IsFiniteSet(sent), ControlOK, StreamsOK, TablesOK, [Next]_vars
             PROVE  StreamsOK'
  BY TypeParts
<1> USE DEF reqVars, bufVars, wireVars
<1>1. CASE UNCHANGED <<wbuf, c2s, s2c, sent>>
  BY <1>1 DEF StreamsOK
<1>2. CASE Die /\ UNCHANGED <<c2s, s2c, sent>>
  BY <1>2, EmptySeq DEF Die, StreamsOK
<1>3. CASE Program
  BY <1>1, <1>2, <1>3 DEF Program, Panic, Register
<1>4. ASSUME NEW n \in 0 .. ReadAhead, ReadOption(n) PROVE StreamsOK'
  <2>1. n + 1 \in Int /\ Len(c2s) \in Int /\ n <= Len(c2s)
    BY <1>4, LenProperties DEF ReadOption, StreamsOK
  <2>2. \A i \in n + 1 .. Len(c2s) : c2s[i] \in Item
    <3>1. \A i \in 1 .. Len(c2s) : c2s[i] \in Item
      BY ElementOfSeq DEF StreamsOK
    <3> QED
      BY <2>1, <3>1
  <2>3. c2s' \in Seq(Item)
    BY <1>4, <2>1, <2>2, SubSeqProperties DEF ReadOption
  <2> QED
    BY <1>4, <2>3 DEF ReadOption, StreamsOK
<1>5. CASE c2s # << >> /\ c2s' = Tail(c2s) /\ UNCHANGED <<wbuf, s2c, sent>>
  BY <1>5, HeadTailProperties DEF StreamsOK
<1>6. CASE ReadHeader
  BY <1>5, <1>6 DEF ReadHeader
<1>7. CASE ConnStep
  BY <1>1, <1>2, <1>4, <1>5, <1>6, <1>7
     DEF ConnStep, RefuseOption, ReadHeaderFail, ReplyPanic, RecoveredPanic, ReadArgs,
         ReadArgsFail, Drain
<1>8. ASSUME NEW t \in Threads, SendResponse(t) PROVE StreamsOK'
  <2>1. CASE LockSend(t)
    BY <1>1, <2>1 DEF LockSend
  <2>2. CASE WriteHead(t) \/ WriteBody(t)
    <3> DEFINE c == ReqOf(t)
    <3>1. c \in Calls
      BY <2>2, WriterRequest DEF WriteHead, WriteBody
    <3>2. rseq[c] \in Nat /\ herr[c] \in BOOLEAN
      BY <3>1 DEF TablesOK
    <3> DEFINE f == Frame(rseq[c], c, herr[c])
    <3>3. f[1] \in Item /\ f[2] \in Item
      BY <3>1, <3>2, FrameType
    <3>4. Append(wbuf, f[1]) \in Seq(Item) /\ Append(wbuf, f[2]) \in Seq(Item)
      BY <3>3, AppendProperties DEF StreamsOK
    <3>5. CASE WriteHead(t)
      BY <3>4, <3>5 DEF WriteHead, StreamsOK
    <3>6. ASSUME NEW b \in Seq(Item), Flush(b) PROVE wbuf' \in Seq(Item) /\ s2c' \in Seq(Item)
      BY <3>6, ConcatProperties, EmptySeq DEF Flush, StreamsOK
    <3>7. CASE WriteBody(t)
      <4>1. Flush(wbuf) \/ Flush(Append(wbuf, f[2]))
        BY <3>7 DEF WriteBody
      <4>2. wbuf' \in Seq(Item) /\ s2c' \in Seq(Item)
        BY <3>4, <3>6, <4>1 DEF StreamsOK
      <4> QED
        BY <3>7, <4>2 DEF WriteBody, StreamsOK
    <3> QED
      BY <2>2, <3>5, <3>7
  <2> QED
    BY <1>8, <2>1, <2>2 DEF SendResponse
<1>9. ASSUME NEW c \in Calls,
             (\E e \in Returns : RunMethod(c, e)) \/ Meet(c) \/ Timeout(c)
      PROVE  StreamsOK'
  BY <1>1, <1>9 DEF RunMethod, Meet, Called, Sent, Timeout
<1>10. ASSUME NEW c \in Calls, PeerSend(c) \/ PeerBreak(c) PROVE StreamsOK'
  <2> DEFINE f == Frame(Cardinality(sent) + 1, c, FALSE)
  <2>1. Cardinality(sent) + 1 \in Nat
    BY FS_CardinalityType
  <2>2. f \in Seq(Item) /\ f[1] \in Item
    BY <2>1, FrameType
  <2>3. c2s \o f \in Seq(Item) /\ Append(c2s, f[1]) \in Seq(Item)
    BY <2>2, ConcatProperties, AppendProperties DEF StreamsOK
  <2> HIDE DEF f
  <2>4. c2s' \in Seq(Item)
    BY <1>10, <2>3 DEF PeerSend, PeerBreak, StreamsOK, f
  <2> QED
    BY <1>10, <2>4 DEF PeerSend, PeerBreak, StreamsOK
<1>11. CASE PeerReceive
  BY <1>11, HeadTailProperties DEF PeerReceive, StreamsOK
<1>12. CASE PeerClose \/ UNCHANGED vars
  BY <1>1, <1>12 DEF PeerClose, vars
<1> QED
  BY <1>3, <1>7, <1>8, <1>9, <1>10, <1>11, <1>12, Zenon DEF Next, ServerStep, Peer

\* The flags.
LEMMA FlagsStep == TypeOK /\ [Next]_vars => FlagsOK'
<1> SUFFICES ASSUME FlagsOK, [Next]_vars PROVE FlagsOK'
  BY TypeParts
<1> USE DEF FlagsOK, reqVars, bufVars, wireVars
<1>1. CASE Program
  BY <1>1 DEF Program, Panic, Register, Die
<1>2. CASE ConnStep
  <2>1. UNCHANGED <<bufErr, cOpen>> /\ (sOpen' = FALSE \/ UNCHANGED sOpen)
    BY <1>2 DEF ConnStep, ReadOption, RefuseOption, ReadHeader, ReadHeaderFail,
                ReplyPanic, RecoveredPanic, ReadArgs, ReadArgsFail, Drain, Die
  <2>2. desync' \in BOOLEAN
    <3>1. ASSUME NEW n \in 0 .. ReadAhead, ReadOption(n) PROVE desync' \in BOOLEAN
      <4>1. desync' = (n > 0)
        BY <3>1 DEF ReadOption
      <4> QED
        BY <4>1
    <3>2. CASE UNCHANGED desync
      BY <3>2
    <3> QED
      BY <1>2, <3>1, <3>2 DEF ConnStep, RefuseOption, ReadHeader, ReadHeaderFail,
                              ReplyPanic, RecoveredPanic, ReadArgs, ReadArgsFail, Drain
  <2> QED
    BY <2>1, <2>2
<1>3. ASSUME NEW t \in Threads, SendResponse(t) PROVE FlagsOK'
  <2>1. UNCHANGED <<desync, cOpen>> /\ (sOpen' = FALSE \/ UNCHANGED sOpen)
    BY <1>3 DEF SendResponse, LockSend, WriteHead, WriteBody
  <2>2. bufErr' \in BOOLEAN
    BY <1>3 DEF SendResponse, LockSend, WriteHead, WriteBody, Flush
  <2> QED
    BY <2>1, <2>2
<1>4. ASSUME NEW c \in Calls,
             (\E e \in Returns : RunMethod(c, e)) \/ Meet(c) \/ Timeout(c)
      PROVE  FlagsOK'
  BY <1>4 DEF RunMethod, Meet, Called, Sent, Timeout
<1>5. CASE Peer \/ UNCHANGED vars
  BY <1>5 DEF Peer, PeerSend, PeerBreak, PeerReceive, PeerClose, vars
<1> QED
  BY <1>1, <1>2, <1>3, <1>4, <1>5, Zenon DEF Next, ServerStep

-----------------------------------------------------------------------------
(* The phases of a request.                                                *)

\* What a step of sendResponse does to the goroutine and to its request.
LEMMA SendEffect ==
    ASSUME TypeOK, NEW t \in Threads, SendResponse(t)
    PROVE  /\ ReqOf(t) \in Calls
           /\ UNCHANGED <<serviceMap, opt, rseq, herr, werr, executed, c2s, sent>>
           /\ \/ /\ pc[t] = "lock" /\ SendFree /\ pc' = [pc EXCEPT ![t] = "head"]
                 /\ UNCHANGED <<cur, answered, wbuf, s2c, sOpen>>
              \/ /\ pc[t] = "head" /\ pc' = [pc EXCEPT ![t] = "body"]
                 /\ wbuf' = Append(wbuf, Header(t)) /\ UNCHANGED <<cur, s2c, sOpen>>
                 /\ answered' = [answered EXCEPT ![ReqOf(t)] = answered[ReqOf(t)] + 1]
              \/ /\ pc[t] = "head" /\ Return(t) /\ UNCHANGED <<wbuf, s2c>> /\ sOpen' = FALSE
                 /\ answered' = [answered EXCEPT ![ReqOf(t)] = answered[ReqOf(t)] + 1]
              \/ pc[t] = "body" /\ Return(t) /\ UNCHANGED answered /\ wbuf' = << >>
<1>1. pc[t] \in {"lock", "head", "body"}
  BY DEF SendResponse, LockSend, WriteHead, WriteBody
<1>2. ReqOf(t) \in Calls
  BY <1>1, WriterRequest
<1>3. UNCHANGED <<serviceMap, opt, rseq, herr, werr, executed, c2s, sent>>
  BY DEF SendResponse, LockSend, WriteHead, WriteBody, reqVars, wireVars
<1>4. CASE LockSend(t)
  BY <1>2, <1>3, <1>4 DEF LockSend, reqVars, bufVars, wireVars
<1>5. CASE WriteHead(t)
  BY <1>2, <1>3, <1>5 DEF WriteHead, Header
<1>6. CASE WriteBody(t)
  BY <1>2, <1>3, <1>6 DEF WriteBody, Flush
<1> QED
  BY <1>4, <1>5, <1>6 DEF SendResponse

\* A step that does not touch a request leaves its phase alone.
LEMMA PhaseFrame ==
    ASSUME NEW c \in Calls, Phase(c), cur # c, cur' # c,
           pc'[Handler(c)] = pc[Handler(c)], pc'[Worker(c)] = pc[Worker(c)],
           pc'[Loop] = "dead" <=> pc[Loop] = "dead", answered'[c] = answered[c]
    PROVE  Phase(c)'
BY DEF Phase

\* The steps of sendResponse take the goroutine on, with one response.
LEMMA PhaseSend ==
    ASSUME TypeOK, ControlOK, TablesOK, Phases, NEW t \in Threads, SendResponse(t)
    PROVE  Phases'
<1>1. PICK d \in Calls : d = ReqOf(t)
  BY SendEffect
<1>6. answered[d] \in Nat
  BY DEF TablesOK
<1>2. /\ \A u \in Threads \ {t} : pc'[u] = pc[u]
      /\ \/ pc[t] = "lock" /\ pc'[t] = "head" /\ cur' = cur /\ answered'[d] = answered[d]
         \/ pc[t] = "head" /\ pc'[t] = "body" /\ cur' = cur /\ answered'[d] = answered[d] + 1
         \/ /\ pc[t] = "head" /\ pc'[t] = AfterResponse(t) /\ answered'[d] = answered[d] + 1
            /\ cur' = IF t = Loop THEN NoCall ELSE cur
         \/ /\ pc[t] = "body" /\ pc'[t] = AfterResponse(t) /\ answered'[d] = answered[d]
            /\ cur' = IF t = Loop THEN NoCall ELSE cur
  BY <1>1, SendEffect DEF Return, ControlOK, TablesOK
<1>3. \A c \in Calls \ {d} : answered'[c] = answered[c]
  <2>1. answered' = answered \/ answered' = [answered EXCEPT ![d] = answered[d] + 1]
    BY <1>1, SendEffect
  <2> QED
    BY <2>1 DEF TablesOK
<1>4. CASE t = Loop
  <2>1. d = cur /\ AfterResponse(t) = "header"
    BY <1>1, <1>4, ThreadRequests
  <2>2. \A c \in Calls : pc'[Handler(c)] = pc[Handler(c)] /\ pc'[Worker(c)] = pc[Worker(c)]
    BY <1>2, <1>4, ThreadFacts
  <2>3. Phase(d)'
    <3>1. Phase(d)
      BY <1>1 DEF Phases
    <3>2. d # NoCall /\ d = cur
      BY <1>1, <2>1, ServerAssumption
    <3> QED
      BY <1>2, <1>4, <1>6, <2>1, <2>2, <3>1, <3>2 DEF Phase
  <2>4. ASSUME NEW c \in Calls \ {d} PROVE Phase(c)'
    <3>1. cur # c /\ cur' # c
      BY <1>2, <1>4, <2>1, ServerAssumption
    <3>2. pc'[Loop] # "dead" /\ pc[Loop] # "dead"
      BY <1>2, <1>4, <2>1
    <3> QED
      BY <1>3, <2>2, <3>1, <3>2, PhaseFrame DEF Phases
  <2> QED
    BY <2>3, <2>4 DEF Phases
<1>5. CASE t # Loop
  <2>1. cur' = cur /\ pc'[Loop] = pc[Loop]
    BY <1>2, <1>5, ThreadFacts
  <2>2. \A c \in Calls \ {d} : /\ pc'[Handler(c)] = pc[Handler(c)]
                                /\ pc'[Worker(c)] = pc[Worker(c)]
    BY <1>1, <1>2, <1>5, ThreadFacts, ThreadRequests
  <2>3. ASSUME NEW c \in Calls \ {d} PROVE Phase(c)'
    <3>1. Phase(c) /\ answered'[c] = answered[c]
      BY <1>3 DEF Phases
    <3> QED
      BY <2>1, <2>2, <3>1 DEF Phase
  <2>4. Phase(d)
    BY <1>1 DEF Phases
  <2>5. CASE t = Handler(d)
    <3>1. AfterResponse(t) = "returned" /\ pc'[Worker(d)] = pc[Worker(d)]
      BY <1>1, <1>2, <2>5, ThreadFacts, ThreadRequests
    <3>2. Phase(d)'
      BY <1>2, <1>6, <2>1, <2>4, <2>5, <3>1 DEF Phase
    <3> QED
      BY <2>3, <3>2 DEF Phases
  <2>6. CASE t = Worker(d)
    <3>1. AfterResponse(t) = "sent" /\ pc'[Handler(d)] = pc[Handler(d)]
      BY <1>1, <1>2, <2>6, ThreadFacts, ThreadRequests
    <3>2. Phase(d)'
      BY <1>2, <1>6, <2>1, <2>4, <2>6, <3>1 DEF Phase
    <3> QED
      BY <2>3, <3>2 DEF Phases
  <2> QED
    BY <1>1, <1>5, <2>5, <2>6, ThreadFacts, ThreadRequests
<1> QED
  BY <1>4, <1>5

\* Every request goes through its phases.
LEMMA PhasesStep == TypeOK /\ Phases /\ Requests /\ [Next]_vars => Phases'
<1> SUFFICES ASSUME TypeOK, ControlOK, StreamsOK, TablesOK, Phases, Requests, [Next]_vars
             PROVE  Phases'
  BY TypeParts
<1> USE DEF reqVars, bufVars, wireVars
<1>1. CASE UNCHANGED <<pc, cur, answered>>
  BY <1>1 DEF Phases, Phase
<1>2. CASE Die /\ UNCHANGED answered
  <2>1. \A t \in Threads : pc'[t] = "dead"
    BY <1>2 DEF Die
  <2>2. \A c \in Calls : answered'[c] \in {0, 1}
    BY <1>2 DEF Phases, Phase
  <2> QED
    BY <2>1, <2>2, ThreadFacts DEF Phases, Phase
<1>3. CASE Program
  BY <1>1, <1>2, <1>3 DEF Program, Panic, Register
<1>4. ASSUME pc[Loop] \in {"option", "header", "drain"}, UNCHANGED <<cur, answered>>,
             NEW l \in {"header", "drain", "closed"}, pc' = [pc EXCEPT ![Loop] = l]
      PROVE  Phases'
  <2>1. cur = NoCall /\ pc'[Loop] # "dead" /\ pc[Loop] # "dead"
    BY <1>4, ThreadFacts DEF ControlOK
  <2>2. \A c \in Calls : pc'[Handler(c)] = pc[Handler(c)] /\ pc'[Worker(c)] = pc[Worker(c)]
    BY <1>4, ThreadFacts DEF ControlOK
  <2>3. ASSUME NEW c \in Calls PROVE Phase(c)'
    <3>1. cur # c /\ cur' # c
      BY <1>4, <2>1, ServerAssumption
    <3> QED
      BY <1>4, <2>1, <2>2, <3>1, PhaseFrame DEF Phases
  <2> QED
    BY <2>3 DEF Phases
<1>5. CASE ReadHeader
  <2>1. PICK d : d = Head(c2s).call
    OBVIOUS
  <2>2. d \in Calls /\ Waiting(d)
    <3>1. c2s \in Seq(Item) /\ c2s # << >> /\ Head(c2s).k = "head"
      BY <1>5 DEF ReadHeader, StreamsOK
    <3>2. Head(c2s) \in Item /\ Head(c2s) = c2s[1] /\ 1 \in 1 .. Len(c2s)
      BY <3>1, HeadTailProperties, EmptySeq
    <3> QED
      BY <2>1, <3>1, <3>2 DEF Requests, InFlight, Item
  <2>3. /\ pc[Loop] = "header" /\ pc'[Loop] \in {"newReplyv", "args", "lock"}
        /\ cur' = d /\ answered' = answered
        /\ \A t \in Threads \ {Loop} : pc'[t] = pc[t]
    BY <1>5, <2>1, ThreadFacts DEF ReadHeader, ControlOK
  <2>4. cur = NoCall
    BY <2>3 DEF ControlOK
  <2>5. \A c \in Calls : pc'[Handler(c)] = pc[Handler(c)] /\ pc'[Worker(c)] = pc[Worker(c)]
    BY <2>3, ThreadFacts
  <2>6. Phase(d)'
    <3>1. Phase(d)
      BY <2>2 DEF Phases
    <3> QED
      BY <2>2, <2>3, <2>5, <3>1 DEF Phase, Waiting
  <2>7. ASSUME NEW c \in Calls \ {d} PROVE Phase(c)'
    <3>1. cur # c /\ cur' # c
      BY <2>3, <2>4, ServerAssumption
    <3>2. answered'[c] = answered[c] /\ (pc'[Loop] = "dead" <=> pc[Loop] = "dead")
      BY <2>3
    <3> QED
      BY <2>5, <3>1, <3>2, PhaseFrame DEF Phases
  <2> QED
    BY <2>6, <2>7 DEF Phases
<1>6. CASE ReadArgs \/ ReadArgsFail
  <2>1. PICK d \in Calls : d = cur
    BY <1>6 DEF ReadArgs, ReadArgsFail, ControlOK
  <2>2. /\ pc[Loop] = "args" /\ answered' = answered
        /\ \A t \in Threads \ {Loop, Handler(d), Worker(d)} : pc'[t] = pc[t]
        /\ \/ /\ pc'[Loop] = "lock" /\ cur' = cur /\ pc'[Handler(d)] = pc[Handler(d)]
              /\ pc'[Worker(d)] = pc[Worker(d)]
           \/ /\ pc'[Loop] = "header" /\ cur' = NoCall /\ pc'[Handler(d)] = "select"
              /\ pc'[Worker(d)] = "call"
    <3>1. CASE ReadArgs
      BY <2>1, <3>1, ThreadFacts DEF ReadArgs, ControlOK
    <3>2. CASE ReadArgsFail
      BY <2>1, <3>2, ThreadFacts DEF ReadArgsFail, ControlOK
    <3> QED
      BY <1>6, <3>1, <3>2
  <2>3. Phase(d)'
    <3>1. Phase(d) /\ d # NoCall
      BY ServerAssumption DEF Phases
    <3> QED
      BY <2>1, <2>2, <3>1 DEF Phase
  <2>4. ASSUME NEW c \in Calls \ {d} PROVE Phase(c)'
    <3>1. cur # c /\ cur' # c
      BY <2>1, <2>2, ServerAssumption
    <3>2. pc'[Handler(c)] = pc[Handler(c)] /\ pc'[Worker(c)] = pc[Worker(c)]
      BY <2>2, ThreadFacts
    <3>3. answered'[c] = answered[c] /\ (pc'[Loop] = "dead" <=> pc[Loop] = "dead")
      BY <2>2
    <3> QED
      BY <3>1, <3>2, <3>3, PhaseFrame DEF Phases
  <2> QED
    BY <2>3, <2>4 DEF Phases
<1>7. CASE ConnStep
  <2>1. CASE (\E n \in 0 .. ReadAhead : ReadOption(n)) \/ RefuseOption
    BY <1>4, <2>1 DEF ReadOption, RefuseOption
  <2>2. CASE ReadHeaderFail \/ Drain
    BY <1>4, <2>2 DEF ReadHeaderFail, Drain
  <2>3. CASE RecoveredPanic
    <3>1. /\ pc[Loop] = "newReplyv" /\ pc'[Loop] = "closed" /\ cur' = NoCall
          /\ answered' = answered /\ \A t \in Threads \ {Loop} : pc'[t] = pc[t]
      BY <2>3, ThreadFacts DEF RecoveredPanic, ControlOK
    <3>2. ASSUME NEW c \in Calls PROVE Phase(c)'
      <4>1. pc'[Handler(c)] = pc[Handler(c)] /\ pc'[Worker(c)] = pc[Worker(c)] /\ cur' # c
        BY <3>1, ThreadFacts, ServerAssumption
      <4>2. Phase(c)
        BY DEF Phases
      <4> QED
        BY <3>1, <4>1, <4>2 DEF Phase
    <3> QED
      BY <3>2 DEF Phases
  <2> QED
    BY <1>2, <1>5, <1>6, <1>7, <2>1, <2>2, <2>3 DEF ConnStep, ReplyPanic
<1>8. ASSUME NEW t \in Threads, SendResponse(t) PROVE Phases'
  BY <1>8, PhaseSend
<1>9. ASSUME NEW d \in Calls,
             (\E e \in Returns : RunMethod(d, e)) \/ Meet(d) \/ Timeout(d)
      PROVE  Phases'
  <2>1. /\ cur' = cur /\ answered' = answered
        /\ \A t \in Threads \ {Handler(d), Worker(d)} : pc'[t] = pc[t]
    BY <1>9, ThreadFacts DEF RunMethod, Meet, Called, Sent, Timeout, ControlOK
  <2>2. pc'[Loop] = pc[Loop]
    BY <2>1, ThreadFacts
  <2>3. \/ /\ pc[Worker(d)] = "call" /\ pc'[Worker(d)] = "called"
           /\ pc'[Handler(d)] = pc[Handler(d)]
        \/ /\ pc[Worker(d)] = "called" /\ pc[Handler(d)] = "select"
           /\ pc'[Worker(d)] = "lock" /\ pc'[Handler(d)] = "sent"
        \/ /\ pc[Worker(d)] = "sent" /\ pc[Handler(d)] = "sent"
           /\ pc'[Worker(d)] = "returned" /\ pc'[Handler(d)] = "returned"
        \/ /\ pc[Handler(d)] = "select" /\ pc'[Handler(d)] = "lock"
           /\ pc'[Worker(d)] = pc[Worker(d)]
    BY <1>9, ThreadFacts DEF RunMethod, Meet, Called, Sent, Timeout, ControlOK
  <2>4. Phase(d)'
    <3>1. Phase(d)
      BY DEF Phases
    <3> QED
      BY <2>1, <2>2, <2>3, <3>1 DEF Phase
  <2>5. ASSUME NEW c \in Calls \ {d} PROVE Phase(c)'
    <3>1. pc'[Handler(c)] = pc[Handler(c)] /\ pc'[Worker(c)] = pc[Worker(c)]
      BY <2>1, ThreadFacts
    <3>2. Phase(c)
      BY DEF Phases
    <3> QED
      BY <2>1, <2>2, <3>1, <3>2 DEF Phase
  <2> QED
    BY <2>4, <2>5 DEF Phases
<1>10. CASE Peer \/ UNCHANGED vars
  BY <1>1, <1>10 DEF Peer, PeerSend, PeerBreak, PeerReceive, PeerClose, vars
<1> QED
  BY <1>3, <1>7, <1>8, <1>9, <1>10 DEF Next, ServerStep

-----------------------------------------------------------------------------
(* The requests on their way.                                              *)

\* Nobody touches a request before its header is read.
LEMMA WaitingStep ==
    ASSUME TypeOK, Phases, [Next]_vars, NEW c \in Calls, Waiting(c)
    PROVE  Waiting(c)' \/ (ReadHeader /\ c = Head(c2s).call)
<1> USE DEF reqVars, bufVars, wireVars
<1>0. ControlOK /\ TablesOK /\ c # NoCall
  BY TypeParts, ServerAssumption
<1>1. ASSUME pc'[Handler(c)] \in {pc[Handler(c)], "dead"}, answered'[c] = answered[c],
             cur' \in {cur, NoCall}
      PROVE  Waiting(c)'
  BY <1>0, <1>1 DEF Waiting
<1>2. CASE Die /\ UNCHANGED answered
  BY <1>1, <1>2, ThreadFacts DEF Die
<1>3. CASE Program
  BY <1>1, <1>2, <1>3 DEF Program, Panic, Register
<1>4. CASE ReadHeader
  <2>1. CASE c # Head(c2s).call
    <3>1. cur' # c /\ pc'[Handler(c)] = pc[Handler(c)] /\ answered' = answered
      BY <1>0, <1>4, <2>1, ThreadFacts DEF ReadHeader, ControlOK
    <3> QED
      BY <3>1 DEF Waiting
  <2> QED
    BY <1>4, <2>1
<1>5. CASE ReadArgs
  <2>1. cur \in Calls /\ cur # c
    BY <1>0, <1>5 DEF ReadArgs, ControlOK, Waiting
  <2>2. pc'[Handler(c)] = pc[Handler(c)]
    BY <1>0, <1>5, <2>1, ThreadFacts DEF ReadArgs, ControlOK
  <2> QED
    BY <1>1, <1>5, <2>2 DEF ReadArgs
<1>6. CASE ConnStep
  <2>1. CASE \E n \in 0 .. ReadAhead : ReadOption(n)
    <3>1. pc'[Handler(c)] = pc[Handler(c)]
      BY <1>0, <2>1, ThreadFacts DEF ReadOption, ControlOK
    <3> QED
      BY <1>1, <2>1, <3>1 DEF ReadOption
  <2>2. CASE RefuseOption \/ ReadHeaderFail \/ RecoveredPanic \/ ReadArgsFail \/ Drain
    <3>1. pc'[Handler(c)] = pc[Handler(c)]
      BY <1>0, <2>2, ThreadFacts
         DEF RefuseOption, ReadHeaderFail, RecoveredPanic, ReadArgsFail, Drain, ControlOK
    <3> QED
      BY <1>1, <2>2, <3>1
         DEF RefuseOption, ReadHeaderFail, RecoveredPanic, ReadArgsFail, Drain
  <2> QED
    BY <1>2, <1>4, <1>5, <1>6, <2>1, <2>2 DEF ConnStep, ReplyPanic
<1>7. ASSUME NEW t \in Threads, SendResponse(t) PROVE Waiting(c)'
  <2>1. Phase(c) /\ pc[t] \in {"lock", "head", "body"}
    BY <1>7, SendEffect DEF Phases
  <2>2. t # Handler(c) /\ t # Worker(c) /\ (t = Loop => cur # c)
    BY <1>0, <2>1 DEF Phase, Waiting, ControlOK
  <2>3. ReqOf(t) # c
    BY <2>2, ThreadFacts, ThreadRequests
  <2>4. answered' = answered \/ \E n : answered' = [answered EXCEPT ![ReqOf(t)] = n]
    BY <1>7, SendEffect
  <2>5. pc'[Handler(c)] = pc[Handler(c)] /\ cur' \in {cur, NoCall}
    BY <1>0, <1>7, <2>2, SendEffect, ThreadFacts DEF Return, ControlOK
  <2> QED
    BY <1>0, <1>1, <2>3, <2>4, <2>5 DEF TablesOK
<1>8. ASSUME NEW d \in Calls, NEW e \in Returns, RunMethod(d, e) PROVE Waiting(c)'
  <2>1. pc'[Handler(c)] = pc[Handler(c)]
    BY <1>0, <1>8, ThreadFacts DEF RunMethod, ControlOK
  <2> QED
    BY <1>1, <1>8, <2>1 DEF RunMethod
<1>9. ASSUME NEW d \in Calls, Meet(d) \/ Timeout(d) PROVE Waiting(c)'
  <2>1. pc[Handler(d)] \in {"select", "sent"}
    BY <1>9 DEF Meet, Called, Sent, Timeout
  <2>2. c # d
    BY <2>1 DEF Waiting
  <2>3. pc'[Handler(c)] = pc[Handler(c)]
    BY <1>0, <1>9, <2>2, ThreadFacts DEF Meet, Called, Sent, Timeout, ControlOK
  <2> QED
    BY <1>1, <1>9, <2>3 DEF Meet, Called, Sent, Timeout
<1>10. CASE Peer \/ UNCHANGED vars
  BY <1>1, <1>10 DEF Peer, PeerSend, PeerBreak, PeerReceive, PeerClose, vars
<1> QED
  BY <1>3, <1>6, <1>7, <1>8, <1>9, <1>10 DEF Next, ServerStep

\* Taking values from the front of the stream.
LEMMA RequestsShift ==
    ASSUME Requests, StreamsOK, NEW n \in Nat, Len(c2s') = Len(c2s) - n, Len(c2s') \in Nat,
           \A i \in 1 .. Len(c2s') : c2s'[i] = c2s[i + n], sent' = sent,
           \A c \in Calls : InFlight(c)' \/ c \notin sent => Waiting(c)'
    PROVE  Requests'
<1>1. Len(c2s) \in Nat
  BY LenProperties DEF StreamsOK
<1>2. \A i \in 1 .. Len(c2s') : i + n \in 1 .. Len(c2s)
  BY <1>1
<1>3. \A c \in Calls : InFlight(c)' => InFlight(c)
  BY <1>2 DEF InFlight
<1>4. ASSUME NEW i \in 1 .. Len(c2s'), NEW j \in 1 .. Len(c2s'),
             c2s'[i].k = "head", c2s'[j].k = "head", c2s'[i].call = c2s'[j].call
      PROVE  i = j
  <2>1. /\ c2s'[i] = c2s[i + n] /\ i + n \in 1 .. Len(c2s)
        /\ c2s'[j] = c2s[j + n] /\ j + n \in 1 .. Len(c2s)
    BY <1>2
  <2>2. i + n = j + n
    BY <1>4, <2>1 DEF Requests
  <2> QED
    BY <2>2
<1> QED
  BY <1>3, <1>4 DEF Requests

\* A new request at the end of the stream.
LEMMA RequestsAppend ==
    ASSUME Requests, StreamsOK, NEW c \in Calls, c \notin sent, sent' = sent \cup {c},
           \A d \in Calls : Waiting(d) => Waiting(d)',
           \/ c2s' = c2s
           \/ /\ Len(c2s') \in Nat /\ Len(c2s') > Len(c2s)
              /\ \A i \in 1 .. Len(c2s) : c2s'[i] = c2s[i]
              /\ c2s'[Len(c2s) + 1].call = c
              /\ \A i \in Len(c2s) + 2 .. Len(c2s') : c2s'[i].k # "head"
    PROVE  Requests'
<1>0. IsFiniteSet(sent')
  BY FS_AddElement DEF Requests
<1>1. Len(c2s) \in Nat
  BY LenProperties DEF StreamsOK
<1>2. ASSUME NEW i \in 1 .. Len(c2s'), c2s'[i].k = "head"
      PROVE  \/ i \in 1 .. Len(c2s) /\ c2s'[i] = c2s[i]
             \/ i = Len(c2s) + 1 /\ c2s'[i].call = c
  BY <1>1, <1>2
<1>3. \A d \in Calls : InFlight(d)' => InFlight(d) \/ d = c
  BY <1>2 DEF InFlight
<1>4. ASSUME NEW i \in 1 .. Len(c2s'), NEW j \in 1 .. Len(c2s'),
             c2s'[i].k = "head", c2s'[j].k = "head", c2s'[i].call = c2s'[j].call
      PROVE  i = j
  <2>1. CASE i \in 1 .. Len(c2s) /\ c2s'[i] = c2s[i] /\ j \in 1 .. Len(c2s) /\ c2s'[j] = c2s[j]
    BY <1>4, <2>1 DEF Requests
  <2>2. ~InFlight(c)
    BY DEF Requests
  <2>3. \A k \in 1 .. Len(c2s) : c2s[k].k = "head" => c2s[k].call # c
    BY <2>2 DEF InFlight
  <2> QED
    BY <1>2, <1>4, <2>1, <2>3
<1>5. \A d \in Calls : InFlight(d)' \/ d \notin sent' => Waiting(d)'
  BY <1>3 DEF Requests
<1>6. \A d \in Calls : InFlight(d)' => d \in sent'
  BY <1>3 DEF Requests
<1> QED
  BY <1>0, <1>4, <1>5, <1>6 DEF Requests

\* The peer sends a request once, and the loop reads it once.
LEMMA RequestsStep == TypeOK /\ Phases /\ Requests /\ [Next]_vars => Requests'
<1> SUFFICES ASSUME TypeOK, StreamsOK, StreamsOK', Phases, Requests, [Next]_vars
             PROVE  Requests'
  BY TypeParts, StreamsStep DEF Requests
<1> USE DEF reqVars, bufVars, wireVars
<1>0. Len(c2s) \in Nat /\ Len(c2s') \in Nat
  BY LenProperties DEF StreamsOK
<1>1. ASSUME ~ReadHeader, NEW c \in Calls, Waiting(c) PROVE Waiting(c)'
  BY <1>1, WaitingStep
<1>2. ASSUME ~ReadHeader, NEW n \in Nat, Len(c2s') = Len(c2s) - n, sent' = sent,
             \A i \in 1 .. Len(c2s') : c2s'[i] = c2s[i + n]
      PROVE  Requests'
  <2>1. \A i \in 1 .. Len(c2s') : i + n \in 1 .. Len(c2s)
    BY <1>0, <1>2
  <2>2. \A c \in Calls : InFlight(c)' => InFlight(c)
    BY <1>2, <2>1 DEF InFlight
  <2>3. \A c \in Calls : InFlight(c)' \/ c \notin sent => Waiting(c)'
    BY <1>1, <1>2, <2>2 DEF Requests
  <2> QED
    BY <1>0, <1>2, <2>3, RequestsShift
<1>3. CASE ~ReadHeader /\ UNCHANGED <<c2s, sent>>
  <2>1. Len(c2s') = Len(c2s) - 0 /\ \A i \in 1 .. Len(c2s') : c2s'[i] = c2s[i + 0]
    BY <1>0, <1>3
  <2> QED
    BY <1>2, <1>3, <2>1
<1>4. CASE c2s # << >> /\ c2s' = Tail(c2s) /\ ~ReadHeader /\ sent' = sent
  <2>1. Len(c2s') = Len(c2s) - 1 /\ \A i \in 1 .. Len(c2s') : c2s'[i] = c2s[i + 1]
    BY <1>4, HeadTailProperties DEF StreamsOK
  <2> QED
    BY <1>2, <1>4, <2>1
<1>5. CASE ReadHeader
  <2>1. /\ c2s # << >> /\ Head(c2s) = c2s[1] /\ c2s[1].k = "head" /\ 1 \in 1 .. Len(c2s)
        /\ Len(c2s') = Len(c2s) - 1 /\ \A i \in 1 .. Len(c2s') : c2s'[i] = c2s[i + 1]
    BY <1>0, <1>5, HeadTailProperties, EmptySeq DEF ReadHeader, StreamsOK
  <2>2. \A i \in 1 .. Len(c2s') : i + 1 \in 1 .. Len(c2s) /\ i + 1 # 1
    BY <1>0, <2>1
  <2>3. \A c \in Calls : InFlight(c)' => InFlight(c) /\ c # Head(c2s).call
    BY <2>1, <2>2 DEF InFlight, Requests
  <2>4. InFlight(Head(c2s).call) /\ Head(c2s).call \in Calls
    <3>1. Head(c2s) \in Item
      BY <2>1, ElementOfSeq DEF StreamsOK
    <3>2. Head(c2s).call \in Calls
      BY <3>1 DEF Item
    <3> QED
      BY <2>1, <3>2 DEF InFlight
  <2>5. \A c \in Calls : c \notin sent => Waiting(c) /\ c # Head(c2s).call
    BY <2>4 DEF Requests
  <2>6. \A c \in Calls : InFlight(c)' => Waiting(c) /\ c # Head(c2s).call
    BY <2>3 DEF Requests
  <2>7. \A c \in Calls : InFlight(c)' \/ c \notin sent => Waiting(c)'
    BY <2>5, <2>6, WaitingStep
  <2>8. sent' = sent
    BY <1>5 DEF ReadHeader
  <2> QED
    BY <1>0, <2>1, <2>7, <2>8, RequestsShift
<1>6. ASSUME NEW n \in 0 .. ReadAhead, ReadOption(n), ~ReadHeader PROVE Requests'
  <2>1. n \in Nat /\ n <= Len(c2s) /\ c2s' = SubSeq(c2s, n + 1, Len(c2s)) /\ sent' = sent
    BY <1>6 DEF ReadOption
  <2>2. \A i \in n + 1 .. Len(c2s) : c2s[i] \in Item
    <3>1. \A i \in 1 .. Len(c2s) : c2s[i] \in Item
      BY ElementOfSeq DEF StreamsOK
    <3> QED
      BY <2>1, <3>1, <1>0
  <2>3. /\ Len(c2s') = IF n + 1 <= Len(c2s) THEN Len(c2s) - (n + 1) + 1 ELSE 0
        /\ \A i \in 1 .. Len(c2s) - (n + 1) + 1 : c2s'[i] = c2s[n + 1 + i - 1]
    BY <1>0, <2>1, <2>2, SubSeqProperties
  <2>4. Len(c2s') = Len(c2s) - n
    BY <1>0, <2>1, <2>3
  <2>5. \A i \in 1 .. Len(c2s') : c2s'[i] = c2s[i + n]
    <3> SUFFICES ASSUME NEW i \in 1 .. Len(c2s') PROVE c2s'[i] = c2s[i + n]
      OBVIOUS
    <3>1. i \in 1 .. Len(c2s) - (n + 1) + 1 /\ n + 1 + i - 1 = i + n
      BY <1>0, <2>1, <2>4
    <3> QED
      BY <2>3, <3>1
  <2> QED
    BY <1>2, <1>6, <2>1, <2>4, <2>5
<1>7. ASSUME NEW c \in Calls, PeerSend(c) \/ PeerBreak(c), ~ReadHeader PROVE Requests'
  <2> DEFINE f == Frame(Cardinality(sent) + 1, c, FALSE)
  <2>1. Cardinality(sent) + 1 \in Nat
    BY FS_CardinalityType DEF Requests
  <2>2. /\ f \in Seq(Item) /\ Len(f) = 2 /\ f[1] \in Item
        /\ f[1].call = c /\ f[2].k = "body"
    <3>1. PICK n \in Nat, e \in BOOLEAN : n = Cardinality(sent) + 1 /\ e = FALSE
      BY <2>1
    <3>2. f = Frame(n, c, e)
      BY <3>1, Zenon
    <3>3. /\ Frame(n, c, e) \in Seq(Item) /\ Len(Frame(n, c, e)) = 2
          /\ Frame(n, c, e)[1] \in Item /\ Frame(n, c, e)[1].call = c
          /\ Frame(n, c, e)[2].k = "body"
      BY FrameType, FrameParts
    <3> QED
      BY <3>2, <3>3, Zenon
  <2>3. c2s' = c2s \/ c2s' = c2s \o f \/ c2s' = Append(c2s, f[1])
    BY <1>7 DEF PeerSend, PeerBreak
  <2> HIDE DEF f
  <2>4. CASE c2s' = c2s \o f
    <3>1. /\ Len(c2s') = Len(c2s) + 2
          /\ \A i \in 1 .. Len(c2s) : c2s'[i] = c2s[i]
          /\ c2s'[Len(c2s) + 1] = f[1] /\ c2s'[Len(c2s) + 2] = f[2]
      <4>1. /\ Len(c2s') = Len(c2s) + Len(f)
            /\ \A i \in 1 .. Len(c2s) + Len(f) :
                 c2s'[i] = IF i <= Len(c2s) THEN c2s[i] ELSE f[i - Len(c2s)]
        BY <2>2, <2>4, ConcatProperties DEF StreamsOK
      <4>2. /\ \A i \in 1 .. Len(c2s) : i \in 1 .. Len(c2s) + 2 /\ i <= Len(c2s)
            /\ Len(c2s) + 1 \in 1 .. Len(c2s) + 2 /\ ~(Len(c2s) + 1 <= Len(c2s))
            /\ Len(c2s) + 2 \in 1 .. Len(c2s) + 2 /\ ~(Len(c2s) + 2 <= Len(c2s))
            /\ Len(c2s) + 1 - Len(c2s) = 1 /\ Len(c2s) + 2 - Len(c2s) = 2
        BY <1>0
      <4> QED
        BY <2>2, <4>1, <4>2
    <3>2. \A i \in Len(c2s) + 2 .. Len(c2s') : i = Len(c2s) + 2
      BY <1>0, <3>1
    <3>3. Len(c2s') > Len(c2s) /\ \A i \in Len(c2s) + 2 .. Len(c2s') : c2s'[i].k # "head"
      BY <1>0, <2>2, <3>1, <3>2
    <3> QED
      BY <1>0, <1>1, <1>7, <2>2, <3>1, <3>3, RequestsAppend DEF PeerSend, PeerBreak
  <2>5. CASE c2s' = Append(c2s, f[1])
    <3>1. /\ Len(c2s') = Len(c2s) + 1
          /\ \A i \in 1 .. Len(c2s) : c2s'[i] = c2s[i]
          /\ c2s'[Len(c2s) + 1] = f[1]
      BY <2>2, <2>5, AppendProperties DEF StreamsOK
    <3>3. Len(c2s') > Len(c2s) /\ \A i \in Len(c2s) + 2 .. Len(c2s') : c2s'[i].k # "head"
      BY <1>0, <3>1
    <3> QED
      BY <1>0, <1>1, <1>7, <2>2, <3>1, <3>3, RequestsAppend DEF PeerSend, PeerBreak
  <2>6. CASE c2s' = c2s
    BY <1>1, <1>7, <2>6, RequestsAppend DEF PeerSend, PeerBreak
  <2> QED
    BY <2>3, <2>4, <2>5, <2>6
<1>8. ASSUME ~ReadHeader PROVE Requests'
  <2>1. CASE Program \/ UNCHANGED vars
    BY <1>3, <1>8, <2>1 DEF Program, Panic, Register, vars
  <2>2. CASE ConnStep
    BY <1>3, <1>4, <1>6, <1>8, <2>2
       DEF ConnStep, RefuseOption, ReadHeaderFail, ReplyPanic, RecoveredPanic, ReadArgs,
           ReadArgsFail, Drain
  <2>3. ASSUME NEW t \in Threads, SendResponse(t) PROVE Requests'
    BY <1>3, <1>8, <2>3, SendEffect
  <2>4. ASSUME NEW c \in Calls,
               (\E e \in Returns : RunMethod(c, e)) \/ Meet(c) \/ Timeout(c)
        PROVE  Requests'
    BY <1>3, <1>8, <2>4 DEF RunMethod, Meet, Called, Sent, Timeout
  <2>5. CASE Peer
    BY <1>3, <1>7, <1>8, <2>5 DEF Peer, PeerReceive, PeerClose
  <2> QED
    BY <2>1, <2>2, <2>3, <2>4, <2>5 DEF Next, ServerStep
<1> QED
  BY <1>5, <1>8

-----------------------------------------------------------------------------
(* The mutex, the codec's buffer and the responses.                        *)

\* Outside sendResponse nobody moves the goroutine that writes, or touches the
\* header of the request it answers.
LEMMA WriterFrame ==
    ASSUME TypeOK, Phases, Requests, [Next]_vars, ~Die,
           \A t \in Threads : ~SendResponse(t)
    PROVE  /\ wbuf' = wbuf
           /\ \A t \in Threads : pc[t] \in Writing \/ pc'[t] \in Writing => pc'[t] = pc[t]
           /\ \A t \in Threads : pc[t] = "body" => Header(t)' = Header(t)
<1> USE DEF reqVars, bufVars, wireVars
<1>0. ControlOK /\ TablesOK /\ StreamsOK
  BY TypeParts
<1>1. CASE UNCHANGED <<pc, cur, rseq, herr, wbuf>>
  BY <1>1 DEF Header, ReqOf
<1>2. ASSUME pc[Loop] \in {"option", "header", "newReplyv", "args", "drain"}, wbuf' = wbuf,
             NEW l \in {"header", "newReplyv", "args", "lock", "drain", "closed"},
             pc' = [pc EXCEPT ![Loop] = l],
             \A c \in Calls : (\E t \in {Handler(c), Worker(c)} : pc[t] = "body") =>
                rseq'[c] = rseq[c] /\ herr'[c] = herr[c]
      PROVE  /\ wbuf' = wbuf
             /\ \A t \in Threads : pc[t] \in Writing \/ pc'[t] \in Writing => pc'[t] = pc[t]
             /\ \A t \in Threads : pc[t] = "body" => Header(t)' = Header(t)
  <2>1. \A t \in Threads : pc[t] \in Writing \/ pc'[t] \in Writing => pc'[t] = pc[t]
    BY <1>0, <1>2, ThreadFacts DEF ControlOK, Writing
  <2>2. ASSUME NEW t \in Threads, pc[t] = "body" PROVE Header(t)' = Header(t)
    <3>1. PICK c \in Calls : t = Handler(c) \/ t = Worker(c)
      BY <1>2, <2>2, ThreadFacts
    <3>4. t # Loop /\ ReqOf(t) = c
      BY <3>1, ThreadFacts, ThreadRequests
    <3>2. t # Loop /\ ReqOf(t) = c /\ t[2] = c
      BY <3>4 DEF ReqOf
    <3>3. rseq'[c] = rseq[c] /\ herr'[c] = herr[c]
      BY <1>2, <2>2, <3>1
    <3> QED
      BY <3>2, <3>3 DEF Header, ReqOf
  <2> QED
    BY <1>2, <2>1, <2>2
<1>3. CASE ReadHeader
  <2>1. PICK d : d = Head(c2s).call
    OBVIOUS
  <2>2. d \in Calls /\ Waiting(d) /\ pc[Loop] = "header"
    <3>1. c2s \in Seq(Item) /\ c2s # << >> /\ Head(c2s).k = "head"
      BY <1>0, <1>3 DEF ReadHeader, StreamsOK
    <3>2. Head(c2s) \in Item /\ Head(c2s) = c2s[1] /\ 1 \in 1 .. Len(c2s)
      BY <3>1, HeadTailProperties, EmptySeq
    <3> QED
      BY <1>3, <2>1, <3>1, <3>2 DEF ReadHeader, Requests, InFlight, Item
  <2>3. pc[Handler(d)] # "body" /\ pc[Worker(d)] # "body"
    BY <2>2 DEF Phases, Phase, Waiting
  <2>4. \A c \in Calls \ {d} : rseq'[c] = rseq[c] /\ herr'[c] = herr[c]
    BY <1>0, <1>3, <2>1 DEF ReadHeader, TablesOK
  <2>5. PICK l \in {"newReplyv", "args", "lock"} : pc' = [pc EXCEPT ![Loop] = l]
    BY <1>3 DEF ReadHeader
  <2>6. wbuf' = wbuf
    BY <1>3 DEF ReadHeader
  <2> QED
    BY <1>2, <2>2, <2>3, <2>4, <2>5, <2>6
<1>4. CASE ReadArgsFail
  <2>1. PICK d \in Calls : d = cur
    BY <1>0, <1>4 DEF ReadArgsFail, ControlOK
  <2>2. pc[Handler(d)] # "body" /\ pc[Worker(d)] # "body"
    BY <1>4, <2>1 DEF Phases, Phase, ReadArgsFail
  <2>3. \A c \in Calls \ {d} : rseq'[c] = rseq[c] /\ herr'[c] = herr[c]
    BY <1>0, <1>4, <2>1 DEF ReadArgsFail, TablesOK
  <2> QED
    BY <1>2, <1>4, <2>2, <2>3 DEF ReadArgsFail
<1>5. CASE \/ \E n \in 0 .. ReadAhead : ReadOption(n)
           \/ RefuseOption \/ ReadHeaderFail \/ RecoveredPanic \/ Drain
  <2>1. UNCHANGED <<wbuf, rseq, herr>> /\ pc[Loop] \in {"option", "header", "newReplyv", "drain"}
    BY <1>5 DEF ReadOption, RefuseOption, ReadHeaderFail, RecoveredPanic, Drain
  <2>2. PICK l \in {"header", "drain", "closed"} : pc' = [pc EXCEPT ![Loop] = l]
    BY <1>5 DEF ReadOption, RefuseOption, ReadHeaderFail, RecoveredPanic, Drain
  <2> QED
    BY <1>2, <2>1, <2>2
<1>6. ASSUME NEW d \in Calls, UNCHANGED <<wbuf, rseq>>, cur' = cur \/ pc[Loop] # "body",
             \A t \in Threads \ {Loop, Handler(d), Worker(d)} : pc'[t] = pc[t],
             \A t \in {Loop, Handler(d), Worker(d)} :
                pc[t] \in Writing \/ pc'[t] \in Writing => pc'[t] = pc[t],
             \A c \in Calls \ {d} : herr'[c] = herr[c],
             \/ herr' = herr
             \/ /\ pc[Handler(d)] # "body" /\ pc[Worker(d)] # "body"
                /\ pc[Loop] = "body" => cur # d
      PROVE  /\ wbuf' = wbuf
             /\ \A t \in Threads : pc[t] \in Writing \/ pc'[t] \in Writing => pc'[t] = pc[t]
             /\ \A t \in Threads : pc[t] = "body" => Header(t)' = Header(t)
  <2>1. ASSUME NEW t \in Threads, pc[t] = "body" PROVE Header(t)' = Header(t)
    <3>1. ReqOf(t) \in Calls
      BY <2>1, WriterRequest
    <3>2. ReqOf(t)' = ReqOf(t)
      BY <1>6, <2>1 DEF ReqOf
    <3>3. herr' = herr \/ ReqOf(t) # d
      BY <1>6, <2>1, ThreadFacts, ThreadRequests
    <3>4. herr'[ReqOf(t)] = herr[ReqOf(t)]
      BY <1>6, <3>1, <3>3
    <3> QED
      BY <1>6, <3>2, <3>4 DEF Header
  <2> QED
    BY <1>6, <2>1
<1>7. CASE ReadArgs
  <2>1. PICK d \in Calls : d = cur
    BY <1>0, <1>7 DEF ReadArgs, ControlOK
  <2>2. Phase(d) /\ pc[Loop] = "args"
    BY <1>7 DEF Phases, ReadArgs
  <2>3. pc[Handler(d)] = "none" /\ pc[Worker(d)] = "none"
    BY <2>1, <2>2 DEF Phase
  <2>4. /\ pc'[Loop] = "header" /\ pc'[Handler(d)] = "select" /\ pc'[Worker(d)] = "call"
        /\ \A t \in Threads \ {Loop, Handler(d), Worker(d)} : pc'[t] = pc[t]
    BY <1>0, <1>7, <2>1, ThreadFacts DEF ReadArgs, ControlOK
  <2>5. UNCHANGED <<wbuf, rseq, herr>>
    BY <1>7 DEF ReadArgs
  <2>6. \A t \in {Loop, Handler(d), Worker(d)} :
          pc[t] \in Writing \/ pc'[t] \in Writing => pc'[t] = pc[t]
    BY <2>2, <2>3, <2>4 DEF Writing
  <2> QED
    BY <1>6, <2>2, <2>4, <2>5, <2>6
<1>8. ASSUME NEW d \in Calls,
             (\E e \in Returns : RunMethod(d, e)) \/ Meet(d) \/ Timeout(d)
      PROVE  /\ wbuf' = wbuf
             /\ \A t \in Threads : pc[t] \in Writing \/ pc'[t] \in Writing => pc'[t] = pc[t]
             /\ \A t \in Threads : pc[t] = "body" => Header(t)' = Header(t)
  <2>1. UNCHANGED <<wbuf, rseq, cur>>
    BY <1>8 DEF RunMethod, Meet, Called, Sent, Timeout
  <2>2. \A t \in Threads \ {Handler(d), Worker(d)} : pc'[t] = pc[t]
    BY <1>0, <1>8, ThreadFacts DEF RunMethod, Meet, Called, Sent, Timeout, ControlOK
  <2>3. \A t \in {Handler(d), Worker(d)} :
          pc[t] \in Writing \/ pc'[t] \in Writing => pc'[t] = pc[t]
    BY <1>0, <1>8, ThreadFacts
       DEF RunMethod, Meet, Called, Sent, Timeout, ControlOK, Writing
  <2>4. herr' = herr \/ (pc[Handler(d)] = "select" /\ \E e : herr' = [herr EXCEPT ![d] = e])
    BY <1>8 DEF RunMethod, Meet, Called, Sent, Timeout
  <2>5. \A c \in Calls \ {d} : herr'[c] = herr[c]
    BY <1>0, <2>4 DEF TablesOK
  <2>6. pc[Handler(d)] = "select" =>
          pc[Worker(d)] # "body" /\ (pc[Loop] = "body" => cur # d)
    BY DEF Phases, Phase
  <2>7. pc'[Loop] = pc[Loop]
    BY <2>2, ThreadFacts
  <2>8. \/ herr' = herr
        \/ /\ pc[Handler(d)] # "body" /\ pc[Worker(d)] # "body"
           /\ pc[Loop] = "body" => cur # d
    BY <2>4, <2>6
  <2>9. \A t \in {Loop, Handler(d), Worker(d)} :
          pc[t] \in Writing \/ pc'[t] \in Writing => pc'[t] = pc[t]
    BY <2>3, <2>7
  <2> QED
    BY <1>6, <2>1, <2>2, <2>5, <2>8, <2>9
<1>9. CASE Peer \/ UNCHANGED vars
  BY <1>1, <1>9 DEF Peer, PeerSend, PeerBreak, PeerReceive, PeerClose, vars
<1>10. CASE Program
  BY <1>1, <1>10 DEF Program, Panic, Register
<1> QED
  BY <1>3, <1>4, <1>5, <1>7, <1>8, <1>9, <1>10 DEF Next, ServerStep, ConnStep, ReplyPanic

\* One goroutine at a time is in sendResponse, and it finds the buffer empty.
LEMMA WriterStep == TypeOK /\ Phases /\ Requests /\ Writer /\ [Next]_vars => Writer'
<1> SUFFICES ASSUME TypeOK, ControlOK, Phases, Requests, Writer, [Next]_vars PROVE Writer'
  BY TypeParts
<1>1. CASE Die
  <2>1. wbuf' = << >> /\ \A t \in Threads : pc'[t] = "dead"
    BY <1>1 DEF Die
  <2> QED
    BY <2>1 DEF Writer, Writing
<1>2. ASSUME NEW t \in Threads, SendResponse(t) PROVE Writer'
  <2>1. \A u \in Threads \ {t} : pc'[u] = pc[u]
    BY <1>2, SendEffect DEF Return, ControlOK
  <2>2. CASE pc[t] = "lock" /\ SendFree /\ pc' = [pc EXCEPT ![t] = "head"] /\ UNCHANGED wbuf
    <3>1. /\ \A u \in Threads : pc[u] \notin Writing
          /\ \A u \in Threads \ {t} : pc'[u] \notin Writing
          /\ pc'[t] = "head"
      BY <2>1, <2>2 DEF SendFree, Writing, ControlOK
    <3>2. wbuf' = << >>
      BY <2>2, <3>1 DEF Writer, Writing
    <3> QED
      BY <3>1, <3>2 DEF Writer, Writing
  <2>3. CASE pc[t] \in Writing
    <3>1. /\ \A u \in Threads \ {t} : pc[u] \notin Writing
          /\ \A u \in Threads \ {t} : pc'[u] \notin Writing
      BY <2>1, <2>3 DEF Writer
    <3>2. pc[t] = "head" => wbuf = << >>
      BY <2>3, <3>1 DEF Writer, Writing
    <3>3. CASE /\ pc[t] = "head" /\ pc' = [pc EXCEPT ![t] = "body"]
               /\ wbuf' = Append(wbuf, Header(t)) /\ cur' = cur
      <4>1. wbuf' = <<Header(t)>> /\ pc'[t] = "body"
        BY <3>2, <3>3 DEF ControlOK
      <4>2. Header(t)' = Header(t)
        BY <1>2, <3>3, SendEffect DEF Header, ReqOf
      <4> QED
        BY <3>1, <4>1, <4>2 DEF Writer, Writing
    <3>4. CASE Return(t) /\ ((UNCHANGED wbuf /\ pc[t] = "head") \/ wbuf' = << >>)
      <4>1. pc'[t] \notin Writing
        <5>1. AfterResponse(t) \notin Writing
          BY ThreadFacts, ThreadRequests DEF Writing
        <5> QED
          BY <3>4, <5>1 DEF Return, ControlOK
      <4>2. wbuf' = << >>
        BY <3>2, <3>4
      <4> QED
        BY <3>1, <4>1, <4>2 DEF Writer, Writing
    <3> QED
      BY <1>2, <2>3, <3>3, <3>4, SendEffect DEF Writing
  <2> QED
    BY <1>2, <2>2, <2>3, SendEffect DEF Writing
<1>3. CASE ~Die /\ \A t \in Threads : ~SendResponse(t)
  <2>1. /\ wbuf' = wbuf
        /\ \A t \in Threads : pc[t] \in Writing \/ pc'[t] \in Writing => pc'[t] = pc[t]
        /\ \A t \in Threads : pc[t] = "body" => Header(t)' = Header(t)
    BY <1>3, WriterFrame
  <2>2. \A s, t \in Threads : pc'[s] \in Writing /\ pc'[t] \in Writing => s = t
    BY <2>1 DEF Writer
  <2>3. (\A t \in Threads : pc'[t] # "body") => wbuf' = << >>
    BY <2>1 DEF Writer, Writing
  <2>4. ASSUME NEW t \in Threads, pc'[t] = "body" PROVE (wbuf = <<Header(t)>>)'
    <3>1. pc[t] = "body" /\ Header(t)' = Header(t)
      BY <2>1, <2>4 DEF Writing
    <3>2. wbuf = <<Header(t)>>
      BY <3>1 DEF Writer
    <3> QED
      BY <2>1, <3>1, <3>2
  <2> QED
    BY <2>2, <2>3, <2>4 DEF Writer
<1> QED
  BY <1>1, <1>2, <1>3

\* Appending to a sequence of one value.
LEMMA AppendToOne == ASSUME NEW a, NEW b PROVE Append(<<a>>, b) = <<a, b>>
<1> DEFINE s == Append(<<a>>, b)
           t == <<a, b>>
<1>1. <<a>> \in Seq({a, b}) /\ b \in {a, b} /\ t \in Seq({a, b})
  OBVIOUS
<1>2. s \in Seq({a, b}) /\ Len(s) = 2 /\ s[1] = a /\ s[2] = b
  BY <1>1, AppendProperties
<1>3. Len(t) = 2 /\ t[1] = a /\ t[2] = b
  OBVIOUS
<1> HIDE DEF s, t
<1>4. Len(s) = Len(t) /\ \A i \in 1 .. Len(s) : s[i] = t[i]
  BY <1>2, <1>3
<1>5. s = t
  BY <1>1, <1>2, <1>4, SeqEqual
<1> QED
  BY <1>5 DEF s, t

\* What WriteBody sends: the buffered header, alone when gob refuses the reply, or
\* with its body; and whose response it is.
LEMMA BodyEffect ==
    ASSUME TypeOK, Writer, NEW t \in Threads, WriteBody(t)
    PROVE  \E c \in Calls, n \in Nat :
             /\ c = ReqOf(t) /\ n = rseq[c] /\ sOpen' \in {sOpen, FALSE}
             /\ \/ s2c' = s2c
                \/ /\ s2c' = s2c \o <<Frame(n, c, herr[c])[1]>>
                   /\ Up /\ sOpen' = FALSE /\ ~herr[c]
                \/ s2c' = s2c \o Frame(n, c, herr[c]) /\ Up /\ sOpen' = sOpen
<1>1. PICK c \in Calls : c = ReqOf(t)
  BY WriterRequest DEF WriteBody
<1>2. PICK n \in Nat : n = rseq[c]
  BY DEF TypeOK
<1>3. wbuf = <<Frame(n, c, herr[c])[1]>>
  BY <1>1, <1>2 DEF Writer, WriteBody, Header
<1>4. Append(wbuf, Frame(n, c, herr[c])[2]) = Frame(n, c, herr[c])
  <2>1. Frame(n, c, herr[c]) = <<Frame(n, c, herr[c])[1], Frame(n, c, herr[c])[2]>>
    BY DEF Frame
  <2> QED
    BY <1>3, <2>1, AppendToOne
<1>5. \/ Flush(wbuf) /\ sOpen' = FALSE /\ ~herr[c]
      \/ Flush(Append(wbuf, Frame(n, c, herr[c])[2])) /\ sOpen' = sOpen
  BY <1>1, <1>2 DEF WriteBody
<1>6. CASE Flush(wbuf) /\ sOpen' = FALSE /\ ~herr[c]
  BY <1>1, <1>2, <1>3, <1>6 DEF Flush
<1>7. CASE Flush(Frame(n, c, herr[c])) /\ sOpen' = sOpen
  BY <1>1, <1>2, <1>7 DEF Flush
<1> QED
  BY <1>4, <1>5, <1>6, <1>7

\* A step that adds nothing to the responses ends no frame early, and the server's
\* end of the connection is never opened again.
LEMMA ResponsesFrame ==
    ASSUME TypeOK, [Next]_vars, \A t \in Threads : ~WriteBody(t)
    PROVE  (s2c' = s2c \/ (s2c # << >> /\ s2c' = Tail(s2c))) /\ (sOpen' => sOpen)
<1> USE DEF reqVars, bufVars, wireVars
<1>1. CASE Program
  BY <1>1 DEF Program, Panic, Register, Die
<1>2. CASE ConnStep
  BY <1>2 DEF ConnStep, ReadOption, RefuseOption, ReadHeader, ReadHeaderFail, ReplyPanic,
              RecoveredPanic, ReadArgs, ReadArgsFail, Drain, Die
<1>3. ASSUME NEW t \in Threads, SendResponse(t) PROVE s2c' = s2c /\ (sOpen' => sOpen)
  BY <1>3 DEF SendResponse, LockSend, WriteHead
<1>4. ASSUME NEW c \in Calls,
             (\E e \in Returns : RunMethod(c, e)) \/ Meet(c) \/ Timeout(c)
      PROVE  s2c' = s2c /\ (sOpen' => sOpen)
  BY <1>4 DEF RunMethod, Meet, Called, Sent, Timeout
<1>5. CASE PeerReceive
  BY <1>5 DEF PeerReceive
<1>6. CASE Peer \/ UNCHANGED vars
  <2>1. PeerReceive \/ UNCHANGED <<s2c, sOpen>>
    BY <1>6 DEF Peer, PeerSend, PeerBreak, PeerClose, vars
  <2> QED
    BY <1>5, <2>1
<1> QED
  BY <1>1, <1>2, <1>3, <1>4, <1>6 DEF Next, ServerStep

\* The positions after one or two values more.
LEMMA LastTwo ==
    ASSUME NEW l \in Nat, NEW k \in {1, 2}, NEW i \in 1 .. l + k
    PROVE  i \in 1 .. l \/ i = l + 1 \/ i = l + 2
OBVIOUS

\* Appending a whole response, or a last header, keeps the responses framed.
LEMMA FramingAppend ==
    ASSUME StreamsOK, ResponseFraming, sOpen, NEW f \in Seq(Item),
           s2c' = s2c \o f,
           \/ Len(f) = 1 /\ f[1].k = "head" /\ sOpen' = FALSE
           \/ Len(f) = 2 /\ f[1].k = "head" /\ f[2] = [f[1] EXCEPT !.k = "body"]
              /\ f[2].k = "body"
    PROVE  ResponseFraming'
<1> DEFINE L == Len(s2c)
<1>1. /\ L \in Nat /\ Len(f) \in {1, 2} /\ Len(s2c') = L + Len(f)
      /\ \A i \in 1 .. L + Len(f) : s2c'[i] = IF i <= L THEN s2c[i] ELSE f[i - L]
  BY LenProperties, ConcatProperties DEF StreamsOK
<1>2. \A i \in 1 .. L : s2c'[i] = s2c[i]
  BY <1>1
<1>3. s2c'[L + 1] = f[1] /\ (Len(f) = 2 => s2c'[L + 2] = f[2])
  <2>1. L + 1 \in 1 .. L + Len(f) /\ ~(L + 1 <= L) /\ (L + 1) - L = 1
    BY <1>1
  <2>2. Len(f) = 2 => L + 2 \in 1 .. L + Len(f) /\ ~(L + 2 <= L) /\ (L + 2) - L = 2
    BY <1>1
  <2> QED
    BY <1>1, <2>1, <2>2
<1>4. ASSUME NEW i \in 1 .. Len(s2c'), s2c'[i].k = "head"
      PROVE  \/ i < Len(s2c') /\ s2c'[i + 1] = [s2c'[i] EXCEPT !.k = "body"]
             \/ i = Len(s2c') /\ ~sOpen'
  <2>1. CASE i \in 1 .. L
    <3>1. i < L /\ s2c[i + 1] = [s2c[i] EXCEPT !.k = "body"]
      BY <1>2, <1>4, <2>1 DEF ResponseFraming
    <3>2. i + 1 \in 1 .. L /\ i < Len(s2c')
      BY <1>1, <2>1, <3>1
    <3> QED
      BY <1>2, <2>1, <3>1, <3>2
  <2>2. CASE i = L + 1
    <3>1. CASE Len(f) = 1
      BY <1>1, <2>2, <3>1
    <3>2. CASE Len(f) = 2
      <4>1. i < Len(s2c') /\ i + 1 = L + 2
        BY <1>1, <2>2, <3>2
      <4>2. f[2] = [f[1] EXCEPT !.k = "body"]
        BY <3>2
      <4>3. s2c'[i + 1] = f[2] /\ s2c'[i] = f[1]
        BY <1>3, <2>2, <3>2, <4>1
      <4> QED
        BY <4>1, <4>2, <4>3
    <3> QED
      BY <1>1, <3>1, <3>2
  <2>3. CASE i = L + 2
    <3>1. Len(f) = 2
      BY <1>1, <2>3
    <3>2. f[2].k = "body" /\ s2c'[i] = f[2]
      BY <1>3, <2>3, <3>1
    <3> QED
      BY <1>4, <3>2
  <2>4. i \in 1 .. L \/ i = L + 1 \/ i = L + 2
    <3>1. i \in 1 .. L + Len(f)
      BY <1>1
    <3> QED
      BY <1>1, <3>1, LastTwo
  <2> QED
    BY <2>1, <2>2, <2>3, <2>4, Zenon
<1>5. ASSUME NEW i \in 2 .. Len(s2c'), s2c'[i].k = "body" PROVE s2c'[i - 1].k = "head"
  <2>1. CASE i \in 2 .. L
    <3>1. s2c[i].k = "body" /\ s2c[i - 1].k = "head"
      BY <1>2, <1>5, <2>1 DEF ResponseFraming
    <3>2. i - 1 \in 1 .. L
      BY <1>1, <2>1
    <3> QED
      BY <1>2, <3>1, <3>2
  <2>2. CASE i = L + 1
    BY <1>3, <1>5, <2>2
  <2>3. CASE i = L + 2
    <3>1. i - 1 = L + 1 /\ f[1].k = "head"
      BY <1>1, <2>3
    <3> QED
      BY <1>3, <3>1
  <2>4. i \in 2 .. L \/ i = L + 1 \/ i = L + 2
    <3>1. i \in 1 .. L + Len(f) /\ 2 <= i
      BY <1>1
    <3>2. i \in 1 .. L \/ i = L + 1 \/ i = L + 2
      BY <1>1, <3>1, LastTwo
    <3>3. i \in 1 .. L => i \in 2 .. L
      BY <1>1, <3>1
    <3> QED
      BY <3>2, <3>3
  <2> QED
    BY <2>1, <2>2, <2>3, <2>4, Zenon
<1> QED
  BY <1>4, <1>5 DEF ResponseFraming

\* Responses reach the peer in whole frames.
LEMMA FramingStep == TypeOK /\ Writer /\ ResponseFraming /\ [Next]_vars => ResponseFraming'
<1> SUFFICES ASSUME TypeOK, StreamsOK, TablesOK, Writer, ResponseFraming, [Next]_vars
             PROVE  ResponseFraming'
  BY TypeParts
<1>1. CASE s2c' = s2c /\ (sOpen' => sOpen)
  BY <1>1 DEF ResponseFraming
<1>2. CASE s2c # << >> /\ s2c' = Tail(s2c) /\ (sOpen' => sOpen)
  <2>1. /\ Len(s2c) \in Nat /\ Len(s2c') \in Nat /\ Len(s2c') = Len(s2c) - 1
        /\ \A i \in 1 .. Len(s2c') : s2c'[i] = s2c[i + 1]
    BY <1>2, HeadTailProperties, LenProperties DEF StreamsOK
  <2>2. ASSUME NEW i \in 1 .. Len(s2c'), s2c'[i].k = "head"
        PROVE  \/ i < Len(s2c') /\ s2c'[i + 1] = [s2c'[i] EXCEPT !.k = "body"]
               \/ i = Len(s2c') /\ ~sOpen'
    <3>1. i + 1 \in 1 .. Len(s2c) /\ s2c'[i] = s2c[i + 1]
      BY <2>1
    <3>2. CASE i + 1 < Len(s2c) /\ s2c[i + 1 + 1] = [s2c[i + 1] EXCEPT !.k = "body"]
      <4>1. i + 1 \in 1 .. Len(s2c') /\ i < Len(s2c')
        BY <2>1, <3>2
      <4> QED
        BY <2>1, <3>1, <3>2, <4>1
    <3>3. CASE i + 1 = Len(s2c) /\ ~sOpen
      BY <1>2, <2>1, <3>3
    <3> QED
      BY <2>2, <3>1, <3>2, <3>3 DEF ResponseFraming
  <2>3. ASSUME NEW i \in 2 .. Len(s2c'), s2c'[i].k = "body" PROVE s2c'[i - 1].k = "head"
    <3>1. /\ i \in 1 .. Len(s2c') /\ i - 1 \in 1 .. Len(s2c')
          /\ i + 1 \in 2 .. Len(s2c) /\ i + 1 - 1 = i /\ i - 1 + 1 = i
      BY <2>1
    <3>2. s2c[i + 1].k = "body" /\ s2c'[i - 1] = s2c[i]
      BY <2>1, <2>3, <3>1
    <3> QED
      BY <3>1, <3>2 DEF ResponseFraming
  <2> QED
    BY <2>2, <2>3 DEF ResponseFraming
<1>3. ASSUME NEW t \in Threads, WriteBody(t) PROVE ResponseFraming'
  <2>1. PICK c \in Calls, n \in Nat :
          \/ s2c' = s2c /\ (sOpen' => sOpen)
          \/ s2c' = s2c \o <<Frame(n, c, herr[c])[1]>> /\ sOpen /\ sOpen' = FALSE
          \/ s2c' = s2c \o Frame(n, c, herr[c]) /\ sOpen
    <3>1. PICK c \in Calls, n \in Nat :
            /\ c = ReqOf(t) /\ n = rseq[c] /\ sOpen' \in {sOpen, FALSE}
            /\ \/ s2c' = s2c
               \/ /\ s2c' = s2c \o <<Frame(n, c, herr[c])[1]>>
                  /\ Up /\ sOpen' = FALSE /\ ~herr[c]
               \/ s2c' = s2c \o Frame(n, c, herr[c]) /\ Up /\ sOpen' = sOpen
      BY <1>3, BodyEffect
    <3>2. sOpen' = sOpen \/ sOpen' = FALSE
      BY <3>1
    <3>3. (sOpen' => sOpen) /\ (Up => sOpen)
      BY <3>2, TypeParts DEF FlagsOK, Up
    <3> QED
      BY <3>1, <3>3, Zenon
  <2>2. PICK f \in Seq(Item) : f = Frame(n, c, herr[c])
    BY FrameType DEF TablesOK
  <2>3. /\ Len(f) = 2 /\ f[1] \in Item /\ f[1].k = "head" /\ f[2].k = "body"
        /\ f[2] = [f[1] EXCEPT !.k = "body"]
    <3>1. herr[c] \in BOOLEAN
      BY DEF TablesOK
    <3>2. /\ Len(f) = 2 /\ f[1] \in Item /\ f[1].k = "head" /\ f[2].k = "body"
      BY <2>2, <3>1, FrameType, FrameParts
    <3>3. f[2] = [f[1] EXCEPT !.k = "body"]
      BY <2>2, <3>1, FrameBody
    <3> QED
      BY <3>2, <3>3
  <2>4. CASE s2c' = s2c \o <<f[1]>> /\ sOpen /\ sOpen' = FALSE
    <3>1. <<f[1]>> \in Seq(Item) /\ Len(<<f[1]>>) = 1 /\ <<f[1]>>[1] = f[1]
      BY <2>3
    <3> QED
      BY <2>3, <2>4, <3>1, FramingAppend
  <2>5. CASE s2c' = s2c \o f /\ sOpen
    BY <2>3, <2>5, FramingAppend
  <2> QED
    BY <1>1, <2>1, <2>2, <2>4, <2>5
<1> QED
  BY <1>1, <1>2, <1>3, ResponsesFrame

-----------------------------------------------------------------------------
(* What is run and what is answered.                                       *)

\* Register stores what newService makes of an exported receiver.
LEMMA RegisteredStep == Registered /\ [Next]_vars => Registered'
<1> SUFFICES ASSUME Registered, [Next]_vars PROVE Registered'
  OBVIOUS
<1>1. CASE UNCHANGED serviceMap
  BY <1>1 DEF Registered
<1>2. ASSUME NEW r \in Receivers, Register(r) PROVE Registered'
  <2>1. CASE r.exported /\ serviceMap' = Stored(newService(r))
    <3>1. newService(r).name = r.name
      BY DEF newService
    <3>2. DOMAIN serviceMap' = DOMAIN serviceMap \cup {r.name}
      BY <2>1, <3>1 DEF Stored
    <3>3. \A n \in DOMAIN serviceMap' :
            serviceMap'[n] = IF n \in DOMAIN serviceMap THEN serviceMap[n] ELSE newService(r)
      BY <2>1, <3>1 DEF Stored
    <3> QED
      BY <2>1, <3>2, <3>3 DEF Registered
  <2> QED
    BY <1>1, <1>2, <2>1 DEF Register
<1> QED
  BY <1>1, <1>2
     DEF vars, Next, ServerStep, Peer, Program, ConnStep, SendResponse, Meet, Panic,
         ReadOption, RefuseOption, ReadHeader, ReadHeaderFail, ReplyPanic, RecoveredPanic,
         ReadArgs, ReadArgsFail, Drain, LockSend, WriteHead, WriteBody, RunMethod, Called,
         Sent, Timeout, PeerSend, PeerBreak, PeerReceive, PeerClose

\* What findService finds: a name of two parts, the service's and the method's.
LEMMA FoundParts ==
    ASSUME NEW c \in Calls, Found(serviceMap, MethodOf[c])
    PROVE  /\ Len(MethodOf[c]) = 2 /\ MethodOf[c] \in Seq(STRING)
           /\ MethodOf[c][1] \in DOMAIN serviceMap
           /\ MethodOf[c][2] \in DOMAIN serviceMap[MethodOf[c][1]].method
<1>1. PICK sm \in Seq(STRING) : sm = MethodOf[c]
  BY ServerAssumption
<1>2. PICK n \in DOMAIN serviceMap : /\ SubSeq(sm, 1, Len(sm) - 1) = <<n>>
                                     /\ sm[Len(sm)] \in DOMAIN serviceMap[n].method
  BY <1>1 DEF Found, ServiceName
<1>3. Len(sm) \in Nat /\ Len(sm) > 1
  BY <1>1, LenProperties DEF Found
<1>4. \A i \in 1 .. Len(sm) - 1 : sm[i] \in STRING
  <2>1. \A i \in 1 .. Len(sm) : sm[i] \in STRING
    BY ElementOfSeq
  <2> QED
    BY <1>3, <2>1
<1>5. /\ Len(SubSeq(sm, 1, Len(sm) - 1)) = Len(sm) - 1
      /\ SubSeq(sm, 1, Len(sm) - 1)[1] = sm[1]
  <2>1. 1 \in Int /\ Len(sm) - 1 \in Int /\ 1 <= Len(sm) - 1
    BY <1>3
  <2>2. /\ Len(SubSeq(sm, 1, Len(sm) - 1)) =
             IF 1 <= Len(sm) - 1 THEN (Len(sm) - 1) - 1 + 1 ELSE 0
        /\ \A i \in 1 .. (Len(sm) - 1) - 1 + 1 :
             SubSeq(sm, 1, Len(sm) - 1)[i] = sm[1 + i - 1]
    BY <1>4, <2>1, SubSeqProperties
  <2> QED
    BY <1>3, <2>1, <2>2
<1>6. Len(<<n>>) = 1 /\ <<n>>[1] = n
  OBVIOUS
<1>7. Len(sm) - 1 = 1 /\ sm[1] = n
  BY <1>2, <1>5, <1>6, Zenon
<1>8. Len(sm) = 2
  BY <1>3, <1>7
<1> QED
  BY <1>1, <1>2, <1>7, <1>8

\* Register takes no service away: what is offered stays so, and what is callable.
LEMMA OfferedStep ==
    ASSUME [Next]_vars, NEW c \in Calls
    PROVE  /\ Offered(c) => Offered(c)'
           /\ IsCallable(c) => IsCallable(c)'
<1> SUFFICES ASSUME Offered(c) PROVE Offered(c)' /\ (IsCallable(c) => IsCallable(c)')
  BY DEF IsCallable
<1>1. CASE UNCHANGED serviceMap
  BY <1>1 DEF Offered, IsCallable
<1>2. ASSUME NEW r \in Receivers, serviceMap' = Stored(newService(r))
      PROVE  /\ Found(serviceMap, MethodOf[c])'
             /\ MType(serviceMap, MethodOf[c])' = MType(serviceMap, MethodOf[c])
  <2>1. \A n \in DOMAIN serviceMap : n \in DOMAIN serviceMap' /\ serviceMap'[n] = serviceMap[n]
    BY <1>2 DEF Stored
  <2>2. MethodOf[c][1] \in DOMAIN serviceMap
    BY FoundParts DEF Offered
  <2> QED
    BY <2>1, <2>2 DEF Offered, Found, MType
<1>3. ASSUME NEW r \in Receivers, Register(r)
      PROVE  Offered(c)' /\ (IsCallable(c) => IsCallable(c)')
  <2>1. CASE serviceMap' = Stored(newService(r))
    BY <1>2, <2>1 DEF Offered, IsCallable
  <2> QED
    BY <1>1, <1>3, <2>1 DEF Register
<1> QED
  BY <1>1, <1>3
     DEF vars, Next, ServerStep, Peer, Program, ConnStep, SendResponse, Meet, Panic,
         ReadOption, RefuseOption, ReadHeader, ReadHeaderFail, ReplyPanic, RecoveredPanic,
         ReadArgs, ReadArgsFail, Drain, LockSend, WriteHead, WriteBody, RunMethod, Called,
         Sent, Timeout, PeerSend, PeerBreak, PeerReceive, PeerClose

\* What newReplyv and the call accept is a method that a stored receiver offers.
LEMMA IsCallableMeans ==
    ASSUME Registered, NEW c \in Calls, IsCallable(c)
    PROVE  \E r \in Receivers : Callable(MethodOf[c], r)
<1>1. PICK sm \in Seq(STRING) : sm = MethodOf[c]
  BY ServerAssumption
<1>2. PICK n \in DOMAIN serviceMap :
        n = sm[1] /\ Len(sm) = 2 /\ sm[2] \in DOMAIN serviceMap[n].method
  BY <1>1, FoundParts DEF IsCallable, Offered
<1>3. PICK r \in Receivers : r.exported /\ r.name = n /\ serviceMap[n] = newService(r)
  BY DEF Registered
<1> DEFINE m == sm[Len(sm)]
           sig == r.methods[m]
<1>4. m = sm[2]
  BY <1>2
<1>5. m \in DOMAIN r.methods /\ Suitable(sig)
  BY <1>2, <1>3, <1>4 DEF newService
<1>6. sig.out \in Seq(Kinds) /\ sig.in \in Seq(Kinds)
  BY <1>5, ServerAssumption
<1>7. Len(sig.in) = 3 /\ sig.in[2] # "unexported" /\ sig.in[3] # "unexported"
  BY <1>5 DEF Suitable, isExportedOrBuiltinType
<1>8. sig.in[3] = "pointer"
  <2>1. MType(serviceMap, sm) = newService(r).method[m]
    BY <1>2, <1>3 DEF MType
  <2>2. newService(r).method[m].reply = sig.in[3]
    BY <1>5 DEF newService
  <2>3. MType(serviceMap, sm).reply = sig.in[3]
    BY <2>1, <2>2
  <2> HIDE DEF sig
  <2> QED
    BY <1>1, <2>3 DEF IsCallable, Offered, ReplyPanics, CallPanics
<1>9. sig.out = <<"error">>
  <2>1. sig.out \in Seq(Kinds) /\ Len(sig.out) = 1 /\ sig.out[1] = "error"
    BY <1>5, <1>6 DEF Suitable
  <2>2. <<"error">> \in Seq(Kinds) /\ Len(<<"error">>) = 1 /\ <<"error">>[1] = "error"
    BY DEF Kinds
  <2> HIDE DEF sig
  <2>3. \A i \in 1 .. Len(sig.out) : sig.out[i] = <<"error">>[i]
    BY <2>1, <2>2
  <2> QED
    BY <2>1, <2>2, <2>3, SeqEqual
<1>10. sm = <<r.name, m>>
  <2>0. \A i \in 1 .. Len(sm) : sm[i] \in STRING
    BY ElementOfSeq
  <2> HIDE DEF m
  <2>1. n = sm[1] /\ sm[1] \in STRING /\ m = sm[2] /\ sm[2] \in STRING
    BY <1>2, <1>4, <2>0
  <2>2. <<n, m>> \in Seq(STRING) /\ Len(<<n, m>>) = 2 /\ <<n, m>>[1] = n /\ <<n, m>>[2] = m
    BY <2>1
  <2>3. \A i \in 1 .. Len(sm) : sm[i] = <<n, m>>[i]
    BY <1>2, <2>1, <2>2
  <2> QED
    BY <1>2, <1>3, <2>2, <2>3, SeqEqual
<1>11. Callable(sm, r)
  BY <1>3, <1>7, <1>8, <1>9, <1>10 DEF Callable
<1> QED
  BY <1>1, <1>11

\* A step that does not touch a request leaves its outcome alone.
LEMMA OutcomeFrame ==
    ASSUME [Next]_vars, NEW c \in Calls, Outcome(c), cur' # c,
           pc'[Handler(c)] = pc[Handler(c)], pc'[Worker(c)] = pc[Worker(c)],
           herr'[c] = herr[c], werr'[c] = werr[c], executed'[c] = executed[c]
    PROVE  Outcome(c)'
BY OfferedStep DEF Outcome

\* The loop and the handler answer with errors, the worker with the outcome of the
\* one run of its method.
LEMMA OutcomesStep ==
    TypeOK /\ Phases /\ Requests /\ Registered /\ Outcomes /\ [Next]_vars => Outcomes'
<1> SUFFICES ASSUME TypeOK, ControlOK, StreamsOK, TablesOK, Phases, Requests, Registered,
                    Outcomes, [Next]_vars
             PROVE  Outcomes'
  BY TypeParts
<1> USE DEF reqVars, bufVars, wireVars
<1>0. \A c \in Calls : /\ Offered(c) => Offered(c)'
                       /\ IsCallable(c) => IsCallable(c)'
  BY OfferedStep
<1>1. CASE UNCHANGED <<pc, cur, herr, werr, executed>>
  BY <1>0, <1>1 DEF Outcomes, Outcome
<1>2. CASE Die
  <2>1. cur' = NoCall /\ \A t \in Threads : pc'[t] = "dead"
    BY <1>2 DEF Die
  <2>2. \A c \in Calls : cur' # c /\ pc'[Handler(c)] = "dead" /\ pc'[Worker(c)] = "dead"
    BY <2>1, ThreadFacts, ServerAssumption
  <2> QED
    BY <2>2 DEF Outcomes, Outcome
<1>3. CASE Program
  BY <1>1, <1>2, <1>3 DEF Program, Panic, Register
<1>4. CASE ReadHeader
  <2>1. PICK d : d = Head(c2s).call
    OBVIOUS
  <2>2. d \in Calls /\ Waiting(d) /\ pc[Loop] = "header"
    <3>1. c2s \in Seq(Item) /\ c2s # << >> /\ Head(c2s).k = "head"
      BY <1>4 DEF ReadHeader, StreamsOK
    <3>2. Head(c2s) \in Item /\ Head(c2s) = c2s[1] /\ 1 \in 1 .. Len(c2s)
      BY <3>1, HeadTailProperties, EmptySeq
    <3> QED
      BY <1>4, <2>1, <3>1, <3>2 DEF ReadHeader, Requests, InFlight, Item
  <2>3. pc[Handler(d)] = "none" /\ pc[Worker(d)] = "none"
    BY <2>2 DEF Phases, Phase, Waiting
  <2>4. /\ cur' = d /\ UNCHANGED <<werr, executed>>
        /\ \A t \in Threads \ {Loop} : pc'[t] = pc[t]
        /\ \A c \in Calls \ {d} : herr'[c] = herr[c]
    BY <1>4, <2>1, ThreadFacts DEF ReadHeader, ControlOK, TablesOK
  <2>5. \A c \in Calls : pc'[Handler(c)] = pc[Handler(c)] /\ pc'[Worker(c)] = pc[Worker(c)]
    BY <2>4, ThreadFacts
  <2>6. \/ pc'[Loop] = "args" /\ Offered(d)'
        \/ pc'[Loop] = "newReplyv"
        \/ pc'[Loop] = "lock" /\ herr'[d]
    <3>1. CASE Found(serviceMap, MethodOf[d])
      <4>1. \/ ~ReplyPanics(MType(serviceMap, MethodOf[d])) /\ pc'[Loop] = "args"
            \/ pc'[Loop] = "newReplyv"
        BY <1>4, <2>1, <3>1, ThreadFacts DEF ReadHeader, ControlOK
      <4> QED
        BY <1>0, <2>2, <3>1, <4>1 DEF Offered
    <3>2. CASE ~Found(serviceMap, MethodOf[d])
      BY <1>4, <2>1, <2>2, <3>2, ThreadFacts DEF ReadHeader, ControlOK, TablesOK
    <3> QED
      BY <3>1, <3>2
  <2>7. Outcome(d)'
    <3>1. executed'[d] = 0 /\ pc'[Handler(d)] = "none" /\ pc'[Worker(d)] = "none"
      BY <2>2, <2>3, <2>4, <2>5 DEF Outcomes, Outcome
    <3> QED
      BY <2>6, <3>1 DEF Outcome
  <2>8. ASSUME NEW c \in Calls \ {d} PROVE Outcome(c)'
    BY <2>4, <2>5, OutcomeFrame DEF Outcomes
  <2> QED
    BY <2>7, <2>8 DEF Outcomes
<1>5. CASE ReadArgs \/ ReadArgsFail
  <2>1. PICK d \in Calls : d = cur
    BY <1>5 DEF ReadArgs, ReadArgsFail, ControlOK
  <2>2. /\ pc[Loop] = "args" /\ UNCHANGED <<werr, executed>> /\ cur' \in {cur, NoCall}
        /\ \A t \in Threads \ {Loop, Handler(d), Worker(d)} : pc'[t] = pc[t]
        /\ \A c \in Calls \ {d} : herr'[c] = herr[c]
        /\ \/ /\ pc'[Loop] = "lock" /\ herr'[d] = TRUE
              /\ pc'[Handler(d)] = pc[Handler(d)] /\ pc'[Worker(d)] = pc[Worker(d)]
           \/ /\ cur' = NoCall /\ pc'[Handler(d)] = "select" /\ pc'[Worker(d)] = "call"
    <3>1. CASE ReadArgs
      BY <2>1, <3>1, ThreadFacts DEF ReadArgs, ControlOK
    <3>2. CASE ReadArgsFail
      BY <2>1, <3>2, ThreadFacts DEF ReadArgsFail, ControlOK, TablesOK
    <3> QED
      BY <1>5, <3>1, <3>2
  <2>3. pc[Handler(d)] = "none" /\ pc[Worker(d)] = "none" /\ d # NoCall
    BY <2>1, <2>2, ServerAssumption DEF Phases, Phase
  <2>4. Offered(d)' /\ executed[d] = 0
    BY <1>0, <2>1, <2>2, <2>3 DEF Outcomes, Outcome
  <2>5. Outcome(d)'
    BY <2>2, <2>3, <2>4 DEF Outcome
  <2>6. ASSUME NEW c \in Calls \ {d} PROVE Outcome(c)'
    <3>1. pc'[Handler(c)] = pc[Handler(c)] /\ pc'[Worker(c)] = pc[Worker(c)] /\ cur' # c
      BY <2>1, <2>2, ThreadFacts, ServerAssumption
    <3> QED
      BY <2>2, <3>1, OutcomeFrame DEF Outcomes
  <2> QED
    BY <2>5, <2>6 DEF Outcomes
<1>6. CASE \/ \E n \in 0 .. ReadAhead : ReadOption(n)
           \/ RefuseOption \/ ReadHeaderFail \/ RecoveredPanic \/ Drain
  <2>1. /\ \/ cur' = NoCall
           \/ pc[Loop] \notin {"newReplyv", "args", "lock", "head", "body"} /\ cur' = cur
        /\ UNCHANGED <<herr, werr, executed>>
        /\ \A t \in Threads \ {Loop} : pc'[t] = pc[t]
    BY <1>6, ThreadFacts
       DEF ReadOption, RefuseOption, ReadHeaderFail, RecoveredPanic, Drain, ControlOK
  <2>2. cur' = NoCall
    BY <2>1 DEF ControlOK
  <2>3. ASSUME NEW c \in Calls PROVE Outcome(c)'
    <3>1. pc'[Handler(c)] = pc[Handler(c)] /\ pc'[Worker(c)] = pc[Worker(c)] /\ cur' # c
      BY <2>1, <2>2, ThreadFacts, ServerAssumption
    <3> QED
      BY <2>1, <3>1, OutcomeFrame DEF Outcomes
  <2> QED
    BY <2>3 DEF Outcomes
<1>7. ASSUME NEW t \in Threads, SendResponse(t) PROVE Outcomes'
  <2>1. /\ UNCHANGED <<herr, werr, executed>>
        /\ \A u \in Threads \ {t} : pc'[u] = pc[u]
        /\ pc[t] \in {"lock", "head", "body"}
        /\ \/ pc'[t] \in Writing /\ cur' = cur
           \/ pc'[t] = AfterResponse(t) /\ cur' = IF t = Loop THEN NoCall ELSE cur
    BY <1>7, SendEffect DEF Return, ControlOK, Writing
  <2>2. ASSUME NEW c \in Calls PROVE Outcome(c)'
    <3>1. Outcome(c) /\ Phase(c) /\ c # NoCall
      BY ServerAssumption DEF Outcomes, Phases
    <3>2. CASE t = Loop
      <4>1. pc'[Handler(c)] = pc[Handler(c)] /\ pc'[Worker(c)] = pc[Worker(c)]
        BY <2>1, <3>2, ThreadFacts
      <4>2. CASE cur' = c
        BY <1>0, <2>1, <3>1, <3>2, <4>1, <4>2 DEF Outcome, Writing
      <4>3. CASE cur' # c
        BY <2>1, <3>1, <4>1, <4>3, OutcomeFrame
      <4> QED
        BY <4>2, <4>3
    <3>3. CASE t = Handler(c)
      <4>1. /\ pc'[Loop] = pc[Loop] /\ pc'[Worker(c)] = pc[Worker(c)] /\ cur' = cur
            /\ pc'[Handler(c)] \in {"head", "body", "returned"}
        BY <2>1, <3>3, ThreadFacts, ThreadRequests DEF Writing
      <4> QED
        BY <1>0, <2>1, <3>1, <3>3, <4>1 DEF Outcome
    <3>4. CASE t = Worker(c)
      <4>1. /\ pc'[Loop] = pc[Loop] /\ pc'[Handler(c)] = pc[Handler(c)] /\ cur' = cur
            /\ pc'[Worker(c)] \in {"head", "body", "sent"}
        BY <2>1, <3>4, ThreadFacts, ThreadRequests DEF Writing
      <4> QED
        BY <1>0, <2>1, <3>1, <3>4, <4>1 DEF Outcome
    <3>5. CASE t \notin {Loop, Handler(c), Worker(c)}
      <4>1. /\ pc'[Loop] = pc[Loop] /\ pc'[Handler(c)] = pc[Handler(c)] /\ cur' = cur
            /\ pc'[Worker(c)] = pc[Worker(c)]
        BY <2>1, <3>5, ThreadFacts
      <4> QED
        BY <1>0, <2>1, <3>1, <4>1 DEF Outcome
    <3> QED
      BY <3>2, <3>3, <3>4, <3>5
  <2> QED
    BY <2>2 DEF Outcomes
<1>8. ASSUME NEW d \in Calls,
             (\E e \in Returns : RunMethod(d, e)) \/ Meet(d) \/ Timeout(d)
      PROVE  Outcomes'
  <2>1. /\ cur' = cur
        /\ \A t \in Threads \ {Handler(d), Worker(d)} : pc'[t] = pc[t]
    BY <1>8, ThreadFacts DEF RunMethod, Meet, Called, Sent, Timeout, ControlOK
  <2>2. \A c \in Calls \ {d} : /\ herr'[c] = herr[c] /\ werr'[c] = werr[c]
                                /\ executed'[c] = executed[c]
    BY <1>8 DEF RunMethod, Meet, Called, Sent, Timeout, TablesOK
  <2>3. ASSUME NEW c \in Calls \ {d} PROVE Outcome(c)'
    <3>1. /\ pc'[Loop] = pc[Loop] /\ pc'[Handler(c)] = pc[Handler(c)]
          /\ pc'[Worker(c)] = pc[Worker(c)] /\ Outcome(c)
      BY <2>1, ThreadFacts DEF Outcomes
    <3> QED
      BY <1>0, <2>1, <2>2, <3>1 DEF Outcome
  <2>4. Outcome(d)'
    <3>1. Outcome(d) /\ Phase(d) /\ pc'[Loop] = pc[Loop]
      BY <2>1, ThreadFacts DEF Outcomes, Phases
    <3>2. ASSUME NEW e \in Returns, RunMethod(d, e) PROVE Outcome(d)'
      <4>1. /\ pc[Worker(d)] = "call" /\ pc'[Worker(d)] = "called" /\ herr' = herr
            /\ pc'[Handler(d)] = pc[Handler(d)] /\ executed'[d] = executed[d] + 1
        BY <3>2, ThreadFacts DEF RunMethod, ControlOK, TablesOK
      <4>2. pc[Handler(d)] \notin {"none", "dead"}
        BY <3>1, <4>1 DEF Phase
      <4>3. IsCallable(d)
        BY <3>1, <3>2, <4>1, <4>2 DEF Outcome, RunMethod, CallFails, IsCallable
      <4>4. executed'[d] = 1
        BY <3>1, <4>1 DEF Outcome
      <4> QED
        BY <1>0, <2>1, <3>1, <4>1, <4>3, <4>4 DEF Outcome
    <3>3. CASE Called(d)
      <4>1. /\ pc[Worker(d)] = "called" /\ pc[Handler(d)] = "select"
            /\ pc'[Worker(d)] = "lock" /\ pc'[Handler(d)] = "sent"
            /\ herr'[d] = (werr[d] = "text") /\ werr' = werr /\ executed' = executed
        BY <3>3, ThreadFacts DEF Called, ControlOK, TablesOK
      <4>2. ~(cur = d)
        BY <3>1, <4>1 DEF Phase
      <4> QED
        BY <1>0, <2>1, <3>1, <4>1, <4>2 DEF Outcome
    <3>4. CASE Timeout(d)
      <4>1. /\ pc[Handler(d)] = "select" /\ pc'[Handler(d)] = "lock"
            /\ pc'[Worker(d)] = pc[Worker(d)]
            /\ herr'[d] = TRUE /\ werr' = werr /\ executed' = executed
        BY <3>4, ThreadFacts DEF Timeout, ControlOK, TablesOK
      <4>2. pc[Worker(d)] \in {"call", "called"}
        BY <3>1, <4>1 DEF Phase
      <4> QED
        BY <1>0, <2>1, <3>1, <4>1, <4>2 DEF Outcome
    <3>5. CASE Sent(d)
      <4>1. /\ pc[Handler(d)] = "sent" /\ pc'[Handler(d)] = "returned"
            /\ pc[Worker(d)] = "sent" /\ pc'[Worker(d)] = "returned"
            /\ herr' = herr /\ werr' = werr /\ executed' = executed
        BY <3>5, ThreadFacts DEF Sent, ControlOK
      <4> QED
        BY <1>0, <2>1, <3>1, <4>1 DEF Outcome
    <3> QED
      BY <1>8, <3>2, <3>3, <3>4, <3>5 DEF Meet
  <2> QED
    BY <2>3, <2>4 DEF Outcomes
<1>9. CASE Peer \/ UNCHANGED vars
  BY <1>1, <1>9 DEF Peer, PeerSend, PeerBreak, PeerReceive, PeerClose, vars
<1> QED
  BY <1>2, <1>3, <1>4, <1>5, <1>6, <1>7, <1>8, <1>9
     DEF Next, ServerStep, ConnStep, ReplyPanic

\* A request that was answered with success stays so.
LEMMA SucceededStep ==
    ASSUME TypeOK, Phases, [Next]_vars, NEW c \in Calls, Succeeded(c)
    PROVE  Succeeded(c)'
<1> USE DEF reqVars, bufVars, wireVars
<1>1. ControlOK /\ TablesOK /\ Phase(c)
  BY TypeParts DEF Phases
<1>0. IsCallable(c)'
  BY OfferedStep DEF Succeeded
<1>2. CASE UNCHANGED <<pc, werr, executed>>
  BY <1>0, <1>2 DEF Succeeded
<1>3. CASE Die /\ UNCHANGED <<werr, executed>>
  BY <1>0, <1>3, ThreadFacts DEF Die, Succeeded
<1>4. CASE Program
  BY <1>2, <1>3, <1>4 DEF Program, Panic, Register
<1>5. ASSUME UNCHANGED <<werr, executed>>, pc'[Worker(c)] = pc[Worker(c)]
      PROVE  Succeeded(c)'
  BY <1>0, <1>5 DEF Succeeded
<1>6. CASE ConnStep
  <2>1. UNCHANGED <<werr, executed>>
    BY <1>6 DEF ConnStep, ReadOption, RefuseOption, ReadHeader, ReadHeaderFail,
                ReplyPanic, RecoveredPanic, ReadArgs, ReadArgsFail, Drain
  <2>2. CASE ReadArgs
    <3>1. cur \in Calls /\ pc[Loop] = "args"
      BY <1>1, <2>2 DEF ReadArgs, ControlOK
    <3>2. cur # c
      BY <1>1, <3>1 DEF Phase, Succeeded
    <3>3. pc'[Worker(c)] = pc[Worker(c)]
      BY <1>1, <2>2, <3>1, <3>2, ThreadFacts DEF ReadArgs, ControlOK
    <3> QED
      BY <1>5, <2>1, <3>3
  <2>3. CASE Die
    BY <1>3, <2>1, <2>3
  <2>4. CASE ~ReadArgs /\ ~Die
    <3>1. \E l \in Positions : pc' = [pc EXCEPT ![Loop] = l]
      BY <1>6, <2>4 DEF ConnStep, ReadOption, RefuseOption, ReadHeader, ReadHeaderFail,
                        ReplyPanic, RecoveredPanic, ReadArgsFail, Drain, Positions
    <3>2. pc'[Worker(c)] = pc[Worker(c)]
      BY <1>1, <3>1, ThreadFacts DEF ControlOK
    <3> QED
      BY <1>5, <2>1, <3>2
  <2> QED
    BY <2>2, <2>3, <2>4
<1>7. ASSUME NEW t \in Threads, SendResponse(t) PROVE Succeeded(c)'
  <2>1. /\ UNCHANGED <<werr, executed>>
        /\ \A u \in Threads \ {t} : pc'[u] = pc[u]
        /\ pc[t] \in {"lock", "head", "body"}
        /\ pc[t] = "body" => pc'[t] = AfterResponse(t)
    BY <1>1, <1>7, SendEffect DEF Return, ControlOK
  <2>2. CASE t = Worker(c)
    BY <1>0, <2>1, <2>2, ThreadRequests DEF Succeeded
  <2>3. CASE t # Worker(c)
    BY <1>5, <2>1, <2>3, ThreadFacts
  <2> QED
    BY <2>2, <2>3
<1>8. ASSUME NEW d \in Calls,
             (\E e \in Returns : RunMethod(d, e)) \/ Meet(d) \/ Timeout(d)
      PROVE  Succeeded(c)'
  <2>1. CASE d = c
    <3>1. CASE Sent(d)
      BY <1>0, <1>1, <2>1, <3>1, ThreadFacts DEF Sent, ControlOK, Succeeded
    <3>2. CASE Timeout(d)
      <4>1. UNCHANGED <<werr, executed>> /\ pc'[Worker(c)] = pc[Worker(c)]
        BY <1>1, <2>1, <3>2, ThreadFacts DEF Timeout, ControlOK
      <4> QED
        BY <1>5, <4>1
    <3>3. ~Called(d) /\ ~\E e \in Returns : RunMethod(d, e)
      BY <2>1 DEF Called, RunMethod, Succeeded
    <3> QED
      BY <1>8, <3>1, <3>2, <3>3 DEF Meet
  <2>2. CASE d # c
    <3>1. werr'[c] = werr[c] /\ executed'[c] = executed[c]
      BY <1>1, <1>8, <2>2 DEF RunMethod, Meet, Called, Sent, Timeout, TablesOK
    <3>2. pc'[Worker(c)] = pc[Worker(c)]
      BY <1>1, <1>8, <2>2, ThreadFacts DEF RunMethod, Meet, Called, Sent, Timeout, ControlOK
    <3> QED
      BY <1>0, <3>1, <3>2 DEF Succeeded
  <2> QED
    BY <2>1, <2>2
<1>9. CASE Peer \/ UNCHANGED vars
  BY <1>2, <1>9 DEF Peer, PeerSend, PeerBreak, PeerReceive, PeerClose, vars
<1> QED
  BY <1>4, <1>6, <1>7, <1>8, <1>9 DEF Next, ServerStep

\* The goroutines that can answer a request.
LEMMA Answering ==
    ASSUME NEW t \in Threads, NEW c \in Calls, c = ReqOf(t)
    PROVE  (t = Loop /\ cur = c) \/ t = Handler(c) \/ t = Worker(c)
<1>1. CASE t = Loop
  BY <1>1, ThreadRequests
<1>2. ASSUME NEW d \in Calls, t = Handler(d) \/ t = Worker(d)
      PROVE  t = Handler(c) \/ t = Worker(c)
  <2>1. ReqOf(t) = d
    BY <1>2, ThreadRequests
  <2> QED
    BY <1>2, <2>1
<1> QED
  BY <1>1, <1>2, ThreadFacts

\* sendResponse counts an answer when it writes the header.
LEMMA AnswerEffect ==
    ASSUME TypeOK, NEW t \in Threads, SendResponse(t)
    PROVE  \/ answered' = answered
           \/ /\ pc[t] = "head"
              /\ \A c \in Calls \ {ReqOf(t)} : answered'[c] = answered[c]
<1>1. TablesOK
  BY TypeParts
<1>2. \/ answered' = answered
      \/ /\ pc[t] = "head"
         /\ answered' = [answered EXCEPT ![ReqOf(t)] = answered[ReqOf(t)] + 1]
  BY SendEffect
<1> QED
  BY <1>1, <1>2 DEF TablesOK

\* What was said is not unsaid: a header's Error changes only before the answer.
LEMMA SaidStep ==
    ASSUME TypeOK, Phases, Requests, [Next]_vars, NEW c \in Calls, NEW e, Said(c, e)
    PROVE  Said(c, e)'
<1> USE DEF reqVars, bufVars, wireVars
<1>1. ControlOK /\ TablesOK /\ StreamsOK /\ Phase(c)
  BY TypeParts DEF Phases
<1>2. ASSUME UNCHANGED <<answered, herr>> PROVE Said(c, e)'
  BY <1>2 DEF Said
<1>3. ASSUME NEW d \in Calls, d # c, UNCHANGED answered,
             \E b \in BOOLEAN : herr' = [herr EXCEPT ![d] = b]
      PROVE  Said(c, e)'
  BY <1>1, <1>3 DEF Said, TablesOK
<1>4. CASE ReadHeader
  <2>1. PICK d : d = Head(c2s).call
    OBVIOUS
  <2>2. d \in Calls /\ Waiting(d)
    <3>1. c2s \in Seq(Item) /\ c2s # << >> /\ Head(c2s).k = "head"
      BY <1>1, <1>4 DEF ReadHeader, StreamsOK
    <3>2. Head(c2s) \in Item /\ Head(c2s) = c2s[1] /\ 1 \in 1 .. Len(c2s)
      BY <3>1, HeadTailProperties, EmptySeq
    <3> QED
      BY <2>1, <3>1, <3>2 DEF Requests, InFlight, Item
  <2>3. d # c
    BY <2>2 DEF Waiting, Said
  <2>4. UNCHANGED answered /\ \E b \in BOOLEAN : herr' = [herr EXCEPT ![d] = b]
    BY <1>4, <2>1 DEF ReadHeader
  <2> QED
    BY <1>3, <2>2, <2>3, <2>4
<1>5. CASE ReadArgsFail
  <2>1. cur \in Calls /\ pc[Loop] = "args"
    BY <1>1, <1>5 DEF ReadArgsFail, ControlOK
  <2>2. cur # c
    BY <1>1, <2>1 DEF Phase, Said
  <2>3. UNCHANGED answered /\ herr' = [herr EXCEPT ![cur] = TRUE]
    BY <1>5 DEF ReadArgsFail
  <2> QED
    BY <1>3, <2>1, <2>2, <2>3
<1>6. CASE ConnStep
  BY <1>2, <1>4, <1>5, <1>6
     DEF ConnStep, ReadOption, RefuseOption, ReadHeaderFail, ReplyPanic, RecoveredPanic,
         ReadArgs, Drain
<1>7. ASSUME NEW t \in Threads, SendResponse(t) PROVE Said(c, e)'
  <2>1. UNCHANGED herr /\ ReqOf(t) \in Calls
    BY <1>7, SendEffect
  <2>2. CASE pc[t] = "head"
    <3>1. PICK d \in Calls : d = ReqOf(t)
      BY <2>1
    <3>2. (t = Loop /\ cur = d) \/ t = Handler(d) \/ t = Worker(d)
      BY <3>1, Answering
    <3>3. answered[d] = 0
      BY <1>1, <2>2, <3>2 DEF Phases, Phase, ControlOK
    <3>4. answered'[c] = answered[c]
      BY <1>7, <3>1, <3>3, AnswerEffect DEF Said
    <3> QED
      BY <2>1, <3>4 DEF Said
  <2>3. CASE pc[t] # "head"
    BY <1>2, <1>7, <2>1, <2>3, SendEffect
  <2> QED
    BY <2>2, <2>3
<1>8. ASSUME NEW d \in Calls, (\E e2 \in Returns : RunMethod(d, e2)) \/ Sent(d)
      PROVE  Said(c, e)'
  BY <1>2, <1>8 DEF RunMethod, Sent
<1>9. ASSUME NEW d \in Calls, Called(d) \/ Timeout(d) PROVE Said(c, e)'
  <2>1. pc[Handler(d)] = "select" /\ UNCHANGED answered
    BY <1>9 DEF Called, Timeout
  <2>2. d # c
    BY <1>1, <2>1 DEF Phase, Said
  <2>3. (werr[d] = "text") \in BOOLEAN
    OBVIOUS
  <2>4. \E b \in BOOLEAN : herr' = [herr EXCEPT ![d] = b]
    BY <1>9, <2>3 DEF Called, Timeout
  <2> QED
    BY <1>3, <2>1, <2>2, <2>4
<1>10. CASE Peer \/ UNCHANGED vars
  BY <1>2, <1>10 DEF Peer, PeerSend, PeerBreak, PeerReceive, PeerClose, vars
<1>11. CASE Program
  BY <1>2, <1>11 DEF Program, Panic, Register
<1> QED
  BY <1>6, <1>7, <1>8, <1>9, <1>10, <1>11 DEF Next, ServerStep, Meet

\* Requests are answered by sendResponse alone.
LEMMA AnsweredFrame ==
    ASSUME [Next]_vars, \A t \in Threads : ~SendResponse(t)
    PROVE  answered' = answered
BY DEF vars, Next, ServerStep, Peer, Program, ConnStep, Meet, Panic, Register, ReadOption,
       RefuseOption, ReadHeader, ReadHeaderFail, ReplyPanic, RecoveredPanic, ReadArgs,
       ReadArgsFail, Drain, RunMethod, Called, Sent, Timeout, PeerSend, PeerBreak,
       PeerReceive, PeerClose, reqVars

\* A request answered without an error was answered by its worker.
LEMMA AnswersStep ==
    TypeOK /\ Phases /\ Requests /\ Outcomes /\ Answers /\ [Next]_vars => Answers'
<1> SUFFICES ASSUME TypeOK, Phases, Requests, Outcomes, Answers, [Next]_vars,
                    NEW c \in Calls, Said(c, FALSE)'
             PROVE  Succeeded(c)'
  BY DEF Answers
<1>1. ControlOK /\ TablesOK /\ Phase(c) /\ Outcome(c) /\ answered[c] \in {0, 1}
  BY TypeParts DEF Phases, Phase, Outcomes
<1>2. CASE answered[c] = 1
  <2>1. PICK e : e = herr[c]
    OBVIOUS
  <2>2. Said(c, e)'
    BY <1>2, <2>1, SaidStep DEF Said
  <2>3. Said(c, FALSE)
    BY <1>2, <2>1, <2>2 DEF Said
  <2> QED
    BY <2>3, SucceededStep DEF Answers
<1>3. CASE answered[c] = 0
  <2>1. PICK t \in Threads : SendResponse(t)
    BY <1>3, AnsweredFrame DEF Said
  <2>2. pc[t] = "head" /\ ReqOf(t) = c
    BY <1>3, <2>1, AnswerEffect DEF Said
  <2>3. ~herr[c] /\ UNCHANGED <<herr, werr, executed>>
    BY <2>1, SendEffect DEF Said
  <2>4. t # Loop /\ t # Handler(c)
    BY <1>1, <2>2, <2>3, ThreadRequests DEF Outcome
  <2>5. t = Worker(c)
    BY <2>2, <2>4, Answering
  <2>6. pc[Handler(c)] = "sent"
    BY <1>1, <2>2, <2>5 DEF Phase
  <2>7. pc'[t] \in {"body", "sent"}
    BY <1>1, <2>1, <2>2, <2>5, SendEffect, ThreadRequests DEF Return, ControlOK
  <2>8. executed[c] = 1 /\ werr[c] # "text" /\ IsCallable(c)'
    BY <1>1, <2>2, <2>3, <2>5, <2>6, OfferedStep DEF Outcome
  <2> QED
    BY <2>3, <2>5, <2>7, <2>8 DEF Succeeded
<1> QED
  BY <1>1, <1>2, <1>3

\* A method runs once its request has been sent, and once.
LEMMA RunsStep ==
    TypeOK /\ Phases /\ Requests /\ Outcomes /\ Runs /\ [Next]_vars => Runs'
<1> SUFFICES ASSUME TypeOK, Phases, Requests, Outcomes, Runs, [Next]_vars PROVE Runs'
  OBVIOUS
<1>1. TablesOK
  BY TypeParts
<1>2. ASSUME NEW d \in Calls, NEW e \in Returns, RunMethod(d, e) PROVE Runs'
  <2>1. executed[d] = 0 /\ executed' = [executed EXCEPT ![d] = executed[d] + 1] /\ sent' = sent
    BY <1>2 DEF RunMethod, Outcomes, Outcome
  <2>2. d \in sent
    <3>1. pc[Worker(d)] = "call" /\ Phase(d)
      BY <1>2 DEF RunMethod, Phases
    <3> QED
      BY <3>1 DEF Phase, Requests, Waiting
  <2>3. executed'[d] = 1 /\ \A c \in Calls \ {d} : executed'[c] = executed[c]
    BY <1>1, <2>1 DEF TablesOK
  <2> QED
    BY <2>1, <2>2, <2>3 DEF Runs
<1>3. CASE executed' = executed /\ sent \subseteq sent'
  BY <1>3 DEF Runs
<1>4. CASE ~\E c \in Calls, e \in Returns : RunMethod(c, e)
  <2>1. executed' = executed /\ sent \subseteq sent'
    BY <1>4
       DEF vars, Next, ServerStep, Peer, Program, ConnStep, SendResponse, Meet, Panic,
           Register, ReadOption, RefuseOption, ReadHeader, ReadHeaderFail, ReplyPanic,
           RecoveredPanic, ReadArgs, ReadArgsFail, Drain, LockSend, WriteHead, WriteBody,
           Called, Sent, Timeout, PeerSend, PeerBreak, PeerReceive, PeerClose, reqVars
  <2> QED
    BY <1>3, <2>1
<1> QED
  BY <1>2, <1>4

\* Responses carry what was said of their request.
LEMMA ToldStep ==
    TypeOK /\ Phases /\ Requests /\ Writer /\ Told /\ [Next]_vars => Told'
<1> SUFFICES ASSUME TypeOK, ControlOK, StreamsOK, TablesOK, Phases, Requests, Writer, Told,
                    [Next]_vars
             PROVE  Told'
  BY TypeParts
<1>1. PICK q \in Seq(Item) : q = s2c
  BY DEF StreamsOK
<1>2. PICK r : r = s2c'
  OBVIOUS
<1>3. SUFFICES ASSUME NEW i \in 1 .. Len(r) PROVE Said(r[i].call, r[i].err)'
  BY <1>2 DEF Told
<1>4. ASSUME NEW j \in 1 .. Len(q) PROVE Said(q[j].call, q[j].err)'
  <2>1. q[j] \in Item
    BY <1>4, ElementOfSeq
  <2>2. q[j].call \in Calls
    BY <2>1 DEF Item
  <2>3. Said(q[j].call, q[j].err)
    BY <1>1, <1>4 DEF Told
  <2> QED
    BY <2>2, <2>3, SaidStep
<1>5. CASE r = q
  BY <1>3, <1>4, <1>5
<1>6. CASE q # << >> /\ r = Tail(q)
  <2>1. i + 1 \in 1 .. Len(q) /\ r[i] = q[i + 1]
    <3>1. Len(q) \in Nat /\ Len(r) = Len(q) - 1 /\ r[i] = q[i + 1]
      BY <1>6, HeadTailProperties, LenProperties
    <3> QED
      BY <3>1
  <2> QED
    BY <1>3, <1>4, <2>1
<1>7. ASSUME NEW t \in Threads, WriteBody(t) PROVE Said(r[i].call, r[i].err)'
  <2>1. PICK c \in Calls, n \in Nat :
          /\ c = ReqOf(t)
          /\ \/ s2c' = s2c
             \/ s2c' = s2c \o <<Frame(n, c, herr[c])[1]>>
             \/ s2c' = s2c \o Frame(n, c, herr[c])
    BY <1>7, BodyEffect
  <2>2. PICK e \in BOOLEAN : e = herr[c]
    BY DEF TablesOK
  <2>3. PICK f \in Seq(Item) : f = Frame(n, c, e) /\ Len(f) = 2 /\ f[1] \in Item
    BY FrameType
  <2>4. f[1].err = e /\ f[2].err = e /\ f[1].call = c /\ f[2].call = c
    BY <2>3, FrameError, FrameParts
  <2>5. Said(c, e)'
    <3>1. pc[t] = "body" /\ Phase(c)
      BY <1>7 DEF WriteBody, Phases
    <3>2. (t = Loop /\ cur = c) \/ t = Handler(c) \/ t = Worker(c)
      BY <2>1, Answering
    <3>3. answered[c] = 1
      BY <3>1, <3>2 DEF Phase, ControlOK
    <3> QED
      BY <2>2, <3>3, SaidStep DEF Said
  <2>6. ASSUME NEW g \in Seq(Item), r = q \o g, Len(g) <= 2,
               \A k \in 1 .. Len(g) : g[k] = f[k]
        PROVE  Said(r[i].call, r[i].err)'
    <3>1. /\ Len(q) \in Nat /\ Len(g) \in Nat /\ Len(r) = Len(q) + Len(g)
          /\ r[i] = IF i <= Len(q) THEN q[i] ELSE g[i - Len(q)]
      BY <2>6, ConcatProperties, LenProperties
    <3>2. CASE i <= Len(q)
      <4>1. i \in 1 .. Len(q)
        BY <3>1, <3>2
      <4> QED
        BY <1>3, <1>4, <3>1, <3>2, <4>1
    <3>3. CASE ~(i <= Len(q))
      <4>1. i - Len(q) \in 1 .. Len(g) /\ i - Len(q) \in {1, 2}
        BY <2>6, <3>1, <3>3
      <4>2. r[i] = f[i - Len(q)]
        BY <2>6, <3>1, <3>3, <4>1
      <4>3. r[i].err = e /\ r[i].call = c
        BY <2>4, <4>1, <4>2
      <4> QED
        BY <1>3, <2>5, <4>3
    <3> QED
      BY <3>2, <3>3
  <2>7. CASE r = q \o <<f[1]>>
    <3>1. <<f[1]>> \in Seq(Item)
      BY <2>3
    <3>2. PICK g \in Seq(Item) : g = <<f[1]>>
      BY <3>1
    <3>3. Len(g) <= 2 /\ \A k \in 1 .. Len(g) : g[k] = f[k]
      BY <3>2
    <3>4. r = q \o g
      BY <2>7, <3>2
    <3> QED
      BY ONLY <2>6, <3>3, <3>4
  <2>8. CASE r = q \o f
    <3>1. Len(f) <= 2 /\ \A k \in 1 .. Len(f) : f[k] = f[k]
      BY <2>3
    <3> QED
      BY ONLY <2>6, <2>8, <3>1
  <2> QED
    BY <1>1, <1>2, <1>5, <2>1, <2>2, <2>3, <2>7, <2>8
<1> QED
  BY <1>1, <1>2, <1>5, <1>6, <1>7, ResponsesFrame

-----------------------------------------------------------------------------
(* The end of a connection.                                                *)

\* Only the loop, the program and the peer can move before the option is read.
LEMMA FreshStep == TypeOK /\ Fresh /\ [Next]_vars => Fresh'
<1> SUFFICES ASSUME TypeOK, ControlOK, Fresh, [Next]_vars PROVE Fresh'
  BY TypeParts
<1> USE DEF reqVars, bufVars, wireVars
<1>1. CASE UNCHANGED <<pc, sOpen>>
  BY <1>1 DEF Fresh
<1>2. CASE pc'[Loop] # "option"
  BY <1>2 DEF Fresh
<1>3. CASE Die
  BY <1>2, <1>3, ThreadFacts DEF Die
<1>4. CASE ConnStep
  <2>1. Die \/ pc'[Loop] # "option"
    <3>1. CASE ReadArgs
      BY <3>1, ThreadFacts DEF ReadArgs, ControlOK
    <3> QED
      BY <1>4, <3>1, ThreadFacts
         DEF ConnStep, ReadOption, RefuseOption, ReadHeader, ReadHeaderFail, ReplyPanic,
             RecoveredPanic, ReadArgsFail, Drain, ControlOK
  <2> QED
    BY <1>2, <1>3, <2>1
<1>5. ASSUME NEW t \in Threads, SendResponse(t), pc[Loop] = "option" PROVE FALSE
  BY <1>5, SendEffect, ThreadFacts DEF Fresh
<1>6. ASSUME NEW c \in Calls, pc[Loop] = "option",
             (\E e \in Returns : RunMethod(c, e)) \/ Meet(c) \/ Timeout(c)
      PROVE  FALSE
  BY <1>6 DEF Fresh, RunMethod, Meet, Called, Sent, Timeout
<1>7. CASE pc[Loop] # "option" /\ (\E t \in Threads : SendResponse(t))
  <2>1. PICK t \in Threads : SendResponse(t)
    BY <1>7
  <2>2. \E l \in {"head", "body", AfterResponse(t)} : pc' = [pc EXCEPT ![t] = l]
    BY <2>1, SendEffect DEF Return
  <2>3. pc'[Loop] # "option"
    <3>1. CASE t = Loop
      BY <2>2, <3>1, ThreadFacts, ThreadRequests DEF ControlOK
    <3>2. CASE t # Loop
      BY <1>7, <2>2, <3>2, ThreadFacts DEF ControlOK
    <3> QED
      BY <3>1, <3>2
  <2> QED
    BY <1>2, <2>3
<1>8. ASSUME pc[Loop] # "option", NEW c \in Calls,
             (\E e \in Returns : RunMethod(c, e)) \/ Meet(c) \/ Timeout(c)
      PROVE  Fresh'
  <2>1. pc'[Loop] = pc[Loop]
    BY <1>8, ThreadFacts DEF RunMethod, Meet, Called, Sent, Timeout, ControlOK
  <2> QED
    BY <1>2, <1>8, <2>1
<1>9. CASE Peer \/ UNCHANGED vars
  BY <1>1, <1>9 DEF Peer, PeerSend, PeerBreak, PeerReceive, PeerClose, vars
<1>10. CASE Program
  BY <1>1, <1>3, <1>10 DEF Program, Panic, Register
<1> QED
  BY <1>4, <1>5, <1>6, <1>7, <1>8, <1>9, <1>10 DEF Next, ServerStep

-----------------------------------------------------------------------------
(* The theorems.                                                           *)

\* Init establishes the invariant.
LEMMA Start == Init => IndInv
<1> SUFFICES ASSUME Init PROVE IndInv
  OBVIOUS
<1>1. /\ pc[Loop] = "option"
      /\ \A t \in Threads : pc[t] \in {"option", "none"}
      /\ \A c \in Calls : pc[Handler(c)] = "none" /\ pc[Worker(c)] = "none" /\ cur # c
  BY ThreadFacts, ServerAssumption DEF Init
<1>2. ServicesOK /\ ControlOK
  BY <1>1, ThreadFacts DEF Init, ServicesOK, ControlOK, Positions
<1>3. TablesOK
  BY DEF Init, TablesOK, Returns
<1>4. StreamsOK
  BY EmptySeq DEF Init, StreamsOK
<1>5. FlagsOK
  BY DEF Init, FlagsOK
<1>6. Phases
  BY <1>1 DEF Init, Phases, Phase
<1>7. Len(c2s) = 0 /\ Len(s2c) = 0
  BY DEF Init
<1>8. Requests
  BY <1>1, <1>7, FS_EmptySet DEF Init, Requests, InFlight, Waiting
<1>9. Writer
  BY <1>1 DEF Init, Writer, Writing
<1>10. ResponseFraming /\ History
  BY <1>7 DEF Init, ResponseFraming, History, Told, Answers, Runs, Said
<1>11. Registered /\ Fresh
  BY <1>1 DEF Init, Registered, Fresh
<1>12. Outcomes
  BY <1>1 DEF Init, Outcomes, Outcome
<1> QED
  BY <1>2, <1>3, <1>4, <1>6, <1>8, <1>9, <1>10, <1>11, <1>12, <1>5, TypeParts DEF IndInv

\* The invariant is inductive: every step of the server or of the peer keeps all
\* of its parts.
LEMMA Step == IndInv /\ [Next]_vars => IndInv'
<1> SUFFICES ASSUME IndInv, [Next]_vars PROVE IndInv'
  OBVIOUS
<1>1. /\ TypeOK /\ Phases /\ Requests /\ Writer /\ ResponseFraming /\ ServicesOK
      /\ Registered /\ Outcomes /\ Fresh /\ IsFiniteSet(sent)
      /\ Told /\ Answers /\ Runs
  BY TypeParts DEF IndInv, Requests, History
<1>2. TypeOK'
  <2>1. ServicesOK' /\ ControlOK' /\ TablesOK' /\ StreamsOK' /\ FlagsOK'
    BY <1>1, ServicesStep, ControlStep, TablesStep, StreamsStep, FlagsStep
  <2> QED
    BY <2>1 DEF TypeOK, ServicesOK, ControlOK, TablesOK, StreamsOK, FlagsOK, Positions
<1>3. Phases' /\ Requests' /\ Writer'
  BY <1>1, PhasesStep, RequestsStep, WriterStep
<1>4. ResponseFraming' /\ Registered' /\ Outcomes'
  BY <1>1, FramingStep, RegisteredStep, OutcomesStep
<1>5. Told' /\ Answers' /\ Runs'
  BY <1>1, ToldStep, AnswersStep, RunsStep
<1>6. Fresh'
  BY <1>1, FreshStep
<1> QED
  BY <1>2, <1>3, <1>4, <1>5, <1>6 DEF IndInv, History

\* Every reachable state satisfies it.
THEOREM Invariance == Spec => []IndInv
BY Step, Start, PTL DEF Spec

\* The server has read the header of a request and has not flushed its answer.
Pending(c) ==
    \/ cur = c
    \/ pc[Handler(c)] \in {"select", "lock", "head", "body"}
    \/ pc[Handler(c)] = "sent" /\ pc[Worker(c)] \in {"lock", "head", "body"}

\* The goroutine that flushes an answer is done with it.
LEMMA PendingEnds ==
    ASSUME IndInv, NEW t \in Threads, WriteBody(t), NEW c \in Calls, c = ReqOf(t)
    PROVE  Pending(c) /\ ~Pending(c)'
<1>1. ControlOK /\ Phase(c) /\ c # NoCall
  BY TypeParts, ServerAssumption DEF IndInv, Phases
<1>2. /\ pc[t] = "body" /\ pc' = [pc EXCEPT ![t] = AfterResponse(t)]
      /\ cur' = IF t = Loop THEN NoCall ELSE cur
  BY DEF WriteBody, Return
<1>3. (t = Loop /\ cur = c) \/ t = Handler(c) \/ t = Worker(c)
  BY Answering
<1>4. CASE t = Loop /\ cur = c
  <2>1. pc[Handler(c)] = "none" /\ pc'[Handler(c)] = "none" /\ cur' = NoCall
    BY <1>1, <1>2, <1>4, ThreadFacts DEF Phase, ControlOK
  <2> QED
    BY <1>1, <1>4, <2>1 DEF Pending
<1>5. CASE t = Handler(c)
  <2>1. pc'[Handler(c)] = "returned" /\ cur' = cur /\ cur # c
    BY <1>1, <1>2, <1>5, ThreadFacts, ThreadRequests DEF Phase, ControlOK
  <2> QED
    BY <1>2, <1>5, <2>1 DEF Pending
<1>6. CASE t = Worker(c)
  <2>1. /\ pc[Handler(c)] = "sent" /\ pc'[Handler(c)] = "sent" /\ pc'[Worker(c)] = "sent"
        /\ cur' = cur /\ cur # c
    BY <1>1, <1>2, <1>6, ThreadFacts, ThreadRequests DEF Phase, ControlOK
  <2> QED
    BY <1>2, <1>6, <2>1 DEF Pending
<1> QED
  BY <1>3, <1>4, <1>5, <1>6

\* What a step of the server does to the connection: it takes values from the
\* front of the requests, or appends the answer to a request it has read, whole or
\* with its end closed after the header, or at most closes its end.
LEMMA WireEffect ==
    IndInv /\ ServerStep =>
      /\ UNCHANGED <<cOpen, sent>>
      /\ \/ UNCHANGED <<c2s, s2c>> /\ sOpen' \in {sOpen, FALSE}
         \/ /\ UNCHANGED <<s2c, sOpen>> /\ sOpen
            /\ \E n \in 1 .. Len(c2s) : c2s' = SubSeq(c2s, n + 1, Len(c2s))
         \/ /\ UNCHANGED c2s /\ Up
            /\ \E c \in Calls :
                 /\ Pending(c) /\ ~Pending(c)'
                 /\ \/ s2c' = s2c \o Frame(rseq[c], c, herr[c]) /\ sOpen' = sOpen
                    \/ s2c' = s2c \o <<Frame(rseq[c], c, FALSE)[1]>> /\ sOpen' = FALSE
<1> DEFINE Takes == /\ UNCHANGED <<s2c, sOpen>> /\ sOpen
                    /\ \E n \in 1 .. Len(c2s) : c2s' = SubSeq(c2s, n + 1, Len(c2s))
           Silent == UNCHANGED <<c2s, s2c>> /\ sOpen' \in {sOpen, FALSE}
           Writes == /\ UNCHANGED c2s /\ Up
                     /\ \E c \in Calls :
                          /\ Pending(c) /\ ~Pending(c)'
                          /\ \/ s2c' = s2c \o Frame(rseq[c], c, herr[c]) /\ sOpen' = sOpen
                             \/ /\ s2c' = s2c \o <<Frame(rseq[c], c, FALSE)[1]>>
                                /\ sOpen' = FALSE
<1> SUFFICES ASSUME IndInv, ServerStep
             PROVE  UNCHANGED <<cOpen, sent>> /\ (Silent \/ Takes \/ Writes)
  OBVIOUS
<1> USE DEF reqVars, bufVars, wireVars
<1>0. TypeOK /\ Writer /\ StreamsOK /\ ControlOK /\ TablesOK /\ Len(c2s) \in Nat
  BY TypeParts, LenProperties DEF IndInv, StreamsOK
<1>1. UNCHANGED <<cOpen, sent>>
  BY DEF ServerStep, Program, ConnStep, SendResponse, Meet, Panic, Register, ReadOption,
         RefuseOption, ReadHeader, ReadHeaderFail, ReplyPanic, RecoveredPanic, ReadArgs,
         ReadArgsFail, Drain, LockSend, WriteHead, WriteBody, RunMethod, Called, Sent,
         Timeout
<1>2. CASE UNCHANGED <<c2s, s2c>> /\ sOpen' \in {sOpen, FALSE}
  BY <1>1, <1>2
<1>3. CASE sOpen /\ c2s # << >> /\ c2s' = Tail(c2s) /\ UNCHANGED <<s2c, sOpen>>
  <2>1. c2s' = SubSeq(c2s, 2, Len(c2s))
    BY <1>0, <1>3, TailIsSubSeq DEF StreamsOK
  <2>2. 1 \in 1 .. Len(c2s) /\ 1 + 1 = 2
    BY <1>0, <1>3, EmptySeq DEF StreamsOK
  <2>3. \E n \in 1 .. Len(c2s) : c2s' = SubSeq(c2s, n + 1, Len(c2s))
    BY <2>1, <2>2
  <2> QED
    BY <1>1, <1>3, <2>3
<1>4. ASSUME NEW n \in 0 .. ReadAhead, ReadOption(n) PROVE Silent \/ Takes
  <2>1. /\ n <= Len(c2s) /\ c2s' = SubSeq(c2s, n + 1, Len(c2s)) /\ UNCHANGED <<s2c, sOpen>>
        /\ pc[Loop] = "option"
    BY <1>4 DEF ReadOption
  <2>2. sOpen
    BY <2>1 DEF IndInv, Fresh
  <2>3. CASE n = 0
    <3>1. c2s' = c2s
      BY <1>0, <2>1, <2>3, SubSeqFull DEF StreamsOK
    <3> QED
      BY <2>1, <3>1
  <2>4. CASE n # 0
    <3>1. n \in 1 .. Len(c2s)
      BY <1>0, <2>1, <2>4, ServerAssumption
    <3> QED
      BY <2>1, <2>2, <3>1
  <2> QED
    BY <2>3, <2>4
<1>5. CASE ConnStep
  <2>1. CASE \E n \in 0 .. ReadAhead : ReadOption(n)
    BY <1>1, <1>4, <2>1
  <2>2. CASE ReadHeader \/ ReadArgs \/ ReadArgsFail
    BY <1>2, <1>3, <2>2 DEF ReadHeader, ReadArgs, ReadArgsFail
  <2>3. CASE RefuseOption \/ ReadHeaderFail \/ ReplyPanic \/ RecoveredPanic \/ Drain
    BY <1>2, <2>3 DEF RefuseOption, ReadHeaderFail, ReplyPanic, RecoveredPanic, Drain, Die
  <2> QED
    BY <1>5, <2>1, <2>2, <2>3 DEF ConnStep
<1>6. ASSUME NEW t \in Threads, LockSend(t) \/ WriteHead(t) PROVE Silent
  BY <1>6 DEF LockSend, WriteHead
<1>7. ASSUME NEW t \in Threads, WriteBody(t) PROVE Silent \/ Writes
  <2>1. PICK c \in Calls, n \in Nat :
          /\ c = ReqOf(t) /\ n = rseq[c] /\ sOpen' \in {sOpen, FALSE}
          /\ \/ s2c' = s2c
             \/ /\ s2c' = s2c \o <<Frame(n, c, herr[c])[1]>>
                /\ Up /\ sOpen' = FALSE /\ ~herr[c]
             \/ s2c' = s2c \o Frame(n, c, herr[c]) /\ Up /\ sOpen' = sOpen
    BY <1>0, <1>7, BodyEffect
  <2>2. Pending(c) /\ ~Pending(c)' /\ UNCHANGED c2s
    BY <1>7, <2>1, PendingEnds DEF WriteBody
  <2>3. ~herr[c] => herr[c] = FALSE
    BY <1>0 DEF TablesOK
  <2> QED
    BY <2>1, <2>2, <2>3
<1>8. CASE \E t \in Threads : SendResponse(t)
  BY <1>1, <1>6, <1>7, <1>8 DEF SendResponse
<1>9. CASE Program
  BY <1>2, <1>9 DEF Program, Panic, Register, Die
<1>10. ASSUME NEW c \in Calls,
              (\E e \in Returns : RunMethod(c, e)) \/ Meet(c) \/ Timeout(c)
       PROVE  Silent
  BY <1>10 DEF RunMethod, Meet, Called, Sent, Timeout
<1> HIDE DEF Silent, Takes, Writes
<1> QED
  BY <1>1, <1>5, <1>8, <1>9, <1>10 DEF ServerStep

\* A request becomes pending when its header is read, and keeps its number.
LEMMA PendingStep ==
    \A c \in Calls :
      IndInv /\ ServerStep /\ Pending(c)' =>
        \/ Pending(c) /\ rseq'[c] = rseq[c]
        \/ /\ c2s # << >> /\ c2s' = Tail(c2s)
           /\ Head(c2s).k = "head" /\ Head(c2s).call = c /\ rseq'[c] = Head(c2s).seq
<1> SUFFICES ASSUME NEW c \in Calls, IndInv, ServerStep, Pending(c)'
             PROVE  \/ Pending(c) /\ rseq'[c] = rseq[c]
                    \/ /\ c2s # << >> /\ c2s' = Tail(c2s)
                       /\ Head(c2s).k = "head" /\ Head(c2s).call = c
                       /\ rseq'[c] = Head(c2s).seq
  OBVIOUS
<1> USE DEF reqVars, bufVars, wireVars
<1>0. TypeOK /\ ControlOK /\ TablesOK /\ StreamsOK /\ c # NoCall
  BY TypeParts, ServerAssumption DEF IndInv
<1>1. ~Die
  <2> SUFFICES ASSUME Die PROVE FALSE
    OBVIOUS
  <2>1. pc'[Handler(c)] = "dead" /\ cur' = NoCall
    BY ThreadFacts DEF Die
  <2> QED
    BY <1>0, <2>1 DEF Pending
<1>2. CASE ReadHeader
  <2>1. PICK h : h = Head(c2s)
    OBVIOUS
  <2>2. /\ c2s # << >> /\ c2s' = Tail(c2s) /\ h.k = "head" /\ cur' = h.call
        /\ rseq' = [rseq EXCEPT ![h.call] = h.seq]
        /\ \A d \in Calls : pc'[Handler(d)] = pc[Handler(d)] /\ pc'[Worker(d)] = pc[Worker(d)]
    BY <1>0, <1>2, <2>1, ThreadFacts DEF ReadHeader, ControlOK
  <2>3. CASE h.call = c
    BY <1>0, <2>1, <2>2, <2>3 DEF TablesOK
  <2>4. CASE h.call # c
    BY <1>0, <2>2, <2>4 DEF TablesOK, Pending
  <2> QED
    BY <2>3, <2>4
<1>3. ASSUME UNCHANGED rseq, Pending(c) PROVE Pending(c) /\ rseq'[c] = rseq[c]
  BY <1>3
<1>4. ASSUME UNCHANGED cur, UNCHANGED rseq,
             pc'[Handler(c)] = pc[Handler(c)], pc'[Worker(c)] = pc[Worker(c)]
      PROVE  Pending(c) /\ rseq'[c] = rseq[c]
  BY <1>4 DEF Pending
<1>5. CASE ReadArgs
  <2>1. CASE cur = c
    BY <1>3, <1>5, <2>1 DEF ReadArgs, Pending
  <2>2. CASE cur # c
    <3>1. cur \in Calls /\ cur' = NoCall /\ UNCHANGED rseq
      BY <1>0, <1>5 DEF ReadArgs, ControlOK
    <3>2. pc'[Handler(c)] = pc[Handler(c)] /\ pc'[Worker(c)] = pc[Worker(c)]
      BY <1>0, <1>5, <2>2, <3>1, ThreadFacts DEF ReadArgs, ControlOK
    <3> QED
      BY <1>0, <3>1, <3>2 DEF Pending
  <2> QED
    BY <2>1, <2>2
<1>6. CASE ConnStep
  <2>1. CASE \/ \E n \in 0 .. ReadAhead : ReadOption(n)
             \/ RefuseOption \/ ReadHeaderFail \/ ReadArgsFail \/ Drain
    <3>1. /\ UNCHANGED <<cur, rseq>>
          /\ pc'[Handler(c)] = pc[Handler(c)] /\ pc'[Worker(c)] = pc[Worker(c)]
      BY <1>0, <2>1, ThreadFacts
         DEF ReadOption, RefuseOption, ReadHeaderFail, ReadArgsFail, Drain, ControlOK
    <3> QED
      BY <1>4, <3>1
  <2>2. CASE RecoveredPanic
    <3>1. /\ UNCHANGED rseq /\ cur' = NoCall
          /\ pc'[Handler(c)] = pc[Handler(c)] /\ pc'[Worker(c)] = pc[Worker(c)]
      BY <1>0, <2>2, ThreadFacts DEF RecoveredPanic, ControlOK
    <3> QED
      BY <1>0, <3>1 DEF Pending
  <2> QED
    BY <1>1, <1>2, <1>5, <1>6, <2>1, <2>2 DEF ConnStep, ReplyPanic
<1>7. ASSUME NEW t \in Threads, SendResponse(t) PROVE Pending(c) /\ rseq'[c] = rseq[c]
  <2>1. /\ UNCHANGED rseq /\ pc[t] \in {"lock", "head", "body"} /\ cur' \in {cur, NoCall}
        /\ \A u \in Threads \ {t} : pc'[u] = pc[u]
    BY <1>0, <1>7, SendEffect DEF Return, ControlOK
  <2>2. CASE t = Handler(c)
    BY <1>3, <2>1, <2>2 DEF Pending
  <2>3. CASE t = Worker(c)
    <3>1. pc'[Handler(c)] = pc[Handler(c)]
      BY <2>1, <2>3, ThreadFacts
    <3> QED
      BY <1>0, <1>3, <2>1, <2>3, <3>1 DEF Pending
  <2>4. CASE t # Handler(c) /\ t # Worker(c)
    <3>1. pc'[Handler(c)] = pc[Handler(c)] /\ pc'[Worker(c)] = pc[Worker(c)]
      BY <2>1, <2>4, ThreadFacts
    <3> QED
      BY <1>0, <2>1, <3>1 DEF Pending
  <2> QED
    BY <2>2, <2>3, <2>4
<1>8. CASE Program
  <2>1. UNCHANGED <<cur, rseq, pc>>
    BY <1>1, <1>8 DEF Program, Panic, Register
  <2> QED
    BY <1>4, <2>1
<1>9. ASSUME NEW d \in Calls,
             (\E e \in Returns : RunMethod(d, e)) \/ Meet(d) \/ Timeout(d)
      PROVE  Pending(c) /\ rseq'[c] = rseq[c]
  <2>1. UNCHANGED <<cur, rseq>>
    BY <1>9 DEF RunMethod, Meet, Called, Sent, Timeout
  <2>2. CASE d # c
    <3>1. pc'[Handler(c)] = pc[Handler(c)] /\ pc'[Worker(c)] = pc[Worker(c)]
      BY <1>0, <1>9, <2>2, ThreadFacts DEF RunMethod, Meet, Called, Sent, Timeout, ControlOK
    <3> QED
      BY <1>4, <2>1, <3>1
  <2>3. CASE d = c
    <3>1. CASE \E e \in Returns : RunMethod(d, e)
      <4>1. pc'[Handler(c)] = pc[Handler(c)] /\ pc'[Worker(c)] = "called"
        BY <1>0, <2>3, <3>1, ThreadFacts DEF RunMethod, ControlOK
      <4> QED
        BY <2>1, <4>1 DEF Pending
    <3>2. CASE Called(d) \/ Timeout(d)
      BY <1>3, <2>1, <2>3, <3>2 DEF Called, Timeout, Pending
    <3>3. CASE Sent(d)
      <4>1. pc'[Handler(c)] = "returned"
        BY <1>0, <2>3, <3>3, ThreadFacts DEF Sent, ControlOK
      <4> QED
        BY <2>1, <4>1 DEF Pending
    <3> QED
      BY <1>9, <3>1, <3>2, <3>3 DEF Meet
  <2> QED
    BY <2>2, <2>3
<1> QED
  BY <1>6, <1>7, <1>8, <1>9 DEF ServerStep

\* The state is well formed, and the loop of serverCodec has a request exactly
\* while it reads or answers one.
THEOREM TypeCorrect == Spec => []TypeOK
BY Invariance, PTL DEF IndInv

\* No request gets two responses, however its timeout, its method and the loop
\* race for the answer, with any number of requests on the connection.
THEOREM OneResponsePerRequest == Spec => []AtMostOneResponse
<1>1. IndInv => AtMostOneResponse
  BY DEF IndInv, Phases, Phase, AtMostOneResponse
<1> QED
  BY <1>1, Invariance, PTL

\* Responses of different goroutines do not interleave on the connection: the
\* mutex of serverCodec and the flush at the end of Write keep frames whole.
THEOREM ResponsesAreFramed == Spec => []ResponseFraming
BY Invariance, PTL DEF IndInv

\* A response without an error is the outcome of one run of a method that
\* registerMethods should have let through, of the receiver stored under the name
\* asked for; the run returned nil, or an error without a text.
THEOREM SuccessIsARun == Spec => []SuccessMeansExecuted
<1>1. IndInv => SuccessMeansExecuted
  <2> SUFFICES ASSUME IndInv, NEW i \in 1 .. Len(s2c), ~s2c[i].err
               PROVE  /\ executed[s2c[i].call] = 1 /\ werr[s2c[i].call] # "text"
                      /\ \E r \in Receivers : Callable(MethodOf[s2c[i].call], r)
    BY DEF SuccessMeansExecuted
  <2>1. s2c[i] \in Item
    BY ElementOfSeq DEF IndInv, TypeOK
  <2>2. s2c[i].call \in Calls /\ s2c[i].err = FALSE
    BY <2>1 DEF Item
  <2>3. Said(s2c[i].call, FALSE)
    BY <2>2 DEF IndInv, History, Told
  <2>4. Succeeded(s2c[i].call)
    BY <2>2, <2>3 DEF IndInv, History, Answers
  <2> QED
    BY <2>2, <2>4, IsCallableMeans DEF IndInv, Succeeded
<1> QED
  BY <1>1, Invariance, PTL

\* The loop closes the connection when every request it took on was answered and
\* nobody is left to write: wait.Wait() waits for enough.  What else closes it is a
\* Write that failed, a panic that net/http recovers, or the end of the process.
THEOREM ServedConnectionsAreDrained == Spec => ClosedAfterHandlers
<1> DEFINE Fails == \E t \in Threads :
                      pc[t] \in {"head", "body"} /\ pc'[t] = AfterResponse(t)
           Recovers == pc[Loop] = "newReplyv" /\ pc'[Loop] = "closed"
           Closes == sOpen /\ ~sOpen' => NoneLeft' \/ Fails \/ Recovers \/ ~Alive'
<1>1. IndInv /\ [Next]_vars => Closes
  <2> SUFFICES ASSUME IndInv, [Next]_vars, sOpen, ~sOpen'
               PROVE  NoneLeft' \/ Fails \/ Recovers \/ ~Alive'
    OBVIOUS
  <2> USE DEF reqVars, bufVars, wireVars
  <2>0. TypeOK /\ ControlOK /\ Phases /\ Fresh
    BY TypeParts DEF IndInv
  <2>1. ASSUME UNCHANGED answered, \A t \in Threads \ {Loop} : pc'[t] = pc[t],
               pc'[Loop] = "closed",
               \A c \in Calls : pc[Handler(c)] \in {"none", "returned"}
        PROVE  NoneLeft'
    <3>1. ASSUME NEW c \in Calls
          PROVE  /\ \/ pc'[Handler(c)] = "none"
                    \/ pc'[Handler(c)] = "returned" /\ answered'[c] = 1
                 /\ pc'[Handler(c)] \notin {"lock", "head", "body"}
                 /\ pc'[Worker(c)] \notin {"lock", "head", "body"}
      <4>1. pc'[Handler(c)] = pc[Handler(c)] /\ pc'[Worker(c)] = pc[Worker(c)]
        BY <2>1, ThreadFacts
      <4>2. Phase(c) /\ pc[Handler(c)] \in {"none", "returned"}
        BY <2>0, <2>1 DEF Phases
      <4> QED
        BY <2>1, <4>1, <4>2 DEF Phase
    <3>2. \A t \in Threads : pc'[t] \notin {"lock", "head", "body"}
      BY <2>1, <3>1, ThreadFacts
    <3> QED
      BY <3>1, <3>2 DEF NoneLeft
  <2>2. CASE Die
    BY <2>2, ThreadFacts DEF Die, Alive
  <2>3. CASE RefuseOption \/ Drain
    <3>1. /\ UNCHANGED answered /\ pc'[Loop] = "closed"
          /\ \A t \in Threads \ {Loop} : pc'[t] = pc[t]
      BY <2>0, <2>3, ThreadFacts DEF RefuseOption, Drain, ControlOK
    <3>2. \A c \in Calls : pc[Handler(c)] \in {"none", "returned"}
      BY <2>0, <2>3 DEF RefuseOption, Drain, WaitDone, Fresh
    <3> QED
      BY <2>1, <3>1, <3>2
  <2>4. CASE RecoveredPanic
    BY <2>0, <2>4, ThreadFacts DEF RecoveredPanic, ControlOK
  <2>5. ASSUME NEW t \in Threads, SendResponse(t) PROVE Fails
    <3>1. pc[t] \in {"head", "body"} /\ Return(t)
      BY <2>5 DEF SendResponse, LockSend, WriteHead, WriteBody
    <3>2. pc'[t] = AfterResponse(t)
      BY <2>0, <3>1 DEF Return, ControlOK
    <3> QED
      BY <3>1, <3>2
  <2>6. CASE Program
    BY <2>2, <2>6 DEF Program, Panic, Register
  <2>7. CASE ConnStep
    BY <2>2, <2>3, <2>4, <2>7
       DEF ConnStep, ReadOption, ReadHeader, ReadHeaderFail, ReplyPanic, ReadArgs,
           ReadArgsFail
  <2>8. ASSUME NEW c \in Calls,
               (\E e \in Returns : RunMethod(c, e)) \/ Meet(c) \/ Timeout(c)
        PROVE  FALSE
    BY <2>8 DEF RunMethod, Meet, Called, Sent, Timeout
  <2>9. ~Peer /\ ~UNCHANGED vars
    BY DEF Peer, PeerSend, PeerBreak, PeerReceive, PeerClose, vars
  <2> QED
    BY <2>5, <2>6, <2>7, <2>8, <2>9 DEF Next, ServerStep
<1> QED
  BY <1>1, Invariance, PTL DEF Spec, ClosedAfterHandlers
=============================================================================
