----------------------------- MODULE RpcServer -----------------------------
(***************************************************************************)
(* One connection of the RPC server: ServerConn, serverCodec, readRequest, *)
(* sendResponse and handleRequest of MyRPC/server.go, with the gob codec.  *)
(*                                                                         *)
(* The goroutine of the connection (Loop) reads the option and then the    *)
(* requests.  Every request that can be handled gets two goroutines: the   *)
(* handler, which waits for the outcome or the timeout, and the worker,    *)
(* which runs the method.  All three kinds answer through sendResponse,    *)
(* under one mutex.  The handler and its worker meet on two unbuffered     *)
(* channels, `called' and `sent': a send is a step of both.                *)
(*                                                                         *)
(* A request is named by its call; the header's Seq travels with it.  The  *)
(* peer sends requests, whole or cut short after the header, reads         *)
(* responses and may close its end at any time.                            *)
(*                                                                         *)
(* The connection comes from Accept or, hijacked, from ServeHTTP.  The two *)
(* differ in what becomes of a panic on the connection's goroutine: only   *)
(* net/http recovers it.                                                   *)
(***************************************************************************)
EXTENDS Service, FiniteSets

CONSTANTS
    Calls,          \* the requests a client can send
    NoCall,
    MethodOf,       \* the ServiceMethod of each
    Receivers,      \* what the program may register, before or while it serves
    BadArgs,        \* calls whose body may not decode into the argument
    BadReply,       \* calls whose method may leave a reply that gob refuses
    Options,        \* the options the peer may open with
    Panics,         \* whether a method, on any connection, may panic
    ReadAhead       \* how many values json.Decoder may buffer behind the option

ASSUME ServerAssumption ==
    /\ NoCall \notin Calls
    /\ BadArgs \subseteq Calls /\ BadReply \subseteq Calls
    /\ \A c \in Calls : MethodOf[c] \in Seq(STRING) /\ MethodOf[c] # << >>
    /\ \A r \in Receivers : \A m \in DOMAIN r.methods :
         r.methods[m].in \in Seq(Kinds) /\ r.methods[m].out \in Seq(Kinds)
    /\ Panics \in BOOLEAN
    /\ Options \subseteq {"plain", "timeout", "badMagic", "badCodec", "notJson"}
    /\ ReadAhead \in Nat

VARIABLES
    serviceMap,                   \* Server: the services by name
    opt,                          \* the option on the stream
    pc,                           \* the goroutines
    cur,                          \* the request the loop is reading
    rseq, herr,                   \* Seq and Error of a request's header
    werr,                         \* what the method returned
    executed, answered,           \* history: runs and response headers per call
    desync,                       \* the decoder lost the beginning of the stream
    wbuf, bufErr,                 \* the codec's bufio.Writer
    c2s, s2c, cOpen, sOpen,       \* the connection and its two ends
    sent                          \* calls the peer has sent

reqVars == <<cur, rseq, herr, werr, executed, answered>>
bufVars == <<wbuf, bufErr>>
wireVars == <<c2s, s2c, cOpen, sOpen>>
vars == <<serviceMap, opt, pc, cur, rseq, herr, werr, executed, answered, desync,
          wbuf, bufErr, c2s, s2c, cOpen, sOpen, sent>>

-----------------------------------------------------------------------------
Loop == <<"loop", NoCall>>
Handler(c) == <<"handler", c>>
Worker(c) == <<"worker", c>>
Threads == {Loop} \cup {Handler(c) : c \in Calls} \cup {Worker(c) : c \in Calls}

\* What a method may return: no error, or one whose Error() is empty or not.
Returns == {"nil", "empty", "text"}

Item == [k : {"head", "body"}, seq : Nat, call : Calls, err : BOOLEAN]
Frame(s, c, e) == << [k |-> "head", seq |-> s, call |-> c, err |-> e],
                     [k |-> "body", seq |-> s, call |-> c, err |-> e] >>

\* The option is accepted; it may set a HandleTimeout (the default has none).
GoodOption == opt \in {"plain", "timeout"}
HandleTimeout == opt = "timeout"

\* Both ends are open.  Otherwise reads may fail, what is in flight included,
\* and writes no longer arrive.
Up == cOpen /\ sOpen

\* The request a goroutine answers.
ReqOf(t) == IF t = Loop THEN cur ELSE t[2]

\* `send' of serverCodec is held while a response is written.

SendFree_NoMutex == TRUE    \* mutant: sendResponse does not lock

SendFree == \A t \in Threads : pc[t] \notin {"head", "body"}

\* Mutant: the worker forgets sent <- struct{}{}.
AfterResponse_NoSent(t) == CASE t[1] = "loop" -> "header"
                             [] t[1] = "handler" -> "returned"
                             [] t[1] = "worker" -> "returned"

\* Where sendResponse returns to.
AfterResponse(t) == CASE t[1] = "loop" -> "header"
                      [] t[1] = "handler" -> "returned"
                      [] t[1] = "worker" -> "sent"

Init ==
    /\ serviceMap = << >>
    /\ opt \in Options
    /\ pc = [t \in Threads |-> IF t = Loop THEN "option" ELSE "none"]
    /\ cur = NoCall
    /\ rseq = [c \in Calls |-> 0]
    /\ herr = [c \in Calls |-> FALSE]
    /\ werr = [c \in Calls |-> "nil"]
    /\ executed = [c \in Calls |-> 0]
    /\ answered = [c \in Calls |-> 0]
    /\ desync = FALSE
    /\ wbuf = << >> /\ bufErr = FALSE
    /\ c2s = << >> /\ s2c = << >> /\ cOpen = TRUE /\ sOpen = TRUE
    /\ sent = {}

\* A panic that nothing recovers, or log.Fatal: the process ends, its goroutines
\* where they are, and the kernel closes the connection.
Die ==
    /\ pc' = [t \in Threads |-> "dead"]
    /\ cur' = NoCall
    /\ wbuf' = << >>
    /\ sOpen' = FALSE

-----------------------------------------------------------------------------
(* The program that owns the server.                                       *)

Alive == pc[Loop] # "dead"

\* LoadOrStore: a name that is taken keeps its service.
Stored(s) == [n \in DOMAIN serviceMap \cup {s.name} |->
                IF n \in DOMAIN serviceMap THEN serviceMap[n] ELSE s]

\* Register; newService exits on a name that is not exported.
Register(r) ==
    /\ Alive
    /\ \/ /\ r.exported
          /\ serviceMap' = Stored(newService(r))
          /\ UNCHANGED <<pc, cur, wbuf, sOpen>>
       \/ /\ ~r.exported
          /\ Die
          /\ UNCHANGED serviceMap
    /\ UNCHANGED <<opt, rseq, herr, werr, executed, answered, desync, bufErr, c2s, s2c,
                   cOpen, sent>>

\* A worker is about to call a method with a reply of the wrong type.
CallFails(c) ==
    pc[Worker(c)] = "call" /\ CallPanics(MType(serviceMap, MethodOf[c]))

\* A method panics, or its call does; no worker recovers.
Panic ==
    /\ Alive
    /\ Panics \/ \E c \in Calls : CallFails(c)
    /\ Die
    /\ UNCHANGED <<serviceMap, opt, rseq, herr, werr, executed, answered, desync,
                   bufErr, c2s, s2c, cOpen, sent>>

-----------------------------------------------------------------------------
(* The connection's goroutine.                                             *)

\* ServerConn: decode the option and check it.  The JSON decoder reads whatever
\* has arrived, and what it buffered behind the option is not seen by the codec.
ReadOption(n) ==
    /\ pc[Loop] = "option"
    /\ GoodOption
    /\ n \in 0 .. ReadAhead /\ n <= Len(c2s)
    /\ c2s' = SubSeq(c2s, n + 1, Len(c2s))
    /\ desync' = (n > 0)
    /\ pc' = [pc EXCEPT ![Loop] = "header"]
    /\ UNCHANGED <<serviceMap, opt, reqVars, bufVars, s2c, cOpen, sOpen, sent>>

\* A bad option, or none: the deferred conn.Close.
RefuseOption ==
    /\ pc[Loop] = "option"
    /\ ~GoodOption
    /\ pc' = [pc EXCEPT ![Loop] = "closed"]
    /\ sOpen' = FALSE
    /\ UNCHANGED <<serviceMap, opt, reqVars, desync, bufVars, c2s, s2c, cOpen, sent>>

\* readRequest up to newReplyv, which panics or not: an unknown service or method
\* is answered before its body is read.
ReadHeader ==
    /\ pc[Loop] = "header"
    /\ sOpen /\ c2s # << >>
    /\ ~desync /\ Head(c2s).k = "head"
    /\ LET c == Head(c2s).call
           found == Found(serviceMap, MethodOf[c])
       IN
        /\ rseq' = [rseq EXCEPT ![c] = Head(c2s).seq]
        /\ herr' = [herr EXCEPT ![c] = ~found]
        /\ cur' = c
        /\ pc' = [pc EXCEPT ![Loop] =
                     IF ~found THEN "lock"
                     ELSE IF ReplyPanics(MType(serviceMap, MethodOf[c])) THEN "newReplyv"
                     ELSE "args"]
    /\ c2s' = Tail(c2s)
    /\ UNCHANGED <<serviceMap, opt, werr, executed, answered, desync, bufVars, s2c, cOpen,
                   sOpen, sent>>

\* newReplyv takes Elem of a reply type that has none.  Under Accept nothing
\* recovers.
ReplyPanic ==
    /\ pc[Loop] = "newReplyv"
    /\ Die
    /\ UNCHANGED <<serviceMap, opt, rseq, herr, werr, executed, answered, desync,
                   bufErr, c2s, s2c, cOpen, sent>>

\* Under ServeHTTP net/http recovers: the connection's goroutine ends with the
\* deferred conn.Close, without wait.Wait, and the handlers go on.
RecoveredPanic ==
    /\ pc[Loop] = "newReplyv"
    /\ pc' = [pc EXCEPT ![Loop] = "closed"]
    /\ cur' = NoCall
    /\ sOpen' = FALSE
    /\ UNCHANGED <<serviceMap, opt, rseq, herr, werr, executed, answered, desync, bufVars,
                   c2s, s2c, cOpen, sent>>

\* The header cannot be read: leave the loop.
ReadHeaderFail ==
    /\ pc[Loop] = "header"
    /\ \/ ~Up
       \/ c2s # << >> /\ (desync \/ Head(c2s).k # "head")
    /\ pc' = [pc EXCEPT ![Loop] = "drain"]
    /\ UNCHANGED <<serviceMap, opt, reqVars, desync, bufVars, wireVars, sent>>

\* The body decodes: start the handler, which starts the worker.
ReadArgs ==
    /\ pc[Loop] = "args"
    /\ sOpen /\ c2s # << >>
    /\ Head(c2s).k = "body"
    /\ c2s' = Tail(c2s)
    /\ pc' = [pc EXCEPT ![Loop] = "header",
                        ![Handler(cur)] = "select",
                        ![Worker(cur)] = "call"]
    /\ cur' = NoCall
    /\ UNCHANGED <<serviceMap, opt, rseq, herr, werr, executed, answered, desync, bufVars, s2c,
                   cOpen, sOpen, sent>>

\* It does not, or it does not arrive, or another header does: the loop answers
\* with the error.
ReadArgsFail ==
    /\ pc[Loop] = "args"
    /\ \/ ~Up /\ UNCHANGED c2s
       \/ /\ sOpen /\ c2s # << >>
          /\ cur \in BadArgs \/ Head(c2s).k = "head"
          /\ c2s' = Tail(c2s)
    /\ herr' = [herr EXCEPT ![cur] = TRUE]
    /\ pc' = [pc EXCEPT ![Loop] = "lock"]
    /\ UNCHANGED <<serviceMap, opt, cur, rseq, werr, executed, answered, desync, bufVars, s2c,
                   cOpen, sOpen, sent>>

\* wait.Wait().
WaitDone_Skipped == TRUE    \* mutant: Close without waiting

WaitDone == \A c \in Calls : pc[Handler(c)] \in {"none", "returned"}

\* wait.Wait() and Close.
Drain ==
    /\ pc[Loop] = "drain"
    /\ WaitDone
    /\ pc' = [pc EXCEPT ![Loop] = "closed"]
    /\ sOpen' = FALSE
    /\ UNCHANGED <<serviceMap, opt, reqVars, desync, bufVars, c2s, s2c, cOpen, sent>>

-----------------------------------------------------------------------------
(* handleRequest and the goroutine it starts.                              *)

\* The method runs and returns, with an error or not.
RunMethod(c, e) ==
    /\ pc[Worker(c)] = "call"
    /\ ~CallFails(c)
    /\ executed' = [executed EXCEPT ![c] = @ + 1]
    /\ werr' = [werr EXCEPT ![c] = e]
    /\ pc' = [pc EXCEPT ![Worker(c)] = "called"]
    /\ UNCHANGED <<serviceMap, opt, cur, rseq, herr, answered, desync, bufVars, wireVars, sent>>

\* Mutants: `called' is buffered, so the worker answers although the handler has
\* timed out; the method's error is dropped.
Called_Buffered(c) ==
    /\ pc[Worker(c)] = "called"
    /\ herr' = [herr EXCEPT ![c] = (werr[c] = "text")]
    /\ pc' = [pc EXCEPT ![Worker(c)] = "lock",
                        ![Handler(c)] = IF @ = "select" THEN "sent" ELSE @]
    /\ UNCHANGED <<serviceMap, opt, cur, rseq, werr, executed, answered, desync, bufVars, wireVars,
                   sent>>
Called_DropsError(c) ==
    /\ pc[Worker(c)] = "called"
    /\ pc[Handler(c)] = "select"
    /\ pc' = [pc EXCEPT ![Worker(c)] = "lock", ![Handler(c)] = "sent"]
    /\ UNCHANGED <<serviceMap, opt, reqVars, desync, bufVars, wireVars, sent>>

\* called <- struct{}{} meets <-called: the worker goes on to answer.  It copies the
\* text of the method's error, and a header without a text says that there is none.
Called(c) ==
    /\ pc[Worker(c)] = "called"
    /\ pc[Handler(c)] = "select"
    /\ herr' = [herr EXCEPT ![c] = (werr[c] = "text")]
    /\ pc' = [pc EXCEPT ![Worker(c)] = "lock", ![Handler(c)] = "sent"]
    /\ UNCHANGED <<serviceMap, opt, cur, rseq, werr, executed, answered, desync, bufVars, wireVars,
                   sent>>

\* time.After: the handler answers and nobody will receive from `called'.
Timeout(c) ==
    /\ HandleTimeout
    /\ pc[Handler(c)] = "select"
    /\ herr' = [herr EXCEPT ![c] = TRUE]
    /\ pc' = [pc EXCEPT ![Handler(c)] = "lock"]
    /\ UNCHANGED <<serviceMap, opt, cur, rseq, werr, executed, answered, desync, bufVars, wireVars,
                   sent>>

\* sent <- struct{}{} meets <-sent, and the handler's wait.Done.
Sent(c) ==
    /\ pc[Worker(c)] = "sent"
    /\ pc[Handler(c)] = "sent"
    /\ pc' = [pc EXCEPT ![Worker(c)] = "returned", ![Handler(c)] = "returned"]
    /\ UNCHANGED <<serviceMap, opt, reqVars, desync, bufVars, wireVars, sent>>

-----------------------------------------------------------------------------
(* sendResponse, by any goroutine.                                         *)

LockSend(t) ==
    /\ pc[t] = "lock"
    /\ SendFree
    /\ pc' = [pc EXCEPT ![t] = "head"]
    /\ UNCHANGED <<serviceMap, opt, reqVars, desync, bufVars, wireVars, sent>>

\* The end of sendResponse, which only logs an error of Write; the loop's
\* request is done with.
Return(t) ==
    /\ pc' = [pc EXCEPT ![t] = AfterResponse(t)]
    /\ cur' = IF t = Loop THEN NoCall ELSE cur

\* Encode the header.  A flush that failed earlier is reported here, and makes
\* Write close the connection.
WriteHead(t) ==
    /\ pc[t] = "head"
    /\ LET c == ReqOf(t) IN
        /\ answered' = [answered EXCEPT ![c] = @ + 1]
        /\ \/ /\ bufErr
              /\ Return(t)
              /\ sOpen' = FALSE
              /\ UNCHANGED wbuf
           \/ /\ ~bufErr
              /\ pc' = [pc EXCEPT ![t] = "body"]
              /\ wbuf' = Append(wbuf, Frame(rseq[c], c, herr[c])[1])
              /\ UNCHANGED <<cur, sOpen>>
    /\ UNCHANGED <<serviceMap, opt, rseq, herr, werr, executed, desync, bufErr, c2s, s2c, cOpen,
                   sent>>

Flush(buf) ==
    /\ wbuf' = << >>
    /\ s2c' = IF Up THEN s2c \o buf ELSE s2c
    /\ bufErr' \in (IF Up THEN {FALSE} ELSE IF sOpen THEN BOOLEAN ELSE {TRUE})

\* Encode the body, the reply or, after any error, invalidRequest, and flush.  If gob
\* refuses the reply the header is flushed alone and the connection closed.
WriteBody(t) ==
    /\ pc[t] = "body"
    /\ LET c == ReqOf(t) IN
        \/ /\ ~herr[c] /\ werr[c] = "nil" /\ c \in BadReply
           /\ Flush(wbuf)
           /\ sOpen' = FALSE
        \/ /\ Flush(Append(wbuf, Frame(rseq[c], c, herr[c])[2]))
           /\ UNCHANGED sOpen
    /\ Return(t)
    /\ UNCHANGED <<serviceMap, opt, rseq, herr, werr, executed, answered, desync, c2s, cOpen, sent>>

-----------------------------------------------------------------------------
(* The peer.                                                               *)

\* It sends a request, Seq being the next number.
PeerSend(c) ==
    /\ cOpen
    /\ c \notin sent
    /\ sent' = sent \cup {c}
    /\ c2s' = IF sOpen THEN c2s \o Frame(Cardinality(sent) + 1, c, FALSE) ELSE c2s
    /\ UNCHANGED <<serviceMap, opt, pc, reqVars, desync, bufVars, s2c, cOpen, sOpen>>

\* Its Write fails on the body: the header alone arrives.  A client closes its end
\* next.
PeerBreak(c) ==
    /\ cOpen
    /\ c \notin sent
    /\ sent' = sent \cup {c}
    /\ c2s' = IF sOpen THEN Append(c2s, Frame(Cardinality(sent) + 1, c, FALSE)[1])
              ELSE c2s
    /\ UNCHANGED <<serviceMap, opt, pc, reqVars, desync, bufVars, s2c, cOpen, sOpen>>

PeerReceive ==
    /\ cOpen
    /\ s2c # << >>
    /\ s2c' = Tail(s2c)
    /\ UNCHANGED <<serviceMap, opt, pc, reqVars, desync, bufVars, c2s, cOpen, sOpen, sent>>

PeerClose ==
    /\ cOpen
    /\ cOpen' = FALSE
    /\ UNCHANGED <<serviceMap, opt, pc, reqVars, desync, bufVars, c2s, s2c, sOpen, sent>>

-----------------------------------------------------------------------------
ConnStep == \/ \E n \in 0 .. ReadAhead : ReadOption(n)
            \/ RefuseOption \/ ReadHeader \/ ReadHeaderFail
            \/ ReplyPanic \/ RecoveredPanic
            \/ ReadArgs \/ ReadArgsFail \/ Drain
SendResponse(t) == LockSend(t) \/ WriteHead(t) \/ WriteBody(t)
Meet(c) == Called(c) \/ Sent(c)
Peer == \/ \E c \in Calls : PeerSend(c) \/ PeerBreak(c)
        \/ PeerReceive \/ PeerClose

Program == Panic \/ \E r \in Receivers : Register(r)

ServerStep == \/ Program
              \/ ConnStep
              \/ \E t \in Threads : SendResponse(t)
              \/ \E c \in Calls : \/ \E e \in Returns : RunMethod(c, e)
                                  \/ Meet(c)
                                  \/ Timeout(c)

Next == ServerStep \/ Peer

Spec == Init /\ [][Next]_vars

\* While a goroutine of the connection can run or its timer expire, one does; all
\* of them are finite.  That a method returns is assumed only when no
\* HandleTimeout protects the handler from it.
Progress == \/ ConnStep
            \/ \E t \in Threads : SendResponse(t)
            \/ \E c \in Calls : \/ Meet(c) \/ Timeout(c)
                                \/ CallFails(c) /\ Panic
                                \/ ~HandleTimeout /\ \E e \in Returns : RunMethod(c, e)

Fairness == WF_vars(Progress)

FairSpec == Spec /\ Fairness

-----------------------------------------------------------------------------
\* The state is well formed; the loop of serverCodec has a request exactly while it
\* reads or answers one (server.go:132-144).
TypeOK ==
    /\ \A n \in DOMAIN serviceMap : serviceMap[n].name = n
    /\ opt \in Options
    /\ pc \in [Threads -> {"none", "option", "header", "newReplyv", "args", "drain",
                           "closed", "select", "call", "called", "sent", "returned",
                           "lock", "head", "body", "dead"}]
    /\ cur \in Calls \cup {NoCall}
    /\ cur # NoCall <=> pc[Loop] \in {"newReplyv", "args", "lock", "head", "body"}
    /\ rseq \in [Calls -> Nat]
    /\ herr \in [Calls -> BOOLEAN] /\ werr \in [Calls -> Returns]
    /\ executed \in [Calls -> Nat] /\ answered \in [Calls -> Nat]
    /\ desync \in BOOLEAN
    /\ wbuf \in Seq(Item) /\ bufErr \in BOOLEAN
    /\ c2s \in Seq(Item) /\ s2c \in Seq(Item)
    /\ cOpen \in BOOLEAN /\ sOpen \in BOOLEAN
    /\ sent \subseteq Calls

\* A request gets one response, however the timeout (server.go:237), the method's
\* return (server.go:220) and the loop's own error replies (server.go:139) race.
AtMostOneResponse == \A c \in Calls : answered[c] <= 1

\* Responses written by different goroutines never interleave: a header is
\* followed by its own body, and only a failed Write leaves one alone, last.
ResponseFraming ==
    /\ \A i \in 1 .. Len(s2c) :
         s2c[i].k = "head" =>
           \/ i < Len(s2c) /\ s2c[i + 1] = [s2c[i] EXCEPT !.k = "body"]
           \/ i = Len(s2c) /\ ~sOpen
    /\ \A i \in 2 .. Len(s2c) : s2c[i].k = "body" => s2c[i - 1].k = "head"

\* What the server may call: a method that the receiver offers whose service is
\* stored under the name asked for, with an argument and a pointer for the reply,
\* both of exported or builtin types, and one result, an error.
Callable(sm, r) ==
    /\ r.exported /\ sm = <<r.name, sm[Len(sm)]>>
    /\ r.name \in DOMAIN serviceMap /\ serviceMap[r.name] = newService(r)
    /\ LET sig == r.methods[sm[Len(sm)]]
       IN  /\ sig.out = <<"error">>
           /\ Len(sig.in) = 3 /\ sig.in[2] # "unexported" /\ sig.in[3] = "pointer"

\* A response without an error is the outcome of exactly one run of a method that
\* registerMethods should have let through (service.go:65-67), of the receiver that
\* took the name first (server.go:89).  The run returned nil, or an error without a
\* text, which the header cannot tell from nil (server.go:222).  A request that a
\* timeout or an error answered first gets none.
SuccessMeansExecuted ==
    \A i \in 1 .. Len(s2c) :
        ~s2c[i].err => /\ executed[s2c[i].call] = 1
                       /\ werr[s2c[i].call] # "text"
                       /\ \E r \in Receivers : Callable(MethodOf[s2c[i].call], r)

\* Every request that got a handler is answered, and nobody is about to write.
NoneLeft ==
    /\ \A c \in Calls : \/ pc[Handler(c)] = "none"
                        \/ pc[Handler(c)] = "returned" /\ answered[c] = 1
    /\ \A t \in Threads : pc[t] \notin {"lock", "head", "body"}

\* The server closes its end under goroutines that have yet to answer only when
\* one's own Write fails (gob.go:49-51), when net/http recovers a panic of newReplyv
\* (server.go:63-65), or with its whole process.  The loop itself never does: its
\* Close comes when no handler is left (server.go:145-149).
ClosedAfterHandlers ==
    [][sOpen /\ ~sOpen' =>
          \/ NoneLeft'
          \/ \E t \in Threads : pc[t] \in {"head", "body"} /\ pc'[t] = AfterResponse(t)
          \/ pc[Loop] = "newReplyv" /\ pc'[Loop] = "closed"
          \/ ~Alive']_vars

\* Every handler ends, whether its method, its timer or the connection is first, so
\* wait.Wait() is never stuck (server.go:145); and once the client is gone the
\* server gives its end of the connection up.
ConnectionSettles ==
    <>[](/\ \A c \in Calls : pc[Handler(c)] \in {"none", "returned", "dead"}
         /\ ~cOpen => pc[Loop] \in {"closed", "dead"})

\* The loop gives up on a header only because the client is gone
\* (server.go:175).
HeaderErrorMeansClientGone == pc[Loop] = "drain" => ~Up
=============================================================================
