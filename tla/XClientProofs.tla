--------------------------- MODULE XClientProofs ---------------------------
(***************************************************************************)
(* Proofs about XClient, for any number of servers, callers, broadcasts    *)
(* and clients.                                                            *)
(*                                                                         *)
(* NoClientLeaked rests on X.mu: only its holder is dialling, and the      *)
(* address it dials has no entry in X.clients, so the entry it makes       *)
(* overwrites nothing (DialLock).  The two properties of Broadcast rest on *)
(* what a worker leaves behind: an outcome before it settles, and an error *)
(* or a reply in the broadcast's variables after (Outcomes, Settled).      *)
(***************************************************************************)
EXTENDS XClient, TLAPS

Failures == {"dial", "shutdown", "err", "ctx"}

XClientTypeOK ==
    /\ DOMAIN clients \subseteq Addrs
    /\ clients \in [DOMAIN clients -> Ids]
    /\ cstate \in [Ids -> {"none", "up", "down", "closed"}]
    /\ wpc \in [Workers -> {"idle", "dial", "dialing", "begin", "sent", "settle", "done"}]
    /\ using \in [Workers -> Ids \cup {NoClient}]
    /\ outcome \in [Workers -> Failures \cup {"none", "ok", "discovery"}]
    /\ e \in [Broadcasts -> Failures \cup {"none"}]
    /\ reply \in [Broadcasts -> Workers \cup {NoWorker, NotWanted}]
    /\ cancelled \in [Broadcasts -> BOOLEAN]
    /\ parent \in [Broadcasts -> BOOLEAN]
    /\ result \in [Broadcasts -> Failures \cup {"none", "ok", "discovery"}]

\* X.mu: one worker at a time is in XDial, for an address without a client.
DialLock ==
    /\ \A v, w \in Workers : wpc[v] = "dialing" /\ wpc[w] = "dialing" => v = w
    /\ \A w \in Workers : wpc[w] = "dialing" => AddrOf[w] \notin DOMAIN clients

\* A worker of a broadcast has an outcome before it settles, and the error of a
\* context only when its broadcast's context is done.
Outcomes ==
    \A b \in Broadcasts : \A w \in Part[b] :
        /\ wpc[w] = "settle" => outcome[w] \in Failures \cup {"ok"}
        /\ outcome[w] = "ctx" => cancelled[b] \/ parent[b]

\* What the workers that are done have left in the variables of their broadcast.
SettledIn(b) ==
    /\ e[b] # "none" => \E w \in Part[b] : wpc[w] = "done" /\ outcome[w] = e[b]
    /\ e[b] = "none" => \A w \in Part[b] : wpc[w] = "done" =>
                            outcome[w] = "ok" /\ reply[b] # NoWorker
    /\ result[b] \notin {"none", "discovery"} =>
         /\ \A w \in Part[b] : wpc[w] = "done"
         /\ result[b] = IF e[b] = "none" THEN "ok" ELSE e[b]
Settled == \A b \in Broadcasts : SettledIn(b)

IndInv == /\ XClientTypeOK /\ DialLock /\ NoClientLeaked
          /\ Outcomes /\ FirstErrorIsReported /\ Settled

-----------------------------------------------------------------------------
(* Types and the cache of clients.                                         *)

\* The parts of the state keep their shape.
LEMMA TypeStep == XClientTypeOK /\ Outcomes /\ [Next]_vars => XClientTypeOK'
<1> SUFFICES ASSUME XClientTypeOK, Outcomes, [Next]_vars PROVE XClientTypeOK'
  OBVIOUS
<1> USE XClientAssumption DEF XClientTypeOK, castVars, Failures
<1>1. CASE UNCHANGED vars
  BY <1>1 DEF vars
<1>2. ASSUME NEW w \in Workers, Call(w) PROVE XClientTypeOK'
  BY <1>2 DEF Call
<1>3. ASSUME NEW w \in Workers, Dial(w) PROVE XClientTypeOK'
  BY <1>3 DEF Dial, Cached, IsAvailable, Restrict, NoClient
<1>4. ASSUME NEW w \in Workers, NEW i \in Ids, Dialled(w, i) PROVE XClientTypeOK'
  BY <1>4 DEF Dialled
<1>5. ASSUME NEW w \in Workers, DialFail(w) \/ Begin(w) \/ CallReturn(w)
      PROVE  XClientTypeOK'
  BY <1>5 DEF DialFail, Begin, CallReturn
<1>6. ASSUME NEW w \in Workers, NEW o \in {"ok", "err", "ctx"}, Answer(w, o)
      PROVE  XClientTypeOK'
  BY <1>6 DEF Answer
<1>7. ASSUME NEW w \in Workers, NEW b \in Broadcasts, Settle(w, b)
      PROVE  XClientTypeOK'
  <2>1. outcome[w] \in Failures \cup {"ok"}
    BY <1>7 DEF Settle, Outcomes
  <2>2. e' \in [Broadcasts -> Failures \cup {"none"}]
    BY <1>7, <2>1 DEF Settle, KeepReply, KeepError
  <2>3. reply' \in [Broadcasts -> Workers \cup {NoWorker, NotWanted}]
    BY <1>7 DEF Settle, KeepReply, KeepError
  <2>4. cancelled' \in [Broadcasts -> BOOLEAN]
    <3>1. UNCHANGED cancelled \/ cancelled' = [cancelled EXCEPT ![b] = TRUE]
      BY <1>7 DEF Settle, KeepReply, KeepError
    <3> QED
      BY <3>1
  <2> QED
    BY <1>7, <2>2, <2>3, <2>4 DEF Settle
<1>8. ASSUME NEW b \in Broadcasts, Broadcast(b) PROVE XClientTypeOK'
  BY <1>8 DEF Broadcast
<1>9. ASSUME NEW b \in Broadcasts, BroadcastReturn(b) \/ ParentCancel(b)
      PROVE  XClientTypeOK'
  BY <1>9 DEF BroadcastReturn, ParentCancel
<1>10. ASSUME NEW i \in Ids, Lose(i) PROVE XClientTypeOK'
  BY <1>10 DEF Lose
<1>11. CASE Close
  BY <1>11 DEF Close
<1> QED
  BY <1>1, <1>2, <1>3, <1>4, <1>5, <1>6, <1>7, <1>8, <1>9, <1>10, <1>11
     DEF Next, DialEnd, GiveUp, Finish

\* Only Dial enters XDial, when nobody is there, and it leaves no client under
\* the address; nobody else adds an entry meanwhile.
LEMMA DialLockStep ==
    XClientTypeOK /\ DialLock /\ [Next]_vars => DialLock'
<1> SUFFICES ASSUME XClientTypeOK, DialLock, [Next]_vars PROVE DialLock'
  OBVIOUS
<1> USE XClientAssumption DEF XClientTypeOK, DialLock
<1>1. CASE UNCHANGED <<wpc, clients>>
  BY <1>1
<1>2. ASSUME NEW w \in Workers, Dial(w) PROVE DialLock'
  <2>1. /\ \A v \in Workers : wpc[v] # "dialing"
        /\ \A v \in Workers \ {w} : wpc'[v] = wpc[v]
    BY <1>2 DEF Dial, MuFree
  <2>2. wpc'[w] = "dialing" => AddrOf[w] \notin DOMAIN clients'
    <3>1. CASE Cached(AddrOf[w]) = NoClient /\ UNCHANGED clients
      BY <3>1 DEF Cached, NoClient, Ids
    <3>2. CASE clients' = Restrict(clients, DOMAIN clients \ {AddrOf[w]})
      BY <3>2 DEF Restrict
    <3>3. CASE wpc' = [wpc EXCEPT ![w] = "begin"]
      BY <3>3
    <3> QED
      BY <1>2, <3>1, <3>2, <3>3 DEF Dial
  <2> QED
    BY <2>1, <2>2
<1>3. ASSUME NEW w \in Workers, NEW i \in Ids, Dialled(w, i) PROVE DialLock'
  BY <1>3 DEF Dialled
<1>4. ASSUME NEW w \in Workers,
             \/ Call(w) \/ DialFail(w) \/ Begin(w) \/ CallReturn(w)
             \/ (\E o \in {"ok", "err", "ctx"} : Answer(w, o))
             \/ (\E b \in Broadcasts : Settle(w, b))
      PROVE  DialLock'
  <2>1. /\ clients' = clients /\ wpc'[w] # "dialing"
        /\ \A v \in Workers \ {w} : wpc'[v] = wpc[v]
    BY <1>4 DEF Call, DialFail, Begin, CallReturn, Answer, Settle
  <2> QED
    BY <2>1
<1>5. ASSUME NEW b \in Broadcasts, Broadcast(b) PROVE DialLock'
  BY <1>5 DEF Broadcast
<1>6. CASE Close
  BY <1>6 DEF Close, MuFree
<1> QED
  BY <1>1, <1>2, <1>3, <1>4, <1>5, <1>6
     DEF Next, DialEnd, GiveUp, Finish, BroadcastReturn, ParentCancel, Lose, vars

\* A client that is opened is entered, one that loses its entry is closed.
LEMMA LeakStep ==
    XClientTypeOK /\ DialLock /\ NoClientLeaked /\ [Next]_vars => NoClientLeaked'
<1> SUFFICES ASSUME XClientTypeOK, DialLock, NoClientLeaked, [Next]_vars,
                    NEW j \in Ids, cstate'[j] \in {"up", "down"}
             PROVE  \E a \in DOMAIN clients' : clients'[a] = j
  BY DEF NoClientLeaked, Range
<1> USE XClientAssumption DEF XClientTypeOK
<1>0. cstate[j] \in {"up", "down"} => \E a \in DOMAIN clients : clients[a] = j
  BY DEF NoClientLeaked, Range
<1>1. CASE UNCHANGED <<cstate, clients>>
  BY <1>0, <1>1
<1>2. ASSUME NEW w \in Workers, Dial(w)
      PROVE  \E a \in DOMAIN clients' : clients'[a] = j
  <2>1. CASE UNCHANGED <<cstate, clients>>
    BY <1>0, <2>1
  <2>2. CASE /\ AddrOf[w] \in DOMAIN clients
             /\ cstate' = [cstate EXCEPT ![clients[AddrOf[w]]] = "closed"]
             /\ clients' = Restrict(clients, DOMAIN clients \ {AddrOf[w]})
    <3>1. clients[AddrOf[w]] # j /\ cstate[j] \in {"up", "down"}
      BY <2>2
    <3> QED
      BY <1>0, <2>2, <3>1 DEF Restrict
  <2> QED
    BY <1>2, <2>1, <2>2 DEF Dial, Cached, NoClient
<1>3. ASSUME NEW w \in Workers, NEW i \in Ids, Dialled(w, i)
      PROVE  \E a \in DOMAIN clients' : clients'[a] = j
  <2>1. AddrOf[w] \notin DOMAIN clients
    BY <1>3 DEF Dialled, DialLock
  <2>2. /\ DOMAIN clients' = DOMAIN clients \cup {AddrOf[w]}
        /\ clients'[AddrOf[w]] = i
        /\ \A a \in DOMAIN clients : clients'[a] = clients[a]
    BY <1>3, <2>1 DEF Dialled
  <2>3. j # i => cstate'[j] = cstate[j]
    BY <1>3 DEF Dialled
  <2> QED
    BY <1>0, <2>2, <2>3
<1>4. ASSUME NEW i \in Ids, Lose(i) PROVE \E a \in DOMAIN clients' : clients'[a] = j
  BY <1>0, <1>4 DEF Lose
<1>5. CASE Close
  <2>1. j \notin Range(clients) /\ cstate'[j] = cstate[j]
    BY <1>5 DEF Close
  <2> QED
    BY <1>0, <2>1 DEF Range
<1> QED
  BY <1>1, <1>2, <1>3, <1>4, <1>5
     DEF Next, DialEnd, GiveUp, Finish, Call, DialFail, Begin, Answer, CallReturn,
         Settle, Broadcast, BroadcastReturn, ParentCancel, vars

-----------------------------------------------------------------------------
(* Broadcast.                                                              *)

\* A worker belongs to one broadcast at most.
LEMMA OneCast ==
    ASSUME NEW a \in Broadcasts, NEW b \in Broadcasts, NEW w \in Part[a], w \in Part[b]
    PROVE  a = b /\ w \in Workers
  BY XClientAssumption

\* An outcome is set on the way to "settle", and the error of the context only
\* when the context is done, which it stays.
LEMMA OutcomesStep ==
    XClientTypeOK /\ Outcomes /\ [Next]_vars => Outcomes'
<1> SUFFICES ASSUME XClientTypeOK, Outcomes, [Next]_vars,
                    NEW b \in Broadcasts, NEW v \in Part[b]
             PROVE  /\ wpc'[v] = "settle" => outcome'[v] \in Failures \cup {"ok"}
                    /\ outcome'[v] = "ctx" => cancelled'[b] \/ parent'[b]
  BY DEF Outcomes
<1> DEFINE Goal == /\ wpc'[v] = "settle" => outcome'[v] \in Failures \cup {"ok"}
                   /\ outcome'[v] = "ctx" => cancelled'[b] \/ parent'[b]
<1> USE XClientAssumption DEF XClientTypeOK, Failures, castVars
<1>0. /\ v \in Workers
      /\ wpc[v] = "settle" => outcome[v] \in Failures \cup {"ok"}
      /\ outcome[v] = "ctx" => cancelled[b] \/ parent[b]
  BY DEF Outcomes
<1>1. CASE UNCHANGED <<wpc, outcome, cancelled, parent>>
  BY <1>0, <1>1
<1>2. ASSUME NEW w \in Workers, Call(w) \/ CallReturn(w) PROVE Goal
  BY <1>0, <1>2 DEF Call, CallReturn
<1>3. ASSUME NEW w \in Workers, Dial(w) PROVE Goal
  <2>1. /\ wpc'[v] = "settle" => wpc[v] = "settle"
        /\ UNCHANGED <<outcome, cancelled, parent>>
    BY <1>0, <1>3 DEF Dial
  <2> QED
    BY <1>0, <2>1
<1>4. ASSUME NEW w \in Workers, NEW i \in Ids, Dialled(w, i) PROVE Goal
  BY <1>0, <1>4 DEF Dialled
<1>5. ASSUME NEW w \in Workers, DialFail(w) \/ Begin(w) PROVE Goal
  BY <1>0, <1>5 DEF DialFail, Begin
<1>6. ASSUME NEW w \in Workers, NEW o \in {"ok", "err"}, Answer(w, o) PROVE Goal
  BY <1>0, <1>6 DEF Answer
<1>7. ASSUME NEW w \in Workers, GiveUp(w) PROVE Goal
  <2>1. v = w => cancelled[b] \/ parent[b]
    BY <1>7, OneCast DEF GiveUp, Cancelled, CastOf
  <2> QED
    BY <1>0, <1>7, <2>1 DEF GiveUp, Answer
<1>8. ASSUME NEW w \in Workers, NEW a \in Broadcasts, Settle(w, a) PROVE Goal
  BY <1>0, <1>8 DEF Settle, KeepReply, KeepError
<1>9. ASSUME NEW a \in Broadcasts, Broadcast(a) PROVE Goal
  BY <1>0, <1>9 DEF Broadcast
<1>10. ASSUME NEW a \in Broadcasts, BroadcastReturn(a) \/ ParentCancel(a) PROVE Goal
  BY <1>0, <1>10 DEF BroadcastReturn, ParentCancel
<1> QED
  BY <1>1, <1>2, <1>3, <1>4, <1>5, <1>6, <1>7, <1>8, <1>9, <1>10
     DEF Next, DialEnd, Finish, Lose, Close, vars

\* The error that is kept is the first one; a "ctx" that comes first is not the
\* broadcast's own doing, since only an error cancels its context.
LEMMA FirstErrorStep ==
    XClientTypeOK /\ Outcomes /\ FirstErrorIsReported /\ [Next]_vars
    => FirstErrorIsReported'
<1> SUFFICES ASSUME XClientTypeOK, Outcomes, FirstErrorIsReported, [Next]_vars,
                    NEW b \in Broadcasts
             PROVE  /\ e'[b] = "ctx" => parent'[b]
                    /\ cancelled'[b] => e'[b] # "none"
  BY DEF FirstErrorIsReported
<1> DEFINE Goal == /\ e'[b] = "ctx" => parent'[b]
                   /\ cancelled'[b] => e'[b] # "none"
<1> USE XClientAssumption DEF XClientTypeOK, Failures, castVars
<1>0. /\ e[b] = "ctx" => parent[b]
      /\ cancelled[b] => e[b] # "none"
  BY DEF FirstErrorIsReported
<1>1. CASE UNCHANGED <<e, cancelled, parent>>
  BY <1>0, <1>1
<1>2. ASSUME NEW w \in Workers, NEW a \in Broadcasts, Settle(w, a) PROVE Goal
  <2>1. w \in Part[a] /\ outcome[w] \in Failures \cup {"ok"}
    BY <1>2 DEF Settle, Outcomes
  <2>2. outcome[w] = "ctx" => cancelled[a] \/ parent[a]
    BY <2>1 DEF Outcomes
  <2> QED
    BY <1>0, <1>2, <2>1, <2>2 DEF Settle, KeepReply, KeepError
<1>3. ASSUME NEW a \in Broadcasts, ParentCancel(a) PROVE Goal
  BY <1>0, <1>3 DEF ParentCancel
<1> QED
  BY <1>1, <1>2, <1>3
     DEF Next, DialEnd, GiveUp, Finish, Call, Dial, Dialled, DialFail, Begin, Answer,
         CallReturn, Broadcast, BroadcastReturn, Lose, Close, vars

\* A worker that is done stays done with its outcome; each that gets there leaves
\* its error or its reply; the result is taken when all are done.
LEMMA SettledStep ==
    XClientTypeOK /\ Outcomes /\ Settled /\ [Next]_vars => Settled'
<1> SUFFICES ASSUME XClientTypeOK, Outcomes, Settled, [Next]_vars,
                    NEW b \in Broadcasts
             PROVE  SettledIn(b)'
  BY DEF Settled
<1> USE XClientAssumption DEF XClientTypeOK, Failures, castVars
<1>0. SettledIn(b) /\ Part[b] \subseteq Workers
  BY DEF Settled
<1>1. CASE /\ \A w \in Part[b] : /\ wpc[w] = "done" <=> wpc'[w] = "done"
                                 /\ wpc[w] = "done" => outcome'[w] = outcome[w]
           /\ UNCHANGED <<e, reply, result>>
  BY <1>0, <1>1 DEF SettledIn
<1>2. ASSUME NEW w \in Workers, Call(w) \/ CallReturn(w) PROVE SettledIn(b)'
  <2>1. w \notin Part[b]
    BY <1>2 DEF Call, CallReturn, CastOf
  <2>2. /\ \A x \in Workers \ {w} : wpc'[x] = wpc[x] /\ outcome'[x] = outcome[x]
        /\ UNCHANGED <<e, reply, result>>
    BY <1>2 DEF Call, CallReturn
  <2> QED
    BY <1>0, <1>1, <2>1, <2>2
<1>3. ASSUME NEW w \in Workers,
             \/ Dial(w) \/ DialEnd(w) \/ Begin(w)
             \/ \E o \in {"ok", "err", "ctx"} : Answer(w, o)
      PROVE  SettledIn(b)'
  <2>1. /\ wpc[w] # "done" /\ wpc'[w] # "done"
        /\ \A x \in Workers \ {w} : wpc'[x] = wpc[x] /\ outcome'[x] = outcome[x]
        /\ UNCHANGED <<e, reply, result>>
    BY <1>3 DEF Dial, DialEnd, Dialled, DialFail, Begin, Answer
  <2> QED
    BY <1>0, <1>1, <2>1
<1>4. ASSUME NEW w \in Workers, NEW a \in Broadcasts, Settle(w, a) PROVE SettledIn(b)'
  <2>1. /\ w \in Part[a] /\ wpc[w] = "settle" /\ wpc'[w] = "done"
        /\ \A x \in Workers \ {w} : wpc'[x] = wpc[x]
        /\ UNCHANGED <<outcome, result>>
        /\ outcome[w] \in Failures \cup {"ok"}
    BY <1>4 DEF Settle, Outcomes
  <2>2. CASE a # b
    <3>1. w \notin Part[b] /\ e'[b] = e[b] /\ reply'[b] = reply[b]
      BY <1>4, <2>1, <2>2, OneCast DEF Settle, KeepReply, KeepError
    <3> QED
      BY <1>0, <2>1, <3>1 DEF SettledIn
  <2>3. CASE a = b
    <3>1. result[b] \in {"none", "discovery"}
      BY <1>0, <2>1, <2>3 DEF SettledIn
    <3>2. CASE outcome[w] = "ok"
      <4>1. reply'[b] # NoWorker /\ UNCHANGED e
        BY <1>4, <2>3, <3>2 DEF Settle, KeepReply
      <4> QED
        BY <1>0, <2>1, <2>3, <3>1, <3>2, <4>1 DEF SettledIn
    <3>3. CASE outcome[w] # "ok"
      <4>1. e'[b] = IF e[b] = "none" THEN outcome[w] ELSE e[b]
        BY <1>4, <2>3, <3>3 DEF Settle, KeepError
      <4>2. e'[b] # "none"
        BY <2>1, <3>3, <4>1
      <4>3. \E x \in Part[b] : wpc'[x] = "done" /\ outcome[x] = e'[b]
        BY <1>0, <2>1, <2>3, <4>1 DEF SettledIn
      <4> QED
        BY <2>1, <3>1, <4>2, <4>3 DEF SettledIn
    <3> QED
      BY <3>2, <3>3
  <2> QED
    BY <2>2, <2>3
<1>5. ASSUME NEW a \in Broadcasts, Broadcast(a) PROVE SettledIn(b)'
  <2>1. /\ \A w \in Workers : /\ wpc[w] = "done" <=> wpc'[w] = "done"
                              /\ outcome'[w] = outcome[w]
        /\ UNCHANGED <<e, reply>>
        /\ result'[b] = result[b] \/ result'[b] = "discovery"
    BY <1>5 DEF Broadcast
  <2> QED
    BY <1>0, <2>1 DEF SettledIn
<1>6. ASSUME NEW a \in Broadcasts, BroadcastReturn(a) PROVE SettledIn(b)'
  BY <1>0, <1>6 DEF BroadcastReturn, SettledIn
<1>7. CASE UNCHANGED <<wpc, outcome, e, reply, result>>
  BY <1>1, <1>7
<1> QED
  BY <1>2, <1>3, <1>4, <1>5, <1>6, <1>7
     DEF Next, GiveUp, Finish, ParentCancel, Lose, Close, vars

-----------------------------------------------------------------------------
(* The invariant and what it implies.                                      *)

\* Every reachable state satisfies the inductive invariant.
LEMMA Invariance == Spec => []IndInv
<1>1. Init => IndInv
  <2> SUFFICES ASSUME Init PROVE IndInv
    OBVIOUS
  <2>1. XClientTypeOK
    BY DEF Init, XClientTypeOK
  <2>2. DialLock /\ NoClientLeaked
    BY DEF Init, DialLock, NoClientLeaked
  <2>3. Outcomes /\ FirstErrorIsReported /\ Settled
    BY XClientAssumption DEF Init, Outcomes, FirstErrorIsReported, Settled, SettledIn
  <2> QED
    BY <2>1, <2>2, <2>3 DEF IndInv
<1>2. IndInv /\ [Next]_vars => IndInv'
  BY TypeStep, DialLockStep, LeakStep, OutcomesStep, FirstErrorStep, SettledStep
     DEF IndInv
<1> QED
  BY <1>1, <1>2, PTL DEF Spec

\* However many goroutines call, lose connections and close, every open connection
\* is in X.clients, where Close will find it.
THEOREM ClientsAreNotLeaked == Spec => []NoClientLeaked
<1>1. IndInv => NoClientLeaked
  BY DEF IndInv
<1> QED
  BY <1>1, Invariance, PTL

\* Broadcast to any number of servers never reports the cancellation that it
\* caused itself.
THEOREM BroadcastReportsTheCause == Spec => []FirstErrorIsReported
<1>1. IndInv => FirstErrorIsReported
  BY DEF IndInv
<1> QED
  BY <1>1, Invariance, PTL

\* Broadcast returns nil only when every call succeeded and the reply is there;
\* otherwise it returns what one of the calls returned.
THEOREM BroadcastTellsTheTruth == Spec => []BroadcastIsAllOrError
<1>1. IndInv => BroadcastIsAllOrError
  <2> SUFFICES ASSUME IndInv, NEW b \in Broadcasts
               PROVE  /\ result[b] = "ok" => /\ \A w \in Part[b] : outcome[w] = "ok"
                                             /\ reply[b] # NoWorker \/ Part[b] = {}
                      /\ result[b] \notin {"none", "ok", "discovery"} =>
                           \E w \in Part[b] : outcome[w] = result[b]
    BY DEF BroadcastIsAllOrError
  <2>1. SettledIn(b) /\ e[b] \in Failures \cup {"none"}
    BY DEF IndInv, Settled, XClientTypeOK
  <2> QED
    BY <2>1 DEF SettledIn, Failures
<1> QED
  BY <1>1, Invariance, PTL
=============================================================================
