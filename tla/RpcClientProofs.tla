-------------------------- MODULE RpcClientProofs --------------------------
(***************************************************************************)
(* Proofs about the RPC client, for any set of calls, any assignment of    *)
(* Done channels and any peer that RpcClient allows.                       *)
(*                                                                         *)
(* A call can be completed from three places: its own Send, the receiver's *)
(* switch and terminateCalls.  The invariant says who may complete a call  *)
(* in each state (Owners), that a sequence number leads back to one call   *)
(* (Numbering), and which lock excludes whom (Locking).  A second one, on  *)
(* top of it, follows the messages (Wire): they are whole and carry the    *)
(* number of their call, so a call gets its own reply or an error.         *)
(***************************************************************************)
EXTENDS RpcClient, SequenceTheorems, TLAPS

Writing == {"writeHeader", "writeBody", "closeConn", "remove"}

\* `send' has one holder, and no write is under way once shutdown is set.
Locking ==
    /\ \A c, d \in Sending : c = d
    /\ Terminating => Sending = {}
    /\ shutdown <=> rcv \in {"notify", "notifyDone", "exited"}
    /\ \A c \in Calls : pc[c] \in Writing => ~shutdown

\* Sequence numbers are positive and unique, 0 means never registered, and pend
\* maps a number to the call that has it.
Numbering ==
    /\ seq > 0
    /\ \A c \in Calls : /\ seqOf[c] < seq
                        /\ pc[c] \in Writing => seqOf[c] > 0
                        /\ pc[c] = "init" => seqOf[c] = 0
    /\ \A c, d \in Calls : seqOf[c] = seqOf[d] /\ seqOf[c] > 0 => c = d
    /\ \A s \in DOMAIN pend : s > 0 /\ seqOf[pend[s]] = s

\* A call that nobody has completed and that its own Send will not complete
\* without taking it from pend first.
Open(c) == completions[c] = 0 /\ pc[c] \notin {"init", "done"}

\* Whoever may complete a call, or finds it in pend, finds it open, and no two
\* of pend, the receiver and the rest of terminateCalls' loop hold the same call.
Owners ==
    /\ ~shutdown => \A s \in DOMAIN pend : Open(pend[s]) /\ pend[s] # rcall
    /\ rcall # NoCall => /\ Open(rcall)
                         /\ rcall \notin notify
                         /\ rcv \in {"readBody", "done", "notifyDone"}
    /\ \A c \in notify : Open(c)
    /\ notify # {} => Terminating
    /\ \A c \in Calls : pc[c] \in {"init", "done"} => completions[c] = 0

\* A call that was sent, is not completed and was not abandoned has an owner.
Owned(c) == \/ ~shutdown /\ seqOf[c] \in DOMAIN pend /\ pend[seqOf[c]] = c
            \/ rcall = c
            \/ c \in notify
Accounted ==
    \A c \in Calls : /\ pc[c] \notin {"init", "done"}
                     /\ completions[c] = 0
                     /\ result[c] \notin {"ctx", "late"}
                     => Owned(c)

\* A Reply is written just before its call is completed, and a call that its
\* context abandoned while it was in pend has no owner any more.
RepliesOf(c) ==
    /\ reply[c] # NoCall => completions[c] = 1 \/ (rcall = c /\ rcv = "done")
    /\ pc[c] # "returned" => result[c] = "none"
    /\ result[c] = "ctx" => /\ completions[c] = 0
                            /\ seqOf[c] \notin DOMAIN pend
                            /\ rcall # c
                            /\ c \notin notify
Replies == \A c \in Calls : RepliesOf(c)

\* The channel of a call made with Call is empty until the call is completed.
OwnChannel ==
    \A c \in Sync : completions[c] = 0 => dones[DoneOf[c]] = << >>

Safe == /\ CompletedAtMostOnce
        /\ Locking
        /\ Numbering
        /\ Owners
        /\ Accounted
        /\ Replies
        /\ OwnChannel
IndInv == TypeOK /\ Safe

-----------------------------------------------------------------------------
(* Type correctness, one part of the state at a time.                      *)

\* A request or response is a header and a body.
LEMMA FrameType ==
    ASSUME NEW s \in Nat, NEW c \in Calls, NEW e \in BOOLEAN
    PROVE  /\ Frame(s, c, e) \in Seq(Item)
           /\ Frame(s, c, e)[1] \in Item
           /\ Frame(s, c, e)[2] \in Item
<1> DEFINE h == [k |-> "head", seq |-> s, call |-> c, err |-> e]
           b == [k |-> "body", seq |-> s, call |-> c, err |-> e]
<1>1. h \in Item /\ b \in Item
  BY DEF Item
<1>2. Frame(s, c, e) = <<h, b>>
  BY DEF Frame
<1>3. <<h, b>> \in Seq(Item) /\ <<h, b>>[1] = h /\ <<h, b>>[2] = b
  BY <1>1
<1> QED
  BY <1>1, <1>2, <1>3

\* What the receiver finds at the head of its stream.
LEMMA HeadType ==
    ASSUME WireTypeOK, s2c # << >>
    PROVE  Head(s2c) \in Item /\ Tail(s2c) \in Seq(Item)
  BY HeadTailProperties DEF WireTypeOK

\* Completing a call keeps the channels and the counts well formed.
LEMMA DoneType ==
    ASSUME CallTypeOK, NEW c \in Calls, Done(c)
    PROVE  dones' \in [Chan -> Seq(Calls)] /\ completions' \in [Calls -> Nat]
<1>1. DoneOf[c] \in Chan /\ dones[DoneOf[c]] \in Seq(Calls)
  BY ChannelAssumption DEF CallTypeOK
<1>2. Append(dones[DoneOf[c]], c) \in Seq(Calls)
  BY <1>1, AppendProperties
<1> QED
  BY <1>1, <1>2 DEF CallTypeOK, Done

\* So does receiving from one.
LEMMA ReceiveType ==
    ASSUME CallTypeOK, NEW ch \in Chan, dones[ch] # << >>
    PROVE  [dones EXCEPT ![ch] = Tail(@)] \in [Chan -> Seq(Calls)]
<1>1. Tail(dones[ch]) \in Seq(Calls)
  BY HeadTailProperties DEF CallTypeOK
<1> QED
  BY <1>1 DEF CallTypeOK

\* Removing a number from pend leaves a map into the calls.
LEMMA RemovedType ==
    ASSUME ClientTypeOK, NEW s \in Nat
    PROVE  /\ DOMAIN Removed(s) = DOMAIN pend \ {s}
           /\ DOMAIN Removed(s) \subseteq Nat
           /\ Removed(s) \in [DOMAIN Removed(s) -> Calls]
           /\ Lookup(s) \in Calls \cup {NoCall}
  BY DEF ClientTypeOK, Removed, Restrict, Lookup

\* pend, seq and the flags.
LEMMA ClientTypeStep == TypeOK /\ [Next]_vars => ClientTypeOK'
<1> SUFFICES ASSUME TypeOK, [Next]_vars PROVE ClientTypeOK'
  OBVIOUS
<1>1. CASE UNCHANGED clientVars
  BY <1>1 DEF TypeOK, ClientTypeOK, clientVars
<1>2. ASSUME NEW c \in Calls, Register(c) PROVE ClientTypeOK'
  BY <1>2 DEF TypeOK, ClientTypeOK, Register, Refusing
<1>3. ASSUME NEW c \in Calls, Remove(c) \/ Cancel(c) PROVE ClientTypeOK'
  <2>1. seqOf[c] \in Nat
    BY DEF TypeOK, CallTypeOK
  <2> QED
    BY <1>3, <2>1, RemovedType DEF TypeOK, ClientTypeOK, Remove, Cancel
<1>4. CASE RecvRemove
  <2>1. rmsg.seq \in Nat
    BY DEF TypeOK, RecvTypeOK
  <2> QED
    BY <1>4, <2>1, RemovedType DEF TypeOK, ClientTypeOK, RecvRemove
<1>5. CASE Close \/ TerminateLock
  BY <1>5 DEF TypeOK, ClientTypeOK, Close, TerminateLock
<1> QED
  BY <1>1, <1>2, <1>3, <1>4, <1>5
     DEF Next, ClientStep, SendStep, Receive, Peer, vars, clientVars,
         WriteHeader, WriteBody, CloseConn, SendDone, Await, Drain, RecvHeader,
         RecvFail, RecvBody, RecvDone, Notify, NotifyDone, TerminateEnd,
         PeerRead, PeerRespond, PeerBreak, PeerHangup

\* The calls, their goroutines and their channels.
LEMMA CallTypeStep == TypeOK /\ [Next]_vars => CallTypeOK'
<1> SUFFICES ASSUME TypeOK, [Next]_vars PROVE CallTypeOK'
  OBVIOUS
<1> USE DEF TypeOK
<1>1. CASE UNCHANGED callVars
  BY <1>1 DEF CallTypeOK, callVars
<1>2. ASSUME NEW c \in Calls, Register(c) PROVE CallTypeOK'
  <2>1. CASE closing \/ shutdown
    BY <1>2, <2>1 DEF CallTypeOK, Register, Refusing
  <2>2. CASE ~closing /\ ~shutdown
    <3>1. /\ seqOf' = [seqOf EXCEPT ![c] = seq]
          /\ pc' = [pc EXCEPT ![c] = "writeHeader"]
          /\ UNCHANGED <<err, reply, result, dones, completions>>
      BY <1>2, <2>2 DEF Register, Refusing
    <3> QED
      BY <3>1 DEF CallTypeOK, ClientTypeOK
  <2> QED
    BY <2>1, <2>2
<1>3. ASSUME NEW c \in Calls, WriteHeader(c) \/ WriteBody(c) \/ CloseConn(c)
      PROVE  CallTypeOK'
  BY <1>3 DEF CallTypeOK, WriteHeader, WriteBody, CloseConn, AfterSend
<1>4. ASSUME NEW c \in Calls, Remove(c) PROVE CallTypeOK'
  BY <1>4 DEF CallTypeOK, Remove, AfterSend
<1>5. ASSUME NEW c \in Calls, SendDone(c) PROVE CallTypeOK'
  BY <1>5, DoneType DEF CallTypeOK, SendDone, AfterSend
<1>6. ASSUME NEW c \in Calls, Await(c) PROVE CallTypeOK'
  <2>1. DoneOf[c] \in Chan
    BY ChannelAssumption
  <2>2. dones' \in [Chan -> Seq(Calls)]
    BY <1>6, <2>1, ReceiveType DEF Await
  <2> QED
    BY <1>6, <2>2 DEF CallTypeOK, Await
<1>7. ASSUME NEW c \in Calls, Cancel(c) PROVE CallTypeOK'
  BY <1>7 DEF CallTypeOK, Cancel
<1>8. ASSUME NEW ch \in Chan, Drain(ch) PROVE CallTypeOK'
  BY <1>8, ReceiveType DEF CallTypeOK, Drain
<1>9. CASE RecvBody
  <2>1. s2c # << >> => Head(s2c).call \in Calls
    BY HeadType DEF Item
  <2>2. rerr' \/ s2c # << >>
    BY <1>9 DEF RecvBody
  <2>3. UNCHANGED <<pc, seqOf, result, dones, completions>>
    BY <1>9 DEF RecvBody
  <2>4. CASE rcall = NoCall
    BY <1>9, <2>3, <2>4 DEF CallTypeOK, RecvBody
  <2>5. CASE rcall # NoCall /\ rmsg.err
    <3>1. err' = [err EXCEPT ![rcall] = "server"] /\ UNCHANGED reply
      BY <1>9, <2>5 DEF RecvBody
    <3> QED
      BY <2>3, <3>1 DEF CallTypeOK
  <2>6. CASE rcall # NoCall /\ ~rmsg.err
    <3>1. /\ err' = [err EXCEPT ![rcall] = IF rerr' THEN "body" ELSE @]
          /\ reply' = [reply EXCEPT ![rcall] = IF rerr' THEN @ ELSE Head(s2c).call]
      BY <1>9, <2>6 DEF RecvBody
    <3>2. rcall \in Calls
      BY <2>6 DEF RecvTypeOK
    <3>3. err' \in [Calls -> {"none", "shutdown", "write", "server", "body", "conn"}]
      BY <3>1, <3>2 DEF CallTypeOK
    <3>4. reply' \in [Calls -> Calls \cup {NoCall}]
      BY <2>1, <2>2, <3>1, <3>2 DEF CallTypeOK
    <3> QED
      BY <2>3, <3>3, <3>4 DEF CallTypeOK
  <2> QED
    BY <2>4, <2>5, <2>6
<1>10. CASE RecvDone \/ NotifyDone
  <2>1. rcall \in Calls /\ Done(rcall)
    BY <1>10 DEF RecvTypeOK, RecvDone, NotifyDone
  <2> QED
    BY <1>10, <2>1, DoneType DEF CallTypeOK, RecvDone, NotifyDone
<1>11. ASSUME NEW c \in Calls, Notify(c) PROVE CallTypeOK'
  BY <1>11 DEF CallTypeOK, Notify
<1> QED
  BY <1>1, <1>2, <1>3, <1>4, <1>5, <1>6, <1>7, <1>8, <1>9, <1>10, <1>11
     DEF Next, ClientStep, SendStep, Receive, Peer, vars, callVars, Close,
         RecvHeader, RecvFail, RecvRemove, TerminateLock, TerminateEnd,
         PeerRead, PeerRespond, PeerBreak, PeerHangup

\* The receiver.
LEMMA RecvTypeStep == TypeOK /\ [Next]_vars => RecvTypeOK'
<1> SUFFICES ASSUME TypeOK, [Next]_vars PROVE RecvTypeOK'
  OBVIOUS
<1> USE DEF TypeOK, RecvTypeOK
<1>1. CASE UNCHANGED recvVars
  BY <1>1 DEF recvVars
<1>2. CASE RecvHeader
  <2>1. Head(s2c) \in Item
    BY <1>2, HeadType DEF RecvHeader
  <2> QED
    BY <1>2, <2>1 DEF RecvHeader, Item
<1>3. CASE RecvRemove
  BY <1>3, RemovedType DEF RecvRemove
<1>4. CASE RecvFail \/ RecvBody \/ RecvDone
  BY <1>4 DEF RecvFail, RecvBody, RecvDone
<1>5. CASE TerminateLock
  BY <1>5 DEF ClientTypeOK, TerminateLock, Range
<1>6. ASSUME NEW c \in Calls, Notify(c) PROVE RecvTypeOK'
  BY <1>6, CallAssumption DEF Notify
<1>7. CASE NotifyDone \/ TerminateEnd
  BY <1>7 DEF NotifyDone, TerminateEnd
<1> QED
  BY <1>1, <1>2, <1>3, <1>4, <1>5, <1>6, <1>7
     DEF Next, ClientStep, SendStep, Receive, Peer, vars, recvVars, Register, Refusing,
         WriteHeader, WriteBody, CloseConn, Remove, SendDone, Await, Cancel,
         Drain, Close, PeerRead, PeerRespond, PeerBreak, PeerHangup

\* The writer's buffer, the connection and the peer.
LEMMA WireTypeStep == TypeOK /\ [Next]_vars => WireTypeOK'
<1> SUFFICES ASSUME TypeOK, [Next]_vars PROVE WireTypeOK'
  OBVIOUS
<1> USE DEF TypeOK, WireTypeOK
<1>1. CASE UNCHANGED <<bufVars, wireVars, handling>>
  BY <1>1 DEF bufVars, wireVars
<1>2. ASSUME NEW c \in Calls, WriteHeader(c) PROVE WireTypeOK'
  <2>1. seqOf[c] \in Nat
    BY DEF CallTypeOK
  <2>2. Append(wbuf, Frame(seqOf[c], c, FALSE)[1]) \in Seq(Item)
    BY <2>1, FrameType, AppendProperties
  <2> QED
    BY <1>2, <2>2 DEF WriteHeader, wireVars
<1>3. ASSUME NEW c \in Calls, WriteBody(c) PROVE WireTypeOK'
  <2>1. seqOf[c] \in Nat
    BY DEF CallTypeOK
  <2>2. Append(wbuf, Frame(seqOf[c], c, FALSE)[2]) \in Seq(Item)
    BY <2>1, FrameType, AppendProperties
  <2>3. PICK b \in Seq(Item) : Flush(b)
    BY <1>3, <2>2 DEF WriteBody
  <2>4. c2s \o b \in Seq(Item)
    BY ConcatProperties
  <2>5. wbuf' \in Seq(Item) /\ c2s' \in Seq(Item) /\ bufErr' \in BOOLEAN
    BY <2>3, <2>4, EmptySeq DEF Flush
  <2> QED
    BY <1>3, <2>5 DEF WriteBody
<1>4. CASE (\E c \in Calls : CloseConn(c)) \/ Close \/ PeerHangup
  BY <1>4 DEF CloseConn, Close, PeerHangup, bufVars
<1>5. CASE RecvHeader
  BY <1>5, HeadType DEF RecvHeader, bufVars
<1>6. CASE RecvBody
  <2>1. s2c' \in Seq(Item)
    BY <1>6, HeadType DEF RecvBody
  <2> QED
    BY <1>6, <2>1 DEF RecvBody, bufVars
<1>7. ASSUME NEW n \in 1 .. Len(c2s), PeerRead(n) PROVE WireTypeOK'
  <2>1. \A i \in 1 .. Len(c2s) : c2s[i] \in Item
    BY ElementOfSeq
  <2>2. SubSeq(c2s, n + 1, Len(c2s)) \in Seq(Item)
    <3>1. n + 1 \in Int /\ Len(c2s) \in Int /\ \A i \in n + 1 .. Len(c2s) : c2s[i] \in Item
      BY <2>1, LenProperties
    <3> QED
      BY <3>1, SubSeqProperties
  <2>3. handling' \subseteq Request
    <3>1. \A i \in 1 .. n : c2s[i].seq \in Nat /\ c2s[i].call \in Calls
      <4>1. \A i \in 1 .. n : i \in 1 .. Len(c2s)
        BY LenProperties
      <4> QED
        BY <2>1, <4>1 DEF Item
    <3> QED
      BY <1>7, <3>1 DEF PeerRead, Request
  <2> QED
    BY <1>7, <2>2, <2>3 DEF PeerRead, bufVars
<1>8. ASSUME NEW r \in handling, NEW e \in BOOLEAN, PeerRespond(r, e)
      PROVE  WireTypeOK'
  <2>1. r.seq \in Nat /\ r.call \in Calls
    BY DEF Request
  <2>2. s2c \o Frame(r.seq, r.call, e) \in Seq(Item)
    BY <2>1, FrameType, ConcatProperties
  <2> QED
    BY <1>8, <2>2 DEF PeerRespond, bufVars
<1>9. ASSUME NEW r \in handling, PeerBreak(r) PROVE WireTypeOK'
  <2>1. r.seq \in Nat /\ r.call \in Calls
    BY DEF Request
  <2>2. Append(s2c, Frame(r.seq, r.call, FALSE)[1]) \in Seq(Item)
    BY <2>1, FrameType, AppendProperties
  <2> QED
    BY <1>9, <2>2 DEF PeerBreak, bufVars
<1> QED
  BY <1>1, <1>2, <1>3, <1>4, <1>5, <1>6, <1>7, <1>8, <1>9
     DEF Next, ClientStep, SendStep, Receive, Peer, vars, bufVars, wireVars,
         Register, Remove, SendDone, Await, Cancel, Drain, RecvFail, RecvRemove,
         RecvDone, TerminateLock, Notify, NotifyDone, TerminateEnd

\* A new client is well formed.
LEMMA TypeInit == Init => TypeOK
<1> SUFFICES ASSUME Init PROVE TypeOK
  OBVIOUS
<1>1. ClientTypeOK
  BY DEF Init, ClientTypeOK, FirstSeq
<1>2. CallTypeOK
  BY EmptySeq DEF Init, CallTypeOK
<1>3. RecvTypeOK
  BY DEF Init, RecvTypeOK
<1>4. WireTypeOK
  BY EmptySeq DEF Init, WireTypeOK
<1> QED
  BY <1>1, <1>2, <1>3, <1>4 DEF TypeOK

\* So is its state after any step.
LEMMA TypeStep == TypeOK /\ [Next]_vars => TypeOK'
  BY ClientTypeStep, CallTypeStep, RecvTypeStep, WireTypeStep DEF TypeOK

\* The state the code keeps always has its declared shape: pend maps numbers to
\* calls, the streams hold headers and bodies, the receiver holds a call or nil.
THEOREM TypeCorrect == Spec => []TypeOK
  BY TypeInit, TypeStep, PTL DEF Spec

-----------------------------------------------------------------------------
(* What the helpers of the actions do.                                     *)

\* done() counts one completion of its own call and reaches no channel of
\* another call made with Call.
LEMMA DoneEffect ==
    ASSUME CallTypeOK, NEW c \in Calls, Done(c)
    PROVE  /\ completions'[c] = completions[c] + 1
           /\ \A d \in Calls \ {c} : completions'[d] = completions[d]
           /\ \A d \in Sync \ {c} : dones'[DoneOf[d]] = dones[DoneOf[d]]
  BY ChannelAssumption DEF CallTypeOK, Done

\* A step of Send after the registration moves its own goroutine only: from a
\* state with `send' held to another one or to the end of Send.
LEMMA SendEffect ==
    ASSUME CallTypeOK, NEW c \in Calls,
           \/ WriteHeader(c) \/ WriteBody(c) \/ CloseConn(c)
           \/ Remove(c) \/ SendDone(c)
    PROVE  /\ pc[c] \in Writing \cup {"done"}
           /\ pc'[c] \in Writing \cup {"done", "await", "returned"}
           /\ pc'[c] \in Writing => pc[c] \in Writing
           /\ \A d \in Calls \ {c} : pc'[d] = pc[d]
           /\ UNCHANGED <<seq, closing, shutdown, seqOf, reply, result, recvVars>>
<1> USE DEF CallTypeOK, Writing, AfterSend, clientVars, recvVars
<1>1. CASE WriteHeader(c)
  BY <1>1 DEF WriteHeader
<1>2. CASE WriteBody(c)
  BY <1>2 DEF WriteBody
<1>3. CASE CloseConn(c)
  BY <1>3 DEF CloseConn
<1>4. CASE Remove(c)
  BY <1>4 DEF Remove
<1>5. CASE SendDone(c)
  BY <1>5 DEF SendDone
<1> QED
  BY <1>1, <1>2, <1>3, <1>4, <1>5

\* removeCall deletes one entry and leaves the others.
LEMMA RemovedEffect ==
    ASSUME NEW s, pend' = Removed(s)
    PROVE  /\ DOMAIN pend' = DOMAIN pend \ {s}
           /\ \A t \in DOMAIN pend' : t \in DOMAIN pend /\ t # s /\ pend'[t] = pend[t]
  BY DEF Removed, Restrict

-----------------------------------------------------------------------------
(* The parts of the invariant.                                             *)

\* The locks: every step that enters Send or terminateCalls finds `send' free.
LEMMA LockingStep == TypeOK /\ Locking /\ [Next]_vars => Locking'
<1> SUFFICES ASSUME TypeOK, Locking, [Next]_vars PROVE Locking'
  OBVIOUS
<1> USE DEF TypeOK, CallTypeOK, Locking, Sending, Writing, Terminating
<1>1. CASE UNCHANGED <<pc, rcv, shutdown>>
  BY <1>1
<1>2. ASSUME NEW c \in Calls, Register(c) PROVE Locking'
  BY <1>2 DEF Register, Refusing, SendFree, recvVars
<1>3. ASSUME NEW c \in Calls,
             \/ WriteHeader(c) \/ WriteBody(c) \/ CloseConn(c)
             \/ Remove(c) \/ SendDone(c)
      PROVE  Locking'
  <2>1. c \in Sending /\ Sending' \subseteq Sending
    BY <1>3, SendEffect
  <2>2. UNCHANGED <<rcv, shutdown>>
    BY <1>3, SendEffect DEF recvVars
  <2> QED
    BY <1>3, <2>1, <2>2, SendEffect
<1>4. ASSUME NEW c \in Calls, Await(c) \/ Cancel(c) PROVE Locking'
  <2>1. pc' = [pc EXCEPT ![c] = "returned"] /\ UNCHANGED <<rcv, shutdown>>
    BY <1>4 DEF Await, Cancel, clientVars, recvVars
  <2> QED
    BY <2>1
<1>5. CASE RecvHeader \/ RecvFail \/ RecvRemove \/ RecvBody \/ RecvDone
  <2>1. CASE RecvBody
    <3>1. /\ rcv = "readBody" /\ rcv' \in {"terminate", "readHeader", "done"}
          /\ UNCHANGED <<pc, shutdown>>
      BY <2>1 DEF RecvBody, clientVars
    <3> QED
      BY <3>1
  <2>2. CASE RecvHeader \/ RecvFail \/ RecvRemove \/ RecvDone
    BY <2>2 DEF RecvHeader, RecvFail, RecvRemove, RecvDone, clientVars, callVars
  <2> QED
    BY <1>5, <2>1, <2>2
<1>6. CASE TerminateLock
  BY <1>6 DEF TerminateLock, SendFree, callVars
<1>7. CASE (\E c \in Calls : Notify(c)) \/ NotifyDone \/ TerminateEnd
  BY <1>7 DEF Notify, NotifyDone, TerminateEnd, clientVars, callVars
<1> QED
  BY <1>1, <1>2, <1>3, <1>4, <1>5, <1>6, <1>7
     DEF Next, ClientStep, SendStep, Receive, Peer, vars, clientVars, callVars,
         recvVars, Drain, Close, PeerRead, PeerRespond, PeerBreak, PeerHangup

\* The numbers: registerCall hands out a number no call has.
LEMMA NumberingStep == TypeOK /\ Numbering /\ [Next]_vars => Numbering'
<1> SUFFICES ASSUME TypeOK, Numbering, [Next]_vars PROVE Numbering'
  OBVIOUS
<1> USE DEF TypeOK, ClientTypeOK, CallTypeOK, Numbering, Writing
<1>1. CASE UNCHANGED <<seq, pend, pc, seqOf>>
  BY <1>1
<1>2. ASSUME NEW c \in Calls, Register(c) PROVE Numbering'
  <2>1. CASE closing \/ shutdown
    BY <1>2, <2>1 DEF Register, Refusing
  <2>2. CASE ~closing /\ ~shutdown
    <3>1. /\ pc[c] = "init" /\ seq' = seq + 1
          /\ seqOf' = [seqOf EXCEPT ![c] = seq]
          /\ pend' = [s \in DOMAIN pend \cup {seq} |-> IF s = seq THEN c ELSE pend[s]]
          /\ pc' = [pc EXCEPT ![c] = "writeHeader"]
      BY <1>2, <2>2 DEF Register, Refusing
    <3>2. \A s \in DOMAIN pend : pend[s] # c
      BY <3>1
    <3>3. \A s \in DOMAIN pend' : s > 0 /\ seqOf'[pend'[s]] = s
      BY <3>1, <3>2
    <3> QED
      BY <3>1, <3>3
  <2> QED
    BY <2>1, <2>2
<1>3. ASSUME NEW c \in Calls,
             \/ WriteHeader(c) \/ WriteBody(c) \/ CloseConn(c)
             \/ Remove(c) \/ SendDone(c)
      PROVE  Numbering'
  <2>1. pend' = pend \/ pend' = Removed(seqOf[c])
    BY <1>3 DEF WriteHeader, WriteBody, CloseConn, Remove, SendDone, clientVars
  <2>2. \A s \in DOMAIN pend' : s \in DOMAIN pend /\ pend'[s] = pend[s]
    <3>1. CASE pend' = pend
      BY <3>1
    <3>2. CASE pend' = Removed(seqOf[c])
      BY <3>2, RemovedEffect
    <3> QED
      BY <2>1, <3>1, <3>2
  <2>3. \A d \in Calls : /\ pc'[d] \in Writing => pc[d] \in Writing
                         /\ pc'[d] = "init" => pc[d] = "init"
    BY <1>3, SendEffect
  <2>4. UNCHANGED <<seq, seqOf>>
    BY <1>3, SendEffect
  <2> QED
    BY <2>2, <2>3, <2>4
<1>4. ASSUME NEW c \in Calls, Await(c) PROVE Numbering'
  BY <1>4 DEF Await, clientVars
<1>5. ASSUME NEW c \in Calls, Cancel(c) PROVE Numbering'
  <2>1. pend' = Removed(seqOf[c])
    BY <1>5 DEF Cancel
  <2>2. \A s \in DOMAIN pend' : s \in DOMAIN pend /\ pend'[s] = pend[s]
    BY <2>1, RemovedEffect
  <2> QED
    BY <1>5, <2>2 DEF Cancel
<1>6. CASE RecvRemove
  <2>1. pend' = Removed(rmsg.seq)
    BY <1>6 DEF RecvRemove
  <2>2. \A s \in DOMAIN pend' : s \in DOMAIN pend /\ pend'[s] = pend[s]
    BY <2>1, RemovedEffect
  <2> QED
    BY <1>6, <2>2 DEF RecvRemove, callVars
<1> QED
  BY <1>1, <1>2, <1>3, <1>4, <1>5, <1>6
     DEF Next, ClientStep, SendStep, Receive, Peer, vars, clientVars, callVars,
         Drain, Close, RecvHeader, RecvFail, RecvBody, RecvDone, TerminateLock,
         Notify, NotifyDone, TerminateEnd, PeerRead, PeerRespond, PeerBreak,
         PeerHangup

\* The owners of the calls, one step per action.
LEMMA OwnersStep ==
    TypeOK /\ Locking /\ Numbering /\ Owners /\ [Next]_vars => Owners'
<1> SUFFICES ASSUME TypeOK, Locking, Numbering, Owners, [Next]_vars
             PROVE  Owners'
  OBVIOUS
<1> USE CallAssumption DEF TypeOK, CallTypeOK, ClientTypeOK, RecvTypeOK
<1>1. CASE UNCHANGED <<shutdown, pend, completions, pc, rcall, notify, rcv>>
  BY <1>1 DEF Owners, Open, Terminating
<1>2. ASSUME NEW c \in Calls, Register(c) PROVE Owners'
  <2>1. CASE closing \/ shutdown
    BY <1>2, <2>1 DEF Owners, Open, Terminating, Register, Refusing, recvVars
  <2>2. CASE ~closing /\ ~shutdown
    <3>1. /\ pc[c] = "init"
          /\ pend' = [s \in DOMAIN pend \cup {seq} |-> IF s = seq THEN c ELSE pend[s]]
          /\ pc' = [pc EXCEPT ![c] = "writeHeader"]
          /\ UNCHANGED <<shutdown, completions, rcall, notify, rcv>>
      BY <1>2, <2>2 DEF Register, Refusing, recvVars
    <3> QED
      BY <2>2, <3>1 DEF Owners, Open, Terminating
  <2> QED
    BY <2>1, <2>2
<1>3. ASSUME NEW c \in Calls, WriteHeader(c) \/ WriteBody(c) \/ CloseConn(c)
      PROVE  Owners'
  <2>1. /\ pc[c] \in Writing /\ pc'[c] \notin {"init", "done"}
        /\ \A d \in Calls \ {c} : pc'[d] = pc[d]
    BY <1>3 DEF WriteHeader, WriteBody, CloseConn, AfterSend, Writing
  <2>2. UNCHANGED <<shutdown, pend, completions, rcall, notify, rcv>>
    BY <1>3 DEF WriteHeader, WriteBody, CloseConn, clientVars, recvVars
  <2> QED
    BY <2>1, <2>2 DEF Owners, Open, Terminating, Writing
<1>4. ASSUME NEW c \in Calls, Remove(c) PROVE Owners'
  <2>1. pc[c] = "remove" /\ ~shutdown /\ seqOf[c] > 0 /\ notify = {}
    BY <1>4 DEF Remove, Locking, Numbering, Owners, Terminating, Writing
  <2>2. pend' = Removed(seqOf[c])
    BY <1>4 DEF Remove
  <2>3. \A s \in DOMAIN pend' : /\ s \in DOMAIN pend
                                /\ pend'[s] = pend[s]
                                /\ pend[s] # c
    <3>1. \A s \in DOMAIN pend' : s \in DOMAIN pend \ {seqOf[c]} /\ pend'[s] = pend[s]
      BY <2>2, RemovedEffect
    <3> QED
      BY <3>1 DEF Numbering
  <2>4. UNCHANGED <<shutdown, completions, rcall, notify, rcv>>
    BY <1>4 DEF Remove, recvVars
  <2>5. CASE Lookup(seqOf[c]) = NoCall
    <3>1. pc' = [pc EXCEPT ![c] = AfterSend(c)]
      BY <1>4, <2>5 DEF Remove
    <3> QED
      BY <2>1, <2>3, <2>4, <3>1 DEF Owners, Open, AfterSend, Terminating
  <2>6. CASE Lookup(seqOf[c]) # NoCall
    <3>1. seqOf[c] \in DOMAIN pend /\ pend[seqOf[c]] = c
      BY <2>1, <2>6 DEF Lookup, Numbering
    <3>2. completions[c] = 0 /\ c # rcall
      BY <2>1, <3>1 DEF Owners, Open
    <3>3. pc' = [pc EXCEPT ![c] = "done"]
      BY <1>4, <2>6 DEF Remove
    <3> QED
      BY <2>1, <2>3, <2>4, <3>2, <3>3 DEF Owners, Open, Terminating
  <2> QED
    BY <2>5, <2>6
<1>5. ASSUME NEW c \in Calls, SendDone(c) PROVE Owners'
  <2>1. /\ pc[c] = "done" /\ pc'[c] \in {"await", "returned"}
        /\ \A d \in Calls \ {c} : pc'[d] = pc[d] /\ completions'[d] = completions[d]
    BY <1>5, DoneEffect DEF SendDone, AfterSend
  <2>2. UNCHANGED <<shutdown, pend, rcall, notify, rcv>>
    BY <1>5 DEF SendDone, clientVars, recvVars
  <2> QED
    BY <2>1, <2>2 DEF Owners, Open, Terminating
<1>6. ASSUME NEW c \in Calls, Await(c) PROVE Owners'
  BY <1>6 DEF Owners, Open, Terminating, Await, clientVars, recvVars
<1>7. ASSUME NEW c \in Calls, Cancel(c) PROVE Owners'
  <2>1. pend' = Removed(seqOf[c])
    BY <1>7 DEF Cancel
  <2>2. \A s \in DOMAIN pend' : s \in DOMAIN pend /\ pend'[s] = pend[s]
    BY <2>1, RemovedEffect
  <2>3. /\ pc' = [pc EXCEPT ![c] = "returned"]
        /\ UNCHANGED <<shutdown, completions, rcall, notify, rcv>>
    BY <1>7 DEF Cancel, recvVars
  <2> QED
    BY <2>2, <2>3 DEF Owners, Open, Terminating
<1>8. CASE RecvHeader \/ RecvFail
  BY <1>8 DEF Owners, Open, Terminating, RecvHeader, RecvFail, clientVars, callVars
<1>9. CASE RecvRemove
  <2>1. rcall = NoCall /\ ~shutdown /\ notify = {}
    BY <1>9 DEF RecvRemove, Owners, Locking, Terminating
  <2>2. pend' = Removed(rmsg.seq) /\ rcall' = Lookup(rmsg.seq) /\ rcv' = "readBody"
    BY <1>9 DEF RecvRemove
  <2>3. \A s \in DOMAIN pend' : /\ s \in DOMAIN pend
                                /\ pend'[s] = pend[s]
                                /\ s # rmsg.seq
    BY <2>2, RemovedEffect
  <2>4. \A s \in DOMAIN pend' : pend'[s] # rcall'
    <3>1. rcall' = NoCall \/ (rmsg.seq \in DOMAIN pend /\ rcall' = pend[rmsg.seq])
      BY <2>2 DEF Lookup
    <3>2. CASE rcall' = NoCall
      BY <2>3, <3>2
    <3>3. CASE rmsg.seq \in DOMAIN pend /\ rcall' = pend[rmsg.seq]
      BY <2>3, <3>3 DEF Numbering
    <3> QED
      BY <3>1, <3>2, <3>3
  <2>5. UNCHANGED <<shutdown, completions, pc, notify>>
    BY <1>9 DEF RecvRemove, callVars
  <2>6. rcall' # NoCall => Open(rcall')
    BY <2>1, <2>2 DEF Lookup, Owners
  <2> QED
    BY <2>1, <2>2, <2>3, <2>4, <2>5, <2>6 DEF Owners, Open, Terminating
<1>10. CASE RecvBody
  <2>1. /\ rcv = "readBody" /\ rcall' = rcall
        /\ rcall # NoCall => rcv' = "done"
        /\ UNCHANGED <<shutdown, pend, completions, pc, notify>>
    BY <1>10 DEF RecvBody, clientVars
  <2>2. notify = {}
    BY <2>1 DEF Owners, Terminating
  <2> QED
    BY <2>1, <2>2 DEF Owners, Open, Terminating
<1>11. CASE RecvDone \/ NotifyDone
  <2>1. rcall \in Calls /\ Done(rcall) /\ rcall' = NoCall
    BY <1>11 DEF RecvDone, NotifyDone
  <2>2. UNCHANGED <<shutdown, pend, pc, notify>>
    BY <1>11 DEF RecvDone, NotifyDone, clientVars
  <2>3. \A d \in Calls \ {rcall} : completions'[d] = completions[d]
    BY <2>1, DoneEffect
  <2>4. Open(rcall) /\ rcall \notin notify
    BY <2>1 DEF Owners
  <2>5. notify' # {} => Terminating'
    BY <1>11, <2>2 DEF RecvDone, NotifyDone, Owners, Terminating
  <2> QED
    BY <2>1, <2>2, <2>3, <2>4, <2>5 DEF Owners, Open
<1>12. CASE TerminateLock
  <2>1. ~shutdown /\ rcall = NoCall
    BY <1>12 DEF TerminateLock, Locking, Owners
  <2>2. \A c \in notify' : Open(c)
    BY <1>12, <2>1 DEF TerminateLock, Owners, Range
  <2> QED
    BY <1>12, <2>1, <2>2 DEF TerminateLock, Owners, Open, Terminating, callVars
<1>13. ASSUME NEW c \in Calls, Notify(c) PROVE Owners'
  <2>1. shutdown
    BY <1>13 DEF Notify, Locking
  <2> QED
    BY <1>13, <2>1 DEF Notify, Owners, Open, Terminating, clientVars
<1>14. CASE TerminateEnd
  BY <1>14 DEF TerminateEnd, Owners, Open, Terminating, clientVars, callVars
<1> QED
  BY <1>1, <1>2, <1>3, <1>4, <1>5, <1>6, <1>7, <1>8, <1>9, <1>10, <1>11, <1>12,
     <1>13, <1>14
     DEF Next, ClientStep, SendStep, Receive, Peer, vars, clientVars, callVars,
         recvVars, Drain, Close, PeerRead, PeerRespond, PeerBreak, PeerHangup

\* Only an owner completes a call, and it finds the call open.
LEMMA CompletedStep ==
    TypeOK /\ Owners /\ CompletedAtMostOnce /\ [Next]_vars => CompletedAtMostOnce'
<1> SUFFICES ASSUME TypeOK, Owners, CompletedAtMostOnce, [Next]_vars
             PROVE  CompletedAtMostOnce'
  OBVIOUS
<1>1. CASE UNCHANGED completions
  BY <1>1 DEF CompletedAtMostOnce
<1>2. ASSUME NEW c \in Calls, Done(c), completions[c] = 0
      PROVE  CompletedAtMostOnce'
  <2>1. \A d \in Calls : completions'[d] = 1 \/ completions'[d] = completions[d]
    BY <1>2, DoneEffect DEF TypeOK
  <2> QED
    BY <2>1 DEF CompletedAtMostOnce
<1>3. ASSUME NEW c \in Calls, SendDone(c) PROVE CompletedAtMostOnce'
  BY <1>2, <1>3 DEF SendDone, Owners
<1>4. CASE RecvDone \/ NotifyDone
  <2>1. rcall \in Calls /\ Done(rcall)
    BY <1>4 DEF RecvDone, NotifyDone, TypeOK, RecvTypeOK
  <2> QED
    BY <1>2, <2>1, CallAssumption DEF Owners, Open
<1> QED
  BY <1>1, <1>3, <1>4
     DEF Next, ClientStep, SendStep, Receive, Peer, vars, callVars, Register,
         WriteHeader, WriteBody, CloseConn, Remove, Await, Cancel, Drain, Close,
         RecvHeader, RecvFail, RecvRemove, RecvBody, TerminateLock, Notify,
         TerminateEnd, PeerRead, PeerRespond, PeerBreak, PeerHangup

\* An entry of pend survives the removal of another call's number.
LEMMA OthersStay ==
    ASSUME TypeOK, Numbering, NEW c \in Calls, pend' = Removed(seqOf[c]),
           NEW d \in Calls, d # c,
           seqOf[d] \in DOMAIN pend /\ pend[seqOf[d]] = d
    PROVE  seqOf[d] \in DOMAIN pend' /\ pend'[seqOf[d]] = d
<1>1. seqOf[d] # seqOf[c]
  BY DEF Numbering
<1>2. seqOf[d] \in DOMAIN pend'
  BY <1>1, RemovedEffect
<1> QED
  BY <1>2, RemovedEffect

\* No open call is ever left without an owner.
LEMMA AccountedStep ==
    TypeOK /\ Locking /\ Numbering /\ Owners /\ Replies /\ Accounted /\ [Next]_vars
    => Accounted'
<1> SUFFICES ASSUME TypeOK, Locking, Numbering, Owners, Replies, Accounted,
                    [Next]_vars,
                    NEW d \in Calls,
                    pc'[d] \notin {"init", "done"},
                    completions'[d] = 0,
                    result'[d] \notin {"ctx", "late"}
             PROVE  Owned(d)'
  BY DEF Accounted
<1> USE CallAssumption DEF TypeOK, CallTypeOK, ClientTypeOK, RecvTypeOK
<1>1. CASE UNCHANGED <<pc, seqOf, completions, result, shutdown, pend, rcall, notify>>
  BY <1>1 DEF Accounted, Owned
<1>2. ASSUME NEW c \in Calls, Register(c) PROVE Owned(d)'
  <2>1. CASE closing \/ shutdown
    BY <1>2, <2>1 DEF Register, Refusing, Accounted, Owned, recvVars
  <2>2. CASE ~closing /\ ~shutdown
    <3>1. /\ pc[c] = "init"
          /\ seqOf' = [seqOf EXCEPT ![c] = seq]
          /\ pend' = [s \in DOMAIN pend \cup {seq} |-> IF s = seq THEN c ELSE pend[s]]
          /\ pc' = [pc EXCEPT ![c] = "writeHeader"]
          /\ UNCHANGED <<shutdown, completions, result, rcall, notify>>
      BY <1>2, <2>2 DEF Register, Refusing, recvVars
    <3>2. CASE d = c
      BY <2>2, <3>1, <3>2 DEF Owned
    <3>3. CASE d # c
      <4>1. Owned(d)
        BY <3>1, <3>3 DEF Accounted
      <4> QED
        BY <3>1, <3>3, <4>1 DEF Owned, Numbering
    <3> QED
      BY <3>2, <3>3
  <2> QED
    BY <2>1, <2>2
<1>3. ASSUME NEW c \in Calls, WriteHeader(c) \/ WriteBody(c) \/ CloseConn(c)
      PROVE  Owned(d)'
  <2>1. /\ pc[c] \notin {"init", "done"}
        /\ \A e \in Calls \ {c} : pc'[e] = pc[e]
    BY <1>3, SendEffect DEF WriteHeader, WriteBody, CloseConn
  <2>2. UNCHANGED <<seqOf, completions, result, shutdown, pend, rcall, notify>>
    BY <1>3 DEF WriteHeader, WriteBody, CloseConn, clientVars, recvVars
  <2> QED
    BY <2>1, <2>2 DEF Accounted, Owned
<1>4. ASSUME NEW c \in Calls, Remove(c) PROVE Owned(d)'
  <2>1. pend' = Removed(seqOf[c]) /\ pc[c] = "remove"
    BY <1>4 DEF Remove
  <2>2. UNCHANGED <<seqOf, completions, result, shutdown, rcall, notify>>
    BY <1>4 DEF Remove, recvVars
  <2>3. CASE d # c
    <3>1. Owned(d)
      BY <1>4, <2>2, <2>3 DEF Remove, Accounted
    <3> QED
      BY <2>1, <2>2, <2>3, <3>1, OthersStay DEF Owned
  <2>4. CASE d = c
    <3>1. Lookup(seqOf[c]) = NoCall
      BY <1>4, <2>4 DEF Remove
    <3>2. ~(seqOf[c] \in DOMAIN pend /\ pend[seqOf[c]] = c)
      BY <3>1 DEF Lookup
    <3>3. Owned(d)
      BY <2>1, <2>2, <2>4 DEF Accounted
    <3> QED
      BY <2>2, <2>4, <3>2, <3>3 DEF Owned
  <2> QED
    BY <2>3, <2>4
<1>5. ASSUME NEW c \in Calls, SendDone(c) PROVE Owned(d)'
  <2>1. d # c
    BY <1>5, DoneEffect DEF SendDone
  <2>2. completions'[d] = completions[d]
    BY <1>5, <2>1, DoneEffect DEF SendDone
  <2>3. UNCHANGED <<seqOf, result, shutdown, pend, rcall, notify>>
    BY <1>5 DEF SendDone, clientVars, recvVars
  <2> QED
    BY <1>5, <2>1, <2>2, <2>3 DEF SendDone, Accounted, Owned
<1>6. ASSUME NEW c \in Calls, Await(c) PROVE Owned(d)'
  <2>1. pc[d] \notin {"init", "done"} /\ result[d] \notin {"ctx", "late"}
    BY <1>6 DEF Await, Replies, RepliesOf
  <2> QED
    BY <1>6, <2>1 DEF Await, Accounted, Owned, clientVars, recvVars
<1>7. ASSUME NEW c \in Calls, Cancel(c) PROVE Owned(d)'
  <2>1. d # c
    BY <1>7 DEF Cancel
  <2>2. /\ pend' = Removed(seqOf[c])
        /\ UNCHANGED <<seqOf, completions, shutdown, rcall, notify>>
    BY <1>7 DEF Cancel, recvVars
  <2>3. Owned(d)
    BY <1>7, <2>1, <2>2 DEF Cancel, Accounted
  <2> QED
    BY <2>1, <2>2, <2>3, OthersStay DEF Owned
<1>8. CASE RecvRemove
  <2>1. rcall = NoCall /\ notify = {} /\ ~shutdown
    BY <1>8 DEF RecvRemove, Owners, Locking, Terminating
  <2>2. /\ pend' = Removed(rmsg.seq) /\ rcall' = Lookup(rmsg.seq)
        /\ UNCHANGED <<pc, seqOf, completions, result, shutdown>>
    BY <1>8 DEF RecvRemove, callVars
  <2>3. seqOf[d] \in DOMAIN pend /\ pend[seqOf[d]] = d
    BY <2>1, <2>2 DEF Accounted, Owned
  <2>4. CASE seqOf[d] = rmsg.seq
    BY <2>2, <2>3, <2>4 DEF Lookup, Owned
  <2>5. CASE seqOf[d] # rmsg.seq
    <3>1. DOMAIN pend' = DOMAIN pend \ {rmsg.seq}
      BY <2>2, RemovedEffect
    <3>2. seqOf[d] \in DOMAIN pend'
      BY <2>3, <2>5, <3>1
    <3> QED
      BY <2>1, <2>2, <2>3, <3>2, RemovedEffect DEF Owned
  <2> QED
    BY <2>4, <2>5
<1>9. CASE RecvDone \/ NotifyDone
  <2>1. rcall \in Calls /\ Done(rcall)
    BY <1>9 DEF RecvDone, NotifyDone
  <2>2. UNCHANGED <<pc, seqOf, result, shutdown, pend, notify>>
    BY <1>9 DEF RecvDone, NotifyDone, clientVars
  <2>3. d # rcall /\ completions'[d] = completions[d]
    BY <2>1, DoneEffect
  <2> QED
    BY <2>2, <2>3 DEF Accounted, Owned
<1>10. CASE TerminateLock
  <2>1. rcall = NoCall
    BY <1>10 DEF TerminateLock, Owners
  <2>2. Owned(d) /\ notify' = Range(pend)
    BY <1>10 DEF TerminateLock, Accounted, callVars
  <2> QED
    BY <1>10, <2>1, <2>2 DEF TerminateLock, Owned, Range, Owners, Terminating
<1>11. ASSUME NEW c \in Calls, Notify(c) PROVE Owned(d)'
  <2>1. rcall = NoCall /\ shutdown
    BY <1>11 DEF Notify, Owners, Locking
  <2> QED
    BY <1>11, <2>1 DEF Notify, Accounted, Owned, clientVars
<1> QED
  BY <1>1, <1>2, <1>3, <1>4, <1>5, <1>6, <1>7, <1>8, <1>9, <1>10, <1>11
     DEF Next, ClientStep, SendStep, Receive, Peer, vars, clientVars, callVars,
         recvVars, Drain, Close, RecvHeader, RecvFail, RecvBody, TerminateEnd,
         PeerRead, PeerRespond, PeerBreak, PeerHangup

\* A Reply is written only by the receiver, to a call it owns; a cancelled call
\* keeps having no owner, since its number is never handed out again.
LEMMA RepliesStep ==
    /\ TypeOK /\ Locking /\ Numbering /\ Owners /\ CompletedAtMostOnce
    /\ Replies /\ [Next]_vars
    => Replies'
<1> SUFFICES ASSUME TypeOK, Locking, Numbering, Owners, CompletedAtMostOnce,
                    Replies, [Next]_vars,
                    NEW d \in Calls
             PROVE  RepliesOf(d)'
  BY DEF Replies
<1> USE CallAssumption DEF TypeOK, CallTypeOK, ClientTypeOK, RecvTypeOK
<1>0. RepliesOf(d)
  BY DEF Replies
<1>1. CASE UNCHANGED <<reply, completions, rcall, rcv, pc, result, seqOf, pend, notify>>
  BY <1>0, <1>1 DEF RepliesOf
<1>2. ASSUME NEW c \in Calls, Register(c) PROVE RepliesOf(d)'
  <2>1. CASE closing \/ shutdown
    BY <1>0, <1>2, <2>1 DEF Register, Refusing, RepliesOf, recvVars
  <2>2. CASE ~closing /\ ~shutdown
    <3>1. /\ pc[c] = "init"
          /\ seqOf' = [seqOf EXCEPT ![c] = seq]
          /\ DOMAIN pend' = DOMAIN pend \cup {seq}
          /\ pc' = [pc EXCEPT ![c] = "writeHeader"]
          /\ UNCHANGED <<reply, completions, rcall, rcv, result, notify>>
      BY <1>2, <2>2 DEF Register, Refusing, recvVars
    <3> QED
      BY <1>0, <3>1 DEF RepliesOf, Numbering
  <2> QED
    BY <2>1, <2>2
<1>3. ASSUME NEW c \in Calls, WriteHeader(c) \/ WriteBody(c) \/ CloseConn(c)
      PROVE  RepliesOf(d)'
  <2>1. pc[c] # "returned" /\ \A e \in Calls \ {c} : pc'[e] = pc[e]
    BY <1>3, SendEffect DEF Writing
  <2>2. UNCHANGED <<reply, completions, rcall, rcv, result, seqOf, pend, notify>>
    BY <1>3 DEF WriteHeader, WriteBody, CloseConn, clientVars, recvVars
  <2> QED
    BY <1>0, <2>1, <2>2 DEF RepliesOf
<1>4. ASSUME NEW c \in Calls, Remove(c) PROVE RepliesOf(d)'
  <2>1. pc[c] # "returned" /\ \A e \in Calls \ {c} : pc'[e] = pc[e]
    BY <1>4, SendEffect DEF Writing
  <2>2. /\ pend' = Removed(seqOf[c])
        /\ UNCHANGED <<reply, completions, rcall, rcv, result, seqOf, notify>>
    BY <1>4 DEF Remove, recvVars
  <2>3. DOMAIN pend' \subseteq DOMAIN pend
    BY <2>2, RemovedEffect
  <2> QED
    BY <1>0, <2>1, <2>2, <2>3 DEF RepliesOf
<1>5. ASSUME NEW c \in Calls, SendDone(c) PROVE RepliesOf(d)'
  <2>1. /\ pc[c] = "done" /\ completions[c] = 0
        /\ completions'[c] = 1
        /\ \A e \in Calls \ {c} : pc'[e] = pc[e] /\ completions'[e] = completions[e]
    BY <1>5, DoneEffect DEF SendDone, Owners
  <2>2. UNCHANGED <<reply, rcall, rcv, result, seqOf, pend, notify>>
    BY <1>5 DEF SendDone, clientVars, recvVars
  <2> QED
    BY <1>0, <2>1, <2>2 DEF RepliesOf
<1>6. ASSUME NEW c \in Calls, Await(c) PROVE RepliesOf(d)'
  <2>1. /\ pc' = [pc EXCEPT ![c] = "returned"]
        /\ result' = [result EXCEPT ![c] = IF err[c] = "none" THEN "ok" ELSE "err"]
        /\ UNCHANGED <<reply, completions, rcall, rcv, seqOf, pend, notify>>
    BY <1>6 DEF Await, clientVars, recvVars
  <2> QED
    BY <1>0, <2>1 DEF RepliesOf
<1>7. ASSUME NEW c \in Calls, Cancel(c) PROVE RepliesOf(d)'
  <2>1. /\ pc' = [pc EXCEPT ![c] = "returned"]
        /\ pend' = Removed(seqOf[c])
        /\ \A e \in Calls \ {c} : result'[e] = result[e]
        /\ UNCHANGED <<reply, completions, rcall, rcv, seqOf, notify>>
    BY <1>7 DEF Cancel, recvVars
  <2>2. DOMAIN pend' = DOMAIN pend \ {seqOf[c]}
    BY <2>1, RemovedEffect
  <2>3. CASE d # c
    BY <1>0, <2>1, <2>2, <2>3 DEF RepliesOf
  <2>4. CASE d = c
    <3>1. ASSUME result'[c] = "ctx"
          PROVE  completions[c] = 0 /\ rcall # c /\ c \notin notify
      <4>1. Lookup(seqOf[c]) = c /\ ~shutdown
        BY <1>7, <3>1 DEF Cancel
      <4>2. seqOf[c] \in DOMAIN pend /\ pend[seqOf[c]] = c
        BY <4>1 DEF Lookup
      <4> QED
        BY <4>1, <4>2 DEF Owners, Open, Locking, Terminating
    <3> QED
      BY <1>0, <2>1, <2>2, <2>4, <3>1 DEF RepliesOf
  <2> QED
    BY <2>3, <2>4
<1>8. CASE RecvHeader \/ RecvFail \/ TerminateEnd
  BY <1>0, <1>8 DEF RecvHeader, RecvFail, TerminateEnd, RepliesOf, clientVars, callVars
<1>9. CASE RecvRemove
  <2>1. /\ pend' = Removed(rmsg.seq) /\ rcall' = Lookup(rmsg.seq)
        /\ rcv = "remove"
        /\ UNCHANGED <<reply, completions, pc, result, seqOf, notify>>
    BY <1>9 DEF RecvRemove, callVars
  <2>2. DOMAIN pend' \subseteq DOMAIN pend
    BY <2>1, RemovedEffect
  <2>3. rcall' = d => seqOf[d] \in DOMAIN pend
    BY <2>1 DEF Lookup, Numbering
  <2> QED
    BY <1>0, <2>1, <2>2, <2>3 DEF RepliesOf
<1>10. CASE RecvBody
  <2>1. /\ rcv = "readBody" /\ rcall' = rcall
        /\ UNCHANGED <<completions, pc, result, seqOf, pend, notify>>
    BY <1>10 DEF RecvBody, clientVars
  <2>2. reply'[d] # reply[d] => rcall = d /\ rcv' = "done"
    BY <1>10 DEF RecvBody
  <2> QED
    BY <1>0, <2>1, <2>2 DEF RepliesOf
<1>11. CASE RecvDone \/ NotifyDone
  <2>1. rcall \in Calls /\ Done(rcall) /\ rcall' = NoCall
    BY <1>11 DEF RecvDone, NotifyDone
  <2>2. UNCHANGED <<reply, pc, result, seqOf, pend, notify>>
    BY <1>11 DEF RecvDone, NotifyDone, clientVars
  <2>3. completions[rcall] = 0
    BY <2>1 DEF Owners, Open
  <2>4. completions'[d] = IF d = rcall THEN 1 ELSE completions[d]
    BY <2>1, <2>3, DoneEffect
  <2> QED
    BY <1>0, <2>1, <2>2, <2>4 DEF RepliesOf
<1>12. CASE TerminateLock
  <2>1. notify' = Range(pend) /\ rcv = "terminate"
    BY <1>12 DEF TerminateLock
  <2>2. d \in notify' => seqOf[d] \in DOMAIN pend
    BY <2>1 DEF Range, Numbering
  <2>3. UNCHANGED <<reply, completions, rcall, pc, result, seqOf, pend>>
    BY <1>12 DEF TerminateLock, callVars
  <2> QED
    BY <1>0, <2>1, <2>2, <2>3 DEF RepliesOf
<1>13. ASSUME NEW c \in Calls, Notify(c) PROVE RepliesOf(d)'
  <2>1. rcv = "notify" /\ c \in notify /\ rcall' = c /\ notify' = notify \ {c}
    BY <1>13 DEF Notify
  <2>2. UNCHANGED <<reply, completions, pc, result, seqOf, pend>>
    BY <1>13 DEF Notify, clientVars
  <2> QED
    BY <1>0, <2>1, <2>2 DEF RepliesOf
<1> QED
  BY <1>1, <1>2, <1>3, <1>4, <1>5, <1>6, <1>7, <1>8, <1>9, <1>10, <1>11, <1>12,
     <1>13
     DEF Next, ClientStep, SendStep, Receive, Peer, vars, clientVars, callVars,
         recvVars, Drain, Close, PeerRead, PeerRespond, PeerBreak, PeerHangup

\* Nothing enters the channel of a call made with Call before its completion.
LEMMA OwnChannelStep == TypeOK /\ OwnChannel /\ [Next]_vars => OwnChannel'
<1> SUFFICES ASSUME TypeOK, OwnChannel, [Next]_vars,
                    NEW d \in Sync, completions'[d] = 0
             PROVE  dones'[DoneOf[d]] = << >>
  BY DEF OwnChannel
<1> USE ChannelAssumption, CallAssumption DEF TypeOK, CallTypeOK, RecvTypeOK
<1>1. CASE UNCHANGED <<dones, completions>>
  BY <1>1 DEF OwnChannel
<1>2. ASSUME NEW c \in Calls, Done(c) PROVE dones'[DoneOf[d]] = << >>
  <2>1. d # c /\ completions'[d] = completions[d]
    BY <1>2, DoneEffect
  <2>2. dones'[DoneOf[d]] = dones[DoneOf[d]]
    BY <1>2, <2>1, DoneEffect
  <2> QED
    BY <2>1, <2>2 DEF OwnChannel
<1>3. ASSUME NEW c \in Calls, Await(c) PROVE dones'[DoneOf[d]] = << >>
  BY <1>3 DEF Await, OwnChannel
<1>4. ASSUME NEW ch \in Chan, Drain(ch) PROVE dones'[DoneOf[d]] = << >>
  BY <1>4 DEF Drain, OwnChannel
<1>5. CASE RecvDone \/ NotifyDone
  BY <1>2, <1>5 DEF RecvDone, NotifyDone
<1> QED
  BY <1>1, <1>2, <1>3, <1>4, <1>5
     DEF Next, ClientStep, SendStep, Receive, Peer, vars, callVars, Register,
         WriteHeader, WriteBody, CloseConn, Remove, SendDone, Cancel, Close,
         RecvHeader, RecvFail, RecvRemove, RecvBody, TerminateLock, Notify,
         TerminateEnd, PeerRead, PeerRespond, PeerBreak, PeerHangup

-----------------------------------------------------------------------------
(* The invariant and what it implies.                                      *)

\* Init establishes the invariant.
LEMMA Start == Init => IndInv
<1> SUFFICES ASSUME Init PROVE IndInv
  OBVIOUS
<1>1. TypeOK
  BY TypeInit
<1>2. CompletedAtMostOnce /\ Locking
  BY DEF Init, CompletedAtMostOnce, Locking, Sending, Terminating, Writing
<1>3. Numbering
  BY DEF Init, Numbering, Writing, FirstSeq
<1>4. Owners /\ Accounted
  BY DEF Init, Owners, Accounted, Terminating, Open
<1>5. Replies /\ OwnChannel
  BY ChannelAssumption, CallAssumption DEF Init, Replies, RepliesOf, OwnChannel
<1> QED
  BY <1>1, <1>2, <1>3, <1>4, <1>5 DEF IndInv, Safe

\* It is inductive.
LEMMA Step == IndInv /\ [Next]_vars => IndInv'
BY TypeStep, LockingStep, NumberingStep, OwnersStep, CompletedStep,
   AccountedStep, RepliesStep, OwnChannelStep
   DEF IndInv, Safe

\* Every reachable state satisfies the inductive invariant.
LEMMA Invariance == Spec => []IndInv
BY Start, Step, PTL DEF Spec

\* No call is completed twice, whatever the order of a failing write, a response,
\* a cancellation, Close and the end of the connection.
THEOREM CompletionIsUnique == Spec => []CompletedAtMostOnce
<1>1. IndInv => CompletedAtMostOnce
  BY DEF IndInv, Safe
<1> QED
  BY <1>1, Invariance, PTL

\* Every call that was sent and not abandoned is still held by pend, by the
\* receiver or by terminateCalls until it is completed.
THEOREM CallsAreNotLost == Spec => []NoLostCall
<1>1. IndInv => NoLostCall
  BY DEF IndInv, Safe, Accounted, Owned, NoLostCall
<1> QED
  BY <1>1, Invariance, PTL

\* A call that Call abandoned while it was pending gets no reply and no
\* completion afterwards.
THEOREM CancellationIsFinal == Spec => []CancelledStaysSilent
<1>1. IndInv => CancelledStaysSilent
  BY DEF IndInv, Safe, Replies, RepliesOf, CancelledStaysSilent
<1> QED
  BY <1>1, Invariance, PTL

\* Whoever completes a call made with Call finds its channel empty.
THEOREM SyncCompletionIsPrompt == Spec => []SyncDoneNeverBlocks
<1>1. IndInv => SyncDoneNeverBlocks
  <2> SUFFICES ASSUME IndInv, NEW c \in Sync,
                      \/ pc[c] = "done"
                      \/ rcv \in {"done", "notifyDone"} /\ rcall = c
                      \/ c \in notify
               PROVE  dones[DoneOf[c]] = << >>
    BY DEF SyncDoneNeverBlocks
  <2>1. c \in Calls /\ c # NoCall
    BY ChannelAssumption, CallAssumption
  <2>2. completions[c] = 0
    BY <2>1 DEF IndInv, Safe, Owners, Open
  <2> QED
    BY <2>2 DEF IndInv, Safe, OwnChannel
<1> QED
  BY <1>1, Invariance, PTL

\* After shutdown is set no byte is buffered or written any more.
THEOREM ShutdownIsQuiet == Spec => NoWriteAfterShutdown
<1> DEFINE Quiet == shutdown => Len(c2s') <= Len(c2s) /\ wbuf' = wbuf
<1>1. IndInv /\ [Next]_vars => [Quiet]_vars
  <2> SUFFICES ASSUME IndInv, Next, shutdown
               PROVE  Len(c2s') <= Len(c2s) /\ wbuf' = wbuf
    OBVIOUS
  <2>1. Len(c2s) \in Nat
    BY LenProperties DEF IndInv, TypeOK, WireTypeOK
  <2>2. CASE UNCHANGED <<c2s, wbuf>>
    BY <2>1, <2>2
  <2>3. ASSUME NEW c \in Calls, WriteHeader(c) \/ WriteBody(c) PROVE FALSE
    BY <2>3 DEF WriteHeader, WriteBody, IndInv, Safe, Locking, Writing
  <2>4. ASSUME NEW n \in 1 .. Len(c2s), PeerRead(n)
        PROVE  Len(c2s') <= Len(c2s) /\ wbuf' = wbuf
    <3>1. \A i \in n + 1 .. Len(c2s) : c2s[i] \in Item
      BY <2>1, ElementOfSeq DEF IndInv, TypeOK, WireTypeOK
    <3>2. Len(SubSeq(c2s, n + 1, Len(c2s))) <= Len(c2s)
      <4>1. n + 1 \in Int /\ Len(c2s) \in Int
        BY <2>1
      <4>2. Len(SubSeq(c2s, n + 1, Len(c2s)))
              = IF n + 1 <= Len(c2s) THEN Len(c2s) - (n + 1) + 1 ELSE 0
        BY <3>1, <4>1, SubSeqProperties
      <4> QED
        BY <2>1, <4>2
    <3> QED
      BY <2>4, <3>2 DEF PeerRead, bufVars
  <2> QED
    BY <2>2, <2>3, <2>4
       DEF Next, ClientStep, SendStep, Receive, Peer, bufVars, wireVars, Register,
           CloseConn, Remove, SendDone, Await, Cancel, Drain, Close, RecvHeader,
           RecvFail, RecvRemove, RecvBody, RecvDone, TerminateLock, Notify,
           NotifyDone, TerminateEnd, PeerRespond, PeerBreak, PeerHangup
<1> QED
  BY <1>1, Invariance, PTL DEF Spec, NoWriteAfterShutdown
-----------------------------------------------------------------------------
(* What travels on the connection, and what the calls report.              *)

\* Headers and bodies alternate, a header before its own body ...
BodyOf(x) == [x EXCEPT !.k = "body"]
Framed(s) ==
    /\ \A i \in 1 .. Len(s) : s[i].k = "head" /\ i # Len(s) => s[i + 1] = BodyOf(s[i])
    /\ \A i \in 2 .. Len(s) : s[i].k = "body" => s[i - 1].k = "head"
\* ... and the last body is there.
Whole(s) == s # << >> => s[Len(s)].k = "body"

\* Every value carries the number of its call.
Numbered(s, num) == \A i \in 1 .. Len(s) : s[i].seq > 0 /\ num[s[i].call] = s[i].seq

\* The buffer has the header of the call that is about to encode its body.
Header(c) == Frame(seqOf[c], c, FALSE)[1]
Buffer ==
    /\ (\A c \in Calls : pc[c] # "writeBody") => wbuf = << >>
    /\ \A c \in Calls : pc[c] = "writeBody" => wbuf = <<Header(c)>>

\* The two streams, and the requests between them.
Requests ==
    /\ Framed(c2s)
    /\ cOpen /\ (\A c \in Calls : pc[c] # "closeConn") => Whole(c2s)
Responses == Framed(s2c) /\ (sOpen => Whole(s2c))
Stamps ==
    /\ Numbered(c2s, seqOf) /\ Numbered(s2c, seqOf)
    /\ \A r \in handling : r.seq > 0 /\ seqOf[r.call] = r.seq

\* Between a header and its body the receiver has the body of the header at the
\* head of its stream, unless it will never come, and the header's call.
Expecting ==
    rcv \in {"remove", "readBody"} =>
        /\ s2c = << >> => ~sOpen
        /\ s2c # << >> => s2c[1].k = "body" /\ s2c[1].seq = rmsg.seq
        /\ rcv = "readBody" /\ rcall # NoCall => seqOf[rcall] = rmsg.seq

\* A call that is or is about to be completed has an error or its own reply.
Reported(c) ==
    /\ reply[c] \in {NoCall, c}
    /\ pc[c] = "done" => err[c] # "none"
    /\ pc[c] = "await" => c \in Sync
    /\ completions[c] = 1 \/ (rcall = c /\ rcv \in {"done", "notifyDone"})
         => err[c] # "none" \/ reply[c] = c
    /\ result[c] = "ok" => reply[c] = c
Reports == \A c \in Calls : Reported(c)

Wire == Buffer /\ Requests /\ Responses /\ Stamps /\ Expecting /\ Reports

\* Appending to a sequence of one value.
LEMMA AppendToOne == ASSUME NEW a, NEW b PROVE Append(<<a>>, b) = <<a, b>>
<1> DEFINE s == Append(<<a>>, b)
           t == <<a, b>>
<1>1. <<a>> \in Seq({a, b}) /\ b \in {a, b} /\ t \in Seq({a, b})
  OBVIOUS
<1>2. s \in Seq({a, b}) /\ Len(s) = 2 /\ s[1] = a /\ s[2] = b
  BY <1>1, AppendProperties
<1>3. Len(t) = 2 /\ t[1] = a /\ t[2] = b
  OBVIOUS
<1> HIDE DEF s, t
<1>4. Len(s) = Len(t) /\ \A i \in 1 .. Len(s) : s[i] = t[i]
  BY <1>2, <1>3
<1>5. s = t
  BY <1>1, <1>2, <1>4, SeqEqual
<1> QED
  BY <1>5 DEF s, t

\* What is left of a stream when its first values are taken.
LEMMA Dropped ==
    ASSUME NEW s \in Seq(Item), NEW r \in Seq(Item), NEW n \in Nat,
           Len(s) = Len(r) + n, \A i \in 1 .. Len(r) : r[i] = s[i + n]
    PROVE  /\ Framed(s) => Framed(r)
           /\ Whole(s) => Whole(r)
           /\ \A num : Numbered(s, num) => Numbered(r, num)
<1>1. Len(s) \in Nat /\ Len(r) \in Nat
  BY LenProperties
<1>2. \A i \in 1 .. Len(r) : i + n \in 1 .. Len(s) /\ (i # Len(r) <=> i + n # Len(s))
  BY <1>1
<1>3. ASSUME Framed(s) PROVE Framed(r)
  <2>1. ASSUME NEW i \in 1 .. Len(r), r[i].k = "head", i # Len(r)
        PROVE  r[i + 1] = BodyOf(r[i])
    <3>1. i + n \in 1 .. Len(s) /\ i + n # Len(s) /\ r[i] = s[i + n]
      BY <1>2, <2>1
    <3>2. i + 1 \in 1 .. Len(r) /\ i + 1 + n = i + n + 1
      BY <1>1, <2>1
    <3>3. s[i + n + 1] = BodyOf(s[i + n])
      BY <1>3, <2>1, <3>1 DEF Framed
    <3> QED
      BY <3>1, <3>2, <3>3
  <2>2. ASSUME NEW i \in 2 .. Len(r), r[i].k = "body" PROVE r[i - 1].k = "head"
    <3>1. /\ i \in 1 .. Len(r) /\ i - 1 \in 1 .. Len(r) /\ i + n \in 2 .. Len(s)
          /\ i - 1 + n = i + n - 1
      BY <1>1, <2>2
    <3>2. s[i + n].k = "body"
      BY <2>2, <3>1
    <3>3. s[i + n - 1].k = "head"
      BY <1>3, <3>1, <3>2 DEF Framed
    <3> QED
      BY <3>1, <3>3
  <2> QED
    BY <2>1, <2>2 DEF Framed
<1>4. ASSUME Whole(s), r # << >> PROVE r[Len(r)].k = "body"
  <2>1. Len(r) # 0
    BY <1>4, EmptySeq
  <2>2. Len(r) \in 1 .. Len(r) /\ Len(s) # 0
    BY <1>1, <2>1
  <2>3. s # << >>
    BY <2>2, EmptySeq
  <2> QED
    BY <1>4, <2>2, <2>3 DEF Whole
<1>5. ASSUME NEW num, Numbered(s, num) PROVE Numbered(r, num)
  BY <1>2, <1>5 DEF Numbered
<1> QED
  BY <1>3, <1>4, <1>5 DEF Whole

\* A stream that ends with a body takes what begins with a header.
LEMMA Joined ==
    ASSUME NEW s \in Seq(Item), NEW t \in Seq(Item)
    PROVE  /\ s \o t \in Seq(Item)
           /\ Framed(s) /\ Whole(s) /\ Framed(t) /\ t # << >> /\ t[1].k = "head"
                => Framed(s \o t)
           /\ t # << >> /\ Whole(t) => Whole(s \o t)
           /\ \A num : Numbered(s, num) /\ Numbered(t, num) => Numbered(s \o t, num)
<1>1. PICK u \in Seq(Item) : u = s \o t
  BY ConcatProperties
<1>2. /\ Len(s) \in Nat /\ Len(t) \in Nat /\ Len(u) = Len(s) + Len(t)
      /\ \A i \in 1 .. Len(u) : u[i] = IF i <= Len(s) THEN s[i] ELSE t[i - Len(s)]
  BY <1>1, ConcatProperties, LenProperties
<1>3. \A i \in 1 .. Len(s) : i \in 1 .. Len(u) /\ u[i] = s[i]
  BY <1>2
<1>4. \A i \in 1 .. Len(t) : i + Len(s) \in 1 .. Len(u) /\ u[i + Len(s)] = t[i]
  <2>1. ASSUME NEW i \in 1 .. Len(t) PROVE u[i + Len(s)] = t[i] /\ i + Len(s) \in 1 .. Len(u)
    <3>1. i + Len(s) \in 1 .. Len(u) /\ ~(i + Len(s) <= Len(s)) /\ i + Len(s) - Len(s) = i
      BY <1>2
    <3>2. u[i + Len(s)] = t[i + Len(s) - Len(s)]
      BY <1>2, <3>1
    <3> QED
      BY <3>1, <3>2
  <2> QED
    BY <2>1
<1>5. \A i \in 1 .. Len(u) :
        \/ i \in 1 .. Len(s)
        \/ \E j \in 1 .. Len(t) : i = j + Len(s)
  <2>1. \A i \in 1 .. Len(u) : i \in 1 .. Len(s) \/ i - Len(s) \in 1 .. Len(t)
    BY <1>2
  <2>2. \A i \in 1 .. Len(u) : i = i - Len(s) + Len(s)
    BY <1>2
  <2> QED
    BY <2>1, <2>2
<1>6. ASSUME Framed(s), Whole(s), Framed(t), t # << >>, t[1].k = "head" PROVE Framed(u)
  <2>1. 1 \in 1 .. Len(t) /\ Len(t) > 0
    BY <1>2, <1>6, EmptySeq
  <2>2. ASSUME NEW i \in 1 .. Len(u), u[i].k = "head", i # Len(u)
        PROVE  u[i + 1] = BodyOf(u[i])
    <3>1. CASE i \in 1 .. Len(s)
      <4>1. Len(s) # 0
        BY <1>2, <3>1
      <4>2. s # << >>
        BY <4>1, EmptySeq
      <4>3. i # Len(s)
        BY <1>3, <1>6, <2>2, <3>1, <4>2 DEF Whole
      <4>4. i + 1 \in 1 .. Len(s)
        BY <1>2, <3>1, <4>3
      <4> QED
        BY <1>3, <1>6, <2>2, <3>1, <4>3, <4>4 DEF Framed
    <3>2. ASSUME NEW j \in 1 .. Len(t), i = j + Len(s) PROVE u[i + 1] = BodyOf(u[i])
      <4>1. j # Len(t) /\ j + 1 \in 1 .. Len(t) /\ i + 1 = j + 1 + Len(s)
        BY <1>2, <2>2, <3>2
      <4>2. t[j + 1] = BodyOf(t[j])
        BY <1>4, <1>6, <2>2, <3>2, <4>1 DEF Framed
      <4> QED
        BY <1>4, <3>2, <4>1, <4>2
    <3> QED
      BY <1>5, <3>1, <3>2
  <2>3. ASSUME NEW i \in 2 .. Len(u), u[i].k = "body" PROVE u[i - 1].k = "head"
    <3>1. i \in 1 .. Len(u)
      BY <1>2
    <3>2. CASE i \in 1 .. Len(s)
      <4>1. i \in 2 .. Len(s) /\ i - 1 \in 1 .. Len(s)
        BY <1>2, <3>2
      <4> QED
        BY <1>3, <1>6, <2>3, <3>2, <4>1 DEF Framed
    <3>3. ASSUME NEW j \in 1 .. Len(t), i = j + Len(s) PROVE u[i - 1].k = "head"
      <4>1. t[j].k = "body"
        BY <1>4, <2>3, <3>3
      <4>2. j # 1
        BY <1>6, <4>1
      <4>3. j \in 2 .. Len(t) /\ j - 1 \in 1 .. Len(t) /\ i - 1 = j - 1 + Len(s)
        BY <1>2, <3>3, <4>2
      <4> QED
        BY <1>4, <1>6, <4>1, <4>3 DEF Framed
    <3> QED
      BY <1>5, <3>1, <3>2, <3>3
  <2> QED
    BY <2>2, <2>3 DEF Framed
<1>7. ASSUME t # << >>, Whole(t) PROVE Whole(u)
  <2>1. Len(t) \in 1 .. Len(t)
    BY <1>2, <1>7, EmptySeq
  <2>2. u[Len(u)] = t[Len(t)]
    <3>1. Len(t) + Len(s) = Len(u)
      BY <1>2
    <3> QED
      BY <1>4, <2>1, <3>1
  <2> QED
    BY <1>7, <2>2 DEF Whole
<1>8. ASSUME NEW num, Numbered(s, num), Numbered(t, num) PROVE Numbered(u, num)
  <2>1. ASSUME NEW i \in 1 .. Len(u) PROVE u[i].seq > 0 /\ num[u[i].call] = u[i].seq
    <3>1. CASE i \in 1 .. Len(s)
      BY <1>3, <1>8, <3>1 DEF Numbered
    <3>2. ASSUME NEW j \in 1 .. Len(t), i = j + Len(s)
          PROVE  u[i].seq > 0 /\ num[u[i].call] = u[i].seq
      <4>1. u[i] = t[j]
        BY <1>4, <3>2
      <4> QED
        BY <1>8, <4>1 DEF Numbered
    <3> QED
      BY <1>5, <3>1, <3>2
  <2> QED
    BY <2>1 DEF Numbered
<1> QED
  BY <1>1, <1>6, <1>7, <1>8

\* A message, whole or cut short after its header.
LEMMA FrameFacts ==
    ASSUME NEW n \in Nat, n > 0, NEW c \in Calls, NEW e \in BOOLEAN,
           NEW num, num[c] = n
    PROVE  LET f == Frame(n, c, e) IN
           /\ f \in Seq(Item) /\ f # << >> /\ f[1].k = "head"
           /\ Framed(f) /\ Whole(f) /\ Numbered(f, num)
           /\ <<f[1]>> \in Seq(Item) /\ <<f[1]>> # << >> /\ <<f[1]>>[1].k = "head"
           /\ Framed(<<f[1]>>) /\ Numbered(<<f[1]>>, num)
<1> DEFINE h == [k |-> "head", seq |-> n, call |-> c, err |-> e]
           b == [k |-> "body", seq |-> n, call |-> c, err |-> e]
<1>1. h \in Item /\ b \in Item
  BY DEF Item
<1>2. b = BodyOf(h) /\ h.k = "head" /\ b.k = "body"
  BY DEF BodyOf
<1>3. h.seq = n /\ h.call = c /\ b.seq = n /\ b.call = c
  OBVIOUS
<1> HIDE DEF h, b
<1>4. Frame(n, c, e) = <<h, b>>
  BY DEF Frame, h, b
<1>5. <<h, b>> \in Seq(Item) /\ <<h, b>> # << >> /\ <<h>> \in Seq(Item) /\ <<h>> # << >>
  BY <1>1
<1>6. /\ Len(<<h, b>>) = 2 /\ <<h, b>>[1] = h /\ <<h, b>>[2] = b
      /\ Len(<<h>>) = 1 /\ <<h>>[1] = h
  OBVIOUS
<1>7. Framed(<<h, b>>) /\ Whole(<<h, b>>) /\ Framed(<<h>>)
  BY <1>2, <1>6 DEF Framed, Whole
<1>8. Numbered(<<h, b>>, num) /\ Numbered(<<h>>, num)
  BY <1>3, <1>6 DEF Numbered
<1> QED
  BY <1>2, <1>4, <1>5, <1>6, <1>7, <1>8

-----------------------------------------------------------------------------
(* The steps.                                                              *)

\* The buffer: one call at a time is in Send.
LEMMA BufferStep == IndInv /\ Buffer /\ [Next]_vars => Buffer'
<1> SUFFICES ASSUME IndInv, Buffer, [Next]_vars PROVE Buffer'
  OBVIOUS
<1> USE DEF clientVars, callVars, recvVars, bufVars, wireVars
<1>1. CallTypeOK /\ Locking
  BY DEF IndInv, TypeOK, Safe
<1>2. ASSUME UNCHANGED wbuf,
             \A c \in Calls : pc'[c] = "writeBody" <=> pc[c] = "writeBody",
             \A c \in Calls : pc[c] = "writeBody" => Header(c)' = Header(c)
      PROVE  Buffer'
  BY <1>2 DEF Buffer
<1>3. CASE UNCHANGED <<pc, seqOf, wbuf>>
  BY <1>2, <1>3 DEF Header
<1>4. ASSUME NEW c \in Calls, Register(c) PROVE Buffer'
  <2>1. \A d \in Calls : pc[d] # "writeBody"
    BY <1>4 DEF Register, SendFree, Sending
  <2>2. \A d \in Calls : pc'[d] # "writeBody"
    BY <1>1, <1>4, <2>1 DEF Register, CallTypeOK
  <2> QED
    BY <1>4, <2>1, <2>2 DEF Register, Buffer
<1>5. ASSUME NEW c \in Calls, WriteHeader(c) PROVE Buffer'
  <2>1. \A d \in Calls : pc[d] # "writeBody"
    BY <1>1, <1>5 DEF WriteHeader, Locking, Sending
  <2>2. wbuf = << >>
    BY <2>1 DEF Buffer
  <2>3. CASE bufErr
    BY <1>1, <1>5, <2>1, <2>2, <2>3 DEF WriteHeader, CallTypeOK, Buffer
  <2>4. CASE ~bufErr
    <3>1. /\ wbuf' = Append(<< >>, Header(c)) /\ seqOf' = seqOf
          /\ pc' = [pc EXCEPT ![c] = "writeBody"]
      BY <1>5, <2>2, <2>4 DEF WriteHeader, Header
    <3>2. \A d \in Calls : pc'[d] = "writeBody" <=> d = c
      BY <1>1, <2>1, <3>1 DEF CallTypeOK
    <3>3. Header(c)' = Header(c) /\ wbuf' = <<Header(c)>>
      BY <3>1 DEF Header
    <3> QED
      BY <3>2, <3>3 DEF Buffer
  <2> QED
    BY <2>3, <2>4
<1>6. ASSUME NEW c \in Calls, WriteBody(c) PROVE Buffer'
  <2>1. \A d \in Calls \ {c} : pc[d] # "writeBody"
    BY <1>1, <1>6 DEF WriteBody, Locking, Sending
  <2>2. \A d \in Calls : pc'[d] # "writeBody"
    BY <1>1, <1>6, <2>1 DEF WriteBody, CallTypeOK, AfterSend
  <2>3. wbuf' = << >>
    BY <1>6 DEF WriteBody, Flush
  <2> QED
    BY <2>2, <2>3 DEF Buffer
<1>7. ASSUME NEW c \in Calls,
             \/ CloseConn(c) \/ Remove(c) \/ SendDone(c) \/ Await(c) \/ Cancel(c)
      PROVE  Buffer'
  <2>1. UNCHANGED <<wbuf, seqOf>>
    BY <1>7 DEF CloseConn, Remove, SendDone, Await, Cancel
  <2>2. \A d \in Calls : pc'[d] = "writeBody" <=> pc[d] = "writeBody"
    BY <1>1, <1>7
       DEF CloseConn, Remove, SendDone, Await, Cancel, CallTypeOK, AfterSend
  <2> QED
    BY <1>2, <2>1, <2>2 DEF Header
<1> QED
  BY <1>3, <1>4, <1>5, <1>6, <1>7
     DEF Next, ClientStep, SendStep, Receive, Peer, vars, Drain, Close, RecvHeader,
         RecvFail, RecvRemove, RecvBody, RecvDone, TerminateLock, Notify, NotifyDone,
         TerminateEnd, PeerRead, PeerRespond, PeerBreak, PeerHangup

\* What WriteBody sends.
LEMMA BodyEffect ==
    ASSUME IndInv, Buffer, NEW c \in Calls, WriteBody(c)
    PROVE  LET f == Frame(seqOf[c], c, FALSE) IN
           /\ UNCHANGED <<seqOf, s2c, cOpen, sOpen, handling, rcv, rmsg, rcall>>
           /\ \A d \in Calls \ {c} : pc'[d] = pc[d]
           /\ \/ c2s' = c2s /\ ~Up
              \/ c2s' = c2s \o <<f[1]>> /\ pc'[c] = "closeConn" /\ Up
              \/ c2s' = c2s \o f /\ pc'[c] # "closeConn" /\ Up
<1> DEFINE f == Frame(seqOf[c], c, FALSE)
<1>1. wbuf = <<f[1]>>
  BY DEF WriteBody, Buffer, Header
<1>2. Append(wbuf, f[2]) = f
  <2>1. f = <<f[1], f[2]>>
    BY DEF Frame
  <2> QED
    BY <1>1, <2>1, AppendToOne
<1>3. /\ UNCHANGED <<seqOf, s2c, cOpen, sOpen, handling, rcv, rmsg, rcall>>
      /\ \A d \in Calls \ {c} : pc'[d] = pc[d]
  BY DEF WriteBody, recvVars, IndInv, TypeOK, CallTypeOK
<1>4. \/ Flush(<<f[1]>>) /\ pc'[c] = "closeConn"
      \/ Flush(f) /\ pc'[c] # "closeConn"
  BY <1>1, <1>2 DEF WriteBody, AfterSend, IndInv, TypeOK, CallTypeOK
<1> HIDE DEF f
<1>5. \/ c2s' = c2s /\ ~Up
      \/ c2s' = c2s \o <<f[1]>> /\ pc'[c] = "closeConn" /\ Up
      \/ c2s' = c2s \o f /\ pc'[c] # "closeConn" /\ Up
  BY <1>4 DEF Flush
<1> QED
  BY <1>3, <1>5 DEF f

\* What a step of the client does to the connection: it appends a request, whole or
\* only its header, or takes one value from the responses, or at most closes its
\* end.
LEMMA WireEffect ==
    IndInv /\ Buffer /\ ClientStep =>
      /\ UNCHANGED <<sOpen, handling>>
      /\ \/ UNCHANGED <<c2s, s2c>> /\ cOpen' \in {cOpen, FALSE}
         \/ cOpen /\ s2c # << >> /\ s2c' = Tail(s2c) /\ UNCHANGED <<c2s, cOpen>>
         \/ /\ UNCHANGED <<s2c, cOpen>> /\ Up
            /\ \E c \in Calls :
                 /\ pc[c] = "writeBody"
                 /\ \/ c2s' = c2s \o Frame(seqOf[c], c, FALSE)
                    \/ c2s' = c2s \o <<Frame(seqOf[c], c, FALSE)[1]>>
<1> DEFINE Silent == UNCHANGED <<c2s, s2c>> /\ cOpen' \in {cOpen, FALSE}
           Takes == cOpen /\ s2c # << >> /\ s2c' = Tail(s2c) /\ UNCHANGED <<c2s, cOpen>>
           Writes == /\ UNCHANGED <<s2c, cOpen>> /\ Up
                     /\ \E c \in Calls :
                          /\ pc[c] = "writeBody"
                          /\ \/ c2s' = c2s \o Frame(seqOf[c], c, FALSE)
                             \/ c2s' = c2s \o <<Frame(seqOf[c], c, FALSE)[1]>>
<1> SUFFICES ASSUME IndInv, Buffer, ClientStep
             PROVE  UNCHANGED <<sOpen, handling>> /\ (Silent \/ Takes \/ Writes)
  OBVIOUS
<1> USE DEF clientVars, callVars, recvVars, bufVars, wireVars
<1>1. ASSUME NEW c \in Calls, WriteBody(c)
      PROVE  UNCHANGED <<sOpen, handling>> /\ (Silent \/ Writes)
  <2>1. /\ UNCHANGED <<s2c, cOpen, sOpen, handling>>
        /\ \/ c2s' = c2s
           \/ c2s' = c2s \o <<Frame(seqOf[c], c, FALSE)[1]>> /\ Up
           \/ c2s' = c2s \o Frame(seqOf[c], c, FALSE) /\ Up
    BY <1>1, BodyEffect
  <2>2. pc[c] = "writeBody"
    BY <1>1 DEF WriteBody
  <2> QED
    BY <2>1, <2>2
<1>2. ASSUME NEW c \in Calls, SendStep(c) \/ Await(c) \/ Cancel(c), ~WriteBody(c)
      PROVE  UNCHANGED <<sOpen, handling>> /\ Silent
  BY <1>2 DEF SendStep, Register, WriteHeader, CloseConn, Remove, SendDone, Await, Cancel
<1>3. CASE RecvHeader \/ RecvBody
  BY <1>3 DEF RecvHeader, RecvBody
<1>4. CASE Receive /\ ~RecvHeader /\ ~RecvBody
  BY <1>4 DEF Receive, RecvFail, RecvRemove, RecvDone, TerminateLock, Notify, NotifyDone,
              TerminateEnd
<1>5. CASE Close \/ \E ch \in Chan : Drain(ch)
  BY <1>5 DEF Close, Drain
<1> HIDE DEF Silent, Takes, Writes
<1> QED
  BY <1>1, <1>2, <1>3, <1>4, <1>5 DEF ClientStep

\* What PeerRead leaves.
LEMMA ReadEffect ==
    ASSUME TypeOK, NEW n \in 1 .. Len(c2s), PeerRead(n)
    PROVE  /\ c2s' \in Seq(Item) /\ Len(c2s) = Len(c2s') + n
           /\ \A i \in 1 .. Len(c2s') : c2s'[i] = c2s[i + n]
<1>1. c2s \in Seq(Item) /\ Len(c2s) \in Nat /\ n + 1 \in Int /\ Len(c2s) \in Int
  BY LenProperties DEF TypeOK, WireTypeOK
<1>2. PICK m \in Int : m = n + 1
  BY <1>1
<1>3. c2s' = SubSeq(c2s, m, Len(c2s))
  BY <1>2 DEF PeerRead
<1>4. \A i \in m .. Len(c2s) : c2s[i] \in Item
  BY <1>1, <1>2, ElementOfSeq
<1>5. /\ c2s' \in Seq(Item)
      /\ Len(c2s') = IF m <= Len(c2s) THEN Len(c2s) - m + 1 ELSE 0
      /\ \A i \in 1 .. Len(c2s) - m + 1 : c2s'[i] = c2s[m + i - 1]
  BY <1>1, <1>3, <1>4, SubSeqProperties
<1>6. Len(c2s) = Len(c2s') + n /\ Len(c2s') = Len(c2s) - m + 1
  BY <1>1, <1>2, <1>5
<1>7. \A i \in 1 .. Len(c2s') : m + i - 1 = i + n
  BY <1>1, <1>2, <1>6
<1> QED
  BY <1>5, <1>6, <1>7

\* Requests are written whole, or the connection is closed.
LEMMA RequestsStep == IndInv /\ Buffer /\ Requests /\ [Next]_vars => Requests'
<1> SUFFICES ASSUME IndInv, Buffer, Requests, [Next]_vars PROVE Requests'
  OBVIOUS
<1> USE DEF clientVars, callVars, recvVars, bufVars, wireVars
<1>1. TypeOK /\ CallTypeOK /\ Locking /\ Numbering /\ c2s \in Seq(Item)
  BY DEF IndInv, TypeOK, Safe, WireTypeOK
<1>2. ASSUME UNCHANGED c2s, cOpen' => cOpen,
             \A c \in Calls : pc[c] = "closeConn" => pc'[c] = "closeConn" \/ ~cOpen'
      PROVE  Requests'
  BY <1>2 DEF Requests
<1>3. CASE UNCHANGED <<pc, c2s>> /\ (cOpen' => cOpen)
  BY <1>2, <1>3
<1>4. ASSUME NEW c \in Calls, WriteBody(c) PROVE Requests'
  <2>1. PICK n \in Nat : n = seqOf[c] /\ n > 0
    BY <1>1, <1>4 DEF CallTypeOK, Numbering, WriteBody, Writing
  <2>2. PICK e \in BOOLEAN : e = FALSE
    OBVIOUS
  <2>3. PICK f : f = Frame(n, c, e)
    OBVIOUS
  <2>4. /\ f \in Seq(Item) /\ f # << >> /\ f[1].k = "head" /\ Framed(f) /\ Whole(f)
        /\ <<f[1]>> \in Seq(Item) /\ <<f[1]>> # << >> /\ <<f[1]>>[1].k = "head"
        /\ Framed(<<f[1]>>)
    BY <2>1, <2>3, FrameFacts
  <2>5. \A d \in Calls : pc[d] # "closeConn"
    BY <1>1, <1>4 DEF Locking, Sending, WriteBody
  <2>6. /\ cOpen' = cOpen
        /\ \/ c2s' = c2s /\ ~Up
           \/ c2s' = c2s \o <<f[1]>> /\ pc'[c] = "closeConn" /\ Up
           \/ c2s' = c2s \o f /\ pc'[c] # "closeConn" /\ Up
    BY <1>4, <2>1, <2>2, <2>3, BodyEffect
  <2>7. CASE c2s' = c2s
    BY <1>2, <2>5, <2>6, <2>7
  <2>8. CASE c2s' = c2s \o <<f[1]>> /\ pc'[c] = "closeConn" /\ Up
    <3>1. Framed(c2s) /\ Whole(c2s)
      BY <2>5, <2>8 DEF Requests, Up
    <3>2. Framed(c2s \o <<f[1]>>)
      BY <1>1, <2>4, <3>1, Joined
    <3> QED
      BY <2>8, <3>2 DEF Requests
  <2>9. CASE c2s' = c2s \o f /\ Up
    <3>1. Framed(c2s) /\ Whole(c2s)
      BY <2>5, <2>9 DEF Requests, Up
    <3>2. Framed(c2s \o f) /\ Whole(c2s \o f)
      BY <1>1, <2>4, <3>1, Joined
    <3> QED
      BY <2>9, <3>2 DEF Requests
  <2> QED
    BY <2>6, <2>7, <2>8, <2>9
<1>5. ASSUME NEW n \in 1 .. Len(c2s), PeerRead(n) PROVE Requests'
  <2>1. n \in Nat /\ c2s' \in Seq(Item)
    BY <1>1, <1>5, ReadEffect
  <2>2. (Framed(c2s) => Framed(c2s')) /\ (Whole(c2s) => Whole(c2s'))
    BY <1>1, <1>5, <2>1, ReadEffect, Dropped
  <2> QED
    BY <1>5, <2>2 DEF PeerRead, Requests
<1>6. ASSUME NEW c \in Calls,
             \/ Register(c) \/ WriteHeader(c) \/ Remove(c)
             \/ SendDone(c) \/ Await(c) \/ Cancel(c)
      PROVE  Requests'
  <2>1. UNCHANGED <<c2s, cOpen>>
    BY <1>6 DEF Register, WriteHeader, Remove, SendDone, Await, Cancel
  <2>2. \A d \in Calls : pc[d] = "closeConn" => pc'[d] = "closeConn"
    BY <1>1, <1>6 DEF Register, WriteHeader, Remove, SendDone, Await, Cancel, CallTypeOK
  <2> QED
    BY <1>2, <2>1, <2>2
<1>7. ASSUME NEW c \in Calls, CloseConn(c) PROVE Requests'
  BY <1>2, <1>7 DEF CloseConn
<1>8. CASE Receive \/ Close \/ \E ch \in Chan : Drain(ch)
  <2>1. UNCHANGED <<pc, c2s>> /\ (cOpen' = cOpen \/ cOpen' = FALSE)
    BY <1>8
       DEF Receive, Drain, Close, RecvHeader, RecvFail, RecvRemove, RecvBody, RecvDone,
           TerminateLock, Notify, NotifyDone, TerminateEnd
  <2> QED
    BY <1>3, <2>1
<1>9. CASE \/ \E r \in handling, e \in BOOLEAN : PeerRespond(r, e)
           \/ \E r \in handling : PeerBreak(r)
           \/ PeerHangup \/ UNCHANGED vars
  <2>1. UNCHANGED <<pc, c2s, cOpen>>
    BY <1>9 DEF PeerRespond, PeerBreak, PeerHangup, vars
  <2> QED
    BY <1>3, <2>1
<1> QED
  BY <1>4, <1>5, <1>6, <1>7, <1>8, <1>9 DEF Next, ClientStep, SendStep, Peer

\* What the peer writes: a response to a request it has read, whole, or its header
\* alone before it closes its end.
LEMMA PeerEffect ==
    ASSUME TypeOK, Stamps,
           (\E r \in handling, e \in BOOLEAN : PeerRespond(r, e))
             \/ \E r \in handling : PeerBreak(r)
    PROVE  \E n \in Nat, c \in Calls, e \in BOOLEAN :
             /\ n > 0 /\ seqOf[c] = n
             /\ \/ s2c' = s2c /\ (sOpen' => sOpen)
                \/ s2c' = s2c \o Frame(n, c, e)
                \/ s2c' = s2c \o <<Frame(n, c, e)[1]>> /\ ~sOpen'
             /\ UNCHANGED <<seqOf, c2s, rcv, rmsg, rcall>> /\ sOpen
             /\ handling' \subseteq handling
<1> USE DEF clientVars, callVars, recvVars
<1>1. s2c \in Seq(Item) /\ handling \subseteq Request
  BY DEF TypeOK, WireTypeOK
<1>2. ASSUME NEW r \in handling PROVE r.seq \in Nat /\ r.call \in Calls
  BY <1>1 DEF Request
<1>3. ASSUME NEW r \in handling PROVE r.seq > 0 /\ seqOf[r.call] = r.seq
  BY DEF Stamps
<1>4. ASSUME NEW r \in handling, NEW e \in BOOLEAN, PeerRespond(r, e)
      PROVE  \E n \in Nat, c \in Calls :
               /\ n > 0 /\ seqOf[c] = n
               /\ s2c' = s2c \/ s2c' = s2c \o Frame(n, c, e)
               /\ UNCHANGED <<seqOf, c2s, rcv, rmsg, rcall, sOpen>> /\ sOpen
               /\ handling' \subseteq handling
  <2>1. PICK n \in Nat, c \in Calls : n = r.seq /\ c = r.call
    BY <1>2
  <2> QED
    BY <1>3, <1>4, <2>1 DEF PeerRespond
<1>5. ASSUME NEW r \in handling, PeerBreak(r)
      PROVE  \E n \in Nat, c \in Calls, e \in BOOLEAN :
               /\ n > 0 /\ seqOf[c] = n
               /\ s2c' = s2c \/ s2c' = s2c \o <<Frame(n, c, e)[1]>>
               /\ UNCHANGED <<seqOf, c2s, rcv, rmsg, rcall>> /\ sOpen /\ ~sOpen'
               /\ handling' \subseteq handling
  <2>1. PICK n \in Nat, c \in Calls, e \in BOOLEAN : n = r.seq /\ c = r.call /\ e = FALSE
    BY <1>2
  <2>2. PICK h \in Item : h = Frame(n, c, e)[1]
    BY FrameType
  <2>3. Append(s2c, h) = s2c \o <<h>>
    BY <1>1
  <2>4. s2c' = s2c \/ s2c' = s2c \o <<h>>
    BY <1>5, <2>1, <2>2, <2>3 DEF PeerBreak
  <2>5. n > 0 /\ seqOf[c] = n
    BY <1>3, <2>1
  <2>6. /\ UNCHANGED <<seqOf, c2s, rcv, rmsg, rcall>> /\ sOpen /\ ~sOpen'
        /\ handling' \subseteq handling
    BY <1>5 DEF PeerBreak
  <2> QED
    BY <2>2, <2>4, <2>5, <2>6
<1> QED
  BY <1>4, <1>5

\* What the receiver takes from its stream.
LEMMA TakeEffect ==
    ASSUME TypeOK, s2c # << >>, s2c' = Tail(s2c)
    PROVE  /\ s2c' \in Seq(Item) /\ Len(s2c) = Len(s2c') + 1
           /\ \A i \in 1 .. Len(s2c') : s2c'[i] = s2c[i + 1]
           /\ Head(s2c) = s2c[1] /\ 1 \in 1 .. Len(s2c) /\ s2c[1] \in Item
<1>1. s2c \in Seq(Item)
  BY DEF TypeOK, WireTypeOK
<1>2. /\ Len(s2c) \in Nat /\ Len(s2c') = Len(s2c) - 1 /\ s2c' \in Seq(Item)
      /\ \A i \in 1 .. Len(s2c') : s2c'[i] = s2c[i + 1]
      /\ Head(s2c) = s2c[1] /\ Head(s2c) \in Item
  BY <1>1, HeadTailProperties, LenProperties
<1>3. Len(s2c) # 0
  BY <1>1, EmptySeq
<1> QED
  BY <1>2, <1>3

\* The steps that change the response stream or the peer's end.
LEMMA ResponseCases ==
    ASSUME [Next]_vars
    PROVE  \/ UNCHANGED <<s2c, sOpen>>
           \/ RecvHeader
           \/ RecvBody /\ s2c # << >> /\ s2c' = Tail(s2c) /\ UNCHANGED sOpen
           \/ (\E r \in handling, e \in BOOLEAN : PeerRespond(r, e))
                \/ \E r \in handling : PeerBreak(r)
           \/ PeerHangup
<1> USE DEF clientVars, callVars, recvVars, bufVars, wireVars
<1>1. CASE RecvBody
  BY <1>1 DEF RecvBody
<1>2. CASE Receive /\ ~RecvBody /\ ~RecvHeader
  BY <1>2 DEF Receive, RecvFail, RecvRemove, RecvDone, TerminateLock, Notify, NotifyDone,
              TerminateEnd
<1>3. ASSUME NEW c \in Calls, SendStep(c) \/ Await(c) \/ Cancel(c)
      PROVE  UNCHANGED <<s2c, sOpen>>
  BY <1>3 DEF SendStep, Register, WriteHeader, WriteBody, CloseConn, Remove, SendDone,
              Await, Cancel
<1>4. CASE Close \/ (\E ch \in Chan : Drain(ch)) \/ (\E n \in 1 .. Len(c2s) : PeerRead(n))
             \/ UNCHANGED vars
  BY <1>4 DEF Close, Drain, PeerRead, vars
<1> QED
  BY <1>1, <1>2, <1>3, <1>4 DEF Next, ClientStep, Peer

\* Responses arrive whole, or the peer has closed its end.
LEMMA ResponsesStep == IndInv /\ Stamps /\ Responses /\ [Next]_vars => Responses'
<1> SUFFICES ASSUME IndInv, Stamps, Responses, [Next]_vars PROVE Responses'
  OBVIOUS
<1>1. TypeOK /\ s2c \in Seq(Item)
  BY DEF IndInv, TypeOK, WireTypeOK
<1>2. CASE UNCHANGED s2c /\ (sOpen' => sOpen)
  BY <1>2 DEF Responses
<1>3. CASE s2c # << >> /\ s2c' = Tail(s2c) /\ UNCHANGED sOpen
  <2>1. (Framed(s2c) => Framed(s2c')) /\ (Whole(s2c) => Whole(s2c'))
    BY <1>1, <1>3, TakeEffect, Dropped
  <2> QED
    BY <1>3, <2>1 DEF Responses
<1>4. CASE (\E r \in handling, e \in BOOLEAN : PeerRespond(r, e))
             \/ \E r \in handling : PeerBreak(r)
  <2>1. PICK n \in Nat, c \in Calls, e \in BOOLEAN :
             /\ n > 0 /\ seqOf[c] = n /\ sOpen
             /\ \/ s2c' = s2c /\ (sOpen' => sOpen)
                \/ s2c' = s2c \o Frame(n, c, e)
                \/ s2c' = s2c \o <<Frame(n, c, e)[1]>> /\ ~sOpen'
    BY <1>1, <1>4, PeerEffect
  <2>2. PICK f : f = Frame(n, c, e)
    OBVIOUS
  <2>3. /\ f \in Seq(Item) /\ f # << >> /\ f[1].k = "head" /\ Framed(f) /\ Whole(f)
        /\ <<f[1]>> \in Seq(Item) /\ <<f[1]>> # << >> /\ <<f[1]>>[1].k = "head"
        /\ Framed(<<f[1]>>)
    BY <2>1, <2>2, FrameFacts
  <2>4. Framed(s2c) /\ Whole(s2c)
    BY <2>1 DEF Responses
  <2>5. CASE s2c' = s2c \o f
    <3>1. Framed(s2c \o f) /\ Whole(s2c \o f)
      BY <1>1, <2>3, <2>4, Joined
    <3> QED
      BY <2>5, <3>1 DEF Responses
  <2>6. CASE s2c' = s2c \o <<f[1]>> /\ ~sOpen'
    <3>1. Framed(s2c \o <<f[1]>>)
      BY <1>1, <2>3, <2>4, Joined
    <3> QED
      BY <2>6, <3>1 DEF Responses
  <2> QED
    BY <1>2, <2>1, <2>2, <2>5, <2>6
<1>5. CASE RecvHeader
  BY <1>3, <1>5 DEF RecvHeader
<1>6. CASE PeerHangup
  BY <1>2, <1>6 DEF PeerHangup
<1> QED
  BY <1>2, <1>3, <1>4, <1>5, <1>6, ResponseCases

\* A call keeps the number it was registered with.
LEMMA NumberStays ==
    ASSUME IndInv, [Next]_vars, NEW c \in Calls, seqOf[c] > 0 \/ pc[c] # "init"
    PROVE  seqOf'[c] = seqOf[c]
<1> USE DEF clientVars, callVars, recvVars, bufVars, wireVars
<1>1. pc[c] # "init" /\ seqOf \in [Calls -> Nat]
  BY DEF IndInv, TypeOK, CallTypeOK, Safe, Numbering
<1>2. ASSUME NEW d \in Calls, Register(d) PROVE seqOf'[c] = seqOf[c]
  BY <1>1, <1>2 DEF Register
<1>3. CASE UNCHANGED seqOf
  BY <1>3
<1> QED
  BY <1>2, <1>3
     DEF Next, ClientStep, SendStep, Receive, Peer, vars, WriteHeader, WriteBody,
         CloseConn, Remove, SendDone, Await, Cancel, Drain, Close, RecvHeader, RecvFail,
         RecvRemove, RecvBody, RecvDone, TerminateLock, Notify, NotifyDone,
         TerminateEnd, PeerRead, PeerRespond, PeerBreak, PeerHangup

\* So what is numbered stays numbered.
LEMMA NumbersStay ==
    ASSUME IndInv, [Next]_vars, NEW s \in Seq(Item), Numbered(s, seqOf)
    PROVE  Numbered(s, seqOf')
<1>1. ASSUME NEW i \in 1 .. Len(s) PROVE s[i].seq > 0 /\ seqOf'[s[i].call] = s[i].seq
  <2>1. s[i] \in Item
    BY ElementOfSeq
  <2>2. PICK c \in Calls : c = s[i].call
    BY <2>1 DEF Item
  <2>3. s[i].seq > 0 /\ seqOf[c] = s[i].seq
    BY <2>2 DEF Numbered
  <2>4. seqOf'[c] = seqOf[c]
    BY <2>3, NumberStays
  <2> QED
    BY <2>2, <2>3, <2>4
<1> QED
  BY <1>1 DEF Numbered

\* Whatever travels carries the number of its call.
LEMMA StampsStep == IndInv /\ Buffer /\ Stamps /\ [Next]_vars => Stamps'
<1> SUFFICES ASSUME IndInv, Buffer, Stamps, [Next]_vars PROVE Stamps'
  OBVIOUS
<1> USE DEF clientVars, callVars, recvVars, bufVars, wireVars
<1>1. /\ TypeOK /\ CallTypeOK /\ Numbering /\ c2s \in Seq(Item) /\ s2c \in Seq(Item)
      /\ handling \subseteq Request
  BY DEF IndInv, TypeOK, Safe, WireTypeOK
<1>2. Numbered(c2s, seqOf') /\ Numbered(s2c, seqOf')
  BY <1>1, NumbersStay DEF Stamps
<1>3. ASSUME NEW r \in handling PROVE r.seq > 0 /\ seqOf'[r.call] = r.seq
  <2>1. PICK c \in Calls : c = r.call
    BY <1>1 DEF Request
  <2>2. r.seq > 0 /\ seqOf[c] = r.seq
    BY <2>1 DEF Stamps
  <2> QED
    BY <2>1, <2>2, NumberStays
<1>4. Numbered(s2c', seqOf')
  <2>1. CASE s2c' = s2c
    BY <1>2, <2>1
  <2>2. CASE s2c # << >> /\ s2c' = Tail(s2c)
    <3>1. \A num : Numbered(s2c, num) => Numbered(s2c', num)
      BY <1>1, <2>2, TakeEffect, Dropped
    <3> QED
      BY <1>2, <3>1
  <2>3. CASE (\E r \in handling, e \in BOOLEAN : PeerRespond(r, e))
               \/ \E r \in handling : PeerBreak(r)
    <3>1. PICK n \in Nat, c \in Calls, e \in BOOLEAN :
               /\ n > 0 /\ seqOf[c] = n /\ seqOf' = seqOf
               /\ \/ s2c' = s2c
                  \/ s2c' = s2c \o Frame(n, c, e)
                  \/ s2c' = s2c \o <<Frame(n, c, e)[1]>>
      BY <1>1, <2>3, PeerEffect
    <3>2. PICK f : f = Frame(n, c, e)
      OBVIOUS
    <3>3. /\ f \in Seq(Item) /\ Numbered(f, seqOf)
          /\ <<f[1]>> \in Seq(Item) /\ Numbered(<<f[1]>>, seqOf)
      BY <3>1, <3>2, FrameFacts
    <3>4. Numbered(s2c \o f, seqOf) /\ Numbered(s2c \o <<f[1]>>, seqOf)
      BY <1>1, <3>3, Joined DEF Stamps
    <3> QED
      BY <1>2, <3>1, <3>2, <3>4
  <2>4. CASE RecvHeader
    BY <2>2, <2>4 DEF RecvHeader
  <2>5. CASE PeerHangup
    BY <2>1, <2>5 DEF PeerHangup
  <2> QED
    BY <2>1, <2>2, <2>3, <2>4, <2>5, ResponseCases
<1>5. ASSUME UNCHANGED c2s, handling' \subseteq handling PROVE Stamps'
  BY <1>2, <1>3, <1>4, <1>5 DEF Stamps
<1>6. ASSUME NEW c \in Calls, WriteBody(c) PROVE Stamps'
  <2>1. PICK n \in Nat : n = seqOf[c] /\ n > 0
    BY <1>1, <1>6 DEF CallTypeOK, Numbering, WriteBody, Writing
  <2>2. PICK e \in BOOLEAN : e = FALSE
    OBVIOUS
  <2>3. PICK f : f = Frame(n, c, e)
    OBVIOUS
  <2>4. /\ f \in Seq(Item) /\ Numbered(f, seqOf)
        /\ <<f[1]>> \in Seq(Item) /\ Numbered(<<f[1]>>, seqOf)
    BY <2>1, <2>3, FrameFacts
  <2>5. /\ UNCHANGED <<seqOf, handling>>
        /\ c2s' = c2s \/ c2s' = c2s \o <<f[1]>> \/ c2s' = c2s \o f
    BY <1>6, <2>1, <2>2, <2>3, BodyEffect
  <2>6. Numbered(c2s \o f, seqOf) /\ Numbered(c2s \o <<f[1]>>, seqOf)
    BY <1>1, <2>4, Joined DEF Stamps
  <2>7. Numbered(c2s', seqOf')
    BY <1>2, <2>5, <2>6
  <2> QED
    BY <1>3, <1>4, <2>5, <2>7 DEF Stamps
<1>7. ASSUME NEW n \in 1 .. Len(c2s), PeerRead(n) PROVE Stamps'
  <2>1. n \in Nat /\ c2s' \in Seq(Item)
    BY <1>1, <1>7, ReadEffect
  <2>2. \A num : Numbered(c2s, num) => Numbered(c2s', num)
    BY <1>1, <1>7, <2>1, ReadEffect, Dropped
  <2>3. ASSUME NEW r \in handling' \ handling PROVE r.seq > 0 /\ seqOf'[r.call] = r.seq
    <3>1. PICK i \in 1 .. n : r = [seq |-> c2s[i].seq, call |-> c2s[i].call]
      BY <1>7, <2>3 DEF PeerRead
    <3>2. i \in 1 .. Len(c2s)
      BY <1>1, LenProperties
    <3> QED
      BY <1>2, <3>1, <3>2 DEF Numbered
  <2> QED
    BY <1>2, <1>3, <1>4, <2>2, <2>3 DEF Stamps
<1>8. CASE (\E r \in handling, e \in BOOLEAN : PeerRespond(r, e))
             \/ \E r \in handling : PeerBreak(r)
  BY <1>5, <1>8 DEF PeerRespond, PeerBreak
<1>9. ASSUME NEW c \in Calls, (SendStep(c) /\ ~WriteBody(c)) \/ Await(c) \/ Cancel(c)
      PROVE  UNCHANGED <<c2s, handling>>
  BY <1>9 DEF SendStep, Register, WriteHeader, CloseConn, Remove, SendDone, Await, Cancel
<1>10. CASE \/ Receive \/ Close \/ (\E ch \in Chan : Drain(ch)) \/ PeerHangup
            \/ UNCHANGED vars
  <2>1. UNCHANGED <<c2s, handling>>
    BY <1>10
       DEF Receive, Drain, Close, RecvHeader, RecvFail, RecvRemove, RecvBody, RecvDone,
           TerminateLock, Notify, NotifyDone, TerminateEnd, PeerHangup, vars
  <2> QED
    BY <1>5, <2>1
<1> QED
  BY <1>5, <1>6, <1>7, <1>8, <1>9, <1>10 DEF Next, ClientStep, Peer

\* The body of a header has its number.
LEMMA BodyFacts ==
    \A x \in Item : BodyOf(x).k = "body" /\ BodyOf(x).seq = x.seq /\ BodyOf(x).call = x.call
BY DEF BodyOf, Item

\* The body that the receiver is about to read is that of the header it has read.
LEMMA ExpectingStep ==
    IndInv /\ Stamps /\ Responses /\ Expecting /\ [Next]_vars => Expecting'
<1> SUFFICES ASSUME IndInv, Stamps, Responses, Expecting, [Next]_vars PROVE Expecting'
  OBVIOUS
<1> USE DEF clientVars, callVars, recvVars, bufVars, wireVars
<1>1. /\ TypeOK /\ RecvTypeOK /\ ClientTypeOK /\ Numbering /\ Owners /\ s2c \in Seq(Item)
  BY DEF IndInv, TypeOK, Safe, WireTypeOK
<1>2. rcall # NoCall => seqOf'[rcall] = seqOf[rcall]
  BY <1>1, NumberStays DEF RecvTypeOK, Owners, Open
<1>3. ASSUME UNCHANGED <<s2c, rcv, rmsg, rcall>>, sOpen' => sOpen PROVE Expecting'
  BY <1>2, <1>3 DEF Expecting
<1>4. CASE rcv' \notin {"remove", "readBody"}
  BY <1>4 DEF Expecting
<1>5. CASE RecvHeader
  <2>1. /\ s2c # << >> /\ s2c' = Tail(s2c) /\ Head(s2c).k = "head" /\ rcv' = "remove"
        /\ rmsg' = [seq |-> Head(s2c).seq, err |-> Head(s2c).err] /\ UNCHANGED sOpen
    BY <1>5 DEF RecvHeader
  <2>2. /\ s2c' \in Seq(Item) /\ Len(s2c) = Len(s2c') + 1 /\ s2c[1] \in Item
        /\ \A i \in 1 .. Len(s2c') : s2c'[i] = s2c[i + 1]
        /\ Head(s2c) = s2c[1] /\ 1 \in 1 .. Len(s2c)
    BY <1>1, <2>1, TakeEffect
  <2>3. Len(s2c') \in Nat
    BY <2>2, LenProperties
  <2>4. CASE s2c' = << >>
    <3>1. Len(s2c) = 1
      BY <2>2, <2>4
    <3>2. ~Whole(s2c)
      BY <2>1, <2>2, <3>1 DEF Whole
    <3>3. ~sOpen'
      BY <2>1, <3>2 DEF Responses
    <3> QED
      BY <2>1, <2>4, <3>3 DEF Expecting
  <2>5. CASE s2c' # << >>
    <3>1. Len(s2c') # 0
      BY <2>2, <2>5, EmptySeq
    <3>2. 1 \in 1 .. Len(s2c') /\ 1 # Len(s2c) /\ 1 + 1 = 2
      BY <2>2, <2>3, <3>1
    <3>3. s2c'[1] = s2c[2]
      BY <2>2, <3>2
    <3>4. s2c[2] = BodyOf(s2c[1])
      BY <2>1, <2>2, <3>2 DEF Responses, Framed
    <3>5. s2c'[1].k = "body" /\ s2c'[1].seq = rmsg'.seq
      BY <2>1, <2>2, <3>3, <3>4, BodyFacts
    <3> QED
      BY <2>1, <2>5, <3>5 DEF Expecting
  <2> QED
    BY <2>4, <2>5
<1>6. CASE RecvRemove
  <2>1. /\ rcv = "remove" /\ UNCHANGED <<s2c, sOpen, rmsg, seqOf>> /\ rcv' = "readBody"
        /\ rcall' = Lookup(rmsg.seq)
    BY <1>6 DEF RecvRemove
  <2>2. rcall' # NoCall => seqOf'[rcall'] = rmsg'.seq
    BY <1>1, <2>1 DEF Lookup, Numbering
  <2> QED
    BY <2>1, <2>2 DEF Expecting
<1>7. CASE (\E r \in handling, e \in BOOLEAN : PeerRespond(r, e))
             \/ \E r \in handling : PeerBreak(r)
  <2>1. PICK n \in Nat, c \in Calls, e \in BOOLEAN :
             /\ UNCHANGED <<rcv, rmsg, rcall>> /\ sOpen
             /\ n > 0 /\ seqOf[c] = n
             /\ \/ s2c' = s2c
                \/ s2c' = s2c \o Frame(n, c, e)
                \/ s2c' = s2c \o <<Frame(n, c, e)[1]>>
    BY <1>1, <1>7, PeerEffect
  <2>2. PICK f : f = Frame(n, c, e)
    OBVIOUS
  <2>3. f \in Seq(Item) /\ <<f[1]>> \in Seq(Item)
    BY <2>1, <2>2, FrameFacts
  <2>4. CASE s2c = << >>
    BY <2>1, <2>4, <1>4 DEF Expecting
  <2>5. CASE s2c # << >>
    <3>1. Len(s2c) \in Nat /\ Len(s2c) # 0
      BY <1>1, <2>5, EmptySeq, LenProperties
    <3>2. ASSUME NEW g \in Seq(Item), s2c' = s2c \o g PROVE s2c' # << >> /\ s2c'[1] = s2c[1]
      <4>1. /\ Len(g) \in Nat /\ Len(s2c') = Len(s2c) + Len(g)
            /\ \A i \in 1 .. Len(s2c) + Len(g) :
                 s2c'[i] = IF i <= Len(s2c) THEN s2c[i] ELSE g[i - Len(s2c)]
        BY <1>1, <3>2, ConcatProperties, LenProperties
      <4>2. 1 \in 1 .. Len(s2c) + Len(g) /\ 1 <= Len(s2c) /\ Len(s2c') # 0
        BY <3>1, <4>1
      <4>3. s2c' # << >>
        BY <4>2
      <4> QED
        BY <4>1, <4>2, <4>3
    <3>3. s2c' # << >> /\ s2c'[1] = s2c[1]
      BY <2>1, <2>2, <2>3, <2>5, <3>2
    <3> QED
      BY <1>2, <2>1, <2>5, <3>3 DEF Expecting
  <2> QED
    BY <2>4, <2>5
<1>8. CASE Receive /\ ~RecvHeader /\ ~RecvRemove
  <2>1. rcv' \notin {"remove", "readBody"}
    BY <1>8 DEF Receive, RecvFail, RecvBody, RecvDone, TerminateLock, Notify, NotifyDone,
                TerminateEnd
  <2> QED
    BY <1>4, <2>1
<1>9. CASE PeerHangup
  BY <1>3, <1>9 DEF PeerHangup
<1>10. ASSUME NEW c \in Calls, SendStep(c) \/ Await(c) \/ Cancel(c)
       PROVE  UNCHANGED <<s2c, rcv, rmsg, rcall, sOpen>>
  BY <1>10 DEF SendStep, Register, WriteHeader, WriteBody, CloseConn, Remove, SendDone,
               Await, Cancel
<1>11. CASE Close \/ (\E ch \in Chan : Drain(ch)) \/ (\E n \in 1 .. Len(c2s) : PeerRead(n))
              \/ UNCHANGED vars
  <2>1. UNCHANGED <<s2c, rcv, rmsg, rcall, sOpen>>
    BY <1>11 DEF Close, Drain, PeerRead, vars
  <2> QED
    BY <1>3, <2>1
<1> QED
  BY <1>3, <1>5, <1>6, <1>7, <1>8, <1>9, <1>10, <1>11 DEF Next, ClientStep, Peer

\* A step that completes a call only with an error, and touches no reply and no
\* result, leaves what it reports true.
LEMMA ReportFrame ==
    ASSUME NEW c \in Calls, Reported(c),
           reply'[c] = reply[c], result'[c] = result[c],
           err'[c] = err[c] \/ err'[c] # "none",
           pc'[c] = "done" => pc[c] = "done" \/ err'[c] # "none",
           pc'[c] = "await" => pc[c] = "await" \/ c \in Sync,
           completions'[c] = 1 \/ (rcall' = c /\ rcv' \in {"done", "notifyDone"})
             => \/ completions[c] = 1 \/ (rcall = c /\ rcv \in {"done", "notifyDone"})
                \/ err'[c] # "none"
    PROVE  Reported(c)'
<1>1. /\ reply'[c] \in {NoCall, c} /\ (pc'[c] = "done" => err'[c] # "none")
      /\ pc'[c] = "await" => c \in Sync
  BY DEF Reported
<1>2. completions'[c] = 1 \/ (rcall' = c /\ rcv' \in {"done", "notifyDone"})
        => err'[c] # "none" \/ reply'[c] = c
  BY DEF Reported
<1>3. result'[c] = "ok" => reply'[c] = c
  BY DEF Reported
<1> QED
  BY <1>1, <1>2, <1>3 DEF Reported

\* Only a call's own reply is written, and no call is completed without one or an
\* error.
LEMMA ReportsStep ==
    IndInv /\ Stamps /\ Expecting /\ Reports /\ [Next]_vars => Reports'
<1> SUFFICES ASSUME IndInv, Stamps, Expecting, Reports, [Next]_vars, NEW c \in Calls
             PROVE  Reported(c)'
  BY DEF Reports
<1> USE DEF clientVars, callVars, recvVars, bufVars, wireVars
<1>1. /\ TypeOK /\ CallTypeOK /\ RecvTypeOK /\ Numbering /\ Owners /\ OwnChannel
      /\ CompletedAtMostOnce /\ s2c \in Seq(Item) /\ Reported(c) /\ c # NoCall
  BY CallAssumption DEF IndInv, TypeOK, Safe, WireTypeOK, Reports
<1>2. CASE UNCHANGED <<reply, result, err, pc, completions, rcall, rcv>>
  BY <1>1, <1>2, ReportFrame
<1>3. ASSUME NEW d \in Calls, Register(d) \/ Remove(d) PROVE Reported(c)'
  <2>1. /\ UNCHANGED <<reply, result, completions, rcall, rcv>>
        /\ err'[c] = err[c] \/ err'[c] # "none"
    BY <1>1, <1>3 DEF Register, Remove, CallTypeOK
  <2>2. pc'[c] = "done" => pc[c] = "done" \/ err'[c] # "none"
    BY <1>1, <1>3 DEF Register, Remove, CallTypeOK, AfterSend
  <2>3. pc'[c] = "await" => pc[c] = "await" \/ c \in Sync
    BY <1>1, <1>3 DEF Register, Remove, CallTypeOK, AfterSend
  <2> QED
    BY <1>1, <2>1, <2>2, <2>3, ReportFrame
<1>4. ASSUME NEW d \in Calls, WriteHeader(d) \/ WriteBody(d) \/ CloseConn(d)
      PROVE  Reported(c)'
  <2>1. UNCHANGED <<reply, result, completions, rcall, rcv, err>>
    BY <1>4 DEF WriteHeader, WriteBody, CloseConn
  <2>2. /\ pc'[c] = "done" => pc[c] = "done"
        /\ pc'[c] = "await" => pc[c] = "await" \/ c \in Sync
    BY <1>1, <1>4 DEF WriteHeader, WriteBody, CloseConn, CallTypeOK, AfterSend
  <2> QED
    BY <1>1, <2>1, <2>2, ReportFrame
<1>5. ASSUME NEW d \in Calls, SendDone(d) PROVE Reported(c)'
  <2>1. UNCHANGED <<reply, result, rcall, rcv, err>> /\ Done(d) /\ pc[d] = "done"
    BY <1>5 DEF SendDone
  <2>2. /\ pc'[c] = "done" => pc[c] = "done"
        /\ pc'[c] = "await" => pc[c] = "await" \/ c \in Sync
    BY <1>1, <1>5 DEF SendDone, CallTypeOK, AfterSend
  <2>3. CASE c = d
    <3>1. err'[c] # "none"
      BY <1>1, <2>1, <2>3 DEF Reported
    <3> QED
      BY <1>1, <2>1, <2>2, <3>1, ReportFrame
  <2>4. CASE c # d
    <3>1. completions'[c] = completions[c]
      BY <1>1, <2>1, <2>4, DoneEffect
    <3> QED
      BY <1>1, <2>1, <2>2, <3>1, ReportFrame
  <2> QED
    BY <2>3, <2>4
<1>6. ASSUME NEW d \in Calls, Await(d) PROVE Reported(c)'
  <2>1. /\ UNCHANGED <<reply, completions, rcall, rcv, err>> /\ pc[d] = "await"
        /\ dones[DoneOf[d]] # << >> /\ pc' = [pc EXCEPT ![d] = "returned"]
        /\ result' = [result EXCEPT ![d] = IF err[d] = "none" THEN "ok" ELSE "err"]
    BY <1>6 DEF Await
  <2>2. /\ pc'[c] = "done" => pc[c] = "done"
        /\ pc'[c] = "await" => pc[c] = "await"
    BY <1>1, <2>1 DEF CallTypeOK
  <2>3. CASE c = d
    <3>1. c \in Sync
      BY <1>1, <2>1, <2>3 DEF Reported
    <3>2. completions[c] # 0
      BY <2>1, <2>3, <3>1, <1>1 DEF OwnChannel
    <3>3. completions[c] = 1
      BY <1>1, <3>2 DEF CompletedAtMostOnce, CallTypeOK
    <3>4. err[c] # "none" \/ reply[c] = c
      BY <1>1, <3>3 DEF Reported
    <3>5. result'[c] = "ok" => reply'[c] = c
      BY <1>1, <2>1, <2>3, <3>4 DEF CallTypeOK
    <3> QED
      BY <1>1, <2>1, <2>2, <3>5 DEF Reported
  <2>4. CASE c # d
    <3>1. result'[c] = result[c]
      BY <1>1, <2>1, <2>4 DEF CallTypeOK
    <3> QED
      BY <1>1, <2>1, <2>2, <3>1, ReportFrame
  <2> QED
    BY <2>3, <2>4
<1>7. ASSUME NEW d \in Calls, Cancel(d) PROVE Reported(c)'
  <2>1. /\ UNCHANGED <<reply, completions, rcall, rcv, err>>
        /\ result'[c] \in {result[c], "ctx", "late"}
        /\ pc'[c] \in {pc[c], "returned"}
    BY <1>1, <1>7 DEF Cancel, CallTypeOK
  <2> QED
    BY <1>1, <2>1 DEF Reported
<1>8. CASE RecvBody
  <2>1. UNCHANGED <<pc, result, completions, rcall>> /\ rcv = "readBody"
    BY <1>8 DEF RecvBody
  <2>2. CASE rcall = NoCall
    <3>1. UNCHANGED <<err, reply>>
      BY <1>8, <2>2 DEF RecvBody
    <3> QED
      BY <1>1, <2>1, <2>2, <3>1, ReportFrame
  <2>3. CASE rcall # NoCall /\ rmsg.err
    <3>1. err' = [err EXCEPT ![rcall] = "server"] /\ UNCHANGED reply
      BY <1>8, <2>3 DEF RecvBody
    <3>2. /\ rcall = c => err'[c] = "server"
          /\ rcall # c => err'[c] = err[c]
      BY <1>1, <3>1 DEF CallTypeOK
    <3> QED
      BY <1>1, <2>1, <3>1, <3>2, ReportFrame
  <2>4. CASE rcall # NoCall /\ ~rmsg.err
    <3>1. /\ err' = [err EXCEPT ![rcall] = IF rerr' THEN "body" ELSE @]
          /\ reply' = [reply EXCEPT ![rcall] = IF rerr' THEN @ ELSE Head(s2c).call]
      BY <1>8, <2>4 DEF RecvBody
    <3>2. CASE rcall # c
      <4>1. err'[c] = err[c] /\ reply'[c] = reply[c]
        BY <1>1, <3>1, <3>2 DEF CallTypeOK
      <4> QED
        BY <1>1, <2>1, <3>2, <4>1, ReportFrame
    <3>3. CASE rcall = c /\ rerr'
      <4>1. err'[c] = "body" /\ reply'[c] = reply[c]
        BY <1>1, <3>1, <3>3 DEF CallTypeOK
      <4> QED
        BY <1>1, <2>1, <4>1, ReportFrame
    <3>4. CASE rcall = c /\ ~rerr'
      <4>1. s2c # << >> /\ s2c' = Tail(s2c)
        BY <1>8, <3>4 DEF RecvBody
      <4>2. Head(s2c) = s2c[1] /\ 1 \in 1 .. Len(s2c) /\ s2c[1] \in Item
        BY <1>1, <4>1, TakeEffect
      <4>3. s2c[1].seq = rmsg.seq /\ seqOf[c] = rmsg.seq
        BY <2>1, <2>4, <3>4, <4>1 DEF Expecting
      <4>4. s2c[1].seq > 0 /\ seqOf[s2c[1].call] = s2c[1].seq /\ s2c[1].call \in Calls
        BY <4>2 DEF Stamps, Numbered, Item
      <4>5. s2c[1].call = c
        BY <1>1, <4>3, <4>4 DEF Numbering
      <4>6. reply'[c] = c /\ err'[c] = err[c]
        BY <1>1, <3>1, <3>4, <4>2, <4>5 DEF CallTypeOK
      <4> QED
        BY <1>1, <2>1, <4>6 DEF Reported
    <3> QED
      BY <3>2, <3>3, <3>4
  <2> QED
    BY <2>2, <2>3, <2>4
<1>9. CASE RecvDone \/ NotifyDone
  <2>1. /\ UNCHANGED <<pc, result, err, reply>> /\ rcv \in {"done", "notifyDone"}
        /\ rcall' = NoCall /\ Done(rcall) /\ rcall \in Calls
    BY <1>1, <1>9 DEF RecvDone, NotifyDone, RecvTypeOK
  <2>2. rcall # c => completions'[c] = completions[c]
    BY <1>1, <2>1, DoneEffect
  <2> QED
    BY <1>1, <2>1, <2>2, ReportFrame
<1>10. ASSUME NEW d \in Calls, Notify(d) PROVE Reported(c)'
  <2>1. /\ UNCHANGED <<pc, result, reply, completions>> /\ rcall' = d
        /\ d = c => err'[c] = "conn"
        /\ d # c => err'[c] = err[c]
    BY <1>1, <1>10 DEF Notify, CallTypeOK
  <2> QED
    BY <1>1, <2>1, ReportFrame
<1>11. CASE RecvHeader \/ RecvFail \/ RecvRemove \/ TerminateLock \/ TerminateEnd
  <2>1. /\ UNCHANGED <<pc, result, reply, completions, err>>
        /\ rcv' \notin {"done", "notifyDone"}
    BY <1>11 DEF RecvHeader, RecvFail, RecvRemove, TerminateLock, TerminateEnd
  <2> QED
    BY <1>1, <2>1, ReportFrame
<1>12. CASE Close \/ (\E ch \in Chan : Drain(ch)) \/ Peer \/ UNCHANGED vars
  BY <1>2, <1>12
     DEF Close, Drain, Peer, PeerRead, PeerRespond, PeerBreak, PeerHangup, vars
<1> QED
  BY <1>3, <1>4, <1>5, <1>6, <1>7, <1>8, <1>9, <1>10, <1>11, <1>12
     DEF Next, ClientStep, SendStep, Receive

\* Init establishes the parts about the wire too.
LEMMA WireStart == Init => Wire
<1> SUFFICES ASSUME Init PROVE Wire
  OBVIOUS
<1>1. Len(c2s) = 0 /\ Len(s2c) = 0 /\ c2s = << >> /\ s2c = << >>
  BY DEF Init
<1>2. Buffer
  BY DEF Init, Buffer
<1>3. Requests /\ Responses
  BY <1>1 DEF Requests, Responses, Framed, Whole
<1>4. Stamps
  BY <1>1 DEF Init, Stamps, Numbered
<1>5. Expecting
  BY DEF Init, Expecting
<1>6. Reports
  BY CallAssumption DEF Init, Reports, Reported
<1> QED
  BY <1>2, <1>3, <1>4, <1>5, <1>6 DEF Wire

\* Every step keeps them.
LEMMA WireStep == IndInv /\ Wire /\ [Next]_vars => Wire'
BY BufferStep, RequestsStep, ResponsesStep, StampsStep, ExpectingStep, ReportsStep
   DEF Wire

\* Every reachable state satisfies these parts too.
LEMMA WireInvariance == Spec => []Wire
BY WireStart, WireStep, Invariance, PTL DEF Spec

\* Whatever the order of responses and cancellations, only a call's own response
\* is decoded into its Reply, and Call returns nil only with it there.
THEOREM RepliesAreRight == Spec => []RightReply
<1>1. Wire => RightReply
  BY DEF Wire, Reports, Reported, RightReply
<1> QED
  BY <1>1, WireInvariance, PTL

\* The requests of concurrent calls never interleave on the connection, and one
\* is cut short only when the client closes the connection over it.
THEOREM RequestsAreFramed == Spec => []RequestFraming
<1>1. IndInv /\ Wire => RequestFraming
  <2> SUFFICES ASSUME IndInv, Wire PROVE RequestFraming
    OBVIOUS
  <2>1. Framed(c2s) /\ (cOpen /\ (\A c \in Calls : pc[c] # "closeConn") => Whole(c2s))
    BY DEF Wire, Requests
  <2>2. Len(c2s) \in Nat /\ (Len(c2s) = 0 <=> c2s = << >>)
    BY LenProperties, EmptySeq DEF IndInv, TypeOK, WireTypeOK
  <2>3. ASSUME NEW i \in 1 .. Len(c2s), c2s[i].k = "head"
        PROVE  \/ i < Len(c2s) /\ c2s[i + 1] = [c2s[i] EXCEPT !.k = "body"]
               \/ i = Len(c2s) /\ (~cOpen \/ \E c \in Calls : pc[c] = "closeConn")
    <3>1. CASE i # Len(c2s)
      <4>1. c2s[i + 1] = BodyOf(c2s[i])
        BY <2>1, <2>3, <3>1 DEF Framed
      <4>2. i < Len(c2s)
        BY <2>2, <3>1
      <4> QED
        BY <4>1, <4>2 DEF BodyOf
    <3>2. CASE i = Len(c2s)
      <4>1. ~Whole(c2s)
        BY <2>2, <2>3, <3>2 DEF Whole
      <4> QED
        BY <2>1, <3>2, <4>1
    <3> QED
      BY <3>1, <3>2
  <2> QED
    BY <2>1, <2>3 DEF RequestFraming, Paired, Framed
<1> QED
  BY <1>1, Invariance, WireInvariance, PTL
=============================================================================
