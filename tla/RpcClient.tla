----------------------------- MODULE RpcClient -----------------------------
(***************************************************************************)
(* The RPC client of MyRPC/client.go with the gob codec it writes through  *)
(* (MyRPC/codec/gob.go).  One Client is shared by any number of goroutines *)
(* that call Go or Call, by the goroutine that runs receive, and by        *)
(* whoever closes it.                                                      *)
(*                                                                         *)
(* Two mutexes protect the client.  `send' is held by Send from            *)
(* registration to the end of the write, and by terminateCalls; `mu' is    *)
(* held for the short critical sections on pend, seq, closing and          *)
(* shutdown, which are atomic steps here.  The one place where `mu' (and   *)
(* `send') stays locked across a blocking operation is the loop of         *)
(* terminateCalls, whose call.done() waits for room in a Done channel:     *)
(* there the locks are states of the model (Terminating).                  *)
(*                                                                         *)
(* The peer is the most general server the client can meet: it consumes    *)
(* the request stream, answers requests it has read in any order, with or  *)
(* without an error, may fail half way through a response and may hang up. *)
(***************************************************************************)
EXTENDS Integers, Sequences, FiniteSets, Functions

CONSTANTS
    Calls,        \* the Call structs, one per use of Go or Call
    Sync,         \* those made by Client.Call, which owns the Done channel
    Chan,         \* the Done channels
    DoneOf,       \* the Done channel of every call
    Cap,          \* its capacity
    Unencodable,  \* calls whose Args gob refuses to encode
    Undecodable,  \* calls whose Reply may not fit the body: the reply, or a placeholder
    NoCall        \* the nil *Call

\* Go panics on an unbuffered Done channel; Call makes a channel of capacity 1
\* that no other call uses.
ASSUME ChannelAssumption ==
    /\ Sync \subseteq Calls
    /\ DoneOf \in [Calls -> Chan]
    /\ Cap \in [Chan -> Nat \ {0}]
    /\ \A c \in Sync : /\ Cap[DoneOf[c]] = 1
                       /\ \A d \in Calls : DoneOf[d] = DoneOf[c] => d = c

ASSUME CallAssumption ==
    /\ NoCall \notin Calls
    /\ Unencodable \subseteq Calls
    /\ Undecodable \subseteq Calls

VARIABLES
    seq, pend, closing, shutdown,           \* Client
    pc, seqOf, err, reply, result, dones,   \* the calls and their goroutines
    completions,                            \* history: done() sends per call
    rcv, rmsg, rcall, rerr, notify,         \* the goroutine in receive
    wbuf, bufErr,                           \* the codec's bufio.Writer
    c2s, s2c, cOpen, sOpen,                 \* the connection and its two ends
    handling                                \* requests the peer may answer

clientVars == <<seq, pend, closing, shutdown>>
callVars == <<pc, seqOf, err, reply, result, dones, completions>>
recvVars == <<rcv, rmsg, rcall, rerr, notify>>
bufVars == <<wbuf, bufErr>>
wireVars == <<c2s, s2c, cOpen, sOpen>>
vars == <<seq, pend, closing, shutdown,
          pc, seqOf, err, reply, result, dones, completions,
          rcv, rmsg, rcall, rerr, notify,
          wbuf, bufErr, c2s, s2c, cOpen, sOpen, handling>>

-----------------------------------------------------------------------------
\* What travels on the connection: gob values, a header or a body.  `call' is
\* the payload's identity; of a header only Seq and Error are ever looked at.
Item == [k : {"head", "body"}, seq : Nat, call : Calls, err : BOOLEAN]
Frame(s, c, e) == << [k |-> "head", seq |-> s, call |-> c, err |-> e],
                     [k |-> "body", seq |-> s, call |-> c, err |-> e] >>
Request == [seq : Nat, call : Calls]

\* Mutant: the zero value of Client.seq, which is also that of Call.Seq.
FirstSeq_Zero == 0

FirstSeq == 1     \* 0 is the Seq of a call that was never registered

\* A write or read can still go through.
Up == cOpen /\ sOpen

\* The goroutines inside Send hold `send'; terminateCalls holds both mutexes.
Sending == {c \in Calls :
              pc[c] \in {"writeHeader", "writeBody", "closeConn", "remove", "done"}}
Terminating == rcv \in {"notify", "notifyDone"}

\* Mutant: Send does not lock `send'.
SendFree_NoMutex == ~Terminating

SendFree == Sending = {} /\ ~Terminating
MuFree == ~Terminating

Room(c) == Len(dones[DoneOf[c]]) < Cap[DoneOf[c]]

\* call.done(): blocks (is disabled) until the channel has room.
Done(c) ==
    /\ Room(c)
    /\ dones' = [dones EXCEPT ![DoneOf[c]] = Append(@, c)]
    /\ completions' = [completions EXCEPT ![c] = @ + 1]

\* removeCall: look a sequence number up in pend and delete it.

\* Mutants: responses matched in the order of the requests; no delete.
Lookup_Oldest(s) == IF pend = << >> THEN NoCall
                    ELSE pend[CHOOSE i \in DOMAIN pend : \A j \in DOMAIN pend : i <= j]
Removed_Kept(s) == pend

Lookup(s) == IF s \in DOMAIN pend THEN pend[s] ELSE NoCall
Removed(s) == Restrict(pend, DOMAIN pend \ {s})

\* Where Send returns to: Call waits on its channel, Go returns to the user.
AfterSend(c) == IF c \in Sync THEN "await" ELSE "returned"

Init ==
    /\ seq = FirstSeq
    /\ pend = [s \in {} |-> NoCall]
    /\ closing = FALSE /\ shutdown = FALSE
    /\ pc = [c \in Calls |-> "init"]
    /\ seqOf = [c \in Calls |-> 0]
    /\ err = [c \in Calls |-> "none"]
    /\ reply = [c \in Calls |-> NoCall]
    /\ result = [c \in Calls |-> "none"]
    /\ dones = [ch \in Chan |-> << >>]
    /\ completions = [c \in Calls |-> 0]
    /\ rcv = "readHeader" /\ rmsg = [seq |-> 0, err |-> FALSE]
    /\ rcall = NoCall /\ rerr = FALSE /\ notify = {}
    /\ wbuf = << >> /\ bufErr = FALSE
    /\ c2s = << >> /\ s2c = << >> /\ cOpen = TRUE /\ sOpen = TRUE
    /\ handling = {}

-----------------------------------------------------------------------------
(* Send, run by the goroutine of each call with `send' held.               *)

\* registerCall refuses a client that is closing or shut down.
Refusing_ClosingOnly == closing    \* mutant: it forgets shutdown

Refusing == closing \/ shutdown

\* Lock `send' and registerCall.
Register(c) ==
    /\ pc[c] = "init"
    /\ SendFree /\ MuFree
    /\ \/ /\ Refusing
          /\ err' = [err EXCEPT ![c] = "shutdown"]
          /\ pc' = [pc EXCEPT ![c] = "done"]
          /\ UNCHANGED <<seq, pend, seqOf>>
       \/ /\ ~Refusing
          /\ seqOf' = [seqOf EXCEPT ![c] = seq]
          /\ pend' = [s \in DOMAIN pend \cup {seq} |-> IF s = seq THEN c ELSE pend[s]]
          /\ seq' = seq + 1
          /\ pc' = [pc EXCEPT ![c] = "writeHeader"]
          /\ UNCHANGED err
    /\ UNCHANGED <<closing, shutdown, reply, result, dones, completions,
                   recvVars, bufVars, wireVars, handling>>

\* Encode the header into the buffered writer; an earlier flush error is
\* reported only now, and makes Write close the connection.
WriteHeader(c) ==
    /\ pc[c] = "writeHeader"
    /\ IF bufErr
       THEN /\ pc' = [pc EXCEPT ![c] = "closeConn"]
            /\ UNCHANGED wbuf
       ELSE /\ pc' = [pc EXCEPT ![c] = "writeBody"]
            /\ wbuf' = Append(wbuf, Frame(seqOf[c], c, FALSE)[1])
    /\ UNCHANGED <<clientVars, seqOf, err, reply, result, dones, completions,
                   recvVars, bufErr, wireVars, handling>>

\* Flush, whose error nobody looks at: the bytes reach the peer's stream while
\* the connection is up; after the peer is gone the kernel may still take them.
Flush(buf) ==
    /\ wbuf' = << >>
    /\ c2s' = IF Up THEN c2s \o buf ELSE c2s
    /\ bufErr' \in (IF Up THEN {FALSE} ELSE IF cOpen THEN BOOLEAN ELSE {TRUE})

\* Encode the body and flush.  If gob refuses the body the header is flushed
\* alone, and Write goes on to close the connection.
WriteBody(c) ==
    /\ pc[c] = "writeBody"
    /\ IF c \in Unencodable
       THEN /\ Flush(wbuf)
            /\ pc' = [pc EXCEPT ![c] = "closeConn"]
       ELSE /\ Flush(Append(wbuf, Frame(seqOf[c], c, FALSE)[2]))
            /\ pc' = [pc EXCEPT ![c] = AfterSend(c)]
    /\ UNCHANGED <<clientVars, seqOf, err, reply, result, dones, completions,
                   recvVars, s2c, cOpen, sOpen, handling>>

\* The deferred Close of a Write that failed.
CloseConn(c) ==
    /\ pc[c] = "closeConn"
    /\ cOpen' = FALSE
    /\ pc' = [pc EXCEPT ![c] = "remove"]
    /\ UNCHANGED <<clientVars, seqOf, err, reply, result, dones, completions,
                   recvVars, bufVars, c2s, s2c, sOpen, handling>>

\* removeCall after a failed Write; the receiver may have taken the call.
Remove(c) ==
    /\ pc[c] = "remove"
    /\ MuFree
    /\ IF Lookup(seqOf[c]) = NoCall
       THEN /\ pc' = [pc EXCEPT ![c] = AfterSend(c)]
            /\ UNCHANGED err
       ELSE /\ pc' = [pc EXCEPT ![c] = "done"]
            /\ err' = [err EXCEPT ![c] = "write"]
    /\ pend' = Removed(seqOf[c])
    /\ UNCHANGED <<seq, closing, shutdown, seqOf, reply, result, dones,
                   completions, recvVars, bufVars, wireVars, handling>>

\* The call.done() of Send, with `send' still locked.
SendDone(c) ==
    /\ pc[c] = "done"
    /\ Done(c)
    /\ pc' = [pc EXCEPT ![c] = AfterSend(c)]
    /\ UNCHANGED <<clientVars, seqOf, err, reply, result, recvVars, bufVars,
                   wireVars, handling>>

-----------------------------------------------------------------------------
(* Call's select, the user's receive from a Done channel, and Close.       *)

\* The call's own channel is ready.
Await(c) ==
    /\ pc[c] = "await"
    /\ dones[DoneOf[c]] # << >>
    /\ dones' = [dones EXCEPT ![DoneOf[c]] = Tail(@)]
    /\ result' = [result EXCEPT ![c] = IF err[c] = "none" THEN "ok" ELSE "err"]
    /\ pc' = [pc EXCEPT ![c] = "returned"]
    /\ UNCHANGED <<clientVars, seqOf, err, reply, completions, recvVars, bufVars,
                   wireVars, handling>>

\* ctx.Done() is ready: removeCall(call.Seq) and return the context's error.
\* "late" records that the call had already left pend.
Cancel(c) ==
    /\ pc[c] = "await"
    /\ MuFree
    /\ result' = [result EXCEPT ![c] = IF Lookup(seqOf[c]) = c /\ ~shutdown
                                       THEN "ctx" ELSE "late"]
    /\ pend' = Removed(seqOf[c])
    /\ pc' = [pc EXCEPT ![c] = "returned"]
    /\ UNCHANGED <<seq, closing, shutdown, seqOf, err, reply, dones, completions,
                   recvVars, bufVars, wireVars, handling>>

\* The user of Go takes a finished call from a Done channel it supplied.
Drain(ch) ==
    /\ \A c \in Sync : DoneOf[c] # ch
    /\ dones[ch] # << >>
    /\ dones' = [dones EXCEPT ![ch] = Tail(@)]
    /\ UNCHANGED <<clientVars, pc, seqOf, err, reply, result, completions,
                   recvVars, bufVars, wireVars, handling>>

\* Close; a second Close returns ErrShutdown and changes nothing.
Close ==
    /\ MuFree
    /\ ~closing
    /\ closing' = TRUE
    /\ cOpen' = FALSE
    /\ UNCHANGED <<seq, pend, shutdown, callVars, recvVars, bufVars, c2s, s2c,
                   sOpen, handling>>

-----------------------------------------------------------------------------
(* receive and terminateCalls.                                             *)

RecvHeader ==
    /\ rcv = "readHeader"
    /\ cOpen /\ s2c # << >>
    /\ Head(s2c).k = "head"
    /\ rmsg' = [seq |-> Head(s2c).seq, err |-> Head(s2c).err]
    /\ s2c' = Tail(s2c)
    /\ rcv' = "remove"
    /\ UNCHANGED <<clientVars, callVars, rcall, rerr, notify, bufVars, c2s,
                   cOpen, sOpen, handling>>

\* Mutant: receive returns without terminateCalls.
RecvFail_JustReturns ==
    /\ rcv = "readHeader"
    /\ ~Up
    /\ rcv' = "exited"
    /\ UNCHANGED <<clientVars, callVars, rmsg, rcall, rerr, notify, bufVars,
                   wireVars, handling>>

\* ReadHeader fails: the connection is gone.
RecvFail ==
    /\ rcv = "readHeader"
    /\ ~Up
    /\ rcv' = "terminate"
    /\ UNCHANGED <<clientVars, callVars, rmsg, rcall, rerr, notify, bufVars,
                   wireVars, handling>>

RecvRemove ==
    /\ rcv = "remove"
    /\ rcall' = Lookup(rmsg.seq)
    /\ pend' = Removed(rmsg.seq)
    /\ rcv' = "readBody"
    /\ UNCHANGED <<seq, closing, shutdown, callVars, rmsg, rerr, notify, bufVars,
                   wireVars, handling>>

\* Mutant: the switch lacks the case of a call that is no longer pending.
RecvBody_NoNilCase ==
    /\ rcv = "readBody"
    /\ cOpen /\ s2c # << >>
    /\ s2c' = Tail(s2c)
    /\ rcv' = "done"
    /\ UNCHANGED <<clientVars, callVars, rmsg, rcall, rerr, notify, bufVars, c2s,
                   cOpen, sOpen, handling>>

\* The three cases of the switch.  Reading fails when the connection is gone,
\* or (third case only) when the value does not fit the Reply.
RecvBody ==
    /\ rcv = "readBody"
    /\ \/ /\ cOpen /\ s2c # << >>
          /\ Head(s2c).k = "body"
          /\ s2c' = Tail(s2c)
          /\ rerr' \in (IF rcall \in Undecodable /\ ~rmsg.err THEN BOOLEAN ELSE {FALSE})
       \/ /\ ~Up
          /\ rerr' = TRUE
          /\ UNCHANGED s2c
    /\ \/ /\ rcall = NoCall
          /\ rcv' = IF rerr' THEN "terminate" ELSE "readHeader"
          /\ UNCHANGED <<err, reply>>
       \/ /\ rcall # NoCall /\ rmsg.err
          /\ rcv' = "done"
          /\ err' = [err EXCEPT ![rcall] = "server"]
          /\ UNCHANGED reply
       \/ /\ rcall # NoCall /\ ~rmsg.err
          /\ rcv' = "done"
          /\ err' = [err EXCEPT ![rcall] = IF rerr' THEN "body" ELSE @]
          /\ reply' = [reply EXCEPT ![rcall] = IF rerr' THEN @ ELSE Head(s2c).call]
    /\ UNCHANGED <<clientVars, pc, seqOf, result, dones, completions, rmsg, rcall,
                   notify, bufVars, c2s, cOpen, sOpen, handling>>

RecvDone ==
    /\ rcv = "done"
    /\ Done(rcall)
    /\ rcall' = NoCall
    /\ rcv' = IF rerr THEN "terminate" ELSE "readHeader"
    /\ UNCHANGED <<clientVars, pc, seqOf, err, reply, result, rmsg, rerr, notify,
                   bufVars, wireVars, handling>>

\* terminateCalls locks `send' and `mu' and sets shutdown ...
TerminateLock ==
    /\ rcv = "terminate"
    /\ SendFree
    /\ shutdown' = TRUE
    /\ notify' = Range(pend)
    /\ rcv' = "notify"
    /\ UNCHANGED <<seq, pend, closing, callVars, rmsg, rcall, rerr, bufVars,
                   wireVars, handling>>

\* ... completes the calls of pend in the order of a map's range, any order,
\* stopping at each until its channel has room ...
Notify(c) ==
    /\ rcv = "notify"
    /\ c \in notify
    /\ err' = [err EXCEPT ![c] = "conn"]
    /\ rcall' = c
    /\ notify' = notify \ {c}
    /\ rcv' = "notifyDone"
    /\ UNCHANGED <<clientVars, pc, seqOf, reply, result, dones, completions, rmsg,
                   rerr, bufVars, wireVars, handling>>

NotifyDone ==
    /\ rcv = "notifyDone"
    /\ Done(rcall)
    /\ rcall' = NoCall
    /\ rcv' = "notify"
    /\ UNCHANGED <<clientVars, pc, seqOf, err, reply, result, rmsg, rerr, notify,
                   bufVars, wireVars, handling>>

\* ... and unlocks; the receiver's goroutine ends.
TerminateEnd ==
    /\ rcv = "notify"
    /\ notify = {}
    /\ rcv' = "exited"
    /\ UNCHANGED <<clientVars, callVars, rmsg, rcall, rerr, notify, bufVars,
                   wireVars, handling>>

-----------------------------------------------------------------------------
(* The peer and the network.                                               *)

\* The peer consumes the next n values of the stream.
PeerRead(n) ==
    /\ sOpen
    /\ n \in 1 .. Len(c2s)
    /\ c2s' = SubSeq(c2s, n + 1, Len(c2s))
    /\ handling' = handling \cup
         {[seq |-> c2s[i].seq, call |-> c2s[i].call] :
             i \in {j \in 1 .. n : c2s[j].k = "head"}}
    /\ UNCHANGED <<clientVars, callVars, recvVars, bufVars, s2c, cOpen, sOpen>>

\* It answers a request whose header it has read.
PeerRespond(r, e) ==
    /\ sOpen
    /\ r \in handling
    /\ handling' = handling \ {r}
    /\ s2c' = IF cOpen THEN s2c \o Frame(r.seq, r.call, e) ELSE s2c
    /\ UNCHANGED <<clientVars, callVars, recvVars, bufVars, c2s, cOpen, sOpen>>

\* Its Write fails on the body: the header alone arrives before the hang-up.
PeerBreak(r) ==
    /\ sOpen
    /\ r \in handling
    /\ handling' = handling \ {r}
    /\ s2c' = IF cOpen THEN Append(s2c, Frame(r.seq, r.call, FALSE)[1]) ELSE s2c
    /\ sOpen' = FALSE
    /\ UNCHANGED <<clientVars, callVars, recvVars, bufVars, c2s, cOpen>>

\* It hangs up, or the network fails.
PeerHangup ==
    /\ sOpen
    /\ sOpen' = FALSE
    /\ UNCHANGED <<clientVars, callVars, recvVars, bufVars, c2s, s2c, cOpen,
                   handling>>

-----------------------------------------------------------------------------
SendStep(c) == \/ Register(c) \/ WriteHeader(c) \/ WriteBody(c) \/ CloseConn(c)
               \/ Remove(c) \/ SendDone(c)
Receive == \/ RecvHeader \/ RecvFail \/ RecvRemove \/ RecvBody \/ RecvDone
           \/ TerminateLock \/ (\E c \in Calls : Notify(c)) \/ NotifyDone
           \/ TerminateEnd
Peer == \/ \E n \in 1 .. Len(c2s) : PeerRead(n)
        \/ \E r \in handling, e \in BOOLEAN : PeerRespond(r, e)
        \/ \E r \in handling : PeerBreak(r)
        \/ PeerHangup

ClientStep == \/ \E c \in Calls : SendStep(c) \/ Await(c) \/ Cancel(c)
              \/ \E ch \in Chan : Drain(ch)
              \/ Close
              \/ Receive

Next == ClientStep \/ Peer

Spec == Init /\ [][Next]_vars

\* The steps of the goroutines that the client's users rely on: the calls' own, the
\* receiver's, and those that read the Done channels handed to Go.
Progress == \/ \E c \in Calls : SendStep(c) \/ Await(c)
            \/ \E ch \in Chan : Drain(ch)
            \/ Receive

\* While one of them can run, one does; every one of them is finite, so it need
\* not be said of each.  Nothing is assumed of the peer, of Close or of contexts.
Fairness == WF_vars(Progress)

FairSpec == Spec /\ Fairness

-----------------------------------------------------------------------------
ClientTypeOK ==
    /\ seq \in Nat
    /\ DOMAIN pend \subseteq Nat
    /\ pend \in [DOMAIN pend -> Calls]
    /\ closing \in BOOLEAN
    /\ shutdown \in BOOLEAN

CallTypeOK ==
    /\ pc \in [Calls -> {"init", "writeHeader", "writeBody", "closeConn", "remove",
                         "done", "await", "returned"}]
    /\ seqOf \in [Calls -> Nat]
    /\ err \in [Calls -> {"none", "shutdown", "write", "server", "body", "conn"}]
    /\ reply \in [Calls -> Calls \cup {NoCall}]
    /\ result \in [Calls -> {"none", "ok", "err", "ctx", "late"}]
    /\ dones \in [Chan -> Seq(Calls)]
    /\ completions \in [Calls -> Nat]

RecvTypeOK ==
    /\ rcv \in {"readHeader", "remove", "readBody", "done", "terminate", "notify",
                "notifyDone", "exited"}
    /\ rmsg \in [seq : Nat, err : BOOLEAN]
    /\ rcall \in Calls \cup {NoCall}
    /\ rcv \in {"done", "notifyDone"} => rcall # NoCall
    /\ rerr \in BOOLEAN
    /\ notify \subseteq Calls

WireTypeOK ==
    /\ wbuf \in Seq(Item)
    /\ bufErr \in BOOLEAN
    /\ c2s \in Seq(Item)
    /\ s2c \in Seq(Item)
    /\ cOpen \in BOOLEAN
    /\ sOpen \in BOOLEAN
    /\ handling \subseteq Request

\* The state is well formed; in particular receive (client.go:114-127) never gets
\* to done() with the nil call of a response that nobody waits for.
TypeOK == ClientTypeOK /\ CallTypeOK /\ RecvTypeOK /\ WireTypeOK

\* No call is completed twice, whichever of the failed write (client.go:199-206),
\* the response (client.go:111-127) and terminateCalls (client.go:98-101) come
\* to it, and although terminateCalls leaves the calls it completes in pend.
CompletedAtMostOnce == \A c \in Calls : completions[c] <= 1

\* A call whose Send returned and that is neither completed nor abandoned by its
\* context is still going to be: it is in pend under its own Seq and the receiver
\* has not gone through pend yet, or the receiver holds it.
NoLostCall ==
    \A c \in Calls :
        /\ pc[c] \in {"await", "returned"}
        /\ completions[c] = 0
        /\ result[c] \notin {"ctx", "late"}
        => \/ ~shutdown /\ seqOf[c] \in DOMAIN pend /\ pend[seqOf[c]] = c
           \/ rcall = c
           \/ c \in notify

\* Responses arrive in any order and after cancellations, yet only a call's own
\* response is decoded into its Reply, and Call returns nil only with it there.
RightReply ==
    \A c \in Calls : /\ reply[c] \in {NoCall, c}
                     /\ result[c] = "ok" => reply[c] = c

\* Once Call has returned the context's error for a call it found in pend, the
\* response is discarded: no write to Reply, no send to Done.
CancelledStaysSilent ==
    \A c \in Calls : result[c] = "ctx" => reply[c] = NoCall /\ completions[c] = 0

\* done() of a call made with Call never blocks, so the receiver can be held up
\* with or without its locks only by a channel that a user of Go supplied.
SyncDoneNeverBlocks ==
    \A c \in Sync :
        pc[c] = "done" \/ (rcv \in {"done", "notifyDone"} /\ rcall = c) \/ c \in notify
        => dones[DoneOf[c]] = << >>

\* The request stream is made of whole requests: the values the peer has not
\* read yet, less a body whose header it has read, are headers each followed by
\* its own body; the last body may be missing only once the client is closing
\* the connection over a failed Write.
Paired(s) == \A i \in 1 .. Len(s) :
    s[i].k = "head" => \/ i < Len(s) /\ s[i + 1] = [s[i] EXCEPT !.k = "body"]
                       \/ i = Len(s) /\ (~cOpen \/ \E c \in Calls : pc[c] = "closeConn")
RequestFraming ==
    /\ Paired(c2s)
    /\ \A i \in 2 .. Len(c2s) : c2s[i].k = "body" => c2s[i - 1].k = "head"

\* Nothing is written to the connection once terminateCalls has announced that
\* the client is shut down (it waits for `send').
NoWriteAfterShutdown == [][shutdown => Len(c2s') <= Len(c2s) /\ wbuf' = wbuf]_vars

\* Once either end is closed every call ends and stays ended: its goroutine
\* returns, and a call made with Go is delivered on its Done channel.
LossEndsEveryCall ==
    <>[](~Up => \A c \in Calls : /\ pc[c] = "returned"
                                 /\ c \notin Sync => completions[c] = 1)
=============================================================================
