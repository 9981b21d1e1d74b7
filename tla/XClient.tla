------------------------------ MODULE XClient -------------------------------
(***************************************************************************)
(* XClient of MyRPC/xclient/xclient.go: the cache of clients, one per      *)
(* address, and Broadcast, which calls every server at once and gives up   *)
(* on the others when one fails.                                           *)
(*                                                                         *)
(* A worker is one use of X.call: XClient.Call makes one, a Broadcast one  *)
(* per server, each in a goroutine of its own.  A client is a number; what *)
(* happens inside of it is the subject of RpcClient, and here a call ends  *)
(* with its reply, an error, or the error of its context.  X.mu is held    *)
(* while a client is dialled.                                              *)
(***************************************************************************)
EXTENDS Integers, FiniteSets, Functions

CONSTANTS
    Addrs,
    Workers,      \* uses of X.call
    AddrOf,       \* the address each one calls
    Broadcasts,
    Part,         \* Part[b]: the workers of broadcast b
    NoWorker,
    MaxClients    \* bound on the clients dialled

ASSUME XClientAssumption ==
    /\ AddrOf \in [Workers -> Addrs]
    /\ Part \in [Broadcasts -> SUBSET Workers]
    /\ \A a, b \in Broadcasts : a # b => Part[a] \cap Part[b] = {}
    /\ NoWorker \notin Workers
    /\ MaxClients \in Nat \ {0}

VARIABLES
    clients,              \* X.clients
    cstate,               \* each client: "none", "up", "down" or "closed"
    wpc, using, outcome,  \* the workers, their client and what X.call returned
    e, reply,             \* Broadcast's first error and the worker whose reply it took
    cancelled, parent,    \* its context, and the one it was given
    result                \* what Broadcast returned

vars == <<clients, cstate, wpc, using, outcome, e, reply, cancelled, parent, result>>
castVars == <<e, reply, cancelled, parent, result>>

Ids == 1 .. MaxClients
NoClient == 0

NotWanted == "nil"    \* Broadcast was given a nil reply: replyDone from the start

MuFree_NoLock == TRUE    \* mutant: X.mu is not held while dialling

MuFree == \A w \in Workers : wpc[w] # "dialing"
CastOf(w) == {b \in Broadcasts : w \in Part[b]}
Cancelled(w) == \E b \in CastOf(w) : cancelled[b] \/ parent[b]

\* client.IsAvailable(): neither closed nor shut down.
IsAvailable(i) == cstate[i] = "up"

Cached(a) == IF a \in DOMAIN clients THEN clients[a] ELSE NoClient

Init ==
    /\ clients = [a \in {} |-> NoClient]
    /\ cstate = [i \in Ids |-> "none"]
    /\ wpc = [w \in Workers |-> "idle"]
    /\ using = [w \in Workers |-> NoClient]
    /\ outcome = [w \in Workers |-> "none"]
    /\ e = [b \in Broadcasts |-> "none"]
    /\ reply \in [Broadcasts -> {NoWorker, NotWanted}]
    /\ cancelled = [b \in Broadcasts |-> FALSE]
    /\ parent = [b \in Broadcasts |-> FALSE]
    /\ result = [b \in Broadcasts |-> "none"]

-----------------------------------------------------------------------------
(* X.call: dial and Call.                                                  *)

\* XClient.Call: the discovery chooses a server, or fails and Call with it.
Call(w) ==
    /\ CastOf(w) = {}
    /\ wpc[w] = "idle"
    /\ \/ /\ wpc' = [wpc EXCEPT ![w] = "dial"]
          /\ UNCHANGED outcome
       \/ /\ outcome' = [outcome EXCEPT ![w] = "discovery"]
          /\ wpc' = [wpc EXCEPT ![w] = "done"]
    /\ UNCHANGED <<clients, cstate, using, castVars>>

\* Broadcast: GetAll fails, or the loop starts a goroutine for every server.
Broadcast(b) ==
    /\ \A w \in Part[b] : wpc[w] = "idle"
    /\ result[b] = "none"
    /\ \/ /\ wpc' = [w \in Workers |-> IF w \in Part[b] THEN "dial" ELSE wpc[w]]
          /\ UNCHANGED result
       \/ /\ result' = [result EXCEPT ![b] = "discovery"]
          /\ UNCHANGED wpc
    /\ UNCHANGED <<clients, cstate, using, outcome, e, reply, cancelled, parent>>

\* dial: reuse the cached client, or close one that is no longer available and go
\* on to XDial with X.mu locked.
Dial(w) ==
    /\ wpc[w] = "dial"
    /\ MuFree
    /\ LET a == AddrOf[w]
           i == Cached(a) IN
        \/ /\ i # NoClient /\ IsAvailable(i)
           /\ using' = [using EXCEPT ![w] = i]
           /\ wpc' = [wpc EXCEPT ![w] = "begin"]
           /\ UNCHANGED <<clients, cstate>>
        \/ /\ i # NoClient /\ ~IsAvailable(i)
           /\ cstate' = [cstate EXCEPT ![i] = "closed"]
           /\ clients' = Restrict(clients, DOMAIN clients \ {a})
           /\ wpc' = [wpc EXCEPT ![w] = "dialing"]
           /\ UNCHANGED using
        \/ /\ i = NoClient
           /\ wpc' = [wpc EXCEPT ![w] = "dialing"]
           /\ UNCHANGED <<clients, cstate, using>>
    /\ UNCHANGED <<outcome, castVars>>

\* XDial returns a new client ...
Dialled(w, i) ==
    /\ wpc[w] = "dialing"
    /\ cstate[i] = "none" /\ \A j \in 1 .. i - 1 : cstate[j] # "none"
    /\ cstate' = [cstate EXCEPT ![i] = "up"]
    /\ clients' = [a \in DOMAIN clients \cup {AddrOf[w]} |->
                     IF a = AddrOf[w] THEN i ELSE clients[a]]
    /\ using' = [using EXCEPT ![w] = i]
    /\ wpc' = [wpc EXCEPT ![w] = "begin"]
    /\ UNCHANGED <<outcome, castVars>>

\* ... or an error, the connect timeout included.
DialFail(w) ==
    /\ wpc[w] = "dialing"
    /\ outcome' = [outcome EXCEPT ![w] = "dial"]
    /\ wpc' = [wpc EXCEPT ![w] = "settle"]
    /\ UNCHANGED <<clients, cstate, using, castVars>>

\* client.Call: the client may have been closed or lost since dial returned it.
Begin(w) ==
    /\ wpc[w] = "begin"
    /\ \/ /\ IsAvailable(using[w])
          /\ wpc' = [wpc EXCEPT ![w] = "sent"]
          /\ UNCHANGED outcome
       \/ /\ ~IsAvailable(using[w])
          /\ outcome' = [outcome EXCEPT ![w] = "shutdown"]
          /\ wpc' = [wpc EXCEPT ![w] = "settle"]
    /\ UNCHANGED <<clients, cstate, using, castVars>>

\* It returns: the reply, an error of the server or of the connection ...
Answer(w, o) ==
    /\ wpc[w] = "sent"
    /\ outcome' = [outcome EXCEPT ![w] = o]
    /\ wpc' = [wpc EXCEPT ![w] = "settle"]
    /\ UNCHANGED <<clients, cstate, using, castVars>>

\* ... or the error of its context, once that is done.
GiveUp(w) ==
    /\ Cancelled(w)
    /\ Answer(w, "ctx")

-----------------------------------------------------------------------------
(* The end of a worker, and of a Broadcast.                                *)

\* XClient.Call returns.
CallReturn(w) ==
    /\ CastOf(w) = {}
    /\ wpc[w] = "settle"
    /\ wpc' = [wpc EXCEPT ![w] = "done"]
    /\ UNCHANGED <<clients, cstate, using, outcome, castVars>>

\* Mutants: the last error is kept; errors after a reply are ignored; no cancel.
KeepError_Last(w, b) ==
    /\ e' = [e EXCEPT ![b] = outcome[w]]
    /\ cancelled' = [cancelled EXCEPT ![b] = TRUE]
    /\ UNCHANGED reply
KeepError_UnlessReply(w, b) ==
    /\ e' = [e EXCEPT ![b] = IF @ = "none" /\ reply[b] = NoWorker THEN outcome[w] ELSE @]
    /\ cancelled' = [cancelled EXCEPT ![b] = @ \/ reply[b] = NoWorker]
    /\ UNCHANGED reply
KeepError_NoCancel(w, b) ==
    /\ e' = [e EXCEPT ![b] = IF @ = "none" THEN outcome[w] ELSE @]
    /\ UNCHANGED <<cancelled, reply>>

\* The first error is kept and cancels the other calls.
KeepError(w, b) ==
    /\ e' = [e EXCEPT ![b] = IF @ = "none" THEN outcome[w] ELSE @]
    /\ cancelled' = [cancelled EXCEPT ![b] = TRUE]
    /\ UNCHANGED reply

\* The first reply is copied out.
KeepReply(w, b) ==
    /\ reply' = [reply EXCEPT ![b] = IF @ = NoWorker THEN w ELSE @]
    /\ UNCHANGED <<e, cancelled>>

\* The section under Broadcast's mu.
Settle(w, b) ==
    /\ w \in Part[b]
    /\ wpc[w] = "settle"
    /\ IF outcome[w] = "ok" THEN KeepReply(w, b) ELSE KeepError(w, b)
    /\ wpc' = [wpc EXCEPT ![w] = "done"]
    /\ UNCHANGED <<clients, cstate, using, outcome, parent, result>>

\* wg.Wait().
BroadcastReturn(b) ==
    /\ result[b] = "none"
    /\ \A w \in Part[b] : wpc[w] = "done"
    /\ result' = [result EXCEPT ![b] = IF e[b] = "none" THEN "ok" ELSE e[b]]
    /\ UNCHANGED <<clients, cstate, wpc, using, outcome, e, reply, cancelled, parent>>

-----------------------------------------------------------------------------
\* Close closes and forgets every client; X may be used again afterwards.
Close ==
    /\ MuFree
    /\ clients # << >>
    /\ cstate' = [i \in Ids |-> IF i \in Range(clients) THEN "closed" ELSE cstate[i]]
    /\ clients' = [a \in {} |-> NoClient]
    /\ UNCHANGED <<wpc, using, outcome, castVars>>

\* A client loses its connection and shuts down.
Lose(i) ==
    /\ cstate[i] = "up"
    /\ cstate' = [cstate EXCEPT ![i] = "down"]
    /\ UNCHANGED <<clients, wpc, using, outcome, castVars>>

\* The context given to Broadcast is cancelled.
ParentCancel(b) ==
    /\ ~parent[b]
    /\ parent' = [parent EXCEPT ![b] = TRUE]
    /\ UNCHANGED <<clients, cstate, wpc, using, outcome, e, reply, cancelled, result>>

DialEnd(w) == DialFail(w) \/ \E i \in Ids : Dialled(w, i)
Finish(w) == CallReturn(w) \/ \E b \in Broadcasts : Settle(w, b)

Next ==
    \/ \E w \in Workers : \/ Call(w) \/ Dial(w) \/ DialEnd(w) \/ Begin(w)
                          \/ (\E o \in {"ok", "err"} : Answer(w, o))
                          \/ GiveUp(w) \/ Finish(w)
    \/ \E b \in Broadcasts : Broadcast(b) \/ BroadcastReturn(b) \/ ParentCancel(b)
    \/ \E i \in Ids : Lose(i)
    \/ Close

Spec == Init /\ [][Next]_vars

\* Goroutines that can run do, and XDial ends (Option.ConnectTimeout).  No server
\* is assumed to answer.
FairSpec ==
    /\ Spec
    /\ \A w \in Workers : /\ WF_vars(Dial(w)) /\ WF_vars(DialEnd(w))
                          /\ WF_vars(Begin(w)) /\ WF_vars(GiveUp(w))
                          /\ WF_vars(Finish(w))
    /\ \A b \in Broadcasts : WF_vars(BroadcastReturn(b))

-----------------------------------------------------------------------------
\* Whatever the calls, losses and closes, an open connection is always one that
\* Close will find in X.clients, under the address it was dialled for: two
\* callers never dial the same address at once (xclient.go:43-57).
NoClientLeaked ==
    \A i \in Ids : cstate[i] \in {"up", "down"} => i \in Range(clients)

\* Broadcast reports the failure that made it cancel the other calls, never the
\* cancellation it caused (xclient.go:99-103).
FirstErrorIsReported ==
    \A b \in Broadcasts : /\ e[b] = "ctx" => parent[b]
                          /\ cancelled[b] => e[b] # "none"

\* Broadcast returns nil only if every server's call succeeded, and then the reply
\* that was wanted is one of theirs; any other result is what one of the calls
\* returned, or the discovery's error (xclient.go:81-84).
BroadcastIsAllOrError ==
    \A b \in Broadcasts :
        /\ result[b] = "ok" => /\ \A w \in Part[b] : outcome[w] = "ok"
                               /\ reply[b] # NoWorker \/ Part[b] = {}
        /\ result[b] \notin {"none", "ok", "discovery"} =>
             \E w \in Part[b] : outcome[w] = result[b]

\* After the first failure Broadcast returns, even if no other server ever
\* answers (xclient.go:89).
FailsFast == \A b \in Broadcasts : e[b] # "none" ~> result[b] # "none"
=============================================================================
