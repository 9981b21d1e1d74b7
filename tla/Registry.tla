------------------------------ MODULE Registry ------------------------------
(***************************************************************************)
(* The registry of MyRPC/registry/registry.go and the Heartbeat goroutines *)
(* of the servers that register with it.                                   *)
(*                                                                         *)
(* Time is a discrete clock.  It advances only when no ticker is due and   *)
(* no goroutine can run, and a request that is under way ends, one way or  *)
(* another, within Delay.  A server process may crash at any time and be   *)
(* started again once the network is rid of its old requests.              *)
(***************************************************************************)
EXTENDS Integers, FiniteSets, Functions

CONSTANTS
    Servers,
    Timeout,    \* of the registry; 0: entries never expire
    Beat,       \* the period given to Heartbeat
    Delay,      \* the longest a request takes
    MaxTime,    \* bound on the clock
    Reliable    \* whether requests of running processes always succeed

ASSUME RegistryAssumption ==
    /\ Timeout \in Nat /\ Delay \in Nat /\ MaxTime \in Nat
    /\ Beat \in Nat \ {0}         \* NewTicker panics otherwise
    /\ Reliable \in BOOLEAN

VARIABLES
    now,
    start,              \* MyRegistry.servers: address to the time of its last POST
    up, crashedAt,      \* the server processes
    beat,               \* where each one's Heartbeat is
    post, postAt,       \* its POST under way, and when it was sent (0: none is)
    due, tick,          \* its ticker: the next tick, and the one in t.C
    failed, since        \* history: a POST failed; listed without a gap since

regVars == <<start, since>>
procVars == <<up, crashedAt, beat, failed>>
postVars == <<post, postAt>>
tickerVars == <<due, tick>>
registryVars == <<now, start, up, crashedAt, beat, post, postAt, due, tick, failed,
                  since>>

Never == -1

\* Mutant: the entry is still alive when its timeout is reached.
Listed_Late(s) == s \in DOMAIN start /\ (Timeout = 0 \/ start[s] + Timeout >= now)

\* aliveServers: the entry has not reached its timeout.
Listed(s) == s \in DOMAIN start /\ (Timeout = 0 \/ start[s] + Timeout > now)
AliveServers == {s \in Servers : Listed(s)}

\* s has no POST under way any more.
PostOver(s) ==
    /\ post' = [post EXCEPT ![s] = "none"]
    /\ postAt' = [postAt EXCEPT ![s] = 0]

\* sendHeartbeat is waiting for the registry.
Posting(s) == up[s] /\ beat[s] \in {"first", "again"}

Init ==
    /\ now = 0
    /\ start = [s \in {} |-> 0]
    /\ up = [s \in Servers |-> FALSE] /\ crashedAt = [s \in Servers |-> 0]
    /\ beat = [s \in Servers |-> "off"]
    /\ post = [s \in Servers |-> "none"] /\ postAt = [s \in Servers |-> 0]
    /\ due = [s \in Servers |-> Never] /\ tick = [s \in Servers |-> FALSE]
    /\ failed = [s \in Servers |-> FALSE]
    /\ since = [s \in Servers |-> 0]

-----------------------------------------------------------------------------
(* Heartbeat, in each server.                                              *)

\* The process starts and registers: the first sendHeartbeat.
Start(s) ==
    /\ ~up[s] /\ post[s] = "none"
    /\ up' = [up EXCEPT ![s] = TRUE]
    /\ beat' = [beat EXCEPT ![s] = "first"]
    /\ post' = [post EXCEPT ![s] = "sent"]
    /\ postAt' = [postAt EXCEPT ![s] = now]
    /\ failed' = [failed EXCEPT ![s] = FALSE]
    /\ UNCHANGED <<now, regVars, crashedAt, tickerVars>>

\* sendHeartbeat returns.  After the first the ticker is made; after any other it
\* is stopped.  An error ends the loop.
BeatEnd(s, ok) ==
    /\ Posting(s)
    /\ IF ok THEN post[s] = "served" ELSE ~Reliable
    /\ IF post[s] = "served" THEN PostOver(s) ELSE UNCHANGED postVars
    /\ beat' = [beat EXCEPT ![s] = IF ok THEN "wait" ELSE "ended"]
    /\ due' = [due EXCEPT ![s] = IF ok /\ beat[s] = "first" THEN now + Beat ELSE Never]
    /\ tick' = [tick EXCEPT ![s] = ok /\ @]
    /\ failed' = [failed EXCEPT ![s] = @ \/ ~ok]
    /\ UNCHANGED <<now, regVars, up, crashedAt>>

\* The ticker fires; a tick that finds one in the channel is dropped.
Tick(s) ==
    /\ due[s] # Never /\ due[s] <= now
    /\ tick' = [tick EXCEPT ![s] = TRUE]
    /\ due' = [due EXCEPT ![s] = @ + Beat]
    /\ UNCHANGED <<now, regVars, procVars, postVars>>

\* <-t.C and the next sendHeartbeat.
BeatAgain(s) ==
    /\ beat[s] = "wait" /\ tick[s]
    /\ tick' = [tick EXCEPT ![s] = FALSE]
    /\ beat' = [beat EXCEPT ![s] = "again"]
    /\ post' = [post EXCEPT ![s] = "sent"]
    /\ postAt' = [postAt EXCEPT ![s] = now]
    /\ UNCHANGED <<now, regVars, up, crashedAt, due, failed>>

Crash(s) ==
    /\ up[s]
    /\ up' = [up EXCEPT ![s] = FALSE]
    /\ crashedAt' = [crashedAt EXCEPT ![s] = now]
    /\ beat' = [beat EXCEPT ![s] = "off"]
    /\ IF post[s] = "served" THEN PostOver(s) ELSE UNCHANGED postVars
    /\ due' = [due EXCEPT ![s] = Never]
    /\ tick' = [tick EXCEPT ![s] = FALSE]
    /\ UNCHANGED <<now, regVars, failed>>

-----------------------------------------------------------------------------
(* The registry's ServeHTTP.                                               *)

\* POST: putServer.  The response finds its sender or nobody.
PutServer(s) ==
    /\ post[s] = "sent"
    /\ start' = [t \in DOMAIN start \cup {s} |-> IF t = s THEN now ELSE start[t]]
    /\ since' = [since EXCEPT ![s] = IF Listed(s) THEN @ ELSE now]
    /\ IF Posting(s) THEN post' = [post EXCEPT ![s] = "served"] /\ UNCHANGED postAt
                     ELSE PostOver(s)
    /\ UNCHANGED <<now, procVars, tickerVars>>

\* GET: the answer is AliveServers; aliveServers also deletes what has expired.
GetServers ==
    /\ start' = Restrict(start, AliveServers)
    /\ UNCHANGED <<now, since, procVars, postVars, tickerVars>>

\* A request whose sender is no longer waiting never arrives.
Lose(s) ==
    /\ post[s] = "sent" /\ ~Posting(s)
    /\ PostOver(s)
    /\ UNCHANGED <<now, regVars, procVars, tickerVars>>

\* Nothing that happens at once, or by now, is left to happen.
Quiet(s) ==
    /\ due[s] = Never \/ due[s] > now
    /\ ~(beat[s] = "wait" /\ tick[s])
    /\ post[s] # "none" => now < postAt[s] + Delay

Advance ==
    /\ now < MaxTime
    /\ \A s \in Servers : Quiet(s)
    /\ now' = now + 1
    /\ UNCHANGED <<regVars, procVars, postVars, tickerVars>>

ServerStep(s) == \/ Start(s) \/ Tick(s) \/ BeatAgain(s) \/ Crash(s) \/ PutServer(s)
                 \/ Lose(s) \/ \E ok \in BOOLEAN : BeatEnd(s, ok)

Next == (\E s \in Servers : ServerStep(s)) \/ GetServers \/ Advance

Spec == Init /\ [][Next]_registryVars

-----------------------------------------------------------------------------
\* A crashed server is not handed out any more, whenever somebody asks, once its
\* last request has had time to arrive and to expire, also when that request
\* arrives after the crash (registry.go:60).
CrashedServersExpire ==
    Timeout # 0 =>
      \A s \in AliveServers : up[s] \/ now < crashedAt[s] + Delay + Timeout

\* A running server stays registered by its heartbeats (registry.go:12-13).
LiveServersStayListed ==
    \A s \in Servers :
        up[s] /\ ~failed[s] /\ beat[s] # "first" => Listed(s)
=============================================================================
