----------------------------- MODULE Discovery ------------------------------
(***************************************************************************)
(* MyRegistryDiscovery of MyRPC/xclient/discovery_my.go over               *)
(* MultiServersDiscovery (discovery.go), composed with the registry it     *)
(* refreshes from: any number of goroutines share one discovery and call   *)
(* Get and GetAll.                                                         *)
(*                                                                         *)
(* d.mu is held by Refresh while it waits for the registry, and only for   *)
(* the moment of an access otherwise.  Between the Refresh of a Get and    *)
(* its choice the lock is free, and time passes: the list may expire, and  *)
(* the Get wait as long as other goroutines' refreshes hold the lock.      *)
(***************************************************************************)
EXTENDS Registry, Sequences

CONSTANTS
    Users,          \* goroutines
    Addrs,          \* the addresses of the servers, and others for Update
    SortStrings,    \* sort.Strings: the list of a set of servers, in order
    UpdateTimeout,  \* MyRegistryDiscovery.timeout
    Lists,          \* the lists that a user may give to Update
    UpdateUntil,    \* bound on the time of an Update
    Indexes         \* where the round robin may begin

ASSUME DiscoveryAssumption ==
    /\ SortStrings \in [SUBSET Servers -> Seq(Servers)]
    /\ \A S \in SUBSET Servers : Range(SortStrings[S]) = S /\ IsInjective(SortStrings[S])
    /\ UpdateTimeout \in Nat \ {0} /\ UpdateUntil \in Nat
    /\ Servers \subseteq Addrs /\ Lists \subseteq Seq(Addrs)
    /\ Indexes \subseteq Nat

VARIABLES
    servers, index, lastUpdate,     \* the discovery
    upc, askedAt, resp,             \* its users, and their request under way
    checkedAt,                      \* history: when the user's Refresh returned
    got,                            \* what the Get or GetAll that ends with this step returns
    round,                          \* history: round robin choices of the same list
    manual                          \* history: the list was given to Update

userVars == <<upc, askedAt, resp, checkedAt>>
listVars == <<servers, lastUpdate, manual>>
discoveryVars == <<servers, index, lastUpdate, upc, askedAt, resp, checkedAt, got, round,
                   manual>>
vars == <<registryVars, discoveryVars>>

\* Strings.Split and TrimSpace of the header give the registry's sorted list.
Sorted(S) == SortStrings[S]

\* d.mu is free.
MuFree == \A u \in Users : upc[u] \notin {"asking", "answered"}

\* The step is not the end of a Get.
Nothing == [fresh |-> FALSE, manual |-> FALSE, checked |-> 0, servers |-> {}, all |-> {}]

Expired == lastUpdate + UpdateTimeout <= now

\* The last n values of a sequence.
Latest(n, s) == SubSeq(s, IF Len(s) > n THEN Len(s) - n + 1 ELSE 1, Len(s))

DiscoveryInit ==
    /\ Init
    /\ servers = << >>
    /\ index \in Indexes
    /\ lastUpdate = -UpdateTimeout    \* the zero time.Time
    /\ upc = [u \in Users |-> "idle"]
    /\ askedAt = 0 /\ resp = {}
    /\ checkedAt = [u \in Users |-> 0]
    /\ got = Nothing
    /\ round = << >>
    /\ manual = FALSE

-----------------------------------------------------------------------------
\* Refresh by Get or GetAll: lock, and ask the registry if the list is too old.
Refresh(u) ==
    /\ upc[u] = "idle"
    /\ MuFree
    /\ \/ /\ Expired
          /\ upc' = [upc EXCEPT ![u] = "asking"]
          /\ askedAt' = now
          /\ UNCHANGED checkedAt
       \/ /\ ~Expired
          /\ upc' = [upc EXCEPT ![u] = "pick"]
          /\ checkedAt' = [checkedAt EXCEPT ![u] = now]
          /\ UNCHANGED askedAt
    /\ got' = Nothing
    /\ UNCHANGED <<registryVars, listVars, index, resp, round>>

\* The registry answers the GET.
ServeGet(u) ==
    /\ upc[u] = "asking"
    /\ GetServers
    /\ resp' = AliveServers
    /\ upc' = [upc EXCEPT ![u] = "answered"]
    /\ got' = Nothing
    /\ UNCHANGED <<listVars, index, askedAt, checkedAt, round>>

\* The answer arrives: replace the list, keep the index.
Refreshed(u) ==
    /\ upc[u] = "answered"
    /\ servers' = Sorted(resp)
    /\ lastUpdate' = now
    /\ upc' = [upc EXCEPT ![u] = "pick"]
    /\ checkedAt' = [checkedAt EXCEPT ![u] = now]
    /\ resp' = {} /\ askedAt' = 0
    /\ round' = << >> /\ manual' = FALSE
    /\ got' = Nothing
    /\ UNCHANGED <<registryVars, index>>

\* Mutant: a failed refresh counts as an update.
RefreshFail_Touches(u) ==
    /\ upc[u] \in {"asking", "answered"}
    /\ ~Reliable
    /\ upc' = [upc EXCEPT ![u] = "idle"]
    /\ resp' = {} /\ askedAt' = 0
    /\ lastUpdate' = now
    /\ got' = Nothing
    /\ UNCHANGED <<registryVars, servers, manual, index, checkedAt, round>>

\* http.Get fails: Get returns the error and the list stays as it is.
RefreshFail(u) ==
    /\ upc[u] \in {"asking", "answered"}
    /\ ~Reliable
    /\ upc' = [upc EXCEPT ![u] = "idle"]
    /\ resp' = {} /\ askedAt' = 0
    /\ got' = Nothing
    /\ UNCHANGED <<registryVars, listVars, index, checkedAt, round>>

\* What MultiServersDiscovery.Get or GetAll returns to a user.
Chosen(u, S) == got' = [fresh |-> TRUE, manual |-> manual, checked |-> checkedAt[u],
                        servers |-> S, all |-> Range(servers)]

\* Mutant: the index wraps one too late.
RoundRobin_WrapsLate(u, n) ==
    LET s == servers[(index % n) + 1] IN
    /\ Chosen(u, {s})
    /\ index' = (index + 1) % (n + 1)
    /\ round' = Latest(n, Append(round, s))

RoundRobin(u, n) ==
    LET s == servers[(index % n) + 1] IN
    /\ Chosen(u, {s})
    /\ index' = (index + 1) % n
    /\ round' = Latest(n, Append(round, s))

\* Get in the two modes, and GetAll.
Pick(u) ==
    /\ upc[u] = "pick"
    /\ MuFree
    /\ \/ Chosen(u, {}) /\ UNCHANGED <<index, round>>    \* no server, or an unknown mode
       \/ servers # << >> /\ RoundRobin(u, Len(servers))
       \/ /\ servers # << >>
          /\ \E s \in Range(servers) : Chosen(u, {s})
          /\ UNCHANGED <<index, round>>
       \/ Chosen(u, Range(servers)) /\ UNCHANGED <<index, round>>
    /\ upc' = [upc EXCEPT ![u] = "idle"]
    /\ checkedAt' = [checkedAt EXCEPT ![u] = 0]
    /\ UNCHANGED <<registryVars, listVars, askedAt, resp>>

\* Update with a list of the user's own.
Update(list) ==
    /\ MuFree /\ now <= UpdateUntil
    /\ servers' = list
    /\ lastUpdate' = now
    /\ round' = << >> /\ manual' = TRUE
    /\ got' = Nothing
    /\ UNCHANGED <<registryVars, index, userVars>>

\* The clock, when no answer is overdue.  A user on its way to its choice does not
\* hold it up.
DiscoveryAdvance ==
    /\ \A u \in Users : upc[u] \in {"asking", "answered"} => now < askedAt + Delay
    /\ Advance
    /\ got' = Nothing
    /\ UNCHANGED <<listVars, index, userVars, round>>

\* A step of a server, which leaves the discovery alone.
OfServer(s) ==
    /\ ServerStep(s)
    /\ got' = Nothing
    /\ UNCHANGED <<listVars, index, userVars, round>>

UserStep(u) == Refresh(u) \/ ServeGet(u) \/ Refreshed(u) \/ RefreshFail(u) \/ Pick(u)

DiscoveryNext ==
    \/ \E s \in Servers : OfServer(s)
    \/ \E u \in Users : UserStep(u)
    \/ \E list \in Lists : Update(list)
    \/ DiscoveryAdvance

DiscoverySpec == DiscoveryInit /\ [][DiscoveryNext]_vars

-----------------------------------------------------------------------------
\* Two caches lie between a server and its users, the registry's entry and the
\* discovery's list; each adds its timeout and one delay.  Unless the registry's
\* entries never expire, Get does not return a server that had crashed longer than
\* that before its Refresh let it go on (discovery_my.go:43, registry.go:60).  How
\* much later the choice itself is made, d.mu decides.
StaleBound ==
    Timeout # 0 /\ ~got.manual => \A s \in got.servers :
        up[s] \/ got.checked < crashedAt[s] + Delay + Timeout + Delay + UpdateTimeout

\* Nor does a server go unnoticed that is registered and was so all that time
\* before the Refresh returned, the empty list being kept no longer than any other
\* (discovery_my.go:53-59).
RegisteredServersAreSeen ==
    got.fresh /\ ~got.manual => \A s \in Servers :
        Listed(s) /\ since[s] + UpdateTimeout + Delay < got.checked
        => s \in got.all

\* As long as the list stays the same, as many successive round robin choices as
\* it has servers are all different, whatever list the index was left by
\* (discovery.go:68-69).
RoundRobinIsFair ==
    Cardinality(Range(round)) = Len(round)
=============================================================================
