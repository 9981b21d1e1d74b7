----------------------------- MODULE CacheGroup -----------------------------
(***************************************************************************)
(* The distributed cache of MyCache: on every node one Group with its      *)
(* mainCache (mycache.go, cache.go) and its singleflight.Group, and the    *)
(* HTTP pool that forwards a key to the node the ring names (http.go).     *)
(*                                                                         *)
(* A thread is a goroutine of net/http in Group.Get.  <<g, 0>> serves the  *)
(* user's request g of the API server; <<g, h + 1>> is in ServeHTTP of a   *)
(* peer's pool and answers the request which <<g, h>> sent there.  The     *)
(* call struct of singleflight is named by the thread that made it, its    *)
(* leader.                                                                 *)
(*                                                                         *)
(* A process starts with its API server running and its group without      *)
(* peers, and later registers its pool and serves the other nodes.  It may *)
(* crash and be started again.  A panic in a handler ends that goroutine   *)
(* only: net/http recovers it and drops the connection.                    *)
(*                                                                         *)
(* mainCache is the lru.Cache of each node: the list ll of entries, most   *)
(* recently used first, and the counter nbytes.  An entry is its key, the  *)
(* key whose value it holds and its bytes, len(key) + value.Len(); the     *)
(* Getter may return values of different lengths for one key.              *)
(* The group exists on every node.                                         *)
(***************************************************************************)
EXTENDS ConsistentHash, Functions

CONSTANTS
    Nodes,
    Keys,            \* keys, sequences of characters
    Gets,            \* the users' calls of Group.Get
    NodeOf, KeysOf,  \* where each is made, and for which keys it may be
    PeerLists,       \* the lists, in some order, that a pool may be set with
    hash, keyHash,   \* the hashes of the virtual nodes and of the keys
    Unreserved,      \* the characters that QueryEscape leaves alone
    MaxHops,         \* how far a request may be forwarded
    Capacity,        \* maxBytes; 0: unlimited
    Sizes,           \* the bytes that an entry may have
    GetterFails,     \* whether the user's Getter may return an error
    GetterPanics,    \* whether it may panic
    NetworkFails,    \* whether a request to a peer may fail
    MaxCrashes       \* how often a process may crash

ASSUME CacheAssumption ==
    /\ Keys \subseteq Seq(STRING)
    /\ NodeOf \in [Gets -> Nodes] /\ KeysOf \in [Gets -> SUBSET Keys]
    /\ PeerLists \subseteq Seq(Nodes)
    /\ MaxHops \in Nat \ {0} /\ Capacity \in Nat /\ Sizes \subseteq Nat
    /\ GetterFails \in BOOLEAN /\ GetterPanics \in BOOLEAN /\ NetworkFails \in BOOLEAN
    /\ MaxCrashes \in Nat

Threads == Gets \X (0 .. MaxHops)
Child(t) == <<t[1], t[2] + 1>>
NoKey == << >>       \* the empty string

VARIABLES
    pc, at, key,     \* where each thread is, on which node, and its key
    leader,          \* the call a thread leads or waits for
    res, val,        \* what it returns: "none", "ok" or "err"; the value's key
    done,            \* calls whose WaitGroup has been released
    flight,          \* singleflight's map m of each node, key to leader
    mainCache,
    ring,            \* the ring of each node's pool
    peers,           \* g.peers of each node's group: "nil", "torn" or "set"
    crashes          \* how many crashes there have been

nodeVars == <<ring, peers, crashes>>
threadVars == <<pc, at, key, leader, res, val, done>>
vars == <<pc, at, key, leader, res, val, done, flight, mainCache, ring, peers,
          crashes>>

-----------------------------------------------------------------------------
\* What the entries of a list add up to.
Bytes(ll) ==
    LET upTo[i \in 0 .. Len(ll)] == IF i = 0 THEN 0 ELSE upTo[i - 1] + ll[i].bytes
    IN  upTo[Len(ll)]

\* The map cache takes a key to its element of ll: the element's place, its entry,
\* the list without it, and the list with it at the front (MoveToFront).
Cached(c, k) == \E i \in 1 .. Len(c.ll) : c.ll[i].key = k
Place(ll, k) == CHOOSE i \in 1 .. Len(ll) : ll[i].key = k
Find(c, k) == c.ll[Place(c.ll, k)]
Without(c, k) == IF Cached(c, k) THEN RemoveAt(c.ll, Place(c.ll, k)) ELSE c.ll
Touched(c, k) == [c EXCEPT !.ll = <<Find(c, k)>> \o Without(c, k)]

\* Add's loop over RemoverOldest: drop entries from the back until nbytes fits.
\* If the list runs empty before that (it does not), the loop never ends.
Evicted(c) ==
    LET tail(m) == Bytes(SubSeq(c.ll, m + 1, Len(c.ll)))
        fits(m) == Capacity = 0 \/ c.nbytes - tail(m) <= Capacity
        m == CHOOSE i \in 0 .. Len(c.ll) :
                /\ fits(i) \/ i = 0
                /\ \A j \in i + 1 .. Len(c.ll) : ~fits(j)
    IN  [ll |-> SubSeq(c.ll, 1, m), nbytes |-> c.nbytes - tail(m)]

\* Mutant: an update counts the new value and forgets the old one.
Added_KeepsOld(c, k, v, b) ==
    Evicted([ll |-> <<[key |-> k, of |-> v, bytes |-> b]>> \o Without(c, k),
             nbytes |-> c.nbytes + b])

\* lru.Add: update the key's entry, or insert one, and evict.
Added(c, k, v, b) ==
    Evicted([ll |-> <<[key |-> k, of |-> v, bytes |-> b]>> \o Without(c, k),
             nbytes |-> c.nbytes + b - (IF Cached(c, k) THEN Find(c, k).bytes ELSE 0)])

\* httpGetter.Get puts QueryEscape of every character in the path: a space becomes
\* a plus sign, and what is not unreserved an escape.  The peer's URL.Path has
\* the escapes undone, and a plus sign of a path is itself.
QueryEscape(ch) == [escaped |-> ch \notin Unreserved \cup {" "},
                    ch |-> IF ch = " " THEN "+" ELSE ch]
PathUnescape(e) == e.ch
Arriving(k) == [i \in DOMAIN k |-> PathUnescape(QueryEscape(k[i]))]

\* The keys are those that may arrive, too, and a ring names one of its peers
\* (HTTPPool!SuccessorOwns).
ASSUME RingAssumption ==
    \A k \in Keys :
        /\ Arriving(k) \in Keys
        /\ \A l \in PeerLists : Get(Add(New, hash, l), keyHash[k]) \in Range(l) \cup {Nobody}

\* The peer that the pool's ring names for a key.
OwnerOf(n, k) == Get(ring[n], keyHash[k])

\* Mutant: PickPeer without the comparison with the pool's own address.
Remote_Self(n, k) == TRUE

\* PickPeer: the ring names another node.
Remote(n, k) == OwnerOf(n, k) \notin {Nobody, n}

InFlight(n) == DOMAIN flight[n]

Fresh == [ll |-> << >>, nbytes |-> 0]

Init ==
    /\ pc = [t \in Threads |-> "idle"]
    /\ at = [t \in Threads |-> NodeOf[t[1]]]
    /\ key = [t \in Threads |-> NoKey]
    /\ leader = [t \in Threads |-> t]
    /\ res = [t \in Threads |-> "none"]
    /\ val = [t \in Threads |-> NoKey]
    /\ done = {}
    /\ flight = [n \in Nodes |-> << >>]
    /\ mainCache = [n \in Nodes |-> Fresh]
    /\ ring = [n \in Nodes |-> New]
    /\ peers = [n \in Nodes |-> "nil"]
    /\ crashes = 0

-----------------------------------------------------------------------------
(* The processes.                                                          *)

\* startCacheServer: Set and RegisterPeers, once.  That writes the two words of an
\* interface without a lock while Gets may read them.
StartCacheServer(n) ==
    /\ \/ /\ peers[n] = "nil"
          /\ \E l \in PeerLists : ring' = [ring EXCEPT ![n] = Add(New, hash, l)]
          /\ peers' = [peers EXCEPT ![n] = "torn"]
       \/ /\ peers[n] = "torn"
          /\ peers' = [peers EXCEPT ![n] = "set"]
          /\ UNCHANGED ring
    /\ UNCHANGED <<threadVars, flight, mainCache, crashes>>

\* The process is killed and started again: its goroutines and its cache are gone.
Crash(n) ==
    /\ crashes < MaxCrashes
    /\ crashes' = crashes + 1
    /\ LET killed == {t \in Threads : at[t] = n /\ pc[t] \notin {"idle", "returned"}} IN
        /\ pc' = [t \in Threads |-> IF t \in killed THEN "dead" ELSE pc[t]]
        /\ res' = [t \in Threads |-> IF t \in killed THEN "none" ELSE res[t]]
        /\ val' = [t \in Threads |-> IF t \in killed THEN NoKey ELSE val[t]]
        /\ leader' = [t \in Threads |-> IF t \in killed THEN t ELSE leader[t]]
        /\ done' = done \ killed
    /\ flight' = [flight EXCEPT ![n] = << >>]
    /\ mainCache' = [mainCache EXCEPT ![n] = Fresh]
    /\ ring' = [ring EXCEPT ![n] = New]
    /\ peers' = [peers EXCEPT ![n] = "nil"]
    /\ UNCHANGED <<at, key>>

-----------------------------------------------------------------------------
(* Group.Get and what it calls.                                            *)

Start(g, k) ==
    /\ pc[<<g, 0>>] = "idle"
    /\ pc' = [pc EXCEPT ![<<g, 0>>] = "lookup"]
    /\ key' = [key EXCEPT ![<<g, 0>>] = k]
    /\ UNCHANGED <<at, leader, res, val, done, flight, mainCache, nodeVars>>

\* Get: refuse the empty key; mainCache.get, and return on a hit.
Lookup(t) ==
    /\ pc[t] = "lookup"
    /\ \/ /\ key[t] = NoKey
          /\ res' = [res EXCEPT ![t] = "err"]
          /\ pc' = [pc EXCEPT ![t] = "returned"]
          /\ UNCHANGED <<mainCache, val>>
       \/ /\ key[t] # NoKey /\ Cached(mainCache[at[t]], key[t])
          /\ mainCache' = [mainCache EXCEPT ![at[t]] = Touched(@, key[t])]
          /\ res' = [res EXCEPT ![t] = "ok"]
          /\ val' = [val EXCEPT ![t] = Find(mainCache[at[t]], key[t]).of]
          /\ pc' = [pc EXCEPT ![t] = "returned"]
       \/ /\ key[t] # NoKey /\ ~Cached(mainCache[at[t]], key[t])
          /\ pc' = [pc EXCEPT ![t] = "do"]
          /\ UNCHANGED <<mainCache, res, val>>
    /\ UNCHANGED <<at, key, leader, done, flight, nodeVars>>

Leading(t) == [flight EXCEPT ![at[t]] =
                 [k \in DOMAIN @ \cup {key[t]} |-> IF k = key[t] THEN t ELSE @[k]]]

\* Mutant: the map is not consulted.
Do_Alone(t) ==
    /\ pc[t] = "do"
    /\ flight' = Leading(t)
    /\ pc' = [pc EXCEPT ![t] = "pick"]
    /\ UNCHANGED <<at, key, leader, res, val, done, mainCache, nodeVars>>

\* Do up to the first Unlock: join the call in flight or become its leader.
Do(t) ==
    /\ pc[t] = "do"
    /\ \/ /\ key[t] \in InFlight(at[t])
          /\ leader' = [leader EXCEPT ![t] = flight[at[t]][key[t]]]
          /\ pc' = [pc EXCEPT ![t] = "wait"]
          /\ UNCHANGED flight
       \/ /\ key[t] \notin InFlight(at[t])
          /\ flight' = Leading(t)
          /\ pc' = [pc EXCEPT ![t] = "pick"]
          /\ UNCHANGED leader
    /\ UNCHANGED <<at, key, res, val, done, mainCache, nodeVars>>

\* c.wg.Wait(), and return the leader's outcome.
Wait(t) ==
    /\ pc[t] = "wait"
    /\ leader[t] \in done
    /\ res' = [res EXCEPT ![t] = res[leader[t]]]
    /\ val' = [val EXCEPT ![t] = val[leader[t]]]
    /\ pc' = [pc EXCEPT ![t] = "returned"]
    /\ UNCHANGED <<at, key, leader, done, flight, mainCache, nodeVars>>

\* load's function: ask the peer that PickPeer names, or go to the source if
\* there is none or the group has no peers yet.  A read of g.peers that meets its
\* write finds nil, the pool, or a nil pool, whose PickPeer panics.
Pick(t) ==
    /\ pc[t] = "pick"
    /\ \/ /\ peers[at[t]] # "nil"
          /\ Remote(at[t], key[t]) /\ t[2] < MaxHops
          /\ pc' = [pc EXCEPT ![t] = "dial"]
       \/ /\ peers[at[t]] # "set" \/ ~Remote(at[t], key[t])
          /\ pc' = [pc EXCEPT ![t] = "local"]
       \/ /\ peers[at[t]] = "torn"
          /\ pc' = [pc EXCEPT ![t] = "panicked"]
    /\ UNCHANGED <<at, key, leader, res, val, done, flight, mainCache, nodeVars>>

\* The request reaches the peer, if its pool is served yet, and starts a Get.
Forward(t) ==
    /\ pc[t] = "dial"
    /\ LET n == OwnerOf(at[t], key[t]) IN
        \/ /\ peers[n] = "set"
           /\ pc' = [pc EXCEPT ![t] = "remote", ![Child(t)] = "lookup"]
           /\ at' = [at EXCEPT ![Child(t)] = n]
           /\ key' = [key EXCEPT ![Child(t)] = Arriving(key[t])]
        \/ /\ peers[n] # "set"
           /\ pc' = [pc EXCEPT ![t] = "local"]
           /\ UNCHANGED <<at, key>>
    /\ UNCHANGED <<leader, res, val, done, flight, mainCache, nodeVars>>

\* Mutant: an error of the peer ends the load as a value does.
PeerAnswer_ErrorIsValue(t) ==
    /\ pc[t] = "remote"
    /\ pc[Child(t)] \in {"returned", "panicked", "dead"}
    /\ res' = [res EXCEPT ![t] = "ok"]
    /\ val' = [val EXCEPT ![t] = val[Child(t)]]
    /\ pc' = [pc EXCEPT ![t] = "finish"]
    /\ UNCHANGED <<at, key, leader, done, flight, mainCache, nodeVars>>

\* The peer's answer: a value ends the load (it is not cached here); an error
\* status or the end of the connection falls back to the source.
PeerAnswer(t) ==
    /\ pc[t] = "remote"
    /\ \/ /\ pc[Child(t)] = "returned" /\ res[Child(t)] = "ok"
          /\ res' = [res EXCEPT ![t] = "ok"]
          /\ val' = [val EXCEPT ![t] = val[Child(t)]]
          /\ pc' = [pc EXCEPT ![t] = "finish"]
       \/ /\ \/ pc[Child(t)] = "returned" /\ res[Child(t)] = "err"
             \/ pc[Child(t)] \in {"panicked", "dead"}
          /\ pc' = [pc EXCEPT ![t] = "local"]
          /\ UNCHANGED <<res, val>>
    /\ UNCHANGED <<at, key, leader, done, flight, mainCache, nodeVars>>

\* The request or its answer is lost on the way: http.Get returns an error.
RequestFails(t) ==
    /\ NetworkFails
    /\ pc[t] = "remote"
    /\ pc' = [pc EXCEPT ![t] = "local"]
    /\ UNCHANGED <<at, key, leader, res, val, done, flight, mainCache, nodeVars>>

\* getLocally: call the Getter and populate the cache if it succeeds.  If it
\* panics nothing of Do behind fn() is run.
Load(t) ==
    /\ pc[t] = "local"
    /\ \/ /\ res' = [res EXCEPT ![t] = "ok"]
          /\ val' = [val EXCEPT ![t] = key[t]]
          /\ \E b \in Sizes :
                mainCache' = [mainCache EXCEPT ![at[t]] = Added(@, key[t], key[t], b)]
          /\ pc' = [pc EXCEPT ![t] = "finish"]
       \/ /\ GetterFails
          /\ res' = [res EXCEPT ![t] = "err"]
          /\ pc' = [pc EXCEPT ![t] = "finish"]
          /\ UNCHANGED <<mainCache, val>>
       \/ /\ GetterPanics
          /\ pc' = [pc EXCEPT ![t] = "panicked"]
          /\ UNCHANGED <<mainCache, res, val>>
    /\ UNCHANGED <<at, key, leader, done, flight, nodeVars>>

\* Mutant: the WaitGroup is not released.
Finish_NoDone(t) ==
    /\ pc[t] = "finish"
    /\ pc' = [pc EXCEPT ![t] = "delete"]
    /\ UNCHANGED <<at, key, leader, res, val, done, flight, mainCache, nodeVars>>

\* c.wg.Done() ...
Finish(t) ==
    /\ pc[t] = "finish"
    /\ done' = done \cup {t}
    /\ pc' = [pc EXCEPT ![t] = "delete"]
    /\ UNCHANGED <<at, key, leader, res, val, flight, mainCache, nodeVars>>

\* ... and only then the removal from the map.
Delete(t) ==
    /\ pc[t] = "delete"
    /\ flight' = [flight EXCEPT ![at[t]] = [k \in DOMAIN @ \ {key[t]} |-> @[k]]]
    /\ pc' = [pc EXCEPT ![t] = "returned"]
    /\ UNCHANGED <<at, key, leader, res, val, done, mainCache, nodeVars>>

Step(t) == \/ Lookup(t) \/ Do(t) \/ Wait(t) \/ Pick(t) \/ Forward(t) \/ PeerAnswer(t)
           \/ Load(t) \/ Finish(t) \/ Delete(t)

Next == \/ \E g \in Gets : \E k \in KeysOf[g] : Start(g, k)
        \/ \E t \in Threads : Step(t) \/ RequestFails(t)
        \/ \E n \in Nodes : StartCacheServer(n) \/ Crash(n)

Spec == Init /\ [][Next]_vars

\* While some goroutine can run, one does; in particular the Getter and the peers
\* answer.  No goroutine runs for ever, so it need not be said of each of them.
\* Requests have no timeout: nothing makes one fail.
FairSpec == Spec /\ WF_vars(\E t \in Threads : Step(t))

-----------------------------------------------------------------------------
Loading(t) == pc[t] \in {"pick", "dial", "remote", "local", "finish"}

\* At any time one goroutine per node and key runs the load function, and it is
\* the one that the others on that node find in the map and wait for
\* (singleflight.go:25-35).
SingleFlight ==
    \A t, u \in Threads :
        Loading(t) => /\ key[t] \in InFlight(at[t]) /\ flight[at[t]][key[t]] = t
                      /\ Loading(u) /\ at[u] = at[t] /\ key[u] = key[t] => u = t

\* What a Get of the user returns is the source's value for the key that was asked
\* for, whether it was loaded here, found in the cache, shared by singleflight or
\* answered by a peer, for which the key goes into a URL ("escaped so that it can
\* safely be placed in a URL path segment", http.go:91).
RightValue ==
    \A g \in Gets :
        /\ pc[<<g, 0>>] = "returned" => res[<<g, 0>>] # "none"
        /\ res[<<g, 0>>] = "ok" => val[<<g, 0>>] = key[<<g, 0>>]

\* When the rings agree a request is forwarded once: the peer serves it itself,
\* also while nodes start and crash.
ForwardedOnce == \A t \in Threads : t[2] > 1 => pc[t] = "idle"

\* nbytes, which lru.go:51 and 62-67 keep by hand, is what the entries add up to,
\* also when a key is added again with a value of another length; so the eviction
\* loop (lru.go:69-71) ends, the cache keeps within its limit, and an entry larger
\* than the limit is not kept.  No key is in the list twice.
CacheBounded ==
    \A n \in Nodes :
        /\ mainCache[n].nbytes = Bytes(mainCache[n].ll)
        /\ Capacity # 0 => mainCache[n].nbytes <= Capacity
        /\ Cardinality({e.key : e \in Range(mainCache[n].ll)}) = Len(mainCache[n].ll)

\* Every Get comes to an end, on whichever node it has to wait for another
\* goroutine or for a peer, unless the load of its key panicked: that one leaves
\* its call in the map and never releases those who wait (singleflight.go:35).
GetsReturn ==
    <>[](\A t \in Threads :
            \/ pc[t] \in {"idle", "returned", "panicked", "dead"}
            \/ \E u \in Threads : pc[u] = "panicked" /\ key[u] = key[t])
=============================================================================
