------------------------------ MODULE HTTPPool -----------------------------
(***************************************************************************)
(* The pools of the cache's nodes (HTTPPool of MyCache/http.go) and their  *)
(* registration with the node's Group: which peer every node asks for a    *)
(* key.  The nodes' programs set their pools independently, in the order   *)
(* in which a range over a map happens to list the peers (main.go), and    *)
(* may set them again when the peers change.                               *)
(*                                                                         *)
(* Set and PickPeer hold the pool's mutex throughout; PickPeer changes     *)
(* nothing.  The hash function is any function into 0 .. MaxHash, hashes   *)
(* that collide included; a key is stood for by its hash.                  *)
(***************************************************************************)
EXTENDS ConsistentHash

CONSTANTS
    Nodes,       \* the peers, by their addresses
    Pools,       \* those whose pools are modelled
    Lists,       \* the lists of peers that a program may pass to Set
    Replicas,    \* defaultReplicas
    MaxHash

ASSUME PoolAssumption ==
    /\ Nobody \notin Nodes /\ Pools \subseteq Nodes
    /\ \A l \in Lists : l \in Seq(Nodes) /\ IsInjective(l)
    /\ Replicas \in Nat \ {0} /\ MaxHash \in Nat
    /\ \A f \in [Nodes -> [0 .. Replicas - 1 -> 0 .. MaxHash]], l \in Lists :
         LET s == Hashes(f, l)
         IN  SortInts(s) \in Seq(Int) /\ SortedVersion(SortInts(s), s)

VARIABLES
    hash,          \* the hash function: of every virtual node
    peers,         \* the pool's ring; NilRing before the first Set
    httpGetters,   \* the peers that have a getter
    registered     \* the Group's peers is this pool, no longer nil

vars == <<hash, peers, httpGetters, registered>>

NilRing == [keys |-> <<-1>>, hashMap |-> << >>]
KeyHashes == 0 .. MaxHash

-----------------------------------------------------------------------------
\* NewHTTPPool on every node.
Init ==
    /\ hash \in [Nodes -> [0 .. Replicas - 1 -> 0 .. MaxHash]]
    /\ peers = [n \in Pools |-> NilRing]
    /\ httpGetters = [n \in Pools |-> {}]
    /\ registered = [n \in Pools |-> FALSE]

\* Mutant: Set adds to the ring that is there.
NewRing_Kept(n, l) == Add(IF peers[n] = NilRing THEN New ELSE peers[n], hash, l)

NewRing(n, l) == Add(New, hash, l)

Set(n, l) ==
    /\ peers' = [peers EXCEPT ![n] = NewRing(n, l)]
    /\ httpGetters' = [httpGetters EXCEPT ![n] = Range(l)]
    /\ UNCHANGED <<hash, registered>>

IsSet(n) == peers[n] # NilRing

\* RegisterPeers refuses a second pool and looks at nothing else.  That the ring is
\* there is the order in which startCacheServer calls Set and it (main.go).
RegisterPeers(n) ==
    /\ ~registered[n]
    /\ IsSet(n)
    /\ registered' = [registered EXCEPT ![n] = TRUE]
    /\ UNCHANGED <<hash, peers, httpGetters>>

Next == \E n \in Pools : \/ \E l \in Lists : Set(n, l)
                         \/ RegisterPeers(n)

Spec == Init /\ [][Next]_vars

-----------------------------------------------------------------------------
Owner(n, h) == Get(peers[n], h)

\* PickPeer: a getter, or nobody when the key is this node's.
PickPeer(n, h) == LET peer == Owner(n, h)
                  IN  IF peer \notin {Nobody, n} THEN peer ELSE Nobody

\* No two virtual nodes of different peers among S have the same hash.
NoCollision(S) == \A p, q \in S : p # q => Range(hash[p]) \cap Range(hash[q]) = {}

\* Clockwise from a to b.
Distance(a, b) == (b - a) % (MaxHash + 1)

\* A key belongs to a peer with a virtual node next to it in clockwise direction,
\* however the hashes lie and repeat, at the ends of the ring too
\* (consistenthash.go:42-51); to nobody only if there is no peer.
SuccessorOwns ==
    \A n \in Pools : IsSet(n) =>
        LET points == UNION {Range(hash[p]) : p \in httpGetters[n]}
        IN  \A h \in KeyHashes :
              IF points = {} THEN Owner(n, h) = Nobody
              ELSE \E x \in Range(hash[Owner(n, h)]) :
                      \A y \in points : Distance(h, x) <= Distance(h, y)

\* Nodes that were given the same peers, in whatever order, agree on the owner of
\* every key, so that it does not forward the key on, as long as no two hashes
\* collide (consistenthash.go:36).
RingsAgree ==
    \A m, n \in Pools :
        IsSet(m) /\ IsSet(n) /\ httpGetters[m] = httpGetters[n] /\ NoCollision(httpGetters[n])
        => \A h \in KeyHashes : Owner(m, h) = Owner(n, h)

\* What PickPeer returns to a Group is another node, one that the pool has a getter
\* for, however often the peers have been set (http.go:137-139).
PickedPeerCanBeAsked ==
    \A n \in Pools : registered[n] =>
        \A h \in KeyHashes : PickPeer(n, h) # Nobody
                                => PickPeer(n, h) \in httpGetters[n] \ {n}

\* When the peers change, a key moves only away from a peer that has left or to
\* one that has joined (consistenthash.go: what the ring is for).
MovesMatter(n) ==
    IsSet(n) /\ NoCollision(httpGetters[n] \cup httpGetters'[n]) =>
        \A h \in KeyHashes :
            \/ Owner(n, h)' = Owner(n, h)
            \/ Owner(n, h) \notin httpGetters'[n]
            \/ Owner(n, h)' \notin httpGetters[n]
MinimalMovement == [][\A n \in Pools : MovesMatter(n)]_vars
=============================================================================
