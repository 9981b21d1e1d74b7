-------------------------- MODULE CacheGroupProofs -------------------------
(***************************************************************************)
(* Proofs about the distributed cache, for any nodes, keys, requests,      *)
(* hashes and sizes.                                                       *)
(*                                                                         *)
(* Structure says who leads which call (Flights), who waits for whom       *)
(* (Waits) and which thread serves which (Children), whatever the keys.    *)
(* On top of it, Values follows the value of a key through the cache, the  *)
(* calls and the peers, for keys that survive the URL, Owned follows a key *)
(* to its owner, when the rings agree as well, and Kept says of each cache *)
(* that its counter is right and within the limit.                         *)
(***************************************************************************)
EXTENDS CacheGroup, SequenceTheorems, FiniteSetTheorems, WellFoundedInduction, TLAPS

\* The state is well formed.
CacheTypeOK ==
    /\ pc \in [Threads -> {"idle", "lookup", "do", "wait", "pick", "dial", "remote",
                           "local", "finish", "delete", "returned", "panicked", "dead"}]
    /\ at \in [Threads -> Nodes] /\ key \in [Threads -> Keys \cup {NoKey}]
    /\ leader \in [Threads -> Threads]
    /\ res \in [Threads -> {"none", "ok", "err"}] /\ val = [t \in Threads |-> val[t]]
    /\ done \subseteq Threads
    /\ flight = [n \in Nodes |-> flight[n]]
    /\ mainCache = [n \in Nodes |-> mainCache[n]]
    /\ ring = [n \in Nodes |-> ring[n]]
    /\ peers \in [Nodes -> {"nil", "torn", "set"}]

\* A thread is in its node's map from Do to the end of Do, for ever if it panicked,
\* and nobody else is.
Holding(t) == pc[t] \in {"pick", "dial", "remote", "local", "finish", "delete", "panicked"}
Flights ==
    /\ \A t \in Threads :
         Holding(t) => key[t] \in InFlight(at[t]) /\ flight[at[t]][key[t]] = t
    /\ \A n \in Nodes : \A k \in InFlight(n) :
         \E t \in Threads : flight[n][k] = t /\ Holding(t) /\ at[t] = n /\ key[t] = k

\* A thread that has not sent its request yet has not been answered; one that has
\* sent it asked for its own key, as it arrives.
Unsent(t) == pc[t] \in {"idle", "lookup", "do", "wait", "pick", "dial"}
Children ==
    \A t \in Threads :
        /\ Unsent(t) /\ t[2] < MaxHops => pc[Child(t)] = "idle"
        /\ pc[t] \in {"dial", "remote"} => t[2] < MaxHops
        /\ pc[t] = "remote" => /\ pc[Child(t)] # "idle"
                               /\ key[Child(t)] = Arriving(key[t])

\* Who waits does so for a call for its key on its node.
Waits ==
    \A t \in Threads : pc[t] = "wait" =>
        /\ at[leader[t]] = at[t] /\ key[leader[t]] = key[t]
        /\ pc[leader[t]] # "idle"

\* A result is there from the end of the load on, and before the waiting ones go on.
\* The empty key goes no further than Get.
Outcomes ==
    \A t \in Threads :
        /\ res[t] # "none" <=> pc[t] \in {"finish", "delete", "returned"}
        /\ t \in done => pc[t] \in {"delete", "returned"}
        /\ Holding(t) \/ pc[t] \in {"do", "wait"} => key[t] # NoKey

\* A pool's ring is the one of a list, once it is set; a thread dials the peer that
\* its node's ring names.
OwnerIn(l, k) == Get(Add(New, hash, l), keyHash[k])
Rings ==
    /\ \A n \in Nodes : ring[n] = New \/ \E l \in PeerLists : ring[n] = Add(New, hash, l)
    /\ \A t \in Threads : pc[t] = "dial" => Remote(at[t], key[t]) /\ peers[at[t]] # "nil"

Structure == CacheTypeOK /\ Flights /\ Children /\ Waits /\ Outcomes /\ Rings

-----------------------------------------------------------------------------
\* No key that is asked for has a space in it, the one character that the path
\* of a URL changes.
NoSpaces == \A g \in Gets : \A k \in KeysOf[g] : \A i \in DOMAIN k : k[i] # " "

\* Every thread works on the key of its Get, and every value, in a cache or on its
\* way, is that of its key.
RightEntries == {e \in [key : Keys, of : Keys, bytes : Sizes] : e.of = e.key}
Values ==
    /\ \A t \in Threads : key[t] \in KeysOf[t[1]] \cup {NoKey}
    /\ \A t \in Threads : res[t] = "ok" => val[t] = key[t]
    /\ \A n \in Nodes : "ll" \in DOMAIN mainCache[n] /\ mainCache[n].ll \in Seq(RightEntries)

\* The lists that the pools may be set with give every key the same owner.
RingsAlike == \A l, m \in PeerLists : \A k \in Keys : OwnerIn(l, k) = OwnerIn(m, k)

\* A forwarded request is at the owner of its key, and so is not forwarded on.
Owned ==
    /\ \A t \in Threads : t[2] > 0 /\ pc[t] # "idle" =>
         \A l \in PeerLists : OwnerIn(l, key[t]) = at[t]
    /\ ForwardedOnce

-----------------------------------------------------------------------------
(* Facts about the operators.                                              *)

\* A thread is a Get and its distance from it.
LEMMA ThreadFacts ==
    /\ \A g \in Gets : <<g, 0>> \in Threads
    /\ \A t \in Threads :
         /\ t[1] \in Gets /\ t[2] \in 0 .. MaxHops
         /\ Child(t)[1] = t[1] /\ Child(t)[2] = t[2] + 1 /\ Child(t) # t
         /\ t[2] < MaxHops => Child(t) \in Threads
         /\ \A g \in Gets : Child(t) # <<g, 0>>
    /\ \A t, u \in Threads : Child(t) = Child(u) => t = u
<1> USE CacheAssumption DEF Threads, Child
<1>1. \A g \in Gets : <<g, 0>> \in Threads
  OBVIOUS
<1>2. ASSUME NEW t \in Threads
      PROVE  /\ t[1] \in Gets /\ t[2] \in 0 .. MaxHops
             /\ Child(t)[1] = t[1] /\ Child(t)[2] = t[2] + 1 /\ Child(t) # t
             /\ t[2] < MaxHops => Child(t) \in Threads
             /\ \A g \in Gets : Child(t) # <<g, 0>>
  <2>1. t[1] \in Gets /\ t[2] \in 0 .. MaxHops
    OBVIOUS
  <2>2. Child(t)[1] = t[1] /\ Child(t)[2] = t[2] + 1
    OBVIOUS
  <2> QED
    BY <2>1, <2>2
<1>3. ASSUME NEW t \in Threads, NEW u \in Threads, Child(t) = Child(u) PROVE t = u
  <2>1. t[1] = u[1] /\ t[2] + 1 = u[2] + 1
    BY <1>3
  <2>2. t = <<t[1], t[2]>> /\ u = <<u[1], u[2]>>
    OBVIOUS
  <2> QED
    BY <2>1, <2>2
<1> QED
  BY <1>1, <1>2, <1>3

\* The peer that a ring names, if it names one, is a node.
LEMMA OwnersAreNodes ==
    ASSUME Rings, NEW n \in Nodes, NEW k \in Keys, Remote(n, k)
    PROVE  /\ OwnerOf(n, k) \in Nodes
           /\ \E l \in PeerLists : OwnerOf(n, k) = OwnerIn(l, k)
<1>1. ring[n] # New
  BY DEF Remote, OwnerOf, Get, New
<1>2. PICK l \in PeerLists : ring[n] = Add(New, hash, l)
  BY <1>1 DEF Rings
<1>3. OwnerOf(n, k) = OwnerIn(l, k)
  BY <1>2 DEF OwnerOf, OwnerIn
<1>4. OwnerIn(l, k) \in Range(l) \cup {Nobody}
  BY RingAssumption DEF OwnerIn
<1>5. OwnerOf(n, k) \in Range(l)
  BY <1>3, <1>4 DEF Remote
<1>6. l \in Seq(Nodes)
  BY CacheAssumption
<1>7. Range(l) \subseteq Nodes
  BY <1>6, LenProperties, ElementOfSeq DEF Range
<1> QED
  BY <1>3, <1>5, <1>7

-----------------------------------------------------------------------------
(* The structure.                                                          *)

\* The state stays well formed.
LEMMA TypeStep == Structure /\ [Next]_vars => CacheTypeOK'
<1> SUFFICES ASSUME Structure, CacheTypeOK, [Next]_vars PROVE CacheTypeOK'
  BY DEF Structure
<1> USE DEF CacheTypeOK, nodeVars, threadVars
<1>1. ASSUME NEW g \in Gets, NEW k \in KeysOf[g], Start(g, k) PROVE CacheTypeOK'
  <2>1. k \in Keys
    BY CacheAssumption
  <2> QED
    BY <1>1, <2>1 DEF Start
<1>2. ASSUME NEW t \in Threads, Lookup(t) PROVE CacheTypeOK'
  BY <1>2 DEF Lookup
<1>3. ASSUME NEW t \in Threads, Do(t) PROVE CacheTypeOK'
  <2>1. key[t] \in InFlight(at[t]) => flight[at[t]][key[t]] \in Threads
    BY DEF Structure, Flights
  <2>2. leader' \in [Threads -> Threads]
    BY <1>3, <2>1 DEF Do
  <2>3. flight' = [n \in Nodes |-> flight'[n]]
    BY <1>3 DEF Do, Leading
  <2> QED
    BY <1>3, <2>2, <2>3 DEF Do
<1>4. ASSUME NEW t \in Threads, Wait(t) PROVE CacheTypeOK'
  BY <1>4 DEF Wait
<1>5. ASSUME NEW t \in Threads, Pick(t) PROVE CacheTypeOK'
  BY <1>5 DEF Pick
<1>6. ASSUME NEW t \in Threads, Forward(t) PROVE CacheTypeOK'
  <2>1. pc[t] = "dial" /\ t[2] < MaxHops /\ key[t] \in Keys /\ Remote(at[t], key[t])
    BY <1>6 DEF Forward, Structure, Children, Outcomes, Holding, Rings
  <2>2. Child(t) \in Threads /\ OwnerOf(at[t], key[t]) \in Nodes
    BY <2>1, ThreadFacts, OwnersAreNodes DEF Structure
  <2>3. Arriving(key[t]) \in Keys
    BY <2>1, RingAssumption
  <2>4. /\ pc' \in [Threads -> {"idle", "lookup", "do", "wait", "pick", "dial", "remote",
                           "local", "finish", "delete", "returned", "panicked", "dead"}]
        /\ at' \in [Threads -> Nodes] /\ key' \in [Threads -> Keys \cup {NoKey}]
    BY <1>6, <2>2, <2>3 DEF Forward
  <2> QED
    BY <1>6, <2>4 DEF Forward
<1>7. ASSUME NEW t \in Threads, PeerAnswer(t) PROVE CacheTypeOK'
  BY <1>7 DEF PeerAnswer
<1>8. ASSUME NEW t \in Threads, RequestFails(t) PROVE CacheTypeOK'
  BY <1>8 DEF RequestFails
<1>9. ASSUME NEW t \in Threads, Load(t) PROVE CacheTypeOK'
  BY <1>9 DEF Load
<1>10. ASSUME NEW t \in Threads, Finish(t) \/ Delete(t) PROVE CacheTypeOK'
  BY <1>10 DEF Finish, Delete
<1>11. ASSUME NEW n \in Nodes, StartCacheServer(n) PROVE CacheTypeOK'
  BY <1>11 DEF StartCacheServer
<1>12. ASSUME NEW n \in Nodes, Crash(n) PROVE CacheTypeOK'
  BY <1>12 DEF Crash
<1>13. CASE UNCHANGED vars
  BY <1>13 DEF vars
<1> QED
  BY <1>1, <1>2, <1>3, <1>4, <1>5, <1>6, <1>7, <1>8, <1>9, <1>10, <1>11, <1>12, <1>13
     DEF Next, Step

\* A thread keeps its node and its key once it has begun, and stays begun.
LEMMA IdentityStep ==
    ASSUME Structure, [Next]_vars, NEW u \in Threads, pc[u] # "idle"
    PROVE  pc'[u] # "idle" /\ at'[u] = at[u] /\ key'[u] = key[u]
<1>0. CacheTypeOK
  BY DEF Structure
<1> USE <1>0 DEF CacheTypeOK, nodeVars, threadVars
<1>1. ASSUME NEW g \in Gets, NEW k \in KeysOf[g], Start(g, k)
      PROVE  pc'[u] # "idle" /\ at'[u] = at[u] /\ key'[u] = key[u]
  BY <1>1 DEF Start
<1>2. ASSUME NEW t \in Threads, Step(t) \/ RequestFails(t), ~Forward(t)
      PROVE  pc'[u] # "idle" /\ UNCHANGED <<at, key>>
  <2>1. CASE Lookup(t) \/ Do(t) \/ Wait(t)
    BY <2>1 DEF Lookup, Do, Wait
  <2>2. CASE Pick(t) \/ PeerAnswer(t) \/ RequestFails(t)
    BY <2>2 DEF Pick, PeerAnswer, RequestFails
  <2>3. CASE Load(t) \/ Finish(t) \/ Delete(t)
    BY <2>3 DEF Load, Finish, Delete
  <2> QED
    BY <1>2, <2>1, <2>2, <2>3 DEF Step
<1>3. ASSUME NEW t \in Threads, Forward(t)
      PROVE  pc'[u] # "idle" /\ at'[u] = at[u] /\ key'[u] = key[u]
  <2>1. pc[t] = "dial" /\ t[2] < MaxHops /\ pc[Child(t)] = "idle"
    BY <1>3 DEF Forward, Structure, Children, Unsent
  <2>2. Child(t) \in Threads /\ Child(t) # u
    BY <2>1, ThreadFacts
  <2> QED
    BY <1>3, <2>1, <2>2 DEF Forward
<1>4. ASSUME NEW n \in Nodes, StartCacheServer(n) \/ Crash(n)
      PROVE  pc'[u] # "idle" /\ UNCHANGED <<at, key>>
  BY <1>4 DEF StartCacheServer, Crash
<1>5. CASE UNCHANGED vars
  BY <1>5 DEF vars
<1> QED
  BY <1>1, <1>2, <1>3, <1>4, <1>5 DEF Next

\* The map of a node names the threads that hold a call, and them only.
LEMMA FlightsStep == Structure /\ [Next]_vars => Flights'
<1> SUFFICES ASSUME Structure, CacheTypeOK, Flights, [Next]_vars PROVE Flights'
  BY DEF Structure
<1> USE DEF nodeVars, threadVars
<1>0. ASSUME flight' = flight, \A u \in Threads : Holding(u)' <=> Holding(u)
      PROVE  Flights'
  <2>1. \A u \in Threads : Holding(u) => at'[u] = at[u] /\ key'[u] = key[u]
    BY IdentityStep DEF Holding
  <2> QED
    BY <1>0, <2>1 DEF Flights, InFlight
<1>1. ASSUME NEW g \in Gets, NEW k \in KeysOf[g], Start(g, k) PROVE Flights'
  <2>1. flight' = flight /\ \A u \in Threads : Holding(u)' <=> Holding(u)
    BY <1>1, ThreadFacts DEF Start, Holding, CacheTypeOK
  <2> QED
    BY <1>0, <2>1
<1>2. ASSUME NEW t \in Threads, Lookup(t) \/ Wait(t) \/ Pick(t) \/ PeerAnswer(t)
                                \/ RequestFails(t)
      PROVE  Flights'
  <2>1. flight' = flight
    BY <1>2 DEF Lookup, Wait, Pick, PeerAnswer, RequestFails
  <2>2. \A u \in Threads : Holding(u)' <=> Holding(u)
    BY <1>2 DEF Lookup, Wait, Pick, PeerAnswer, RequestFails, Holding, CacheTypeOK
  <2> QED
    BY <1>0, <2>1, <2>2
<1>3. ASSUME NEW t \in Threads, Load(t) \/ Finish(t) PROVE Flights'
  <2>1. flight' = flight /\ \A u \in Threads : Holding(u)' <=> Holding(u)
    BY <1>3 DEF Load, Finish, Holding, CacheTypeOK
  <2> QED
    BY <1>0, <2>1
<1>4. ASSUME NEW t \in Threads, Forward(t) PROVE Flights'
  <2>1. pc[t] = "dial" /\ t[2] < MaxHops /\ pc[Child(t)] = "idle"
    BY <1>4 DEF Forward, Structure, Children, Unsent
  <2>2. Child(t) \in Threads /\ Child(t) # t
    BY <2>1, ThreadFacts
  <2>3. flight' = flight /\ \A u \in Threads : Holding(u)' <=> Holding(u)
    BY <1>4, <2>1, <2>2 DEF Forward, Holding, CacheTypeOK
  <2> QED
    BY <1>0, <2>3
<1>5. ASSUME NEW t \in Threads, Do(t) PROVE Flights'
  <2>1. CASE key[t] \in InFlight(at[t])
    <3>1. flight' = flight /\ \A u \in Threads : Holding(u)' <=> Holding(u)
      BY <1>5, <2>1 DEF Do, Holding, CacheTypeOK
    <3> QED
      BY <1>0, <3>1
  <2>2. CASE key[t] \notin InFlight(at[t])
    <3>1. /\ at' = at /\ key' = key /\ ~Holding(t)
          /\ \A u \in Threads : Holding(u)' <=> Holding(u) \/ u = t
      BY <1>5, <2>2 DEF Do, Holding, CacheTypeOK
    <3>2. PICK n \in Nodes, k \in Keys \cup {NoKey} : n = at[t] /\ k = key[t]
      BY DEF CacheTypeOK
    <3>3. /\ flight'[n] = [j \in DOMAIN flight[n] \cup {k} |->
                              IF j = k THEN t ELSE flight[n][j]]
          /\ \A m \in Nodes : m # n => flight'[m] = flight[m]
      BY <1>5, <2>2, <3>2 DEF Do, Leading, CacheTypeOK
    <3>4. /\ InFlight(n)' = InFlight(n) \cup {k} /\ flight'[n][k] = t
          /\ \A j \in InFlight(n) : j # k /\ flight'[n][j] = flight[n][j]
          /\ \A m \in Nodes : m # n => InFlight(m)' = InFlight(m) /\ flight'[m] = flight[m]
      BY <2>2, <3>2, <3>3 DEF InFlight
    <3>5. ASSUME NEW u \in Threads, Holding(u)'
          PROVE  key'[u] \in InFlight(at[u])' /\ flight'[at'[u]][key'[u]] = u
      <4>1. CASE u = t
        BY <3>1, <3>2, <3>4, <4>1 DEF InFlight
      <4>2. CASE u # t
        <5>1. Holding(u) /\ key[u] \in InFlight(at[u]) /\ flight[at[u]][key[u]] = u
          BY <3>1, <3>5, <4>2 DEF Flights
        <5>2. at[u] \in Nodes
          BY DEF CacheTypeOK
        <5> QED
          BY <3>1, <3>4, <5>1, <5>2 DEF InFlight
      <4> QED
        BY <4>1, <4>2
    <3>6. ASSUME NEW m \in Nodes, NEW j \in InFlight(m)'
          PROVE  \E u \in Threads : /\ flight'[m][j] = u /\ Holding(u)'
                                     /\ at'[u] = m /\ key'[u] = j
      <4>1. CASE m = n /\ j = k
        BY <3>1, <3>2, <3>4, <4>1
      <4>2. CASE ~(m = n /\ j = k)
        <5>1. j \in InFlight(m) /\ flight'[m][j] = flight[m][j]
          BY <3>4, <3>6, <4>2
        <5>2. PICK u \in Threads : flight[m][j] = u /\ Holding(u) /\ at[u] = m /\ key[u] = j
          BY <5>1 DEF Flights
        <5>3. Holding(u)'
          BY <3>1, <5>2
        <5> QED
          BY <3>1, <5>1, <5>2, <5>3
      <4> QED
        BY <4>1, <4>2
    <3> QED
      BY <3>5, <3>6 DEF Flights, InFlight
  <2> QED
    BY <2>1, <2>2
<1>6. ASSUME NEW t \in Threads, Delete(t) PROVE Flights'
  <2>1. /\ at' = at /\ key' = key /\ Holding(t)
        /\ \A u \in Threads : Holding(u)' <=> Holding(u) /\ u # t
    BY <1>6 DEF Delete, Holding, CacheTypeOK
  <2>2. PICK n \in Nodes, k \in Keys \cup {NoKey} : n = at[t] /\ k = key[t]
    BY DEF CacheTypeOK
  <2>3. k \in InFlight(n) /\ flight[n][k] = t
    BY <2>1, <2>2 DEF Flights
  <2>4. /\ flight'[n] = [j \in DOMAIN flight[n] \ {k} |-> flight[n][j]]
        /\ \A m \in Nodes : m # n => flight'[m] = flight[m]
    BY <1>6, <2>2 DEF Delete, CacheTypeOK
  <2>5. /\ InFlight(n)' = InFlight(n) \ {k}
        /\ \A j \in InFlight(n)' : flight'[n][j] = flight[n][j]
        /\ \A m \in Nodes : m # n => InFlight(m)' = InFlight(m) /\ flight'[m] = flight[m]
    BY <2>4 DEF InFlight
  <2>6. ASSUME NEW u \in Threads, Holding(u)'
        PROVE  key'[u] \in InFlight(at[u])' /\ flight'[at'[u]][key'[u]] = u
    <3>1. /\ u # t /\ key[u] \in InFlight(at[u]) /\ flight[at[u]][key[u]] = u
          /\ at[u] \in Nodes
      BY <2>1, <2>6 DEF Flights, CacheTypeOK
    <3>2. ~(at[u] = n /\ key[u] = k)
      BY <2>3, <3>1
    <3>3. key[u] \in InFlight(at[u])' /\ flight'[at[u]][key[u]] = u
      BY <2>1, <2>5, <3>1, <3>2 DEF InFlight
    <3> QED
      BY <2>1, <3>3
  <2>7. ASSUME NEW m \in Nodes, NEW j \in InFlight(m)'
        PROVE  \E u \in Threads : /\ flight'[m][j] = u /\ Holding(u)'
                                     /\ at'[u] = m /\ key'[u] = j
    <3>1. j \in InFlight(m) /\ flight'[m][j] = flight[m][j] /\ ~(m = n /\ j = k)
      BY <2>5, <2>7
    <3>2. PICK u \in Threads : flight[m][j] = u /\ Holding(u) /\ at[u] = m /\ key[u] = j
      BY <3>1 DEF Flights
    <3>3. Holding(u)'
      BY <2>1, <2>2, <3>1, <3>2
    <3> QED
      BY <2>1, <3>1, <3>2, <3>3
  <2> QED
    BY <2>6, <2>7 DEF Flights, InFlight
<1>7. ASSUME NEW n \in Nodes, StartCacheServer(n) PROVE Flights'
  <2>1. flight' = flight /\ pc' = pc
    BY <1>7 DEF StartCacheServer
  <2> QED
    BY <1>0, <2>1 DEF Holding
<1>8. ASSUME NEW n \in Nodes, Crash(n) PROVE Flights'
  <2>1. /\ at' = at /\ key' = key
        /\ \A u \in Threads : Holding(u)' <=> Holding(u) /\ at[u] # n
    BY <1>8 DEF Crash, Holding, CacheTypeOK
  <2>2. flight'[n] = << >> /\ \A m \in Nodes : m # n => flight'[m] = flight[m]
    BY <1>8 DEF Crash, CacheTypeOK
  <2>3. InFlight(n)' = {} /\ \A m \in Nodes : m # n => InFlight(m)' = InFlight(m)
    BY <2>2 DEF InFlight
  <2>4. ASSUME NEW u \in Threads, Holding(u)'
        PROVE  key'[u] \in InFlight(at[u])' /\ flight'[at'[u]][key'[u]] = u
    <3>1. /\ at[u] # n /\ key[u] \in InFlight(at[u]) /\ flight[at[u]][key[u]] = u
          /\ at[u] \in Nodes
      BY <2>1, <2>4 DEF Flights, CacheTypeOK
    <3> QED
      BY <2>1, <2>2, <3>1 DEF InFlight
  <2>5. ASSUME NEW m \in Nodes, NEW j \in InFlight(m)'
        PROVE  \E u \in Threads : /\ flight'[m][j] = u /\ Holding(u)'
                                     /\ at'[u] = m /\ key'[u] = j
    <3>1. m # n /\ j \in InFlight(m) /\ flight'[m] = flight[m]
      BY <2>2, <2>3, <2>5
    <3>2. PICK u \in Threads : flight[m][j] = u /\ Holding(u) /\ at[u] = m /\ key[u] = j
      BY <3>1 DEF Flights
    <3>3. Holding(u)'
      BY <2>1, <3>1, <3>2
    <3> QED
      BY <2>1, <3>1, <3>2, <3>3
  <2> QED
    BY <2>4, <2>5 DEF Flights, InFlight
<1>9. CASE UNCHANGED vars
  <2>1. flight' = flight /\ pc' = pc
    BY <1>9 DEF vars
  <2> QED
    BY <1>0, <2>1 DEF Holding
<1> QED
  BY <1>1, <1>2, <1>3, <1>4, <1>5, <1>6, <1>7, <1>8, <1>9 DEF Next, Step

\* What a step may do to a thread besides a step of its own.
SameResult(u) == res'[u] = res[u] /\ val'[u] = val[u] /\ (u \in done' <=> u \in done)
Same(u) == /\ pc'[u] = pc[u] /\ at'[u] = at[u] /\ key'[u] = key[u]
           /\ leader'[u] = leader[u] /\ SameResult(u)
ForwardedBy(u, t) == /\ Forward(t) /\ u = Child(t) /\ pc[t] = "dial" /\ pc'[t] = "remote"
                     /\ at'[u] = OwnerOf(at[t], key[t]) /\ key'[u] = Arriving(key[t])
Begun(u) == /\ pc[u] = "idle" /\ pc'[u] = "lookup" /\ SameResult(u)
            /\ \/ u[2] = 0 /\ key'[u] \in KeysOf[u[1]]
               \/ \E t \in Threads : ForwardedBy(u, t)
Killed(u) == /\ pc[u] # "idle" /\ pc'[u] = "dead" /\ res'[u] = "none" /\ u \notin done'

\* It does nothing to it, begins it or kills it.
LEMMA ThreadStep ==
    ASSUME Structure, [Next]_vars, NEW u \in Threads
    PROVE  Same(u) \/ Begun(u) \/ Step(u) \/ RequestFails(u) \/ Killed(u)
<1>0. CacheTypeOK
  BY DEF Structure
<1> USE <1>0 DEF CacheTypeOK, nodeVars, threadVars, SameResult
<1>1. ASSUME NEW g \in Gets, NEW k \in KeysOf[g], Start(g, k) PROVE Same(u) \/ Begun(u)
  <2>1. CASE u = <<g, 0>>
    <3>1. u[1] = g /\ u[2] = 0
      BY <2>1
    <3>2. pc[u] = "idle" /\ pc'[u] = "lookup" /\ key'[u] = k /\ SameResult(u)
      BY <1>1, <2>1 DEF Start
    <3> QED
      BY <3>1, <3>2 DEF Begun
  <2>2. CASE u # <<g, 0>>
    BY <1>1, <2>2 DEF Start, Same
  <2> QED
    BY <2>1, <2>2
<1>2. ASSUME NEW t \in Threads, t # u, Step(t) \/ RequestFails(t), ~Forward(t)
      PROVE  Same(u)
  <2>1. CASE Lookup(t) \/ Do(t) \/ Wait(t)
    BY <1>2, <2>1 DEF Lookup, Do, Wait, Same
  <2>2. CASE Pick(t) \/ PeerAnswer(t) \/ RequestFails(t)
    BY <1>2, <2>2 DEF Pick, PeerAnswer, RequestFails, Same
  <2>3. CASE Load(t) \/ Finish(t) \/ Delete(t)
    BY <1>2, <2>3 DEF Load, Finish, Delete, Same
  <2> QED
    BY <1>2, <2>1, <2>2, <2>3 DEF Step
<1>3. ASSUME NEW t \in Threads, t # u, Forward(t) PROVE Same(u) \/ Begun(u)
  <2>1. pc[t] = "dial" /\ t[2] < MaxHops /\ pc[Child(t)] = "idle"
    BY <1>3 DEF Forward, Structure, Children, Unsent
  <2>2. Child(t) \in Threads /\ Child(t) # t
    BY <2>1, ThreadFacts
  <2>3. SameResult(u) /\ leader'[u] = leader[u]
    BY <1>3 DEF Forward
  <2>4. PICK n : n = OwnerOf(at[t], key[t])
    OBVIOUS
  <2>5. CASE u = Child(t) /\ peers[n] = "set"
    <3>1. /\ pc' = [pc EXCEPT ![t] = "remote", ![Child(t)] = "lookup"]
          /\ at' = [at EXCEPT ![Child(t)] = n]
          /\ key' = [key EXCEPT ![Child(t)] = Arriving(key[t])]
      BY <1>3, <2>4, <2>5 DEF Forward
    <3>2. ForwardedBy(u, t) /\ pc'[u] = "lookup"
      BY <1>3, <2>1, <2>2, <2>4, <2>5, <3>1 DEF ForwardedBy
    <3> QED
      BY <2>1, <2>3, <2>5, <3>2 DEF Begun
  <2>6. CASE u # Child(t) \/ peers[n] # "set"
    <3>1. pc'[u] = pc[u] /\ at'[u] = at[u] /\ key'[u] = key[u]
      BY <1>3, <2>2, <2>4, <2>6 DEF Forward
    <3> QED
      BY <2>3, <3>1 DEF Same
  <2> QED
    BY <2>5, <2>6
<1>4. ASSUME NEW n \in Nodes, StartCacheServer(n) PROVE Same(u)
  BY <1>4 DEF StartCacheServer, Same
<1>5. ASSUME NEW n \in Nodes, Crash(n) PROVE Same(u) \/ Killed(u)
  <2>1. CASE at[u] = n /\ pc[u] \notin {"idle", "returned"}
    BY <1>5, <2>1 DEF Crash, Killed
  <2>2. CASE ~(at[u] = n /\ pc[u] \notin {"idle", "returned"})
    BY <1>5, <2>2 DEF Crash, Same
  <2> QED
    BY <2>1, <2>2
<1>6. CASE UNCHANGED vars
  BY <1>6 DEF vars, Same
<1> QED
  BY <1>1, <1>2, <1>3, <1>4, <1>5, <1>6 DEF Next, Step

\* A request is sent once.
LEMMA ChildrenStep == Structure /\ [Next]_vars => Children'
<1> SUFFICES ASSUME Structure, CacheTypeOK, CacheTypeOK', Children, [Next]_vars,
                    NEW t \in Threads
             PROVE  /\ Unsent(t)' /\ t[2] < MaxHops => pc'[Child(t)] = "idle"
                    /\ pc'[t] \in {"dial", "remote"} => t[2] < MaxHops
                    /\ pc'[t] = "remote" => /\ pc'[Child(t)] # "idle"
                                            /\ key'[Child(t)] = Arriving(key'[t])
  BY TypeStep DEF Structure, Children
<1>1. Unsent(t)' => Unsent(t)
  <2>1. CASE Same(t) \/ Begun(t) \/ Killed(t)
    BY <2>1 DEF Same, Begun, Killed, Unsent
  <2>2. CASE Lookup(t) \/ Do(t) \/ Wait(t) \/ Pick(t) \/ Forward(t)
    BY <2>2 DEF Lookup, Do, Wait, Pick, Forward, Unsent
  <2>3. CASE PeerAnswer(t) \/ Load(t) \/ Finish(t) \/ Delete(t) \/ RequestFails(t)
    BY <2>3 DEF PeerAnswer, Load, Finish, Delete, RequestFails, Unsent, CacheTypeOK
  <2> QED
    BY <2>1, <2>2, <2>3, ThreadStep DEF Step
<1>2. ASSUME Unsent(t)', t[2] < MaxHops PROVE pc'[Child(t)] = "idle"
  <2>1. Child(t) \in Threads /\ pc[Child(t)] = "idle" /\ Child(t)[2] # 0
    BY <1>1, <1>2, ThreadFacts DEF Children
  <2>2. ASSUME NEW u \in Threads, ForwardedBy(Child(t), u) PROVE FALSE
    <3>1. u = t
      BY <2>2, ThreadFacts DEF ForwardedBy
    <3> QED
      BY <1>2, <2>2, <3>1 DEF ForwardedBy, Unsent
  <2>3. ~Begun(Child(t)) /\ ~Killed(Child(t))
    BY <2>1, <2>2 DEF Begun, Killed
  <2>4. ~Step(Child(t)) /\ ~RequestFails(Child(t))
    BY <2>1 DEF Step, Lookup, Do, Wait, Pick, Forward, PeerAnswer, Load, Finish, Delete,
                RequestFails
  <2> QED
    BY <2>1, <2>3, <2>4, ThreadStep DEF Same
<1>3. pc'[t] \in {"dial", "remote"} => pc[t] \in {"dial", "remote"} \/ Pick(t)
  <2>1. CASE Same(t) \/ Begun(t) \/ Killed(t)
    BY <2>1 DEF Same, Begun, Killed
  <2>2. CASE Lookup(t) \/ Do(t) \/ Wait(t) \/ Pick(t) \/ Forward(t)
    BY <2>2 DEF Lookup, Do, Wait, Forward, CacheTypeOK
  <2>3. CASE PeerAnswer(t) \/ Load(t) \/ Finish(t) \/ Delete(t) \/ RequestFails(t)
    BY <2>3 DEF PeerAnswer, Load, Finish, Delete, RequestFails, CacheTypeOK
  <2> QED
    BY <2>1, <2>2, <2>3, ThreadStep DEF Step
<1>4. pc'[t] \in {"dial", "remote"} => t[2] < MaxHops
  BY <1>3 DEF Pick, Children, CacheTypeOK
<1>5. ASSUME pc'[t] = "remote"
      PROVE  pc'[Child(t)] # "idle" /\ key'[Child(t)] = Arriving(key'[t])
  <2>1. t[2] < MaxHops /\ Child(t) \in Threads
    BY <1>4, <1>5, ThreadFacts
  <2>2. CASE pc[t] = "remote"
    <3>1. pc[Child(t)] # "idle" /\ key[Child(t)] = Arriving(key[t])
      BY <2>2 DEF Children
    <3>2. pc'[Child(t)] # "idle" /\ key'[Child(t)] = key[Child(t)] /\ key'[t] = key[t]
      BY <2>1, <2>2, <3>1, IdentityStep
    <3> QED
      BY <3>1, <3>2
  <2>3. CASE pc[t] # "remote"
    <3>1. Forward(t)
      <4>1. CASE Same(t) \/ Begun(t) \/ Killed(t)
        BY <1>5, <2>3, <4>1 DEF Same, Begun, Killed
      <4>2. CASE Lookup(t) \/ Do(t) \/ Wait(t) \/ Pick(t)
        BY <1>5, <4>2 DEF Lookup, Do, Wait, Pick, CacheTypeOK
      <4>3. CASE PeerAnswer(t) \/ Load(t) \/ Finish(t) \/ Delete(t) \/ RequestFails(t)
        BY <1>5, <4>3 DEF PeerAnswer, Load, Finish, Delete, RequestFails, CacheTypeOK
      <4> QED
        BY <4>1, <4>2, <4>3, ThreadStep DEF Step
    <3>2. Child(t) # t
      BY ThreadFacts
    <3> QED
      BY <1>5, <2>1, <3>1, <3>2 DEF Forward, CacheTypeOK
  <2> QED
    BY <2>2, <2>3
<1> QED
  BY <1>2, <1>4, <1>5

\* Who waits for a call has the key and the node of its leader.
LEMMA WaitsStep == Structure /\ [Next]_vars => Waits'
<1> SUFFICES ASSUME Structure, CacheTypeOK, CacheTypeOK', Waits, [Next]_vars,
                    NEW t \in Threads, pc'[t] = "wait"
             PROVE  /\ at'[leader'[t]] = at'[t] /\ key'[leader'[t]] = key'[t]
                    /\ pc'[leader'[t]] # "idle"
  BY TypeStep DEF Structure, Waits
<1>1. \/ pc[t] = "wait" /\ leader'[t] = leader[t]
      \/ Do(t)
  <2>1. CASE Same(t) \/ Begun(t) \/ Killed(t)
    BY <2>1 DEF Same, Begun, Killed
  <2>2. CASE Lookup(t) \/ Wait(t) \/ Pick(t) \/ Forward(t)
    BY <2>2, ThreadFacts DEF Lookup, Wait, Pick, Forward, CacheTypeOK
  <2>3. CASE PeerAnswer(t) \/ Load(t) \/ Finish(t) \/ Delete(t) \/ RequestFails(t)
    BY <2>3 DEF PeerAnswer, Load, Finish, Delete, RequestFails, CacheTypeOK
  <2> QED
    BY <2>1, <2>2, <2>3, ThreadStep DEF Step
<1>2. CASE pc[t] = "wait" /\ leader'[t] = leader[t]
  <2>1. PICK l \in Threads : l = leader[t]
    BY DEF CacheTypeOK
  <2>2. at[l] = at[t] /\ key[l] = key[t] /\ pc[l] # "idle"
    BY <1>2, <2>1 DEF Waits
  <2>3. pc'[l] # "idle" /\ at'[l] = at[l] /\ key'[l] = key[l]
    BY <2>2, IdentityStep
  <2>4. at'[t] = at[t] /\ key'[t] = key[t]
    BY <1>2, IdentityStep
  <2> QED
    BY <1>2, <2>1, <2>2, <2>3, <2>4
<1>3. CASE Do(t)
  <2>1. /\ key[t] \in InFlight(at[t]) /\ leader'[t] = flight[at[t]][key[t]]
        /\ at' = at /\ key' = key /\ at[t] \in Nodes
    BY <1>3 DEF Do, CacheTypeOK
  <2>2. PICK l \in Threads : leader'[t] = l /\ Holding(l) /\ at[l] = at[t] /\ key[l] = key[t]
    BY <2>1 DEF Structure, Flights
  <2>3. pc'[l] # "idle"
    BY <2>2, IdentityStep DEF Holding
  <2> QED
    BY <2>1, <2>2, <2>3
<1> QED
  BY <1>1, <1>2, <1>3

\* A thread has a result when its load ended, before it releases those who wait.
LEMMA OutcomesStep == Structure /\ [Next]_vars => Outcomes'
<1> SUFFICES ASSUME Structure, CacheTypeOK, Outcomes, [Next]_vars, NEW t \in Threads
             PROVE  /\ res'[t] # "none" <=> pc'[t] \in {"finish", "delete", "returned"}
                    /\ t \in done' => pc'[t] \in {"delete", "returned"}
                    /\ Holding(t)' \/ pc'[t] \in {"do", "wait"} => key'[t] # NoKey
  BY DEF Structure, Outcomes
<1>1. CASE Same(t) \/ Begun(t) \/ Killed(t)
  BY <1>1 DEF Same, Begun, Killed, SameResult, Outcomes, Holding
<1>2. CASE Lookup(t) \/ Do(t)
  BY <1>2 DEF Lookup, Do, Outcomes, Holding, CacheTypeOK
<1>3. CASE Wait(t)
  <2>1. PICK l \in Threads : l = leader[t]
    BY DEF CacheTypeOK
  <2>2. res'[t] = res[l] /\ res[l] # "none"
    BY <1>3, <2>1 DEF Wait, Outcomes, CacheTypeOK
  <2> QED
    BY <1>3, <2>2 DEF Wait, Outcomes, Holding, CacheTypeOK
<1>4. CASE Pick(t) \/ RequestFails(t)
  BY <1>4 DEF Pick, RequestFails, Outcomes, Holding, CacheTypeOK
<1>5. CASE Forward(t)
  <2>1. pc[t] = "dial" /\ Child(t) # t /\ UNCHANGED <<res, done>>
    BY <1>5, ThreadFacts DEF Forward
  <2>2. pc'[t] \in {"remote", "local"} /\ key'[t] = key[t]
    BY <1>5, <2>1, ThreadFacts DEF Forward, CacheTypeOK
  <2> QED
    BY <2>1, <2>2 DEF Outcomes, Holding
<1>6. CASE PeerAnswer(t) \/ Load(t)
  BY <1>6 DEF PeerAnswer, Load, Outcomes, Holding, CacheTypeOK
<1>7. CASE Finish(t) \/ Delete(t)
  BY <1>7 DEF Finish, Delete, Outcomes, Holding, CacheTypeOK
<1> QED
  BY <1>1, <1>2, <1>3, <1>4, <1>5, <1>6, <1>7, ThreadStep DEF Step

\* A pool gets its ring before its group gets the pool, and keeps it until it
\* crashes, which ends the threads that have consulted it.
LEMMA RingsStep == Structure /\ [Next]_vars => Rings'
<1> SUFFICES ASSUME Structure, CacheTypeOK, Rings, [Next]_vars PROVE Rings'
  BY DEF Structure
<1> USE DEF nodeVars, threadVars
<1>1. ASSUME NEW n \in Nodes, StartCacheServer(n) PROVE Rings'
  <2>1. UNCHANGED <<pc, at, key>>
    BY <1>1 DEF StartCacheServer
  <2>2. CASE peers[n] = "nil"
    <3>1. PICK l \in PeerLists : ring' = [ring EXCEPT ![n] = Add(New, hash, l)]
      BY <1>1, <2>2 DEF StartCacheServer
    <3>2. peers' = [peers EXCEPT ![n] = "torn"]
      BY <1>1, <2>2 DEF StartCacheServer
    <3>3. \A m \in Nodes : ring'[m] = New \/ \E j \in PeerLists : ring'[m] = Add(New, hash, j)
      BY <3>1 DEF Rings, CacheTypeOK
    <3>4. ASSUME NEW t \in Threads, pc'[t] = "dial"
          PROVE  Remote(at[t], key[t])' /\ peers'[at'[t]] # "nil"
      <4>1. Remote(at[t], key[t]) /\ at[t] # n /\ at[t] \in Nodes /\ peers[at[t]] # "nil"
        BY <2>1, <2>2, <3>4 DEF Rings, CacheTypeOK
      <4>2. ring'[at[t]] = ring[at[t]] /\ peers'[at[t]] = peers[at[t]]
        BY <3>1, <3>2, <4>1 DEF CacheTypeOK
      <4> QED
        BY <2>1, <4>1, <4>2 DEF Remote, OwnerOf
    <3> QED
      BY <3>3, <3>4 DEF Rings
  <2>3. CASE peers[n] = "torn"
    <3>1. ring' = ring /\ peers' = [peers EXCEPT ![n] = "set"]
      BY <1>1, <2>3 DEF StartCacheServer
    <3> QED
      BY <2>1, <3>1 DEF Rings, Remote, OwnerOf, CacheTypeOK
  <2> QED
    BY <1>1, <2>2, <2>3 DEF StartCacheServer
<1>2. ASSUME NEW n \in Nodes, Crash(n) PROVE Rings'
  <2>1. /\ ring' = [ring EXCEPT ![n] = New] /\ peers' = [peers EXCEPT ![n] = "nil"]
        /\ UNCHANGED <<at, key>>
    BY <1>2 DEF Crash
  <2>2. ASSUME NEW t \in Threads, pc'[t] = "dial"
        PROVE  Remote(at[t], key[t])' /\ peers'[at'[t]] # "nil"
    <3>1. pc[t] = "dial" /\ at[t] # n
      BY <1>2, <2>2 DEF Crash
    <3>2. Remote(at[t], key[t]) /\ at[t] \in Nodes /\ peers[at[t]] # "nil"
      BY <3>1 DEF Rings, CacheTypeOK
    <3>3. ring'[at[t]] = ring[at[t]] /\ peers'[at[t]] = peers[at[t]]
      BY <2>1, <3>1, <3>2 DEF CacheTypeOK
    <3> QED
      BY <2>1, <3>2, <3>3 DEF Remote, OwnerOf
  <2>3. \A m \in Nodes : ring'[m] = New \/ \E l \in PeerLists : ring'[m] = Add(New, hash, l)
    BY <2>1 DEF Rings, CacheTypeOK
  <2> QED
    BY <2>2, <2>3 DEF Rings
<1>3. ASSUME UNCHANGED <<ring, peers>>,
             \A t \in Threads : pc'[t] = "dial" => \/ pc[t] = "dial"
                                                   \/ Pick(t)
      PROVE  Rings'
  <2>1. ASSUME NEW t \in Threads, pc'[t] = "dial"
        PROVE  Remote(at[t], key[t])' /\ peers'[at'[t]] # "nil"
    <3>1. Remote(at[t], key[t]) /\ peers[at[t]] # "nil" /\ pc[t] # "idle"
      BY <1>3, <2>1 DEF Rings, Pick, CacheTypeOK
    <3>2. at'[t] = at[t] /\ key'[t] = key[t]
      BY <3>1, IdentityStep
    <3> QED
      BY <1>3, <3>1, <3>2 DEF Remote, OwnerOf
  <2> QED
    BY <1>3, <2>1 DEF Rings
<1>4. ASSUME NEW t \in Threads, pc'[t] = "dial", \A n \in Nodes : ~Crash(n)
      PROVE  pc[t] = "dial" \/ Pick(t)
  <2>1. CASE Same(t) \/ Begun(t) \/ Killed(t)
    BY <1>4, <2>1 DEF Same, Begun, Killed
  <2>2. CASE Lookup(t) \/ Do(t) \/ Wait(t) \/ Forward(t)
    BY <1>4, <2>2, ThreadFacts DEF Lookup, Do, Wait, Forward, CacheTypeOK
  <2>3. CASE PeerAnswer(t) \/ Load(t) \/ Finish(t) \/ Delete(t) \/ RequestFails(t)
    BY <1>4, <2>3 DEF PeerAnswer, Load, Finish, Delete, RequestFails, CacheTypeOK
  <2> QED
    BY <2>1, <2>2, <2>3, ThreadStep DEF Step
<1>5. ASSUME \A n \in Nodes : ~Crash(n) /\ ~StartCacheServer(n)
      PROVE  UNCHANGED <<ring, peers>>
  <2>1. ASSUME NEW g \in Gets, NEW k \in KeysOf[g], Start(g, k) PROVE UNCHANGED <<ring, peers>>
    BY <2>1 DEF Start
  <2>2. ASSUME NEW t \in Threads, Step(t) \/ RequestFails(t) PROVE UNCHANGED <<ring, peers>>
    BY <2>2 DEF Step, Lookup, Do, Wait, Pick, Forward, PeerAnswer, Load, Finish, Delete,
                RequestFails
  <2>3. CASE UNCHANGED vars
    BY <2>3 DEF vars
  <2> QED
    BY <1>5, <2>1, <2>2, <2>3 DEF Next
<1> QED
  BY <1>1, <1>2, <1>3, <1>4, <1>5

\* Every reachable state has the structure.
LEMMA StructureInvariance == Spec => []Structure
<1>1. Init => Structure
  <2> SUFFICES ASSUME Init PROVE Structure
    OBVIOUS
  <2> USE DEF Init
  <2>1. at = [t \in Threads |-> NodeOf[t[1]]] /\ at \in [Threads -> Nodes]
    BY ThreadFacts, CacheAssumption
  <2>2. CacheTypeOK
    BY <2>1 DEF CacheTypeOK
  <2>3. \A t \in Threads : pc[t] = "idle"
    OBVIOUS
  <2>4. \A n \in Nodes : InFlight(n) = {}
    BY DEF InFlight
  <2>5. Flights
    BY <2>3, <2>4 DEF Flights, Holding
  <2>6. Children
    BY <2>3, ThreadFacts DEF Children
  <2>7. Waits /\ Outcomes
    BY <2>3 DEF Waits, Outcomes, Holding
  <2>8. Rings
    BY <2>3 DEF Rings
  <2> QED
    BY <2>2, <2>5, <2>6, <2>7, <2>8 DEF Structure
<1>2. Structure /\ [Next]_vars => Structure'
  BY TypeStep, FlightsStep, ChildrenStep, WaitsStep, OutcomesStep, RingsStep DEF Structure
<1> QED
  BY <1>1, <1>2, PTL DEF Spec

\* At any time one goroutine per node and key runs the load function, and it is the
\* one that the others find in the map, whatever panics and whoever crashes.
THEOREM LoadsAreSingle == Spec => []SingleFlight
<1>1. Structure => SingleFlight
  <2> SUFFICES ASSUME Flights, NEW t \in Threads, NEW u \in Threads, Loading(t)
               PROVE  /\ key[t] \in InFlight(at[t]) /\ flight[at[t]][key[t]] = t
                      /\ Loading(u) /\ at[u] = at[t] /\ key[u] = key[t] => u = t
    BY DEF Structure, SingleFlight
  <2> QED
    BY DEF Flights, Loading, Holding
<1> QED
  BY <1>1, StructureInvariance, PTL

-----------------------------------------------------------------------------
(* The values.                                                             *)

\* A bounded set of numbers has a last one.
LEMMA LastOne ==
    ASSUME NEW n \in Nat, NEW F \in SUBSET (0 .. n)
    PROVE  \E i \in 0 .. n : (i \in F \/ i = 0) /\ \A j \in i + 1 .. n : j \notin F
<1> DEFINE T == {n - i : i \in F \cup {0}}
<1>1. T \subseteq Nat /\ n \in T
  OBVIOUS
<1>2. PICK x \in T : \A y \in T : ~(<<y, x>> \in OpToRel(<, Nat))
  BY <1>1, NatLessThanWellFounded, WFMin
<1>3. \A y \in T : ~(y < x)
  BY <1>1, <1>2 DEF OpToRel
<1>4. PICK i \in F \cup {0} : x = n - i
  OBVIOUS
<1>5. ASSUME NEW j \in i + 1 .. n, j \in F PROVE FALSE
  <2>1. n - j \in T
    BY <1>5
  <2>2. n - j < x
    BY <1>4, <1>5
  <2> QED
    BY <1>3, <2>1, <2>2
<1> QED
  BY <1>4, <1>5

\* The loop of lru.Add keeps a part of the list.
LEMMA EvictedKeeps ==
    ASSUME NEW S, NEW c, c.ll \in Seq(S)
    PROVE  "ll" \in DOMAIN Evicted(c) /\ Evicted(c).ll \in Seq(S)
<1> DEFINE tail(m) == Bytes(SubSeq(c.ll, m + 1, Len(c.ll)))
           fits(m) == Capacity = 0 \/ c.nbytes - tail(m) <= Capacity
           Stops(i) == /\ fits(i) \/ i = 0
                       /\ \A j \in i + 1 .. Len(c.ll) : ~fits(j)
           stop == CHOOSE i \in 0 .. Len(c.ll) : Stops(i)
<1>1. Evicted(c) = [ll |-> SubSeq(c.ll, 1, stop), nbytes |-> c.nbytes - tail(stop)]
  BY DEF Evicted
<1>2. Len(c.ll) \in Nat
  BY LenProperties
<1>3. \E i \in 0 .. Len(c.ll) : Stops(i)
  <2> DEFINE F == {i \in 0 .. Len(c.ll) : fits(i)}
  <2> HIDE DEF tail, fits
  <2>1. PICK i \in 0 .. Len(c.ll) : /\ i \in F \/ i = 0
                                    /\ \A j \in i + 1 .. Len(c.ll) : j \notin F
    BY <1>2, LastOne
  <2>2. \A j \in i + 1 .. Len(c.ll) : j \in 0 .. Len(c.ll)
    BY <1>2, <2>1
  <2> QED
    BY <2>1, <2>2
<1> HIDE DEF Stops
<1>4. stop \in 0 .. Len(c.ll)
  BY <1>3
<1> HIDE DEF stop
<1>5. SubSeq(c.ll, 1, stop) \in Seq(S)
  <2>1. \A i \in 1 .. stop : c.ll[i] \in S
    BY <1>2, <1>4, ElementOfSeq
  <2> QED
    BY <1>2, <1>4, <2>1, SubSeqProperties
<1> QED
  BY <1>1, <1>5

\* The entry that is found is the key's, and the list without it a part of the list.
LEMMA FoundAndLeft ==
    ASSUME NEW S, NEW c, c.ll \in Seq(S), NEW k
    PROVE  /\ Cached(c, k) => Find(c, k) \in S /\ Find(c, k).key = k
           /\ Without(c, k) \in Seq(S)
<1>1. Len(c.ll) \in Nat /\ \A i \in 1 .. Len(c.ll) : c.ll[i] \in S
  BY LenProperties, ElementOfSeq
<1>2. ASSUME Cached(c, k)
      PROVE  Place(c.ll, k) \in 1 .. Len(c.ll) /\ c.ll[Place(c.ll, k)].key = k
  BY <1>2 DEF Cached, Place
<1>3. ASSUME Cached(c, k) PROVE RemoveAt(c.ll, Place(c.ll, k)) \in Seq(S)
  <2>1. PICK i \in 1 .. Len(c.ll) : i = Place(c.ll, k)
    BY <1>2, <1>3
  <2>2. \A j \in 1 .. i - 1 : c.ll[j] \in S
    BY <1>1
  <2>3. \A j \in i + 1 .. Len(c.ll) : c.ll[j] \in S
    BY <1>1
  <2>4. SubSeq(c.ll, 1, i - 1) \in Seq(S) /\ SubSeq(c.ll, i + 1, Len(c.ll)) \in Seq(S)
    BY <1>1, <2>2, <2>3, SubSeqProperties
  <2> QED
    BY <2>1, <2>4, ConcatProperties DEF RemoveAt
<1> QED
  BY <1>1, <1>2, <1>3 DEF Find, Without

\* lru.Add of a right entry keeps the entries right.
LEMMA AddedIsRight ==
    ASSUME NEW c, c.ll \in Seq(RightEntries), NEW k \in Keys, NEW b \in Sizes
    PROVE  "ll" \in DOMAIN Added(c, k, k, b) /\ Added(c, k, k, b).ll \in Seq(RightEntries)
<1> DEFINE e == [key |-> k, of |-> k, bytes |-> b]
           more == c.nbytes + b - (IF Cached(c, k) THEN Find(c, k).bytes ELSE 0)
           d == [ll |-> <<e>> \o Without(c, k), nbytes |-> more]
<1>1. Added(c, k, k, b) = Evicted(d)
  BY DEF Added
<1>2. e \in RightEntries
  BY DEF RightEntries
<1>3. Without(c, k) \in Seq(RightEntries)
  BY FoundAndLeft
<1> HIDE DEF e, more
<1>4. <<e>> \o Without(c, k) \in Seq(RightEntries)
  BY <1>2, <1>3, ConcatProperties
<1>5. d.ll \in Seq(RightEntries)
  BY <1>4
<1> HIDE DEF d
<1> QED
  BY <1>1, <1>5, EvictedKeeps

\* lru.Get finds the right entry and only moves it.
LEMMA TouchedIsRight ==
    ASSUME NEW c, "ll" \in DOMAIN c, c.ll \in Seq(RightEntries), NEW k, Cached(c, k)
    PROVE  /\ "ll" \in DOMAIN Touched(c, k) /\ Touched(c, k).ll \in Seq(RightEntries)
           /\ Find(c, k).of = k
<1>1. /\ Find(c, k) \in RightEntries /\ Find(c, k).key = k
      /\ Without(c, k) \in Seq(RightEntries)
  BY FoundAndLeft
<1>2. <<Find(c, k)>> \o Without(c, k) \in Seq(RightEntries)
  BY <1>1, ConcatProperties
<1>3. Touched(c, k) = [c EXCEPT !.ll = <<Find(c, k)>> \o Without(c, k)]
  BY DEF Touched
<1>4. "ll" \in DOMAIN Touched(c, k) /\ Touched(c, k).ll = <<Find(c, k)>> \o Without(c, k)
  BY <1>3
<1>5. Find(c, k).of = k
  BY <1>1 DEF RightEntries
<1> QED
  BY <1>2, <1>4, <1>5

\* A key without a space arrives as it is.
LEMMA KeysSurvive ==
    ASSUME NoSpaces, NEW g \in Gets, NEW k \in KeysOf[g] \cup {NoKey}
    PROVE  Arriving(k) = k
<1>1. k \in Seq(STRING) /\ \A i \in DOMAIN k : k[i] # " "
  <2>1. CASE k = NoKey
    <3>1. k \in Seq(STRING) /\ Len(k) = 0
      BY <2>1, EmptySeq DEF NoKey
    <3>2. DOMAIN k = {}
      BY <3>1, LenProperties
    <3> QED
      BY <3>1, <3>2
  <2>2. CASE k \in KeysOf[g]
    BY <2>2, CacheAssumption DEF NoSpaces
  <2> QED
    BY <2>1, <2>2
<1>2. \A i \in DOMAIN k : PathUnescape(QueryEscape(k[i])) = k[i]
  BY <1>1 DEF PathUnescape, QueryEscape
<1>3. Arriving(k) = [i \in DOMAIN k |-> k[i]]
  BY <1>2 DEF Arriving
<1>4. k = [i \in 1 .. Len(k) |-> k[i]] /\ DOMAIN k = 1 .. Len(k)
  BY <1>1, LenProperties
<1> QED
  BY <1>3, <1>4

\* An idle thread stays as it is or is begun.
LEMMA IdleStep ==
    ASSUME Structure, [Next]_vars, NEW u \in Threads, pc[u] = "idle"
    PROVE  Same(u) \/ Begun(u)
<1>1. ~Killed(u)
  BY DEF Killed
<1>2. ~Step(u) /\ ~RequestFails(u)
  BY DEF Step, Lookup, Do, Wait, Pick, Forward, PeerAnswer, Load, Finish, Delete,
         RequestFails
<1> QED
  BY <1>1, <1>2, ThreadStep

\* A request to a peer is for the very key, and comes from a thread that dialled.
LEMMA ForwardedKey ==
    ASSUME Structure, Values, NoSpaces, NEW u \in Threads, NEW t \in Threads,
           ForwardedBy(u, t)
    PROVE  /\ u[1] = t[1] /\ u[2] = t[2] + 1 /\ key'[u] = key[t] /\ key[t] \in Keys
           /\ at[t] \in Nodes /\ Remote(at[t], key[t]) /\ at'[u] = OwnerOf(at[t], key[t])
<1>1. pc[t] = "dial" /\ u = Child(t) /\ key'[u] = Arriving(key[t])
      /\ at'[u] = OwnerOf(at[t], key[t])
  BY DEF ForwardedBy
<1>2. u[1] = t[1] /\ u[2] = t[2] + 1 /\ t[1] \in Gets
  BY <1>1, ThreadFacts
<1>3. Arriving(key[t]) = key[t]
  BY <1>2, KeysSurvive DEF Values
<1>4. key[t] \in Keys /\ at[t] \in Nodes /\ Remote(at[t], key[t])
  BY <1>1 DEF Structure, CacheTypeOK, Outcomes, Holding, Rings
<1> QED
  BY <1>1, <1>2, <1>3, <1>4

\* At the start there are no values.
LEMMA ValuesInit == Init => Values
<1> SUFFICES ASSUME Init PROVE Values
  OBVIOUS
<1>1. \A t \in Threads : key[t] = NoKey /\ res[t] = "none"
  BY DEF Init
<1>2. ASSUME NEW n \in Nodes
      PROVE  "ll" \in DOMAIN mainCache[n] /\ mainCache[n].ll \in Seq(RightEntries)
  <2>1. mainCache[n] = [ll |-> << >>, nbytes |-> 0]
    BY DEF Init, Fresh
  <2> QED
    BY <2>1, EmptySeq
<1> QED
  BY <1>1, <1>2 DEF Values

\* Every value stays that of its key.
LEMMA ValuesStep == NoSpaces /\ Structure /\ Values /\ [Next]_vars => Values'
<1> SUFFICES ASSUME NoSpaces, Structure, CacheTypeOK, Values, [Next]_vars PROVE Values'
  BY DEF Structure
<1> USE DEF nodeVars, threadVars
<1>1. ASSUME NEW u \in Threads PROVE key'[u] \in KeysOf[u[1]] \cup {NoKey}
  <2>1. CASE pc[u] # "idle" \/ Same(u)
    BY <2>1, IdentityStep DEF Same, Values
  <2>2. ASSUME NEW t \in Threads, ForwardedBy(u, t)
        PROVE  key'[u] \in KeysOf[u[1]] \cup {NoKey}
    BY <2>2, ForwardedKey DEF Values
  <2>3. CASE Begun(u)
    BY <2>2, <2>3 DEF Begun
  <2> QED
    BY <2>1, <2>3, IdleStep
<1>2. ASSUME NEW u \in Threads, res'[u] = "ok" PROVE val'[u] = key'[u]
  <2>1. CASE Same(u)
    BY <1>2, <2>1 DEF Same, SameResult, Values
  <2>2. CASE Begun(u) \/ Killed(u)
    BY <1>2, <2>2 DEF Begun, Killed, SameResult, Structure, Outcomes
  <2>3. CASE Lookup(u)
    <3>1. PICK n \in Nodes : n = at[u]
      BY DEF CacheTypeOK
    <3>2. pc[u] = "lookup" /\ res[u] = "none" /\ key' = key
      BY <2>3 DEF Lookup, Structure, Outcomes
    <3>3. /\ Cached(mainCache[n], key[u])
          /\ val'[u] = Find(mainCache[n], key[u]).of
      BY <1>2, <2>3, <3>1, <3>2 DEF Lookup, CacheTypeOK
    <3>4. Find(mainCache[n], key[u]).of = key[u]
      BY <3>3, TouchedIsRight DEF Values
    <3> QED
      BY <3>2, <3>3, <3>4
  <2>4. CASE Do(u) \/ Pick(u) \/ Forward(u) \/ RequestFails(u) \/ Finish(u) \/ Delete(u)
    <3>1. pc[u] # "idle" /\ res' = res /\ val' = val
      BY <2>4 DEF Do, Pick, Forward, RequestFails, Finish, Delete
    <3>2. key'[u] = key[u]
      BY <3>1, IdentityStep
    <3> QED
      BY <1>2, <3>1, <3>2 DEF Values
  <2>5. CASE Wait(u)
    <3>1. PICK l \in Threads : l = leader[u]
      BY DEF CacheTypeOK
    <3>2. res'[u] = res[l] /\ val'[u] = val[l] /\ key' = key /\ key[l] = key[u]
      BY <2>5, <3>1 DEF Wait, CacheTypeOK, Structure, Waits
    <3> QED
      BY <1>2, <3>2 DEF Values
  <2>6. CASE PeerAnswer(u)
    <3>1. pc[u] = "remote" /\ key' = key /\ res[u] = "none"
      BY <2>6 DEF PeerAnswer, Structure, Outcomes
    <3>2. u[2] < MaxHops /\ key[Child(u)] = Arriving(key[u])
      BY <3>1 DEF Structure, Children
    <3>3. Child(u) \in Threads /\ u[1] \in Gets
      BY <3>2, ThreadFacts
    <3>4. Arriving(key[u]) = key[u]
      BY <3>3, KeysSurvive DEF Values
    <3>5. res[Child(u)] = "ok" /\ val'[u] = val[Child(u)]
      BY <1>2, <2>6, <3>1 DEF PeerAnswer, CacheTypeOK
    <3> QED
      BY <3>1, <3>2, <3>3, <3>4, <3>5 DEF Values
  <2>7. CASE Load(u)
    <3>1. pc[u] = "local" /\ key' = key /\ res[u] = "none"
      BY <2>7 DEF Load, Structure, Outcomes
    <3> QED
      BY <1>2, <2>7, <3>1 DEF Load, CacheTypeOK
  <2> QED
    BY <2>1, <2>2, <2>3, <2>4, <2>5, <2>6, <2>7, ThreadStep DEF Step
<1>3. ASSUME NEW n \in Nodes
      PROVE  "ll" \in DOMAIN mainCache'[n] /\ mainCache'[n].ll \in Seq(RightEntries)
  <2>0. "ll" \in DOMAIN mainCache[n] /\ mainCache[n].ll \in Seq(RightEntries)
    BY DEF Values
  <2>1. CASE mainCache'[n] = mainCache[n]
    BY <2>0, <2>1
  <2>2. ASSUME NEW t \in Threads, Lookup(t), mainCache'[n] # mainCache[n]
        PROVE  "ll" \in DOMAIN mainCache'[n] /\ mainCache'[n].ll \in Seq(RightEntries)
    <3>1. Cached(mainCache[at[t]], key[t])
          /\ mainCache' = [mainCache EXCEPT ![at[t]] = Touched(@, key[t])]
      BY <2>2 DEF Lookup
    <3>2. at[t] = n /\ mainCache'[n] = Touched(mainCache[n], key[t])
      BY <2>2, <3>1 DEF CacheTypeOK
    <3> QED
      BY <2>0, <3>1, <3>2, TouchedIsRight
  <2>3. ASSUME NEW t \in Threads, Load(t), mainCache'[n] # mainCache[n]
        PROVE  "ll" \in DOMAIN mainCache'[n] /\ mainCache'[n].ll \in Seq(RightEntries)
    <3>1. PICK b \in Sizes :
             mainCache' = [mainCache EXCEPT ![at[t]] = Added(@, key[t], key[t], b)]
      BY <2>3 DEF Load
    <3>2. at[t] = n /\ mainCache'[n] = Added(mainCache[n], key[t], key[t], b)
      BY <2>3, <3>1 DEF CacheTypeOK
    <3>3. key[t] \in Keys
      BY <2>3 DEF Load, CacheTypeOK, Structure, Outcomes, Holding
    <3> QED
      BY <2>0, <3>2, <3>3, AddedIsRight
  <2>4. ASSUME NEW m \in Nodes, Crash(m), mainCache'[n] # mainCache[n]
        PROVE  "ll" \in DOMAIN mainCache'[n] /\ mainCache'[n].ll \in Seq(RightEntries)
    <3>1. mainCache'[n] = [ll |-> << >>, nbytes |-> 0]
      BY <2>4 DEF Crash, CacheTypeOK, Fresh
    <3> QED
      BY <3>1, EmptySeq
  <2>5. ASSUME NEW t \in Threads, Do(t) \/ Wait(t) \/ Pick(t) \/ Forward(t) \/ PeerAnswer(t)
                                  \/ RequestFails(t) \/ Finish(t) \/ Delete(t)
        PROVE  mainCache' = mainCache
    BY <2>5 DEF Do, Wait, Pick, Forward, PeerAnswer, RequestFails, Finish, Delete
  <2>6. ASSUME NEW m \in Nodes, StartCacheServer(m) PROVE mainCache' = mainCache
    BY <2>6 DEF StartCacheServer
  <2>7. ASSUME NEW g \in Gets, NEW k \in KeysOf[g], Start(g, k) PROVE mainCache' = mainCache
    BY <2>7 DEF Start
  <2>8. CASE UNCHANGED vars
    BY <2>1, <2>8 DEF vars
  <2> QED
    BY <2>1, <2>2, <2>3, <2>4, <2>5, <2>6, <2>7, <2>8 DEF Next, Step
<1> QED
  BY <1>1, <1>2, <1>3 DEF Values

\* What is asked for is what is returned: no cache, no shared call and no peer gives
\* a Get the value of another key, as long as the keys have no spaces (with one they
\* do: run cache_key_escaping).
THEOREM ValuesAreRight == ASSUME NoSpaces PROVE Spec => []RightValue
<1>1. Init => Values
  BY ValuesInit
<1>2. Structure /\ Values /\ [Next]_vars => Values'
  BY ValuesStep
<1>3. Structure /\ Values => RightValue
  BY ThreadFacts DEF Structure, Values, Outcomes, RightValue
<1> QED
  BY <1>1, <1>2, <1>3, StructureInvariance, PTL DEF Spec

-----------------------------------------------------------------------------
(* The owners.                                                             *)

\* A forwarded request is at its owner.
LEMMA OwnedStep ==
    NoSpaces /\ RingsAlike /\ Structure /\ Values /\ Owned /\ [Next]_vars => Owned'
<1> SUFFICES ASSUME NoSpaces, RingsAlike, Structure, Values, Owned, [Next]_vars PROVE Owned'
  OBVIOUS
<1>1. ASSUME NEW u \in Threads, NEW t \in Threads, ForwardedBy(u, t)
      PROVE  u[2] = 1 /\ \A l \in PeerLists : OwnerIn(l, key'[u]) = at'[u]
  <2>1. /\ u[2] = t[2] + 1 /\ key'[u] = key[t] /\ key[t] \in Keys /\ at[t] \in Nodes
        /\ Remote(at[t], key[t]) /\ at'[u] = OwnerOf(at[t], key[t])
    BY <1>1, ForwardedKey
  <2>2. PICK m \in PeerLists : OwnerOf(at[t], key[t]) = OwnerIn(m, key[t])
    BY <2>1, OwnersAreNodes DEF Structure
  <2>3. \A l \in PeerLists : OwnerIn(l, key[t]) = OwnerIn(m, key[t])
    BY <2>1 DEF RingsAlike
  <2>4. OwnerIn(m, key[t]) # at[t]
    BY <2>1, <2>2 DEF Remote
  <2>5. t[2] \in 0 .. MaxHops /\ pc[t] # "idle"
    BY <1>1, ThreadFacts DEF ForwardedBy
  <2>6. ~(t[2] > 0)
    BY <2>4, <2>5 DEF Owned
  <2> QED
    BY <2>1, <2>2, <2>3, <2>5, <2>6, CacheAssumption
<1>2. ASSUME NEW u \in Threads, u[2] > 0, pc'[u] # "idle"
      PROVE  \A l \in PeerLists : OwnerIn(l, key'[u]) = at'[u]
  <2>1. CASE pc[u] # "idle"
    BY <1>2, <2>1, IdentityStep DEF Owned
  <2>2. CASE pc[u] = "idle"
    <3>1. Begun(u)
      BY <1>2, <2>2, IdleStep DEF Same
    <3> QED
      BY <1>1, <1>2, <3>1 DEF Begun
  <2> QED
    BY <2>1, <2>2
<1>3. ASSUME NEW u \in Threads, u[2] > 1 PROVE pc'[u] = "idle"
  <2>1. pc[u] = "idle"
    BY <1>3 DEF Owned, ForwardedOnce
  <2>2. ~Begun(u)
    BY <1>1, <1>3 DEF Begun
  <2> QED
    BY <2>1, <2>2, IdleStep DEF Same
<1> QED
  BY <1>2, <1>3 DEF Owned, ForwardedOnce

\* When the rings agree a request is forwarded once, also while pools are being set
\* and nodes crash.
THEOREM ForwardingEnds == ASSUME NoSpaces, RingsAlike PROVE Spec => []ForwardedOnce
<1>1. Init => Values /\ Owned
  <2>1. Init => \A t \in Threads : pc[t] = "idle"
    BY DEF Init
  <2> QED
    BY <2>1, ValuesInit DEF Owned, ForwardedOnce
<1>2. Structure /\ Values /\ Owned /\ [Next]_vars => (Values /\ Owned)'
  BY ValuesStep, OwnedStep
<1>3. Owned => ForwardedOnce
  BY DEF Owned
<1> QED
  BY <1>1, <1>2, <1>3, StructureInvariance, PTL DEF Spec

-----------------------------------------------------------------------------
(* The bytes.  Bytes is a recursive function; what is known of it follows  *)
(* from the least place where it could fail.                               *)

Entries == [key : Keys, of : Keys, bytes : Nat]

\* f has the bytes of the first entries of ll, for every number up to n.
Sums(n, ll, f) ==
    /\ f \in [0 .. n -> Nat] /\ f[0] = 0
    /\ \A i \in 1 .. n : f[i] = f[i - 1] + ll[i].bytes

\* A set of natural numbers that is not empty has a least one.
LEMMA LeastOne ==
    ASSUME NEW T \in SUBSET Nat, T # {}
    PROVE  \E x \in T : \A y \in T : ~(y < x)
<1>1. PICK x \in T : \A y \in T : ~(<<y, x>> \in OpToRel(<, Nat))
  BY NatLessThanWellFounded, WFMin
<1> QED
  BY <1>1 DEF OpToRel

\* What sequences are made of.
LEMMA EntriesOf ==
    ASSUME NEW S, NEW ll \in Seq(S)
    PROVE  Len(ll) \in Nat /\ \A i \in 1 .. Len(ll) : ll[i] \in S
BY LenProperties, ElementOfSeq

\* There are such sums: otherwise take the fewest entries that have none.
LEMMA SumsExist ==
    ASSUME NEW ll \in Seq(Entries)
    PROVE  \E f : Sums(Len(ll), ll, f)
<1> DEFINE n == Len(ll)
           T == {m \in 0 .. n : ~\E f : Sums(m, ll, f)}
<1>0. n \in Nat /\ \A i \in 1 .. n : ll[i].bytes \in Nat
  <2>1. n \in Nat /\ \A i \in 1 .. n : ll[i] \in Entries
    BY EntriesOf
  <2> QED
    BY <2>1 DEF Entries
<1> HIDE DEF n
<1>1. ASSUME T # {} PROVE FALSE
  <2>1. PICK m \in T : \A y \in T : ~(y < m)
    <3>1. T \in SUBSET Nat
      BY <1>0
    <3> HIDE DEF T
    <3> QED
      BY <1>1, <3>1, LeastOne
  <2>2. m \in 0 .. n /\ ~\E f : Sums(m, ll, f)
    BY <2>1
  <2>3. CASE m = 0
    <3>1. Sums(0, ll, [i \in 0 .. 0 |-> 0])
      BY DEF Sums
    <3> QED
      BY <2>2, <2>3, <3>1
  <2>4. CASE m # 0
    <3>1. m - 1 \in 0 .. n /\ m - 1 < m /\ m \in 1 .. n
      BY <1>0, <2>2, <2>4
    <3>2. PICK f : Sums(m - 1, ll, f)
      <4>1. m - 1 \notin T
        BY <2>1, <3>1
      <4> QED
        BY <3>1, <4>1
    <3> DEFINE g == [i \in 0 .. m |-> IF i = m THEN f[m - 1] + ll[m].bytes ELSE f[i]]
    <3>3. /\ f \in [0 .. m - 1 -> Nat] /\ f[0] = 0
          /\ \A i \in 1 .. m - 1 : f[i] = f[i - 1] + ll[i].bytes
      BY <3>2 DEF Sums
    <3>4. f[m - 1] + ll[m].bytes \in Nat
      BY <1>0, <3>1, <3>3
    <3>5. g \in [0 .. m -> Nat]
      <4>1. ASSUME NEW i \in 0 .. m
            PROVE  (IF i = m THEN f[m - 1] + ll[m].bytes ELSE f[i]) \in Nat
        <5>1. i # m => i \in 0 .. m - 1
          BY <3>1
        <5> QED
          BY <3>3, <3>4, <5>1
      <4> QED
        BY <4>1
    <3>6. g[0] = 0
      BY <2>4, <3>1, <3>3
    <3>7. ASSUME NEW i \in 1 .. m PROVE g[i] = g[i - 1] + ll[i].bytes
      <4>1. CASE i = m
        <5>1. i - 1 \in 0 .. m /\ i - 1 # m
          BY <3>1
        <5> QED
          BY <4>1, <5>1
      <4>2. CASE i # m
        <5>1. i \in 1 .. m - 1 /\ i - 1 \in 0 .. m /\ i - 1 # m /\ i \in 0 .. m
          BY <3>1, <4>2
        <5> QED
          BY <3>3, <4>2, <5>1
      <4> QED
        BY <4>1, <4>2
    <3>8. Sums(m, ll, g)
      BY <3>5, <3>6, <3>7 DEF Sums
    <3> QED
      BY <2>2, <3>8
  <2> QED
    BY <2>3, <2>4
<1>2. n \in 0 .. n
  BY <1>0
<1> QED
  BY <1>1, <1>2 DEF n

\* They are the bytes: otherwise take the first place where the two differ.
LEMMA BytesAreSums ==
    ASSUME NEW ll \in Seq(Entries), NEW f, Sums(Len(ll), ll, f)
    PROVE  Bytes(ll) = f[Len(ll)]
<1> DEFINE n == Len(ll)
           Eq(g) == g = [i \in 0 .. n |-> IF i = 0 THEN 0 ELSE g[i - 1] + ll[i].bytes]
           h == CHOOSE g : Eq(g)
           T == {m \in 0 .. n : f[m] # h[m]}
<1>0. n \in Nat
  BY EntriesOf
<1>1. Bytes(ll) = h[n]
  BY DEF Bytes
<1>2. Sums(n, ll, f)
  OBVIOUS
<1> HIDE DEF n
<1>3. Eq(f)
  BY <1>0, <1>2 DEF Sums
<1>4. Eq(h)
  <2> HIDE DEF Eq
  <2> QED
    BY <1>3
<1> HIDE DEF h
<1>5. h[0] = 0 /\ \A i \in 1 .. n : h[i] = h[i - 1] + ll[i].bytes
  <2> DEFINE v(i) == IF i = 0 THEN 0 ELSE h[i - 1] + ll[i].bytes
  <2>1. h = [i \in 0 .. n |-> v(i)]
    BY <1>4
  <2> HIDE DEF v
  <2>2. \A i \in 0 .. n : h[i] = v(i)
    BY <2>1
  <2>3. v(0) = 0 /\ \A i \in 1 .. n : v(i) = h[i - 1] + ll[i].bytes
    BY <1>0 DEF v
  <2> QED
    BY <1>0, <2>2, <2>3
<1>6. ASSUME T # {} PROVE FALSE
  <2>1. PICK m \in T : \A y \in T : ~(y < m)
    <3>1. T \in SUBSET Nat
      BY <1>0
    <3> HIDE DEF T
    <3> QED
      BY <1>6, <3>1, LeastOne
  <2>2. m \in 0 .. n /\ f[m] # h[m]
    BY <2>1
  <2>3. m # 0
    BY <1>2, <1>5, <2>2 DEF Sums
  <2>4. m \in 1 .. n /\ m - 1 \in 0 .. n /\ m - 1 < m
    BY <1>0, <2>2, <2>3
  <2>5. f[m - 1] = h[m - 1]
    BY <2>1, <2>4
  <2>6. f[m] = f[m - 1] + ll[m].bytes /\ h[m] = h[m - 1] + ll[m].bytes
    BY <1>2, <1>5, <2>4 DEF Sums
  <2> QED
    BY <2>2, <2>5, <2>6
<1>7. n \in 0 .. n
  BY <1>0
<1> QED
  BY <1>1, <1>6, <1>7 DEF n

\* A list and its sums, up to any place and from it on.
LEMMA BytesOfParts ==
    ASSUME NEW ll \in Seq(Entries), NEW m \in 0 .. Len(ll)
    PROVE  /\ Bytes(ll) \in Nat /\ Bytes(<< >>) = 0
           /\ SubSeq(ll, 1, m) \in Seq(Entries)
           /\ Bytes(SubSeq(ll, 1, m)) = Bytes(ll) - Bytes(SubSeq(ll, m + 1, Len(ll)))
           /\ Bytes(SubSeq(ll, 1, m)) \in Nat
<1> DEFINE n == Len(ll)
           front == SubSeq(ll, 1, m)
           back == SubSeq(ll, m + 1, n)
<1>1. n \in Nat /\ \A i \in 1 .. n : ll[i] \in Entries
  BY EntriesOf
<1>2. PICK f : Sums(n, ll, f)
  BY SumsExist
<1>3. /\ f \in [0 .. n -> Nat] /\ f[0] = 0
      /\ \A i \in 1 .. n : f[i] = f[i - 1] + ll[i].bytes
  BY <1>2 DEF Sums
<1>4. Bytes(ll) = f[n]
  BY <1>2, BytesAreSums
<1>5. /\ front \in Seq(Entries) /\ Len(front) = m
      /\ \A i \in 1 .. m : front[i] = ll[i]
  <2>1. \A i \in 1 .. m : ll[i] \in Entries
    BY <1>1
  <2> QED
    BY <1>1, <2>1, SubSeqProperties
<1>6. /\ back \in Seq(Entries) /\ Len(back) = n - m
      /\ \A i \in 1 .. n - m : back[i] = ll[m + i]
  <2>1. \A i \in m + 1 .. n : ll[i] \in Entries
    BY <1>1
  <2> QED
    BY <1>1, <2>1, SubSeqProperties
<1> HIDE DEF n, front, back
<1>7. Bytes(front) = f[m]
  <2> DEFINE g == [i \in 0 .. m |-> f[i]]
  <2>1. g \in [0 .. m -> Nat] /\ g[0] = 0
    BY <1>1, <1>3 DEF n
  <2>2. ASSUME NEW i \in 1 .. m PROVE g[i] = g[i - 1] + front[i].bytes
    <3>1. i \in 1 .. n /\ i \in 0 .. m /\ i - 1 \in 0 .. m
      BY <1>1 DEF n
    <3>2. g[i] = f[i] /\ g[i - 1] = f[i - 1] /\ front[i] = ll[i]
      BY <1>5, <3>1
    <3> QED
      BY <1>3, <3>1, <3>2
  <2>3. g[m] = f[m]
    BY <1>1 DEF n
  <2> HIDE DEF g
  <2>4. Sums(Len(front), front, g)
    BY <1>5, <2>1, <2>2 DEF Sums
  <2> QED
    BY <1>5, <2>3, <2>4, BytesAreSums
<1>8. /\ \A i \in 0 .. n - m : m + i \in 0 .. n /\ f[m + i] \in Nat
      /\ \A i \in 1 .. n - m : m + i \in 1 .. n /\ m + (i - 1) = m + i - 1
      /\ m \in Nat /\ f[m] \in Nat /\ n - m \in Nat
  <2>1. m \in 0 .. n
    BY DEF n
  <2>2. /\ \A i \in 0 .. n - m : m + i \in 0 .. n
        /\ \A i \in 1 .. n - m : m + i \in 1 .. n /\ m + (i - 1) = m + i - 1
        /\ m \in Nat /\ n - m \in Nat
    BY <1>1, <2>1
  <2> QED
    BY <1>3, <2>1, <2>2
<1>9. Bytes(back) = f[n] - f[m]
  <2>0. PICK f2 : Sums(Len(back), back, f2)
    BY <1>6, SumsExist
  <2>1. /\ f2 \in [0 .. n - m -> Nat] /\ f2[0] = 0
        /\ \A i \in 1 .. n - m : f2[i] = f2[i - 1] + back[i].bytes
    BY <1>6, <2>0 DEF Sums
  <2> DEFINE T == {i \in 0 .. n - m : f2[i] # f[m + i] - f[m]}
  <2>2. ASSUME T # {} PROVE FALSE
    <3>1. PICK i \in T : \A y \in T : ~(y < i)
      <4>1. T \in SUBSET Nat
        BY <1>8
      <4> HIDE DEF T
      <4> QED
        BY <2>2, <4>1, LeastOne
    <3>2. i \in 0 .. n - m /\ f2[i] # f[m + i] - f[m]
      BY <3>1
    <3>3. i # 0
      BY <1>8, <2>1, <3>2
    <3>4. i \in 1 .. n - m /\ i - 1 \in 0 .. n - m /\ i - 1 < i
      BY <1>8, <3>2, <3>3
    <3>5. f2[i - 1] = f[m + (i - 1)] - f[m]
      BY <3>1, <3>4
    <3>6. f2[i] = f2[i - 1] + ll[m + i].bytes
      BY <1>6, <2>1, <3>4
    <3>7. f[m + i] = f[m + (i - 1)] + ll[m + i].bytes
      BY <1>3, <1>8, <3>4
    <3>8. ll[m + i].bytes \in Nat /\ f[m + (i - 1)] \in Nat
      BY <1>1, <1>8, <3>4 DEF Entries
    <3> QED
      BY <1>8, <3>2, <3>5, <3>6, <3>7, <3>8
  <2>3. f2[n - m] = f[m + (n - m)] - f[m] /\ m + (n - m) = n
    <3>1. n - m \in 0 .. n - m
      BY <1>8
    <3> QED
      BY <1>1, <1>8, <2>2, <3>1
  <2> HIDE DEF T
  <2> QED
    BY <1>6, <2>0, <2>3, BytesAreSums
<1>10. Bytes(<< >>) = 0
  <2>1. << >> \in Seq(Entries) /\ Len(<< >>) = 0
    BY EmptySeq
  <2>2. Sums(0, << >>, [i \in 0 .. 0 |-> 0])
    BY DEF Sums
  <2> QED
    BY <2>1, <2>2, BytesAreSums
<1>11. f[n] \in Nat
  BY <1>1, <1>3
<1> QED
  BY <1>4, <1>5, <1>7, <1>8, <1>9, <1>10, <1>11 DEF front, back, n

\* An entry put in front adds its bytes.
LEMMA BytesPut ==
    ASSUME NEW ll \in Seq(Entries), NEW e \in Entries
    PROVE  /\ <<e>> \o ll \in Seq(Entries) /\ Len(<<e>> \o ll) = Len(ll) + 1
           /\ (<<e>> \o ll)[1] = e
           /\ \A i \in 2 .. Len(ll) + 1 : (<<e>> \o ll)[i] = ll[i - 1]
           /\ Bytes(<<e>> \o ll) = e.bytes + Bytes(ll)
<1> DEFINE n == Len(ll)
           s == <<e>> \o ll
<1>1. n \in Nat /\ \A i \in 1 .. n : ll[i] \in Entries
  BY EntriesOf
<1>2. PICK f : Sums(n, ll, f)
  BY SumsExist
<1>3. /\ f \in [0 .. n -> Nat] /\ f[0] = 0
      /\ \A i \in 1 .. n : f[i] = f[i - 1] + ll[i].bytes
  BY <1>2 DEF Sums
<1>4. Bytes(ll) = f[n]
  BY <1>2, BytesAreSums
<1>5. /\ s \in Seq(Entries) /\ Len(s) = n + 1 /\ s[1] = e
      /\ \A i \in 2 .. n + 1 : s[i] = ll[i - 1]
  BY <1>1, ConcatProperties
<1> HIDE DEF n, s
<1> DEFINE g == [i \in 0 .. n + 1 |-> IF i = 0 THEN 0 ELSE e.bytes + f[i - 1]]
<1>6. e.bytes \in Nat
  BY DEF Entries
<1>7. g \in [0 .. n + 1 -> Nat]
  <2>1. ASSUME NEW i \in 0 .. n + 1
        PROVE  (IF i = 0 THEN 0 ELSE e.bytes + f[i - 1]) \in Nat
    <3>1. i # 0 => i - 1 \in 0 .. n
      BY <1>1
    <3> QED
      BY <1>3, <1>6, <3>1
  <2> QED
    BY <2>1
<1>8. ASSUME NEW i \in 1 .. n + 1 PROVE g[i] = g[i - 1] + s[i].bytes
  <2>1. i \in 0 .. n + 1 /\ i - 1 \in 0 .. n + 1 /\ i # 0
    BY <1>1
  <2>2. CASE i = 1
    BY <1>3, <1>5, <1>6, <2>1, <2>2
  <2>3. CASE i # 1
    <3>1. i \in 2 .. n + 1 /\ i - 1 \in 1 .. n /\ i - 1 # 0
      BY <1>1, <2>3
    <3>2. f[i - 1] = f[i - 1 - 1] + ll[i - 1].bytes /\ s[i] = ll[i - 1]
      BY <1>3, <1>5, <3>1
    <3>3. g[i] = e.bytes + f[i - 1] /\ g[i - 1] = e.bytes + f[i - 1 - 1]
      BY <2>1, <3>1
    <3>4. i - 1 - 1 \in 0 .. n /\ i - 1 \in 0 .. n
      BY <1>1, <3>1
    <3>5. f[i - 1 - 1] \in Nat /\ f[i - 1] \in Nat /\ ll[i - 1].bytes \in Nat
      BY <1>1, <1>3, <3>1, <3>4 DEF Entries
    <3> HIDE DEF g
    <3> QED
      BY <1>6, <3>2, <3>3, <3>5
  <2> QED
    BY <2>2, <2>3
<1>9. g[0] = 0 /\ g[n + 1] = e.bytes + f[n]
  BY <1>1
<1> HIDE DEF g
<1>10. Sums(Len(s), s, g)
  BY <1>5, <1>7, <1>8, <1>9 DEF Sums
<1>11. Bytes(s) = e.bytes + Bytes(ll)
  BY <1>4, <1>5, <1>9, <1>10, BytesAreSums
<1> QED
  BY <1>5, <1>11 DEF s, n

\* An entry taken out takes its bytes with it.
LEMMA BytesRemoved ==
    ASSUME NEW ll \in Seq(Entries), NEW p \in 1 .. Len(ll)
    PROVE  /\ RemoveAt(ll, p) \in Seq(Entries) /\ Len(RemoveAt(ll, p)) = Len(ll) - 1
           /\ \A i \in 1 .. Len(ll) - 1 :
                RemoveAt(ll, p)[i] = IF i < p THEN ll[i] ELSE ll[i + 1]
           /\ Bytes(RemoveAt(ll, p)) = Bytes(ll) - ll[p].bytes
<1> DEFINE n == Len(ll)
           front == SubSeq(ll, 1, p - 1)
           back == SubSeq(ll, p + 1, n)
           s == front \o back
<1>1. n \in Nat /\ p \in 1 .. n /\ \A i \in 1 .. n : ll[i] \in Entries
  BY EntriesOf
<1>2. PICK f : Sums(n, ll, f)
  BY SumsExist
<1>3. /\ f \in [0 .. n -> Nat] /\ f[0] = 0
      /\ \A i \in 1 .. n : f[i] = f[i - 1] + ll[i].bytes
  BY <1>2 DEF Sums
<1>4. Bytes(ll) = f[n]
  BY <1>2, BytesAreSums
<1>5. /\ front \in Seq(Entries) /\ Len(front) = p - 1
      /\ \A i \in 1 .. p - 1 : front[i] = ll[i]
  <2>1. \A i \in 1 .. p - 1 : ll[i] \in Entries
    BY <1>1
  <2> QED
    BY <1>1, <2>1, SubSeqProperties
<1>6. /\ back \in Seq(Entries) /\ Len(back) = n - p
      /\ \A i \in 1 .. n - p : back[i] = ll[p + i]
  <2>1. \A i \in p + 1 .. n : ll[i] \in Entries
    BY <1>1
  <2> QED
    BY <1>1, <2>1, SubSeqProperties
<1>7. RemoveAt(ll, p) = s
  BY DEF RemoveAt
<1> HIDE DEF n, front, back
<1>8. /\ s \in Seq(Entries) /\ Len(s) = n - 1
      /\ \A i \in 1 .. p - 1 : s[i] = front[i]
      /\ \A i \in p .. n - 1 : s[i] = back[i - (p - 1)]
  <2>1. /\ s \in Seq(Entries) /\ Len(s) = Len(front) + Len(back)
        /\ \A i \in 1 .. Len(front) + Len(back) :
             s[i] = IF i <= Len(front) THEN front[i] ELSE back[i - Len(front)]
    BY <1>5, <1>6, ConcatProperties
  <2>2. Len(front) + Len(back) = n - 1
    BY <1>1, <1>5, <1>6
  <2>3. /\ \A i \in 1 .. p - 1 : i \in 1 .. n - 1 /\ i <= p - 1
        /\ \A i \in p .. n - 1 : i \in 1 .. n - 1 /\ ~(i <= p - 1)
    BY <1>1
  <2> HIDE DEF s
  <2> QED
    BY <1>5, <2>1, <2>2, <2>3
<1>9. ASSUME NEW i \in 1 .. n - 1 PROVE s[i] = IF i < p THEN ll[i] ELSE ll[i + 1]
  <2>1. CASE i < p
    <3>1. i \in 1 .. p - 1
      BY <1>1, <2>1
    <3> QED
      BY <1>5, <1>8, <2>1, <3>1
  <2>2. CASE ~(i < p)
    <3>1. i \in p .. n - 1 /\ i - (p - 1) \in 1 .. n - p /\ p + (i - (p - 1)) = i + 1
      BY <1>1, <2>2
    <3> QED
      BY <1>6, <1>8, <2>2, <3>1
  <2> QED
    BY <2>1, <2>2
<1> HIDE DEF s
<1>10. ll[p].bytes \in Nat /\ f[p] = f[p - 1] + ll[p].bytes
  BY <1>1, <1>3 DEF Entries
<1> DEFINE h(i) == IF i < p THEN f[i] ELSE f[i + 1] - ll[p].bytes
           T == {i \in 0 .. n - 1 : h(i) \notin Nat}
           g == [i \in 0 .. n - 1 |-> h(i)]
<1>11. h(0) = 0 /\ h(n - 1) = f[n] - ll[p].bytes
  BY <1>1, <1>3, <1>10
<1>12. ASSUME NEW i \in 1 .. n - 1 PROVE h(i) = h(i - 1) + s[i].bytes
  <2>1. i \in 1 .. n /\ i + 1 \in 1 .. n /\ i - 1 \in Int /\ i + 1 - 1 = i /\ i - 1 + 1 = i
    BY <1>1
  <2>2. f[i] = f[i - 1] + ll[i].bytes /\ f[i + 1] = f[i] + ll[i + 1].bytes
    BY <1>3, <2>1
  <2>3. f[i] \in Nat /\ f[i - 1] \in Nat /\ f[i + 1] \in Nat
    BY <1>1, <1>3
  <2>4. ll[i].bytes \in Nat /\ ll[i + 1].bytes \in Nat
    BY <1>1, <2>1 DEF Entries
  <2>5. CASE i < p
    <3>1. i - 1 < p
      BY <1>1, <2>1, <2>5
    <3> QED
      BY <1>9, <2>2, <2>5, <3>1
  <2>6. CASE i = p
    <3>1. i - 1 < p /\ ~(i < p)
      BY <1>1, <2>1, <2>6
    <3>2. s[i] = ll[i + 1] /\ h(i - 1) = f[i - 1] /\ h(i) = f[i + 1] - ll[i].bytes
      BY <1>9, <2>6, <3>1
    <3>3. f[i + 1] - ll[i].bytes = f[i - 1] + ll[i + 1].bytes
      BY <1>1, <2>1, <2>2, <2>3, <2>4
    <3> QED
      BY <3>2, <3>3, Zenon
  <2>7. CASE i > p
    <3>1. ~(i - 1 < p) /\ ~(i < p)
      BY <1>1, <2>1, <2>7
    <3>2. s[i] = ll[i + 1] /\ h(i - 1) = f[i - 1 + 1] - ll[p].bytes
          /\ h(i) = f[i + 1] - ll[p].bytes
      BY <1>9, <3>1
    <3>3. f[i + 1] - ll[p].bytes = f[i] - ll[p].bytes + ll[i + 1].bytes
      <4> DEFINE x == f[i + 1]  y == f[i]  z == ll[i + 1].bytes  w == ll[p].bytes
      <4>1. x = y + z /\ x \in Nat /\ y \in Nat /\ z \in Nat /\ w \in Nat
        BY <1>10, <2>2, <2>3, <2>4
      <4> HIDE DEF x, y, z, w
      <4>2. x - w = y - w + z
        BY <4>1
      <4> QED
        BY <4>2 DEF x, y, z, w
    <3> QED
      BY <2>1, <3>2, <3>3, Zenon
  <2> QED
    BY <1>1, <2>5, <2>6, <2>7
<1>13. ASSUME T # {} PROVE FALSE
  <2>1. PICK i \in T : \A y \in T : ~(y < i)
    <3>1. T \in SUBSET Nat
      BY <1>1
    <3> HIDE DEF T
    <3> QED
      BY <1>13, <3>1, LeastOne
  <2> HIDE DEF h
  <2>2. i \in 0 .. n - 1 /\ h(i) \notin Nat
    BY <2>1
  <2>3. i \in 1 .. n - 1 /\ i - 1 \in 0 .. n - 1 /\ i - 1 < i
    BY <1>1, <1>11, <2>2
  <2>4. h(i - 1) \in Nat
    BY <2>1, <2>3
  <2>5. s[i].bytes \in Nat
    <3>1. s[i] \in Entries
      BY <1>8, <2>3, EntriesOf
    <3> QED
      BY <3>1 DEF Entries
  <2> QED
    BY <1>12, <2>2, <2>3, <2>4, <2>5
<1>14. Sums(n - 1, s, g)
  <2> HIDE DEF h
  <2>1. \A i \in 0 .. n - 1 : h(i) \in Nat
    BY <1>13
  <2>2. \A i \in 1 .. n - 1 : i \in 0 .. n - 1 /\ i - 1 \in 0 .. n - 1
    BY <1>1
  <2>3. 0 \in 0 .. n - 1
    BY <1>1
  <2> QED
    BY <1>11, <1>12, <2>1, <2>2, <2>3 DEF Sums
<1>15. g[n - 1] = h(n - 1)
  BY <1>1
<1> HIDE DEF g, h
<1>16. Bytes(s) = Bytes(ll) - ll[p].bytes
  BY <1>4, <1>8, <1>11, <1>14, <1>15, BytesAreSums
<1> QED
  BY <1>7, <1>8, <1>9, <1>16 DEF n

\* No key is in a list twice.
Distinct(ll) == \A i, j \in 1 .. Len(ll) : ll[i].key = ll[j].key => i = j

\* A cache is well kept: its counter is right and within the limit.
Kept(c) ==
    /\ c = [ll |-> c.ll, nbytes |-> c.nbytes]
    /\ c.ll \in Seq(Entries) /\ Distinct(c.ll)
    /\ c.nbytes = Bytes(c.ll)
    /\ Capacity # 0 => c.nbytes <= Capacity

\* If the counter is right, the loop of lru.Add ends with a well kept cache.
LEMMA EvictedIsKept ==
    ASSUME NEW ll \in Seq(Entries), Distinct(ll)
    PROVE  Kept(Evicted([ll |-> ll, nbytes |-> Bytes(ll)]))
<1> DEFINE n == Len(ll)
           c == [ll |-> ll, nbytes |-> Bytes(ll)]
           tail(m) == Bytes(SubSeq(ll, m + 1, n))
           fits(m) == Capacity = 0 \/ Bytes(ll) - tail(m) <= Capacity
           Stops(i) == /\ fits(i) \/ i = 0
                       /\ \A j \in i + 1 .. n : ~fits(j)
           stop == CHOOSE i \in 0 .. n : Stops(i)
           left == SubSeq(ll, 1, stop)
<1>1. Evicted(c) = [ll |-> left, nbytes |-> Bytes(ll) - tail(stop)]
  BY DEF Evicted
<1>2. n \in Nat
  BY EntriesOf
<1>3. \E i \in 0 .. n : Stops(i)
  <2> DEFINE F == {i \in 0 .. n : fits(i)}
  <2> HIDE DEF n, tail, fits
  <2>1. PICK i \in 0 .. n : /\ i \in F \/ i = 0
                            /\ \A j \in i + 1 .. n : j \notin F
    BY <1>2, LastOne
  <2>2. \A j \in i + 1 .. n : j \in 0 .. n
    BY <1>2, <2>1
  <2> QED
    BY <2>1, <2>2
<1>4. stop \in 0 .. n /\ Stops(stop)
  <2> HIDE DEF Stops
  <2> QED
    BY <1>3
<1>5. fits(stop) \/ stop = 0
  BY <1>4
<1> HIDE DEF stop
<1>6. /\ left \in Seq(Entries) /\ Bytes(left) = Bytes(ll) - tail(stop)
      /\ Bytes(left) \in Nat /\ Bytes(<< >>) = 0
  BY <1>4, BytesOfParts
<1>7. Capacity # 0 => Bytes(left) <= Capacity
  <2>1. CASE fits(stop)
    <3> HIDE DEF tail
    <3> QED
      BY <1>6, <2>1
  <2>2. CASE stop = 0
    <3>1. left = << >>
      BY <2>2 DEF left
    <3> HIDE DEF left
    <3>2. Bytes(left) = 0
      BY <1>6, <3>1, Zenon
    <3> QED
      BY <3>2, CacheAssumption
  <2> QED
    BY <1>5, <2>1, <2>2
<1>8. Distinct(left)
  <2>1. Len(left) = stop /\ \A i \in 1 .. stop : left[i] = ll[i]
    <3>1. \A i \in 1 .. stop : i \in 1 .. n
      BY <1>2, <1>4
    <3>2. \A i \in 1 .. stop : ll[i] \in Entries
      BY <3>1, EntriesOf
    <3> QED
      BY <1>2, <1>4, <3>2, SubSeqProperties
  <2>2. \A i \in 1 .. stop : i \in 1 .. Len(ll)
    BY <1>2, <1>4
  <2> HIDE DEF left
  <2> QED
    BY <2>1, <2>2 DEF Distinct
<1> HIDE DEF left, tail
<1> QED
  BY <1>1, <1>6, <1>7, <1>8 DEF Kept

\* Without a key's entry the list has neither the key nor its bytes.
LEMMA WithoutKey ==
    ASSUME NEW c, Kept(c), NEW k
    PROVE  /\ Without(c, k) \in Seq(Entries) /\ Distinct(Without(c, k))
           /\ \A i \in 1 .. Len(Without(c, k)) : Without(c, k)[i].key # k
           /\ Bytes(Without(c, k)) =
                c.nbytes - (IF Cached(c, k) THEN Find(c, k).bytes ELSE 0)
           /\ Cached(c, k) => Find(c, k) \in Entries /\ Find(c, k).key = k
           /\ c.nbytes \in Nat
<1> DEFINE ll == c.ll
           n == Len(ll)
<1>1. ll \in Seq(Entries) /\ Distinct(ll) /\ c.nbytes = Bytes(ll)
  BY DEF Kept
<1>2. n \in Nat /\ \A i \in 1 .. n : ll[i] \in Entries
  BY <1>1, EntriesOf
<1>3. c.nbytes \in Nat
  <2>1. 0 \in 0 .. n
    BY <1>2
  <2> QED
    BY <1>1, <2>1, BytesOfParts
<1>4. CASE ~Cached(c, k)
  <2>1. Without(c, k) = ll /\ \A i \in 1 .. n : ll[i].key # k
    BY <1>4 DEF Without, Cached
  <2> QED
    BY <1>1, <1>3, <1>4, <2>1
<1>5. CASE Cached(c, k)
  <2> DEFINE p == Place(ll, k)
             s == RemoveAt(ll, p)
  <2>1. p \in 1 .. n /\ ll[p].key = k
    BY <1>5 DEF Cached, Place
  <2>2. Without(c, k) = s /\ Find(c, k) = ll[p]
    BY <1>5 DEF Without, Find
  <2> HIDE DEF p
  <2>3. /\ s \in Seq(Entries) /\ Len(s) = n - 1
        /\ \A i \in 1 .. n - 1 : s[i] = IF i < p THEN ll[i] ELSE ll[i + 1]
        /\ Bytes(s) = Bytes(ll) - ll[p].bytes
    BY <1>1, <2>1, BytesRemoved
  <2> HIDE DEF s, ll, n
  <2> DEFINE from(i) == IF i < p THEN i ELSE i + 1
  <2>4. \A i \in 1 .. n - 1 : from(i) \in 1 .. n /\ from(i) # p /\ s[i] = ll[from(i)]
    BY <1>2, <2>1, <2>3
  <2>5. \A i, j \in 1 .. n - 1 : from(i) = from(j) => i = j
    BY <1>2, <2>1
  <2> HIDE DEF from
  <2>6. \A i, j \in 1 .. n : ll[i].key = ll[j].key => i = j
    BY <1>1 DEF Distinct, n
  <2>7. Distinct(s)
    BY <2>3, <2>4, <2>5, <2>6 DEF Distinct
  <2>8. \A i \in 1 .. Len(s) : s[i].key # k
    BY <2>1, <2>3, <2>4, <2>6
  <2> QED
    BY <1>1, <1>2, <1>3, <1>5, <2>1, <2>2, <2>3, <2>7, <2>8
<1> QED
  BY <1>4, <1>5

\* A key that is not in the list can be put in front of it.
LEMMA PutFirst ==
    ASSUME NEW ll \in Seq(Entries), Distinct(ll), NEW e \in Entries,
           \A i \in 1 .. Len(ll) : ll[i].key # e.key
    PROVE  Distinct(<<e>> \o ll)
<1> DEFINE s == <<e>> \o ll
           n == Len(ll)
<1>1. /\ Len(s) = n + 1 /\ s[1] = e /\ n \in Nat
      /\ \A i \in 2 .. n + 1 : s[i] = ll[i - 1]
  BY BytesPut, EntriesOf
<1> HIDE DEF s, n
<1>2. \A i \in 1 .. n + 1 : i # 1 => i \in 2 .. n + 1 /\ i - 1 \in 1 .. n
  BY <1>1
<1>3. \A i, j \in 1 .. n + 1 : i - 1 = j - 1 => i = j
  BY <1>1
<1>4. /\ \A i, j \in 1 .. n : ll[i].key = ll[j].key => i = j
      /\ \A i \in 1 .. n : ll[i].key # e.key
  BY DEF Distinct, n
<1>5. ASSUME NEW i \in 1 .. n + 1, NEW j \in 1 .. n + 1, s[i].key = s[j].key PROVE i = j
  <2>1. CASE i # 1 /\ j # 1
    BY <1>1, <1>2, <1>3, <1>4, <1>5, <2>1
  <2>2. CASE i = 1 /\ j # 1
    BY <1>1, <1>2, <1>4, <1>5, <2>2
  <2>3. CASE i # 1 /\ j = 1
    BY <1>1, <1>2, <1>4, <1>5, <2>3
  <2> QED
    BY <2>1, <2>2, <2>3
<1> QED
  BY <1>1, <1>5 DEF Distinct, s

\* lru.Add leaves a well kept cache, also when it updates an entry.
LEMMA AddedIsKept ==
    ASSUME NEW c, Kept(c), NEW k \in Keys, NEW b \in Sizes
    PROVE  Kept(Added(c, k, k, b))
<1> DEFINE e == [key |-> k, of |-> k, bytes |-> b]
           s == Without(c, k)
           was == IF Cached(c, k) THEN Find(c, k).bytes ELSE 0
           ll == <<e>> \o s
<1>1. Added(c, k, k, b) = Evicted([ll |-> ll, nbytes |-> c.nbytes + b - was])
  BY DEF Added
<1>2. e \in Entries /\ e.key = k /\ e.bytes = b /\ b \in Nat
  BY CacheAssumption DEF Entries
<1>3. /\ s \in Seq(Entries) /\ Distinct(s)
      /\ \A i \in 1 .. Len(s) : s[i].key # k
      /\ Bytes(s) = c.nbytes - was /\ c.nbytes \in Nat
  BY WithoutKey
<1>4. was \in Nat
  <2>1. Cached(c, k) => Find(c, k) \in Entries
    BY WithoutKey
  <2> QED
    BY <2>1 DEF Entries
<1> HIDE DEF e, s, was
<1>5. ll \in Seq(Entries) /\ Bytes(ll) = b + Bytes(s)
  BY <1>2, <1>3, BytesPut
<1>6. Distinct(ll)
  BY <1>2, <1>3, PutFirst
<1> HIDE DEF ll
<1>7. c.nbytes + b - was = Bytes(ll)
  BY <1>2, <1>3, <1>4, <1>5
<1> QED
  BY <1>1, <1>5, <1>6, <1>7, EvictedIsKept

\* So does lru.Get, which only moves an entry to the front.
LEMMA TouchedIsKept ==
    ASSUME NEW c, Kept(c), NEW k, Cached(c, k)
    PROVE  Kept(Touched(c, k))
<1> DEFINE e == Find(c, k)
           s == Without(c, k)
           ll == <<e>> \o s
<1>1. Touched(c, k) = [c EXCEPT !.ll = ll]
  BY DEF Touched
<1>2. Touched(c, k) = [ll |-> ll, nbytes |-> c.nbytes]
  <2> HIDE DEF ll
  <2>1. c = [ll |-> c.ll, nbytes |-> c.nbytes]
    BY DEF Kept
  <2> QED
    BY <1>1, <2>1
<1>3. /\ s \in Seq(Entries) /\ Distinct(s)
      /\ \A i \in 1 .. Len(s) : s[i].key # k
      /\ Bytes(s) = c.nbytes - e.bytes /\ c.nbytes \in Nat
      /\ e \in Entries /\ e.key = k
  BY WithoutKey
<1> HIDE DEF e, s
<1>4. ll \in Seq(Entries) /\ Bytes(ll) = e.bytes + Bytes(s)
  BY <1>3, BytesPut
<1>5. Distinct(ll)
  BY <1>3, PutFirst
<1> HIDE DEF ll
<1>6. Bytes(ll) = c.nbytes
  <2>1. e.bytes \in Nat
    BY <1>3 DEF Entries
  <2> QED
    BY <1>3, <1>4, <2>1
<1>7. Capacity # 0 => c.nbytes <= Capacity
  BY DEF Kept
<1> QED
  BY <1>2, <1>4, <1>5, <1>6, <1>7 DEF Kept

\* A cache that has just been made is well kept.
LEMMA FreshIsKept == Kept(Fresh)
<1>1. << >> \in Seq(Entries) /\ Len(<< >>) = 0
  BY EmptySeq
<1>2. Bytes(<< >>) = 0
  <2>1. 0 \in 0 .. Len(<< >>)
    BY <1>1
  <2> QED
    BY <1>1, <2>1, BytesOfParts
<1>3. Distinct(<< >>)
  BY <1>1 DEF Distinct
<1>4. Capacity # 0 => 0 <= Capacity
  BY CacheAssumption
<1> QED
  BY <1>1, <1>2, <1>3, <1>4 DEF Kept, Fresh

\* A list without a key twice has as many keys as entries.
LEMMA KeysCounted ==
    ASSUME NEW ll \in Seq(Entries), Distinct(ll)
    PROVE  Cardinality({e.key : e \in Range(ll)}) = Len(ll)
<1> DEFINE n == Len(ll)
           K == {e.key : e \in Range(ll)}
           f == [i \in 1 .. n |-> ll[i].key]
<1>1. n \in Nat /\ DOMAIN ll = 1 .. n
  BY LenProperties
<1>2. /\ \A i \in 1 .. n : ll[i].key \in K
      /\ \A k \in K : \E i \in 1 .. n : k = ll[i].key
  BY <1>1 DEF Range
<1> HIDE DEF K
<1>3. f \in [1 .. n -> K]
  BY <1>2
<1>4. IsInjective(f)
  BY DEF Distinct, IsInjective
<1>5. \A k \in K : \E i \in 1 .. n : f[i] = k
  BY <1>2
<1> HIDE DEF f
<1>6. f \in Bijection(1 .. n, K)
  BY <1>3, <1>4, <1>5 DEF Bijection, Injection, Surjection
<1>7. ExistsBijection(1 .. n, K)
  BY <1>6 DEF ExistsBijection
<1> QED
  BY <1>1, <1>7, FS_CountingElements DEF K

\* Every step leaves every cache well kept.
LEMMA KeptStep ==
    Structure /\ [Next]_vars /\ (\A n \in Nodes : Kept(mainCache[n]))
        => \A n \in Nodes : Kept(mainCache'[n])
<1> SUFFICES ASSUME Structure, CacheTypeOK, [Next]_vars, NEW n \in Nodes, Kept(mainCache[n])
             PROVE  Kept(mainCache'[n])
  BY DEF Structure
<1> USE DEF nodeVars, threadVars
<1>1. CASE mainCache' = mainCache
  BY <1>1
<1>2. ASSUME NEW t \in Threads, Lookup(t) PROVE Kept(mainCache'[n])
  <2>1. CASE /\ Cached(mainCache[at[t]], key[t])
             /\ mainCache' = [mainCache EXCEPT ![at[t]] = Touched(@, key[t])]
    <3>1. mainCache'[n] = IF at[t] = n THEN Touched(mainCache[n], key[t]) ELSE mainCache[n]
      BY <2>1 DEF CacheTypeOK
    <3> QED
      BY <2>1, <3>1, TouchedIsKept
  <2> QED
    BY <1>1, <1>2, <2>1 DEF Lookup
<1>3. ASSUME NEW t \in Threads, Load(t) PROVE Kept(mainCache'[n])
  <2>1. ASSUME NEW b \in Sizes,
               mainCache' = [mainCache EXCEPT ![at[t]] = Added(@, key[t], key[t], b)]
        PROVE  Kept(mainCache'[n])
    <3>1. mainCache'[n] =
            IF at[t] = n THEN Added(mainCache[n], key[t], key[t], b) ELSE mainCache[n]
      BY <2>1 DEF CacheTypeOK
    <3>2. key[t] \in Keys
      BY <1>3 DEF Load, CacheTypeOK, Structure, Outcomes, Holding
    <3> QED
      BY <3>1, <3>2, AddedIsKept
  <2> QED
    BY <1>1, <1>3, <2>1 DEF Load
<1>4. ASSUME NEW m \in Nodes, Crash(m) PROVE Kept(mainCache'[n])
  <2>1. mainCache'[n] = IF m = n THEN Fresh ELSE mainCache[n]
    BY <1>4 DEF Crash, CacheTypeOK
  <2> QED
    BY <2>1, FreshIsKept
<1>5. ASSUME NEW t \in Threads, Do(t) \/ Wait(t) \/ Pick(t) \/ Forward(t) \/ PeerAnswer(t)
                                \/ RequestFails(t) \/ Finish(t) \/ Delete(t)
      PROVE  mainCache' = mainCache
  BY <1>5 DEF Do, Wait, Pick, Forward, PeerAnswer, RequestFails, Finish, Delete
<1>6. ASSUME NEW m \in Nodes, StartCacheServer(m) PROVE mainCache' = mainCache
  BY <1>6 DEF StartCacheServer
<1>7. ASSUME NEW g \in Gets, NEW k \in KeysOf[g], Start(g, k) PROVE mainCache' = mainCache
  BY <1>7 DEF Start
<1>8. UNCHANGED vars => mainCache' = mainCache
  BY DEF vars
<1> QED
  BY <1>1, <1>2, <1>3, <1>4, <1>5, <1>6, <1>7, <1>8 DEF Next, Step

\* The byte counter of a cache, kept by hand in Add and RemoverOldest, is always what
\* the entries add up to, so the eviction loop ends with the cache within its limit,
\* for any limit and any sizes; and no key is in the list twice.
THEOREM CachesAreBounded == Spec => []CacheBounded
<1> DEFINE Inv == \A n \in Nodes : Kept(mainCache[n])
<1>1. Init => Inv
  <2>1. Init => \A n \in Nodes : mainCache[n] = Fresh
    BY DEF Init
  <2> QED
    BY <2>1, FreshIsKept
<1>2. Structure /\ Inv /\ [Next]_vars => Inv'
  BY KeptStep
<1>3. Inv => CacheBounded
  <2> SUFFICES ASSUME Inv, NEW n \in Nodes
               PROVE  /\ mainCache[n].nbytes = Bytes(mainCache[n].ll)
                      /\ Capacity # 0 => mainCache[n].nbytes <= Capacity
                      /\ Cardinality({e.key : e \in Range(mainCache[n].ll)})
                           = Len(mainCache[n].ll)
    BY DEF CacheBounded
  <2>1. Kept(mainCache[n])
    OBVIOUS
  <2> QED
    BY <2>1, KeysCounted DEF Kept
<1> HIDE DEF Inv
<1> QED
  BY <1>1, <1>2, <1>3, StructureInvariance, PTL DEF Spec
=============================================================================
