-------------------------- MODULE DiscoveryProofs --------------------------
(***************************************************************************)
(* Proofs about the registry and the discovery that refreshes from it, for *)
(* any servers, users, periods, timeouts and delays.                       *)
(*                                                                         *)
(* Two caches hold what a server once said: the registry's entry and the   *)
(* discovery's list.  The invariant bounds the age of each by the time at  *)
(* which it was asked for (LastWord, Answer, CachedList), and says that a  *)
(* user's list had not expired when its Refresh returned (Checked); when   *)
(* the choice is made nothing is known of that any more.                   *)
(***************************************************************************)
EXTENDS Discovery, SequenceTheorems, FiniteSetTheorems, TLAPS

\* The registry's own state.
RegistryTypeOK ==
    /\ now \in Nat
    /\ DOMAIN start \subseteq Servers /\ start \in [DOMAIN start -> Nat]
    /\ up \in [Servers -> BOOLEAN] /\ crashedAt \in [Servers -> Nat]
    /\ beat \in [Servers -> {"off", "first", "wait", "again", "ended"}]
    /\ post \in [Servers -> {"none", "sent", "served"}] /\ postAt \in [Servers -> Nat]
    /\ since \in [Servers -> Nat]

\* Nothing is dated later than now, and a request is under way for Delay at most.
InTime ==
    /\ \A s \in DOMAIN start : start[s] <= now
    /\ \A s \in Servers :
         /\ crashedAt[s] <= now
         /\ post[s] # "none" => postAt[s] <= now /\ now <= postAt[s] + Delay

\* The last request of a server that is down was sent before it crashed, and its
\* entry was made when that arrived.
LastWord ==
    \A s \in Servers : ~up[s] =>
        /\ beat[s] = "off"
        /\ post[s] # "none" => postAt[s] <= crashedAt[s]
        /\ s \in DOMAIN start => start[s] <= crashedAt[s] + Delay

RegistryInv == RegistryTypeOK /\ InTime /\ LastWord

\* The discovery's.
DiscoveryTypeOK ==
    /\ servers \in Seq(Addrs) /\ index \in Nat /\ lastUpdate \in Int
    /\ upc \in [Users -> {"idle", "asking", "answered", "pick"}]
    /\ askedAt \in Nat /\ resp \subseteq Servers
    /\ manual \in BOOLEAN

\* d.mu: one user at a time asks, because the list was too old, and gets its answer
\* within Delay.
Asking(u) == upc[u] \in {"asking", "answered"}
Locking ==
    /\ lastUpdate <= now
    /\ \A u, v \in Users : Asking(u) /\ Asking(v) => u = v
    /\ \A u \in Users : Asking(u) => /\ lastUpdate + UpdateTimeout <= askedAt
                                     /\ askedAt <= now /\ now <= askedAt + Delay

\* The list of a user who is to choose was not too old when its Refresh returned.
Checked ==
    /\ checkedAt \in [Users -> Nat]
    /\ \A u \in Users : upc[u] = "pick" => checkedAt[u] < lastUpdate + UpdateTimeout

\* s was up at time t, or crashed less than d before it.
Recent(s, t, d) == up[s] \/ t < crashedAt[s] + d

\* s has been listed since a time before t.
Settled(s, t) == Listed(s) /\ since[s] < t

\* An answer on its way names the servers that were listed when it was asked for.
Answer ==
    \A u \in Users : upc[u] = "answered" =>
        /\ Timeout # 0 => \A s \in resp : Recent(s, askedAt, Delay + Timeout)
        /\ \A s \in Servers : Settled(s, askedAt) => s \in resp

\* The list names those that were listed a Delay before it was made.
CachedList ==
    ~manual =>
        /\ Range(servers) \subseteq Servers
        /\ Timeout # 0 =>
             \A s \in Range(servers) : Recent(s, lastUpdate, Delay + Timeout + Delay)
        /\ \A s \in Servers : Settled(s, lastUpdate - Delay) => s \in Range(servers)

\* What is chosen with this step, by a user whose Refresh returned at got.checked.
Choice ==
    ~got.manual =>
        /\ got.checked \in Nat
        /\ got.servers \subseteq Servers
        /\ Timeout # 0 => \A s \in got.servers :
              Recent(s, got.checked, Delay + Timeout + Delay + UpdateTimeout)
        /\ got.fresh => \A s \in Servers :
              Settled(s, got.checked - UpdateTimeout - Delay) => s \in got.all

DiscoveryInv ==
    DiscoveryTypeOK /\ Locking /\ Checked /\ Answer /\ CachedList /\ Choice
-----------------------------------------------------------------------------
(* The registry.                                                           *)

\* The state of the registry is well formed.
LEMMA RegistryTypeStep == RegistryTypeOK /\ [Next]_registryVars => RegistryTypeOK'
<1> SUFFICES ASSUME RegistryTypeOK, [Next]_registryVars PROVE RegistryTypeOK'
  OBVIOUS
<1> USE RegistryAssumption DEF RegistryTypeOK, regVars, procVars, postVars, tickerVars
<1>1. ASSUME NEW s \in Servers, Start(s) PROVE RegistryTypeOK'
  BY <1>1 DEF Start
<1>2. ASSUME NEW s \in Servers, NEW ok \in BOOLEAN, BeatEnd(s, ok) PROVE RegistryTypeOK'
  BY <1>2 DEF BeatEnd, PostOver
<1>3. ASSUME NEW s \in Servers, Tick(s) PROVE RegistryTypeOK'
  BY <1>3 DEF Tick
<1>4. ASSUME NEW s \in Servers, BeatAgain(s) PROVE RegistryTypeOK'
  BY <1>4 DEF BeatAgain
<1>5. ASSUME NEW s \in Servers, Crash(s) PROVE RegistryTypeOK'
  BY <1>5 DEF Crash, PostOver
<1>6. ASSUME NEW s \in Servers, PutServer(s) PROVE RegistryTypeOK'
  <2>1. DOMAIN start' \subseteq Servers /\ start' \in [DOMAIN start' -> Nat]
    BY <1>6 DEF PutServer
  <2>2. since' \in [Servers -> Nat]
    BY <1>6 DEF PutServer
  <2>3. post' \in [Servers -> {"none", "sent", "served"}] /\ postAt' \in [Servers -> Nat]
    BY <1>6 DEF PutServer, PostOver
  <2> QED
    BY <1>6, <2>1, <2>2, <2>3 DEF PutServer
<1>7. ASSUME NEW s \in Servers, Lose(s) PROVE RegistryTypeOK'
  BY <1>7 DEF Lose, PostOver
<1>8. CASE GetServers
  <2>1. DOMAIN start' \subseteq Servers /\ start' \in [DOMAIN start' -> Nat]
    BY <1>8 DEF GetServers, Restrict, AliveServers, Listed
  <2> QED
    BY <1>8, <2>1 DEF GetServers
<1>9. CASE Advance
  BY <1>9 DEF Advance
<1>10. CASE UNCHANGED registryVars
  BY <1>10 DEF registryVars
<1> QED
  BY <1>1, <1>2, <1>3, <1>4, <1>5, <1>6, <1>7, <1>8, <1>9, <1>10 DEF Next, ServerStep

\* The entries after a step.
LEMMA EntryEffect ==
    ASSUME RegistryTypeOK, [Next]_registryVars, NEW s \in DOMAIN start'
    PROVE  \/ s \in DOMAIN start /\ start'[s] = start[s]
           \/ PutServer(s) /\ start'[s] = now /\ s \in Servers
<1> USE DEF RegistryTypeOK, regVars, procVars, postVars, tickerVars
<1>1. CASE UNCHANGED start
  BY <1>1
<1>2. ASSUME NEW t \in Servers, PutServer(t)
      PROVE  \/ s \in DOMAIN start /\ start'[s] = start[s]
             \/ PutServer(s) /\ start'[s] = now /\ s \in Servers
  <2>1. start' = [r \in DOMAIN start \cup {t} |-> IF r = t THEN now ELSE start[r]]
    BY <1>2 DEF PutServer
  <2>2. CASE s = t
    <3>1. start'[s] = now
      BY <2>1, <2>2
    <3> QED
      BY <1>2, <2>2, <3>1
  <2>3. CASE s # t
    BY <2>1, <2>3
  <2> QED
    BY <2>2, <2>3
<1>3. CASE GetServers
  BY <1>3 DEF GetServers, Restrict, AliveServers, Listed
<1>4. ASSUME NEW t \in Servers, ServerStep(t), ~PutServer(t) PROVE UNCHANGED start
  BY <1>4 DEF ServerStep, Start, BeatEnd, Tick, BeatAgain, Crash, Lose
<1>5. CASE Advance \/ UNCHANGED registryVars
  BY <1>1, <1>5 DEF Advance, registryVars
<1> QED
  BY <1>1, <1>2, <1>3, <1>4, <1>5 DEF Next

\* The clock.
LEMMA ClockEffect == ASSUME [Next]_registryVars PROVE now' = now \/ Advance
<1>1. ASSUME NEW t \in Servers, ServerStep(t) PROVE now' = now
  BY <1>1 DEF ServerStep, Start, BeatEnd, Tick, BeatAgain, Crash, Lose, PutServer
<1>2. CASE GetServers \/ UNCHANGED registryVars
  BY <1>2 DEF GetServers, registryVars
<1> QED
  BY <1>1, <1>2 DEF Next

\* Time passes only while no request is overdue.
LEMMA InTimeStep == RegistryInv /\ [Next]_registryVars => InTime'
<1> SUFFICES ASSUME RegistryInv, RegistryTypeOK, InTime, [Next]_registryVars PROVE InTime'
  BY DEF RegistryInv
<1> USE RegistryAssumption DEF regVars, procVars, postVars, tickerVars
<1>1. now \in Nat /\ now' \in Nat /\ now' >= now
  BY ClockEffect DEF RegistryTypeOK, Advance
<1>2. ASSUME NEW s \in DOMAIN start' PROVE start'[s] <= now'
  <2>1. CASE s \in DOMAIN start /\ start'[s] = start[s]
    BY <1>1, <2>1 DEF InTime, RegistryTypeOK
  <2>2. CASE start'[s] = now
    BY <1>1, <2>2
  <2> QED
    BY <2>1, <2>2, EntryEffect
<1>3. ASSUME NEW s \in Servers PROVE crashedAt'[s] <= now'
  <2>1. crashedAt'[s] = crashedAt[s] \/ crashedAt'[s] = now
    BY DEF RegistryTypeOK, Next, ServerStep, GetServers, PutServer, Start, BeatEnd, Tick,
           BeatAgain, Crash, Lose, Advance, registryVars
  <2> QED
    BY <1>1, <2>1 DEF InTime, RegistryTypeOK
<1>4. ASSUME NEW s \in Servers, post'[s] # "none"
      PROVE  postAt'[s] <= now' /\ now' <= postAt'[s] + Delay
  <2>1. CASE Advance
    BY <1>4, <2>1 DEF Advance, Quiet, InTime, RegistryTypeOK
  <2>2. CASE now' = now /\ post[s] # "none" /\ postAt'[s] = postAt[s]
    BY <2>2 DEF InTime
  <2>3. CASE now' = now /\ postAt'[s] = now
    BY <1>1, <2>3
  <2>4. now' = now \/ Advance
    BY ClockEffect
  <2>5. CASE ~Advance
    <3>1. ASSUME NEW t \in Servers, Start(t) \/ BeatAgain(t)
          PROVE  (post[s] # "none" /\ postAt'[s] = postAt[s]) \/ postAt'[s] = now
      BY <1>4, <3>1 DEF Start, BeatAgain, RegistryTypeOK
    <3>2. ASSUME NEW t \in Servers,
                 (\E ok \in BOOLEAN : BeatEnd(t, ok)) \/ Crash(t) \/ Lose(t)
          PROVE  post[s] # "none" /\ postAt'[s] = postAt[s]
      BY <1>4, <3>2 DEF BeatEnd, Crash, Lose, PostOver, RegistryTypeOK
    <3>3. ASSUME NEW t \in Servers, PutServer(t)
          PROVE  post[s] # "none" /\ postAt'[s] = postAt[s]
      BY <1>4, <3>3 DEF PutServer, PostOver, RegistryTypeOK
    <3>4. CASE GetServers \/ (\E t \in Servers : Tick(t)) \/ UNCHANGED registryVars
      <4>1. UNCHANGED <<post, postAt>>
        BY <3>4 DEF GetServers, Tick, registryVars
      <4> QED
        BY <1>4, <2>2, <2>4, <2>5, <4>1
    <3> QED
      BY <2>2, <2>3, <2>4, <2>5, <3>1, <3>2, <3>3, <3>4 DEF Next, ServerStep
  <2> QED
    BY <2>1, <2>5
<1> QED
  BY <1>2, <1>3, <1>4 DEF InTime

\* The processes.
LEMMA ProcessEffect ==
    ASSUME RegistryTypeOK, [Next]_registryVars, NEW s \in Servers
    PROVE  \/ Crash(s) \/ Start(s)
           \/ up'[s] = up[s] /\ crashedAt'[s] = crashedAt[s]
<1> USE DEF RegistryTypeOK, regVars, procVars, postVars, tickerVars
<1>1. ASSUME NEW t \in Servers, Crash(t) \/ Start(t)
      PROVE  t = s \/ (up'[s] = up[s] /\ crashedAt'[s] = crashedAt[s])
  BY <1>1 DEF Crash, Start
<1>2. ASSUME NEW t \in Servers, ServerStep(t), ~Crash(t), ~Start(t)
      PROVE  UNCHANGED <<up, crashedAt>>
  BY <1>2 DEF ServerStep, BeatEnd, Tick, BeatAgain, Lose, PutServer
<1>3. CASE GetServers \/ Advance \/ UNCHANGED registryVars
  BY <1>3 DEF GetServers, Advance, registryVars
<1> QED
  BY <1>1, <1>2, <1>3 DEF Next, ServerStep

\* A server that is down says nothing new: what it sent arrives within Delay.
LEMMA LastWordStep == RegistryInv /\ [Next]_registryVars => LastWord'
<1> SUFFICES ASSUME RegistryInv, RegistryTypeOK, InTime, LastWord, [Next]_registryVars,
                    NEW s \in Servers, ~up'[s]
             PROVE  /\ beat'[s] = "off"
                    /\ post'[s] # "none" => postAt'[s] <= crashedAt'[s]
                    /\ s \in DOMAIN start' => start'[s] <= crashedAt'[s] + Delay
  BY DEF RegistryInv, LastWord
<1> USE RegistryAssumption DEF regVars, procVars, postVars, tickerVars
<1>1. CASE Crash(s)
  <2>1. /\ crashedAt'[s] = now /\ start' = start /\ beat'[s] = "off"
        /\ post'[s] # "none" => post[s] # "none" /\ postAt'[s] = postAt[s]
    BY <1>1 DEF Crash, PostOver, RegistryTypeOK
  <2> QED
    BY <2>1 DEF InTime, RegistryTypeOK
<1>2. ~Start(s)
  BY DEF Start, RegistryTypeOK
<1>3. CASE ~up[s] /\ crashedAt'[s] = crashedAt[s]
  <2>1. ~Posting(s) /\ ~BeatAgain(s)
    BY <1>3 DEF Posting, BeatAgain, LastWord
  <2>2. beat'[s] = beat[s]
    <3>1. ASSUME NEW t \in Servers, Start(t) \/ BeatAgain(t) PROVE beat'[s] = beat[s]
      BY <1>2, <2>1, <3>1 DEF Start, BeatAgain, RegistryTypeOK
    <3>2. ASSUME NEW t \in Servers, NEW ok \in BOOLEAN, BeatEnd(t, ok)
          PROVE  beat'[s] = beat[s]
      BY <2>1, <3>2 DEF BeatEnd, RegistryTypeOK
    <3>3. ASSUME NEW t \in Servers, Crash(t) PROVE beat'[s] = beat[s]
      BY <1>3, <3>3 DEF Crash, RegistryTypeOK
    <3>4. ASSUME NEW t \in Servers, Tick(t) \/ Lose(t) \/ PutServer(t)
          PROVE  beat'[s] = beat[s]
      BY <3>4 DEF Tick, Lose, PutServer
    <3>5. CASE GetServers \/ Advance \/ UNCHANGED registryVars
      BY <3>5 DEF GetServers, Advance, registryVars
    <3> QED
      BY <3>1, <3>2, <3>3, <3>4, <3>5 DEF Next, ServerStep
  <2>3. post'[s] # "none" => post[s] # "none" /\ postAt'[s] = postAt[s]
    <3>1. ASSUME NEW t \in Servers, Start(t) \/ BeatAgain(t)
          PROVE  post'[s] = post[s] /\ postAt'[s] = postAt[s]
      BY <1>2, <2>1, <3>1 DEF Start, BeatAgain, RegistryTypeOK
    <3>2. ASSUME NEW t \in Servers,
                 (\E ok \in BOOLEAN : BeatEnd(t, ok)) \/ Crash(t) \/ Lose(t), post'[s] # "none"
          PROVE  post[s] # "none" /\ postAt'[s] = postAt[s]
      BY <3>2 DEF BeatEnd, Crash, Lose, PostOver, RegistryTypeOK
    <3>3. ASSUME NEW t \in Servers, PutServer(t), post'[s] # "none"
          PROVE  post[s] # "none" /\ postAt'[s] = postAt[s]
      BY <3>3 DEF PutServer, PostOver, RegistryTypeOK
    <3>4. CASE GetServers \/ (\E t \in Servers : Tick(t)) \/ Advance \/ UNCHANGED registryVars
      <4>1. UNCHANGED <<post, postAt>>
        BY <3>4 DEF GetServers, Tick, Advance, registryVars
      <4> QED
        BY <4>1
    <3> QED
      BY <3>1, <3>2, <3>3, <3>4 DEF Next, ServerStep
  <2>4. ASSUME s \in DOMAIN start' PROVE start'[s] <= crashedAt'[s] + Delay
    <3>1. CASE s \in DOMAIN start /\ start'[s] = start[s]
      BY <1>3, <3>1 DEF LastWord
    <3>2. CASE PutServer(s) /\ start'[s] = now
      <4>1. post[s] # "none"
        BY <3>2 DEF PutServer
      <4>2. postAt[s] <= crashedAt[s] /\ now <= postAt[s] + Delay
        BY <1>3, <4>1 DEF LastWord, InTime
      <4> QED
        BY <1>3, <3>2, <4>2 DEF RegistryTypeOK
    <3> QED
      BY <2>4, <3>1, <3>2, EntryEffect
  <2> QED
    BY <1>3, <2>2, <2>3, <2>4 DEF LastWord
<1> QED
  BY <1>1, <1>2, <1>3, ProcessEffect

\* Every reachable state of the registry satisfies its invariant.
LEMMA RegistryInvariance == Spec => []RegistryInv
<1>1. Init => RegistryInv
  BY RegistryAssumption DEF Init, RegistryInv, RegistryTypeOK, InTime, LastWord
<1>2. RegistryInv /\ [Next]_registryVars => RegistryInv'
  BY RegistryTypeStep, InTimeStep, LastWordStep DEF RegistryInv
<1> QED
  BY <1>1, <1>2, PTL DEF Spec

\* The invariant bounds the age of what is listed.
LEMMA AliveAreRecent == RegistryInv => CrashedServersExpire
<1> SUFFICES ASSUME RegistryInv, Timeout # 0, NEW s \in AliveServers, ~up[s]
             PROVE  now < crashedAt[s] + Delay + Timeout
  BY DEF CrashedServersExpire
<1>1. s \in Servers /\ s \in DOMAIN start /\ start[s] + Timeout > now
  BY DEF AliveServers, Listed
<1>2. start[s] <= crashedAt[s] + Delay
  BY <1>1 DEF RegistryInv, LastWord
<1> QED
  BY <1>1, <1>2, RegistryAssumption DEF RegistryInv, RegistryTypeOK

\* A crashed server is handed out no longer than its last request took to arrive
\* and its entry to expire.
THEOREM CrashedServersAreDropped == Spec => []CrashedServersExpire
  BY AliveAreRecent, RegistryInvariance, PTL

-----------------------------------------------------------------------------
(* The discovery.                                                          *)

\* What the discovery does to the registry is a GET or nothing.
LEMMA DiscoveryStep == [DiscoveryNext]_vars => [Next]_registryVars
<1>1. ASSUME NEW s \in Servers, OfServer(s) PROVE Next
  BY <1>1 DEF OfServer, Next
<1>2. ASSUME NEW u \in Users, UserStep(u) PROVE [Next]_registryVars
  <2>1. CASE ServeGet(u)
    BY <2>1 DEF ServeGet, Next
  <2>2. CASE Refresh(u) \/ Refreshed(u) \/ RefreshFail(u) \/ Pick(u)
    <3>1. UNCHANGED registryVars
      BY <2>2 DEF Refresh, Refreshed, RefreshFail, Pick
    <3> QED
      BY <3>1
  <2> QED
    BY <1>2, <2>1, <2>2 DEF UserStep
<1>3. ASSUME NEW list \in Lists, Update(list) PROVE [Next]_registryVars
  BY <1>3 DEF Update
<1>4. CASE DiscoveryAdvance
  BY <1>4 DEF DiscoveryAdvance, Next
<1>5. CASE UNCHANGED vars
  BY <1>5 DEF vars
<1> QED
  BY <1>1, <1>2, <1>3, <1>4, <1>5 DEF DiscoveryNext

\* The registry with a discovery refreshing from it behaves as the registry alone:
\* whatever the users of the discovery do, it is an environment Registry allows.
THEOREM DiscoveryUsesTheRegistry == DiscoverySpec => Spec
<1>1. DiscoveryInit => Init
  BY DEF DiscoveryInit
<1> QED
  BY <1>1, DiscoveryStep, PTL DEF DiscoverySpec, Spec

\* What was recent at a time stays recent at that time.
LEMMA RecentStays ==
    ASSUME RegistryInv, [Next]_registryVars, NEW s \in Servers, NEW t \in Int, NEW d \in Int,
           t <= now, d > 0, Recent(s, t, d)
    PROVE  Recent(s, t, d)'
<1>1. CASE Crash(s)
  <2>1. crashedAt'[s] = now
    BY <1>1 DEF Crash, RegistryInv, RegistryTypeOK
  <2> QED
    BY <2>1 DEF Recent, RegistryInv, RegistryTypeOK
<1>2. CASE Start(s)
  BY <1>2 DEF Start, Recent, RegistryInv, RegistryTypeOK
<1>3. CASE up'[s] = up[s] /\ crashedAt'[s] = crashedAt[s]
  BY <1>3 DEF Recent
<1> QED
  BY <1>1, <1>2, <1>3, ProcessEffect DEF RegistryInv

\* A server that has been listed since a time before t was so a step earlier.
LEMMA SettledBefore ==
    ASSUME RegistryInv, [Next]_registryVars, NEW s \in Servers, NEW t \in Int,
           t <= now, Settled(s, t)'
    PROVE  Settled(s, t)
<1> USE RegistryAssumption DEF regVars, procVars, postVars, tickerVars
<1>1. now \in Nat /\ now' \in Nat /\ now' >= now
  BY ClockEffect DEF RegistryInv, RegistryTypeOK, Advance
<1>2. s \in DOMAIN start' /\ (Timeout = 0 \/ start'[s] + Timeout > now') /\ since'[s] < t
  BY DEF Settled, Listed
<1>3. CASE PutServer(s)
  <2>1. since'[s] = IF Listed(s) THEN since[s] ELSE now
    BY <1>3 DEF PutServer, RegistryInv, RegistryTypeOK
  <2> QED
    BY <1>1, <1>2, <2>1 DEF Settled
<1>4. CASE ~PutServer(s)
  <2>1. s \in DOMAIN start /\ start'[s] = start[s]
    BY <1>2, <1>4, EntryEffect DEF RegistryInv
  <2>2. since'[s] = since[s]
    <3>1. ASSUME NEW r \in Servers, PutServer(r) PROVE since'[s] = since[s]
      BY <1>4, <3>1 DEF PutServer, RegistryInv, RegistryTypeOK
    <3>2. ASSUME NEW r \in Servers, ServerStep(r), ~PutServer(r) PROVE since' = since
      BY <3>2 DEF ServerStep, Start, BeatEnd, Tick, BeatAgain, Crash, Lose
    <3>3. CASE GetServers \/ Advance \/ UNCHANGED registryVars
      BY <3>3 DEF GetServers, Advance, registryVars
    <3> QED
      BY <3>1, <3>2, <3>3 DEF Next
  <2>3. start[s] \in Nat
    BY <2>1 DEF RegistryInv, RegistryTypeOK
  <2> QED
    BY <1>1, <1>2, <2>1, <2>2, <2>3 DEF Settled, Listed
<1> QED
  BY <1>3, <1>4

\* The state of the discovery is well formed.
LEMMA DiscoveryTypeStep ==
    RegistryTypeOK /\ DiscoveryTypeOK /\ [DiscoveryNext]_vars => DiscoveryTypeOK'
<1> SUFFICES ASSUME RegistryTypeOK, DiscoveryTypeOK, [DiscoveryNext]_vars
             PROVE  DiscoveryTypeOK'
  OBVIOUS
<1> USE DiscoveryAssumption DEF listVars, userVars
<1>0. now \in Nat
  BY DEF RegistryTypeOK
<1>1. ASSUME NEW u \in Users, Refresh(u) PROVE DiscoveryTypeOK'
  <2>1. upc' \in [Users -> {"idle", "asking", "answered", "pick"}] /\ askedAt' \in Nat
    BY <1>0, <1>1 DEF Refresh, DiscoveryTypeOK
  <2>2. UNCHANGED <<servers, index, lastUpdate, resp, manual>>
    BY <1>1 DEF Refresh
  <2> QED
    BY <2>1, <2>2 DEF DiscoveryTypeOK
<1>2. ASSUME NEW u \in Users, ServeGet(u) PROVE DiscoveryTypeOK'
  <2>1. resp' \subseteq Servers
    BY <1>2 DEF ServeGet, AliveServers
  <2>2. upc' \in [Users -> {"idle", "asking", "answered", "pick"}]
    BY <1>2 DEF ServeGet, DiscoveryTypeOK
  <2>3. UNCHANGED <<servers, index, lastUpdate, askedAt, manual>>
    BY <1>2 DEF ServeGet
  <2> QED
    BY <2>1, <2>2, <2>3 DEF DiscoveryTypeOK
<1>3. ASSUME NEW u \in Users, Refreshed(u) PROVE DiscoveryTypeOK'
  <2>1. SortStrings[resp] \in Seq(Servers)
    BY DEF DiscoveryTypeOK
  <2>2. SortStrings[resp] \in Seq(Addrs)
    BY <2>1
  <2>3. upc' \in [Users -> {"idle", "asking", "answered", "pick"}]
    BY <1>3 DEF Refreshed, DiscoveryTypeOK
  <2>4. /\ servers' = SortStrings[resp] /\ lastUpdate' = now /\ resp' = {} /\ askedAt' = 0
        /\ index' = index
    BY <1>3 DEF Refreshed, Sorted
  <2>5. servers' \in Seq(Addrs)
    BY <2>2, <2>4
  <2>6. index' \in Nat /\ lastUpdate' \in Int /\ askedAt' \in Nat
    BY <1>0, <2>4 DEF DiscoveryTypeOK
  <2>7. resp' \subseteq Servers /\ manual' \in BOOLEAN
    BY <1>3 DEF Refreshed
  <2> QED
    BY <2>3, <2>5, <2>6, <2>7 DEF DiscoveryTypeOK
<1>4. ASSUME NEW u \in Users, RefreshFail(u) PROVE DiscoveryTypeOK'
  <2>1. upc' \in [Users -> {"idle", "asking", "answered", "pick"}]
    BY <1>4 DEF RefreshFail, DiscoveryTypeOK
  <2>2. resp' = {} /\ askedAt' = 0 /\ UNCHANGED <<servers, index, lastUpdate, manual>>
    BY <1>4 DEF RefreshFail
  <2> QED
    BY <2>1, <2>2 DEF DiscoveryTypeOK
<1>5. ASSUME NEW u \in Users, Pick(u) PROVE DiscoveryTypeOK'
  <2>1. index' \in Nat
    <3>1. CASE servers # << >> /\ RoundRobin(u, Len(servers))
      <4>1. Len(servers) \in Nat /\ Len(servers) > 0
        BY <3>1, EmptySeq, LenProperties DEF DiscoveryTypeOK
      <4>2. index' = (index + 1) % Len(servers)
        BY <3>1 DEF RoundRobin
      <4> QED
        BY <4>1, <4>2 DEF DiscoveryTypeOK
    <3>2. CASE UNCHANGED index
      BY <3>2 DEF DiscoveryTypeOK
    <3> QED
      BY <1>5, <3>1, <3>2 DEF Pick
  <2>2. upc' \in [Users -> {"idle", "asking", "answered", "pick"}]
    BY <1>5 DEF Pick, DiscoveryTypeOK
  <2>3. UNCHANGED <<servers, lastUpdate, manual, askedAt, resp>>
    BY <1>5 DEF Pick
  <2> QED
    BY <2>1, <2>2, <2>3 DEF DiscoveryTypeOK
<1>6. ASSUME NEW list \in Lists, Update(list) PROVE DiscoveryTypeOK'
  <2>1. servers' \in Seq(Addrs)
    BY <1>6 DEF Update
  <2>2. lastUpdate' = now /\ manual' = TRUE /\ UNCHANGED <<index, upc, askedAt, resp>>
    BY <1>6 DEF Update
  <2> QED
    BY <1>0, <2>1, <2>2 DEF DiscoveryTypeOK
<1>7. CASE DiscoveryAdvance \/ (\E s \in Servers : OfServer(s)) \/ UNCHANGED vars
  <2>1. UNCHANGED <<servers, index, lastUpdate, upc, askedAt, resp, manual>>
    BY <1>7 DEF DiscoveryAdvance, OfServer, discoveryVars, vars
  <2> QED
    BY <2>1 DEF DiscoveryTypeOK
<1> QED
  BY <1>1, <1>2, <1>3, <1>4, <1>5, <1>6, <1>7 DEF DiscoveryNext, UserStep

\* The lock.
LEMMA LockingStep ==
    RegistryInv /\ DiscoveryTypeOK /\ Locking /\ [DiscoveryNext]_vars => Locking'
<1> SUFFICES ASSUME RegistryInv, DiscoveryTypeOK, Locking, [DiscoveryNext]_vars
             PROVE  Locking'
  OBVIOUS
<1> USE DiscoveryAssumption, RegistryAssumption
<1>0. /\ now \in Nat /\ lastUpdate \in Int /\ askedAt \in Nat
      /\ upc \in [Users -> {"idle", "asking", "answered", "pick"}]
  BY DEF RegistryInv, RegistryTypeOK, DiscoveryTypeOK
<1>1. ASSUME NEW u \in Users, Refresh(u) PROVE Locking'
  <2>1. \A v \in Users : ~Asking(v)
    BY <1>1 DEF Refresh, MuFree, Asking
  <2>2. now' = now /\ lastUpdate' = lastUpdate
    BY <1>1 DEF Refresh, registryVars, listVars
  <2>3. CASE Expired
    <3>1. upc' = [upc EXCEPT ![u] = "asking"] /\ askedAt' = now
      BY <1>1, <2>3 DEF Refresh
    <3> QED
      BY <1>0, <2>1, <2>2, <2>3, <3>1 DEF Locking, Asking, Expired
  <2>4. CASE ~Expired
    <3>1. upc' = [upc EXCEPT ![u] = "pick"] /\ askedAt' = askedAt
      BY <1>1, <2>4 DEF Refresh
    <3> QED
      BY <1>0, <2>1, <2>2, <2>4, <3>1 DEF Locking, Asking, Expired
  <2> QED
    BY <2>3, <2>4
<1>2. ASSUME NEW u \in Users, ServeGet(u) PROVE Locking'
  <2>1. /\ now' = now /\ lastUpdate' = lastUpdate /\ askedAt' = askedAt
        /\ upc[u] = "asking" /\ upc' = [upc EXCEPT ![u] = "answered"]
    BY <1>2 DEF ServeGet, GetServers, listVars
  <2> QED
    BY <1>0, <2>1 DEF Locking, Asking
<1>3. ASSUME NEW u \in Users, Refreshed(u) PROVE Locking'
  <2>1. /\ now' = now /\ lastUpdate' = now
        /\ upc[u] = "answered" /\ upc' = [upc EXCEPT ![u] = "pick"]
    BY <1>3 DEF Refreshed, registryVars
  <2>2. \A v \in Users : ~Asking(v)'
    BY <1>0, <2>1 DEF Locking, Asking
  <2> QED
    BY <1>0, <2>1, <2>2 DEF Locking
<1>4. ASSUME NEW u \in Users, RefreshFail(u) PROVE Locking'
  <2>1. /\ now' = now /\ lastUpdate' = lastUpdate
        /\ Asking(u) /\ upc' = [upc EXCEPT ![u] = "idle"]
    BY <1>4 DEF RefreshFail, registryVars, listVars, Asking
  <2>2. \A v \in Users : ~Asking(v)'
    BY <1>0, <2>1 DEF Locking, Asking
  <2> QED
    BY <1>0, <2>1, <2>2 DEF Locking
<1>5. ASSUME NEW u \in Users, Pick(u) PROVE Locking'
  <2>1. /\ now' = now /\ lastUpdate' = lastUpdate /\ askedAt' = askedAt
        /\ upc' = [upc EXCEPT ![u] = "idle"]
    BY <1>5 DEF Pick, registryVars, listVars
  <2> QED
    BY <1>0, <2>1 DEF Locking, Asking
<1>6. ASSUME NEW list \in Lists, Update(list) PROVE Locking'
  <2>1. \A v \in Users : ~Asking(v)
    BY <1>6 DEF Update, MuFree, Asking
  <2>2. now' = now /\ lastUpdate' = now /\ upc' = upc
    BY <1>6 DEF Update, registryVars, userVars
  <2> QED
    BY <1>0, <2>1, <2>2 DEF Locking, Asking
<1>7. CASE DiscoveryAdvance
  <2>1. now' = now + 1 /\ UNCHANGED <<lastUpdate, askedAt, upc>>
    BY <1>7 DEF DiscoveryAdvance, Advance, listVars, userVars
  <2>2. \A u \in Users : Asking(u) => now < askedAt + Delay
    BY <1>7 DEF DiscoveryAdvance, Asking
  <2> QED
    BY <1>0, <2>1, <2>2 DEF Locking, Asking
<1>8. CASE UNCHANGED vars
  BY <1>8 DEF vars, registryVars, discoveryVars, Locking, Asking
<1>9. ASSUME NEW s \in Servers, OfServer(s) PROVE Locking'
  <2>1. now' = now
    BY <1>9 DEF OfServer, ServerStep, Start, BeatEnd, Tick, BeatAgain, Crash, Lose, PutServer
  <2> QED
    BY <1>9, <2>1 DEF OfServer, listVars, userVars, Locking, Asking
<1> QED
  BY <1>1, <1>2, <1>3, <1>4, <1>5, <1>6, <1>7, <1>8, <1>9 DEF DiscoveryNext, UserStep

\* The list only gets newer, and a Refresh that returns has found or made it new.
LEMMA CheckedStep ==
    RegistryInv /\ DiscoveryTypeOK /\ Locking /\ Checked /\ [DiscoveryNext]_vars => Checked'
<1> SUFFICES ASSUME RegistryInv, DiscoveryTypeOK, Locking, Checked, [DiscoveryNext]_vars
             PROVE  Checked'
  OBVIOUS
<1> USE DiscoveryAssumption
<1>0. /\ now \in Nat /\ lastUpdate \in Int /\ lastUpdate <= now
      /\ upc \in [Users -> {"idle", "asking", "answered", "pick"}]
      /\ checkedAt \in [Users -> Nat]
  BY DEF RegistryInv, RegistryTypeOK, DiscoveryTypeOK, Locking, Checked
<1>1. ASSUME UNCHANGED checkedAt, lastUpdate' \in {lastUpdate, now},
             \A v \in Users : upc'[v] = "pick" => upc[v] = "pick"
      PROVE  Checked'
  BY <1>0, <1>1 DEF Checked
<1>2. ASSUME NEW u \in Users, lastUpdate' \in {lastUpdate, now},
             now < lastUpdate' + UpdateTimeout,
             checkedAt' = [checkedAt EXCEPT ![u] = now], upc' = [upc EXCEPT ![u] = "pick"]
      PROVE  Checked'
  <2>1. ASSUME NEW v \in Users, upc'[v] = "pick"
        PROVE  checkedAt'[v] < lastUpdate' + UpdateTimeout
    <3>1. CASE v = u
      BY <1>0, <1>2, <3>1
    <3>2. CASE v # u
      <4>1. checkedAt'[v] = checkedAt[v] /\ upc[v] = "pick"
        BY <1>0, <1>2, <2>1, <3>2
      <4>2. checkedAt[v] < lastUpdate + UpdateTimeout /\ checkedAt[v] \in Nat
        BY <1>0, <4>1 DEF Checked
      <4> QED
        BY <1>0, <1>2, <4>1, <4>2
    <3> QED
      BY <3>1, <3>2
  <2> QED
    BY <1>0, <1>2, <2>1 DEF Checked
<1>3. ASSUME NEW u \in Users, Refresh(u) PROVE Checked'
  <2>1. lastUpdate' = lastUpdate
    BY <1>3 DEF Refresh, listVars
  <2>2. CASE Expired
    BY <1>0, <1>1, <1>3, <2>1, <2>2 DEF Refresh
  <2>3. CASE ~Expired
    <3>1. now < lastUpdate' + UpdateTimeout
      BY <1>0, <2>1, <2>3 DEF Expired
    <3> QED
      BY <1>2, <1>3, <2>1, <2>3, <3>1 DEF Refresh
  <2> QED
    BY <2>2, <2>3
<1>4. ASSUME NEW u \in Users, ServeGet(u) \/ RefreshFail(u) PROVE Checked'
  BY <1>0, <1>1, <1>4 DEF ServeGet, RefreshFail, listVars
<1>5. ASSUME NEW u \in Users, Refreshed(u) PROVE Checked'
  <2>1. lastUpdate' = now /\ now < lastUpdate' + UpdateTimeout
    BY <1>0, <1>5 DEF Refreshed
  <2> QED
    BY <1>2, <1>5, <2>1 DEF Refreshed
<1>6. ASSUME NEW u \in Users, Pick(u) PROVE Checked'
  <2>1. /\ lastUpdate' = lastUpdate /\ upc' = [upc EXCEPT ![u] = "idle"]
        /\ checkedAt' = [checkedAt EXCEPT ![u] = 0]
    BY <1>6 DEF Pick, listVars
  <2> QED
    BY <1>0, <2>1 DEF Checked
<1>7. ASSUME NEW list \in Lists, Update(list) PROVE Checked'
  BY <1>1, <1>7 DEF Update, userVars
<1>8. CASE DiscoveryAdvance \/ (\E s \in Servers : OfServer(s)) \/ UNCHANGED vars
  BY <1>1, <1>8 DEF DiscoveryAdvance, OfServer, listVars, userVars, discoveryVars, vars
<1> QED
  BY <1>3, <1>4, <1>5, <1>6, <1>7, <1>8 DEF DiscoveryNext, UserStep

\* An answer under way keeps its bound.
LEMMA AnswerStep ==
    RegistryInv /\ DiscoveryInv /\ [DiscoveryNext]_vars => Answer'
<1> SUFFICES ASSUME RegistryInv, DiscoveryInv, [DiscoveryNext]_vars,
                    NEW u \in Users, upc'[u] = "answered"
             PROVE  /\ Timeout # 0 => \A s \in resp' : Recent(s, askedAt, Delay + Timeout)'
                    /\ \A s \in Servers : Settled(s, askedAt)' => s \in resp'
  BY DEF Answer
<1> USE DiscoveryAssumption, RegistryAssumption
<1>0. /\ now \in Nat /\ askedAt \in Nat /\ resp \subseteq Servers
      /\ upc \in [Users -> {"idle", "asking", "answered", "pick"}]
  BY DEF RegistryInv, RegistryTypeOK, DiscoveryInv, DiscoveryTypeOK
<1>1. [Next]_registryVars
  BY DiscoveryStep
<1>2. PICK d \in Int : d = Delay + Timeout
  OBVIOUS
<1>3. Asking(u) /\ askedAt' = askedAt
  <2>1. ASSUME NEW v \in Users, ServeGet(v) PROVE Asking(u) /\ askedAt' = askedAt
    BY <1>0, <2>1 DEF ServeGet, Asking
  <2>2. ASSUME NEW v \in Users, Refresh(v) \/ Refreshed(v) \/ RefreshFail(v)
        PROVE  FALSE
    <3>1. upc[u] = "answered" /\ u # v
      BY <1>0, <2>2 DEF Refresh, Refreshed, RefreshFail
    <3>2. Refresh(v) \/ Asking(v)
      BY <2>2 DEF Refreshed, RefreshFail, Asking
    <3>3. ~Refresh(v)
      BY <3>1 DEF Refresh, MuFree
    <3> QED
      BY <3>1, <3>2, <3>3 DEF DiscoveryInv, Locking, Asking
  <2>3. ASSUME NEW v \in Users, Pick(v) PROVE Asking(u) /\ askedAt' = askedAt
    BY <1>0, <2>3 DEF Pick, Asking
  <2>4. ASSUME NEW list \in Lists, Update(list) PROVE Asking(u) /\ askedAt' = askedAt
    BY <2>4 DEF Update, userVars, Asking
  <2>5. CASE DiscoveryAdvance \/ (\E s \in Servers : OfServer(s)) \/ UNCHANGED vars
    BY <2>5 DEF DiscoveryAdvance, OfServer, userVars, discoveryVars, vars, Asking
  <2> QED
    BY <2>1, <2>2, <2>3, <2>4, <2>5 DEF DiscoveryNext, UserStep
<1>4. askedAt <= now
  BY <1>3 DEF DiscoveryInv, Locking
<1>5. PICK t \in Nat : t = askedAt
  BY <1>0
<1>6. t <= now /\ t = askedAt'
  BY <1>3, <1>4, <1>5
<1>7. \/ upc[u] = "answered" /\ resp' = resp
      \/ resp' = AliveServers /\ GetServers
  <2>1. ASSUME NEW v \in Users, ServeGet(v) PROVE resp' = AliveServers /\ GetServers
    BY <2>1 DEF ServeGet
  <2>2. ASSUME NEW v \in Users, Refresh(v) PROVE FALSE
    <3>1. upc[u] # "answered" /\ upc[u] # "asking"
      BY <2>2 DEF Refresh, MuFree
    <3> QED
      BY <1>3, <3>1 DEF Asking
  <2>3. ASSUME NEW v \in Users, Refreshed(v) \/ RefreshFail(v) PROVE FALSE
    <3>1. Asking(v) /\ upc'[v] # "answered"
      BY <1>0, <2>3 DEF Refreshed, RefreshFail, Asking
    <3> QED
      BY <1>3, <3>1 DEF DiscoveryInv, Locking
  <2>4. ASSUME NEW v \in Users, Pick(v) PROVE upc[u] = "answered" /\ resp' = resp
    BY <1>0, <2>4 DEF Pick
  <2>5. ASSUME NEW list \in Lists, Update(list) PROVE upc[u] = "answered" /\ resp' = resp
    BY <2>5 DEF Update, userVars
  <2>6. CASE DiscoveryAdvance \/ (\E s \in Servers : OfServer(s)) \/ UNCHANGED vars
    BY <2>6 DEF DiscoveryAdvance, OfServer, userVars, discoveryVars, vars
  <2> QED
    BY <2>1, <2>2, <2>3, <2>4, <2>5, <2>6 DEF DiscoveryNext, UserStep
<1>8. ASSUME Timeout # 0, NEW s \in resp' PROVE Recent(s, t, d)'
  <2>1. d > 0
    BY <1>2, <1>8
  <2>2. s \in Servers /\ Recent(s, t, d)
    <3>1. CASE upc[u] = "answered" /\ resp' = resp
      <4>1. s \in Servers /\ Recent(s, askedAt, Delay + Timeout)
        BY <1>0, <1>8, <3>1 DEF DiscoveryInv, Answer
      <4> QED
        BY <1>2, <1>5, <4>1
    <3>2. CASE resp' = AliveServers
      <4>1. s \in AliveServers /\ s \in Servers
        BY <1>8, <3>2 DEF AliveServers
      <4>2. up[s] \/ now < crashedAt[s] + Delay + Timeout
        BY <1>8, <4>1, AliveAreRecent DEF CrashedServersExpire
      <4>3. crashedAt[s] \in Nat
        BY <4>1 DEF RegistryInv, RegistryTypeOK
      <4> QED
        BY <1>0, <1>2, <1>6, <4>1, <4>2, <4>3 DEF Recent
    <3> QED
      BY <1>7, <3>1, <3>2
  <2> QED
    BY <1>1, <1>6, <2>1, <2>2, RecentStays
<1>9. ASSUME NEW s \in Servers, Settled(s, t)' PROVE s \in resp'
  <2>1. Settled(s, t)
    BY <1>1, <1>6, <1>9, SettledBefore
  <2>2. CASE upc[u] = "answered" /\ resp' = resp
    <3>1. Settled(s, askedAt) => s \in resp
      BY <2>2 DEF DiscoveryInv, Answer
    <3> QED
      BY <1>5, <2>1, <2>2, <3>1
  <2>3. CASE resp' = AliveServers
    BY <2>1, <2>3 DEF Settled, AliveServers
  <2> QED
    BY <1>7, <2>2, <2>3
<1> QED
  <2>1. \A s : Recent(s, t, d)' => Recent(s, askedAt, Delay + Timeout)'
    BY <1>2, <1>6 DEF Recent
  <2>2. \A s : Settled(s, askedAt)' => Settled(s, t)'
    BY <1>6 DEF Settled
  <2> QED
    BY <1>8, <1>9, <2>1, <2>2

\* The list and the time it was made change together.
LEMMA ListEffect ==
    ASSUME [DiscoveryNext]_vars
    PROVE  \/ \E u \in Users : Refreshed(u)
           \/ \E list \in Lists : Update(list)
           \/ UNCHANGED <<servers, lastUpdate, manual>>
<1> USE DEF listVars, discoveryVars, vars
<1>1. ASSUME NEW u \in Users, Refresh(u) \/ ServeGet(u) \/ RefreshFail(u) \/ Pick(u)
      PROVE  UNCHANGED <<servers, lastUpdate, manual>>
  BY <1>1 DEF Refresh, ServeGet, RefreshFail, Pick
<1>2. CASE DiscoveryAdvance \/ (\E s \in Servers : OfServer(s)) \/ UNCHANGED vars
  BY <1>2 DEF DiscoveryAdvance, OfServer
<1> QED
  BY <1>1, <1>2 DEF DiscoveryNext, UserStep

\* The cached list keeps its bound: the answer took Delay at most.
LEMMA CachedListStep ==
    RegistryInv /\ DiscoveryInv /\ [DiscoveryNext]_vars => CachedList'
<1> SUFFICES ASSUME RegistryInv, DiscoveryInv, [DiscoveryNext]_vars, ~manual'
             PROVE  /\ Range(servers') \subseteq Servers
                    /\ Timeout # 0 => \A s \in Range(servers') :
                         Recent(s, lastUpdate, Delay + Timeout + Delay)'
                    /\ \A s \in Servers :
                         Settled(s, lastUpdate - Delay)' => s \in Range(servers')
  BY DEF CachedList, Range
<1> USE DiscoveryAssumption, RegistryAssumption
<1>0. /\ now \in Nat /\ askedAt \in Nat /\ resp \subseteq Servers /\ lastUpdate \in Int
      /\ lastUpdate <= now
  BY DEF RegistryInv, RegistryTypeOK, DiscoveryInv, DiscoveryTypeOK, Locking
<1>1. [Next]_registryVars
  BY DiscoveryStep
<1>2. PICK d \in Int : d = Delay + Timeout + Delay
  OBVIOUS
<1>3. ASSUME NEW u \in Users, Refreshed(u)
      PROVE  \E t \in Int :
                /\ t <= now /\ lastUpdate' = t
                /\ Range(servers') \subseteq Servers
                /\ Timeout # 0 => \A s \in Range(servers') : Recent(s, t, d)
                /\ \A s \in Servers : Settled(s, t - Delay) => s \in Range(servers')
  <2>1. upc[u] = "answered" /\ servers' = SortStrings[resp] /\ lastUpdate' = now
    BY <1>3 DEF Refreshed, Sorted
  <2>2. Range(servers') = resp
    BY <1>0, <2>1
  <2>3. askedAt <= now /\ now <= askedAt + Delay
    BY <2>1 DEF DiscoveryInv, Locking, Asking
  <2>4. ASSUME Timeout # 0, NEW s \in resp PROVE Recent(s, now, d)
    <3>1. Recent(s, askedAt, Delay + Timeout)
      BY <2>1, <2>4 DEF DiscoveryInv, Answer
    <3>2. crashedAt[s] \in Nat
      BY <1>0 DEF RegistryInv, RegistryTypeOK
    <3> QED
      BY <1>0, <1>2, <2>3, <3>1, <3>2 DEF Recent
  <2>5. ASSUME NEW s \in Servers, Settled(s, now - Delay) PROVE s \in resp
    <3>1. since[s] \in Nat
      BY DEF RegistryInv, RegistryTypeOK
    <3>2. Settled(s, askedAt)
      BY <1>0, <2>3, <2>5, <3>1 DEF Settled
    <3> QED
      BY <2>1, <3>2 DEF DiscoveryInv, Answer
  <2> QED
    <3>1. now \in Int /\ now <= now
      BY <1>0
    <3> QED
      BY <1>0, <2>1, <2>2, <2>4, <2>5, <3>1
<1>4. ASSUME UNCHANGED <<servers, lastUpdate, manual>>
      PROVE  \E t \in Int :
                /\ t <= now /\ lastUpdate' = t
                /\ Range(servers') \subseteq Servers
                /\ Timeout # 0 => \A s \in Range(servers') : Recent(s, t, d)
                /\ \A s \in Servers : Settled(s, t - Delay) => s \in Range(servers')
  <2>1. PICK t \in Int : t = lastUpdate
    BY <1>0
  <2>2. ~manual
    BY <1>4
  <2>3. Range(servers') = Range(servers)
    BY <1>4
  <2>4. /\ Range(servers) \subseteq Servers
        /\ Timeout # 0 =>
             \A s \in Range(servers) : Recent(s, lastUpdate, Delay + Timeout + Delay)
        /\ \A s \in Servers : Settled(s, lastUpdate - Delay) => s \in Range(servers)
    BY <2>2 DEF DiscoveryInv, CachedList
  <2>5. /\ Timeout # 0 => \A s \in Range(servers') : Recent(s, t, d)
        /\ \A s \in Servers : Settled(s, t - Delay) => s \in Range(servers')
    BY <1>2, <2>1, <2>3, <2>4
  <2> QED
    BY <1>0, <1>4, <2>1, <2>3, <2>4, <2>5
<1>5. ASSUME NEW list \in Lists, Update(list) PROVE FALSE
  BY <1>5 DEF Update
<1>6. PICK t \in Int :
         /\ t <= now /\ lastUpdate' = t
         /\ Range(servers') \subseteq Servers
         /\ Timeout # 0 => \A s \in Range(servers') : Recent(s, t, d)
         /\ \A s \in Servers : Settled(s, t - Delay) => s \in Range(servers')
  BY <1>3, <1>4, <1>5, ListEffect
<1>7. ASSUME Timeout # 0, NEW s \in Range(servers') PROVE Recent(s, t, d)'
  <2>1. d > 0 /\ s \in Servers /\ Recent(s, t, d)
    BY <1>2, <1>6, <1>7
  <2> QED
    BY <1>1, <1>6, <2>1, RecentStays
<1>8. PICK e \in Int : e = t - Delay
  OBVIOUS
<1>9. ASSUME NEW s \in Servers, Settled(s, e)' PROVE s \in Range(servers')
  <2>1. e <= now
    BY <1>0, <1>6, <1>8
  <2>2. Settled(s, e)
    BY <1>1, <1>9, <2>1, SettledBefore
  <2> QED
    BY <1>6, <1>8, <2>2
<1> QED
  <2>1. \A s : Recent(s, t, d)' => Recent(s, lastUpdate, Delay + Timeout + Delay)'
    BY <1>2, <1>6 DEF Recent
  <2>2. \A s : Settled(s, lastUpdate - Delay)' => Settled(s, e)'
    BY <1>6, <1>8 DEF Settled
  <2> QED
    BY <1>6, <1>7, <1>9, <2>1, <2>2

\* What is chosen had, when Refresh returned, the age of its list and less than
\* UpdateTimeout more.
LEMMA PickedIsRecent ==
    ASSUME RegistryInv, DiscoveryInv, NEW u \in Users, Pick(u), ~manual,
           NEW t, t = checkedAt[u]
    PROVE  /\ t \in Nat /\ got'.checked = t /\ got'.servers \subseteq Servers
           /\ Timeout # 0 => \A s \in got'.servers :
                 Recent(s, t, Delay + Timeout + Delay + UpdateTimeout)
           /\ \A s \in Servers :
                 Settled(s, t - UpdateTimeout - Delay) => s \in got'.all
<1> USE DiscoveryAssumption, RegistryAssumption
<1>0. now \in Nat /\ lastUpdate \in Int /\ index \in Nat /\ servers \in Seq(Addrs)
  BY DEF RegistryInv, RegistryTypeOK, DiscoveryInv, DiscoveryTypeOK
<1>1. t \in Nat /\ t < lastUpdate + UpdateTimeout
  BY DEF Pick, DiscoveryInv, Checked
<1>2. PICK S \in SUBSET Range(servers) : Chosen(u, S)
  <2>1. CASE servers # << >> /\ RoundRobin(u, Len(servers))
    <3>1. Len(servers) \in Nat /\ Len(servers) > 0
      BY <1>0, <2>1, EmptySeq, LenProperties
    <3>2. PICK i \in Int : i = (index % Len(servers)) + 1
      BY <1>0, <3>1
    <3>3. i \in 1 .. Len(servers)
      BY <1>0, <3>1, <3>2
    <3>4. servers[i] \in Range(servers)
      BY <1>0, <3>3, LenProperties DEF Range
    <3>5. Chosen(u, {servers[i]})
      BY <2>1, <3>2 DEF RoundRobin
    <3> QED
      BY <3>4, <3>5
  <2>2. CASE \/ Chosen(u, {}) \/ Chosen(u, Range(servers))
             \/ \E s \in Range(servers) : Chosen(u, {s})
    BY <2>2
  <2> QED
    BY <2>1, <2>2 DEF Pick
<1>3. got'.checked = t /\ got'.servers = S /\ got'.all = Range(servers)
  BY <1>2 DEF Chosen
<1>4. /\ Range(servers) \subseteq Servers
      /\ Timeout # 0 =>
           \A s \in Range(servers) : Recent(s, lastUpdate, Delay + Timeout + Delay)
      /\ \A s \in Servers : Settled(s, lastUpdate - Delay) => s \in Range(servers)
  BY DEF DiscoveryInv, CachedList
<1>5. ASSUME Timeout # 0, NEW s \in S
      PROVE  Recent(s, t, Delay + Timeout + Delay + UpdateTimeout)
  <2>1. s \in Servers /\ Recent(s, lastUpdate, Delay + Timeout + Delay)
    BY <1>4, <1>5
  <2>2. crashedAt[s] \in Nat
    BY <2>1 DEF RegistryInv, RegistryTypeOK
  <2> QED
    BY <1>0, <1>1, <2>1, <2>2 DEF Recent
<1>6. ASSUME NEW s \in Servers, Settled(s, t - UpdateTimeout - Delay)
      PROVE  s \in Range(servers)
  <2>1. since[s] \in Nat
    BY DEF RegistryInv, RegistryTypeOK
  <2>2. Settled(s, lastUpdate - Delay)
    BY <1>0, <1>1, <1>6, <2>1 DEF Settled
  <2> QED
    BY <1>4, <2>2
<1> QED
  BY <1>1, <1>2, <1>3, <1>4, <1>5, <1>6

\* A choice is only one in the state after it is made.
LEMMA ChoiceStep ==
    RegistryInv /\ DiscoveryInv /\ [DiscoveryNext]_vars => Choice'
<1> SUFFICES ASSUME RegistryInv, DiscoveryInv, [DiscoveryNext]_vars PROVE Choice'
  OBVIOUS
<1>1. ASSUME got' = Nothing PROVE Choice'
  BY <1>1 DEF Choice, Nothing
<1>2. ASSUME NEW u \in Users, Pick(u) PROVE Choice'
  <2>1. \E S : Chosen(u, S)
    BY <1>2 DEF Pick, RoundRobin
  <2>2. got'.manual = manual
    BY <2>1 DEF Chosen
  <2>3. UNCHANGED <<up, crashedAt, start, since, now>>
    BY <1>2 DEF Pick, registryVars, regVars, procVars
  <2>4. /\ \A s, t, d : Recent(s, t, d)' <=> Recent(s, t, d)
        /\ \A s, t : Settled(s, t)' <=> Settled(s, t)
    BY <2>3 DEF Recent, Settled, Listed
  <2>5. CASE ~manual
    <3>1. PICK t : t = checkedAt[u]
      OBVIOUS
    <3>2. /\ t \in Nat /\ got'.checked = t /\ got'.servers \subseteq Servers
          /\ Timeout # 0 => \A s \in got'.servers :
                Recent(s, t, Delay + Timeout + Delay + UpdateTimeout)
          /\ \A s \in Servers :
                Settled(s, t - UpdateTimeout - Delay) => s \in got'.all
      BY <1>2, <2>5, <3>1, PickedIsRecent
    <3>3. /\ \A s : Recent(s, t, Delay + Timeout + Delay + UpdateTimeout)
                    => Recent(s, got.checked, Delay + Timeout + Delay + UpdateTimeout)'
          /\ \A s : Settled(s, got.checked - UpdateTimeout - Delay)'
                    => Settled(s, t - UpdateTimeout - Delay)
      BY <2>3, <3>2 DEF Recent, Settled, Listed
    <3> QED
      BY <3>2, <3>3 DEF Choice
  <2> QED
    BY <2>2, <2>5 DEF Choice
<1>3. ASSUME NEW u \in Users, UserStep(u), ~Pick(u) PROVE got' = Nothing
  BY <1>3 DEF UserStep, Refresh, ServeGet, Refreshed, RefreshFail
<1>4. ASSUME NEW list \in Lists, Update(list) PROVE got' = Nothing
  BY <1>4 DEF Update
<1>5. CASE DiscoveryAdvance \/ \E s \in Servers : OfServer(s)
  BY <1>1, <1>5 DEF DiscoveryAdvance, OfServer
<1>6. CASE UNCHANGED vars
  <2>1. UNCHANGED <<up, crashedAt, start, since, now, got>>
    BY <1>6 DEF vars, registryVars, regVars, procVars, discoveryVars
  <2> QED
    BY <2>1 DEF DiscoveryInv, Choice, Recent, Settled, Listed
<1> QED
  BY <1>1, <1>2, <1>3, <1>4, <1>5, <1>6 DEF DiscoveryNext

\* Every reachable state of the discovery satisfies both invariants.
LEMMA DiscoveryInvariance == DiscoverySpec => [](RegistryInv /\ DiscoveryInv)
<1>1. DiscoveryInit => DiscoveryInv
  <2> SUFFICES ASSUME DiscoveryInit PROVE DiscoveryInv
    OBVIOUS
  <2> USE DiscoveryAssumption, RegistryAssumption
  <2>1. DiscoveryTypeOK
    <3>1. servers \in Seq(Addrs) /\ index \in Nat
      BY EmptySeq DEF DiscoveryInit
    <3>2. lastUpdate \in Int /\ askedAt \in Nat
      BY DEF DiscoveryInit
    <3>3. /\ resp \subseteq Servers /\ manual \in BOOLEAN
          /\ upc \in [Users -> {"idle", "asking", "answered", "pick"}]
      BY DEF DiscoveryInit
    <3> QED
      BY <3>1, <3>2, <3>3 DEF DiscoveryTypeOK
  <2>2. Locking /\ Checked /\ Answer
    <3>1. \A u \in Users : upc[u] = "idle"
      BY DEF DiscoveryInit
    <3>2. lastUpdate <= now
      BY DEF DiscoveryInit, Init
    <3> QED
      BY <3>1, <3>2 DEF Locking, Checked, Answer, Asking, DiscoveryInit
  <2>3. CachedList
    <3>1. Range(servers) = {}
      BY EmptySeq DEF DiscoveryInit, Range
    <3>2. \A s : ~Listed(s)
      BY DEF DiscoveryInit, Init, Listed
    <3> QED
      BY <3>1, <3>2 DEF CachedList, Settled
  <2>4. Choice
    BY DEF DiscoveryInit, Choice, Nothing
  <2> QED
    BY <2>1, <2>2, <2>3, <2>4 DEF DiscoveryInv
<1>2. RegistryInv /\ DiscoveryInv /\ [DiscoveryNext]_vars => DiscoveryInv'
  BY DiscoveryTypeStep, LockingStep, CheckedStep, AnswerStep, CachedListStep, ChoiceStep
     DEF DiscoveryInv, RegistryInv
<1>3. DiscoverySpec => []RegistryInv
  BY DiscoveryUsesTheRegistry, RegistryInvariance
<1> QED
  BY <1>1, <1>2, <1>3, PTL DEF DiscoverySpec

\* The two caches add their timeouts and a delay each: a server that a Get returns
\* had not crashed longer than that before the Get's Refresh returned, however long
\* the Get then waited for d.mu.
THEOREM StalenessIsBounded == DiscoverySpec => []StaleBound
<1>1. RegistryInv /\ DiscoveryInv => StaleBound
  <2> SUFFICES ASSUME RegistryInv, DiscoveryInv, Timeout # 0, ~got.manual,
                      NEW s \in got.servers
               PROVE  up[s] \/ got.checked < crashedAt[s] + Delay + Timeout + Delay + UpdateTimeout
    BY DEF StaleBound
  <2>1. s \in Servers /\ Recent(s, got.checked, Delay + Timeout + Delay + UpdateTimeout)
    BY DEF DiscoveryInv, Choice
  <2>2. crashedAt[s] \in Nat
    BY <2>1 DEF RegistryInv, RegistryTypeOK
  <2> QED
    BY <2>1, <2>2, RegistryAssumption, DiscoveryAssumption DEF Recent
<1> QED
  BY <1>1, DiscoveryInvariance, PTL

\* A server that was registered, when Refresh returned, longer than a list may be old
\* then, and still is, is on the list that the choice is made from.
THEOREM RegistrationIsNoticed == DiscoverySpec => []RegisteredServersAreSeen
<1>1. RegistryInv /\ DiscoveryInv => RegisteredServersAreSeen
  <2> SUFFICES ASSUME RegistryInv, DiscoveryInv, got.fresh, ~got.manual, NEW s \in Servers,
                      Listed(s), since[s] + UpdateTimeout + Delay < got.checked
               PROVE  s \in got.all
    BY DEF RegisteredServersAreSeen
  <2>1. since[s] \in Nat /\ got.checked \in Nat
    BY DEF RegistryInv, RegistryTypeOK, DiscoveryInv, Choice
  <2>2. Settled(s, got.checked - UpdateTimeout - Delay)
    BY <2>1, RegistryAssumption, DiscoveryAssumption DEF Settled
  <2> QED
    BY <2>2 DEF DiscoveryInv, Choice
<1> QED
  BY <1>1, DiscoveryInvariance, PTL

-----------------------------------------------------------------------------
(* The round robin.                                                        *)

\* The lists that users give to Update name no server twice.
NoDuplicates == \A l \in Lists : IsInjective(l)

\* Where on a list of n servers the j-th of the last r choices was made, when the
\* index is now i: the choices are those before i, backwards round the list.
Turn(i, n, r, j) == IF i - r + j >= 1 THEN i - r + j ELSE i - r + j + n

\* The choices since the list was replaced lie next to each other on it, up to the
\* index, and do not go round it more than once.
Rotation ==
    /\ IsInjective(servers)
    /\ round \in Seq(Addrs) /\ Len(round) <= Len(servers)
    /\ Len(round) # 0 => index < Len(servers)
    /\ \A j \in 1 .. Len(round) :
         round[j] = servers[Turn(index, Len(servers), Len(round), j)]

\* Division with remainder.
LEMMA Division ==
    ASSUME NEW n \in Nat \ {0}, NEW a \in Nat
    PROVE  \E q \in Int, x \in 0 .. n - 1 : x = a % n /\ a = n * q + x
<1>1. PICK q \in Int, x \in 0 .. n - 1 : q = a \div n /\ x = a % n /\ a = n * q + x
  BY SMTT(30)
<1> QED
  BY <1>1

\* The index and its successor, modulo the length of the list.
LEMMA NextIndex ==
    ASSUME NEW n \in Nat \ {0}, NEW i \in Nat
    PROVE  /\ i % n \in 0 .. n - 1
           /\ (i + 1) % n = IF i % n = n - 1 THEN 0 ELSE (i % n) + 1
           /\ i < n => i % n = i
<1>1. PICK q \in Int, x \in 0 .. n - 1 : x = i % n /\ i = n * q + x
  BY Division
<1>2. i < n => i % n = i
  BY SMTT(30)
<1>3. CASE x < n - 1
  <2>1. i + 1 = n * q + (x + 1) /\ x + 1 \in 0 .. n - 1
    BY <1>1, <1>3
  <2>2. PICK p \in Int, y \in 0 .. n - 1 : y = (i + 1) % n /\ i + 1 = n * p + y
    <3>1. i + 1 \in Nat
      OBVIOUS
    <3> QED
      BY <3>1, Division
  <2>3. PICK d \in Int : d = p - q /\ n * d = n * p - n * q
    BY SMTT(30)
  <2>4. n * d = x + 1 - y /\ -n < n * d /\ n * d < n
    BY <2>1, <2>2, <2>3
  <2>5. d = 0
    <3>1. CASE d >= 1
      <4>1. n * d >= n
        BY <3>1, SMTT(30)
      <4> QED
        BY <2>4, <4>1
    <3>2. CASE d <= -1
      <4>1. n * d <= -n
        BY <3>2, SMTT(30)
      <4> QED
        BY <2>4, <4>1
    <3> QED
      BY <3>1, <3>2
  <2>6. y = x + 1
    BY <2>4, <2>5
  <2> QED
    BY <1>1, <1>2, <1>3, <2>2, <2>6
<1>4. CASE x = n - 1
  <2>1. PICK m \in Int : m = q + 1
    BY <1>1
  <2>2. i + 1 = n * m
    <3>1. n * (q + 1) = n * q + n
      OBVIOUS
    <3> QED
      BY <1>1, <1>4, <2>1, <3>1
  <2>3. (i + 1) % n = 0
    BY <2>2, SMTT(30)
  <2> QED
    BY <1>1, <1>2, <1>4, <2>3
<1> QED
  BY <1>1, <1>3, <1>4

\* A choice goes to the place after the last one and, once they have gone round the
\* whole list, takes the place of the oldest.
LEMMA RotationByPick ==
    ASSUME DiscoveryTypeOK, Rotation, NEW u \in Users,
           servers # << >>, RoundRobin(u, Len(servers)), UNCHANGED servers
    PROVE  Rotation'
<1>1. PICK n \in Nat \ {0} : n = Len(servers)
  BY EmptySeq, LenProperties DEF DiscoveryTypeOK
<1>2. PICK i \in 0 .. n - 1 : i = index % n
  BY NextIndex DEF DiscoveryTypeOK
<1>3. PICK k \in 0 .. n - 1 : k = index' /\ k = IF i = n - 1 THEN 0 ELSE i + 1
  <2>1. index' = (index + 1) % n
    BY <1>1 DEF RoundRobin
  <2>2. index \in Nat
    BY DEF DiscoveryTypeOK
  <2>3. (index + 1) % n = IF i = n - 1 THEN 0 ELSE i + 1
    BY <1>2, <2>2, NextIndex
  <2> QED
    BY <2>1, <2>3
<1>4. PICK s \in Addrs : s = servers[i + 1]
  BY <1>1, <1>2, ElementOfSeq DEF DiscoveryTypeOK
<1>5. PICK old \in Seq(Addrs) : old = round
  BY DEF Rotation
<1>6. PICK r \in Nat : r = Len(old) /\ r <= n
  BY <1>1, <1>5, LenProperties DEF Rotation
<1>7. PICK t \in Seq(Addrs) : t = Append(old, s) /\ Len(t) = r + 1 /\ t[r + 1] = s
                              /\ \A j \in 1 .. r : t[j] = old[j]
  <2>1. /\ Append(old, s) \in Seq(Addrs) /\ Len(Append(old, s)) = Len(old) + 1
        /\ \A j \in 1 .. Len(old) : Append(old, s)[j] = old[j]
        /\ Append(old, s)[Len(old) + 1] = s
    BY AppendProperties
  <2> QED
    BY <1>6, <2>1, Zenon
<1>8. round' = Latest(n, t)
  BY <1>1, <1>2, <1>4, <1>5, <1>7 DEF RoundRobin
<1>9. \A j \in 1 .. r : t[j] = servers[Turn(i, n, r, j)]
  <2>1. r # 0 => i = index
    BY <1>1, <1>2, <1>5, <1>6, NextIndex DEF Rotation, DiscoveryTypeOK
  <2> QED
    BY <1>1, <1>5, <1>6, <1>7, <2>1 DEF Rotation
<1>10. PICK m \in Nat : m = IF r = n THEN n ELSE r + 1
  OBVIOUS
<1>11. r < n => /\ \A j \in 1 .. r : Turn(k, n, r + 1, j) = Turn(i, n, r, j)
                /\ Turn(k, n, r + 1, r + 1) = i + 1
  BY <1>3, <1>6 DEF Turn
<1>12. /\ \A j \in 1 .. n - 1 : Turn(k, n, n, j) = Turn(i, n, n, j + 1)
       /\ Turn(k, n, n, n) = i + 1
  BY <1>3 DEF Turn
<1>13. /\ round' \in Seq(Addrs) /\ Len(round') = m
       /\ \A j \in 1 .. m : round'[j] = t[r + 1 - m + j]
  <2>1. PICK a \in 1 .. 2 : a = r + 2 - m
    BY <1>6, <1>10
  <2>2. round' = SubSeq(t, a, r + 1)
    <3>1. CASE r = n
      <4>1. Len(t) > n /\ Len(t) - n + 1 = a /\ Len(t) = r + 1
        BY <1>7, <1>10, <2>1, <3>1
      <4> QED
        BY <1>8, <4>1 DEF Latest
    <3>2. CASE r # n
      <4>1. ~(Len(t) > n) /\ a = 1 /\ Len(t) = r + 1
        BY <1>6, <1>7, <1>10, <2>1, <3>2
      <4> QED
        BY <1>8, <4>1 DEF Latest
    <3> QED
      BY <3>1, <3>2
  <2>3. \A j \in a .. r + 1 : t[j] \in Addrs
    BY <1>7, <2>1, ElementOfSeq
  <2>4. /\ SubSeq(t, a, r + 1) \in Seq(Addrs)
        /\ Len(SubSeq(t, a, r + 1)) = IF a <= r + 1 THEN r + 1 - a + 1 ELSE 0
        /\ \A j \in 1 .. r + 1 - a + 1 : SubSeq(t, a, r + 1)[j] = t[a + j - 1]
    BY <2>3, SubSeqProperties
  <2>5. m >= 1
    BY <1>10
  <2>7. r + 1 - a + 1 = m /\ a <= r + 1
    BY <2>1, <2>5
  <2>6. \A j \in 1 .. m : a + j - 1 = r + 1 - m + j
    BY <1>10, <2>1
  <2> QED
    BY <2>2, <2>4, <2>6, <2>7
<1>14. \A j \in 1 .. m : t[r + 1 - m + j] = servers[Turn(k, n, m, j)]
  <2> SUFFICES ASSUME NEW j \in 1 .. m PROVE t[r + 1 - m + j] = servers[Turn(k, n, m, j)]
    OBVIOUS
  <2>1. CASE j = m
    <3>1. Turn(k, n, m, m) = i + 1
      BY <1>6, <1>10, <1>11, <1>12
    <3>2. r + 1 - m + j = r + 1
      BY <2>1
    <3> QED
      BY <1>4, <1>7, <2>1, <3>1, <3>2
  <2>2. CASE j # m /\ r < n
    <3>1. m = r + 1 /\ j \in 1 .. r /\ r + 1 - m + j = j
      BY <1>10, <2>2
    <3>2. Turn(k, n, m, j) = Turn(i, n, r, j)
      BY <1>11, <2>2, <3>1
    <3> QED
      BY <1>9, <3>1, <3>2
  <2>3. CASE j # m /\ r = n
    <3>1. m = n /\ j \in 1 .. n - 1 /\ j + 1 \in 1 .. r /\ r + 1 - m + j = j + 1
      BY <1>10, <2>3
    <3>2. Turn(k, n, m, j) = Turn(i, n, r, j + 1)
      BY <1>12, <2>3, <3>1
    <3> QED
      BY <1>9, <3>1, <3>2
  <2> QED
    BY <1>6, <2>1, <2>2, <2>3
<1>15. m <= n /\ k < n
  BY <1>6, <1>10
<1>16. IsInjective(servers)
  BY DEF Rotation
<1> QED
  BY <1>1, <1>3, <1>13, <1>14, <1>15, <1>16 DEF Rotation

\* Everything else leaves the choices alone, or starts over with another list.
LEMMA RotationStep ==
    NoDuplicates /\ DiscoveryTypeOK /\ Rotation /\ [DiscoveryNext]_vars => Rotation'
<1> SUFFICES ASSUME NoDuplicates, DiscoveryTypeOK, Rotation, [DiscoveryNext]_vars
             PROVE  Rotation'
  OBVIOUS
<1>1. CASE UNCHANGED <<servers, index, round>>
  BY <1>1 DEF Rotation
<1>2. CASE round' = << >> /\ IsInjective(servers') /\ servers' \in Seq(Addrs)
  <2>1. round' \in Seq(Addrs) /\ Len(round') = 0 /\ Len(servers') \in Nat
    BY <1>2, EmptySeq, LenProperties
  <2> QED
    BY <1>2, <2>1 DEF Rotation
<1>3. ASSUME NEW u \in Users, Refreshed(u) PROVE Rotation'
  <2>1. servers' = SortStrings[resp] /\ round' = << >>
    BY <1>3 DEF Refreshed, Sorted
  <2>2. SortStrings[resp] \in Seq(Addrs) /\ IsInjective(SortStrings[resp])
    BY DiscoveryAssumption DEF DiscoveryTypeOK
  <2> QED
    BY <1>2, <2>1, <2>2
<1>4. ASSUME NEW list \in Lists, Update(list) PROVE Rotation'
  <2>1. servers' = list /\ round' = << >>
    BY <1>4 DEF Update
  <2> QED
    BY <1>2, <2>1, DiscoveryAssumption DEF NoDuplicates
<1>5. ASSUME NEW u \in Users, Pick(u) PROVE Rotation'
  <2>1. \/ servers # << >> /\ RoundRobin(u, Len(servers))
        \/ UNCHANGED <<index, round>>
    BY <1>5 DEF Pick
  <2>2. UNCHANGED servers
    BY <1>5 DEF Pick, listVars
  <2> QED
    BY <1>1, <2>1, <2>2, RotationByPick
<1>6. ASSUME NEW u \in Users, Refresh(u) \/ ServeGet(u) \/ RefreshFail(u)
      PROVE  UNCHANGED <<servers, index, round>>
  BY <1>6 DEF Refresh, ServeGet, RefreshFail, listVars
<1>7. CASE DiscoveryAdvance \/ (\E s \in Servers : OfServer(s)) \/ UNCHANGED vars
  BY <1>1, <1>7 DEF DiscoveryAdvance, OfServer, listVars, discoveryVars, vars
<1> QED
  BY <1>1, <1>3, <1>4, <1>5, <1>6, <1>7 DEF DiscoveryNext, UserStep

\* The values of a sequence without repetition are as many as it is long.
LEMMA DistinctAreCounted ==
    ASSUME NEW A, NEW t \in Seq(A), IsInjective(t)
    PROVE  Cardinality(Range(t)) = Len(t)
<1>1. Len(t) \in Nat /\ DOMAIN t = 1 .. Len(t) /\ t \in [1 .. Len(t) -> Range(t)]
  <2>1. Len(t) \in Nat /\ DOMAIN t = 1 .. Len(t) /\ t \in [1 .. Len(t) -> A]
    BY LenProperties
  <2> QED
    BY <2>1 DEF Range
<1>2. t \in Bijection(1 .. Len(t), Range(t))
  BY <1>1 DEF Bijection, Injection, Surjection, Range
<1>3. ExistsBijection(1 .. Len(t), Range(t))
  BY <1>2 DEF ExistsBijection
<1> QED
  BY <1>1, <1>3, FS_CountingElements

\* Round robin visits every server of a list before it visits one again, from any
\* first index and while lists of any lengths replace each other, if the lists that
\* users give to Update have no duplicates.
THEOREM RoundRobinTakesTurns ==
    ASSUME NoDuplicates PROVE DiscoverySpec => []RoundRobinIsFair
<1>1. DiscoveryInit => Rotation
  <2> SUFFICES ASSUME DiscoveryInit PROVE Rotation
    OBVIOUS
  <2>1. servers = << >> /\ round = << >>
    BY DEF DiscoveryInit
  <2> QED
    BY <2>1, EmptySeq DEF Rotation, IsInjective
<1>2. DiscoveryInv /\ Rotation /\ [DiscoveryNext]_vars => Rotation'
  BY RotationStep DEF DiscoveryInv
<1>3. DiscoveryInv /\ Rotation => RoundRobinIsFair
  <2> SUFFICES ASSUME DiscoveryInv, Rotation PROVE RoundRobinIsFair
    OBVIOUS
  <2>1. PICK n \in Nat, r \in Nat : n = Len(servers) /\ r = Len(round) /\ r <= n
    BY LenProperties DEF DiscoveryInv, DiscoveryTypeOK, Rotation
  <2>2. ASSUME NEW j \in 1 .. r, NEW l \in 1 .. r, round[j] = round[l] PROVE j = l
    <3>1. index \in 0 .. n - 1 /\ n \in Nat \ {0}
      BY <2>1, <2>2 DEF DiscoveryInv, DiscoveryTypeOK, Rotation
    <3>2. PICK a, b : a = Turn(index, n, r, j) /\ b = Turn(index, n, r, l)
      OBVIOUS
    <3>3. a \in 1 .. n /\ b \in 1 .. n /\ (a = b => j = l)
      <4>1. PICK i \in 0 .. n - 1 : i = index
        BY <3>1
      <4>2. a \in 1 .. n /\ b \in 1 .. n
        BY <2>1, <2>2, <3>2, <4>1 DEF Turn
      <4>3. ASSUME a = b PROVE j = l
        BY <2>1, <2>2, <3>2, <4>1, <4>3 DEF Turn
      <4> QED
        BY <4>2, <4>3
    <3>4. servers[a] = servers[b]
      BY <2>1, <2>2, <3>2 DEF Rotation
    <3>5. DOMAIN servers = 1 .. n
      BY <2>1, LenProperties DEF DiscoveryInv, DiscoveryTypeOK
    <3>6. a = b
      BY <3>3, <3>4, <3>5 DEF Rotation, IsInjective
    <3> QED
      BY <3>3, <3>6
  <2>3. round \in Seq(Addrs) /\ DOMAIN round = 1 .. r
    BY <2>1, LenProperties DEF Rotation
  <2>4. IsInjective(round)
    BY <2>2, <2>3 DEF IsInjective
  <2> QED
    BY <2>3, <2>4, DistinctAreCounted DEF RoundRobinIsFair
<1> QED
  BY <1>1, <1>2, <1>3, DiscoveryInvariance, PTL DEF DiscoverySpec
=============================================================================
