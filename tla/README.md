# Verification of learn_Distributed

TLA+ models of the distributed parts of this repository: the RPC framework
`MyRPC` (dialling, client, codec, server, registry, discovery, XClient) and the
distributed cache `MyCache`. TLC checks the models on small instances; every
safety property is also proved with TLAPS, for every value of the constants that the
models allow, some under hypotheses which section 4 names.

`PROJECT.json` lists the components, the runs, the lines that every definition
models (`map`), the hazards, the findings and the theorems.

## 1. Inventory

### MyRPC

| Part | State | Operations | Interacts with |
|---|---|---|---|
| Client (`client.go`) | `seq`, `pend`, `closing`, `shutdown`; mutexes `send`, `mu`; one `Call` per use with its `Done` channel | `Go`, `Call`, `Send`, `Close`, the goroutine `receive`, `terminateCalls` | the codec; any number of calling goroutines; contexts |
| Codec (`codec/gob.go`) | a buffered writer with a sticky error, the connection | `Write` (header, body, flush, close on error), `ReadHeader`, `ReadBody` | client, server |
| Server connection (`server.go`) | the mutex `send`, the `WaitGroup`, per request two goroutines and two unbuffered channels | `ServerConn`, `serverCodec`, `readRequest`, `handleRequest`, `sendResponse` | codec, services |
| Services (`service.go`) | the service map: per name the methods found by reflection | `Register`, `findService`, `call` | server |
| Registry (`registry/registry.go`) | address to time of the last POST | `putServer`, `aliveServers`, `ServeHTTP` | heartbeats, discovery |
| Heartbeat (`registry/registry.go`) | a ticker and a goroutine in every server | `Heartbeat`, `sendHeartbeat` | registry |
| Discovery (`xclient/discovery*.go`) | server list, round robin index, time of the last update, `d.mu` | `Refresh`, `Update`, `Get`, `GetAll` | registry, XClient |
| XClient (`xclient/xclient.go`) | cache of clients, `X.mu`; per `Broadcast` the first error, the reply and a context | `dial`, `Call`, `Broadcast`, `Close` | clients, discovery |
| Dialling, HTTP transport (`client.go`, `server.go`) | a goroutine, a timer and a channel per dial; the buffers of the handshake | `XDial`, `DialTimeout`, `NewClient`, `NewHTTPClient`; `Accept`, `ServeHTTP` | client, server |
| Debug page (`debug.go`) | none | `ServeHTTP` | services |

### MyCache

| Part | State | Operations | Interacts with |
|---|---|---|---|
| Group (`mycache.go`, `cache.go`) | `mainCache`, `peers`, `loader` | `Get`, `load`, `getFromPeer`, `getLocally` | all below, the user's Getter |
| Single flight (`singleflight.go`) | the map `m`, a `WaitGroup` per call | `Do` | Group |
| LRU (`lru/lru.go`) | list, map, byte count | `Get`, `Add`, `RemoverOldest` | `cache` |
| HTTP pool (`http.go`) | the mutex, the ring and one getter per peer | `Set`, `PickPeer`, `ServeHTTP`, `httpGetter.Get` | peers |
| Ring (`consistenthash.go`) | sorted hashes, hash to node | `Add`, `Get` | HTTP pool |
| Node program (`main/main.go`) | `g.peers`, written while it is read | `startCacheServer`, `startAPIServer` | all above |

The rest of the repository (two watchdog programs, a go-kit exercise, a log tool,
Vault calls, demos, generated protobuf code, notes) has no concurrent state of
its own.

### What is hard, and what correct means

* **Client.** Three parties may complete a call (a failed write, the receiver,
  `terminateCalls`), the caller may leave at any moment, and `done()` blocks on a
  full channel, with locks held. Correct: each call is completed exactly once or
  abandoned, with its own reply; the stream is never corrupted; the loss of the
  connection ends every call.
* **Dialling.** A timer races the goroutine that makes the client, and over HTTP
  both ends read through buffers that they drop. Correct: a client that is returned
  has its connection, a dial that fails leaves none behind, and nothing of the RPC
  protocol is lost in a buffer.
* **Server.** Loop, handlers and workers write to one stream; a timer races the
  method; services are registered while they are looked up; a panic ends the
  process, or, recovered by net/http, the connection. Correct: one whole response per
  request, which reports a success only of a method that may be called and was run;
  the loop does not close the connection before its handlers are done; no goroutine of
  the connection waits for ever (a worker whose handler timed out does, see below).
* **Both together.** What the client assumes of its peer holds of this server, and the
  other way round, and what the client reports is what the server did.
* **Registry and discovery.** Two caches with two timeouts between a server and
  its users, and a list that is checked under the lock and used after it. Correct:
  bounds on how stale the list may be when its check lets a user go on, in both
  directions.
* **XClient.** Shared connections that die under their users, and a broadcast that
  cancels itself. Correct: no connection is leaked, the first error is reported.
* **Cache.** One load per key and node at a time, across nodes that call each
  other, start, crash and panic. Correct: the value of the key that was asked for,
  no circular wait, bounded memory.
* **Ring and pools.** Every node builds its own ring, from a list in any order.
  Correct: a key belongs to the next virtual node, all nodes agree, and a change of
  peers moves only the keys it has to.

## 2. Modules

```
RpcClient <--- RpcClientProofs        Dial <--- DialProofs
    :             :                   XClient <--- XClientProofs
RpcConnection <--- RpcConnectionProofs
    :             :                   Registry <--- Discovery <--- DiscoveryProofs
RpcServer <--- RpcServerProofs
    |                                 CacheGroup <--- CacheGroupProofs
    v                                     |
Service                                   v
                                      ConsistentHash
                                          ^
                                          |
                                      HTTPPool <--- HTTPPoolProofs
```

An arrow points to the module that is EXTENDed. RpcConnection has an INSTANCE of the
client and one of the server (dotted) and refines the `Spec` of both;
RpcConnectionProofs has an INSTANCE of each one's proofs. Service and
ConsistentHash are operators only; of the others each that has a run of its own has
an `MC` module with its constants. The theorems are in the `Proofs` modules.

**RpcClient.** One action per step between two points where another goroutine may
interfere. Critical sections under `mu` are atomic, since `mu` is held across a
blocking operation only in the loop of `terminateCalls`, where the locks are
states (`Terminating`). Send is `Register`, `WriteHeader`, `WriteBody` (with the
flush), `CloseConn`, `Remove`, `SendDone`; Call's select is `Await` and `Cancel`;
receive is `RecvHeader`, `RecvFail`, `RecvRemove`, `RecvBody`, `RecvDone`;
terminateCalls is `TerminateLock`, `Notify`, `NotifyDone`, `TerminateEnd`. The peer
reads, answers in any order, breaks off or hangs up. `completions` is a history
variable, and so is the difference between the results "ctx" (the call was still
pending when Call gave up) and "late". A write to a connection whose peer is gone
may succeed or fail. When either end is closed a read may fail at once: what is in
flight may be lost.

**Service.** Reflection as operators: which methods `registerMethods` lets through,
from the kinds of their parameter and result types, what `findService` finds, which
replies `newReplyv` panics on (those whose type has no elements), and on which it
makes a value of another type, so that the call of the method panics.

**RpcServer.** Threads are the connection's loop and, per request, a handler and a
worker; the unbuffered channels are joint steps (`Called`, `Sent`). `ReadAhead` is
the number of values that the option's `json.Decoder` may take beyond the option.
gob values are whole: a decoder that is out of step with the stream (`desync`, or a
body where a header is due, or the other way round) reports an error. `Register` may
happen at any time. A method returns nil, an error with a text or one with an empty
text (`Returns`); the header has only the text, so the last is answered without an error
(`Called`), with invalidRequest for a body. A panic of a method or of its call, and
`log.Fatal`, are `Die`: every goroutine stops where it is and the connection is closed.
`newReplyv` panics on the connection's goroutine, in a step of its own after the header
has been read: on a connection from `Accept` that is `Die` too (`ReplyPanic`), on one
from `ServeHTTP` net/http recovers it, the deferred Close closes the connection, and the
handlers and their workers go on (`RecoveredPanic`). A connection may be either, so both
can follow. The peer numbers its requests 1, 2, 3; one whose write fails on the body
(`PeerBreak`) leaves a header alone.

**Dial.** One call of XDial, from parsing the address and the options to the first
request, with the server's side up to serving. The maker's send on the unbuffered
channel and the receive in DialTimeout are one step; after `Timer` nobody is left
to receive. A reader with a buffer takes any number of the values that have
arrived behind the one it wants; `lost` is what was dropped with a buffer of HTTP.
The option's decoder buffers too, as in RpcServer, and what it drops is not in `lost`:
it is the subject of the run `connection_read_ahead`. The server may speak the other
transport, answer anything, go away or do nothing.

**RpcConnection.** The two modules over the same four wire variables. What each assumes
of its peer becomes a history of what the other one did: RpcClient's `handling` has
the requests that the server has read and not answered, RpcServer's `sent` those that
the client has written. The properties `ClientSpec` and `ServerSpec` are the two
modules' own specifications: every step of the server is a step of RpcClient's peer or
a stutter, and every step of the client one of RpcServer's peer.

**Registry.** A clock that advances only when nothing due is left to do; requests
take up to `Delay`. Tickers have a channel of one tick. Servers crash and restart;
requests and responses may be lost unless `Reliable`.

**Discovery.** Extends Registry with one discovery and its users. `d.mu` is held
from the expiry check to the end of the HTTP request, and free between a user's
Refresh and its choice: time passes there, the list may expire, and another user's
refresh may hold the lock and fail. `checkedAt` is the time at which Refresh returned,
`got` what a Get or GetAll that ends with the step returns. `sort.Strings` is the constant `SortStrings`, of which only
its contract is assumed: the list of a set has each member once.

**XClient.** Workers are uses of `X.call`. `X.mu` is held while dialling. A client
is reduced to what RpcClient says of it: available or not, and a call on it ends
with a reply, an error, or its context's error.

**CacheGroup.** Threads are goroutines in `Get`, on any node: a user's, or that of
a peer's `ServeHTTP`. `Do` is split at every unlock, so that the window between
`wg.Done` and `delete` exists. The LRU is the recency list with the bytes of each
entry and the counter `nbytes`; the eviction loop is part of `Added`. A request that
the caller has given up on goes on at the peer. Nodes start without peers; the two
words of `g.peers` are written in two steps, and a Get between the two may see nil,
the pool, or an interface with a nil pool (the data race between
`startCacheServer` and the API server). A crash takes a node's goroutines, cache and
ring with it. A panic of the Getter ends its goroutine and nothing else, for
net/http recovers it. Keys are sequences of characters, and what arrives at the peer
is the key after `QueryEscape` and the decoding of a URL's path.

**ConsistentHash, HTTPPool.** The ring as operators on the sorted hashes and the
map from hash to peer, with the hash function as a parameter and `sort.Ints` as the
constant `SortInts`, under its contract `SortedVersion`; HTTPPool has pools
that are set, set again and registered. That a pool is registered only with a ring
(`IsSet`) is the order in which main.go makes the two calls, and no check. Its initial states have every hash function
into `0 .. MaxHash`, those with collisions included.

## 3. Runs

| Run | Shows |
|---|---|
| `client` | one call made with Call and two with Go that share one Done channel of capacity 1, one argument that gob refuses, one reply that does not decode: `TypeOK`, `CompletedAtMostOnce`, `NoLostCall`, `RightReply`, `CancelledStaysSilent`, `SyncDoneNeverBlocks`, `RequestFraming`, `NoWriteAfterShutdown`; and `LossEndsEveryCall`, although the receiver may block on the shared channel with both mutexes held |
| `server` | `AtMostOneResponse`, `ResponseFraming`, `SuccessMeansExecuted`, `ClosedAfterHandlers`, `ConnectionSettles` for three requests, one for a method that is not offered, one with arguments that may not decode, one with a reply that gob may refuse, while two receivers of one name and one that is not exported are registered, with errors that have no text, with panics that net/http recovers and others, with and without a timeout, and for the options that are refused |
| `connection` | the refinements `ClientSpec` and `ServerSpec`; `ResultIsTrue`; `EveryCallEnds` when the option arrives on its own, also when the server dies |
| `dial` | `ClientIsConnected`, `HandshakeSwallowsNothing`, `OptionAccepted`, `DialReturns`, `FailedDialLeavesNothing` for both transports on both sides and every kind of option |
| `cache` | `SingleFlight`, `RightValue`, `ForwardedOnce`, `CacheBounded`, `GetsReturn`, with nodes that start and crash and Getters that fail and panic |
| `pool` | `SuccessorOwns`, `RingsAgree`, `PickedPeerCanBeAsked`, `MinimalMovement` under every hash function on a ring of four places |
| `discovery` | over the registry, with a server that crashes and restarts and a network that loses requests: `CrashedServersExpire`, `StaleBound`, `RegisteredServersAreSeen`; `RoundRobinIsFair` over lists that grow and shrink under the index |
| `xclient` | `NoClientLeaked`, `FirstErrorIsReported`, `BroadcastIsAllOrError`, `FailsFast` |

`ClosedAfterHandlers` is about every step that closes the server's end. It may find
goroutines that have yet to answer in three cases only: their own write has just failed
(`gob.go:49-51`), net/http has recovered a panic of `newReplyv` (`server.go:63-65`), or
the process ends. The Close of the loop itself comes after `wait.Wait()`.

`SuccessMeansExecuted` and `ResultIsTrue` say of a success that the method was run once
and did not return an error with a text. That it returned nil is not so: the client takes
an empty `Error` for a sign that the server is fine (`client.go:121`), and the server
copies the text of an error, empty or not (`server.go:222`).

`StaleBound` and `RegisteredServersAreSeen` measure from the return of a Get's Refresh.
The choice comes later by as long as the goroutine is not scheduled, and as other users'
refreshes hold `d.mu`, which the code does not bound: the list may have expired by then,
although Get refreshes "to make sure that the list has not expired"
(`discovery_my.go:64`). It is a list that was good enough when Refresh returned, or one
that has replaced it.

Four runs end in a violation; each is a finding:

* `connection_read_ahead`: a first request that arrives in the same packet as the
  option is swallowed by the option's decoder (`server.go:68`), and the call hangs.
* `server_unknown_method`: the body of a request for an unknown method is not read
  (`server.go:179`); it is taken for a header and the connection is closed.
* `registry_heartbeat`: `t.Stop()` inside the loop (`registry.go:108`) ends the
  heartbeats after the second one.
* `cache_key_escaping`: a key with a space is put into a URL's path by
  `QueryEscape` (`http.go:92`) and arrives with a plus sign, so the value of another
  key is returned.

Three more disagreements of the code with its comments are in the models and have no run
of their own: an error without a text and a list that expires before the choice (both
above), and a method whose reply is no pointer, which `newReplyv` says it must be
(`service.go:35`), which `registerMethods` lets through, and whose first request panics.
What that panic does to the connection and to the calls is checked in the runs `server`
and `connection`.

Deadlock is checked only for the pools, which can always be set again: in every
other model the users may have nothing left to do. Instead the progress properties say what must not get stuck.

### Bounds

* Client: three calls are the least with which one call is completed by the
  receiver, one by its own Send and one by the shutdown at the same time, and with
  which responses of two are reordered around the cancellation of a third. Each
  call is made once; sequence numbers follow. (A `uint64` does not wrap in practice
  and is a natural number.)
* Server: two requests race each other and a third one makes the loop answer. Two
  receivers are the least that compete for a name.
* Dial: one dial, as dials share nothing; the values on the streams are bounded by
  the one request that is sent.
* Connection: two calls, one of each kind, one of them for a method that is not
  offered, the other with a reply that may not decode; of two receivers of one name one
  makes `newReplyv` panic.
* Cache: two nodes, two keys, three Gets, so that one node has a leader and a
  waiter (a user's and a forwarded one) and both keys compete for one cache. With
  entries of 1 or 3 bytes and room for 2, both keys fit, or an entry is larger than
  the cache and displaces everything, itself included; a key loaded twice changes its
  size. `MaxHops` is 2: a second hop is possible, and is what `ForwardedOnce`
  excludes. One crash. The nodes are given the same peers in different orders and
  without collisions, so that their rings agree once they are set.
* Pool: three peers with two virtual nodes each on four places, so that every
  order, gap, repetition and collision of hashes occurs; 4096 hash functions.
* Registry (`registry_heartbeat`): entries are independent of each other, so one
  server is enough; eleven ticks contain both heartbeats and the expiry. Timeout 5,
  period 2 and delay 1 have the order of the defaults (5 min, 4 min, a network
  delay).
* Discovery: five ticks are the sum of both timeouts and delays, so a server that
  crashes at once may be chosen until the last of them and no longer, and a crash, the
  expiry it leads to and a restart happen. Two users are the least of which one refreshes
  while the other waits for its choice. Round robin is checked for lists of
  up to three servers, given to Update at time 0, with the index starting beyond the
  list's end; its random start near MaxInt32 is reduced modulo the list's length
  before the first addition.
* XClient: three workers, each of which dials at most once, so three clients; the
  bound is never reached.

### Fairness

Weak fairness of the disjunction of the steps of the goroutines that the Go
scheduler will run (`Progress`): calls, receiver, server loop, handlers, workers,
Gets. While some goroutine can run one does; since all behaviours of these models
are finite it need not be said of each. Properties of the form `<>[]` then speak of
what is left when nothing can run any more. XClient states it per goroutine. Beyond
that:

* users read the Done channels they gave to `Go` (`Drain`); `Go` panics on
  an unbuffered channel, and nothing works if nobody ever reads a full one;
* timers expire; a method returns only where no timeout protects the handler
  (option "plain" of the run `server`);
* the Getter returns or panics, and a peer's goroutine runs; a request to a peer
  has no timeout, and nothing makes it fail;
* in XClient, XDial ends, by its connect timeout (10 s in `DefaultOption`); that it
  does is `DialReturns` of the run `dial`, and without a timeout it need not;
* nothing is assumed of the peer, of the server that is dialled, of Close, of contexts or of crashes.

## 4. Proofs

Each theorem holds for every value of the constants that the `ASSUME`s of its model
allow: any number of calls, requests, servers, users, nodes, keys and hash functions,
any timeouts, delays and capacities. The invariants below were checked by TLC on the
instances of section 3 before they were proved; `TypeOK` of the server, on which its
other proofs rest, is proved only.

| Module | Theorem | States |
|---|---|---|
| `RpcClientProofs` | `TypeCorrect` | `Spec => []TypeOK` |
| | `CompletionIsUnique` | `Spec => []CompletedAtMostOnce` |
| | `CallsAreNotLost` | `Spec => []NoLostCall` |
| | `CancellationIsFinal` | `Spec => []CancelledStaysSilent` |
| | `SyncCompletionIsPrompt` | `Spec => []SyncDoneNeverBlocks` |
| | `ShutdownIsQuiet` | `Spec => NoWriteAfterShutdown` |
| | `RepliesAreRight` | `Spec => []RightReply` |
| | `RequestsAreFramed` | `Spec => []RequestFraming` |
| `RpcServerProofs` | `TypeCorrect` | `Spec => []TypeOK` |
| | `OneResponsePerRequest` | `Spec => []AtMostOneResponse` |
| | `ResponsesAreFramed` | `Spec => []ResponseFraming` |
| | `SuccessIsARun` | `Spec => []SuccessMeansExecuted` |
| | `ServedConnectionsAreDrained` | `Spec => ClosedAfterHandlers` |
| `RpcConnectionProofs` | `ServerImplementsPeer` | `Spec => ClientSpec`, a refinement |
| | `ClientImplementsPeer` | `Spec => ServerSpec`, a refinement |
| | `ResultsAreTrue` | `Spec => []ResultIsTrue` |
| | `PromisesHoldTogether` | `Spec =>` seven invariants of the two sides, always, and `ClosedAfterHandlers` |
| `DialProofs` | `ReturnedClientsAreConnected` | `Spec => []ClientIsConnected` |
| | `NothingIsSwallowed` | `Spec => []HandshakeSwallowsNothing` |
| | `OptionsAreAccepted` | `Spec => []OptionAccepted` |
| `XClientProofs` | `ClientsAreNotLeaked` | `Spec => []NoClientLeaked` |
| | `BroadcastReportsTheCause` | `Spec => []FirstErrorIsReported` |
| | `BroadcastTellsTheTruth` | `Spec => []BroadcastIsAllOrError` |
| `DiscoveryProofs` | `CrashedServersAreDropped` | `Spec => []CrashedServersExpire` (the registry alone) |
| | `DiscoveryUsesTheRegistry` | `DiscoverySpec => Spec`, a refinement |
| | `StalenessIsBounded` | `DiscoverySpec => []StaleBound` |
| | `RegistrationIsNoticed` | `DiscoverySpec => []RegisteredServersAreSeen` |
| | `RoundRobinTakesTurns` | `DiscoverySpec => []RoundRobinIsFair`, if `NoDuplicates` |
| `CacheGroupProofs` | `LoadsAreSingle` | `Spec => []SingleFlight` |
| | `ValuesAreRight` | `Spec => []RightValue`, if `NoSpaces` |
| | `ForwardingEnds` | `Spec => []ForwardedOnce`, if `NoSpaces` and `RingsAlike` |
| | `CachesAreBounded` | `Spec => []CacheBounded` |
| `HTTPPoolProofs` | `KeysGoToTheirSuccessor` | `Spec => []SuccessorOwns` |
| | `OwnersAgree` | `Spec => []RingsAgree` |
| | `PickedPeersHaveGetters` | `Spec => []PickedPeerCanBeAsked` |
| | `KeysMoveForAReason` | `Spec => MinimalMovement` |

### Arguments

Hardly any of the properties is inductive; each module has an invariant that is, one
lemma per part of it, and in each lemma one step per action.

**Client.** `CompletedAtMostOnce` says nothing of who is about to complete a call.
`IndInv` adds to the types:

* `Locking`: `send` has at most one holder, `shutdown` is set exactly from
  `TerminateLock` on, and nobody is writing then;
* `Numbering`: sequence numbers are positive and unique, and `pend` maps each to
  the call that has it. So the removal that a refused call's cancellation makes
  (Seq 0) hits nobody;
* `Owners`: whoever may complete a call, or finds it in `pend` before shutdown,
  finds it not yet completed, and `pend`, the receiver and the rest of
  terminateCalls' loop never hold the same call. This is where it matters that
  `pend` is not emptied by `terminateCalls`: after shutdown an entry means nothing,
  and only because no Send is under way can no one act on it;
* `Accounted`: a call that was sent and is neither completed nor abandoned has an
  owner;
* `Replies`, `OwnChannel`: what a cancelled call and a private channel look like.

A second invariant, `Wire`, rests on the first and follows the messages. The buffer
holds the header of the one writer (`Buffer`); both streams are headers followed by
their bodies, whole as long as the writer's end is open (`Requests`, `Responses`);
every message carries the number of its call (`Stamps`); between a header and its body
the receiver has the body of that header next (`Expecting`). With `Numbering` a reply
is decoded only into the call it is for.

**Server.** `Phase` lists how far the loop, the handler and the worker of a request can
be at the same time, and how many responses that makes: who wins the race at `called`
answers, the other never does. It needs `Requests` (a request that is still on the
stream has no goroutines, and there is one header of each) and `Writer` (one holder of
`send`, whose header is all there is in the buffer), from which `ResponseFraming`
follows. `Registered`, `Outcomes` and `Succeeded` carry the fact that a method may be
called from `Register` to the response that reports its success: a request with a handler
is `Offered`, that is, stored with a reply on which `newReplyv` does not panic, and once
its method has run the call has not panicked either (`IsCallable`), so the reply is a
pointer. `ClosedAfterHandlers` needs, beside `Phase`, only that the loop closes from
"drain", when `wait.Wait()` is through. `History` keeps what
the run and the answer of a request were after its response has left the stream, which
is what the connection needs.

**Connection.** Neither refinement can be proved first. That a step of the server is one
of RpcClient's peer follows from the server's invariant, which holds only if the client
has behaved like RpcServer's peer so far, and that it has follows from the client's
invariant, which needs the server in the same way. So one induction carries both
invariants: as long as they hold, a step of either side is one that the other module
allows (`BothSides`), and then the lemmas `Step` of the two proof modules, cited through
INSTANCE, carry both invariants over it. What ties the two together is `Link`:

* `Numbers`: the client's next sequence number is one more than the number of requests
  sent, or two more if a call is being written, as long as the connection is up. A
  write that fails keeps it only because it leads to the end of the connection;
* `Duties`: a request that the server has read and not answered (`Pending`, over the
  loop, the handler and the worker) is one that RpcClient's peer may answer.

`Learnt` says that what a call, or the receiver between header and body, has been told
is what the server said (`Said`); with `History` of the server that is `ResultIsTrue`.
`PromisesHoldTogether` combines the two refinements with the theorems about each side.

**Dial.** `Dialling` is the order of the steps of DialTimeout and the maker, with and
without a timeout; `Connection` says that a client that was made loses its connection
only if DialTimeout returns an error; `Handshake` that while the two sides speak HTTP
there is never more than the one CONNECT request on one stream and its one answer on
the other, so the dropped buffers have nothing else in them; `Accepting` that the
option is what a server of the same transport finds first.

**XClient.** `DialLock`: one worker at a time is in XDial, for an address without an
entry, so the entry it makes overwrites no client. `Outcomes` and `Settled` tie the
variables of a broadcast to the outcomes of the workers that are done; the first error
is not a cancellation because nobody has cancelled before it.

**Registry and discovery.** `LastWord`: the last request of a server that is down was
sent before the crash, so its entry is at most `Delay` younger. The proofs about the
discovery start from the refinement: its steps are steps of the registry or leave it
alone, so the registry's invariant holds there too. `Answer`, `CachedList` and
`Choice` bound the age of what is known at each of the three places where it is kept,
each from the one before; `Checked` keeps that the list of a user on its way to the
choice was fresh when Refresh returned, also when another user's answer has replaced it,
and `Locking` bounds how long a request is under way. The proof of `StalenessIsBounded` needed the condition
`Timeout # 0` in `StaleBound`: a registry whose entries never expire bounds nothing.
`Rotation` says that the choices since the last change of the list are the places
before the index, backwards round the list and at most once around, which is kept
although the index may begin beyond the list's end. Round robin is fair only on lists
without duplicates (`NoDuplicates`): the registry's lists have none, and Update does
not look for them.

**Cache.** `Structure` says who is in a node's map (`Flights`: exactly the threads
between Do's insertion and its deletion, and those that panicked, for ever), who waits
for whom and which thread serves which. `Values` adds that every value, in a cache,
in a shared call or in an answer, is that of its key. This is false for keys with a space
(run `cache_key_escaping`), hence the hypothesis `NoSpaces`; the lemma that the other
keys survive `QueryEscape` and the path's decoding is where it is used. `Owned` adds
that a forwarded request is at the owner of its key, if all rings that the pools may be
set with agree (`RingsAlike`, which `OwnersAgree` gives for equal sets of peers without
collisions). Both hypotheses hold of the run `cache`.

`CachesAreBounded` needs neither. `Bytes` is a recursive function on the list, and what it
computes is derived without an induction principle: `SumsExist`, `BytesAreSums` and the
lemmas on parts of a list take the least place where a sum could fail, which exists as
the natural numbers are well founded, and contradict it. From them: a list cut off at
the back, an entry put in front and one taken out have the bytes one expects
(`BytesOfParts`, `BytesPut`, `BytesRemoved`). Then `Kept`, that the counter is right, the
limit kept and no key listed twice, is an invariant of `Added`, `Touched` and a new
cache; the eviction loop stops at the latest at the empty list, whose bytes are 0,
because the counter is right.

**Ring and pools.** The lemma `Nearest` is about the ring alone: for every hash function
and list, Get returns a peer that has the first virtual node in clockwise direction,
also when the search runs off the end, when the ring is empty and when peers collide.
`SuccessorOwns` is its consequence. Distances from a key are different for different
places, so without collisions the owner depends on the set of peers only: that is
`RingsAgree`. If the owners before and after a change are peers both before and after
it, each one's virtual node was a candidate for the other, so they are the same:
`MinimalMovement`.

### Assumptions

They are the `ASSUME`s of the models; TLC evaluates them in the runs.

* Connection (`ConnectionAssumption`): those of the client and of the server.
* Client: `Call` makes a channel of capacity 1 for itself, and `Go` refuses an
  unbuffered one.
* Server: the signatures that reflection reports are lists of kinds; a request has a
  method name.
* `sort.Strings` and `sort.Ints` do what their documentation says; nothing else about
  them is assumed.
* Pools: lists name no peer twice, and there is at least one virtual node per peer.
* CacheGroup (`RingAssumption`): what arrives at a peer is again a key, and the ring
  names a peer of its list or nobody. The second is what `Nearest` proves.

### Only model-checked

Every liveness property: `LossEndsEveryCall`, `ConnectionSettles`, `EveryCallEnds`,
`DialReturns`, `FailedDialLeavesNothing`, `GetsReturn` and `FailsFast`. Liveness under
fairness is beyond the prover.

## 5. Not modelled

* The goroutine of a method whose handler timed out stays blocked on `called`; the
  model has it (state "called"), no property asks it to end. The maker of a dial
  that timed out stays on its channel; `FailedDialLeavesNothing` says that it is all
  that stays.
* Rings that disagree for good (peers that collide, or pools set with different
  lists): `RingsAgree` says when they do not, and CacheGroup assumes it. Nodes that
  disagree may forward to each other in a circle and wait for each other.
* An HTTP request without timeout that never ends (Discovery assumes `Delay`), and
  a heartbeat that fails once and for all.
* A network write that blocks because the peer does not read.
* The counter `numCalls` and the debug page, which only show something; the eviction
  callback of the LRU, which is nil; Len of the LRU.
* Groups other than the one that every node has: `GetGroup` always finds it, and
  requests for another path do not occur between nodes.
* The composition of XClient with Discovery: XClient takes any choice of a server
  or an error, so its properties hold for whatever a stale list leads to.
* Watchdog programs (a loop of an ioctl and a sleep), go-kit exercise and log tool
  (stateless, or configuration of libraries), Vault examples, demos, generated code.

## 6. Plan

Every component with concurrent state is modelled, and every invariant and action
property that a run checks is proved. What could be added:

* the composition of XClient with RpcConnection and Discovery, so that "a call on a
  client ends with a reply, an error or its context's error" is refined rather than
  assumed;
* an HTTP request that never ends, and a heartbeat loop that ends after one failure
  (section 5), as further findings, once the code says what should happen then.
