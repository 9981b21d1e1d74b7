-------------------------------- MODULE Dial --------------------------------
(***************************************************************************)
(* How a connection comes to be: XDial, DialTimeout, NewClient and         *)
(* NewHTTPClient of MyRPC/client.go against the server's Accept or, over   *)
(* HTTP, ServeHTTP of MyRPC/server.go.                                     *)
(*                                                                         *)
(* One call of XDial.  DialTimeout starts a goroutine (the maker) that     *)
(* shakes hands and makes the client, and waits for it or for the timer on *)
(* an unbuffered channel.  A client has a goroutine of its own in receive. *)
(* The server that listens at the address may speak the other transport,   *)
(* be slow, be silent, or not be an RPC server at all.                     *)
(***************************************************************************)
EXTENDS Integers, Sequences, FiniteSets

CONSTANTS
    Addresses,   \* rpcAddr, as the sequence of its parts between "@"
    OptLists,    \* the options passed, a sequence of Options and Nil
    Nil

DefaultOption == [magic |-> TRUE, codec |-> "gob", timeout |-> TRUE]

\* The zero value of an Option has no magic number, codec or ConnectTimeout.
ZeroOption == [magic |-> FALSE, codec |-> "", timeout |-> FALSE]

ASSUME DialAssumption ==
    /\ \A a \in Addresses : a \in Seq({"tcp", "http", "addr"}) /\ a # << >>
    /\ \A l \in OptLists : l \in Seq([magic : BOOLEAN, codec : {"", "gob", "json"},
                                      timeout : BOOLEAN] \cup {Nil})

VARIABLES
    rpcAddr, opts,        \* the arguments of XDial
    dpc, opt, err,        \* DialTimeout, its option and named result err
    result,               \* what it returned: "none", "client" or "error"
    timedOut,             \* the timer was first
    maker, made,          \* the goroutine, and what it has for the channel
    rcv,                  \* the new client's receive
    listens, spc,         \* the server's transport, and its goroutine
    conn, sOpen,          \* the two ends of the connection
    c2s, s2c, lost        \* the streams, and what a buffer of HTTP took and dropped

argVars == <<rpcAddr, opts, listens>>
dialVars == <<dpc, opt, err, result, timedOut>>
makerVars == <<maker, made, rcv>>
wireVars == <<conn, sOpen, c2s, s2c, lost>>
vars == <<rpcAddr, opts, dpc, opt, err, result, timedOut, maker, made, rcv,
          listens, spc, conn, sOpen, c2s, s2c, lost>>

Item(k) == [k |-> k, opt |-> ZeroOption]
OptionItem(o) == [k |-> "option", opt |-> o]

\* The transport that XDial chooses.
OverHTTP == rpcAddr[1] = "http"

Init ==
    /\ rpcAddr \in Addresses /\ opts \in OptLists
    /\ dpc = "XDial" /\ opt = ZeroOption /\ err = FALSE
    /\ result = "none" /\ timedOut = FALSE
    /\ maker = "none" /\ made = "none" /\ rcv = "none"
    /\ listens \in {"tcp", "http"} /\ spc = "none"
    /\ conn = "none" /\ sOpen = FALSE
    /\ c2s = << >> /\ s2c = << >> /\ lost = << >>

-----------------------------------------------------------------------------
(* DialTimeout.                                                            *)

\* Mutant: the magic number is left to the user.
ParsedOption_NoMagic(o) == [o EXCEPT !.codec = IF @ = "" THEN "gob" ELSE @]

ParsedOption(o) == [o EXCEPT !.magic = TRUE, !.codec = IF @ = "" THEN "gob" ELSE @]

\* XDial and parseOptions: an address of two parts, at most one option.
Parse ==
    /\ dpc = "XDial"
    /\ \/ /\ Len(rpcAddr) # 2 \/ (Len(opts) > 1 /\ opts[1] # Nil)
          /\ result' = "error"
          /\ dpc' = "returned"
          /\ UNCHANGED opt
       \/ /\ Len(rpcAddr) = 2
          /\ opts # << >> => opts[1] = Nil
          /\ opt' = DefaultOption
          /\ dpc' = "connect"
          /\ UNCHANGED result
       \/ /\ Len(rpcAddr) = 2
          /\ Len(opts) = 1 /\ opts[1] # Nil
          /\ opt' = ParsedOption(opts[1])
          /\ dpc' = "connect"
          /\ UNCHANGED result
    /\ UNCHANGED <<argVars, err, timedOut, makerVars, spc, wireVars>>

\* net.DialTimeout succeeds: the server accepts, and the maker is started ...
Connect ==
    /\ dpc = "connect"
    /\ conn' = "open" /\ sOpen' = TRUE
    /\ spc' = IF listens = "http" THEN "http" ELSE "option"
    /\ maker' = IF OverHTTP THEN "connect" ELSE "codec"
    /\ dpc' = "select"
    /\ UNCHANGED <<argVars, opt, err, result, timedOut, made, rcv, c2s, s2c, lost>>

\* ... or it does not.
ConnectFail ==
    /\ dpc = "connect"
    /\ result' = "error"
    /\ dpc' = "returned"
    /\ UNCHANGED <<argVars, opt, err, timedOut, makerVars, spc, wireVars>>

\* ch <- clientResult{...} meets <-ch, the only case without a ConnectTimeout.
Receive ==
    /\ dpc = "select"
    /\ maker = "send"
    /\ maker' = "ended"
    /\ err' = (made = "error")
    /\ dpc' = "return"
    /\ UNCHANGED <<argVars, opt, result, timedOut, made, rcv, spc, wireVars>>

\* Mutant: there is no timer.
TimerArmed_Never == FALSE

\* ConnectTimeout is not 0.
TimerArmed == opt.timeout

\* time.After; nobody will receive from ch.
Timer ==
    /\ dpc = "select"
    /\ TimerArmed
    /\ err' = TRUE
    /\ timedOut' = TRUE
    /\ dpc' = "return"
    /\ UNCHANGED <<argVars, opt, result, makerVars, spc, wireVars>>

\* Mutants: the connection is closed whatever the outcome; only an error of the
\* maker closes it.
Closing_Always == TRUE
Closing_NotOnTimeout == err /\ ~timedOut

Closing == err

\* return, and the deferred Close.
Return ==
    /\ dpc = "return"
    /\ result' = IF err THEN "error" ELSE "client"
    /\ conn' = IF Closing THEN "closed" ELSE conn
    /\ dpc' = "returned"
    /\ UNCHANGED <<argVars, opt, err, timedOut, makerVars, spc, sOpen, c2s, s2c, lost>>

-----------------------------------------------------------------------------
(* The maker: NewHTTPClient and NewClient.                                 *)

\* Bytes reach the peer while both ends are open.
Written(item) == IF conn = "open" /\ sOpen THEN Append(c2s, item) ELSE c2s

\* Mutant: the option follows without waiting for the response.
Connected_Eager == "codec"

Connected == "response"

\* io.WriteString of the CONNECT request, whose error is not looked at.
WriteConnect ==
    /\ maker = "connect"
    /\ c2s' = Written(Item("connect"))
    /\ maker' = Connected
    /\ UNCHANGED <<argVars, dialVars, made, rcv, spc, conn, sOpen, s2c, lost>>

\* http.ReadResponse through a bufio.Reader, which may take n more values and is
\* dropped with them.
ReadResponse(n) ==
    /\ maker = "response"
    /\ conn = "open" /\ n < Len(s2c)
    /\ s2c' = SubSeq(s2c, n + 2, Len(s2c))
    /\ lost' = lost \o SubSeq(s2c, 2, n + 1)
    /\ \/ /\ Head(s2c).k = "200 Connected"
          /\ maker' = "codec"
          /\ UNCHANGED made
       \/ /\ Head(s2c).k # "200 Connected"
          /\ maker' = "send"
          /\ made' = "error"
    /\ UNCHANGED <<argVars, dialVars, rcv, spc, conn, sOpen, c2s>>

ReadResponseFail ==
    /\ maker = "response"
    /\ conn = "closed" \/ (~sOpen /\ s2c = << >>)
    /\ maker' = "send"
    /\ made' = "error"
    /\ UNCHANGED <<argVars, dialVars, rcv, spc, wireVars>>

\* NewClient: the codec's constructor, if there is one.
FindCodec ==
    /\ maker = "codec"
    /\ \/ /\ opt.codec = "gob"
          /\ maker' = "encode"
          /\ UNCHANGED made
       \/ /\ opt.codec # "gob"
          /\ maker' = "send"
          /\ made' = "error"
    /\ UNCHANGED <<argVars, dialVars, rcv, spc, wireVars>>

\* Send the option; then the client is made and its receive started.  A write
\* to a connection that the peer has closed may still succeed.
Encode ==
    /\ maker = "encode"
    /\ conn = "open"
    /\ c2s' = Written(OptionItem(opt))
    /\ maker' = "send"
    /\ made' = "client"
    /\ rcv' = "reading"
    /\ UNCHANGED <<argVars, dialVars, spc, conn, sOpen, s2c, lost>>

\* Or it fails, and NewClient closes the connection itself.
EncodeFail ==
    /\ maker = "encode"
    /\ conn = "closed" \/ ~sOpen
    /\ conn' = "closed"
    /\ maker' = "send"
    /\ made' = "error"
    /\ UNCHANGED <<argVars, dialVars, rcv, spc, sOpen, c2s, s2c, lost>>

\* The client's receive reads a response, or ends on anything else.
ClientReceive ==
    /\ rcv = "reading"
    /\ \/ /\ conn = "open" /\ s2c # << >>
          /\ s2c' = Tail(s2c)
          /\ rcv' = IF Head(s2c).k = "response" THEN "reading" ELSE "exited"
       \/ /\ conn = "closed" \/ (~sOpen /\ s2c = << >>)
          /\ rcv' = "exited"
          /\ UNCHANGED s2c
    /\ UNCHANGED <<argVars, dialVars, maker, made, spc, conn, sOpen, c2s, lost>>

\* The user's first request; more would show nothing new here.
UserSend ==
    /\ dpc = "returned" /\ result = "client"
    /\ c2s' = Written(Item("request"))
    /\ dpc' = "requested"
    /\ UNCHANGED <<argVars, opt, err, result, timedOut, makerVars, spc, conn, sOpen, s2c,
                   lost>>

-----------------------------------------------------------------------------
(* The server.                                                             *)

Answer(item) == s2c' = IF conn = "open" THEN Append(s2c, item) ELSE s2c

\* net/http reads a request; its buffer may take n more values, which Hijack
\* returns and ServeHTTP drops.  It answers what is no CONNECT request, and
\* ServeHTTP answers no other method, with an error.
ReadHTTP(n) ==
    /\ spc = "http"
    /\ n < Len(c2s)
    /\ c2s' = SubSeq(c2s, n + 2, Len(c2s))
    /\ lost' = lost \o SubSeq(c2s, 2, n + 1)
    /\ \/ /\ Head(c2s).k = "connect"
          /\ spc' = "hijack"
          /\ UNCHANGED <<s2c, sOpen>>
       \/ /\ Head(c2s).k # "connect"
          /\ Answer(Item("other status"))
          /\ spc' = "refused" /\ sOpen' = FALSE
    /\ UNCHANGED <<argVars, dialVars, makerVars, conn>>

\* ServeHTTP: take the connection over, answer and run ServerConn on it ...
Hijack ==
    /\ spc = "hijack"
    /\ Answer(Item("200 Connected"))
    /\ spc' = "option"
    /\ UNCHANGED <<argVars, dialVars, makerVars, conn, sOpen, c2s, lost>>

\* ... or not: Hijack fails, or another handler has the path.
OtherStatus ==
    /\ spc = "hijack"
    /\ Answer(Item("other status"))
    /\ spc' = "closed" /\ sOpen' = FALSE
    /\ UNCHANGED <<argVars, dialVars, makerVars, conn, c2s, lost>>

\* ServerConn decodes and checks the option.  The JSON decoder may buffer n more
\* values, which the codec will not see; RpcServer shows what comes of that.
ReadOption(n) ==
    /\ spc = "option"
    /\ n < Len(c2s)
    /\ c2s' = SubSeq(c2s, n + 2, Len(c2s))
    /\ \/ /\ Head(c2s).k = "option" /\ Head(c2s).opt.magic /\ Head(c2s).opt.codec = "gob"
          /\ spc' = "serving"
          /\ UNCHANGED sOpen
       \/ /\ ~(Head(c2s).k = "option" /\ Head(c2s).opt.magic /\ Head(c2s).opt.codec = "gob")
          /\ spc' = "refused" /\ sOpen' = FALSE
    /\ UNCHANGED <<argVars, dialVars, makerVars, conn, s2c, lost>>

\* It serves a request.
Serve ==
    /\ spc = "serving"
    /\ c2s # << >>
    /\ c2s' = Tail(c2s)
    /\ Answer(Item("response"))
    /\ UNCHANGED <<argVars, dialVars, makerVars, spc, conn, sOpen, lost>>

\* It sees the client's end closed, or goes away.
Hangup ==
    /\ sOpen
    /\ spc' = "closed" /\ sOpen' = FALSE
    /\ UNCHANGED <<argVars, dialVars, makerVars, conn, c2s, s2c, lost>>

-----------------------------------------------------------------------------
DialStep == Parse \/ Connect \/ ConnectFail \/ Receive \/ Timer \/ Return
MakerStep == \/ WriteConnect
             \/ \E n \in 0 .. Len(s2c) : ReadResponse(n)
             \/ ReadResponseFail \/ FindCodec \/ Encode \/ EncodeFail
ServerStep == \/ \E n \in 0 .. Len(c2s) : ReadHTTP(n) \/ ReadOption(n)
              \/ Hijack \/ OtherStatus \/ Serve \/ Hangup

Next == DialStep \/ MakerStep \/ ClientReceive \/ UserSend \/ ServerStep

Spec == Init /\ [][Next]_vars

\* The client's goroutines run and its timer expires.  Nothing is assumed of the
\* server, which may never answer.
FairSpec == Spec /\ WF_vars(DialStep \/ MakerStep \/ ClientReceive)

-----------------------------------------------------------------------------
\* A client that Dial returns is made on an open connection, which the timer that
\* lost the race does not close (client.go:253-257); over HTTP the server has
\* taken the connection out of HTTP (client.go:304).
ClientIsConnected ==
    result = "client" => /\ conn = "open"
                         /\ OverHTTP => spc \in {"option", "serving", "refused", "closed"}

\* The bytes that each side buffers while it speaks HTTP are dropped with the
\* buffer (client.go:303, server.go:259): there must be nothing of RPC in them.
HandshakeSwallowsNothing == OverHTTP => lost = << >>

\* A server refuses what it reads only from a client of the other transport:
\* whatever Option the user gives, parseOptions and NewClient make it one that
\* ServerConn accepts (client.go:160-175, server.go:68-82).
OptionAccepted == spc = "refused" => OverHTTP # (listens = "http")

\* XDial returns whatever the server does, except that without a ConnectTimeout
\* the HTTP handshake may wait for ever (client.go:263-266).
DialReturns ==
    <>[](\/ result # "none"
         \/ OverHTTP /\ ~opt.timeout)

\* A dial that fails leaves neither an open connection nor a receive behind, also
\* when the client is made after the timeout; what stays is the maker of a dial
\* that timed out, on its channel (client.go:261).
FailedDialLeavesNothing ==
    <>[](result = "error" => /\ conn # "open"
                             /\ rcv # "reading"
                             /\ maker \in {"none", "ended"} \/ (timedOut /\ maker = "send"))
=============================================================================
