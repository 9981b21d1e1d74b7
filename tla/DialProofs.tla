---------------------------- MODULE DialProofs -----------------------------
(***************************************************************************)
(* Proofs about dialling, for any addresses and options and any server.    *)
(*                                                                         *)
(* Dialling says in which order DialTimeout and the maker move, Connection *)
(* which ends are open meanwhile, Handshake what is on the streams while   *)
(* the two sides speak HTTP, and Accepting what a server of the client's   *)
(* own transport finds.                                                    *)
(***************************************************************************)
EXTENDS Dial, SequenceTheorems, TLAPS

Option == [magic : BOOLEAN, codec : {"", "gob", "json"}, timeout : BOOLEAN]
Kinds == {"connect", "200 Connected", "other status", "option", "request", "response"}
Value == [k : Kinds, opt : Option]

ControlTypeOK ==
    /\ opts \in OptLists
    /\ dpc \in {"XDial", "connect", "select", "return", "returned", "requested"}
    /\ opt \in Option
    /\ result \in {"none", "client", "error"}
    /\ maker \in {"none", "connect", "response", "codec", "encode", "send", "ended"}
    /\ made \in {"none", "client", "error"}
    /\ rcv \in {"none", "reading", "exited"}
    /\ listens \in {"tcp", "http"}
    /\ spc \in {"none", "http", "hijack", "option", "serving", "refused", "closed"}
    /\ conn \in {"none", "open", "closed"}
FlagTypeOK == err \in BOOLEAN /\ timedOut \in BOOLEAN /\ sOpen \in BOOLEAN
StreamTypeOK == c2s \in Seq(Value) /\ s2c \in Seq(Value) /\ lost \in Seq(Value)
DialTypeOK == ControlTypeOK /\ FlagTypeOK /\ StreamTypeOK

\* DialTimeout and the maker: the maker runs once there is a connection, has a
\* result when it has ended, and an error stays one.
Dialling ==
    /\ dpc \in {"XDial", "connect"} => maker = "none" /\ result = "none" /\ ~err
    /\ dpc = "connect" => opt.magic
    /\ maker = "none" => dpc \in {"XDial", "connect", "returned"} /\ result # "client"
    /\ maker # "none" => dpc \notin {"XDial", "connect"} /\ opt.magic
    /\ maker \in {"connect", "response"} => OverHTTP
    /\ maker = "encode" => opt.codec = "gob"
    /\ made # "none" <=> maker \in {"send", "ended"}
    /\ err => dpc \in {"return", "returned"}
    /\ dpc = "return" /\ ~err => made = "client"
    /\ result = "client" => ~err /\ made = "client" /\ dpc \in {"returned", "requested"}
    /\ dpc = "requested" => result = "client"

\* The connection: there is none before the maker is, a client that was made
\* keeps its own unless DialTimeout returned an error, and the server's end is
\* open while the server runs.
Connection ==
    /\ maker = "none" => /\ spc = "none" /\ conn = "none"
                         /\ c2s = << >> /\ s2c = << >> /\ lost = << >>
    /\ maker # "none" => spc # "none" /\ conn # "none"
    /\ made = "client" => conn = "open" \/ (dpc = "returned" /\ err)
    /\ sOpen <=> spc \in {"http", "hijack", "option", "serving"}
    /\ spc \in {"http", "hijack"} => listens = "http"

\* Over HTTP the server has got at most the CONNECT request until it answers, the
\* client at most the answer until it has read it, and only then goes on.
Handshake ==
    OverHTTP =>
        /\ lost = << >>
        /\ maker = "connect" => c2s = << >>
        /\ spc = "http" \/ maker \in {"connect", "response"} =>
             c2s \in {<< >>, <<Item("connect")>>}
        /\ maker \in {"connect", "response"} => spc # "serving" /\ Len(s2c) <= 1
        /\ spc \in {"http", "hijack"} => /\ s2c = << >>
                                         /\ maker \notin {"codec", "encode"}
                                         /\ made # "client"

\* A server of the client's transport is sent the option first, and a good one.
Good(item) == item.k = "option" /\ item.opt.magic /\ item.opt.codec = "gob"
Accepting ==
    (OverHTTP <=> listens = "http") =>
        /\ spc = "hijack" => c2s = << >> /\ maker # "connect"
        /\ spc = "option" => /\ maker # "connect"
                             /\ IF made = "client" THEN c2s # << >> /\ Good(Head(c2s))
                                ELSE c2s = << >>
        /\ spc # "refused"

IndInv == DialTypeOK /\ Dialling /\ Connection /\ Handshake /\ Accepting

-----------------------------------------------------------------------------
(* Types.                                                                  *)

\* What is put on the streams.
LEMMA ItemType ==
    ASSUME opt \in Option
    PROVE  /\ \A k \in Kinds : Item(k) \in Value
           /\ OptionItem(opt) \in Value
<1>1. ZeroOption \in Option
  BY DEF ZeroOption, Option
<1>2. \A k \in Kinds, o \in Option : [k |-> k, opt |-> o] \in Value
  BY DEF Value
<1>3. "option" \in Kinds
  BY DEF Kinds
<1> QED
  BY <1>1, <1>2, <1>3 DEF Item, OptionItem

\* The streams after a write.
LEMMA WriteType ==
    ASSUME StreamTypeOK, NEW v \in Value
    PROVE  Written(v) \in Seq(Value) /\ (Answer(v) => s2c' \in Seq(Value))
<1>1. Append(c2s, v) \in Seq(Value) /\ Append(s2c, v) \in Seq(Value)
  BY AppendProperties DEF StreamTypeOK
<1> QED
  BY <1>1 DEF StreamTypeOK, Written, Answer

\* A reader with a buffer takes the first value and n more.
LEMMA BufferType ==
    ASSUME NEW s \in Seq(Value), NEW n \in 0 .. Len(s), n < Len(s)
    PROVE  /\ SubSeq(s, n + 2, Len(s)) \in Seq(Value)
           /\ SubSeq(s, 2, n + 1) \in Seq(Value)
<1>1. Len(s) \in Nat /\ \A i \in 1 .. Len(s) : s[i] \in Value
  BY LenProperties, ElementOfSeq
<1>2. /\ n + 2 \in Int /\ n + 1 \in Int /\ Len(s) \in Int
      /\ \A i \in n + 2 .. Len(s) : s[i] \in Value
      /\ \A i \in 2 .. n + 1 : s[i] \in Value
  BY <1>1
<1>3. SubSeq(s, n + 2, Len(s)) \in Seq(Value)
  BY <1>2, SubSeqProperties
<1>4. SubSeq(s, 2, n + 1) \in Seq(Value)
  BY <1>2, SubSeqProperties
<1> QED
  BY <1>3, <1>4

\* parseOptions makes an Option with the magic number of whatever it is given.
LEMMA ParsedType ==
    ASSUME ControlTypeOK, Parse
    PROVE  opt' \in Option /\ (dpc' = "connect" => opt'.magic)
<1>1. opts \in Seq(Option \cup {Nil})
  BY DialAssumption DEF ControlTypeOK, Option
<1>2. opts # << >> /\ opts[1] # Nil => opts[1] \in Option
  BY <1>1
<1>3. Len(<< >>) = 0 /\ DefaultOption \in Option /\ DefaultOption.magic
  BY DEF DefaultOption, Option
<1>4. \A o \in Option : ParsedOption(o) \in Option /\ ParsedOption(o).magic
  BY DEF ParsedOption, Option
<1>5. CASE dpc' = "connect" /\ opt' = DefaultOption
  BY <1>3, <1>5
<1>6. CASE /\ dpc' = "connect" /\ opt' = ParsedOption(opts[1])
           /\ Len(opts) = 1 /\ opts[1] # Nil
  <2>1. opts[1] \in Option
    BY <1>2, <1>3, <1>6
  <2> QED
    BY <1>4, <1>6, <2>1
<1>7. CASE dpc' = "returned" /\ UNCHANGED opt
  BY <1>7 DEF ControlTypeOK
<1> QED
  BY <1>5, <1>6, <1>7 DEF Parse

\* The program counters and the option.
LEMMA ControlTypeStep == DialTypeOK /\ [Next]_vars => ControlTypeOK'
<1> SUFFICES ASSUME ControlTypeOK, [Next]_vars PROVE ControlTypeOK'
  BY DEF DialTypeOK
<1> USE DEF ControlTypeOK, argVars, dialVars, makerVars, wireVars
<1>1. CASE UNCHANGED vars
  BY <1>1 DEF vars
<1>2. CASE Parse
  BY <1>2, ParsedType DEF Parse
<1>3. CASE DialStep
  BY <1>2, <1>3 DEF DialStep, Connect, ConnectFail, Receive, Timer, Return
<1>4. CASE MakerStep
  BY <1>4 DEF MakerStep, WriteConnect, Connected, ReadResponse, ReadResponseFail,
              FindCodec, Encode, EncodeFail
<1>5. CASE ClientReceive \/ UserSend
  BY <1>5 DEF ClientReceive, UserSend
<1>6. CASE ServerStep
  BY <1>6 DEF ServerStep, ReadHTTP, Hijack, OtherStatus, ReadOption, Serve, Hangup
<1> QED
  BY <1>1, <1>3, <1>4, <1>5, <1>6 DEF Next

\* The flags.
LEMMA FlagTypeStep == DialTypeOK /\ [Next]_vars => FlagTypeOK'
<1> SUFFICES ASSUME FlagTypeOK, [Next]_vars PROVE FlagTypeOK'
  BY DEF DialTypeOK
<1> USE DEF FlagTypeOK, argVars, dialVars, makerVars, wireVars
<1>1. CASE UNCHANGED vars
  BY <1>1 DEF vars
<1>2. CASE DialStep
  BY <1>2 DEF DialStep, Parse, Connect, ConnectFail, Receive, Timer, Return
<1>3. CASE MakerStep
  BY <1>3 DEF MakerStep, WriteConnect, Connected, ReadResponse, ReadResponseFail,
              FindCodec, Encode, EncodeFail
<1>4. CASE ClientReceive \/ UserSend
  BY <1>4 DEF ClientReceive, UserSend
<1>5. CASE ServerStep
  BY <1>5 DEF ServerStep, ReadHTTP, Hijack, OtherStatus, ReadOption, Serve, Hangup
<1> QED
  BY <1>1, <1>2, <1>3, <1>4, <1>5 DEF Next

\* The streams.
LEMMA StreamTypeStep == DialTypeOK /\ [Next]_vars => StreamTypeOK'
<1> SUFFICES ASSUME opt \in Option, StreamTypeOK, [Next]_vars PROVE StreamTypeOK'
  BY DEF DialTypeOK, ControlTypeOK
<1>0. /\ Item("connect") \in Value /\ Item("request") \in Value
      /\ Item("200 Connected") \in Value /\ Item("other status") \in Value
      /\ Item("response") \in Value /\ OptionItem(opt) \in Value
  BY ItemType DEF Kinds
<1>1. CASE UNCHANGED <<c2s, s2c, lost>>
  BY <1>1 DEF StreamTypeOK
<1>2. CASE WriteConnect
  <2>1. Written(Item("connect")) \in Seq(Value)
    BY <1>0, WriteType
  <2> QED
    BY <1>2, <2>1 DEF WriteConnect, StreamTypeOK
<1>3. ASSUME NEW n \in 0 .. Len(s2c), ReadResponse(n) PROVE StreamTypeOK'
  <2>1. /\ SubSeq(s2c, n + 2, Len(s2c)) \in Seq(Value)
        /\ SubSeq(s2c, 2, n + 1) \in Seq(Value)
    BY <1>3, BufferType DEF ReadResponse, StreamTypeOK
  <2>2. lost \o SubSeq(s2c, 2, n + 1) \in Seq(Value)
    BY <2>1, ConcatProperties DEF StreamTypeOK
  <2> QED
    BY <1>3, <2>1, <2>2 DEF ReadResponse, StreamTypeOK
<1>4. CASE Encode
  <2>1. Written(OptionItem(opt)) \in Seq(Value)
    BY <1>0, WriteType
  <2> QED
    BY <1>4, <2>1 DEF Encode, StreamTypeOK
<1>5. CASE ClientReceive
  BY <1>5, HeadTailProperties DEF ClientReceive, StreamTypeOK
<1>6. CASE UserSend
  <2>1. Written(Item("request")) \in Seq(Value)
    BY <1>0, WriteType
  <2> QED
    BY <1>6, <2>1 DEF UserSend, StreamTypeOK
<1>7. ASSUME NEW n \in 0 .. Len(c2s), ReadHTTP(n) PROVE StreamTypeOK'
  <2>1. /\ SubSeq(c2s, n + 2, Len(c2s)) \in Seq(Value)
        /\ SubSeq(c2s, 2, n + 1) \in Seq(Value)
    BY <1>7, BufferType DEF ReadHTTP, StreamTypeOK
  <2>2. lost \o SubSeq(c2s, 2, n + 1) \in Seq(Value)
    BY <2>1, ConcatProperties DEF StreamTypeOK
  <2>3. Answer(Item("other status")) => s2c' \in Seq(Value)
    BY <1>0, WriteType
  <2> QED
    BY <1>7, <2>1, <2>2, <2>3 DEF ReadHTTP, StreamTypeOK
<1>8. CASE Hijack \/ OtherStatus \/ Serve
  <2>1. /\ Answer(Item("200 Connected")) => s2c' \in Seq(Value)
        /\ Answer(Item("other status")) => s2c' \in Seq(Value)
        /\ Answer(Item("response")) => s2c' \in Seq(Value)
    BY <1>0, WriteType
  <2>2. c2s # << >> => Tail(c2s) \in Seq(Value)
    BY HeadTailProperties DEF StreamTypeOK
  <2> QED
    BY <1>8, <2>1, <2>2 DEF Hijack, OtherStatus, Serve, StreamTypeOK
<1>9. ASSUME NEW n \in 0 .. Len(c2s), ReadOption(n) PROVE StreamTypeOK'
  <2>1. SubSeq(c2s, n + 2, Len(c2s)) \in Seq(Value)
    BY <1>9, BufferType DEF ReadOption, StreamTypeOK
  <2> QED
    BY <1>9, <2>1 DEF ReadOption, StreamTypeOK
<1> QED
  BY <1>1, <1>2, <1>3, <1>4, <1>5, <1>6, <1>7, <1>8, <1>9
     DEF Next, DialStep, MakerStep, ServerStep, vars, wireVars, Parse, Connect,
         ConnectFail, Receive, Timer, Return, ReadResponseFail, FindCodec, EncodeFail,
         Hangup

-----------------------------------------------------------------------------
(* The parts of the invariant.                                             *)

\* DialTimeout and the maker hand over as Dialling says.
LEMMA DiallingStep == DialTypeOK /\ Dialling /\ [Next]_vars => Dialling'
<1> SUFFICES ASSUME ControlTypeOK, FlagTypeOK, Dialling, [Next]_vars PROVE Dialling'
  BY DEF DialTypeOK
<1> USE DEF ControlTypeOK, FlagTypeOK, Dialling, OverHTTP,
            argVars, dialVars, makerVars, wireVars
<1>1. CASE UNCHANGED vars
  BY <1>1 DEF vars
<1>2. CASE Parse
  BY <1>2, ParsedType DEF Parse
<1>3. CASE Connect
  BY <1>3 DEF Connect
<1>4. CASE ConnectFail
  BY <1>4 DEF ConnectFail
<1>5. CASE Receive
  BY <1>5 DEF Receive
<1>6. CASE Timer
  BY <1>6 DEF Timer
<1>7. CASE Return
  BY <1>7 DEF Return
<1>8. CASE WriteConnect
  BY <1>8 DEF WriteConnect, Connected
<1>9. ASSUME NEW n \in 0 .. Len(s2c), ReadResponse(n) PROVE Dialling'
  BY <1>9 DEF ReadResponse
<1>10. CASE ReadResponseFail
  BY <1>10 DEF ReadResponseFail
<1>11. CASE FindCodec
  BY <1>11 DEF FindCodec
<1>12. CASE Encode
  BY <1>12 DEF Encode
<1>13. CASE EncodeFail
  BY <1>13 DEF EncodeFail
<1>14. CASE UserSend
  BY <1>14 DEF UserSend
<1>15. CASE ClientReceive \/ ServerStep
  <2>1. UNCHANGED <<rpcAddr, dpc, opt, err, result, maker, made>>
    BY <1>15 DEF ClientReceive, ServerStep, ReadHTTP, Hijack, OtherStatus, ReadOption,
                 Serve, Hangup
  <2> QED
    BY <2>1
<1> QED
  BY <1>1, <1>2, <1>3, <1>4, <1>5, <1>6, <1>7, <1>8, <1>9, <1>10, <1>11, <1>12, <1>13,
     <1>14, <1>15 DEF Next, DialStep, MakerStep

\* The two ends of the connection follow the dial and the server.
LEMMA ConnectionStep ==
    DialTypeOK /\ Dialling /\ Connection /\ [Next]_vars => Connection'
<1> SUFFICES ASSUME ControlTypeOK, FlagTypeOK, Dialling, Connection, [Next]_vars
             PROVE  Connection'
  BY DEF DialTypeOK
<1> USE DEF ControlTypeOK, FlagTypeOK, Dialling, Connection,
            argVars, dialVars, makerVars, wireVars
<1>1. CASE UNCHANGED vars
  BY <1>1 DEF vars
<1>2. CASE Parse
  BY <1>2 DEF Parse
<1>3. CASE Connect
  BY <1>3 DEF Connect
<1>4. CASE ConnectFail
  BY <1>4 DEF ConnectFail
<1>5. CASE Receive
  BY <1>5 DEF Receive
<1>6. CASE Timer
  BY <1>6 DEF Timer
<1>7. CASE Return
  BY <1>7 DEF Return, Closing
<1>8. CASE MakerStep
  <2>1. /\ maker # "none" /\ maker' # "none"
        /\ UNCHANGED <<spc, sOpen, listens, dpc, err>>
    BY <1>8 DEF MakerStep, WriteConnect, Connected, ReadResponse, ReadResponseFail,
                FindCodec, Encode, EncodeFail
  <2>2. \/ UNCHANGED conn /\ (made' # "client" \/ conn = "open")
        \/ conn' = "closed" /\ made' = "error"
    BY <1>8 DEF MakerStep, WriteConnect, Connected, ReadResponse, ReadResponseFail,
                FindCodec, Encode, EncodeFail
  <2> QED
    BY <2>1, <2>2
<1>9. CASE ClientReceive \/ UserSend
  BY <1>9 DEF ClientReceive, UserSend
<1>10. CASE ServerStep
  BY <1>10 DEF ServerStep, ReadHTTP, Hijack, OtherStatus, ReadOption, Serve, Hangup
<1> QED
  BY <1>1, <1>2, <1>3, <1>4, <1>5, <1>6, <1>7, <1>8, <1>9, <1>10 DEF Next, DialStep

\* When one value is there, a reader with a buffer takes it and nothing else.
LEMMA BufferOfOne ==
    ASSUME NEW s, Len(s) <= 1, NEW n \in 0 .. Len(s), n < Len(s)
    PROVE  /\ s # << >>
           /\ SubSeq(s, n + 2, Len(s)) = << >> /\ SubSeq(s, 2, n + 1) = << >>
<1>1. n = 0 /\ Len(s) = 1
  OBVIOUS
<1>2. s # << >>
  BY <1>1
<1> QED
  BY <1>1, <1>2, SubSeqEmpty

\* The server's reader finds the CONNECT request and nothing behind it.
LEMMA ReadConnect ==
    ASSUME StreamTypeOK, Handshake, OverHTTP, NEW n \in 0 .. Len(c2s), ReadHTTP(n)
    PROVE  c2s # << >> /\ c2s' = << >> /\ lost' = << >> /\ spc' = "hijack"
<1>1. c2s = << >> \/ c2s = <<Item("connect")>>
  BY DEF ReadHTTP, Handshake
<1>2. /\ c2s # << >>
      /\ SubSeq(c2s, n + 2, Len(c2s)) = << >> /\ SubSeq(c2s, 2, n + 1) = << >>
  <2>1. n < Len(c2s)
    BY DEF ReadHTTP
  <2>2. Len(<< >>) = 0 /\ Len(<<Item("connect")>>) = 1
    OBVIOUS
  <2>3. Len(c2s) = 0 \/ Len(c2s) = 1
    BY <1>1, <2>2
  <2>4. Len(c2s) <= 1
    BY <2>3
  <2> QED
    BY <2>1, <2>4, BufferOfOne
<1>3. c2s' = << >> /\ lost' = << >>
  BY <1>2, ConcatEmptySeq DEF ReadHTTP, Handshake, StreamTypeOK
<1>4. Head(c2s).k = "connect"
  BY <1>1, <1>2 DEF Item
<1> QED
  BY <1>2, <1>3, <1>4 DEF ReadHTTP

\* Over HTTP each side waits for the other's one message, so a buffer finds
\* nothing to take.
LEMMA HandshakeStep ==
    DialTypeOK /\ Dialling /\ Connection /\ Handshake /\ [Next]_vars => Handshake'
<1> SUFFICES ASSUME ControlTypeOK, StreamTypeOK, Dialling, Connection, Handshake,
                    [Next]_vars, OverHTTP, OverHTTP'
             PROVE  Handshake'
  <2>1. DialTypeOK /\ [Next]_vars => UNCHANGED rpcAddr
    BY DEF Next, DialStep, MakerStep, ServerStep, Parse, Connect, ConnectFail, Receive,
           Timer, Return, WriteConnect, ReadResponse, ReadResponseFail, FindCodec, Encode,
           EncodeFail, ClientReceive, UserSend, ReadHTTP, Hijack, OtherStatus, ReadOption,
           Serve, Hangup, argVars, vars
  <2> QED
    BY <2>1 DEF DialTypeOK, Handshake, OverHTTP
<1> USE DEF argVars, dialVars, makerVars, wireVars
<1>1. CASE UNCHANGED <<lost, maker, made, spc, c2s, s2c>>
  BY <1>1 DEF Handshake
<1>2. CASE Connect
  BY <1>2 DEF Connect, Handshake, Connection, Dialling
<1>3. CASE Receive
  BY <1>3 DEF Receive, Handshake
<1>4. CASE WriteConnect
  <2>1. c2s = << >> /\ c2s' \in {<< >>, <<Item("connect")>>}
    BY <1>4 DEF WriteConnect, Written, Handshake
  <2> QED
    BY <1>4, <2>1 DEF WriteConnect, Connected, Handshake
<1>5. ASSUME NEW n \in 0 .. Len(s2c), ReadResponse(n) PROVE Handshake'
  <2>1. Len(s2c) <= 1
    BY <1>5 DEF ReadResponse, Handshake
  <2>2. /\ s2c # << >>
        /\ SubSeq(s2c, n + 2, Len(s2c)) = << >> /\ SubSeq(s2c, 2, n + 1) = << >>
    <3>1. n < Len(s2c)
      BY <1>5 DEF ReadResponse
    <3> QED
      BY <2>1, <3>1, BufferOfOne
  <2>3. s2c' = << >> /\ lost' = << >>
    BY <1>5, <2>2, ConcatEmptySeq DEF ReadResponse, Handshake, StreamTypeOK
  <2>4. spc \notin {"http", "hijack"}
    BY <2>2 DEF Handshake
  <2> QED
    BY <1>5, <2>3, <2>4 DEF ReadResponse, Handshake
<1>6. CASE ReadResponseFail \/ FindCodec \/ EncodeFail
  BY <1>6 DEF ReadResponseFail, FindCodec, EncodeFail, Handshake
<1>7. CASE Encode
  BY <1>7 DEF Encode, Handshake
<1>8. CASE ClientReceive
  <2>1. /\ s2c = << >> => s2c' = << >>
        /\ Len(s2c) <= 1 => Len(s2c') <= 1
    BY <1>8, HeadTailProperties, LenProperties DEF ClientReceive, StreamTypeOK
  <2> QED
    BY <1>8, <2>1 DEF ClientReceive, Handshake
<1>9. CASE UserSend
  BY <1>9 DEF UserSend, Handshake, Dialling
<1>10. ASSUME NEW n \in 0 .. Len(c2s), ReadHTTP(n) PROVE Handshake'
  <2>1. c2s' = << >> /\ lost' = << >> /\ spc' = "hijack" /\ s2c' = s2c
    BY <1>10, ReadConnect DEF ReadHTTP
  <2> QED
    BY <1>10, <2>1 DEF ReadHTTP, Handshake
<1>11. CASE Hijack \/ OtherStatus
  <2>1. s2c = << >>
    BY <1>11 DEF Hijack, OtherStatus, Handshake
  <2>3. ASSUME NEW v, Answer(v) PROVE Len(s2c') <= 1
    BY <2>1, <2>3 DEF Answer
  <2>2. Len(s2c') <= 1
    BY <1>11, <2>3 DEF Hijack, OtherStatus
  <2> QED
    BY <1>11, <2>2 DEF Hijack, OtherStatus, Handshake
<1>12. ASSUME NEW n \in 0 .. Len(c2s), ReadOption(n) PROVE Handshake'
  <2>1. ASSUME maker \in {"connect", "response"}
        PROVE  maker = "response" /\ c2s' = << >> /\ spc' = "refused"
    <3>1. maker = "response" /\ c2s = <<Item("connect")>>
      BY <1>12, <2>1 DEF ReadOption, Handshake
    <3>2. Head(c2s).k = "connect" /\ SubSeq(c2s, n + 2, Len(c2s)) = << >>
      <4>1. Head(c2s).k = "connect" /\ Len(c2s) <= 1
        BY <3>1 DEF Item
      <4>2. n < Len(c2s)
        BY <1>12 DEF ReadOption
      <4> QED
        BY <4>1, <4>2, BufferOfOne
    <3> QED
      BY <1>12, <3>1, <3>2 DEF ReadOption
  <2> QED
    BY <1>12, <2>1 DEF ReadOption, Handshake
<1>13. CASE Serve
  BY <1>13 DEF Serve, Handshake
<1>14. CASE Hangup
  BY <1>14 DEF Hangup, Handshake
<1> QED
  BY <1>1, <1>2, <1>3, <1>4, <1>5, <1>6, <1>7, <1>8, <1>9, <1>10, <1>11, <1>12, <1>13,
     <1>14
     DEF Next, DialStep, MakerStep, ServerStep, Parse, ConnectFail, Timer, Return, vars

\* A server of the client's own transport reads the option first, and with the
\* magic number and a codec that NewClient has found.
LEMMA AcceptingStep == IndInv /\ [Next]_vars => Accepting'
<1> SUFFICES ASSUME ControlTypeOK, StreamTypeOK, Dialling, Connection, Handshake,
                    Accepting, [Next]_vars, OverHTTP <=> listens = "http"
             PROVE  Accepting'
  <2>1. [Next]_vars => UNCHANGED <<rpcAddr, listens>>
    BY DEF Next, DialStep, MakerStep, ServerStep, Parse, Connect, ConnectFail, Receive,
           Timer, Return, WriteConnect, ReadResponse, ReadResponseFail, FindCodec, Encode,
           EncodeFail, ClientReceive, UserSend, ReadHTTP, Hijack, OtherStatus, ReadOption,
           Serve, Hangup, argVars, vars
  <2> QED
    BY <2>1 DEF IndInv, DialTypeOK, Accepting, OverHTTP
<1> USE DEF argVars, dialVars, makerVars, wireVars
<1>1. CASE UNCHANGED <<maker, made, spc, c2s>>
  BY <1>1 DEF Accepting
<1>2. CASE Connect
  BY <1>2 DEF Connect, Accepting, Connection, Dialling
<1>3. CASE Receive
  BY <1>3 DEF Receive, Accepting
<1>4. CASE WriteConnect
  <2>1. spc \notin {"hijack", "option"}
    BY <1>4 DEF WriteConnect, Accepting
  <2> QED
    BY <1>4, <2>1 DEF WriteConnect, Connected, Accepting
<1>5. CASE \/ \E n \in 0 .. Len(s2c) : ReadResponse(n)
           \/ ReadResponseFail \/ FindCodec \/ EncodeFail
  <2>1. /\ UNCHANGED <<spc, c2s>>
        /\ maker' # "connect" /\ made = "none" /\ made' # "client"
    BY <1>5 DEF ReadResponse, ReadResponseFail, FindCodec, EncodeFail, Dialling
  <2> QED
    BY <2>1 DEF Accepting
<1>6. CASE Encode
  <2>1. spc # "hijack" /\ made = "none" /\ opt.magic /\ opt.codec = "gob"
    BY <1>6 DEF Encode, Dialling, Connection, Handshake
  <2>2. spc = "option" => c2s = << >> /\ sOpen
    BY <2>1 DEF Accepting, Connection
  <2>3. spc = "option" => c2s' = <<OptionItem(opt)>>
    BY <1>6, <2>2 DEF Encode, Written
  <2>4. Good(OptionItem(opt))
    BY <2>1 DEF Good, OptionItem
  <2>5. spc = "option" => c2s' # << >> /\ Good(Head(c2s'))
    BY <2>3, <2>4
  <2> QED
    BY <1>6, <2>1, <2>5 DEF Encode, Accepting
<1>7. CASE UserSend
  <2>1. made = "client" /\ spc # "hijack"
    BY <1>7 DEF UserSend, Dialling, Connection, Handshake
  <2>2. c2s # << >> => c2s' # << >> /\ Head(c2s') = Head(c2s)
    BY <1>7, ItemType DEF UserSend, Written, StreamTypeOK
  <2> QED
    BY <1>7, <2>1, <2>2 DEF UserSend, Accepting
<1>8. ASSUME NEW n \in 0 .. Len(c2s), ReadHTTP(n) PROVE Accepting'
  <2>1. OverHTTP
    BY <1>8 DEF ReadHTTP, Connection
  <2>2. c2s # << >> /\ c2s' = << >> /\ spc' = "hijack"
    BY <1>8, <2>1, ReadConnect
  <2> QED
    BY <1>8, <2>1, <2>2 DEF ReadHTTP, Handshake, Accepting
<1>9. CASE Hijack \/ OtherStatus
  <2>1. made # "client" /\ maker # "connect" /\ c2s = << >>
    BY <1>9 DEF Hijack, OtherStatus, Handshake, Accepting, Connection
  <2> QED
    BY <1>9, <2>1 DEF Hijack, OtherStatus, Accepting
<1>10. ASSUME NEW n \in 0 .. Len(c2s), ReadOption(n) PROVE Accepting'
  <2>0. c2s # << >>
    BY <1>10 DEF ReadOption, StreamTypeOK
  <2>1. Good(Head(c2s))
    BY <1>10, <2>0 DEF ReadOption, Accepting
  <2>2. spc' = "serving"
    BY <1>10, <2>1 DEF ReadOption, Good
  <2> QED
    BY <2>2 DEF Accepting
<1>11. CASE Serve \/ Hangup
  BY <1>11 DEF Serve, Hangup, Accepting
<1> QED
  BY <1>1, <1>2, <1>3, <1>4, <1>5, <1>6, <1>7, <1>8, <1>9, <1>10, <1>11
     DEF Next, DialStep, MakerStep, ServerStep, Parse, ConnectFail, Timer, Return,
         ClientReceive, vars

-----------------------------------------------------------------------------
(* The invariant and its consequences.                                     *)

\* Every state of a dial satisfies IndInv.
THEOREM Invariance == Spec => []IndInv
<1>1. Init => IndInv
  <2> SUFFICES ASSUME Init PROVE IndInv
    OBVIOUS
  <2>1. DialTypeOK
    <3>1. ControlTypeOK
      BY DEF Init, ControlTypeOK, ZeroOption, Option
    <3>2. FlagTypeOK
      BY DEF Init, FlagTypeOK
    <3>3. StreamTypeOK
      BY EmptySeq DEF Init, StreamTypeOK
    <3> QED
      BY <3>1, <3>2, <3>3 DEF DialTypeOK
  <2>2. Dialling /\ Connection
    BY DEF Init, Dialling, Connection
  <2>3. Handshake /\ Accepting
    BY DEF Init, Handshake, Accepting
  <2> QED
    BY <2>1, <2>2, <2>3 DEF IndInv
<1>2. IndInv /\ [Next]_vars => IndInv'
  BY ControlTypeStep, FlagTypeStep, StreamTypeStep, DiallingStep, ConnectionStep,
     HandshakeStep, AcceptingStep DEF IndInv, DialTypeOK
<1> QED
  BY <1>1, <1>2, PTL DEF Spec

\* A client that DialTimeout returns has an open connection, and a server that
\* has left HTTP: the timer that lost the race closes nothing (client.go:253-257).
THEOREM ReturnedClientsAreConnected == Spec => []ClientIsConnected
<1>1. IndInv => ClientIsConnected
  <2> SUFFICES ASSUME IndInv, result = "client"
               PROVE  /\ conn = "open"
                      /\ OverHTTP => spc \in {"option", "serving", "refused", "closed"}
    BY DEF ClientIsConnected
  <2>1. made = "client" /\ ~err /\ maker # "none"
    BY DEF IndInv, Dialling
  <2>2. conn = "open" /\ spc # "none"
    BY <2>1 DEF IndInv, Connection
  <2>3. OverHTTP => spc \notin {"http", "hijack"}
    BY <2>1 DEF IndInv, Handshake
  <2> QED
    BY <2>2, <2>3 DEF IndInv, DialTypeOK, ControlTypeOK
<1> QED
  BY <1>1, Invariance, PTL

\* Neither the reader of the CONNECT response nor net/http's has anything of RPC
\* in the buffer it drops (client.go:303, server.go:259).
THEOREM NothingIsSwallowed == Spec => []HandshakeSwallowsNothing
<1>1. IndInv => HandshakeSwallowsNothing
  BY DEF IndInv, Handshake, HandshakeSwallowsNothing
<1> QED
  BY <1>1, Invariance, PTL

\* Whatever Option the user passes, a server of the client's transport accepts
\* what parseOptions and NewClient make of it (client.go:160-175).
THEOREM OptionsAreAccepted == Spec => []OptionAccepted
<1>1. IndInv => OptionAccepted
  BY DEF IndInv, Accepting, OptionAccepted
<1> QED
  BY <1>1, Invariance, PTL
=============================================================================
