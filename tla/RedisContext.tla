---------------------------- MODULE RedisContext ----------------------------
(***************************************************************************)
(* The hiredis context without the asynchronous layer: connecting (net.c),        *)
(* formatting and appending commands, writing, reading and getting replies        *)
(* (hiredis.c), over the reader of ReplyReader, with a Redis server at the other   *)
(* end of the byte streams.                                                   *)
(*                                                                          *)
(* One thread uses one context.  System calls may fail, be interrupted, and take   *)
(* or bring any number of bytes.  Lengths in formats are not modelled: a          *)
(* conversion is the bytes it stands for.  malloc does not fail.                  *)
(***************************************************************************)
EXTENDS ReplyReader, FiniteSets

CONSTANTS Options,   \* ways to connect: records [kind, block, bind, reuse, timeout]
          Formats,   \* format strings with their arguments, see Item
          Argvs,     \* argument vectors
          Answers,   \* replies of the server, see Encode
          NAddrs,    \* addresses a name resolves to
          Retries,   \* REDIS_CONNECT_RETRIES
          MaxConn,   \* bound: connects and reconnects
          MaxCmd,    \* bound: commands on the first connection, one less on every other
          WritePieces, ReadPieces \* bound: bytes moved by a write(2) or read(2) that does not
                                  \* move all there are

Txt == INSTANCE SdsText

CRLF == <<CR, LF>>
Decimal(n) == Txt!sdsll2str(n, 30)

VARIABLES
    fd,        \* c->fd
    err,       \* c->err, "none" for 0
    opt,       \* flags, connection_type, timeout and source_addr of the context
    obuf,      \* c->obuf
    reader,    \* c->reader
    pc,        \* where the thread is: "none" without a context, see Connecting, InGetReply
    addrs,     \* addresses that are left, the current one included
    reuses,    \* how often connect(2) said EADDRNOTAVAIL
    open,      \* descriptors that are open
    lost,      \* the last connect failed before it had a socket; c->fd is an old one
    link,      \* the connection: "none", "pending", "up", "closed" by the server
    tmo,       \* SO_RCVTIMEO and SO_SNDTIMEO are set
    wire,      \* bytes written to the socket
    inbuf,     \* bytes sent by the server and not read
    conns,     \* connects and reconnects so far
    cmds,      \* history: argument vectors of the commands appended
    sent,      \* history: replies the server has sent
    got        \* history: replies returned to the user

net  == <<fd, opt, addrs, reuses, open, lost, conns>>
io   == <<obuf, reader, wire, inbuf, tmo>>
hist == <<cmds, sent, got>>
vars == <<fd, err, opt, obuf, reader, pc, addrs, reuses, open, lost, link, tmo, wire, inbuf,
          conns, cmds, sent, got>>

Connecting == {"resolve", "socket", "bind", "connect", "finish"}
InGetReply == {"writing", "reading"}

----------------------------------------------------------------------------
(* Commands *)

RECURSIVE countDigits(_)
countDigits(v) == CASE v < 10 -> 1 [] v < 100 -> 2 [] v < 1000 -> 3 [] v < 10000 -> 4
                    [] OTHER -> 4 + countDigits(v \div 10000)

bulklen(len) == 1 + countDigits(len) + 2 + len + 2

Bulk(arg) == <<36>> \o Decimal(Len(arg)) \o CRLF \o arg \o CRLF

totlen(argv) == 1 + countDigits(Len(argv)) + 2
                + FoldLeft(LAMBDA n, arg : n + bulklen(Len(arg)), 0, argv)

\* The command, and whether the length that was computed beforehand is right.
redisFormatCommandArgv(argv) ==
    LET cmd == <<42>> \o Decimal(Len(argv)) \o CRLF
               \o FlattenSeq([j \in 1 .. Len(argv) |-> Bulk(argv[j])])
    IN  [cmd |-> cmd, asserted |-> Len(cmd) = totlen(argv)]

\* An item of a format string: a character, or a conversion (%s, %b, %%, %d ...) with
\* the bytes it stands for; "bad" is a conversion that is not supported.
Item(kind, bytes) == [kind |-> kind, bytes |-> bytes]
Space(item) == item.kind = "char" /\ item.bytes = <<32>>

Started == [argv |-> <<>>, cur |-> <<>>, touched |-> FALSE, bad |-> FALSE]
Closed(f) == IF f.touched THEN [f EXCEPT !.argv = Append(@, f.cur), !.cur = <<>>, !.touched = FALSE]
             ELSE f

\* Mutant: a conversion to no bytes does not count as an argument.
FormatStepNonEmpty(f, item) ==
    CASE f.bad -> f
      [] item.kind = "bad" -> [f EXCEPT !.bad = TRUE]
      [] Space(item) -> Closed(f)
      [] OTHER -> [f EXCEPT !.cur = @ \o item.bytes, !.touched = @ \/ item.bytes # <<>>]

FormatStep(f, item) ==
    CASE f.bad -> f
      [] item.kind = "bad" -> [f EXCEPT !.bad = TRUE]
      [] Space(item) -> Closed(f)
      [] OTHER -> [f EXCEPT !.cur = @ \o item.bytes, !.touched = TRUE]

redisvFormatCommand(fmt) == Closed(FoldLeft(FormatStep, Started, fmt))

\* What a format means: an argument is a run of items without a space between them.
ArgsOf(fmt) ==
    LET n == Len(fmt)
        starts == {i \in 1 .. n : ~Space(fmt[i]) /\ (i = 1 \/ Space(fmt[i - 1]))}
        end(i) == Min({j \in i .. n : j = n \/ Space(fmt[j + 1])})
        text(i) == FlattenSeq([k \in 1 .. end(i) - i + 1 |-> fmt[i + k - 1].bytes])
        rank(k) == CHOOSE i \in starts : Cardinality({j \in starts : j <= i}) = k
    IN  [k \in 1 .. Cardinality(starts) |-> text(rank(k))]

\* The user has a context and no call on it is in progress.
Idle == pc = "idle"

Append_(argv, f) ==
    /\ Idle /\ Len(cmds) + conns <= MaxCmd
    /\ cmds' = Append(cmds, argv)
    /\ obuf' = obuf \o f.cmd
    /\ pc' = IF f.asserted THEN "idle" ELSE "aborted"
    /\ UNCHANGED <<err, reader, link, wire, inbuf, tmo, sent, got, net>>

redisAppendCommandArgv == \E argv \in Argvs : Append_(argv, redisFormatCommandArgv(argv))

redisvAppendCommand ==
    \E fmt \in Formats :
        LET f == redisvFormatCommand(fmt)
        IN  \/ ~f.bad /\ Append_(ArgsOf(fmt), redisFormatCommandArgv(f.argv))
            \/ /\ f.bad /\ Idle
               /\ err' = "other"
               /\ UNCHANGED <<pc, link, io, hist, net>>

----------------------------------------------------------------------------
(* Connecting *)

NewFd == Min({n \in 3 .. 9 : n \notin open})

\* redisContextCloseFd, and the close(2) of redisFree and redisReconnect.
Close(d) == IF d > 0 THEN open \ {d} ELSE open

\* redisContextInit: an empty context over a connection in state l; the histories are
\* those of the connection.
Empty(l) == /\ obuf' = <<>> /\ reader' = NewReader /\ wire' = <<>> /\ inbuf' = <<>>
            /\ tmo' = FALSE /\ link' = l /\ cmds' = <<>> /\ sent' = <<>> /\ got' = <<>>

redisConnect ==
    /\ pc = "none" /\ conns < MaxConn
    /\ \E o \in Options : opt' = o @@ [type |-> "tcp"]
    /\ Empty("none")
    /\ fd' = 0 /\ err' = "none" /\ lost' = FALSE
    /\ pc' = "resolve" /\ conns' = conns + 1 /\ addrs' = 0 /\ reuses' = 0
    /\ UNCHANGED open

\* connection_type is that of a Unix socket only once there was one: before, the context
\* is taken for a TCP one without a host, which is the local host.
Again == IF opt.type = opt.kind THEN opt ELSE [opt EXCEPT !.kind = "tcp", !.timeout = "none"]

\* Mutant: the reader is kept.
redisReconnectKeepsReader ==
    /\ Idle /\ conns < MaxConn
    /\ obuf' = <<>> /\ wire' = <<>> /\ inbuf' = <<>> /\ tmo' = FALSE /\ link' = "none"
    /\ cmds' = <<>> /\ sent' = <<>> /\ got' = <<>> /\ UNCHANGED reader
    /\ err' = "none"
    /\ open' = Close(fd)
    /\ pc' = "resolve" /\ conns' = conns + 1 /\ addrs' = 0 /\ reuses' = 0
    /\ opt' = Again /\ UNCHANGED <<fd, lost>>

\* The old descriptor is closed and stays in c->fd until there is a new one.
redisReconnect ==
    /\ Idle /\ conns < MaxConn
    /\ Empty("none")
    /\ err' = "none"
    /\ open' = Close(fd)
    /\ pc' = "resolve" /\ conns' = conns + 1 /\ addrs' = 0 /\ reuses' = 0
    /\ opt' = Again /\ UNCHANGED <<fd, lost>>

\* The call returns REDIS_ERR; e is the error that was set, "none" if none was.
Fails(e) == err' = e /\ pc' = "idle"

\* A failure while c->fd does not name a descriptor of this attempt.
FailsEarly(e) == Fails(e) /\ lost' = (lost \/ fd > 0)

\* A failure that closes the descriptor: fcntl(2) or TCP_NODELAY.
FailsClosed == Fails("io") /\ fd' = -1 /\ open' = open \ {fd}

KeepLink == UNCHANGED <<link, io, hist>>

\* redisContextTimeoutMsec: the timeout has too many microseconds or is too long.
BadTimeout == opt.timeout = "bad"

\* The timeout and the name.  A Unix socket has no name, and checks the timeout after
\* the socket was made.
resolve ==
    /\ pc = "resolve"
    /\ \/ opt.kind = "tcp" /\ BadTimeout /\ FailsEarly("io") /\ UNCHANGED addrs
       \/ opt.kind = "tcp" /\ ~BadTimeout /\ FailsEarly("other") /\ UNCHANGED addrs
       \/ /\ opt.kind = "unix" \/ ~BadTimeout
          /\ pc' = "socket" /\ addrs' = (IF opt.kind = "unix" THEN 1 ELSE NAddrs)
          /\ UNCHANGED <<err, lost>>
    /\ KeepLink /\ UNCHANGED <<fd, opt, reuses, open, conns>>

\* A descriptor is there and stays.
Opened == /\ fd' = NewFd /\ open' = open \cup {NewFd} /\ lost' = FALSE
          /\ opt' = [opt EXCEPT !.type = opt.kind]

\* A descriptor was there: fcntl(2) failed and it is closed again.
NotBlocking == Fails("io") /\ fd' = -1 /\ lost' = FALSE /\ UNCHANGED <<opt, open>>

\* No address is left, socket(2) fails for this one, or it succeeds and fcntl(2) fails
\* or not.
socket ==
    /\ pc = "socket" /\ opt.kind = "tcp"
    /\ \/ addrs = 0 /\ FailsEarly("other") /\ UNCHANGED <<fd, opt, addrs, open>>
       \/ addrs > 0 /\ addrs' = addrs - 1 /\ UNCHANGED <<fd, opt, err, pc, lost, open>>
       \/ addrs > 0 /\ NotBlocking /\ UNCHANGED addrs
       \/ /\ addrs > 0 /\ Opened
          /\ pc' = (IF opt.bind THEN "bind" ELSE "connect") /\ UNCHANGED <<err, addrs>>
    /\ KeepLink /\ UNCHANGED <<reuses, conns>>

\* A Unix socket up to connect(2).  No error is set for a timeout that is not valid.
unixSocket ==
    /\ pc = "socket" /\ opt.kind = "unix"
    /\ \/ FailsEarly("io") /\ UNCHANGED <<fd, opt, open>>
       \/ NotBlocking
       \/ Opened /\ BadTimeout /\ Fails("none")
       \/ Opened /\ ~BadTimeout /\ pc' = "connect" /\ UNCHANGED err
    /\ KeepLink /\ UNCHANGED <<addrs, reuses, conns>>

\* The source address is not found or not bound, or SO_REUSEADDR is refused.
bind ==
    /\ pc = "bind"
    /\ \/ Fails("other")
       \/ opt.reuse /\ Fails("none")
       \/ pc' = "connect" /\ UNCHANGED err
    /\ KeepLink /\ UNCHANGED net

\* Mutant: the descriptor is not closed before the next address is tried.
RetryLeaks(n) == /\ addrs' = n /\ pc' = "socket" /\ UNCHANGED <<fd, open, err>>

\* redisContextCloseFd and on to the next address, or to the same one again.
Retry(n) == /\ fd' = -1 /\ open' = open \ {fd} /\ addrs' = n /\ pc' = "socket"
            /\ UNCHANGED err

\* poll(2) failed or ran out of time; or SO_ERROR has an error, and the descriptor stays.
redisContextWaitReady == \/ FailsClosed
                         \/ opt.block /\ Fails("io") /\ UNCHANGED <<fd, open>>

\* The results of connect(2) and, if the connection is in progress and the context
\* blocks, of poll(2) and SO_ERROR.
connect ==
    /\ pc = "connect"
    /\ \/ pc' = "finish" /\ link' = "up" /\ UNCHANGED <<fd, err, open, addrs, reuses>>
       \/ /\ ~opt.block /\ pc' = "finish" /\ link' = "pending"
          /\ UNCHANGED <<fd, err, open, addrs, reuses>>
       \/ opt.kind = "tcp" /\ Retry(addrs - 1) /\ UNCHANGED <<reuses, link>>
       \/ /\ opt.kind = "tcp" /\ opt.reuse /\ reuses' = reuses + 1
          /\ \/ reuses + 1 >= Retries /\ Fails("none") /\ UNCHANGED <<fd, open, addrs>>
             \/ reuses + 1 < Retries /\ Retry(addrs)
          /\ UNCHANGED link
       \/ redisContextWaitReady /\ UNCHANGED <<addrs, reuses, link>>
    /\ UNCHANGED <<io, hist, opt, lost, conns>>

\* Blocking mode again and TCP_NODELAY; both may fail.
finish ==
    /\ pc = "finish"
    /\ \/ pc' = "idle" /\ UNCHANGED <<err, fd, open, link>>
       \/ (opt.block \/ opt.kind = "tcp") /\ FailsClosed /\ link' = "none"
    /\ addrs' = 0 /\ reuses' = 0
    /\ UNCHANGED <<io, hist, opt, lost, conns>>

\* redisConnectFd: a connection that somebody else made.
redisConnectFd ==
    /\ pc = "none" /\ conns < MaxConn
    /\ Empty("up")
    /\ opt' = [kind |-> "tcp", type |-> "tcp", block |-> TRUE, bind |-> FALSE, reuse |-> FALSE,
               timeout |-> "none"]
    /\ fd' = NewFd /\ open' = open \cup {NewFd} /\ err' = "none" /\ lost' = FALSE
    /\ pc' = "idle" /\ conns' = conns + 1 /\ addrs' = 0 /\ reuses' = 0

\* redisFree, and redisFreeKeepFd: the descriptor is the user's from now on.
redisFree ==
    /\ Idle
    /\ pc' = "none" /\ fd' = 0 /\ open' = open \ {fd} /\ lost' = FALSE
    /\ Empty("none")
    /\ UNCHANGED <<err, opt, addrs, reuses, conns>>

\* SO_RCVTIMEO and SO_SNDTIMEO, which setsockopt(2) may refuse.
redisSetTimeout ==
    /\ Idle /\ opt.block /\ ~tmo
    /\ \/ fd \in open /\ tmo' = TRUE /\ UNCHANGED err
       \/ err' = "io" /\ UNCHANGED tmo
    /\ UNCHANGED <<pc, link, obuf, reader, wire, inbuf, hist, net>>

\* SO_KEEPALIVE and its intervals: nothing but the error that setsockopt(2) may give.
redisEnableKeepAlive ==
    /\ Idle /\ err' = "other" /\ UNCHANGED <<pc, link, io, hist, net>>

----------------------------------------------------------------------------
(* Writing, reading and getting replies *)

Suffix(s, n) == SubSeq(s, n + 1, Len(s))
Pieces(s, sizes) == {n \in 1 .. Len(s) : n \in sizes \/ n = Len(s)}

\* The system call does not succeed although the link is up: a timeout on a blocking
\* socket; the other end is gone.
CallFails == link \in {"none", "closed"} \/ (link = "up" /\ tmo)

\* write(2) took n bytes.  Bytes for a server that is gone are lost.
Write(n) == /\ link \in {"up", "closed"}
            /\ wire' = wire \o SubSeq(obuf, 1, n) /\ obuf' = Suffix(obuf, n)
            /\ UNCHANGED err

\* Mutant: the loop is left after the first write.
AfterWriteOnce(n) == "reading"

AfterWrite(n) == IF n = Len(obuf) THEN "reading" ELSE pc

\* redisBufferWrite in the loop of redisGetReply.  After EINTR the loop goes round with
\* nothing changed, here and in ReadStep.
WriteStep ==
    /\ pc = "writing"
    /\ \/ err # "none" /\ pc' = "idle" /\ UNCHANGED <<err, obuf, wire>>
       \/ err = "none" /\ obuf = <<>> /\ pc' = "reading" /\ UNCHANGED <<err, obuf, wire>>
       \/ /\ err = "none"
          /\ \E n \in Pieces(obuf, WritePieces) : Write(n) /\ pc' = AfterWrite(n)
       \/ /\ err = "none" /\ obuf # <<>> /\ CallFails
          /\ err' = "io" /\ pc' = "idle" /\ UNCHANGED <<obuf, wire>>
    /\ UNCHANGED <<reader, inbuf, tmo, link, hist, net>>

\* redisGetReplyFromReader on reader r: the error, the reply, or neither (then next).
FromReader(r, next) ==
    \E g \in {redisReaderGetReply(r)} :
        /\ reader' = g.reader
        /\ \/ g.reader.err # "none" /\ err' = "protocol" /\ pc' = "idle" /\ UNCHANGED got
           \/ g.reply # {} /\ got' = Append(got, g.reply) /\ pc' = "idle" /\ UNCHANGED err
           \/ /\ g.reader.err = "none" /\ g.reply = {}
              /\ pc' = next /\ UNCHANGED <<err, got>>

\* redisBufferRead and redisGetReplyFromReader in the loop of redisGetReply.
ReadStep ==
    /\ pc = "reading"
    /\ \/ /\ err = "none"
          /\ \E n \in Pieces(inbuf, ReadPieces) :
                 /\ inbuf' = Suffix(inbuf, n)
                 /\ FromReader(redisReaderFeed(reader, SubSeq(inbuf, 1, n)), pc)
       \/ /\ err = "none" /\ link = "closed" /\ inbuf = <<>>
          /\ err' = "eof" /\ pc' = "idle" /\ UNCHANGED <<reader, inbuf, got>>
       \/ /\ err = "none" /\ CallFails
          /\ err' = "io" /\ pc' = "idle" /\ UNCHANGED <<reader, inbuf, got>>
    /\ UNCHANGED <<obuf, wire, tmo, link, cmds, sent, net>>

redisGetReply ==
    /\ Idle
    /\ FromReader(reader, IF opt.block THEN "writing" ELSE "idle")
    /\ UNCHANGED <<obuf, wire, inbuf, tmo, link, cmds, sent, net>>

\* A call for a write event; EAGAIN and EINTR change nothing.
redisBufferWrite ==
    /\ Idle /\ ~opt.block /\ err = "none" /\ obuf # <<>>
    /\ \/ \E n \in Pieces(obuf, WritePieces) : Write(n)
       \/ CallFails /\ err' = "io" /\ UNCHANGED <<obuf, wire>>
    /\ UNCHANGED <<pc, reader, inbuf, tmo, link, hist, net>>

\* A call for a read event.
redisBufferRead ==
    /\ Idle /\ ~opt.block /\ err = "none"
    /\ \/ \E n \in Pieces(inbuf, ReadPieces) :
              /\ inbuf' = Suffix(inbuf, n)
              /\ reader' = redisReaderFeed(reader, SubSeq(inbuf, 1, n))
              /\ err' = (IF reader.err # "none" THEN "protocol" ELSE err)
       \/ link = "closed" /\ inbuf = <<>> /\ err' = "eof" /\ UNCHANGED <<reader, inbuf>>
       \/ CallFails /\ err' = "io" /\ UNCHANGED <<reader, inbuf>>
    /\ UNCHANGED <<pc, obuf, wire, tmo, link, hist, net>>

----------------------------------------------------------------------------
(* The server and the network *)

\* A reply as the server sees it: type, content and elements.  The bytes of it.
RECURSIVE Encode(_)
Encode(v) ==
    CASE v.type = "integer" -> <<58>> \o Decimal(v.val[1]) \o CRLF
      [] v.type = "status"  -> <<43>> \o v.val \o CRLF
      [] v.type = "error"   -> <<45>> \o v.val \o CRLF
      [] v.type = "string"  -> Bulk(v.val)
      [] v.type = "nil"     -> <<36, 45, 49>> \o CRLF
      [] v.type = "nilarray" -> <<42, 45, 49>> \o CRLF
      [] v.type = "array"   -> <<42>> \o Decimal(Len(v.kids)) \o CRLF
                               \o FlattenSeq([i \in 1 .. Len(v.kids) |-> Encode(v.kids[i])])
      [] OTHER -> v.val

\* The objects of it, as ReplyReader gives them.
RECURSIVE Objects(_, _)
Objects(v, at) ==
    {[at |-> at, type |-> IF v.type = "nilarray" THEN "nil" ELSE v.type,
      val |-> IF v.type = "array" THEN <<Len(v.kids)>> ELSE v.val]}
    \cup UNION {Objects(v.kids[i], Append(at, i - 1)) : i \in DOMAIN v.kids}

\* The next command has arrived and is answered.
ServerAnswers ==
    /\ link = "up" /\ Len(sent) < Len(cmds)
    /\ Len(wire) >= FoldLeft(LAMBDA n, argv : n + Len(redisFormatCommandArgv(argv).cmd), 0,
                             SubSeq(cmds, 1, Len(sent) + 1))
    /\ \E v \in Answers : inbuf' = inbuf \o Encode(v) /\ sent' = Append(sent, v)
    /\ UNCHANGED <<err, obuf, reader, pc, link, tmo, wire, cmds, got, net>>

ServerCloses == /\ link = "up" /\ link' = "closed" /\ UNCHANGED <<err, pc, io, hist, net>>

\* The connect that was in progress is decided.
LinkResolves == /\ link = "pending" /\ link' \in {"up", "none"}
                /\ UNCHANGED <<err, pc, io, hist, net>>

----------------------------------------------------------------------------
Init ==
    /\ fd = 0 /\ err = "none" /\ opt = [type |-> "none"] /\ obuf = <<>> /\ reader = NewReader
    /\ pc = "none" /\ addrs = 0 /\ reuses = 0 /\ open = {} /\ lost = FALSE /\ link = "none"
    /\ tmo = FALSE /\ wire = <<>> /\ inbuf = <<>> /\ conns = 0
    /\ cmds = <<>> /\ sent = <<>> /\ got = <<>>

Net == resolve \/ socket \/ unixSocket \/ bind \/ connect \/ finish

Next == \/ redisConnect \/ redisConnectFd \/ redisReconnect \/ redisFree \/ Net
        \/ redisSetTimeout \/ redisEnableKeepAlive \/ redisAppendCommandArgv \/ redisvAppendCommand
        \/ redisGetReply \/ WriteStep \/ ReadStep \/ redisBufferWrite \/ redisBufferRead
        \/ ServerAnswers \/ ServerCloses \/ LinkResolves

\* The thread runs on inside a call, the server answers what it got.
Spec == Init /\ [][Next]_vars /\ WF_vars(WriteStep) /\ WF_vars(ReadStep) /\ WF_vars(ServerAnswers)

----------------------------------------------------------------------------
(* Properties *)

\* The replies that redisGetReply returns on a connection are those the server sent on
\* it, in order and complete, however read(2) cuts the bytes, whenever the consumed
\* part of the buffer is discarded, and after any error, timeout and redisReconnect.
RepliesInOrder == IsPrefix(got, [i \in 1 .. Len(sent) |-> Objects(sent[i], <<>>)])

\* All replies in the bytes, with the code's own reader.
RECURSIVE RepliesOf(_)
RepliesOf(r) == LET g == redisReaderGetReply(r)
                IN  IF g.reply = {} THEN <<>> ELSE <<g.reply>> \o RepliesOf(g.reader)

\* What is on the wire and in c->obuf is, for each command appended, one array of its
\* arguments, the empty ones too, however write(2) cuts it; and the length computed for
\* it beforehand was right (the assertion of redisvFormatCommand).
CommandsIntact ==
    /\ pc # "aborted"
    /\ \A r \in {redisReaderFeed(NewReader, wire \o obuf)} : RepliesOf(r) =
       [i \in 1 .. Len(cmds) |->
           Objects([type |-> "array", kids |-> [j \in 1 .. Len(cmds[i]) |->
                       [type |-> "string", val |-> cmds[i][j], kids |-> <<>>]]], <<>>)]

\* No descriptor leaks, over all addresses, retries, errors and reconnects: the one
\* that c->fd names is the only one open, and none is after redisFree.  And c->fd names
\* no descriptor that is closed, between calls, unless a reconnect failed early.
DescriptorsOwned ==
    /\ open \subseteq {fd}
    /\ pc = "none" => open = {}
    /\ pc = "idle" /\ fd > 0 /\ fd \notin open => lost

\* A redisGetReply that is owed a reply returns, with it or with an error: the loops
\* over redisBufferWrite and redisBufferRead neither stop short nor wait for more
\* than the server has to send.
GetReplyReturns == (pc \in InGetReply /\ Len(got) < Len(cmds)) ~> pc \notin InGetReply
=============================================================================
