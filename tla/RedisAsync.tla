----------------------------- MODULE RedisAsync -----------------------------
(***************************************************************************)
(* One asynchronous hiredis context (async.c) attached to libevent           *)
(* (adapters/libevent.h), the code that uses it and the Redis server behind   *)
(* it.  The context lives in one thread; what interleaves is the order of    *)
(* socket events, the pieces in which data arrives, and the calls that user   *)
(* code makes from the loop and from inside reply callbacks.                 *)
(*                                                                          *)
(* A command is known by its number, which also stands for the callback      *)
(* registered with it; 0 is the callback {NULL, NULL, NULL}.  Channels and   *)
(* patterns are one dictionary here: they are treated alike.  A command      *)
(* (un)subscribes one channel.  malloc does not fail.                        *)
(***************************************************************************)
EXTENDS Naturals, Sequences, FiniteSets

CONSTANTS Topics,    \* channels
          NoTopic,   \* the topic of replies and commands that have none
          CmdKinds,  \* kinds of commands the application uses
          MaxCmd,    \* bound: commands accepted by the context
          MaxPush,   \* bound: messages the server sends of its own accord
          AskFree    \* the application may call redisAsyncFree

ASSUME AsyncAssumption == /\ CmdKinds \subseteq {"get", "subscribe", "unsubscribe", "monitor"}
                          /\ NoTopic \notin Topics
                          /\ MaxCmd \in Nat /\ MaxPush \in Nat
                          /\ AskFree \in BOOLEAN

Flags == {"CONNECTED", "DISCONNECTING", "FREEING", "IN_CALLBACK", "SUBSCRIBED",
          "MONITORING"}

\* Replies: "data" (not an array), "error", the three pub/sub arrays, a "line" of
\* MONITOR and "bad" bytes that the reader rejects.  id is the command that is
\* answered (0 for a push); left counts the subscriptions after an (un)subscribe.
Reply == [type : {"data", "error", "subscribe", "unsubscribe", "message", "line", "bad"},
          id : 0 .. MaxCmd, topic : Topics \cup {NoTopic}, left : Nat]

NoReply == [type |-> "none", id |-> 0, topic |-> NoTopic, left |-> 0]

VARIABLES
    flags,     \* c->flags
    err,       \* c->err is set
    replies,   \* ac->replies
    invalid,   \* ac->sub.invalid
    sub,       \* ac->sub.channels and patterns: the callback of a topic, 0 for none
    obuf,      \* c->obuf: commands not written yet
    reader,    \* complete replies that the reader holds
    rev, wev,  \* the read and the write event are added
    pc,        \* where the thread is
    cb,        \* the variable cb of redisProcessCallbacks or __redisAsyncFree
    reply,     \* the reply a callback is running with
    cmds,      \* history: the accepted commands
    fired,     \* history: how often the callback of a command has run
    onConnect, onDisconnect, \* history: statuses these callbacks were called with
    conn,      \* the socket: "pending", "ok" or "refused"
    wire,      \* commands on the way to the server
    inbuf,     \* replies on the way to the client
    partial,   \* the first bytes of the first reply in inbuf have been read
    closed,    \* the server has closed the connection
    srvSubs, srvMon, pushes \* the server's view of this connection

ctxVars == <<flags, err, replies, invalid, sub, obuf, reader, cb, reply>>
histVars == <<cmds, fired, onConnect, onDisconnect>>
srvVars == <<conn, wire, inbuf, partial, closed, srvSubs, srvMon, pushes>>
vars == <<ctxVars, rev, wev, pc, histVars, srvVars>>

\* Values of pc.  "loop": in event_base_loop.  "process": at the head of the while loop of
\* redisProcessCallbacks.  "cb": in a callback called from there.  "free": in
\* __redisAsyncFree.  "freecb": in a callback called from there.
\* "freed", "aborted": at the end.

\* redisAsyncConnect, redisLibeventAttach and the two Set...Callback calls.
Init == /\ flags = {} /\ err = FALSE
        /\ replies = <<>> /\ invalid = <<>> /\ sub = [t \in Topics |-> 0]
        /\ obuf = <<>> /\ reader = <<>>
        /\ rev = TRUE /\ wev = TRUE
        /\ pc = "loop" /\ cb = 0 /\ reply = NoReply
        /\ cmds = <<>> /\ fired = [i \in 1 .. MaxCmd |-> 0]
        /\ onConnect = <<>> /\ onDisconnect = <<>>
        /\ conn = "pending" /\ wire = <<>> /\ inbuf = <<>> /\ partial = FALSE
        /\ closed = FALSE /\ srvSubs = {} /\ srvMon = FALSE /\ pushes = 0

Has(f) == f \in flags

\* There is a context; what the server does later is nobody's concern.
Alive == pc \notin {"freed", "aborted"}

-----------------------------------------------------------------------------
(* The server, as far as the client can tell.                                 *)

ConnectionResolves(result) ==
    /\ conn = "pending" /\ Alive
    /\ conn' = result
    /\ UNCHANGED <<ctxVars, rev, wev, pc, histVars, wire, inbuf, partial, closed,
                   srvSubs, srvMon, pushes>>

\* The answer to command i: in subscribed mode other commands are errors.
Answer(i, subs) ==
    LET c == cmds[i]
    IN  [type  |-> CASE c.kind \in {"subscribe", "unsubscribe"} -> c.kind
                     [] OTHER -> IF srvSubs # {} THEN "error" ELSE "data",
         id    |-> i,
         topic |-> c.topic,
         left  |-> Cardinality(subs)]

ServerAnswers ==
    /\ wire # <<>> /\ ~closed /\ Alive
    /\ LET i == Head(wire)
           c == cmds[i]
           subs == CASE c.kind = "subscribe" -> srvSubs \cup {c.topic}
                     [] c.kind = "unsubscribe" -> srvSubs \ {c.topic}
                     [] OTHER -> srvSubs
       IN  /\ srvSubs' = subs
           /\ srvMon' = (srvMon \/ (c.kind = "monitor" /\ srvSubs = {}))
           /\ inbuf' = Append(inbuf, Answer(i, subs))
    /\ wire' = Tail(wire)
    /\ UNCHANGED <<ctxVars, rev, wev, pc, histVars, conn, partial, closed, pushes>>

Push(type, topic) ==
    /\ conn = "ok" /\ ~closed /\ Alive /\ pushes < MaxPush
    /\ inbuf' = Append(inbuf, [type |-> type, id |-> 0, topic |-> topic, left |-> 0])
    /\ pushes' = pushes + 1
    /\ UNCHANGED <<ctxVars, rev, wev, pc, histVars, conn, wire, partial, srvSubs, srvMon>>

\* A published message or a line of MONITOR ...
ServerPublishes == /\ \/ \E t \in srvSubs : Push("message", t)
                      \/ srvMon /\ Push("line", NoTopic)
                   /\ UNCHANGED closed

\* ... or a refusal (too many connections), or bytes that are not RESP; the server
\* closes the connection afterwards.
ServerRefuses == /\ \E type \in {"error", "bad"} : Push(type, NoTopic)
                 /\ closed' = TRUE

ServerCloses ==
    /\ conn = "ok" /\ ~closed /\ Alive
    /\ closed' = TRUE
    /\ UNCHANGED <<ctxVars, rev, wev, pc, histVars, conn, wire, inbuf, partial, srvSubs,
                   srvMon, pushes>>

-----------------------------------------------------------------------------
(* Leaving the context.                                                       *)

\* __redisAsyncDisconnect, called with flags f, error e and callbacks rs.
Disconnect(f, e, rs) ==
    /\ err' = e
    /\ IF e
       THEN /\ flags' = f \cup {"DISCONNECTING"}
            /\ pc' = "free"
       ELSE /\ flags' = f
            /\ pc' = IF rs = <<>> THEN "free" ELSE "aborted"

\* The socket's error status is not good: onConnect(REDIS_ERR), then disconnect.
HandleConnectFails ==
    /\ ~Has("CONNECTED") /\ conn = "refused"
    /\ onConnect' = Append(onConnect, "ERR")
    /\ Disconnect(flags, TRUE, replies)
    /\ UNCHANGED <<replies, invalid, sub, obuf, reader, cb, reply, cmds, fired,
                   onDisconnect, srvVars>>

\* The socket's error status is EINPROGRESS: the handler returns to "try again later".
\* Its event is gone, and redisCheckSocketError has set c->err, which nobody clears.
HandleConnectAgain ==
    /\ ~Has("CONNECTED") /\ conn = "pending"
    /\ err' = TRUE
    /\ UNCHANGED <<flags, replies, invalid, sub, obuf, reader, pc, cb, reply, histVars,
                   srvVars>>

\* __redisAsyncHandleConnect when the socket is connected, if that is news.
HandleConnect ==
    onConnect' = IF Has("CONNECTED") THEN onConnect ELSE Append(onConnect, "OK")

NowConnected == flags \cup {"CONNECTED"}

-----------------------------------------------------------------------------
(* Events.  An event is not persistent: it is gone when its handler runs.      *)

Readable == rev /\ (conn = "refused" \/ inbuf # <<>> \/ closed)
Writable == wev /\ conn # "pending"

\* Mutant: reading is not scheduled again.
ForgetRead == rev' = FALSE

\* _EL_ADD_READ in both handlers.
ScheduleRead == rev' = TRUE

\* Mutant: the write event is deleted although something is left to write.
StopWriting == wev' = FALSE

\* _EL_ADD_WRITE or _EL_DEL_WRITE after a write.
ScheduleWrite == wev' = (obuf' # <<>>)

ReadRefused == /\ pc = "loop" /\ Readable /\ HandleConnectFails
               /\ rev' = FALSE /\ UNCHANGED wev

\* libevent calls the handler of a socket that is still connecting.
ReadAgain == /\ pc = "loop" /\ rev /\ HandleConnectAgain
             /\ rev' = FALSE /\ UNCHANGED wev

\* redisAsyncHandleRead: some replies are complete, reading is scheduled again ...
ReadData ==
    /\ pc = "loop" /\ Readable /\ inbuf # <<>> /\ ~err
    /\ HandleConnect
    /\ flags' = NowConnected
    /\ \E n \in 1 .. Len(inbuf) :
          /\ reader' = reader \o SubSeq(inbuf, 1, n)
          /\ inbuf' = SubSeq(inbuf, n + 1, Len(inbuf))
    /\ partial' = FALSE
    /\ ScheduleRead
    /\ pc' = "process" /\ cb' = 0
    /\ UNCHANGED <<err, replies, invalid, sub, obuf, wev, reply, cmds, fired,
                   onDisconnect, conn, wire, closed, srvSubs, srvMon, pushes>>

\* ... or only a part of the next reply has arrived ...
ReadPart ==
    /\ pc = "loop" /\ Readable /\ inbuf # <<>> /\ ~partial /\ ~err
    /\ HandleConnect
    /\ flags' = NowConnected
    /\ partial' = TRUE
    /\ ScheduleRead
    /\ pc' = "process" /\ cb' = 0
    /\ UNCHANGED <<err, replies, invalid, sub, obuf, reader, wev, reply, cmds, fired,
                   onDisconnect, conn, wire, inbuf, closed, srvSubs, srvMon, pushes>>

\* ... or redisBufferRead fails: the server has closed the connection, or there has
\* been an error before.
ReadFails ==
    /\ pc = "loop" /\ Readable /\ conn = "ok" /\ (inbuf = <<>> \/ err)
    /\ HandleConnect
    /\ Disconnect(NowConnected, TRUE, replies)
    /\ rev' = FALSE
    /\ UNCHANGED <<replies, invalid, sub, obuf, reader, wev, cb, reply, cmds, fired,
                   onDisconnect, srvVars>>

WriteRefused == /\ pc = "loop" /\ Writable /\ HandleConnectFails
                /\ wev' = FALSE /\ UNCHANGED rev

WriteAgain == /\ pc = "loop" /\ wev /\ HandleConnectAgain
              /\ wev' = FALSE /\ UNCHANGED rev

\* redisAsyncHandleWrite: a part of obuf is written.
WriteData ==
    /\ pc = "loop" /\ Writable /\ conn = "ok" /\ ~err
    /\ HandleConnect
    /\ flags' = NowConnected
    /\ \E n \in 0 .. Len(obuf) :
          /\ n = 0 => obuf = <<>>
          /\ wire' = wire \o SubSeq(obuf, 1, n)
          /\ obuf' = SubSeq(obuf, n + 1, Len(obuf))
    /\ ScheduleWrite
    /\ ScheduleRead
    /\ UNCHANGED <<err, replies, invalid, sub, reader, pc, cb, reply, cmds, fired,
                   onDisconnect, conn, inbuf, partial, closed, srvSubs, srvMon, pushes>>

\* redisBufferWrite fails: the server has closed the connection, or there has been
\* an error before.
WriteFails ==
    /\ pc = "loop" /\ Writable /\ conn = "ok" /\ ((closed /\ obuf # <<>>) \/ err)
    /\ HandleConnect
    /\ Disconnect(NowConnected, TRUE, replies)
    /\ wev' = FALSE
    /\ UNCHANGED <<replies, invalid, sub, obuf, reader, rev, cb, reply, cmds, fired,
                   onDisconnect, srvVars>>

-----------------------------------------------------------------------------
(* redisProcessCallbacks, one round of its loop per action.                   *)

\* Mutant: the callback becomes the first of the list.
PushFront(list, i) == <<i>> \o list

\* __redisPushCallback.
PushCallback(list, i) == Append(list, i)

\* No complete reply is left and the context is to be disconnected.
ProcessDisconnects ==
    /\ pc = "process" /\ reader = <<>>
    /\ Has("DISCONNECTING") /\ obuf = <<>> /\ replies = <<>>
    /\ Disconnect(flags, err, replies)
    /\ UNCHANGED <<replies, invalid, sub, obuf, reader, rev, wev, cb, reply, histVars,
                   srvVars>>

\* No complete reply is left; in monitor mode cb goes back on the list.
ProcessEnds ==
    /\ pc = "process" /\ reader = <<>>
    /\ ~(Has("DISCONNECTING") /\ obuf = <<>> /\ replies = <<>>)
    /\ replies' = IF Has("MONITORING") THEN PushCallback(replies, cb) ELSE replies
    /\ pc' = "loop"
    /\ cb' = 0
    /\ UNCHANGED <<flags, err, invalid, sub, obuf, reader, rev, wev, reply, histVars,
                   srvVars>>

\* The reader reports a protocol error, or an error reply answers no callback.
ProcessFails ==
    /\ pc = "process" /\ reader # <<>>
    /\ LET r == Head(reader)
       IN  r.type = "bad" \/ (r.type = "error" /\ replies = <<>>)
    /\ Disconnect(flags, TRUE, replies)
    /\ reader' = Tail(reader)
    /\ UNCHANGED <<replies, invalid, sub, obuf, rev, wev, cb, reply, histVars, srvVars>>

\* assert() of redisProcessCallbacks: nobody can be meant by this reply.
ProcessAborts ==
    /\ pc = "process" /\ reader # <<>>
    /\ Head(reader).type \notin {"bad", "error"}
    /\ replies = <<>> /\ ~Has("SUBSCRIBED") /\ ~Has("MONITORING")
    /\ pc' = "aborted"
    /\ UNCHANGED <<ctxVars, rev, wev, histVars, srvVars>>

\* __redisGetSubscribeCallback(r): the callback of r, or cb as it was.
IsArray(r) == r.type \in {"subscribe", "unsubscribe", "message"}

\* Mutant: the callback that ran last is used again.
KeepsCallback(r) == IF cb # 0 \/ ~IsArray(r) THEN cb ELSE sub[r.topic]

SubscribeCallback(r) ==
    IF IsArray(r)
    THEN IF sub[r.topic] # 0 THEN sub[r.topic] ELSE cb
    ELSE IF invalid # <<>> THEN Head(invalid) ELSE cb

Unsubscribes(r) == r.type = "unsubscribe" /\ sub[r.topic] # 0

\* The count in the reply says that no subscription is left.
EndsSubscribed(r) == Unsubscribes(r) /\ r.left = 0

\* __redisRunCallback: the callback cb' gets r, unless it is NULL.
RunCallback(r, f) ==
    IF cb' = 0
    THEN /\ flags' = f /\ UNCHANGED <<pc, reply, fired>>
    ELSE /\ flags' = f \cup {"IN_CALLBACK"}
         /\ pc' = "cb"
         /\ reply' = r
         /\ fired' = [fired EXCEPT ![cb'] = IF @ < 2 THEN @ + 1 ELSE @]

\* The reply goes to the first regular callback ...
ProcessRegular ==
    /\ pc = "process" /\ reader # <<>>
    /\ Head(reader).type # "bad" /\ replies # <<>>
    /\ cb' = Head(replies)
    /\ replies' = Tail(replies)
    /\ reader' = Tail(reader)
    /\ RunCallback(Head(reader), flags)
    /\ UNCHANGED <<err, invalid, sub, obuf, rev, wev, cmds, onConnect, onDisconnect,
                   srvVars>>

\* ... or, if there is none, to the one __redisGetSubscribeCallback finds ...
ProcessSubscribed ==
    /\ pc = "process" /\ reader # <<>>
    /\ replies = <<>> /\ Has("SUBSCRIBED")
    /\ LET r == Head(reader)
       IN  /\ r.type \notin {"bad", "error"}
           /\ cb' = SubscribeCallback(r)
           /\ sub' = IF Unsubscribes(r) THEN [sub EXCEPT ![r.topic] = 0] ELSE sub
           /\ invalid' = IF IsArray(r) \/ invalid = <<>> THEN invalid ELSE Tail(invalid)
           /\ RunCallback(r, IF EndsSubscribed(r)
                             THEN flags \ {"SUBSCRIBED"} ELSE flags)
    /\ reader' = Tail(reader)
    /\ UNCHANGED <<err, replies, obuf, rev, wev, cmds, onConnect, onDisconnect, srvVars>>

\* ... or, in monitor mode, to the one that ran last.
ProcessMonitor ==
    /\ pc = "process" /\ reader # <<>>
    /\ Head(reader).type \notin {"bad", "error"}
    /\ replies = <<>> /\ ~Has("SUBSCRIBED") /\ Has("MONITORING")
    /\ cb' = cb
    /\ reader' = Tail(reader)
    /\ RunCallback(Head(reader), flags)
    /\ UNCHANGED <<err, replies, invalid, sub, obuf, rev, wev, cmds, onConnect,
                   onDisconnect, srvVars>>

\* The callback returns; a redisAsyncFree called by it is carried out now.
CallbackReturns ==
    /\ pc = "cb"
    /\ flags' = flags \ {"IN_CALLBACK"}
    /\ pc' = IF Has("FREEING") THEN "free" ELSE "process"
    /\ reply' = NoReply
    /\ UNCHANGED <<err, replies, invalid, sub, obuf, reader, rev, wev, cb, histVars,
                   srvVars>>

-----------------------------------------------------------------------------
(* __redisAsyncFree.                                                          *)

\* Mutant: a pending callback is dropped and not run.
DropCallback(i) == cb' = i /\ UNCHANGED <<flags, pc, fired>>

RunWithNull(i) ==
    /\ cb' = i
    /\ IF i = 0
       THEN UNCHANGED <<flags, pc, fired>>
       ELSE /\ flags' = flags \cup {"IN_CALLBACK"}
            /\ pc' = "freecb"
            /\ fired' = [fired EXCEPT ![i] = IF @ < 2 THEN @ + 1 ELSE @]

FreeReplies ==
    /\ pc = "free" /\ replies # <<>>
    /\ RunWithNull(Head(replies))
    /\ replies' = Tail(replies)
    /\ UNCHANGED <<err, invalid, sub, obuf, reader, rev, wev, reply, cmds, onConnect,
                   onDisconnect, srvVars>>

FreeInvalid ==
    /\ pc = "free" /\ replies = <<>> /\ invalid # <<>>
    /\ RunWithNull(Head(invalid))
    /\ invalid' = Tail(invalid)
    /\ UNCHANGED <<err, replies, sub, obuf, reader, rev, wev, reply, cmds, onConnect,
                   onDisconnect, srvVars>>

\* The order is that of the hash table.
FreeSub(t) ==
    /\ pc = "free" /\ replies = <<>> /\ invalid = <<>> /\ sub[t] # 0
    /\ RunWithNull(sub[t])
    /\ sub' = [sub EXCEPT ![t] = 0]
    /\ UNCHANGED <<err, replies, invalid, obuf, reader, rev, wev, reply, cmds, onConnect,
                   onDisconnect, srvVars>>

FreeCallbackReturns ==
    /\ pc = "freecb"
    /\ flags' = flags \ {"IN_CALLBACK"}
    /\ pc' = "free"
    /\ UNCHANGED <<err, replies, invalid, sub, obuf, reader, rev, wev, cb, reply, histVars,
                   srvVars>>

\* Mutant: the application hears of the end of a connection it never had.
TellAlways == TRUE

\* onDisconnect is for connections that were established.
TellDisconnect == Has("CONNECTED")

\* The events are removed, onDisconnect is called and the memory is released.
FreeContext ==
    /\ pc = "free" /\ replies = <<>> /\ invalid = <<>> /\ \A t \in Topics : sub[t] = 0
    /\ rev' = FALSE /\ wev' = FALSE
    /\ onDisconnect' = IF TellDisconnect
                       THEN Append(onDisconnect,
                                   IF Has("FREEING") \/ ~err THEN "OK" ELSE "ERR")
                       ELSE onDisconnect
    /\ pc' = "freed"
    /\ UNCHANGED <<ctxVars, cmds, fired, onConnect, srvVars>>

-----------------------------------------------------------------------------
(* Calls of the application, from the loop or from a reply callback.           *)

\* onConnect and onDisconnect get a const context and are given no turn of their own.
\* A command issued in onConnect has the effect of one issued in the loop just before
\* the event, as has a disconnect with callbacks pending; a command in onDisconnect is
\* refused.  To free the context in either, or to disconnect with no callback pending,
\* is a use after free by the handler that called it, which the model leaves out.
UserRuns == pc \in {"loop", "cb", "freecb"}

\* __redisAsyncCommand refuses new commands once the connection is to be closed.
Accepts == UserRuns /\ ~Has("DISCONNECTING") /\ ~Has("FREEING") /\ Len(cmds) < MaxCmd

\* The common part: the command goes to obuf, and writing is scheduled.
Appended(kind, topic) ==
    /\ Accepts
    /\ kind \in CmdKinds
    /\ cmds' = Append(cmds, [kind |-> kind, topic |-> topic])
    /\ obuf' = Append(obuf, Len(cmds) + 1)
    /\ wev' = TRUE
    /\ UNCHANGED <<err, reader, rev, pc, cb, reply, fired, onConnect, onDisconnect,
                   srvVars>>

Command ==
    /\ Appended("get", NoTopic)
    /\ IF Has("SUBSCRIBED")
       THEN invalid' = PushCallback(invalid, Len(cmds) + 1) /\ UNCHANGED replies
       ELSE replies' = PushCallback(replies, Len(cmds) + 1) /\ UNCHANGED invalid
    /\ UNCHANGED <<flags, sub>>

Subscribe(t) ==
    /\ Appended("subscribe", t)
    /\ flags' = flags \cup {"SUBSCRIBED"}
    /\ sub' = [sub EXCEPT ![t] = Len(cmds) + 1]
    /\ UNCHANGED <<replies, invalid>>

Unsubscribe(t) ==
    /\ Has("SUBSCRIBED")
    /\ Appended("unsubscribe", t)
    /\ UNCHANGED <<flags, replies, invalid, sub>>

Monitor ==
    /\ Appended("monitor", NoTopic)
    /\ flags' = flags \cup {"MONITORING"}
    /\ replies' = PushCallback(replies, Len(cmds) + 1)
    /\ UNCHANGED <<invalid, sub>>

\* Mutant: redisAsyncDisconnect does not wait for pending callbacks.
WaitsInCallback == Has("IN_CALLBACK")

\* redisAsyncDisconnect leaves the rest to redisProcessCallbacks.
MustWait == Has("IN_CALLBACK") \/ replies # <<>>

\* redisAsyncDisconnect.
AsyncDisconnect ==
    /\ UserRuns
    /\ IF MustWait
       THEN flags' = flags \cup {"DISCONNECTING"} /\ UNCHANGED <<err, pc>>
       ELSE Disconnect(flags \cup {"DISCONNECTING"}, err, replies)
    /\ UNCHANGED <<replies, invalid, sub, obuf, reader, rev, wev, cb, reply, histVars,
                   srvVars>>

\* redisAsyncFree.
AsyncFree ==
    /\ UserRuns /\ AskFree
    /\ flags' = flags \cup {"FREEING"}
    /\ pc' = IF Has("IN_CALLBACK") THEN pc ELSE "free"
    /\ UNCHANGED <<err, replies, invalid, sub, obuf, reader, rev, wev, cb, reply, histVars,
                   srvVars>>

-----------------------------------------------------------------------------
UserStep == \/ Command \/ Monitor \/ AsyncDisconnect \/ AsyncFree
            \/ \E t \in Topics : Subscribe(t) \/ Unsubscribe(t)

ReadEvent == ReadRefused \/ ReadData \/ ReadPart \/ ReadFails
WriteEvent == WriteRefused \/ WriteData \/ WriteFails
EarlyEvent == ReadAgain \/ WriteAgain

ThreadStep == \/ ProcessDisconnects \/ ProcessEnds \/ ProcessFails \/ ProcessAborts
              \/ ProcessRegular \/ ProcessSubscribed \/ ProcessMonitor \/ CallbackReturns
              \/ FreeReplies \/ FreeInvalid \/ (\E t \in Topics : FreeSub(t))
              \/ FreeCallbackReturns \/ FreeContext

ServerStep == ServerAnswers \/ ServerPublishes \/ ServerRefuses \/ ServerCloses

Next == \/ UserStep \/ ReadEvent \/ WriteEvent \/ EarlyEvent \/ ThreadStep \/ ServerStep
        \/ \E result \in {"ok", "refused"} : ConnectionResolves(result)

Spec == Init /\ [][Next]_vars

\* The thread runs, the event loop serves both events, connect(2) has a result, and
\* the server answers what it receives.
Fairness == /\ WF_vars(ThreadStep)
            /\ WF_vars(ReadEvent) /\ WF_vars(WriteEvent)
            /\ WF_vars(\E result \in {"ok", "refused"} : ConnectionResolves(result))
            /\ WF_vars(ServerAnswers)

FairSpec == Spec /\ Fairness

-----------------------------------------------------------------------------
Issued == 1 .. Len(cmds)
Regular(i) == i \in Issued /\ cmds[i].kind = "get"

\* No command has been issued that leaves a mode or turns on monitor mode.  What
\* follows needs this: without it replies and callbacks may get out of step.
Plain == \A i \in Issued : cmds[i].kind \in {"get", "subscribe"}

\* The callback of a regular command never runs with a reply that is not the one
\* to that command (or the error with which the server turns the connection away):
\* replies are matched to callbacks by their order alone.
OwnReply ==
    Plain /\ pc = "cb" /\ Regular(cb)
        => reply.id = cb \/ (reply.id = 0 /\ reply.type = "error")

\* The callback of a regular command the context accepted runs at most once, and has
\* run, with a reply or with NULL, by the time the context is freed.
CallbackOnce ==
    Plain => \A i \in Issued : Regular(i) => fired[i] <= 1 /\ (pc = "freed" => fired[i] = 1)

\* A subscription's callback is run with messages of its own channel only.
OwnTopic ==
    Plain /\ pc = "cb" /\ cmds[cb].kind = "subscribe" => reply.topic = cmds[cb].topic

\* "For clean disconnects, there should be no pending callbacks" (the assertion of
\* __redisAsyncDisconnect) and "If callback list is empty, the context *must* be
\* subscribed or monitoring" (that of redisProcessCallbacks): neither fails.
NoAbort == pc # "aborted"

\* They do not as long as no mode is left.
NoAbortIfPlain == Plain => NoAbort

\* The application is told of at most one connection, and of the end of exactly
\* those connections it was told had been established; never of an end that is not
\* one yet.
ConnectDisconnectPaired ==
    /\ Len(onConnect) <= 1
    /\ Len(onDisconnect) = IF pc = "freed" /\ onConnect = <<"OK">> THEN 1 ELSE 0

\* A handler has returned to try again later.
Stalled == pc = "loop" /\ err

\* In the event loop the context listens: it waits for data whenever it is
\* connected, and for room in the socket whenever it is connecting or has something
\* to write.  The events are not persistent, so each handler has to see to this on
\* every path.  The one path that does not is EINPROGRESS: the context then has no
\* write event (unless a command adds it), nor ever becomes a connection, since the
\* error that was noted makes the next handler disconnect.
NeverDeaf ==
    pc = "loop" => /\ Has("CONNECTED") => rev /\ ~Stalled
                   /\ ~Has("CONNECTED") \/ obuf # <<>> => wev \/ Stalled

\* A context that is to be disconnected is freed in the end, unless it has stalled.
DisconnectCompletes == Has("DISCONNECTING") ~> pc = "freed" \/ Stalled

\* The callback of every accepted regular command runs in the end, unless the
\* context has stalled.
CommandConcludes == \A i \in 1 .. MaxCmd : Regular(i) ~> fired[i] > 0 \/ Stalled
=============================================================================
