--------------------------- MODULE RedisAsync_proofs ---------------------------
(***************************************************************************)
(* Theorems about the asynchronous context for any set of channels and any    *)
(* number of commands and pushes.  One inductive invariant, Inv, carries all  *)
(* of them; its parts follow a command from redisAsyncCommand to its callback *)
(* through obuf, the wire, the server, inbuf and the reader.                  *)
(***************************************************************************)
EXTENDS RedisAsync, FiniteSetTheorems, SequenceTheorems, TLAPS

\* A command as __redisAsyncCommand tells them apart.
Cmd == [kind : {"get", "monitor"}, topic : {NoTopic}]
         \cup [kind : {"subscribe", "unsubscribe"}, topic : Topics]

\* A reply as it can arrive: those that are looked up in the dictionary of channels
\* name a channel.
Arrival == {r \in Reply : IsArray(r) => r.topic \in Topics}

TypeOK ==
    /\ flags \subseteq Flags /\ err \in BOOLEAN
    /\ replies \in Seq(0 .. MaxCmd) /\ invalid \in Seq(0 .. MaxCmd)
    /\ sub \in [Topics -> 0 .. MaxCmd]
    /\ obuf \in Seq(1 .. MaxCmd) /\ wire \in Seq(1 .. MaxCmd)
    /\ reader \in Seq(Arrival) /\ inbuf \in Seq(Arrival)
    /\ rev \in BOOLEAN /\ wev \in BOOLEAN
    /\ pc \in {"loop", "process", "cb", "free", "freecb", "freed", "aborted"}
    /\ cb \in 0 .. MaxCmd
    /\ reply \in Reply \cup {NoReply}
    /\ cmds \in Seq(Cmd) /\ Len(cmds) <= MaxCmd
    /\ fired \in [1 .. MaxCmd -> 0 .. 2]
    /\ conn \in {"pending", "ok", "refused"}
    /\ partial \in BOOLEAN /\ closed \in BOOLEAN
    /\ srvSubs \subseteq Topics /\ IsFiniteSet(srvSubs)
    /\ srvMon \in BOOLEAN /\ pushes \in 0 .. MaxPush

-----------------------------------------------------------------------------
Leaving == pc \in {"free", "freecb", "freed"}
Serving == pc \in {"loop", "process", "cb"}

\* The flag of a running callback, and the flags that keep new commands out of a
\* context that is being freed.
FlagsOK ==
    /\ Has("IN_CALLBACK") <=> pc \in {"cb", "freecb"}
    /\ Leaving => Has("DISCONNECTING") \/ Has("FREEING")

\* What the application has been told of the connection so far.
ToldOK ==
    /\ Has("CONNECTED") <=> onConnect = <<"OK">>
    /\ ~Has("CONNECTED") => onConnect = <<>> \/ (onConnect = <<"ERR">> /\ Leaving)
    /\ pc = "freed" /\ Has("CONNECTED") => Len(onDisconnect) = 1
    /\ ~(pc = "freed" /\ Has("CONNECTED")) => onDisconnect = <<>>

\* A freed context has no callback left to run.
FreedOK == pc = "freed" => replies = <<>> /\ invalid = <<>>

\* While it serves replies, the context keeps the events it needs, unless it has been
\* called too early; then it has an error and is not connected.
EventsOK ==
    Serving => /\ Has("CONNECTED") => rev /\ ~err
               /\ ~Has("CONNECTED") \/ obuf # <<>> => wev \/ err
               /\ pc # "loop" => Has("CONNECTED")

-----------------------------------------------------------------------------
(* The way of a command to the server: commands are numbered as they are       *)
(* accepted, and go to the server in this order, none twice and none left out. *)

Answered == Len(cmds) - Len(obuf) - Len(wire)

Pipeline ==
    /\ Answered >= 0
    /\ \A j \in 1 .. Len(wire) : wire[j] = Answered + j
    /\ \A j \in 1 .. Len(obuf) : obuf[j] = Answered + Len(wire) + j

\* The callback in the dictionary of channels is that of a command for the channel.
SubOK == \A t \in Topics : sub[t] # 0 => /\ sub[t] \in Issued
                                         /\ cmds[sub[t]] = [kind |-> "subscribe", topic |-> t]

IsSub(i) == cmds[i].kind = "subscribe"

\* The regular commands before the first subscription: their callbacks are in
\* ac->replies, those of later ones in ac->sub.invalid.
Early(i) == i \in Issued /\ \A j \in 1 .. i : ~IsSub(j)

\* The way of a reply to its callback.
Stream == reader \o inbuf

\* Modes of the context and of the server.
ModesOK ==
    /\ ~srvMon /\ ~Has("MONITORING")
    /\ srvSubs # {} <=> \E s \in 1 .. Answered : IsSub(s)
    /\ \A t \in srvSubs : \E s \in 1 .. Answered : IsSub(s) /\ cmds[s].topic = t
    /\ Serving => (Has("SUBSCRIBED") <=> \E s \in Issued : IsSub(s))
    /\ Serving => \A s \in Issued : IsSub(s) => sub[cmds[s].topic] # 0

\* The answer to command r.id.
AnswerOK(r) ==
    /\ r.id \in 1 .. Answered
    /\ IF IsSub(r.id) THEN r.type = "subscribe" /\ r.topic = cmds[r.id].topic
       ELSE r.type = IF Early(r.id) THEN "data" ELSE "error"

\* The p-th reply of the stream is one the server sends of its own accord.
PushOK(p) ==
    \/ /\ Stream[p].type = "message"
       /\ \E s \in 1 .. Answered : IsSub(s) /\ cmds[s].topic = Stream[p].topic
       /\ \A q \in p .. Len(Stream) : ~Early(Stream[q].id)
    \/ /\ Stream[p].type \in {"error", "bad"}
       /\ closed /\ p = Len(Stream)

StreamOK ==
    /\ \A p \in 1 .. Len(Stream) : IF Stream[p].id = 0 THEN PushOK(p) ELSE AnswerOK(Stream[p])
    /\ \A p, q \in 1 .. Len(Stream) :
          p < q /\ Stream[q].id # 0 => Stream[p].id < Stream[q].id

\* The lists of callbacks are in the order of the commands.
ListsOK ==
    /\ \A j \in 1 .. Len(replies) : Early(replies[j])
    /\ \A j, k \in 1 .. Len(replies) : j < k => replies[j] < replies[k]
    /\ \A j \in 1 .. Len(invalid) : /\ invalid[j] \in Issued /\ ~IsSub(invalid[j])
                                    /\ ~Early(invalid[j])
    /\ \A j, k \in 1 .. Len(invalid) : j < k => invalid[j] < invalid[k]

\* Replies on their way and callbacks on the list correspond.
MatchOK ==
    Serving =>
      /\ \A p \in 1 .. Len(Stream) :
            Early(Stream[p].id) => \E j \in 1 .. Len(replies) : replies[j] = Stream[p].id
      /\ \A j \in 1 .. Len(replies) :
            replies[j] <= Answered => \/ \E p \in 1 .. Len(Stream) : Stream[p].id = replies[j]
                                      \/ closed /\ Stream = <<>>
      /\ \A i \in Issued : ~closed /\ Early(i) /\ i > Answered
                               => \E j \in 1 .. Len(replies) : replies[j] = i

Waits(i) == \/ \E j \in 1 .. Len(replies) : replies[j] = i
            \/ \E j \in 1 .. Len(invalid) : invalid[j] = i

FiredOK ==
    \A i \in 1 .. MaxCmd :
        /\ i \notin Issued => fired[i] = 0
        /\ Regular(i) => fired[i] = IF Waits(i) THEN 0 ELSE 1

\* The callback that is running and the reply it runs with.
RunningOK ==
    pc = "cb" => /\ cb \in Issued
                 /\ IF IsSub(cb) THEN reply.topic = cmds[cb].topic
                    ELSE reply.id = cb \/ (reply.id = 0 /\ reply.type = "error")

PlainOK == /\ ModesOK /\ StreamOK /\ ListsOK /\ MatchOK /\ FiredOK /\ RunningOK
           /\ pc # "aborted"

Inv == /\ TypeOK /\ FlagsOK /\ ToldOK /\ FreedOK /\ EventsOK /\ Pipeline /\ SubOK
       /\ Plain => PlainOK

-----------------------------------------------------------------------------
\* What a server's answer looks like.
LEMMA AnswerType ==
    ASSUME TypeOK, NEW i \in Issued, NEW S \in SUBSET Topics, IsFiniteSet(S)
    PROVE  Answer(i, S) \in Arrival
<1>1. cmds[i] \in Cmd
  BY DEF TypeOK, Issued
<1>2. Cardinality(S) \in Nat
  BY FS_CardinalityType
<1>3. i \in 0 .. MaxCmd
  BY AsyncAssumption DEF TypeOK, Issued
<1> QED
  BY <1>1, <1>2, <1>3 DEF Answer, Arrival, Reply, Cmd, IsArray

\* Counting the runs of a callback.
LEMMA FiredType ==
    ASSUME NEW i \in 1 .. MaxCmd, fired \in [1 .. MaxCmd -> 0 .. 2],
           fired' = [fired EXCEPT ![i] = IF @ < 2 THEN @ + 1 ELSE @]
    PROVE  fired' \in [1 .. MaxCmd -> 0 .. 2]
<1>1. fired[i] \in 0 .. 2
  OBVIOUS
<1>2. (IF fired[i] < 2 THEN fired[i] + 1 ELSE fired[i]) \in 0 .. 2
  BY <1>1
<1> QED
  BY <1>2

\* __redisRunCallback ...
LEMMA RunCallbackType ==
    ASSUME TypeOK, pc = "process", cb' \in 0 .. MaxCmd, NEW r \in Reply,
           NEW f \in SUBSET Flags, RunCallback(r, f)
    PROVE  /\ flags' \subseteq Flags
           /\ pc' \in {"process", "cb"}
           /\ reply' \in Reply \cup {NoReply}
           /\ fired' \in [1 .. MaxCmd -> 0 .. 2]
<1>1. CASE cb' = 0
  BY <1>1 DEF RunCallback, TypeOK
<1>2. CASE cb' # 0
  <2>1. cb' \in 1 .. MaxCmd
    BY <1>2, AsyncAssumption
  <2>2. fired' \in [1 .. MaxCmd -> 0 .. 2]
    BY <1>2, <2>1, FiredType DEF RunCallback, TypeOK
  <2> QED
    BY <1>2, <2>2 DEF RunCallback, Flags
<1> QED
  BY <1>1, <1>2

\* ... and its call from __redisAsyncFree.
LEMMA RunWithNullType ==
    ASSUME TypeOK, pc = "free", NEW i \in 0 .. MaxCmd, RunWithNull(i)
    PROVE  /\ flags' \subseteq Flags
           /\ pc' \in {"free", "freecb"}
           /\ cb' \in 0 .. MaxCmd
           /\ fired' \in [1 .. MaxCmd -> 0 .. 2]
<1>1. CASE i = 0
  BY <1>1 DEF RunWithNull, TypeOK
<1>2. CASE i # 0
  <2>1. i \in 1 .. MaxCmd
    BY <1>2, AsyncAssumption
  <2>2. fired' \in [1 .. MaxCmd -> 0 .. 2]
    BY <1>2, <2>1, FiredType DEF RunWithNull, TypeOK
  <2> QED
    BY <1>2, <2>2 DEF RunWithNull, Flags, TypeOK
<1> QED
  BY <1>1, <1>2

\* The elements of a sequence.
LEMMA SeqElements ==
    ASSUME NEW S, NEW s \in Seq(S)
    PROVE  \A i \in 1 .. Len(s) : s[i] \in S
  BY ElementOfSeq

\* read(2) moves a part of the replies on the way to the reader: none is lost, none
\* changes its place.
LEMMA ReadSplits ==
    ASSUME TypeOK, ReadData
    PROVE  /\ reader' \in Seq(Arrival) /\ inbuf' \in Seq(Arrival)
           /\ Stream' = Stream
<1>1. PICK n \in 1 .. Len(inbuf) : /\ reader' = reader \o SubSeq(inbuf, 1, n)
                                  /\ inbuf' = SubSeq(inbuf, n + 1, Len(inbuf))
  BY DEF ReadData
<1>2. reader \in Seq(Arrival) /\ inbuf \in Seq(Arrival) /\ Len(inbuf) \in Nat
  BY DEF TypeOK
<1>3. SubSeq(inbuf, 1, n) \in Seq(Arrival) /\ SubSeq(inbuf, n + 1, Len(inbuf)) \in Seq(Arrival)
  BY <1>2, SubSeqProperties, ElementOfSeq
<1>4. SubSeq(inbuf, 1, n) \o SubSeq(inbuf, n + 1, Len(inbuf)) = inbuf
  BY <1>2, ConcatAdjacentSubSeq, SubSeqFull
<1> DEFINE a == SubSeq(inbuf, 1, n)
           b == SubSeq(inbuf, n + 1, Len(inbuf))
<1> HIDE DEF a, b
<1>5. a \in Seq(Arrival) /\ b \in Seq(Arrival) /\ reader' = reader \o a /\ inbuf' = b
      /\ a \o b = inbuf
  BY <1>1, <1>3, <1>4 DEF a, b
<1>6. (reader \o a) \o b = reader \o (a \o b)
  <2>1. \A s, t, u \in Seq(Arrival) : (s \o t) \o u = s \o (t \o u)
    BY ConcatAssociative
  <2> QED
    BY <1>2, <1>5, <2>1, Zenon
<1> QED
  BY <1>2, <1>5, <1>6, ConcatProperties DEF Stream

\* write(2) moves a part of obuf to the wire.
LEMMA WriteSplits ==
    ASSUME TypeOK, WriteData
    PROVE  /\ wire' \in Seq(1 .. MaxCmd) /\ obuf' \in Seq(1 .. MaxCmd)
           /\ \E n \in 0 .. Len(obuf) :
                 /\ Len(wire') = Len(wire) + n /\ Len(obuf') = Len(obuf) - n
                 /\ \A j \in 1 .. Len(wire) : wire'[j] = wire[j]
                 /\ \A j \in 1 .. n : wire'[Len(wire) + j] = obuf[j]
                 /\ \A j \in 1 .. Len(obuf) - n : obuf'[j] = obuf[n + j]
<1>1. PICK n \in 0 .. Len(obuf) : /\ wire' = wire \o SubSeq(obuf, 1, n)
                                 /\ obuf' = SubSeq(obuf, n + 1, Len(obuf))
  BY DEF WriteData
<1>2. wire \in Seq(1 .. MaxCmd) /\ obuf \in Seq(1 .. MaxCmd)
  BY DEF TypeOK
<1>3. Len(obuf) \in Nat /\ Len(wire) \in Nat
  BY <1>2, LenProperties
<1>4. /\ SubSeq(obuf, 1, n) \in Seq(1 .. MaxCmd) /\ Len(SubSeq(obuf, 1, n)) = n
      /\ \A j \in 1 .. n : SubSeq(obuf, 1, n)[j] = obuf[j]
  <2>1. \A j \in 1 .. n : obuf[j] \in 1 .. MaxCmd
    <3>1. \A j \in 1 .. Len(obuf) : obuf[j] \in 1 .. MaxCmd
      BY <1>2, SeqElements, Zenon
    <3> QED
      BY <1>3, <3>1
  <2> QED
    BY <1>3, <2>1, SubSeqProperties
<1>5. /\ obuf' \in Seq(1 .. MaxCmd) /\ Len(obuf') = Len(obuf) - n
      /\ \A j \in 1 .. Len(obuf) - n : obuf'[j] = obuf[n + j]
  <2>1. \A j \in n + 1 .. Len(obuf) : obuf[j] \in 1 .. MaxCmd
    <3>1. \A j \in 1 .. Len(obuf) : obuf[j] \in 1 .. MaxCmd
      BY <1>2, SeqElements, Zenon
    <3> QED
      BY <1>3, <3>1
  <2> QED
    BY <1>1, <1>3, <2>1, SubSeqProperties
<1>6. /\ wire' \in Seq(1 .. MaxCmd) /\ Len(wire') = Len(wire) + n
      /\ \A j \in 1 .. Len(wire) : wire'[j] = wire[j]
      /\ \A j \in 1 .. n : wire'[Len(wire) + j] = obuf[j]
  <2> DEFINE a == SubSeq(obuf, 1, n)
  <2> HIDE DEF a
  <2>1. wire' = wire \o a /\ a \in Seq(1 .. MaxCmd) /\ Len(a) = n
    BY <1>1, <1>4 DEF a
  <2>2. /\ wire' \in Seq(1 .. MaxCmd) /\ Len(wire') = Len(wire) + n
        /\ \A j \in 1 .. Len(wire) + n :
              wire'[j] = IF j <= Len(wire) THEN wire[j] ELSE a[j - Len(wire)]
    BY <1>2, <2>1, ConcatProperties
  <2>3. \A j \in 1 .. n : a[j] = obuf[j]
    BY <1>4 DEF a
  <2>4. ASSUME NEW j \in 1 .. n PROVE wire'[Len(wire) + j] = obuf[j]
    <3>1. Len(wire) + j \in 1 .. Len(wire) + n /\ ~(Len(wire) + j <= Len(wire))
          /\ (Len(wire) + j) - Len(wire) = j
      BY <1>3
    <3>2. wire'[Len(wire) + j] = a[(Len(wire) + j) - Len(wire)]
      BY <2>2, <3>1, Zenon
    <3> QED
      BY <2>3, <3>1, <3>2
  <2>5. ASSUME NEW j \in 1 .. Len(wire) PROVE wire'[j] = wire[j]
    BY <1>3, <2>2
  <2> QED
    BY <2>2, <2>4, <2>5
<1> QED
  BY <1>5, <1>6

\* A new context, before redisAsyncConnect has a result.
LEMMA TypeInit == Init => TypeOK
<1> SUFFICES ASSUME Init PROVE TypeOK
  OBVIOUS
<1>1. /\ replies \in Seq(0 .. MaxCmd) /\ invalid \in Seq(0 .. MaxCmd)
      /\ obuf \in Seq(1 .. MaxCmd) /\ wire \in Seq(1 .. MaxCmd)
      /\ reader \in Seq(Arrival) /\ inbuf \in Seq(Arrival)
      /\ cmds \in Seq(Cmd) /\ Len(cmds) = 0
  BY EmptySeq DEF Init
<1>2. IsFiniteSet(srvSubs)
  BY FS_EmptySet DEF Init
<1>3. /\ sub \in [Topics -> 0 .. MaxCmd] /\ cb \in 0 .. MaxCmd
      /\ fired \in [1 .. MaxCmd -> 0 .. 2] /\ pushes \in 0 .. MaxPush
  BY AsyncAssumption DEF Init
<1>4. flags \subseteq Flags /\ srvSubs \subseteq Topics /\ Len(cmds) <= MaxCmd
  BY <1>1, AsyncAssumption DEF Init
<1>5. /\ err \in BOOLEAN /\ rev \in BOOLEAN /\ wev \in BOOLEAN /\ partial \in BOOLEAN
      /\ closed \in BOOLEAN /\ srvMon \in BOOLEAN
  BY Zenon DEF Init
<1>6. /\ pc \in {"loop", "process", "cb", "free", "freecb", "freed", "aborted"}
      /\ reply \in Reply \cup {NoReply} /\ conn \in {"pending", "ok", "refused"}
  BY DEF Init
<1> QED
  BY <1>1, <1>2, <1>3, <1>4, <1>5, <1>6 DEF TypeOK

\* Types over every handler.  Pipeline is needed where the server answers: a number on the
\* wire is that of a command.
LEMMA TypeStep == TypeOK /\ Pipeline /\ [Next]_vars => TypeOK'
<1> SUFFICES ASSUME TypeOK, Pipeline, [Next]_vars PROVE TypeOK'
  OBVIOUS
<1> USE AsyncAssumption DEF TypeOK, Flags, Has, ctxVars, histVars, srvVars
<1>1. CASE Command
  <2>1. Len(cmds) + 1 \in 1 .. MaxCmd
    BY <1>1 DEF Command, Appended, Accepts
  <2>2. /\ replies' \in Seq(0 .. MaxCmd) /\ invalid' \in Seq(0 .. MaxCmd)
        /\ obuf' \in Seq(1 .. MaxCmd)
    <3>1. obuf' \in Seq(1 .. MaxCmd)
      BY <1>1, <2>1 DEF Command, Appended
    <3>2. /\ Append(replies, Len(cmds) + 1) \in Seq(0 .. MaxCmd)
          /\ Append(invalid, Len(cmds) + 1) \in Seq(0 .. MaxCmd)
      BY <2>1
    <3> QED
      BY <1>1, <3>1, <3>2 DEF Command, PushCallback
  <2>3. cmds' \in Seq(Cmd) /\ Len(cmds') <= MaxCmd
    BY <1>1, <2>1 DEF Command, Appended, Cmd
  <2> QED
    BY <1>1, <2>2, <2>3 DEF Command, Appended
<1>2. CASE Monitor
  BY <1>2 DEF Monitor, Appended, PushCallback, Accepts, Cmd
<1>3. CASE AsyncDisconnect
  <2>1. flags' \subseteq Flags /\ err' \in BOOLEAN
    BY <1>3 DEF AsyncDisconnect, Disconnect
  <2>2. pc' \in {"loop", "process", "cb", "free", "freecb", "freed", "aborted"}
    BY <1>3 DEF AsyncDisconnect, Disconnect
  <2> QED
    BY <1>3, <2>1, <2>2 DEF AsyncDisconnect
<1>4. CASE AsyncFree
  BY <1>4 DEF AsyncFree, UserRuns
<1>5. ASSUME NEW t \in Topics, Subscribe(t) PROVE TypeOK'
  BY <1>5 DEF Subscribe, Appended, Accepts, Cmd
<1>6. ASSUME NEW t \in Topics, Unsubscribe(t) PROVE TypeOK'
  BY <1>6 DEF Unsubscribe, Appended, Accepts, Cmd
<1>7. CASE ReadRefused
  BY <1>7 DEF ReadRefused, HandleConnectFails, Disconnect
<1>8. CASE ReadData
  <2>1. reader' \in Seq(Arrival) /\ inbuf' \in Seq(Arrival)
    BY <1>8, ReadSplits
  <2> QED
    <3>1. /\ flags' = flags \cup {"CONNECTED"} /\ rev' = TRUE /\ pc' = "process" /\ cb' = 0
          /\ partial' = FALSE
          /\ UNCHANGED <<err, replies, invalid, sub, obuf, wev, reply, cmds, fired,
                         onDisconnect, conn, wire, closed, srvSubs, srvMon, pushes>>
      BY <1>8, Zenon DEF ReadData, NowConnected, ScheduleRead
    <3>2. partial' \in BOOLEAN /\ rev' \in BOOLEAN
      BY <3>1, Zenon
    <3>3. flags' \subseteq Flags
      BY <3>1
    <3> QED
      BY <2>1, <3>1, <3>2, <3>3
<1>9. CASE ReadPart
  BY <1>9 DEF ReadPart, HandleConnect, NowConnected, ScheduleRead
<1>10. CASE ReadFails
  BY <1>10 DEF ReadFails, HandleConnect, NowConnected, Disconnect
<1>11. CASE WriteRefused
  BY <1>11 DEF WriteRefused, HandleConnectFails, Disconnect
<1>12. CASE WriteData
  <2>1. wire' \in Seq(1 .. MaxCmd) /\ obuf' \in Seq(1 .. MaxCmd)
    BY <1>12, WriteSplits
  <2>2. wev' \in BOOLEAN
    BY <1>12 DEF WriteData, ScheduleWrite
  <2> QED
    BY <1>12, <2>1, <2>2 DEF WriteData, NowConnected, ScheduleRead
<1>13. CASE WriteFails
  BY <1>13 DEF WriteFails, HandleConnect, NowConnected, Disconnect
<1>14. CASE ProcessDisconnects
  BY <1>14 DEF ProcessDisconnects, Disconnect
<1>15. CASE ProcessEnds
  <2>1. replies' \in Seq(0 .. MaxCmd)
    <3>1. Append(replies, cb) \in Seq(0 .. MaxCmd)
      OBVIOUS
    <3> QED
      BY <1>15, <3>1 DEF ProcessEnds, PushCallback
  <2> QED
    BY <1>15, <2>1 DEF ProcessEnds
<1>16. CASE ProcessFails
  <2>1. reader' \in Seq(Arrival)
    BY <1>16, HeadTailProperties DEF ProcessFails
  <2> QED
    BY <1>16, <2>1 DEF ProcessFails, Disconnect
<1>17. CASE ProcessAborts
  BY <1>17 DEF ProcessAborts
<1>18. CASE ProcessRegular
  <2>1. reader' \in Seq(Arrival) /\ Head(reader) \in Reply
    BY <1>18, HeadTailProperties DEF ProcessRegular, Arrival
  <2>2. replies' \in Seq(0 .. MaxCmd) /\ cb' \in 0 .. MaxCmd
    BY <1>18, HeadTailProperties DEF ProcessRegular
  <2> HIDE DEF TypeOK, Flags
  <2>3. /\ flags' \subseteq Flags
        /\ pc' \in {"process", "cb"}
        /\ reply' \in Reply \cup {NoReply}
        /\ fired' \in [1 .. MaxCmd -> 0 .. 2]
    <3>1. flags \in SUBSET Flags
      BY DEF TypeOK
    <3> QED
      BY <1>18, <2>1, <2>2, <3>1, RunCallbackType DEF ProcessRegular
  <2> QED
    BY <1>18, <2>1, <2>2, <2>3 DEF ProcessRegular, TypeOK
<1>19. CASE ProcessSubscribed
  <2> DEFINE r == Head(reader)
             f == IF EndsSubscribed(r) THEN flags \ {"SUBSCRIBED"} ELSE flags
  <2>1. reader' \in Seq(Arrival) /\ r \in Reply /\ r \in Arrival
    <3>1. reader # <<>> /\ reader' = Tail(reader)
      BY <1>19 DEF ProcessSubscribed
    <3> QED
      BY <3>1, HeadTailProperties DEF Arrival
  <2>2. invalid # <<>> => Head(invalid) \in 0 .. MaxCmd /\ Tail(invalid) \in Seq(0 .. MaxCmd)
    BY HeadTailProperties
  <2>3. cb' \in 0 .. MaxCmd
    BY <1>19, <2>1, <2>2 DEF ProcessSubscribed, SubscribeCallback, Arrival
  <2>4. invalid' \in Seq(0 .. MaxCmd)
    BY <1>19, <2>2 DEF ProcessSubscribed
  <2>5. sub' \in [Topics -> 0 .. MaxCmd]
    <3>1. [sub EXCEPT ![r.topic] = 0] \in [Topics -> 0 .. MaxCmd]
      BY 0 \in 0 .. MaxCmd, Zenon
    <3> QED
      BY <1>19, <3>1 DEF ProcessSubscribed
  <2>6. f \in SUBSET Flags
    OBVIOUS
  <2> HIDE DEF TypeOK, Flags, f
  <2>7. /\ flags' \subseteq Flags
        /\ pc' \in {"process", "cb"}
        /\ reply' \in Reply \cup {NoReply}
        /\ fired' \in [1 .. MaxCmd -> 0 .. 2]
    <3>1. RunCallback(r, f) /\ pc = "process"
      BY <1>19 DEF ProcessSubscribed, f
    <3> QED
      BY <2>1, <2>3, <2>6, <3>1, RunCallbackType
  <2> QED
    BY <1>19, <2>1, <2>3, <2>4, <2>5, <2>7 DEF ProcessSubscribed, TypeOK
<1>20. CASE ProcessMonitor
  <2>1. reader' \in Seq(Arrival) /\ Head(reader) \in Reply
    BY <1>20, HeadTailProperties DEF ProcessMonitor, Arrival
  <2>2. cb' \in 0 .. MaxCmd
    BY <1>20 DEF ProcessMonitor
  <2> HIDE DEF TypeOK, Flags
  <2>3. /\ flags' \subseteq Flags
        /\ pc' \in {"process", "cb"}
        /\ reply' \in Reply \cup {NoReply}
        /\ fired' \in [1 .. MaxCmd -> 0 .. 2]
    <3>1. flags \in SUBSET Flags
      BY DEF TypeOK
    <3> QED
      BY <1>20, <2>1, <2>2, <3>1, RunCallbackType DEF ProcessMonitor
  <2> QED
    BY <1>20, <2>1, <2>2, <2>3 DEF ProcessMonitor, TypeOK
<1>21. CASE CallbackReturns
  BY <1>21 DEF CallbackReturns
<1>22. CASE FreeReplies
  <2>1. replies' \in Seq(0 .. MaxCmd) /\ Head(replies) \in 0 .. MaxCmd
    BY <1>22, HeadTailProperties DEF FreeReplies
  <2> HIDE DEF TypeOK, Flags
  <2>2. /\ flags' \subseteq Flags
        /\ pc' \in {"free", "freecb"}
        /\ cb' \in 0 .. MaxCmd
        /\ fired' \in [1 .. MaxCmd -> 0 .. 2]
    BY <1>22, <2>1, RunWithNullType DEF FreeReplies
  <2> QED
    BY <1>22, <2>1, <2>2 DEF FreeReplies, TypeOK
<1>23. CASE FreeInvalid
  <2>1. invalid' \in Seq(0 .. MaxCmd) /\ Head(invalid) \in 0 .. MaxCmd
    BY <1>23, HeadTailProperties DEF FreeInvalid
  <2> HIDE DEF TypeOK, Flags
  <2>2. /\ flags' \subseteq Flags
        /\ pc' \in {"free", "freecb"}
        /\ cb' \in 0 .. MaxCmd
        /\ fired' \in [1 .. MaxCmd -> 0 .. 2]
    BY <1>23, <2>1, RunWithNullType DEF FreeInvalid
  <2> QED
    BY <1>23, <2>1, <2>2 DEF FreeInvalid, TypeOK
<1>24. ASSUME NEW t \in Topics, FreeSub(t) PROVE TypeOK'
  <2>1. sub' \in [Topics -> 0 .. MaxCmd] /\ sub[t] \in 0 .. MaxCmd
    BY <1>24 DEF FreeSub
  <2> HIDE DEF TypeOK, Flags
  <2>2. /\ flags' \subseteq Flags
        /\ pc' \in {"free", "freecb"}
        /\ cb' \in 0 .. MaxCmd
        /\ fired' \in [1 .. MaxCmd -> 0 .. 2]
    BY <1>24, <2>1, RunWithNullType DEF FreeSub
  <2> QED
    BY <1>24, <2>1, <2>2 DEF FreeSub, TypeOK
<1>25. CASE FreeCallbackReturns
  BY <1>25 DEF FreeCallbackReturns
<1>26. CASE FreeContext
  BY <1>26 DEF FreeContext
<1>27. CASE ServerAnswers
  <2> DEFINE i == Head(wire)
             subs == CASE cmds[i].kind = "subscribe" -> srvSubs \cup {cmds[i].topic}
                       [] cmds[i].kind = "unsubscribe" -> srvSubs \ {cmds[i].topic}
                       [] OTHER -> srvSubs
  <2>1. wire' \in Seq(1 .. MaxCmd) /\ i = wire[1] /\ 1 \in 1 .. Len(wire)
    BY <1>27, HeadTailProperties DEF ServerAnswers
  <2>2. i \in Issued
    BY <2>1 DEF Pipeline, Answered, Issued
  <2>3. cmds[i] \in Cmd
    BY <2>2 DEF Issued
  <2>4. subs \subseteq Topics
    BY <2>3 DEF Cmd
  <2>5. IsFiniteSet(subs)
    BY FS_AddElement, FS_RemoveElement
  <2> HIDE DEF TypeOK, i, subs
  <2>6. inbuf' = Append(inbuf, Answer(i, subs)) /\ srvSubs' = subs
    BY <1>27 DEF ServerAnswers, i, subs
  <2>7. Answer(i, subs) \in Arrival
    BY <2>2, <2>4, <2>5, AnswerType
  <2>8. inbuf' \in Seq(Arrival)
    BY <2>6, <2>7, AppendProperties DEF TypeOK
  <2>9. srvMon' \in BOOLEAN
    BY <1>27 DEF ServerAnswers
  <2> QED
    BY <1>27, <2>1, <2>4, <2>5, <2>6, <2>8, <2>9 DEF ServerAnswers, TypeOK
<1>28. CASE ServerPublishes
  <2>1. PICK r \in Arrival : inbuf' = Append(inbuf, r)
    <3>1. /\ \A t \in Topics : [type |-> "message", id |-> 0, topic |-> t, left |-> 0] \in Arrival
          /\ [type |-> "line", id |-> 0, topic |-> NoTopic, left |-> 0] \in Arrival
      BY DEF Arrival, Reply, IsArray
    <3> QED
      BY <1>28, <3>1 DEF ServerPublishes, Push
  <2>2. inbuf' \in Seq(Arrival)
    BY <2>1, AppendProperties
  <2>3. /\ pushes < MaxPush /\ pushes' = pushes + 1
        /\ UNCHANGED <<ctxVars, rev, wev, pc, histVars, conn, wire, partial, closed, srvSubs,
                       srvMon>>
    BY <1>28 DEF ServerPublishes, Push
  <2>4. pushes' \in 0 .. MaxPush
    BY <2>3
  <2> QED
    BY <2>2, <2>3, <2>4
<1>29. CASE ServerRefuses
  BY <1>29 DEF ServerRefuses, Push, Arrival, Reply, IsArray
<1>30. CASE ServerCloses
  BY <1>30 DEF ServerCloses
<1>31. ASSUME NEW result \in {"ok", "refused"}, ConnectionResolves(result) PROVE TypeOK'
  BY <1>31 DEF ConnectionResolves
<1>32. CASE UNCHANGED vars
  BY <1>32 DEF vars
<1>33. CASE EarlyEvent
  BY <1>33 DEF EarlyEvent, ReadAgain, WriteAgain, HandleConnectAgain
<1> HIDE DEF TypeOK
<1> QED
  BY <1>1, <1>2, <1>3, <1>4, <1>5, <1>6, <1>7, <1>8, <1>9, <1>10, <1>11, <1>12, <1>13,
     <1>14, <1>15, <1>16, <1>17, <1>18, <1>19, <1>20, <1>21, <1>22, <1>23, <1>24, <1>25,
     <1>26, <1>27, <1>28, <1>29, <1>30, <1>31, <1>32, <1>33
     DEF Next, UserStep, ReadEvent, WriteEvent, ThreadStep, ServerStep

-----------------------------------------------------------------------------
\* The server and the socket leave the context and its thread alone.
LEMMA ServerFrame ==
    ASSUME ServerStep \/ \E result \in {"ok", "refused"} : ConnectionResolves(result)
    PROVE  UNCHANGED <<ctxVars, rev, wev, pc, histVars>>
  BY DEF ServerStep, ServerAnswers, ServerPublishes, ServerRefuses, ServerCloses, Push,
         ConnectionResolves

\* A list of one status.
LEMMA OneStatus ==
    /\ Append(<<>>, "OK") = <<"OK">> /\ Append(<<>>, "ERR") = <<"ERR">>
    /\ Len(<<"OK">>) = 1 /\ Len(<<"ERR">>) = 1 /\ Len(<<>>) = 0
    /\ <<"OK">> # <<>> /\ <<"ERR">> # <<>> /\ <<"OK">> # <<"ERR">>
  OBVIOUS

\* The parts about flags, notifications and events in a new context.
LEMMA LocalInit == Init => FlagsOK /\ ToldOK /\ EventsOK
  BY OneStatus DEF Init, FlagsOK, ToldOK, EventsOK, Has, Leaving, Serving

\* Flags, statuses and events.
LEMMA LocalStep ==
    TypeOK /\ FlagsOK /\ ToldOK /\ EventsOK /\ [Next]_vars
        => FlagsOK' /\ ToldOK' /\ EventsOK'
<1> SUFFICES ASSUME TypeOK, FlagsOK, ToldOK, EventsOK, [Next]_vars
             PROVE  FlagsOK' /\ ToldOK' /\ EventsOK'
  OBVIOUS
<1> DEFINE Goal == FlagsOK' /\ ToldOK' /\ EventsOK'
<1> USE OneStatus DEF FlagsOK, ToldOK, EventsOK, Has, Leaving, Serving, ctxVars, histVars
<1>1. CASE Command
  BY <1>1 DEF Command, Appended, Accepts, UserRuns
<1>2. CASE Monitor
  BY <1>2 DEF Monitor, Appended, Accepts, UserRuns
<1>3. CASE AsyncDisconnect
  BY <1>3 DEF AsyncDisconnect, Disconnect, UserRuns, MustWait
<1>4. CASE AsyncFree
  BY <1>4 DEF AsyncFree, UserRuns
<1>5. ASSUME NEW t \in Topics, Subscribe(t) PROVE Goal
  BY <1>5 DEF Subscribe, Appended, Accepts, UserRuns
<1>6. ASSUME NEW t \in Topics, Unsubscribe(t) PROVE Goal
  BY <1>6 DEF Unsubscribe, Appended, Accepts, UserRuns
<1>7. CASE ReadRefused
  BY <1>7 DEF ReadRefused, HandleConnectFails, Disconnect
<1>8. CASE ReadData
  BY <1>8 DEF ReadData, HandleConnect, NowConnected, ScheduleRead
<1>9. CASE ReadPart
  BY <1>9 DEF ReadPart, HandleConnect, NowConnected, ScheduleRead
<1>10. CASE ReadFails
  <2>1. pc = "loop" /\ pc' = "free" /\ UNCHANGED onDisconnect
    BY <1>10 DEF ReadFails, Disconnect
  <2>2. flags' = flags \cup {"CONNECTED", "DISCONNECTING"}
    BY <1>10 DEF ReadFails, NowConnected, Disconnect
  <2>3. onConnect' = <<"OK">>
    BY <1>10 DEF ReadFails, HandleConnect
  <2> QED
    BY <2>1, <2>2, <2>3
<1>11. CASE WriteRefused
  BY <1>11 DEF WriteRefused, HandleConnectFails, Disconnect
<1>12. CASE WriteData
  BY <1>12 DEF WriteData, HandleConnect, NowConnected, ScheduleRead, ScheduleWrite
<1>13. CASE WriteFails
  <2>1. pc = "loop" /\ pc' = "free" /\ UNCHANGED onDisconnect
    BY <1>13 DEF WriteFails, Disconnect
  <2>2. flags' = flags \cup {"CONNECTED", "DISCONNECTING"}
    BY <1>13 DEF WriteFails, NowConnected, Disconnect
  <2>3. onConnect' = <<"OK">>
    BY <1>13 DEF WriteFails, HandleConnect
  <2> QED
    BY <2>1, <2>2, <2>3
<1>14. CASE ProcessDisconnects
  BY <1>14 DEF ProcessDisconnects, Disconnect
<1>15. CASE ProcessEnds
  BY <1>15 DEF ProcessEnds
<1>16. CASE ProcessFails
  BY <1>16 DEF ProcessFails, Disconnect
<1>17. CASE ProcessAborts
  BY <1>17 DEF ProcessAborts
<1>18. CASE ProcessRegular
  BY <1>18 DEF ProcessRegular, RunCallback
<1>19. CASE ProcessSubscribed
  BY <1>19 DEF ProcessSubscribed, RunCallback
<1>20. CASE ProcessMonitor
  BY <1>20 DEF ProcessMonitor, RunCallback
<1>21. CASE CallbackReturns
  BY <1>21 DEF CallbackReturns
<1>22. CASE FreeReplies
  BY <1>22 DEF FreeReplies, RunWithNull
<1>23. CASE FreeInvalid
  BY <1>23 DEF FreeInvalid, RunWithNull
<1>24. ASSUME NEW t \in Topics, FreeSub(t) PROVE Goal
  BY <1>24 DEF FreeSub, RunWithNull
<1>25. CASE FreeCallbackReturns
  BY <1>25 DEF FreeCallbackReturns
<1>26. CASE FreeContext
  BY <1>26 DEF FreeContext, TellDisconnect
<1>27. CASE ServerStep \/ \E result \in {"ok", "refused"} : ConnectionResolves(result)
  BY <1>27, ServerFrame
<1>28. CASE UNCHANGED vars
  BY <1>28 DEF vars
<1>29. CASE EarlyEvent
  BY <1>29 DEF EarlyEvent, ReadAgain, WriteAgain, HandleConnectAgain
<1> HIDE DEF FlagsOK, ToldOK, EventsOK
<1> QED
  BY <1>1, <1>2, <1>3, <1>4, <1>5, <1>6, <1>7, <1>8, <1>9, <1>10, <1>11, <1>12, <1>13,
     <1>14, <1>15, <1>16, <1>17, <1>18, <1>19, <1>20, <1>21, <1>22, <1>23, <1>24, <1>25,
     <1>26, <1>27, <1>28, <1>29
     DEF Next, UserStep, ReadEvent, WriteEvent, ThreadStep

-----------------------------------------------------------------------------
\* Arithmetic on the lengths of the queues between the context and the server.
LEMMA Lengths ==
    ASSUME TypeOK
    PROVE  /\ Len(cmds) \in Nat /\ Len(obuf) \in Nat /\ Len(wire) \in Nat
           /\ Len(replies) \in Nat /\ Len(invalid) \in Nat
           /\ Len(reader) \in Nat /\ Len(inbuf) \in Nat
  BY LenProperties DEF TypeOK

\* A command is accepted: the numbers of the commands grow by one, the command goes to
\* the end of obuf.
LEMMA AppendedStep ==
    ASSUME TypeOK, Pipeline, NEW kind, NEW topic, Appended(kind, topic),
           [kind |-> kind, topic |-> topic] \in Cmd
    PROVE  /\ Pipeline' /\ Answered' = Answered
           /\ Len(cmds') = Len(cmds) + 1 /\ Len(cmds) + 1 \in 1 .. MaxCmd
           /\ \A i \in Issued : cmds'[i] = cmds[i]
           /\ cmds'[Len(cmds) + 1] = [kind |-> kind, topic |-> topic]
<1>1. /\ Len(cmds') = Len(cmds) + 1
      /\ \A i \in 1 .. Len(cmds) : cmds'[i] = cmds[i]
      /\ cmds'[Len(cmds) + 1] = [kind |-> kind, topic |-> topic]
  <2>1. cmds \in Seq(Cmd) /\ cmds' = Append(cmds, [kind |-> kind, topic |-> topic])
    BY DEF Appended, TypeOK
  <2> QED
    BY <2>1, AppendProperties
<1>2. Len(cmds) + 1 \in 1 .. MaxCmd
  BY Lengths, AsyncAssumption DEF Appended, Accepts, TypeOK
<1>3. /\ Len(obuf') = Len(obuf) + 1
      /\ \A j \in 1 .. Len(obuf) : obuf'[j] = obuf[j]
      /\ obuf'[Len(obuf) + 1] = Len(cmds) + 1
  <2>1. obuf \in Seq(1 .. MaxCmd) /\ obuf' = Append(obuf, Len(cmds) + 1)
    BY DEF Appended, TypeOK
  <2> QED
    BY <1>2, <2>1, AppendProperties
<1>4. wire' = wire
  BY DEF Appended, srvVars
<1>5. Answered' = Answered
  BY <1>1, <1>3, <1>4, Lengths DEF Answered
<1>6. Pipeline'
  <2>1. \A j \in 1 .. Len(obuf) + 1 : obuf'[j] = Answered + Len(wire) + j
    <3>1. \A j \in 1 .. Len(obuf) : obuf'[j] = Answered + Len(wire) + j
      BY <1>3 DEF Pipeline
    <3>2. obuf'[Len(obuf) + 1] = Answered + Len(wire) + (Len(obuf) + 1)
      BY <1>3, Lengths DEF Answered
    <3>3. \A j \in 1 .. Len(obuf) + 1 : j \in 1 .. Len(obuf) \/ j = Len(obuf) + 1
      BY Lengths
    <3> QED
      BY <3>1, <3>2, <3>3
  <2> QED
    BY <1>3, <1>4, <1>5, <2>1, Lengths DEF Pipeline
<1> QED
  BY <1>1, <1>2, <1>5, <1>6 DEF Issued

\* A part of obuf is written.
LEMMA WriteStep ==
    ASSUME TypeOK, Pipeline, WriteData
    PROVE  Pipeline' /\ Answered' = Answered
<1>1. PICK n \in 0 .. Len(obuf) :
            /\ Len(wire') = Len(wire) + n /\ Len(obuf') = Len(obuf) - n
            /\ \A j \in 1 .. Len(wire) : wire'[j] = wire[j]
            /\ \A j \in 1 .. n : wire'[Len(wire) + j] = obuf[j]
            /\ \A j \in 1 .. Len(obuf) - n : obuf'[j] = obuf[n + j]
  BY WriteSplits
<1>2. cmds' = cmds
  BY DEF WriteData
<1>3. Answered' = Answered /\ Answered \in Int
  BY <1>1, <1>2, Lengths DEF Answered
<1>4. ASSUME NEW j \in 1 .. Len(wire) + n PROVE wire'[j] = Answered + j
  <2>1. CASE j \in 1 .. Len(wire)
    BY <1>1, <2>1 DEF Pipeline
  <2>2. CASE j \notin 1 .. Len(wire)
    <3>1. j - Len(wire) \in 1 .. n /\ Len(wire) + (j - Len(wire)) = j
      BY <2>2, Lengths
    <3>2. wire'[j] = obuf[j - Len(wire)]
      BY <1>1, <3>1
    <3>3. j - Len(wire) \in 1 .. Len(obuf)
      BY <3>1, Lengths
    <3>4. obuf[j - Len(wire)] = Answered + Len(wire) + (j - Len(wire))
      BY <3>3 DEF Pipeline
    <3> QED
      BY <1>3, <3>2, <3>4, Lengths
  <2> QED
    BY <2>1, <2>2
<1>5. ASSUME NEW j \in 1 .. Len(obuf) - n PROVE obuf'[j] = Answered + (Len(wire) + n) + j
  <2>1. n + j \in 1 .. Len(obuf)
    BY Lengths
  <2>2. obuf'[j] = obuf[n + j]
    BY <1>1
  <2>3. obuf[n + j] = Answered + Len(wire) + (n + j)
    BY <2>1 DEF Pipeline
  <2> QED
    BY <1>3, <2>2, <2>3, Lengths
<1> QED
  BY <1>1, <1>3, <1>4, <1>5 DEF Pipeline

\* The server takes the next command from the wire.
LEMMA AnswersStep ==
    ASSUME TypeOK, Pipeline, ServerAnswers
    PROVE  /\ Pipeline' /\ Answered' = Answered + 1
           /\ Head(wire) = Answered + 1 /\ Answered + 1 \in Issued
<1>1. /\ wire \in Seq(1 .. MaxCmd) /\ wire # <<>> /\ wire' = Tail(wire)
      /\ UNCHANGED <<cmds, obuf>>
  BY DEF ServerAnswers, TypeOK, ctxVars, histVars
<1>2. /\ Len(wire') = Len(wire) - 1 /\ Len(wire) >= 1
      /\ \A j \in 1 .. Len(wire) - 1 : wire'[j] = wire[j + 1]
      /\ Head(wire) = wire[1]
  BY <1>1, HeadTailProperties, EmptySeq, Lengths
<1>3. Answered' = Answered + 1 /\ Answered \in Nat
  BY <1>1, <1>2, Lengths DEF Answered, Pipeline
<1>4. Pipeline'
  <2>1. \A j \in 1 .. Len(wire) - 1 : wire'[j] = Answered + 1 + j
    BY <1>2, <1>3, Lengths DEF Pipeline
  <2> QED
    BY <1>1, <1>2, <1>3, <2>1, Lengths DEF Pipeline
<1> QED
  BY <1>2, <1>3, <1>4, Lengths DEF Pipeline, Issued, Answered

\* All other steps leave commands, obuf and wire alone.
PipeRest == \/ AsyncDisconnect \/ AsyncFree \/ ReadEvent \/ WriteRefused \/ WriteFails
            \/ EarlyEvent \/ ThreadStep \/ ServerPublishes \/ ServerRefuses \/ ServerCloses
            \/ \E result \in {"ok", "refused"} : ConnectionResolves(result)

\* A step that touches neither the commands nor the two queues of them.
LEMMA PipeFrame ==
    ASSUME PipeRest
    PROVE  UNCHANGED <<cmds, obuf, wire>>
<1> USE DEF ctxVars, histVars, srvVars
<1>1. CASE AsyncDisconnect \/ AsyncFree
  BY <1>1 DEF AsyncDisconnect, AsyncFree
<1>2. CASE ReadEvent \/ WriteRefused \/ WriteFails \/ EarlyEvent
  BY <1>2 DEF ReadEvent, ReadRefused, ReadData, ReadPart, ReadFails, WriteRefused,
              WriteFails, HandleConnectFails, EarlyEvent, ReadAgain, WriteAgain,
              HandleConnectAgain
<1>3. CASE ThreadStep
  BY <1>3 DEF ThreadStep, ProcessDisconnects, ProcessEnds, ProcessFails, ProcessAborts,
              ProcessRegular, ProcessSubscribed, ProcessMonitor, CallbackReturns,
              FreeReplies, FreeInvalid, FreeSub, FreeCallbackReturns, FreeContext
<1>4. CASE \/ ServerPublishes \/ ServerRefuses \/ ServerCloses
           \/ \E result \in {"ok", "refused"} : ConnectionResolves(result)
  BY <1>4 DEF ServerPublishes, ServerRefuses, ServerCloses, Push, ConnectionResolves
<1> QED
  BY <1>1, <1>2, <1>3, <1>4 DEF PipeRest

\* Nothing has been issued.
LEMMA PipeInit == Init => Pipeline /\ SubOK
  BY OneStatus DEF Init, Pipeline, Answered, SubOK

\* Issuing appends the next number to obuf, a write moves a prefix to the wire, the server
\* takes the first: the numbers stay consecutive over every step.
LEMMA PipeStep == TypeOK /\ Pipeline /\ [Next]_vars => Pipeline'
<1> SUFFICES ASSUME TypeOK, Pipeline, [Next]_vars PROVE Pipeline'
  OBVIOUS
<1>1. CASE Command
  BY <1>1, AppendedStep DEF Command, Cmd
<1>2. CASE Monitor
  BY <1>2, AppendedStep DEF Monitor, Cmd
<1>3. ASSUME NEW t \in Topics, Subscribe(t) PROVE Pipeline'
  BY <1>3, AppendedStep DEF Subscribe, Cmd
<1>4. ASSUME NEW t \in Topics, Unsubscribe(t) PROVE Pipeline'
  BY <1>4, AppendedStep DEF Unsubscribe, Cmd
<1>5. CASE WriteData
  BY <1>5, WriteStep
<1>6. CASE ServerAnswers
  BY <1>6, AnswersStep
<1>7. CASE PipeRest
  BY <1>7, PipeFrame DEF Pipeline, Answered
<1>8. CASE UNCHANGED vars
  BY <1>8 DEF vars, ctxVars, histVars, srvVars, Pipeline, Answered
<1> QED
  BY <1>1, <1>2, <1>3, <1>4, <1>5, <1>6, <1>7, <1>8
     DEF Next, UserStep, WriteEvent, ServerStep, PipeRest

\* The dictionary of channels.
LEMMA SubStep == TypeOK /\ Pipeline /\ SubOK /\ [Next]_vars => SubOK'
<1> SUFFICES ASSUME TypeOK, Pipeline, SubOK, [Next]_vars PROVE SubOK'
  OBVIOUS
<1>1. ASSUME NEW kind, NEW topic, Appended(kind, topic),
             [kind |-> kind, topic |-> topic] \in Cmd, sub' = sub
      PROVE  SubOK'
  BY <1>1, AppendedStep, Lengths DEF SubOK, Issued
<1>2. CASE Command
  BY <1>2, <1>1 DEF Command, Cmd
<1>3. CASE Monitor
  BY <1>3, <1>1 DEF Monitor, Cmd
<1>4. ASSUME NEW t \in Topics, Unsubscribe(t) PROVE SubOK'
  BY <1>4, <1>1 DEF Unsubscribe, Cmd
<1>5. ASSUME NEW t \in Topics, Subscribe(t) PROVE SubOK'
  <2>1. /\ Len(cmds') = Len(cmds) + 1 /\ \A i \in Issued : cmds'[i] = cmds[i]
        /\ cmds'[Len(cmds) + 1] = [kind |-> "subscribe", topic |-> t]
    BY <1>5, AppendedStep DEF Subscribe, Cmd
  <2>2. /\ sub'[t] = Len(cmds) + 1
        /\ \A u \in Topics : u # t => sub'[u] = sub[u]
    BY <1>5 DEF Subscribe, TypeOK
  <2> QED
    BY <2>1, <2>2, Lengths DEF SubOK, Issued
<1>6. ASSUME NEW t \in Topics, FreeSub(t) PROVE SubOK'
  BY <1>6 DEF FreeSub, SubOK, Issued, TypeOK
<1>7. CASE ProcessSubscribed
  <2>1. cmds' = cmds /\ \A u \in Topics : sub'[u] = sub[u] \/ sub'[u] = 0
    BY <1>7 DEF ProcessSubscribed, TypeOK
  <2> QED
    BY <2>1 DEF SubOK, Issued
<1>8. CASE PipeRest /\ sub' = sub
  BY <1>8, PipeFrame DEF SubOK, Issued
<1>9. CASE WriteEvent \/ ServerStep
  BY <1>9, ServerFrame DEF WriteEvent, WriteRefused, WriteData, WriteFails,
     HandleConnectFails, SubOK, Issued, ctxVars, histVars, srvVars
<1>10. CASE UNCHANGED vars
  BY <1>10 DEF vars, ctxVars, histVars, SubOK, Issued
<1>11. ASSUME PipeRest, sub' # sub PROVE ProcessSubscribed \/ \E t \in Topics : FreeSub(t)
  BY <1>11 DEF PipeRest, AsyncDisconnect, AsyncFree, ReadEvent, ReadRefused, ReadData,
     ReadPart, ReadFails, WriteRefused, WriteFails, HandleConnectFails, EarlyEvent,
     ReadAgain, WriteAgain, HandleConnectAgain, ThreadStep,
     ProcessDisconnects, ProcessEnds, ProcessFails, ProcessAborts, ProcessRegular,
     ProcessMonitor, CallbackReturns, FreeReplies, FreeInvalid, FreeCallbackReturns,
     FreeContext, ServerPublishes, ServerRefuses, ServerCloses, Push, ConnectionResolves,
     ctxVars
<1> QED
  BY <1>2, <1>3, <1>4, <1>5, <1>6, <1>7, <1>8, <1>9, <1>10, <1>11
     DEF Next, UserStep, WriteEvent, ServerStep, PipeRest

-----------------------------------------------------------------------------
(* Replies on their way.                                                      *)

LEMMA StreamType ==
    ASSUME TypeOK
    PROVE  /\ Stream \in Seq(Arrival) /\ Len(Stream) \in Nat
           /\ \A p \in 1 .. Len(Stream) : Stream[p] \in Reply /\ Stream[p].id \in Nat
<1>1. Stream \in Seq(Arrival)
  BY ConcatProperties DEF TypeOK, Stream
<1>2. \A p \in 1 .. Len(Stream) : Stream[p] \in Arrival
  BY <1>1, SeqElements, Zenon
<1>3. \A r \in Arrival : r \in Reply /\ r.id \in Nat
  BY AsyncAssumption DEF Arrival, Reply
<1> QED
  BY <1>1, <1>2, <1>3, LenProperties

\* The reader gives a reply away.
LEMMA StreamPop ==
    ASSUME TypeOK, reader # <<>>, reader' = Tail(reader), inbuf' = inbuf
    PROVE  /\ Len(Stream) >= 1 /\ Head(reader) = Stream[1]
           /\ Len(Stream') = Len(Stream) - 1
           /\ \A p \in 1 .. Len(Stream) - 1 : Stream'[p] = Stream[p + 1]
<1>1. reader \in Seq(Arrival) /\ inbuf \in Seq(Arrival)
  BY DEF TypeOK
<1>2. /\ Tail(reader) \in Seq(Arrival) /\ Len(Tail(reader)) = Len(reader) - 1
      /\ \A i \in 1 .. Len(reader) - 1 : Tail(reader)[i] = reader[i + 1]
      /\ Len(reader) \in Nat \ {0} /\ Len(inbuf) \in Nat /\ Head(reader) = reader[1]
  BY <1>1, HeadTailProperties, EmptySeq, LenProperties
<1>3. /\ Len(Stream) = Len(reader) + Len(inbuf)
      /\ \A i \in 1 .. Len(reader) + Len(inbuf) :
            Stream[i] = IF i <= Len(reader) THEN reader[i] ELSE inbuf[i - Len(reader)]
  BY <1>1, ConcatProperties, Zenon DEF Stream
<1>4. /\ Len(Stream') = Len(Tail(reader)) + Len(inbuf)
      /\ \A i \in 1 .. Len(Tail(reader)) + Len(inbuf) :
            Stream'[i] = IF i <= Len(Tail(reader)) THEN Tail(reader)[i]
                         ELSE inbuf[i - Len(Tail(reader))]
  BY <1>1, <1>2, ConcatProperties, Zenon DEF Stream
<1>5. ASSUME NEW p \in 1 .. Len(Stream) - 1 PROVE Stream'[p] = Stream[p + 1]
  <2>1. p \in 1 .. Len(Tail(reader)) + Len(inbuf) /\ p + 1 \in 1 .. Len(reader) + Len(inbuf)
    BY <1>2, <1>3
  <2>2. CASE p <= Len(reader) - 1
    <3>1. Stream'[p] = Tail(reader)[p]
      BY <1>2, <1>4, <2>1, <2>2
    <3>2. Stream[p + 1] = reader[p + 1]
      BY <1>2, <1>3, <2>1, <2>2
    <3>3. p \in 1 .. Len(reader) - 1
      BY <1>2, <2>1, <2>2
    <3> QED
      BY <1>2, <3>1, <3>2, <3>3
  <2>3. CASE ~(p <= Len(reader) - 1)
    <3>1. Stream'[p] = inbuf[p - (Len(reader) - 1)]
      BY <1>2, <1>4, <2>1, <2>3
    <3>2. Stream[p + 1] = inbuf[(p + 1) - Len(reader)]
      BY <1>2, <1>3, <2>1, <2>3
    <3>3. p - (Len(reader) - 1) = (p + 1) - Len(reader)
      BY <1>2, <2>1
    <3> QED
      BY <3>1, <3>2, <3>3
  <2> QED
    BY <2>2, <2>3
<1>6. Stream[1] = reader[1]
  BY <1>2, <1>3
<1> QED
  BY <1>2, <1>3, <1>4, <1>5, <1>6

\* The server sends r.
LEMMA StreamAppend ==
    ASSUME TypeOK, NEW r \in Arrival, reader' = reader, inbuf' = Append(inbuf, r)
    PROVE  /\ Len(Stream') = Len(Stream) + 1
           /\ \A p \in 1 .. Len(Stream) : Stream'[p] = Stream[p]
           /\ Stream'[Len(Stream) + 1] = r
<1>1. reader \in Seq(Arrival) /\ inbuf \in Seq(Arrival)
  BY DEF TypeOK
<1>2. inbuf' = inbuf \o <<r>> /\ <<r>> \in Seq(Arrival)
  BY <1>1, AppendIsConcat
<1>3. Stream' = Stream \o <<r>>
  <2>1. \A s, t, u \in Seq(Arrival) : (s \o t) \o u = s \o (t \o u)
    BY ConcatAssociative
  <2> QED
    <3>1. Stream' = reader \o (inbuf \o <<r>>)
      BY <1>2 DEF Stream
    <3>2. reader \o (inbuf \o <<r>>) = (reader \o inbuf) \o <<r>>
      BY <1>1, <1>2, <2>1
    <3> QED
      BY <3>1, <3>2 DEF Stream
<1>4. Stream' = Append(Stream, r)
  BY <1>3, StreamType, AppendIsConcat
<1> QED
  BY <1>4, StreamType, AppendProperties

-----------------------------------------------------------------------------
(* Steps in which only get and subscribe commands have been issued.            *)

\* More commands do not change what is true of earlier ones.
LEMMA EarlyKept ==
    ASSUME TypeOK, Len(cmds') \in Nat, Len(cmds') >= Len(cmds),
           \A i \in Issued : cmds'[i] = cmds[i]
    PROVE  \A i \in Issued : /\ i \in Issued'
                           /\ Early(i)' = Early(i)
                           /\ IsSub(i)' = IsSub(i)
<1>1. ASSUME NEW i \in Issued PROVE i \in Issued' /\ (IsSub(i)' = IsSub(i))
  BY <1>1, Lengths DEF Issued, IsSub
<1>2. ASSUME NEW i \in Issued PROVE Early(i)' = Early(i)
  <2>1. \A j \in 1 .. i : j \in Issued
    BY <1>2, Lengths DEF Issued
  <2> QED
    BY <1>1, <2>1 DEF Early
<1> QED
  BY <1>1, <1>2

\* Steps that concern neither commands, callbacks nor replies.
Quiet == /\ UNCHANGED <<cmds, replies, invalid, sub, fired, srvSubs, srvMon>>
         /\ Stream' = Stream /\ Answered' = Answered
         /\ closed => closed'
         /\ "SUBSCRIBED" \in flags' <=> "SUBSCRIBED" \in flags
         /\ "MONITORING" \in flags' <=> "MONITORING" \in flags
         /\ pc' \in {"loop", "process", "cb"} => Serving
         /\ pc' = "cb" => pc = "cb" /\ UNCHANGED <<cb, reply>>
         /\ pc' # "aborted"

\* Such a step keeps the way of replies to callbacks as it was.
LEMMA QuietStep == ASSUME TypeOK, PlainOK, Quiet PROVE PlainOK'
<1>1. Issued' = Issued /\ \A i : (Early(i)' = Early(i)) /\ (IsSub(i)' = IsSub(i))
  BY DEF Quiet, Early, IsSub, Issued
<1>2. ModesOK'
  BY DEF PlainOK, Quiet, ModesOK, Serving, Has, IsSub, Issued
<1>3. StreamOK'
  BY <1>1 DEF PlainOK, Quiet, StreamOK, PushOK, AnswerOK
<1>4. ListsOK'
  BY <1>1 DEF PlainOK, Quiet, ListsOK
<1>5. MatchOK'
  BY <1>1 DEF PlainOK, Quiet, MatchOK, Serving, TypeOK
<1>6. FiredOK'
  BY DEF PlainOK, Quiet, FiredOK, Regular, Waits, Issued
<1>7. RunningOK'
  BY DEF PlainOK, Quiet, RunningOK, Issued, IsSub
<1> QED
  BY <1>2, <1>3, <1>4, <1>5, <1>6, <1>7 DEF PlainOK, Quiet

\* The stream without its first reply.
LEMMA PopStream ==
    ASSUME TypeOK, StreamOK, reader # <<>>, reader' = Tail(reader), inbuf' = inbuf,
           UNCHANGED <<cmds, obuf, wire, closed>>
    PROVE  StreamOK'
<1>1. Issued' = Issued /\ Answered' = Answered
      /\ \A i : (Early(i)' = Early(i)) /\ (IsSub(i)' = IsSub(i))
  BY DEF Early, IsSub, Issued, Answered
<1>2. /\ Len(Stream') = Len(Stream) - 1 /\ Len(Stream) \in Nat
      /\ \A p \in 1 .. Len(Stream) - 1 : Stream'[p] = Stream[p + 1]
  BY StreamPop, StreamType
<1>3. ASSUME NEW p \in 1 .. Len(Stream) - 1, Stream[p + 1].id = 0, PushOK(p + 1)
      PROVE  PushOK(p)'
  <2>1. ASSUME NEW q \in p .. Len(Stream) - 1 PROVE /\ Stream'[q] = Stream[q + 1]
                                                  /\ q + 1 \in p + 1 .. Len(Stream)
    BY <1>2
  <2>2. Stream'[p] = Stream[p + 1]
    BY <1>2
  <2>3. CASE Stream[p + 1].type = "message"
    <3>1. /\ \E s \in 1 .. Answered : IsSub(s) /\ cmds[s].topic = Stream[p + 1].topic
          /\ \A q \in p + 1 .. Len(Stream) : ~Early(Stream[q].id)
      BY <1>3, <2>3 DEF PushOK
    <3>2. \A q \in p .. Len(Stream) - 1 : ~Early(Stream'[q].id)
      BY <2>1, <3>1
    <3> QED
      BY <1>1, <1>2, <2>2, <2>3, <3>1, <3>2 DEF PushOK
  <2>4. CASE Stream[p + 1].type # "message"
    BY <1>2, <1>3, <2>2, <2>4 DEF PushOK
  <2> QED
    BY <2>3, <2>4
<1>4. ASSUME NEW p \in 1 .. Len(Stream) - 1
      PROVE  IF Stream'[p].id = 0 THEN PushOK(p)' ELSE AnswerOK(Stream[p])'
  <2>1. Stream'[p] = Stream[p + 1] /\ p + 1 \in 1 .. Len(Stream)
    BY <1>2
  <2>2. IF Stream[p + 1].id = 0 THEN PushOK(p + 1) ELSE AnswerOK(Stream[p + 1])
    BY <2>1 DEF StreamOK
  <2>3. AnswerOK(Stream[p + 1]) => AnswerOK(Stream[p])'
    BY <1>1, <2>1 DEF AnswerOK
  <2> QED
    BY <1>3, <2>1, <2>2, <2>3
<1>5. ASSUME NEW p \in 1 .. Len(Stream) - 1, NEW q \in 1 .. Len(Stream) - 1,
             p < q, Stream'[q].id # 0
      PROVE  Stream'[p].id < Stream'[q].id
  <2>1. /\ p + 1 \in 1 .. Len(Stream) /\ q + 1 \in 1 .. Len(Stream) /\ p + 1 < q + 1
        /\ Stream'[p] = Stream[p + 1] /\ Stream'[q] = Stream[q + 1]
    BY <1>2, <1>5
  <2> QED
    BY <1>5, <2>1 DEF StreamOK
<1> QED
  BY <1>2, <1>4, <1>5 DEF StreamOK

\* The first reply and the first callback belong together, unless the reply is the one
\* with which the server turns the connection away.
LEMMA HeadMatches ==
    ASSUME TypeOK, PlainOK, Pipeline, Serving, replies # <<>>, Len(Stream) >= 1,
           Stream[1].type # "bad"
    PROVE  \/ Stream[1].id = replies[1] /\ Stream[1].id # 0
           \/ /\ Stream[1].id = 0 /\ Stream[1].type = "error"
              /\ closed /\ Len(Stream) = 1
<1> DEFINE i == replies[1]
           j == Stream[1].id
<1>1. /\ Len(replies) \in Nat /\ Len(replies) >= 1 /\ Len(Stream) \in Nat /\ j \in Nat
      /\ Answered \in Nat /\ Len(cmds) \in Nat /\ Answered <= Len(cmds)
  BY StreamType, Lengths, EmptySeq DEF TypeOK, Pipeline, Answered
<1>2. Early(i) /\ i \in Issued
  BY <1>1 DEF PlainOK, ListsOK, Early
<1>3. Stream # <<>>
  BY <1>1, OneStatus
<1>4. ASSUME i <= Answered PROVE \E p \in 1 .. Len(Stream) : Stream[p].id = i
  BY <1>1, <1>3, <1>4 DEF PlainOK, MatchOK
<1>5. ASSUME NEW s \in 1 .. Answered, IsSub(s) PROVE i < s
  BY <1>1, <1>2, <1>5 DEF Early, Issued
<1>6. ASSUME i <= j, i <= Answered, j # 0 PROVE i = j
  <2>1. PICK p \in 1 .. Len(Stream) : Stream[p].id = i
    BY <1>4, <1>6
  <2>2. CASE p = 1
    BY <2>1, <2>2
  <2>3. CASE p # 1
    <3>1. Stream[1].id < Stream[p].id
      BY <1>1, <1>2, <2>1, <2>3 DEF PlainOK, StreamOK, Issued
    <3> QED
      BY <1>1, <1>2, <1>6, <2>1, <3>1 DEF Issued
  <2> QED
    BY <2>2, <2>3
<1>7. CASE j = 0
  <2>1. PushOK(1)
    BY <1>1, <1>7 DEF PlainOK, StreamOK
  <2>2. CASE Stream[1].type = "message"
    <3>1. PICK s \in 1 .. Answered : IsSub(s)
      BY <2>1, <2>2 DEF PushOK
    <3>2. i <= Answered
      BY <1>1, <1>2, <1>5, <3>1 DEF Issued
    <3>3. PICK p \in 1 .. Len(Stream) : Stream[p].id = i
      BY <1>4, <3>2
    <3>4. ~Early(Stream[p].id)
      BY <2>1, <2>2 DEF PushOK
    <3> QED
      BY <1>2, <3>3, <3>4
  <2> QED
    BY <1>1, <1>7, <2>1, <2>2 DEF PushOK
<1>8. CASE j # 0
  <2>1. AnswerOK(Stream[1])
    BY <1>1, <1>8 DEF PlainOK, StreamOK
  <2>2. j \in 1 .. Answered /\ j \in Issued
    BY <1>1, <2>1 DEF AnswerOK, Issued
  <2>3. i <= j
    <3>1. CASE Early(j)
      <4>1. PICK k \in 1 .. Len(replies) : replies[k] = j
        BY <1>1, <3>1 DEF PlainOK, MatchOK
      <4>2. k # 1 => replies[1] < replies[k]
        BY <1>1 DEF PlainOK, ListsOK
      <4> QED
        BY <1>1, <1>2, <4>1, <4>2 DEF Issued
    <3>2. CASE ~Early(j)
      <4>1. PICK m \in 1 .. j : IsSub(m)
        BY <2>2, <3>2 DEF Early
      <4> QED
        BY <1>1, <1>2, <1>5, <2>2, <4>1 DEF Issued
    <3> QED
      BY <3>1, <3>2
  <2> QED
    BY <1>1, <1>2, <1>6, <1>8, <2>2, <2>3 DEF Issued
<1> QED
  BY <1>7, <1>8

\* If no callback waits on the list, the next reply concerns a subscription.
LEMMA OnlySubscriptions ==
    ASSUME TypeOK, PlainOK, Pipeline, Serving, replies = <<>>, Len(Stream) >= 1,
           Stream[1].type \notin {"bad", "error"}
    PROVE  /\ Stream[1].type \in {"subscribe", "message"}
           /\ \E s \in Issued : IsSub(s) /\ cmds[s].topic = Stream[1].topic
<1>1. /\ Len(replies) = 0 /\ Len(Stream) \in Nat /\ Answered \in Nat /\ Len(cmds) \in Nat
      /\ Answered <= Len(cmds)
  BY StreamType, Lengths, OneStatus DEF Pipeline, Answered
<1>2. \A s \in 1 .. Answered : s \in Issued
  BY <1>1 DEF Issued
<1>3. CASE Stream[1].id = 0
  <2>1. PushOK(1)
    BY <1>1, <1>3 DEF PlainOK, StreamOK
  <2> QED
    BY <1>2, <2>1 DEF PushOK
<1>4. CASE Stream[1].id # 0
  <2>1. AnswerOK(Stream[1])
    BY <1>1, <1>4 DEF PlainOK, StreamOK
  <2>2. ~Early(Stream[1].id)
    BY <1>1 DEF PlainOK, MatchOK
  <2> QED
    BY <1>2, <2>1, <2>2 DEF AnswerOK
<1> QED
  BY <1>3, <1>4

\* The first callback of ac->replies.
LEMMA HeadReplies ==
    ASSUME TypeOK, ListsOK, replies # <<>>
    PROVE  Head(replies) = replies[1] /\ Len(replies) \in Nat \ {0} /\ Early(replies[1])
<1>1. Head(replies) = replies[1] /\ Len(replies) \in Nat \ {0}
  BY HeadTailProperties, EmptySeq DEF TypeOK
<1> QED
  BY <1>1 DEF ListsOK

\* The first callback of ac->replies is taken off the list and run.
LEMMA PopReplies ==
    ASSUME TypeOK, Plain, ListsOK, FiredOK, replies # <<>>, replies' = Tail(replies),
           UNCHANGED <<invalid, cmds>>,
           fired' = [fired EXCEPT ![Head(replies)] = IF @ < 2 THEN @ + 1 ELSE @]
    PROVE  /\ ListsOK' /\ FiredOK'
           /\ Head(replies) = replies[1] /\ Early(replies[1])
           /\ Len(replies) >= 1 /\ Len(replies') = Len(replies) - 1
           /\ \A j \in 1 .. Len(replies) - 1 : replies'[j] = replies[j + 1]
<1>1. /\ Len(replies) \in Nat \ {0} /\ Head(replies) = replies[1]
      /\ Len(replies') = Len(replies) - 1
      /\ \A j \in 1 .. Len(replies) - 1 : replies'[j] = replies[j + 1]
  BY HeadTailProperties, EmptySeq, LenProperties DEF TypeOK
<1>2. Issued' = Issued /\ \A i : (Early(i)' = Early(i)) /\ (IsSub(i)' = IsSub(i))
  BY DEF Early, IsSub, Issued
<1>3. \A j \in 1 .. Len(replies) - 1 : j + 1 \in 1 .. Len(replies)
  BY <1>1
<1>4. ListsOK'
  BY <1>1, <1>2, <1>3 DEF ListsOK
<1>0. PICK i : i = replies[1]
  OBVIOUS
<1>5. Early(i) /\ i \in Issued /\ 1 \in 1 .. Len(replies)
  BY <1>0, <1>1 DEF ListsOK, Early
<1>6. i \in 1 .. MaxCmd
  BY <1>5, Lengths, AsyncAssumption DEF Issued, TypeOK
<1>7. cmds[i].kind = "get"
  BY <1>5, Lengths DEF Plain, Early, IsSub, Issued
<1>8. fired[i] = 0
  BY <1>0, <1>5, <1>6, <1>7 DEF FiredOK, Waits, Regular
<1>9. fired'[i] = 1 /\ \A k \in 1 .. MaxCmd : k # i => fired'[k] = fired[k]
  BY <1>0, <1>1, <1>6, <1>8 DEF TypeOK
<1>10. ~Waits(i)'
  BY <1>0, <1>1, <1>3, <1>5 DEF Waits, ListsOK, Issued
<1>11. ASSUME NEW k, k # i PROVE Waits(k)' = Waits(k)
  <2>1. ASSUME NEW j \in 1 .. Len(replies), replies[j] = k
        PROVE  \E m \in 1 .. Len(replies) - 1 : replies'[m] = k
    <3>1. j # 1 /\ j - 1 \in 1 .. Len(replies) - 1 /\ (j - 1) + 1 = j
      BY <1>0, <1>1, <1>11, <2>1
    <3> QED
      BY <1>1, <2>1, <3>1
  <2> QED
    BY <1>1, <1>3, <2>1 DEF Waits
<1>12. FiredOK'
  <2>1. ASSUME NEW k \in 1 .. MaxCmd, k # i
        PROVE  /\ k \notin Issued => fired'[k] = 0
               /\ Regular(k) => fired'[k] = IF Waits(k)' THEN 0 ELSE 1
    BY <1>9, <1>11, <2>1 DEF FiredOK
  <2> QED
    BY <1>2, <1>5, <1>9, <1>10, <2>1 DEF FiredOK, Regular
<1> QED
  BY <1>0, <1>1, <1>4, <1>5, <1>12

\* The first callback of ac->sub.invalid is taken off the list and run.
LEMMA PopInvalid ==
    ASSUME TypeOK, Plain, ListsOK, FiredOK, invalid # <<>>, invalid' = Tail(invalid),
           UNCHANGED <<replies, cmds>>,
           fired' = [fired EXCEPT ![Head(invalid)] = IF @ < 2 THEN @ + 1 ELSE @]
    PROVE  ListsOK' /\ FiredOK'
<1>1. /\ Len(invalid) \in Nat \ {0} /\ Head(invalid) = invalid[1]
      /\ Len(invalid') = Len(invalid) - 1
      /\ \A j \in 1 .. Len(invalid) - 1 : invalid'[j] = invalid[j + 1]
  BY HeadTailProperties, EmptySeq, LenProperties DEF TypeOK
<1>2. Issued' = Issued /\ \A i : (Early(i)' = Early(i)) /\ (IsSub(i)' = IsSub(i))
  BY DEF Early, IsSub, Issued
<1>3. \A j \in 1 .. Len(invalid) - 1 : j + 1 \in 1 .. Len(invalid)
  BY <1>1
<1>4. ListsOK'
  BY <1>1, <1>2, <1>3 DEF ListsOK
<1>0. PICK i : i = invalid[1]
  OBVIOUS
<1>5. ~Early(i) /\ i \in Issued /\ ~IsSub(i) /\ 1 \in 1 .. Len(invalid)
  BY <1>0, <1>1 DEF ListsOK
<1>6. i \in 1 .. MaxCmd
  BY <1>5, Lengths, AsyncAssumption DEF Issued, TypeOK
<1>7. cmds[i].kind = "get"
  BY <1>5 DEF Plain, IsSub
<1>8. fired[i] = 0
  BY <1>0, <1>5, <1>6, <1>7 DEF FiredOK, Waits, Regular
<1>9. fired'[i] = 1 /\ \A k \in 1 .. MaxCmd : k # i => fired'[k] = fired[k]
  BY <1>0, <1>1, <1>6, <1>8 DEF TypeOK
<1>10. ~Waits(i)'
  BY <1>0, <1>1, <1>3, <1>5 DEF Waits, ListsOK, Issued
<1>11. ASSUME NEW k, k # i PROVE Waits(k)' = Waits(k)
  <2>1. ASSUME NEW j \in 1 .. Len(invalid), invalid[j] = k
        PROVE  \E m \in 1 .. Len(invalid) - 1 : invalid'[m] = k
    <3>1. j # 1 /\ j - 1 \in 1 .. Len(invalid) - 1 /\ (j - 1) + 1 = j
      BY <1>0, <1>1, <1>11, <2>1
    <3> QED
      BY <1>1, <2>1, <3>1
  <2> QED
    BY <1>1, <1>3, <2>1 DEF Waits
<1>12. FiredOK'
  <2>1. ASSUME NEW k \in 1 .. MaxCmd, k # i
        PROVE  /\ k \notin Issued => fired'[k] = 0
               /\ Regular(k) => fired'[k] = IF Waits(k)' THEN 0 ELSE 1
    BY <1>9, <1>11, <2>1 DEF FiredOK
  <2> QED
    BY <1>2, <1>5, <1>9, <1>10, <2>1 DEF FiredOK, Regular
<1> QED
  BY <1>4, <1>12

\* The callback of a subscription is run: nothing changes for regular commands.
LEMMA SubFires ==
    ASSUME TypeOK, Plain, ListsOK, FiredOK, UNCHANGED <<replies, invalid, cmds>>,
           NEW c \in Issued, IsSub(c),
           fired' = [fired EXCEPT ![c] = IF @ < 2 THEN @ + 1 ELSE @]
    PROVE  ListsOK' /\ FiredOK'
<1>1. c \in 1 .. MaxCmd
  BY Lengths, AsyncAssumption DEF Issued, TypeOK
<1>2. \A k \in 1 .. MaxCmd : k # c => fired'[k] = fired[k]
  BY DEF TypeOK
<1>3. Issued' = Issued /\ \A i : (Early(i)' = Early(i)) /\ (IsSub(i)' = IsSub(i))
  BY DEF Early, IsSub, Issued
<1>4. ListsOK'
  BY <1>3 DEF ListsOK
<1>5. ~Regular(c)
  BY DEF Regular, IsSub
<1>6. FiredOK'
  BY <1>2, <1>3, <1>5 DEF FiredOK, Regular, Waits
<1> QED
  BY <1>4, <1>6

QuietAction ==
    \/ AsyncDisconnect \/ AsyncFree \/ ReadEvent \/ WriteEvent \/ EarlyEvent
    \/ ProcessDisconnects \/ ProcessEnds \/ CallbackReturns
    \/ FreeCallbackReturns \/ FreeContext
    \/ ServerCloses \/ \E result \in {"ok", "refused"} : ConnectionResolves(result)

\* The actions that are quiet.
LEMMA QuietActions ==
    ASSUME TypeOK, FlagsOK, Pipeline, PlainOK, QuietAction
    PROVE  Quiet
<1>1. ASSUME UNCHANGED <<reader, inbuf>> PROVE Stream' = Stream
  BY <1>1 DEF Stream
<1>2. ASSUME UNCHANGED <<cmds, obuf, wire>> PROVE Answered' = Answered
  BY <1>2 DEF Answered
<1>3. ~Has("MONITORING") /\ pc # "aborted"
  BY DEF PlainOK, ModesOK
<1> USE DEF Quiet, Serving, Has, ctxVars, histVars, srvVars
<1>4. CASE AsyncDisconnect
  BY <1>1, <1>2, <1>3, <1>4 DEF AsyncDisconnect, Disconnect, UserRuns, MustWait
<1>5. CASE AsyncFree
  BY <1>1, <1>2, <1>3, <1>5 DEF AsyncFree, UserRuns
<1>6. CASE ReadRefused
  BY <1>1, <1>2, <1>6 DEF ReadRefused, HandleConnectFails, Disconnect
<1>7. CASE ReadData
  BY <1>2, <1>7, ReadSplits DEF ReadData, NowConnected
<1>8. CASE ReadPart
  BY <1>1, <1>2, <1>8 DEF ReadPart, NowConnected
<1>9. CASE ReadFails
  BY <1>1, <1>2, <1>9 DEF ReadFails, NowConnected, Disconnect
<1>10. CASE WriteRefused
  BY <1>1, <1>2, <1>10 DEF WriteRefused, HandleConnectFails, Disconnect
<1>11. CASE WriteData
  BY <1>1, <1>11, WriteStep DEF WriteData, NowConnected
<1>12. CASE WriteFails
  BY <1>1, <1>2, <1>12 DEF WriteFails, NowConnected, Disconnect
<1>13. CASE ProcessDisconnects
  BY <1>1, <1>2, <1>13 DEF ProcessDisconnects, Disconnect
<1>14. CASE ProcessEnds
  BY <1>1, <1>2, <1>3, <1>14 DEF ProcessEnds
<1>15. CASE CallbackReturns
  BY <1>1, <1>2, <1>15 DEF CallbackReturns
<1>16. CASE FreeCallbackReturns \/ FreeContext
  BY <1>1, <1>2, <1>16 DEF FreeCallbackReturns, FreeContext
<1>17. CASE ServerCloses \/ \E result \in {"ok", "refused"} : ConnectionResolves(result)
  BY <1>1, <1>2, <1>3, <1>17 DEF ServerCloses, ConnectionResolves
<1>18. CASE EarlyEvent
  BY <1>1, <1>2, <1>18 DEF EarlyEvent, ReadAgain, WriteAgain, HandleConnectAgain
<1> QED
  BY <1>4, <1>5, <1>6, <1>7, <1>8, <1>9, <1>10, <1>11, <1>12, <1>13, <1>14, <1>15, <1>16,
     <1>17, <1>18 DEF QuietAction, ReadEvent, WriteEvent

-----------------------------------------------------------------------------
\* __redisAsyncFree runs a callback: what is left to show about it.
LEMMA FreeStep ==
    ASSUME TypeOK, Plain, PlainOK, SubOK,
           FreeReplies \/ FreeInvalid \/ \E t \in Topics : FreeSub(t)
    PROVE  PlainOK'
<1>1. /\ pc = "free" /\ pc' \in {"free", "freecb"}
      /\ UNCHANGED <<cmds, obuf, wire, reader, inbuf, closed, srvSubs, srvMon>>
      /\ "MONITORING" \in flags' <=> "MONITORING" \in flags
  BY DEF FreeReplies, FreeInvalid, FreeSub, RunWithNull, srvVars
<1>2. /\ Answered' = Answered /\ Stream' = Stream /\ Issued' = Issued
      /\ \A i : (Early(i)' = Early(i)) /\ (IsSub(i)' = IsSub(i))
  BY <1>1 DEF Answered, Stream, Early, IsSub, Issued
<1>3. ModesOK' /\ MatchOK' /\ RunningOK' /\ pc' # "aborted"
  BY <1>1, <1>2 DEF PlainOK, ModesOK, MatchOK, RunningOK, Serving, Has, IsSub
<1>4. StreamOK'
  BY <1>1, <1>2 DEF PlainOK, StreamOK, PushOK, AnswerOK
<1>5. ListsOK' /\ FiredOK'
  <2>1. CASE FreeReplies
    <3>1. replies # <<>> /\ replies' = Tail(replies) /\ UNCHANGED <<invalid, cmds>>
      BY <2>1 DEF FreeReplies
    <3>2. Head(replies) # 0
      BY <3>1, HeadReplies, Lengths DEF PlainOK, Early, Issued
    <3>3. fired' = [fired EXCEPT ![Head(replies)] = IF @ < 2 THEN @ + 1 ELSE @]
      BY <2>1, <3>2 DEF FreeReplies, RunWithNull
    <3> QED
      BY <3>1, <3>3, PopReplies DEF PlainOK
  <2>2. CASE FreeInvalid
    <3>1. invalid # <<>> /\ invalid' = Tail(invalid) /\ UNCHANGED <<replies, cmds>>
      BY <2>2 DEF FreeInvalid
    <3>2. Head(invalid) # 0
      <4>1. Head(invalid) = invalid[1] /\ 1 \in 1 .. Len(invalid)
        BY <3>1, HeadTailProperties, EmptySeq DEF TypeOK
      <4>2. invalid[1] \in Issued
        BY <4>1 DEF PlainOK, ListsOK
      <4> QED
        BY <4>1, <4>2, Lengths DEF Issued
    <3>3. fired' = [fired EXCEPT ![Head(invalid)] = IF @ < 2 THEN @ + 1 ELSE @]
      BY <2>2, <3>2 DEF FreeInvalid, RunWithNull
    <3> QED
      BY <3>1, <3>3, PopInvalid DEF PlainOK
  <2>3. ASSUME NEW t \in Topics, FreeSub(t) PROVE ListsOK' /\ FiredOK'
    <3>1. sub[t] # 0 /\ UNCHANGED <<replies, invalid, cmds>>
      BY <2>3 DEF FreeSub
    <3>2. PICK c \in Issued : c = sub[t] /\ IsSub(c)
      <4>1. sub[t] \in Issued /\ cmds[sub[t]] = [kind |-> "subscribe", topic |-> t]
        BY <3>1 DEF SubOK
      <4>2. IsSub(sub[t])
        BY <4>1 DEF IsSub
      <4> QED
        BY <4>1, <4>2
    <3>3. fired' = [fired EXCEPT ![c] = IF @ < 2 THEN @ + 1 ELSE @]
      BY <2>3, <3>1, <3>2 DEF FreeSub, RunWithNull
    <3> QED
      BY <3>1, <3>2, <3>3, SubFires DEF PlainOK
  <2> QED
    BY <2>1, <2>2, <2>3
<1> QED
  BY <1>3, <1>4, <1>5 DEF PlainOK

\* A reply for the first callback of ac->replies.
LEMMA RegularStep ==
    ASSUME TypeOK, Plain, PlainOK, Pipeline, ProcessRegular
    PROVE  PlainOK'
<1>1. /\ pc = "process" /\ reader # <<>> /\ reader' = Tail(reader)
      /\ replies # <<>> /\ replies' = Tail(replies) /\ cb' = Head(replies)
      /\ Head(reader).type # "bad" /\ RunCallback(Head(reader), flags)
      /\ UNCHANGED <<cmds, obuf, wire, inbuf, closed, srvSubs, srvMon, sub, invalid>>
  BY DEF ProcessRegular, srvVars
<1>2. /\ Answered' = Answered /\ Issued' = Issued
      /\ \A i : (Early(i)' = Early(i)) /\ (IsSub(i)' = IsSub(i))
  BY <1>1 DEF Answered, Early, IsSub, Issued
<1>3. /\ Head(replies) = replies[1] /\ replies[1] \in Issued /\ replies[1] # 0
      /\ Early(replies[1]) /\ ~IsSub(replies[1]) /\ Len(replies) \in Nat \ {0}
  BY <1>1, HeadReplies, Lengths DEF PlainOK, Early, Issued
<1>4. /\ flags' = flags \cup {"IN_CALLBACK"} /\ pc' = "cb" /\ reply' = Head(reader)
      /\ cb' = replies[1]
      /\ fired' = [fired EXCEPT ![Head(replies)] = IF @ < 2 THEN @ + 1 ELSE @]
  BY <1>1, <1>3 DEF RunCallback
<1>5. /\ ListsOK' /\ FiredOK'
      /\ Len(replies') = Len(replies) - 1
      /\ \A j \in 1 .. Len(replies) - 1 : replies'[j] = replies[j + 1]
  BY <1>1, <1>4, PopReplies DEF PlainOK
<1>6. /\ Len(Stream) \in Nat /\ Len(Stream) >= 1 /\ Head(reader) = Stream[1]
      /\ Len(Stream') = Len(Stream) - 1
      /\ \A p \in 1 .. Len(Stream) - 1 : Stream'[p] = Stream[p + 1]
  BY <1>1, StreamPop, StreamType
<1>7. \/ Stream[1].id = replies[1] /\ Stream[1].id # 0
      \/ /\ Stream[1].id = 0 /\ Stream[1].type = "error"
         /\ closed /\ Len(Stream) = 1
  BY <1>1, <1>6, HeadMatches DEF Serving
<1>8. StreamOK'
  BY <1>1, PopStream DEF PlainOK
<1>9. ModesOK'
  BY <1>1, <1>2, <1>4 DEF PlainOK, ModesOK, Serving, Has, IsSub
<1>10. RunningOK'
  BY <1>1, <1>2, <1>3, <1>4, <1>6, <1>7 DEF RunningOK, IsSub
<1>11. MatchOK'
  <2>1. CASE Stream[1].id = replies[1] /\ Stream[1].id # 0
    <3>1. ASSUME NEW p \in 1 .. Len(Stream) - 1, Early(Stream[p + 1].id)
          PROVE  \E j \in 1 .. Len(replies) - 1 : replies'[j] = Stream[p + 1].id
      <4>1. p + 1 \in 1 .. Len(Stream) /\ 1 < p + 1 /\ 1 \in 1 .. Len(Stream)
        BY <1>6
      <4>2. Stream[p + 1].id # 0
        BY <3>1, Lengths DEF Early, Issued
      <4>3. Stream[1].id < Stream[p + 1].id
        BY <4>1, <4>2 DEF PlainOK, StreamOK
      <4>4. PICK j \in 1 .. Len(replies) : replies[j] = Stream[p + 1].id
        BY <1>1, <3>1, <4>1 DEF PlainOK, MatchOK, Serving
      <4>5. j # 1
        BY <1>6, <2>1, <4>1, <4>3, <4>4, StreamType
      <4>6. j - 1 \in 1 .. Len(replies) - 1 /\ (j - 1) + 1 = j
        BY <1>3, <4>5
      <4> QED
        BY <1>5, <4>4, <4>6
    <3>2. ASSUME NEW j \in 1 .. Len(replies) - 1, replies[j + 1] <= Answered
          PROVE  \E p \in 1 .. Len(Stream) - 1 : Stream'[p].id = replies[j + 1]
      <4>1. j + 1 \in 1 .. Len(replies) /\ replies[1] < replies[j + 1]
        <5>1. j + 1 \in 1 .. Len(replies) /\ 1 \in 1 .. Len(replies) /\ 1 < j + 1
          BY <1>3
        <5> QED
          BY <5>1 DEF PlainOK, ListsOK
      <4>2. Stream # <<>>
        BY <1>6, OneStatus
      <4>3. PICK p \in 1 .. Len(Stream) : Stream[p].id = replies[j + 1]
        BY <1>1, <3>2, <4>1, <4>2 DEF PlainOK, MatchOK, Serving
      <4>4. p # 1
        BY <1>3, <2>1, <4>1, <4>3, Lengths DEF Issued
      <4>5. p - 1 \in 1 .. Len(Stream) - 1 /\ (p - 1) + 1 = p
        BY <1>6, <4>4
      <4> QED
        BY <1>6, <4>3, <4>5
    <3>3. ASSUME NEW i \in Issued, ~closed, Early(i), i > Answered
          PROVE  \E j \in 1 .. Len(replies) - 1 : replies'[j] = i
      <4>1. PICK j \in 1 .. Len(replies) : replies[j] = i
        BY <1>1, <3>3 DEF PlainOK, MatchOK, Serving
      <4>2. AnswerOK(Stream[1]) /\ Stream[1].id <= Answered
        <5>1. AnswerOK(Stream[1])
          BY <1>6, <2>1 DEF PlainOK, StreamOK
        <5> QED
          BY <5>1, Lengths DEF AnswerOK, Answered
      <4>3. j # 1
        BY <2>1, <3>3, <4>1, <4>2, <1>3, Lengths DEF Issued, Answered
      <4>4. j - 1 \in 1 .. Len(replies) - 1 /\ (j - 1) + 1 = j
        BY <1>3, <4>3
      <4> QED
        BY <1>5, <4>1, <4>4
    <3> QED
      BY <1>1, <1>2, <1>5, <1>6, <3>1, <3>2, <3>3 DEF MatchOK
  <2>2. CASE closed /\ Len(Stream) = 1
    <3>1. Len(Stream') = 0 /\ Stream' = <<>>
      <4>1. Tail(reader) \in Seq(Arrival) /\ inbuf \in Seq(Arrival)
        BY <1>1, HeadTailProperties DEF TypeOK
      <4>2. Stream' \in Seq(Arrival)
        BY <1>1, <4>1, ConcatProperties DEF Stream
      <4> QED
        BY <1>6, <2>2, <4>2, EmptySeq
    <3> QED
      BY <1>1, <2>2, <3>1 DEF MatchOK
  <2> QED
    BY <1>7, <2>1, <2>2
<1> QED
  BY <1>4, <1>5, <1>8, <1>9, <1>10, <1>11 DEF PlainOK

\* A reply while no callback waits on the list: the callback of its channel is run.
LEMMA SubscribedStep ==
    ASSUME TypeOK, Plain, PlainOK, Pipeline, SubOK, ProcessSubscribed
    PROVE  PlainOK'
<1> DEFINE r == Head(reader)
<1>1. /\ pc = "process" /\ reader # <<>> /\ reader' = Tail(reader) /\ replies = <<>>
      /\ r.type \notin {"bad", "error"} /\ cb' = SubscribeCallback(r)
      /\ sub' = IF Unsubscribes(r) THEN [sub EXCEPT ![r.topic] = 0] ELSE sub
      /\ invalid' = IF IsArray(r) \/ invalid = <<>> THEN invalid ELSE Tail(invalid)
      /\ RunCallback(r, IF EndsSubscribed(r) THEN flags \ {"SUBSCRIBED"} ELSE flags)
      /\ UNCHANGED <<cmds, obuf, wire, inbuf, closed, srvSubs, srvMon, replies>>
  BY DEF ProcessSubscribed, srvVars
<1>2. /\ Answered' = Answered /\ Issued' = Issued
      /\ \A i : (Early(i)' = Early(i)) /\ (IsSub(i)' = IsSub(i))
  BY <1>1 DEF Answered, Early, IsSub, Issued
<1>3. /\ Len(Stream) \in Nat /\ Len(Stream) >= 1 /\ r = Stream[1]
      /\ Len(Stream') = Len(Stream) - 1
      /\ \A p \in 1 .. Len(Stream) - 1 : Stream'[p] = Stream[p + 1]
  BY <1>1, StreamPop, StreamType
<1>4. /\ r.type \in {"subscribe", "message"}
      /\ \E s \in Issued : IsSub(s) /\ cmds[s].topic = r.topic
  BY <1>1, <1>3, OnlySubscriptions DEF Serving
<1>5. sub' = sub /\ invalid' = invalid /\ ~EndsSubscribed(r)
  BY <1>1, <1>4 DEF Unsubscribes, IsArray, EndsSubscribed
<1>6. sub[r.topic] # 0 /\ r.topic \in Topics
  <2>1. r \in Arrival
    BY <1>1, HeadTailProperties DEF TypeOK
  <2> QED
    BY <1>1, <1>4, <2>1 DEF PlainOK, ModesOK, Serving, Arrival, IsArray
<1>7. PICK c \in Issued : c = sub[r.topic] /\ IsSub(c) /\ cmds[c].topic = r.topic
  <2>1. /\ sub[r.topic] \in Issued
        /\ cmds[sub[r.topic]] = [kind |-> "subscribe", topic |-> r.topic]
    BY <1>6 DEF SubOK
  <2>2. IsSub(sub[r.topic]) /\ cmds[sub[r.topic]].topic = r.topic
    BY <2>1 DEF IsSub
  <2> QED
    BY <2>1, <2>2
<1>8. cb' = c /\ c # 0
  BY <1>1, <1>4, <1>6, <1>7 DEF SubscribeCallback, IsArray
<1>9. /\ flags' = flags \cup {"IN_CALLBACK"} /\ pc' = "cb" /\ reply' = r
      /\ fired' = [fired EXCEPT ![c] = IF @ < 2 THEN @ + 1 ELSE @]
  BY <1>1, <1>5, <1>8 DEF RunCallback
<1>10. ListsOK' /\ FiredOK'
  BY <1>1, <1>5, <1>7, <1>9, SubFires DEF PlainOK
<1>11. StreamOK'
  BY <1>1, PopStream DEF PlainOK
<1>12. ModesOK'
  BY <1>1, <1>2, <1>5, <1>9 DEF PlainOK, ModesOK, Serving, Has, IsSub
<1>13. RunningOK'
  BY <1>1, <1>2, <1>7, <1>8, <1>9 DEF RunningOK, IsSub
<1>14. MatchOK'
  <2>1. Len(replies) = 0 /\ Len(replies') = 0
    BY <1>1, OneStatus
  <2>2. \A p \in 1 .. Len(Stream) - 1 : p + 1 \in 1 .. Len(Stream)
    BY <1>3
  <2>3. \A p \in 1 .. Len(Stream) - 1 : ~Early(Stream'[p].id)
    <3>1. \A p \in 1 .. Len(Stream) : ~Early(Stream[p].id)
      BY <1>1, <2>1 DEF PlainOK, MatchOK, Serving
    <3> QED
      BY <1>3, <2>2, <3>1
  <2>4. \A i \in Issued : ~(~closed /\ Early(i) /\ i > Answered)
    BY <1>1, <2>1 DEF PlainOK, MatchOK, Serving
  <2> QED
    BY <1>1, <1>2, <1>3, <2>1, <2>3, <2>4 DEF MatchOK
<1> QED
  BY <1>9, <1>10, <1>11, <1>12, <1>13, <1>14 DEF PlainOK

\* The assertion of redisProcessCallbacks holds, and there is no monitor mode.
LEMMA NoOtherProcess ==
    ASSUME TypeOK, PlainOK, Pipeline
    PROVE  ~ProcessAborts /\ ~ProcessMonitor
<1>1. ~ProcessMonitor
  BY DEF ProcessMonitor, PlainOK, ModesOK
<1>2. ASSUME ProcessAborts PROVE FALSE
  <2>1. /\ pc = "process" /\ reader # <<>> /\ replies = <<>>
        /\ Head(reader).type \notin {"bad", "error"} /\ ~Has("SUBSCRIBED")
    BY <1>2 DEF ProcessAborts
  <2>2. Len(Stream) >= 1 /\ Head(reader) = Stream[1]
    <3>1. reader \in Seq(Arrival) /\ inbuf \in Seq(Arrival)
      BY DEF TypeOK
    <3>2. Len(reader) \in Nat \ {0} /\ Len(inbuf) \in Nat /\ Head(reader) = reader[1]
      BY <2>1, <3>1, HeadTailProperties, EmptySeq, LenProperties
    <3>3. /\ Len(Stream) = Len(reader) + Len(inbuf)
          /\ \A i \in 1 .. Len(reader) + Len(inbuf) :
                Stream[i] = IF i <= Len(reader) THEN reader[i] ELSE inbuf[i - Len(reader)]
      BY <3>1, ConcatProperties, Zenon DEF Stream
    <3> QED
      BY <3>2, <3>3
  <2>3. \E s \in Issued : IsSub(s)
    BY <2>1, <2>2, OnlySubscriptions DEF Serving
  <2> QED
    BY <2>1, <2>3 DEF PlainOK, ModesOK, Serving
<1> QED
  BY <1>1, <1>2

\* A reply that ends the connection.
LEMMA FailsStep ==
    ASSUME TypeOK, PlainOK, ProcessFails
    PROVE  PlainOK'
<1>1. /\ reader # <<>> /\ reader' = Tail(reader) /\ pc' = "free"
      /\ flags' = flags \cup {"DISCONNECTING"}
      /\ UNCHANGED <<cmds, obuf, wire, inbuf, closed, srvSubs, srvMon, sub, replies, invalid,
                     fired>>
  BY DEF ProcessFails, Disconnect, srvVars, histVars
<1>2. StreamOK'
  BY <1>1, PopStream DEF PlainOK
<1>3. /\ Answered' = Answered /\ Issued' = Issued
      /\ \A i : (Early(i)' = Early(i)) /\ (IsSub(i)' = IsSub(i))
  BY <1>1 DEF Answered, Early, IsSub, Issued
<1>4. ModesOK' /\ ListsOK' /\ MatchOK' /\ RunningOK'
  BY <1>1, <1>3 DEF PlainOK, ModesOK, ListsOK, MatchOK, RunningOK, Serving, Has, IsSub
<1>5. FiredOK'
  BY <1>1, <1>3 DEF PlainOK, FiredOK, Regular, Waits
<1> QED
  BY <1>1, <1>2, <1>4, <1>5 DEF PlainOK

-----------------------------------------------------------------------------
\* The server sends something: what that leaves alone.
LEMMA SentFrame ==
    ASSUME TypeOK, PlainOK, UNCHANGED <<ctxVars, pc, histVars>>
    PROVE  /\ ListsOK' /\ FiredOK' /\ RunningOK' /\ pc' # "aborted" /\ Issued' = Issued
           /\ \A i : (Early(i)' = Early(i)) /\ (IsSub(i)' = IsSub(i))
<1> USE DEF ctxVars, histVars
<1>1. Issued' = Issued /\ \A i : (Early(i)' = Early(i)) /\ (IsSub(i)' = IsSub(i))
  BY DEF Early, IsSub, Issued
<1>2. ListsOK'
  BY <1>1 DEF PlainOK, ListsOK
<1>3. FiredOK'
  BY <1>1 DEF PlainOK, FiredOK, Regular, Waits
<1>4. RunningOK'
  BY <1>1 DEF PlainOK, RunningOK, IsSub
<1> QED
  BY <1>1, <1>2, <1>3, <1>4 DEF PlainOK

\* The replies of the stream are not affected by one that is added.
LEMMA OldReplies ==
    ASSUME TypeOK, PlainOK, Pipeline, ~closed, UNCHANGED <<ctxVars, pc, histVars>>,
           Answered' \in Nat, Answered <= Answered',
           Len(Stream') = Len(Stream) + 1,
           \A p \in 1 .. Len(Stream) : Stream'[p] = Stream[p],
           NEW new, new = Len(Stream) + 1, Stream'[new].id \in Nat,
           \A s \in 1 .. Answered : IsSub(s) => ~Early(Stream'[new].id),
           Stream'[new].id # 0 => \A k \in 1 .. Answered : k < Stream'[new].id,
           IF Stream'[new].id = 0 THEN PushOK(new)' ELSE AnswerOK(Stream[new])'
    PROVE  StreamOK'
<1>1. /\ Len(Stream) \in Nat /\ Answered \in Nat
      /\ \A p \in 1 .. Len(Stream) : Stream[p].id \in Nat
  BY StreamType, Lengths DEF Pipeline, Answered
<1>2. \A i : (Early(i)' = Early(i)) /\ (IsSub(i)' = IsSub(i))
  BY SentFrame
<1>3. cmds' = cmds
  BY DEF histVars
<1>4. ASSUME NEW p \in 1 .. Len(Stream)
      PROVE  IF Stream'[p].id = 0 THEN PushOK(p)' ELSE AnswerOK(Stream[p])'
  <2>1. Stream'[p] = Stream[p]
    OBVIOUS
  <2>2. CASE Stream[p].id = 0
    <3>1. PushOK(p)
      BY <2>2 DEF PlainOK, StreamOK
    <3>2. /\ Stream[p].type = "message"
          /\ \A q \in p .. Len(Stream) : ~Early(Stream[q].id)
      BY <3>1 DEF PushOK
    <3>3. PICK s \in 1 .. Answered : IsSub(s) /\ cmds[s].topic = Stream[p].topic
      BY <3>1, <3>2 DEF PushOK
    <3>4. s \in 1 .. Answered'
      BY <1>1
    <3>5. ASSUME NEW q \in p .. Len(Stream) + 1 PROVE ~Early(Stream'[q].id)
      <4>1. CASE q = new
        BY <3>3, <4>1
      <4>2. CASE q # new
        <5>1. q \in p .. Len(Stream) /\ q \in 1 .. Len(Stream)
          BY <1>1, <4>2
        <5> QED
          BY <3>2, <5>1
      <4> QED
        BY <4>1, <4>2
    <3> QED
      BY <1>2, <1>3, <2>1, <2>2, <3>2, <3>3, <3>4, <3>5 DEF PushOK
  <2>3. CASE Stream[p].id # 0
    <3>1. AnswerOK(Stream[p])
      BY <2>3 DEF PlainOK, StreamOK
    <3>2. Stream[p].id \in 1 .. Answered'
      BY <1>1, <3>1 DEF AnswerOK
    <3> QED
      BY <1>2, <1>3, <2>1, <2>3, <3>1, <3>2 DEF AnswerOK
  <2> QED
    BY <2>2, <2>3
<1>5. ASSUME NEW p \in 1 .. Len(Stream) + 1, NEW q \in 1 .. Len(Stream) + 1,
             p < q, Stream'[q].id # 0
      PROVE  Stream'[p].id < Stream'[q].id
  <2>1. p \in 1 .. Len(Stream) /\ Stream'[p] = Stream[p]
    BY <1>1, <1>5
  <2>2. CASE q = new
    <3>1. CASE Stream[p].id = 0
      BY <1>1, <1>5, <2>1, <2>2, <3>1
    <3>2. CASE Stream[p].id # 0
      <4>1. Stream[p].id \in 1 .. Answered
        BY <2>1, <3>2 DEF PlainOK, StreamOK, AnswerOK
      <4> QED
        BY <1>5, <2>1, <2>2, <4>1
    <3> QED
      BY <3>1, <3>2
  <2>3. CASE q # new
    <3>1. q \in 1 .. Len(Stream) /\ Stream'[q] = Stream[q]
      BY <1>1, <2>3
    <3> QED
      BY <1>5, <2>1, <3>1 DEF PlainOK, StreamOK
  <2> QED
    BY <2>2, <2>3
<1>6. \A p \in 1 .. Len(Stream) + 1 : p \in 1 .. Len(Stream) \/ p = new
  BY <1>1
<1> QED
  BY <1>4, <1>5, <1>6 DEF StreamOK

\* The server answers a command.
LEMMA AnswersPlain ==
    ASSUME TypeOK, Plain, PlainOK, Pipeline, ServerAnswers
    PROVE  PlainOK'
<1> DEFINE n == Len(Stream) + 1
<1>1. /\ ~closed /\ UNCHANGED <<ctxVars, pc, histVars, closed>>
      /\ UNCHANGED <<reader, replies, cmds, flags, sub, obuf>>
  BY DEF ServerAnswers, ctxVars, histVars
<1>2. PICK i \in Issued : i = Answered + 1 /\ i = Head(wire)
  BY AnswersStep
<1>3. Answered' = i /\ Answered \in Nat /\ i \in Nat
  BY <1>2, AnswersStep, Lengths DEF Pipeline, Answered
<1>4. cmds[i] \in Cmd /\ cmds[i].kind \in {"get", "subscribe"}
  BY <1>2 DEF Plain, TypeOK, Issued
<1>5. /\ srvSubs' = IF IsSub(i) THEN srvSubs \cup {cmds[i].topic} ELSE srvSubs
      /\ ~srvMon' /\ inbuf' = Append(inbuf, Answer(i, srvSubs'))
  <2>1. srvSubs' = IF IsSub(i) THEN srvSubs \cup {cmds[i].topic} ELSE srvSubs
    BY <1>2, <1>4 DEF ServerAnswers, IsSub
  <2>2. inbuf' = Append(inbuf, Answer(i, srvSubs'))
    BY <1>2 DEF ServerAnswers
  <2>3. srvMon' = (srvMon \/ (cmds[i].kind = "monitor" /\ srvSubs = {}))
    BY <1>2 DEF ServerAnswers
  <2>4. ~srvMon /\ cmds[i].kind # "monitor"
    BY <1>4 DEF PlainOK, ModesOK
  <2> QED
    BY <2>1, <2>2, <2>3, <2>4
<1>6. PICK r \in Arrival : r = Answer(i, srvSubs')
  <2>1. srvSubs' \subseteq Topics /\ IsFiniteSet(srvSubs')
    BY <1>4, <1>5, FS_AddElement DEF Cmd, IsSub, TypeOK
  <2> QED
    BY <1>2, <2>1, AnswerType
<1>7. /\ r.id = i /\ r.topic = cmds[i].topic
      /\ r.type = IF IsSub(i) THEN "subscribe" ELSE IF srvSubs # {} THEN "error" ELSE "data"
  BY <1>4, <1>6 DEF Answer, IsSub
<1>8. /\ Len(Stream') = Len(Stream) + 1
      /\ \A p \in 1 .. Len(Stream) : Stream'[p] = Stream[p]
      /\ Stream'[Len(Stream) + 1] = r
  BY <1>1, <1>5, <1>6, StreamAppend
<1>9. /\ ListsOK' /\ FiredOK' /\ RunningOK' /\ pc' # "aborted" /\ Issued' = Issued
      /\ \A k : (Early(k)' = Early(k)) /\ (IsSub(k)' = IsSub(k))
  BY <1>1, SentFrame
<1>10. ASSUME NEW s \in 1 .. Answered, IsSub(s) PROVE ~Early(i)
  BY <1>2, <1>3, <1>10 DEF Early
<1>11. ~IsSub(i) => (Early(i) <=> srvSubs = {})
  <2>1. srvSubs # {} <=> \E s \in 1 .. Answered : IsSub(s)
    BY DEF PlainOK, ModesOK
  <2>2. \A s \in 1 .. i : s \in 1 .. Answered \/ s = i
    BY <1>2, <1>3
  <2> QED
    BY <1>2, <1>10, <2>1, <2>2 DEF Early
<1>12. AnswerOK(r)'
  <2>1. i \in 1 .. Answered'
    BY <1>2, <1>3
  <2> QED
    BY <1>1, <1>7, <1>9, <1>11, <2>1 DEF AnswerOK, IsSub
<1>13. StreamOK'
  <2>1. PICK new : new = Len(Stream) + 1
    OBVIOUS
  <2>2. Stream'[new] = r
    BY <1>8, <2>1
  <2>3. AnswerOK(Stream[new])'
    BY <1>12, <2>2 DEF AnswerOK
  <2>4. /\ Answered' \in Nat /\ Answered <= Answered' /\ i # 0
        /\ \A k \in 1 .. Answered : k < i
    BY <1>2, <1>3
  <2> QED
    BY <1>1, <1>3, <1>7, <1>8, <1>10, <2>1, <2>2, <2>3, <2>4, OldReplies
<1>14. ModesOK'
  <2>1. \A s \in 1 .. i : s \in 1 .. Answered \/ s = i
    BY <1>2, <1>3
  <2>2. \A s \in 1 .. Answered : s \in 1 .. i
    BY <1>2, <1>3
  <2>3. i \in 1 .. i
    BY <1>2, <1>3
  <2>4. srvSubs' # {} <=> \E s \in 1 .. i : IsSub(s)
    BY <1>5, <2>1, <2>2, <2>3 DEF PlainOK, ModesOK
  <2>5. \A t \in srvSubs' : \E s \in 1 .. i : IsSub(s) /\ cmds[s].topic = t
    BY <1>5, <2>2, <2>3 DEF PlainOK, ModesOK
  <2> QED
    BY <1>1, <1>3, <1>5, <1>9, <2>4, <2>5 DEF PlainOK, ModesOK, Has, Serving
<1>15. MatchOK'
  <2> SUFFICES ASSUME Serving PROVE MatchOK'
    BY <1>1 DEF MatchOK, Serving
  <2>0. Len(Stream) \in Nat /\ Len(replies) \in Nat /\ Answered < i
    BY <1>2, <1>3, StreamType, Lengths
  <2>1. ASSUME NEW p \in 1 .. Len(Stream) + 1, Early(Stream'[p].id)
        PROVE  \E j \in 1 .. Len(replies) : replies[j] = Stream'[p].id
    <3>1. CASE p \in 1 .. Len(Stream)
      BY <1>8, <2>1, <3>1 DEF PlainOK, MatchOK
    <3>2. CASE p \notin 1 .. Len(Stream)
      <4>1. Stream'[p] = r /\ Early(i)
        BY <1>7, <1>8, <2>0, <2>1, <3>2
      <4>2. \E j \in 1 .. Len(replies) : replies[j] = i
        BY <1>1, <1>2, <2>0, <4>1, <1>3 DEF PlainOK, MatchOK
      <4> QED
        BY <1>7, <4>1, <4>2
    <3> QED
      BY <3>1, <3>2
  <2>2. ASSUME NEW j \in 1 .. Len(replies), replies[j] <= i
        PROVE  \E p \in 1 .. Len(Stream) + 1 : Stream'[p].id = replies[j]
    <3>1. replies[j] \in Nat
      BY Lengths DEF PlainOK, ListsOK, Early, Issued
    <3>2. CASE replies[j] = i
      BY <1>7, <1>8, <2>0, <3>2
    <3>3. CASE replies[j] # i
      <4>1. replies[j] <= Answered
        BY <1>2, <1>3, <2>2, <3>1, <3>3
      <4>2. PICK p \in 1 .. Len(Stream) : Stream[p].id = replies[j]
        BY <1>1, <4>1 DEF PlainOK, MatchOK
      <4> QED
        BY <1>8, <2>0, <4>2
    <3> QED
      BY <3>2, <3>3
  <2>3. ASSUME NEW k \in Issued, Early(k), k > i
        PROVE  \E j \in 1 .. Len(replies) : replies[j] = k
    <3>1. k > Answered
      BY <1>2, <1>3, <2>3, Lengths DEF Issued
    <3> QED
      BY <1>1, <2>3, <3>1 DEF PlainOK, MatchOK
  <2> QED
    BY <1>1, <1>3, <1>8, <1>9, <2>1, <2>2, <2>3 DEF MatchOK
<1> QED
  BY <1>9, <1>13, <1>14, <1>15 DEF PlainOK

\* The server sends something of its own accord.
LEMMA PushPlain ==
    ASSUME TypeOK, PlainOK, Pipeline, ServerPublishes \/ ServerRefuses
    PROVE  PlainOK'
<1>1. PICK r : /\ r.id = 0 /\ inbuf' = Append(inbuf, r) /\ r \in Arrival
               /\ \/ r.type = "message" /\ r.topic \in srvSubs /\ closed' = closed
                  \/ r.type \in {"error", "bad"} /\ closed'
  <2>1. ASSUME NEW t \in srvSubs, Push("message", t), UNCHANGED closed
        PROVE  \E r : /\ r.id = 0 /\ inbuf' = Append(inbuf, r) /\ r \in Arrival
                      /\ r.type = "message" /\ r.topic \in srvSubs /\ closed' = closed
    <3> DEFINE r == [type |-> "message", id |-> 0, topic |-> t, left |-> 0]
    <3>1. r \in Arrival
      BY <2>1, AsyncAssumption DEF Arrival, Reply, IsArray, TypeOK
    <3>2. r.id = 0 /\ inbuf' = Append(inbuf, r) /\ r.type = "message" /\ r.topic = t
      BY <2>1 DEF Push
    <3> HIDE DEF r
    <3> QED
      BY <2>1, <3>1, <3>2
  <2>2. ASSUME NEW type \in {"error", "bad"}, Push(type, NoTopic), closed'
        PROVE  \E r : /\ r.id = 0 /\ inbuf' = Append(inbuf, r) /\ r \in Arrival
                      /\ r.type \in {"error", "bad"}
    <3> DEFINE r == [type |-> type, id |-> 0, topic |-> NoTopic, left |-> 0]
    <3>1. r \in Arrival
      BY <2>2, AsyncAssumption DEF Arrival, Reply, IsArray
    <3>2. r.id = 0 /\ inbuf' = Append(inbuf, r) /\ r.type = type
      BY <2>2 DEF Push
    <3> HIDE DEF r
    <3> QED
      BY <2>2, <3>1, <3>2
  <2>3. ~srvMon
    BY DEF PlainOK, ModesOK
  <2> QED
    BY <2>1, <2>2, <2>3 DEF ServerPublishes, ServerRefuses
<1>2. /\ ~closed /\ UNCHANGED <<ctxVars, pc, histVars, wire, srvSubs, srvMon>>
      /\ UNCHANGED <<reader, replies, cmds, flags, sub, obuf>>
  BY DEF ServerPublishes, ServerRefuses, Push, ctxVars, histVars
<1>3. Answered' = Answered /\ Answered \in Nat /\ Len(Stream) \in Nat
  BY <1>2, StreamType, Lengths DEF Answered, Pipeline
<1>4. /\ Len(Stream') = Len(Stream) + 1
      /\ \A p \in 1 .. Len(Stream) : Stream'[p] = Stream[p]
      /\ Stream'[Len(Stream) + 1] = r
  BY <1>1, <1>2, StreamAppend
<1>5. /\ ListsOK' /\ FiredOK' /\ RunningOK' /\ pc' # "aborted" /\ Issued' = Issued
      /\ \A k : (Early(k)' = Early(k)) /\ (IsSub(k)' = IsSub(k))
  BY <1>2, SentFrame
<1>6. ~Early(0)
  BY Lengths DEF Early, Issued
<1>7. StreamOK'
  <2>1. PICK new : new = Len(Stream) + 1
    OBVIOUS
  <2>2. Stream'[new] = r /\ \A q \in new .. Len(Stream') : q = new
    BY <1>3, <1>4, <2>1
  <2>3. r.type = "message" =>
          \E s \in 1 .. Answered : IsSub(s) /\ cmds[s].topic = r.topic
    BY <1>1 DEF PlainOK, ModesOK
  <2>4. PushOK(new)'
    BY <1>1, <1>2, <1>3, <1>4, <1>5, <1>6, <2>1, <2>2, <2>3 DEF PushOK
  <2> QED
    BY <1>1, <1>2, <1>3, <1>4, <1>6, <2>1, <2>2, <2>4, OldReplies
<1>8. ModesOK'
  BY <1>2, <1>3, <1>5 DEF PlainOK, ModesOK, Has, Serving
<1>9. MatchOK'
  <2> SUFFICES ASSUME Serving PROVE MatchOK'
    BY <1>2 DEF MatchOK, Serving
  <2>1. ASSUME NEW p \in 1 .. Len(Stream) + 1, Early(Stream'[p].id)
        PROVE  \E j \in 1 .. Len(replies) : replies[j] = Stream'[p].id
    <3>1. p \in 1 .. Len(Stream)
      BY <1>1, <1>3, <1>4, <1>6, <2>1
    <3> QED
      BY <1>4, <2>1, <3>1 DEF PlainOK, MatchOK
  <2>2. ASSUME NEW j \in 1 .. Len(replies), replies[j] <= Answered
        PROVE  \E p \in 1 .. Len(Stream) + 1 : Stream'[p].id = replies[j]
    <3>1. PICK p \in 1 .. Len(Stream) : Stream[p].id = replies[j]
      BY <1>2, <2>2 DEF PlainOK, MatchOK
    <3> QED
      BY <1>3, <1>4, <3>1
  <2>3. \A k \in Issued : Early(k) /\ k > Answered
                             => \E j \in 1 .. Len(replies) : replies[j] = k
    BY <1>2 DEF PlainOK, MatchOK
  <2> QED
    BY <1>2, <1>3, <1>4, <1>5, <2>1, <2>2, <2>3 DEF MatchOK
<1> QED
  BY <1>5, <1>7, <1>8, <1>9 DEF PlainOK

-----------------------------------------------------------------------------
\* A new command and the replies on their way.
LEMMA NewCommand ==
    ASSUME TypeOK, PlainOK, Pipeline, FlagsOK, NEW kind, NEW topic, Appended(kind, topic),
           [kind |-> kind, topic |-> topic] \in Cmd
    PROVE  /\ StreamOK' /\ Serving /\ Serving' /\ Stream' = Stream /\ Answered' = Answered
           /\ closed' = closed /\ pc' = pc /\ fired' = fired /\ pc # "aborted"
           /\ Answered \in Nat /\ Answered <= Len(cmds) /\ Len(cmds') = Len(cmds) + 1
           /\ Len(cmds) \in Nat /\ Len(cmds) + 1 \in 1 .. MaxCmd
           /\ \A i \in Issued : /\ cmds'[i] = cmds[i] /\ i \in Issued'
                              /\ Early(i)' = Early(i) /\ IsSub(i)' = IsSub(i)
           /\ cmds'[Len(cmds) + 1] = [kind |-> kind, topic |-> topic]
           /\ \A i \in Issued' : i \in Issued \/ i = Len(cmds) + 1
           /\ Len(cmds) + 1 \in Issued' /\ Len(cmds) + 1 \notin Issued
<1>1. /\ UserRuns /\ ~Has("DISCONNECTING") /\ ~Has("FREEING") /\ pc' = pc
      /\ closed' = closed /\ reader' = reader /\ inbuf' = inbuf /\ fired' = fired
  BY DEF Appended, Accepts, srvVars
<1>2. Serving /\ Serving' /\ pc # "aborted"
  BY <1>1 DEF FlagsOK, Leaving, Serving, UserRuns
<1>3. Stream' = Stream
  BY <1>1 DEF Stream
<1>4. /\ Answered' = Answered /\ Len(cmds') = Len(cmds) + 1
      /\ Len(cmds) + 1 \in 1 .. MaxCmd
      /\ \A i \in Issued : cmds'[i] = cmds[i]
      /\ cmds'[Len(cmds) + 1] = [kind |-> kind, topic |-> topic]
  BY AppendedStep
<1>5. Answered \in Nat /\ Answered <= Len(cmds) /\ Len(cmds) \in Nat
  BY Lengths DEF Pipeline, Answered
<1>6. \A i \in Issued : i \in Issued' /\ Early(i)' = Early(i) /\ IsSub(i)' = IsSub(i)
  BY <1>4, <1>5, EarlyKept
<1>7. /\ \A i \in Issued' : i \in Issued \/ i = Len(cmds) + 1
      /\ Len(cmds) + 1 \in Issued' /\ Len(cmds) + 1 \notin Issued
  BY <1>4, <1>5 DEF Issued
<1>8. ASSUME NEW p \in 1 .. Len(Stream)
      PROVE  IF Stream[p].id = 0 THEN PushOK(p)' ELSE AnswerOK(Stream[p])'
  <2>1. \A q \in 1 .. Len(Stream) : Stream[q].id # 0 => Stream[q].id \in Issued
    BY <1>5 DEF PlainOK, StreamOK, AnswerOK, Issued
  <2>2. \A s \in 1 .. Answered : s \in Issued
    BY <1>5 DEF Issued
  <2>3. CASE Stream[p].id = 0
    <3>1. PushOK(p)
      BY <2>3 DEF PlainOK, StreamOK
    <3>2. CASE Stream[p].type = "message"
      <4>1. PICK s \in 1 .. Answered : IsSub(s) /\ cmds[s].topic = Stream[p].topic
        BY <3>1, <3>2 DEF PushOK
      <4>2. IsSub(s)' /\ cmds'[s].topic = Stream[p].topic
        BY <1>4, <1>6, <2>2, <4>1
      <4>3. ASSUME NEW q \in p .. Len(Stream) PROVE ~Early(Stream[q].id)'
        <5>1. ~Early(Stream[q].id) /\ q \in 1 .. Len(Stream)
          BY <3>1, <3>2, StreamType DEF PushOK
        <5>2. CASE Stream[q].id = 0
          BY <1>3, <1>4, <1>5, <5>2 DEF Early, Issued
        <5>3. CASE Stream[q].id # 0
          BY <1>3, <1>6, <2>1, <5>1, <5>3 DEF Early
        <5> QED
          BY <5>2, <5>3
      <4> QED
        BY <1>3, <1>4, <2>3, <3>2, <4>1, <4>2, <4>3 DEF PushOK
    <3>3. CASE Stream[p].type # "message"
      BY <1>1, <1>3, <2>3, <3>1, <3>3 DEF PushOK
    <3> QED
      BY <3>2, <3>3
  <2>4. CASE Stream[p].id # 0
    <3>1. PICK r : r = Stream[p]
      OBVIOUS
    <3>2. AnswerOK(r) /\ r.id \in Issued
      BY <2>1, <2>4, <3>1 DEF PlainOK, StreamOK
    <3>3. AnswerOK(r)'
      BY <1>4, <1>6, <3>2 DEF AnswerOK
    <3> QED
      BY <1>3, <2>4, <3>1, <3>3 DEF AnswerOK
  <2> QED
    BY <2>3, <2>4
<1>9. StreamOK'
  BY <1>3, <1>8 DEF StreamOK, PlainOK
<1> QED
  BY <1>1, <1>2, <1>3, <1>4, <1>5, <1>6, <1>7, <1>9

\* redisAsyncCommand with a regular command.
LEMMA CommandPlain ==
    ASSUME TypeOK, PlainOK, Pipeline, FlagsOK, Command
    PROVE  PlainOK'
<1>1. PICK n : n = Len(cmds) + 1
  OBVIOUS
<1>2. /\ Appended("get", NoTopic) /\ [kind |-> "get", topic |-> NoTopic] \in Cmd
      /\ UNCHANGED <<flags, sub, srvSubs, srvMon, cb, reply>>
  BY DEF Command, Appended, srvVars, Cmd
<1>3. /\ StreamOK' /\ Serving /\ Serving' /\ Stream' = Stream /\ Answered' = Answered
      /\ closed' = closed /\ pc' = pc /\ fired' = fired /\ pc # "aborted"
      /\ Answered \in Nat /\ Answered < n /\ n \in 1 .. MaxCmd /\ Len(cmds') = n
      /\ \A i \in Issued : /\ cmds'[i] = cmds[i] /\ i \in Issued' /\ i < n
                         /\ Early(i)' = Early(i) /\ IsSub(i)' = IsSub(i)
      /\ cmds'[n].kind = "get" /\ ~IsSub(n)'
      /\ \A i \in Issued' : i \in Issued \/ i = n
      /\ n \in Issued' /\ n \notin Issued
  BY <1>1, <1>2, NewCommand DEF IsSub, Issued
<1>4. Has("SUBSCRIBED") <=> \E s \in Issued : IsSub(s)
  BY <1>3 DEF PlainOK, ModesOK
<1>5. \A s \in 1 .. Answered : s \in Issued
  BY <1>1, <1>3 DEF Issued
<1>6. ModesOK'
  <2>1. (\E s \in Issued' : IsSub(s)') <=> \E s \in Issued : IsSub(s)
    BY <1>3
  <2>2. /\ srvSubs' # {} <=> \E s \in 1 .. Answered' : IsSub(s)'
        /\ \A t \in srvSubs' : \E s \in 1 .. Answered' : IsSub(s)' /\ cmds'[s].topic = t
    BY <1>2, <1>3, <1>5 DEF PlainOK, ModesOK
  <2>3. \A s \in Issued' : IsSub(s)' => sub'[cmds'[s].topic] # 0
    BY <1>2, <1>3 DEF PlainOK, ModesOK
  <2> QED
    BY <1>2, <1>3, <1>4, <2>1, <2>2, <2>3 DEF PlainOK, ModesOK, Has
<1>7. RunningOK'
  BY <1>2, <1>3 DEF PlainOK, RunningOK
<1>8. Early(n)' <=> ~Has("SUBSCRIBED")
  <2>1. \A j \in 1 .. n : j \in Issued \/ j = n
    BY <1>1, Lengths DEF Issued
  <2>2. \A j \in Issued : j \in 1 .. n
    BY <1>1, Lengths DEF Issued
  <2> QED
    BY <1>3, <1>4, <2>1, <2>2 DEF Early
<1>9. n \in 0 .. MaxCmd
  BY <1>3, AsyncAssumption
<1>10. \A i \in 1 .. MaxCmd : Regular(i)' => Regular(i) \/ i = n
  BY <1>3 DEF Regular
<1>11. CASE Has("SUBSCRIBED")
  <2>1. replies' = replies /\ invalid' = Append(invalid, n)
    BY <1>1, <1>11 DEF Command, PushCallback
  <2>2. /\ Len(invalid') = Len(invalid) + 1 /\ Len(invalid) \in Nat
        /\ \A j \in 1 .. Len(invalid) : invalid'[j] = invalid[j]
        /\ invalid'[Len(invalid) + 1] = n
    BY <1>9, <2>1, AppendProperties, Lengths DEF TypeOK
  <2>3. \A j \in 1 .. Len(invalid) + 1 : j \in 1 .. Len(invalid) \/ j = Len(invalid) + 1
    BY <2>2
  <2>4. /\ \A j \in 1 .. Len(invalid) : invalid[j] \in Issued
        /\ \A j \in 1 .. Len(replies) : replies[j] \in Issued
    BY DEF PlainOK, ListsOK, Early
  <2>5. ListsOK'
    <3>1. \A j \in 1 .. Len(replies) : Early(replies[j])'
      <4>1. \A j \in 1 .. Len(replies) : Early(replies[j])
        BY DEF PlainOK, ListsOK
      <4> QED
        BY <1>3, <2>1, <2>4, <4>1
    <3>2. ASSUME NEW j \in 1 .. Len(invalid) + 1
          PROVE  /\ invalid'[j] \in Issued' /\ ~IsSub(invalid[j])'
                 /\ ~Early(invalid[j])'
      <4>1. CASE j \in 1 .. Len(invalid)
        BY <1>3, <2>2, <2>4, <4>1 DEF PlainOK, ListsOK
      <4>2. CASE j = Len(invalid) + 1
        BY <1>3, <1>8, <1>11, <2>2, <4>2
      <4> QED
        BY <2>3, <4>1, <4>2
    <3>3. \A j, k \in 1 .. Len(invalid) + 1 : j < k => invalid'[j] < invalid'[k]
      <4>1. ASSUME NEW j \in 1 .. Len(invalid) + 1, NEW k \in 1 .. Len(invalid) + 1, j < k
            PROVE  invalid'[j] < invalid'[k]
        <5>1. j \in 1 .. Len(invalid)
          BY <2>2, <4>1
        <5>2. CASE k \in 1 .. Len(invalid)
          BY <2>2, <4>1, <5>1, <5>2 DEF PlainOK, ListsOK
        <5>3. CASE k = Len(invalid) + 1
          BY <1>3, <2>2, <2>4, <5>1, <5>3
        <5> QED
          BY <2>3, <5>2, <5>3
      <4> QED
        BY <4>1
    <3> QED
      BY <2>1, <2>2, <3>1, <3>2, <3>3 DEF PlainOK, ListsOK
  <2>6. MatchOK'
    BY <1>3, <1>8, <1>11, <2>1, <2>4 DEF PlainOK, MatchOK, Early
  <2>7. ASSUME NEW i \in 1 .. MaxCmd
        PROVE  IF i = n THEN Waits(i)' ELSE Waits(i)' = Waits(i)
    <3>1. Len(invalid) + 1 \in 1 .. Len(invalid) + 1
          /\ \A j \in 1 .. Len(invalid) : j \in 1 .. Len(invalid) + 1
      BY <2>2
    <3> QED
      BY <2>1, <2>2, <2>3, <3>1 DEF Waits
  <2>8. FiredOK'
    BY <1>3, <1>10, <2>7 DEF PlainOK, FiredOK, Regular
  <2> QED
    BY <1>3, <1>6, <1>7, <2>5, <2>6, <2>8 DEF PlainOK
<1>12. CASE ~Has("SUBSCRIBED")
  <2>1. invalid' = invalid /\ replies' = Append(replies, n)
    BY <1>1, <1>12 DEF Command, PushCallback
  <2>2. /\ Len(replies') = Len(replies) + 1 /\ Len(replies) \in Nat
        /\ \A j \in 1 .. Len(replies) : replies'[j] = replies[j]
        /\ replies'[Len(replies) + 1] = n
    BY <1>9, <2>1, AppendProperties, Lengths DEF TypeOK
  <2>3. /\ \A j \in 1 .. Len(replies) + 1 : j \in 1 .. Len(replies) \/ j = Len(replies) + 1
        /\ \A j \in 1 .. Len(replies) : j \in 1 .. Len(replies) + 1
        /\ Len(replies) + 1 \in 1 .. Len(replies) + 1
    BY <2>2
  <2>4. /\ \A j \in 1 .. Len(invalid) : invalid[j] \in Issued
        /\ \A j \in 1 .. Len(replies) : replies[j] \in Issued
    BY DEF PlainOK, ListsOK, Early
  <2>5. ListsOK'
    <3>1. ASSUME NEW j \in 1 .. Len(invalid)
          PROVE  invalid[j] \in Issued' /\ ~IsSub(invalid[j])' /\ ~Early(invalid[j])'
      BY <1>3, <2>1, <2>4 DEF PlainOK, ListsOK
    <3>2. ASSUME NEW j \in 1 .. Len(replies) + 1 PROVE Early(replies[j])'
      <4>1. CASE j \in 1 .. Len(replies)
        BY <1>3, <2>2, <2>4, <4>1 DEF PlainOK, ListsOK
      <4>2. CASE j = Len(replies) + 1
        BY <1>8, <1>12, <2>2, <4>2
      <4> QED
        BY <2>3, <4>1, <4>2
    <3>3. \A j, k \in 1 .. Len(replies) + 1 : j < k => replies'[j] < replies'[k]
      <4>1. ASSUME NEW j \in 1 .. Len(replies) + 1, NEW k \in 1 .. Len(replies) + 1, j < k
            PROVE  replies'[j] < replies'[k]
        <5>1. j \in 1 .. Len(replies)
          BY <2>2, <4>1
        <5>2. CASE k \in 1 .. Len(replies)
          BY <2>2, <4>1, <5>1, <5>2 DEF PlainOK, ListsOK
        <5>3. CASE k = Len(replies) + 1
          BY <1>3, <2>2, <2>4, <5>1, <5>3
        <5> QED
          BY <2>3, <5>2, <5>3
      <4> QED
        BY <4>1
    <3> QED
      BY <2>1, <2>2, <3>1, <3>2, <3>3 DEF PlainOK, ListsOK
  <2>6. MatchOK'
    <3>1. ASSUME NEW p \in 1 .. Len(Stream), Early(Stream[p].id)'
          PROVE  \E j \in 1 .. Len(replies) + 1 : replies'[j] = Stream[p].id
      <4>1. PICK i : i = Stream[p].id
        OBVIOUS
      <4>2. Early(i)' /\ i # 0
        BY <1>3, <3>1, <4>1, Lengths DEF Early, Issued
      <4>3. i \in Issued
        BY <1>3, <1>5, <4>1, <4>2 DEF PlainOK, StreamOK, AnswerOK
      <4>4. \E j \in 1 .. Len(replies) : replies[j] = i
        BY <1>3, <4>1, <4>2, <4>3 DEF PlainOK, MatchOK
      <4> QED
        BY <2>2, <2>3, <4>1, <4>4
    <3>2. ASSUME NEW j \in 1 .. Len(replies) + 1, replies'[j] <= Answered
          PROVE  (\E p \in 1 .. Len(Stream) : Stream[p].id = replies'[j])
                   \/ (closed /\ Stream = <<>>)
      <4>1. j \in 1 .. Len(replies)
        BY <1>3, <2>2, <2>3, <3>2
      <4> QED
        BY <1>3, <2>2, <3>2, <4>1 DEF PlainOK, MatchOK
    <3>3. ASSUME NEW i \in Issued', ~closed, Early(i)', i > Answered
          PROVE  \E j \in 1 .. Len(replies) + 1 : replies'[j] = i
      <4>1. CASE i = n
        BY <2>2, <2>3, <4>1
      <4>2. CASE i \in Issued
        <5>1. \E j \in 1 .. Len(replies) : replies[j] = i
          BY <1>3, <3>3, <4>2 DEF PlainOK, MatchOK
        <5> QED
          BY <2>2, <2>3, <5>1
      <4> QED
        BY <1>3, <4>1, <4>2
    <3> QED
      BY <1>3, <2>2, <3>1, <3>2, <3>3 DEF MatchOK
  <2>7. ASSUME NEW i \in 1 .. MaxCmd
        PROVE  IF i = n THEN Waits(i)' ELSE Waits(i)' = Waits(i)
    BY <2>1, <2>2, <2>3 DEF Waits
  <2>8. FiredOK'
    BY <1>3, <1>10, <2>7 DEF PlainOK, FiredOK, Regular
  <2> QED
    BY <1>3, <1>6, <1>7, <2>5, <2>6, <2>8 DEF PlainOK
<1> QED
  BY <1>11, <1>12

\* SUBSCRIBE.
LEMMA SubscribePlain ==
    ASSUME TypeOK, PlainOK, Pipeline, FlagsOK, NEW t \in Topics, Subscribe(t)
    PROVE  PlainOK'
<1>1. PICK n : n = Len(cmds) + 1
  OBVIOUS
<1>2. /\ Appended("subscribe", t) /\ [kind |-> "subscribe", topic |-> t] \in Cmd
      /\ UNCHANGED <<replies, invalid, srvSubs, srvMon, cb, reply>>
      /\ flags' = flags \cup {"SUBSCRIBED"} /\ sub' = [sub EXCEPT ![t] = n]
  BY <1>1 DEF Subscribe, Appended, srvVars, Cmd
<1>3. /\ StreamOK' /\ Serving /\ Serving' /\ Stream' = Stream /\ Answered' = Answered
      /\ closed' = closed /\ pc' = pc /\ fired' = fired /\ pc # "aborted"
      /\ Answered \in Nat /\ Answered < n /\ n \in 1 .. MaxCmd /\ Len(cmds') = n
      /\ \A i \in Issued : /\ cmds'[i] = cmds[i] /\ i \in Issued' /\ i < n
                         /\ Early(i)' = Early(i) /\ IsSub(i)' = IsSub(i)
      /\ cmds'[n].kind = "subscribe" /\ cmds'[n].topic = t /\ IsSub(n)'
      /\ \A i \in Issued' : i \in Issued \/ i = n
      /\ n \in Issued' /\ n \notin Issued
  BY <1>1, <1>2, NewCommand DEF IsSub, Issued
<1>4. ~Early(n)'
  <2>1. n \in 1 .. n
    BY <1>3
  <2> QED
    BY <1>3, <2>1 DEF Early
<1>5. \A s \in 1 .. Answered : s \in Issued
  BY <1>1, <1>3 DEF Issued
<1>6. ModesOK'
  <2>1. /\ srvSubs' # {} <=> \E s \in 1 .. Answered' : IsSub(s)'
        /\ \A u \in srvSubs' : \E s \in 1 .. Answered' : IsSub(s)' /\ cmds'[s].topic = u
    BY <1>2, <1>3, <1>5 DEF PlainOK, ModesOK
  <2>2. \A u \in Topics : sub'[u] = IF u = t THEN n ELSE sub[u]
    BY <1>2 DEF TypeOK
  <2>3. ASSUME NEW s \in Issued', IsSub(s)' PROVE sub'[cmds'[s].topic] # 0
    <3>1. CASE s = n
      BY <1>3, <2>2, <3>1
    <3>2. CASE s \in Issued
      <4>1. IsSub(s) /\ cmds'[s] = cmds[s] /\ sub[cmds[s].topic] # 0
        BY <1>3, <2>3, <3>2 DEF PlainOK, ModesOK
      <4>2. cmds[s].topic \in Topics
        <5>1. cmds[s] \in Cmd
          BY <3>2 DEF TypeOK, Issued
        <5> QED
          BY <4>1, <5>1 DEF Cmd, IsSub
      <4> QED
        BY <1>3, <2>2, <4>1, <4>2
    <3> QED
      BY <1>3, <3>1, <3>2
  <2> QED
    BY <1>2, <1>3, <2>1, <2>3 DEF PlainOK, ModesOK, Has
<1>7. RunningOK'
  BY <1>2, <1>3 DEF PlainOK, RunningOK
<1>8. ListsOK'
  <2>1. /\ \A j \in 1 .. Len(invalid) : invalid[j] \in Issued
        /\ \A j \in 1 .. Len(replies) : replies[j] \in Issued
    BY DEF PlainOK, ListsOK, Early
  <2>2. \A j \in 1 .. Len(replies) : Early(replies[j])'
    BY <1>2, <1>3, <2>1 DEF PlainOK, ListsOK
  <2>3. ASSUME NEW j \in 1 .. Len(invalid)
        PROVE  invalid'[j] \in Issued' /\ ~IsSub(invalid[j])' /\ ~Early(invalid[j])'
    BY <1>2, <1>3, <2>1 DEF PlainOK, ListsOK
  <2> QED
    BY <1>2, <2>2, <2>3 DEF PlainOK, ListsOK
<1>9. MatchOK'
  <2>1. ASSUME NEW i, Early(i)' PROVE i \in Issued /\ Early(i)
    BY <1>3, <1>4, <2>1 DEF Early
  <2>2. ASSUME NEW p \in 1 .. Len(Stream), Early(Stream[p].id)'
        PROVE  Early(Stream[p].id)
    <3>1. PICK i : i = Stream[p].id
      OBVIOUS
    <3>2. Early(i)'
      BY <1>3, <2>2, <3>1
    <3> QED
      BY <2>1, <3>1, <3>2
  <2> QED
    BY <1>2, <1>3, <2>1, <2>2 DEF PlainOK, MatchOK
<1>10. FiredOK'
  <2>1. ASSUME NEW i \in 1 .. MaxCmd
        PROVE  /\ Waits(i)' = Waits(i)
               /\ Regular(i)' => Regular(i)
               /\ i \notin Issued' => i \notin Issued
    BY <1>2, <1>3 DEF Waits, Regular
  <2> QED
    BY <1>3, <2>1 DEF PlainOK, FiredOK
<1> QED
  BY <1>3, <1>6, <1>7, <1>8, <1>9, <1>10 DEF PlainOK

\* A mode that has been used stays used: if only get and subscribe have been issued
\* after a step, this was so before it; and the step was none of the other commands.
LEMMA PlainBack ==
    ASSUME TypeOK, Pipeline, [Next]_vars, Plain'
    PROVE  Plain /\ ~Monitor /\ \A t \in Topics : ~Unsubscribe(t)
<1>1. ASSUME NEW kind, NEW topic, Appended(kind, topic),
             [kind |-> kind, topic |-> topic] \in Cmd
      PROVE  Plain /\ kind \in {"get", "subscribe"}
  <2>1. /\ Len(cmds') = Len(cmds) + 1 /\ Len(cmds) \in Nat
        /\ \A i \in Issued : cmds'[i] = cmds[i]
        /\ cmds'[Len(cmds) + 1] = [kind |-> kind, topic |-> topic]
    BY <1>1, AppendedStep, Lengths
  <2>2. Len(cmds) + 1 \in Issued' /\ \A i \in Issued : i \in Issued'
    BY <2>1 DEF Issued
  <2> QED
    BY <2>1, <2>2 DEF Plain
<1>2. ASSUME Command PROVE Plain
  BY <1>1, <1>2 DEF Command, Cmd
<1>4. ASSUME NEW t \in Topics, Subscribe(t) PROVE Plain
  BY <1>1, <1>4 DEF Subscribe, Cmd
<1>5. ASSUME NEW t \in Topics, Unsubscribe(t) PROVE FALSE
  BY <1>1, <1>5 DEF Unsubscribe, Cmd
<1>6. ASSUME cmds' = cmds PROVE Plain
  BY <1>6 DEF Plain, Issued
<1>7. ASSUME PipeRest PROVE Plain
  BY <1>6, <1>7, PipeFrame
<1>8. ASSUME WriteData \/ ServerAnswers \/ UNCHANGED vars PROVE Plain
  BY <1>6, <1>8 DEF WriteData, ServerAnswers, vars, histVars
<1>9. ~Monitor
  BY <1>1 DEF Monitor, Cmd
<1> QED
  BY <1>2, <1>4, <1>5, <1>7, <1>8, <1>9
     DEF Next, UserStep, WriteEvent, ServerStep, PipeRest

\* Every step keeps the way of replies to callbacks, as long as only regular commands and
\* subscriptions are issued.
LEMMA PlainStep ==
    TypeOK /\ FlagsOK /\ Pipeline /\ SubOK /\ (Plain => PlainOK) /\ [Next]_vars
        => (Plain => PlainOK)'
<1> SUFFICES ASSUME TypeOK, FlagsOK, Pipeline, SubOK, Plain => PlainOK, [Next]_vars, Plain'
             PROVE  PlainOK'
  OBVIOUS
<1>1. Plain /\ PlainOK /\ ~Monitor /\ \A t \in Topics : ~Unsubscribe(t)
  BY PlainBack
<1>2. CASE QuietAction
  BY <1>1, <1>2, QuietActions, QuietStep
<1>3. CASE FreeReplies \/ FreeInvalid \/ \E t \in Topics : FreeSub(t)
  BY <1>1, <1>3, FreeStep
<1>4. CASE ProcessRegular
  BY <1>1, <1>4, RegularStep
<1>5. CASE ProcessSubscribed
  BY <1>1, <1>5, SubscribedStep
<1>6. CASE ProcessFails
  BY <1>1, <1>6, FailsStep
<1>7. CASE ProcessAborts \/ ProcessMonitor
  BY <1>1, <1>7, NoOtherProcess
<1>8. CASE ServerAnswers
  BY <1>1, <1>8, AnswersPlain
<1>9. CASE ServerPublishes \/ ServerRefuses
  BY <1>1, <1>9, PushPlain
<1>10. CASE Command
  BY <1>1, <1>10, CommandPlain
<1>11. ASSUME NEW t \in Topics, Subscribe(t) PROVE PlainOK'
  BY <1>1, <1>11, SubscribePlain
<1>12. CASE UNCHANGED vars
  <2>1. Quiet
    BY <1>1, <1>12 DEF Quiet, vars, ctxVars, histVars, srvVars, Stream, Answered, PlainOK,
                       Serving
  <2> QED
    BY <1>1, <2>1, QuietStep
<1> QED
  BY <1>1, <1>2, <1>3, <1>4, <1>5, <1>6, <1>7, <1>8, <1>9, <1>10, <1>11, <1>12
     DEF Next, UserStep, ThreadStep, ServerStep, QuietAction

\* __redisAsyncFree ends with both lists empty, and a freed context takes no command.
LEMMA FreedStep == FreedOK /\ [Next]_vars => FreedOK'
<1> SUFFICES ASSUME FreedOK, [Next]_vars, pc' = "freed"
             PROVE  replies' = <<>> /\ invalid' = <<>>
  BY DEF FreedOK
<1> USE DEF FreedOK, ctxVars, histVars
<1>1. CASE UserStep
  BY <1>1 DEF UserStep, Command, Monitor, AsyncDisconnect, AsyncFree, Subscribe, Unsubscribe,
              Appended, Accepts, UserRuns, Disconnect
<1>2. CASE ReadEvent \/ WriteEvent \/ EarlyEvent
  BY <1>2 DEF ReadEvent, ReadRefused, ReadData, ReadPart, ReadFails, WriteEvent, WriteRefused,
              WriteData, WriteFails, HandleConnectFails, Disconnect, EarlyEvent, ReadAgain,
              WriteAgain, HandleConnectAgain
<1>3. CASE ThreadStep
  BY <1>3 DEF ThreadStep, ProcessDisconnects, ProcessEnds, ProcessFails, ProcessAborts,
              ProcessRegular, ProcessSubscribed, ProcessMonitor, CallbackReturns,
              FreeReplies, FreeInvalid, FreeSub, FreeCallbackReturns, FreeContext,
              Disconnect, RunCallback, RunWithNull
<1>4. CASE ServerStep \/ \E result \in {"ok", "refused"} : ConnectionResolves(result)
  BY <1>4, ServerFrame
<1>5. CASE UNCHANGED vars
  BY <1>5 DEF vars
<1> QED
  BY <1>1, <1>2, <1>3, <1>4, <1>5 DEF Next

\* A new context has no callbacks and no replies.
LEMMA PlainInit == Init => PlainOK
<1> SUFFICES ASSUME Init PROVE PlainOK
  OBVIOUS
<1>1. Issued = {} /\ Len(replies) = 0 /\ Len(invalid) = 0 /\ Answered = 0
  <2>1. Len(cmds) = 0 /\ Len(obuf) = 0 /\ Len(wire) = 0
    BY OneStatus DEF Init
  <2>2. Len(replies) = 0 /\ Len(invalid) = 0
    BY OneStatus DEF Init
  <2>3. Issued = {} /\ Answered = 0
    BY <2>1 DEF Issued, Answered
  <2> QED
    BY <2>2, <2>3
<1>2. Stream = <<>> /\ Len(Stream) = 0
  BY OneStatus, ConcatEmptySeq, EmptySeq DEF Init, Stream
<1>3. ModesOK
  BY <1>1 DEF Init, ModesOK, Has
<1>4. StreamOK /\ ListsOK /\ MatchOK
  BY <1>1, <1>2 DEF StreamOK, ListsOK, MatchOK, Init
<1>5. FiredOK
  BY <1>1 DEF Init, FiredOK, Regular
<1> QED
  BY <1>3, <1>4, <1>5 DEF Init, PlainOK, RunningOK

-----------------------------------------------------------------------------
\* The inductive invariant.
THEOREM Invariance == Spec => []Inv
<1>1. Init => Inv
  <2>1. Init => FreedOK
    BY DEF Init, FreedOK
  <2> QED
    BY <2>1, TypeInit, LocalInit, PipeInit, PlainInit DEF Inv
<1>2. Inv /\ [Next]_vars => Inv'
  <2> SUFFICES ASSUME Inv, [Next]_vars PROVE Inv'
    OBVIOUS
  <2>1. TypeOK'
    BY TypeStep DEF Inv
  <2>2. FlagsOK' /\ ToldOK' /\ EventsOK'
    BY LocalStep DEF Inv
  <2>5. FreedOK'
    BY FreedStep DEF Inv
  <2>3. Pipeline' /\ SubOK'
    BY PipeStep, SubStep DEF Inv
  <2>4. (Plain => PlainOK)'
    BY PlainStep DEF Inv
  <2> QED
    BY <2>1, <2>2, <2>3, <2>4, <2>5 DEF Inv
<1> QED
  BY <1>1, <1>2, PTL DEF Spec

\* Every variable of the context, of its events and of the server keeps its type.
THEOREM TypeCorrect == Spec => []TypeOK
<1>1. Inv => TypeOK
  BY DEF Inv
<1> QED
  BY <1>1, Invariance, PTL

\* A reply reaches the callback of the command it answers: redisProcessCallbacks
\* matches the two by their order alone, and that is enough as long as only regular
\* commands and subscriptions have been issued, however replies are cut into pieces,
\* whatever else the server sends and whatever callbacks issue.
THEOREM ReplyMatching == Spec => []OwnReply
<1>1. Inv => OwnReply
  BY DEF Inv, PlainOK, RunningOK, OwnReply, Regular, IsSub
<1> QED
  BY <1>1, Invariance, PTL

\* A subscription's callback gets what concerns its channel only.
THEOREM TopicMatching == Spec => []OwnTopic
<1>1. Inv => OwnTopic
  BY DEF Inv, PlainOK, RunningOK, OwnTopic, IsSub
<1> QED
  BY <1>1, Invariance, PTL

\* The callback of a regular command runs once, with its reply or, from
\* __redisAsyncFree, with NULL; none is left over when the context is freed.
THEOREM CallbackOnceProved == Spec => []CallbackOnce
<1>1. Inv => CallbackOnce
  <2> SUFFICES ASSUME Inv, Plain, NEW i \in Issued, Regular(i)
               PROVE  fired[i] <= 1 /\ (pc = "freed" => fired[i] = 1)
    BY DEF CallbackOnce
  <2>1. i \in 1 .. MaxCmd
    BY Lengths, AsyncAssumption DEF Inv, TypeOK, Issued
  <2>2. fired[i] = IF Waits(i) THEN 0 ELSE 1
    BY <2>1 DEF Inv, PlainOK, FiredOK
  <2>3. pc = "freed" => ~Waits(i)
    BY OneStatus DEF Inv, FreedOK, Waits
  <2> QED
    BY <2>2, <2>3
<1> QED
  BY <1>1, Invariance, PTL

\* Neither assertion of async.c fails as long as no mode is left.
THEOREM AssertionsHold == Spec => []NoAbortIfPlain
<1>1. Inv => NoAbortIfPlain
  BY DEF Inv, PlainOK, NoAbortIfPlain, NoAbort
<1> QED
  BY <1>1, Invariance, PTL

\* onConnect is called at most once, and onDisconnect exactly once for a connection
\* that was reported, when it ends.
THEOREM Paired == Spec => []ConnectDisconnectPaired
<1>1. Inv => ConnectDisconnectPaired
  <2> SUFFICES ASSUME ToldOK PROVE ConnectDisconnectPaired
    BY DEF Inv
  <2>1. onConnect \in {<<>>, <<"OK">>, <<"ERR">>}
    BY DEF ToldOK
  <2>2. Len(onConnect) <= 1
    BY <2>1, OneStatus
  <2>3. Len(onDisconnect) = IF pc = "freed" /\ onConnect = <<"OK">> THEN 1 ELSE 0
    BY OneStatus DEF ToldOK
  <2> QED
    BY <2>2, <2>3 DEF ConnectDisconnectPaired
<1> QED
  BY <1>1, Invariance, PTL

\* In the event loop the context has the events it needs on every path through the
\* handlers but the early return at EINPROGRESS, after which it is never connected.
THEOREM Listens == Spec => []NeverDeaf
<1>1. Inv => NeverDeaf
  BY DEF Inv, EventsOK, NeverDeaf, Stalled, Serving
<1> QED
  BY <1>1, Invariance, PTL
=============================================================================
