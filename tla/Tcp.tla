-------------------------------- MODULE Tcp --------------------------------
(***************************************************************************)
(* The TCP part of translib: TcpClient and TcpSocket, TcpServer with its          *)
(* dispatchers and sessions, and the TPKT frames that TcpClientTPKT sends and     *)
(* TcpServerTPKT reads.                                                       *)
(*                                                                          *)
(* Every client has a user thread, which sends and closes, and a loop thread,      *)
(* which writes and runs the callbacks; the server accepts in one thread and each   *)
(* dispatcher runs its sessions in its own.  libevent and the network are           *)
(* external: a bufferevent writes and reads in any pieces, the callback after a     *)
(* write that emptied the output comes later.  Frames from the server to a client   *)
(* are not modelled.                                                          *)
(***************************************************************************)
EXTENDS Integers, Sequences, SequencesExt, FiniteSets

CONSTANTS Clients,
          Slavers,    \* number of slave dispatchers
          Base,       \* values of a byte, 256 in the code
          Messages,   \* the messages in the order they are sent, sequences of bytes
          MaxConn,    \* bound: connections
          Pieces      \* bound: bytes moved at once, when it is not all there are

TPKT1_LENGTH == 4
TPKT_VERSION1 == 1

\* A message fits in a frame with a length of three bytes.
ASSUME TcpAssumption ==
    /\ Slavers \in Nat /\ Base \in Nat \ {0, 1}
    /\ \A i \in 1 .. Len(Messages) : Len(Messages[i]) + TPKT1_LENGTH < Base * Base * Base

Conns == 1 .. MaxConn
Dispatchers == IF Slavers = 0 THEN {0} ELSE 0 .. Slavers - 1

VARIABLES
    client,   \* the TcpClient objects and where their user thread is
    wire,     \* for each connection, its state and id, the bytes on their way, and as a
              \* history the messages sent, whether close was called, and those before
    ids,      \* s_sessionIdGenerator
    actions,  \* _actions of each dispatcher
    session   \* the session of each connection

vars == <<client, wire, ids, actions, session>>

NoConn == 0
NewClient == [conn |-> NoConn, isConnected |-> FALSE, isClosing |-> FALSE, out |-> <<>>,
              due |-> FALSE, shut |-> FALSE, pc |-> "idle", rest |-> <<>>]
NewWire == [st |-> "none", bytes |-> <<>>, sent |-> <<>>, id |-> 0, asked |-> "no", before |-> 0]
NewSession == [st |-> "none", in |-> <<>>, got |-> <<>>, eof |-> FALSE]

Init == /\ client = [c \in Clients |-> NewClient] /\ wire = [k \in Conns |-> NewWire]
        /\ ids = 0 /\ actions = [d \in Dispatchers |-> <<>>]
        /\ session = [k \in Conns |-> NewSession]

Sizes(s) == {n \in 1 .. Len(s) : n \in Pieces \/ n = Len(s)}
Suffix(s, n) == SubSeq(s, n + 1, Len(s))

----------------------------------------------------------------------------
(* TcpClient and TcpSocket *)

\* A new bufferevent; nothing happens if there is one.  isClosing is not touched.
connect(c) ==
    /\ client[c].pc = "idle" /\ client[c].conn = NoConn
    /\ \E k \in Conns :
           /\ wire[k].st = "none" /\ \A i \in 1 .. k - 1 : wire[i].st # "none"
           /\ client' = [client EXCEPT ![c].conn = k, ![c].out = <<>>, ![c].due = FALSE,
                                       ![c].shut = FALSE]
           /\ wire' = [wire EXCEPT ![k].st = "connecting"]
    /\ UNCHANGED <<ids, actions, session>>

\* BEV_EVENT_CONNECTED; the server has the connection to accept.  Whether it counts as
\* connected depends on the errno that some earlier call has left.
Connected(c) ==
    LET k == client[c].conn
    IN  /\ k # NoConn /\ wire[k].st = "connecting"
        /\ \E errno \in {"refused", "other"} :
               client' = [client EXCEPT ![c].isConnected = @ \/ errno = "other"]
        /\ wire' = [wire EXCEPT ![k].st = "pending"]
        /\ UNCHANGED <<ids, actions, session>>

\* handleEvent for the end of the connection: the bufferevent is freed.  (The descriptor
\* is closed here, and once more with the bufferevent; numbers of descriptors are not
\* modelled.)
Disconnected(c) ==
    LET k == client[c].conn
    IN  /\ k # NoConn
        /\ client[c].shut \/ wire[k].st \in {"connecting", "closed"}
        /\ client' = [client EXCEPT ![c].conn = NoConn, ![c].isConnected = FALSE, ![c].out = <<>>,
                                    ![c].due = FALSE]
        /\ wire' = [wire EXCEPT ![k].st = IF @ = "connecting" THEN "closed" ELSE @]
        /\ UNCHANGED <<ids, actions, session>>

CanSend(cl) == cl.conn # NoConn /\ ~cl.isClosing

header(len) == LET n == len + TPKT1_LENGTH
               IN  <<TPKT_VERSION1, (n \div (Base * Base)) % Base, (n \div Base) % Base, n % Base>>

\* sendWithTPKT: the header, then the message.  The return value is all that is left of
\* a message that was refused.
sendHeader(c) ==
    LET cl == client[c]
        i  == 1 + FoldLeft(LAMBDA n, w : n + Len(w.sent), 0, wire)
    IN  /\ cl.pc = "idle" /\ CanSend(cl) /\ i <= Len(Messages)
        /\ client' = [client EXCEPT ![c].out = @ \o header(Len(Messages[i])), ![c].pc = "data",
                                    ![c].rest = Messages[i]]
        /\ wire' = [wire EXCEPT ![cl.conn].sent = Append(@, Messages[i])]
        /\ UNCHANGED <<ids, actions, session>>

sendData(c) ==
    LET cl == client[c]
    IN  /\ cl.pc = "data"
        /\ client' = [client EXCEPT ![c].pc = "idle", ![c].rest = <<>>,
                                    ![c].out = IF CanSend(cl) THEN @ \o cl.rest ELSE @]
        /\ UNCHANGED <<wire, ids, actions, session>>

closeImpl(cl) == [cl EXCEPT !.isClosing = FALSE, !.shut = TRUE]

\* close: the output is looked at, and isClosing is set after that.
close(c, waiting) ==
    LET cl == client[c]
    IN  /\ cl.pc = "idle" /\ cl.conn # NoConn /\ ~cl.shut
        /\ client' = [client EXCEPT ![c] = IF waiting /\ cl.out # <<>> THEN [@ EXCEPT !.pc = "closing"]
                                           ELSE closeImpl(@)]
        /\ wire' = [wire EXCEPT ![cl.conn].asked = IF waiting /\ @ # "now" THEN "waiting" ELSE "now",
                                ![cl.conn].before = IF wire[cl.conn].asked = "no"
                                                    THEN Len(wire[cl.conn].sent) ELSE @]
        /\ UNCHANGED <<ids, actions, session>>

setClosing(c) ==
    /\ client[c].pc = "closing"
    /\ client' = [client EXCEPT ![c].pc = "idle", ![c].isClosing = TRUE]
    /\ UNCHANGED <<wire, ids, actions, session>>

\* The loop thread writes what it can; a write that empties the output makes the write
\* callback due.
Write(c) ==
    LET cl == client[c]
    IN  /\ cl.conn # NoConn /\ wire[cl.conn].st # "connecting" /\ ~cl.shut
        /\ \E n \in Sizes(cl.out) :
               /\ client' = [client EXCEPT ![c].out = Suffix(@, n), ![c].due = @ \/ n = Len(cl.out)]
               /\ wire' = [wire EXCEPT ![cl.conn].bytes = IF wire[cl.conn].st = "closed" THEN @
                                                            ELSE @ \o SubSeq(cl.out, 1, n)]
        /\ UNCHANGED <<ids, actions, session>>

\* Mutant: the socket is shut while there is output.
checkClosingEarly(cl) == IF cl.isClosing THEN closeImpl(cl) ELSE cl

\* Mutant: the flag is dropped with the socket left open.
checkClosingForgets(cl) == IF cl.isClosing /\ cl.out = <<>> THEN [cl EXCEPT !.isClosing = FALSE] ELSE cl

checkClosing(cl) == IF cl.isClosing /\ cl.out = <<>> THEN closeImpl(cl) ELSE cl

writeCallback(c) ==
    /\ client[c].due
    /\ client' = [client EXCEPT ![c] = checkClosing([@ EXCEPT !.due = FALSE])]
    /\ UNCHANGED <<wire, ids, actions, session>>

----------------------------------------------------------------------------
(* TcpServer and TcpServerDispatcher *)

getSessionDispatcher(id) == IF Slavers = 0 THEN 0 ELSE id % Slavers

\* The connection gets its id and is queued for the dispatcher.
listenEventCallback(k) ==
    /\ wire[k].st = "pending"
    /\ ids' = ids + 1
    /\ wire' = [wire EXCEPT ![k].st = "open", ![k].id = ids + 1]
    /\ actions' = [actions EXCEPT ![getSessionDispatcher(ids + 1)] =
                       Append(@, [add |-> TRUE, conn |-> k])]
    /\ UNCHANGED <<client, session>>

\* The whole queue is worked off under the lock.  attach may fail: the session is not
\* kept, and the socket stays open.
onFrame(d) ==
    /\ actions[d] # <<>>
    /\ \E fails \in SUBSET {a.conn : a \in ToSet(actions[d])} :
           session' = FoldLeft(LAMBDA ss, a : [ss EXCEPT ![a.conn].st =
                                   IF ~a.add THEN "erased" ELSE IF a.conn \in fails THEN "failed" ELSE "in"],
                               session, actions[d])
    /\ actions' = [actions EXCEPT ![d] = <<>>]
    /\ UNCHANGED <<client, wire, ids>>

----------------------------------------------------------------------------
(* TcpSession and TcpServerTPKT *)

packet_length(buf) == Base * Base * buf[2] + Base * buf[3] + buf[4]

\* onSessionRead: the input that is left and the messages found.  A byte that is not the
\* start of a frame is dropped, with the length taken from the bytes before it was.
RECURSIVE onSessionRead(_, _)
onSessionRead(buf, got) ==
    LET len  == packet_length(buf)
        rest == IF buf[1] = TPKT_VERSION1 THEN buf ELSE Tail(buf)
    IN  IF Len(buf) < TPKT1_LENGTH THEN [in |-> buf, got |-> got]
        ELSE IF len > Len(buf) THEN [in |-> rest, got |-> got]
        ELSE onSessionRead(Suffix(rest, len), Append(got, SubSeq(rest, TPKT1_LENGTH + 1, len)))

\* The bufferevent reads n bytes and calls readCallback.
readCallback(k) ==
    /\ session[k].st = "in"
    /\ \E n \in Sizes(wire[k].bytes) :
           LET r == onSessionRead(session[k].in \o SubSeq(wire[k].bytes, 1, n), session[k].got)
           IN  /\ session' = [session EXCEPT ![k].in = r.in, ![k].got = r.got]
               /\ wire' = [wire EXCEPT ![k].bytes = Suffix(@, n)]
    /\ UNCHANGED <<client, ids, actions>>

\* The client has shut the connection, or is gone.
Fin(k) == \A c \in Clients : client[c].conn = k => client[c].shut

\* The end of the input, or an error.
handleEvent(k) ==
    /\ session[k].st = "in"
    /\ \E eof \in BOOLEAN : /\ eof => Fin(k) /\ wire[k].bytes = <<>>
                            /\ session' = [session EXCEPT ![k].st = "ended", ![k].in = <<>>, ![k].eof = eof]
    /\ wire' = [wire EXCEPT ![k].st = "closed", ![k].bytes = <<>>]
    /\ actions' = [actions EXCEPT ![getSessionDispatcher(wire[k].id)] =
                       Append(@, [add |-> FALSE, conn |-> k])]
    /\ UNCHANGED <<client, ids>>

----------------------------------------------------------------------------
UserOf(c) == sendData(c) \/ setClosing(c)
LoopOf(c) == Connected(c) \/ Write(c) \/ writeCallback(c) \/ Disconnected(c)

Next == \/ \E c \in Clients : \/ connect(c) \/ Connected(c) \/ Disconnected(c) \/ sendHeader(c)
                              \/ sendData(c) \/ close(c, TRUE) \/ close(c, FALSE) \/ setClosing(c)
                              \/ Write(c) \/ writeCallback(c)
        \/ \E k \in Conns : listenEventCallback(k) \/ readCallback(k) \/ handleEvent(k)
        \/ \E d \in Dispatchers : onFrame(d)

\* The user threads go on inside a call, the loop threads run; the frame timers tick.
Spec == /\ Init /\ [][Next]_vars
        /\ \A c \in Clients : WF_vars(UserOf(c)) /\ WF_vars(LoopOf(c))
        /\ \A d \in Dispatchers : WF_vars(onFrame(d))

----------------------------------------------------------------------------
(* Properties *)

\* The messages that the server finds on a connection are the ones that were sent on it,
\* in order, however the bytes are cut; and when it comes to the end of a connection
\* that the client closed with waiting set, it has all that were sent before.
MessagesIntact ==
    \A k \in Conns : /\ IsPrefix(session[k].got, wire[k].sent)
                     /\ session[k].eof /\ wire[k].asked = "waiting" => Len(session[k].got) >= wire[k].before

\* The output was emptied, and the write callback over, before isClosing was set.
Missed(c) == /\ client[c].isClosing /\ client[c].out = <<>> /\ ~client[c].due

\* After close(true) the connection is shut, or ends otherwise; the one exception is a
\* write callback that came between the look at the output and the assignment to
\* isClosing.
ClosesAfterSending ==
    \A c \in Clients, k \in Conns :
        (client[c].conn = k /\ wire[k].asked = "waiting")
        ~> (client[c].conn # k \/ client[c].shut \/ Missed(c))
=============================================================================
