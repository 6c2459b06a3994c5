---------------------------- MODULE ConnManager ----------------------------
(***************************************************************************)
(* The connection manager of include/connManager: a connManager with its     *)
(* pools, the message_bus over which connections report to their pool and    *)
(* pools to the manager, and the serviceDiscovery that finds connections.    *)
(*                                                                           *)
(* All of it runs in one thread, as the bus needs: its lock_guards end with  *)
(* the if around them.  The connection is external, after the template in    *)
(* connInterface.h: connect finishes later, a connection lives on when it is *)
(* lost and may come back, and it reports each change once.  The two         *)
(* handlers of the manager are registered for good, its destructor calls a   *)
(* remove_handler that does not exist.                                       *)
(***************************************************************************)
EXTENDS Integers, Sequences, SequencesExt, FiniteSets

CONSTANTS Infos,
          Local,      \* those with type 0
          Home,       \* what the manager's callback tells serviceDiscovery
          Junk,       \* what an uninitialized _id may hold
          MaxPools, MaxConns, MaxInfos  \* bounds: pools and connections made, infoList

ASSUME ConnAssumption == Home \in Local /\ Local \subseteq Infos /\ Junk \subseteq Int /\ Junk # {}

VARIABLES
    m,         \* the objects: uniqueID_atomic, invokers_ of the pools' bus, infoList,
               \* poolList, and the pools and connections ever made
    held,      \* pools to which the user has a pointer
    found,     \* _conn_list of serviceDiscovery
    got        \* the connections that the last get_conn or get_pool gave to the user

vars == <<m, held, found, got>>

Pools == 1 .. MaxPools
Conns == 1 .. MaxConns

\* list::remove and remove_if, for the set of what they remove.
Without(list, S) ==
    LET f[i \in 0 .. Len(list)] ==
            IF i = 0 THEN <<>>
            ELSE IF list[i] \in S THEN f[i - 1] ELSE Append(f[i - 1], list[i])
    IN  f[Len(list)]

\* The manager has registered POOL_INC and POOL_DEC.
Init == /\ m = [uniqueID |-> 2, invokers |-> {}, infoList |-> <<>>, poolList |-> <<>>,
                pools |-> <<>>, conns |-> <<>>]
        /\ held = {} /\ found = {} /\ got = {}

----------------------------------------------------------------------------
(* connPool *)

\* The constructor registers two handlers; _id is not set.
connPool(s, junk) ==
    LET p == Len(s.pools) + 1
        d == s.uniqueID
    IN  [s EXCEPT !.uniqueID = d + 2,
                  !.invokers = @ \cup {[name |-> "conn_dec", obj |-> p, id |-> d],
                                       [name |-> "conn_inc", obj |-> p, id |-> d + 1]},
                  !.pools = Append(@, [_id |-> junk, conn_dec_id |-> d, conn_inc_id |-> d + 1,
                                       local |-> <<>>, remote |-> <<>>])]

\* add_conn with an info: a connection that starts to connect.  dropped is a history: it
\* was taken out by its info since it connected.
connOf(pool, info) ==
    [info |-> info, pool_index |-> pool._id, conn_dec_id |-> pool.conn_dec_id,
     conn_inc_id |-> pool.conn_inc_id, conn_state |-> FALSE, dropped |-> FALSE]

poolAddInfo(s, p, info) == [s EXCEPT !.conns = Append(@, connOf(s.pools[p], info))]

\* add_conn with a connection that is there.
poolAddConn(s, p, c) ==
    IF s.conns[c].info \in Local THEN [s EXCEPT !.pools[p].local = Append(@, c)]
    ELSE [s EXCEPT !.pools[p].remote = Append(@, c)]

\* Mutant: the lists are taken for each other.
poolDelConnOther(s, p, c) ==
    IF s.conns[c].info \notin Local THEN [s EXCEPT !.pools[p].local = Without(@, {c})]
    ELSE [s EXCEPT !.pools[p].remote = Without(@, {c})]

\* Both forms of del_conn look in one list.
poolDelConn(s, p, c) ==
    IF s.conns[c].info \in Local THEN [s EXCEPT !.pools[p].local = Without(@, {c})]
    ELSE [s EXCEPT !.pools[p].remote = Without(@, {c})]

ListedIn(pool) == ToSet(pool.local) \cup ToSet(pool.remote)

\* del_conn with an info, in each of the pools ps.
poolsDelInfo(s, ps, info) ==
    LET named == {c \in DOMAIN s.conns : s.conns[c].info = info}
        out   == {c \in named : \E p \in ps : c \in ListedIn(s.pools[p])}
    IN  [s EXCEPT !.conns = [c \in DOMAIN s.conns |->
                                IF c \in out THEN [s.conns[c] EXCEPT !.dropped = TRUE]
                                ELSE s.conns[c]],
                  !.pools = [p \in DOMAIN s.pools |->
                                IF p \notin ps THEN s.pools[p]
                                ELSE IF info \in Local
                                THEN [s.pools[p] EXCEPT !.local = Without(@, named)]
                                ELSE [s.pools[p] EXCEPT !.remote = Without(@, named)]]]

Rotated(list) == Append(Tail(list), Head(list))

\* Mutant: the front stays where it is.
poolGetConnFirst(s, p) ==
    LET pool == s.pools[p]
    IN  IF pool.local # <<>> THEN [s |-> s, got |-> {Head(pool.local)}]
        ELSE IF pool.remote # <<>> THEN [s |-> s, got |-> {Head(pool.remote)}]
        ELSE [s |-> s, got |-> {}]

\* get_conn: remote connections only if there is no local one.
poolGetConn(s, p) ==
    LET pool == s.pools[p]
    IN  IF pool.local # <<>>
        THEN [s |-> [s EXCEPT !.pools[p].local = Rotated(@)], got |-> {Head(pool.local)}]
        ELSE IF pool.remote # <<>>
        THEN [s |-> [s EXCEPT !.pools[p].remote = Rotated(@)], got |-> {Head(pool.remote)}]
        ELSE [s |-> s, got |-> {}]

Empty(s, p) == s.pools[p].local = <<>> /\ s.pools[p].remote = <<>>

\* Mutant: the handler for CONN_INC is forgotten.
destroyPoolsHalf(s, ps) ==
    [s EXCEPT !.invokers = {h \in @ : h.obj \notin ps \/ h.name # "conn_dec"},
              !.pools = [p \in DOMAIN s.pools |->
                            IF p \notin ps THEN s.pools[p]
                            ELSE [s.pools[p] EXCEPT !.local = <<>>, !.remote = <<>>]]]

\* ~connPool, with remove_handler, of the pools ps.
destroyPools(s, ps) ==
    [s EXCEPT !.invokers = {h \in @ : \/ h.obj \notin ps
                                      \/ h.id \notin {s.pools[h.obj].conn_inc_id,
                                                      s.pools[h.obj].conn_dec_id}},
              !.pools = [p \in DOMAIN s.pools |->
                            IF p \notin ps THEN s.pools[p]
                            ELSE [s.pools[p] EXCEPT !.local = <<>>, !.remote = <<>>]]]

----------------------------------------------------------------------------
(* connManager *)

\* The pool gets a connection for each info, and its id only after that.
add_pool(s, junk) ==
    LET made == connPool(s, junk)
        p    == Len(made.pools)
    IN  [made EXCEPT !.conns = @ \o [i \in 1 .. Len(s.infoList) |->
                                        connOf(made.pools[p], s.infoList[i])],
                     !.pools[p]._id = made.uniqueID, !.uniqueID = @ + 1,
                     !.poolList = Append(@, p)]

\* A pool that nobody else holds ends here.
del_pool(s, id) ==
    LET gone == {p \in ToSet(s.poolList) : s.pools[p]._id = id}
    IN  destroyPools([s EXCEPT !.poolList = Without(@, gone)], gone \ held)

\* The handler of POOL_INC.
onPoolInc(s, p, junk) ==
    IF \E q \in ToSet(s.poolList) : s.pools[q]._id = s.pools[p]._id THEN s ELSE add_pool(s, junk)

Listed(p) == ListedIn(m.pools[p])

\* Bounds on what one step may make.
RoomForPool == Len(m.pools) < MaxPools /\ Len(m.conns) + Len(m.infoList) <= MaxConns
RoomForConns(n) == Len(m.conns) + n <= MaxConns /\ Len(m.infoList) < MaxInfos

addPool ==
    /\ RoomForPool
    /\ \E junk \in Junk : m' = add_pool(m, junk)
    /\ UNCHANGED <<held, found, got>>

delPool(p) ==
    /\ p \in ToSet(m.poolList)
    /\ m' = del_pool(m, m.pools[p]._id)
    /\ UNCHANGED <<held, found, got>>

add_conn(s, info) ==
    [s EXCEPT !.infoList = Append(@, info),
              !.conns = @ \o [i \in 1 .. Len(s.poolList) |->
                                 connOf(s.pools[s.poolList[i]], info)]]

addConn(info) ==
    /\ RoomForConns(Len(m.poolList))
    /\ m' = add_conn(m, info)
    /\ UNCHANGED <<held, found, got>>

delConn(info) ==
    /\ m' = poolsDelInfo([m EXCEPT !.infoList = Without(@, {info})], ToSet(m.poolList), info)
    /\ UNCHANGED <<held, found, got>>

\* get_pool, whose result the user keeps.
getPool ==
    /\ m.poolList # <<>>
    /\ m' = [m EXCEPT !.poolList = Rotated(@)]
    /\ held' = held \cup {Head(m.poolList)}
    /\ got' = Listed(Head(m.poolList))
    /\ UNCHANGED found

\* The user lets go of a pool: the last pointer ends it.
releasePool(p) ==
    /\ p \in held
    /\ held' = held \ {p}
    /\ m' = IF p \in ToSet(m.poolList) THEN m ELSE destroyPools(m, {p})
    /\ UNCHANGED <<found, got>>

\* get_conn: the next pool, whether it has a connection or not.
getConn ==
    /\ IF m.poolList = <<>> THEN got' = {} /\ m' = m
       ELSE LET r == poolGetConn([m EXCEPT !.poolList = Rotated(@)], Head(m.poolList))
            IN  got' = r.got /\ m' = r.s
    /\ UNCHANGED <<held, found>>

\* The same for a pool that the user holds.
getConnOf(p) ==
    /\ p \in held
    /\ LET r == poolGetConn(m, p) IN got' = r.got /\ m' = r.s
    /\ UNCHANGED <<held, found>>

addConnTo(p, info) ==
    /\ p \in held /\ Len(m.conns) < MaxConns
    /\ m' = poolAddInfo(m, p, info)
    /\ UNCHANGED <<held, found, got>>

delConnOf(p, info) ==
    /\ p \in held
    /\ m' = poolsDelInfo(m, {p}, info)
    /\ UNCHANGED <<held, found, got>>

\* The timer of serviceDiscovery: getConnInfo.  Nothing that it found is ever missing
\* from what the manager's callback returns, so that nothing is taken out.
getConnInfo ==
    /\ Home \notin found /\ RoomForConns(Len(m.poolList))
    /\ found' = found \cup {Home}
    /\ m' = add_conn(m, Home)
    /\ UNCHANGED <<held, got>>

----------------------------------------------------------------------------
(* A connection and what it tells its pool over the bus *)

\* The handler that message_bus::call finds, if any.
Handlers(name, id) == {h \in m.invokers : h.name = name /\ h.id = id}

onConnInc(s, p, c, junk) ==
    IF s.conns[c].pool_index # s.pools[p]._id THEN s
    ELSE poolAddConn(IF Empty(s, p) THEN onPoolInc(s, p, junk) ELSE s, p, c)

\* Without a connection left, the pool is given up.
onConnDec(s, p, c) ==
    LET without == poolDelConn(s, p, c)
    IN  IF s.conns[c].pool_index # s.pools[p]._id THEN s
        ELSE IF Empty(without, p) THEN del_pool(without, s.pools[p]._id)
        ELSE without

onConnected(c) ==
    LET up  == [m EXCEPT !.conns[c].conn_state = TRUE, !.conns[c].dropped = FALSE]
        hs  == Handlers("conn_inc", m.conns[c].conn_inc_id)
    IN  /\ c \in DOMAIN m.conns /\ ~m.conns[c].conn_state
        /\ \/ hs = {} /\ m' = up
           \/ \E h \in hs, junk \in Junk :
                  /\ m' = onConnInc(up, h.obj, c, junk)
                  /\ Len(m'.pools) > Len(m.pools) => RoomForPool
        /\ UNCHANGED <<held, found, got>>

onDisconnected(c) ==
    LET down == [m EXCEPT !.conns[c].conn_state = FALSE]
        hs   == Handlers("conn_dec", m.conns[c].conn_dec_id)
    IN  /\ c \in DOMAIN m.conns /\ m.conns[c].conn_state
        /\ \/ hs = {} /\ m' = down
           \/ \E h \in hs : m' = onConnDec(down, h.obj, c)
        /\ UNCHANGED <<held, found, got>>

----------------------------------------------------------------------------
Next ==
    \/ addPool \/ getPool \/ getConn \/ getConnInfo
    \/ \E info \in Infos : addConn(info) \/ delConn(info)
    \/ \E p \in Pools : \/ delPool(p) \/ releasePool(p) \/ getConnOf(p)
                        \/ \E info \in Infos : addConnTo(p, info) \/ delConnOf(p, info)
    \/ \E c \in Conns : onConnected(c) \/ onDisconnected(c)

\* The application asks for connections again and again; nothing else need happen.
Spec == Init /\ [][Next]_vars /\ WF_vars(getConn)

----------------------------------------------------------------------------
Live(p) == p \in held \cup ToSet(m.poolList)

\* The lists hold exactly the connections that are up: a live pool has each connection of
\* its own once, in one list, from the time it comes up until it is lost or taken out, also
\* when the pool was empty and the manager made another one meanwhile; what get_conn hands
\* out is never known to be lost.  A connection is its pool's if it has the pool's _id, which
\* one that add_pool made has only by chance.
ListsExact ==
    \A p \in DOMAIN m.pools :
        /\ IsInjective(m.pools[p].local \o m.pools[p].remote)
        /\ Listed(p) = {c \in DOMAIN m.conns :
                           /\ Live(p) /\ m.conns[c].conn_inc_id = m.pools[p].conn_inc_id
                           /\ m.conns[c].pool_index = m.pools[p]._id
                           /\ m.conns[c].conn_state /\ ~m.conns[c].dropped}

\* The bus calls pools that exist and no others, and each under the ids that its
\* connections know: the handlers hold a bare pointer to the pool.
HandlersLive ==
    m.invokers = UNION {{[name |-> "conn_dec", obj |-> p, id |-> m.pools[p].conn_dec_id],
                         [name |-> "conn_inc", obj |-> p, id |-> m.pools[p].conn_inc_id]} :
                        p \in {q \in DOMAIN m.pools : Live(q)}}

\* A local connection that stays in a pool of the manager is handed out again and again,
\* alone or with its pool, however the lists change around it.
NoStarvation ==
    \A c \in Conns :
        <>[](\E p \in ToSet(m.poolList) : c \in ToSet(m.pools[p].local)) => []<>(c \in got)
=============================================================================
