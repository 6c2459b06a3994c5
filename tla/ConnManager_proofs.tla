------------------------- MODULE ConnManager_proofs -------------------------
(***************************************************************************)
(* The connection manager for any infos, any number of pools, connections     *)
(* and calls: the lists of every pool are exact, and the bus has the handlers *)
(* of the pools there are and no others.                                      *)
(*                                                                           *)
(* The methods are operators on the record of all objects, and so are the     *)
(* parts of the invariant: s is such a record, h the pools that the user      *)
(* holds.  In the middle of a step a connection x may be up that is not yet   *)
(* listed; x is 0 between steps.                                              *)
(***************************************************************************)
EXTENDS ConnManager, SequenceTheorems, WellFoundedInduction, TLAPS

Pool == [_id : Int, conn_dec_id : Nat, conn_inc_id : Nat, local : Seq(Nat), remote : Seq(Nat)]

Conn == [info : Infos, pool_index : Int, conn_dec_id : Nat, conn_inc_id : Nat,
         conn_state : BOOLEAN, dropped : BOOLEAN]

Handler == [name : {"conn_dec", "conn_inc"}, obj : Nat, id : Nat]

State == [uniqueID : Nat, invokers : SUBSET Handler, infoList : Seq(Infos),
          poolList : Seq(Nat), pools : Seq(Pool), conns : Seq(Conn)]

Shape(s, h) == /\ s \in State
               /\ ToSet(s.poolList) \subseteq DOMAIN s.pools
               /\ h \subseteq DOMAIN s.pools

\* id_center gives no number twice.
IdsOK(s) ==
    /\ \A p \in DOMAIN s.pools :
          /\ s.pools[p]._id < s.uniqueID
          /\ s.pools[p].conn_dec_id < s.uniqueID
          /\ s.pools[p].conn_inc_id < s.uniqueID
    /\ \A p, q \in DOMAIN s.pools :
          p # q => /\ s.pools[p]._id # s.pools[q]._id
                   /\ s.pools[p].conn_dec_id # s.pools[q].conn_dec_id
                   /\ s.pools[p].conn_inc_id # s.pools[q].conn_inc_id

\* A connection reports to one pool, under both of its ids.
HomeOf(s, c, p) == /\ s.conns[c].conn_dec_id = s.pools[p].conn_dec_id
                   /\ s.conns[c].conn_inc_id = s.pools[p].conn_inc_id

HomesOK(s) == \A c \in DOMAIN s.conns : \E p \in DOMAIN s.pools : HomeOf(s, c, p)

\* Each connection is in the list of its side, once.
SidesOK(s) ==
    \A p \in DOMAIN s.pools :
        /\ IsInjective(s.pools[p].local) /\ IsInjective(s.pools[p].remote)
        /\ \A c \in ToSet(s.pools[p].local) : c \in DOMAIN s.conns /\ s.conns[c].info \in Local
        /\ \A c \in ToSet(s.pools[p].remote) : c \in DOMAIN s.conns /\ s.conns[c].info \notin Local

LiveIn(s, h, p) == p \in h \/ p \in ToSet(s.poolList)

DecOf(s, p) == [name |-> "conn_dec", obj |-> p, id |-> s.pools[p].conn_dec_id]
IncOf(s, p) == [name |-> "conn_inc", obj |-> p, id |-> s.pools[p].conn_inc_id]

BusOK(s, h) ==
    \A k : k \in s.invokers <=> \E p \in DOMAIN s.pools :
                                    LiveIn(s, h, p) /\ (k = DecOf(s, p) \/ k = IncOf(s, p))

\* c is to be in the lists of p.
Belongs(s, c, p) == /\ s.conns[c].conn_inc_id = s.pools[p].conn_inc_id
                    /\ s.conns[c].pool_index = s.pools[p]._id
                    /\ s.conns[c].conn_state /\ ~s.conns[c].dropped

ExactOK(s, h, x) ==
    \A p \in DOMAIN s.pools, c \in DOMAIN s.conns :
        c \in ListedIn(s.pools[p]) <=> c # x /\ LiveIn(s, h, p) /\ Belongs(s, c, p)

Good(s, h, x) == /\ Shape(s, h) /\ IdsOK(s) /\ HomesOK(s) /\ SidesOK(s)
                 /\ BusOK(s, h) /\ ExactOK(s, h, x)

Inv == Good(m, held, 0)

-----------------------------------------------------------------------------
(* Lists.  Without is a recursive function: that it is defined, and what it     *)
(* computes, are inductions over the length of the list.                        *)

\* Induction on natural numbers, for a set.
LEMMA Induction ==
    ASSUME NEW S \in SUBSET Nat, 0 \in S, \A n \in S : n + 1 \in S
    PROVE  S = Nat
<1>. SUFFICES ASSUME S # Nat PROVE FALSE
  OBVIOUS
<1>1. PICK n \in Nat \ S : \A k \in Nat \ S : ~(<<k, n>> \in OpToRel(<, Nat))
  BY WFMin, NatLessThanWellFounded
<1>2. \A k \in Nat \ S : ~(k < n)
  BY <1>1 DEF OpToRel
<1>3. n \in Nat /\ n \notin S
  OBVIOUS
<1>4. n # 0 /\ n - 1 \in Nat /\ n - 1 < n /\ (n - 1) + 1 = n
  BY <1>3
<1>5. n - 1 \in S
  BY <1>2, <1>4
<1>. QED
  BY <1>3, <1>4, <1>5

\* The recursion of Without.
Body(list, S, g, i) ==
    IF i = 0 THEN <<>>
    ELSE IF list[i] \in S THEN g[i - 1] ELSE Append(g[i - 1], list[i])

IsFilter(list, S, g, n) == g = [i \in 0 .. n |-> Body(list, S, g, i)]

\* There is a function with this recursion.
LEMMA FilterExists ==
    ASSUME NEW list, NEW S, NEW k \in Nat
    PROVE  \E g : IsFilter(list, S, g, k)
<1>. DEFINE Q == {n \in Nat : \E g : IsFilter(list, S, g, n)}
<1>1. 0 \in Q
  <2>1. PICK g : g = [i \in 0 .. 0 |-> <<>>]
    OBVIOUS
  <2>2. IsFilter(list, S, g, 0)
    BY <2>1 DEF IsFilter, Body
  <2>. QED
    BY <2>2
<1>2. ASSUME NEW n \in Q PROVE n + 1 \in Q
  <2>1. n \in Nat
    OBVIOUS
  <2>2. PICK g : IsFilter(list, S, g, n)
    OBVIOUS
  <2>3. PICK h : h = [i \in 0 .. n + 1 |-> Body(list, S, g, i)]
    OBVIOUS
  <2>4. \A i \in 0 .. n : h[i] = g[i]
    BY <2>1, <2>2, <2>3 DEF IsFilter
  <2>5. \A i \in 0 .. n + 1 : i # 0 => h[i - 1] = g[i - 1]
    BY <2>1, <2>4
  <2>6. \A i \in 0 .. n + 1 : Body(list, S, g, i) = Body(list, S, h, i)
    BY <2>5 DEF Body
  <2>7. IsFilter(list, S, h, n + 1)
    BY <2>3, <2>6 DEF IsFilter
  <2>. QED
    BY <2>7
<1>3. Q \in SUBSET Nat
  OBVIOUS
<1>. HIDE DEF Q
<1>4. Q = Nat
  BY <1>1, <1>2, <1>3, Induction
<1>. QED
  BY <1>4 DEF Q

\* What an element more does to a list.
LEMMA AppendFacts ==
    ASSUME NEW T, NEW list \in Seq(T), NEW e \in T
    PROVE  /\ Append(list, e) \in Seq(T)
           /\ ToSet(Append(list, e)) = ToSet(list) \cup {e}
           /\ IsInjective(list) /\ e \notin ToSet(list) => IsInjective(Append(list, e))
<1>1. PICK n \in Nat : n = Len(list)
  BY LenProperties
<1>2. /\ Append(list, e) \in Seq(T) /\ DOMAIN Append(list, e) = 1 .. n + 1
      /\ DOMAIN list = 1 .. n
      /\ \A i \in 1 .. n : Append(list, e)[i] = list[i]
      /\ Append(list, e)[n + 1] = e
  BY <1>1, AppendProperties, LenProperties
<1>3. 1 .. n + 1 = 1 .. n \cup {n + 1}
  OBVIOUS
<1>. QED
  BY <1>2, <1>3 DEF ToSet, IsInjective

\* Without leaves the list as it was but for what it removes.
LEMMA WithoutFacts ==
    ASSUME NEW T, NEW list \in Seq(T), NEW S
    PROVE  /\ Without(list, S) \in Seq(T)
           /\ ToSet(Without(list, S)) = ToSet(list) \ S
           /\ IsInjective(list) => IsInjective(Without(list, S))
<1>. DEFINE f == CHOOSE g : IsFilter(list, S, g, Len(list))
<1>1. Len(list) \in Nat /\ DOMAIN list = 1 .. Len(list) /\ \A i \in 1 .. Len(list) : list[i] \in T
  BY LenProperties, ElementOfSeq
<1>2. Without(list, S) = f[Len(list)]
  BY DEF Without, IsFilter, Body
<1>3. IsFilter(list, S, f, Len(list))
  BY <1>1, FilterExists
<1>. HIDE DEF f
<1>4. \A i \in 0 .. Len(list) : f[i] = Body(list, S, f, i)
  BY <1>3 DEF IsFilter
<1>5. f[0] = <<>>
  BY <1>1, <1>4 DEF Body
<1>6. \A n \in Nat : n + 1 <= Len(list) =>
          f[n + 1] = IF list[n + 1] \in S THEN f[n] ELSE Append(f[n], list[n + 1])
  BY <1>1, <1>4 DEF Body
<1>. DEFINE P(n) == /\ f[n] \in Seq(T)
                    /\ ToSet(f[n]) = {list[i] : i \in 1 .. n} \ S
                    /\ IsInjective(list) => IsInjective(f[n])
            Q == {n \in Nat : n <= Len(list) => P(n)}
<1>7. 0 \in Q
  <2>1. <<>> \in Seq(T) /\ DOMAIN <<>> = {} /\ 1 .. 0 = {}
    OBVIOUS
  <2>2. ToSet(<<>>) = {} /\ IsInjective(<<>>)
    BY <2>1 DEF ToSet, IsInjective
  <2>. QED
    BY <1>5, <2>1, <2>2
<1>8. ASSUME NEW n \in Q PROVE n + 1 \in Q
  <2>1. n \in Nat /\ n + 1 \in Nat
    OBVIOUS
  <2>. SUFFICES ASSUME n + 1 <= Len(list) PROVE P(n + 1)
    BY <2>1
  <2>2. P(n)
    BY <2>1, <1>1
  <2>3. n + 1 \in 1 .. Len(list) /\ list[n + 1] \in T
    BY <1>1, <2>1
  <2>4. {list[i] : i \in 1 .. n + 1} = {list[i] : i \in 1 .. n} \cup {list[n + 1]}
    BY <2>1
  <2>5. CASE list[n + 1] \in S
    <3>1. f[n + 1] = f[n]
      BY <1>6, <2>1, <2>5
    <3>. QED
      BY <2>2, <2>4, <2>5, <3>1
  <2>6. CASE list[n + 1] \notin S
    <3>1. f[n + 1] = Append(f[n], list[n + 1])
      BY <1>6, <2>1, <2>6
    <3>2. f[n] \in Seq(T)
      BY <2>2
    <3>3. /\ Append(f[n], list[n + 1]) \in Seq(T)
          /\ ToSet(Append(f[n], list[n + 1])) = ToSet(f[n]) \cup {list[n + 1]}
          /\ IsInjective(f[n]) /\ list[n + 1] \notin ToSet(f[n])
                => IsInjective(Append(f[n], list[n + 1]))
      BY <2>3, <3>2, AppendFacts
    <3>4. IsInjective(list) => list[n + 1] \notin {list[i] : i \in 1 .. n}
      <4>1. \A i \in 1 .. n : i \in DOMAIN list /\ i # n + 1
        BY <1>1, <2>1, <2>3
      <4>. QED
        BY <1>1, <2>3, <4>1 DEF IsInjective
    <3>. QED
      BY <2>2, <2>4, <2>6, <3>1, <3>3, <3>4
  <2>. QED
    BY <2>5, <2>6
<1>9. Q \in SUBSET Nat
  OBVIOUS
<1>. HIDE DEF Q
<1>10. Q = Nat
  BY <1>7, <1>8, <1>9, Induction
<1>11. P(Len(list))
  <2>1. Len(list) \in Q
    BY <1>1, <1>10
  <2>2. Len(list) <= Len(list)
    BY <1>1
  <2>. QED
    BY <2>1, <2>2 DEF Q
<1>12. {list[i] : i \in 1 .. Len(list)} = ToSet(list)
  BY <1>1 DEF ToSet
<1>. QED
  BY <1>2, <1>11, <1>12

\* Nothing is lost or doubled when the front of a list goes to its end.
LEMMA RotatedFacts ==
    ASSUME NEW T, NEW list \in Seq(T), list # <<>>
    PROVE  /\ Rotated(list) \in Seq(T)
           /\ ToSet(Rotated(list)) = ToSet(list)
           /\ IsInjective(list) => IsInjective(Rotated(list))
           /\ Head(list) \in ToSet(list)
<1>1. PICK n \in Nat : n = Len(list)
  BY LenProperties
<1>2. n # 0 /\ DOMAIN list = 1 .. n
  BY <1>1, EmptySeq, LenProperties
<1>3. /\ Head(list) \in T /\ Head(list) = list[1]
      /\ Tail(list) \in Seq(T) /\ Len(Tail(list)) = n - 1
      /\ \A i \in 1 .. n - 1 : Tail(list)[i] = list[i + 1]
  BY <1>1, HeadTailProperties
<1>4. DOMAIN Tail(list) = 1 .. n - 1
  BY <1>3, LenProperties
<1>5. /\ Rotated(list) \in Seq(T)
      /\ ToSet(Rotated(list)) = ToSet(Tail(list)) \cup {list[1]}
      /\ IsInjective(Tail(list)) /\ list[1] \notin ToSet(Tail(list)) => IsInjective(Rotated(list))
  <2>1. PICK u \in Seq(T), e \in T : u = Tail(list) /\ e = list[1]
    BY <1>3
  <2>2. Rotated(list) = Append(u, e)
    BY <1>3, <2>1 DEF Rotated
  <2>3. /\ Append(u, e) \in Seq(T)
        /\ ToSet(Append(u, e)) = ToSet(u) \cup {e}
        /\ IsInjective(u) /\ e \notin ToSet(u) => IsInjective(Append(u, e))
    BY AppendFacts
  <2>. QED
    BY <2>1, <2>2, <2>3
<1>6. ToSet(Tail(list)) = {list[i] : i \in 2 .. n}
  <2>1. \A i \in 1 .. n - 1 : i + 1 \in 2 .. n
    BY <1>2
  <2>2. \A i \in 2 .. n : i - 1 \in 1 .. n - 1 /\ (i - 1) + 1 = i
    BY <1>2
  <2>3. \A i \in 2 .. n : list[i] = Tail(list)[i - 1]
    BY <1>3, <2>2
  <2>4. ToSet(Tail(list)) = {Tail(list)[i] : i \in 1 .. n - 1}
    BY <1>4 DEF ToSet
  <2>5. \A i \in 1 .. n - 1 : Tail(list)[i] \in {list[j] : j \in 2 .. n}
    BY <1>3, <2>1
  <2>6. \A i \in 2 .. n : list[i] \in {Tail(list)[j] : j \in 1 .. n - 1}
    BY <2>2, <2>3
  <2>. QED
    BY <2>4, <2>5, <2>6
<1>7. ToSet(list) = {list[i] : i \in 2 .. n} \cup {list[1]}
  <2>1. 1 .. n = 2 .. n \cup {1}
    BY <1>2
  <2>. QED
    BY <1>2, <2>1 DEF ToSet
<1>8. ASSUME IsInjective(list) PROVE IsInjective(Tail(list)) /\ list[1] \notin ToSet(Tail(list))
  <2>1. \A i, j \in 1 .. n : list[i] = list[j] => i = j
    BY <1>2, <1>8 DEF IsInjective
  <2>2. \A i, j \in 1 .. n - 1 : i + 1 \in 1 .. n /\ j + 1 \in 1 .. n /\ (i + 1 = j + 1 => i = j)
    BY <1>2
  <2>3. IsInjective(Tail(list))
    BY <1>3, <1>4, <2>1, <2>2 DEF IsInjective
  <2>4. \A i \in 2 .. n : i \in 1 .. n /\ i # 1 /\ 1 \in 1 .. n
    BY <1>2
  <2>. QED
    BY <1>6, <2>1, <2>3, <2>4
<1>. QED
  BY <1>3, <1>5, <1>6, <1>7, <1>8

\* The elements of two lists in one.
LEMMA ConcatFacts ==
    ASSUME NEW T, NEW a \in Seq(T), NEW b \in Seq(T), NEW n, n = Len(a), NEW l, l = Len(b),
           NEW ab, ab = a \o b
    PROVE  /\ ab \in Seq(T) /\ DOMAIN ab = 1 .. n + l /\ DOMAIN a = 1 .. n
           /\ \A i \in 1 .. n : ab[i] = a[i]
           /\ \A i \in 1 .. n + l : i > n => ab[i] = b[i - n]
<1>1. /\ ab \in Seq(T) /\ Len(ab) = n + l
      /\ \A i \in 1 .. n + l : ab[i] = IF i <= n THEN a[i] ELSE b[i - n]
  BY ConcatProperties
<1>2. n \in Nat /\ l \in Nat /\ DOMAIN ab = 1 .. Len(ab) /\ DOMAIN a = 1 .. n
  BY <1>1, LenProperties
<1>. QED
  BY <1>1, <1>2

\* Two lists of different things are one without repetitions.
LEMMA ConcatInjective ==
    ASSUME NEW T, NEW a \in Seq(T), NEW b \in Seq(T), IsInjective(a), IsInjective(b),
           ToSet(a) \cap ToSet(b) = {}
    PROVE  IsInjective(a \o b)
<1>1. PICK k \in Nat, l \in Nat : k = Len(a) /\ l = Len(b)
  BY LenProperties
<1>2. /\ DOMAIN a = 1 .. k /\ DOMAIN b = 1 .. l /\ DOMAIN (a \o b) = 1 .. k + l
      /\ \A i \in 1 .. k + l : (a \o b)[i] = IF i <= k THEN a[i] ELSE b[i - k]
  BY <1>1, ConcatProperties, LenProperties
<1>3. SUFFICES ASSUME NEW i \in 1 .. k + l, NEW j \in 1 .. k + l, (a \o b)[i] = (a \o b)[j]
               PROVE  i = j
  BY <1>2 DEF IsInjective
<1>4. CASE i <= k /\ j <= k
  BY <1>2, <1>3, <1>4 DEF IsInjective
<1>5. CASE i > k /\ j > k
  <2>1. i - k \in 1 .. l /\ j - k \in 1 .. l
    BY <1>5
  <2>2. b[i - k] = b[j - k]
    BY <1>2, <1>3, <1>5
  <2>3. i - k = j - k
    BY <1>2, <2>1, <2>2 DEF IsInjective
  <2>. QED
    BY <2>3
<1>6. ASSUME NEW u \in 1 .. k + l, NEW v \in 1 .. k + l, u <= k, v > k,
             (a \o b)[u] = (a \o b)[v]
      PROVE  FALSE
  <2>1. u \in 1 .. k /\ v - k \in 1 .. l
    BY <1>6
  <2>2. a[u] = b[v - k]
    BY <1>2, <1>6
  <2>3. a[u] \in ToSet(a) /\ b[v - k] \in ToSet(b)
    BY <1>2, <2>1 DEF ToSet
  <2>. QED
    BY <2>2, <2>3
<1>7. ~(i <= k /\ j > k) /\ ~(j <= k /\ i > k)
  BY <1>3, <1>6
<1>8. (i <= k \/ i > k) /\ (j <= k \/ j > k)
  OBVIOUS
<1>. QED
  BY <1>4, <1>5, <1>7, <1>8

-----------------------------------------------------------------------------
(* What a method does, in terms of the invariant: five kinds of change          *)

\* The ids of a pool stay as they are.
SameIds(s, t) ==
    /\ DOMAIN t.pools = DOMAIN s.pools
    /\ \A p \in DOMAIN s.pools : /\ t.pools[p]._id = s.pools[p]._id
                                 /\ t.pools[p].conn_dec_id = s.pools[p].conn_dec_id
                                 /\ t.pools[p].conn_inc_id = s.pools[p].conn_inc_id

\* A connection is listed by one pool at most.
LEMMA ListedOnce ==
    ASSUME NEW s, NEW h, NEW x, Good(s, h, x), NEW p \in DOMAIN s.pools, NEW q \in DOMAIN s.pools,
           NEW c \in ListedIn(s.pools[p]), c \in ListedIn(s.pools[q])
    PROVE  p = q /\ c \in DOMAIN s.conns
<1>1. c \in DOMAIN s.conns
  BY DEF Good, SidesOK, ListedIn
<1>2. Belongs(s, c, p) /\ Belongs(s, c, q)
  BY <1>1 DEF Good, ExactOK
<1>. QED
  BY <1>1, <1>2 DEF Belongs, Good, IdsOK

\* Connections are made: they are not up, and know the pool they report to.
LEMMA MadeConns ==
    ASSUME NEW s, NEW t, NEW h, NEW x, Good(s, h, x), t \in State,
           t.uniqueID = s.uniqueID, t.invokers = s.invokers, t.poolList = s.poolList,
           t.pools = s.pools, DOMAIN s.conns \subseteq DOMAIN t.conns,
           \A c \in DOMAIN s.conns : t.conns[c] = s.conns[c],
           \A c \in DOMAIN t.conns \ DOMAIN s.conns :
               ~t.conns[c].conn_state /\ \E p \in DOMAIN s.pools : HomeOf(t, c, p)
    PROVE  Good(t, h, x)
<1>1. Shape(t, h) /\ IdsOK(t)
  BY DEF Good, Shape, IdsOK
<1>2. HomesOK(t)
  BY DEF Good, HomesOK, HomeOf
<1>3. SidesOK(t)
  BY DEF Good, SidesOK
<1>4. BusOK(t, h)
  BY DEF Good, BusOK, LiveIn, DecOf, IncOf
<1>5. ExactOK(t, h, x)
  <2>. SUFFICES ASSUME NEW p \in DOMAIN s.pools, NEW c \in DOMAIN t.conns
                PROVE  c \in ListedIn(s.pools[p]) <=>
                           c # x /\ LiveIn(t, h, p) /\ Belongs(t, c, p)
    BY DEF ExactOK
  <2>1. LiveIn(t, h, p) <=> LiveIn(s, h, p)
    BY DEF LiveIn
  <2>2. CASE c \in DOMAIN s.conns
    BY <2>1, <2>2 DEF Good, ExactOK, Belongs
  <2>3. CASE c \notin DOMAIN s.conns
    <3>1. ~Belongs(t, c, p)
      BY <2>3 DEF Belongs
    <3>2. c \notin ListedIn(s.pools[p])
      BY <2>3 DEF Good, SidesOK, ListedIn
    <3>. QED
      BY <3>1, <3>2
  <2>. QED
    BY <2>2, <2>3
<1>. QED
  BY <1>1, <1>2, <1>3, <1>4, <1>5 DEF Good

\* Lists are reordered.
LEMMA Reordered ==
    ASSUME NEW s, NEW t, NEW h, NEW x, Good(s, h, x), t \in State,
           t.uniqueID = s.uniqueID, t.invokers = s.invokers, t.conns = s.conns,
           ToSet(t.poolList) = ToSet(s.poolList), SameIds(s, t),
           \A p \in DOMAIN s.pools : /\ ToSet(t.pools[p].local) = ToSet(s.pools[p].local)
                                     /\ ToSet(t.pools[p].remote) = ToSet(s.pools[p].remote)
                                     /\ IsInjective(t.pools[p].local)
                                     /\ IsInjective(t.pools[p].remote)
    PROVE  Good(t, h, x)
<1>1. Shape(t, h) /\ IdsOK(t)
  BY DEF Good, Shape, IdsOK, SameIds
<1>2. HomesOK(t)
  BY DEF Good, HomesOK, HomeOf, SameIds
<1>3. SidesOK(t)
  BY DEF Good, SidesOK, SameIds
<1>4. BusOK(t, h)
  BY DEF Good, BusOK, LiveIn, DecOf, IncOf, SameIds
<1>5. ExactOK(t, h, x)
  BY DEF Good, ExactOK, LiveIn, Belongs, ListedIn, SameIds
<1>. QED
  BY <1>1, <1>2, <1>3, <1>4, <1>5 DEF Good

\* The connections out are lost or taken out, and leave the lists.
LEMMA TakenOut ==
    ASSUME NEW s, NEW t, NEW h, NEW out, Good(s, h, 0), t \in State,
           t.uniqueID = s.uniqueID, t.invokers = s.invokers, t.poolList = s.poolList,
           DOMAIN t.conns = DOMAIN s.conns, SameIds(s, t),
           \A c \in DOMAIN s.conns : /\ t.conns[c].info = s.conns[c].info
                                     /\ t.conns[c].conn_dec_id = s.conns[c].conn_dec_id
                                     /\ t.conns[c].conn_inc_id = s.conns[c].conn_inc_id,
           \A c \in DOMAIN s.conns : c \notin out => t.conns[c] = s.conns[c],
           \A c \in DOMAIN s.conns : c \in out => ~t.conns[c].conn_state \/ t.conns[c].dropped,
           \A p \in DOMAIN s.pools : /\ ToSet(t.pools[p].local) = ToSet(s.pools[p].local) \ out
                                     /\ ToSet(t.pools[p].remote) = ToSet(s.pools[p].remote) \ out
                                     /\ IsInjective(t.pools[p].local)
                                     /\ IsInjective(t.pools[p].remote)
    PROVE  Good(t, h, 0)
<1>1. Shape(t, h) /\ IdsOK(t)
  BY DEF Good, Shape, IdsOK, SameIds
<1>2. HomesOK(t)
  BY DEF Good, HomesOK, HomeOf, SameIds
<1>3. SidesOK(t)
  BY DEF Good, SidesOK, SameIds
<1>4. BusOK(t, h)
  BY DEF Good, BusOK, LiveIn, DecOf, IncOf, SameIds
<1>5. ExactOK(t, h, 0)
  <2>. SUFFICES ASSUME NEW p \in DOMAIN s.pools, NEW c \in DOMAIN s.conns
                PROVE  c \in ListedIn(t.pools[p]) <=>
                           c # 0 /\ LiveIn(t, h, p) /\ Belongs(t, c, p)
    BY DEF ExactOK, SameIds
  <2>1. LiveIn(t, h, p) <=> LiveIn(s, h, p)
    BY DEF LiveIn
  <2>2. c \in ListedIn(t.pools[p]) <=> c \in ListedIn(s.pools[p]) /\ c \notin out
    BY DEF ListedIn
  <2>3. CASE c \in out
    BY <2>2, <2>3 DEF Belongs
  <2>4. CASE c \notin out
    BY <2>1, <2>2, <2>4 DEF Good, ExactOK, Belongs, SameIds
  <2>. QED
    BY <2>3, <2>4
<1>. QED
  BY <1>1, <1>2, <1>3, <1>4, <1>5 DEF Good

\* The pools ps end, with their handlers; nobody refers to them any more.
LEMMA Ended ==
    ASSUME NEW s, NEW t, NEW h, NEW h2, NEW ps, Good(s, h, 0), t \in State,
           h2 \subseteq h, ToSet(t.poolList) \subseteq ToSet(s.poolList),
           t.uniqueID = s.uniqueID, t.conns = s.conns, SameIds(s, t),
           \A k : k \in t.invokers <=>
                      /\ k \in s.invokers
                      /\ \/ k.obj \notin ps
                         \/ k.id \notin {s.pools[k.obj].conn_inc_id, s.pools[k.obj].conn_dec_id},
           \A p \in DOMAIN s.pools :
               /\ p \notin ps => t.pools[p] = s.pools[p]
               /\ p \in ps => t.pools[p].local = <<>> /\ t.pools[p].remote = <<>>
               /\ LiveIn(t, h2, p) <=> LiveIn(s, h, p) /\ p \notin ps
    PROVE  Good(t, h2, 0)
<1>0. ToSet(<<>>) = {} /\ IsInjective(<<>>)
  <2>1. DOMAIN <<>> = {}
    OBVIOUS
  <2>. QED
    BY <2>1 DEF ToSet, IsInjective
<1>1. Shape(t, h2) /\ IdsOK(t)
  BY DEF Good, Shape, IdsOK, SameIds
<1>2. HomesOK(t)
  BY DEF Good, HomesOK, HomeOf, SameIds
<1>3. SidesOK(t)
  BY <1>0 DEF Good, SidesOK, SameIds
<1>4. BusOK(t, h2)
  <2>. SUFFICES ASSUME NEW k
                PROVE  k \in t.invokers <=> \E p \in DOMAIN s.pools :
                           LiveIn(t, h2, p) /\ (k = DecOf(t, p) \/ k = IncOf(t, p))
    BY DEF BusOK, SameIds
  <2>1. \A p \in DOMAIN s.pools : DecOf(t, p) = DecOf(s, p) /\ IncOf(t, p) = IncOf(s, p)
    BY DEF DecOf, IncOf, SameIds
  <2>2. \A p \in DOMAIN s.pools :
            /\ DecOf(s, p).obj = p /\ IncOf(s, p).obj = p
            /\ DecOf(s, p).id = s.pools[p].conn_dec_id
            /\ IncOf(s, p).id = s.pools[p].conn_inc_id
    BY DEF DecOf, IncOf
  <2>3. k \in s.invokers <=> \E p \in DOMAIN s.pools :
            LiveIn(s, h, p) /\ (k = DecOf(s, p) \/ k = IncOf(s, p))
    BY DEF Good, BusOK
  <2>4. \A p \in DOMAIN s.pools : k = DecOf(s, p) \/ k = IncOf(s, p) =>
            k.obj = p /\ k.id \in {s.pools[k.obj].conn_inc_id, s.pools[k.obj].conn_dec_id}
    BY <2>2
  <2>5. k \in t.invokers <=> k \in s.invokers /\ k.obj \notin ps
    BY <2>3, <2>4
  <2>. QED
    BY <2>1, <2>3, <2>4, <2>5
<1>5. ExactOK(t, h2, 0)
  <2>. SUFFICES ASSUME NEW p \in DOMAIN s.pools, NEW c \in DOMAIN s.conns
                PROVE  c \in ListedIn(t.pools[p]) <=>
                           c # 0 /\ LiveIn(t, h2, p) /\ Belongs(t, c, p)
    BY DEF ExactOK, SameIds
  <2>1. CASE p \in ps
    BY <1>0, <2>1 DEF ListedIn
  <2>2. CASE p \notin ps
    BY <2>2 DEF Good, ExactOK, Belongs, SameIds
  <2>. QED
    BY <2>1, <2>2
<1>. QED
  BY <1>1, <1>2, <1>3, <1>4, <1>5 DEF Good

\* A connection comes up and is not listed yet.
LEMMA CameUp ==
    ASSUME NEW s, NEW t, NEW h, NEW c \in DOMAIN s.conns, Good(s, h, 0), t \in State,
           t.uniqueID = s.uniqueID, t.invokers = s.invokers, t.poolList = s.poolList,
           t.pools = s.pools, DOMAIN t.conns = DOMAIN s.conns,
           ~s.conns[c].conn_state,
           t.conns[c].info = s.conns[c].info,
           t.conns[c].conn_dec_id = s.conns[c].conn_dec_id,
           t.conns[c].conn_inc_id = s.conns[c].conn_inc_id,
           \A d \in DOMAIN s.conns : d # c => t.conns[d] = s.conns[d]
    PROVE  Good(t, h, c)
<1>1. Shape(t, h) /\ IdsOK(t)
  BY DEF Good, Shape, IdsOK
<1>2. HomesOK(t)
  BY DEF Good, HomesOK, HomeOf
<1>3. SidesOK(t)
  BY DEF Good, SidesOK
<1>4. BusOK(t, h)
  BY DEF Good, BusOK, LiveIn, DecOf, IncOf
<1>5. ExactOK(t, h, c)
  <2>. SUFFICES ASSUME NEW p \in DOMAIN s.pools, NEW d \in DOMAIN s.conns
                PROVE  d \in ListedIn(s.pools[p]) <=>
                           d # c /\ LiveIn(t, h, p) /\ Belongs(t, d, p)
    BY DEF ExactOK
  <2>1. LiveIn(t, h, p) <=> LiveIn(s, h, p)
    BY DEF LiveIn
  <2>2. d # 0
    BY DEF Good, Shape, State
  <2>3. CASE d = c
    BY <2>3 DEF Good, ExactOK, Belongs
  <2>4. CASE d # c
    BY <2>1, <2>2, <2>4 DEF Good, ExactOK, Belongs
  <2>. QED
    BY <2>3, <2>4
<1>. QED
  BY <1>1, <1>2, <1>3, <1>4, <1>5 DEF Good

-----------------------------------------------------------------------------
(* The methods of a pool                                                        *)

\* The fields of the objects.
LEMMA Fields ==
    ASSUME NEW s, NEW h, Shape(s, h)
    PROVE  /\ s.uniqueID \in Nat /\ s.invokers \subseteq Handler
           /\ s.infoList \in Seq(Infos) /\ s.poolList \in Seq(Nat)
           /\ s.pools \in Seq(Pool) /\ s.conns \in Seq(Conn)
           /\ Len(s.pools) \in Nat /\ DOMAIN s.pools = 1 .. Len(s.pools)
           /\ Len(s.conns) \in Nat /\ DOMAIN s.conns = 1 .. Len(s.conns)
           /\ \A p \in DOMAIN s.pools : s.pools[p] \in Pool
           /\ \A c \in DOMAIN s.conns : s.conns[c] \in Conn
<1>1. /\ s.uniqueID \in Nat /\ s.invokers \subseteq Handler
      /\ s.infoList \in Seq(Infos) /\ s.poolList \in Seq(Nat)
      /\ s.pools \in Seq(Pool) /\ s.conns \in Seq(Conn)
  BY DEF Shape, State
<1>. QED
  BY <1>1, LenProperties, ElementOfSeq

\* A sequence with the same positions and other elements.
LEMMA SeqUpdate ==
    ASSUME NEW T, NEW a \in Seq(T), NEW b, DOMAIN b = DOMAIN a, b = [i \in DOMAIN a |-> b[i]],
           \A i \in DOMAIN a : b[i] \in T
    PROVE  b \in Seq(T)
<1>1. Len(a) \in Nat /\ DOMAIN a = 1 .. Len(a)
  BY LenProperties
<1>2. b \in [1 .. Len(a) -> T]
  BY <1>1
<1>. QED
  BY <1>1, <1>2, SeqDef

\* connOf makes a connection that is not up and reports to its pool.
LEMMA ConnOfFacts ==
    ASSUME NEW pool \in Pool, NEW info \in Infos
    PROVE  /\ connOf(pool, info) \in Conn
           /\ ~connOf(pool, info).conn_state
           /\ connOf(pool, info).conn_dec_id = pool.conn_dec_id
           /\ connOf(pool, info).conn_inc_id = pool.conn_inc_id
BY DEF connOf, Pool, Conn

\* add_conn with an info.
LEMMA AddInfoGood ==
    ASSUME NEW s, NEW h, Good(s, h, 0), NEW p \in DOMAIN s.pools, NEW info \in Infos
    PROVE  Good(poolAddInfo(s, p, info), h, 0)
<1>1. PICK t : t = poolAddInfo(s, p, info)
  OBVIOUS
<1>2. PICK k \in Conn : k = connOf(s.pools[p], info)
  BY Fields, ConnOfFacts DEF Good
<1>3. s \in State /\ s.conns \in Seq(Conn) /\ s.pools[p] \in Pool
      /\ Len(s.conns) \in Nat /\ DOMAIN s.conns = 1 .. Len(s.conns)
  BY Fields DEF Good, Shape
<1>4. /\ t = [s EXCEPT !.conns = Append(s.conns, k)]
      /\ Append(s.conns, k) \in Seq(Conn)
  BY <1>1, <1>2, <1>3, AppendProperties DEF poolAddInfo
<1>5. /\ t \in State /\ t.conns = Append(s.conns, k)
      /\ t.uniqueID = s.uniqueID /\ t.invokers = s.invokers /\ t.poolList = s.poolList
      /\ t.pools = s.pools
  BY <1>3, <1>4 DEF State
<1>6. /\ DOMAIN t.conns = 1 .. Len(s.conns) + 1
      /\ \A c \in 1 .. Len(s.conns) : t.conns[c] = s.conns[c]
      /\ t.conns[Len(s.conns) + 1] = k
  BY <1>3, <1>5, AppendProperties, LenProperties
<1>7. \A c \in DOMAIN t.conns \ DOMAIN s.conns :
          ~t.conns[c].conn_state /\ HomeOf(t, c, p)
  <2>1. ~k.conn_state /\ k.conn_dec_id = s.pools[p].conn_dec_id
        /\ k.conn_inc_id = s.pools[p].conn_inc_id
    BY <1>2, <1>3, ConnOfFacts
  <2>2. \A c \in DOMAIN t.conns \ DOMAIN s.conns : c = Len(s.conns) + 1
    BY <1>3, <1>6
  <2>. QED
    BY <1>5, <1>6, <2>1, <2>2 DEF HomeOf
<1>8. DOMAIN s.conns \subseteq DOMAIN t.conns /\ \A c \in DOMAIN s.conns : t.conns[c] = s.conns[c]
  BY <1>3, <1>6
<1>. QED
  BY <1>1, <1>5, <1>7, <1>8, MadeConns

\* Pool p has other lists.
Relisted(s, p, l, r) ==
    [s EXCEPT !.pools = [s.pools EXCEPT ![p] = [s.pools[p] EXCEPT !.local = l, !.remote = r]]]

\* The fields of what results.
LEMMA PoolUpdate ==
    ASSUME NEW s, NEW h, Shape(s, h), NEW p \in DOMAIN s.pools, NEW l \in Seq(Nat), NEW r \in Seq(Nat),
           NEW t, t = Relisted(s, p, l, r)
    PROVE  /\ t \in State /\ SameIds(s, t)
           /\ t.uniqueID = s.uniqueID /\ t.invokers = s.invokers /\ t.poolList = s.poolList
           /\ t.conns = s.conns
           /\ t.pools[p].local = l /\ t.pools[p].remote = r
           /\ \A q \in DOMAIN s.pools : q # p => t.pools[q] = s.pools[q]
<1>1. PICK u : u = [s.pools[p] EXCEPT !.local = l, !.remote = r]
  OBVIOUS
<1>2. s.pools \in Seq(Pool) /\ s.pools[p] \in Pool /\ DOMAIN s.pools = 1 .. Len(s.pools)
  BY Fields
<1>3. /\ u \in Pool /\ u.local = l /\ u.remote = r
      /\ u._id = s.pools[p]._id /\ u.conn_dec_id = s.pools[p].conn_dec_id
      /\ u.conn_inc_id = s.pools[p].conn_inc_id
  BY <1>1, <1>2 DEF Pool
<1>4. [s.pools EXCEPT ![p] = u] \in Seq(Pool)
  BY <1>2, <1>3, ExceptSeq
<1>5. t = [s EXCEPT !.pools = [s.pools EXCEPT ![p] = u]]
  BY <1>1 DEF Relisted
<1>6. /\ t \in State /\ t.pools = [s.pools EXCEPT ![p] = u]
      /\ t.uniqueID = s.uniqueID /\ t.invokers = s.invokers /\ t.poolList = s.poolList
      /\ t.conns = s.conns
  BY <1>4, <1>5 DEF Shape, State
<1>7. /\ DOMAIN t.pools = DOMAIN s.pools /\ t.pools[p] = u
      /\ \A q \in DOMAIN s.pools : q # p => t.pools[q] = s.pools[q]
  BY <1>6
<1>8. SameIds(s, t)
  BY <1>3, <1>7 DEF SameIds
<1>. QED
  BY <1>3, <1>6, <1>7, <1>8

\* The same where only one of the lists is named.
WithLocal(s, p, l) == [s EXCEPT !.pools[p].local = l]
WithRemote(s, p, r) == [s EXCEPT !.pools[p].remote = r]

\* Both are of that form.
LEMMA OneList ==
    ASSUME NEW s, NEW h, Shape(s, h), NEW p \in DOMAIN s.pools, NEW l
    PROVE  /\ WithLocal(s, p, l) = Relisted(s, p, l, s.pools[p].remote)
           /\ WithRemote(s, p, l) = Relisted(s, p, s.pools[p].local, l)
<1>1. PICK u : u = s.pools[p]
  OBVIOUS
<1>2. u \in Pool
  BY <1>1, Fields
<1>3. /\ [u EXCEPT !.local = l] = [u EXCEPT !.local = l, !.remote = u.remote]
      /\ [u EXCEPT !.remote = l] = [u EXCEPT !.local = u.local, !.remote = l]
  BY <1>2 DEF Pool
<1>4. /\ [s EXCEPT !.pools[p].local = l] =
             [s EXCEPT !.pools = [s.pools EXCEPT ![p] = [u EXCEPT !.local = l]]]
      /\ [s EXCEPT !.pools[p].remote = l] =
             [s EXCEPT !.pools = [s.pools EXCEPT ![p] = [u EXCEPT !.remote = l]]]
  BY <1>1
<1>. QED
  BY <1>1, <1>3, <1>4 DEF Relisted, WithLocal, WithRemote

\* add_conn with a connection, which puts the one that came up into its list.
LEMMA AddConnGood ==
    ASSUME NEW s, NEW h, NEW c \in DOMAIN s.conns, NEW p \in DOMAIN s.pools,
           Good(s, h, c), LiveIn(s, h, p), Belongs(s, c, p)
    PROVE  Good(poolAddConn(s, p, c), h, 0)
<1>1. PICK t : t = poolAddConn(s, p, c)
  OBVIOUS
<1>2. /\ s \in State /\ s.pools \in Seq(Pool) /\ s.pools[p] \in Pool
      /\ DOMAIN s.conns \subseteq Nat \ {0} /\ c \in Nat
  <2>1. Shape(s, h) /\ s \in State
    BY DEF Good, Shape
  <2>2. /\ s.pools \in Seq(Pool) /\ s.pools[p] \in Pool
        /\ Len(s.conns) \in Nat /\ DOMAIN s.conns = 1 .. Len(s.conns)
    BY <2>1, Fields
  <2>. QED
    BY <2>1, <2>2
<1>3. /\ s.pools[p].local \in Seq(Nat) /\ s.pools[p].remote \in Seq(Nat)
  BY <1>2 DEF Pool
<1>4. c \notin ListedIn(s.pools[p]) /\ \A q \in DOMAIN s.pools : c \notin ListedIn(s.pools[q])
  BY DEF Good, ExactOK
<1>5. PICK l \in Seq(Nat), r \in Seq(Nat) :
          /\ l = IF s.conns[c].info \in Local THEN Append(s.pools[p].local, c) ELSE s.pools[p].local
          /\ r = IF s.conns[c].info \in Local THEN s.pools[p].remote ELSE Append(s.pools[p].remote, c)
  BY <1>2, <1>3, AppendFacts
<1>8. t = Relisted(s, p, l, r)
  <2>1. Shape(s, h)
    BY DEF Good
  <2>2. CASE s.conns[c].info \in Local
    <3>1. t = WithLocal(s, p, l)
      BY <1>1, <1>5, <2>2 DEF poolAddConn, WithLocal
    <3>2. r = s.pools[p].remote
      BY <1>5, <2>2
    <3>. QED
      BY <2>1, <3>1, <3>2, OneList
  <2>3. CASE s.conns[c].info \notin Local
    <3>1. t = WithRemote(s, p, r)
      BY <1>1, <1>5, <2>3 DEF poolAddConn, WithRemote
    <3>2. l = s.pools[p].local
      BY <1>5, <2>3
    <3>. QED
      BY <2>1, <3>1, <3>2, OneList
  <2>. QED
    BY <2>2, <2>3
<1>10. /\ t \in State /\ SameIds(s, t)
       /\ t.uniqueID = s.uniqueID /\ t.invokers = s.invokers /\ t.poolList = s.poolList
       /\ t.conns = s.conns
       /\ t.pools[p].local = l /\ t.pools[p].remote = r
       /\ \A q \in DOMAIN s.pools : q # p => t.pools[q] = s.pools[q]
  <2>1. Shape(s, h)
    BY DEF Good
  <2>. QED
    BY <1>8, <2>1, PoolUpdate
<1>11. PICK u : u = t.pools[p]
  OBVIOUS
<1>12. SameIds(s, t) /\ DOMAIN t.pools = DOMAIN s.pools
  BY <1>10 DEF SameIds
<1>13. Shape(t, h) /\ IdsOK(t)
  BY <1>10, <1>12 DEF Good, Shape, IdsOK, SameIds
<1>14. HomesOK(t)
  BY <1>10, <1>12 DEF Good, HomesOK, HomeOf, SameIds
<1>15. BusOK(t, h)
  <2>1. \A q \in DOMAIN s.pools : DecOf(t, q) = DecOf(s, q) /\ IncOf(t, q) = IncOf(s, q)
    BY <1>12 DEF DecOf, IncOf, SameIds
  <2>2. \A q : LiveIn(t, h, q) <=> LiveIn(s, h, q)
    BY <1>10 DEF LiveIn
  <2>. QED
    BY <1>10, <1>12, <2>1, <2>2 DEF Good, BusOK
<1>16. /\ ToSet(u.local) \cup ToSet(u.remote) = ListedIn(s.pools[p]) \cup {c}
       /\ IsInjective(u.local) /\ IsInjective(u.remote)
       /\ \A d \in ToSet(u.local) : d \in DOMAIN s.conns /\ s.conns[d].info \in Local
       /\ \A d \in ToSet(u.remote) : d \in DOMAIN s.conns /\ s.conns[d].info \notin Local
  <2>1. /\ IsInjective(s.pools[p].local) /\ IsInjective(s.pools[p].remote)
        /\ \A d \in ToSet(s.pools[p].local) : d \in DOMAIN s.conns /\ s.conns[d].info \in Local
        /\ \A d \in ToSet(s.pools[p].remote) : d \in DOMAIN s.conns /\ s.conns[d].info \notin Local
    BY DEF Good, SidesOK
  <2>2. CASE s.conns[c].info \in Local
    <3>1. u.local = Append(s.pools[p].local, c) /\ u.remote = s.pools[p].remote
      BY <1>5, <1>10, <1>11, <2>2
    <3>2. /\ ToSet(u.local) = ToSet(s.pools[p].local) \cup {c}
          /\ IsInjective(u.local)
      BY <1>2, <1>3, <1>4, <2>1, <3>1, AppendFacts DEF ListedIn
    <3>. QED
      BY <2>1, <2>2, <3>1, <3>2 DEF ListedIn
  <2>3. CASE s.conns[c].info \notin Local
    <3>1. u.remote = Append(s.pools[p].remote, c) /\ u.local = s.pools[p].local
      BY <1>5, <1>10, <1>11, <2>3
    <3>2. /\ ToSet(u.remote) = ToSet(s.pools[p].remote) \cup {c}
          /\ IsInjective(u.remote)
      BY <1>2, <1>3, <1>4, <2>1, <3>1, AppendFacts DEF ListedIn
    <3>. QED
      BY <2>1, <2>3, <3>1, <3>2 DEF ListedIn
  <2>. QED
    BY <2>2, <2>3
<1>17. SidesOK(t)
  BY <1>10, <1>11, <1>12, <1>16 DEF Good, SidesOK
<1>18. ExactOK(t, h, 0)
  <2>. SUFFICES ASSUME NEW q \in DOMAIN s.pools, NEW d \in DOMAIN s.conns
                PROVE  d \in ListedIn(t.pools[q]) <=> d # 0 /\ LiveIn(t, h, q) /\ Belongs(t, d, q)
    BY <1>10, <1>12 DEF ExactOK
  <2>1. (LiveIn(t, h, q) <=> LiveIn(s, h, q)) /\ (Belongs(t, d, q) <=> Belongs(s, d, q))
    BY <1>10, <1>12 DEF LiveIn, Belongs, SameIds
  <2>2. d # 0
    BY <1>2
  <2>3. d \in ListedIn(s.pools[q]) <=> d # c /\ LiveIn(s, h, q) /\ Belongs(s, d, q)
    BY DEF Good, ExactOK
  <2>4. CASE q = p
    <3>1. d \in ListedIn(t.pools[q]) <=> d \in ListedIn(s.pools[p]) \/ d = c
      BY <1>11, <1>16, <2>4 DEF ListedIn
    <3>. QED
      BY <2>1, <2>2, <2>3, <2>4, <3>1
  <2>5. CASE q # p
    <3>1. t.pools[q] = s.pools[q]
      BY <1>10, <2>5
    <3>2. ~Belongs(s, c, q)
      BY <2>5 DEF Belongs, Good, IdsOK
    <3>. QED
      BY <2>1, <2>2, <2>3, <3>1, <3>2
  <2>. QED
    BY <2>4, <2>5
<1>. QED
  BY <1>1, <1>13, <1>14, <1>15, <1>17, <1>18 DEF Good

\* get_conn turns a list.
LEMMA GetConnGood ==
    ASSUME NEW s, NEW h, Good(s, h, 0), NEW p \in DOMAIN s.pools
    PROVE  Good(poolGetConn(s, p).s, h, 0)
<1>1. Shape(s, h)
  BY DEF Good
<1>2. PICK a \in Seq(Nat), b \in Seq(Nat) : a = s.pools[p].local /\ b = s.pools[p].remote
  BY <1>1, Fields DEF Pool
<1>3. IsInjective(a) /\ IsInjective(b)
  BY <1>2 DEF Good, SidesOK
<1>4. ASSUME NEW l \in Seq(Nat), NEW r \in Seq(Nat), ToSet(l) = ToSet(a), ToSet(r) = ToSet(b),
             IsInjective(l), IsInjective(r), NEW t,
             t = Relisted(s, p, l, r)
      PROVE  Good(t, h, 0)
  <2>1. /\ t \in State /\ SameIds(s, t)
        /\ t.uniqueID = s.uniqueID /\ t.invokers = s.invokers /\ t.poolList = s.poolList
        /\ t.conns = s.conns
        /\ t.pools[p].local = l /\ t.pools[p].remote = r
        /\ \A q \in DOMAIN s.pools : q # p => t.pools[q] = s.pools[q]
    BY <1>1, <1>4, PoolUpdate
  <2>2. \A q \in DOMAIN s.pools : IsInjective(s.pools[q].local) /\ IsInjective(s.pools[q].remote)
    BY DEF Good, SidesOK
  <2>3. \A q \in DOMAIN s.pools : /\ ToSet(t.pools[q].local) = ToSet(s.pools[q].local)
                                  /\ ToSet(t.pools[q].remote) = ToSet(s.pools[q].remote)
                                  /\ IsInjective(t.pools[q].local)
                                  /\ IsInjective(t.pools[q].remote)
    BY <1>2, <1>4, <2>1, <2>2
  <2>. QED
    BY <2>1, <2>3, Reordered
<1>5. CASE a # <<>>
  <2>1. poolGetConn(s, p).s = WithLocal(s, p, Rotated(a))
    BY <1>2, <1>5 DEF poolGetConn, WithLocal
  <2>2. poolGetConn(s, p).s = Relisted(s, p, Rotated(a), b)
    BY <1>1, <1>2, <2>1, OneList
  <2>3. Rotated(a) \in Seq(Nat) /\ ToSet(Rotated(a)) = ToSet(a) /\ IsInjective(Rotated(a))
    BY <1>3, <1>5, RotatedFacts
  <2>. QED
    BY <1>3, <1>4, <2>2, <2>3
<1>6. CASE a = <<>> /\ b # <<>>
  <2>1. poolGetConn(s, p).s = WithRemote(s, p, Rotated(b))
    BY <1>2, <1>6 DEF poolGetConn, WithRemote
  <2>2. poolGetConn(s, p).s = Relisted(s, p, a, Rotated(b))
    BY <1>1, <1>2, <2>1, OneList
  <2>3. Rotated(b) \in Seq(Nat) /\ ToSet(Rotated(b)) = ToSet(b) /\ IsInjective(Rotated(b))
    BY <1>3, <1>6, RotatedFacts
  <2>. QED
    BY <1>3, <1>4, <2>2, <2>3
<1>7. CASE a = <<>> /\ b = <<>>
  BY <1>2, <1>7 DEF poolGetConn
<1>. QED
  BY <1>5, <1>6, <1>7

\* The states that onDisconnected and onConnected report from.
Down(s, c) == [s EXCEPT !.conns[c].conn_state = FALSE]
Up(s, c) == [s EXCEPT !.conns[c].conn_state = TRUE, !.conns[c].dropped = FALSE]

\* The fields of what results.
LEMMA DownFacts ==
    ASSUME NEW s, NEW h, Shape(s, h), NEW c \in DOMAIN s.conns,
           NEW t, t = Down(s, c)
    PROVE  /\ Shape(t, h)
           /\ t.uniqueID = s.uniqueID /\ t.invokers = s.invokers /\ t.poolList = s.poolList
           /\ t.pools = s.pools /\ DOMAIN t.conns = DOMAIN s.conns
           /\ \A d \in DOMAIN s.conns : d # c => t.conns[d] = s.conns[d]
           /\ ~t.conns[c].conn_state
           /\ t.conns[c].info = s.conns[c].info
           /\ t.conns[c].pool_index = s.conns[c].pool_index
           /\ t.conns[c].conn_dec_id = s.conns[c].conn_dec_id
           /\ t.conns[c].conn_inc_id = s.conns[c].conn_inc_id
<1>1. PICK k : k = [s.conns[c] EXCEPT !.conn_state = FALSE]
  OBVIOUS
<1>2. s.conns \in Seq(Conn) /\ s.conns[c] \in Conn /\ DOMAIN s.conns = 1 .. Len(s.conns)
  BY Fields
<1>3. /\ k \in Conn /\ ~k.conn_state /\ k.info = s.conns[c].info
      /\ k.pool_index = s.conns[c].pool_index
      /\ k.conn_dec_id = s.conns[c].conn_dec_id /\ k.conn_inc_id = s.conns[c].conn_inc_id
  BY <1>1, <1>2 DEF Conn
<1>4. [s.conns EXCEPT ![c] = k] \in Seq(Conn)
  BY <1>2, <1>3, ExceptSeq
<1>5. t = [s EXCEPT !.conns = [s.conns EXCEPT ![c] = k]]
  BY <1>1 DEF Down
<1>6. /\ t \in State /\ t.conns = [s.conns EXCEPT ![c] = k]
      /\ t.uniqueID = s.uniqueID /\ t.invokers = s.invokers /\ t.poolList = s.poolList
      /\ t.pools = s.pools
  BY <1>4, <1>5 DEF Shape, State
<1>7. /\ DOMAIN t.conns = DOMAIN s.conns /\ t.conns[c] = k
      /\ \A d \in DOMAIN s.conns : d # c => t.conns[d] = s.conns[d]
  BY <1>6
<1>. QED
  BY <1>3, <1>6, <1>7 DEF Shape

\* The same for a connection that comes up.
LEMMA UpFacts ==
    ASSUME NEW s, NEW h, Shape(s, h), NEW c \in DOMAIN s.conns,
           NEW t, t = Up(s, c)
    PROVE  /\ Shape(t, h)
           /\ t.uniqueID = s.uniqueID /\ t.invokers = s.invokers /\ t.poolList = s.poolList
           /\ t.pools = s.pools /\ DOMAIN t.conns = DOMAIN s.conns
           /\ \A d \in DOMAIN s.conns : d # c => t.conns[d] = s.conns[d]
           /\ t.conns[c].conn_state /\ ~t.conns[c].dropped
           /\ t.conns[c].info = s.conns[c].info
           /\ t.conns[c].pool_index = s.conns[c].pool_index
           /\ t.conns[c].conn_dec_id = s.conns[c].conn_dec_id
           /\ t.conns[c].conn_inc_id = s.conns[c].conn_inc_id
<1>1. PICK k : k = [s.conns[c] EXCEPT !.conn_state = TRUE, !.dropped = FALSE]
  OBVIOUS
<1>2. s.conns \in Seq(Conn) /\ s.conns[c] \in Conn /\ DOMAIN s.conns = 1 .. Len(s.conns)
  BY Fields
<1>3. /\ k \in Conn /\ k.conn_state /\ ~k.dropped /\ k.info = s.conns[c].info
      /\ k.pool_index = s.conns[c].pool_index
      /\ k.conn_dec_id = s.conns[c].conn_dec_id /\ k.conn_inc_id = s.conns[c].conn_inc_id
  BY <1>1, <1>2 DEF Conn
<1>4. [s.conns EXCEPT ![c] = k] \in Seq(Conn)
  BY <1>2, <1>3, ExceptSeq
<1>5. t = [s EXCEPT !.conns = [s.conns EXCEPT ![c] = k]]
  BY <1>1, <1>2 DEF Shape, State, Up
<1>6. /\ t \in State /\ t.conns = [s.conns EXCEPT ![c] = k]
      /\ t.uniqueID = s.uniqueID /\ t.invokers = s.invokers /\ t.poolList = s.poolList
      /\ t.pools = s.pools
  BY <1>4, <1>5 DEF Shape, State
<1>7. /\ DOMAIN t.conns = DOMAIN s.conns /\ t.conns[c] = k
      /\ \A d \in DOMAIN s.conns : d # c => t.conns[d] = s.conns[d]
  BY <1>6
<1>. QED
  BY <1>3, <1>6, <1>7 DEF Shape

\* A connection that no pool lists is lost.
LEMMA LostUnlisted ==
    ASSUME NEW s, NEW h, Good(s, h, 0), NEW c \in DOMAIN s.conns,
           \A p \in DOMAIN s.pools : c \notin ListedIn(s.pools[p])
    PROVE  Good(Down(s, c), h, 0)
<1>1. PICK t : t = Down(s, c)
  OBVIOUS
<1>2. /\ Shape(t, h)
      /\ t.uniqueID = s.uniqueID /\ t.invokers = s.invokers /\ t.poolList = s.poolList
      /\ t.pools = s.pools /\ DOMAIN t.conns = DOMAIN s.conns
      /\ \A d \in DOMAIN s.conns : d # c => t.conns[d] = s.conns[d]
      /\ ~t.conns[c].conn_state
      /\ t.conns[c].info = s.conns[c].info
      /\ t.conns[c].conn_dec_id = s.conns[c].conn_dec_id
      /\ t.conns[c].conn_inc_id = s.conns[c].conn_inc_id
  BY <1>1, DownFacts DEF Good
<1>3. \A d \in DOMAIN s.conns : /\ t.conns[d].info = s.conns[d].info
                                /\ t.conns[d].conn_dec_id = s.conns[d].conn_dec_id
                                /\ t.conns[d].conn_inc_id = s.conns[d].conn_inc_id
  BY <1>2
<1>4. \A p \in DOMAIN s.pools : /\ ToSet(t.pools[p].local) = ToSet(s.pools[p].local) \ {c}
                                /\ ToSet(t.pools[p].remote) = ToSet(s.pools[p].remote) \ {c}
                                /\ IsInjective(t.pools[p].local)
                                /\ IsInjective(t.pools[p].remote)
  BY <1>2 DEF Good, SidesOK, ListedIn
<1>5. SameIds(s, t) /\ t \in State
  BY <1>2 DEF SameIds, Shape
<1>6. /\ \A d \in DOMAIN s.conns : d \notin {c} => t.conns[d] = s.conns[d]
      /\ \A d \in DOMAIN s.conns : d \in {c} => ~t.conns[d].conn_state \/ t.conns[d].dropped
      /\ t.uniqueID = s.uniqueID /\ t.invokers = s.invokers /\ t.poolList = s.poolList
      /\ DOMAIN t.conns = DOMAIN s.conns
  BY <1>2
<1>7. Good(t, h, 0)
  BY <1>3, <1>4, <1>5, <1>6, TakenOut
<1>. QED
  BY <1>1, <1>7

\* del_conn with a connection: the one that was lost leaves the lists of its pool.
LEMMA DelConnGood ==
    ASSUME NEW s, NEW h, Good(s, h, 0), NEW c \in DOMAIN s.conns, NEW p \in DOMAIN s.pools,
           HomeOf(s, c, p),
           NEW d, d = Down(s, c)
    PROVE  Good(poolDelConn(d, p, c), h, 0) /\ poolDelConn(d, p, c).pools[p]._id = s.pools[p]._id
<1>1. /\ Shape(d, h)
      /\ d.uniqueID = s.uniqueID /\ d.invokers = s.invokers /\ d.poolList = s.poolList
      /\ d.pools = s.pools /\ DOMAIN d.conns = DOMAIN s.conns
      /\ \A e \in DOMAIN s.conns : e # c => d.conns[e] = s.conns[e]
      /\ ~d.conns[c].conn_state
      /\ d.conns[c].info = s.conns[c].info
      /\ d.conns[c].conn_dec_id = s.conns[c].conn_dec_id
      /\ d.conns[c].conn_inc_id = s.conns[c].conn_inc_id
  BY DownFacts DEF Good
<1>2. PICK t : t = poolDelConn(d, p, c)
  OBVIOUS
<1>3. PICK a \in Seq(Nat), b \in Seq(Nat) : a = s.pools[p].local /\ b = s.pools[p].remote
  BY Fields DEF Pool, Good
<1>4. /\ IsInjective(a) /\ IsInjective(b)
      /\ \A e \in ToSet(a) : s.conns[e].info \in Local
      /\ \A e \in ToSet(b) : s.conns[e].info \notin Local
  BY <1>3 DEF Good, SidesOK
<1>5. PICK l \in Seq(Nat), r \in Seq(Nat) :
          /\ t = Relisted(d, p, l, r)
          /\ ToSet(l) = ToSet(a) \ {c} /\ ToSet(r) = ToSet(b) \ {c}
          /\ IsInjective(l) /\ IsInjective(r)
  <2>1. /\ Without(a, {c}) \in Seq(Nat) /\ ToSet(Without(a, {c})) = ToSet(a) \ {c}
        /\ IsInjective(Without(a, {c}))
        /\ Without(b, {c}) \in Seq(Nat) /\ ToSet(Without(b, {c})) = ToSet(b) \ {c}
        /\ IsInjective(Without(b, {c}))
    BY <1>4, WithoutFacts
  <2>0. Shape(d, h) /\ p \in DOMAIN d.pools /\ d.pools[p].local = a /\ d.pools[p].remote = b
    BY <1>1, <1>3
  <2>2. CASE s.conns[c].info \in Local
    <3>1. t = WithLocal(d, p, Without(a, {c}))
      BY <1>1, <1>2, <1>3, <2>2 DEF poolDelConn, WithLocal
    <3>2. t = Relisted(d, p, Without(a, {c}), b)
      BY <2>0, <3>1, OneList
    <3>3. ToSet(b) = ToSet(b) \ {c}
      BY <1>4, <2>2
    <3>. QED
      BY <1>4, <2>1, <3>2, <3>3
  <2>3. CASE s.conns[c].info \notin Local
    <3>1. t = WithRemote(d, p, Without(b, {c}))
      BY <1>1, <1>2, <1>3, <2>3 DEF poolDelConn, WithRemote
    <3>2. t = Relisted(d, p, a, Without(b, {c}))
      BY <2>0, <3>1, OneList
    <3>3. ToSet(a) = ToSet(a) \ {c}
      BY <1>4, <2>3
    <3>. QED
      BY <1>4, <2>1, <3>2, <3>3
  <2>. QED
    BY <2>2, <2>3
<1>6. /\ t \in State /\ SameIds(d, t)
      /\ t.uniqueID = d.uniqueID /\ t.invokers = d.invokers /\ t.poolList = d.poolList
      /\ t.conns = d.conns
      /\ t.pools[p].local = l /\ t.pools[p].remote = r
      /\ \A q \in DOMAIN d.pools : q # p => t.pools[q] = d.pools[q]
  <2>1. Shape(d, h) /\ p \in DOMAIN d.pools /\ t = Relisted(d, p, l, r)
    BY <1>1, <1>5
  <2>. QED
    BY <2>1, PoolUpdate
<1>7. SameIds(s, t)
  BY <1>1, <1>6 DEF SameIds
<1>8. \A e \in DOMAIN s.conns : /\ t.conns[e].info = s.conns[e].info
                                /\ t.conns[e].conn_dec_id = s.conns[e].conn_dec_id
                                /\ t.conns[e].conn_inc_id = s.conns[e].conn_inc_id
  BY <1>1, <1>6
<1>9. \A q \in DOMAIN s.pools : q # p => c \notin ListedIn(s.pools[q])
  BY DEF Good, ExactOK, Belongs, HomeOf, IdsOK
<1>10. \A q \in DOMAIN s.pools : /\ ToSet(t.pools[q].local) = ToSet(s.pools[q].local) \ {c}
                                 /\ ToSet(t.pools[q].remote) = ToSet(s.pools[q].remote) \ {c}
                                 /\ IsInjective(t.pools[q].local)
                                 /\ IsInjective(t.pools[q].remote)
  <2>. SUFFICES ASSUME NEW q \in DOMAIN s.pools
                PROVE  /\ ToSet(t.pools[q].local) = ToSet(s.pools[q].local) \ {c}
                       /\ ToSet(t.pools[q].remote) = ToSet(s.pools[q].remote) \ {c}
                       /\ IsInjective(t.pools[q].local)
                       /\ IsInjective(t.pools[q].remote)
    OBVIOUS
  <2>1. CASE q = p
    BY <1>3, <1>5, <1>6, <2>1
  <2>2. CASE q # p
    <3>1. t.pools[q] = s.pools[q]
      BY <1>1, <1>6, <2>2
    <3>2. IsInjective(s.pools[q].local) /\ IsInjective(s.pools[q].remote)
      BY DEF Good, SidesOK
    <3>3. c \notin ToSet(s.pools[q].local) /\ c \notin ToSet(s.pools[q].remote)
      BY <1>9, <2>2 DEF ListedIn
    <3>. QED
      BY <3>1, <3>2, <3>3
  <2>. QED
    BY <2>1, <2>2
<1>11. /\ \A e \in DOMAIN s.conns : e \notin {c} => t.conns[e] = s.conns[e]
       /\ \A e \in DOMAIN s.conns : e \in {c} => ~t.conns[e].conn_state \/ t.conns[e].dropped
       /\ t.uniqueID = s.uniqueID /\ t.invokers = s.invokers /\ t.poolList = s.poolList
       /\ DOMAIN t.conns = DOMAIN s.conns
  BY <1>1, <1>6
<1>12. Good(t, h, 0)
  BY <1>6, <1>7, <1>8, <1>10, <1>11, TakenOut
<1>. QED
  BY <1>2, <1>7, <1>12 DEF SameIds

\* del_conn with an info, in the pools ps.
LEMMA DelInfoGood ==
    ASSUME NEW s, NEW h, Good(s, h, 0), NEW ps, ps \subseteq DOMAIN s.pools, NEW info
    PROVE  Good(poolsDelInfo(s, ps, info), h, 0)
<1>1. PICK t : t = poolsDelInfo(s, ps, info)
  OBVIOUS
<1>2. PICK named : named = {c \in DOMAIN s.conns : s.conns[c].info = info}
  OBVIOUS
<1>3. PICK out : out = {c \in named : \E p \in ps : c \in ListedIn(s.pools[p])}
  OBVIOUS
<1>4. PICK C : C = [c \in DOMAIN s.conns |->
                      IF c \in out THEN [s.conns[c] EXCEPT !.dropped = TRUE] ELSE s.conns[c]]
  OBVIOUS
<1>5. PICK P : P = [p \in DOMAIN s.pools |->
                      IF p \notin ps THEN s.pools[p]
                      ELSE IF info \in Local
                      THEN [s.pools[p] EXCEPT !.local = Without(s.pools[p].local, named)]
                      ELSE [s.pools[p] EXCEPT !.remote = Without(s.pools[p].remote, named)]]
  OBVIOUS
<1>6. t = [s EXCEPT !.conns = C, !.pools = P]
  BY <1>1, <1>2, <1>3, <1>4, <1>5 DEF poolsDelInfo
<1>7. /\ s \in State /\ s.conns \in Seq(Conn) /\ s.pools \in Seq(Pool)
      /\ \A p \in DOMAIN s.pools : s.pools[p] \in Pool
      /\ \A c \in DOMAIN s.conns : s.conns[c] \in Conn
  BY Fields DEF Good, Shape
<1>8. \A c \in DOMAIN s.conns :
          /\ C[c] \in Conn /\ C[c].info = s.conns[c].info
          /\ C[c].conn_dec_id = s.conns[c].conn_dec_id /\ C[c].conn_inc_id = s.conns[c].conn_inc_id
          /\ c \notin out => C[c] = s.conns[c]
          /\ c \in out => C[c].dropped
  BY <1>4, <1>7 DEF Conn
<1>9. C \in Seq(Conn) /\ DOMAIN C = DOMAIN s.conns
  BY <1>4, <1>7, <1>8, SeqUpdate
<1>10. \A p \in DOMAIN s.pools :
          /\ P[p] \in Pool /\ P[p]._id = s.pools[p]._id
          /\ P[p].conn_dec_id = s.pools[p].conn_dec_id /\ P[p].conn_inc_id = s.pools[p].conn_inc_id
          /\ ToSet(P[p].local) = ToSet(s.pools[p].local) \ out
          /\ ToSet(P[p].remote) = ToSet(s.pools[p].remote) \ out
          /\ IsInjective(P[p].local) /\ IsInjective(P[p].remote)
  <2>. SUFFICES ASSUME NEW p \in DOMAIN s.pools
                PROVE  /\ P[p] \in Pool /\ P[p]._id = s.pools[p]._id
                       /\ P[p].conn_dec_id = s.pools[p].conn_dec_id
                       /\ P[p].conn_inc_id = s.pools[p].conn_inc_id
                       /\ ToSet(P[p].local) = ToSet(s.pools[p].local) \ out
                       /\ ToSet(P[p].remote) = ToSet(s.pools[p].remote) \ out
                       /\ IsInjective(P[p].local) /\ IsInjective(P[p].remote)
    OBVIOUS
  <2>1. PICK u \in Pool : u = s.pools[p]
    BY <1>7
  <2>2. PICK a \in Seq(Nat), b \in Seq(Nat) : a = u.local /\ b = u.remote
    BY DEF Pool
  <2>3. /\ IsInjective(a) /\ IsInjective(b)
        /\ \A c \in ToSet(a) : c \in DOMAIN s.conns /\ s.conns[c].info \in Local
        /\ \A c \in ToSet(b) : c \in DOMAIN s.conns /\ s.conns[c].info \notin Local
        /\ ListedIn(u) = ToSet(a) \cup ToSet(b)
    BY <2>1, <2>2 DEF Good, SidesOK, ListedIn
  <2>4. /\ Without(a, named) \in Seq(Nat) /\ ToSet(Without(a, named)) = ToSet(a) \ named
        /\ IsInjective(Without(a, named))
        /\ Without(b, named) \in Seq(Nat) /\ ToSet(Without(b, named)) = ToSet(b) \ named
        /\ IsInjective(Without(b, named))
    BY <2>3, WithoutFacts
  <2>5. CASE p \notin ps
    <3>1. \A c \in ListedIn(u) : c \notin out
      <4>. SUFFICES ASSUME NEW c \in ListedIn(u), c \in out PROVE FALSE
        OBVIOUS
      <4>1. PICK q \in ps : c \in ListedIn(s.pools[q])
        BY <1>3
      <4>2. q \in DOMAIN s.pools /\ c \in ListedIn(s.pools[p])
        BY <2>1
      <4>3. q = p
        BY <4>1, <4>2, ListedOnce
      <4>. QED
        BY <2>5, <4>3
    <3>2. P[p] = u
      BY <1>5, <2>1, <2>5
    <3>. QED
      BY <2>1, <2>2, <2>3, <3>1, <3>2
  <2>6. CASE p \in ps /\ info \in Local
    <3>1. P[p] = [u EXCEPT !.local = Without(a, named)]
      BY <1>5, <2>1, <2>2, <2>6
    <3>2. /\ P[p] \in Pool /\ P[p]._id = u._id /\ P[p].conn_dec_id = u.conn_dec_id
          /\ P[p].conn_inc_id = u.conn_inc_id
          /\ P[p].local = Without(a, named) /\ P[p].remote = b
      BY <2>2, <2>4, <3>1 DEF Pool
    <3>3. ToSet(a) \ named = ToSet(a) \ out
      BY <1>2, <1>3, <2>1, <2>3, <2>6
    <3>4. ToSet(b) = ToSet(b) \ out
      BY <1>2, <1>3, <2>3, <2>6
    <3>. QED
      BY <2>1, <2>2, <2>3, <2>4, <3>2, <3>3, <3>4
  <2>7. CASE p \in ps /\ info \notin Local
    <3>1. P[p] = [u EXCEPT !.remote = Without(b, named)]
      BY <1>5, <2>1, <2>2, <2>7
    <3>2. /\ P[p] \in Pool /\ P[p]._id = u._id /\ P[p].conn_dec_id = u.conn_dec_id
          /\ P[p].conn_inc_id = u.conn_inc_id
          /\ P[p].remote = Without(b, named) /\ P[p].local = a
      BY <2>2, <2>4, <3>1 DEF Pool
    <3>3. ToSet(b) \ named = ToSet(b) \ out
      BY <1>2, <1>3, <2>1, <2>3, <2>7
    <3>4. ToSet(a) = ToSet(a) \ out
      BY <1>2, <1>3, <2>3, <2>7
    <3>. QED
      BY <2>1, <2>2, <2>3, <2>4, <3>2, <3>3, <3>4
  <2>. QED
    BY <2>5, <2>6, <2>7
<1>11. P \in Seq(Pool) /\ DOMAIN P = DOMAIN s.pools
  BY <1>5, <1>7, <1>10, SeqUpdate
<1>12. /\ t \in State /\ t.conns = C /\ t.pools = P
       /\ t.uniqueID = s.uniqueID /\ t.invokers = s.invokers /\ t.poolList = s.poolList
  BY <1>6, <1>7, <1>9, <1>11 DEF State
<1>13. SameIds(s, t)
  BY <1>10, <1>11, <1>12 DEF SameIds
<1>14. \A c \in DOMAIN s.conns : /\ t.conns[c].info = s.conns[c].info
                                 /\ t.conns[c].conn_dec_id = s.conns[c].conn_dec_id
                                 /\ t.conns[c].conn_inc_id = s.conns[c].conn_inc_id
  BY <1>8, <1>12
<1>15. /\ \A c \in DOMAIN s.conns : c \notin out => t.conns[c] = s.conns[c]
       /\ \A c \in DOMAIN s.conns : c \in out => ~t.conns[c].conn_state \/ t.conns[c].dropped
       /\ DOMAIN t.conns = DOMAIN s.conns
  BY <1>8, <1>9, <1>12
<1>16. \A p \in DOMAIN s.pools : /\ ToSet(t.pools[p].local) = ToSet(s.pools[p].local) \ out
                                 /\ ToSet(t.pools[p].remote) = ToSet(s.pools[p].remote) \ out
                                 /\ IsInjective(t.pools[p].local)
                                 /\ IsInjective(t.pools[p].remote)
  BY <1>10, <1>12
<1>17. Good(t, h, 0)
  BY <1>12, <1>13, <1>14, <1>15, <1>16, TakenOut
<1>. QED
  BY <1>1, <1>17

-----------------------------------------------------------------------------
(* The methods of the manager                                                   *)

\* The destructor of the pools ps.
LEMMA DestroyFacts ==
    ASSUME NEW s, NEW h, Shape(s, h), NEW ps, NEW t, t = destroyPools(s, ps)
    PROVE  /\ t \in State /\ SameIds(s, t)
           /\ t.uniqueID = s.uniqueID /\ t.conns = s.conns /\ t.poolList = s.poolList
           /\ \A k : k \in t.invokers <=>
                  /\ k \in s.invokers
                  /\ \/ k.obj \notin ps
                     \/ k.id \notin {s.pools[k.obj].conn_inc_id, s.pools[k.obj].conn_dec_id}
           /\ \A p \in DOMAIN s.pools :
                  /\ p \notin ps => t.pools[p] = s.pools[p]
                  /\ p \in ps => t.pools[p].local = <<>> /\ t.pools[p].remote = <<>>
<1>1. PICK I : I = {k \in s.invokers :
                       \/ k.obj \notin ps
                       \/ k.id \notin {s.pools[k.obj].conn_inc_id, s.pools[k.obj].conn_dec_id}}
  OBVIOUS
<1>2. PICK P : P = [p \in DOMAIN s.pools |->
                       IF p \notin ps THEN s.pools[p]
                       ELSE [s.pools[p] EXCEPT !.local = <<>>, !.remote = <<>>]]
  OBVIOUS
<1>3. t = [s EXCEPT !.invokers = I, !.pools = P]
  BY <1>1, <1>2 DEF destroyPools
<1>4. /\ s \in State /\ s.invokers \subseteq Handler /\ s.pools \in Seq(Pool)
      /\ \A p \in DOMAIN s.pools : s.pools[p] \in Pool
  BY Fields DEF Shape
<1>5. \A p \in DOMAIN s.pools :
          /\ P[p] \in Pool /\ P[p]._id = s.pools[p]._id
          /\ P[p].conn_dec_id = s.pools[p].conn_dec_id /\ P[p].conn_inc_id = s.pools[p].conn_inc_id
          /\ p \notin ps => P[p] = s.pools[p]
          /\ p \in ps => P[p].local = <<>> /\ P[p].remote = <<>>
  <2>1. <<>> \in Seq(Nat)
    OBVIOUS
  <2>. QED
    BY <1>2, <1>4, <2>1 DEF Pool
<1>6. P \in Seq(Pool) /\ DOMAIN P = DOMAIN s.pools
  <2>1. DOMAIN P = DOMAIN s.pools /\ P = [p \in DOMAIN s.pools |-> P[p]]
    BY <1>2
  <2>2. \A p \in DOMAIN s.pools : P[p] \in Pool
    BY <1>5
  <2>. QED
    BY <1>4, <2>1, <2>2, SeqUpdate
<1>7. I \subseteq Handler
  BY <1>1, <1>4
<1>8. /\ t \in State /\ t.invokers = I /\ t.pools = P
      /\ t.uniqueID = s.uniqueID /\ t.conns = s.conns /\ t.poolList = s.poolList
  BY <1>3, <1>4, <1>6, <1>7 DEF State
<1>9. SameIds(s, t)
  BY <1>5, <1>6, <1>8 DEF SameIds
<1>. QED
  BY <1>1, <1>5, <1>8, <1>9

\* The list of pools is another one, of pools that are there.
LEMMA ListFacts ==
    ASSUME NEW s, NEW h, Shape(s, h), NEW list \in Seq(Nat), ToSet(list) \subseteq ToSet(s.poolList),
           NEW t, t = [s EXCEPT !.poolList = list]
    PROVE  /\ Shape(t, h) /\ t.poolList = list
           /\ t.uniqueID = s.uniqueID /\ t.invokers = s.invokers
           /\ t.conns = s.conns /\ t.pools = s.pools
<1>1. /\ t \in State /\ t.poolList = list
      /\ t.uniqueID = s.uniqueID /\ t.invokers = s.invokers
      /\ t.conns = s.conns /\ t.pools = s.pools
  BY DEF Shape, State
<1>. QED
  BY <1>1 DEF Shape

\* A pool that leaves the manager's list ends, unless the user holds it.
LEMMA DelPoolGood ==
    ASSUME NEW s, Good(s, held, 0), NEW id
    PROVE  Good(del_pool(s, id), held, 0)
<1>1. PICK gone : gone = {p \in ToSet(s.poolList) : s.pools[p]._id = id}
  OBVIOUS
<1>2. s.poolList \in Seq(Nat) /\ Shape(s, held)
  BY Fields DEF Good
<1>3. PICK list \in Seq(Nat) : /\ list = Without(s.poolList, gone)
                               /\ ToSet(list) = ToSet(s.poolList) \ gone
  BY <1>2, WithoutFacts
<1>4. PICK r : r = [s EXCEPT !.poolList = list]
  OBVIOUS
<1>5. /\ Shape(r, held) /\ r.poolList = list
      /\ r.uniqueID = s.uniqueID /\ r.invokers = s.invokers
      /\ r.conns = s.conns /\ r.pools = s.pools
  <2>1. ToSet(list) \subseteq ToSet(s.poolList)
    BY <1>3
  <2>. QED
    BY <1>2, <1>4, <2>1, ListFacts
<1>6. PICK t : t = destroyPools(r, gone \ held)
  OBVIOUS
<1>7. del_pool(s, id) = t
  BY <1>1, <1>3, <1>4, <1>6 DEF del_pool
<1>8. /\ t \in State /\ SameIds(r, t)
      /\ t.uniqueID = r.uniqueID /\ t.conns = r.conns /\ t.poolList = r.poolList
      /\ \A k : k \in t.invokers <=>
             /\ k \in r.invokers
             /\ \/ k.obj \notin gone \ held
                \/ k.id \notin {r.pools[k.obj].conn_inc_id, r.pools[k.obj].conn_dec_id}
      /\ \A p \in DOMAIN r.pools :
             /\ p \notin gone \ held => t.pools[p] = r.pools[p]
             /\ p \in gone \ held => t.pools[p].local = <<>> /\ t.pools[p].remote = <<>>
  BY <1>5, <1>6, DestroyFacts
<1>9. \A p : LiveIn(t, held, p) <=> LiveIn(s, held, p) /\ p \notin gone \ held
  BY <1>3, <1>5, <1>8 DEF LiveIn
<1>10. /\ SameIds(s, t) /\ ToSet(t.poolList) \subseteq ToSet(s.poolList)
       /\ t.uniqueID = s.uniqueID /\ t.conns = s.conns
  BY <1>3, <1>5, <1>8 DEF SameIds
<1>11. \A k : k \in t.invokers <=>
             /\ k \in s.invokers
             /\ \/ k.obj \notin gone \ held
                \/ k.id \notin {s.pools[k.obj].conn_inc_id, s.pools[k.obj].conn_dec_id}
  BY <1>5, <1>8
<1>12. \A p \in DOMAIN s.pools :
             /\ p \notin gone \ held => t.pools[p] = s.pools[p]
             /\ p \in gone \ held => t.pools[p].local = <<>> /\ t.pools[p].remote = <<>>
             /\ LiveIn(t, held, p) <=> LiveIn(s, held, p) /\ p \notin gone \ held
  BY <1>5, <1>8, <1>9
<1>13. Good(t, held, 0)
  BY <1>8, <1>10, <1>11, <1>12, Ended
<1>. QED
  BY <1>7, <1>13

\* add_conn of the manager: a connection for each pool of the list.
LEMMA AddConnsGood ==
    ASSUME NEW s, NEW h, Good(s, h, 0), NEW info \in Infos
    PROVE  Good(add_conn(s, info), h, 0)
<1>1. PICK t : t = add_conn(s, info)
  OBVIOUS
<1>2. PICK n \in Nat, l \in Nat : n = Len(s.conns) /\ l = Len(s.poolList)
  BY Fields, LenProperties DEF Good
<1>3. /\ s \in State /\ s.conns \in Seq(Conn) /\ s.poolList \in Seq(Nat)
      /\ s.infoList \in Seq(Infos) /\ DOMAIN s.conns = 1 .. n
      /\ \A p \in DOMAIN s.pools : s.pools[p] \in Pool
  BY <1>2, Fields DEF Good, Shape
<1>4. \A i \in 1 .. l : s.poolList[i] \in DOMAIN s.pools
  BY <1>2, <1>3, LenProperties DEF Good, Shape, ToSet
<1>5. PICK new : new = [i \in 1 .. l |-> connOf(s.pools[s.poolList[i]], info)]
  OBVIOUS
<1>6. \A i \in 1 .. l : /\ new[i] \in Conn /\ ~new[i].conn_state
                        /\ new[i].conn_dec_id = s.pools[s.poolList[i]].conn_dec_id
                        /\ new[i].conn_inc_id = s.pools[s.poolList[i]].conn_inc_id
  BY <1>3, <1>4, <1>5, ConnOfFacts
<1>7. new \in Seq(Conn) /\ Len(new) = l
  <2>1. new \in [1 .. l -> Conn]
    BY <1>5, <1>6
  <2>. QED
    BY <2>1, SeqDef, LenProperties
<1>8. PICK C : C = s.conns \o new
  OBVIOUS
<1>9. /\ C \in Seq(Conn) /\ DOMAIN C = 1 .. n + l
      /\ \A c \in 1 .. n : C[c] = s.conns[c]
      /\ \A c \in 1 .. n + l : c > n => C[c] = new[c - n]
  <2>1. PICK a \in Seq(Conn), b \in Seq(Conn) : a = s.conns /\ b = new
    BY <1>2, <1>3, <1>7, <1>8
  <2>2. C = a \o b /\ n = Len(a) /\ l = Len(b)
    BY <2>1, <1>2, <1>3, <1>7, <1>8
  <2>3. /\ C \in Seq(Conn) /\ DOMAIN C = 1 .. n + l /\ DOMAIN a = 1 .. n
        /\ \A c \in 1 .. n : C[c] = a[c]
        /\ \A c \in 1 .. n + l : c > n => C[c] = b[c - n]
    BY <2>2, ConcatFacts
  <2>. QED
    BY <2>1, <2>3
<1>10. /\ t = [s EXCEPT !.infoList = Append(s.infoList, info), !.conns = C]
       /\ Append(s.infoList, info) \in Seq(Infos)
  BY <1>1, <1>2, <1>3, <1>5, <1>8, AppendProperties DEF add_conn
<1>11. /\ t \in State /\ t.conns = C
       /\ t.uniqueID = s.uniqueID /\ t.invokers = s.invokers /\ t.poolList = s.poolList
       /\ t.pools = s.pools
  BY <1>3, <1>9, <1>10 DEF State
<1>12. \A c \in DOMAIN t.conns \ DOMAIN s.conns :
          ~t.conns[c].conn_state /\ \E p \in DOMAIN s.pools : HomeOf(t, c, p)
  <2>. SUFFICES ASSUME NEW c \in DOMAIN t.conns \ DOMAIN s.conns
                PROVE  ~t.conns[c].conn_state /\ \E p \in DOMAIN s.pools : HomeOf(t, c, p)
    OBVIOUS
  <2>1. c \in 1 .. n + l /\ c > n /\ c - n \in 1 .. l
    BY <1>3, <1>9, <1>11
  <2>2. PICK i \in 1 .. l : t.conns[c] = new[i]
    BY <1>9, <1>11, <2>1
  <2>3. HomeOf(t, c, s.poolList[i])
    BY <1>6, <1>11, <2>2 DEF HomeOf
  <2>. QED
    BY <1>4, <1>6, <2>2, <2>3
<1>13. DOMAIN s.conns \subseteq DOMAIN t.conns /\ \A c \in DOMAIN s.conns : t.conns[c] = s.conns[c]
  BY <1>3, <1>9, <1>11
<1>14. Good(t, h, 0)
  BY <1>11, <1>12, <1>13, MadeConns
<1>. QED
  BY <1>1, <1>14

\* One more pool with three new ids and empty lists, and connections that report to it.
AddedPool(s, t, h, d, p) ==
    /\ Shape(t, h) /\ t.uniqueID = d + 3 /\ d \in Nat
    /\ p \notin DOMAIN s.pools /\ DOMAIN t.pools = DOMAIN s.pools \cup {p}
    /\ \A q \in DOMAIN s.pools : t.pools[q] = s.pools[q]
    /\ t.pools[p]._id = d + 2 /\ t.pools[p].conn_dec_id = d /\ t.pools[p].conn_inc_id = d + 1
    /\ t.pools[p].local = <<>> /\ t.pools[p].remote = <<>>
    /\ ToSet(t.poolList) = ToSet(s.poolList) \cup {p}
    /\ t.invokers = s.invokers \cup {DecOf(t, p), IncOf(t, p)}
    /\ DOMAIN s.conns \subseteq DOMAIN t.conns
    /\ \A c \in DOMAIN s.conns : t.conns[c] = s.conns[c]
    /\ \A c \in DOMAIN t.conns \ DOMAIN s.conns : ~t.conns[c].conn_state /\ HomeOf(t, c, p)

\* That is what add_pool does.
LEMMA AddPoolFacts ==
    ASSUME NEW s, NEW h, Shape(s, h), NEW junk \in Int, NEW t, t = add_pool(s, junk),
           NEW d, d = s.uniqueID, NEW p, p = Len(s.pools) + 1
    PROVE  AddedPool(s, t, h, d, p)
<1>1. /\ s \in State /\ d \in Nat /\ s.invokers \subseteq Handler
      /\ s.infoList \in Seq(Infos) /\ s.poolList \in Seq(Nat)
      /\ s.pools \in Seq(Pool) /\ s.conns \in Seq(Conn)
      /\ Len(s.pools) \in Nat /\ DOMAIN s.pools = 1 .. Len(s.pools) /\ p \in Nat
  <2>1. s \in State
    BY DEF Shape
  <2>2. /\ s.uniqueID \in Nat /\ s.invokers \subseteq Handler
        /\ s.infoList \in Seq(Infos) /\ s.poolList \in Seq(Nat)
        /\ s.pools \in Seq(Pool) /\ s.conns \in Seq(Conn)
        /\ Len(s.pools) \in Nat /\ DOMAIN s.pools = 1 .. Len(s.pools)
    BY Fields
  <2>. QED
    BY <2>1, <2>2
<1>2. PICK u : u = [_id |-> junk, conn_dec_id |-> d, conn_inc_id |-> d + 1,
                    local |-> <<>>, remote |-> <<>>]
  OBVIOUS
<1>3. PICK v : v = [_id |-> d + 2, conn_dec_id |-> d, conn_inc_id |-> d + 1,
                    local |-> <<>>, remote |-> <<>>]
  OBVIOUS
<1>4. u \in Pool /\ v \in Pool
  <2>1. <<>> \in Seq(Nat) /\ d + 1 \in Nat /\ d + 2 \in Int
    BY <1>1
  <2>. QED
    BY <1>1, <1>2, <1>3, <2>1 DEF Pool
<1>5. PICK I : I = s.invokers \cup {[name |-> "conn_dec", obj |-> p, id |-> d],
                                    [name |-> "conn_inc", obj |-> p, id |-> d + 1]}
  OBVIOUS
<1>6. I \subseteq Handler
  BY <1>1, <1>5 DEF Handler
<1>7. PICK l \in Nat, n \in Nat : l = Len(s.infoList) /\ n = Len(s.conns)
  BY <1>1, LenProperties
<1>8. PICK new : new = [i \in 1 .. l |-> connOf(u, s.infoList[i])]
  OBVIOUS
<1>9. \A i \in 1 .. l : /\ new[i] \in Conn /\ ~new[i].conn_state
                        /\ new[i].conn_dec_id = d /\ new[i].conn_inc_id = d + 1
  <2>1. \A i \in 1 .. l : s.infoList[i] \in Infos
    BY <1>1, <1>7, ElementOfSeq
  <2>2. u.conn_dec_id = d /\ u.conn_inc_id = d + 1
    BY <1>2
  <2>. QED
    BY <1>4, <1>8, <2>1, <2>2, ConnOfFacts
<1>10. new \in Seq(Conn) /\ Len(new) = l
  <2>1. new \in [1 .. l -> Conn]
    BY <1>8, <1>9
  <2>. QED
    BY <2>1, SeqDef, LenProperties
<1>11. PICK C : C = s.conns \o new
  OBVIOUS
<1>12. /\ C \in Seq(Conn) /\ DOMAIN C = 1 .. n + l /\ DOMAIN s.conns = 1 .. n
       /\ \A c \in 1 .. n : C[c] = s.conns[c]
       /\ \A c \in 1 .. n + l : c > n => C[c] = new[c - n]
  <2>1. PICK a \in Seq(Conn), b \in Seq(Conn) : a = s.conns /\ b = new
    BY <1>1, <1>7, <1>10, <1>11
  <2>2. C = a \o b /\ n = Len(a) /\ l = Len(b)
    BY <2>1, <1>1, <1>7, <1>10, <1>11
  <2>3. /\ C \in Seq(Conn) /\ DOMAIN C = 1 .. n + l /\ DOMAIN a = 1 .. n
        /\ \A c \in 1 .. n : C[c] = a[c]
        /\ \A c \in 1 .. n + l : c > n => C[c] = b[c - n]
    BY <2>2, ConcatFacts
  <2>. QED
    BY <2>1, <2>3
<1>13. PICK L : L = Append(s.poolList, p)
  OBVIOUS
<1>14. L \in Seq(Nat) /\ ToSet(L) = ToSet(s.poolList) \cup {p}
  BY <1>1, <1>13, AppendFacts
<1>15. PICK P : P = Append(s.pools, v)
  OBVIOUS
<1>16. /\ P \in Seq(Pool) /\ DOMAIN P = DOMAIN s.pools \cup {p} /\ p \notin DOMAIN s.pools
       /\ P[p] = v /\ \A q \in DOMAIN s.pools : P[q] = s.pools[q]
  <2>1. /\ P \in Seq(Pool) /\ Len(P) = Len(s.pools) + 1
        /\ \A q \in 1 .. Len(s.pools) : P[q] = s.pools[q]
        /\ P[Len(s.pools) + 1] = v
    BY <1>1, <1>4, <1>15, AppendProperties
  <2>2. DOMAIN P = 1 .. Len(P)
    BY <2>1, LenProperties
  <2>. QED
    BY <1>1, <2>1, <2>2
<1>17. t = [s EXCEPT !.uniqueID = d + 3, !.invokers = I, !.poolList = L, !.pools = P, !.conns = C]
  <2>1. PICK made : made = connPool(s, junk)
    OBVIOUS
  <2>2. made = [s EXCEPT !.uniqueID = d + 2, !.invokers = I, !.pools = Append(s.pools, u)]
    BY <1>2, <1>5, <2>1 DEF connPool
  <2>3. /\ made.uniqueID = d + 2 /\ made.invokers = I /\ made.pools = Append(s.pools, u)
        /\ made.infoList = s.infoList /\ made.conns = s.conns /\ made.poolList = s.poolList
    BY <1>1, <2>2 DEF State
  <2>4. /\ Append(s.pools, u) \in Seq(Pool) /\ Len(Append(s.pools, u)) = p
        /\ Append(s.pools, u)[p] = u
        /\ \A q \in 1 .. Len(s.pools) : Append(s.pools, u)[q] = s.pools[q]
    BY <1>1, <1>4, AppendProperties
  <2>5. [u EXCEPT !._id = d + 2] = v
    BY <1>2, <1>3
  <2>6. [Append(s.pools, u) EXCEPT ![p] = v] = P
    <3>1. DOMAIN Append(s.pools, u) = DOMAIN P
      BY <1>1, <1>16, <2>4, LenProperties
    <3>2. \A q \in DOMAIN P : [Append(s.pools, u) EXCEPT ![p] = v][q] = P[q]
      BY <1>1, <1>16, <2>4, <3>1
    <3>. QED
      BY <1>1, <1>4, <1>15, <3>1, <3>2
  <2>7. [i \in 1 .. Len(s.infoList) |-> connOf(made.pools[p], s.infoList[i])] = new
    BY <1>7, <1>8, <2>3, <2>4
  <2>8. Len(made.pools) = p
    BY <2>3, <2>4
  <2>9. t = [made EXCEPT !.conns = made.conns \o new,
                         !.pools = [made.pools EXCEPT
                                      ![p] = [made.pools[p] EXCEPT !._id = made.uniqueID]],
                         !.uniqueID = made.uniqueID + 1, !.poolList = Append(made.poolList, p)]
    BY <2>1, <2>7, <2>8 DEF add_pool
  <2>10. [made.pools EXCEPT ![p] = [made.pools[p] EXCEPT !._id = made.uniqueID]] = P
    BY <2>3, <2>4, <2>5, <2>6
  <2>11. /\ made.conns \o new = C /\ made.uniqueID + 1 = d + 3
         /\ Append(made.poolList, p) = L
    BY <1>1, <1>11, <1>13, <2>3
  <2>12. t = [made EXCEPT !.conns = C, !.pools = P, !.uniqueID = d + 3, !.poolList = L]
    BY <2>9, <2>10, <2>11
  <2>. QED
    BY <1>1, <2>2, <2>12 DEF State
<1>18. /\ t \in State /\ t.uniqueID = d + 3 /\ t.invokers = I /\ t.poolList = L
       /\ t.pools = P /\ t.conns = C
  <2>1. d + 3 \in Nat /\ C \in Seq(Conn) /\ L \in Seq(Nat) /\ P \in Seq(Pool) /\ I \in SUBSET Handler
    BY <1>1, <1>6, <1>12, <1>14, <1>16
  <2>. QED
    BY <1>1, <1>17, <2>1 DEF State
<1>19. Shape(t, h)
  BY <1>14, <1>16, <1>18 DEF Shape
<1>20. /\ t.pools[p]._id = d + 2 /\ t.pools[p].conn_dec_id = d /\ t.pools[p].conn_inc_id = d + 1
       /\ t.pools[p].local = <<>> /\ t.pools[p].remote = <<>>
  BY <1>3, <1>16, <1>18
<1>21. t.invokers = s.invokers \cup {DecOf(t, p), IncOf(t, p)}
  BY <1>5, <1>18, <1>20 DEF DecOf, IncOf
<1>22. \A c \in DOMAIN t.conns \ DOMAIN s.conns : ~t.conns[c].conn_state /\ HomeOf(t, c, p)
  <2>. SUFFICES ASSUME NEW c \in DOMAIN t.conns \ DOMAIN s.conns
                PROVE  ~t.conns[c].conn_state /\ HomeOf(t, c, p)
    OBVIOUS
  <2>1. c \in 1 .. n + l /\ c > n /\ c - n \in 1 .. l
    BY <1>12, <1>18
  <2>2. PICK i \in 1 .. l : t.conns[c] = new[i]
    BY <1>12, <1>18, <2>1
  <2>. QED
    BY <1>9, <1>20, <2>2 DEF HomeOf
<1>23. DOMAIN s.conns \subseteq DOMAIN t.conns /\ \A c \in DOMAIN s.conns : t.conns[c] = s.conns[c]
  BY <1>12, <1>18
<1>. QED
  BY <1>1, <1>14, <1>16, <1>18, <1>19, <1>20, <1>21, <1>22, <1>23 DEF AddedPool

\* The new pool is in order, and the others are as before.
LEMMA AddPoolGood ==
    ASSUME NEW s, NEW h, NEW x, Good(s, h, x), NEW junk \in Int, NEW t, t = add_pool(s, junk)
    PROVE  /\ Good(t, h, x)
           /\ \A q \in DOMAIN s.pools : q \in DOMAIN t.pools /\ t.pools[q] = s.pools[q]
           /\ \A c \in DOMAIN s.conns : c \in DOMAIN t.conns /\ t.conns[c] = s.conns[c]
           /\ \A q \in DOMAIN s.pools : LiveIn(s, h, q) => LiveIn(t, h, q)
<1>1. PICK d, p : d = s.uniqueID /\ p = Len(s.pools) + 1
  OBVIOUS
<1>2. /\ Shape(t, h) /\ t.uniqueID = d + 3 /\ d \in Nat
      /\ p \notin DOMAIN s.pools /\ DOMAIN t.pools = DOMAIN s.pools \cup {p}
      /\ \A q \in DOMAIN s.pools : t.pools[q] = s.pools[q]
      /\ t.pools[p]._id = d + 2 /\ t.pools[p].conn_dec_id = d /\ t.pools[p].conn_inc_id = d + 1
      /\ t.pools[p].local = <<>> /\ t.pools[p].remote = <<>>
      /\ ToSet(t.poolList) = ToSet(s.poolList) \cup {p}
      /\ t.invokers = s.invokers \cup {DecOf(t, p), IncOf(t, p)}
      /\ DOMAIN s.conns \subseteq DOMAIN t.conns
      /\ \A c \in DOMAIN s.conns : t.conns[c] = s.conns[c]
      /\ \A c \in DOMAIN t.conns \ DOMAIN s.conns : ~t.conns[c].conn_state /\ HomeOf(t, c, p)
  <2>1. Shape(s, h)
    BY DEF Good
  <2>2. AddedPool(s, t, h, d, p)
    BY <1>1, <2>1, AddPoolFacts
  <2>. QED
    BY <2>2 DEF AddedPool
<1>3. /\ \A q \in DOMAIN s.pools : s.pools[q] \in Pool
      /\ \A q \in DOMAIN s.pools : /\ s.pools[q]._id \in Int /\ s.pools[q].conn_dec_id \in Nat
                                   /\ s.pools[q].conn_inc_id \in Nat
      /\ \A q \in DOMAIN s.pools : /\ s.pools[q]._id < d /\ s.pools[q].conn_dec_id < d
                                   /\ s.pools[q].conn_inc_id < d
  <2>1. \A q \in DOMAIN s.pools : s.pools[q] \in Pool
    BY Fields DEF Good
  <2>. QED
    BY <1>1, <2>1 DEF Good, IdsOK, Pool
<1>4. IdsOK(t)
  <2>1. \A q \in DOMAIN t.pools : /\ t.pools[q]._id < t.uniqueID
                                  /\ t.pools[q].conn_dec_id < t.uniqueID
                                  /\ t.pools[q].conn_inc_id < t.uniqueID
    BY <1>2, <1>3
  <2>2. \A q \in DOMAIN s.pools : /\ t.pools[q]._id # t.pools[p]._id
                                  /\ t.pools[q].conn_dec_id # t.pools[p].conn_dec_id
                                  /\ t.pools[q].conn_inc_id # t.pools[p].conn_inc_id
    BY <1>2, <1>3
  <2>3. \A q, r \in DOMAIN s.pools : q # r => /\ t.pools[q]._id # t.pools[r]._id
                                              /\ t.pools[q].conn_dec_id # t.pools[r].conn_dec_id
                                              /\ t.pools[q].conn_inc_id # t.pools[r].conn_inc_id
    BY <1>2 DEF Good, IdsOK
  <2>. QED
    BY <1>2, <2>1, <2>2, <2>3 DEF IdsOK
<1>5. HomesOK(t)
  <2>. SUFFICES ASSUME NEW c \in DOMAIN t.conns PROVE \E q \in DOMAIN t.pools : HomeOf(t, c, q)
    BY DEF HomesOK
  <2>1. CASE c \in DOMAIN s.conns
    <3>1. PICK q \in DOMAIN s.pools : HomeOf(s, c, q)
      BY <2>1 DEF Good, HomesOK
    <3>2. HomeOf(t, c, q)
      BY <1>2, <2>1, <3>1 DEF HomeOf
    <3>. QED
      BY <1>2, <3>2
  <2>2. CASE c \notin DOMAIN s.conns
    BY <1>2, <2>2
  <2>. QED
    BY <2>1, <2>2
<1>6. ToSet(<<>>) = {} /\ IsInjective(<<>>)
  <2>1. DOMAIN <<>> = {}
    OBVIOUS
  <2>. QED
    BY <2>1 DEF ToSet, IsInjective
<1>7. SidesOK(t)
  BY <1>2, <1>6 DEF Good, SidesOK
<1>8. \A q \in DOMAIN s.pools : LiveIn(t, h, q) <=> LiveIn(s, h, q)
  BY <1>2 DEF LiveIn
<1>9. BusOK(t, h)
  <2>1. \A q \in DOMAIN s.pools : DecOf(t, q) = DecOf(s, q) /\ IncOf(t, q) = IncOf(s, q)
    BY <1>2 DEF DecOf, IncOf
  <2>2. LiveIn(t, h, p)
    BY <1>2 DEF LiveIn
  <2>. SUFFICES ASSUME NEW k
                PROVE  k \in t.invokers <=> \E q \in DOMAIN t.pools :
                           LiveIn(t, h, q) /\ (k = DecOf(t, q) \/ k = IncOf(t, q))
    BY DEF BusOK
  <2>3. k \in s.invokers <=> \E q \in DOMAIN s.pools :
            LiveIn(s, h, q) /\ (k = DecOf(s, q) \/ k = IncOf(s, q))
    BY DEF Good, BusOK
  <2>4. k \in t.invokers <=> k \in s.invokers \/ k = DecOf(t, p) \/ k = IncOf(t, p)
    BY <1>2
  <2>. QED
    BY <1>2, <1>8, <2>1, <2>2, <2>3, <2>4
<1>10. ExactOK(t, h, x)
  <2>. SUFFICES ASSUME NEW q \in DOMAIN t.pools, NEW c \in DOMAIN t.conns
                PROVE  c \in ListedIn(t.pools[q]) <=> c # x /\ LiveIn(t, h, q) /\ Belongs(t, c, q)
    BY DEF ExactOK
  <2>1. CASE q \in DOMAIN s.pools /\ c \in DOMAIN s.conns
    <3>1. Belongs(t, c, q) <=> Belongs(s, c, q)
      BY <1>2, <2>1 DEF Belongs
    <3>. QED
      BY <1>2, <1>8, <2>1, <3>1 DEF Good, ExactOK
  <2>2. CASE c \notin DOMAIN s.conns
    <3>1. ~Belongs(t, c, q)
      BY <1>2, <2>2 DEF Belongs
    <3>2. c \notin ListedIn(t.pools[q])
      BY <1>2, <1>6, <2>2 DEF Good, SidesOK, ListedIn
    <3>. QED
      BY <3>1, <3>2
  <2>3. CASE q = p /\ c \in DOMAIN s.conns
    <3>1. c \notin ListedIn(t.pools[q])
      BY <1>2, <1>6, <2>3 DEF ListedIn
    <3>2. PICK r \in DOMAIN s.pools : HomeOf(s, c, r)
      BY <2>3 DEF Good, HomesOK
    <3>3. s.conns[c].conn_inc_id < d
      BY <1>3, <3>2 DEF HomeOf
    <3>4. s.conns[c].conn_inc_id # d + 1
      BY <1>2, <1>3, <3>2, <3>3 DEF HomeOf
    <3>5. ~Belongs(t, c, q)
      BY <1>2, <2>3, <3>4 DEF Belongs
    <3>. QED
      BY <3>1, <3>5
  <2>. QED
    BY <1>2, <2>1, <2>2, <2>3
<1>. QED
  BY <1>2, <1>4, <1>5, <1>7, <1>8, <1>9, <1>10 DEF Good

-----------------------------------------------------------------------------
(* The steps                                                                    *)

\* The user's pointers change, and the same pools are alive.
LEMMA OtherHolders ==
    ASSUME NEW s, NEW h, NEW h2, Good(s, h, 0), h2 \subseteq DOMAIN s.pools,
           \A p \in DOMAIN s.pools : LiveIn(s, h2, p) <=> LiveIn(s, h, p)
    PROVE  Good(s, h2, 0)
<1>1. Shape(s, h2) /\ IdsOK(s) /\ HomesOK(s) /\ SidesOK(s)
  BY DEF Good, Shape
<1>2. BusOK(s, h2)
  BY DEF Good, BusOK
<1>3. ExactOK(s, h2, 0)
  BY DEF Good, ExactOK
<1>. QED
  BY <1>1, <1>2, <1>3 DEF Good

\* A connection that came up has no living pool to list it.
LEMMA Unheard ==
    ASSUME NEW s, NEW h, NEW c \in DOMAIN s.conns, Good(s, h, c),
           \A p \in DOMAIN s.pools : ~(LiveIn(s, h, p) /\ Belongs(s, c, p))
    PROVE  Good(s, h, 0)
<1>1. \A d \in DOMAIN s.conns : d # 0
  <2>1. Len(s.conns) \in Nat /\ DOMAIN s.conns = 1 .. Len(s.conns)
    BY Fields DEF Good
  <2>. QED
    BY <2>1
<1>2. ExactOK(s, h, 0)
  BY <1>1 DEF Good, ExactOK
<1>. QED
  BY <1>2 DEF Good

\* The infos or the order of the pools in the manager's list change.
LEMMA ManagerLists ==
    ASSUME NEW s, NEW h, Good(s, h, 0), NEW infos \in Seq(Infos), NEW list \in Seq(Nat),
           ToSet(list) = ToSet(s.poolList)
    PROVE  /\ Good([s EXCEPT !.infoList = infos], h, 0)
           /\ Good([s EXCEPT !.poolList = list], h, 0)
<1>1. PICK t : t = [s EXCEPT !.infoList = infos]
  OBVIOUS
<1>2. PICK u : u = [s EXCEPT !.poolList = list]
  OBVIOUS
<1>3. s \in State
  BY DEF Good, Shape
<1>4. /\ t \in State /\ t.uniqueID = s.uniqueID /\ t.invokers = s.invokers /\ t.conns = s.conns
      /\ t.pools = s.pools /\ t.poolList = s.poolList
  BY <1>1, <1>3 DEF State
<1>5. /\ u \in State /\ u.uniqueID = s.uniqueID /\ u.invokers = s.invokers /\ u.conns = s.conns
      /\ u.pools = s.pools /\ u.poolList = list
  BY <1>2, <1>3 DEF State
<1>6. \A p \in DOMAIN s.pools : IsInjective(s.pools[p].local) /\ IsInjective(s.pools[p].remote)
  BY DEF Good, SidesOK
<1>7. SameIds(s, t) /\ SameIds(s, u)
  BY <1>4, <1>5 DEF SameIds
<1>8. Good(t, h, 0)
  BY <1>4, <1>6, <1>7, Reordered
<1>9. Good(u, h, 0)
  BY <1>5, <1>6, <1>7, Reordered
<1>. QED
  BY <1>1, <1>2, <1>8, <1>9

\* The first pool of the manager's list.
LEMMA FirstPool ==
    ASSUME Inv, m.poolList # <<>>
    PROVE  /\ Head(m.poolList) \in ToSet(m.poolList) /\ Head(m.poolList) \in DOMAIN m.pools
           /\ Good([m EXCEPT !.poolList = Rotated(m.poolList)], held, 0)
           /\ [m EXCEPT !.poolList = Rotated(m.poolList)].pools = m.pools
           /\ ToSet([m EXCEPT !.poolList = Rotated(m.poolList)].poolList) = ToSet(m.poolList)
<1>1. PICK list \in Seq(Nat) : list = m.poolList
  BY Fields DEF Inv, Good
<1>2. /\ Rotated(list) \in Seq(Nat) /\ ToSet(Rotated(list)) = ToSet(list)
      /\ Head(list) \in ToSet(list)
  BY <1>1, RotatedFacts
<1>3. PICK s : s = m
  OBVIOUS
<1>4. Good(s, held, 0) /\ s \in State /\ ToSet(s.poolList) \subseteq DOMAIN s.pools
  BY <1>3 DEF Inv, Good, Shape
<1>5. <<>> \in Seq(Infos)
  OBVIOUS
<1>6. Good([s EXCEPT !.poolList = Rotated(list)], held, 0)
  BY <1>1, <1>2, <1>3, <1>4, <1>5, ManagerLists
<1>7. /\ [s EXCEPT !.poolList = Rotated(list)].pools = s.pools
      /\ [s EXCEPT !.poolList = Rotated(list)].poolList = Rotated(list)
  BY <1>4 DEF State
<1>. QED
  BY <1>1, <1>2, <1>3, <1>4, <1>6, <1>7

\* get_pool: the user holds what is in the list anyhow.
LEMMA GetPoolStep == Inv /\ getPool => Inv'
<1>. SUFFICES ASSUME Inv, getPool PROVE Inv'
  OBVIOUS
<1>1. m.poolList # <<>> /\ held' = held \cup {Head(m.poolList)}
  BY DEF getPool
<1>2. PICK t : t = [m EXCEPT !.poolList = Rotated(m.poolList)]
  OBVIOUS
<1>3. /\ Head(m.poolList) \in ToSet(m.poolList) /\ Head(m.poolList) \in DOMAIN m.pools
      /\ Good(t, held, 0) /\ t.pools = m.pools /\ ToSet(t.poolList) = ToSet(m.poolList)
  BY <1>1, <1>2, FirstPool
<1>4. held' \subseteq DOMAIN t.pools
  BY <1>1, <1>3 DEF Inv, Good, Shape
<1>5. \A p \in DOMAIN t.pools : LiveIn(t, held', p) <=> LiveIn(t, held, p)
  BY <1>1, <1>3 DEF LiveIn
<1>6. Good(t, held', 0)
  BY <1>3, <1>4, <1>5, OtherHolders
<1>7. m' = t
  BY <1>2 DEF getPool
<1>. QED
  BY <1>6, <1>7 DEF Inv

\* The user lets go of a pool, which ends it unless the manager has it.
LEMMA ReleaseStep == ASSUME Inv, NEW p, releasePool(p) PROVE Inv'
<1>1. p \in held /\ held' = held \ {p} /\ held \subseteq DOMAIN m.pools
  BY DEF releasePool, Inv, Good, Shape
<1>2. CASE p \in ToSet(m.poolList)
  <2>1. m' = m
    BY <1>2 DEF releasePool
  <2>2. held' \subseteq DOMAIN m.pools
    BY <1>1
  <2>3. \A q \in DOMAIN m.pools : LiveIn(m, held', q) <=> LiveIn(m, held, q)
    BY <1>1, <1>2 DEF LiveIn
  <2>4. Good(m, held', 0)
    BY <2>2, <2>3, OtherHolders DEF Inv
  <2>. QED
    BY <2>1, <2>4 DEF Inv
<1>3. CASE p \notin ToSet(m.poolList)
  <2>1. PICK t, s : t = destroyPools(m, {p}) /\ s = m
    OBVIOUS
  <2>2. Good(s, held, 0) /\ Shape(s, held)
    BY <2>1 DEF Inv, Good
  <2>3. /\ t \in State /\ SameIds(s, t)
        /\ t.uniqueID = s.uniqueID /\ t.conns = s.conns /\ t.poolList = s.poolList
        /\ \A k : k \in t.invokers <=>
               /\ k \in s.invokers
               /\ \/ k.obj \notin {p}
                  \/ k.id \notin {s.pools[k.obj].conn_inc_id, s.pools[k.obj].conn_dec_id}
        /\ \A q \in DOMAIN s.pools :
               /\ q \notin {p} => t.pools[q] = s.pools[q]
               /\ q \in {p} => t.pools[q].local = <<>> /\ t.pools[q].remote = <<>>
    BY <2>1, <2>2, DestroyFacts
  <2>4. PICK h2 : h2 = held \ {p}
    OBVIOUS
  <2>5. \A q \in DOMAIN s.pools : LiveIn(t, h2, q) <=> LiveIn(s, held, q) /\ q \notin {p}
    BY <1>3, <2>1, <2>3, <2>4 DEF LiveIn
  <2>6. h2 \subseteq held /\ ToSet(t.poolList) \subseteq ToSet(s.poolList)
    BY <2>3, <2>4
  <2>7. \A q \in DOMAIN s.pools :
               /\ q \notin {p} => t.pools[q] = s.pools[q]
               /\ q \in {p} => t.pools[q].local = <<>> /\ t.pools[q].remote = <<>>
               /\ LiveIn(t, h2, q) <=> LiveIn(s, held, q) /\ q \notin {p}
    BY <2>3, <2>5
  <2>8. Good(t, h2, 0)
    BY <2>2, <2>3, <2>6, <2>7, Ended
  <2>9. m' = t
    BY <1>3, <2>1 DEF releasePool
  <2>. QED
    BY <1>1, <2>4, <2>8, <2>9 DEF Inv
<1>. QED
  BY <1>2, <1>3

\* get_conn of the manager turns two lists.
LEMMA GetConnStep == Inv /\ getConn => Inv'
<1>. SUFFICES ASSUME Inv, getConn PROVE Inv'
  OBVIOUS
<1>1. CASE m.poolList = <<>>
  BY <1>1 DEF getConn, Inv
<1>2. CASE m.poolList # <<>>
  <2>1. PICK t, p : t = [m EXCEPT !.poolList = Rotated(m.poolList)] /\ p = Head(m.poolList)
    OBVIOUS
  <2>2. p \in DOMAIN t.pools /\ Good(t, held, 0)
    BY <1>2, <2>1, FirstPool
  <2>3. Good(poolGetConn(t, p).s, held, 0)
    BY <2>2, GetConnGood
  <2>4. m' = poolGetConn(t, p).s /\ held' = held
    BY <1>2, <2>1 DEF getConn
  <2>. QED
    BY <2>3, <2>4 DEF Inv
<1>. QED
  BY <1>1, <1>2

\* onConnected: the handler of the pool, if it lives, lists the connection.
LEMMA ConnectedStep == ASSUME Inv, NEW c, onConnected(c) PROVE Inv'
<1>1. /\ c \in DOMAIN m.conns /\ ~m.conns[c].conn_state /\ held' = held
      /\ Good(m, held, 0) /\ Shape(m, held)
  BY DEF onConnected, Inv, Good
<1>2. PICK s, u : s = m /\ u = Up(m, c)
  OBVIOUS
<1>3. /\ Shape(u, held)
      /\ u.uniqueID = s.uniqueID /\ u.invokers = s.invokers /\ u.poolList = s.poolList
      /\ u.pools = s.pools /\ DOMAIN u.conns = DOMAIN s.conns
      /\ \A d \in DOMAIN s.conns : d # c => u.conns[d] = s.conns[d]
      /\ u.conns[c].conn_state /\ ~u.conns[c].dropped
      /\ u.conns[c].info = s.conns[c].info
      /\ u.conns[c].pool_index = s.conns[c].pool_index
      /\ u.conns[c].conn_dec_id = s.conns[c].conn_dec_id
      /\ u.conns[c].conn_inc_id = s.conns[c].conn_inc_id
  BY <1>1, <1>2, UpFacts
<1>4. Good(u, held, c)
  <2>1. u \in State
    BY <1>3 DEF Shape
  <2>. QED
    BY <1>1, <1>2, <1>3, <2>1, CameUp
<1>5. \A k : k \in Handlers("conn_inc", s.conns[c].conn_inc_id) <=>
             \E p \in DOMAIN s.pools : /\ LiveIn(s, held, p) /\ k = IncOf(s, p)
                                       /\ s.conns[c].conn_inc_id = s.pools[p].conn_inc_id
  <2>. SUFFICES ASSUME NEW k
                PROVE  k \in Handlers("conn_inc", s.conns[c].conn_inc_id) <=>
                       \E p \in DOMAIN s.pools : /\ LiveIn(s, held, p) /\ k = IncOf(s, p)
                                       /\ s.conns[c].conn_inc_id = s.pools[p].conn_inc_id
    OBVIOUS
  <2>1. k \in s.invokers <=> \E p \in DOMAIN s.pools :
            LiveIn(s, held, p) /\ (k = DecOf(s, p) \/ k = IncOf(s, p))
    BY <1>1, <1>2 DEF Good, BusOK
  <2>2. \A p : /\ DecOf(s, p).name = "conn_dec" /\ IncOf(s, p).name = "conn_inc"
               /\ IncOf(s, p).id = s.pools[p].conn_inc_id
    BY DEF DecOf, IncOf
  <2>3. k \in Handlers("conn_inc", s.conns[c].conn_inc_id) <=>
            k \in s.invokers /\ k.name = "conn_inc" /\ k.id = s.conns[c].conn_inc_id
    BY <1>2 DEF Handlers
  <2>4. "conn_dec" # "conn_inc"
    OBVIOUS
  <2>. QED
    BY <2>1, <2>2, <2>3, <2>4
<1>6. CASE m' = u /\ Handlers("conn_inc", s.conns[c].conn_inc_id) = {}
  <2>1. \A p \in DOMAIN u.pools : ~(LiveIn(u, held, p) /\ Belongs(u, c, p))
    BY <1>3, <1>5, <1>6 DEF LiveIn, Belongs
  <2>2. Good(u, held, 0)
    BY <1>1, <1>2, <1>3, <1>4, <2>1, Unheard
  <2>. QED
    BY <1>1, <1>6, <2>2 DEF Inv
<1>7. ASSUME NEW k \in Handlers("conn_inc", s.conns[c].conn_inc_id), NEW junk \in Junk,
             m' = onConnInc(u, k.obj, c, junk)
      PROVE  Inv'
  <2>1. PICK p \in DOMAIN s.pools : /\ LiveIn(s, held, p) /\ k = IncOf(s, p)
                                    /\ s.conns[c].conn_inc_id = s.pools[p].conn_inc_id
    BY <1>5
  <2>2. k.obj = p
    BY <2>1 DEF IncOf
  <2>3. c \in DOMAIN u.conns /\ p \in DOMAIN u.pools /\ LiveIn(u, held, p)
    BY <1>1, <1>2, <1>3, <2>1 DEF LiveIn
  <2>4. CASE u.conns[c].pool_index # u.pools[p]._id
    <3>1. m' = u
      BY <1>7, <2>2, <2>4 DEF onConnInc
    <3>2. \A q \in DOMAIN u.pools : ~Belongs(u, c, q)
      BY <1>1, <1>2, <1>3, <2>1, <2>4 DEF Belongs, Good, IdsOK
    <3>3. Good(u, held, 0)
      BY <1>4, <2>3, <3>2, Unheard
    <3>. QED
      BY <1>1, <3>1, <3>3 DEF Inv
  <2>5. CASE u.conns[c].pool_index = u.pools[p]._id
    <3>1. PICK t : t = IF Empty(u, p) THEN onPoolInc(u, p, junk) ELSE u
      OBVIOUS
    <3>2. /\ Good(t, held, c)
          /\ p \in DOMAIN t.pools /\ t.pools[p] = u.pools[p]
          /\ c \in DOMAIN t.conns /\ t.conns[c] = u.conns[c]
          /\ LiveIn(t, held, p)
      <4>1. CASE t = u
        BY <1>4, <2>3, <4>1
      <4>2. CASE t = add_pool(u, junk)
        <5>1. junk \in Int
          BY ConnAssumption
        <5>. QED
          BY <1>4, <2>3, <4>2, <5>1, AddPoolGood
      <4>. QED
        BY <3>1, <4>1, <4>2 DEF onPoolInc
    <3>3. Belongs(t, c, p)
      BY <1>3, <2>1, <2>5, <3>2 DEF Belongs
    <3>4. Good(poolAddConn(t, p, c), held, 0)
      BY <3>2, <3>3, AddConnGood
    <3>5. m' = poolAddConn(t, p, c)
      BY <1>7, <2>2, <2>5, <3>1 DEF onConnInc
    <3>. QED
      BY <1>1, <3>4, <3>5 DEF Inv
  <2>. QED
    BY <2>4, <2>5
<1>. QED
  BY <1>2, <1>6, <1>7 DEF onConnected, Up

\* onDisconnected: the pool drops the connection, and is given up with its last one.
LEMMA DisconnectedStep == ASSUME Inv, NEW c, onDisconnected(c) PROVE Inv'
<1>1. /\ c \in DOMAIN m.conns /\ held' = held /\ Good(m, held, 0) /\ Shape(m, held)
  BY DEF onDisconnected, Inv, Good
<1>2. PICK s, d : s = m /\ d = Down(m, c)
  OBVIOUS
<1>3. /\ Shape(d, held)
      /\ d.uniqueID = s.uniqueID /\ d.invokers = s.invokers /\ d.poolList = s.poolList
      /\ d.pools = s.pools /\ DOMAIN d.conns = DOMAIN s.conns
      /\ d.conns[c].pool_index = s.conns[c].pool_index
  BY <1>1, <1>2, DownFacts
<1>4. PICK p \in DOMAIN s.pools : HomeOf(s, c, p)
  BY <1>1, <1>2 DEF Good, HomesOK
<1>5. \A q \in DOMAIN s.pools : s.conns[c].conn_dec_id = s.pools[q].conn_dec_id
                                \/ s.conns[c].conn_inc_id = s.pools[q].conn_inc_id => q = p
  BY <1>1, <1>2, <1>4 DEF HomeOf, Good, IdsOK
<1>6. \A k : k \in Handlers("conn_dec", s.conns[c].conn_dec_id) <=>
             LiveIn(s, held, p) /\ k = DecOf(s, p)
  <2>. SUFFICES ASSUME NEW k
                PROVE  k \in Handlers("conn_dec", s.conns[c].conn_dec_id) <=>
                       LiveIn(s, held, p) /\ k = DecOf(s, p)
    OBVIOUS
  <2>1. k \in s.invokers <=> \E q \in DOMAIN s.pools :
            LiveIn(s, held, q) /\ (k = DecOf(s, q) \/ k = IncOf(s, q))
    BY <1>1, <1>2 DEF Good, BusOK
  <2>2. \A q : /\ DecOf(s, q).name = "conn_dec" /\ IncOf(s, q).name = "conn_inc"
               /\ DecOf(s, q).id = s.pools[q].conn_dec_id
    BY DEF DecOf, IncOf
  <2>3. k \in Handlers("conn_dec", s.conns[c].conn_dec_id) <=>
            k \in s.invokers /\ k.name = "conn_dec" /\ k.id = s.conns[c].conn_dec_id
    BY <1>2 DEF Handlers
  <2>4. "conn_dec" # "conn_inc" /\ s.conns[c].conn_dec_id = s.pools[p].conn_dec_id
    BY <1>4 DEF HomeOf
  <2>. QED
    BY <1>5, <2>1, <2>2, <2>3, <2>4
<1>7. ASSUME ~LiveIn(s, held, p) \/ s.conns[c].pool_index # s.pools[p]._id
      PROVE  Good(d, held, 0)
  <2>1. \A q \in DOMAIN s.pools : c \notin ListedIn(s.pools[q])
    BY <1>1, <1>2, <1>5, <1>7 DEF Good, ExactOK, Belongs
  <2>2. Good(s, held, 0) /\ c \in DOMAIN s.conns /\ d = Down(s, c)
    BY <1>1, <1>2
  <2>. QED
    BY <2>1, <2>2, LostUnlisted
<1>8. CASE m' = d /\ Handlers("conn_dec", s.conns[c].conn_dec_id) = {}
  <2>1. ~LiveIn(s, held, p)
    BY <1>6, <1>8
  <2>. QED
    BY <1>1, <1>7, <1>8, <2>1 DEF Inv
<1>9. ASSUME NEW k \in Handlers("conn_dec", s.conns[c].conn_dec_id), m' = onConnDec(d, k.obj, c)
      PROVE  Inv'
  <2>1. LiveIn(s, held, p) /\ k.obj = p
    BY <1>6 DEF DecOf
  <2>2. CASE d.conns[c].pool_index # d.pools[p]._id
    <3>1. m' = d
      BY <1>9, <2>1, <2>2 DEF onConnDec
    <3>2. Good(d, held, 0)
      BY <1>3, <1>7, <2>2
    <3>. QED
      BY <1>1, <3>1, <3>2 DEF Inv
  <2>3. CASE d.conns[c].pool_index = d.pools[p]._id
    <3>1. PICK w : w = poolDelConn(d, p, c)
      OBVIOUS
    <3>2. Good(s, held, 0) /\ c \in DOMAIN s.conns /\ d = Down(s, c)
      BY <1>1, <1>2
    <3>3. Good(w, held, 0)
      BY <1>4, <3>1, <3>2, DelConnGood
    <3>4. m' = w \/ m' = del_pool(w, d.pools[p]._id)
      BY <1>9, <2>1, <2>3, <3>1 DEF onConnDec
    <3>5. Good(del_pool(w, d.pools[p]._id), held, 0)
      BY <3>3, DelPoolGood
    <3>. QED
      BY <1>1, <3>3, <3>4, <3>5 DEF Inv
  <2>. QED
    BY <2>2, <2>3
<1>. QED
  BY <1>2, <1>8, <1>9 DEF onDisconnected, Down

\* The manager starts without pools.
LEMMA InitInv == Init => Inv
<1>. SUFFICES ASSUME Init PROVE Inv
  OBVIOUS
<1>1. /\ m.uniqueID = 2 /\ m.invokers = {} /\ m.infoList = <<>> /\ m.poolList = <<>>
      /\ m.pools = <<>> /\ m.conns = <<>> /\ held = {} /\ m \in State
  BY DEF Init, State
<1>2. DOMAIN <<>> = {} /\ ToSet(<<>>) = {}
  BY DEF ToSet
<1>3. Shape(m, held)
  BY <1>1, <1>2 DEF Shape
<1>4. IdsOK(m) /\ HomesOK(m) /\ SidesOK(m) /\ ExactOK(m, held, 0)
  BY <1>1, <1>2 DEF IdsOK, HomesOK, SidesOK, ExactOK
<1>5. BusOK(m, held)
  BY <1>1, <1>2 DEF BusOK
<1>. QED
  BY <1>3, <1>4, <1>5 DEF Inv, Good

\* No step of the application, the discovery or a connection disturbs it.
LEMMA StepInv == Inv /\ [Next]_vars => Inv'
<1>. SUFFICES ASSUME Inv, [Next]_vars PROVE Inv'
  OBVIOUS
<1>1. /\ Good(m, held, 0) /\ Shape(m, held)
      /\ held \subseteq DOMAIN m.pools /\ ToSet(m.poolList) \subseteq DOMAIN m.pools
      /\ m.infoList \in Seq(Infos) /\ m.poolList \in Seq(Nat)
  <2>1. Good(m, held, 0) /\ Shape(m, held)
    BY DEF Inv, Good
  <2>. QED
    BY <2>1, Fields DEF Shape
<1>2. Home \in Infos /\ Junk \subseteq Int
  BY ConnAssumption
<1>3. ASSUME addPool PROVE Inv'
  <2>1. PICK junk \in Junk : m' = add_pool(m, junk)
    BY <1>3 DEF addPool
  <2>2. junk \in Int /\ held' = held
    BY <1>2, <1>3 DEF addPool
  <2>3. Good(m', held, 0)
    BY <1>1, <2>1, <2>2, AddPoolGood
  <2>. QED
    BY <2>2, <2>3 DEF Inv
<1>4. ASSUME NEW p, delPool(p) PROVE Inv'
  <2>1. m' = del_pool(m, m.pools[p]._id) /\ held' = held
    BY <1>4 DEF delPool
  <2>2. Good(del_pool(m, m.pools[p]._id), held, 0)
    BY <1>1, DelPoolGood
  <2>. QED
    BY <2>1, <2>2 DEF Inv
<1>5. ASSUME NEW info \in Infos, m' = add_conn(m, info), held' = held PROVE Inv'
  <2>1. Good(add_conn(m, info), held, 0)
    BY <1>1, AddConnsGood
  <2>. QED
    BY <1>5, <2>1 DEF Inv
<1>6. ASSUME NEW info \in Infos, delConn(info) PROVE Inv'
  <2>1. PICK infos : infos = Without(m.infoList, {info})
    OBVIOUS
  <2>2. infos \in Seq(Infos)
    BY <1>1, <2>1, WithoutFacts
  <2>3. PICK t : t = [m EXCEPT !.infoList = infos]
    OBVIOUS
  <2>4. Good(t, held, 0)
    BY <1>1, <2>2, <2>3, ManagerLists
  <2>5. t.pools = m.pools
    BY <1>1, <2>3 DEF Shape, State
  <2>6. m' = poolsDelInfo(t, ToSet(m.poolList), info) /\ held' = held
    BY <1>6, <2>1, <2>3 DEF delConn
  <2>7. Good(poolsDelInfo(t, ToSet(m.poolList), info), held, 0)
    BY <1>1, <2>4, <2>5, DelInfoGood
  <2>. QED
    BY <2>6, <2>7 DEF Inv
<1>7. ASSUME NEW p, getConnOf(p) PROVE Inv'
  <2>1. p \in DOMAIN m.pools /\ m' = poolGetConn(m, p).s /\ held' = held
    BY <1>1, <1>7 DEF getConnOf
  <2>2. Good(poolGetConn(m, p).s, held, 0)
    BY <1>1, <2>1, GetConnGood
  <2>. QED
    BY <2>1, <2>2 DEF Inv
<1>8. ASSUME NEW p, NEW info \in Infos, addConnTo(p, info) PROVE Inv'
  <2>1. p \in DOMAIN m.pools /\ m' = poolAddInfo(m, p, info) /\ held' = held
    BY <1>1, <1>8 DEF addConnTo
  <2>2. Good(poolAddInfo(m, p, info), held, 0)
    BY <1>1, <2>1, AddInfoGood
  <2>. QED
    BY <2>1, <2>2 DEF Inv
<1>9. ASSUME NEW p, NEW info \in Infos, delConnOf(p, info) PROVE Inv'
  <2>1. {p} \subseteq DOMAIN m.pools /\ m' = poolsDelInfo(m, {p}, info) /\ held' = held
    BY <1>1, <1>9 DEF delConnOf
  <2>2. Good(poolsDelInfo(m, {p}, info), held, 0)
    BY <1>1, <2>1, DelInfoGood
  <2>. QED
    BY <2>1, <2>2 DEF Inv
<1>10. CASE UNCHANGED vars
  BY <1>10 DEF vars, Inv
<1>11. getConnInfo => Inv'
  BY <1>2, <1>5 DEF getConnInfo
<1>12. ASSUME NEW info \in Infos, addConn(info) PROVE Inv'
  BY <1>5, <1>12 DEF addConn
<1>13. CASE Next
  <2>1. \/ addPool \/ getPool \/ getConn \/ getConnInfo
        \/ \E info \in Infos : addConn(info) \/ delConn(info)
        \/ \E p \in Pools : \/ delPool(p) \/ releasePool(p) \/ getConnOf(p)
                            \/ \E info \in Infos : addConnTo(p, info) \/ delConnOf(p, info)
        \/ \E c \in Conns : onConnected(c) \/ onDisconnected(c)
    BY <1>13 DEF Next
  <2>. QED
    BY <1>3, <1>4, <1>6, <1>7, <1>8, <1>9, <1>11, <1>12, <2>1,
       GetPoolStep, GetConnStep, ReleaseStep, ConnectedStep, DisconnectedStep
<1>. QED
  BY <1>10, <1>13

-----------------------------------------------------------------------------
(* Theorems *)

\* The objects of the connection manager fit together after any sequence of calls of the
\* application, of the discovery's timer and of the connections.
THEOREM PoolsInvariant == Spec => []Inv
<1>1. Inv /\ [Next]_vars => Inv'
  BY StepInv
<1>. QED
  BY InitInv, <1>1, PTL DEF Spec

\* However onConnInc, onConnDec, del_conn, del_pool and the destructor follow each other, the
\* two lists of a pool hold each of its connections that is up, once, and nothing else: what
\* get_conn hands out is never known to be lost.
THEOREM ListsProved == Spec => []ListsExact
<1>1. Inv => ListsExact
  <2>. SUFFICES ASSUME Inv, NEW p \in DOMAIN m.pools
                PROVE  /\ IsInjective(m.pools[p].local \o m.pools[p].remote)
                       /\ Listed(p) = {c \in DOMAIN m.conns :
                              /\ Live(p) /\ m.conns[c].conn_inc_id = m.pools[p].conn_inc_id
                              /\ m.conns[c].pool_index = m.pools[p]._id
                              /\ m.conns[c].conn_state /\ ~m.conns[c].dropped}
    BY DEF ListsExact
  <2>1. PICK pool : pool = m.pools[p]
    OBVIOUS
  <2>2. /\ pool.local \in Seq(Nat) /\ pool.remote \in Seq(Nat)
        /\ DOMAIN m.conns \subseteq Nat \ {0}
    <3>1. Shape(m, held)
      BY DEF Inv, Good
    <3>2. /\ Len(m.conns) \in Nat /\ DOMAIN m.conns = 1 .. Len(m.conns)
          /\ m.pools[p] \in Pool
      BY <3>1, Fields
    <3>. QED
      BY <2>1, <3>2 DEF Pool
  <2>3. /\ IsInjective(pool.local) /\ IsInjective(pool.remote)
        /\ \A c \in ToSet(pool.local) : c \in DOMAIN m.conns /\ m.conns[c].info \in Local
        /\ \A c \in ToSet(pool.remote) : c \in DOMAIN m.conns /\ m.conns[c].info \notin Local
    BY <2>1 DEF Inv, Good, SidesOK
  <2>4. ToSet(pool.local) \cap ToSet(pool.remote) = {}
    BY <2>3
  <2>5. IsInjective(pool.local \o pool.remote)
    BY <2>2, <2>3, <2>4, ConcatInjective
  <2>6. Listed(p) \subseteq DOMAIN m.conns
    BY <2>1, <2>3 DEF Listed, ListedIn
  <2>7. \A c \in DOMAIN m.conns :
            c \in Listed(p) <=> /\ Live(p) /\ m.conns[c].conn_inc_id = m.pools[p].conn_inc_id
                                /\ m.conns[c].pool_index = m.pools[p]._id
                                /\ m.conns[c].conn_state /\ ~m.conns[c].dropped
    <3>1. \A c \in DOMAIN m.conns :
              c \in Listed(p) <=> c # 0 /\ LiveIn(m, held, p) /\ Belongs(m, c, p)
      BY DEF Inv, Good, ExactOK, Listed
    <3>2. \A c \in DOMAIN m.conns : c # 0
      BY <2>2
    <3>3. Live(p) <=> LiveIn(m, held, p)
      BY DEF Live, LiveIn
    <3>. QED
      BY <3>1, <3>2, <3>3 DEF Belongs
  <2>. QED
    BY <2>1, <2>5, <2>6, <2>7
<1>. QED
  BY <1>1, PoolsInvariant, PTL

\* The bus holds the bare pointers that connPool's constructor gave it: they are those of the
\* pools that the manager or the user still has, since ~connPool takes both of its own out.
THEOREM HandlersProved == Spec => []HandlersLive
<1>1. Inv => HandlersLive
  <2>. SUFFICES ASSUME Inv
                PROVE  \A k : k \in m.invokers <=> \E p \in {q \in DOMAIN m.pools : Live(q)} :
                           k \in {[name |-> "conn_dec", obj |-> p, id |-> m.pools[p].conn_dec_id],
                                  [name |-> "conn_inc", obj |-> p, id |-> m.pools[p].conn_inc_id]}
    <3>1. \A k : k \in UNION {{[name |-> "conn_dec", obj |-> p, id |-> m.pools[p].conn_dec_id],
                               [name |-> "conn_inc", obj |-> p, id |-> m.pools[p].conn_inc_id]} :
                              p \in {q \in DOMAIN m.pools : Live(q)}}
               <=> \E p \in {q \in DOMAIN m.pools : Live(q)} :
                       k \in {[name |-> "conn_dec", obj |-> p, id |-> m.pools[p].conn_dec_id],
                              [name |-> "conn_inc", obj |-> p, id |-> m.pools[p].conn_inc_id]}
      OBVIOUS
    <3>. QED
      BY <3>1, Zenon DEF HandlersLive
  <2>1. \A k : k \in m.invokers <=> \E p \in DOMAIN m.pools :
                   LiveIn(m, held, p) /\ (k = DecOf(m, p) \/ k = IncOf(m, p))
    BY DEF Inv, Good, BusOK
  <2>2. \A p : Live(p) <=> LiveIn(m, held, p)
    BY DEF Live, LiveIn
  <2>. QED
    BY <2>1, <2>2, Zenon DEF DecOf, IncOf
<1>. QED
  BY <1>1, PoolsInvariant, PTL

=============================================================================
