----------------------------- MODULE Dict_proofs -----------------------------
(***************************************************************************)
(* The hash table of hiredis for any keys, values, initial size and width of  *)
(* the hash: the table keeps its shape through every resize, a walk that      *)
(* deletes what it is given is complete, and the table implements a map.      *)
(*                                                                           *)
(* The operators of dict.c are recursive functions here, and what they        *)
(* compute are inductions over the table: Moved and Spread keep a table's     *)
(* content, the set of its entries.  The rest of the proof speaks of that set. *)
(***************************************************************************)
EXTENDS Dict, FiniteSetTheorems, SequenceTheorems, WellFoundedInduction, TLAPS

Entry == [key : Keys, val : Vals]

\* No key is twice in a chain.
Apart(chain) == \A i, j \in DOMAIN chain : chain[i].key = chain[j].key => i = j

\* A table of n chains, each entry in the slot of its key.
Table(n, t) ==
    /\ n \in Nat /\ t \in [0 .. n - 1 -> Seq(Entry)]
    /\ \A h \in 0 .. n - 1 : Apart(t[h]) /\ \A i \in DOMAIN t[h] : Slot(t[h][i].key, n) = h

Content(t) == UNION {ToSet(t[h]) : h \in DOMAIN t}
KeysIn(t) == UNION {KeysOf(t[h]) : h \in DOMAIN t}

\* The initial size after k doublings.
Doubles(d, k) == /\ d \in [0 .. k -> Nat] /\ d[0] = InitialSize
                 /\ \A i \in 1 .. k : d[i] = 2 * d[i - 1]

Power(n) == \E k \in Nat : \E d : Doubles(d, k) /\ n = d[k]

SizeOK == size = 0 \/ Power(size)

CountOK == /\ IsFiniteSet(Stored) /\ used = Cardinality(Stored) /\ used <= size
           /\ copies = used

\* What the iterator has behind it: the slots before its own, and in its own slot what is
\* before the successor that it saved.
Passed(h, i) ==
    \/ h < iter.index
    \/ h = iter.index /\ \A j \in DOMAIN table[h] : table[h][j].key = iter.next => i < j

IterType == [on : BOOLEAN, index : Int, entry : Keys \cup {NoKey}, next : Keys \cup {NoKey},
             todo : SUBSET Keys, seen : Seq(Keys)]

\* It has returned exactly the entries behind it, and those that were deleted since.
WalkOK ==
    /\ iter \in IterType
    /\ iter.on =>
        /\ iter.index \in -1 .. size
        /\ IsInjective(iter.seen)
        /\ iter.todo = Stored \cup ToSet(iter.seen)
        /\ iter.entry # NoKey => iter.entry \in ToSet(iter.seen)
        /\ iter.next # NoKey => iter.index \in 0 .. size - 1 /\ iter.next \in KeysOf(table[iter.index])
        /\ \A h \in 0 .. size - 1 : \A i \in DOMAIN table[h] :
              table[h][i].key \in ToSet(iter.seen) <=> Passed(h, i)

Inv == Table(size, table) /\ SizeOK /\ CountOK /\ WalkOK

-----------------------------------------------------------------------------
(* Recursion and induction *)

\* Induction on natural numbers, for a set.
LEMMA Induction ==
    ASSUME NEW S \in SUBSET Nat, 0 \in S, \A n \in S : n + 1 \in S
    PROVE  S = Nat
<1>. SUFFICES ASSUME S # Nat PROVE FALSE
  OBVIOUS
<1>1. PICK n \in Nat \ S : \A k \in Nat \ S : ~(<<k, n>> \in OpToRel(<, Nat))
  BY WFMin, NatLessThanWellFounded
<1>2. \A k \in Nat \ S : ~(k < n)
  BY <1>1 DEF OpToRel
<1>3. n \in Nat /\ n \notin S
  OBVIOUS
<1>4. n # 0 /\ n - 1 \in Nat /\ n - 1 < n /\ (n - 1) + 1 = n
  BY <1>3
<1>5. n - 1 \in S
  BY <1>2, <1>4
<1>. QED
  BY <1>3, <1>4, <1>5

\* The same up to a bound.
LEMMA InductionTo ==
    ASSUME NEW n \in Nat, NEW G, 0 \in G, \A i \in 0 .. n - 1 : i \in G => i + 1 \in G
    PROVE  \A i \in 0 .. n : i \in G
<1>. DEFINE S == {i \in Nat : i <= n => i \in G}
<1>1. 0 \in S
  OBVIOUS
<1>2. ASSUME NEW i \in S PROVE i + 1 \in S
  <2>1. i \in Nat /\ i + 1 \in Nat
    OBVIOUS
  <2>2. i + 1 <= n => i + 1 \in G
    BY <2>1
  <2>. QED
    BY <2>1, <2>2
<1>3. S \in SUBSET Nat
  OBVIOUS
<1>. HIDE DEF S
<1>4. S = Nat
  BY <1>1, <1>2, <1>3, Induction
<1>. QED
  BY <1>4 DEF S

IsRecursion(S, a, n, F, f) ==
    f \in [0 .. n -> S] /\ f[0] = a /\ \A i \in 1 .. n : f[i] = F[i][f[i - 1]]

\* There is a function for every primitive recursion within a set.
LEMMA Recursion ==
    ASSUME NEW S, NEW a \in S, NEW n \in Nat, NEW F \in [1 .. n -> [S -> S]]
    PROVE  \E f : IsRecursion(S, a, n, F, f)
<1>. DEFINE Rec(f, k) == f \in [0 .. k -> S] /\ f[0] = a /\ \A i \in 1 .. k : f[i] = F[i][f[i - 1]]
            G == {k \in Nat : \E f : Rec(f, k)}
<1>1. 0 \in G
  <2>1. Rec([i \in 0 .. 0 |-> a], 0)
    OBVIOUS
  <2>. QED
    BY <2>1
<1>2. ASSUME NEW k \in 0 .. n - 1, k \in G PROVE k + 1 \in G
  <2>1. PICK f : Rec(f, k)
    BY <1>2
  <2>2. k \in Nat /\ k + 1 \in 1 .. n /\ f[k] \in S
    BY <2>1
  <2>3. PICK g : g = [i \in 0 .. k + 1 |-> IF i = k + 1 THEN F[k + 1][f[k]] ELSE f[i]]
    OBVIOUS
  <2>4. g \in [0 .. k + 1 -> S] /\ g[0] = a
    BY <2>1, <2>2, <2>3
  <2>5. ASSUME NEW i \in 1 .. k + 1 PROVE g[i] = F[i][g[i - 1]]
    <3>1. CASE i = k + 1
      BY <2>2, <2>3, <3>1
    <3>2. CASE i # k + 1
      <4>1. i \in 1 .. k /\ i - 1 \in 0 .. k /\ i - 1 # k + 1
        BY <2>2, <3>2
      <4>. QED
        BY <2>1, <2>2, <2>3, <3>2, <4>1
    <3>. QED
      BY <3>1, <3>2
  <2>6. Rec(g, k + 1)
    BY <2>4, <2>5
  <2>7. k + 1 \in Nat
    BY <2>2
  <2>. HIDE DEF Rec
  <2>. QED
    BY <2>6, <2>7
<1>. HIDE DEF G
<1>3. \A k \in 0 .. n - 1 : k \in G => k + 1 \in G
  BY <1>2
<1>4. \A k \in 0 .. n : k \in G
  BY <1>1, <1>3, InductionTo
<1>5. n \in G
  BY <1>4
<1>. QED
  BY <1>5 DEF G, IsRecursion

-----------------------------------------------------------------------------
(* The hash and the size *)

\* A remainder is smaller than what one divides by.
LEMMA ModFacts ==
    ASSUME NEW a \in Int, NEW n \in Nat \ {0}
    PROVE  a % n \in 0 .. n - 1
OBVIOUS

\* The recursion of dictGenHashFunction.
HashBody(buf, f, i) == IF i = 0 THEN 5381 ELSE (f[i - 1] * 33 + buf[i]) % HashMod
IsHash(buf, f, n) == f = [i \in 0 .. n |-> HashBody(buf, f, i)]

\* The hash of a key is a number.
LEMMA HashType ==
    ASSUME NEW buf \in Seq(0 .. 255)
    PROVE  dictGenHashFunction(buf) \in Nat
<1>1. PICK n \in Nat : n = Len(buf) /\ \A i \in 1 .. n : buf[i] \in 0 .. 255
  BY LenProperties, ElementOfSeq
<1>2. HashMod \in Nat \ {0}
  BY DictAssumption
<1>3. PICK F : F = [i \in 1 .. n |-> [x \in Nat |-> (x * 33 + buf[i]) % HashMod]]
  OBVIOUS
<1>4. ASSUME NEW i \in 1 .. n, NEW x \in Nat PROVE (x * 33 + buf[i]) % HashMod \in Nat
  <2>1. PICK b \in 0 .. 255 : b = buf[i]
    BY <1>1
  <2>2. x * 33 + b \in Int
    OBVIOUS
  <2>3. (x * 33 + b) % HashMod \in 0 .. HashMod - 1
    BY <1>2, <2>2, ModFacts
  <2>. QED
    BY <1>2, <2>1, <2>3
<1>5. F \in [1 .. n -> [Nat -> Nat]]
  BY <1>3, <1>4
<1>0. PICK a \in Nat : a = 5381
  OBVIOUS
<1>6. PICK f : IsRecursion(Nat, a, n, F, f)
  BY <1>5, Recursion, Zenon
<1>7. IsHash(buf, f, n)
  <2>1. ASSUME NEW i \in 1 .. n PROVE f[i] = (f[i - 1] * 33 + buf[i]) % HashMod
    <3>1. PICK y \in Nat : y = f[i - 1]
      BY <1>6 DEF IsRecursion
    <3>2. F[i][y] = (y * 33 + buf[i]) % HashMod
      BY <1>3
    <3>. QED
      BY <1>6, <3>1, <3>2 DEF IsRecursion
  <2>2. \A i \in 0 .. n : f[i] = HashBody(buf, f, i)
    BY <1>0, <1>6, <2>1 DEF HashBody, IsRecursion
  <2>. QED
    BY <1>6, <2>2 DEF IsHash, IsRecursion
<1>8. PICK g : g = CHOOSE h : IsHash(buf, h, n)
  OBVIOUS
<1>9. IsHash(buf, g, n)
  BY <1>7, <1>8
<1>10. dictGenHashFunction(buf) = g[n]
  BY <1>1, <1>8 DEF dictGenHashFunction, IsHash, HashBody
<1>. DEFINE G == {i \in 0 .. n : g[i] \in Nat}
<1>11. 0 \in G
  BY <1>9 DEF IsHash, HashBody
<1>12. ASSUME NEW i \in 0 .. n - 1, i \in G PROVE i + 1 \in G
  <2>1. i + 1 \in 1 .. n /\ i + 1 \in 0 .. n /\ i + 1 # 0 /\ (i + 1) - 1 = i
    OBVIOUS
  <2>2. g[i + 1] = (g[i] * 33 + buf[i + 1]) % HashMod
    BY <1>9, <2>1 DEF IsHash, HashBody
  <2>3. g[i] \in Nat
    BY <1>12
  <2>4. g[i + 1] \in Nat
    BY <1>4, <2>1, <2>2, <2>3
  <2>. QED
    BY <2>1, <2>4
<1>. HIDE DEF G
<1>13. \A i \in 0 .. n - 1 : i \in G => i + 1 \in G
  BY <1>12
<1>14. \A i \in 0 .. n : i \in G
  BY <1>11, <1>13, InductionTo
<1>. QED
  BY <1>10, <1>14 DEF G

\* A key has a slot in every table.
LEMMA SlotType ==
    ASSUME NEW k \in Keys, NEW n \in Nat \ {0}
    PROVE  Slot(k, n) \in 0 .. n - 1
<1>1. dictGenHashFunction(k) \in Int
  BY DictAssumption, HashType
<1>. QED
  BY <1>1, ModFacts DEF Slot

\* The recursion of _dictNextPower.
PowerBody(n, f, r) ==
    IF r = 0 THEN InitialSize ELSE IF f[r - 1] >= n THEN f[r - 1] ELSE f[r - 1] * 2
IsPower(n, f) == f = [r \in 0 .. n |-> PowerBody(n, f, r)]

\* The rounds of _dictNextPower.
LEMMA PowerRounds ==
    ASSUME NEW n \in Nat
    PROVE  \E f : /\ _dictNextPower(n) = f[n] /\ f[0] = InitialSize
                  /\ \A r \in 1 .. n : f[r] = IF f[r - 1] >= n THEN f[r - 1] ELSE f[r - 1] * 2
<1>1. InitialSize \in Nat
  BY DictAssumption
<1>2. PICK F : F = [r \in 1 .. n |-> [x \in Nat |-> IF x >= n THEN x ELSE x * 2]]
  OBVIOUS
<1>3. F \in [1 .. n -> [Nat -> Nat]]
  BY <1>2
<1>4. PICK f : IsRecursion(Nat, InitialSize, n, F, f)
  BY <1>1, <1>3, Recursion, Zenon
<1>5. IsPower(n, f)
  <2>1. ASSUME NEW r \in 1 .. n
        PROVE  f[r] = IF f[r - 1] >= n THEN f[r - 1] ELSE f[r - 1] * 2
    <3>1. PICK y \in Nat : y = f[r - 1]
      BY <1>4 DEF IsRecursion
    <3>2. F[r][y] = IF y >= n THEN y ELSE y * 2
      BY <1>2
    <3>. QED
      BY <1>4, <3>1, <3>2 DEF IsRecursion
  <2>2. \A r \in 0 .. n : f[r] = PowerBody(n, f, r)
    BY <1>4, <2>1 DEF PowerBody, IsRecursion
  <2>. QED
    BY <1>4, <2>2 DEF IsPower, IsRecursion
<1>6. PICK g : g = CHOOSE h : IsPower(n, h)
  OBVIOUS
<1>7. IsPower(n, g)
  BY <1>5, <1>6
<1>8. _dictNextPower(n) = g[n]
  BY <1>6 DEF _dictNextPower, IsPower, PowerBody
<1>9. \A r \in 0 .. n : g[r] = PowerBody(n, g, r)
  BY <1>7 DEF IsPower
<1>10. /\ g[0] = InitialSize
       /\ \A r \in 1 .. n : g[r] = IF g[r - 1] >= n THEN g[r - 1] ELSE g[r - 1] * 2
  <2>1. 0 \in 0 .. n /\ \A r \in 1 .. n : r \in 0 .. n /\ r # 0
    OBVIOUS
  <2>. QED
    BY <1>9, <2>1 DEF PowerBody
<1>. QED
  BY <1>8, <1>10

\* Doublings grow, and faster than their number.
LEMMA DoublesGrow ==
    ASSUME NEW k \in Nat, NEW d, Doubles(d, k)
    PROVE  \A j \in 0 .. k : d[j] > j /\ \A i \in 0 .. j : i < j => d[i] < d[j]
<1>1. InitialSize \in Nat \ {0}
  BY DictAssumption
<1>. DEFINE G == {j \in 0 .. k : d[j] > j /\ \A i \in 0 .. j : i < j => d[i] < d[j]}
<1>2. 0 \in G
  BY <1>1 DEF Doubles
<1>3. ASSUME NEW j \in 0 .. k - 1, j \in G PROVE j + 1 \in G
  <2>1. j + 1 \in 1 .. k /\ j + 1 \in 0 .. k /\ (j + 1) - 1 = j
    OBVIOUS
  <2>2. d[j + 1] = 2 * d[j] /\ d[j] \in Nat
    BY <2>1 DEF Doubles
  <2>3. d[j] > j /\ \A i \in 0 .. j : i < j => d[i] < d[j]
    BY <1>3
  <2>4. d[j + 1] > j + 1 /\ d[j] < d[j + 1]
    BY <2>2, <2>3
  <2>5. ASSUME NEW i \in 0 .. j + 1, i < j + 1 PROVE d[i] < d[j + 1]
    <3>1. i \in 0 .. j /\ d[i] \in Nat /\ (i < j \/ i = j)
      BY <2>1, <2>5 DEF Doubles
    <3>. QED
      BY <2>2, <2>3, <2>4, <3>1
  <2>. QED
    BY <2>1, <2>4, <2>5
<1>. HIDE DEF G
<1>4. \A j \in 0 .. k - 1 : j \in G => j + 1 \in G
  BY <1>3
<1>5. \A j \in 0 .. k : j \in G
  BY <1>2, <1>4, InductionTo
<1>. QED
  BY <1>5 DEF G

\* _dictNextPower leaves a size as it is.
LEMMA NextPower ==
    ASSUME NEW n, Power(n)
    PROVE  n \in Nat \ {0} /\ _dictNextPower(n) = n
<1>1. PICK k \in Nat : \E d : Doubles(d, k) /\ n = d[k]
  BY DEF Power
<1>2. PICK d : Doubles(d, k) /\ n = d[k]
  BY <1>1
<1>3. \A j \in 0 .. k : d[j] > j /\ \A i \in 0 .. j : i < j => d[i] < d[j]
  BY <1>2, DoublesGrow
<1>4. /\ n \in Nat /\ k < n /\ d[0] = InitialSize /\ \A i \in 1 .. k : d[i] = 2 * d[i - 1]
      /\ \A i \in 0 .. k : d[i] \in Nat /\ (i < k => d[i] < n)
  BY <1>2, <1>3 DEF Doubles
<1>5. PICK f : /\ _dictNextPower(n) = f[n] /\ f[0] = InitialSize
               /\ \A r \in 1 .. n : f[r] = IF f[r - 1] >= n THEN f[r - 1] ELSE f[r - 1] * 2
  BY <1>4, PowerRounds
<1>. DEFINE G == {r \in 0 .. n : (r <= k => f[r] = d[r]) /\ (r >= k => f[r] = n)}
<1>6. 0 \in G
  BY <1>2, <1>4, <1>5
<1>7. ASSUME NEW r \in 0 .. n - 1, r \in G PROVE r + 1 \in G
  <2>1. r + 1 \in 1 .. n /\ r + 1 \in 0 .. n /\ (r + 1) - 1 = r
    BY <1>4
  <2>2. f[r + 1] = IF f[r] >= n THEN f[r] ELSE f[r] * 2
    BY <1>5, <2>1
  <2>3. (r <= k => f[r] = d[r]) /\ (r >= k => f[r] = n)
    BY <1>7
  <2>4. CASE r < k
    <3>1. r + 1 \in 1 .. k /\ r \in 0 .. k
      BY <2>4
    <3>2. d[r + 1] = 2 * d[r] /\ d[r] < n /\ d[r] \in Nat /\ f[r] = d[r]
      BY <1>4, <2>1, <2>3, <2>4, <3>1
    <3>3. f[r + 1] = d[r + 1]
      BY <1>4, <2>2, <3>2
    <3>. QED
      BY <1>2, <2>1, <2>4, <3>3
  <2>5. CASE r >= k
    <3>1. f[r + 1] = n
      BY <1>4, <2>2, <2>3, <2>5
    <3>. QED
      BY <2>1, <2>5, <3>1
  <2>. QED
    BY <2>4, <2>5
<1>. HIDE DEF G
<1>8. \A r \in 0 .. n - 1 : r \in G => r + 1 \in G
  BY <1>7
<1>9. \A r \in 0 .. n : r \in G
  BY <1>4, <1>6, <1>8, InductionTo
<1>10. f[n] = n
  BY <1>4, <1>9 DEF G
<1>. QED
  BY <1>4, <1>5, <1>10

\* The initial size is one, and so is the double of one.
LEMMA PowerDoubles ==
    /\ Power(InitialSize)
    /\ \A n : Power(n) => Power(n * 2)
<1>1. InitialSize \in Nat
  BY DictAssumption
<1>2. Power(InitialSize)
  <2>1. PICK d : d = [i \in 0 .. 0 |-> InitialSize]
    OBVIOUS
  <2>2. Doubles(d, 0) /\ d[0] = InitialSize
    BY <1>1, <2>1 DEF Doubles
  <2>. QED
    BY <2>2 DEF Power
<1>3. ASSUME NEW n, Power(n) PROVE Power(n * 2)
  <2>1. PICK k \in Nat : \E d : Doubles(d, k) /\ n = d[k]
    BY <1>3 DEF Power
  <2>2. PICK d : Doubles(d, k) /\ n = d[k]
    BY <2>1
  <2>3. PICK e : e = [i \in 0 .. k + 1 |-> IF i = k + 1 THEN n * 2 ELSE d[i]]
    OBVIOUS
  <2>4. n \in Nat
    BY <2>2 DEF Doubles
  <2>5. e \in [0 .. k + 1 -> Nat] /\ e[0] = InitialSize /\ e[k + 1] = n * 2
    BY <2>2, <2>3, <2>4 DEF Doubles
  <2>6. ASSUME NEW i \in 1 .. k + 1 PROVE e[i] = 2 * e[i - 1]
    <3>1. CASE i = k + 1
      BY <2>2, <2>3, <2>4, <3>1
    <3>2. CASE i # k + 1
      <4>1. i \in 1 .. k /\ i - 1 \in 0 .. k + 1 /\ i - 1 # k + 1
        BY <3>2
      <4>2. e[i] = d[i] /\ e[i - 1] = d[i - 1]
        BY <2>3, <3>2, <4>1
      <4>. QED
        BY <2>2, <4>1, <4>2 DEF Doubles
    <3>. QED
      BY <3>1, <3>2
  <2>7. Doubles(e, k + 1) /\ k + 1 \in Nat
    BY <2>5, <2>6 DEF Doubles
  <2>. QED
    BY <2>5, <2>7 DEF Power
<1>. QED
  BY <1>2, <1>3

-----------------------------------------------------------------------------
(* Chains and tables *)

\* A chain as its indexes show it.
LEMMA ChainFacts ==
    ASSUME NEW c \in Seq(Entry)
    PROVE  /\ Len(c) \in Nat /\ DOMAIN c = 1 .. Len(c)
           /\ \A i \in DOMAIN c : c[i] \in Entry /\ c[i].key \in Keys /\ c[i].val \in Vals
           /\ \A e : e \in ToSet(c) <=> \E i \in DOMAIN c : e = c[i]
           /\ ToSet(c) \subseteq Entry
           /\ KeysOf(c) = {e.key : e \in ToSet(c)}
<1>1. Len(c) \in Nat /\ DOMAIN c = 1 .. Len(c) /\ \A i \in DOMAIN c : c[i] \in Entry
  BY LenProperties, ElementOfSeq
<1>2. \A i \in DOMAIN c : c[i].key \in Keys /\ c[i].val \in Vals
  BY <1>1 DEF Entry
<1>3. \A e : e \in ToSet(c) <=> \E i \in DOMAIN c : e = c[i]
  BY DEF ToSet
<1>4. KeysOf(c) = {e.key : e \in ToSet(c)}
  BY <1>3 DEF KeysOf
<1>. QED
  BY <1>1, <1>2, <1>3, <1>4

\* A table as its content shows it: the slot of a key is where its entry is.
LEMMA TableFacts ==
    ASSUME NEW n, NEW t, Table(n, t)
    PROVE  /\ n \in Nat /\ DOMAIN t = 0 .. n - 1 /\ \A h \in 0 .. n - 1 : t[h] \in Seq(Entry)
           /\ Content(t) \subseteq Entry
           /\ \A h \in 0 .. n - 1 : \A e : e \in ToSet(t[h]) <=> e \in Content(t) /\ Slot(e.key, n) = h
           /\ KeysIn(t) = {e.key : e \in Content(t)}
           /\ KeysIn(t) \subseteq Keys
           /\ \A e, f \in Content(t) : e.key = f.key => e = f
           /\ \A h \in 0 .. n - 1 : Apart(t[h])
<1>1. n \in Nat /\ DOMAIN t = 0 .. n - 1 /\ \A h \in 0 .. n - 1 : t[h] \in Seq(Entry)
  BY DEF Table
<1>2. \A h \in 0 .. n - 1 : \A i \in DOMAIN t[h] : Slot(t[h][i].key, n) = h
  BY DEF Table
<1>3. \A h \in 0 .. n - 1 : /\ ToSet(t[h]) \subseteq Entry
                            /\ \A e : e \in ToSet(t[h]) <=> \E i \in DOMAIN t[h] : e = t[h][i]
                            /\ KeysOf(t[h]) = {e.key : e \in ToSet(t[h])}
  BY <1>1, ChainFacts
<1>4. \A e : e \in Content(t) <=> \E h \in 0 .. n - 1 : e \in ToSet(t[h])
  BY <1>1 DEF Content
<1>5. Content(t) \subseteq Entry
  BY <1>3, <1>4
<1>6. \A h \in 0 .. n - 1 : \A e \in ToSet(t[h]) : Slot(e.key, n) = h
  BY <1>2, <1>3
<1>7. \A h \in 0 .. n - 1 : \A e : e \in ToSet(t[h]) <=> e \in Content(t) /\ Slot(e.key, n) = h
  BY <1>4, <1>6
<1>8. KeysIn(t) = {e.key : e \in Content(t)}
  BY <1>1, <1>3, <1>4 DEF KeysIn
<1>9. KeysIn(t) \subseteq Keys
  BY <1>5, <1>8 DEF Entry
<1>10. \A h \in 0 .. n - 1 : Apart(t[h])
  BY DEF Table
<1>11. ASSUME NEW e \in Content(t), NEW f \in Content(t), e.key = f.key PROVE e = f
  <2>1. PICK h \in 0 .. n - 1 : e \in ToSet(t[h])
    BY <1>4
  <2>2. f \in ToSet(t[h])
    BY <1>7, <1>11, <2>1
  <2>3. PICK i \in DOMAIN t[h], j \in DOMAIN t[h] : e = t[h][i] /\ f = t[h][j]
    BY <1>3, <2>1, <2>2
  <2>4. i = j
    BY <1>10, <1>11, <2>3 DEF Apart
  <2>. QED
    BY <2>3, <2>4
<1>. QED
  BY <1>1, <1>5, <1>7, <1>8, <1>9, <1>10, <1>11

\* One chain is replaced.
LEMMA ChainReplaced ==
    ASSUME NEW n, NEW t, Table(n, t), NEW h \in 0 .. n - 1, NEW c \in Seq(Entry), Apart(c),
           \A e \in ToSet(c) : Slot(e.key, n) = h,
           NEW u, u = [t EXCEPT ![h] = c]
    PROVE  /\ Table(n, u)
           /\ \A e : e \in Content(u) <=> e \in ToSet(c) \/ (e \in Content(t) /\ Slot(e.key, n) # h)
<1>1. /\ n \in Nat /\ t \in [0 .. n - 1 -> Seq(Entry)] /\ DOMAIN t = 0 .. n - 1
      /\ \A g \in 0 .. n - 1 : Apart(t[g]) /\ \A i \in DOMAIN t[g] : Slot(t[g][i].key, n) = g
  BY DEF Table
<1>2. /\ u \in [0 .. n - 1 -> Seq(Entry)] /\ DOMAIN u = 0 .. n - 1 /\ u[h] = c
      /\ \A g \in 0 .. n - 1 : g # h => u[g] = t[g]
  BY <1>1
<1>3. \A i \in DOMAIN c : Slot(c[i].key, n) = h
  BY ChainFacts
<1>4. Table(n, u)
  BY <1>1, <1>2, <1>3 DEF Table
<1>5. \A g \in 0 .. n - 1 : \A e : e \in ToSet(t[g]) <=> e \in Content(t) /\ Slot(e.key, n) = g
  BY TableFacts
<1>6. \A e : e \in Content(t) <=> \E g \in 0 .. n - 1 : e \in ToSet(t[g])
  BY <1>1 DEF Content
<1>7. \A e : e \in Content(u) <=> \E g \in 0 .. n - 1 : e \in ToSet(u[g])
  BY <1>2 DEF Content
<1>8. ASSUME NEW e
      PROVE  e \in Content(u) <=> e \in ToSet(c) \/ (e \in Content(t) /\ Slot(e.key, n) # h)
  <2>1. \A g \in 0 .. n - 1 : g # h => (e \in ToSet(u[g]) <=> e \in Content(t) /\ Slot(e.key, n) = g)
    BY <1>2, <1>5
  <2>2. e \in ToSet(u[h]) <=> e \in ToSet(c)
    BY <1>2
  <2>3. e \in Content(t) => Slot(e.key, n) \in 0 .. n - 1
    BY <1>5, <1>6
  <2>4. ASSUME e \in Content(u)
        PROVE  e \in ToSet(c) \/ (e \in Content(t) /\ Slot(e.key, n) # h)
    <3>1. PICK g \in 0 .. n - 1 : e \in ToSet(u[g])
      BY <1>7, <2>4
    <3>. QED
      BY <2>1, <2>2, <3>1
  <2>5. ASSUME e \in Content(t), Slot(e.key, n) # h PROVE e \in Content(u)
    BY <1>7, <2>1, <2>3, <2>5
  <2>6. e \in ToSet(c) => e \in Content(u)
    BY <1>7, <2>2
  <2>. QED
    BY <2>4, <2>5, <2>6
<1>. QED
  BY <1>4, <1>8

\* A new head in front of a chain.
LEMMA ChainPush ==
    ASSUME NEW c \in Seq(Entry), NEW e \in Entry
    PROVE  /\ <<e>> \o c \in Seq(Entry)
           /\ ToSet(<<e>> \o c) = ToSet(c) \cup {e}
           /\ Apart(c) /\ e.key \notin KeysOf(c) => Apart(<<e>> \o c)
<1>0. PICK d : d = <<e>> \o c
  OBVIOUS
<1>1. PICK l \in Nat : l = Len(c) /\ d = <<e>> \o c
  BY <1>0, ChainFacts
<1>2. <<e>> \in Seq(Entry) /\ Len(<<e>>) = 1 /\ <<e>>[1] = e
  OBVIOUS
<1>3. /\ d \in Seq(Entry) /\ DOMAIN d = 1 .. l + 1 /\ DOMAIN c = 1 .. l
      /\ d[1] = e /\ \A i \in 2 .. l + 1 : d[i] = c[i - 1]
  <2>1. d \in Seq(Entry) /\ Len(d) = 1 + l
        /\ \A i \in 1 .. 1 + l : d[i] = IF i <= 1 THEN <<e>>[i] ELSE c[i - 1]
    BY <1>1, <1>2, ConcatProperties
  <2>2. DOMAIN d = 1 .. Len(d) /\ DOMAIN c = 1 .. l
    BY <1>1, <2>1, LenProperties
  <2>. QED
    BY <1>2, <2>1, <2>2
<1>4. \A i \in 1 .. l : i + 1 \in 2 .. l + 1 /\ d[i + 1] = c[i]
  BY <1>3
<1>5. \A i \in 1 .. l + 1 : i = 1 \/ (i - 1 \in 1 .. l /\ i \in 2 .. l + 1)
  OBVIOUS
<1>6. ToSet(d) = ToSet(c) \cup {e}
  <2>1. \A x : x \in ToSet(d) <=> \E i \in 1 .. l + 1 : x = d[i]
    BY <1>3 DEF ToSet
  <2>2. \A x : x \in ToSet(c) <=> \E i \in 1 .. l : x = c[i]
    BY <1>3 DEF ToSet
  <2>3. \A x \in ToSet(d) : x \in ToSet(c) \cup {e}
    BY <1>3, <1>5, <2>1, <2>2
  <2>4. \A x \in ToSet(c) : x \in ToSet(d)
    BY <1>4, <2>1, <2>2
  <2>5. e \in ToSet(d)
    BY <1>3, <2>1
  <2>. QED
    BY <2>3, <2>4, <2>5
<1>7. ASSUME Apart(c), e.key \notin KeysOf(c) PROVE Apart(d)
  <2>. SUFFICES ASSUME NEW i \in 1 .. l + 1, NEW j \in 1 .. l + 1, d[i].key = d[j].key
                PROVE  i = j
    BY <1>3 DEF Apart
  <2>1. \A x \in 2 .. l + 1 : d[x] = c[x - 1] /\ x - 1 \in DOMAIN c /\ c[x - 1].key # e.key
    <3>. TAKE x \in 2 .. l + 1
    <3>1. d[x] = c[x - 1] /\ x - 1 \in DOMAIN c
      BY <1>3
    <3>2. c[x - 1].key \in KeysOf(c)
      BY <3>1 DEF KeysOf
    <3>. QED
      BY <1>7, <3>1, <3>2
  <2>2. CASE i = 1 /\ j # 1
    BY <1>3, <1>5, <2>1, <2>2
  <2>3. CASE i # 1 /\ j = 1
    BY <1>3, <1>5, <2>1, <2>3
  <2>4. CASE i # 1 /\ j # 1
    <3>1. i - 1 = j - 1
      BY <1>5, <1>7, <2>1, <2>4 DEF Apart
    <3>. QED
      BY <3>1
  <2>. QED
    BY <2>2, <2>3, <2>4
<1>. QED
  BY <1>1, <1>3, <1>6, <1>7

\* The entry becomes the head of its chain.
Push(t, e, n) == [t EXCEPT ![Slot(e.key, n)] = <<e>> \o @]

\* An entry with a new key is put at the head of its chain.
LEMMA Pushed ==
    ASSUME NEW n \in Nat \ {0}, NEW t, Table(n, t), NEW e \in Entry, e.key \notin KeysIn(t),
           NEW u, u = Push(t, e, n)
    PROVE  Table(n, u) /\ Content(u) = Content(t) \cup {e} /\ KeysIn(u) = KeysIn(t) \cup {e.key}
<1>1. PICK h \in 0 .. n - 1 : h = Slot(e.key, n)
  BY SlotType DEF Entry
<1>2. /\ DOMAIN t = 0 .. n - 1 /\ t[h] \in Seq(Entry) /\ Apart(t[h])
      /\ \A x : x \in ToSet(t[h]) <=> x \in Content(t) /\ Slot(x.key, n) = h
      /\ KeysIn(t) = {x.key : x \in Content(t)}
  BY TableFacts
<1>3. e.key \notin KeysOf(t[h])
  BY <1>2 DEF KeysIn
<1>4. PICK c : c = <<e>> \o t[h]
  OBVIOUS
<1>5. c \in Seq(Entry) /\ ToSet(c) = ToSet(t[h]) \cup {e} /\ Apart(c)
  BY <1>2, <1>3, <1>4, ChainPush
<1>6. \A x \in ToSet(c) : Slot(x.key, n) = h
  BY <1>1, <1>2, <1>5
<1>7. u = [t EXCEPT ![h] = c]
  BY <1>1, <1>4 DEF Push
<1>8. /\ Table(n, u)
      /\ \A x : x \in Content(u) <=> x \in ToSet(c) \/ (x \in Content(t) /\ Slot(x.key, n) # h)
  BY <1>5, <1>6, <1>7, ChainReplaced
<1>9. \A x : x \in Content(u) <=> x \in Content(t) \/ x = e
  BY <1>2, <1>5, <1>8
<1>10. Content(u) = Content(t) \cup {e}
  BY <1>9
<1>11. KeysIn(u) = {x.key : x \in Content(u)}
  BY <1>8, TableFacts
<1>. QED
  BY <1>2, <1>8, <1>10, <1>11

-----------------------------------------------------------------------------
(* Rehashing *)

\* The recursion of Moved.
MovedBody(chain, t, n, f, j) == IF j = 0 THEN t ELSE Push(f[j - 1], chain[j], n)
IsMoved(chain, t, n, f) == f = [j \in 0 .. Len(chain) |-> MovedBody(chain, t, n, f, j)]

Chains(n) == [0 .. n - 1 -> Seq(Entry)]

MovedBy(chain, t, n, f) ==
    /\ Moved(chain, t, n) = f[Len(chain)] /\ f[0] = t
    /\ \A j \in 1 .. Len(chain) : f[j] = Push(f[j - 1], chain[j], n)

\* A head in front of one chain of many.
LEMMA PushType ==
    ASSUME NEW n \in Nat \ {0}, NEW t \in Chains(n), NEW e \in Entry
    PROVE  Push(t, e, n) \in Chains(n)
<1>1. PICK h \in 0 .. n - 1 : h = Slot(e.key, n)
  BY SlotType DEF Entry
<1>2. t[h] \in Seq(Entry)
  BY DEF Chains
<1>3. PICK c \in Seq(Entry) : c = <<e>> \o t[h]
  BY <1>2, ChainPush
<1>. QED
  BY <1>1, <1>3 DEF Push, Chains

\* The steps of Moved.
LEMMA MovedSteps ==
    ASSUME NEW n \in Nat \ {0}, NEW t \in Chains(n), NEW chain \in Seq(Entry)
    PROVE  \E f : MovedBy(chain, t, n, f)
<1>1. PICK l \in Nat : l = Len(chain) /\ \A j \in 1 .. l : chain[j] \in Entry
  BY ChainFacts
<1>2. PICK S : S = Chains(n)
  OBVIOUS
<1>3. PICK F : F = [j \in 1 .. l |-> [x \in S |-> Push(x, chain[j], n)]]
  OBVIOUS
<1>4. ASSUME NEW j \in 1 .. l, NEW x \in S PROVE Push(x, chain[j], n) \in S
  BY <1>1, <1>2, PushType
<1>5. F \in [1 .. l -> [S -> S]] /\ t \in S
  BY <1>2, <1>3, <1>4
<1>6. PICK f : IsRecursion(S, t, l, F, f)
  BY <1>5, Recursion, Zenon
<1>0. f \in [0 .. l -> S] /\ f[0] = t /\ \A j \in 1 .. l : f[j] = F[j][f[j - 1]]
  BY <1>6, Zenon DEF IsRecursion
<1>7. IsMoved(chain, t, n, f)
  <2>1. ASSUME NEW j \in 1 .. l PROVE f[j] = Push(f[j - 1], chain[j], n)
    <3>0. j - 1 \in 0 .. l
      OBVIOUS
    <3>1. PICK y \in S : y = f[j - 1]
      BY <1>0, <3>0
    <3>2. F[j][y] = Push(y, chain[j], n)
      BY <1>3
    <3>. QED
      BY <1>0, <3>1, <3>2
  <2>2. ASSUME NEW j \in 0 .. l PROVE f[j] = MovedBody(chain, t, n, f, j)
    <3>1. CASE j = 0
      BY <1>0, <3>1 DEF MovedBody
    <3>2. CASE j # 0
      <4>1. j \in 1 .. l
        BY <3>2
      <4>. QED
        BY <2>1, <3>2, <4>1, Zenon DEF MovedBody
    <3>. QED
      BY <3>1, <3>2
  <2>3. f = [j \in 0 .. l |-> MovedBody(chain, t, n, f, j)]
    BY <1>0, <2>2
  <2>. QED
    BY <1>1, <2>3 DEF IsMoved
<1>8. PICK g : g = CHOOSE f_1 : IsMoved(chain, t, n, f_1)
  OBVIOUS
<1>9. IsMoved(chain, t, n, g)
  BY <1>7, <1>8
<1>10. Moved(chain, t, n) = g[Len(chain)]
  BY <1>8 DEF Moved, IsMoved, MovedBody, Push
<1>11. \A j \in 0 .. Len(chain) : g[j] = MovedBody(chain, t, n, g, j)
  BY <1>9 DEF IsMoved
<1>12. /\ g[0] = t
       /\ \A j \in 1 .. Len(chain) : g[j] = Push(g[j - 1], chain[j], n)
  <2>1. 0 \in 0 .. Len(chain) /\ \A j \in 1 .. Len(chain) : j \in 0 .. Len(chain) /\ j # 0
    BY <1>1
  <2>. QED
    BY <1>11, <2>1 DEF MovedBody
<1>13. MovedBy(chain, t, n, g)
  BY <1>10, <1>12 DEF MovedBy
<1>. QED
  BY <1>13

\* What Moved returns are chains.
LEMMA MovedType ==
    ASSUME NEW n \in Nat \ {0}, NEW t \in Chains(n), NEW chain \in Seq(Entry)
    PROVE  Moved(chain, t, n) \in Chains(n)
<1>1. PICK l \in Nat : l = Len(chain) /\ \A j \in 1 .. l : chain[j] \in Entry
  BY ChainFacts
<1>2. PICK f : MovedBy(chain, t, n, f)
  BY MovedSteps
<1>3. Moved(chain, t, n) = f[l] /\ f[0] = t /\ \A j \in 1 .. l : f[j] = Push(f[j - 1], chain[j], n)
  BY <1>1, <1>2 DEF MovedBy
<1>. DEFINE G == {j \in 0 .. l : f[j] \in Chains(n)}
<1>4. 0 \in G
  BY <1>3
<1>5. ASSUME NEW j \in 0 .. l - 1, j \in G PROVE j + 1 \in G
  <2>1. j + 1 \in 1 .. l /\ j + 1 \in 0 .. l /\ (j + 1) - 1 = j
    OBVIOUS
  <2>2. f[j + 1] = Push(f[j], chain[j + 1], n) /\ chain[j + 1] \in Entry /\ f[j] \in Chains(n)
    BY <1>1, <1>3, <1>5, <2>1
  <2>. QED
    BY <2>1, <2>2, PushType
<1>. HIDE DEF G
<1>6. \A j \in 0 .. l - 1 : j \in G => j + 1 \in G
  BY <1>5
<1>7. \A j \in 0 .. l : j \in G
  BY <1>4, <1>6, InductionTo
<1>. QED
  BY <1>3, <1>7 DEF G

\* A chain is moved into a table: nothing is lost and nothing else changes.
LEMMA MovedFacts ==
    ASSUME NEW n \in Nat \ {0}, NEW t, Table(n, t), NEW chain \in Seq(Entry), Apart(chain),
           KeysOf(chain) \cap KeysIn(t) = {}
    PROVE  Table(n, Moved(chain, t, n)) /\ Content(Moved(chain, t, n)) = Content(t) \cup ToSet(chain)
<1>1. PICK l \in Nat : l = Len(chain) /\ DOMAIN chain = 1 .. l /\ \A j \in 1 .. l : chain[j] \in Entry
  BY ChainFacts
<1>0. t \in Chains(n)
  BY DEF Table, Chains
<1>9. PICK f : MovedBy(chain, t, n, f)
  BY <1>0, MovedSteps
<1>2. Moved(chain, t, n) = f[l] /\ f[0] = t /\ \A j \in 1 .. l : f[j] = Push(f[j - 1], chain[j], n)
  BY <1>1, <1>9 DEF MovedBy
<1>. DEFINE P(j) == /\ Table(n, f[j])
                    /\ Content(f[j]) = Content(t) \cup {chain[i] : i \in 1 .. j}
            G == {j \in 0 .. l : P(j)}
<1>3. 0 \in G
  <2>1. {chain[i] : i \in 1 .. 0} = {}
    OBVIOUS
  <2>. QED
    BY <1>2, <2>1
<1>4. ASSUME NEW j \in 0 .. l - 1, j \in G PROVE j + 1 \in G
  <2>1. j + 1 \in 1 .. l /\ j + 1 \in 0 .. l /\ (j + 1) - 1 = j
    OBVIOUS
  <2>2. PICK e \in Entry : e = chain[j + 1]
    BY <1>1, <2>1
  <2>3. f[j + 1] = Push(f[j], e, n)
    BY <1>2, <2>1, <2>2
  <2>4. P(j)
    BY <1>4
  <2>5. e.key \notin KeysIn(f[j])
    <3>1. KeysIn(f[j]) = {x.key : x \in Content(f[j])} /\ KeysIn(t) = {x.key : x \in Content(t)}
      BY <2>4, TableFacts
    <3>2. e.key \in KeysOf(chain)
      BY <1>1, <2>1, <2>2 DEF KeysOf
    <3>3. \A i \in 1 .. j : chain[i].key # e.key
      BY <1>1, <2>1, <2>2 DEF Apart
    <3>. QED
      BY <2>4, <3>1, <3>2, <3>3
  <2>6. Table(n, f[j + 1]) /\ Content(f[j + 1]) = Content(f[j]) \cup {e}
    <3>1. Table(n, f[j])
      BY <2>4
    <3>. HIDE DEF P
    <3>. QED
      BY <2>3, <2>5, <3>1, Pushed
  <2>7. {chain[i] : i \in 1 .. j + 1} = {chain[i] : i \in 1 .. j} \cup {e}
    BY <2>1, <2>2
  <2>8. P(j + 1)
    BY <2>4, <2>6, <2>7
  <2>. QED
    BY <2>1, <2>8
<1>5. \A j \in 0 .. l - 1 : j \in G => j + 1 \in G
  BY <1>4
<1>. HIDE DEF G
<1>6. \A j \in 0 .. l : j \in G
  BY <1>3, <1>5, InductionTo
<1>7. P(l)
  <2>1. l \in G
    BY <1>6
  <2>. QED
    BY <2>1 DEF G
<1>8. ToSet(chain) = {chain[i] : i \in 1 .. l}
  BY <1>1 DEF ToSet
<1>. QED
  BY <1>2, <1>7, <1>8

\* The recursion of Spread.
SpreadBody(t, m, f, i) ==
    IF i = 0 THEN [h \in 0 .. m - 1 |-> <<>>] ELSE Moved(t[i - 1], f[i - 1], m)
IsSpread(n, t, m, f) == f = [i \in 0 .. n |-> SpreadBody(t, m, f, i)]

NoChains(m) == [h \in 0 .. m - 1 |-> <<>>]

SpreadBy(n, t, m, f) ==
    /\ Spread(n, t, m) = f[n] /\ f[0] = NoChains(m)
    /\ \A i \in 1 .. n : f[i] = Moved(t[i - 1], f[i - 1], m)

\* The steps of Spread.
LEMMA SpreadSteps ==
    ASSUME NEW n \in Nat, NEW t \in Chains(n), NEW m \in Nat \ {0}
    PROVE  \E f : SpreadBy(n, t, m, f)
<1>1. PICK S, a : S = Chains(m) /\ a = NoChains(m)
  OBVIOUS
<1>2. a \in S
  BY <1>1 DEF Chains, NoChains
<1>3. PICK F : F = [i \in 1 .. n |-> [x \in S |-> Moved(t[i - 1], x, m)]]
  OBVIOUS
<1>4. ASSUME NEW i \in 1 .. n, NEW x \in S PROVE Moved(t[i - 1], x, m) \in S
  <2>1. t[i - 1] \in Seq(Entry)
    BY DEF Chains
  <2>. QED
    BY <1>1, <2>1, MovedType
<1>5. F \in [1 .. n -> [S -> S]]
  BY <1>3, <1>4
<1>6. PICK f : IsRecursion(S, a, n, F, f)
  BY <1>2, <1>5, Recursion, Zenon
<1>7. f \in [0 .. n -> S] /\ f[0] = a /\ \A i \in 1 .. n : f[i] = F[i][f[i - 1]]
  BY <1>6, Zenon DEF IsRecursion
<1>8. IsSpread(n, t, m, f)
  <2>1. ASSUME NEW i \in 1 .. n PROVE f[i] = Moved(t[i - 1], f[i - 1], m)
    <3>0. i - 1 \in 0 .. n
      OBVIOUS
    <3>1. PICK y \in S : y = f[i - 1]
      BY <1>7, <3>0
    <3>2. F[i][y] = Moved(t[i - 1], y, m)
      BY <1>3
    <3>. QED
      BY <1>7, <3>1, <3>2
  <2>2. ASSUME NEW i \in 0 .. n PROVE f[i] = SpreadBody(t, m, f, i)
    <3>1. CASE i = 0
      BY <1>1, <1>7, <3>1 DEF SpreadBody, NoChains
    <3>2. CASE i # 0
      <4>1. i \in 1 .. n
        BY <3>2
      <4>. QED
        BY <2>1, <3>2, <4>1, Zenon DEF SpreadBody
    <3>. QED
      BY <3>1, <3>2
  <2>3. f = [i \in 0 .. n |-> SpreadBody(t, m, f, i)]
    BY <1>7, <2>2
  <2>. QED
    BY <2>3 DEF IsSpread
<1>9. PICK g : g = CHOOSE f_1 : IsSpread(n, t, m, f_1)
  OBVIOUS
<1>10. IsSpread(n, t, m, g)
  BY <1>8, <1>9
<1>11. Spread(n, t, m) = g[n]
  BY <1>9 DEF Spread, IsSpread, SpreadBody
<1>12. \A i \in 0 .. n : g[i] = SpreadBody(t, m, g, i)
  BY <1>10 DEF IsSpread
<1>13. g[0] = NoChains(m) /\ \A i \in 1 .. n : g[i] = Moved(t[i - 1], g[i - 1], m)
  <2>1. 0 \in 0 .. n /\ \A i \in 1 .. n : i \in 0 .. n /\ i # 0
    OBVIOUS
  <2>. QED
    BY <1>12, <2>1 DEF SpreadBody, NoChains
<1>14. SpreadBy(n, t, m, g)
  BY <1>11, <1>13 DEF SpreadBy
<1>. QED
  BY <1>14

\* A table without entries.
LEMMA EmptyTable ==
    ASSUME NEW m \in Nat
    PROVE  Table(m, NoChains(m)) /\ Content(NoChains(m)) = {}
<1>1. PICK t : t = NoChains(m)
  OBVIOUS
<1>2. t \in [0 .. m - 1 -> Seq(Entry)] /\ DOMAIN t = 0 .. m - 1
      /\ \A h \in 0 .. m - 1 : t[h] = <<>> /\ DOMAIN t[h] = {}
  BY <1>1 DEF NoChains
<1>3. Table(m, t)
  BY <1>2 DEF Table, Apart
<1>4. \A h \in 0 .. m - 1 : ToSet(t[h]) = {}
  BY <1>2 DEF ToSet
<1>5. Content(t) = {}
  BY <1>2, <1>4 DEF Content
<1>. QED
  BY <1>1, <1>3, <1>5

\* A table of another size has the same entries.
LEMMA SpreadFacts ==
    ASSUME NEW n, NEW t, Table(n, t), NEW m \in Nat \ {0}
    PROVE  Table(m, Spread(n, t, m)) /\ Content(Spread(n, t, m)) = Content(t)
<1>1. n \in Nat /\ t \in Chains(n)
  BY DEF Table, Chains
<1>2. PICK f : SpreadBy(n, t, m, f)
  BY <1>1, SpreadSteps
<1>3. /\ Spread(n, t, m) = f[n] /\ f[0] = NoChains(m)
      /\ \A i \in 1 .. n : f[i] = Moved(t[i - 1], f[i - 1], m)
  BY <1>2 DEF SpreadBy
<1>4. /\ DOMAIN t = 0 .. n - 1 /\ \A h \in 0 .. n - 1 : t[h] \in Seq(Entry) /\ Apart(t[h])
      /\ \A h \in 0 .. n - 1 : \A e : e \in ToSet(t[h]) <=> e \in Content(t) /\ Slot(e.key, n) = h
      /\ \A e, x \in Content(t) : e.key = x.key => e = x
      /\ Content(t) \subseteq Entry
  BY TableFacts
<1>. DEFINE Part(i) == {e \in Content(t) : Slot(e.key, n) < i}
            P(i) == Table(m, f[i]) /\ Content(f[i]) = Part(i)
            G == {i \in 0 .. n : P(i)}
<1>5. \A e \in Content(t) : Slot(e.key, n) \in 0 .. n - 1
  <2>1. n # 0 \/ Content(t) = {}
    BY <1>1, <1>4 DEF Content
  <2>2. \A e \in Content(t) : e.key \in Keys
    BY <1>4 DEF Entry
  <2>. QED
    BY <1>1, <2>1, <2>2, SlotType
<1>6. 0 \in G
  <2>1. Part(0) = {}
    BY <1>5
  <2>. QED
    BY <1>1, <1>3, <2>1, EmptyTable
<1>7. ASSUME NEW i \in 0 .. n - 1, i \in G PROVE i + 1 \in G
  <2>1. i + 1 \in 1 .. n /\ i + 1 \in 0 .. n /\ (i + 1) - 1 = i /\ i \in Nat
    BY <1>1
  <2>2. f[i + 1] = Moved(t[i], f[i], m)
    BY <1>3, <2>1
  <2>3. Table(m, f[i]) /\ Content(f[i]) = Part(i)
    BY <1>7
  <2>4. t[i] \in Seq(Entry) /\ Apart(t[i])
        /\ \A e : e \in ToSet(t[i]) <=> e \in Content(t) /\ Slot(e.key, n) = i
    BY <1>4
  <2>5. KeysOf(t[i]) \cap KeysIn(f[i]) = {}
    <3>1. KeysIn(f[i]) = {e.key : e \in Content(f[i])}
      BY <2>3, TableFacts
    <3>2. KeysOf(t[i]) = {e.key : e \in ToSet(t[i])}
      BY <2>4, ChainFacts
    <3>3. ASSUME NEW k \in KeysOf(t[i]), k \in KeysIn(f[i]) PROVE FALSE
      <4>1. PICK e \in ToSet(t[i]) : k = e.key
        BY <3>2
      <4>2. PICK x \in Part(i) : k = x.key
        BY <2>3, <3>1, <3>3
      <4>3. e = x
        BY <1>4, <2>4, <4>1, <4>2
      <4>. QED
        BY <2>1, <2>4, <4>1, <4>2, <4>3
    <3>. QED
      BY <3>3
  <2>. HIDE DEF Part
  <2>6. Table(m, f[i + 1]) /\ Content(f[i + 1]) = Part(i) \cup ToSet(t[i])
    BY <2>2, <2>3, <2>4, <2>5, MovedFacts
  <2>7. Part(i + 1) = Part(i) \cup ToSet(t[i])
    <3>1. \A e \in Content(t) : Slot(e.key, n) < i + 1 <=> Slot(e.key, n) < i \/ Slot(e.key, n) = i
      BY <1>5, <2>1
    <3>. QED
      BY <2>4, <3>1 DEF Part
  <2>. QED
    BY <2>1, <2>6, <2>7
<1>. HIDE DEF G
<1>8. \A i \in 0 .. n - 1 : i \in G => i + 1 \in G
  BY <1>7
<1>9. \A i \in 0 .. n : i \in G
  BY <1>1, <1>6, <1>8, InductionTo
<1>10. Part(n) = Content(t)
  BY <1>1, <1>5
<1>11. n \in G
  BY <1>1, <1>9
<1>. QED
  BY <1>3, <1>10, <1>11 DEF G

\* What _dictExpandIfNeeded leaves: the same entries, and room for one more.
LEMMA ExpandFacts ==
    ASSUME Table(size, table), SizeOK, used \in Nat, used <= size,
           NEW ht, ht = _dictExpandIfNeeded
    PROVE  /\ ht.size \in Nat \ {0} /\ Power(ht.size) /\ Table(ht.size, ht.table)
           /\ Content(ht.table) = Content(table) /\ KeysIn(ht.table) = KeysIn(table)
           /\ used < ht.size
<1>1. PICK s, t : s = ht.size /\ t = ht.table
  OBVIOUS
<1>2. /\ s \in Nat \ {0} /\ Power(s) /\ Table(s, t)
      /\ Content(t) = Content(table) /\ used < s
  <2>1. ASSUME NEW n, Power(n), used < n, ht = dictExpand(n) PROVE <1>2
    <3>1. n \in Nat \ {0} /\ _dictNextPower(n) = n
      BY <2>1, NextPower
    <3>2. s = n /\ t = Spread(size, table, n)
      BY <1>1, <2>1, <3>1 DEF dictExpand
    <3>3. Table(n, Spread(size, table, n)) /\ Content(Spread(size, table, n)) = Content(table)
      BY <3>1, SpreadFacts
    <3>. QED
      BY <2>1, <3>1, <3>2, <3>3
  <2>2. CASE size = 0
    <3>1. Power(InitialSize) /\ ht = dictExpand(InitialSize)
      BY <2>2, PowerDoubles DEF _dictExpandIfNeeded
    <3>2. used < InitialSize
      BY <2>2, DictAssumption
    <3>. QED
      BY <2>1, <3>1, <3>2
  <2>3. CASE size # 0 /\ used = size
    <3>1. Power(size) /\ ht = dictExpand(size * 2)
      BY <2>3 DEF SizeOK, _dictExpandIfNeeded
    <3>2. size \in Nat \ {0} /\ Power(size * 2)
      BY <3>1, NextPower, PowerDoubles
    <3>3. used < size * 2
      BY <2>3, <3>2
    <3>. QED
      BY <2>1, <3>1, <3>2, <3>3
  <2>4. CASE size # 0 /\ used # size
    <3>1. Power(size) /\ s = size /\ t = table
      BY <1>1, <2>4 DEF SizeOK, _dictExpandIfNeeded
    <3>2. size \in Nat \ {0}
      BY <3>1, NextPower
    <3>3. used < size
      BY <2>4, <3>2
    <3>. QED
      BY <3>1, <3>2, <3>3
  <2>. QED
    BY <2>2, <2>3, <2>4
<1>3. KeysIn(t) = KeysIn(table)
  <2>1. KeysIn(t) = {e.key : e \in Content(t)} /\ KeysIn(table) = {e.key : e \in Content(table)}
    BY <1>2, TableFacts
  <2>. QED
    BY <1>2, <2>1
<1>. QED
  BY <1>1, <1>2, <1>3

-----------------------------------------------------------------------------
(* Lookup, update and removal *)

At(n, t, k) == t[Slot(k, n)][Place(k, t[Slot(k, n)])]

\* A key that is in a chain is at its place.
LEMMA PlaceFacts ==
    ASSUME NEW c \in Seq(Entry), NEW k \in KeysOf(c)
    PROVE  /\ Place(k, c) \in DOMAIN c /\ c[Place(k, c)].key = k
           /\ Apart(c) => \A i \in DOMAIN c : c[i].key = k => i = Place(k, c)
<1>1. \E i \in DOMAIN c : c[i].key = k
  BY DEF KeysOf
<1>2. Place(k, c) \in DOMAIN c /\ c[Place(k, c)].key = k
  BY <1>1 DEF Place
<1>. QED
  BY <1>2 DEF Apart

\* A key that is stored is found in the chain of its slot.
LEMMA Located ==
    ASSUME NEW n, NEW t, Table(n, t), NEW k \in KeysIn(t)
    PROVE  /\ n \in Nat \ {0} /\ Slot(k, n) \in 0 .. n - 1
           /\ t[Slot(k, n)] \in Seq(Entry) /\ k \in KeysOf(t[Slot(k, n)]) /\ k \in Keys
           /\ At(n, t, k) \in Content(t) /\ At(n, t, k).key = k
           /\ \A e \in Content(t) : e.key = k => e = At(n, t, k)
<1>1. /\ n \in Nat /\ DOMAIN t = 0 .. n - 1 /\ \A h \in 0 .. n - 1 : t[h] \in Seq(Entry)
      /\ \A h \in 0 .. n - 1 : \A e : e \in ToSet(t[h]) <=> e \in Content(t) /\ Slot(e.key, n) = h
      /\ KeysIn(t) \subseteq Keys
      /\ \A e, f \in Content(t) : e.key = f.key => e = f
  BY TableFacts
<1>2. PICK h \in 0 .. n - 1 : k \in KeysOf(t[h])
  BY <1>1 DEF KeysIn
<1>3. Place(k, t[h]) \in DOMAIN t[h] /\ t[h][Place(k, t[h])].key = k
  BY <1>1, <1>2, PlaceFacts
<1>4. PICK e : e = t[h][Place(k, t[h])]
  OBVIOUS
<1>5. e \in ToSet(t[h]) /\ e.key = k
  BY <1>3, <1>4 DEF ToSet
<1>6. e \in Content(t) /\ Slot(k, n) = h
  BY <1>1, <1>5
<1>7. At(n, t, k) = e
  BY <1>4, <1>6 DEF At
<1>8. n # 0
  BY <1>1
<1>. QED
  BY <1>1, <1>2, <1>5, <1>6, <1>7, <1>8

\* dictFind finds what is stored.
LEMMA Finding ==
    ASSUME Table(size, table), NEW k \in Keys
    PROVE  /\ dictFind(k) <=> k \in Stored
           /\ Stored = KeysIn(table)
           /\ EntryOf(k) = At(size, table, k)
<1>1. Stored = KeysIn(table)
  BY DEF Stored, KeysIn
<1>2. size \in Nat /\ DOMAIN table = 0 .. size - 1
  BY TableFacts
<1>3. ASSUME dictFind(k) PROVE k \in KeysIn(table)
  <2>1. size \in Nat \ {0} /\ k \in KeysOf(table[Slot(k, size)])
    BY <1>2, <1>3 DEF dictFind
  <2>2. Slot(k, size) \in 0 .. size - 1
    BY <2>1, SlotType
  <2>. QED
    BY <1>2, <2>1, <2>2 DEF KeysIn
<1>4. ASSUME k \in KeysIn(table) PROVE dictFind(k)
  <2>1. size \in Nat \ {0} /\ k \in KeysOf(table[Slot(k, size)])
    BY <1>4, Located
  <2>. QED
    BY <2>1 DEF dictFind
<1>5. EntryOf(k) = At(size, table, k)
  BY DEF EntryOf, At
<1>. QED
  BY <1>1, <1>3, <1>4, <1>5

\* An entry leaves its chain.
LEMMA ChainUnlink ==
    ASSUME NEW c \in Seq(Entry), Apart(c), NEW k \in KeysOf(c), NEW p, p = Place(k, c),
           NEW d, d = Unlink(k, c)
    PROVE  /\ d \in Seq(Entry) /\ p \in 1 .. Len(c) /\ c[p].key = k /\ Len(d) = Len(c) - 1
           /\ \A i \in 1 .. Len(c) - 1 : d[i] = IF i < p THEN c[i] ELSE c[i + 1]
           /\ Apart(d)
           /\ \A e : e \in ToSet(d) <=> e \in ToSet(c) /\ e.key # k
<1>1. PICK l \in Nat : l = Len(c)
  BY ChainFacts
<1>2. /\ DOMAIN c = 1 .. l /\ \A i \in 1 .. l : c[i] \in Entry
      /\ p \in 1 .. l /\ c[p].key = k /\ \A i \in 1 .. l : c[i].key = k => i = p
  BY <1>1, ChainFacts, PlaceFacts
<1>3. PICK a, b : a = SubSeq(c, 1, p - 1) /\ b = SubSeq(c, p + 1, l)
  OBVIOUS
<1>4. a \in Seq(Entry) /\ Len(a) = p - 1 /\ \A i \in 1 .. p - 1 : a[i] = c[i]
  <2>1. \A i \in 1 .. p - 1 : c[i] \in Entry
    BY <1>2
  <2>2. /\ SubSeq(c, 1, p - 1) \in Seq(Entry)
        /\ Len(SubSeq(c, 1, p - 1)) = IF 1 <= p - 1 THEN (p - 1) - 1 + 1 ELSE 0
        /\ \A i \in 1 .. (p - 1) - 1 + 1 : SubSeq(c, 1, p - 1)[i] = c[1 + i - 1]
    <3>1. 1 \in Int /\ p - 1 \in Int
      BY <1>2
    <3>. QED
      BY <2>1, <3>1, SubSeqProperties
  <2>. QED
    BY <1>2, <1>3, <2>2
<1>5. b \in Seq(Entry) /\ Len(b) = l - p /\ \A i \in 1 .. l - p : b[i] = c[p + i]
  <2>1. \A i \in p + 1 .. l : c[i] \in Entry
    BY <1>2
  <2>2. /\ SubSeq(c, p + 1, l) \in Seq(Entry)
        /\ Len(SubSeq(c, p + 1, l)) = IF p + 1 <= l THEN l - (p + 1) + 1 ELSE 0
        /\ \A i \in 1 .. l - (p + 1) + 1 : SubSeq(c, p + 1, l)[i] = c[(p + 1) + i - 1]
    <3>1. l \in Int /\ p + 1 \in Int
      BY <1>2
    <3>. QED
      BY <2>1, <3>1, SubSeqProperties
  <2>. QED
    BY <1>2, <1>3, <2>2
<1>6. d = a \o b
  BY <1>1, <1>3 DEF Unlink, RemoveAt
<1>7. /\ d \in Seq(Entry) /\ Len(d) = l - 1
      /\ \A i \in 1 .. l - 1 : d[i] = IF i < p THEN c[i] ELSE c[i + 1]
  <2>1. /\ d \in Seq(Entry) /\ Len(d) = (p - 1) + (l - p)
        /\ \A i \in 1 .. (p - 1) + (l - p) : d[i] = IF i <= p - 1 THEN a[i] ELSE b[i - (p - 1)]
    <3>1. a \in Seq(Entry) /\ b \in Seq(Entry)
      BY <1>4, <1>5
    <3>2. /\ a \o b \in Seq(Entry) /\ Len(a \o b) = Len(a) + Len(b)
          /\ \A i \in 1 .. Len(a) + Len(b) : (a \o b)[i] = IF i <= Len(a) THEN a[i] ELSE b[i - Len(a)]
      BY <3>1, ConcatProperties, Zenon
    <3>3. Len(a) = p - 1 /\ Len(b) = l - p
      BY <1>4, <1>5
    <3>. QED
      BY <1>6, <3>2, <3>3, Zenon
  <2>2. Len(d) = l - 1 /\ (p - 1) + (l - p) = l - 1
    BY <1>2, <2>1
  <2>3. ASSUME NEW i \in 1 .. l - 1 PROVE d[i] = IF i < p THEN c[i] ELSE c[i + 1]
    <3>1. d[i] = IF i <= p - 1 THEN a[i] ELSE b[i - (p - 1)]
      BY <2>1, <2>2
    <3>2. CASE i < p
      <4>1. i <= p - 1 /\ i \in 1 .. p - 1
        BY <1>2, <3>2
      <4>. QED
        BY <1>4, <3>1, <3>2, <4>1
    <3>3. CASE ~(i < p)
      <4>1. ~(i <= p - 1) /\ i - (p - 1) \in 1 .. l - p /\ p + (i - (p - 1)) = i + 1
        BY <1>2, <3>3
      <4>. QED
        BY <1>5, <3>1, <3>3, <4>1
    <3>. QED
      BY <3>2, <3>3
  <2>. QED
    BY <2>1, <2>2, <2>3
<1>8. DOMAIN d = 1 .. l - 1
  BY <1>7, LenProperties
<1>9. \A i \in 1 .. l - 1 : \E j \in 1 .. l : /\ j # p /\ d[i] = c[j]
                                             /\ j = IF i < p THEN i ELSE i + 1
  <2>. TAKE i \in 1 .. l - 1
  <2>1. CASE i < p
    BY <1>7, <2>1
  <2>2. CASE ~(i < p)
    <3>1. i + 1 \in 1 .. l /\ i + 1 # p
      BY <1>2, <2>2
    <3>. QED
      BY <1>7, <2>2, <3>1
  <2>. QED
    BY <2>1, <2>2
<1>10. Apart(d)
  <2>. SUFFICES ASSUME NEW i \in 1 .. l - 1, NEW j \in 1 .. l - 1, d[i].key = d[j].key
                PROVE  i = j
    BY <1>8 DEF Apart
  <2>1. PICK x \in 1 .. l : x # p /\ d[i] = c[x] /\ x = IF i < p THEN i ELSE i + 1
    BY <1>9
  <2>2. PICK y \in 1 .. l : y # p /\ d[j] = c[y] /\ y = IF j < p THEN j ELSE j + 1
    BY <1>9
  <2>3. x = y
    BY <1>2, <2>1, <2>2 DEF Apart
  <2>. QED
    BY <1>2, <2>1, <2>2, <2>3
<1>11. ASSUME NEW e PROVE e \in ToSet(d) <=> e \in ToSet(c) /\ e.key # k
  <2>1. e \in ToSet(d) <=> \E i \in 1 .. l - 1 : e = d[i]
    BY <1>8 DEF ToSet
  <2>2. e \in ToSet(c) <=> \E i \in 1 .. l : e = c[i]
    BY <1>2 DEF ToSet
  <2>3. ASSUME NEW j \in 1 .. l, e = c[j], e.key # k PROVE \E i \in 1 .. l - 1 : e = d[i]
    <3>1. j # p
      BY <1>2, <2>3
    <3>2. CASE j < p
      <4>1. j \in 1 .. l - 1 /\ d[j] = c[j]
        BY <1>2, <1>7, <3>2
      <4>. QED
        BY <2>3, <4>1
    <3>3. CASE ~(j < p)
      <4>1. j - 1 \in 1 .. l - 1 /\ ~(j - 1 < p) /\ (j - 1) + 1 = j
        BY <1>2, <3>1, <3>3
      <4>2. d[j - 1] = c[j]
        BY <1>7, <4>1
      <4>. QED
        BY <2>3, <4>1, <4>2
    <3>. QED
      BY <3>2, <3>3
  <2>4. ASSUME NEW i \in 1 .. l - 1, e = d[i] PROVE e \in ToSet(c) /\ e.key # k
    BY <1>2, <1>9, <2>2, <2>4
  <2>. QED
    BY <2>1, <2>2, <2>3, <2>4
<1>. QED
  BY <1>1, <1>2, <1>7, <1>10, <1>11

TakeOut(t, k, n) == LET h == Slot(k, n) IN [t EXCEPT ![h] = Unlink(k, @)]
SetVal(t, k, v, n) == LET h == Slot(k, n) IN [t EXCEPT ![h] = [@ EXCEPT ![Place(k, @)].val = v]]

\* A key is removed from a table.
LEMMA Removed ==
    ASSUME NEW n, NEW t, Table(n, t), NEW k \in KeysIn(t), NEW u, u = TakeOut(t, k, n)
    PROVE  /\ Table(n, u) /\ Content(u) = {e \in Content(t) : e.key # k}
           /\ KeysIn(u) = KeysIn(t) \ {k}
<1>1. PICK h \in 0 .. n - 1 : h = Slot(k, n) /\ t[h] \in Seq(Entry) /\ k \in KeysOf(t[h])
  BY Located
<1>2. /\ DOMAIN t = 0 .. n - 1 /\ Apart(t[h])
      /\ \A x : x \in ToSet(t[h]) <=> x \in Content(t) /\ Slot(x.key, n) = h
      /\ KeysIn(t) = {x.key : x \in Content(t)}
  BY <1>1, TableFacts
<1>3. PICK d : d = Unlink(k, t[h])
  OBVIOUS
<1>4. d \in Seq(Entry) /\ Apart(d) /\ \A e : e \in ToSet(d) <=> e \in ToSet(t[h]) /\ e.key # k
  BY <1>1, <1>2, <1>3, ChainUnlink
<1>5. u = [t EXCEPT ![h] = d]
  BY <1>1, <1>3 DEF TakeOut
<1>6. \A x \in ToSet(d) : Slot(x.key, n) = h
  BY <1>2, <1>4
<1>7. /\ Table(n, u)
      /\ \A x : x \in Content(u) <=> x \in ToSet(d) \/ (x \in Content(t) /\ Slot(x.key, n) # h)
  BY <1>4, <1>5, <1>6, ChainReplaced
<1>8. \A x : x \in Content(u) <=> x \in Content(t) /\ x.key # k
  BY <1>2, <1>4, <1>7
<1>9. Content(u) = {e \in Content(t) : e.key # k}
  BY <1>8
<1>10. KeysIn(u) = {x.key : x \in Content(u)}
  BY <1>7, TableFacts
<1>. QED
  BY <1>2, <1>7, <1>9, <1>10

\* The value of a key is replaced.
LEMMA Revalued ==
    ASSUME NEW n, NEW t, Table(n, t), NEW k \in KeysIn(t), NEW v \in Vals,
           NEW u, u = SetVal(t, k, v, n)
    PROVE  /\ Table(n, u)
           /\ Content(u) = {e \in Content(t) : e.key # k} \cup {[key |-> k, val |-> v]}
           /\ KeysIn(u) = KeysIn(t)
<1>1. PICK h \in 0 .. n - 1 : h = Slot(k, n) /\ t[h] \in Seq(Entry) /\ k \in KeysOf(t[h]) /\ k \in Keys
  BY Located
<1>2. /\ DOMAIN t = 0 .. n - 1 /\ Apart(t[h])
      /\ \A x : x \in ToSet(t[h]) <=> x \in Content(t) /\ Slot(x.key, n) = h
      /\ KeysIn(t) = {x.key : x \in Content(t)}
  BY <1>1, TableFacts
<1>0. PICK p : p = Place(k, t[h])
  OBVIOUS
<1>3. PICK c \in Seq(Entry) : c = t[h] /\ p = Place(k, t[h])
  BY <1>0, <1>1
<1>4. p \in DOMAIN c /\ c[p].key = k /\ \A i \in DOMAIN c : c[i].key = k => i = p
  BY <1>1, <1>2, <1>3, PlaceFacts
<1>5. PICK l \in Nat : DOMAIN c = 1 .. l /\ l = Len(c) /\ \A i \in DOMAIN c : c[i] \in Entry
  BY ChainFacts
<1>6. PICK f \in Entry : f = [key |-> k, val |-> v]
  BY <1>1 DEF Entry
<1>7. [c[p] EXCEPT !.val = v] = f
  BY <1>4, <1>5, <1>6 DEF Entry
<1>8. PICK d : d = [c EXCEPT ![p] = f]
  OBVIOUS
<1>9. u = [t EXCEPT ![h] = d]
  BY <1>1, <1>3, <1>7, <1>8 DEF SetVal
<1>10. d \in Seq(Entry) /\ DOMAIN d = DOMAIN c /\ \A i \in DOMAIN c : d[i] = IF i = p THEN f ELSE c[i]
  <2>1. c \in [1 .. l -> Entry]
    BY <1>5
  <2>2. d \in [1 .. l -> Entry] /\ \A i \in 1 .. l : d[i] = IF i = p THEN f ELSE c[i]
    BY <1>8, <2>1
  <2>. QED
    BY <1>5, <2>2, SeqDef
<1>11. f.key = k
  BY <1>6
<1>12. Apart(d)
  <2>1. \A i \in DOMAIN c : d[i].key = c[i].key
    BY <1>4, <1>10, <1>11
  <2>2. Apart(c)
    BY <1>2, <1>3
  <2>. QED
    BY <1>10, <2>1, <2>2 DEF Apart
<1>13. \A x : x \in ToSet(d) <=> x = f \/ (x \in ToSet(c) /\ x.key # k)
  BY <1>4, <1>10, <1>11 DEF ToSet
<1>14. \A x \in ToSet(d) : Slot(x.key, n) = h
  BY <1>1, <1>2, <1>3, <1>11, <1>13
<1>15. /\ Table(n, u)
       /\ \A x : x \in Content(u) <=> x \in ToSet(d) \/ (x \in Content(t) /\ Slot(x.key, n) # h)
  <2>1. d \in Seq(Entry)
    BY <1>10
  <2>. QED
    BY <1>9, <1>12, <1>14, <2>1, ChainReplaced
<1>16. \A x : x \in Content(u) <=> (x \in Content(t) /\ x.key # k) \/ x = f
  BY <1>1, <1>2, <1>3, <1>11, <1>13, <1>15
<1>17. Content(u) = {e \in Content(t) : e.key # k} \cup {f}
  BY <1>16
<1>18. KeysIn(u) = {x.key : x \in Content(u)}
  BY <1>15, TableFacts
<1>19. KeysIn(u) = KeysIn(t)
  BY <1>2, <1>11, <1>17, <1>18
<1>. QED
  BY <1>6, <1>15, <1>17, <1>19

\* There are as many places as keys.
LEMMA PlacesCount ==
    ASSUME Table(size, table), IsFiniteSet(Stored)
    PROVE  IsFiniteSet(Places) /\ Cardinality(Places) = Cardinality(Stored)
<1>1. /\ DOMAIN table = 0 .. size - 1 /\ KeysIn(table) = Stored
      /\ \A h \in 0 .. size - 1 : table[h] \in Seq(Entry) /\ Apart(table[h])
  BY TableFacts DEF Stored, KeysIn
<1>2. PICK f : f = [k \in Stored |-> <<Slot(k, size), Place(k, table[Slot(k, size)])>>]
  OBVIOUS
<1>3. ASSUME NEW k \in Stored
      PROVE  /\ Slot(k, size) \in 0 .. size - 1
             /\ Place(k, table[Slot(k, size)]) \in DOMAIN table[Slot(k, size)]
             /\ table[Slot(k, size)][Place(k, table[Slot(k, size)])].key = k
  <2>1. /\ Slot(k, size) \in 0 .. size - 1 /\ table[Slot(k, size)] \in Seq(Entry)
        /\ k \in KeysOf(table[Slot(k, size)])
    BY <1>1, Located
  <2>. QED
    BY <2>1, PlaceFacts
<1>4. \A p : p \in Places <=> \E h \in 0 .. size - 1 : \E i \in DOMAIN table[h] : p = <<h, i>>
  BY <1>1 DEF Places
<1>5. f \in [Stored -> Places]
  BY <1>2, <1>3, <1>4
<1>6. ASSUME NEW a \in Stored, NEW b \in Stored, f[a] = f[b] PROVE a = b
  <2>1. /\ Slot(a, size) = Slot(b, size)
        /\ Place(a, table[Slot(a, size)]) = Place(b, table[Slot(b, size)])
    BY <1>2, <1>6
  <2>. QED
    BY <1>3, <2>1
<1>7. ASSUME NEW p \in Places PROVE \E k \in Stored : f[k] = p
  <2>1. PICK h \in 0 .. size - 1 : \E i \in DOMAIN table[h] : p = <<h, i>>
    BY <1>4
  <2>2. PICK i \in DOMAIN table[h] : p = <<h, i>>
    BY <2>1
  <2>3. PICK k : k = table[h][i].key
    OBVIOUS
  <2>4. k \in KeysOf(table[h]) /\ Slot(k, size) = h
    BY <2>3 DEF KeysOf, Table
  <2>5. k \in Stored
    BY <1>1, <2>4 DEF Stored
  <2>6. Place(k, table[h]) = i
    BY <1>1, <2>3, <2>4, PlaceFacts
  <2>. QED
    BY <1>2, <2>2, <2>4, <2>5, <2>6
<1>8. f \in Bijection(Stored, Places)
  BY <1>5, <1>6, <1>7 DEF Bijection, Injection, Surjection, IsInjective
<1>9. ExistsBijection(Stored, Places)
  BY <1>8 DEF ExistsBijection
<1>. QED
  BY <1>9, FS_Bijection

-----------------------------------------------------------------------------
(* The steps *)

\* The part of the invariant about the table.
Shape == Table(size, table) /\ SizeOK /\ CountOK

Pair(k, v) == [key |-> k, val |-> v]

\* What a step may do to the table: the content becomes C, and the shape stays.
Becomes(C) == Shape' /\ Content(table') = C

\* used counts the entries, as a number.
LEMMA Counting ==
    ASSUME Shape
    PROVE  /\ size \in Nat /\ used \in Nat /\ used <= size /\ IsFiniteSet(KeysIn(table))
           /\ used = Cardinality(KeysIn(table)) /\ copies = used
           /\ Stored = KeysIn(table)
<1>1. Stored = KeysIn(table)
  BY DEF Stored, KeysIn
<1>2. IsFiniteSet(Stored) /\ used = Cardinality(Stored) /\ used <= size /\ copies = used
  BY DEF Shape, CountOK
<1>3. used \in Nat
  BY <1>2, FS_CardinalityType
<1>. QED
  BY <1>1, <1>2, <1>3 DEF Shape, Table

\* The shape, of the state after a step.
LEMMA ShapeNext ==
    ASSUME Table(size', table'), size' = 0 \/ Power(size'), IsFiniteSet(KeysIn(table')),
           used' = Cardinality(KeysIn(table')), used' <= size', copies' = used'
    PROVE  Shape'
<1>1. Stored' = KeysIn(table')
  BY DEF Stored, KeysIn
<1>2. SizeOK'
  BY DEF SizeOK
<1>3. CountOK'
  BY <1>1 DEF CountOK
<1>4. Table(size, table)'
  OBVIOUS
<1>. QED
  BY <1>2, <1>3, <1>4 DEF Shape

\* An entry with a new key goes in, after the table grew if it had to.
LEMMA InsertedStep ==
    ASSUME Shape, NEW k \in Keys, NEW v \in Vals, ~dictFind(k), Inserted(k, v)
    PROVE  Becomes(Content(table) \cup {Pair(k, v)})
<1>1. PICK ht : ht = _dictExpandIfNeeded
  OBVIOUS
<1>2. /\ size \in Nat /\ used \in Nat /\ used <= size /\ IsFiniteSet(KeysIn(table))
      /\ used = Cardinality(KeysIn(table)) /\ copies = used
      /\ Stored = KeysIn(table) /\ Table(size, table) /\ SizeOK
  BY Counting DEF Shape
<1>3. /\ ht.size \in Nat \ {0} /\ Power(ht.size) /\ Table(ht.size, ht.table)
      /\ Content(ht.table) = Content(table) /\ KeysIn(ht.table) = KeysIn(table)
      /\ used < ht.size
  BY <1>1, <1>2, ExpandFacts
<1>4. k \notin KeysIn(table)
  BY <1>2, Finding
<1>5. PICK e \in Entry : e = Pair(k, v) /\ e.key = k
  <2>1. Pair(k, v) \in Entry /\ Pair(k, v).key = k
    BY DEF Pair, Entry
  <2>. QED
    BY <2>1
<1>6. size' = ht.size /\ table' = Push(ht.table, e, ht.size) /\ used' = used + 1 /\ copies' = copies + 1
  BY <1>1, <1>5 DEF Inserted, Push, Pair
<1>7. /\ Table(size', table') /\ Content(table') = Content(table) \cup {e}
      /\ KeysIn(table') = KeysIn(table) \cup {k}
  <2>0. PICK t, u : t = ht.table /\ u = Push(t, e, ht.size)
    OBVIOUS
  <2>1. PICK n \in Nat \ {0} : n = ht.size /\ t = ht.table /\ u = Push(t, e, n)
    BY <1>3, <2>0
  <2>2. Table(n, t) /\ e.key \notin KeysIn(t) /\ Content(t) = Content(table) /\ KeysIn(t) = KeysIn(table)
    BY <1>3, <1>4, <1>5, <2>1
  <2>3. Table(n, u) /\ Content(u) = Content(t) \cup {e} /\ KeysIn(u) = KeysIn(t) \cup {e.key}
    BY <2>1, <2>2, Pushed
  <2>4. size' = n /\ table' = u
    BY <1>6, <2>1
  <2>. QED
    BY <1>5, <2>2, <2>3, <2>4
<1>8. IsFiniteSet(KeysIn(table')) /\ Cardinality(KeysIn(table')) = Cardinality(KeysIn(table)) + 1
  <2>1. PICK A, B : A = KeysIn(table) /\ B = KeysIn(table')
    OBVIOUS
  <2>2. IsFiniteSet(A) /\ k \notin A /\ B = A \cup {k}
    BY <1>2, <1>4, <1>7, <2>1
  <2>3. IsFiniteSet(A \cup {k}) /\ Cardinality(A \cup {k}) = Cardinality(A) + 1
    BY <2>2, FS_AddElement
  <2>. QED
    BY <2>1, <2>2, <2>3
<1>9. used' = Cardinality(KeysIn(table')) /\ used' <= size' /\ copies' = used' /\ Power(size')
  BY <1>2, <1>3, <1>6, <1>8
<1>10. Shape'
  BY <1>7, <1>8, <1>9, ShapeNext
<1>. QED
  BY <1>5, <1>7, <1>10 DEF Becomes

\* The table may grow although nothing goes in.
LEMMA RehashedStep ==
    ASSUME Shape, Rehashed(_dictExpandIfNeeded), UNCHANGED <<used, copies>>
    PROVE  Becomes(Content(table))
<1>1. PICK ht : ht = _dictExpandIfNeeded
  OBVIOUS
<1>2. /\ size \in Nat /\ used \in Nat /\ used <= size /\ IsFiniteSet(KeysIn(table))
      /\ used = Cardinality(KeysIn(table)) /\ copies = used
      /\ Table(size, table) /\ SizeOK
  BY Counting DEF Shape
<1>3. /\ ht.size \in Nat \ {0} /\ Power(ht.size) /\ Table(ht.size, ht.table)
      /\ Content(ht.table) = Content(table) /\ KeysIn(ht.table) = KeysIn(table)
      /\ used < ht.size
  BY <1>1, <1>2, ExpandFacts
<1>4. size' = ht.size /\ table' = ht.table /\ used' = used /\ copies' = copies
  BY <1>1 DEF Rehashed
<1>5. Table(size', table') /\ KeysIn(table') = KeysIn(table) /\ Content(table') = Content(table)
  BY <1>3, <1>4
<1>6. used' = Cardinality(KeysIn(table')) /\ used' <= size' /\ copies' = used' /\ Power(size')
      /\ IsFiniteSet(KeysIn(table'))
  BY <1>2, <1>3, <1>4, <1>5
<1>7. Shape'
  BY <1>5, <1>6, ShapeNext
<1>. QED
  BY <1>5, <1>7 DEF Becomes

\* The value of a key that is stored is replaced.
LEMMA UpdatedStep ==
    ASSUME Shape, NEW k \in Keys, NEW v \in Vals, dictFind(k), Updated(_dictExpandIfNeeded, k, v),
           UNCHANGED used
    PROVE  Becomes({e \in Content(table) : e.key # k} \cup {Pair(k, v)})
<1>1. PICK ht : ht = _dictExpandIfNeeded
  OBVIOUS
<1>2. /\ size \in Nat /\ used \in Nat /\ used <= size /\ IsFiniteSet(KeysIn(table))
      /\ used = Cardinality(KeysIn(table)) /\ copies = used
      /\ Stored = KeysIn(table) /\ Table(size, table) /\ SizeOK
  BY Counting DEF Shape
<1>3. /\ ht.size \in Nat \ {0} /\ Power(ht.size) /\ Table(ht.size, ht.table)
      /\ Content(ht.table) = Content(table) /\ KeysIn(ht.table) = KeysIn(table)
      /\ used < ht.size
  BY <1>1, <1>2, ExpandFacts
<1>4. k \in KeysIn(table)
  BY <1>2, Finding
<1>5. size' = ht.size /\ table' = SetVal(ht.table, k, v, ht.size) /\ used' = used /\ copies' = copies
  BY <1>1 DEF Updated, SetVal
<1>6. /\ Table(size', table') /\ KeysIn(table') = KeysIn(table)
      /\ Content(table') = {e \in Content(table) : e.key # k} \cup {Pair(k, v)}
  <2>1. PICK n, t, u : n = ht.size /\ t = ht.table /\ u = SetVal(t, k, v, n)
    OBVIOUS
  <2>2. Table(n, t) /\ k \in KeysIn(t) /\ Content(t) = Content(table) /\ KeysIn(t) = KeysIn(table)
    BY <1>3, <1>4, <2>1
  <2>3. /\ Table(n, u) /\ KeysIn(u) = KeysIn(t)
        /\ Content(u) = {e \in Content(t) : e.key # k} \cup {[key |-> k, val |-> v]}
    BY <2>1, <2>2, Revalued
  <2>4. size' = n /\ table' = u
    BY <1>5, <2>1
  <2>. QED
    BY <2>2, <2>3, <2>4 DEF Pair
<1>7. used' = Cardinality(KeysIn(table')) /\ used' <= size' /\ copies' = used' /\ Power(size')
      /\ IsFiniteSet(KeysIn(table'))
  BY <1>2, <1>3, <1>5, <1>6
<1>8. Shape'
  BY <1>6, <1>7, ShapeNext
<1>. QED
  BY <1>6, <1>8 DEF Becomes

\* An entry goes out.
LEMMA RemovedStep ==
    ASSUME Shape, NEW k \in Keys, dictFind(k), table' = TakeOut(table, k, size),
           used' = used - 1, copies' = copies - 1, size' = size
    PROVE  Becomes({e \in Content(table) : e.key # k})
<1>1. /\ size \in Nat /\ used \in Nat /\ used <= size /\ IsFiniteSet(KeysIn(table))
      /\ used = Cardinality(KeysIn(table)) /\ copies = used
      /\ Stored = KeysIn(table) /\ Table(size, table) /\ SizeOK
  BY Counting DEF Shape
<1>2. k \in KeysIn(table)
  BY <1>1, Finding
<1>3. /\ Table(size, table') /\ KeysIn(table') = KeysIn(table) \ {k}
      /\ Content(table') = {e \in Content(table) : e.key # k}
  BY <1>1, <1>2, Removed
<1>4. IsFiniteSet(KeysIn(table')) /\ Cardinality(KeysIn(table')) = Cardinality(KeysIn(table)) - 1
  BY <1>1, <1>2, <1>3, FS_RemoveElement
<1>5. used' = Cardinality(KeysIn(table')) /\ used' <= size' /\ copies' = used'
  BY <1>1, <1>4
<1>6. (size' = 0 \/ Power(size')) /\ Table(size', table')
  BY <1>1, <1>3 DEF SizeOK
<1>7. Shape'
  BY <1>4, <1>5, <1>6, ShapeNext
<1>. QED
  BY <1>3, <1>7 DEF Becomes

\* All entries go out.
LEMMA ClearedStep ==
    ASSUME Shape, _dictClear
    PROVE  Becomes({})
<1>1. /\ used = Cardinality(KeysIn(table)) /\ IsFiniteSet(KeysIn(table)) /\ copies = used
      /\ Stored = KeysIn(table) /\ Table(size, table) /\ used \in Nat
  BY Counting DEF Shape
<1>2. Cardinality(Places) = used
  BY <1>1, PlacesCount
<1>3. size' = 0 /\ used' = 0 /\ copies' = 0 /\ table' = <<>>
  BY <1>1, <1>2 DEF _dictClear
<1>4. <<>> = NoChains(0)
  BY DEF NoChains
<1>5. Table(size', table') /\ Content(table') = {}
  BY <1>3, <1>4, EmptyTable
<1>6. KeysIn(table') = {}
  BY <1>5, TableFacts
<1>7. IsFiniteSet(KeysIn(table')) /\ used' = Cardinality(KeysIn(table')) /\ used' <= size'
  BY <1>3, <1>6, FS_EmptySet
<1>8. Shape'
  BY <1>3, <1>5, <1>7, ShapeNext
<1>. QED
  BY <1>5, <1>8 DEF Becomes

-----------------------------------------------------------------------------
(* The iterator *)

\* Without an iterator there is nothing to say.
LEMMA Quiet ==
    ASSUME WalkOK, ~iter.on, UNCHANGED iter
    PROVE  WalkOK'
BY DEF WalkOK, IterType

\* One more key is returned.
LEMMA SeenGrows ==
    ASSUME NEW s \in Seq(Keys), NEW k \in Keys, IsInjective(s), k \notin ToSet(s)
    PROVE  /\ Append(s, k) \in Seq(Keys) /\ IsInjective(Append(s, k))
           /\ ToSet(Append(s, k)) = ToSet(s) \cup {k}
<1>1. PICK l \in Nat : l = Len(s) /\ DOMAIN s = 1 .. l
  BY LenProperties
<1>2. PICK d : d = Append(s, k)
  OBVIOUS
<1>3. /\ d \in Seq(Keys) /\ DOMAIN d = 1 .. l + 1 /\ d[l + 1] = k
      /\ \A i \in 1 .. l : d[i] = s[i]
  <2>1. d \in Seq(Keys) /\ Len(d) = l + 1 /\ d[l + 1] = k /\ \A i \in 1 .. l : d[i] = s[i]
    BY <1>1, <1>2, AppendProperties
  <2>. QED
    BY <2>1, LenProperties
<1>4. \A i \in 1 .. l + 1 : i \in 1 .. l \/ i = l + 1
  OBVIOUS
<1>5. \A i \in 1 .. l : i \in 1 .. l + 1 /\ d[i] # k
  <2>1. \A i \in 1 .. l : s[i] \in ToSet(s)
    BY <1>1 DEF ToSet
  <2>. QED
    BY <1>3, <2>1
<1>6. \A x : x \in ToSet(d) <=> x \in ToSet(s) \/ x = k
  <2>1. \A x : x \in ToSet(d) <=> \E i \in 1 .. l + 1 : x = d[i]
    BY <1>3 DEF ToSet
  <2>2. \A x : x \in ToSet(s) <=> \E i \in 1 .. l : x = s[i]
    BY <1>1 DEF ToSet
  <2>3. l + 1 \in 1 .. l + 1
    OBVIOUS
  <2>. QED
    BY <1>3, <1>4, <1>5, <2>1, <2>2, <2>3
<1>7. IsInjective(d)
  <2>1. \A i, j \in 1 .. l : d[i] = d[j] => i = j
    BY <1>1, <1>3 DEF IsInjective
  <2>. QED
    BY <1>3, <1>4, <1>5, <2>1 DEF IsInjective
<1>. QED
  BY <1>2, <1>3, <1>6, <1>7

\* A key is at one place of the table.
LEMMA OnePlace ==
    ASSUME NEW n, NEW t, Table(n, t), NEW g \in 0 .. n - 1, NEW h \in 0 .. n - 1,
           NEW i \in DOMAIN t[g], NEW j \in DOMAIN t[h], t[g][i].key = t[h][j].key
    PROVE  g = h /\ i = j
<1>1. g = h
  BY DEF Table
<1>. QED
  BY <1>1 DEF Table, Apart

\* An iterator starts before everything.
LEMMA IteratorStep ==
    ASSUME Inv, dictGetIterator
    PROVE  WalkOK'
<1>1. KeysIn(table) \subseteq Keys /\ Stored = KeysIn(table) /\ size \in Nat
  <2>1. Table(size, table)
    BY DEF Inv
  <2>. QED
    BY <2>1, TableFacts DEF Stored, KeysIn
<1>2. /\ iter' = [on |-> TRUE, index |-> -1, entry |-> NoKey, next |-> NoKey,
                  todo |-> Stored, seen |-> <<>>]
      /\ size' = size /\ table' = table
  BY DEF dictGetIterator, NoIter
<1>3. Stored' = Stored
  BY <1>2 DEF Stored
<1>4. /\ iter'.on = TRUE /\ iter'.index = -1 /\ iter'.entry = NoKey /\ iter'.next = NoKey
      /\ iter'.todo = Stored /\ iter'.seen = <<>>
  BY <1>2
<1>5. iter' \in IterType
  BY <1>1, <1>2 DEF IterType
<1>6. ToSet(iter'.seen) = {} /\ IsInjective(iter'.seen)
  BY <1>4 DEF ToSet, IsInjective
<1>7. \A h \in 0 .. size - 1 : ~(h < -1) /\ h # -1
  BY <1>1
<1>8. iter'.index \in -1 .. size'
  BY <1>1, <1>2, <1>4
<1>9. \A h \in 0 .. size' - 1 : \A i \in DOMAIN table'[h] :
         table'[h][i].key \in ToSet(iter'.seen) <=> Passed(h, i)'
  BY <1>2, <1>4, <1>6, <1>7 DEF Passed
<1>10. iter'.todo = Stored' \cup ToSet(iter'.seen)
  BY <1>3, <1>4, <1>6
<1>. QED
  BY <1>4, <1>5, <1>6, <1>8, <1>9, <1>10 DEF WalkOK

\* The iterator returns the first entry that it has not returned.
LEMMA ReturnedStep ==
    ASSUME Inv, iter.on, UNCHANGED <<size, table>>,
           NEW h \in 0 .. size - 1, NEW i \in DOMAIN table[h], NEW k, k = table[h][i].key,
           \A g \in 0 .. size - 1 : \A j \in DOMAIN table[g] :
              table[g][j].key \in ToSet(iter.seen) <=> g < h \/ (g = h /\ j < i),
           iter' = Returned(k, h)
    PROVE  WalkOK'
<1>1. Table(size, table) /\ WalkOK
  BY DEF Inv
<1>2. /\ size \in Nat /\ table[h] \in Seq(Entry) /\ Apart(table[h]) /\ KeysIn(table) = Stored
      /\ DOMAIN table = 0 .. size - 1 /\ KeysIn(table) \subseteq Keys
      /\ \A g \in 0 .. size - 1 : table[g] \in Seq(Entry)
  BY <1>1, TableFacts DEF Stored, KeysIn
<1>3. PICK c \in Seq(Entry) : c = table[h]
  BY <1>2
<1>4. PICK l \in Nat : /\ l = Len(c) /\ DOMAIN c = 1 .. l
                       /\ \A j \in 1 .. l : c[j].key \in Keys
  BY ChainFacts
<1>5. i \in 1 .. l /\ k = c[i].key /\ k \in KeysOf(c) /\ k \in Keys
  BY <1>3, <1>4 DEF KeysOf
<1>6. k \in Stored /\ Slot(k, size) = h /\ Place(k, c) = i
  <2>1. k \in Stored
    BY <1>2, <1>3, <1>5 DEF Stored
  <2>2. Slot(k, size) = h
    BY <1>1 DEF Table
  <2>3. Place(k, c) = i
    BY <1>2, <1>3, <1>5, PlaceFacts
  <2>. QED
    BY <2>1, <2>2, <2>3
<1>7. PICK q : q = NextInChain(k)
  OBVIOUS
<1>8. q = IF i < l THEN c[i + 1].key ELSE NoKey
  BY <1>3, <1>4, <1>6, <1>7 DEF NextInChain
<1>9. /\ iter \in IterType /\ IsInjective(iter.seen)
      /\ iter.todo = Stored \cup ToSet(iter.seen)
  BY <1>1 DEF WalkOK
<1>10. iter.seen \in Seq(Keys) /\ iter.todo \in SUBSET Keys
  BY <1>9 DEF IterType
<1>11. k \notin ToSet(iter.seen)
  <2>1. ~(h < h \/ (h = h /\ i < i))
    BY <1>2, <1>4, <1>5
  <2>2. table[h][i].key \in ToSet(iter.seen) <=> h < h \/ (h = h /\ i < i)
    OBVIOUS
  <2>. QED
    BY <2>1, <2>2
<1>12. PICK s : s = Append(iter.seen, k)
  OBVIOUS
<1>13. s \in Seq(Keys) /\ IsInjective(s) /\ ToSet(s) = ToSet(iter.seen) \cup {k}
  BY <1>5, <1>9, <1>10, <1>11, <1>12, SeenGrows
<1>14. q \in Keys \cup {NoKey} /\ (q # NoKey => i < l)
  BY <1>4, <1>5, <1>8
<1>15. iter' = [iter EXCEPT !.index = h, !.entry = k, !.next = q, !.seen = s]
  BY <1>7, <1>12 DEF Returned
<1>16. /\ iter'.on /\ iter'.index = h /\ iter'.entry = k /\ iter'.next = q
       /\ iter'.todo = iter.todo /\ iter'.seen = s /\ iter' \in IterType
  <2>1. iter' = [on |-> iter.on, index |-> h, entry |-> k, next |-> q, todo |-> iter.todo, seen |-> s]
    BY <1>9, <1>15 DEF IterType
  <2>2. /\ iter'.on = iter.on /\ iter'.index = h /\ iter'.entry = k /\ iter'.next = q
        /\ iter'.todo = iter.todo /\ iter'.seen = s
    BY <2>1
  <2>3. /\ h \in Int /\ iter.on \in BOOLEAN /\ k \in Keys \cup {NoKey} /\ q \in Keys \cup {NoKey}
        /\ iter.todo \in SUBSET Keys /\ s \in Seq(Keys)
    BY <1>2, <1>5, <1>9, <1>13, <1>14 DEF IterType
  <2>4. iter' \in IterType
    BY <2>1, <2>3 DEF IterType
  <2>. QED
    BY <2>2, <2>4
<1>17. Stored' = Stored
  BY DEF Stored
<1>18. iter'.index \in -1 .. size'
  BY <1>2, <1>16
<1>19. iter'.todo = Stored' \cup ToSet(iter'.seen) /\ iter'.entry \in ToSet(iter'.seen)
  BY <1>6, <1>9, <1>13, <1>16, <1>17
<1>20. iter'.next # NoKey => iter'.index \in 0 .. size' - 1 /\ iter'.next \in KeysOf(table'[iter'.index])
  <2>1. q # NoKey => q \in KeysOf(c)
    <3>1. i < l => i + 1 \in DOMAIN c
      BY <1>4, <1>5
    <3>. QED
      BY <1>8, <1>14, <3>1 DEF KeysOf
  <2>. QED
    BY <1>3, <1>16, <2>1
<1>21. ASSUME NEW g \in 0 .. size - 1, NEW j \in DOMAIN table[g]
       PROVE  table[g][j].key \in ToSet(s) <=>
                 \/ g < h
                 \/ g = h /\ \A m \in DOMAIN table[g] : table[g][m].key = q => j < m
  <2>0. table[g][j].key = table[h][i].key => g = h /\ j = i
    BY <1>1, OnePlace
  <2>1. table[g][j].key = k <=> g = h /\ j = i
    BY <2>0
  <2>2. table[g][j].key \in ToSet(s) <=> g < h \/ (g = h /\ (j < i \/ j = i))
    BY <1>13, <2>1
  <2>3. ASSUME g = h PROVE (j < i \/ j = i) <=> \A m \in 1 .. l : c[m].key = q => j < m
    <3>0. j \in 1 .. l
      BY <1>3, <1>4, <2>3
    <3>1. CASE i < l
      <4>1. i + 1 \in 1 .. l /\ q = c[i + 1].key
        BY <1>5, <1>8, <3>1
      <4>2. \A m \in 1 .. l : c[m].key = q <=> m = i + 1
        BY <1>2, <1>3, <1>4, <4>1 DEF Apart
      <4>. QED
        BY <1>5, <3>0, <4>1, <4>2
    <3>2. CASE ~(i < l)
      <4>1. i = l /\ q = NoKey
        BY <1>5, <1>8, <3>2
      <4>2. \A m \in 1 .. l : c[m].key # q
        BY <1>4, <4>1, DictAssumption
      <4>. QED
        BY <3>0, <4>1, <4>2
    <3>. QED
      BY <3>1, <3>2
  <2>. QED
    BY <1>3, <1>4, <2>2, <2>3
<1>22. \A g \in 0 .. size' - 1 : \A j \in DOMAIN table'[g] :
         table'[g][j].key \in ToSet(iter'.seen) <=> Passed(g, j)'
  BY <1>16, <1>21 DEF Passed
<1>. QED
  BY <1>13, <1>16, <1>18, <1>19, <1>20, <1>22 DEF WalkOK

\* dictNext: the saved successor, the head of the next chain, or the end.
LEMMA NextStep ==
    ASSUME Inv, dictNext
    PROVE  WalkOK'
<1>1. Table(size, table) /\ WalkOK /\ iter.on /\ size' = size /\ table' = table
  BY DEF Inv, dictNext
<1>2. /\ size \in Nat /\ \A g \in 0 .. size - 1 : table[g] \in Seq(Entry)
  BY <1>1, TableFacts
<1>3. \A g \in 0 .. size - 1 : \A j \in DOMAIN table[g] : table[g][j].key # NoKey
  BY <1>2, ChainFacts, DictAssumption
<1>4. /\ iter \in IterType /\ iter.index \in -1 .. size
      /\ IsInjective(iter.seen)
      /\ iter.todo = Stored \cup ToSet(iter.seen)
      /\ iter.next # NoKey => iter.index \in 0 .. size - 1 /\ iter.next \in KeysOf(table[iter.index])
      /\ \A g \in 0 .. size - 1 : \A j \in DOMAIN table[g] :
            table[g][j].key \in ToSet(iter.seen) <=> Passed(g, j)
  BY <1>1 DEF WalkOK
<1>5. CASE iter.next # NoKey /\ iter' = Returned(iter.next, iter.index)
  <2>1. PICK h \in 0 .. size - 1 : h = iter.index /\ iter.next \in KeysOf(table[h])
    BY <1>4, <1>5
  <2>2. PICK i \in DOMAIN table[h] : iter.next = table[h][i].key
    BY <2>1 DEF KeysOf
  <2>3. ASSUME NEW g \in 0 .. size - 1, NEW j \in DOMAIN table[g]
        PROVE  table[g][j].key \in ToSet(iter.seen) <=> g < h \/ (g = h /\ j < i)
    <3>1. \A m \in DOMAIN table[h] : table[h][m].key = iter.next <=> m = i
      BY <1>1, <2>2, OnePlace
    <3>2. Passed(g, j) <=> g < h \/ (g = h /\ j < i)
      BY <2>1, <3>1 DEF Passed
    <3>. QED
      BY <1>4, <3>2
  <2>4. PICK k : k = iter.next
    OBVIOUS
  <2>5. k = table[h][i].key /\ iter' = Returned(k, h)
    BY <1>5, <2>1, <2>2, <2>4
  <2>. QED
    BY <1>1, <2>3, <2>5, ReturnedStep
<1>6. ASSUME iter.next = NoKey, NEW g \in 0 .. size - 1, NEW j \in DOMAIN table[g]
      PROVE  table[g][j].key \in ToSet(iter.seen) <=> g <= iter.index
  <2>1. Passed(g, j) <=> g < iter.index \/ g = iter.index
    BY <1>3, <1>6 DEF Passed
  <2>2. g <= iter.index <=> g < iter.index \/ g = iter.index
    BY <1>2, <1>4
  <2>. QED
    BY <1>4, <2>1, <2>2
<1>7. \A g \in 0 .. size - 1 : /\ table[g] # <<>> <=> DOMAIN table[g] # {}
                               /\ table[g] # <<>> => 1 \in DOMAIN table[g]
  <2>. TAKE g \in 0 .. size - 1
  <2>1. PICK c \in Seq(Entry) : c = table[g]
    BY <1>2
  <2>2. PICK l \in Nat : DOMAIN c = 1 .. l /\ (c = <<>> <=> l = 0)
    BY LenProperties, EmptySeq
  <2>3. (l = 0 <=> 1 .. l = {}) /\ (l # 0 => 1 \in 1 .. l)
    <3>1. l # 0 => 1 \in 1 .. l
      OBVIOUS
    <3>2. l = 0 => 1 .. l = {}
      OBVIOUS
    <3>. QED
      BY <3>1, <3>2
  <2>. QED
    BY <2>1, <2>2, <2>3
<1>8. CASE iter.next = NoKey /\ Slots # {} /\ iter' = Returned(table[Min(Slots)][1].key, Min(Slots))
  <2>1. PICK h : h = Min(Slots)
    OBVIOUS
  <2>2. h \in Slots /\ \A y \in Slots : h <= y
    <3>1. Slots \in SUBSET Nat
      BY <1>2 DEF Slots
    <3>2. \E x \in Slots : \A y \in Slots : x <= y
      <4>1. PICK x \in Slots : \A y \in Slots : ~(<<y, x>> \in OpToRel(<, Nat))
        BY <1>8, <3>1, WFMin, NatLessThanWellFounded
      <4>2. \A y \in Slots : ~(y < x)
        BY <3>1, <4>1 DEF OpToRel
      <4>. QED
        BY <3>1, <4>2
    <3>. QED
      BY <2>1, <3>2 DEF Min
  <2>3. h \in 0 .. size - 1 /\ h > iter.index /\ 1 \in DOMAIN table[h]
    BY <1>7, <2>2 DEF Slots
  <2>4. ASSUME NEW g \in 0 .. size - 1, NEW j \in DOMAIN table[g]
        PROVE  table[g][j].key \in ToSet(iter.seen) <=> g < h \/ (g = h /\ j < 1)
    <3>1. j \in Nat \ {0}
      BY <1>2, ChainFacts
    <3>2. g > iter.index => g \in Slots
      BY <1>7 DEF Slots
    <3>3. g < h => g <= iter.index
      BY <1>2, <1>4, <2>2, <2>3, <3>2
    <3>4. g <= iter.index => g < h
      BY <1>2, <1>4, <2>3
    <3>. QED
      BY <1>6, <1>8, <3>1, <3>3, <3>4
  <2>5. PICK k : k = table[h][1].key
    OBVIOUS
  <2>6. iter' = Returned(k, h)
    BY <1>8, <2>1, <2>5
  <2>7. PICK i \in DOMAIN table[h] : i = 1
    BY <2>3
  <2>8. \A g \in 0 .. size - 1 : \A j \in DOMAIN table[g] :
           table[g][j].key \in ToSet(iter.seen) <=> g < h \/ (g = h /\ j < i)
    BY <2>4, <2>7
  <2>9. h \in 0 .. size - 1 /\ k = table[h][i].key
    BY <2>3, <2>5, <2>7
  <2>. QED
    BY <1>1, <2>6, <2>8, <2>9, ReturnedStep
<1>9. CASE /\ iter.next = NoKey /\ Slots = {}
           /\ iter' = [iter EXCEPT !.index = size, !.entry = NoKey, !.next = NoKey]
  <2>1. /\ iter'.on /\ iter'.index = size /\ iter'.entry = NoKey /\ iter'.next = NoKey
        /\ iter'.todo = iter.todo /\ iter'.seen = iter.seen /\ iter' \in IterType
    <3>1. iter' = [on |-> iter.on, index |-> size, entry |-> NoKey, next |-> NoKey,
                   todo |-> iter.todo, seen |-> iter.seen]
      BY <1>4, <1>9 DEF IterType
    <3>2. /\ iter'.on = iter.on /\ iter'.index = size /\ iter'.entry = NoKey /\ iter'.next = NoKey
          /\ iter'.todo = iter.todo /\ iter'.seen = iter.seen
      BY <3>1
    <3>3. /\ size \in Int /\ iter.on \in BOOLEAN /\ iter.todo \in SUBSET Keys
          /\ iter.seen \in Seq(Keys)
      BY <1>2, <1>4 DEF IterType
    <3>4. iter' \in IterType
      BY <3>1, <3>3 DEF IterType
    <3>. QED
      BY <1>1, <3>2, <3>4
  <2>2. Stored' = Stored
    BY <1>1 DEF Stored
  <2>3. ASSUME NEW g \in 0 .. size - 1, NEW j \in DOMAIN table[g]
        PROVE  table[g][j].key \in ToSet(iter.seen) /\ g < size
    <3>1. ~(g > iter.index)
      BY <1>7, <1>9 DEF Slots
    <3>2. g <= iter.index
      BY <1>2, <1>4, <3>1
    <3>. QED
      BY <1>2, <1>6, <1>9, <3>2
  <2>4. \A g \in 0 .. size' - 1 : \A j \in DOMAIN table'[g] :
           table'[g][j].key \in ToSet(iter'.seen) <=> Passed(g, j)'
    BY <1>1, <2>1, <2>3 DEF Passed
  <2>5. iter'.index \in -1 .. size'
    BY <1>1, <1>2, <2>1
  <2>. QED
    BY <1>4, <2>1, <2>2, <2>4, <2>5 DEF WalkOK
<1>. QED
  BY <1>5, <1>8, <1>9 DEF dictNext

\* The entry that the iterator returned last is deleted.
LEMMA DeletedStep ==
    ASSUME Inv, iter.on, NEW k \in Keys, k = iter.entry, dictFind(k),
           table' = TakeOut(table, k, size), size' = size, iter' = iter
    PROVE  WalkOK'
<1>1. Table(size, table) /\ WalkOK
  BY DEF Inv
<1>2. k \in KeysIn(table) /\ Stored = KeysIn(table) /\ Stored' = KeysIn(table')
  BY <1>1, Finding DEF Stored, KeysIn
<1>3. PICK h \in 0 .. size - 1 : h = Slot(k, size) /\ table[h] \in Seq(Entry) /\ k \in KeysOf(table[h])
  BY <1>1, <1>2, Located
<1>4. size \in Nat /\ DOMAIN table = 0 .. size - 1 /\ Apart(table[h])
  BY <1>1, TableFacts
<1>5. KeysIn(table') = KeysIn(table) \ {k}
  BY <1>1, <1>2, Removed
<1>0. PICK d, p : d = Unlink(k, table[h]) /\ p = Place(k, table[h])
  OBVIOUS
<1>6. PICK c \in Seq(Entry) : c = table[h] /\ d = Unlink(k, c) /\ p = Place(k, c)
  BY <1>0, <1>3
<1>7. /\ table'[h] = d /\ \A g \in 0 .. size - 1 : g # h => table'[g] = table[g]
  BY <1>3, <1>4, <1>6 DEF TakeOut
<1>8. PICK l \in Nat : l = Len(c) /\ DOMAIN c = 1 .. l /\ \A j \in 1 .. l : c[j].key \in Keys
  BY ChainFacts
<1>9. /\ d \in Seq(Entry) /\ p \in 1 .. l /\ c[p].key = k /\ Len(d) = l - 1
      /\ \A j \in 1 .. l - 1 : d[j] = IF j < p THEN c[j] ELSE c[j + 1]
  BY <1>3, <1>4, <1>6, <1>8, ChainUnlink
<1>10. DOMAIN d = 1 .. l - 1
  BY <1>9, LenProperties
<1>11. /\ iter \in IterType /\ iter.index \in -1 .. size
       /\ IsInjective(iter.seen)
       /\ iter.todo = Stored \cup ToSet(iter.seen)
       /\ iter.entry \in ToSet(iter.seen)
       /\ iter.next # NoKey => iter.index \in 0 .. size - 1 /\ iter.next \in KeysOf(table[iter.index])
       /\ \A g \in 0 .. size - 1 : \A j \in DOMAIN table[g] :
             table[g][j].key \in ToSet(iter.seen) <=> Passed(g, j)
  BY <1>1, DictAssumption DEF WalkOK
<1>12. k # iter.next
  <2>. SUFFICES ASSUME k = iter.next PROVE FALSE
    OBVIOUS
  <2>1. iter.index \in 0 .. size - 1 /\ k \in KeysOf(table[iter.index])
    BY <1>11, DictAssumption
  <2>2. PICK g \in 0 .. size - 1 : g = iter.index
    BY <2>1
  <2>3. PICK j \in DOMAIN table[g] : table[g][j].key = k
    BY <2>1, <2>2 DEF KeysOf
  <2>4. Passed(g, j)
    BY <1>11, <2>3
  <2>5. j \in Int /\ g \in Int
    <3>1. table[g] \in Seq(Entry)
      BY <1>1, TableFacts
    <3>. QED
      BY <3>1, ChainFacts
  <2>6. ~(g < g) /\ ~(j < j)
    BY <2>5
  <2>. QED
    BY <2>2, <2>3, <2>4, <2>6 DEF Passed
<1>13. iter.todo = Stored' \cup ToSet(iter.seen)
  BY <1>2, <1>5, <1>11
<1>14. iter.next # NoKey => iter.index \in 0 .. size - 1 /\ iter.next \in KeysOf(table'[iter.index])
  <2>. SUFFICES ASSUME iter.next # NoKey PROVE iter.next \in KeysOf(table'[iter.index])
    BY <1>11
  <2>1. iter.index \in 0 .. size - 1 /\ iter.next \in KeysOf(table[iter.index])
    BY <1>11
  <2>2. CASE iter.index # h
    BY <1>7, <2>1, <2>2
  <2>3. CASE iter.index = h
    <3>1. PICK m \in 1 .. l : c[m].key = iter.next
      BY <1>6, <1>8, <2>1, <2>3 DEF KeysOf
    <3>2. m # p
      BY <1>9, <1>12, <3>1
    <3>3. CASE m < p
      <4>1. m \in 1 .. l - 1 /\ d[m] = c[m]
        BY <1>9, <3>3
      <4>. QED
        BY <1>7, <1>10, <2>3, <3>1, <4>1 DEF KeysOf
    <3>4. CASE m > p
      <4>1. m - 1 \in 1 .. l - 1 /\ ~(m - 1 < p) /\ (m - 1) + 1 = m
        BY <1>9, <3>4
      <4>2. d[m - 1] = c[m]
        BY <1>9, <4>1
      <4>3. PICK y \in DOMAIN d : d[y].key = iter.next
        BY <1>10, <3>1, <4>1, <4>2
      <4>4. iter.next \in KeysOf(d)
        BY <4>3 DEF KeysOf
      <4>. QED
        BY <1>7, <2>3, <4>4
    <3>. QED
      BY <1>9, <3>2, <3>3, <3>4
  <2>. QED
    BY <2>2, <2>3
<1>. DEFINE Before(t, g, j) == \/ g < iter.index
                               \/ g = iter.index /\ \A m \in DOMAIN t[g] : t[g][m].key = iter.next => j < m
<1>15. \A g, j : Passed(g, j) <=> Before(table, g, j)
  BY DEF Passed
<1>16. \A g, j : Passed(g, j)' <=> Before(table', g, j)
  BY DEF Passed
<1>17. ASSUME NEW j \in 1 .. l - 1 PROVE d[j].key \in ToSet(iter.seen) <=> Before(table', h, j)
  <2>1. PICK x \in 1 .. l : d[j] = c[x] /\ x = IF j < p THEN j ELSE j + 1
    <3>1. CASE j < p
      BY <1>9, <3>1
    <3>2. CASE ~(j < p)
      <4>1. j + 1 \in 1 .. l
        OBVIOUS
      <4>. QED
        BY <1>9, <3>2, <4>1
    <3>. QED
      BY <3>1, <3>2
  <2>2. d[j].key \in ToSet(iter.seen) <=>
           h < iter.index \/ (h = iter.index /\ \A m \in 1 .. l : c[m].key = iter.next => x < m)
    BY <1>6, <1>8, <1>11, <1>15, <2>1
  <2>3. Before(table', h, j) <=>
           h < iter.index \/ (h = iter.index /\ \A m \in 1 .. l - 1 : d[m].key = iter.next => j < m)
    BY <1>7, <1>10
  <2>4. ASSUME \A m \in 1 .. l : c[m].key = iter.next => x < m,
               NEW m \in 1 .. l - 1, d[m].key = iter.next
        PROVE  j < m
    <3>1. CASE m < p
      <4>1. x < m
        BY <1>9, <2>4, <3>1
      <4>. QED
        BY <1>9, <2>1, <3>1, <4>1
    <3>2. CASE ~(m < p)
      <4>0. m + 1 \in 1 .. l /\ d[m] = c[m + 1]
        BY <1>9, <3>2
      <4>1. x < m + 1
        BY <2>4, <4>0
      <4>. QED
        BY <1>9, <2>1, <3>2, <4>1
    <3>. QED
      BY <3>1, <3>2
  <2>5. ASSUME \A m \in 1 .. l - 1 : d[m].key = iter.next => j < m,
               NEW m \in 1 .. l, c[m].key = iter.next
        PROVE  x < m
    <3>0. m # p
      BY <1>9, <1>12, <2>5
    <3>1. CASE m < p
      <4>1. m \in 1 .. l - 1 /\ d[m] = c[m]
        BY <1>9, <3>1
      <4>2. j < m
        BY <2>5, <4>1
      <4>. QED
        BY <1>9, <2>1, <3>1, <4>2
    <3>2. CASE m > p
      <4>1. m - 1 \in 1 .. l - 1 /\ ~(m - 1 < p) /\ (m - 1) + 1 = m
        BY <1>9, <3>2
      <4>2. d[m - 1] = c[m]
        BY <1>9, <4>1
      <4>3. j < m - 1
        BY <2>5, <4>1, <4>2
      <4>. QED
        BY <1>9, <2>1, <3>2, <4>3
    <3>. QED
      BY <1>9, <3>0, <3>1, <3>2
  <2>. QED
    BY <2>2, <2>3, <2>4, <2>5
<1>18. ASSUME NEW g \in 0 .. size - 1, NEW j \in DOMAIN table'[g]
       PROVE  table'[g][j].key \in ToSet(iter.seen) <=> Before(table', g, j)
  <2>1. CASE g = h
    BY <1>7, <1>10, <1>17, <2>1
  <2>2. CASE g # h
    BY <1>7, <1>11, <1>15, <2>2
  <2>. QED
    BY <2>1, <2>2
<1>. HIDE DEF Before
<1>19. \A g \in 0 .. size' - 1 : \A j \in DOMAIN table'[g] :
          table'[g][j].key \in ToSet(iter'.seen) <=> Passed(g, j)'
  BY <1>16, <1>18
<1>. QED
  BY <1>11, <1>13, <1>14, <1>19 DEF WalkOK

-----------------------------------------------------------------------------
(* The invariant *)

\* The shape and the content depend on the table and its counters only.
LEMMA SameTable ==
    ASSUME Shape, UNCHANGED <<size, used, table, copies>>
    PROVE  Becomes(Content(table))
<1>1. Shape'
  BY DEF Shape, Table, SizeOK, CountOK, Stored
<1>. QED
  BY <1>1 DEF Becomes

\* The iterator's invariant depends on the iterator and the table only.
LEMMA SameWalk ==
    ASSUME WalkOK, UNCHANGED <<size, table, iter>>
    PROVE  WalkOK'
BY DEF WalkOK, Stored, Passed

\* What an action does to the table, each in one of these ways.
LEMMA AddStep ==
    ASSUME Inv, NEW k \in Keys, NEW v \in Vals, dictAdd(k, v)
    PROVE  /\ Inv'
           /\ ~dictFind(k) => Content(table') = Content(table) \cup {Pair(k, v)}
           /\ dictFind(k) => Content(table') = Content(table)
<1>1. Shape /\ WalkOK
  BY DEF Inv, Shape
<1>2. WalkOK'
  BY <1>1, Quiet DEF dictAdd
<1>3. CASE ~dictFind(k)
  <2>1. Inserted(k, v)
    BY <1>3 DEF dictAdd
  <2>2. Becomes(Content(table) \cup {Pair(k, v)})
    BY <1>1, <1>3, <2>1, InsertedStep
  <2>. QED
    BY <1>2, <1>3, <2>2 DEF Becomes, Inv, Shape
<1>4. CASE dictFind(k)
  <2>1. Rehashed(_dictExpandIfNeeded) /\ UNCHANGED <<used, copies>>
    BY <1>4 DEF dictAdd
  <2>2. Becomes(Content(table))
    BY <1>1, <2>1, RehashedStep
  <2>. QED
    BY <1>2, <1>4, <2>2 DEF Becomes, Inv, Shape
<1>. QED
  BY <1>3, <1>4

\* dictReplace adds the key or changes its value.
LEMMA ReplaceStep ==
    ASSUME Inv, NEW k \in Keys, NEW v \in Vals, dictReplace(k, v)
    PROVE  /\ Inv'
           /\ ~dictFind(k) => Content(table') = Content(table) \cup {Pair(k, v)}
           /\ dictFind(k) => Content(table') = {e \in Content(table) : e.key # k} \cup {Pair(k, v)}
<1>1. Shape /\ WalkOK
  BY DEF Inv, Shape
<1>2. WalkOK'
  BY <1>1, Quiet DEF dictReplace
<1>3. CASE ~dictFind(k)
  <2>1. Inserted(k, v)
    BY <1>3 DEF dictReplace
  <2>2. Becomes(Content(table) \cup {Pair(k, v)})
    BY <1>1, <1>3, <2>1, InsertedStep
  <2>. QED
    BY <1>2, <1>3, <2>2 DEF Becomes, Inv, Shape
<1>4. CASE dictFind(k)
  <2>1. Updated(_dictExpandIfNeeded, k, v) /\ UNCHANGED used
    BY <1>4 DEF dictReplace
  <2>2. Becomes({e \in Content(table) : e.key # k} \cup {Pair(k, v)})
    BY <1>1, <1>4, <2>1, UpdatedStep
  <2>. QED
    BY <1>2, <1>4, <2>2 DEF Becomes, Inv, Shape
<1>. QED
  BY <1>3, <1>4

\* dictDelete, also under an iterator.
LEMMA DeleteStep ==
    ASSUME Inv, NEW k \in Keys, dictDelete(k)
    PROVE  /\ Inv'
           /\ dictFind(k) => Content(table') = {e \in Content(table) : e.key # k}
           /\ ~dictFind(k) => Content(table') = Content(table)
<1>1. Shape /\ WalkOK
  BY DEF Inv, Shape
<1>2. size' = size /\ iter' = iter /\ (iter.on => iter.entry = k)
  BY DEF dictDelete, MayDelete
<1>3. CASE dictFind(k)
  <2>1. table' = TakeOut(table, k, size) /\ used' = used - 1 /\ copies' = copies - 1
    BY <1>3 DEF dictDelete, TakeOut
  <2>2. Becomes({e \in Content(table) : e.key # k})
    BY <1>1, <1>2, <1>3, <2>1, RemovedStep
  <2>3. WalkOK'
    <3>1. CASE iter.on
      <4>1. k = iter.entry
        BY <1>2, <3>1
      <4>. QED
        BY <1>2, <1>3, <2>1, <3>1, <4>1, DeletedStep
    <3>2. CASE ~iter.on
      BY <1>1, <1>2, <3>2, Quiet
    <3>. QED
      BY <3>1, <3>2
  <2>. QED
    BY <1>3, <2>2, <2>3 DEF Becomes, Inv, Shape
<1>4. CASE ~dictFind(k)
  <2>1. UNCHANGED <<size, used, table, copies>>
    BY <1>2, <1>4 DEF dictDelete
  <2>2. Becomes(Content(table))
    BY <1>1, <2>1, SameTable
  <2>3. WalkOK'
    BY <1>1, <1>2, <2>1, SameWalk
  <2>. QED
    BY <1>4, <2>2, <2>3 DEF Becomes, Inv, Shape
<1>. QED
  BY <1>3, <1>4

\* Every other call that leaves the table alone.
LEMMA ReadStep ==
    ASSUME Inv, \/ \E k \in Keys : Lookup(k)
                \/ dictGetIterator \/ dictNext \/ dictReleaseIterator
                \/ UNCHANGED vars
    PROVE  Inv' /\ UNCHANGED <<size, table>>
<1>1. Shape /\ WalkOK
  BY DEF Inv, Shape
<1>2. UNCHANGED <<size, used, table, copies>>
  BY DEF Lookup, dictGetIterator, dictNext, dictReleaseIterator, vars
<1>3. Shape'
  BY <1>1, <1>2, SameTable DEF Becomes
<1>4. WalkOK'
  <2>1. CASE dictGetIterator
    BY <2>1, IteratorStep
  <2>2. CASE dictNext
    BY <2>2, NextStep
  <2>3. CASE dictReleaseIterator
    <3>1. iter' = NoIter /\ <<>> \in Seq(Keys)
      BY <2>3 DEF dictReleaseIterator
    <3>2. iter' \in IterType /\ ~iter'.on
      BY <3>1 DEF NoIter, IterType
    <3>. QED
      BY <3>2 DEF WalkOK
  <2>4. CASE (\E k \in Keys : Lookup(k)) \/ UNCHANGED vars
    <3>1. UNCHANGED <<size, table, iter>>
      BY <2>4 DEF Lookup, vars
    <3>. QED
      BY <1>1, <3>1, SameWalk
  <2>. QED
    BY <2>1, <2>2, <2>3, <2>4
<1>. QED
  BY <1>2, <1>3, <1>4 DEF Inv, Shape

\* _dictClear leaves an empty table.
LEMMA ClearStep ==
    ASSUME Inv, _dictClear
    PROVE  Inv' /\ Content(table') = {}
<1>1. Shape /\ WalkOK
  BY DEF Inv, Shape
<1>2. Becomes({})
  BY <1>1, ClearedStep
<1>3. WalkOK'
  BY <1>1, Quiet DEF _dictClear
<1>. QED
  BY <1>2, <1>3 DEF Becomes, Inv, Shape

\* The table starts empty.
LEMMA InitInv ==
    ASSUME Init
    PROVE  Inv /\ Content(table) = {}
<1>1. size = 0 /\ used = 0 /\ table = <<>> /\ copies = 0 /\ iter = NoIter
  BY DEF Init, _dictReset
<1>2. <<>> = NoChains(0)
  BY DEF NoChains
<1>3. Table(size, table) /\ Content(table) = {}
  BY <1>1, <1>2, EmptyTable
<1>4. KeysIn(table) = {}
  BY <1>3, TableFacts
<1>5. Stored = {}
  BY <1>4 DEF Stored, KeysIn
<1>6. CountOK
  BY <1>1, <1>5, FS_EmptySet DEF CountOK
<1>7. <<>> \in Seq(Keys)
  OBVIOUS
<1>8. iter \in IterType /\ ~iter.on
  BY <1>1, <1>7 DEF NoIter, IterType
<1>. QED
  BY <1>1, <1>3, <1>6, <1>8 DEF Inv, SizeOK, WalkOK

\* The invariant is inductive, whatever the keys, the values, the initial size and
\* the width of the hash.
THEOREM DictInvariant == Spec => []Inv
<1>1. Init => Inv
  BY InitInv
<1>2. Inv /\ [Next]_vars => Inv'
  <2>. SUFFICES ASSUME Inv, [Next]_vars PROVE Inv'
    OBVIOUS
  <2>1. ASSUME NEW k \in Keys, NEW v \in Vals, dictAdd(k, v) PROVE Inv'
    BY <2>1, AddStep
  <2>2. ASSUME NEW k \in Keys, NEW v \in Vals, dictReplace(k, v) PROVE Inv'
    BY <2>2, ReplaceStep
  <2>3. ASSUME NEW k \in Keys, dictDelete(k) PROVE Inv'
    BY <2>3, DeleteStep
  <2>4. CASE _dictClear
    BY <2>4, ClearStep
  <2>5. CASE \/ \E k \in Keys : Lookup(k)
             \/ dictGetIterator \/ dictNext \/ dictReleaseIterator
             \/ UNCHANGED vars
    BY <2>5, ReadStep
  <2>. QED
    BY <2>1, <2>2, <2>3, <2>4, <2>5 DEF Next
<1>. QED
  BY <1>1, <1>2, PTL DEF Spec

\* The shape that dict.c relies on, in every state: slots, counts and sizes.
THEOREM WellFormedProved == Spec => []WellFormed
<1>1. Inv => WellFormed
  <2>. SUFFICES ASSUME Inv PROVE WellFormed
    OBVIOUS
  <2>1. Shape
    BY DEF Inv, Shape
  <2>2. /\ Table(size, table) /\ size \in Nat /\ used \in Nat /\ used <= size
        /\ IsFiniteSet(Stored) /\ used = Cardinality(Stored) /\ copies = used
        /\ (size = 0 \/ Power(size))
    BY <2>1, Counting DEF Shape, SizeOK
  <2>3. size = 0 \/ size = _dictNextPower(size)
    BY <2>2, NextPower
  <2>4. Cardinality(Places) = Cardinality(Stored)
    BY <2>2, PlacesCount
  <2>5. /\ DOMAIN table = 0 .. size - 1
        /\ \A h \in 0 .. size - 1 : \A k \in KeysOf(table[h]) : k \in Keys /\ Slot(k, size) = h
    <3>1. DOMAIN table = 0 .. size - 1 /\ \A h \in 0 .. size - 1 : table[h] \in Seq(Entry)
      BY <2>2, TableFacts
    <3>2. ASSUME NEW h \in 0 .. size - 1, NEW k \in KeysOf(table[h]) PROVE k \in Keys /\ Slot(k, size) = h
      <4>1. PICK i \in DOMAIN table[h] : k = table[h][i].key
        BY DEF KeysOf
      <4>2. k \in Keys
        BY <3>1, <4>1, ChainFacts
      <4>. QED
        BY <2>2, <4>1, <4>2 DEF Table
    <3>. QED
      BY <3>1, <3>2
  <2>. QED
    BY <2>2, <2>3, <2>4, <2>5 DEF WellFormed
<1>. QED
  BY <1>1, DictInvariant, PTL

\* A walk returns every entry exactly once, whatever its user deletes of what it got.
THEOREM IterationProved == Spec => []IterationIsComplete
<1>1. Inv => IterationIsComplete
  <2>. SUFFICES ASSUME Inv, iter.on
                PROVE  /\ IsInjective(iter.seen) /\ ToSet(iter.seen) \subseteq iter.todo
                       /\ iter.index = size => ToSet(iter.seen) = iter.todo
    BY DEF IterationIsComplete
  <2>1. Table(size, table) /\ WalkOK
    BY DEF Inv
  <2>2. /\ IsInjective(iter.seen) /\ iter.todo = Stored \cup ToSet(iter.seen)
        /\ \A h \in 0 .. size - 1 : \A i \in DOMAIN table[h] :
              table[h][i].key \in ToSet(iter.seen) <=> Passed(h, i)
    BY <2>1 DEF WalkOK
  <2>3. ASSUME iter.index = size PROVE Stored \subseteq ToSet(iter.seen)
    <3>. SUFFICES ASSUME NEW k \in Stored PROVE k \in ToSet(iter.seen)
      OBVIOUS
    <3>1. size \in Nat /\ DOMAIN table = 0 .. size - 1
      BY <2>1, TableFacts
    <3>2. PICK h \in 0 .. size - 1 : k \in KeysOf(table[h])
      BY <3>1 DEF Stored
    <3>3. PICK i \in DOMAIN table[h] : k = table[h][i].key
      BY <3>2 DEF KeysOf
    <3>4. h < iter.index
      BY <2>3, <3>1
    <3>. QED
      BY <2>2, <3>3, <3>4 DEF Passed
  <2>. QED
    BY <2>2, <2>3
<1>. QED
  BY <1>1, DictInvariant, PTL

-----------------------------------------------------------------------------
(* The table implements a map *)

StoresIn(n, t) == [k \in KeysIn(t) |-> At(n, t, k).val]

\* The map of a table is a matter of its content.
LEMMA MapOfContent ==
    ASSUME NEW n, NEW t, Table(n, t), NEW m, m = StoresIn(n, t)
    PROVE  /\ DOMAIN m = KeysIn(t) /\ KeysIn(t) = {e.key : e \in Content(t)}
           /\ \A e \in Content(t) : m[e.key] = e.val
           /\ m = [k \in KeysIn(t) |-> m[k]]
<1>1. KeysIn(t) = {e.key : e \in Content(t)}
  BY TableFacts
<1>2. DOMAIN m = KeysIn(t) /\ m = [k \in KeysIn(t) |-> m[k]]
      /\ \A k \in KeysIn(t) : m[k] = At(n, t, k).val
  BY DEF StoresIn
<1>3. ASSUME NEW e \in Content(t) PROVE m[e.key] = e.val
  <2>1. PICK k \in KeysIn(t) : k = e.key
    BY <1>1
  <2>2. e = At(n, t, k)
    BY <2>1, Located
  <2>. QED
    BY <1>2, <2>1, <2>2
<1>. QED
  BY <1>1, <1>2, <1>3

\* Tables with the same content are the same map.
LEMMA SameMap ==
    ASSUME NEW n, NEW t, Table(n, t), NEW o, NEW u, Table(o, u), Content(u) = Content(t)
    PROVE  StoresIn(o, u) = StoresIn(n, t)
<1>1. PICK a, b : a = StoresIn(n, t) /\ b = StoresIn(o, u)
  OBVIOUS
<1>2. /\ DOMAIN a = KeysIn(t) /\ KeysIn(t) = {e.key : e \in Content(t)}
      /\ \A e \in Content(t) : a[e.key] = e.val
      /\ a = [k \in KeysIn(t) |-> a[k]]
  BY <1>1, MapOfContent
<1>3. /\ KeysIn(u) = {e.key : e \in Content(u)}
      /\ \A e \in Content(u) : b[e.key] = e.val
      /\ b = [k \in KeysIn(u) |-> b[k]]
  BY <1>1, MapOfContent
<1>4. KeysIn(u) = KeysIn(t)
  BY <1>2, <1>3
<1>5. \A k \in KeysIn(t) : a[k] = b[k]
  BY <1>2, <1>3
<1>6. a = b
  BY <1>2, <1>3, <1>4, <1>5
<1>. QED
  BY <1>1, <1>6

\* A pair more, or another value of a key.
LEMMA MapWith ==
    ASSUME NEW n, NEW t, Table(n, t), NEW o, NEW u, Table(o, u), NEW k, NEW v,
           Content(u) = {e \in Content(t) : e.key # k} \cup {Pair(k, v)}
    PROVE  StoresIn(o, u) =
             [j \in KeysIn(t) \cup {k} |-> IF j = k THEN v ELSE StoresIn(n, t)[j]]
<1>1. PICK a, b : a = StoresIn(n, t) /\ b = StoresIn(o, u)
  OBVIOUS
<1>2. /\ KeysIn(t) = {e.key : e \in Content(t)}
      /\ \A e \in Content(t) : a[e.key] = e.val
  BY <1>1, MapOfContent
<1>3. /\ KeysIn(u) = {e.key : e \in Content(u)}
      /\ \A e \in Content(u) : b[e.key] = e.val
      /\ b = [j \in KeysIn(u) |-> b[j]]
  BY <1>1, MapOfContent
<1>4. Pair(k, v).key = k /\ Pair(k, v).val = v
  BY DEF Pair
<1>5. KeysIn(u) = KeysIn(t) \cup {k}
  BY <1>2, <1>3, <1>4
<1>6. ASSUME NEW j \in KeysIn(t) \cup {k} PROVE b[j] = IF j = k THEN v ELSE a[j]
  <2>1. CASE j = k
    <3>1. PICK e \in Content(u) : e.key = k /\ e.val = v
      BY <1>4
    <3>. QED
      BY <1>3, <2>1, <3>1
  <2>2. CASE j # k
    <3>1. PICK e \in Content(t) : e.key = j
      BY <1>2, <2>2
    <3>2. e \in Content(u)
      BY <2>2, <3>1
    <3>. QED
      BY <1>2, <1>3, <2>2, <3>1, <3>2
  <2>. QED
    BY <2>1, <2>2
<1>. QED
  BY <1>1, <1>3, <1>5, <1>6

Others(C, k) == {e \in C : e.key # k}
Restricted(f, S) == [j \in S |-> f[j]]

\* A key less.
LEMMA MapWithout ==
    ASSUME NEW n, NEW t, Table(n, t), NEW o, NEW u, Table(o, u), NEW k,
           Content(u) = Others(Content(t), k)
    PROVE  StoresIn(o, u) = Restricted(StoresIn(n, t), KeysIn(t) \ {k})
<1>1. PICK a, b : a = StoresIn(n, t) /\ b = StoresIn(o, u)
  OBVIOUS
<1>2. /\ KeysIn(t) = {e.key : e \in Content(t)}
      /\ \A e \in Content(t) : a[e.key] = e.val
  BY <1>1, MapOfContent
<1>3. /\ KeysIn(u) = {e.key : e \in Content(u)}
      /\ \A e \in Content(u) : b[e.key] = e.val
      /\ b = [j \in KeysIn(u) |-> b[j]]
  BY <1>1, MapOfContent
<1>4. KeysIn(u) = KeysIn(t) \ {k}
  BY <1>2, <1>3 DEF Others
<1>5. ASSUME NEW j \in KeysIn(t) \ {k} PROVE b[j] = a[j]
  <2>1. PICK e \in Content(t) : e.key = j
    BY <1>2
  <2>2. e \in Content(u)
    BY <2>1 DEF Others
  <2>. QED
    BY <1>2, <1>3, <2>1, <2>2
<1>. QED
  BY <1>1, <1>3, <1>4, <1>5 DEF Restricted

\* The refinement mapping, before and after a step.
LEMMA Mapping ==
    Stores = StoresIn(size, table) /\ Stores' = StoresIn(size', table')
<1>1. Stores = StoresIn(size, table)
  BY DEF Stores, StoresIn, Stored, KeysIn, EntryOf, At
<1>2. Stores' = StoresIn(size', table')
  BY DEF Stores, StoresIn, Stored, KeysIn, EntryOf, At
<1>. QED
  BY <1>1, <1>2

\* Whatever was added, replaced, deleted and moved by a resize, a lookup finds the
\* value stored last: every call is a step of the map, or none.
THEOREM MapRefinement == Spec => MapSpec
<1>1. Init => M!Init
  <2>. SUFFICES ASSUME Init PROVE M!Init
    OBVIOUS
  <2>1. Table(size, table) /\ Content(table) = {}
    BY InitInv DEF Inv
  <2>2. KeysIn(table) = {}
    BY <2>1, TableFacts
  <2>3. Stores = [k \in {} |-> {}]
    BY <2>2, Mapping DEF StoresIn
  <2>4. ret = <<>>
    BY DEF Init
  <2>. QED
    BY <2>3, <2>4 DEF M!Init
<1>2. Inv /\ Inv' /\ [Next]_vars => [M!Next]_(M!vars)
  <2>. SUFFICES ASSUME Inv, Inv', [Next]_vars PROVE M!Next \/ UNCHANGED M!vars
    OBVIOUS
  <2>0. Table(size, table) /\ Table(size', table')
    BY DEF Inv
  <2>1. DOMAIN Stores = KeysIn(table) /\ Stores = StoresIn(size, table) /\ Stores' = StoresIn(size', table')
    BY <2>0, Mapping, MapOfContent
  <2>2. \A k \in Keys : dictFind(k) <=> k \in DOMAIN Stores
    BY <2>0, <2>1, Finding
  <2>3. Content(table') = Content(table) => Stores' = Stores
    BY <2>0, <2>1, SameMap
  <2>4. ASSUME NEW k \in Keys, k \notin DOMAIN Stores
        PROVE  {e \in Content(table) : e.key # k} = Content(table)
    <3>1. KeysIn(table) = {e.key : e \in Content(table)}
      BY <2>0, TableFacts
    <3>. QED
      BY <2>1, <2>4, <3>1
  <2>5. ASSUME NEW k \in Keys, NEW v \in Vals,
               Content(table') = {e \in Content(table) : e.key # k} \cup {Pair(k, v)}
        PROVE  Stores' = [j \in DOMAIN Stores \cup {k} |-> IF j = k THEN v ELSE Stores[j]]
    BY <2>0, <2>1, <2>5, MapWith
  <2>6. ASSUME NEW k \in Keys, NEW v \in Vals, dictAdd(k, v) PROVE M!Next
    <3>1. CASE ~dictFind(k)
      <4>1. Content(table') = {e \in Content(table) : e.key # k} \cup {Pair(k, v)}
        BY <2>2, <2>4, <2>6, <3>1, AddStep
      <4>2. ret' = <<k, "ok">> /\ k \notin DOMAIN Stores
        BY <2>2, <2>6, <3>1 DEF dictAdd
      <4>3. M!Add(k, v)
        BY <2>5, <4>1, <4>2 DEF M!Add, M!With
      <4>. QED
        BY <4>3 DEF M!Next
    <3>2. CASE dictFind(k)
      <4>1. Stores' = Stores
        BY <2>3, <2>6, <3>2, AddStep
      <4>2. ret' = <<k, "err">> /\ k \in DOMAIN Stores
        BY <2>2, <2>6, <3>2 DEF dictAdd
      <4>3. M!Add(k, v)
        BY <4>1, <4>2 DEF M!Add
      <4>. QED
        BY <4>3 DEF M!Next
    <3>. QED
      BY <3>1, <3>2
  <2>7. ASSUME NEW k \in Keys, NEW v \in Vals, dictReplace(k, v) PROVE M!Next
    <3>1. Content(table') = {e \in Content(table) : e.key # k} \cup {Pair(k, v)}
      BY <2>2, <2>4, <2>7, ReplaceStep
    <3>2. ret' = <<k, IF k \in DOMAIN Stores THEN "updated" ELSE "added">>
      BY <2>2, <2>7 DEF dictReplace
    <3>3. M!Replace(k, v)
      BY <2>5, <3>1, <3>2 DEF M!Replace, M!With
    <3>. QED
      BY <3>3 DEF M!Next
  <2>8. ASSUME NEW k \in Keys, dictDelete(k) PROVE M!Next
    <3>1. Content(table') = {e \in Content(table) : e.key # k}
      BY <2>2, <2>4, <2>8, DeleteStep
    <3>2. Stores' = [j \in DOMAIN Stores \ {k} |-> Stores[j]]
      <4>1. Content(table') = Others(Content(table), k)
        BY <3>1 DEF Others
      <4>2. Stores' = Restricted(Stores, DOMAIN Stores \ {k})
        BY <2>0, <2>1, <4>1, MapWithout
      <4>. QED
        BY <4>2 DEF Restricted
    <3>3. ret' = <<k, IF k \in DOMAIN Stores THEN "ok" ELSE "err">>
      BY <2>2, <2>8 DEF dictDelete
    <3>4. M!Delete(k)
      BY <3>2, <3>3 DEF M!Delete
    <3>. QED
      BY <3>4 DEF M!Next
  <2>9. ASSUME NEW k \in Keys, Lookup(k) PROVE M!Next
    <3>1. Stores' = Stores
      BY <2>1, <2>9 DEF Lookup
    <3>2. k \in DOMAIN Stores => Stores[k] = EntryOf(k).val
      BY DEF Stores
    <3>3. ret' = <<k, IF k \in DOMAIN Stores THEN Stores[k] ELSE "null">>
      BY <2>2, <2>9, <3>2 DEF Lookup
    <3>4. M!Find(k)
      BY <3>1, <3>3 DEF M!Find
    <3>. QED
      BY <3>4 DEF M!Next
  <2>10. CASE _dictClear
    <3>1. Content(table') = {}
      BY <2>10, ClearStep
    <3>2. KeysIn(table') = {}
      BY <2>0, <3>1, TableFacts
    <3>3. Stores' = [k \in {} |-> {}]
      BY <2>1, <3>2 DEF StoresIn
    <3>4. M!Clear
      BY <2>10, <3>3 DEF _dictClear, M!Clear
    <3>. QED
      BY <3>4 DEF M!Next
  <2>11. CASE dictGetIterator \/ dictNext \/ dictReleaseIterator \/ UNCHANGED vars
    <3>1. UNCHANGED <<size, table, ret>>
      BY <2>11 DEF dictGetIterator, dictNext, dictReleaseIterator, vars
    <3>2. Stores' = Stores
      BY <2>1, <3>1
    <3>. QED
      BY <3>1, <3>2 DEF M!vars
  <2>. QED
    BY <2>6, <2>7, <2>8, <2>9, <2>10, <2>11 DEF Next
<1>. QED
  BY <1>1, <1>2, DictInvariant, PTL DEF Spec, MapSpec, M!Spec

=============================================================================
