-------------------------------- MODULE Dict --------------------------------
(***************************************************************************)
(* The hash table of hiredis (dict.c, dict.h) as async.c instantiates it:      *)
(* keys are byte strings, values are copied when they are stored and freed      *)
(* when they leave.  A table is a power of two of chains, newest entry first;   *)
(* it doubles when it is full.  An iterator may be out while entries are        *)
(* deleted.  One thread; a call is one step.  malloc does not fail.            *)
(***************************************************************************)
EXTENDS Integers, Sequences, FiniteSets, SequencesExt, FiniteSetsExt

CONSTANTS Keys,         \* byte strings
          Vals,         \* callbacks
          InitialSize,  \* DICT_HT_INITIAL_SIZE
          HashMod,      \* 2^32: what an unsigned int wraps at
          NoKey         \* the null pointer to an entry

ASSUME DictAssumption == /\ Keys \subseteq Seq(0 .. 255)
                         /\ InitialSize \in Nat \ {0} /\ HashMod \in Nat \ {0}
                         /\ NoKey \notin Keys

VARIABLES
    size, used, \* ht->size and ht->used
    table,      \* ht->table: the chains, sequences of [key, val]
    copies,     \* how many copies of values are allocated
    iter,       \* the iterator, see NoIter
    ret         \* the key that was passed to the last call, and its result

vars == <<size, used, table, copies, iter, ret>>

\* index, entry and nextEntry of dictIterator; an entry is known by its key.  todo
\* are the keys that were there at the start, seen the keys that were returned.
NoIter == [on |-> FALSE, index |-> -1, entry |-> NoKey, next |-> NoKey,
           todo |-> {}, seen |-> <<>>]

_dictReset == size = 0 /\ used = 0 /\ table = <<>>

Init == /\ _dictReset
        /\ copies = 0 /\ iter = NoIter /\ ret = <<>>

\* Bernstein's hash.
dictGenHashFunction(buf) ==
    LET hash[i \in 0 .. Len(buf)] ==
            IF i = 0 THEN 5381 ELSE (hash[i - 1] * 33 + buf[i]) % HashMod
    IN  hash[Len(buf)]

\* hash & sizemask: sizes are powers of two.
Slot(k, n) == dictGenHashFunction(k) % n

KeysOf(chain) == {chain[i].key : i \in DOMAIN chain}
Place(k, chain) == CHOOSE i \in DOMAIN chain : chain[i].key = k

\* The keys that are stored, and the places of the entries in the chains.
Stored == UNION {KeysOf(table[h]) : h \in DOMAIN table}
Places == UNION {{h} \X DOMAIN table[h] : h \in DOMAIN table}

\* The initial size is doubled until it is not below n, at most n times.
_dictNextPower(n) ==
    LET i[r \in 0 .. n] ==
            IF r = 0 THEN InitialSize ELSE IF i[r - 1] >= n THEN i[r - 1] ELSE i[r - 1] * 2
    IN  i[n]

\* Every entry of a chain becomes the head of its chain in the table t of n slots.
Moved(chain, t, n) ==
    LET new[j \in 0 .. Len(chain)] ==
            IF j = 0 THEN t
            ELSE [new[j - 1] EXCEPT ![Slot(chain[j].key, n)] = <<chain[j]>> \o @]
    IN  new[Len(chain)]

\* Mutant: the entries are spread over the new table with the old mask.
SpreadOldMask(n, t, m) ==
    LET new[i \in 0 .. n] ==
            IF i = 0 THEN [h \in 0 .. m - 1 |-> <<>>] ELSE Moved(t[i - 1], new[i - 1], n)
    IN  new[n]

\* The chains of the table t of n slots, one after the other, in a table of m slots.
Spread(n, t, m) ==
    LET new[i \in 0 .. n] ==
            IF i = 0 THEN [h \in 0 .. m - 1 |-> <<>>] ELSE Moved(t[i - 1], new[i - 1], m)
    IN  new[n]

dictExpand(n) == LET m == _dictNextPower(n) IN [size |-> m, table |-> Spread(size, table, m)]

_dictExpandIfNeeded ==
    IF size = 0 THEN dictExpand(InitialSize)
    ELSE IF used = size THEN dictExpand(size * 2)
    ELSE [size |-> size, table |-> table]

dictFind(k) == size > 0 /\ k \in KeysOf(table[Slot(k, size)])
EntryOf(k) == LET chain == table[Slot(k, size)] IN chain[Place(k, chain)]

\* The table grows before the key is looked for, also if it is found then.
Rehashed(ht) == size' = ht.size /\ table' = ht.table

Inserted(k, v) ==
    LET ht == _dictExpandIfNeeded
    IN  /\ size' = ht.size
        /\ table' = [ht.table EXCEPT ![Slot(k, ht.size)] = <<[key |-> k, val |-> v]>> \o @]
        /\ used' = used + 1 /\ copies' = copies + 1

dictAdd(k, v) ==
    /\ ~iter.on
    /\ \/ ~dictFind(k) /\ Inserted(k, v) /\ ret' = <<k, "ok">>
       \/ /\ dictFind(k) /\ ret' = <<k, "err">>
          /\ Rehashed(_dictExpandIfNeeded) /\ UNCHANGED <<used, copies>>
    /\ UNCHANGED iter

\* The new value is copied, then the old copy is freed.
Updated(ht, k, v) ==
    LET h == Slot(k, ht.size)
    IN  /\ size' = ht.size
        /\ table' = [ht.table EXCEPT ![h] = [@ EXCEPT ![Place(k, @)].val = v]]
        /\ UNCHANGED copies

dictReplace(k, v) ==
    /\ ~iter.on
    /\ \/ ~dictFind(k) /\ Inserted(k, v) /\ ret' = <<k, "added">>
       \/ /\ dictFind(k) /\ ret' = <<k, "updated">>
          /\ Updated(_dictExpandIfNeeded, k, v) /\ UNCHANGED used
    /\ UNCHANGED iter

\* While an iterator is out only the entry it returned last may be deleted.
MayDelete(k) == iter.on => iter.entry = k

\* Mutant: the head of the chain is cut off, whatever it is.
UnlinkHead(k, chain) == Tail(chain)

Unlink(k, chain) == RemoveAt(chain, Place(k, chain))

dictDelete(k) ==
    /\ MayDelete(k)
    /\ \/ /\ dictFind(k)
          /\ LET h == Slot(k, size)
             IN  table' = [table EXCEPT ![h] = Unlink(k, @)]
          /\ used' = used - 1 /\ copies' = copies - 1 /\ ret' = <<k, "ok">>
       \/ ~dictFind(k) /\ ret' = <<k, "err">> /\ UNCHANGED <<table, used, copies>>
    /\ UNCHANGED <<size, iter>>

Lookup(k) == /\ ret' = <<k, IF dictFind(k) THEN EntryOf(k).val ELSE "null">>
             /\ UNCHANGED <<size, used, table, copies, iter>>

\* dictRelease, or the end of a context and the dictCreate of the next one.
_dictClear ==
    /\ ~iter.on
    /\ copies' = copies - Cardinality(Places)
    /\ size' = 0 /\ used' = 0 /\ table' = <<>>
    /\ ret' = <<"ok">> /\ UNCHANGED iter

dictGetIterator ==
    /\ ~iter.on
    /\ iter' = [NoIter EXCEPT !.on = TRUE, !.todo = Stored]
    /\ UNCHANGED <<size, used, table, copies, ret>>

\* The key behind k in its chain.
NextInChain(k) ==
    LET chain == table[Slot(k, size)]
        i     == Place(k, chain)
    IN  IF i < Len(chain) THEN chain[i + 1].key ELSE NoKey

Returned(k, i) == [iter EXCEPT !.index = i, !.entry = k, !.next = NextInChain(k),
                               !.seen = Append(@, k)]

\* The first slot behind the iterator's that has entries.
Slots == {i \in 0 .. size - 1 : i > iter.index /\ table[i] # <<>>}

\* Mutant: the walk goes to the next slot after every entry.
dictNextSkips ==
    /\ iter.on /\ iter.index < size
    /\ \/ Slots # {} /\ iter' = Returned(table[Min(Slots)][1].key, Min(Slots))
       \/ Slots = {} /\ iter' = [iter EXCEPT !.index = size, !.entry = NoKey, !.next = NoKey]
    /\ UNCHANGED <<size, used, table, copies, ret>>

\* The successor is saved when an entry is returned, so that its user may delete it.
dictNext ==
    /\ iter.on /\ iter.index < size
    /\ \/ iter.next # NoKey /\ iter' = Returned(iter.next, iter.index)
       \/ iter.next = NoKey /\ Slots # {} /\ iter' = Returned(table[Min(Slots)][1].key, Min(Slots))
       \/ iter.next = NoKey /\ Slots = {}
          /\ iter' = [iter EXCEPT !.index = size, !.entry = NoKey, !.next = NoKey]
    /\ UNCHANGED <<size, used, table, copies, ret>>

dictReleaseIterator == /\ iter.on /\ iter' = NoIter
                       /\ UNCHANGED <<size, used, table, copies, ret>>

Next == \/ \E k \in Keys, v \in Vals : dictAdd(k, v) \/ dictReplace(k, v)
        \/ \E k \in Keys : dictDelete(k) \/ Lookup(k)
        \/ _dictClear
        \/ dictGetIterator \/ dictNext \/ dictReleaseIterator

Spec == Init /\ [][Next]_vars

----------------------------------------------------------------------------
\* The shape the code relies on without checking it: every entry is in the slot of
\* its key, no key is there twice, used counts the entries (the walks of dictExpand
\* and _dictClear stop when it reaches 0), no chain grows because the table is too
\* small, and there is one copy of a value for each entry.
WellFormed ==
    /\ size = 0 \/ size = _dictNextPower(size)
    /\ DOMAIN table = 0 .. size - 1
    /\ \A h \in 0 .. size - 1 : \A k \in KeysOf(table[h]) : k \in Keys /\ Slot(k, size) = h
    /\ Cardinality(Stored) = Cardinality(Places)
    /\ used = Cardinality(Places) /\ used <= size
    /\ copies = used

\* A walk that deletes none, some or all of the entries it is given returns every
\* entry once, although chains are changed under the iterator.
IterationIsComplete ==
    iter.on => /\ IsInjective(iter.seen)
               /\ ToSet(iter.seen) \subseteq iter.todo
               /\ iter.index = size => ToSet(iter.seen) = iter.todo

Stores == [k \in Stored |-> EntryOf(k).val]

M == INSTANCE KeyMap WITH map <- Stores

\* The table implements a map: whatever was added, replaced, deleted and moved by a
\* resize, a lookup finds the value stored last.
MapSpec == M!Spec
=============================================================================
