------------------------------- MODULE KeyMap -------------------------------
(***************************************************************************)
(* What the dictionary of hiredis promises to async.c: a finite map.  Hash     *)
(* values, chains, the size of the table and the copies of the values are      *)
(* below this level (see Dict).                                              *)
(***************************************************************************)
CONSTANTS Keys, Vals

VARIABLES map,  \* the pairs that are stored: a function on a subset of Keys
          ret   \* the key that was passed to the last call, and its result

vars == <<map, ret>>

Init == /\ map = [k \in {} |-> {}]
        /\ ret = <<>>

With(k, v) == [j \in DOMAIN map \cup {k} |-> IF j = k THEN v ELSE map[j]]

Add(k, v) ==
    \/ /\ k \notin DOMAIN map
       /\ map' = With(k, v) /\ ret' = <<k, "ok">>
    \/ /\ k \in DOMAIN map
       /\ UNCHANGED map /\ ret' = <<k, "err">>

Replace(k, v) == /\ map' = With(k, v)
                 /\ ret' = <<k, IF k \in DOMAIN map THEN "updated" ELSE "added">>

Delete(k) == /\ map' = [j \in DOMAIN map \ {k} |-> map[j]]
             /\ ret' = <<k, IF k \in DOMAIN map THEN "ok" ELSE "err">>

Find(k) == /\ ret' = <<k, IF k \in DOMAIN map THEN map[k] ELSE "null">>
           /\ UNCHANGED map

Clear == map' = [k \in {} |-> {}] /\ ret' = <<"ok">>

Next == \/ \E k \in Keys : Delete(k) \/ Find(k) \/ \E v \in Vals : Add(k, v) \/ Replace(k, v)
        \/ Clear

Spec == Init /\ [][Next]_vars
=============================================================================
