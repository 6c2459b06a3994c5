----------------------------- MODULE WorkerTask -----------------------------
(***************************************************************************)
(* The Redis worker task (worker_task.hpp and .cpp): which hiredis context    *)
(* it uses, which one task_manager remembers for it, and reconnecting.        *)
(*                                                                          *)
(* A context is the address it lives at: an address is used again once its    *)
(* context has been freed, and nothing tells a stale pointer from a good one.  *)
(* Using freed memory or a pointer that was never set may kill the process or  *)
(* may go unnoticed.  What happens inside a context is the business of        *)
(* RedisAsync; here it connects, fails to, is lost or is closed.  A handler   *)
(* runs in its worker's thread and is one step.                              *)
(***************************************************************************)
EXTENDS Integers, Sequences, FiniteSets

CONSTANTS Workers,  \* the tasks, numbered in the order of their names in task_map
          Addrs,    \* addresses a context can be allocated at
          Nil,      \* a pointer to no context
          MaxAdd    \* bound: ADD_CONN messages handled

ASSUME WorkerAssumption == /\ Workers \subseteq Nat /\ Workers # {} /\ IsFiniteSet(Workers)
                           /\ Nil \notin Addrs /\ MaxAdd \in Nat

VARIABLES
    conn_stat, \* _conn_stat
    context,   \* _context, the context that commands are given to
    detail,    \* _detail_info, the context the task is looked up by
    heap,      \* what is at an address
    owner,     \* the worker whose event loop serves the context at an address
    timers,    \* the contexts captured by the pending reconnect timers of a worker
    adds,      \* the workers that have handled ADD_CONN messages, in that order
    fault      \* what has killed the process

vars == <<conn_stat, context, detail, heap, owner, timers, adds, fault>>

\* "failed": redisAsyncConnect reported an error; no event will ever arrive.
HeapState == {"free", "connecting", "connected", "failed"}

\* _context and _detail_info are not initialized.
Init == /\ conn_stat = [w \in Workers |-> "DISCONNECTED"]
        /\ context = [w \in Workers |-> Nil]
        /\ detail \in [Workers -> Addrs \cup {Nil}]
        /\ heap = [a \in Addrs |-> "free"]
        /\ owner \in [Addrs -> Workers]
        /\ timers = [w \in Workers |-> <<>>]
        /\ adds = <<>> /\ fault = "none"

Running == fault = "none"

\* get_task_ptr_p_with_detail_info(c): the loop returns after the first task.
First == CHOOSE w \in Workers : \A v \in Workers : w <= v
Found(c) == detail[First] = c

Usable(c) == c # Nil /\ heap[c] # "free"

\* redisAsyncConnect and redisLibeventAttach to w's loop; it may report an error.
Allocate(a, w, st) ==
    /\ heap[a] = "free"
    /\ heap' = [heap EXCEPT ![a] = st]
    /\ owner' = [owner EXCEPT ![a] = w]

-----------------------------------------------------------------------------
(* on_message                                                                 *)

\* process_add_conn: on an error the new context stays in _context.
process_add_conn(w) ==
    /\ Running /\ Len(adds) < MaxAdd
    /\ adds' = Append(adds, w)
    /\ conn_stat' = [conn_stat EXCEPT ![w] = "CONNECTING"]
    /\ \E a \in Addrs, st \in {"connecting", "failed"} :
          /\ Allocate(a, w, st)
          /\ context' = [context EXCEPT ![w] = a]
          /\ detail' = IF st = "failed" THEN detail ELSE [detail EXCEPT ![w] = a]
    /\ UNCHANGED <<timers, fault>>

\* A command is given to _context, whatever that is.
Command(w) ==
    /\ Running
    /\ IF Usable(context[w])
       THEN UNCHANGED fault
       ELSE fault' \in {"none", "dangling"}
    /\ UNCHANGED <<conn_stat, context, detail, heap, owner, timers, adds>>

-----------------------------------------------------------------------------
(* The callbacks                                                              *)

\* connectCallback(REDIS_OK).
connectCallback(c) ==
    /\ Running /\ heap[c] = "connecting"
    /\ heap' = [heap EXCEPT ![c] = "connected"]
    /\ conn_stat' = IF Found(c) THEN [conn_stat EXCEPT ![First] = "CONNECTED"] ELSE conn_stat
    /\ UNCHANGED <<context, detail, owner, timers, adds, fault>>

\* connectCallback(REDIS_ERR), or disconnectCallback(REDIS_ERR): both only log, and
\* the context is freed.
ConnectionError(c) ==
    /\ Running /\ heap[c] \in {"connecting", "connected"}
    /\ heap' = [heap EXCEPT ![c] = "free"]
    /\ UNCHANGED <<conn_stat, context, detail, owner, timers, adds, fault>>

\* The reconnect timer belongs to the task that was found.
StartTimer(c) == timers' = [timers EXCEPT ![First] = Append(@, c)]

\* disconnectCallback(REDIS_OK) for a task that is found: a timer will reconnect.
disconnectCallback(c) ==
    /\ Running /\ heap[c] = "connected" /\ Found(c)
    /\ conn_stat' = [conn_stat EXCEPT ![First] = "DISCONNECTED"]
    /\ StartTimer(c)
    /\ heap' = [heap EXCEPT ![c] = "free"]
    /\ UNCHANGED <<context, detail, owner, adds, fault>>

\* disconnectCallback(REDIS_OK) when there is no such task: redisAsyncReconnect does
\* not find it either, and uses the null pointer.
DisconnectUnknown(c) ==
    /\ Running /\ heap[c] = "connected" /\ ~Found(c)
    /\ fault' = "null"
    /\ UNCHANGED <<conn_stat, context, detail, heap, owner, timers, adds>>

\* Mutant: the new context is not remembered.
ForgetContext(a) == detail' = detail

\* set_task_detail_info(new_c) in redisAsyncReconnect.
set_task_detail_info(a) == detail' = [detail EXCEPT ![First] = a]

\* Mutant: the timer is not a one-shot timer.
KeepTimer(w) == UNCHANGED timers

\* The timer was started with startOnce.
TimerDone(w) == timers' = [timers EXCEPT ![w] = Tail(@)]

\* redisAsyncReconnect(c), run by the timer long after c was freed: the host is read
\* from freed memory, unless another context lives there by now.
redisAsyncReconnect(w) ==
    /\ Running /\ timers[w] # <<>>
    /\ LET c == Head(timers[w])
       IN  \/ /\ ~Usable(c) /\ fault' = "dangling"
              /\ UNCHANGED <<detail, heap, owner>>
           \/ /\ ~Found(c) /\ fault' = "null"
              /\ UNCHANGED <<detail, heap, owner>>
           \/ /\ Found(c) /\ UNCHANGED fault
              /\ \E a \in Addrs, st \in {"connecting", "failed"} :
                    Allocate(a, First, st) /\ set_task_detail_info(a)
    /\ TimerDone(w)
    /\ UNCHANGED <<conn_stat, context, adds>>

-----------------------------------------------------------------------------
Next == \/ \E w \in Workers : process_add_conn(w) \/ Command(w) \/ redisAsyncReconnect(w)
        \/ \E c \in Addrs : \/ connectCallback(c) \/ ConnectionError(c)
                            \/ disconnectCallback(c) \/ DisconnectUnknown(c)

Spec == Init /\ [][Next]_vars

-----------------------------------------------------------------------------
Live == {a \in Addrs : heap[a] # "free"}
Pending == UNION {{w} \X DOMAIN timers[w] : w \in Workers}

\* Reconnecting never multiplies connections: the contexts that exist and the
\* reconnects that are due are no more than the connections that were asked for,
\* over any number of disconnects, timers and reconnects.
NoExtraConnections == Cardinality(Live) + Cardinality(Pending) <= Len(adds)

\* As long as a single ADD_CONN has been handled, by the first task of task_map, the
\* task of a context is found, whatever number of reconnects there has been:
\* redisAsyncReconnect keeps _detail_info up to date, and no timer is served twice.
LookupSucceeds == adds = <<First>> => fault # "null"
=============================================================================
