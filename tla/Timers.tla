------------------------------- MODULE Timers -------------------------------
(***************************************************************************)
(* Timer and TimerManager of translib: timers run by the thread of an event loop, *)
(* made, started, stopped and killed by a user thread and by the handlers, and    *)
(* erased by the manager's audit timer when they are finished.                   *)
(*                                                                          *)
(* libevent is external: a pending event may fire at any time, one callback runs  *)
(* at a time, event_free waits for a callback of the event that is running in      *)
(* another thread, and a loop without events ends.                             *)
(***************************************************************************)
EXTENDS Integers, FiniteSets

CONSTANTS N,        \* bound: timers made
          Rounds,   \* rounds that startRounds is called with
          Forever,  \* rounds of startForever, uint32_t(-1) in the code
          MaxStarts \* bound: calls of start

ASSUME TimersAssumption == /\ N \in Nat /\ Forever \in Nat \ {0, 1}
                           /\ Rounds \subseteq 1 .. Forever

VARIABLES
    timer,   \* the Timer objects by id, with who refers to them
    mtx,     \* TimerManager::mtx: "free" or "user"; handlers hold it within a step
    loop,    \* "new", "running", "ended"
    audit,   \* the audit timer is started
    user,    \* where the user thread is
    cb,      \* the callback that runs in the loop thread
    fault,   \* memory was used after it was freed, or an empty handler called
    raced,   \* history: the two threads were in the same timer at once; see Touches
    starts   \* calls of start so far

vars == <<timer, mtx, loop, audit, user, cb, fault, raced, starts>>

Ids == 1 .. N
Kinds == {"plain", "manager", "stop", "again"}

\* A handler does nothing of interest, calls the manager, is that of startCB with a
\* callback that returns -1, or is the first stage of startAfter.
Unmade == [st |-> "none", held |-> FALSE, inMap |-> FALSE, event |-> FALSE, pend |-> FALSE,
           persist |-> FALSE, round |-> 1, curRound |-> 0, handler |-> "none",
           calls |-> 0, stopped |-> FALSE, mixed |-> FALSE]

\* stale: the event that event_free was called with has been freed by the loop thread.
Idle == [op |-> "idle", id |-> 0, round |-> 0, handler |-> "none", stale |-> FALSE]

\* last: eventHandler has freed the event of the callback that runs.
NoCallback == [id |-> 0, handler |-> "none", last |-> FALSE]

UserAt(op, id) == [Idle EXCEPT !.op = op, !.id = id]
Starting(id) == user.op = "starting" /\ user.id = id
Ending(id) == user.op \in {"stopping", "destroying"} /\ user.id = id
Running(id) == cb.id = id
isFinished(t) == t.curRound >= t.round

\* A callback that ends or restarts its own timer.
Touches(h, last) == last \/ h \in {"stop", "again"}

----------------------------------------------------------------------------
(* Timer *)

\* Mutant: the event is not freed.
resetKeepsEvent(t) ==
    IF t.event THEN [t EXCEPT !.event = FALSE, !.curRound = t.round + 1, !.stopped = TRUE] ELSE t

\* Mutant: the timer does not count as finished.
resetNotFinished(t) ==
    IF t.event THEN [t EXCEPT !.event = FALSE, !.pend = FALSE, !.stopped = TRUE] ELSE t

\* reset once event_free may go on.  stopped: it was not the last round that ended it.
reset(t) ==
    IF t.event THEN [t EXCEPT !.event = FALSE, !.pend = FALSE, !.curRound = t.round + 1,
                              !.stopped = TRUE]
    ELSE t

Destroyed(t) == [reset(t) EXCEPT !.st = "dead", !.inMap = FALSE, !.held = FALSE]

\* startRounds up to event_add, and the rest of it.
Added(t, round) == [t EXCEPT !.event = TRUE, !.pend = TRUE, !.persist = round > 1,
                             !.mixed = FALSE]
Assigned(t, round, h) == [t EXCEPT !.round = round, !.curRound = 0, !.handler = h, !.calls = 0,
                                   !.stopped = FALSE]

\* startOnce, startRounds, startForever, startCB and startAfter by the user thread.
startRounds(id) ==
    /\ user.op = "idle" /\ timer[id].held /\ ~timer[id].event /\ starts < MaxStarts
    /\ starts' = starts + 1
    /\ \E round \in Rounds \cup {Forever}, h \in Kinds :
           /\ h = "again" => round = 1
           /\ h = "stop" => round = Forever
           /\ \/ /\ timer' = [timer EXCEPT ![id] = Added(@, round)]
                 /\ user' = [op |-> "starting", id |-> id, round |-> round, handler |-> h,
                             stale |-> FALSE]
              \/ /\ timer' = [timer EXCEPT ![id].curRound = timer[id].round + 1]
                 /\ UNCHANGED user
    /\ fault' = (fault \/ timer[id].st = "dead")
    /\ UNCHANGED <<mtx, loop, audit, cb, raced>>

started ==
    /\ user.op = "starting"
    /\ timer' = [timer EXCEPT ![user.id] = Assigned(@, user.round, user.handler)]
    /\ user' = Idle
    /\ UNCHANGED <<mtx, loop, audit, cb, fault, raced, starts>>

\* The user ends a timer while a callback that ends or restarts it is running.
EndsUnderHandler(id) == Running(id) /\ cb.handler \in {"stop", "again"}

stop(id) ==
    /\ user.op = "idle" /\ timer[id].held /\ timer[id].event
    /\ user' = UserAt("stopping", id)
    /\ fault' = (fault \/ timer[id].st = "dead")
    /\ raced' = (raced \/ EndsUnderHandler(id))
    /\ UNCHANGED <<timer, mtx, loop, audit, cb, starts>>

\* event_free waits for a callback of its event, which may be freed by then.
Waits == Running(user.id) /\ (cb.last => user.stale)

\* Mutant: the lock is not released.
freedKeepsLock ==
    /\ user.op \in {"stopping", "destroying"} /\ ~Waits
    /\ fault' = (fault \/ user.stale)
    /\ timer' = [timer EXCEPT ![user.id] = IF user.op = "stopping" THEN reset(@) ELSE Destroyed(@)]
    /\ user' = Idle
    /\ UNCHANGED <<mtx, loop, audit, cb, raced, starts>>

\* The user thread's event_free goes on when the callback is over.
freed ==
    /\ user.op \in {"stopping", "destroying"} /\ ~Waits
    /\ fault' = (fault \/ user.stale)
    /\ timer' = [timer EXCEPT ![user.id] = IF user.op = "stopping" THEN reset(@) ELSE Destroyed(@)]
    /\ user' = Idle /\ mtx' = "free"
    /\ UNCHANGED <<loop, audit, cb, raced, starts>>

\* Mutant: one round more.
LastRoundLate(t) == t.curRound > t.round

LastRound(t) == t.curRound >= t.round

\* eventHandler up to the call of the handler, which is a copy.  Between event_add and
\* the assignments of startRounds it finds what an earlier start has left.
eventHandler(id) ==
    LET t == [timer[id] EXCEPT !.curRound = @ + 1, !.calls = @ + 1,
                                !.pend = timer[id].persist,
                                !.mixed = @ \/ Starting(id)]
        last == [reset(t) EXCEPT !.stopped = FALSE]
    IN  /\ loop = "running" /\ cb = NoCallback /\ timer[id].pend
        /\ timer' = [timer EXCEPT ![id] = IF LastRound(t) THEN last ELSE t]
        /\ cb' = [id |-> id, handler |-> t.handler, last |-> LastRound(t)]
        /\ user' = [user EXCEPT !.stale = @ \/ (LastRound(t) /\ Ending(id))]
        /\ fault' = (fault \/ t.st = "dead" \/ t.handler = "none")
        /\ raced' = (raced \/ Starting(id)
                           \/ (Ending(id) /\ Touches(t.handler, LastRound(t))))
        /\ UNCHANGED <<mtx, loop, audit, starts>>

----------------------------------------------------------------------------
(* TimerManager *)

\* Mutant: the pointers in the map are not shared with the user.
ErasedForAll(t) == IF ~t.inMap THEN t ELSE [Destroyed(t) EXCEPT !.held = t.held]

\* erase of the map by the loop thread, in which event_free does not wait.
Erased(t) == IF ~t.inMap THEN t ELSE IF t.held THEN [t EXCEPT !.inMap = FALSE] ELSE Destroyed(t)

\* stop by the timer's own handler, in which event_free does not wait either.
stopInHandler(t, starting) == [reset(t) EXCEPT !.mixed = t.mixed \/ starting]

\* The handler; the timer may be gone already if that was its last round.  (An empty
\* one throws and ends the process; this is a fault already.)
Handler ==
    /\ cb # NoCallback
    /\ \/ cb.handler \in {"plain", "none"} /\ UNCHANGED <<timer, user, fault>>
       \/ /\ cb.handler = "stop"
          /\ timer' = [timer EXCEPT ![cb.id] = stopInHandler(@, Starting(cb.id))]
          /\ user' = [user EXCEPT !.stale = @ \/ Ending(cb.id)]
          /\ fault' = (fault \/ timer[cb.id].st = "dead")
       \/ /\ cb.handler = "again"
          /\ \E round \in Rounds :
                 timer' = [timer EXCEPT ![cb.id] = IF @.event THEN @
                                                   ELSE Assigned(Added(@, round), round, "plain")]
          /\ fault' = (fault \/ timer[cb.id].st = "dead")
          /\ UNCHANGED user
       \/ /\ cb.handler = "manager" /\ mtx = "free"
          /\ \E id \in Ids : timer' = [timer EXCEPT ![id] = Erased(@)]
          /\ UNCHANGED <<user, fault>>
    /\ cb' = NoCallback
    /\ UNCHANGED <<mtx, loop, audit, raced, starts>>

\* getTimer: the id and the timer, then the map.
getUniqueID(id) ==
    /\ user.op = "idle" /\ \A i \in Ids : i < id <=> timer[i].st # "none"
    /\ timer' = [timer EXCEPT ![id].st = "live"]
    /\ user' = UserAt("emplacing", id)
    /\ UNCHANGED <<mtx, loop, audit, cb, fault, raced, starts>>

getTimer ==
    /\ user.op = "emplacing" /\ mtx = "free"
    /\ timer' = [timer EXCEPT ![user.id].inMap = TRUE, ![user.id].held = TRUE]
    /\ user' = Idle
    /\ UNCHANGED <<mtx, loop, audit, cb, fault, raced, starts>>

\* The last reference goes: ~Timer, which ends at once if there is no event.
Release(id, lock) ==
    IF timer[id].event
    THEN /\ timer' = [timer EXCEPT ![id].inMap = FALSE, ![id].held = FALSE]
         /\ user' = UserAt("destroying", id) /\ mtx' = lock
    ELSE /\ timer' = [timer EXCEPT ![id] = Destroyed(@)]
         /\ UNCHANGED <<user, mtx>>

\* The timer is destroyed with the lock held.
killTimer(id) ==
    /\ user.op = "idle" /\ mtx = "free" /\ timer[id].inMap
    /\ IF timer[id].held
       THEN timer' = [timer EXCEPT ![id].inMap = FALSE] /\ UNCHANGED <<user, mtx>>
       ELSE Release(id, "user")
    /\ raced' = (raced \/ (~timer[id].held /\ EndsUnderHandler(id)))
    /\ UNCHANGED <<loop, audit, cb, fault, starts>>

\* The user's pointer goes out of scope.
Forget(id) ==
    /\ user.op = "idle" /\ timer[id].held
    /\ IF timer[id].inMap
       THEN timer' = [timer EXCEPT ![id].held = FALSE] /\ UNCHANGED <<user, mtx>>
       ELSE Release(id, mtx)
    /\ raced' = (raced \/ (~timer[id].inMap /\ EndsUnderHandler(id)))
    /\ UNCHANGED <<loop, audit, cb, fault, starts>>

\* The audit timer fires: what is finished is erased.
auditTimer ==
    /\ loop = "running" /\ cb = NoCallback /\ audit /\ mtx = "free"
    /\ \E id \in Ids : timer[id].inMap /\ isFinished(timer[id])
    /\ timer' = [id \in Ids |-> IF isFinished(timer[id]) THEN Erased(timer[id]) ELSE timer[id]]
    /\ UNCHANGED <<mtx, loop, audit, user, cb, fault, raced, starts>>

\* The constructor of the singleton starts its loop, then the audit timer.
auditStarted ==
    /\ user.op = "ctor"
    /\ audit' = TRUE /\ user' = Idle
    /\ UNCHANGED <<timer, mtx, loop, cb, fault, raced, starts>>

LoopRuns == /\ loop = "new" /\ loop' = "running"
            /\ UNCHANGED <<timer, mtx, audit, user, cb, fault, raced, starts>>

\* event_base_loop returns when no event is left.
LoopEnds ==
    /\ loop = "running" /\ cb = NoCallback /\ ~audit /\ \A id \in Ids : ~timer[id].pend
    /\ loop' = "ended"
    /\ UNCHANGED <<timer, mtx, audit, user, cb, fault, raced, starts>>

----------------------------------------------------------------------------
\* The manager of a loop that was passed in has its audit timer before the loop runs.
Init ==
    /\ timer = [id \in Ids |-> Unmade] /\ mtx = "free" /\ loop = "new"
    /\ audit \in BOOLEAN
    /\ user = IF audit THEN Idle ELSE UserAt("ctor", 0)
    /\ cb = NoCallback /\ fault = FALSE /\ raced = FALSE /\ starts = 0

Next ==
    \/ \E id \in Ids : \/ getUniqueID(id) \/ startRounds(id) \/ stop(id) \/ killTimer(id)
                       \/ Forget(id) \/ eventHandler(id)
    \/ getTimer \/ started \/ freed \/ Handler \/ auditTimer \/ auditStarted \/ LoopRuns \/ LoopEnds

\* The loop thread runs what is due; the user thread goes on inside a call.
Spec == /\ Init /\ [][Next]_vars
        /\ \A id \in Ids : WF_vars(eventHandler(id))
        /\ WF_vars(Handler) /\ WF_vars(auditTimer) /\ WF_vars(LoopRuns)
        /\ WF_vars(getTimer) /\ WF_vars(started) /\ WF_vars(freed) /\ WF_vars(auditStarted)

----------------------------------------------------------------------------
(* Properties *)

\* No event is freed twice, no timer is used after its end and no empty handler is
\* called, whatever handlers stop, restart and erase, unless the two threads met in one
\* timer: it expired inside startRounds, or its last round, or a handler that stops or
\* restarts it, overlapped a call of the user that ends it.
NoFault == fault => raced

\* A timer that nobody stopped has its event as long as rounds are left, runs its
\* handler once for each round, and no longer, the 2^32 - 1 rounds of startForever
\* included, unless it expired, or was stopped by its handler, inside startRounds.
RoundsKept ==
    \A id \in Ids :
        LET t == timer[id]
        IN  t.st = "live" /\ t.handler # "none" /\ ~t.mixed /\ ~Starting(id) =>
                /\ t.calls <= t.round
                /\ ~t.stopped => (t.event <=> t.calls < t.round)

\* What nobody refers to is silent: once killTimer, or the end of the last pointer, is
\* through, the handler is neither called nor still running in the loop thread (but
\* for its last round, for which event_free has nothing to wait for).  After a fault
\* there is no such promise.
Silent ==
    ~fault => \A id \in Ids :
                  LET t == timer[id]
                  IN  t.st = "dead" => ~t.pend /\ (Running(id) => cb.last)

\* killTimer holds the lock and waits for a handler that waits for the lock.
Embrace == /\ user.op = "destroying" /\ mtx = "user" /\ Running(user.id)
           /\ cb.handler = "manager"

\* stop, killTimer and the end of a pointer return, whatever the loop thread does; the
\* one exception is a handler that calls the manager while its own timer is killed.
KillReturns == user.op \in {"stopping", "destroying"} ~> (user.op = "idle" \/ Embrace)

\* A timer that was started and came to its end, by itself or by stop, and that the user
\* has no pointer to, leaves the map, unless the loop of the singleton ended before the
\* audit timer was added, or its start and its expiry met.
Audited ==
    \A id \in Ids :
        LET t == timer[id]
        IN  (/\ t.inMap /\ t.handler # "none" /\ ~t.mixed
             /\ ~t.event /\ ~t.held /\ ~Running(id))
            ~> (~t.inMap \/ loop = "ended" \/ Embrace)
=============================================================================
