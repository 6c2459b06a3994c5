---------------------------- MODULE Timers_proofs ----------------------------
(***************************************************************************)
(* Timer and TimerManager for any number of timers, rounds and calls of start, *)
(* with the user free to stop, kill and forget timers at any time.             *)
(*                                                                          *)
(* A fault is traced to its cause: a timer is used after its end only by a      *)
(* callback that was running, or an event freed only by a call that was waiting, *)
(* when the two threads met in that timer, which raced remembers.              *)
(***************************************************************************)
EXTENDS Timers, TLAPS

Handlers == Kinds \cup {"none"}

Timer == [st : {"none", "live", "dead"}, held : BOOLEAN, inMap : BOOLEAN, event : BOOLEAN,
          pend : BOOLEAN, persist : BOOLEAN, round : 1 .. Forever, curRound : Nat,
          handler : Handlers, calls : Nat, stopped : BOOLEAN, mixed : BOOLEAN]

Waiting == {"stopping", "destroying"}

User == [op : {"ctor", "idle", "emplacing", "starting"} \cup Waiting, id : 0 .. N,
         round : 0 .. Forever, handler : Handlers, stale : BOOLEAN]

TypeOK ==
    /\ timer \in [Ids -> Timer]
    /\ user \in User
    /\ user.op \in {"emplacing", "starting"} \cup Waiting => user.id \in Ids
    /\ cb \in [id : 0 .. N, handler : Handlers, last : BOOLEAN]
    /\ cb = NoCallback \/ cb.id \in Ids
    /\ fault \in BOOLEAN /\ raced \in BOOLEAN

\* A timer on its own: references are to objects that exist, and what is pending has an
\* event.
Life(t) ==
    /\ t.held \/ t.inMap => t.st = "live"
    /\ t.pend => t.event
    /\ t.st = "none" => ~t.event /\ t.handler = "none"

LifeOK == \A id \in Ids : Life(timer[id])

\* The timer the user thread is busy with: nobody else can release it meanwhile.
UserOK ==
    /\ user.op \in {"emplacing", "destroying"} =>
           timer[user.id].st = "live" /\ ~timer[user.id].held /\ ~timer[user.id].inMap
    /\ user.op = "starting" =>
           timer[user.id].held /\ user.round # 0 /\ user.handler # "none"
    /\ user.op = "stopping" => timer[user.id].held

\* The timer whose callback runs.
CallbackOK == cb # NoCallback => timer[cb.id].st # "none"

\* The rounds of a timer that is not being started: both counters agree while it has
\* its event.
Kept(t) ==
    /\ t.event => /\ t.handler # "none" /\ ~t.stopped
                  /\ t.curRound = t.calls /\ t.calls < t.round
    /\ t.handler # "none" => /\ t.calls <= t.round
                             /\ ~t.stopped /\ ~t.event => t.calls = t.round

\* Rounds are kept but in a timer whose start met its expiry; a timer that is being
\* started has its event.
RoundsOK ==
    \A id \in Ids :
        /\ timer[id].st = "live" /\ ~Starting(id) /\ ~timer[id].mixed => Kept(timer[id])
        /\ Starting(id) /\ ~timer[id].mixed => timer[id].event

\* event_free waits for a callback, so a timer has its event while its handler runs,
\* but in its last round; only a fault gives a dead timer an event.
EventOK ==
    \A id \in Ids :
        /\ Running(id) /\ ~cb.last => timer[id].event
        /\ timer[id].st = "dead" /\ timer[id].event => fault

\* The two threads are in one timer only when raced says so.
Meets(id) == /\ Running(id) /\ cb.handler \in {"stop", "again"}
             /\ Ending(id) \/ timer[id].st = "dead"

RacedOK ==
    /\ fault \/ user.stale => raced
    /\ \A id \in Ids : (timer[id].mixed /\ timer[id].event) \/ Meets(id) => raced

Inv == TypeOK /\ LifeOK /\ UserOK /\ CallbackOK /\ RoundsOK /\ EventOK /\ RacedOK

-----------------------------------------------------------------------------
(* The operators on timers                                                    *)

\* reset frees the event and leaves references, rounds and handler alone.
LEMMA ResetFacts ==
    ASSUME NEW t \in Timer, Life(t)
    PROVE  /\ reset(t) \in Timer /\ Life(reset(t))
           /\ ~reset(t).event /\ reset(t).st = t.st /\ reset(t).mixed = t.mixed
           /\ reset(t).held = t.held /\ reset(t).inMap = t.inMap
           /\ Kept(t) => Kept(reset(t))
<1>1. CASE t.event
  <2>1. reset(t) = [t EXCEPT !.event = FALSE, !.pend = FALSE, !.curRound = t.round + 1,
                             !.stopped = TRUE]
    BY <1>1 DEF reset
  <2>2. t.round + 1 \in Nat
    BY TimersAssumption DEF Timer
  <2>3. reset(t) \in Timer
    BY <2>1, <2>2 DEF Timer
  <2>. QED
    BY <1>1, <2>1, <2>3 DEF Timer, Life, Kept
<1>2. CASE ~t.event
  BY <1>2 DEF reset
<1>. QED
  BY <1>1, <1>2

\* A destroyed timer has neither event nor references.
LEMMA DestroyedFacts ==
    ASSUME NEW t \in Timer, Life(t)
    PROVE  /\ Destroyed(t) \in Timer /\ Life(Destroyed(t))
           /\ Destroyed(t).st = "dead" /\ ~Destroyed(t).event
<1>1. PICK u : u = reset(t)
  OBVIOUS
<1>2. u \in Timer /\ Life(u) /\ ~u.event
  BY <1>1, ResetFacts
<1>3. Destroyed(t) = [u EXCEPT !.st = "dead", !.inMap = FALSE, !.held = FALSE]
  BY <1>1 DEF Destroyed
<1>. QED
  BY <1>2, <1>3 DEF Timer, Life

\* The first half of startRounds adds the event ...
LEMMA AddedFacts ==
    ASSUME NEW t \in Timer, Life(t), t.st # "none", NEW round \in 1 .. Forever
    PROVE  /\ Added(t, round) \in Timer /\ Life(Added(t, round))
           /\ Added(t, round).event /\ Added(t, round).st = t.st /\ ~Added(t, round).mixed
           /\ Added(t, round).held = t.held /\ Added(t, round).inMap = t.inMap
<1>1. (round > 1) \in BOOLEAN
  OBVIOUS
<1>. QED
  BY <1>1 DEF Added, Timer, Life

\* ... and the second half sets what it is about.
LEMMA AssignedFacts ==
    ASSUME NEW t \in Timer, Life(t), t.st # "none", NEW round \in 1 .. Forever, NEW h \in Kinds
    PROVE  /\ Assigned(t, round, h) \in Timer /\ Life(Assigned(t, round, h))
           /\ Assigned(t, round, h).event = t.event /\ Assigned(t, round, h).st = t.st
           /\ Assigned(t, round, h).held = t.held /\ Assigned(t, round, h).inMap = t.inMap
           /\ Assigned(t, round, h).mixed = t.mixed
           /\ t.event => Kept(Assigned(t, round, h))
<1>1. Assigned(t, round, h) \in Timer
  BY DEF Assigned, Timer, Handlers
<1>2. "none" \notin Kinds
  BY DEF Kinds
<1>. QED
  BY <1>1, <1>2 DEF Assigned, Timer, Life, Kept

\* A timer leaves the map; only one that nobody holds is destroyed.
LEMMA ErasedFacts ==
    ASSUME NEW t \in Timer, Life(t)
    PROVE  /\ Erased(t) \in Timer /\ Life(Erased(t))
           /\ \/ /\ Erased(t).st = "dead" /\ ~Erased(t).event /\ t.inMap /\ ~t.held
              \/ /\ Erased(t).st = t.st /\ Erased(t).event = t.event
                 /\ Erased(t).held = t.held /\ (Erased(t).inMap => t.inMap)
                 /\ Erased(t).mixed = t.mixed
                 /\ Kept(t) => Kept(Erased(t))
<1>1. CASE ~t.inMap
  BY <1>1 DEF Erased
<1>2. CASE t.inMap /\ t.held
  <2>1. Erased(t) = [t EXCEPT !.inMap = FALSE]
    BY <1>2 DEF Erased
  <2>. QED
    BY <1>2, <2>1 DEF Timer, Life, Kept
<1>3. CASE t.inMap /\ ~t.held
  <2>1. Erased(t) = Destroyed(t)
    BY <1>3 DEF Erased
  <2>. QED
    BY <1>3, <2>1, DestroyedFacts
<1>. QED
  BY <1>1, <1>2, <1>3

\* One timer changes, the others do not.
LEMMA OneTimer ==
    ASSUME TypeOK, NEW id \in Ids, NEW u \in Timer, timer' = [timer EXCEPT ![id] = u]
    PROVE  /\ timer' \in [Ids -> Timer] /\ timer'[id] = u
           /\ \A i \in Ids : i # id => timer'[i] = timer[i]
BY DEF TypeOK

\* What the invariant says of a timer.
LEMMA TheTimer ==
    ASSUME Inv, NEW id \in Ids
    PROVE  timer[id] \in Timer /\ Life(timer[id])
BY DEF Inv, TypeOK, LifeOK

\* The user thread's record.
LEMMA UserFacts ==
    /\ Idle.op = "idle" /\ Idle.stale = FALSE /\ Idle \in User
    /\ \A op \in {"ctor", "emplacing"} \cup Waiting, id \in 0 .. N :
           /\ UserAt(op, id).op = op /\ UserAt(op, id).id = id /\ UserAt(op, id).stale = FALSE
           /\ UserAt(op, id) \in User
<1>1. 0 \in 0 .. N /\ 0 \in 0 .. Forever
  BY TimersAssumption
<1>. QED
  BY <1>1 DEF Idle, UserAt, Handlers, Waiting, User

\* No callback: there is no timer with the id 0.
LEMMA NoCallbackFacts ==
    /\ NoCallback \in [id : 0 .. N, handler : Handlers, last : BOOLEAN]
    /\ NoCallback.handler = "none" /\ NoCallback.id = 0 /\ 0 \notin Ids
    /\ Ids \subseteq 0 .. N
<1>1. 0 \in 0 .. N
  BY TimersAssumption
<1>. QED
  BY <1>1, TimersAssumption DEF NoCallback, Handlers, Ids

-----------------------------------------------------------------------------
(* The user thread                                                            *)

\* getTimer makes the object ...
LEMMA MakeStep ==
    ASSUME Inv, NEW id \in Ids, getUniqueID(id)
    PROVE  Inv'
<1>0. /\ timer[id].st = "none" /\ user.op = "idle"
      /\ user' = UserAt("emplacing", id) /\ cb' = cb /\ fault' = fault /\ raced' = raced
  BY DEF getUniqueID, Ids
<1>1. PICK u : u = [timer[id] EXCEPT !.st = "live"]
  OBVIOUS
<1>2. timer' = [timer EXCEPT ![id] = u]
  BY <1>1 DEF getUniqueID
<1>3. timer[id] \in Timer /\ Life(timer[id])
  BY TheTimer
<1>4. /\ u \in Timer /\ Life(u) /\ ~u.event /\ u.handler = "none"
      /\ u.st = "live" /\ ~u.held /\ ~u.inMap
  BY <1>0, <1>1, <1>3 DEF Timer, Life
<1>5. Kept(u)
  BY <1>4 DEF Kept
<1>6. /\ timer' \in [Ids -> Timer] /\ timer'[id] = u
      /\ \A i \in Ids : i # id => timer'[i] = timer[i]
  BY <1>2, <1>4, OneTimer DEF Inv
<1>7. user'.op = "emplacing" /\ user'.id = id /\ ~user'.stale
  BY <1>0, UserFacts, NoCallbackFacts
<1>8. cb # NoCallback => cb.id # id /\ cb.id \in Ids
  BY <1>0 DEF Inv, CallbackOK, TypeOK
<1>9. TypeOK'
  BY <1>0, <1>6, <1>7, UserFacts, NoCallbackFacts DEF Inv, TypeOK
<1>10. LifeOK'
  BY <1>4, <1>6 DEF Inv, LifeOK
<1>11. UserOK'
  BY <1>4, <1>6, <1>7 DEF UserOK
<1>12. CallbackOK'
  BY <1>0, <1>6, <1>8 DEF Inv, CallbackOK
<1>13. RoundsOK'
  BY <1>0, <1>5, <1>6, <1>7 DEF Inv, RoundsOK, Starting
<1>14. ~Running(id)
  BY <1>8, NoCallbackFacts DEF Running
<1>15. EventOK'
  BY <1>0, <1>4, <1>6, <1>14 DEF Inv, EventOK, Running
<1>16. RacedOK'
  BY <1>0, <1>4, <1>6, <1>7, <1>14 DEF Inv, RacedOK, Meets, Running, Ending
<1>. QED
  BY <1>9, <1>10, <1>11, <1>12, <1>13, <1>15, <1>16 DEF Inv

\* ... and puts it into the map.
LEMMA EmplaceStep ==
    ASSUME Inv, getTimer
    PROVE  Inv'
<1>0. user.op = "emplacing" /\ user' = Idle /\ cb' = cb /\ fault' = fault /\ raced' = raced
  BY DEF getTimer
<1>1. PICK id \in Ids : id = user.id
  BY <1>0 DEF Inv, TypeOK
<1>2. PICK u : u = [timer[id] EXCEPT !.inMap = TRUE, !.held = TRUE]
  OBVIOUS
<1>3. timer[id] \in Timer /\ Life(timer[id]) /\ timer[id].st = "live"
  BY <1>0, <1>1, TheTimer DEF Inv, UserOK
<1>4. timer' = [timer EXCEPT ![id] = u]
  BY <1>1, <1>2 DEF getTimer, Inv, TypeOK
<1>5. /\ u \in Timer /\ Life(u) /\ u.event = timer[id].event /\ u.mixed = timer[id].mixed
      /\ u.st = "live"
      /\ Kept(timer[id]) => Kept(u)
  BY <1>2, <1>3 DEF Timer, Life, Kept
<1>6. /\ timer' \in [Ids -> Timer] /\ timer'[id] = u
      /\ \A i \in Ids : i # id => timer'[i] = timer[i]
  BY <1>4, <1>5, OneTimer DEF Inv
<1>7. user'.op = "idle" /\ ~user'.stale
  BY <1>0, UserFacts
<1>8. cb = NoCallback \/ cb.id \in Ids
  BY DEF Inv, TypeOK
<1>9. TypeOK'
  BY <1>0, <1>6, <1>7, UserFacts DEF Inv, TypeOK, Waiting
<1>10. LifeOK'
  BY <1>5, <1>6 DEF Inv, LifeOK
<1>11. UserOK'
  BY <1>7 DEF UserOK
<1>12. CallbackOK'
  BY <1>0, <1>5, <1>6, <1>8 DEF Inv, CallbackOK
<1>13. RoundsOK'
  BY <1>0, <1>3, <1>5, <1>6, <1>7 DEF Inv, RoundsOK, Starting
<1>14. EventOK'
  BY <1>0, <1>5, <1>6 DEF Inv, EventOK, Running
<1>15. RacedOK'
  BY <1>0, <1>5, <1>6, <1>7 DEF Inv, RacedOK, Meets, Running, Ending
<1>. QED
  BY <1>9, <1>10, <1>11, <1>12, <1>13, <1>14, <1>15 DEF Inv

\* startRounds up to event_add, or its failure.
LEMMA StartStep ==
    ASSUME Inv, NEW id \in Ids, startRounds(id)
    PROVE  Inv'
<1>0. /\ user.op = "idle" /\ timer[id].held /\ ~timer[id].event /\ cb' = cb /\ raced' = raced
      /\ fault' = (fault \/ timer[id].st = "dead")
  BY DEF startRounds
<1>1. timer[id] \in Timer /\ Life(timer[id]) /\ timer[id].st = "live"
  BY <1>0, TheTimer DEF Life
<1>2. fault' = fault
  BY <1>0, <1>1 DEF Inv, TypeOK
<1>3. cb = NoCallback \/ cb.id \in Ids
  BY DEF Inv, TypeOK
<1>4. ASSUME NEW round \in 1 .. Forever, NEW h \in Kinds,
             timer' = [timer EXCEPT ![id] = Added(@, round)],
             user' = [op |-> "starting", id |-> id, round |-> round, handler |-> h,
                      stale |-> FALSE]
      PROVE  Inv'
  <2>1. PICK u : u = Added(timer[id], round)
    OBVIOUS
  <2>2. u \in Timer /\ Life(u) /\ u.event /\ u.st = "live" /\ u.held /\ ~u.mixed
    BY <1>0, <1>1, <2>1, AddedFacts
  <2>3. /\ timer' \in [Ids -> Timer] /\ timer'[id] = u
        /\ \A i \in Ids : i # id => timer'[i] = timer[i]
    BY <1>4, <2>1, <2>2, OneTimer DEF Inv
  <2>4. /\ user'.op = "starting" /\ user'.id = id /\ user'.round = round /\ user'.handler = h
        /\ ~user'.stale
    BY <1>4
  <2>5. round # 0 /\ h # "none"
    BY DEF Kinds
  <2>6. TypeOK'
    <3>1. user' \in User
      BY <1>4, NoCallbackFacts, TimersAssumption DEF Handlers, User
    <3>. QED
      BY <1>0, <1>2, <2>3, <2>4, <3>1 DEF Inv, TypeOK
  <2>7. LifeOK'
    BY <2>2, <2>3 DEF Inv, LifeOK
  <2>8. UserOK'
    BY <2>2, <2>3, <2>4, <2>5 DEF UserOK
  <2>9. CallbackOK'
    BY <1>0, <1>3, <2>2, <2>3 DEF Inv, CallbackOK
  <2>10. RoundsOK'
    BY <1>0, <2>2, <2>3, <2>4 DEF Inv, RoundsOK, Starting
  <2>11. EventOK'
    BY <1>0, <1>2, <2>2, <2>3 DEF Inv, EventOK, Running
  <2>12. RacedOK'
    BY <1>0, <1>2, <2>2, <2>3, <2>4 DEF Inv, RacedOK, Meets, Running, Ending
  <2>. QED
    BY <2>6, <2>7, <2>8, <2>9, <2>10, <2>11, <2>12 DEF Inv
<1>5. ASSUME timer' = [timer EXCEPT ![id].curRound = timer[id].round + 1], user' = user
      PROVE  Inv'
  <2>1. PICK u : u = [timer[id] EXCEPT !.curRound = timer[id].round + 1]
    OBVIOUS
  <2>2. /\ u \in Timer /\ Life(u) /\ ~u.event /\ u.st = "live" /\ u.mixed = timer[id].mixed
        /\ Kept(timer[id]) => Kept(u)
    <3>1. timer[id].round + 1 \in Nat
      BY <1>1, TimersAssumption DEF Timer
    <3>. QED
      BY <1>0, <1>1, <2>1, <3>1 DEF Timer, Life, Kept
  <2>3. /\ timer' \in [Ids -> Timer] /\ timer'[id] = u
        /\ \A i \in Ids : i # id => timer'[i] = timer[i]
    BY <1>5, <2>1, <2>2, OneTimer DEF Inv
  <2>4. TypeOK'
    BY <1>0, <1>2, <1>5, <2>3 DEF Inv, TypeOK
  <2>5. LifeOK'
    BY <2>2, <2>3 DEF Inv, LifeOK
  <2>6. UserOK'
    BY <1>0, <1>5 DEF UserOK
  <2>7. CallbackOK'
    BY <1>0, <1>3, <2>2, <2>3 DEF Inv, CallbackOK
  <2>8. RoundsOK'
    BY <1>0, <1>1, <1>5, <2>2, <2>3 DEF Inv, RoundsOK, Starting
  <2>9. EventOK'
    BY <1>0, <1>2, <2>2, <2>3 DEF Inv, EventOK, Running
  <2>10. RacedOK'
    BY <1>0, <1>2, <1>5, <2>2, <2>3 DEF Inv, RacedOK, Meets, Running, Ending
  <2>. QED
    BY <2>4, <2>5, <2>6, <2>7, <2>8, <2>9, <2>10 DEF Inv
<1>6. Rounds \cup {Forever} \subseteq 1 .. Forever
  BY TimersAssumption
<1>. QED
  BY <1>4, <1>5, <1>6 DEF startRounds

\* The rest of startRounds.
LEMMA StartedStep ==
    ASSUME Inv, started
    PROVE  Inv'
<1>0. user.op = "starting" /\ user' = Idle /\ cb' = cb /\ fault' = fault /\ raced' = raced
  BY DEF started
<1>1. PICK id \in Ids : id = user.id
  BY <1>0 DEF Inv, TypeOK
<1>2. PICK round, h : round = user.round /\ h = user.handler
  OBVIOUS
<1>3. PICK u : u = Assigned(timer[id], round, h)
  OBVIOUS
<1>4. /\ timer[id] \in Timer /\ Life(timer[id]) /\ timer[id].st = "live"
  BY <1>0, <1>1, TheTimer DEF Inv, UserOK, Life
<1>5. round \in 1 .. Forever /\ h \in Kinds
  <2>1. user.round \in 0 .. Forever /\ user.handler \in Handlers
    BY DEF Inv, TypeOK, User
  <2>2. user.round # 0 /\ user.handler # "none"
    BY <1>0 DEF Inv, UserOK
  <2>. QED
    BY <1>2, <2>1, <2>2, TimersAssumption DEF Handlers
<1>6. /\ u \in Timer /\ Life(u) /\ u.event = timer[id].event /\ u.st = "live"
      /\ u.mixed = timer[id].mixed
      /\ timer[id].event => Kept(u)
  BY <1>3, <1>4, <1>5, AssignedFacts
<1>7. /\ timer' \in [Ids -> Timer] /\ timer'[id] = u
      /\ \A i \in Ids : i # id => timer'[i] = timer[i]
  <2>1. timer' = [timer EXCEPT ![id] = u]
    BY <1>1, <1>2, <1>3 DEF started
  <2>. QED
    BY <1>6, <2>1, OneTimer DEF Inv
<1>8. user'.op = "idle" /\ ~user'.stale
  BY <1>0, UserFacts
<1>9. cb = NoCallback \/ cb.id \in Ids
  BY DEF Inv, TypeOK
<1>10. TypeOK'
  BY <1>0, <1>7, <1>8, UserFacts DEF Inv, TypeOK, Waiting
<1>11. LifeOK'
  BY <1>6, <1>7 DEF Inv, LifeOK
<1>12. UserOK'
  BY <1>8 DEF UserOK
<1>13. CallbackOK'
  BY <1>0, <1>6, <1>7, <1>9 DEF Inv, CallbackOK
<1>14. RoundsOK'
  <2>1. ~timer[id].mixed => timer[id].event
    BY <1>0, <1>1 DEF Inv, RoundsOK, Starting
  <2>2. \A i \in Ids : i # id => ~Starting(i)
    BY <1>1 DEF Starting
  <2>. QED
    BY <1>6, <1>7, <1>8, <2>1, <2>2 DEF Inv, RoundsOK, Starting
<1>15. EventOK'
  BY <1>0, <1>6, <1>7 DEF Inv, EventOK, Running
<1>16. RacedOK'
  BY <1>0, <1>6, <1>7, <1>8 DEF Inv, RacedOK, Meets, Running, Ending
<1>. QED
  BY <1>10, <1>11, <1>12, <1>13, <1>14, <1>15, <1>16 DEF Inv

\* stop, up to event_free.
LEMMA StopStep ==
    ASSUME Inv, NEW id \in Ids, stop(id)
    PROVE  Inv'
<1>0. /\ user.op = "idle" /\ timer[id].held /\ timer[id].event
      /\ user' = UserAt("stopping", id) /\ timer' = timer /\ cb' = cb
      /\ fault' = (fault \/ timer[id].st = "dead")
      /\ raced' = (raced \/ EndsUnderHandler(id))
  BY DEF stop
<1>1. timer[id] \in Timer /\ Life(timer[id]) /\ timer[id].st = "live"
  BY <1>0, TheTimer DEF Life
<1>2. fault' = fault
  BY <1>0, <1>1 DEF Inv, TypeOK
<1>3. user'.op = "stopping" /\ user'.id = id /\ ~user'.stale
  BY <1>0, UserFacts, NoCallbackFacts DEF Waiting
<1>4. TypeOK'
  <2>1. user' \in User
    BY <1>0, UserFacts, NoCallbackFacts DEF Waiting
  <2>2. raced' \in BOOLEAN
    BY <1>0
  <2>. QED
    BY <1>0, <1>2, <1>3, <2>1, <2>2 DEF Inv, TypeOK
<1>5. LifeOK' /\ CallbackOK'
  BY <1>0 DEF Inv, LifeOK, CallbackOK
<1>6. UserOK'
  BY <1>0, <1>3 DEF UserOK
<1>7. RoundsOK'
  BY <1>0, <1>3 DEF Inv, RoundsOK, Starting
<1>8. EventOK'
  BY <1>0, <1>2 DEF Inv, EventOK, Running
<1>9. RacedOK'
  <2>1. RacedOK /\ (raced => raced') /\ (EndsUnderHandler(id) => raced')
    BY <1>0 DEF Inv
  <2>2. \A i \in Ids : Meets(i)' => EndsUnderHandler(id) \/ Meets(i)
    BY <1>0, <1>3 DEF Meets, Running, Ending, EndsUnderHandler
  <2>. QED
    BY <1>0, <1>2, <1>3, <2>1, <2>2 DEF RacedOK
<1>. QED
  BY <1>4, <1>5, <1>6, <1>7, <1>8, <1>9 DEF Inv

\* The end of event_free, for stop and for ~Timer.
LEMMA FreedStep ==
    ASSUME Inv, freed
    PROVE  Inv'
<1>0. /\ user.op \in Waiting /\ user' = Idle /\ cb' = cb /\ raced' = raced
      /\ fault' = (fault \/ user.stale)
  BY DEF freed, Waiting
<1>1. PICK id \in Ids : id = user.id
  BY <1>0 DEF Inv, TypeOK
<1>2. Running(id) => cb.last
  BY <1>1 DEF freed, Waits
<1>3. timer[id] \in Timer /\ Life(timer[id])
  BY TheTimer
<1>4. PICK u : u = IF user.op = "stopping" THEN reset(timer[id]) ELSE Destroyed(timer[id])
  OBVIOUS
<1>5. /\ u \in Timer /\ Life(u) /\ ~u.event
      /\ \/ u.st = "dead"
         \/ /\ u.st = timer[id].st /\ u.mixed = timer[id].mixed
            /\ Kept(timer[id]) => Kept(u)
  BY <1>3, <1>4, ResetFacts, DestroyedFacts
<1>6. /\ timer' \in [Ids -> Timer] /\ timer'[id] = u
      /\ \A i \in Ids : i # id => timer'[i] = timer[i]
  <2>1. timer' = [timer EXCEPT ![id] = u]
    BY <1>1, <1>4 DEF freed
  <2>. QED
    BY <1>5, <2>1, OneTimer DEF Inv
<1>7. user'.op = "idle" /\ ~user'.stale
  BY <1>0, UserFacts
<1>8. timer[id].st # "none"
  <2>1. user.op = "destroying" => timer[id].st = "live"
    BY <1>1 DEF Inv, UserOK
  <2>2. user.op = "stopping" => timer[id].held
    BY <1>1 DEF Inv, UserOK
  <2>. QED
    BY <1>0, <1>3, <2>1, <2>2 DEF Waiting, Life
<1>9. cb = NoCallback \/ cb.id \in Ids
  BY DEF Inv, TypeOK
<1>10. TypeOK'
  <2>1. fault' \in BOOLEAN
    BY <1>0
  <2>. QED
    BY <1>0, <1>6, <1>7, <2>1, UserFacts DEF Inv, TypeOK, Waiting
<1>11. LifeOK'
  BY <1>5, <1>6 DEF Inv, LifeOK
<1>12. UserOK'
  BY <1>7 DEF UserOK
<1>13. CallbackOK'
  BY <1>0, <1>5, <1>6, <1>8, <1>9 DEF Inv, CallbackOK
<1>14. RoundsOK'
  <2>1. \A i \in Ids : ~Starting(i)
    BY <1>0 DEF Starting, Waiting
  <2>. QED
    BY <1>5, <1>6, <1>7, <2>1 DEF Inv, RoundsOK, Starting
<1>15. EventOK'
  BY <1>0, <1>2, <1>5, <1>6 DEF Inv, EventOK, Running
<1>16. RacedOK'
  <2>1. Ending(id)
    BY <1>0, <1>1 DEF Ending, Waiting
  <2>. QED
    BY <1>0, <1>5, <1>6, <1>7, <2>1 DEF Inv, RacedOK, Meets, Running, Ending
<1>. QED
  BY <1>10, <1>11, <1>12, <1>13, <1>14, <1>15, <1>16 DEF Inv

\* A reference goes, but not the last one.
LEMMA ReferenceStep ==
    ASSUME Inv, NEW id \in Ids, NEW u \in Timer, Life(u), timer' = [timer EXCEPT ![id] = u],
           u.st = timer[id].st, u.event = timer[id].event, u.mixed = timer[id].mixed,
           Kept(timer[id]) => Kept(u),
           user.op = "idle", user' = user, cb' = cb, fault' = fault,
           raced' \in BOOLEAN, raced => raced'
    PROVE  Inv'
<1>1. /\ timer' \in [Ids -> Timer] /\ timer'[id] = u
      /\ \A i \in Ids : i # id => timer'[i] = timer[i]
  BY OneTimer DEF Inv
<1>2. cb = NoCallback \/ cb.id \in Ids
  BY DEF Inv, TypeOK
<1>3. TypeOK'
  BY <1>1 DEF Inv, TypeOK
<1>4. LifeOK'
  BY <1>1 DEF Inv, LifeOK
<1>5. UserOK'
  BY DEF UserOK
<1>6. CallbackOK'
  BY <1>1, <1>2 DEF Inv, CallbackOK
<1>7. RoundsOK'
  BY <1>1 DEF Inv, RoundsOK, Starting
<1>8. EventOK'
  BY <1>1 DEF Inv, EventOK, Running
<1>9. RacedOK'
  BY <1>1 DEF Inv, RacedOK, Meets, Running, Ending
<1>. QED
  BY <1>3, <1>4, <1>5, <1>6, <1>7, <1>8, <1>9 DEF Inv

\* The last reference goes.
LEMMA ReleaseStep ==
    ASSUME Inv, NEW id \in Ids, NEW lock, user.op = "idle", timer[id].st = "live",
           Release(id, lock), cb' = cb, fault' = fault,
           raced' = (raced \/ EndsUnderHandler(id))
    PROVE  Inv'
<1>1. timer[id] \in Timer /\ Life(timer[id])
  BY TheTimer
<1>2. cb = NoCallback \/ cb.id \in Ids
  BY DEF Inv, TypeOK
<1>3. raced' \in BOOLEAN
  OBVIOUS
<1>4. CASE timer[id].event
  <2>1. PICK u : u = [timer[id] EXCEPT !.inMap = FALSE, !.held = FALSE]
    OBVIOUS
  <2>2. /\ u \in Timer /\ Life(u) /\ u.event /\ u.st = "live" /\ ~u.held /\ ~u.inMap
        /\ u.mixed = timer[id].mixed
        /\ Kept(timer[id]) => Kept(u)
    BY <1>1, <1>4, <2>1 DEF Timer, Life, Kept
  <2>3. /\ timer' \in [Ids -> Timer] /\ timer'[id] = u
        /\ \A i \in Ids : i # id => timer'[i] = timer[i]
    <3>1. timer' = [timer EXCEPT ![id] = u]
      BY <1>4, <2>1 DEF Release, Inv, TypeOK
    <3>. QED
      BY <2>2, <3>1, OneTimer DEF Inv
  <2>4. user'.op = "destroying" /\ user'.id = id /\ ~user'.stale /\ user' \in User
    BY <1>4, UserFacts, NoCallbackFacts DEF Release, Waiting
  <2>5. TypeOK'
    BY <1>3, <2>3, <2>4 DEF Inv, TypeOK
  <2>6. LifeOK'
    BY <2>2, <2>3 DEF Inv, LifeOK
  <2>7. UserOK'
    BY <2>2, <2>3, <2>4 DEF UserOK
  <2>8. CallbackOK'
    BY <1>2, <2>2, <2>3 DEF Inv, CallbackOK
  <2>9. RoundsOK'
    BY <1>4, <2>2, <2>3, <2>4 DEF Inv, RoundsOK, Starting
  <2>10. EventOK'
    BY <2>2, <2>3 DEF Inv, EventOK, Running
  <2>11. RacedOK'
    BY <1>4, <2>2, <2>3, <2>4 DEF Inv, RacedOK, Meets, Running, Ending, EndsUnderHandler
  <2>. QED
    BY <2>5, <2>6, <2>7, <2>8, <2>9, <2>10, <2>11 DEF Inv
<1>5. CASE ~timer[id].event
  <2>1. PICK u : u = Destroyed(timer[id])
    OBVIOUS
  <2>2. u \in Timer /\ Life(u) /\ u.st = "dead" /\ ~u.event
    BY <1>1, <2>1, DestroyedFacts
  <2>3. /\ timer' \in [Ids -> Timer] /\ timer'[id] = u
        /\ \A i \in Ids : i # id => timer'[i] = timer[i]
    <3>1. timer' = [timer EXCEPT ![id] = u]
      BY <1>5, <2>1 DEF Release
    <3>. QED
      BY <2>2, <3>1, OneTimer DEF Inv
  <2>4. user' = user
    BY <1>5 DEF Release
  <2>5. TypeOK'
    BY <1>3, <2>3, <2>4 DEF Inv, TypeOK
  <2>6. LifeOK'
    BY <2>2, <2>3 DEF Inv, LifeOK
  <2>7. UserOK'
    BY <2>4 DEF UserOK
  <2>8. CallbackOK'
    BY <1>2, <2>2, <2>3 DEF Inv, CallbackOK
  <2>9. RoundsOK'
    BY <2>2, <2>3, <2>4 DEF Inv, RoundsOK, Starting
  <2>10. EventOK'
    BY <1>5, <2>2, <2>3 DEF Inv, EventOK, Running
  <2>11. RacedOK'
    BY <2>2, <2>3, <2>4 DEF Inv, RacedOK, Meets, Running, Ending, EndsUnderHandler
  <2>. QED
    BY <2>5, <2>6, <2>7, <2>8, <2>9, <2>10, <2>11 DEF Inv
<1>. QED
  BY <1>4, <1>5

\* killTimer and the end of a pointer.
LEMMA KillStep ==
    ASSUME Inv, NEW id \in Ids, killTimer(id) \/ Forget(id)
    PROVE  Inv'
<1>0. /\ user.op = "idle" /\ cb' = cb /\ fault' = fault
      /\ raced' \in BOOLEAN /\ (raced => raced')
  BY DEF killTimer, Forget
<1>1. timer[id] \in Timer /\ Life(timer[id])
  BY TheTimer
<1>2. timer[id].st = "live"
  BY <1>1 DEF killTimer, Forget, Life
<1>3. CASE timer' = [timer EXCEPT ![id].inMap = FALSE] /\ user' = user
  <2>1. PICK u : u = [timer[id] EXCEPT !.inMap = FALSE]
    OBVIOUS
  <2>2. /\ u \in Timer /\ Life(u) /\ u.st = timer[id].st /\ u.event = timer[id].event
        /\ u.mixed = timer[id].mixed
        /\ Kept(timer[id]) => Kept(u)
    BY <1>1, <2>1 DEF Timer, Life, Kept
  <2>3. timer' = [timer EXCEPT ![id] = u]
    BY <1>3, <2>1 DEF Inv, TypeOK
  <2>. QED
    BY <1>0, <1>3, <2>2, <2>3, ReferenceStep
<1>4. CASE timer' = [timer EXCEPT ![id].held = FALSE] /\ user' = user
  <2>1. PICK u : u = [timer[id] EXCEPT !.held = FALSE]
    OBVIOUS
  <2>2. /\ u \in Timer /\ Life(u) /\ u.st = timer[id].st /\ u.event = timer[id].event
        /\ u.mixed = timer[id].mixed
        /\ Kept(timer[id]) => Kept(u)
    BY <1>1, <2>1 DEF Timer, Life, Kept
  <2>3. timer' = [timer EXCEPT ![id] = u]
    BY <1>4, <2>1 DEF Inv, TypeOK
  <2>. QED
    BY <1>0, <1>4, <2>2, <2>3, ReferenceStep
<1>5. ASSUME NEW lock, Release(id, lock), raced' = (raced \/ EndsUnderHandler(id)) PROVE Inv'
  BY <1>0, <1>2, <1>5, ReleaseStep
<1>6. CASE killTimer(id)
  <2>1. CASE timer[id].held
    BY <1>3, <1>6, <2>1 DEF killTimer
  <2>2. CASE ~timer[id].held
    BY <1>5, <1>6, <2>2 DEF killTimer
  <2>. QED
    BY <2>1, <2>2
<1>7. CASE Forget(id)
  <2>1. CASE timer[id].inMap
    BY <1>4, <1>7, <2>1 DEF Forget
  <2>2. CASE ~timer[id].inMap
    BY <1>5, <1>7, <2>2 DEF Forget
  <2>. QED
    BY <2>1, <2>2
<1>. QED
  BY <1>6, <1>7

-----------------------------------------------------------------------------
(* The loop thread                                                            *)

\* What eventHandler makes of a timer: the counters, and the end of the last round.
Counted(v, s) == [v EXCEPT !.curRound = @ + 1, !.calls = @ + 1, !.pend = v.persist,
                           !.mixed = @ \/ s]
AfterRound(v, s) == IF LastRound(Counted(v, s))
                    THEN [reset(Counted(v, s)) EXCEPT !.stopped = FALSE] ELSE Counted(v, s)

\* One round of a timer.
LEMMA RoundFacts ==
    ASSUME NEW v \in Timer, Life(v), v.event, NEW s \in BOOLEAN
    PROVE  /\ AfterRound(v, s) \in Timer /\ Life(AfterRound(v, s))
           /\ AfterRound(v, s).st = v.st /\ AfterRound(v, s).held = v.held
           /\ AfterRound(v, s).inMap = v.inMap
           /\ AfterRound(v, s).mixed = (v.mixed \/ s)
           /\ ~LastRound(Counted(v, s)) => AfterRound(v, s).event
           /\ Counted(v, s).st = v.st /\ Counted(v, s).handler = v.handler
           /\ Kept(v) => Kept(AfterRound(v, s))
<1>0. PICK t, u : t = Counted(v, s) /\ u = AfterRound(v, s)
  OBVIOUS
<1>. SUFFICES /\ u \in Timer /\ Life(u)
              /\ u.st = v.st /\ u.held = v.held /\ u.inMap = v.inMap
              /\ u.mixed = (v.mixed \/ s)
              /\ ~LastRound(t) => u.event
              /\ t.st = v.st /\ t.handler = v.handler
              /\ Kept(v) => Kept(u)
  BY <1>0
<1>1. v.curRound \in Nat /\ v.calls \in Nat /\ v.round \in 1 .. Forever /\ Forever \in Nat
  BY TimersAssumption DEF Timer
<1>2. /\ t \in Timer /\ t.event /\ t.st = v.st /\ t.held = v.held /\ t.inMap = v.inMap
      /\ t.round = v.round /\ t.handler = v.handler /\ t.stopped = v.stopped
      /\ t.curRound = v.curRound + 1 /\ t.calls = v.calls + 1 /\ t.mixed = (v.mixed \/ s)
  <2>1. t = [v EXCEPT !.curRound = v.curRound + 1, !.calls = v.calls + 1, !.pend = v.persist,
                      !.mixed = v.mixed \/ s]
    BY <1>0 DEF Counted, Timer
  <2>2. v.curRound + 1 \in Nat /\ v.calls + 1 \in Nat
    BY <1>1
  <2>3. PICK m \in BOOLEAN : m = (v.mixed \/ s)
    OBVIOUS
  <2>4. t = [v EXCEPT !.curRound = v.curRound + 1, !.calls = v.calls + 1, !.pend = v.persist,
                      !.mixed = m]
    BY <2>1, <2>3
  <2>5. t \in Timer
    BY <2>2, <2>4 DEF Timer
  <2>. QED
    BY <2>3, <2>4, <2>5 DEF Timer
<1>3. Life(t)
  BY <1>2 DEF Life
<1>4. CASE ~LastRound(t)
  <2>1. u = t /\ ~(t.curRound >= t.round)
    BY <1>0, <1>4 DEF LastRound, AfterRound
  <2>2. Kept(v) => Kept(t)
    BY <1>1, <1>2, <2>1 DEF Kept
  <2>. QED
    BY <1>2, <1>3, <2>1, <2>2
<1>5. CASE LastRound(t)
  <2>1. t.curRound >= t.round
    BY <1>5 DEF LastRound
  <2>2. u = [t EXCEPT !.event = FALSE, !.pend = FALSE, !.curRound = t.round + 1, !.stopped = FALSE]
    <3>1. u = [reset(t) EXCEPT !.stopped = FALSE]
      BY <1>0, <1>5 DEF AfterRound
    <3>. QED
      BY <1>2, <3>1 DEF reset, Timer
  <2>3. t.round + 1 \in Nat
    BY <1>1, <1>2
  <2>4. /\ u \in Timer /\ u.st = t.st /\ u.held = t.held /\ u.inMap = t.inMap
        /\ u.round = t.round /\ u.handler = t.handler /\ ~u.event /\ ~u.pend /\ ~u.stopped
        /\ u.calls = t.calls /\ u.mixed = t.mixed
    <3>1. u \in Timer
      BY <1>2, <2>2, <2>3 DEF Timer
    <3>. QED
      BY <1>2, <2>2, <3>1 DEF Timer
  <2>5. Life(u)
    BY <1>3, <1>2, <2>4 DEF Life
  <2>6. Kept(v) => Kept(u)
    BY <1>1, <1>2, <2>1, <2>4 DEF Kept
  <2>. QED
    BY <1>2, <1>5, <2>4, <2>5, <2>6
<1>. QED
  BY <1>4, <1>5

\* The loop thread changes nothing in the record of the user thread but stale.
LEMMA StaleOnly ==
    ASSUME TypeOK, NEW b \in BOOLEAN, user' = [user EXCEPT !.stale = b]
    PROVE  /\ user' \in User /\ user'.stale = b
           /\ user'.op = user.op /\ user'.id = user.id
           /\ user'.round = user.round /\ user'.handler = user.handler
BY DEF TypeOK, User

\* What the loop thread may do to a timer: erase what only the map holds, or change it
\* without touching the references that others have.
Tended(t, u) == \/ u.st = "dead" /\ t.inMap /\ ~t.held
                \/ u.st = t.st /\ u.held = t.held /\ (u.inMap => t.inMap)

\* The user thread's timer stays the one it was busy with.
LEMMA UserUndisturbed ==
    ASSUME Inv, timer' \in [Ids -> Timer], \A i \in Ids : Tended(timer[i], timer'[i]),
           user'.op = user.op, user'.id = user.id,
           user'.round = user.round, user'.handler = user.handler
    PROVE  UserOK'
<1>1. UserOK
  BY DEF Inv
<1>2. user.op \in {"emplacing", "starting"} \cup Waiting => user.id \in Ids
  BY DEF Inv, TypeOK
<1>3. \A i \in Ids : timer[i].held => timer'[i].held
  <2>1. \A i \in Ids : timer[i].held \in BOOLEAN /\ timer'[i].held \in BOOLEAN
    BY DEF Inv, TypeOK, Timer
  <2>. QED
    BY <2>1 DEF Tended
<1>4. \A i \in Ids : timer[i].st = "live" /\ ~timer[i].held /\ ~timer[i].inMap =>
                         timer'[i].st = "live" /\ ~timer'[i].held /\ ~timer'[i].inMap
  BY DEF Tended
<1>. QED
  BY <1>1, <1>2, <1>3, <1>4 DEF UserOK, Waiting

\* eventHandler up to the call of the handler.
LEMMA FireStep ==
    ASSUME Inv, NEW id \in Ids, eventHandler(id)
    PROVE  Inv'
<1>1. PICK v : v = timer[id]
  OBVIOUS
<1>2. PICK s \in BOOLEAN : s = Starting(id)
  BY DEF Starting
<1>3. PICK t : t = Counted(v, s)
  OBVIOUS
<1>4. PICK u : u = AfterRound(v, s)
  OBVIOUS
<1>5. PICK b \in BOOLEAN : b = (user.stale \/ (LastRound(t) /\ Ending(id)))
  BY DEF Inv, TypeOK, User
<1>6. /\ cb = NoCallback /\ v.pend
      /\ timer' = [timer EXCEPT ![id] = u]
      /\ cb' = [id |-> id, handler |-> t.handler, last |-> LastRound(t)]
      /\ user' = [user EXCEPT !.stale = b]
      /\ fault' = (fault \/ t.st = "dead" \/ t.handler = "none")
      /\ raced' = (raced \/ s \/ (Ending(id) /\ Touches(t.handler, LastRound(t))))
  <2>1. t = [timer[id] EXCEPT !.curRound = @ + 1, !.calls = @ + 1, !.pend = timer[id].persist,
                              !.mixed = @ \/ Starting(id)]
    BY <1>1, <1>2, <1>3 DEF Counted
  <2>2. u = IF LastRound(t) THEN [reset(t) EXCEPT !.stopped = FALSE] ELSE t
    BY <1>3, <1>4 DEF AfterRound
  <2>. QED
    BY <1>1, <1>2, <1>5, <2>1, <2>2 DEF eventHandler
<1>7. v \in Timer /\ Life(v) /\ v.event
  BY <1>1, <1>6, TheTimer DEF Life
<1>8. /\ u \in Timer /\ Life(u)
      /\ u.st = v.st /\ u.held = v.held /\ u.inMap = v.inMap
      /\ u.mixed = (v.mixed \/ s)
      /\ ~LastRound(t) => u.event
      /\ t.st = v.st /\ t.handler = v.handler
      /\ Kept(v) => Kept(u)
  BY <1>3, <1>4, <1>7, RoundFacts
<1>9. /\ timer' \in [Ids -> Timer] /\ timer'[id] = u
      /\ \A i \in Ids : i # id => timer'[i] = timer[i]
  BY <1>6, <1>8, OneTimer DEF Inv
<1>10. cb'.id = id /\ cb'.handler = v.handler /\ cb'.last = LastRound(t)
  BY <1>6, <1>8
<1>11. v.st # "none"
  BY <1>7 DEF Life
<1>12. /\ user' \in User /\ user'.stale = b
       /\ user'.op = user.op /\ user'.id = user.id
       /\ user'.round = user.round /\ user'.handler = user.handler
  BY <1>6, StaleOnly DEF Inv
<1>13. TypeOK'
  <2>1. LastRound(t) \in BOOLEAN
    BY DEF LastRound
  <2>2. cb' \in [id : 0 .. N, handler : Handlers, last : BOOLEAN]
    BY <1>6, <1>7, <1>8, <2>1, NoCallbackFacts DEF Timer
  <2>3. fault' \in BOOLEAN /\ raced' \in BOOLEAN
    BY <1>6
  <2>. QED
    BY <1>9, <1>10, <1>12, <2>2, <2>3 DEF Inv, TypeOK
<1>14. LifeOK'
  BY <1>8, <1>9 DEF Inv, LifeOK
<1>15. UserOK'
  <2>1. \A i \in Ids : Tended(timer[i], timer'[i])
    BY <1>1, <1>8, <1>9 DEF Tended
  <2>. QED
    BY <1>9, <1>12, <2>1, UserUndisturbed
<1>16. CallbackOK'
  BY <1>8, <1>9, <1>10, <1>11 DEF CallbackOK
<1>17. \A i \in Ids : (Starting(i)' <=> Starting(i)) /\ (Ending(i)' <=> Ending(i))
  BY <1>12 DEF Starting, Ending
<1>18. RoundsOK'
  BY <1>1, <1>2, <1>7, <1>8, <1>9, <1>17 DEF Inv, RoundsOK
<1>19. \A i \in Ids : Running(i)' <=> i = id
  BY <1>10 DEF Running
<1>20. v.st = "dead" => fault
  BY <1>1, <1>7 DEF Inv, EventOK
<1>21. EventOK'
  <2>1. fault => fault'
    BY <1>6
  <2>. QED
    BY <1>8, <1>9, <1>10, <1>19, <1>20, <2>1 DEF Inv, EventOK
<1>22. v.handler = "none" => raced \/ s
  <2>1. v.st = "live" \/ raced
    <3>1. v.st \in {"none", "live", "dead"}
      BY <1>7 DEF Timer
    <3>. QED
      BY <1>11, <1>20, <3>1 DEF Inv, RacedOK
  <2>2. v.mixed => raced
    BY <1>1, <1>7 DEF Inv, RacedOK
  <2>3. v.st = "live" /\ ~s /\ ~v.mixed => Kept(v)
    BY <1>1, <1>2 DEF Inv, RoundsOK
  <2>. QED
    BY <1>7, <2>1, <2>2, <2>3 DEF Kept
<1>23. RacedOK'
  <2>1. RacedOK
    BY DEF Inv
  <2>2. (raced => raced') /\ (s => raced') /\ (Ending(id) /\ LastRound(t) => raced')
    BY <1>6 DEF Touches
  <2>3. fault' => raced'
    BY <1>6, <1>8, <1>20, <1>22, <2>1, <2>2 DEF RacedOK
  <2>4. user'.stale => raced'
    BY <1>5, <1>12, <2>1, <2>2 DEF RacedOK
  <2>5. timer'[id].mixed => raced'
    BY <1>1, <1>7, <1>8, <1>9, <2>1, <2>2 DEF RacedOK
  <2>6. Meets(id)' => raced'
    <3>1. ASSUME Meets(id)' PROVE raced'
      <4>1. v.handler \in {"stop", "again"} /\ (Ending(id) \/ v.st = "dead")
        BY <1>8, <1>9, <1>10, <1>17, <3>1 DEF Meets
      <4>2. CASE Ending(id)
        BY <1>6, <1>8, <4>1, <4>2 DEF Touches
      <4>3. CASE v.st = "dead"
        BY <1>20, <2>1, <2>2, <4>3 DEF RacedOK
      <4>. QED
        BY <4>1, <4>2, <4>3
    <3>. QED
      BY <3>1
  <2>7. \A i \in Ids : i # id => ~Meets(i)'
    BY <1>19 DEF Meets
  <2>8. \A i \in Ids : i # id => (timer'[i].mixed /\ timer'[i].event => raced')
    BY <1>9, <2>1, <2>2 DEF RacedOK
  <2>. QED
    BY <2>3, <2>4, <2>5, <2>6, <2>7, <2>8 DEF RacedOK
<1>. QED
  BY <1>13, <1>14, <1>15, <1>16, <1>18, <1>21, <1>23 DEF Inv

\* A step of the loop thread at whose end no callback runs.
LEMMA LoopThreadStep ==
    ASSUME Inv, cb' = NoCallback, timer' \in [Ids -> Timer],
           fault' \in BOOLEAN, raced' = raced,
           user' \in User, user'.op = user.op, user'.id = user.id,
           user'.round = user.round, user'.handler = user.handler,
           \A i \in Ids : Life(timer'[i]) /\ Tended(timer[i], timer'[i]),
           \A i \in Ids :
               /\ timer'[i].st = "live" /\ ~Starting(i) /\ ~timer'[i].mixed => Kept(timer'[i])
               /\ Starting(i) /\ ~timer'[i].mixed => timer'[i].event,
           \A i \in Ids : /\ timer'[i].st = "dead" /\ timer'[i].event => fault'
                          /\ timer'[i].mixed /\ timer'[i].event => raced,
           fault' \/ user'.stale => raced
    PROVE  Inv'
<1>1. TypeOK'
  BY NoCallbackFacts DEF Inv, TypeOK
<1>2. LifeOK'
  BY DEF LifeOK
<1>3. UserOK'
  BY UserUndisturbed
<1>4. CallbackOK'
  BY DEF CallbackOK
<1>5. RoundsOK'
  <2>1. \A i \in Ids : Starting(i)' <=> Starting(i)
    BY DEF Starting
  <2>. QED
    BY <2>1 DEF RoundsOK
<1>6. \A i \in Ids : ~Running(i)'
  BY NoCallbackFacts DEF Running
<1>7. EventOK'
  BY <1>6 DEF EventOK
<1>8. RacedOK'
  BY <1>6 DEF RacedOK, Meets
<1>. QED
  BY <1>1, <1>2, <1>3, <1>4, <1>5, <1>7, <1>8 DEF Inv

\* Timers are erased, by a handler or by the audit.
LEMMA EraseStep ==
    ASSUME Inv, NEW S \in SUBSET Ids,
           timer' = [i \in Ids |-> IF i \in S THEN Erased(timer[i]) ELSE timer[i]],
           user' = user, cb' = NoCallback, fault' = fault, raced' = raced
    PROVE  Inv'
<1>1. \A i \in Ids :
          /\ timer'[i] \in Timer /\ Life(timer'[i])
          /\ \/ /\ timer'[i].st = "dead" /\ ~timer'[i].event
                /\ timer[i].inMap /\ ~timer[i].held
             \/ /\ timer'[i].st = timer[i].st /\ timer'[i].event = timer[i].event
                /\ timer'[i].held = timer[i].held /\ (timer'[i].inMap => timer[i].inMap)
                /\ timer'[i].mixed = timer[i].mixed
                /\ Kept(timer[i]) => Kept(timer'[i])
  <2>. SUFFICES ASSUME NEW i \in Ids
                PROVE  /\ timer'[i] \in Timer /\ Life(timer'[i])
                       /\ \/ /\ timer'[i].st = "dead" /\ ~timer'[i].event
                             /\ timer[i].inMap /\ ~timer[i].held
                          \/ /\ timer'[i].st = timer[i].st /\ timer'[i].event = timer[i].event
                             /\ timer'[i].held = timer[i].held
                             /\ timer'[i].inMap => timer[i].inMap
                             /\ timer'[i].mixed = timer[i].mixed
                             /\ Kept(timer[i]) => Kept(timer'[i])
    OBVIOUS
  <2>1. timer[i] \in Timer /\ Life(timer[i])
    BY TheTimer
  <2>2. CASE i \in S
    <3>1. timer'[i] = Erased(timer[i])
      BY <2>2
    <3>. QED
      BY <2>1, <3>1, ErasedFacts
  <2>3. CASE i \notin S
    <3>1. timer'[i] = timer[i]
      BY <2>3
    <3>. QED
      BY <2>1, <3>1
  <2>. QED
    BY <2>2, <2>3
<1>2. timer' \in [Ids -> Timer]
  BY <1>1
<1>3. \A i \in Ids : Life(timer'[i]) /\ Tended(timer[i], timer'[i])
  BY <1>1 DEF Tended
<1>4. \A i \in Ids : Starting(i) => timer[i].held
  BY DEF Inv, UserOK, Starting
<1>5. \A i \in Ids :
          /\ timer'[i].st = "live" /\ ~Starting(i) /\ ~timer'[i].mixed => Kept(timer'[i])
          /\ Starting(i) /\ ~timer'[i].mixed => timer'[i].event
  BY <1>1, <1>4 DEF Inv, RoundsOK
<1>6. \A i \in Ids : /\ timer'[i].st = "dead" /\ timer'[i].event => fault'
                     /\ timer'[i].mixed /\ timer'[i].event => raced
  BY <1>1 DEF Inv, EventOK, RacedOK
<1>7. fault' \in BOOLEAN /\ user' \in User /\ (fault' \/ user'.stale => raced)
  BY DEF Inv, TypeOK, RacedOK
<1>. QED
  BY <1>2, <1>3, <1>5, <1>6, <1>7, LoopThreadStep

\* The handler.
LEMMA HandlerStep ==
    ASSUME Inv, Handler
    PROVE  Inv'
<1>0. cb # NoCallback /\ cb' = NoCallback /\ raced' = raced
  BY DEF Handler
<1>1. PICK id \in Ids : id = cb.id
  BY <1>0 DEF Inv, TypeOK
<1>2. timer[id] \in Timer /\ Life(timer[id]) /\ timer[id].st # "none" /\ Running(id)
  BY <1>0, <1>1, TheTimer DEF Inv, CallbackOK, Running
<1>3. timer \in [Ids -> Timer] /\ fault \in BOOLEAN /\ user \in User
  BY DEF Inv, TypeOK
<1>4. \A i \in Ids : Life(timer[i])
  BY DEF Inv, LifeOK
<1>5. \A t : Tended(t, t)
  BY DEF Tended
<1>6. /\ RoundsOK /\ EventOK /\ RacedOK
      /\ fault \/ user.stale => raced
      /\ cb.handler \in {"stop", "again"} /\ (Ending(id) \/ timer[id].st = "dead") => raced
  BY <1>2 DEF Inv, RacedOK, Meets
<1>7. CASE UNCHANGED <<timer, user, fault>>
  <2>1. /\ \A i \in Ids :
               /\ timer'[i].st = "live" /\ ~Starting(i) /\ ~timer'[i].mixed => Kept(timer'[i])
               /\ Starting(i) /\ ~timer'[i].mixed => timer'[i].event
        /\ \A i \in Ids : /\ timer'[i].st = "dead" /\ timer'[i].event => fault'
                          /\ timer'[i].mixed /\ timer'[i].event => raced
    BY <1>6, <1>7 DEF RoundsOK, EventOK, RacedOK
  <2>. QED
    BY <1>0, <1>3, <1>4, <1>5, <1>6, <1>7, <2>1, LoopThreadStep
<1>8. CASE /\ cb.handler = "stop"
           /\ timer' = [timer EXCEPT ![cb.id] = stopInHandler(@, Starting(cb.id))]
           /\ user' = [user EXCEPT !.stale = @ \/ Ending(cb.id)]
           /\ fault' = (fault \/ timer[cb.id].st = "dead")
  <2>1. PICK w : w = reset(timer[id])
    OBVIOUS
  <2>2. /\ w \in Timer /\ Life(w) /\ ~w.event /\ w.st = timer[id].st
        /\ w.held = timer[id].held /\ w.inMap = timer[id].inMap
        /\ w.mixed = timer[id].mixed
        /\ Kept(timer[id]) => Kept(w)
    BY <1>2, <2>1, ResetFacts
  <2>3. PICK m \in BOOLEAN : m = (w.mixed \/ Starting(id))
    BY <2>2 DEF Timer, Starting
  <2>4. PICK u : u = [w EXCEPT !.mixed = m]
    OBVIOUS
  <2>5. /\ u \in Timer /\ Life(u) /\ ~u.event /\ u.st = timer[id].st
        /\ u.held = timer[id].held /\ u.inMap = timer[id].inMap
        /\ u.mixed = m
        /\ Kept(timer[id]) => Kept(u)
    BY <2>2, <2>4 DEF Timer, Life, Kept
  <2>6. /\ timer' \in [Ids -> Timer] /\ timer'[id] = u
        /\ \A i \in Ids : i # id => timer'[i] = timer[i]
    <3>1. stopInHandler(timer[id], Starting(id)) = u
      BY <2>1, <2>2, <2>3, <2>4 DEF stopInHandler
    <3>2. timer' = [timer EXCEPT ![id] = u]
      BY <1>1, <1>8, <3>1
    <3>. QED
      BY <2>5, <3>2, OneTimer DEF Inv
  <2>7. PICK b \in BOOLEAN : b = (user.stale \/ Ending(id))
    BY <1>3 DEF User
  <2>8. /\ user' \in User /\ user'.stale = b
        /\ user'.op = user.op /\ user'.id = user.id
        /\ user'.round = user.round /\ user'.handler = user.handler
    <3>1. user' = [user EXCEPT !.stale = b]
      BY <1>1, <1>8, <2>7
    <3>. QED
      BY <3>1, StaleOnly DEF Inv
  <2>9. \A i \in Ids : Life(timer'[i]) /\ Tended(timer[i], timer'[i])
    BY <1>4, <1>5, <2>5, <2>6 DEF Tended
  <2>10. \A i \in Ids :
             /\ timer'[i].st = "live" /\ ~Starting(i) /\ ~timer'[i].mixed => Kept(timer'[i])
             /\ Starting(i) /\ ~timer'[i].mixed => timer'[i].event
    BY <1>6, <2>2, <2>3, <2>5, <2>6 DEF RoundsOK
  <2>11. fault => fault'
    BY <1>8
  <2>12. \A i \in Ids : /\ timer'[i].st = "dead" /\ timer'[i].event => fault'
                        /\ timer'[i].mixed /\ timer'[i].event => raced
    BY <1>6, <2>5, <2>6, <2>11 DEF EventOK, RacedOK
  <2>13. fault' \in BOOLEAN
    BY <1>8
  <2>14. fault' \/ user'.stale => raced
    BY <1>1, <1>6, <1>8, <2>7, <2>8
  <2>. QED
    BY <1>0, <2>6, <2>8, <2>9, <2>10, <2>12, <2>13, <2>14, LoopThreadStep
<1>9. ASSUME cb.handler = "again", NEW round \in Rounds,
             timer' = [timer EXCEPT ![cb.id] = IF @.event THEN @
                                               ELSE Assigned(Added(@, round), round, "plain")],
             fault' = (fault \/ timer[cb.id].st = "dead"), user' = user
      PROVE  Inv'
  <2>1. PICK u : u = IF timer[id].event THEN timer[id]
                     ELSE Assigned(Added(timer[id], round), round, "plain")
    OBVIOUS
  <2>2. /\ u \in Timer /\ Life(u) /\ u.st = timer[id].st
        /\ u.held = timer[id].held /\ u.inMap = timer[id].inMap /\ u.event
        /\ ~timer[id].event => Kept(u) /\ ~u.mixed
        /\ timer[id].event => u = timer[id]
    <3>1. CASE timer[id].event
      BY <1>2, <2>1, <3>1
    <3>2. CASE ~timer[id].event
      <4>1. round \in 1 .. Forever /\ "plain" \in Kinds
        BY TimersAssumption DEF Kinds
      <4>2. PICK t : t = Added(timer[id], round)
        OBVIOUS
      <4>3. /\ t \in Timer /\ Life(t) /\ t.event /\ t.st = timer[id].st
            /\ t.held = timer[id].held /\ t.inMap = timer[id].inMap /\ ~t.mixed
        BY <1>2, <4>1, <4>2, AddedFacts
      <4>4. u = Assigned(t, round, "plain")
        BY <2>1, <3>2, <4>2
      <4>5. /\ u \in Timer /\ Life(u) /\ u.event = t.event /\ u.st = t.st
            /\ u.held = t.held /\ u.inMap = t.inMap /\ u.mixed = t.mixed
            /\ t.event => Kept(u)
        BY <1>2, <4>1, <4>3, <4>4, AssignedFacts
      <4>. QED
        BY <3>2, <4>3, <4>5
    <3>. QED
      BY <3>1, <3>2
  <2>3. /\ timer' \in [Ids -> Timer] /\ timer'[id] = u
        /\ \A i \in Ids : i # id => timer'[i] = timer[i]
    <3>1. timer' = [timer EXCEPT ![id] = u]
      BY <1>1, <1>9, <2>1
    <3>. QED
      BY <2>2, <3>1, OneTimer DEF Inv
  <2>4. \A i \in Ids : Life(timer'[i]) /\ Tended(timer[i], timer'[i])
    BY <1>4, <1>5, <2>2, <2>3 DEF Tended
  <2>5. \A i \in Ids :
            /\ timer'[i].st = "live" /\ ~Starting(i) /\ ~timer'[i].mixed => Kept(timer'[i])
            /\ Starting(i) /\ ~timer'[i].mixed => timer'[i].event
    BY <1>6, <2>2, <2>3 DEF RoundsOK
  <2>6. (fault => fault') /\ (timer[id].st = "dead" => fault') /\ fault' \in BOOLEAN
    BY <1>1, <1>9
  <2>7. \A i \in Ids : /\ timer'[i].st = "dead" /\ timer'[i].event => fault'
                       /\ timer'[i].mixed /\ timer'[i].event => raced
    BY <1>6, <2>2, <2>3, <2>6 DEF EventOK, RacedOK
  <2>8. fault' \/ user'.stale => raced
    BY <1>1, <1>6, <1>9
  <2>. QED
    BY <1>0, <1>3, <1>9, <2>3, <2>4, <2>5, <2>6, <2>7, <2>8, LoopThreadStep
<1>10. ASSUME NEW i \in Ids, timer' = [timer EXCEPT ![i] = Erased(@)],
              user' = user, fault' = fault
       PROVE  Inv'
  <2>1. timer' = [j \in Ids |-> IF j \in {i} THEN Erased(timer[j]) ELSE timer[j]]
    BY <1>3, <1>10
  <2>2. {i} \in SUBSET Ids
    OBVIOUS
  <2>. QED
    BY <1>0, <1>10, <2>1, <2>2, EraseStep
<1>. QED
  BY <1>7, <1>8, <1>9, <1>10 DEF Handler

\* The audit timer.
LEMMA AuditStep ==
    ASSUME Inv, auditTimer
    PROVE  Inv'
<1>1. PICK S : S = {id \in Ids : isFinished(timer[id])}
  OBVIOUS
<1>2. timer' = [i \in Ids |-> IF i \in S THEN Erased(timer[i]) ELSE timer[i]]
  BY <1>1 DEF auditTimer
<1>3. user' = user /\ cb' = NoCallback /\ fault' = fault /\ raced' = raced
  BY DEF auditTimer
<1>4. S \in SUBSET Ids
  BY <1>1
<1>. QED
  BY <1>2, <1>3, <1>4, EraseStep

\* Steps that the timers, their user and the callback take no part in.
LEMMA OtherStep ==
    ASSUME Inv, timer' = timer, cb' = cb, fault' = fault, raced' = raced,
           user' = user \/ (user.op = "ctor" /\ user' = Idle)
    PROVE  Inv'
<1>1. CASE user' = user
  <2>1. TypeOK' /\ LifeOK' /\ UserOK' /\ CallbackOK'
    BY <1>1 DEF Inv, TypeOK, LifeOK, UserOK, CallbackOK
  <2>2. RoundsOK' /\ EventOK' /\ RacedOK'
    BY <1>1 DEF Inv, RoundsOK, EventOK, RacedOK, Meets, Starting, Ending, Running
  <2>. QED
    BY <2>1, <2>2 DEF Inv
<1>2. CASE user.op = "ctor" /\ user' = Idle
  <2>1. user'.op = "idle" /\ ~user'.stale
    BY <1>2, UserFacts
  <2>2. TypeOK'
    BY <1>2, <2>1, UserFacts DEF Inv, TypeOK, Waiting
  <2>3. LifeOK' /\ UserOK' /\ CallbackOK'
    BY <2>1 DEF Inv, LifeOK, UserOK, CallbackOK
  <2>4. RoundsOK'
    BY <1>2, <2>1 DEF Inv, RoundsOK, Starting
  <2>5. EventOK'
    BY DEF Inv, EventOK, Running
  <2>6. RacedOK'
    BY <2>1 DEF Inv, RacedOK, Meets, Running, Ending
  <2>. QED
    BY <2>2, <2>3, <2>4, <2>5, <2>6 DEF Inv
<1>. QED
  BY <1>1, <1>2

-----------------------------------------------------------------------------
\* The initial states.
LEMMA InitInv == Init => Inv
<1>. SUFFICES ASSUME Init PROVE Inv
  OBVIOUS
<1>1. 1 \in 1 .. Forever
  BY TimersAssumption
<1>2. /\ Unmade \in Timer /\ Life(Unmade)
      /\ Unmade.st = "none" /\ ~Unmade.event /\ ~Unmade.mixed
  BY <1>1 DEF Unmade, Timer, Handlers, Life
<1>3. \A id \in Ids : timer[id] = Unmade
  BY DEF Init
<1>4. 0 \in 0 .. N
  BY TimersAssumption
<1>5. user.op \in {"idle", "ctor"} /\ ~user.stale /\ user \in User
  BY <1>4, UserFacts DEF Init
<1>6. TypeOK
  <2>1. timer \in [Ids -> Timer]
    BY <1>2 DEF Init
  <2>. QED
    BY <1>5, <2>1, NoCallbackFacts DEF Init, TypeOK, Waiting
<1>7. LifeOK /\ UserOK /\ CallbackOK
  BY <1>2, <1>3, <1>5 DEF Init, LifeOK, UserOK, CallbackOK
<1>8. RoundsOK
  BY <1>2, <1>3, <1>5 DEF RoundsOK, Starting
<1>9. \A id \in Ids : ~Running(id)
  BY NoCallbackFacts DEF Init, Running
<1>10. EventOK
  BY <1>2, <1>3, <1>9 DEF EventOK
<1>11. RacedOK
  BY <1>2, <1>3, <1>5, <1>9 DEF Init, RacedOK, Meets
<1>. QED
  BY <1>6, <1>7, <1>8, <1>10, <1>11 DEF Inv

\* Every step.
LEMMA StepInv == Inv /\ [Next]_vars => Inv'
<1>. SUFFICES ASSUME Inv, [Next]_vars PROVE Inv'
  OBVIOUS
<1>1. ASSUME NEW id \in Ids, getUniqueID(id) PROVE Inv'
  BY <1>1, MakeStep
<1>2. ASSUME NEW id \in Ids, startRounds(id) PROVE Inv'
  BY <1>2, StartStep
<1>3. ASSUME NEW id \in Ids, stop(id) PROVE Inv'
  BY <1>3, StopStep
<1>4. ASSUME NEW id \in Ids, killTimer(id) \/ Forget(id) PROVE Inv'
  BY <1>4, KillStep
<1>5. ASSUME NEW id \in Ids, eventHandler(id) PROVE Inv'
  BY <1>5, FireStep
<1>6. CASE getTimer
  BY <1>6, EmplaceStep
<1>7. CASE started
  BY <1>7, StartedStep
<1>8. CASE freed
  BY <1>8, FreedStep
<1>9. CASE Handler
  BY <1>9, HandlerStep
<1>10. CASE auditTimer
  BY <1>10, AuditStep
<1>11. CASE auditStarted \/ LoopRuns \/ LoopEnds
  BY <1>11, OtherStep DEF auditStarted, LoopRuns, LoopEnds
<1>12. CASE UNCHANGED vars
  BY <1>12, OtherStep DEF vars
<1>. QED
  BY <1>1, <1>2, <1>3, <1>4, <1>5, <1>6, <1>7, <1>8, <1>9, <1>10, <1>11, <1>12 DEF Next

\* The invariant of the timers.
THEOREM TimersInvariant == Spec => []Inv
<1>1. Init => Inv
  BY InitInv
<1>2. Inv /\ [Next]_vars => Inv'
  BY StepInv
<1>. QED
  BY <1>1, <1>2, PTL DEF Spec

\* A timer runs its handler once for each of its rounds and keeps its event for as long,
\* unless it is stopped, or its start met its expiry: for any timers, rounds, handlers
\* and interleaving, the user stopping and killing timers at any time.
THEOREM RoundsProved == Spec => []RoundsKept
<1>1. Inv => RoundsKept
  <2>. SUFFICES ASSUME Inv, NEW id \in Ids, timer[id].st = "live", timer[id].handler # "none",
                       ~timer[id].mixed, ~Starting(id)
                PROVE  /\ timer[id].calls <= timer[id].round
                       /\ ~timer[id].stopped =>
                              (timer[id].event <=> timer[id].calls < timer[id].round)
    BY DEF RoundsKept
  <2>1. Kept(timer[id])
    BY DEF Inv, RoundsOK
  <2>2. timer[id].calls \in Nat /\ timer[id].round \in Nat
    BY TimersAssumption DEF Inv, TypeOK, Timer
  <2>. QED
    BY <2>1, <2>2 DEF Kept
<1>. QED
  BY <1>1, TimersInvariant, PTL

\* No event is freed twice, no timer is used after its end and no empty handler called
\* unless the two threads met in one timer: whatever the user ends, and when.
THEOREM NoFaultProved == Spec => []NoFault
<1>1. Inv => NoFault
  BY DEF Inv, RacedOK, NoFault
<1>. QED
  BY <1>1, TimersInvariant, PTL

\* A timer that was killed or forgotten, and is through with it, is silent as long as
\* there was no fault: its event is gone, and a handler of it that still runs is in its
\* last round.
THEOREM SilentProved == Spec => []Silent
<1>1. Inv => Silent
  <2>. SUFFICES ASSUME Inv, ~fault, NEW id \in Ids, timer[id].st = "dead"
                PROVE  ~timer[id].pend /\ (Running(id) => cb.last)
    BY DEF Silent
  <2>1. ~timer[id].event
    BY DEF Inv, EventOK
  <2>2. Life(timer[id])
    BY TheTimer
  <2>. QED
    BY <2>1, <2>2 DEF Inv, EventOK, Life
<1>. QED
  BY <1>1, TimersInvariant, PTL
=============================================================================
