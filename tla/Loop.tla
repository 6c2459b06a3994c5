-------------------------------- MODULE Loop --------------------------------
(***************************************************************************)
(* translib::Loop: an event_base, the thread that runs it, and the threads   *)
(* that start it, stop it, wait for it and destroy it.                       *)
(*                                                                          *)
(* _status is atomic, but every operation tests it and acts in two steps,    *)
(* and the loop's thread sets it in steps of its own.  libevent is modelled   *)
(* by what it does with the calls that are made here: event_base_loopexit     *)
(* adds an event that ends the loop whenever it runs, event_base_loopbreak    *)
(* sets a flag that event_base_loop clears on entry, a base is run by one     *)
(* thread at a time and a loop without events ends.                          *)
(***************************************************************************)
EXTENDS Naturals, FiniteSets

CONSTANTS Clients,   \* threads that use the Loop
          MaxStart,  \* bound: calls of start that pass its test
          Waiting    \* values the clients pass for the parameter of stop

ASSUME LoopAssumption == MaxStart \in Nat /\ Waiting \subseteq BOOLEAN

Runs == 1 .. MaxStart  \* executions of _run, in the order in which they were created

VARIABLES
    status,   \* _status
    thread,   \* _thread: the run it was created for, 0 for NULL
    joined,   \* runs whose thread has been joined
    run,      \* run[r]: where _run is
    pc,       \* pc[c]: where client c is
    arg,      \* arg[c]: the run c waits for
    exit,     \* the event of event_base_loopexit is in the base
    break,    \* the flag of event_base_loopbreak
    events,   \* other events are registered
    alive,    \* the Loop exists; FALSE once event_base_free has been called
    stopped,  \* history: stop(true) was called on a loop that had been started
    fault     \* "terminate": a joinable std::thread was deleted; "join": joined twice

vars == <<status, thread, joined, run, pc, arg, exit, break, events, alive, stopped,
          fault>>

baseVars == <<exit, break, events>>

Init == /\ status = "Init" /\ thread = 0 /\ joined = {}
        /\ run = [r \in Runs |-> "none"]
        /\ pc = [c \in Clients |-> "idle"] /\ arg = [c \in Clients |-> 0]
        /\ exit = FALSE /\ break = FALSE /\ events = TRUE
        /\ alive = TRUE /\ stopped = FALSE /\ fault = "none"

\* A client at rest may call an operation, but not once the destructor was called.
Idle(c) == /\ pc[c] = "idle" /\ fault = "none"
           /\ \A d \in Clients : pc[d] \notin {"d_wait", "d_join", "d_delete", "d_free", "gone"}

Goto(c, l) == pc' = [pc EXCEPT ![c] = l]

Created == {r \in Runs : run[r] # "none"}
Active == {r \in Created : run[r] # "done"}
Starting == {c \in Clients : pc[c] = "start"}
NextRun == Cardinality(Created) + 1

-----------------------------------------------------------------------------
(* start                                                                      *)

StartCheck(c) ==
    /\ Idle(c)
    /\ status = "Init" /\ Cardinality(Created) + Cardinality(Starting) < MaxStart
    /\ Goto(c, "start")
    /\ UNCHANGED <<status, thread, joined, run, arg, baseVars, alive, stopped, fault>>

\* _run in a new thread, or in this one, which is busy until the loop ends.
StartRun(c, newThread) ==
    /\ pc[c] = "start"
    /\ run' = [run EXCEPT ![NextRun] = "new"]
    /\ IF newThread
       THEN thread' = NextRun /\ Goto(c, "idle") /\ UNCHANGED arg
       ELSE Goto(c, "inside") /\ arg' = [arg EXCEPT ![c] = NextRun] /\ UNCHANGED thread
    /\ UNCHANGED <<status, joined, baseVars, alive, stopped, fault>>

RunReturns(c) ==
    /\ pc[c] = "inside" /\ run[arg[c]] = "done"
    /\ Goto(c, "idle")
    /\ UNCHANGED <<status, thread, joined, run, arg, baseVars, alive, stopped, fault>>

-----------------------------------------------------------------------------
(* _run                                                                       *)

RunBegins(r) ==
    /\ run[r] = "new"
    /\ status' = "Running"
    /\ run' = [run EXCEPT ![r] = "before"]
    /\ UNCHANGED <<thread, joined, pc, arg, baseVars, alive, stopped, fault>>

\* event_base_loop: not while another thread runs this base.
EnterLoop(r) ==
    /\ run[r] = "before"
    /\ IF \E q \in Runs : run[q] = "loop"
       THEN run' = [run EXCEPT ![r] = "after"] /\ UNCHANGED break
       ELSE run' = [run EXCEPT ![r] = "loop"] /\ break' = FALSE
    /\ UNCHANGED <<status, thread, joined, pc, arg, exit, events, alive, stopped, fault>>

LeaveLoop(r) ==
    /\ run[r] = "loop" /\ (exit \/ break \/ ~events)
    /\ run' = [run EXCEPT ![r] = "after"]
    /\ exit' = FALSE
    /\ UNCHANGED <<status, thread, joined, pc, arg, break, events, alive, stopped, fault>>

RunEnds(r) ==
    /\ run[r] = "after"
    /\ status' = "Finished"
    /\ run' = [run EXCEPT ![r] = "done"]
    /\ UNCHANGED <<thread, joined, pc, arg, baseVars, alive, stopped, fault>>

\* The last event is removed.
EventsGone ==
    /\ events /\ alive
    /\ events' = FALSE
    /\ UNCHANGED <<status, thread, joined, run, pc, arg, exit, break, alive, stopped, fault>>

-----------------------------------------------------------------------------
(* stop and wait                                                              *)

\* Mutant: the loop is always stopped with event_base_loopbreak.
StopBreaks(waiting) ==
    IF status = "Finished"
    THEN UNCHANGED <<exit, break, stopped>>
    ELSE exit' = exit /\ break' = TRUE /\ stopped' = (stopped \/ (waiting /\ Created # {}))

\* stop(waiting): nothing to do on a loop that has finished.
Stop(waiting) ==
    IF status = "Finished"
    THEN UNCHANGED <<exit, break, stopped>>
    ELSE /\ exit' = (exit \/ waiting)
         /\ break' = (break \/ ~waiting)
         /\ stopped' = (stopped \/ (waiting /\ Created # {}))

stop(c) ==
    /\ Idle(c)
    /\ \E waiting \in Waiting : Stop(waiting)
    /\ UNCHANGED <<status, thread, joined, run, pc, arg, events, alive, fault>>

\* The test in wait.
MustJoin == thread # 0 /\ status # "Finished"

wait(c) ==
    /\ Idle(c)
    /\ MustJoin
    /\ Goto(c, "join") /\ arg' = [arg EXCEPT ![c] = thread]
    /\ UNCHANGED <<status, thread, joined, run, baseVars, alive, stopped, fault>>

\* std::thread::join, for wait and for the destructor: not twice for one thread.
Join(c, from, to) ==
    /\ pc[c] = from /\ run[arg[c]] = "done"
    /\ fault' = IF arg[c] \in joined THEN "join" ELSE fault
    /\ joined' = joined \cup {arg[c]}
    /\ Goto(c, to)
    /\ UNCHANGED <<status, thread, run, arg, baseVars, alive, stopped>>

-----------------------------------------------------------------------------
(* ~Loop, called when no other client uses the Loop any more                  *)

Destroy(c) ==
    /\ \A d \in Clients : Idle(d)
    /\ IF thread # 0
       THEN Stop(TRUE) /\ Goto(c, "d_wait")
       ELSE Goto(c, "d_free") /\ UNCHANGED <<exit, break, stopped>>
    /\ UNCHANGED <<status, thread, joined, run, arg, events, alive, fault>>

\* Mutant: the thread is detached and not waited for.
DestroyDetaches(c) ==
    /\ pc[c] = "d_wait"
    /\ joined' = joined \cup {thread}
    /\ Goto(c, "d_delete")
    /\ UNCHANGED <<status, thread, run, arg, baseVars, alive, stopped, fault>>

DestroyWait(c) ==
    /\ pc[c] = "d_wait"
    /\ IF MustJoin
       THEN Goto(c, "d_join") /\ arg' = [arg EXCEPT ![c] = thread]
       ELSE Goto(c, "d_delete") /\ UNCHANGED arg
    /\ UNCHANGED <<status, thread, joined, run, baseVars, alive, stopped, fault>>

\* delete _thread.
DestroyThread(c) ==
    /\ pc[c] = "d_delete"
    /\ IF thread \in joined
       THEN Goto(c, "d_free") /\ UNCHANGED fault
       ELSE fault' = "terminate" /\ Goto(c, "gone")
    /\ UNCHANGED <<status, thread, joined, run, arg, baseVars, alive, stopped>>

DestroyBase(c) ==
    /\ pc[c] = "d_free"
    /\ alive' = FALSE
    /\ Goto(c, "gone")
    /\ UNCHANGED <<status, thread, joined, run, arg, baseVars, stopped, fault>>

-----------------------------------------------------------------------------
RunStep(r) == /\ fault = "none"
              /\ RunBegins(r) \/ EnterLoop(r) \/ LeaveLoop(r) \/ RunEnds(r)

\* What a client does inside a call that it has made.
ClientStep(c) == \/ \E b \in BOOLEAN : StartRun(c, b)
                 \/ RunReturns(c) \/ Join(c, "join", "idle") \/ Join(c, "d_join", "d_delete")
                 \/ DestroyWait(c) \/ DestroyThread(c) \/ DestroyBase(c)

Next == \/ \E r \in Runs : RunStep(r)
        \/ EventsGone
        \/ \E c \in Clients : \/ ClientStep(c) \/ StartCheck(c) \/ stop(c) \/ wait(c)
                              \/ Destroy(c)

Spec == Init /\ [][Next]_vars

\* Threads get on.  Nothing makes a client call an operation.
FairSpec == /\ Spec
            /\ \A r \in Runs : WF_vars(RunStep(r))
            /\ \A c \in Clients : WF_vars(ClientStep(c))

-----------------------------------------------------------------------------
\* start has not been called a second time before the first call took effect.
OneStart == Cardinality(Created) + Cardinality(Starting) <= 1

\* The event_base is freed only after _run has returned, however the loop came to
\* its end and whoever waited for it.
JoinedBeforeFree == OneStart /\ ~alive => Active = {}

\* "if run with new thread, will stop the new thread" (stop): a loop that stop(true)
\* was called on after it had been started comes to its end, also if its thread had
\* not entered event_base_loop yet.
StopEndsLoop == stopped ~> (Active = {} \/ ~OneStart)
=============================================================================
