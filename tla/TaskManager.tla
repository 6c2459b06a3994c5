----------------------------- MODULE TaskManager -----------------------------
(***************************************************************************)
(* The heartbeat protocol of task_manager and manager_task (TASK0).          *)
(*                                                                          *)
(* A timer in TASK0's loop looks, on every expiry, at which workers have     *)
(* answered the previous heartbeat, calls restart() on the others, and sends *)
(* the next request to every task.  Workers answer from process_msg, TASK0   *)
(* notes the answer in hb_map.                                              *)
(*                                                                          *)
(* A mailbox is one FIFO here, as module Mailboxes promises and TaskBase     *)
(* implements; only the wake-up flag is kept, because a task that is in      *)
(* task_map and has no eventfd yet is sent messages that wake nobody.  The   *)
(* initial state is the one task_manager::init(false) leaves: the tasks are  *)
(* registered and running and TASK0's heartbeat timer is armed.  add_tasks   *)
(* and del_tasks are atomic: their comments ask for a lock at run time.      *)
(* Workers are named by naturals, so that std::map's order of names is <.    *)
(***************************************************************************)
EXTENDS Naturals, Sequences, FiniteSets

CONSTANTS Workers,     \* names of the worker tasks
          MaxBox,      \* bound: messages in a mailbox before the timer's next expiry
          MaxApp,      \* bound: application messages sent altogether
          MaxDel,      \* bound: calls of del_tasks
          MaxSet,      \* bound: calls of set_hb_interval
          SeqMod,      \* 2^32 in the code: _seq_id is a uint32_t
          Intervals,   \* heartbeat intervals
          DefaultItval \* task_manager::_hb_itval, 5000 ms

TASK0 == 0
Tasks == Workers \cup {TASK0}

ASSUME ManagerAssumption == /\ Workers \subseteq Nat \ {TASK0}
                            /\ MaxBox \in Nat /\ MaxApp < MaxBox
                            /\ SeqMod \in Nat \ {0}
                            /\ {MaxApp, MaxDel, MaxSet} \subseteq Nat
                            /\ DefaultItval \in Intervals

\* seq_id is not part of a message: on_message reads the type and the body only.
Msg == [type : {"APP", "HB_REQ", "HB_RSP"}, body : Tasks]

App(t) == [type |-> "APP", body |-> t]
HbReq(t) == [type |-> "HB_REQ", body |-> t]
HbRsp(t) == [type |-> "HB_RSP", body |-> t]

VARIABLES
    task_map,    \* the workers in task_map (TASK0 always is)
    running,     \* tasks whose init has been called: they have an eventfd and a loop
    hung,        \* workers inside a job that never returns
    box,         \* box[t]: the messages queued for t
    awake,       \* awake[t]: t's eventfd is readable or t is draining its queue
    hb_map,      \* hb_map[t]: "none" (no entry), "no" (false) or "yes" (true)
    first_loop,  \* the thread_local flag of the timer's handler
    timer_pc,    \* "idle", or "send" between the check and send_hb_all
    seq_id,      \* task_manager::_seq_id
    hb_itval,    \* manager_task::_hb_itval
    timer,       \* the interval the heartbeat timer was armed with
    hb_tid,      \* manager_task::_hb_tid
    uniqueID,    \* the next id TASK0's TimerManager hands out
    restarted,   \* history: workers on which restart() was called
    deleted,     \* history: workers taken out of task_map since a check last
                 \* filled hb_map
    calls        \* calls made so far, for the bounds

vars == <<task_map, running, hung, box, awake, hb_map, first_loop, timer_pc, seq_id,
          hb_itval, timer, hb_tid, uniqueID, restarted, deleted, calls>>

mailVars == <<box, awake>>
tickVars == <<hb_map, first_loop, timer_pc, seq_id, restarted>>
itvalVars == <<hb_itval, timer, hb_tid, uniqueID>>

\* After task_manager::init: set_hb_interval(_hb_itval), then on_before_loop calls
\* start_hb, whose getTimer takes the id 0 (TimerManager(Loop&) counts from 0).
Init == /\ task_map = Workers
        /\ running = Tasks
        /\ hung = {}
        /\ box = [t \in Tasks |-> <<>>]
        /\ awake = [t \in Tasks |-> FALSE]
        /\ hb_map = [t \in Tasks |-> "none"]
        /\ first_loop = TRUE
        /\ timer_pc = "idle"
        /\ seq_id = 0
        /\ hb_itval = DefaultItval
        /\ timer = DefaultItval
        /\ hb_tid = 0
        /\ uniqueID = 1
        /\ restarted = {}
        /\ deleted = {}
        /\ calls = [app |-> 0, del |-> 0, set |-> 0]

Called(op) == calls' = [calls EXCEPT ![op] = @ + 1]

-----------------------------------------------------------------------------
(* send2task.  The mailbox of a task that is hung, was not started or was not   *)
(* woken yet grows without bound in the code; here it keeps the first MaxBox    *)
(* messages, among them a heartbeat request since MaxApp < MaxBox.              *)

Unread(t) == t \in hung \/ t \notin running \/ ~awake[t]

Put(q, t, m) == IF Unread(t) /\ Len(q[t]) >= MaxBox
                THEN q
                ELSE [q EXCEPT ![t] = Append(@, m)]

send2task(t, m) ==
    /\ box' = Put(box, t, m)
    /\ awake' = [awake EXCEPT ![t] = @ \/ t \in running]

\* The application gives a worker a job.
ClientSend(t) ==
    /\ calls.app < MaxApp
    /\ t \in task_map
    /\ send2task(t, App(t))
    /\ Called("app")
    /\ UNCHANGED <<task_map, running, hung, deleted, tickVars, itvalVars>>

-----------------------------------------------------------------------------
(* process_msg of a worker, one message at a time.                            *)

CanProcess(t) == t \in running \ hung /\ awake[t] /\ box[t] # <<>>

Popped(q, t) == [q EXCEPT ![t] = Tail(@)]

\* A job that returns.
OnMessage(t) ==
    /\ CanProcess(t)
    /\ Head(box[t]).type = "APP"
    /\ box' = Popped(box, t)
    /\ awake' = [awake EXCEPT ![t] = Len(box[t]) > 1]
    /\ UNCHANGED <<task_map, running, hung, deleted, calls, tickVars, itvalVars>>

\* A job that never returns.
Hang(t) ==
    /\ CanProcess(t)
    /\ Head(box[t]).type = "APP"
    /\ box' = Popped(box, t)
    /\ hung' = hung \cup {t}
    /\ UNCHANGED <<task_map, running, awake, deleted, calls, tickVars, itvalVars>>

\* Mutant: the request is not answered.
DropHb(t) ==
    /\ CanProcess(t)
    /\ Head(box[t]).type = "HB_REQ"
    /\ box' = Popped(box, t)
    /\ awake' = [awake EXCEPT ![t] = Len(box[t]) > 1]
    /\ UNCHANGED <<task_map, running, hung, deleted, calls, tickVars, itvalVars>>

\* A heartbeat request: the answer goes to TASK0.
AnswerHb(t) ==
    /\ CanProcess(t)
    /\ Head(box[t]).type = "HB_REQ"
    /\ box' = [Popped(box, t) EXCEPT ![TASK0] = Append(@, HbRsp(t))]
    /\ awake' = [awake EXCEPT ![t] = Len(box[t]) > 1, ![TASK0] = TRUE]
    /\ UNCHANGED <<task_map, running, hung, deleted, calls, tickVars, itvalVars>>

-----------------------------------------------------------------------------
(* TASK0's thread: manager_task::on_message and the heartbeat timer.           *)

\* manager_task::on_message.
OnHbRsp ==
    /\ timer_pc = "idle"
    /\ awake[TASK0] /\ box[TASK0] # <<>>
    /\ hb_map' = [hb_map EXCEPT ![Head(box[TASK0]).body] = "yes"]
    /\ box' = Popped(box, TASK0)
    /\ awake' = [awake EXCEPT ![TASK0] = Len(box[TASK0]) > 1]
    /\ UNCHANGED <<task_map, running, hung, first_loop, timer_pc, seq_id, restarted,
                   deleted, calls, itvalVars>>

\* The first expiry does nothing but clear first_loop.
FirstTick ==
    /\ timer_pc = "idle"
    /\ first_loop
    /\ first_loop' = FALSE
    /\ UNCHANGED <<task_map, running, hung, hb_map, timer_pc, seq_id, restarted,
                   deleted, calls, mailVars, itvalVars>>

\* The workers that did not answer ...
Silent == {t \in Workers : hb_map[t] = "no"}

\* Mutant: the handler returns at every silent worker.
AnySilent == Silent

\* ... and those of them that are not in task_map.
Unknown == Silent \ task_map

\* Mutant: only the first silent worker is restarted.
FirstToRestart == {t \in Silent : (\A u \in Unknown : t < u) /\ (\A u \in Silent : t <= u)}

\* Workers on which the check calls restart(): all silent ones, in the order of
\* their names, up to the first that is not in task_map.
ToRestart == {t \in Silent : \A u \in Unknown : t < u}

\* A silent worker is no longer in task_map: the handler returns.
TickGivesUp ==
    /\ timer_pc = "idle"
    /\ ~first_loop
    /\ Unknown # {}
    /\ restarted' = restarted \cup ToRestart
    /\ UNCHANGED <<task_map, running, hung, hb_map, first_loop, timer_pc, seq_id,
                   deleted, calls, mailVars, itvalVars>>

\* Bound: the timer does not get ahead of the tasks by more than MaxBox messages.
InTime == \A t \in Tasks : Unread(t) \/ Len(box[t]) < MaxBox

\* The check and the new hb_map, made from the copy of task_map ...
TickChecks ==
    /\ timer_pc = "idle"
    /\ ~first_loop
    /\ Unknown = {}
    /\ InTime
    /\ restarted' = restarted \cup ToRestart
    /\ hb_map' = [t \in Tasks |-> IF t \in task_map \cup {TASK0} THEN "no" ELSE "none"]
    /\ deleted' = {}
    /\ timer_pc' = "send"
    /\ UNCHANGED <<task_map, running, hung, first_loop, seq_id, calls, mailVars,
                   itvalVars>>

\* ... and send_hb_all, which walks task_map itself.
SendHbAll ==
    /\ timer_pc = "send"
    /\ box' = [t \in Tasks |-> IF t \in task_map THEN Put(box, t, HbReq(t))[t]
                                                 ELSE box[t]]
    /\ awake' = [t \in Tasks |-> awake[t] \/ t \in task_map \cap running]
    /\ seq_id' = (seq_id + Cardinality(task_map)) % SeqMod
    /\ timer_pc' = "idle"
    /\ UNCHANGED <<task_map, running, hung, hb_map, first_loop, restarted, deleted,
                   calls, itvalVars>>

Tick == FirstTick \/ TickGivesUp \/ TickChecks

-----------------------------------------------------------------------------
(* Calls of the application.                                                  *)

\* del_tasks: the task leaves task_map; its destructor stops the loop, if there is
\* one, later on.
del_tasks(t) ==
    /\ calls.del < MaxDel
    /\ t \in task_map
    /\ task_map' = task_map \ {t}
    /\ deleted' = deleted \cup {t}
    /\ box' = IF t \in running THEN box ELSE [box EXCEPT ![t] = <<>>]
    /\ Called("del")
    /\ UNCHANGED <<running, hung, awake, tickVars, itvalVars>>

\* ~task_base has stopped and joined the loop (a hung worker is waited for forever).
TaskGone(t) ==
    /\ t \in running \ task_map
    /\ t \notin hung \cup {TASK0}
    /\ running' = running \ {t}
    /\ box' = [box EXCEPT ![t] = <<>>]
    /\ awake' = [awake EXCEPT ![t] = FALSE]
    /\ UNCHANGED <<task_map, hung, deleted, calls, tickVars, itvalVars>>

\* add_tasks with a new task of that name ...
add_tasks(t) ==
    /\ t \in Workers \ (task_map \cup running)
    /\ task_map' = task_map \cup {t}
    /\ UNCHANGED <<running, hung, deleted, calls, mailVars, tickVars, itvalVars>>

\* ... which runs once its init is called; writes to its eventfd failed before that.
StartTask(t) ==
    /\ t \in task_map \ running
    /\ running' = running \cup {t}
    /\ UNCHANGED <<task_map, hung, deleted, calls, mailVars, tickVars, itvalVars>>

\* task_manager::set_hb_interval and manager_task::set_hb_interval: the timer is
\* replaced unless its id is 0.
set_hb_interval(i) ==
    /\ calls.set < MaxSet
    /\ hb_itval' = i
    /\ IF hb_tid # 0
       THEN /\ timer' = i
            /\ hb_tid' = uniqueID
            /\ uniqueID' = uniqueID + 1
       ELSE UNCHANGED <<timer, hb_tid, uniqueID>>
    /\ Called("set")
    /\ UNCHANGED <<task_map, running, hung, deleted, mailVars, tickVars>>

-----------------------------------------------------------------------------
WorkerStep(t) == OnMessage(t) \/ AnswerHb(t)

Next == \/ Tick \/ SendHbAll \/ OnHbRsp
        \/ \E t \in Workers : \/ WorkerStep(t) \/ Hang(t) \/ ClientSend(t)
                              \/ del_tasks(t) \/ TaskGone(t)
                              \/ add_tasks(t) \/ StartTask(t)
        \/ \E i \in Intervals : set_hb_interval(i)

Spec == Init /\ [][Next]_vars

\* The timer keeps expiring, TASK0's loop and those of the workers that do not hang
\* keep running.  Nothing is assumed of the application.
Fairness == /\ WF_vars(Tick) /\ WF_vars(SendHbAll) /\ WF_vars(OnHbRsp)
            /\ \A t \in Workers : WF_vars(WorkerStep(t))

FairSpec == Spec /\ Fairness

-----------------------------------------------------------------------------
\* t's heartbeat is on its way: the request or the answer is in a mailbox.
InFlight(t) == \/ \E i \in 1 .. Len(box[t]) : box[t][i] = HbReq(t)
               \/ \E i \in 1 .. Len(box[TASK0]) : box[TASK0][i] = HbRsp(t)

\* restart() needs a cause: a worker that hb_map reports as silent, between two
\* expiries, still has its request or its answer on the way, or it was deleted (and
\* perhaps added again) after the request was due.  No answer is lost and none is
\* credited to another worker.
SilentHasCause ==
    timer_pc = "idle" =>
        \A t \in Silent : InFlight(t) \/ t \in deleted

\* Every worker name that leaves task_map comes back.
NamesReturn == \A t \in Workers : []<>(t \in task_map)

\* A worker that hangs in a job while it is in task_map is restarted in the end,
\* unless it is taken out of task_map, whatever other workers are replaced.
HungIsRestarted ==
    NamesReturn => \A t \in Workers : (t \in hung /\ t \in task_map)
                                          ~> (t \in restarted \/ t \notin task_map)

\* The heartbeat goes on for ever, as long as every worker name that leaves task_map
\* comes back.
BeatsIfReplaced == NamesReturn => []<><<SendHbAll>>_vars
=============================================================================
