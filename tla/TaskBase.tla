------------------------------ MODULE TaskBase ------------------------------
(***************************************************************************)
(* The message path between threads and tasks: task_base::in_queue,         *)
(* task_manager::send2task, evfdCallback and task_base::process_msg.        *)
(*                                                                          *)
(* A sender appends to the task's queue under the task's mutex, releases    *)
(* the mutex and only then writes to the task's eventfd.  The task's event  *)
(* loop reads the eventfd, which resets its counter, and only then swaps    *)
(* the queue with its private one, which it drains.  No lock spans the two  *)
(* steps on either side, so every interleaving of them is a behaviour here. *)
(*                                                                          *)
(* The initial state is the one inside task_manager::init just after TASK0  *)
(* has been registered: task_map is complete and is not changed any more,   *)
(* as the comments in send2task and add_tasks ask.                          *)
(***************************************************************************)
EXTENDS Integers, Sequences

CONSTANTS Tasks,     \* names of the tasks in task_map
          TASK0,     \* the manager task
          Clients,   \* threads of the application that call send2task
          MaxSend,   \* bound: messages the clients send altogether
          EvfdMax    \* largest value of an eventfd counter (2^64 - 2 in Linux)

ASSUME TaskAssumption == /\ TASK0 \in Tasks
                         /\ Tasks \cap Clients = {}
                         /\ MaxSend \in Nat
                         /\ EvfdMax \in Nat \ {0}

\* A task's thread sends too: it answers heartbeats.
Threads == Tasks \cup Clients

VARIABLES
    task_queue,      \* task_queue[t]: _task_queue of t, guarded by its mutex
    tmp_task_queue,  \* tmp_task_queue[t]: _tmp_task_queue, touched by t's thread only
    evfd,            \* evfd[t]: counter of t's eventfd, -1 while there is none
    inited,          \* tasks on which task_manager::init has called init
    pc,              \* pc[t]: where t's event loop is
    writing,         \* writing[x]: {t} when thread x has queued a message for t
                     \* and has not written t's eventfd yet, otherwise {}
    sent,            \* number of messages the clients have sent
    handled,         \* history: the messages t has handled, in order
    promised         \* history: how many messages had entered t's queue when a
                     \* send2task to t last returned true or last found the
                     \* counter of t's eventfd at its limit

vars == <<task_queue, tmp_task_queue, evfd, inited, pc, writing, sent, handled,
          promised>>

Init == /\ task_queue = [t \in Tasks |-> <<>>]
        /\ tmp_task_queue = [t \in Tasks |-> <<>>]
        /\ evfd = [t \in Tasks |-> -1]
        /\ inited = {}
        /\ pc = [t \in Tasks |-> "off"]
        /\ writing = [x \in Threads |-> {}]
        /\ sent = 0
        /\ handled = [t \in Tasks |-> <<>>]
        /\ promised = [t \in Tasks |-> 0]

\* Every message that ever entered t's queue, in order.
Log == [t \in Tasks |-> (handled[t] \o tmp_task_queue[t]) \o task_queue[t]]

\* What the module promises: Mailboxes, with Log as the log.
Mail == INSTANCE Mailboxes WITH log <- Log

-----------------------------------------------------------------------------
(* Starting the tasks: the workers first, in the order of their names, which *)
(* is left open here, and TASK0 last.                                        *)

MayInit(t) == /\ t \notin inited
              /\ t = TASK0 => Tasks \ {TASK0} \subseteq inited

\* task_base::init with a working eventfd(): the loop polls from now on.
InitTask(t) ==
    /\ MayInit(t)
    /\ inited' = inited \cup {t}
    /\ evfd' = [evfd EXCEPT ![t] = 0]
    /\ pc' = [pc EXCEPT ![t] = "poll"]
    /\ UNCHANGED <<task_queue, tmp_task_queue, writing, sent, handled, promised>>

\* Mutant: the result of eventfd() is not looked at.
InitTaskUnchecked(t) ==
    /\ MayInit(t)
    /\ inited' = inited \cup {t}
    /\ pc' = [pc EXCEPT ![t] = "poll"]
    /\ UNCHANGED <<task_queue, tmp_task_queue, evfd, writing, sent, handled, promised>>

\* task_base::init when eventfd() fails: false is returned, which nobody reads.
InitTaskFails(t) ==
    /\ MayInit(t)
    /\ inited' = inited \cup {t}
    /\ UNCHANGED <<task_queue, tmp_task_queue, evfd, pc, writing, sent, handled,
                   promised>>

\* task_base::init when EventFdServer's constructor throws, because event_new or
\* event_add failed: false is returned, there is an eventfd and no loop reads it.
InitServerFails(t) ==
    /\ MayInit(t)
    /\ inited' = inited \cup {t}
    /\ evfd' = [evfd EXCEPT ![t] = 0]
    /\ UNCHANGED <<task_queue, tmp_task_queue, pc, writing, sent, handled, promised>>

-----------------------------------------------------------------------------
(* send2task: in_queue, then write.                                          *)

\* The first half of send2task(t, m) by thread x, up to the unlock in in_queue.
in_queue(x, t, m) ==
    /\ writing[x] = {}
    /\ task_queue' = [task_queue EXCEPT ![t] = Append(@, m)]
    /\ writing' = [writing EXCEPT ![x] = {t}]

Send2Task(c, t, type) ==
    /\ sent < MaxSend
    /\ in_queue(c, t, [type |-> type, body |-> c, seq |-> sent])
    /\ sent' = sent + 1
    /\ UNCHANGED <<tmp_task_queue, evfd, inited, pc, handled, promised>>

\* The counter takes one more: there is an eventfd and it is not at its limit.
CanWrite(t) == evfd[t] \in 0 .. EvfdMax - 1

\* The write succeeds and send2task returns true ...
WriteEvfd(x, t) ==
    /\ writing[x] = {t}
    /\ CanWrite(t)
    /\ evfd' = [evfd EXCEPT ![t] = @ + 1]
    /\ writing' = [writing EXCEPT ![x] = {}]
    /\ promised' = [promised EXCEPT ![t] = Len(Log[t])]
    /\ UNCHANGED <<task_queue, tmp_task_queue, inited, pc, sent, handled>>

\* ... or fails and it returns false, the message still queued: with EBADF, since
\* there is no eventfd, ...
WriteEvfdFails(x, t) ==
    /\ writing[x] = {t}
    /\ evfd[t] = -1
    /\ writing' = [writing EXCEPT ![x] = {}]
    /\ UNCHANGED <<task_queue, tmp_task_queue, evfd, inited, pc, sent, handled,
                   promised>>

\* ... or with EAGAIN, since the counter is at its limit.
WriteEvfdFull(x, t) ==
    /\ writing[x] = {t}
    /\ evfd[t] = EvfdMax
    /\ writing' = [writing EXCEPT ![x] = {}]
    /\ promised' = [promised EXCEPT ![t] = Len(Log[t])]
    /\ UNCHANGED <<task_queue, tmp_task_queue, evfd, inited, pc, sent, handled>>

-----------------------------------------------------------------------------
(* The event loop of a task.                                                 *)

\* evfdCallback: libevent found the eventfd readable; read() resets it.
EvfdCallback(t) ==
    /\ pc[t] = "poll"
    /\ evfd[t] > 0
    /\ evfd' = [evfd EXCEPT ![t] = 0]
    /\ pc' = [pc EXCEPT ![t] = "swap"]
    /\ UNCHANGED <<task_queue, tmp_task_queue, inited, writing, sent, handled,
                   promised>>

\* Mutant: the queue is copied and not taken.
CopyQueue(t) ==
    /\ pc[t] = "swap"
    /\ tmp_task_queue' = [tmp_task_queue EXCEPT ![t] = task_queue[t]]
    /\ pc' = [pc EXCEPT ![t] = "drain"]
    /\ UNCHANGED <<task_queue, evfd, inited, writing, sent, handled, promised>>

\* process_msg takes the queue under the mutex.
SwapQueues(t) ==
    /\ pc[t] = "swap"
    /\ task_queue' = [task_queue EXCEPT ![t] = tmp_task_queue[t]]
    /\ tmp_task_queue' = [tmp_task_queue EXCEPT ![t] = task_queue[t]]
    /\ pc' = [pc EXCEPT ![t] = "drain"]
    /\ UNCHANGED <<evfd, inited, writing, sent, handled, promised>>

\* The loop pops the first message.
Pop(t) ==
    /\ pc[t] = "drain"
    /\ writing[t] = {}
    /\ tmp_task_queue[t] # <<>>
    /\ handled' = [handled EXCEPT ![t] = Append(@, Head(tmp_task_queue[t]))]
    /\ tmp_task_queue' = [tmp_task_queue EXCEPT ![t] = Tail(@)]

\* on_message: what the task does with the message is not modelled at this level.
OnMessage(t) ==
    /\ Pop(t)
    /\ ~Mail!NeedsAnswer(t, Head(tmp_task_queue[t]))
    /\ UNCHANGED <<task_queue, evfd, inited, pc, writing, sent, promised>>

\* A worker answers a heartbeat request; it writes TASK0's eventfd in a later step.
AnswerHb(t) ==
    /\ Pop(t)
    /\ Mail!NeedsAnswer(t, Head(tmp_task_queue[t]))
    /\ in_queue(t, TASK0, Mail!HbRsp(t, Head(tmp_task_queue[t])))
    /\ UNCHANGED <<evfd, inited, pc, sent, promised>>

\* Mutant: the eventfd is read once more before process_msg returns.
DrainDoneRereads(t) ==
    /\ pc[t] = "drain"
    /\ writing[t] = {}
    /\ tmp_task_queue[t] = <<>>
    /\ pc' = [pc EXCEPT ![t] = "poll"]
    /\ evfd' = [evfd EXCEPT ![t] = 0]
    /\ UNCHANGED <<task_queue, tmp_task_queue, inited, writing, sent, handled,
                   promised>>

\* Mutant: process_msg handles at most one message per wake-up.
DrainDoneEarly(t) ==
    /\ pc[t] = "drain"
    /\ writing[t] = {}
    /\ pc' = [pc EXCEPT ![t] = "poll"]
    /\ UNCHANGED <<task_queue, tmp_task_queue, evfd, inited, writing, sent,
                   handled, promised>>

\* process_msg returns to the loop.
DrainDone(t) ==
    /\ pc[t] = "drain"
    /\ writing[t] = {}
    /\ tmp_task_queue[t] = <<>>
    /\ pc' = [pc EXCEPT ![t] = "poll"]
    /\ UNCHANGED <<task_queue, tmp_task_queue, evfd, inited, writing, sent,
                   handled, promised>>

-----------------------------------------------------------------------------
LoopStep(t) == \/ EvfdCallback(t)
               \/ SwapQueues(t)
               \/ OnMessage(t)
               \/ AnswerHb(t)
               \/ DrainDone(t)

SenderStep(x) == \E t \in Tasks : \/ WriteEvfd(x, t)
                                 \/ WriteEvfdFails(x, t)
                                 \/ WriteEvfdFull(x, t)

ClientStep(c) == \E t \in Tasks, type \in {"APP", "HB_REQ"} : Send2Task(c, t, type)

InitStep(t) == InitTask(t) \/ InitTaskFails(t) \/ InitServerFails(t)

Next == \/ \E t \in Tasks : InitStep(t) \/ LoopStep(t)
        \/ \E x \in Threads : SenderStep(x)
        \/ \E c \in Clients : ClientStep(c)

Spec == Init /\ [][Next]_vars

\* libevent dispatches a readable eventfd, and the handlers return (the NOTE above
\* process_msg asks that of every job); a thread inside send2task gets on.
Fairness == /\ \A t \in Tasks : WF_vars(LoopStep(t))
            /\ \A x \in Threads : WF_vars(SenderStep(x))

FairSpec == Spec /\ Fairness

-----------------------------------------------------------------------------
PcType == {"off", "poll", "swap", "drain"}

\* Type invariant of the queues, counters and program counters of task_base; a loop
\* polls an eventfd that init has made.
TypeOK ==
    /\ task_queue \in [Tasks -> Seq(Mail!Msg)]
    /\ tmp_task_queue \in [Tasks -> Seq(Mail!Msg)]
    /\ evfd \in [Tasks -> -1 .. EvfdMax]
    /\ inited \in SUBSET Tasks
    /\ pc \in [Tasks -> PcType]
    /\ \A t \in Tasks : pc[t] # "off" => evfd[t] >= 0
    /\ writing \in [Threads -> SUBSET Tasks]
    /\ sent \in 0 .. MaxSend
    /\ handled \in [Tasks -> Seq(Mail!Msg)]
    /\ promised \in [Tasks -> Nat]

\* No lost wake-up: while a message that was queued when some send2task to t
\* returned true, or returned false because the counter was at its limit, still
\* sits in _task_queue, t's eventfd is readable or t's loop is between the read and
\* the swap.  A loop that went back to polling with the counter at 0 would leave the
\* message there until somebody happens to send again.
PromisedIsAwake ==
    \A t \in Tasks :
        Len(handled[t]) + Len(tmp_task_queue[t]) < promised[t]
            => evfd[t] > 0 \/ pc[t] = "swap"

\* What makes PromisedIsAwake inductive: a task that was not started has no eventfd,
\* the private queue is empty outside the drain loop, and nothing is promised that
\* never entered the queue.
WakeInv ==
    /\ \A t \in Tasks \ inited : pc[t] = "off" /\ evfd[t] = -1
    /\ \A t \in Tasks : pc[t] # "drain" => tmp_task_queue[t] = <<>>
    /\ \A t \in Tasks :
           promised[t] <= Len(handled[t]) + Len(tmp_task_queue[t]) + Len(task_queue[t])
    /\ PromisedIsAwake

\* TaskBase implements Mailboxes: every step of the two-queue, eventfd-driven
\* protocol is a step of the mailbox of some task or changes no mailbox.
MailSpec == Mail!Spec

\* Everything that had been queued for t when a send2task to t returned true, or
\* found the counter at its limit, is handled in the end: again and again t has
\* caught up with all that was promised.  The exception is a task whose init gave up
\* after it had made the eventfd (InitServerFails): the sends go on returning true
\* and no loop is there to handle the messages.
PromisedIsHandled ==
    \A t \in Tasks : []<>(pc[t] = "off" \/ Len(handled[t]) >= promised[t])
=============================================================================
