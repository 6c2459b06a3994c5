------------------------------ MODULE Mailboxes ------------------------------
(***************************************************************************)
(* What the task layer promises to the code that uses it: every task has a  *)
(* mailbox.  A message that a thread puts into a mailbox is handled once,   *)
(* in the order in which the messages entered the mailbox, and a worker     *)
(* answers every heartbeat request it handles with one response that goes   *)
(* to the mailbox of TASK0.  Threads, locks, the two queues of a task and   *)
(* its eventfd are below this level (see TaskBase).                         *)
(***************************************************************************)
EXTENDS Naturals, Sequences

CONSTANTS Tasks,    \* names of the tasks in task_map
          TASK0,    \* the manager task
          Clients,  \* threads of the application that call send2task
          MaxSend   \* bound: messages the clients send altogether

\* MSG_TYPE and TASK_MSG of task_base/util.hpp.  The payload of an application
\* message is abstracted to its sender; seq tells the clients' messages apart.
MsgType == {"APP", "HB_REQ", "HB_RSP"}
Msg == [type : MsgType, body : Tasks \cup Clients, seq : 0 .. MaxSend]

\* The response a worker makes out of a heartbeat request: the same message with
\* its own name as the body and another type.
HbRsp(t, m) == [type |-> "HB_RSP", body |-> t, seq |-> m.seq]

\* Only a worker answers, and only a heartbeat request.
NeedsAnswer(t, m) == m.type = "HB_REQ" /\ t # TASK0

VARIABLES log,      \* log[t]: every message that ever entered t's mailbox, in order
          handled   \* handled[t]: the messages t has handled, in order

vars == <<log, handled>>

Init == /\ log = [t \in Tasks |-> <<>>]
        /\ handled = [t \in Tasks |-> <<>>]

Post(t, m) == /\ log' = [log EXCEPT ![t] = Append(@, m)]
              /\ UNCHANGED handled

Handle(t) ==
    /\ Len(handled[t]) < Len(log[t])
    /\ LET m == log[t][Len(handled[t]) + 1]
       IN  /\ handled' = [handled EXCEPT ![t] = Append(@, m)]
           /\ log' = IF NeedsAnswer(t, m)
                     THEN [log EXCEPT ![TASK0] = Append(@, HbRsp(t, m))]
                     ELSE log

Next == \E t \in Tasks : Handle(t) \/ \E m \in Msg : Post(t, m)

Spec == Init /\ [][Next]_vars
=============================================================================
