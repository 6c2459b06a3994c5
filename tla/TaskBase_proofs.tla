--------------------------- MODULE TaskBase_proofs ---------------------------
(***************************************************************************)
(* Theorems about TaskBase for any number of tasks, clients and messages and *)
(* any limit of the eventfd counter.                                         *)
(***************************************************************************)
EXTENDS TaskBase, SequenceTheorems, TLAPS

\* What the provers need to know about the messages of Mailboxes.
LEMMA MsgFacts ==
    ASSUME NEW t \in Tasks, NEW m \in Mail!Msg
    PROVE  Mail!HbRsp(t, m) \in Mail!Msg
BY DEF Mail!Msg, Mail!HbRsp, Mail!MsgType

\* Type correctness: every queue, counter and program counter of the task layer
\* keeps its type, whatever the interleaving; a loop polls an eventfd that exists,
\* whose counter never exceeds its limit.
THEOREM TypeCorrect == Spec => []TypeOK
<1>1. Init => TypeOK
  BY TaskAssumption DEF Init, TypeOK, PcType
<1>2. TypeOK /\ [Next]_vars => TypeOK'
  <2> SUFFICES ASSUME TypeOK, [Next]_vars PROVE TypeOK'
    OBVIOUS
  <2> USE TaskAssumption DEF TypeOK, PcType
  <2>1. ASSUME NEW t \in Tasks, InitTask(t) PROVE TypeOK'
    BY <2>1 DEF InitTask, MayInit
  <2>2. ASSUME NEW t \in Tasks, InitTaskFails(t) PROVE TypeOK'
    BY <2>2 DEF InitTaskFails, MayInit
  <2>3. ASSUME NEW t \in Tasks, EvfdCallback(t) PROVE TypeOK'
    BY <2>3 DEF EvfdCallback
  <2>4. ASSUME NEW t \in Tasks, SwapQueues(t) PROVE TypeOK'
    BY <2>4 DEF SwapQueues
  <2>5. ASSUME NEW t \in Tasks, OnMessage(t) PROVE TypeOK'
    <3>1. /\ tmp_task_queue' \in [Tasks -> Seq(Mail!Msg)]
          /\ handled' \in [Tasks -> Seq(Mail!Msg)]
      BY <2>5 DEF OnMessage, Pop
    <3>2. UNCHANGED <<task_queue, evfd, inited, pc, writing, sent, promised>>
      BY <2>5 DEF OnMessage
    <3> QED
      BY <3>1, <3>2
  <2>6. ASSUME NEW t \in Tasks, AnswerHb(t) PROVE TypeOK'
    <3>1. Head(tmp_task_queue[t]) \in Mail!Msg
      BY <2>6 DEF AnswerHb, Pop
    <3>2. Mail!HbRsp(t, Head(tmp_task_queue[t])) \in Mail!Msg
      BY <3>1, MsgFacts
    <3>3. task_queue' \in [Tasks -> Seq(Mail!Msg)]
      BY <2>6, <3>2 DEF AnswerHb, in_queue
    <3>4. tmp_task_queue' \in [Tasks -> Seq(Mail!Msg)]
      BY <2>6 DEF AnswerHb, Pop
    <3>5. handled' \in [Tasks -> Seq(Mail!Msg)]
      BY <2>6, <3>1 DEF AnswerHb, Pop
    <3>6. writing' \in [Threads -> SUBSET Tasks]
      BY <2>6 DEF AnswerHb, in_queue
    <3>7. UNCHANGED <<evfd, inited, pc, sent, promised>>
      BY <2>6 DEF AnswerHb
    <3> QED
      BY <3>3, <3>4, <3>5, <3>6, <3>7
  <2>7. ASSUME NEW t \in Tasks, DrainDone(t) PROVE TypeOK'
    BY <2>7 DEF DrainDone
  <2>8. ASSUME NEW x \in Threads, NEW t \in Tasks, WriteEvfd(x, t) PROVE TypeOK'
    <3>1. Len(Log[t]) \in Nat
      BY DEF Log
    <3>2. evfd[t] + 1 \in -1 .. EvfdMax
      BY <2>8 DEF WriteEvfd, CanWrite
    <3>3. evfd' \in [Tasks -> -1 .. EvfdMax]
      BY <2>8, <3>2 DEF WriteEvfd
    <3>4. promised' \in [Tasks -> Nat]
      BY <2>8, <3>1 DEF WriteEvfd
    <3>5. writing' \in [Threads -> SUBSET Tasks]
      BY <2>8 DEF WriteEvfd
    <3>6. \A u \in Tasks : pc'[u] # "off" => evfd'[u] >= 0
      BY <2>8, <3>2 DEF WriteEvfd, CanWrite
    <3>7. UNCHANGED <<task_queue, tmp_task_queue, inited, pc, sent, handled>>
      BY <2>8 DEF WriteEvfd
    <3> QED
      BY <3>3, <3>4, <3>5, <3>6, <3>7
  <2>9. ASSUME NEW x \in Threads, NEW t \in Tasks, WriteEvfdFails(x, t) PROVE TypeOK'
    BY <2>9 DEF WriteEvfdFails
  <2>12. ASSUME NEW x \in Threads, NEW t \in Tasks, WriteEvfdFull(x, t) PROVE TypeOK'
    <3>1. Len(Log[t]) \in Nat
      BY DEF Log
    <3>2. promised' \in [Tasks -> Nat]
      BY <2>12, <3>1 DEF WriteEvfdFull
    <3>3. writing' \in [Threads -> SUBSET Tasks]
      BY <2>12 DEF WriteEvfdFull
    <3> QED
      BY <2>12, <3>2, <3>3 DEF WriteEvfdFull
  <2>13. ASSUME NEW t \in Tasks, InitServerFails(t) PROVE TypeOK'
    BY <2>13 DEF InitServerFails, MayInit
  <2>10. ASSUME NEW c \in Clients, NEW t \in Tasks, NEW type \in {"APP", "HB_REQ"},
                Send2Task(c, t, type)
         PROVE  TypeOK'
    <3>1. [type |-> type, body |-> c, seq |-> sent] \in Mail!Msg
      BY DEF Mail!Msg, Mail!MsgType
    <3>2. task_queue' \in [Tasks -> Seq(Mail!Msg)]
      BY <2>10, <3>1 DEF Send2Task, in_queue
    <3>3. writing' \in [Threads -> SUBSET Tasks]
      BY <2>10 DEF Send2Task, in_queue
    <3>4. sent' \in 0 .. MaxSend
      BY <2>10 DEF Send2Task
    <3>5. UNCHANGED <<tmp_task_queue, evfd, inited, pc, handled, promised>>
      BY <2>10 DEF Send2Task
    <3> QED
      BY <3>2, <3>3, <3>4, <3>5
  <2>11. CASE UNCHANGED vars
    BY <2>11 DEF vars
  <2> HIDE TaskAssumption DEF TypeOK, PcType
  <2> QED
    BY <2>1, <2>2, <2>3, <2>4, <2>5, <2>6, <2>7, <2>8, <2>9, <2>10, <2>11,
       <2>12, <2>13 DEF Next, InitStep, LoopStep, SenderStep, ClientStep
<1> QED
  BY <1>1, <1>2, PTL DEF Spec

-----------------------------------------------------------------------------
\* How long the pieces of a log are after a message moved from the private queue
\* to the handled messages.
LEMMA PopLengths ==
    ASSUME TypeOK, NEW t \in Tasks, Pop(t)
    PROVE  /\ Len(handled'[t]) = Len(handled[t]) + 1
           /\ Len(tmp_task_queue'[t]) = Len(tmp_task_queue[t]) - 1
           /\ \A u \in Tasks \ {t} : /\ handled'[u] = handled[u]
                                    /\ tmp_task_queue'[u] = tmp_task_queue[u]
<1>1. /\ handled \in [Tasks -> Seq(Mail!Msg)]
      /\ tmp_task_queue \in [Tasks -> Seq(Mail!Msg)]
  BY DEF TypeOK
<1>2. /\ tmp_task_queue[t] \in Seq(Mail!Msg)
      /\ tmp_task_queue[t] # <<>>
      /\ handled[t] \in Seq(Mail!Msg)
  BY <1>1 DEF Pop
<1>3. /\ handled'[t] = Append(handled[t], Head(tmp_task_queue[t]))
      /\ tmp_task_queue'[t] = Tail(tmp_task_queue[t])
  BY <1>1 DEF Pop
<1>4. \A u \in Tasks \ {t} : /\ handled'[u] = handled[u]
                            /\ tmp_task_queue'[u] = tmp_task_queue[u]
  BY <1>1 DEF Pop
<1> QED
  BY <1>2, <1>3, <1>4

\* in_queue makes no queue shorter.
LEMMA QueueGrows ==
    ASSUME TypeOK, NEW x \in Threads, NEW t \in Tasks, NEW m, in_queue(x, t, m)
    PROVE  \A u \in Tasks : Len(task_queue'[u]) >= Len(task_queue[u])
<1>1. \A u \in Tasks : task_queue[u] \in Seq(Mail!Msg)
  BY DEF TypeOK
<1>2. task_queue'[t] = Append(task_queue[t], m)
  BY DEF TypeOK, in_queue
<1>3. \A u \in Tasks \ {t} : task_queue'[u] = task_queue[u]
  BY DEF TypeOK, in_queue
<1> QED
  BY <1>1, <1>2, <1>3

\* The lengths of the three queues are natural numbers, ...
LEMMA QueueLengths ==
    ASSUME TypeOK
    PROVE  \A u \in Tasks : /\ Len(handled[u]) \in Nat
                            /\ Len(tmp_task_queue[u]) \in Nat
                            /\ Len(task_queue[u]) \in Nat
<1>1. \A u \in Tasks : handled[u] \in Seq(Mail!Msg)
  BY DEF TypeOK
<1>2. \A u \in Tasks : tmp_task_queue[u] \in Seq(Mail!Msg)
  BY DEF TypeOK
<1>3. \A u \in Tasks : task_queue[u] \in Seq(Mail!Msg)
  BY DEF TypeOK
<1> QED
  BY <1>1, <1>2, <1>3, LenProperties

\* ... and so they are after a step.
LEMMA PrimedQueueLengths ==
    ASSUME TypeOK'
    PROVE  \A u \in Tasks : /\ Len(handled'[u]) \in Nat
                            /\ Len(tmp_task_queue'[u]) \in Nat
                            /\ Len(task_queue'[u]) \in Nat
<1>1. \A u \in Tasks : handled'[u] \in Seq(Mail!Msg)
  BY DEF TypeOK
<1>2. \A u \in Tasks : tmp_task_queue'[u] \in Seq(Mail!Msg)
  BY DEF TypeOK
<1>3. \A u \in Tasks : task_queue'[u] \in Seq(Mail!Msg)
  BY DEF TypeOK
<1> QED
  BY <1>1, <1>2, <1>3, LenProperties

\* The arithmetic of PopKeepsWake.
LEMMA SumMonotone ==
    ASSUME NEW p \in Nat, NEW h1 \in Nat, NEW h2 \in Nat, NEW t1 \in Nat,
           NEW t2 \in Nat, NEW q1 \in Nat, NEW q2 \in Nat,
           p <= h1 + t1 + q1, q2 >= q1, h2 + t2 = h1 + t1
    PROVE  p <= h2 + t2 + q2
OBVIOUS

\* A pop keeps the wake-up invariant as long as no queue gets shorter.
LEMMA PopKeepsWake ==
    ASSUME TypeOK, TypeOK', WakeInv, NEW t \in Tasks, Pop(t),
           UNCHANGED <<evfd, inited, pc, promised>>,
           \A u \in Tasks : Len(task_queue'[u]) >= Len(task_queue[u])
    PROVE  WakeInv'
<1>1. \A u \in Tasks : Len(handled'[u]) + Len(tmp_task_queue'[u])
                       = Len(handled[u]) + Len(tmp_task_queue[u])
  <2>1. Len(handled'[t]) = Len(handled[t]) + 1
    BY PopLengths
  <2>2. Len(tmp_task_queue'[t]) = Len(tmp_task_queue[t]) - 1
    BY PopLengths
  <2>3. \A u \in Tasks \ {t} : /\ handled'[u] = handled[u]
                              /\ tmp_task_queue'[u] = tmp_task_queue[u]
    BY PopLengths
  <2>4. Len(handled'[t]) + Len(tmp_task_queue'[t])
            = Len(handled[t]) + Len(tmp_task_queue[t])
    BY <2>1, <2>2 DEF TypeOK
  <2> QED
    BY <2>3, <2>4
<1>2. \A u \in Tasks : pc'[u] # "drain" => tmp_task_queue'[u] = <<>>
  BY PopLengths DEF WakeInv, Pop
<1>3. \A u \in Tasks \ inited' : pc'[u] = "off" /\ evfd'[u] = -1
  BY DEF WakeInv
<1>4. \A u \in Tasks :
        promised'[u] <= Len(handled'[u]) + Len(tmp_task_queue'[u]) + Len(task_queue'[u])
  <2> TAKE u \in Tasks
  <2>1. promised[u] <= Len(handled[u]) + Len(tmp_task_queue[u]) + Len(task_queue[u])
    BY DEF WakeInv
  <2>2. Len(task_queue'[u]) >= Len(task_queue[u])
    OBVIOUS
  <2>3. Len(handled'[u]) + Len(tmp_task_queue'[u])
            = Len(handled[u]) + Len(tmp_task_queue[u])
    BY <1>1
  <2>4. /\ promised[u] \in Nat
        /\ Len(handled[u]) \in Nat /\ Len(handled'[u]) \in Nat
        /\ Len(tmp_task_queue[u]) \in Nat /\ Len(tmp_task_queue'[u]) \in Nat
        /\ Len(task_queue[u]) \in Nat /\ Len(task_queue'[u]) \in Nat
    BY QueueLengths, PrimedQueueLengths DEF TypeOK
  <2>5. promised[u] <= Len(handled'[u]) + Len(tmp_task_queue'[u]) + Len(task_queue'[u])
    BY <2>1, <2>2, <2>3, <2>4, SumMonotone
  <2> QED
    BY <2>5
<1>5. PromisedIsAwake'
  BY <1>1 DEF WakeInv, PromisedIsAwake
<1> QED
  BY <1>2, <1>3, <1>4, <1>5 DEF WakeInv

\* The length of a log is the sum of the lengths of its pieces.
LEMMA LogLength ==
    ASSUME TypeOK, NEW t \in Tasks
    PROVE  Len(Log[t]) = Len(handled[t]) + Len(tmp_task_queue[t]) + Len(task_queue[t])
<1>1. /\ handled[t] \in Seq(Mail!Msg)
      /\ tmp_task_queue[t] \in Seq(Mail!Msg)
      /\ task_queue[t] \in Seq(Mail!Msg)
  BY DEF TypeOK
<1> QED
  BY <1>1 DEF Log

\* A promise of t's whole log keeps the wake-up invariant when it leaves the eventfd
\* readable.
LEMMA PromiseKeepsWake ==
    ASSUME TypeOK, TypeOK', WakeInv, NEW t \in Tasks,
           UNCHANGED <<task_queue, tmp_task_queue, inited, pc, handled>>,
           evfd[t] >= 0, evfd'[t] > 0,
           \A u \in Tasks \ {t} : evfd'[u] = evfd[u],
           promised'[t] = Len(Log[t]),
           \A u \in Tasks \ {t} : promised'[u] = promised[u]
    PROVE  WakeInv'
<1>1. t \in inited
  BY DEF WakeInv
<1>2. \A u \in Tasks \ inited' : pc'[u] = "off" /\ evfd'[u] = -1
  BY <1>1 DEF WakeInv
<1>3. \A u \in Tasks : pc'[u] # "drain" => tmp_task_queue'[u] = <<>>
  BY DEF WakeInv
<1>4. promised'[t] <= Len(handled'[t]) + Len(tmp_task_queue'[t]) + Len(task_queue'[t])
  <2>1. promised'[t] = Len(handled[t]) + Len(tmp_task_queue[t]) + Len(task_queue[t])
    BY LogLength
  <2>2. /\ Len(handled[t]) \in Nat
        /\ Len(tmp_task_queue[t]) \in Nat
        /\ Len(task_queue[t]) \in Nat
    BY QueueLengths
  <2> QED
    BY <2>1, <2>2
<1>5. \A u \in Tasks :
        promised'[u] <= Len(handled'[u]) + Len(tmp_task_queue'[u]) + Len(task_queue'[u])
  BY <1>4 DEF WakeInv
<1>6. PromisedIsAwake'
  BY DEF WakeInv, PromisedIsAwake
<1> QED
  BY <1>2, <1>3, <1>5, <1>6 DEF WakeInv

\* The inductive invariant behind NoLostWakeup and Refinement.
THEOREM WakeCorrect == Spec => []WakeInv
<1>1. Init => WakeInv
  BY DEF Init, WakeInv, PromisedIsAwake
<1>2. TypeOK /\ TypeOK' /\ WakeInv /\ [Next]_vars => WakeInv'
  <2> SUFFICES ASSUME TypeOK, TypeOK', WakeInv, [Next]_vars PROVE WakeInv'
    OBVIOUS
  <2>1. ASSUME NEW t \in Tasks, InitTask(t) PROVE WakeInv'
    BY <2>1 DEF InitTask, MayInit, TypeOK, WakeInv, PromisedIsAwake
  <2>2. ASSUME NEW t \in Tasks, InitTaskFails(t) PROVE WakeInv'
    BY <2>2 DEF InitTaskFails, WakeInv, PromisedIsAwake
  <2>3. ASSUME NEW t \in Tasks, EvfdCallback(t) PROVE WakeInv'
    BY <2>3 DEF EvfdCallback, TypeOK, WakeInv, PromisedIsAwake
  <2>4. ASSUME NEW t \in Tasks, SwapQueues(t) PROVE WakeInv'
    BY <2>4 DEF SwapQueues, TypeOK, WakeInv, PromisedIsAwake
  <2>5. ASSUME NEW t \in Tasks, OnMessage(t) PROVE WakeInv'
    <3>1. Pop(t)
      BY <2>5 DEF OnMessage
    <3>2. UNCHANGED <<task_queue, evfd, inited, pc, promised>>
      BY <2>5 DEF OnMessage
    <3>3. \A u \in Tasks : Len(task_queue'[u]) >= Len(task_queue[u])
      BY <3>2 DEF TypeOK
    <3> QED
      BY <3>1, <3>2, <3>3, PopKeepsWake
  <2>6. ASSUME NEW t \in Tasks, AnswerHb(t) PROVE WakeInv'
    <3>1. Pop(t)
      BY <2>6 DEF AnswerHb
    <3>2. UNCHANGED <<evfd, inited, pc, promised>>
      BY <2>6 DEF AnswerHb
    <3>3. \A u \in Tasks : Len(task_queue'[u]) >= Len(task_queue[u])
      <4>1. t \in Threads /\ TASK0 \in Tasks
        BY TaskAssumption DEF Threads
      <4>2. in_queue(t, TASK0, Mail!HbRsp(t, Head(tmp_task_queue[t])))
        BY <2>6 DEF AnswerHb
      <4> QED
        BY <4>1, <4>2, QueueGrows
    <3> QED
      BY <3>1, <3>2, <3>3, PopKeepsWake
  <2>7. ASSUME NEW t \in Tasks, DrainDone(t) PROVE WakeInv'
    BY <2>7 DEF DrainDone, TypeOK, WakeInv, PromisedIsAwake
  <2>8. ASSUME NEW x \in Threads, NEW t \in Tasks, WriteEvfd(x, t) PROVE WakeInv'
    <3>1. UNCHANGED <<task_queue, tmp_task_queue, inited, pc, handled>>
      BY <2>8 DEF WriteEvfd
    <3>2. /\ evfd[t] >= 0 /\ evfd'[t] > 0
          /\ \A u \in Tasks \ {t} : evfd'[u] = evfd[u]
      BY <2>8, TaskAssumption DEF WriteEvfd, CanWrite, TypeOK
    <3>3. /\ promised'[t] = Len(Log[t])
          /\ \A u \in Tasks \ {t} : promised'[u] = promised[u]
      BY <2>8 DEF WriteEvfd, TypeOK
    <3> QED
      BY <3>1, <3>2, <3>3, PromiseKeepsWake
  <2>12. ASSUME NEW x \in Threads, NEW t \in Tasks, WriteEvfdFull(x, t) PROVE WakeInv'
    <3>1. UNCHANGED <<task_queue, tmp_task_queue, inited, pc, handled>>
      BY <2>12 DEF WriteEvfdFull
    <3>2. /\ evfd[t] >= 0 /\ evfd'[t] > 0
          /\ \A u \in Tasks \ {t} : evfd'[u] = evfd[u]
      BY <2>12, TaskAssumption DEF WriteEvfdFull, TypeOK
    <3>3. /\ promised'[t] = Len(Log[t])
          /\ \A u \in Tasks \ {t} : promised'[u] = promised[u]
      BY <2>12 DEF WriteEvfdFull, TypeOK
    <3> QED
      BY <3>1, <3>2, <3>3, PromiseKeepsWake
  <2>13. ASSUME NEW t \in Tasks, InitServerFails(t) PROVE WakeInv'
    BY <2>13 DEF InitServerFails, MayInit, TypeOK, WakeInv, PromisedIsAwake
  <2>9. ASSUME NEW x \in Threads, NEW t \in Tasks, WriteEvfdFails(x, t) PROVE WakeInv'
    BY <2>9 DEF WriteEvfdFails, WakeInv, PromisedIsAwake
  <2>10. ASSUME NEW c \in Clients, NEW t \in Tasks, NEW type \in {"APP", "HB_REQ"},
                Send2Task(c, t, type)
         PROVE  WakeInv'
    <3>1. UNCHANGED <<tmp_task_queue, evfd, inited, pc, handled, promised>>
      BY <2>10 DEF Send2Task
    <3>2. \A u \in Tasks : Len(task_queue'[u]) >= Len(task_queue[u])
      <4>1. c \in Threads
        BY DEF Threads
      <4>2. in_queue(c, t, [type |-> type, body |-> c, seq |-> sent])
        BY <2>10 DEF Send2Task
      <4> QED
        BY <4>1, <4>2, QueueGrows
    <3>3. /\ \A u \in Tasks \ inited' : pc'[u] = "off" /\ evfd'[u] = -1
          /\ \A u \in Tasks : pc'[u] # "drain" => tmp_task_queue'[u] = <<>>
          /\ PromisedIsAwake'
      BY <3>1 DEF WakeInv, PromisedIsAwake
    <3>4. \A u \in Tasks :
            promised'[u] <= Len(handled'[u]) + Len(tmp_task_queue'[u]) + Len(task_queue'[u])
      <4> TAKE u \in Tasks
      <4>1. promised[u] <= Len(handled[u]) + Len(tmp_task_queue[u]) + Len(task_queue[u])
        BY DEF WakeInv
      <4>2. promised[u] \in Nat
        BY DEF TypeOK
      <4>3. Len(task_queue'[u]) >= Len(task_queue[u])
        BY <3>2
      <4>4. /\ Len(handled[u]) \in Nat /\ Len(tmp_task_queue[u]) \in Nat
            /\ Len(task_queue[u]) \in Nat /\ Len(task_queue'[u]) \in Nat
        BY QueueLengths, PrimedQueueLengths
      <4>5. promised[u] <= Len(handled[u]) + Len(tmp_task_queue[u]) + Len(task_queue'[u])
        BY <4>1, <4>2, <4>3, <4>4, SumMonotone
      <4> QED
        BY <3>1, <4>5
    <3> QED
      BY <3>3, <3>4 DEF WakeInv
  <2>11. CASE UNCHANGED vars
    BY <2>11 DEF vars, WakeInv, PromisedIsAwake
  <2> QED
    BY <2>1, <2>2, <2>3, <2>4, <2>5, <2>6, <2>7, <2>8, <2>9, <2>10, <2>11,
       <2>12, <2>13 DEF Next, InitStep, LoopStep, SenderStep, ClientStep
<1> QED
  BY <1>1, <1>2, TypeCorrect, PTL DEF Spec

\* No wake-up is lost: PromisedIsAwake holds in every reachable state, for every
\* interleaving of any number of senders with the loop of the receiving task.
THEOREM NoLostWakeup == Spec => []PromisedIsAwake
<1>1. WakeInv => PromisedIsAwake
  BY DEF WakeInv
<1> QED
  BY <1>1, WakeCorrect, PTL

-----------------------------------------------------------------------------
(* Facts about three concatenated sequences: a log is handled \o tmp \o queue. *)

\* Swapping the queues while the private one is empty leaves the log as it is.
LEMMA ConcatSwap ==
    ASSUME NEW S, NEW h \in Seq(S), NEW q \in Seq(S)
    PROVE  (h \o q) \o <<>> = (h \o <<>>) \o q
OBVIOUS

\* Appending to the queue appends to the log.
LEMMA ConcatAppend ==
    ASSUME NEW S, NEW h \in Seq(S), NEW r \in Seq(S), NEW q \in Seq(S), NEW m \in S
    PROVE  (h \o r) \o Append(q, m) = Append((h \o r) \o q, m)
OBVIOUS

\* Moving the head of the private queue behind the handled messages keeps the log.
LEMMA ConcatPop ==
    ASSUME NEW S, NEW h \in Seq(S), NEW r \in Seq(S), NEW q \in Seq(S), r # <<>>
    PROVE  /\ Len(h) < Len((h \o r) \o q)
           /\ ((h \o r) \o q)[Len(h) + 1] = Head(r)
<1>2. h \o r \in Seq(S) /\ Len(h \o r) = Len(h) + Len(r) /\ Len(r) > 0
  OBVIOUS
<1>3. (h \o r)[Len(h) + 1] = Head(r)
  OBVIOUS
<1>4. ((h \o r) \o q)[Len(h) + 1] = (h \o r)[Len(h) + 1]
  BY <1>2
<1> QED
  BY <1>2, <1>3, <1>4

\* A pop leaves every log as it is, and what is popped is the first message of the
\* log that has not been handled.
LEMMA PopRefines ==
    ASSUME TypeOK, NEW t \in Tasks, Pop(t)
    PROVE  /\ Len(handled[t]) < Len(Log[t])
           /\ Log[t][Len(handled[t]) + 1] = Head(tmp_task_queue[t])
           /\ \A u \in Tasks : (handled'[u] \o tmp_task_queue'[u]) \o task_queue[u] = Log[u]
<1>1. /\ handled[t] \in Seq(Mail!Msg)
      /\ tmp_task_queue[t] \in Seq(Mail!Msg)
      /\ task_queue[t] \in Seq(Mail!Msg)
      /\ tmp_task_queue[t] # <<>>
  BY DEF TypeOK, Pop
<1>2. /\ handled'[t] = Append(handled[t], Head(tmp_task_queue[t]))
      /\ tmp_task_queue'[t] = Tail(tmp_task_queue[t])
  BY DEF TypeOK, Pop
<1>3. \A u \in Tasks \ {t} : /\ handled'[u] = handled[u]
                            /\ tmp_task_queue'[u] = tmp_task_queue[u]
  BY DEF TypeOK, Pop
<1>4. \A u \in Tasks : Log[u] = (handled[u] \o tmp_task_queue[u]) \o task_queue[u]
  BY DEF Log
<1>5. (Append(handled[t], Head(tmp_task_queue[t])) \o Tail(tmp_task_queue[t]))
          \o task_queue[t] = Log[t]
  <2>1. (Append(handled[t], Head(tmp_task_queue[t])) \o Tail(tmp_task_queue[t]))
            \o task_queue[t]
          = (handled[t] \o tmp_task_queue[t]) \o task_queue[t]
    <3> DEFINE h == handled[t]
               r == tmp_task_queue[t]
               q == task_queue[t]
    <3>1. h \in Seq(Mail!Msg) /\ r \in Seq(Mail!Msg) /\ q \in Seq(Mail!Msg) /\ r # <<>>
      BY <1>1
    <3> HIDE DEF h, r, q
    <3>2. Append(h, Head(r)) \o Tail(r) = h \o r
      BY <3>1
    <3> QED
      BY <3>2 DEF h, r, q
  <2> QED
    BY <1>4, <2>1
<1>6. /\ Len(handled[t]) < Len(Log[t])
      /\ Log[t][Len(handled[t]) + 1] = Head(tmp_task_queue[t])
  <2>1. /\ Len(handled[t])
              < Len((handled[t] \o tmp_task_queue[t]) \o task_queue[t])
        /\ ((handled[t] \o tmp_task_queue[t]) \o task_queue[t])[Len(handled[t]) + 1]
              = Head(tmp_task_queue[t])
    BY ONLY <1>1, ConcatPop, Zenon
  <2> QED
    BY <1>4, <2>1
<1>7. \A u \in Tasks : (handled'[u] \o tmp_task_queue'[u]) \o task_queue[u] = Log[u]
  BY <1>2, <1>3, <1>4, <1>5
<1> QED
  BY <1>6, <1>7

\* Appending to a queue appends to the log, whatever else moved inside the logs.
LEMMA AppendRefines ==
    ASSUME TypeOK, TypeOK', NEW t \in Tasks, NEW m \in Mail!Msg,
           task_queue' = [task_queue EXCEPT ![t] = Append(@, m)],
           \A u \in Tasks : (handled'[u] \o tmp_task_queue'[u]) \o task_queue[u] = Log[u]
    PROVE  Log' = [Log EXCEPT ![t] = Append(@, m)]
<1>1. /\ handled'[t] \in Seq(Mail!Msg)
      /\ tmp_task_queue'[t] \in Seq(Mail!Msg)
      /\ task_queue[t] \in Seq(Mail!Msg)
  BY DEF TypeOK
<1>2. task_queue'[t] = Append(task_queue[t], m)
  BY DEF TypeOK
<1>3. \A u \in Tasks \ {t} : task_queue'[u] = task_queue[u]
  BY DEF TypeOK
<1>4. (handled'[t] \o tmp_task_queue'[t]) \o Append(task_queue[t], m)
        = Append((handled'[t] \o tmp_task_queue'[t]) \o task_queue[t], m)
  <2> DEFINE h == handled'[t]
             r == tmp_task_queue'[t]
             q == task_queue[t]
  <2>1. h \in Seq(Mail!Msg) /\ r \in Seq(Mail!Msg) /\ q \in Seq(Mail!Msg)
    BY <1>1
  <2> HIDE DEF h, r, q
  <2>2. (h \o r) \o Append(q, m) = Append((h \o r) \o q, m)
    BY <2>1, ConcatAppend
  <2> QED
    BY <2>2 DEF h, r, q
<1>5. (handled'[t] \o tmp_task_queue'[t]) \o task_queue'[t] = Append(Log[t], m)
  BY <1>2, <1>4
<1>6. \A u \in Tasks \ {t} :
         (handled'[u] \o tmp_task_queue'[u]) \o task_queue'[u] = Log[u]
  BY <1>3
<1>7. Log' = [u \in Tasks |-> (handled'[u] \o tmp_task_queue'[u]) \o task_queue'[u]]
  BY DEF Log
<1>8. Log = [u \in Tasks |-> Log[u]]
  BY DEF Log
<1> QED
  BY <1>5, <1>6, <1>7, <1>8

\* TaskBase implements Mailboxes: messages are handled once, in the order in which
\* they were queued, and every heartbeat request a worker handles is answered once.
THEOREM Refinement == Spec => MailSpec
<1>1. Init => Mail!Init
  <2> SUFFICES ASSUME Init PROVE Mail!Init
    OBVIOUS
  <2>1. \A t \in Tasks : Log[t] = <<>>
    <3>1. (<<>> \o <<>>) \o <<>> = <<>>
      OBVIOUS
    <3>2. \A t \in Tasks : Log[t] = (<<>> \o <<>>) \o <<>>
      BY Zenon DEF Init, Log
    <3> QED
      BY <3>1, <3>2
  <2>2. Log = [t \in Tasks |-> Log[t]]
    BY DEF Log
  <2> QED
    BY <2>1, <2>2 DEF Init, Mail!Init
<1>2. TypeOK /\ TypeOK' /\ WakeInv /\ [Next]_vars => [Mail!Next]_(Mail!vars)
  <2> SUFFICES ASSUME TypeOK, TypeOK', WakeInv, [Next]_vars
               PROVE  [Mail!Next]_(Mail!vars)
    OBVIOUS
  <2>1. ASSUME UNCHANGED <<task_queue, tmp_task_queue, handled>>
        PROVE  UNCHANGED Mail!vars
    BY <2>1 DEF Mail!vars, Log
  <2>2. ASSUME NEW t \in Tasks, SwapQueues(t) PROVE UNCHANGED Mail!vars
    <3>1. tmp_task_queue[t] = <<>>
      BY <2>2 DEF SwapQueues, WakeInv
    <3>2. handled[t] \in Seq(Mail!Msg) /\ task_queue[t] \in Seq(Mail!Msg)
      BY DEF TypeOK
    <3>3. (handled[t] \o task_queue[t]) \o <<>> = (handled[t] \o <<>>) \o task_queue[t]
      BY <3>2, ConcatSwap
    <3>4. task_queue'[t] = <<>> /\ tmp_task_queue'[t] = task_queue[t]
      BY <2>2, <3>1 DEF SwapQueues, TypeOK
    <3>5. \A u \in Tasks \ {t} : /\ task_queue'[u] = task_queue[u]
                                /\ tmp_task_queue'[u] = tmp_task_queue[u]
      BY <2>2 DEF SwapQueues, TypeOK
    <3>6. handled' = handled
      BY <2>2 DEF SwapQueues
    <3>7. \A u \in Tasks : (handled'[u] \o tmp_task_queue'[u]) \o task_queue'[u]
                           = (handled[u] \o tmp_task_queue[u]) \o task_queue[u]
      BY <3>1, <3>3, <3>4, <3>5, <3>6
    <3> QED
      BY <3>6, <3>7 DEF Log, Mail!vars
  <2>3. ASSUME NEW t \in Tasks, OnMessage(t) PROVE Mail!Handle(t)
    <3>1. Pop(t) /\ UNCHANGED task_queue
      BY <2>3 DEF OnMessage
    <3>2. Log' = Log
      BY <3>1, PopRefines DEF Log
    <3>3. ~Mail!NeedsAnswer(t, Head(tmp_task_queue[t]))
      BY <2>3 DEF OnMessage
    <3>4. handled' = [handled EXCEPT ![t] = Append(@, Head(tmp_task_queue[t]))]
      BY <3>1 DEF Pop
    <3> QED
      BY <3>1, <3>2, <3>3, <3>4, PopRefines DEF Mail!Handle
  <2>4. ASSUME NEW t \in Tasks, AnswerHb(t) PROVE Mail!Handle(t)
    <3> DEFINE rsp == Mail!HbRsp(t, Head(tmp_task_queue[t]))
    <3>1. Pop(t)
      BY <2>4 DEF AnswerHb
    <3>2. Mail!NeedsAnswer(t, Head(tmp_task_queue[t]))
      BY <2>4 DEF AnswerHb
    <3>3. task_queue' = [task_queue EXCEPT ![TASK0] = Append(@, rsp)]
      BY <2>4 DEF AnswerHb, in_queue
    <3>4. rsp \in Mail!Msg
      <4>1. Head(tmp_task_queue[t]) \in Mail!Msg
        BY <3>1 DEF Pop, TypeOK
      <4> QED
        BY <4>1, MsgFacts
    <3>5. Log' = [Log EXCEPT ![TASK0] = Append(@, rsp)]
      <4>1. \A u \in Tasks :
               (handled'[u] \o tmp_task_queue'[u]) \o task_queue[u] = Log[u]
        BY <3>1, PopRefines
      <4> HIDE DEF rsp
      <4> QED
        BY <3>3, <3>4, <4>1, AppendRefines, TaskAssumption
    <3>6. handled' = [handled EXCEPT ![t] = Append(@, Head(tmp_task_queue[t]))]
      BY <3>1 DEF Pop
    <3> QED
      BY <3>1, <3>2, <3>5, <3>6, PopRefines DEF Mail!Handle
  <2>5. ASSUME NEW c \in Clients, NEW t \in Tasks, NEW type \in {"APP", "HB_REQ"},
               Send2Task(c, t, type)
        PROVE  \E m \in Mail!Msg : Mail!Post(t, m)
    <3> DEFINE m == [type |-> type, body |-> c, seq |-> sent]
    <3>1. m \in Mail!Msg
      BY DEF Mail!Msg, Mail!MsgType, TypeOK
    <3>2. /\ task_queue' = [task_queue EXCEPT ![t] = Append(@, m)]
          /\ UNCHANGED <<tmp_task_queue, handled>>
      BY <2>5 DEF Send2Task, in_queue
    <3> HIDE DEF m
    <3>3. \A u \in Tasks :
             (handled'[u] \o tmp_task_queue'[u]) \o task_queue[u] = Log[u]
      BY <3>2 DEF Log
    <3>4. Log' = [Log EXCEPT ![t] = Append(@, m)]
      BY <3>1, <3>2, <3>3, AppendRefines
    <3>5. Mail!Post(t, m)
      BY <3>2, <3>4 DEF Mail!Post
    <3> QED
      BY <3>1, <3>5
  <2>6. ASSUME NEW t \in Tasks,
               InitStep(t) \/ EvfdCallback(t) \/ DrainDone(t)
        PROVE  UNCHANGED <<task_queue, tmp_task_queue, handled>>
    BY <2>6 DEF InitStep, InitTask, InitTaskFails, InitServerFails, EvfdCallback, DrainDone
  <2>7. ASSUME NEW x \in Threads, NEW t \in Tasks,
               WriteEvfd(x, t) \/ WriteEvfdFails(x, t) \/ WriteEvfdFull(x, t)
        PROVE  UNCHANGED <<task_queue, tmp_task_queue, handled>>
    BY <2>7 DEF WriteEvfd, WriteEvfdFails, WriteEvfdFull
  <2>8. CASE UNCHANGED vars
    BY <2>1, <2>8 DEF vars
  <2>9. CASE \E t \in Tasks : InitStep(t) \/ LoopStep(t)
    BY <2>1, <2>2, <2>3, <2>4, <2>6, <2>9 DEF LoopStep, Mail!Next
  <2>10. CASE \E x \in Threads : SenderStep(x)
    BY <2>1, <2>7, <2>10 DEF SenderStep
  <2>11. CASE \E c \in Clients : ClientStep(c)
    BY <2>5, <2>11 DEF ClientStep, Mail!Next
  <2> QED
    BY <2>8, <2>9, <2>10, <2>11 DEF Next
<1> QED
  BY <1>1, <1>2, TypeCorrect, WakeCorrect, PTL DEF Spec, MailSpec, Mail!Spec
=============================================================================
