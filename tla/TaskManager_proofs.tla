-------------------------- MODULE TaskManager_proofs --------------------------
(***************************************************************************)
(* The heartbeat of task_manager for any workers, any number of messages,     *)
(* deletions and additions: no worker is reported silent without a cause.     *)
(***************************************************************************)
EXTENDS TaskManager, SequenceTheorems, TLAPS

TypeOK ==
    /\ task_map \subseteq Workers
    /\ box \in [Tasks -> Seq(Msg)]
    /\ hb_map \in [Tasks -> {"none", "no", "yes"}]
    /\ calls \in [app : Nat, del : Nat, set : Nat]

\* A worker is sent jobs and heartbeat requests of its own.
BoxOK == \A t \in Workers : \A i \in 1 .. Len(box[t]) : box[t][i] \in {App(t), HbReq(t)}

\* However a mailbox is cut off at its front, what is left of it has a request in it or
\* is no longer than the number of jobs that were ever sent.
AppsBounded(q, n) ==
    \A k \in 1 .. Len(q) + 1 :
        (\A i \in k .. Len(q) : q[i].type = "APP") => Len(q) + 1 - k <= n

JobsOK == /\ calls.app <= MaxApp
          /\ \A t \in Workers : AppsBounded(box[t], calls.app)

\* hb_map has no entries but those of the workers that the last check found.
ListedOK == \A t \in Silent : t \in task_map \/ t \in deleted

Inv == TypeOK /\ BoxOK /\ JobsOK /\ ListedOK /\ SilentHasCause

-----------------------------------------------------------------------------
(* Sequences                                                                  *)

Contains(q, m) == \E i \in 1 .. Len(q) : q[i] = m

\* InFlight in these terms.
LEMMA InFlightContains ==
    ASSUME NEW t
    PROVE  InFlight(t) <=> Contains(box[t], HbReq(t)) \/ Contains(box[TASK0], HbRsp(t))
BY DEF InFlight, Contains

\* What is in a queue stays there when another message comes ...
LEMMA ContainsAppend ==
    ASSUME NEW S, NEW q \in Seq(S), NEW x \in S, NEW m
    PROVE  /\ Contains(Append(q, x), x)
           /\ Contains(q, m) => Contains(Append(q, x), m)
<1>1. /\ Len(q) \in Nat /\ Len(Append(q, x)) = Len(q) + 1
      /\ \A i \in 1 .. Len(q) : Append(q, x)[i] = q[i]
      /\ Append(q, x)[Len(q) + 1] = x
  BY AppendProperties, LenProperties
<1>2. Len(q) + 1 \in 1 .. Len(Append(q, x))
  BY <1>1
<1>. QED
  BY <1>1, <1>2 DEF Contains

\* ... and when one that is not it is taken from the front.
LEMMA ContainsTail ==
    ASSUME NEW S, NEW q \in Seq(S), q # <<>>, NEW m, Contains(q, m), Head(q) # m
    PROVE  Contains(Tail(q), m)
<1>1. PICK i \in 1 .. Len(q) : q[i] = m
  BY DEF Contains
<1>2. /\ Head(q) = q[1] /\ Len(Tail(q)) = Len(q) - 1 /\ Len(q) \in Nat
      /\ \A k \in 1 .. Len(Tail(q)) : Tail(q)[k] = q[k + 1]
  BY HeadTailProperties, LenProperties
<1>3. i # 1
  BY <1>1, <1>2
<1>4. i - 1 \in 1 .. Len(Tail(q)) /\ i = (i - 1) + 1
  BY <1>2, <1>3
<1>5. Tail(q)[i - 1] = m
  BY <1>1, <1>2, <1>4
<1>. QED
  BY <1>4, <1>5 DEF Contains

\* An empty queue.
LEMMA AppsEmpty == ASSUME NEW n \in Nat PROVE AppsBounded(<<>>, n)
BY DEF AppsBounded

\* More jobs have been sent.
LEMMA AppsMore ==
    ASSUME NEW q \in Seq(Msg), NEW n \in Nat, AppsBounded(q, n)
    PROVE  AppsBounded(q, n + 1)
<1>1. Len(q) \in Nat
  BY LenProperties
<1>. QED
  BY <1>1 DEF AppsBounded

\* A job is added, which counts as one more.
LEMMA AppsAppend ==
    ASSUME NEW q \in Seq(Msg), NEW n \in Nat, AppsBounded(q, n), NEW x \in Msg
    PROVE  /\ AppsBounded(Append(q, x), n + 1)
           /\ x.type # "APP" => AppsBounded(Append(q, x), n)
<1>1. PICK l \in Nat : l = Len(q)
  BY LenProperties
<1>2. /\ Len(Append(q, x)) = l + 1
      /\ \A i \in 1 .. l : Append(q, x)[i] = q[i]
      /\ Append(q, x)[l + 1] = x
  BY <1>1, AppendProperties
<1>3. SUFFICES ASSUME NEW k \in 1 .. l + 2,
                      \A i \in k .. l + 1 : Append(q, x)[i].type = "APP"
               PROVE  /\ l + 2 - k <= n + 1
                      /\ x.type # "APP" => l + 2 - k <= n
  BY <1>2 DEF AppsBounded
<1>4. CASE k = l + 2
  BY <1>4
<1>5. CASE k # l + 2
  <2>1. k \in 1 .. l + 1
    BY <1>5
  <2>2. \A i \in k .. l : q[i].type = "APP"
    BY <1>2, <1>3, <2>1
  <2>3. l + 1 - k <= n
    BY <1>1, <2>1, <2>2 DEF AppsBounded
  <2>4. x.type = "APP"
    BY <1>2, <1>3, <2>1
  <2>. QED
    BY <2>1, <2>3, <2>4
<1>. QED
  BY <1>4, <1>5

\* A message is taken from the front.
LEMMA AppsTail ==
    ASSUME NEW q \in Seq(Msg), q # <<>>, NEW n \in Nat, AppsBounded(q, n)
    PROVE  AppsBounded(Tail(q), n)
<1>1. PICK l \in Nat : l = Len(q)
  BY LenProperties
<1>2. l # 0 /\ Len(Tail(q)) = l - 1 /\ \A i \in 1 .. l - 1 : Tail(q)[i] = q[i + 1]
  BY <1>1, HeadTailProperties, EmptySeq
<1>3. SUFFICES ASSUME NEW k \in 1 .. Len(Tail(q)) + 1,
                      \A i \in k .. Len(Tail(q)) : Tail(q)[i].type = "APP"
               PROVE  Len(Tail(q)) + 1 - k <= n
  BY DEF AppsBounded
<1>4. \A i \in k + 1 .. l : q[i].type = "APP"
  <2>. SUFFICES ASSUME NEW i \in k + 1 .. l PROVE q[i].type = "APP"
    OBVIOUS
  <2>1. i - 1 \in k .. Len(Tail(q)) /\ i - 1 \in 1 .. l - 1 /\ (i - 1) + 1 = i
    BY <1>2
  <2>2. Tail(q)[i - 1] = q[i]
    BY <1>2, <2>1
  <2>. QED
    BY <1>3, <2>1, <2>2
<1>5. k + 1 \in 1 .. l + 1
  BY <1>2
<1>6. l + 1 - (k + 1) <= n
  BY <1>1, <1>4, <1>5 DEF AppsBounded
<1>. QED
  BY <1>2, <1>6

-----------------------------------------------------------------------------
(* Mailboxes                                                                  *)

\* The messages.
LEMMA Messages ==
    \A t \in Tasks : /\ {App(t), HbReq(t), HbRsp(t)} \subseteq Msg
                     /\ App(t).type = "APP" /\ HbReq(t).type = "HB_REQ"
                     /\ HbRsp(t).type = "HB_RSP"
                     /\ App(t).body = t /\ HbReq(t).body = t /\ HbRsp(t).body = t
BY DEF App, HbReq, HbRsp, Msg

\* TASK0 is not a worker.
LEMMA TaskNames == /\ TASK0 \in Tasks /\ TASK0 \notin Workers /\ Workers \subseteq Tasks
BY ManagerAssumption DEF Tasks

\* send2task leaves the message in the mailbox, or the mailbox is full.
LEMMA PutFacts ==
    ASSUME TypeOK, NEW t \in Tasks, NEW m \in Msg
    PROVE  /\ Put(box, t, m) \in [Tasks -> Seq(Msg)]
           /\ \A u \in Tasks : u # t => Put(box, t, m)[u] = box[u]
           /\ \/ Put(box, t, m)[t] = Append(box[t], m)
              \/ Put(box, t, m)[t] = box[t] /\ Len(box[t]) >= MaxBox
<1>1. Append(box[t], m) \in Seq(Msg)
  BY AppendProperties DEF TypeOK
<1>. QED
  BY <1>1 DEF Put, TypeOK

\* A full mailbox has a request in it.
LEMMA FullHasRequest ==
    ASSUME TypeOK, BoxOK, JobsOK, NEW t \in Workers, Len(box[t]) >= MaxBox
    PROVE  Contains(box[t], HbReq(t))
<1>1. PICK l \in Nat : l = Len(box[t])
  BY TaskNames, LenProperties DEF TypeOK
<1>2. SUFFICES ASSUME ~Contains(box[t], HbReq(t)) PROVE FALSE
  OBVIOUS
<1>3. \A i \in 1 .. l : box[t][i].type = "APP"
  BY <1>1, <1>2, Messages, TaskNames DEF BoxOK, Contains
<1>4. 1 \in 1 .. l + 1
  OBVIOUS
<1>5. l + 1 - 1 <= calls.app
  BY <1>1, <1>3, <1>4 DEF JobsOK, AppsBounded
<1>6. calls.app \in Nat /\ calls.app <= MaxApp /\ MaxApp < MaxBox /\ MaxApp \in Nat /\ MaxBox \in Nat
  BY ManagerAssumption DEF JobsOK, TypeOK
<1>. QED
  BY <1>1, <1>5, <1>6

\* What may happen to a worker's mailbox, as far as the rules for it are concerned.
LEMMA BoxAppend ==
    ASSUME NEW t \in Workers, NEW q \in Seq(Msg), NEW m \in {App(t), HbReq(t)},
           \A i \in 1 .. Len(q) : q[i] \in {App(t), HbReq(t)}
    PROVE  \A i \in 1 .. Len(Append(q, m)) : Append(q, m)[i] \in {App(t), HbReq(t)}
<1>1. m \in Msg
  BY Messages, TaskNames
<1>2. /\ Len(q) \in Nat /\ Len(Append(q, m)) = Len(q) + 1
      /\ \A i \in 1 .. Len(q) : Append(q, m)[i] = q[i]
      /\ Append(q, m)[Len(q) + 1] = m
  BY <1>1, AppendProperties, LenProperties
<1>. QED
  BY <1>2

\* The rest of a mailbox is a mailbox.
LEMMA BoxTail ==
    ASSUME NEW t \in Workers, NEW q \in Seq(Msg), q # <<>>,
           \A i \in 1 .. Len(q) : q[i] \in {App(t), HbReq(t)}
    PROVE  /\ Tail(q) \in Seq(Msg) /\ Head(q) \in {App(t), HbReq(t)}
           /\ \A i \in 1 .. Len(Tail(q)) : Tail(q)[i] \in {App(t), HbReq(t)}
<1>1. PICK l \in Nat : l = Len(q)
  BY LenProperties
<1>2. /\ l # 0 /\ Len(Tail(q)) = l - 1 /\ Head(q) = q[1] /\ Tail(q) \in Seq(Msg)
      /\ \A i \in 1 .. l - 1 : Tail(q)[i] = q[i + 1]
  BY <1>1, HeadTailProperties, EmptySeq
<1>. QED
  BY <1>1, <1>2

-----------------------------------------------------------------------------
(* The steps                                                                  *)

\* A step that only touches mailboxes and calls keeps the invariant if each mailbox
\* keeps to its rules and no heartbeat is lost from it.
LEMMA MailStep ==
    ASSUME Inv, UNCHANGED <<task_map, hb_map, timer_pc, deleted>>,
           box' \in [Tasks -> Seq(Msg)], calls' \in [app : Nat, del : Nat, set : Nat],
           BoxOK', JobsOK',
           timer_pc = "idle" => \A t \in Silent : InFlight(t) => InFlight(t)'
    PROVE  Inv'
<1>1. Silent' = Silent
  BY DEF Silent
<1>2. TypeOK'
  BY DEF Inv, TypeOK
<1>3. ListedOK'
  BY <1>1 DEF Inv, ListedOK
<1>4. SilentHasCause'
  BY <1>1 DEF Inv, SilentHasCause
<1>. QED
  BY <1>2, <1>3, <1>4 DEF Inv

\* A job for a worker.
LEMMA ClientStep ==
    ASSUME Inv, NEW t \in Workers, ClientSend(t)
    PROVE  Inv'
<1>0. /\ box' = Put(box, t, App(t)) /\ calls' = [calls EXCEPT !.app = @ + 1]
      /\ calls.app < MaxApp /\ UNCHANGED <<task_map, hb_map, timer_pc, deleted>>
  BY DEF ClientSend, send2task, Called, tickVars
<1>1. t \in Tasks /\ App(t) \in Msg /\ t # TASK0
  BY Messages, TaskNames
<1>2. /\ box' \in [Tasks -> Seq(Msg)]
      /\ \A u \in Tasks : u # t => box'[u] = box[u]
      /\ box'[t] = Append(box[t], App(t)) \/ box'[t] = box[t]
  BY <1>0, <1>1, PutFacts DEF Inv
<1>3. /\ calls' \in [app : Nat, del : Nat, set : Nat] /\ calls.app \in Nat
      /\ calls'.app = calls.app + 1 /\ calls'.app <= MaxApp
  <2>1. calls \in [app : Nat, del : Nat, set : Nat] /\ MaxApp \in Nat
    BY ManagerAssumption DEF Inv, TypeOK
  <2>. QED
    BY <1>0, <2>1
<1>4. \A u \in Workers : box[u] \in Seq(Msg)
  BY TaskNames DEF Inv, TypeOK
<1>5. BoxOK'
  <2>. SUFFICES ASSUME NEW u \in Workers
                PROVE  \A k \in 1 .. Len(box'[u]) : box'[u][k] \in {App(u), HbReq(u)}
    BY DEF BoxOK
  <2>1. \A k \in 1 .. Len(box[u]) : box[u][k] \in {App(u), HbReq(u)}
    BY DEF Inv, BoxOK
  <2>2. CASE box'[u] = box[u]
    BY <2>1, <2>2
  <2>3. CASE u = t /\ box'[t] = Append(box[t], App(t))
    BY <1>4, <2>1, <2>3, BoxAppend
  <2>. QED
    BY <1>2, <2>2, <2>3, TaskNames
<1>6. JobsOK'
  <2>. SUFFICES ASSUME NEW u \in Workers PROVE AppsBounded(box'[u], calls'.app)
    BY <1>3 DEF JobsOK
  <2>1. AppsBounded(box[u], calls.app)
    BY DEF Inv, JobsOK
  <2>2. CASE box'[u] = box[u]
    BY <1>3, <1>4, <2>1, <2>2, AppsMore
  <2>3. CASE u = t /\ box'[t] = Append(box[t], App(t))
    BY <1>1, <1>3, <1>4, <2>1, <2>3, AppsAppend
  <2>. QED
    BY <1>2, <2>2, <2>3, TaskNames
<1>7. \A u \in Silent : InFlight(u) => InFlight(u)'
  <2>. SUFFICES ASSUME NEW u \in Workers, InFlight(u) PROVE InFlight(u)'
    BY DEF Silent
  <2>1. InFlight(u)' <=> Contains(box'[u], HbReq(u)) \/ Contains(box'[TASK0], HbRsp(u))
    BY DEF InFlight, Contains
  <2>2. box'[TASK0] = box[TASK0]
    BY <1>1, <1>2, TaskNames
  <2>3. Contains(box[u], HbReq(u)) => Contains(box'[u], HbReq(u))
    <3>1. CASE box'[u] = box[u]
      BY <3>1
    <3>2. CASE u = t /\ box'[t] = Append(box[t], App(t))
      <4>1. box[t] \in Seq(Msg) /\ App(t) \in Msg
        BY <1>1, <1>4
      <4>. QED
        BY <3>2, <4>1, ContainsAppend
    <3>. QED
      BY <1>2, <3>1, <3>2, TaskNames
  <2>. QED
    BY <2>1, <2>2, <2>3, InFlightContains
<1>. QED
  BY <1>0, <1>2, <1>3, <1>5, <1>6, <1>7, MailStep

\* A worker's mailbox loses its first message: the rules for mailboxes stay.
LEMMA PopRules ==
    ASSUME Inv, NEW t \in Workers, box[t] # <<>>, calls' = calls,
           box'[t] = Tail(box[t]), \A u \in Workers : u # t => box'[u] = box[u]
    PROVE  BoxOK' /\ JobsOK'
<1>1. \A u \in Workers : box[u] \in Seq(Msg)
  BY TaskNames DEF Inv, TypeOK
<1>2. calls.app \in Nat
  BY DEF Inv, TypeOK
<1>3. BoxOK'
  <2>. SUFFICES ASSUME NEW u \in Workers
                PROVE  \A k \in 1 .. Len(box'[u]) : box'[u][k] \in {App(u), HbReq(u)}
    BY DEF BoxOK
  <2>1. \A k \in 1 .. Len(box[u]) : box[u][k] \in {App(u), HbReq(u)}
    BY DEF Inv, BoxOK
  <2>2. CASE u = t
    BY <1>1, <2>1, <2>2, BoxTail
  <2>. QED
    BY <2>1, <2>2
<1>4. JobsOK'
  <2>. SUFFICES ASSUME NEW u \in Workers PROVE AppsBounded(box'[u], calls.app)
    BY DEF Inv, JobsOK
  <2>1. AppsBounded(box[u], calls.app)
    BY DEF Inv, JobsOK
  <2>2. CASE u = t
    BY <1>1, <1>2, <2>1, <2>2, AppsTail
  <2>. QED
    BY <2>1, <2>2
<1>. QED
  BY <1>3, <1>4

\* A job is taken, whether it returns or not.
LEMMA JobStep ==
    ASSUME Inv, NEW t \in Workers, OnMessage(t) \/ Hang(t)
    PROVE  Inv'
<1>0. /\ box[t] # <<>> /\ Head(box[t]).type = "APP" /\ box' = [box EXCEPT ![t] = Tail(@)]
      /\ UNCHANGED <<task_map, hb_map, timer_pc, deleted, calls>>
  BY DEF OnMessage, Hang, CanProcess, Popped, tickVars
<1>1. t \in Tasks /\ t # TASK0 /\ box[t] \in Seq(Msg)
  BY TaskNames DEF Inv, TypeOK
<1>2. Tail(box[t]) \in Seq(Msg)
  BY <1>0, <1>1, HeadTailProperties
<1>3. /\ box' \in [Tasks -> Seq(Msg)] /\ box'[t] = Tail(box[t])
      /\ \A u \in Tasks : u # t => box'[u] = box[u]
  BY <1>0, <1>1, <1>2 DEF Inv, TypeOK
<1>4. BoxOK' /\ JobsOK'
  BY <1>0, <1>3, PopRules, TaskNames
<1>5. \A u \in Silent : InFlight(u) => InFlight(u)'
  <2>. SUFFICES ASSUME NEW u \in Workers, InFlight(u) PROVE InFlight(u)'
    BY DEF Silent
  <2>1. InFlight(u)' <=> Contains(box'[u], HbReq(u)) \/ Contains(box'[TASK0], HbRsp(u))
    BY DEF InFlight, Contains
  <2>2. box'[TASK0] = box[TASK0]
    BY <1>1, <1>3, TaskNames
  <2>3. Contains(box[u], HbReq(u)) => Contains(box'[u], HbReq(u))
    <3>1. CASE u = t
      <4>1. Head(box[t]) # HbReq(t)
        BY <1>0, <1>1, Messages
      <4>. QED
        BY <1>0, <1>1, <1>3, <3>1, <4>1, ContainsTail
    <3>2. CASE u # t
      BY <1>3, <3>2, TaskNames
    <3>. QED
      BY <3>1, <3>2
  <2>. QED
    BY <2>1, <2>2, <2>3, InFlightContains
<1>6. calls' \in [app : Nat, del : Nat, set : Nat]
  BY <1>0 DEF Inv, TypeOK
<1>. QED
  BY <1>0, <1>3, <1>4, <1>5, <1>6, MailStep

\* A request is answered.
LEMMA AnswerStep ==
    ASSUME Inv, NEW t \in Workers, AnswerHb(t)
    PROVE  Inv'
<1>0. /\ box[t] # <<>> /\ Head(box[t]).type = "HB_REQ"
      /\ box' = [[box EXCEPT ![t] = Tail(@)] EXCEPT ![TASK0] = Append(@, HbRsp(t))]
      /\ UNCHANGED <<task_map, hb_map, timer_pc, deleted, calls>>
  BY DEF AnswerHb, CanProcess, Popped, tickVars
<1>1. /\ t \in Tasks /\ t # TASK0 /\ box[t] \in Seq(Msg) /\ box[TASK0] \in Seq(Msg)
      /\ HbRsp(t) \in Msg /\ TASK0 \in Tasks
  BY TaskNames, Messages DEF Inv, TypeOK
<1>2. Tail(box[t]) \in Seq(Msg) /\ Append(box[TASK0], HbRsp(t)) \in Seq(Msg)
  BY <1>0, <1>1, HeadTailProperties, AppendProperties
<1>3. /\ box' \in [Tasks -> Seq(Msg)] /\ box'[t] = Tail(box[t])
      /\ box'[TASK0] = Append(box[TASK0], HbRsp(t))
      /\ \A u \in Tasks : u # t /\ u # TASK0 => box'[u] = box[u]
  BY <1>0, <1>1, <1>2 DEF Inv, TypeOK
<1>4. BoxOK' /\ JobsOK'
  BY <1>0, <1>3, PopRules, TaskNames
<1>5. \A u \in Silent : InFlight(u) => InFlight(u)'
  <2>. SUFFICES ASSUME NEW u \in Workers, InFlight(u) PROVE InFlight(u)'
    BY DEF Silent
  <2>1. InFlight(u)' <=> Contains(box'[u], HbReq(u)) \/ Contains(box'[TASK0], HbRsp(u))
    BY DEF InFlight, Contains
  <2>2. /\ Contains(box'[TASK0], HbRsp(t))
        /\ Contains(box[TASK0], HbRsp(u)) => Contains(box'[TASK0], HbRsp(u))
    BY <1>1, <1>3, ContainsAppend
  <2>3. CASE u = t
    BY <2>1, <2>2, <2>3
  <2>4. CASE u # t
    <3>1. box'[u] = box[u]
      BY <1>3, <2>4, TaskNames
    <3>. QED
      BY <2>1, <2>2, <3>1, InFlightContains
  <2>. QED
    BY <2>3, <2>4
<1>6. calls' \in [app : Nat, del : Nat, set : Nat]
  BY <1>0 DEF Inv, TypeOK
<1>. QED
  BY <1>0, <1>3, <1>4, <1>5, <1>6, MailStep

\* TASK0 notes an answer: that worker is not silent any more, and the answers of the
\* others stay where they are.
LEMMA NoteStep ==
    ASSUME Inv, OnHbRsp
    PROVE  Inv'
<1>1. PICK b : b = Head(box[TASK0]).body
  OBVIOUS
<1>2. /\ box[TASK0] # <<>> /\ hb_map' = [hb_map EXCEPT ![b] = "yes"]
      /\ box' = [box EXCEPT ![TASK0] = Tail(@)]
      /\ UNCHANGED <<task_map, timer_pc, deleted, calls>>
  BY <1>1 DEF OnHbRsp, Popped
<1>3. TASK0 \in Tasks /\ box[TASK0] \in Seq(Msg)
  BY TaskNames DEF Inv, TypeOK
<1>4. Head(box[TASK0]) \in Msg /\ Tail(box[TASK0]) \in Seq(Msg)
  BY <1>2, <1>3, HeadTailProperties
<1>5. b \in Tasks
  BY <1>1, <1>4 DEF Msg
<1>6. /\ box' \in [Tasks -> Seq(Msg)] /\ box'[TASK0] = Tail(box[TASK0])
      /\ \A u \in Workers : box'[u] = box[u]
  BY <1>2, <1>3, <1>4, TaskNames DEF Inv, TypeOK
<1>7. TypeOK'
  BY <1>2, <1>5, <1>6 DEF Inv, TypeOK
<1>8. BoxOK' /\ JobsOK'
  BY <1>2, <1>6 DEF Inv, BoxOK, JobsOK
<1>9. Silent' \subseteq Silent \ {b}
  BY <1>2, <1>5, TaskNames DEF Silent, Inv, TypeOK
<1>10. ListedOK'
  BY <1>2, <1>9 DEF Inv, ListedOK
<1>11. SilentHasCause'
  <2>. SUFFICES ASSUME timer_pc = "idle", NEW u \in Silent \ {b}, u \notin deleted
                PROVE  InFlight(u)'
    BY <1>2, <1>9 DEF SilentHasCause
  <2>0. u \in Workers
    BY DEF Silent
  <2>1. InFlight(u)' <=> Contains(box'[u], HbReq(u)) \/ Contains(box'[TASK0], HbRsp(u))
    BY DEF InFlight, Contains
  <2>2. InFlight(u)
    BY DEF Inv, SilentHasCause
  <2>3. Head(box[TASK0]) # HbRsp(u)
    BY <1>1, <2>0, Messages, TaskNames
  <2>4. Contains(box[TASK0], HbRsp(u)) => Contains(box'[TASK0], HbRsp(u))
    BY <1>2, <1>3, <1>6, <2>3, ContainsTail
  <2>. QED
    BY <1>6, <2>0, <2>1, <2>2, <2>4, InFlightContains
<1>. QED
  BY <1>7, <1>8, <1>10, <1>11 DEF Inv

\* The check: every entry of the new hb_map is a worker's that is in task_map.
LEMMA CheckStep ==
    ASSUME Inv, TickChecks
    PROVE  Inv'
<1>0. /\ hb_map' = [t \in Tasks |-> IF t \in task_map \cup {TASK0} THEN "no" ELSE "none"]
      /\ deleted' = {} /\ timer_pc' = "send" /\ UNCHANGED <<task_map, box, calls>>
  BY DEF TickChecks, mailVars
<1>1. TypeOK' /\ BoxOK' /\ JobsOK'
  BY <1>0 DEF Inv, TypeOK, BoxOK, JobsOK
<1>2. ListedOK'
  BY <1>0, TaskNames DEF ListedOK, Silent
<1>3. SilentHasCause'
  BY <1>0 DEF SilentHasCause
<1>. QED
  BY <1>1, <1>2, <1>3 DEF Inv

\* send_hb_all: every worker in task_map has a request in its mailbox afterwards.
LEMMA SendStep ==
    ASSUME Inv, SendHbAll
    PROVE  Inv'
<1>0. /\ box' = [t \in Tasks |-> IF t \in task_map THEN Put(box, t, HbReq(t))[t] ELSE box[t]]
      /\ UNCHANGED <<task_map, hb_map, deleted, calls>>
  BY DEF SendHbAll
<1>1. \A t \in Tasks : box[t] \in Seq(Msg)
  BY DEF Inv, TypeOK
<1>2. task_map \subseteq Workers /\ calls.app \in Nat
  BY DEF Inv, TypeOK
<1>3. \A t \in Tasks : \/ box'[t] = box[t]
                       \/ t \in task_map /\ box'[t] = Append(box[t], HbReq(t))
  <2>. SUFFICES ASSUME NEW t \in Tasks, t \in task_map
                PROVE  box'[t] = box[t] \/ box'[t] = Append(box[t], HbReq(t))
    BY <1>0
  <2>1. HbReq(t) \in Msg
    BY Messages
  <2>. QED
    BY <1>0, <2>1, PutFacts DEF Inv
<1>4. \A t \in task_map : Contains(box'[t], HbReq(t))
  <2>. SUFFICES ASSUME NEW t \in task_map PROVE Contains(box'[t], HbReq(t))
    OBVIOUS
  <2>1. t \in Tasks /\ t \in Workers /\ HbReq(t) \in Msg
    BY <1>2, TaskNames, Messages
  <2>2. box'[t] = Put(box, t, HbReq(t))[t]
    BY <1>0, <2>1
  <2>3. CASE box'[t] = Append(box[t], HbReq(t))
    BY <1>1, <2>1, <2>3, ContainsAppend
  <2>4. CASE box'[t] = box[t] /\ Len(box[t]) >= MaxBox
    BY <2>1, <2>4, FullHasRequest DEF Inv
  <2>. QED
    BY <2>1, <2>2, <2>3, <2>4, PutFacts DEF Inv
<1>5. box' \in [Tasks -> Seq(Msg)]
  <2>1. \A t \in Tasks : box'[t] \in Seq(Msg)
    <3>. SUFFICES ASSUME NEW t \in Tasks PROVE box'[t] \in Seq(Msg)
      OBVIOUS
    <3>1. box[t] \in Seq(Msg) /\ HbReq(t) \in Msg
      BY <1>1, Messages
    <3>2. Append(box[t], HbReq(t)) \in Seq(Msg)
      BY <3>1, AppendProperties
    <3>. QED
      BY <1>3, <3>1, <3>2
  <2>2. box' = [t \in Tasks |-> box'[t]]
    BY <1>0
  <2>. QED
    BY <2>1, <2>2
<1>6. TypeOK'
  BY <1>0, <1>5 DEF Inv, TypeOK
<1>7. BoxOK'
  <2>. SUFFICES ASSUME NEW u \in Workers
                PROVE  \A k \in 1 .. Len(box'[u]) : box'[u][k] \in {App(u), HbReq(u)}
    BY DEF BoxOK
  <2>1. \A k \in 1 .. Len(box[u]) : box[u][k] \in {App(u), HbReq(u)}
    BY DEF Inv, BoxOK
  <2>2. CASE box'[u] = box[u]
    BY <2>1, <2>2
  <2>3. CASE box'[u] = Append(box[u], HbReq(u))
    BY <1>1, <2>1, <2>3, BoxAppend, TaskNames
  <2>. QED
    BY <1>3, <2>2, <2>3, TaskNames
<1>8. JobsOK'
  <2>. SUFFICES ASSUME NEW u \in Workers PROVE AppsBounded(box'[u], calls.app)
    BY <1>0 DEF Inv, JobsOK
  <2>1. AppsBounded(box[u], calls.app)
    BY DEF Inv, JobsOK
  <2>2. CASE box'[u] = box[u]
    BY <2>1, <2>2
  <2>3. CASE box'[u] = Append(box[u], HbReq(u))
    <3>1. /\ box[u] \in Seq(Msg) /\ HbReq(u) \in Msg
          /\ HbReq(u).type # "APP"
      BY <1>1, TaskNames, Messages
    <3>. QED
      BY <1>2, <2>1, <2>3, <3>1, AppsAppend
  <2>. QED
    BY <1>3, <2>2, <2>3, TaskNames
<1>9. Silent' = Silent
  BY <1>0 DEF Silent
<1>10. ListedOK'
  BY <1>0, <1>9 DEF Inv, ListedOK
<1>11. SilentHasCause'
  <2>. SUFFICES ASSUME NEW u \in Silent, u \notin deleted PROVE InFlight(u)'
    BY <1>0, <1>9 DEF SilentHasCause
  <2>1. InFlight(u)' <=> Contains(box'[u], HbReq(u)) \/ Contains(box'[TASK0], HbRsp(u))
    BY DEF InFlight, Contains
  <2>2. u \in task_map
    BY DEF Inv, ListedOK
  <2>. QED
    BY <1>4, <2>1, <2>2
<1>. QED
  BY <1>6, <1>7, <1>8, <1>10, <1>11 DEF Inv

\* A mailbox is emptied, with a task that is not in task_map any more.
LEMMA GoneStep ==
    ASSUME Inv, NEW t \in Workers, del_tasks(t) \/ TaskGone(t)
    PROVE  Inv'
<1>0. /\ box' = box \/ box' = [box EXCEPT ![t] = <<>>]
      /\ UNCHANGED <<hb_map, timer_pc>>
      /\ task_map' \subseteq task_map /\ task_map \subseteq task_map' \cup deleted'
      /\ deleted \subseteq deleted' /\ t \notin task_map'
      /\ calls' = calls \/ calls' = [calls EXCEPT !.del = @ + 1]
  BY DEF del_tasks, TaskGone, tickVars, Called
<1>a. calls'.app = calls.app /\ calls' \in [app : Nat, del : Nat, set : Nat]
  BY <1>0 DEF Inv, TypeOK
<1>1. <<>> \in Seq(Msg)
  BY EmptySeq
<1>2. /\ box' \in [Tasks -> Seq(Msg)]
      /\ box'[t] = box[t] \/ box'[t] = <<>>
      /\ \A u \in Tasks : u # t => box'[u] = box[u]
  BY <1>0, <1>1, TaskNames DEF Inv, TypeOK
<1>3. TypeOK'
  BY <1>0, <1>a, <1>2 DEF Inv, TypeOK
<1>4. BoxOK'
  <2>. SUFFICES ASSUME NEW u \in Workers
                PROVE  \A k \in 1 .. Len(box'[u]) : box'[u][k] \in {App(u), HbReq(u)}
    BY DEF BoxOK
  <2>1. CASE box'[u] = box[u]
    BY <2>1 DEF Inv, BoxOK
  <2>2. CASE box'[u] = <<>>
    BY <2>2
  <2>. QED
    BY <1>2, <2>1, <2>2, TaskNames
<1>5. JobsOK'
  <2>0. calls.app \in Nat
    BY DEF Inv, TypeOK
  <2>. SUFFICES ASSUME NEW u \in Workers PROVE AppsBounded(box'[u], calls.app)
    BY <1>a DEF Inv, JobsOK
  <2>1. CASE box'[u] = box[u]
    BY <2>1 DEF Inv, JobsOK
  <2>2. CASE box'[u] = <<>>
    BY <2>0, <2>2, AppsEmpty
  <2>. QED
    BY <1>2, <2>1, <2>2, TaskNames
<1>6. Silent' = Silent
  BY <1>0 DEF Silent
<1>7. ListedOK'
  BY <1>0, <1>6 DEF Inv, ListedOK
<1>8. SilentHasCause'
  <2>. SUFFICES ASSUME timer_pc = "idle", NEW u \in Silent, u \notin deleted' PROVE InFlight(u)'
    BY <1>0, <1>6 DEF SilentHasCause
  <2>1. InFlight(u)' <=> Contains(box'[u], HbReq(u)) \/ Contains(box'[TASK0], HbRsp(u))
    BY DEF InFlight, Contains
  <2>2. u \in Workers /\ u # t
    BY <1>0, <1>6, <1>7 DEF Silent, ListedOK
  <2>3. InFlight(u)
    BY <1>0 DEF Inv, SilentHasCause
  <2>4. box'[u] = box[u] /\ box'[TASK0] = box[TASK0]
    BY <1>2, <2>2, TaskNames
  <2>. QED
    BY <2>1, <2>3, <2>4, InFlightContains
<1>. QED
  BY <1>3, <1>4, <1>5, <1>7, <1>8 DEF Inv

\* Steps that leave mailboxes, hb_map and what was deleted alone.
LEMMA OtherStep ==
    ASSUME Inv, UNCHANGED <<box, hb_map, timer_pc, deleted>>,
           task_map \subseteq task_map', task_map' \subseteq Workers,
           calls'.app = calls.app, calls' \in [app : Nat, del : Nat, set : Nat]
    PROVE  Inv'
<1>1. TypeOK' /\ BoxOK' /\ JobsOK'
  BY DEF Inv, TypeOK, BoxOK, JobsOK
<1>2. Silent' = Silent
  BY DEF Silent
<1>3. ListedOK'
  BY <1>2 DEF Inv, ListedOK
<1>4. SilentHasCause'
  BY <1>2 DEF Inv, SilentHasCause, InFlight
<1>. QED
  BY <1>1, <1>3, <1>4 DEF Inv

\* The initial states.
LEMMA InitInv == Init => Inv
<1>. SUFFICES ASSUME Init PROVE Inv
  OBVIOUS
<1>1. TypeOK
  BY EmptySeq DEF Init, TypeOK
<1>2. BoxOK
  BY TaskNames DEF Init, BoxOK
<1>3. JobsOK
  BY AppsEmpty, TaskNames, ManagerAssumption DEF Init, JobsOK
<1>4. Silent = {}
  BY TaskNames DEF Init, Silent
<1>. QED
  BY <1>1, <1>2, <1>3, <1>4 DEF Inv, ListedOK, SilentHasCause

\* Every step.
LEMMA StepInv == Inv /\ [Next]_vars => Inv'
<1>. SUFFICES ASSUME Inv, [Next]_vars PROVE Inv'
  OBVIOUS
<1>0. task_map \subseteq Workers /\ calls \in [app : Nat, del : Nat, set : Nat]
  BY DEF Inv, TypeOK
<1>1. CASE FirstTick \/ TickGivesUp \/ UNCHANGED vars
  BY <1>0, <1>1, OtherStep DEF FirstTick, TickGivesUp, vars, mailVars
<1>2. CASE TickChecks
  BY <1>2, CheckStep
<1>3. CASE SendHbAll
  BY <1>3, SendStep
<1>4. CASE OnHbRsp
  BY <1>4, NoteStep
<1>5. ASSUME NEW t \in Workers, OnMessage(t) \/ Hang(t) PROVE Inv'
  BY <1>5, JobStep
<1>6. ASSUME NEW t \in Workers, AnswerHb(t) PROVE Inv'
  BY <1>6, AnswerStep
<1>7. ASSUME NEW t \in Workers, ClientSend(t) PROVE Inv'
  BY <1>7, ClientStep
<1>8. ASSUME NEW t \in Workers, del_tasks(t) \/ TaskGone(t) PROVE Inv'
  BY <1>8, GoneStep
<1>9. ASSUME NEW t \in Workers, add_tasks(t) \/ StartTask(t) PROVE Inv'
  BY <1>0, <1>9, OtherStep DEF add_tasks, StartTask, mailVars, tickVars
<1>10. ASSUME NEW i \in Intervals, set_hb_interval(i) PROVE Inv'
  <2>1. /\ UNCHANGED <<box, hb_map, timer_pc, deleted, task_map>>
        /\ calls' = [calls EXCEPT !.set = @ + 1]
    BY <1>10 DEF set_hb_interval, mailVars, tickVars, Called
  <2>2. calls'.app = calls.app /\ calls' \in [app : Nat, del : Nat, set : Nat]
    BY <1>0, <2>1
  <2>. QED
    BY <1>0, <2>1, <2>2, OtherStep
<1>. QED
  BY <1>1, <1>2, <1>3, <1>4, <1>5, <1>6, <1>7, <1>8, <1>9, <1>10 DEF Next, Tick, WorkerStep

-----------------------------------------------------------------------------
\* The invariant of the heartbeat.
THEOREM HeartbeatInvariant == Spec => []Inv
<1>1. Init => Inv
  BY InitInv
<1>2. Inv /\ [Next]_vars => Inv'
  BY StepInv
<1>. QED
  BY <1>1, <1>2, PTL DEF Spec

\* A worker that the check is going to restart has its request or its answer on the
\* way, or was deleted: send_hb_all reaches every worker of the check, no answer is lost
\* and OnHbRsp credits each to the worker that sent it.
THEOREM RestartHasCause == Spec => []SilentHasCause
<1>1. Inv => SilentHasCause
  BY DEF Inv
<1>. QED
  BY <1>1, HeartbeatInvariant, PTL
=============================================================================
