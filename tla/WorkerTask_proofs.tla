-------------------------- MODULE WorkerTask_proofs --------------------------
(***************************************************************************)
(* The Redis worker task for any set of tasks, any number of addresses and    *)
(* ADD_CONN messages: reconnecting never multiplies connections, and with a   *)
(* single connection of the first task the look-up by context does not fail.  *)
(***************************************************************************)
EXTENDS WorkerTask, FiniteSetTheorems, SequenceTheorems, WellFoundedInduction, TLAPS

TypeOK ==
    /\ heap \in [Addrs -> HeapState]
    /\ detail \in [Workers -> Addrs \cup {Nil}]
    /\ timers \in [Workers -> Seq(Addrs)]
    /\ adds \in Seq(Workers)

\* NoExtraConnections counts finite sets.
CountOK ==
    /\ IsFiniteSet(Live) /\ IsFiniteSet(Pending)
    /\ NoExtraConnections

\* Nothing has been connected: there is no context and no timer.
BeforeOK ==
    adds = <<>> => /\ fault # "null"
                   /\ \A a \in Addrs : heap[a] = "free"
                   /\ \A w \in Workers : timers[w] = <<>>

\* One connection of the first task: there is one context or one timer, not both, and
\* either is the one that _detail_info names.  A context that redisAsyncConnect
\* reported an error for is in no timer and has no events.
SingleOK ==
    adds = <<First>> =>
        /\ fault # "null"
        /\ \A a, b \in Addrs : heap[a] # "free" /\ heap[b] # "free" => a = b
        /\ \A a \in Addrs : heap[a] \in {"connecting", "connected"} => Found(a)
        /\ \A w \in Workers : timers[w] # <<>> =>
               /\ w = First /\ timers[w] = <<detail[First]>>
               /\ \A a \in Addrs : heap[a] = "free"

Inv == TypeOK /\ CountOK /\ BeforeOK /\ SingleOK

-----------------------------------------------------------------------------
(* The operators                                                              *)

\* There is a first task: the loop of get_task_ptr_p_with_detail_info always looks at one.
LEMMA FirstType == First \in Workers
<1>1. \E w \in Workers : \A v \in Workers : ~(<<v, w>> \in OpToRel(<, Nat))
  BY WFMin, NatLessThanWellFounded, WorkerAssumption
<1>2. PICK w \in Workers : \A v \in Workers : ~(<<v, w>> \in OpToRel(<, Nat))
  BY <1>1
<1>3. \A v \in Workers : ~(v < w)
  BY <1>2, WorkerAssumption DEF OpToRel
<1>4. \A v \in Workers : w <= v
  BY <1>3, WorkerAssumption
<1>. QED
  BY <1>4 DEF First

\* The members of Pending.
LEMMA PendingMembers ==
    \A x : x \in Pending <=> \E w \in Workers : \E i \in DOMAIN timers[w] : x = <<w, i>>
BY DEF Pending

\* A timer that is started is one more.
LEMMA PendingStarted ==
    ASSUME TypeOK, NEW w \in Workers, NEW c \in Addrs, IsFiniteSet(Pending),
           timers' = [timers EXCEPT ![w] = Append(@, c)]
    PROVE  IsFiniteSet(Pending') /\ Cardinality(Pending') = Cardinality(Pending) + 1
<1>1. PICK n : n = Len(timers[w]) + 1
  OBVIOUS
<1>2. timers[w] \in Seq(Addrs) /\ Len(timers[w]) \in Nat
      /\ DOMAIN timers[w] = 1 .. Len(timers[w])
  BY LenProperties DEF TypeOK
<1>3. DOMAIN timers'[w] = DOMAIN timers[w] \cup {n} /\ n \notin DOMAIN timers[w]
  <2>1. timers'[w] = Append(timers[w], c)
    BY DEF TypeOK
  <2>2. DOMAIN Append(timers[w], c) = 1 .. n
    BY <1>1, <1>2, AppendProperties, LenProperties
  <2>. QED
    BY <1>1, <1>2, <2>1, <2>2
<1>4. \A v \in Workers : v # w => timers'[v] = timers[v]
  BY DEF TypeOK
<1>5. \A x : x \in Pending' <=> \E v \in Workers : \E i \in DOMAIN timers'[v] : x = <<v, i>>
  BY DEF Pending
<1>6. Pending' = Pending \cup {<<w, n>>}
  BY <1>3, <1>4, <1>5, PendingMembers
<1>7. <<w, n>> \notin Pending
  BY <1>3, PendingMembers
<1>. QED
  BY <1>6, <1>7, FS_AddElement

\* A timer that has run is one less.
LEMMA PendingDone ==
    ASSUME TypeOK, NEW w \in Workers, timers[w] # <<>>, IsFiniteSet(Pending), TimerDone(w)
    PROVE  IsFiniteSet(Pending') /\ Cardinality(Pending') = Cardinality(Pending) - 1
<1>1. PICK n : n = Len(timers[w])
  OBVIOUS
<1>2. /\ timers[w] \in Seq(Addrs) /\ n \in Nat /\ n # 0
      /\ DOMAIN timers[w] = 1 .. n
  BY <1>1, LenProperties, EmptySeq DEF TypeOK
<1>3. DOMAIN timers'[w] = DOMAIN timers[w] \ {n} /\ n \in DOMAIN timers[w]
  <2>1. timers'[w] = Tail(timers[w])
    BY DEF TypeOK, TimerDone
  <2>2. DOMAIN Tail(timers[w]) = 1 .. (n - 1)
    BY <1>1, <1>2, HeadTailProperties, LenProperties
  <2>. QED
    BY <1>2, <2>1, <2>2
<1>4. \A v \in Workers : v # w => timers'[v] = timers[v]
  BY DEF TypeOK, TimerDone
<1>5. \A x : x \in Pending' <=> \E v \in Workers : \E i \in DOMAIN timers'[v] : x = <<v, i>>
  BY DEF Pending
<1>6. Pending' = Pending \ {<<w, n>>}
  BY <1>3, <1>4, <1>5, PendingMembers
<1>7. <<w, n>> \in Pending
  BY <1>3, PendingMembers
<1>. QED
  BY <1>6, <1>7, FS_RemoveElement

\* redisAsyncConnect makes one context more, whether it reports an error or not.
LEMMA LiveAllocated ==
    ASSUME TypeOK, NEW a \in Addrs, NEW w, NEW st \in {"connecting", "failed"},
           IsFiniteSet(Live), Allocate(a, w, st)
    PROVE  /\ heap' \in [Addrs -> HeapState]
           /\ IsFiniteSet(Live') /\ Cardinality(Live') = Cardinality(Live) + 1
<1>1. heap' \in [Addrs -> HeapState]
  BY DEF TypeOK, Allocate, HeapState
<1>2. Live' = Live \cup {a} /\ a \notin Live
  BY DEF TypeOK, Allocate, Live
<1>. QED
  BY <1>1, <1>2, FS_AddElement

\* A context that is freed is one less.
LEMMA LiveFreed ==
    ASSUME TypeOK, NEW a \in Addrs, IsFiniteSet(Live), heap[a] # "free",
           heap' = [heap EXCEPT ![a] = "free"]
    PROVE  /\ heap' \in [Addrs -> HeapState]
           /\ IsFiniteSet(Live') /\ Cardinality(Live') = Cardinality(Live) - 1
<1>1. heap' \in [Addrs -> HeapState]
  BY DEF TypeOK, HeapState
<1>2. Live' = Live \ {a} /\ a \in Live
  BY DEF TypeOK, Live
<1>. QED
  BY <1>1, <1>2, FS_RemoveElement

\* The counters are numbers.
LEMMA Counters ==
    ASSUME Inv
    PROVE  /\ Cardinality(Live) \in Nat /\ Cardinality(Pending) \in Nat
           /\ Len(adds) \in Nat
           /\ Cardinality(Live) + Cardinality(Pending) <= Len(adds)
BY FS_CardinalityType, LenProperties DEF Inv, TypeOK, CountOK, NoExtraConnections

\* Equal sets, equal counters.
LEMMA LiveFrame == heap' = heap => Live' = Live
BY DEF Live

\* The same for the timers.
LEMMA PendingFrame == timers' = timers => Pending' = Pending
BY DEF Pending

-----------------------------------------------------------------------------
(* The steps                                                                  *)

\* The initial states, whatever _detail_info holds.
LEMMA InitInv == Init => Inv
<1>. SUFFICES ASSUME Init PROVE Inv
  OBVIOUS
<1>1. TypeOK
  BY EmptySeq DEF Init, TypeOK, HeapState
<1>2. Live = {}
  BY DEF Init, Live
<1>3. Pending = {}
  <2>1. \A w \in Workers : DOMAIN timers[w] = {}
    BY DEF Init
  <2>. QED
    BY <2>1, PendingMembers
<1>4. CountOK
  BY <1>2, <1>3, FS_EmptySet, EmptySeq DEF Init, CountOK, NoExtraConnections
<1>5. BeforeOK
  BY DEF Init, BeforeOK
<1>6. SingleOK
  <2>1. adds # <<First>>
    BY DEF Init
  <2>. QED
    BY <2>1 DEF SingleOK
<1>. QED
  BY <1>1, <1>4, <1>5, <1>6 DEF Inv

\* ADD_CONN, the first one in particular.
LEMMA AddStep ==
    ASSUME Inv, NEW w \in Workers, process_add_conn(w)
    PROVE  Inv'
<1>1. PICK a \in Addrs, st \in {"connecting", "failed"} :
         /\ Allocate(a, w, st)
         /\ detail' = IF st = "failed" THEN detail ELSE [detail EXCEPT ![w] = a]
  BY DEF process_add_conn
<1>2. adds' = Append(adds, w) /\ timers' = timers /\ fault' = fault /\ adds \in Seq(Workers)
  BY DEF process_add_conn, Inv, TypeOK
<1>3. /\ heap' \in [Addrs -> HeapState]
      /\ IsFiniteSet(Live') /\ Cardinality(Live') = Cardinality(Live) + 1
  BY <1>1, LiveAllocated DEF Inv, CountOK
<1>4. adds' \in Seq(Workers) /\ Len(adds') = Len(adds) + 1
  BY <1>2, AppendProperties
<1>5. TypeOK'
  <2>1. detail' \in [Workers -> Addrs \cup {Nil}]
    BY <1>1 DEF Inv, TypeOK
  <2>. QED
    BY <1>2, <1>3, <1>4, <2>1 DEF Inv, TypeOK
<1>6. CountOK'
  <2>1. Pending' = Pending /\ IsFiniteSet(Pending)
    BY <1>2, PendingFrame DEF Inv, CountOK
  <2>2. Cardinality(Live') + Cardinality(Pending') <= Len(adds')
    BY <1>3, <1>4, <2>1, Counters
  <2>. QED
    BY <1>3, <2>1, <2>2 DEF CountOK, NoExtraConnections
<1>7. adds' # <<>>
  BY <1>2, AppendProperties
<1>8. SingleOK'
  <2>1. SUFFICES ASSUME adds' = <<First>> PROVE SingleOK'
    BY DEF SingleOK
  <2>2. adds = <<>> /\ w = First
    <3>1. Len(adds') = 1 /\ adds'[1] = First
      BY <2>1
    <3>2. Len(adds) = 0
      BY <1>2, <1>4, <3>1, LenProperties
    <3>3. adds = <<>>
      BY <1>2, <3>2, EmptySeq
    <3>. QED
      BY <1>2, <3>1, <3>3
  <2>3. /\ fault # "null"
        /\ \A b \in Addrs : heap[b] = "free"
        /\ \A v \in Workers : timers[v] = <<>>
    BY <2>2 DEF Inv, BeforeOK
  <2>4. heap' = [heap EXCEPT ![a] = st]
    BY <1>1 DEF Allocate
  <2>5. \A b \in Addrs : heap'[b] # "free" => b = a
    BY <2>3, <2>4 DEF Inv, TypeOK
  <2>6. \A b \in Addrs : heap'[b] \in {"connecting", "connected"} => detail'[First] = b
    <3>. SUFFICES ASSUME NEW b \in Addrs, heap'[b] \in {"connecting", "connected"}
                  PROVE  detail'[First] = b
      OBVIOUS
    <3>1. b = a
      BY <2>5
    <3>2. st # "failed"
      BY <2>4, <3>1 DEF Inv, TypeOK
    <3>. QED
      BY <1>1, <2>2, <3>1, <3>2 DEF Inv, TypeOK
  <2>. QED
    BY <1>2, <2>3, <2>5, <2>6 DEF SingleOK, Found
<1>. QED
  BY <1>5, <1>6, <1>7, <1>8 DEF Inv, BeforeOK

\* A step of a context that exists, from the one that connects to the one that is lost:
\* the number of contexts does not grow.
LEMMA ContextStep ==
    ASSUME Inv, NEW c \in Addrs, connectCallback(c) \/ ConnectionError(c)
    PROVE  Inv'
<1>0. UNCHANGED <<detail, timers, adds, fault>> /\ heap[c] # "free"
  BY DEF connectCallback, ConnectionError
<1>1. /\ heap' \in [Addrs -> HeapState]
      /\ IsFiniteSet(Live') /\ Cardinality(Live') <= Cardinality(Live)
  <2>1. CASE connectCallback(c)
    <3>1. Live' = Live /\ heap' \in [Addrs -> HeapState]
      BY <2>1 DEF Inv, TypeOK, connectCallback, Live, HeapState
    <3>. QED
      BY <3>1, Counters DEF Inv, CountOK
  <2>2. CASE ConnectionError(c)
    <3>1. heap' = [heap EXCEPT ![c] = "free"]
      BY <2>2 DEF ConnectionError
    <3>2. /\ heap' \in [Addrs -> HeapState]
          /\ IsFiniteSet(Live') /\ Cardinality(Live') = Cardinality(Live) - 1
      BY <1>0, <3>1, LiveFreed DEF Inv, CountOK
    <3>. QED
      BY <3>2, Counters
  <2>. QED
    BY <2>1, <2>2
<1>2. TypeOK'
  BY <1>0, <1>1 DEF Inv, TypeOK
<1>3. CountOK'
  <2>1. Pending' = Pending /\ IsFiniteSet(Pending)
    BY <1>0, PendingFrame DEF Inv, CountOK
  <2>2. Cardinality(Live') \in Nat
    BY <1>1, FS_CardinalityType
  <2>3. Cardinality(Live') + Cardinality(Pending') <= Len(adds')
    BY <1>0, <1>1, <2>1, <2>2, Counters
  <2>. QED
    BY <1>1, <2>1, <2>3 DEF CountOK, NoExtraConnections
<1>4. \A a \in Addrs : /\ heap'[a] # "free" => heap[a] # "free"
                       /\ heap'[a] \in {"connecting", "connected"}
                             => heap[a] \in {"connecting", "connected"}
  BY DEF Inv, TypeOK, connectCallback, ConnectionError
<1>5. BeforeOK'
  BY <1>0, <1>4 DEF Inv, BeforeOK
<1>6. SingleOK'
  BY <1>0, <1>4 DEF Inv, SingleOK, Found
<1>. QED
  BY <1>2, <1>3, <1>5, <1>6 DEF Inv

\* A connection that is closed becomes a timer.
LEMMA DisconnectStep ==
    ASSUME Inv, NEW c \in Addrs, disconnectCallback(c)
    PROVE  Inv'
<1>0. /\ UNCHANGED <<detail, adds, fault>> /\ heap[c] = "connected" /\ Found(c)
      /\ heap' = [heap EXCEPT ![c] = "free"]
      /\ timers' = [timers EXCEPT ![First] = Append(@, c)]
  BY DEF disconnectCallback, StartTimer
<1>1. /\ heap' \in [Addrs -> HeapState]
      /\ IsFiniteSet(Live') /\ Cardinality(Live') = Cardinality(Live) - 1
  BY <1>0, LiveFreed DEF Inv, CountOK
<1>2. IsFiniteSet(Pending') /\ Cardinality(Pending') = Cardinality(Pending) + 1
  BY <1>0, FirstType, PendingStarted DEF Inv, CountOK
<1>3. TypeOK'
  <2>1. timers[First] \in Seq(Addrs)
    BY FirstType DEF Inv, TypeOK
  <2>2. Append(timers[First], c) \in Seq(Addrs)
    BY <2>1, AppendProperties
  <2>3. timers' \in [Workers -> Seq(Addrs)]
    BY <1>0, <2>2 DEF Inv, TypeOK
  <2>. QED
    BY <1>0, <1>1, <2>3 DEF Inv, TypeOK
<1>4. CountOK'
  <2>1. Cardinality(Live') + Cardinality(Pending') <= Len(adds')
    BY <1>0, <1>1, <1>2, Counters
  <2>. QED
    BY <1>1, <1>2, <2>1 DEF CountOK, NoExtraConnections
<1>5. BeforeOK'
  BY <1>0 DEF Inv, BeforeOK
<1>6. SingleOK'
  <2>1. SUFFICES ASSUME adds = <<First>> PROVE SingleOK'
    BY <1>0 DEF SingleOK
  <2>2. \A w \in Workers : timers[w] = <<>>
    BY <1>0, <2>1 DEF Inv, SingleOK
  <2>3. \A a \in Addrs : heap'[a] = "free"
    BY <1>0, <2>1 DEF Inv, SingleOK, TypeOK
  <2>4. \A w \in Workers : w # First => timers'[w] = <<>>
    BY <1>0, <2>2 DEF Inv, TypeOK
  <2>5. timers'[First] = <<detail[First]>>
    <3>1. timers'[First] = Append(timers[First], c) /\ timers[First] = <<>>
      BY <1>0, <2>2, FirstType DEF Inv, TypeOK
    <3>. QED
      BY <1>0, <3>1 DEF Found
  <2>6. fault' # "null"
    BY <1>0, <2>1 DEF Inv, SingleOK
  <2>. QED
    BY <1>0, <2>3, <2>4, <2>5, <2>6 DEF SingleOK, Found
<1>. QED
  BY <1>3, <1>4, <1>5, <1>6 DEF Inv

\* A connection that is closed and whose task is not found: not with a single one.
LEMMA UnknownStep ==
    ASSUME Inv, NEW c \in Addrs, DisconnectUnknown(c)
    PROVE  Inv'
<1>0. UNCHANGED <<detail, heap, timers, adds>> /\ heap[c] = "connected" /\ ~Found(c)
  BY DEF DisconnectUnknown
<1>1. adds # <<>> /\ adds # <<First>>
  BY <1>0 DEF Inv, BeforeOK, SingleOK
<1>2. TypeOK'
  BY <1>0 DEF Inv, TypeOK
<1>3. CountOK'
  BY <1>0, LiveFrame, PendingFrame DEF Inv, CountOK, NoExtraConnections
<1>. QED
  BY <1>0, <1>1, <1>2, <1>3 DEF Inv, BeforeOK, SingleOK

\* The timer's callback: one timer less, and at most one context more.
LEMMA ReconnectStep ==
    ASSUME Inv, NEW w \in Workers, redisAsyncReconnect(w)
    PROVE  Inv'
<1>0. /\ timers[w] # <<>> /\ adds' = adds /\ TimerDone(w)
      /\ timers[w] \in Seq(Addrs)
  BY DEF redisAsyncReconnect, Inv, TypeOK
<1>1. PICK c : c = Head(timers[w])
  OBVIOUS
<1>2. \/ ~Usable(c) /\ fault' = "dangling" /\ UNCHANGED <<detail, heap>>
      \/ ~Found(c) /\ fault' = "null" /\ UNCHANGED <<detail, heap>>
      \/ /\ Found(c) /\ fault' = fault
         /\ \E a \in Addrs, st \in {"connecting", "failed"} :
                Allocate(a, First, st) /\ detail' = [detail EXCEPT ![First] = a]
  BY <1>1 DEF redisAsyncReconnect, set_task_detail_info
<1>3. IsFiniteSet(Pending') /\ Cardinality(Pending') = Cardinality(Pending) - 1
  BY <1>0, PendingDone DEF Inv, CountOK
<1>4. /\ heap' \in [Addrs -> HeapState] /\ detail' \in [Workers -> Addrs \cup {Nil}]
      /\ IsFiniteSet(Live') /\ Cardinality(Live') <= Cardinality(Live) + 1
  <2>1. CASE UNCHANGED <<detail, heap>>
    BY <2>1, LiveFrame, Counters DEF Inv, TypeOK, CountOK
  <2>2. ASSUME NEW a \in Addrs, NEW st \in {"connecting", "failed"},
               Allocate(a, First, st), detail' = [detail EXCEPT ![First] = a]
        PROVE  /\ heap' \in [Addrs -> HeapState] /\ detail' \in [Workers -> Addrs \cup {Nil}]
               /\ IsFiniteSet(Live') /\ Cardinality(Live') <= Cardinality(Live) + 1
    <3>1. detail' \in [Workers -> Addrs \cup {Nil}]
      BY <2>2 DEF Inv, TypeOK
    <3>2. /\ heap' \in [Addrs -> HeapState]
          /\ IsFiniteSet(Live') /\ Cardinality(Live') = Cardinality(Live) + 1
      BY <2>2, LiveAllocated DEF Inv, CountOK
    <3>. QED
      BY <3>1, <3>2, Counters
  <2>. QED
    BY <1>2, <2>1, <2>2
<1>5. timers' \in [Workers -> Seq(Addrs)]
  <2>1. Tail(timers[w]) \in Seq(Addrs)
    BY <1>0, HeadTailProperties
  <2>. QED
    BY <1>0, <2>1 DEF TimerDone, Inv, TypeOK
<1>6. TypeOK'
  BY <1>0, <1>4, <1>5 DEF Inv, TypeOK
<1>7. CountOK'
  <2>1. Cardinality(Live') \in Nat
    BY <1>4, FS_CardinalityType
  <2>2. Cardinality(Live') + Cardinality(Pending') <= Len(adds')
    BY <1>0, <1>3, <1>4, <2>1, Counters
  <2>. QED
    BY <1>3, <1>4, <2>2 DEF CountOK, NoExtraConnections
<1>8. BeforeOK'
  BY <1>0 DEF Inv, BeforeOK
<1>9. SingleOK'
  <2>1. SUFFICES ASSUME adds = <<First>> PROVE SingleOK'
    BY <1>0 DEF SingleOK
  <2>2. /\ w = First /\ timers[w] = <<detail[First]>>
        /\ \A a \in Addrs : heap[a] = "free"
        /\ \A v \in Workers : v # First => timers[v] = <<>>
        /\ fault # "null"
    BY <1>0, <2>1 DEF Inv, SingleOK
  <2>3. c = detail[First]
    BY <1>1, <2>2
  <2>4. \A v \in Workers : timers'[v] = <<>>
    <3>1. Tail(timers[w]) = <<>>
      BY <2>2
    <3>. QED
      BY <1>0, <2>2, <3>1 DEF TimerDone, Inv, TypeOK
  <2>5. CASE UNCHANGED <<detail, heap>> /\ fault' = "dangling"
    BY <2>2, <2>4, <2>5 DEF SingleOK
  <2>6. ASSUME NEW a \in Addrs, NEW st \in {"connecting", "failed"},
               Allocate(a, First, st), detail' = [detail EXCEPT ![First] = a],
               fault' = fault
        PROVE  SingleOK'
    <3>1. \A b \in Addrs : heap'[b] # "free" => b = a
      BY <2>2, <2>6 DEF Allocate, Inv, TypeOK
    <3>2. detail'[First] = a
      BY <2>6, FirstType DEF Inv, TypeOK
    <3>. QED
      BY <2>2, <2>4, <2>6, <3>1, <3>2 DEF SingleOK, Found
  <2>. QED
    BY <1>2, <2>3, <2>5, <2>6 DEF Found
<1>. QED
  BY <1>6, <1>7, <1>8, <1>9 DEF Inv

\* Commands, and steps that change nothing.
LEMMA CommandStep ==
    ASSUME Inv, UNCHANGED <<detail, heap, timers, adds>>, fault' \in {fault, "dangling", "none"}
    PROVE  Inv'
<1>1. TypeOK' /\ BeforeOK' /\ SingleOK'
  BY DEF Inv, TypeOK, BeforeOK, SingleOK, Found
<1>2. CountOK'
  BY LiveFrame, PendingFrame DEF Inv, CountOK, NoExtraConnections
<1>. QED
  BY <1>1, <1>2 DEF Inv

\* Every step.
LEMMA StepInv == Inv /\ [Next]_vars => Inv'
<1>. SUFFICES ASSUME Inv, [Next]_vars PROVE Inv'
  OBVIOUS
<1>1. ASSUME NEW w \in Workers, process_add_conn(w) PROVE Inv'
  BY <1>1, AddStep
<1>2. ASSUME NEW w \in Workers, Command(w) PROVE Inv'
  BY <1>2, CommandStep DEF Command
<1>3. ASSUME NEW w \in Workers, redisAsyncReconnect(w) PROVE Inv'
  BY <1>3, ReconnectStep
<1>4. ASSUME NEW c \in Addrs, connectCallback(c) \/ ConnectionError(c) PROVE Inv'
  BY <1>4, ContextStep
<1>5. ASSUME NEW c \in Addrs, disconnectCallback(c) PROVE Inv'
  BY <1>5, DisconnectStep
<1>6. ASSUME NEW c \in Addrs, DisconnectUnknown(c) PROVE Inv'
  BY <1>6, UnknownStep
<1>7. CASE UNCHANGED vars
  BY <1>7, CommandStep DEF vars
<1>. QED
  BY <1>1, <1>2, <1>3, <1>4, <1>5, <1>6, <1>7 DEF Next

-----------------------------------------------------------------------------
\* The invariant of the worker task.
THEOREM WorkerInvariant == Spec => []Inv
<1>1. Init => Inv
  BY InitInv
<1>2. Inv /\ [Next]_vars => Inv'
  BY StepInv
<1>. QED
  BY <1>1, <1>2, PTL DEF Spec

\* disconnectCallback, the reconnect timer and redisAsyncReconnect never make more
\* connections than process_add_conn was asked for, however often they run.
THEOREM ConnectionsBounded == Spec => []NoExtraConnections
<1>1. Inv => NoExtraConnections
  BY DEF Inv, CountOK
<1>. QED
  BY <1>1, WorkerInvariant, PTL

\* With one connection, of the task that get_task_ptr_p_with_detail_info looks at, the
\* task is found in disconnectCallback and in redisAsyncReconnect ever after.
THEOREM LookupProved == Spec => []LookupSucceeds
<1>1. Inv => LookupSucceeds
  BY DEF Inv, SingleOK, LookupSucceeds
<1>. QED
  BY <1>1, WorkerInvariant, PTL
=============================================================================
