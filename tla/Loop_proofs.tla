----------------------------- MODULE Loop_proofs -----------------------------
(***************************************************************************)
(* translib::Loop for any set of clients and any number of starts: the        *)
(* event_base is not freed under a running _run, unless start was called     *)
(* again before the first call took effect.                                   *)
(***************************************************************************)
EXTENDS Loop, FiniteSetTheorems, TLAPS

\* The destructor has been called by c.
Destroying(c) == pc[c] \in {"d_wait", "d_join", "d_delete", "d_free", "gone"}

TypeOK ==
    /\ thread \in 0 .. MaxStart /\ joined \subseteq Runs
    /\ run \in [Runs -> {"none", "new", "before", "loop", "after", "done"}]
    /\ pc \in [Clients -> {"idle", "start", "inside", "join", "d_wait", "d_join", "d_delete",
                           "d_free", "gone"}]
    /\ arg \in [Clients -> 0 .. MaxStart]
    /\ alive \in BOOLEAN

\* Runs are numbered without gaps, and there is room for those that are being started.
CountOK == /\ IsFiniteSet(Starting)
           /\ Created = 1 .. Cardinality(Created)
           /\ Cardinality(Created) + Cardinality(Starting) <= MaxStart

\* Pointers to threads and arguments of calls are to runs there are.
RefsOK == /\ thread # 0 => thread \in Created
          /\ \A c \in Clients : pc[c] \in {"inside", "join", "d_join"} => arg[c] \in Created
          /\ \A r \in joined : run[r] = "done"

\* One client destroys the Loop, and no other is in any of its operations then.
DestroyOK ==
    /\ \A c, d \in Clients : Destroying(c) /\ d # c => pc[d] = "idle"
    /\ \A c \in Clients : pc[c] \in {"d_free"} => thread = 0 \/ thread \in joined
    /\ ~alive => /\ \E c \in Clients : pc[c] = "gone"
                 /\ thread = 0 \/ thread \in joined

\* A run that has not ended is somebody's: _thread holds it or start is still in it.
OwnedOK == OneStart =>
             \A r \in Active : thread = r \/ \E c \in Clients : pc[c] = "inside" /\ arg[c] = r

Inv == TypeOK /\ CountOK /\ RefsOK /\ DestroyOK /\ OwnedOK

-----------------------------------------------------------------------------
(* Counting runs and the calls of start that are under way                    *)

\* Runs are finitely many.
LEMMA CreatedFinite ==
    ASSUME TypeOK
    PROVE  IsFiniteSet(Created) /\ Cardinality(Created) \in Nat /\ MaxStart \in Nat
<1>1. MaxStart \in Nat
  BY LoopAssumption
<1>2. IsFiniteSet(Runs)
  BY <1>1, FS_Interval DEF Runs
<1>3. Created \subseteq Runs
  BY DEF Created
<1>. QED
  BY <1>1, <1>2, <1>3, FS_Subset, FS_CardinalityType

\* What a step that leaves both sets as they were does to the counters.
LEMMA CountFrame ==
    ASSUME CountOK, Created' = Created, Starting' = Starting
    PROVE  CountOK' /\ (OneStart' => OneStart)
BY DEF CountOK, OneStart

\* A call of start that has passed its test is counted once.
LEMMA CountCheck ==
    ASSUME Inv, NEW c \in Clients, StartCheck(c)
    PROVE  CountOK' /\ (OneStart' => OneStart) /\ Created' = Created
<1>1. Created' = Created
  BY DEF StartCheck, Created
<1>2. IsFiniteSet(Starting) /\ c \notin Starting
  BY DEF Inv, CountOK, StartCheck, Idle, Starting
<1>3. Starting' = Starting \cup {c}
  BY DEF Inv, TypeOK, StartCheck, Goto, Starting
<1>4. /\ IsFiniteSet(Starting')
      /\ Cardinality(Starting') = Cardinality(Starting) + 1
  BY <1>2, <1>3, FS_AddElement
<1>5. /\ Cardinality(Created) \in Nat /\ Cardinality(Starting) \in Nat
      /\ MaxStart \in Nat
  BY <1>2, CreatedFinite, FS_CardinalityType DEF Inv
<1>6. Cardinality(Created) + Cardinality(Starting) < MaxStart
  BY DEF StartCheck
<1>. QED
  BY <1>1, <1>4, <1>5, <1>6 DEF Inv, CountOK, OneStart

\* A call that takes effect turns from a start into a run, whose number is new.
LEMMA CountRun ==
    ASSUME Inv, NEW c \in Clients, NEW b \in BOOLEAN, StartRun(c, b)
    PROVE  /\ CountOK'
           /\ NextRun \in Runs /\ NextRun \notin Created
           /\ Created' = Created \cup {NextRun}
           /\ OneStart' => Created = {}
<1>1. IsFiniteSet(Starting) /\ c \in Starting
  BY DEF Inv, CountOK, StartRun, Starting
<1>2. Starting' = Starting \ {c}
  BY DEF Inv, TypeOK, StartRun, Goto, Starting
<1>3. /\ IsFiniteSet(Starting')
      /\ Cardinality(Starting') = Cardinality(Starting) - 1
  BY <1>1, <1>2, FS_RemoveElement
<1>4. /\ Cardinality(Created) \in Nat /\ Cardinality(Starting) \in Nat
      /\ MaxStart \in Nat /\ IsFiniteSet(Created)
  BY <1>1, CreatedFinite, FS_CardinalityType DEF Inv
<1>5. Cardinality(Starting) # 0
  BY <1>1, FS_EmptySet
<1>6. /\ Created = 1 .. Cardinality(Created)
      /\ Cardinality(Created) + Cardinality(Starting) <= MaxStart
  BY DEF Inv, CountOK
<1>7. NextRun \in Runs /\ NextRun \notin Created
  BY <1>4, <1>5, <1>6 DEF NextRun, Runs
<1>8. Created' = Created \cup {NextRun}
  <2>1. PICK n : n = NextRun
    OBVIOUS
  <2>2. n \in Runs /\ run' = [run EXCEPT ![n] = "new"]
    BY <1>7, <2>1 DEF StartRun
  <2>3. Created' = Created \cup {n}
    BY <2>2 DEF Created, Inv, TypeOK
  <2>. QED
    BY <2>1, <2>3
<1>9. Cardinality(Created') = Cardinality(Created) + 1
  BY <1>4, <1>7, <1>8, FS_AddElement
<1>10. Created' = 1 .. Cardinality(Created')
  BY <1>4, <1>6, <1>8, <1>9 DEF NextRun
<1>11. CountOK'
  BY <1>3, <1>4, <1>6, <1>9, <1>10 DEF CountOK
<1>12. ASSUME OneStart' PROVE Created = {}
  <2>1. Cardinality(Created) = 0
    <3>1. Cardinality(Starting') \in Nat
      BY <1>3, FS_CardinalityType
    <3>. QED
      BY <1>4, <1>9, <1>12, <3>1 DEF OneStart
  <2>. QED
    BY <1>4, <2>1, FS_EmptySet
<1>. QED
  BY <1>7, <1>8, <1>11, <1>12

-----------------------------------------------------------------------------
(* The steps                                                                  *)

\* The initial states.
LEMMA InitInv == Init => Inv
<1>. SUFFICES ASSUME Init PROVE Inv
  OBVIOUS
<1>1. MaxStart \in Nat
  BY LoopAssumption
<1>2. TypeOK
  BY <1>1 DEF Init, TypeOK, Runs
<1>3. Created = {} /\ Starting = {}
  BY DEF Init, Created, Starting
<1>4. CountOK
  BY <1>1, <1>3, FS_EmptySet DEF CountOK
<1>5. RefsOK /\ DestroyOK
  BY DEF Init, RefsOK, DestroyOK, Destroying
<1>6. OwnedOK
  BY <1>3 DEF OwnedOK, Active
<1>. QED
  BY <1>2, <1>4, <1>5, <1>6 DEF Inv

\* start.
LEMMA StartChecked ==
    ASSUME Inv, NEW c \in Clients, StartCheck(c)
    PROVE  Inv'
<1>1. CountOK' /\ (OneStart' => OneStart) /\ Created' = Created
  BY CountCheck
<1>2. TypeOK'
  BY DEF Inv, TypeOK, StartCheck, Goto
<1>3. RefsOK'
  BY <1>1 DEF Inv, TypeOK, RefsOK, StartCheck, Goto
<1>4. DestroyOK'
  BY DEF Inv, TypeOK, DestroyOK, Destroying, StartCheck, Goto, Idle
<1>5. OwnedOK'
  <2>1. Active' = Active
    BY <1>1 DEF Active, StartCheck
  <2>. QED
    BY <1>1, <2>1 DEF Inv, TypeOK, OwnedOK, StartCheck, Goto, Idle
<1>. QED
  BY <1>1, <1>2, <1>3, <1>4, <1>5 DEF Inv

\* _run is created, in a thread of its own or in the caller's.
LEMMA StartTakesEffect ==
    ASSUME Inv, NEW c \in Clients, NEW b \in BOOLEAN, StartRun(c, b)
    PROVE  Inv'
<1>0. /\ CountOK'
      /\ NextRun \in Runs /\ NextRun \notin Created
      /\ Created' = Created \cup {NextRun}
      /\ OneStart' => Created = {}
  BY CountRun
<1>1. PICK n : n = NextRun
  OBVIOUS
<1>2. /\ n \in Runs /\ n \in 0 .. MaxStart /\ n # 0
      /\ n \notin Created /\ Created' = Created \cup {n}
  BY <1>0, <1>1, LoopAssumption DEF Runs
<1>3. /\ pc[c] = "start"
      /\ run' = [run EXCEPT ![n] = "new"]
      /\ joined' = joined /\ alive' = alive
      /\ \/ thread' = n /\ pc' = [pc EXCEPT ![c] = "idle"] /\ arg' = arg
         \/ thread' = thread /\ pc' = [pc EXCEPT ![c] = "inside"] /\ arg' = [arg EXCEPT ![c] = n]
  BY <1>1 DEF StartRun, Goto
<1>4. TypeOK'
  BY <1>2, <1>3 DEF Inv, TypeOK
<1>5. RefsOK'
  <2>1. \A r \in joined' : run'[r] = "done"
    BY <1>2, <1>3 DEF Inv, TypeOK, RefsOK, Created
  <2>. QED
    BY <1>2, <1>3, <2>1 DEF Inv, TypeOK, RefsOK
<1>6. DestroyOK'
  <2>1. \A d \in Clients : ~Destroying(d) /\ pc[d] # "gone"
    BY <1>3 DEF Inv, DestroyOK, Destroying
  <2>2. alive
    BY <2>1 DEF Inv, DestroyOK
  <2>. QED
    BY <1>3, <2>1, <2>2 DEF Inv, TypeOK, DestroyOK, Destroying
<1>7. OwnedOK'
  <2>1. SUFFICES ASSUME OneStart', NEW r \in Active'
                 PROVE  (thread = r \/ \E d \in Clients : pc[d] = "inside" /\ arg[d] = r)'
    BY DEF OwnedOK
  <2>2. r = n
    BY <1>0, <1>2, <2>1 DEF Active
  <2>. QED
    BY <1>3, <2>2 DEF Inv, TypeOK
<1>. QED
  BY <1>0, <1>4, <1>5, <1>6, <1>7 DEF Inv

\* start comes back when _run, in the caller's thread, has.
LEMMA StartReturns ==
    ASSUME Inv, NEW c \in Clients, RunReturns(c)
    PROVE  Inv'
<1>1. Created' = Created /\ Active' = Active
  BY DEF RunReturns, Created, Active
<1>2. Starting' = Starting
  BY DEF RunReturns, Starting, Goto, Inv, TypeOK
<1>3. CountOK' /\ (OneStart' => OneStart)
  BY <1>1, <1>2, CountFrame DEF Inv
<1>4. TypeOK' /\ RefsOK'
  BY <1>1 DEF Inv, TypeOK, RefsOK, RunReturns, Goto
<1>5. DestroyOK'
  BY DEF Inv, TypeOK, DestroyOK, Destroying, RunReturns, Goto
<1>6. OwnedOK'
  BY <1>1, <1>3 DEF Inv, TypeOK, OwnedOK, Active, RunReturns, Goto
<1>. QED
  BY <1>3, <1>4, <1>5, <1>6 DEF Inv

\* _run goes on: only a run's place changes, and it stays created.
LEMMA RunGoesOn ==
    ASSUME Inv, NEW r \in Runs, RunStep(r)
    PROVE  Inv'
<1>1. PICK l \in {"before", "loop", "after", "done"} : run' = [run EXCEPT ![r] = l]
  BY DEF RunStep, RunBegins, EnterLoop, LeaveLoop, RunEnds
<1>2. run[r] \notin {"none", "done"}
  BY DEF RunStep, RunBegins, EnterLoop, LeaveLoop, RunEnds
<1>3. UNCHANGED <<thread, joined, pc, arg, alive>>
  BY DEF RunStep, RunBegins, EnterLoop, LeaveLoop, RunEnds, baseVars
<1>4. Created' = Created /\ Active' \subseteq Active
  BY <1>1, <1>2 DEF Inv, TypeOK, Created, Active
<1>5. Starting' = Starting
  BY <1>3 DEF Starting
<1>6. CountOK' /\ (OneStart' => OneStart)
  BY <1>4, <1>5, CountFrame DEF Inv
<1>7. TypeOK'
  BY <1>1, <1>3 DEF Inv, TypeOK
<1>8. RefsOK'
  BY <1>1, <1>2, <1>3, <1>4 DEF Inv, TypeOK, RefsOK
<1>9. DestroyOK'
  BY <1>3 DEF Inv, DestroyOK, Destroying
<1>10. OwnedOK'
  BY <1>3, <1>4, <1>6 DEF Inv, OwnedOK
<1>. QED
  BY <1>6, <1>7, <1>8, <1>9, <1>10 DEF Inv

\* The steps of a client that leave the runs alone and do not begin or end a start.
Moves(c, l) ==
    /\ pc' = [pc EXCEPT ![c] = l] /\ pc[c] \notin {"start", "inside"}
    /\ run' = run /\ thread' = thread
    /\ arg' = arg \/ (arg' = [arg EXCEPT ![c] = thread] /\ thread # 0)
    /\ l \in {"join", "d_join"} => arg' = [arg EXCEPT ![c] = thread] /\ thread # 0
    /\ \/ joined' = joined
       \/ /\ joined' = joined \cup {arg[c]} /\ run[arg[c]] = "done"
          /\ pc[c] \in {"join", "d_join"}

\* They keep the invariant if they keep what it says about the destructor.
LEMMA ClientMoves ==
    ASSUME Inv, NEW c \in Clients,
           NEW l \in {"idle", "join", "d_wait", "d_join", "d_delete", "d_free", "gone"},
           Moves(c, l), DestroyOK', alive' \in BOOLEAN
    PROVE  Inv'
<1>. USE DEF Moves
<1>1. Created' = Created /\ Active' = Active
  BY DEF Created, Active
<1>2. Starting' = Starting
  BY DEF Starting, Inv, TypeOK
<1>3. CountOK' /\ (OneStart' => OneStart)
  BY <1>1, <1>2, CountFrame DEF Inv
<1>4. Created \subseteq Runs
  BY DEF Created
<1>5. TypeOK'
  BY <1>4 DEF Inv, TypeOK, RefsOK
<1>6. RefsOK'
  <2>1. thread' # 0 => thread' \in Created'
    BY <1>1 DEF Inv, RefsOK
  <2>2. \A d \in Clients : pc'[d] \in {"inside", "join", "d_join"} => arg'[d] \in Created'
    <3>. SUFFICES ASSUME NEW d \in Clients, pc'[d] \in {"inside", "join", "d_join"}
                  PROVE  arg'[d] \in Created'
      OBVIOUS
    <3>1. CASE d = c
      <4>1. pc'[d] = l
        BY <3>1 DEF Inv, TypeOK
      <4>2. arg'[d] = thread /\ thread # 0
        BY <3>1, <4>1 DEF Inv, TypeOK
      <4>. QED
        BY <1>1, <4>2 DEF Inv, RefsOK
    <3>2. CASE d # c
      BY <1>1, <3>2 DEF Inv, TypeOK, RefsOK
    <3>. QED
      BY <3>1, <3>2
  <2>3. \A q \in joined' : run'[q] = "done"
    BY DEF Inv, RefsOK
  <2>. QED
    BY <2>1, <2>2, <2>3 DEF RefsOK
<1>7. OwnedOK'
  BY <1>1, <1>3 DEF Inv, TypeOK, OwnedOK
<1>. QED
  BY <1>3, <1>5, <1>6, <1>7 DEF Inv

\* wait, and join wherever it is called.
LEMMA WaitStep ==
    ASSUME Inv, NEW c \in Clients,
           wait(c) \/ Join(c, "join", "idle") \/ Join(c, "d_join", "d_delete")
    PROVE  Inv'
<1>0. alive' = alive /\ alive \in BOOLEAN
  BY DEF wait, Join, Inv, TypeOK
<1>1. CASE wait(c)
  <2>1. DestroyOK'
    BY <1>1 DEF Inv, TypeOK, DestroyOK, Destroying, wait, Goto, Idle
  <2>2. Moves(c, "join")
    BY <1>1 DEF wait, Goto, Idle, MustJoin, Moves
  <2>. QED
    BY <1>0, <2>1, <2>2, ClientMoves
<1>2. CASE Join(c, "join", "idle")
  <2>1. DestroyOK'
    BY <1>2 DEF Inv, TypeOK, DestroyOK, Destroying, Join, Goto
  <2>2. Moves(c, "idle")
    BY <1>2 DEF Join, Goto, Moves
  <2>. QED
    BY <1>0, <2>1, <2>2, ClientMoves
<1>3. CASE Join(c, "d_join", "d_delete")
  <2>1. DestroyOK'
    BY <1>3 DEF Inv, TypeOK, DestroyOK, Destroying, Join, Goto
  <2>2. Moves(c, "d_delete")
    BY <1>3 DEF Join, Goto, Moves
  <2>. QED
    BY <1>0, <2>1, <2>2, ClientMoves
<1>. QED
  BY <1>1, <1>2, <1>3

\* The destructor.
LEMMA DestroyStep ==
    ASSUME Inv, NEW c \in Clients,
           Destroy(c) \/ DestroyWait(c) \/ DestroyThread(c) \/ DestroyBase(c)
    PROVE  Inv'
<1>0. alive' \in BOOLEAN
  BY DEF Destroy, DestroyWait, DestroyThread, DestroyBase, Inv, TypeOK
<1>1. CASE Destroy(c)
  <2>1. \A d \in Clients : pc[d] = "idle"
    BY <1>1 DEF Destroy, Idle
  <2>2. alive /\ alive' = alive
    BY <1>1, <2>1 DEF Inv, DestroyOK, Destroy
  <2>3. CASE thread # 0
    <3>1. pc' = [pc EXCEPT ![c] = "d_wait"]
      BY <1>1, <2>3 DEF Destroy, Goto
    <3>2. DestroyOK'
      BY <2>1, <2>2, <3>1 DEF Inv, TypeOK, DestroyOK, Destroying
    <3>3. Moves(c, "d_wait")
      BY <1>1, <2>1, <3>1 DEF Destroy, Moves
    <3>. QED
      BY <1>0, <3>2, <3>3, ClientMoves
  <2>4. CASE thread = 0
    <3>1. pc' = [pc EXCEPT ![c] = "d_free"] /\ thread' = 0
      BY <1>1, <2>4 DEF Destroy, Goto
    <3>2. DestroyOK'
      BY <2>1, <2>2, <3>1 DEF Inv, TypeOK, DestroyOK, Destroying
    <3>3. Moves(c, "d_free")
      BY <1>1, <2>1, <3>1 DEF Destroy, Moves
    <3>. QED
      BY <1>0, <3>2, <3>3, ClientMoves
  <2>. QED
    BY <2>3, <2>4
<1>2. CASE DestroyWait(c)
  <2>1. DestroyOK'
    BY <1>2 DEF Inv, TypeOK, DestroyOK, Destroying, DestroyWait, Goto
  <2>2. Moves(c, "d_join") \/ Moves(c, "d_delete")
    BY <1>2 DEF DestroyWait, Goto, MustJoin, Moves
  <2>. QED
    BY <1>0, <2>1, <2>2, ClientMoves
<1>3. CASE DestroyThread(c)
  <2>1. DestroyOK'
    BY <1>3 DEF Inv, TypeOK, DestroyOK, Destroying, DestroyThread, Goto
  <2>2. Moves(c, "d_free") \/ Moves(c, "gone")
    BY <1>3 DEF DestroyThread, Goto, Moves
  <2>. QED
    BY <1>0, <2>1, <2>2, ClientMoves
<1>4. CASE DestroyBase(c)
  <2>1. DestroyOK'
    BY <1>4 DEF Inv, TypeOK, DestroyOK, Destroying, DestroyBase, Goto
  <2>2. Moves(c, "gone")
    BY <1>4 DEF DestroyBase, Goto, Moves
  <2>. QED
    BY <1>0, <2>1, <2>2, ClientMoves
<1>. QED
  BY <1>1, <1>2, <1>3, <1>4

\* Steps that none of the variables of the invariant takes part in.
LEMMA OtherStep ==
    ASSUME Inv, UNCHANGED <<thread, joined, run, pc, arg, alive>>
    PROVE  Inv'
<1>1. Created' = Created /\ Active' = Active /\ Starting' = Starting
  BY DEF Created, Active, Starting
<1>2. CountOK' /\ (OneStart' => OneStart)
  BY <1>1, CountFrame DEF Inv
<1>3. TypeOK' /\ RefsOK' /\ DestroyOK'
  BY <1>1 DEF Inv, TypeOK, RefsOK, DestroyOK, Destroying
<1>4. OwnedOK'
  BY <1>1, <1>2 DEF Inv, OwnedOK
<1>. QED
  BY <1>2, <1>3, <1>4 DEF Inv

\* Every step.
LEMMA StepInv == Inv /\ [Next]_vars => Inv'
<1>. SUFFICES ASSUME Inv, [Next]_vars PROVE Inv'
  OBVIOUS
<1>1. ASSUME NEW r \in Runs, RunStep(r) PROVE Inv'
  BY <1>1, RunGoesOn
<1>2. CASE EventsGone
  BY <1>2, OtherStep DEF EventsGone
<1>3. ASSUME NEW c \in Clients, ClientStep(c) PROVE Inv'
  BY <1>3, StartTakesEffect, StartReturns, WaitStep, DestroyStep DEF ClientStep
<1>4. ASSUME NEW c \in Clients, StartCheck(c) PROVE Inv'
  BY <1>4, StartChecked
<1>5. ASSUME NEW c \in Clients, stop(c) PROVE Inv'
  BY <1>5, OtherStep DEF stop
<1>6. ASSUME NEW c \in Clients, wait(c) PROVE Inv'
  BY <1>6, WaitStep
<1>7. ASSUME NEW c \in Clients, Destroy(c) PROVE Inv'
  BY <1>7, DestroyStep
<1>8. CASE UNCHANGED vars
  BY <1>8, OtherStep DEF vars
<1>. QED
  BY <1>1, <1>2, <1>3, <1>4, <1>5, <1>6, <1>7, <1>8 DEF Next

-----------------------------------------------------------------------------
\* The invariant of the Loop: runs are counted, pointers to them are good, one client
\* destroys the Loop when nobody else is in it, and a run that has not ended is held
\* by _thread or by the call of start it runs in.
THEOREM LoopInvariant == Spec => []Inv
<1>1. Init => Inv
  BY InitInv
<1>2. Inv /\ [Next]_vars => Inv'
  BY StepInv
<1>. QED
  BY <1>1, <1>2, PTL DEF Spec

\* ~Loop frees the event_base only when _run has returned: for any number of threads
\* that start, stop, wait and destroy, as long as start took effect once.
THEOREM FreedAfterRun == Spec => []JoinedBeforeFree
<1>1. Inv => JoinedBeforeFree
  <2>. SUFFICES ASSUME Inv, OneStart, ~alive, NEW r \in Active PROVE FALSE
    BY DEF JoinedBeforeFree
  <2>1. PICK c \in Clients : pc[c] = "gone"
    BY DEF Inv, DestroyOK
  <2>2. \A d \in Clients : pc[d] # "inside"
    BY <2>1 DEF Inv, DestroyOK, Destroying
  <2>3. thread = r
    BY <2>2 DEF Inv, OwnedOK
  <2>4. r # 0
    BY LoopAssumption DEF Active, Created, Runs
  <2>5. r \in joined
    BY <2>3, <2>4 DEF Inv, DestroyOK
  <2>. QED
    BY <2>5 DEF Inv, RefsOK, Active
<1>. QED
  BY <1>1, LoopInvariant, PTL
=============================================================================
