-------------------------- MODULE MRTKernel_proofs --------------------------
(***************************************************************************)
(* Theorems about MRTKernel, for any tasks, CPUs, delays and ranking of    *)
(* the ready queue: its maps agree and dispatch() always finds its CPUs,   *)
(* no exception ends the simulation, a task believes it executes exactly   *)
(* when it is on a CPU, the first NumCPU tasks of the ready queue get the  *)
(* CPUs, a switch towards one of them is carried through, and the kernel   *)
(* implements TaskPlacement.  The consistency theorems are about the first *)
(* run, or about all runs of a kernel whose switches take no time.         *)
(***************************************************************************)
EXTENDS MRTKernel, Counting

-----------------------------------------------------------------------------
(* The ready queue.                                                          *)

(* Inserting a task at any place of a queue gives a queue. *)
LEMMA InsertType ==
    ASSUME NEW q \in Seq(Tasks), NEW t \in Tasks, NEW i \in 1..Len(q) + 1
    PROVE  Insert(q, i, t) \in Seq(Tasks)
BY DEF Insert

(* Cutting one place out of a queue gives a queue. *)
LEMMA CutType ==
    ASSUME NEW q \in Seq(Tasks), NEW i \in 1..Len(q)
    PROVE  SubSeq(q, 1, i - 1) \o SubSeq(q, i + 1, Len(q)) \in Seq(Tasks)
<1>1. SubSeq(q, 1, i - 1) \in Seq(Tasks)
  OBVIOUS
<1>2. SubSeq(q, i + 1, Len(q)) \in Seq(Tasks)
  OBVIOUS
<1> QED
  BY <1>1, <1>2

(* Extracting a task from a queue gives a queue. *)
LEMMA ExtractType ==
    ASSUME NEW q \in Seq(Tasks), NEW t \in Tasks
    PROVE  Extract(q, t) \in Seq(Tasks)
<1>1. CASE t \notin Ready(q)
  BY <1>1 DEF Extract
<1>2. CASE t \in Ready(q)
  <2> DEFINE i == CHOOSE i \in 1..Len(q) : q[i] = t
  <2>1. i \in 1..Len(q)
    BY <1>2 DEF Ready
  <2>2. SubSeq(q, 1, i - 1) \o SubSeq(q, i + 1, Len(q)) \in Seq(Tasks)
    BY <2>1, CutType
  <2> QED
    BY <1>2, <2>2 DEF Extract
<1> QED
  BY <1>1, <1>2

-----------------------------------------------------------------------------
(* Starting dispatches.                                                      *)

(* dispatch() only names CPUs of the kernel. *)
LEMMA TargetsAreCPUs ==
    ASSUME NEW q \in Seq(Tasks), NEW cur,
           NEW dis \in [Tasks -> CPUs \cup {None}],
           NEW D \in DispatchTargets(q, cur, dis)
    PROVE  D \subseteq CPUs
<1>1. \A i \in Evictable(q, dis) : dis[q[i]] \in CPUs
  <2> SUFFICES ASSUME NEW i \in Evictable(q, dis)
               PROVE  dis[q[i]] \in CPUs
    OBVIOUS
  <2>1. NumCPU \in Nat
    BY CPUsAssumption, FS_CardinalityType DEF NumCPU
  <2>2. i \in 1..Len(q) /\ dis[q[i]] # None
    BY <2>1 DEF Evictable, EvictableFrom
  <2> QED
    BY <2>2
<1>2. Free(cur, dis) \subseteq CPUs
  BY DEF Free
<1> DEFINE new  == Cardinality(Fresh(q, cur, dis))
           free == Free(cur, dis)
           k    == new - Cardinality(free)
<1>3. CASE new <= Cardinality(free)
  BY <1>2, <1>3 DEF DispatchTargets
<1>4. CASE ~(new <= Cardinality(free))
  <2>1. D = free \cup {dis[q[i]] : i \in FirstOf(Evictable(q, dis), k)}
    BY <1>4 DEF DispatchTargets
  <2>2. FirstOf(Evictable(q, dis), k) \subseteq Evictable(q, dis)
    BY DEF FirstOf
  <2> QED
    BY <1>1, <1>2, <2>1, <2>2
<1> QED
  BY <1>3, <1>4

(* What every dispatch leaves well typed. *)
DispatchTyped ==
    /\ dispatched' \in [Tasks -> CPUs \cup {None}]
    /\ beginEvt' \in [CPUs -> [posted : BOOLEAN, at : Nat]]
    /\ endEvt' \in [CPUs ->
                      [posted : BOOLEAN, at : Nat, task : Tasks \cup {None}]]
    /\ exc' \in Exceptions

(* Dispatching on a set of CPUs keeps the events and the dispatched map     *)
(* well typed.                                                              *)
LEMMA DispatchOnType ==
    ASSUME TypeOK, NEW D, NEW tau \in Nat,
           NEW dis \in [Tasks -> CPUs \cup {None}],
           DispatchOn(D, dis, tau)
    PROVE  DispatchTyped
<1>1. dispatched' \in [Tasks -> CPUs \cup {None}]
  BY DEF DispatchOn
<1>2. beginEvt' \in [CPUs -> [posted : BOOLEAN, at : Nat]]
  BY DEF DispatchOn, PostBegin, BeginAt, TypeOK
<1>3. endEvt' \in [CPUs ->
                     [posted : BOOLEAN, at : Nat, task : Tasks \cup {None}]]
  BY DEF DispatchOn, TypeOK
<1>4. exc' \in Exceptions
  BY DEF DispatchOn, Exceptions
<1> QED
  BY <1>1, <1>2, <1>3, <1>4 DEF DispatchTyped

(* dispatch() keeps the types of all it writes. *)
LEMMA DispatchType ==
    ASSUME TypeOK, NEW q, NEW cur, NEW tau \in Nat,
           NEW dis \in [Tasks -> CPUs \cup {None}],
           Dispatch(q, cur, dis, tau)
    PROVE  DispatchTyped
<1>1. CASE RunsShort(q, cur, dis)
  BY <1>1 DEF Dispatch, TypeOK, DispatchTyped, Exceptions
<1>2. CASE ~RunsShort(q, cur, dis)
  BY <1>2, DispatchOnType DEF Dispatch
<1> QED
  BY <1>1, <1>2

-----------------------------------------------------------------------------
(* Type correctness.                                                         *)

(* Every variable of the kernel keeps its type. *)
THEOREM TypeCorrect == Spec => []TypeOK
<1>1. Init => TypeOK
  BY RunAssumption DEF Init, TypeOK, Exceptions
<1>2. TypeOK /\ [Next]_vars => TypeOK'
  <2> SUFFICES ASSUME TypeOK, [Next]_vars
               PROVE  TypeOK'
    OBVIOUS
  <2>1. ASSUME NEW t \in Tasks, NEW tau \in 0..EndTick, Arrival(t, tau)
        PROVE  TypeOK'
    <3>1. tau \in Nat /\ now' = tau
      BY <2>1, RunAssumption DEF Arrival, Step
    <3>2. queue' \in Seq(Tasks)
      BY <2>1, InsertType DEF Arrival, OnArrival, Places, TypeOK
    <3>3. DispatchTyped
      BY <2>1, <3>1, DispatchType DEF Arrival, OnArrival, TypeOK
    <3> QED
      BY <2>1, <3>1, <3>2, <3>3 DEF Arrival, TypeOK, DispatchTyped
  <2>2. ASSUME NEW t \in Tasks, NEW tau \in 0..EndTick, Resume(t, tau)
        PROVE  TypeOK'
    <3>1. tau \in Nat /\ now' = tau
      BY <2>2, RunAssumption DEF Resume, Step
    <3>2. queue' \in Seq(Tasks)
      BY <2>2, InsertType DEF Resume, OnArrival, Places, TypeOK
    <3>3. DispatchTyped
      BY <2>2, <3>1, DispatchType DEF Resume, OnArrival, TypeOK
    <3> QED
      BY <2>2, <3>1, <3>2, <3>3 DEF Resume, TypeOK, DispatchTyped, taskVars
  <2>3. ASSUME NEW t \in Tasks, NEW tau \in 0..EndTick, EndInstance(t, tau)
        PROVE  TypeOK'
    <3>1. tau \in Nat /\ now' = tau
      BY <2>3, RunAssumption DEF EndInstance, Step
    <3>2. CASE ProcessorsOf(t) = {} /\ exc' = "NoCPU"
               /\ UNCHANGED <<queue, oldExe, currExe, dispatchVars>>
      BY <2>3, <3>1, <3>2
      DEF EndInstance, TypeOK, dispatchVars, Exceptions
    <3>3. ASSUME NEW p \in ProcessorsOf(t), OnEnd(t, p, tau)
          PROVE  TypeOK'
      <4>1. queue' \in Seq(Tasks)
        BY <3>3, ExtractType DEF OnEnd, TypeOK
      <4>2. DispatchTyped
        BY <3>1, <3>3, DispatchOnType DEF OnEnd, TypeOK
      <4>3. p \in CPUs
        BY DEF ProcessorsOf
      <4>4. /\ oldExe' \in [Tasks -> CPUs \cup {None}]
            /\ currExe' \in [CPUs -> Tasks \cup {None}]
        BY <3>3, <4>3 DEF OnEnd, TypeOK
      <4> QED
        BY <2>3, <3>1, <4>1, <4>2, <4>4 DEF EndInstance, TypeOK, DispatchTyped
    <3> QED
      BY <2>3, <3>2, <3>3 DEF EndInstance
  <2>4. ASSUME NEW t \in Tasks, NEW tau \in 0..EndTick,
               Suspend(t, tau) \/ SuspendAndDispatch(t, tau)
        PROVE  TypeOK'
    <3>1. /\ tau \in Nat /\ now' = tau
          /\ UNCHANGED <<run, isContextSwitching, state>>
      BY <2>4, RunAssumption DEF Suspend, SuspendAndDispatch, Step
    <3> DEFINE dis == [dispatched EXCEPT ![t] = None]
    <3>2. dis \in [Tasks -> CPUs \cup {None}]
      BY DEF TypeOK
    <3>3. PICK p \in ProcessorsOf(t) : Vacate(t, p)
      BY <2>4 DEF Suspend, SuspendAndDispatch
    <3>4. DispatchTyped
      <4>1. CASE Suspend(t, tau)
        BY <3>1, <3>2, <4>1, DispatchOnType DEF Suspend
      <4>2. CASE SuspendAndDispatch(t, tau)
        <5>1. \/ /\ exc' = "CantDeschedule"
                 /\ UNCHANGED <<beginEvt, endEvt>>
                 /\ dispatched' = dis
              \/ \E D : DispatchOn(D, dis, tau)
          BY <4>2 DEF SuspendAndDispatch
        <5> QED
          BY <3>1, <3>2, <5>1, DispatchOnType
          DEF TypeOK, DispatchTyped, Exceptions
      <4> QED
        BY <2>4, <4>1, <4>2
    <3>5. queue' \in Seq(Tasks)
      BY <3>3, ExtractType DEF Vacate, TypeOK
    <3>6. p \in CPUs
      BY DEF ProcessorsOf
    <3>7. /\ oldExe' \in [Tasks -> CPUs \cup {None}]
          /\ currExe' \in [CPUs -> Tasks \cup {None}]
          /\ schedEvt' \in SUBSET Tasks
          /\ deschedEvt' \in SUBSET Tasks
      BY <3>3, <3>6 DEF Vacate, Deschedule, TypeOK
    <3> QED
      BY <3>1, <3>4, <3>5, <3>7 DEF TypeOK, DispatchTyped
  <2>5. ASSUME NEW p \in CPUs, BeginDispatch(p)
        PROVE  TypeOK'
    <3> DEFINE old == [t \in Tasks |-> IF t = currExe[p] THEN p ELSE oldExe[t]]
    <3>1. now' \in Nat /\ UNCHANGED <<run, queue, state>>
      BY <2>5 DEF BeginDispatch, Step, TypeOK
    <3>2. /\ oldExe' \in [Tasks -> CPUs \cup {None}]
          /\ currExe' \in [CPUs -> Tasks \cup {None}]
          /\ beginEvt' \in [CPUs -> [posted : BOOLEAN, at : Nat]]
          /\ isContextSwitching' \in [CPUs -> BOOLEAN]
      <4>1. /\ oldExe' = old
            /\ currExe' = [currExe EXCEPT ![p] = None]
            /\ beginEvt' = [beginEvt EXCEPT ![p].posted = FALSE]
            /\ isContextSwitching' = [isContextSwitching EXCEPT ![p] = TRUE]
        BY <2>5, Zenon DEF BeginDispatch
      <4>2. oldExe' \in [Tasks -> CPUs \cup {None}]
        BY <4>1 DEF TypeOK
      <4>3. currExe' \in [CPUs -> Tasks \cup {None}]
        BY <4>1 DEF TypeOK
      <4>4. beginEvt' \in [CPUs -> [posted : BOOLEAN, at : Nat]]
        BY <4>1 DEF TypeOK
      <4>5. isContextSwitching' \in [CPUs -> BOOLEAN]
        BY <4>1 DEF TypeOK
      <4> QED
        BY <4>2, <4>3, <4>4, <4>5
    <3>3. schedEvt' \in SUBSET Tasks /\ deschedEvt' \in SUBSET Tasks
      <4>1. currExe[p] \in Tasks \cup {None}
        BY DEF TypeOK
      <4> QED
        BY <2>5, <4>1 DEF BeginDispatch, Deschedule, TypeOK
    <3>4. dispatched' \in [Tasks -> CPUs \cup {None}]
      BY <2>5 DEF BeginDispatch, TypeOK
    <3>5. exc' \in Exceptions
      BY <2>5 DEF BeginDispatch, Exceptions
    <3>6. endEvt' \in [CPUs ->
                         [posted : BOOLEAN, at : Nat, task : Tasks \cup {None}]]
      <4>1. CASE UNCHANGED endEvt
        BY <4>1 DEF TypeOK
      <4>2. CASE \E st \in Tasks \cup {None} :
                   endEvt' = [endEvt EXCEPT ![p] =
                                [posted |-> TRUE, task |-> st,
                                 at |-> now' + Overhead(st, p, old)]]
        <5>1. PICK st \in Tasks \cup {None} :
                endEvt' = [endEvt EXCEPT ![p] =
                             [posted |-> TRUE, task |-> st,
                              at |-> now' + Overhead(st, p, old)]]
          BY <4>2
        <5> DEFINE v == now' + Overhead(st, p, old)
        <5>2. v \in Nat
          BY <3>1, DelayAssumption DEF Overhead
        <5>3. endEvt' = [endEvt EXCEPT ![p] =
                           [posted |-> TRUE, task |-> st, at |-> v]]
          BY <5>1
        <5> HIDE DEF v
        <5> QED
          BY <5>2, <5>3 DEF TypeOK
      <4> QED
        BY <2>5, <4>1, <4>2 DEF BeginDispatch
    <3> QED
      BY <3>1, <3>2, <3>3, <3>4, <3>5, <3>6 DEF TypeOK
  <2>6. ASSUME NEW p \in CPUs, EndDispatch(p)
        PROVE  TypeOK'
    <3>1. endEvt[p].task \in Tasks \cup {None} /\ endEvt[p].at \in Nat
      BY DEF TypeOK
    <3> QED
      BY <2>6, <3>1 DEF EndDispatch, Step, TypeOK
  <2>7. ASSUME NEW t \in Tasks, OnSched(t)
        PROVE  TypeOK'
    BY <2>7 DEF OnSched, TypeOK, Exceptions, dispatchVars
  <2>8. ASSUME NEW t \in Tasks, OnDesched(t)
        PROVE  TypeOK'
    BY <2>8 DEF OnDesched, TypeOK, Exceptions, dispatchVars
  <2>9. CASE NewRun
    <3>1. run' \in 1..Runs
      BY <2>9, RunAssumption DEF NewRun, TypeOK
    <3>2. \A p \in CPUs :
            /\ [beginEvt[p] EXCEPT !.posted = FALSE]
                  \in [posted : BOOLEAN, at : Nat]
            /\ [endEvt[p] EXCEPT !.posted = FALSE]
                  \in [posted : BOOLEAN, at : Nat, task : Tasks \cup {None}]
      <4> SUFFICES ASSUME NEW p \in CPUs
                   PROVE  /\ [beginEvt[p] EXCEPT !.posted = FALSE]
                                \in [posted : BOOLEAN, at : Nat]
                          /\ [endEvt[p] EXCEPT !.posted = FALSE]
                                \in [posted : BOOLEAN, at : Nat,
                                     task : Tasks \cup {None}]
        OBVIOUS
      <4>1. /\ beginEvt[p] \in [posted : BOOLEAN, at : Nat]
            /\ endEvt[p] \in [posted : BOOLEAN, at : Nat,
                              task : Tasks \cup {None}]
        BY DEF TypeOK
      <4>2. [beginEvt[p] EXCEPT !.posted = FALSE] \in [posted : BOOLEAN, at : Nat]
        BY <4>1
      <4>3. [endEvt[p] EXCEPT !.posted = FALSE]
               \in [posted : BOOLEAN, at : Nat, task : Tasks \cup {None}]
        BY <4>1
      <4> QED
        BY <4>2, <4>3
    <3>3. beginEvt' \in [CPUs -> [posted : BOOLEAN, at : Nat]]
      BY <2>9, <3>2, Zenon DEF NewRun
    <3>4. endEvt' \in [CPUs ->
                         [posted : BOOLEAN, at : Nat, task : Tasks \cup {None}]]
      BY <2>9, <3>2, Zenon DEF NewRun
    <3>5. /\ queue' = <<>> /\ now' = 0 /\ exc' = exc
          /\ currExe' = [p \in CPUs |-> None]
          /\ dispatched' = [t \in Tasks |-> None]
          /\ oldExe' = [t \in Tasks |-> None]
          /\ state' = [t \in Tasks |-> "IDLE"]
          /\ schedEvt' = {} /\ deschedEvt' = {}
          /\ isContextSwitching' = isContextSwitching
      BY <2>9, Zenon DEF NewRun, ResetKernel, ResetQueue
    <3> QED
      BY <3>1, <3>3, <3>4, <3>5 DEF TypeOK
  <2>10. CASE Stopped \/ UNCHANGED vars
    BY <2>10 DEF Stopped, vars, TypeOK
  <2> QED
    BY <2>1, <2>2, <2>3, <2>4, <2>5, <2>6, <2>7, <2>8, <2>9, <2>10
    DEF Next, Request
<1> QED
  BY <1>1, <1>2, PTL DEF Spec
-----------------------------------------------------------------------------
(* Consistency of the assignments.                                           *)

(* Consistent, for assignments that a handler has updated before it         *)
(* dispatches.                                                              *)
ConsistentWith(cur, dis) ==
    /\ \A p \in CPUs :
          /\ cur[p] # None => dis[cur[p]] = p
          /\ endEvt[p].posted /\ endEvt[p].task # None
                => dis[endEvt[p].task] = p
          /\ isContextSwitching[p] => cur[p] = None
          /\ endEvt[p].posted => isContextSwitching[p] /\ ~beginEvt[p].posted
          /\ isContextSwitching[p] /\ ~endEvt[p].posted
                => beginEvt[p].posted /\ endEvt[p].task = None
    /\ \A t \in Tasks : dis[t] # None =>
          \/ cur[dis[t]] = t
          \/ endEvt[dis[t]].posted /\ endEvt[dis[t]].task = t

(* Consistent, as a predicate of the two maps a handler is about to write. *)
LEMMA ConsistentIsConsistentWith ==
    Consistent <=> ConsistentWith(currExe, dispatched)
BY DEF Consistent, ConsistentWith, PlacedIsDispatched, DispatchedIsPlaced,
       SwitchingIsExclusive

(* Cancelling the switches of the CPUs in D, and posting their begin        *)
(* events, keeps the assignments consistent.                                *)
LEMMA DispatchOnConsistent ==
    ASSUME TypeOK, NEW D, NEW tau,
           NEW cur \in [CPUs -> Tasks \cup {None}],
           NEW dis \in [Tasks -> CPUs \cup {None}],
           ConsistentWith(cur, dis),
           D \subseteq CPUs, DispatchOn(D, dis, tau),
           currExe' = cur, isContextSwitching' = isContextSwitching
    PROVE  Consistent'
<1> USE DEF ConsistentWith
<1>1. \A t \in Tasks : t \in Cancelled(D) =>
         /\ dis[t] \in D /\ isContextSwitching[dis[t]]
         /\ endEvt[dis[t]].posted /\ endEvt[dis[t]].task = t
  <2> SUFFICES ASSUME NEW t \in Tasks, t \in Cancelled(D)
               PROVE  /\ dis[t] \in D /\ isContextSwitching[dis[t]]
                      /\ endEvt[dis[t]].posted /\ endEvt[dis[t]].task = t
    OBVIOUS
  <2>1. PICK p \in D : isContextSwitching[p] /\ endEvt[p].task = t
    BY DEF Cancelled
  <2>2. t # None
    BY NoneAssumption
  <2>3. endEvt[p].posted
    BY <2>1, <2>2
  <2> QED
    BY <2>1, <2>2, <2>3
<1>2. \A p \in CPUs : p \in D /\ isContextSwitching[p] =>
         /\ ~endEvt'[p].posted /\ endEvt'[p].task = None
         /\ beginEvt'[p].posted
  BY DEF DispatchOn, PostBegin, BeginAt
<1>3. \A p \in CPUs : ~(p \in D /\ isContextSwitching[p]) =>
         endEvt'[p] = endEvt[p]
  BY DEF DispatchOn
<1>4. \A p \in CPUs : p \notin D => beginEvt'[p] = beginEvt[p]
  BY DEF DispatchOn, PostBegin, BeginAt
<1>5. \A t \in Tasks : dispatched'[t] = IF t \in Cancelled(D) THEN None
                                        ELSE dis[t]
  BY DEF DispatchOn
<1>6. PlacedIsDispatched'
  <2> SUFFICES ASSUME NEW p \in CPUs
               PROVE  /\ cur[p] # None => dispatched'[cur[p]] = p
                      /\ endEvt'[p].posted /\ endEvt'[p].task # None
                            => dispatched'[endEvt'[p].task] = p
    BY DEF PlacedIsDispatched
  <2>1. cur[p] # None => dispatched'[cur[p]] = p
    BY <1>1, <1>5
  <2>2. ASSUME endEvt'[p].posted, endEvt'[p].task # None
        PROVE  dispatched'[endEvt'[p].task] = p
    <3>1. ~(p \in D /\ isContextSwitching[p]) /\ endEvt'[p] = endEvt[p]
      BY <1>2, <1>3, <2>2
    <3>2. endEvt[p].task \in Tasks
      BY <2>2, <3>1 DEF TypeOK
    <3> QED
      BY <1>1, <1>5, <2>2, <3>1, <3>2
  <2> QED
    BY <2>1, <2>2
<1>7. DispatchedIsPlaced'
  BY <1>1, <1>2, <1>3, <1>5 DEF DispatchedIsPlaced, Cancelled
<1>8. SwitchingIsExclusive'
  BY <1>2, <1>3, <1>4 DEF SwitchingIsExclusive
<1> QED
  BY <1>6, <1>7, <1>8 DEF Consistent
(* The same for dispatch(), whether it finds its CPUs or throws.            *)
LEMMA DispatchConsistent ==
    ASSUME TypeOK, NEW q \in Seq(Tasks), NEW tau,
           Consistent, Dispatch(q, currExe, dispatched, tau),
           currExe' = currExe, isContextSwitching' = isContextSwitching
    PROVE  Consistent'
<1> USE ConsistentIsConsistentWith
<1>1. CASE RunsShort(q, currExe, dispatched)
  BY <1>1 DEF Dispatch, Consistent, PlacedIsDispatched, DispatchedIsPlaced,
              SwitchingIsExclusive
<1>2. CASE ~RunsShort(q, currExe, dispatched)
  <2>1. PICK D \in DispatchTargets(q, currExe, dispatched) :
               DispatchOn(D, dispatched, tau)
    BY <1>2 DEF Dispatch
  <2>2. D \subseteq CPUs
    BY TargetsAreCPUs DEF TypeOK
  <2> QED
    BY <2>1, <2>2, DispatchOnConsistent DEF TypeOK
<1> QED
  BY <1>1, <1>2

(* Taking a task off the CPU it executes on keeps the assignments           *)
(* consistent: what onEnd and suspend do before they dispatch.              *)
LEMMA VacateConsistent ==
    ASSUME TypeOK, Consistent, NEW t \in Tasks, NEW p \in ProcessorsOf(t)
    PROVE  ConsistentWith([currExe EXCEPT ![p] = None],
                          [dispatched EXCEPT ![t] = None])
<1>1. p \in CPUs /\ currExe[p] = t /\ t # None
  BY NoneAssumption DEF ProcessorsOf
<1>2. dispatched[t] = p /\ ~isContextSwitching[p] /\ ~endEvt[p].posted
  BY <1>1 DEF Consistent, PlacedIsDispatched, SwitchingIsExclusive
<1> DEFINE cur == [currExe EXCEPT ![p] = None]
           dis == [dispatched EXCEPT ![t] = None]
<1>3. \A q \in CPUs : cur[q] = IF q = p THEN None ELSE currExe[q]
  BY DEF TypeOK
<1>4. \A u \in Tasks : dis[u] = IF u = t THEN None ELSE dispatched[u]
  BY DEF TypeOK
<1>5. \A q \in CPUs : currExe[q] \in Tasks \cup {None}
                     /\ endEvt[q].task \in Tasks \cup {None}
  BY DEF TypeOK
<1>6. \A u \in Tasks : dispatched[u] \in CPUs \cup {None}
  BY DEF TypeOK
<1> HIDE DEF cur, dis
<1>7. ConsistentWith(cur, dis)
  BY <1>1, <1>2, <1>3, <1>4, <1>5, <1>6, NoneAssumption
  DEF ConsistentWith, Consistent, PlacedIsDispatched, DispatchedIsPlaced,
      SwitchingIsExclusive
<1> QED
  BY <1>7 DEF cur, dis

(* A step of the kernel within a run keeps the assignments consistent.      *)
LEMMA ConsistentStep ==
    ASSUME TypeOK, Consistent, [Next]_vars, ~NewRun
    PROVE  Consistent'
<1> USE DEF Consistent, PlacedIsDispatched, DispatchedIsPlaced,
            SwitchingIsExclusive
<1>1. ASSUME NEW t \in Tasks, NEW tau,
             Arrival(t, tau) \/ Resume(t, tau)
      PROVE  Consistent'
  <2>1. \E i \in Places : queue' = Insert(queue, i, t)
    BY <1>1 DEF Arrival, Resume, OnArrival
  <2>2. queue' \in Seq(Tasks)
    BY <2>1, InsertType DEF Places, TypeOK
  <2>3. /\ Dispatch(queue', currExe, dispatched, tau)
        /\ UNCHANGED <<currExe, isContextSwitching>>
    BY <1>1 DEF Arrival, Resume, OnArrival
  <2> HIDE DEF Consistent
  <2> QED
    BY <2>2, <2>3, DispatchConsistent
<1>2. ASSUME NEW t \in Tasks, NEW tau, EndInstance(t, tau)
      PROVE  Consistent'
  <2>1. CASE UNCHANGED <<queue, oldExe, currExe, dispatchVars>>
    BY <1>2, <2>1 DEF EndInstance, dispatchVars
  <2>2. ASSUME NEW p \in ProcessorsOf(t), OnEnd(t, p, tau)
        PROVE  Consistent'
    <3> HIDE DEF Consistent
    <3> DEFINE cur == [currExe EXCEPT ![p] = None]
               dis == [dispatched EXCEPT ![t] = None]
    <3>1. /\ currExe' = cur
          /\ DispatchOn({p}, dis, tau)
          /\ isContextSwitching' = isContextSwitching
      BY <1>2, <2>2 DEF OnEnd, EndInstance
    <3>2. {p} \subseteq CPUs
      BY DEF ProcessorsOf
    <3>3. /\ cur \in [CPUs -> Tasks \cup {None}]
          /\ dis \in [Tasks -> CPUs \cup {None}]
      BY <3>2 DEF TypeOK
    <3>4. ConsistentWith(cur, dis)
      BY VacateConsistent
    <3> HIDE DEF cur, dis
    <3> QED
      BY <3>1, <3>2, <3>3, <3>4, DispatchOnConsistent
  <2> QED
    BY <1>2, <2>1, <2>2 DEF EndInstance
<1>3. ASSUME NEW t \in Tasks, NEW tau,
             Suspend(t, tau) \/ SuspendAndDispatch(t, tau)
      PROVE  Consistent'
  <2> HIDE DEF Consistent
  <2> DEFINE dis == [dispatched EXCEPT ![t] = None]
  <2>1. PICK p \in ProcessorsOf(t) :
          /\ Vacate(t, p)
          /\ \/ DispatchOn({p}, dis, tau)
             \/ UNCHANGED <<beginEvt, endEvt>> /\ dispatched' = dis
             \/ \E D \in DispatchTargets(queue', currExe', dis) :
                    DispatchOn(D \cup {p}, dis, tau)
    BY <1>3 DEF Suspend, SuspendAndDispatch
  <2> DEFINE cur == [currExe EXCEPT ![p] = None]
  <2>2. currExe' = cur /\ isContextSwitching' = isContextSwitching
    BY <1>3, <2>1 DEF Vacate, Suspend, SuspendAndDispatch
  <2>3. p \in CPUs
    BY DEF ProcessorsOf
  <2>4. /\ cur \in [CPUs -> Tasks \cup {None}]
        /\ dis \in [Tasks -> CPUs \cup {None}]
    BY <2>3 DEF TypeOK
  <2>5. queue' \in Seq(Tasks)
    BY <2>1, ExtractType DEF Vacate, TypeOK
  <2>6. ConsistentWith(cur, dis)
    BY VacateConsistent
  <2> HIDE DEF cur, dis
  <2>7. CASE UNCHANGED <<beginEvt, endEvt>> /\ dispatched' = dis
    BY <2>2, <2>6, <2>7 DEF ConsistentWith, Consistent
  <2>8. CASE \E D : D \subseteq CPUs /\ DispatchOn(D, dis, tau)
    BY <2>2, <2>4, <2>6, <2>8, DispatchOnConsistent
  <2>9. \A D \in DispatchTargets(queue', currExe', dis) : D \cup {p} \subseteq CPUs
    BY <2>3, <2>4, <2>5, TargetsAreCPUs
  <2> QED
    BY <2>1, <2>3, <2>7, <2>8, <2>9
<1>4. ASSUME NEW p \in CPUs, BeginDispatch(p)
      PROVE  Consistent'
  <2> DEFINE dt  == currExe[p]
             dis == [t \in Tasks |-> IF t = dt THEN None ELSE dispatched[t]]
  <2> DEFINE old == [t \in Tasks |-> IF t = dt THEN p ELSE oldExe[t]]
             at(st) == now' + Overhead(st, p, old)
  <2>1. PICK st \in Tasks \cup {None} :
          /\ IsNextToRun(st, queue, dis)
          /\ dispatched' = [t \in Tasks |-> IF t = st THEN p ELSE dis[t]]
          /\ \/ endEvt[p].posted
             \/ endEvt' = [endEvt EXCEPT ![p] =
                              [posted |-> TRUE, task |-> st, at |-> at(st)]]
    BY <1>4, Zenon DEF BeginDispatch
  <2>2. /\ beginEvt[p].posted
        /\ beginEvt' = [beginEvt EXCEPT ![p].posted = FALSE]
        /\ currExe' = [currExe EXCEPT ![p] = None]
        /\ isContextSwitching' = [isContextSwitching EXCEPT ![p] = TRUE]
    BY <1>4 DEF BeginDispatch
  <2>3. ~endEvt[p].posted
    BY <2>2
  <2>4. endEvt' = [endEvt EXCEPT ![p] =
                     [posted |-> TRUE, task |-> st, at |-> at(st)]]
    BY <2>1, <2>3
  <2>5. st # None => st \in Tasks /\ dis[st] = None
    BY <2>1, NoneAssumption DEF IsNextToRun
  <2>6. /\ currExe'[p] = None /\ isContextSwitching'[p] /\ ~beginEvt'[p].posted
        /\ \A q \in CPUs : q # p =>
              /\ currExe'[q] = currExe[q]
              /\ isContextSwitching'[q] = isContextSwitching[q]
              /\ beginEvt'[q] = beginEvt[q]
              /\ endEvt'[q] = endEvt[q]
    <3> HIDE DEF at
    <3> QED
      BY <2>2, <2>4 DEF TypeOK
  <2>7. endEvt'[p].posted /\ endEvt'[p].task = st
    <3> HIDE DEF at
    <3> QED
      BY <2>4 DEF TypeOK
  <2>8. \A t \in Tasks : dispatched'[t] = IF t = st THEN p
                          ELSE IF t = currExe[p] THEN None ELSE dispatched[t]
    BY <2>1
  <2>9. st # None => st \in Tasks /\ (st = currExe[p] \/ dispatched[st] = None)
    BY <2>5
  <2>10. \A q \in CPUs : currExe[q] \in Tasks \cup {None}
                         /\ endEvt[q].task \in Tasks \cup {None}
    BY DEF TypeOK
  <2>11. /\ \A q \in CPUs : q # None
         /\ \A t \in Tasks : dispatched[t] \in CPUs \cup {None}
    BY NoneAssumption DEF TypeOK
  <2> HIDE DEF dt, dis, Consistent
  <2>12. PlacedIsDispatched'
    <3>1. \A q \in CPUs : q # p /\ currExe[q] # None =>
             currExe[q] # currExe[p] /\ currExe[q] # st
      BY <2>9, <2>11 DEF Consistent
    <3>2. \A q \in CPUs : q # p /\ endEvt[q].posted /\ endEvt[q].task # None =>
             endEvt[q].task # currExe[p] /\ endEvt[q].task # st
      BY <2>9, <2>11 DEF Consistent
    <3> SUFFICES ASSUME NEW q \in CPUs
                 PROVE  /\ currExe'[q] # None => dispatched'[currExe'[q]] = q
                        /\ endEvt'[q].posted /\ endEvt'[q].task # None
                              => dispatched'[endEvt'[q].task] = q
      BY DEF PlacedIsDispatched
    <3>3. CASE q = p
      BY <2>6, <2>7, <2>8, <2>9, <3>3
    <3>4. CASE q # p
      <4>1. currExe'[q] = currExe[q] /\ endEvt'[q] = endEvt[q]
        BY <2>6, <3>4
      <4>2. ASSUME currExe[q] # None
            PROVE  dispatched'[currExe[q]] = q
        BY <2>8, <2>10, <3>1, <3>4, <4>2 DEF Consistent
      <4>3. ASSUME endEvt[q].posted, endEvt[q].task # None
            PROVE  dispatched'[endEvt[q].task] = q
        BY <2>8, <2>10, <3>2, <3>4, <4>3 DEF Consistent
      <4> QED
        BY <4>1, <4>2, <4>3
    <3> QED
      BY <3>3, <3>4
  <2>13. DispatchedIsPlaced'
    <3> SUFFICES ASSUME NEW t \in Tasks, dispatched'[t] # None
                 PROVE  \/ currExe'[dispatched'[t]] = t
                        \/ /\ endEvt'[dispatched'[t]].posted
                           /\ endEvt'[dispatched'[t]].task = t
      BY DEF DispatchedIsPlaced
    <3>1. CASE t = st
      BY <2>7, <2>8, <3>1
    <3>2. CASE t # st
      <4>1. t # currExe[p] /\ dispatched'[t] = dispatched[t]
            /\ dispatched[t] \in CPUs
        BY <2>8, <2>11, <3>2
      <4>2. dispatched[t] # p
        BY <2>3, <4>1 DEF Consistent
      <4> QED
        BY <2>6, <2>11, <4>1, <4>2 DEF Consistent
    <3> QED
      BY <3>1, <3>2
  <2>14. SwitchingIsExclusive'
    <3> SUFFICES ASSUME NEW q \in CPUs
                 PROVE  /\ isContextSwitching'[q] => currExe'[q] = None
                        /\ endEvt'[q].posted
                              => isContextSwitching'[q] /\ ~beginEvt'[q].posted
                        /\ isContextSwitching'[q] /\ ~endEvt'[q].posted
                              => beginEvt'[q].posted /\ endEvt'[q].task = None
      BY DEF SwitchingIsExclusive
    <3>1. CASE q = p
      BY <2>6, <2>7, <3>1
    <3>2. CASE q # p
      BY <2>6, <3>2 DEF Consistent
    <3> QED
      BY <3>1, <3>2
  <2> QED
    BY <2>12, <2>13, <2>14 DEF Consistent
<1>5. ASSUME NEW p \in CPUs, EndDispatch(p)
      PROVE  Consistent'
  <2> HIDE DEF Consistent
  <2>1. /\ endEvt[p].posted
        /\ currExe'[p] = endEvt[p].task
        /\ ~isContextSwitching'[p] /\ ~endEvt'[p].posted
        /\ \A q \in CPUs : q # p =>
              /\ currExe'[q] = currExe[q]
              /\ isContextSwitching'[q] = isContextSwitching[q]
              /\ endEvt'[q] = endEvt[q]
        /\ UNCHANGED <<dispatched, beginEvt>>
    BY <1>5 DEF EndDispatch, TypeOK
  <2>2. \A q \in CPUs : currExe[q] \in Tasks \cup {None}
                        /\ endEvt[q].task \in Tasks \cup {None}
    BY DEF TypeOK
  <2>3. \A t \in Tasks : dispatched[t] \in CPUs \cup {None}
    BY DEF TypeOK
  <2>4. PlacedIsDispatched'
    <3> SUFFICES ASSUME NEW q \in CPUs
                 PROVE  /\ currExe'[q] # None => dispatched[currExe'[q]] = q
                        /\ endEvt'[q].posted /\ endEvt'[q].task # None
                              => dispatched[endEvt'[q].task] = q
      BY <2>1 DEF PlacedIsDispatched
    <3> QED
      BY <2>1 DEF Consistent
  <2>5. DispatchedIsPlaced'
    <3> SUFFICES ASSUME NEW t \in Tasks, dispatched[t] # None
                 PROVE  \/ currExe'[dispatched[t]] = t
                        \/ /\ endEvt'[dispatched[t]].posted
                           /\ endEvt'[dispatched[t]].task = t
      BY <2>1 DEF DispatchedIsPlaced
    <3>1. dispatched[t] \in CPUs
      BY <2>3
    <3>2. currExe[p] = None
      BY <2>1 DEF Consistent
    <3>3. CASE dispatched[t] = p
      BY <2>1, <3>2, <3>3, NoneAssumption DEF Consistent
    <3>4. CASE dispatched[t] # p
      BY <2>1, <3>1, <3>4 DEF Consistent
    <3> QED
      BY <3>3, <3>4
  <2>6. SwitchingIsExclusive'
    <3> SUFFICES ASSUME NEW q \in CPUs
                 PROVE  /\ isContextSwitching'[q] => currExe'[q] = None
                        /\ endEvt'[q].posted
                              => isContextSwitching'[q] /\ ~beginEvt'[q].posted
                        /\ isContextSwitching'[q] /\ ~endEvt'[q].posted
                              => beginEvt'[q].posted /\ endEvt'[q].task = None
      BY DEF SwitchingIsExclusive
    <3>1. CASE q = p
      BY <2>1, <3>1
    <3>2. CASE q # p
      BY <2>1, <3>2 DEF Consistent
    <3> QED
      BY <3>1, <3>2
  <2> QED
    BY <2>4, <2>5, <2>6 DEF Consistent
<1>6. ASSUME NEW t \in Tasks, OnSched(t) \/ OnDesched(t)
      PROVE  Consistent'
  BY <1>6 DEF OnSched, OnDesched, dispatchVars
<1>7. CASE Stopped \/ UNCHANGED vars
  BY <1>7 DEF Stopped, vars
<1> QED
  BY <1>1, <1>2, <1>3, <1>4, <1>5, <1>6, <1>7 DEF Next, Request

(* In the first run what the kernel believes to be dispatched is exactly    *)
(* what executes or is being switched in, whatever the requests, and no     *)
(* exception breaks it.                                                     *)
THEOREM FirstRunConsistent == Spec => [](run = 1 => Consistent)
<1> DEFINE Inv == run = 1 => Consistent
<1>1. Init => Inv
  BY NoneAssumption DEF Init, Consistent, PlacedIsDispatched,
                        DispatchedIsPlaced, SwitchingIsExclusive
<1>2. TypeOK /\ Inv /\ [Next]_vars => Inv'
  <2> SUFFICES ASSUME TypeOK, Inv, [Next]_vars, run' = 1
               PROVE  Consistent'
    OBVIOUS
  <2>1. ~NewRun
    BY RunAssumption DEF NewRun, TypeOK
  <2>2. run = 1
    <3>1. run' = run
      BY <2>1 DEF Next, Request, Arrival, Resume, EndInstance, Suspend,
                  SuspendAndDispatch, OnSched, OnDesched, BeginDispatch,
                  EndDispatch, Stopped, vars
    <3> QED
      BY <3>1
  <2> QED
    BY <2>1, <2>2, ConsistentStep
<1> QED
  BY <1>1, <1>2, TypeCorrect, PTL DEF Spec

(* In the first run a task never executes on two CPUs.                      *)
THEOREM FirstRunExclusive == Spec => [](run = 1 => NoTaskOnTwoCPUs)
<1>1. TypeOK /\ Consistent => NoTaskOnTwoCPUs
  BY DEF TypeOK, Consistent, PlacedIsDispatched, NoTaskOnTwoCPUs
<1> QED
  BY <1>1, TypeCorrect, FirstRunConsistent, PTL

-----------------------------------------------------------------------------
(* The times of the dispatches.                                              *)

(* The longest time a context switch can take. *)
LongestSwitch == ContextSwitchDelay + MigrationDelay

(* A pending begin event, and a switch that is under way, lie neither in    *)
(* the past nor further off than one switch; a cancelled switch would have  *)
(* ended when its CPU begins anew.                                          *)
Timely ==
    \A p \in CPUs :
        /\ beginEvt[p].posted =>
              now <= beginEvt[p].at /\ beginEvt[p].at <= now + LongestSwitch
        /\ isContextSwitching[p] =>
              /\ now <= endEvt[p].at
              /\ endEvt[p].at <= now + LongestSwitch
              /\ ~endEvt[p].posted => beginEvt[p].at = endEvt[p].at

(* The exceptions of Event::post. *)
PostFails == exc \in {"AlreadyPosted", "PostedInThePast"}

(* Handlers are called before anything that is pending is due. *)
LEMMA StepIsTimely ==
    ASSUME TypeOK, Consistent, Timely, NEW tau \in Nat, Step(tau)
    PROVE  /\ now' = tau /\ now <= tau
           /\ \A p \in CPUs :
                 /\ beginEvt[p].posted => tau <= beginEvt[p].at
                 /\ isContextSwitching[p] => tau <= endEvt[p].at
<1>1. \A p \in CPUs : /\ beginEvt[p].posted => tau <= beginEvt[p].at
                      /\ endEvt[p].posted => tau <= endEvt[p].at
  BY DEF Step, PostedTimes
<1>2. \A p \in CPUs : isContextSwitching[p] => tau <= endEvt[p].at
  BY <1>1 DEF Consistent, SwitchingIsExclusive, Timely
<1> QED
  BY <1>1, <1>2 DEF Step, TypeOK

(* A dispatch at the time of the step is timely, and posts nothing in the   *)
(* past.                                                                    *)
LEMMA DispatchOnTimely ==
    ASSUME TypeOK, Consistent, Timely, NEW tau \in Nat, Step(tau),
           NEW D, NEW dis, D \subseteq CPUs, DispatchOn(D, dis, tau),
           isContextSwitching' = isContextSwitching
    PROVE  Timely' /\ exc' = "none"
<1>1. LongestSwitch \in Nat
  BY DelayAssumption DEF LongestSwitch
<1>2. /\ now' = tau /\ now <= tau /\ now \in Nat
      /\ \A p \in CPUs :
            /\ beginEvt[p].posted => tau <= beginEvt[p].at
            /\ isContextSwitching[p] => tau <= endEvt[p].at
  BY StepIsTimely DEF TypeOK
<1>3. \A p \in CPUs :
         /\ beginEvt[p].at \in Nat /\ endEvt[p].at \in Nat
         /\ beginEvt'[p] = IF p \in D
                THEN [posted |-> TRUE,
                      at |-> IF isContextSwitching[p] THEN endEvt[p].at
                                                      ELSE tau]
                ELSE beginEvt[p]
         /\ endEvt'[p] = IF p \in D /\ isContextSwitching[p]
                THEN [posted |-> FALSE, at |-> endEvt[p].at, task |-> None]
                ELSE endEvt[p]
  BY DEF DispatchOn, PostBegin, BeginAt, TypeOK
<1>4. exc' = "none"
  <2>1. exc' = IF \E p \in D : isContextSwitching[p] /\ endEvt[p].at < tau
               THEN "PostedInThePast" ELSE "none"
    BY DEF DispatchOn
  <2>2. \A p \in CPUs : endEvt[p].at \in Nat
    BY DEF TypeOK
  <2>3. \A p \in D : isContextSwitching[p] => ~(endEvt[p].at < tau)
    BY <1>2, <2>2
  <2> QED
    BY <2>1, <2>3
<1>5. ASSUME NEW p \in CPUs
      PROVE  /\ beginEvt'[p].posted =>
                   /\ tau <= beginEvt'[p].at
                   /\ beginEvt'[p].at <= tau + LongestSwitch
             /\ isContextSwitching[p] =>
                   /\ tau <= endEvt'[p].at
                   /\ endEvt'[p].at <= tau + LongestSwitch
                   /\ ~endEvt'[p].posted => beginEvt'[p].at = endEvt'[p].at
  <2> DEFINE b == beginEvt[p].at
             e == endEvt[p].at
  <2>1. b \in Nat /\ e \in Nat
    BY <1>3
  <2>2. beginEvt[p].posted => tau <= b /\ b <= tau + LongestSwitch
    BY <1>1, <1>2, <2>1 DEF Timely
  <2>3. isContextSwitching[p] =>
           /\ tau <= e /\ e <= tau + LongestSwitch
           /\ ~endEvt[p].posted => b = e
    BY <1>1, <1>2, <2>1 DEF Timely
  <2>4. tau <= tau + LongestSwitch
    BY <1>1
  <2>5. CASE p \in D
    <3>1. beginEvt'[p] = [posted |-> TRUE,
                          at |-> IF isContextSwitching[p] THEN e ELSE tau]
      BY <1>3, <2>5, Zenon
    <3>2. CASE isContextSwitching[p]
      <4>1. endEvt'[p] = [posted |-> FALSE, at |-> e, task |-> None]
        BY <1>3, <2>5, <3>2, Zenon
      <4>2. beginEvt'[p].at = e /\ endEvt'[p].at = e
        BY <3>1, <3>2, <4>1
      <4> QED
        BY <2>3, <3>2, <4>2
    <3>3. CASE ~isContextSwitching[p]
      <4>1. beginEvt'[p].at = tau
        BY <3>1, <3>3
      <4> QED
        BY <2>4, <3>3, <4>1
    <3> QED
      BY <3>2, <3>3
  <2>6. CASE p \notin D
    <3>1. beginEvt'[p] = beginEvt[p] /\ endEvt'[p] = endEvt[p]
      BY <1>3, <2>6
    <3> QED
      BY <2>2, <2>3, <3>1
  <2> QED
    BY <2>5, <2>6
<1> QED
  BY <1>2, <1>4, <1>5 DEF Timely

(* A step that leaves the events of all CPUs alone is timely. *)
LEMMA WaitingIsTimely ==
    ASSUME TypeOK, Consistent, Timely, NEW tau \in Nat, Step(tau),
           UNCHANGED <<beginEvt, endEvt, isContextSwitching>>
    PROVE  Timely'
<1>1. LongestSwitch \in Nat
  BY DelayAssumption DEF LongestSwitch
<1>2. \A p \in CPUs : beginEvt[p].at \in Nat /\ endEvt[p].at \in Nat
  BY DEF TypeOK
<1> QED
  BY <1>1, <1>2, StepIsTimely DEF Timely, TypeOK

(* Within a run every step keeps the dispatches timely, and no post of the  *)
(* kernel fails.                                                            *)
LEMMA TimelyStep ==
    ASSUME TypeOK, Consistent, Timely, [Next]_vars, ~NewRun
    PROVE  Timely' /\ (PostFails' => PostFails)
<1> DEFINE Goal == Timely' /\ (PostFails' => PostFails)
<1>1. ASSUME NEW t \in Tasks, NEW tau \in Nat,
             Arrival(t, tau) \/ Resume(t, tau)
      PROVE  Goal
  <2>1. /\ Step(tau) /\ isContextSwitching' = isContextSwitching
        /\ Dispatch(queue', currExe, dispatched, tau)
        /\ \E i \in Places : queue' = Insert(queue, i, t)
    BY <1>1 DEF Arrival, Resume, OnArrival
  <2>2. queue' \in Seq(Tasks)
    BY <2>1, InsertType DEF Places, TypeOK
  <2>3. CASE exc' = "CantDeschedule" /\ UNCHANGED <<beginEvt, endEvt>>
    BY <2>1, <2>3, WaitingIsTimely DEF PostFails
  <2>4. CASE \E D \in DispatchTargets(queue', currExe, dispatched) :
                 DispatchOn(D, dispatched, tau)
    <3>1. PICK D \in DispatchTargets(queue', currExe, dispatched) :
                 DispatchOn(D, dispatched, tau)
      BY <2>4
    <3>2. D \subseteq CPUs
      BY <2>2, TargetsAreCPUs DEF TypeOK
    <3> QED
      BY <2>1, <3>1, <3>2, DispatchOnTimely DEF PostFails
  <2> QED
    BY <2>1, <2>3, <2>4 DEF Dispatch
<1>2. ASSUME NEW t \in Tasks, NEW tau \in Nat, EndInstance(t, tau)
      PROVE  Goal
  <2>1. Step(tau) /\ isContextSwitching' = isContextSwitching
    BY <1>2 DEF EndInstance
  <2>2. CASE exc' = "NoCPU" /\ UNCHANGED dispatchVars
    BY <2>1, <2>2, WaitingIsTimely DEF PostFails, dispatchVars
  <2>3. CASE \E p \in CPUs : \E dis : DispatchOn({p}, dis, tau)
    <3>1. PICK p \in CPUs : \E dis : DispatchOn({p}, dis, tau)
      BY <2>3
    <3>2. {p} \subseteq CPUs
      OBVIOUS
    <3> QED
      BY <2>1, <3>1, <3>2, DispatchOnTimely DEF PostFails
  <2> QED
    BY <1>2, <2>2, <2>3 DEF EndInstance, OnEnd, ProcessorsOf
<1>3. ASSUME NEW t \in Tasks, NEW tau \in Nat,
             Suspend(t, tau) \/ SuspendAndDispatch(t, tau)
      PROVE  Goal
  <2> DEFINE dis == [dispatched EXCEPT ![t] = None]
  <2>1. PICK p \in ProcessorsOf(t) :
          /\ Vacate(t, p)
          /\ \/ DispatchOn({p}, dis, tau)
             \/ exc' = "CantDeschedule" /\ UNCHANGED <<beginEvt, endEvt>>
             \/ \E D \in DispatchTargets(queue', currExe', dis) :
                    DispatchOn(D \cup {p}, dis, tau)
    BY <1>3 DEF Suspend, SuspendAndDispatch
  <2>2. Step(tau) /\ isContextSwitching' = isContextSwitching
    BY <1>3 DEF Suspend, SuspendAndDispatch
  <2>3. p \in CPUs /\ queue' \in Seq(Tasks)
    BY <2>1, ExtractType DEF ProcessorsOf, Vacate, TypeOK
  <2>4. dis \in [Tasks -> CPUs \cup {None}]
    BY DEF TypeOK
  <2> HIDE DEF dis
  <2>5. \A D \in DispatchTargets(queue', currExe', dis) : D \cup {p} \subseteq CPUs
    BY <2>3, <2>4, TargetsAreCPUs
  <2>6. CASE exc' = "CantDeschedule" /\ UNCHANGED <<beginEvt, endEvt>>
    BY <2>2, <2>6, WaitingIsTimely DEF PostFails
  <2>7. CASE \E D : D \subseteq CPUs /\ DispatchOn(D, dis, tau)
    BY <2>2, <2>7, DispatchOnTimely DEF PostFails
  <2> QED
    BY <2>1, <2>3, <2>5, <2>6, <2>7
<1>4. ASSUME NEW p \in CPUs, BeginDispatch(p)
      PROVE  Goal
  <2> DEFINE tau == beginEvt[p].at
             old == [t \in Tasks |-> IF t = currExe[p] THEN p ELSE oldExe[t]]
             lag(st) == Overhead(st, p, old)
  <2>1. /\ beginEvt[p].posted /\ Step(tau) /\ tau \in Nat
        /\ beginEvt' = [beginEvt EXCEPT ![p].posted = FALSE]
        /\ isContextSwitching' = [isContextSwitching EXCEPT ![p] = TRUE]
    BY <1>4 DEF BeginDispatch, TypeOK
  <2>2. ~endEvt[p].posted
    BY <2>1 DEF Consistent, SwitchingIsExclusive
  <2>3. PICK st :
          /\ exc' = "none"
          /\ endEvt' = [endEvt EXCEPT ![p] =
                          [posted |-> TRUE, task |-> st, at |-> now' + lag(st)]]
    BY <1>4, <2>2, Zenon DEF BeginDispatch
  <2>4. lag(st) \in Nat /\ lag(st) <= LongestSwitch /\ LongestSwitch \in Nat
    BY DelayAssumption DEF Overhead, LongestSwitch
  <2> HIDE DEF lag
  <2>5. /\ now' = tau /\ now <= tau
        /\ \A q \in CPUs : /\ beginEvt[q].posted => tau <= beginEvt[q].at
                           /\ isContextSwitching[q] => tau <= endEvt[q].at
    BY <2>1, StepIsTimely
  <2>6. /\ endEvt'[p].posted /\ endEvt'[p].at = now' + lag(st)
        /\ ~beginEvt'[p].posted
        /\ \A q \in CPUs : q # p =>
              /\ isContextSwitching'[q] = isContextSwitching[q]
              /\ beginEvt'[q] = beginEvt[q]
              /\ endEvt'[q] = endEvt[q]
    BY <2>1, <2>3 DEF TypeOK
  <2> HIDE DEF tau
  <2>7. ASSUME NEW q \in CPUs
        PROVE  /\ beginEvt'[q].posted =>
                     /\ now' <= beginEvt'[q].at
                     /\ beginEvt'[q].at <= now' + LongestSwitch
               /\ isContextSwitching'[q] =>
                     /\ now' <= endEvt'[q].at
                     /\ endEvt'[q].at <= now' + LongestSwitch
                     /\ ~endEvt'[q].posted => beginEvt'[q].at = endEvt'[q].at
    <3>1. CASE q = p
      BY <2>1, <2>4, <2>5, <2>6, <3>1
    <3>2. CASE q # p
      <4>1. beginEvt[q].at \in Nat /\ endEvt[q].at \in Nat /\ now \in Nat
        BY DEF TypeOK
      <4> QED
        BY <2>1, <2>4, <2>5, <2>6, <3>2, <4>1 DEF Timely
    <3> QED
      BY <3>1, <3>2
  <2> QED
    BY <2>3, <2>7 DEF Timely, PostFails
<1>5. ASSUME NEW p \in CPUs, EndDispatch(p)
      PROVE  Goal
  <2> DEFINE tau == endEvt[p].at
  <2>1. /\ Step(tau) /\ tau \in Nat
        /\ ~isContextSwitching'[p]
        /\ \A q \in CPUs : q # p =>
              /\ isContextSwitching'[q] = isContextSwitching[q]
              /\ endEvt'[q] = endEvt[q]
        /\ UNCHANGED <<beginEvt, exc>>
    BY <1>5 DEF EndDispatch, TypeOK
  <2> HIDE DEF tau
  <2>2. /\ now' = tau /\ now <= tau
        /\ \A q \in CPUs : /\ beginEvt[q].posted => tau <= beginEvt[q].at
                           /\ isContextSwitching[q] => tau <= endEvt[q].at
    BY <2>1, StepIsTimely
  <2>3. LongestSwitch \in Nat /\ now \in Nat
        /\ \A q \in CPUs : beginEvt[q].at \in Nat /\ endEvt[q].at \in Nat
    BY DelayAssumption DEF LongestSwitch, TypeOK
  <2>4. Timely'
    BY <2>1, <2>2, <2>3 DEF Timely
  <2> QED
    BY <2>1, <2>4 DEF PostFails
<1>6. ASSUME NEW t \in Tasks, OnSched(t) \/ OnDesched(t)
      PROVE  Goal
  <2>1. UNCHANGED <<now, beginEvt, endEvt, isContextSwitching>>
    BY <1>6 DEF OnSched, OnDesched, dispatchVars
  <2>2. ~PostFails'
    BY <1>6 DEF OnSched, OnDesched, PostFails
  <2> QED
    BY <2>1, <2>2 DEF Timely
<1>7. CASE Stopped \/ UNCHANGED vars
  BY <1>7 DEF Stopped, vars, Timely, PostFails
<1>8. 0..EndTick \subseteq Nat
  OBVIOUS
<1> QED
  BY <1>1, <1>2, <1>3, <1>4, <1>5, <1>6, <1>7, <1>8 DEF Next, Request

(* Timely dispatches are prompt. *)
LEMMA TimelyIsPrompt ==
    ASSUME TypeOK, Consistent, Timely
    PROVE  DispatchIsPrompt
<1>1. /\ LongestSwitch = ContextSwitchDelay + MigrationDelay
      /\ ContextSwitchDelay \in Nat /\ MigrationDelay \in Nat /\ now \in Nat
  BY DelayAssumption DEF LongestSwitch, TypeOK
<1>2. \A p \in CPUs : beginEvt[p].posted => beginEvt[p].at <= now + LongestSwitch
  BY DEF Timely
<1>3. \A p \in CPUs : endEvt[p].posted => endEvt[p].at <= now + LongestSwitch
  BY DEF Timely, Consistent, SwitchingIsExclusive
<1>4. \A u \in PostedTimes : u \in Nat /\ u <= now + LongestSwitch
  BY <1>2, <1>3 DEF PostedTimes, TypeOK
<1> QED
  BY <1>1, <1>4 DEF DispatchIsPrompt

(* The first run begins with nothing pending. *)
LEMMA InitTimely == Init => Consistent /\ Timely /\ ~PostFails
BY NoneAssumption DEF Init, Consistent, PlacedIsDispatched, DispatchedIsPlaced,
                      SwitchingIsExclusive, Timely, PostFails

(* Only NewRun changes the run. *)
LEMMA SameRun == ASSUME [Next]_vars, ~NewRun PROVE run' = run
BY DEF Next, Request, Arrival, Resume, EndInstance, Suspend,
       SuspendAndDispatch, OnSched, OnDesched, BeginDispatch, EndDispatch,
       Stopped, vars

(* In the first run the dispatches are timely: what the next two theorems   *)
(* rest on.                                                                 *)
LEMMA FirstRunTimely ==
    Spec => [](run = 1 => Consistent /\ Timely /\ ~PostFails)
<1> DEFINE Inv == run = 1 => Consistent /\ Timely /\ ~PostFails
<1>1. Init => Inv
  BY InitTimely
<1>2. TypeOK /\ Inv /\ [Next]_vars => Inv'
  <2> SUFFICES ASSUME TypeOK, Inv, [Next]_vars, run' = 1
               PROVE  Consistent' /\ Timely' /\ ~PostFails'
    OBVIOUS
  <2>1. ~NewRun
    BY RunAssumption DEF NewRun, TypeOK
  <2>2. run = 1
    BY <2>1, SameRun
  <2> QED
    BY <2>1, <2>2, ConsistentStep, TimelyStep
<1> QED
  BY <1>1, <1>2, TypeCorrect, PTL DEF Spec

(* In the first run no dispatch is put off for longer than one context      *)
(* switch, however often new requests cancel it.                            *)
THEOREM FirstRunPrompt == Spec => [](run = 1 => DispatchIsPrompt)
<1>1. TypeOK /\ Consistent /\ Timely => DispatchIsPrompt
  BY TimelyIsPrompt
<1> QED
  BY <1>1, TypeCorrect, FirstRunTimely, PTL

(* In the first run the kernel never posts an event twice, nor in the past. *)
THEOREM FirstRunPosts == Spec => [](run = 1 => ~PostFails)
BY FirstRunTimely, PTL

-----------------------------------------------------------------------------
(* The default kernel, whose context switches take no time.                  *)

NoDelays == ContextSwitchDelay = 0 /\ MigrationDelay = 0

(* A run is not over while a CPU switches, so that no switch is left for    *)
(* the next run.                                                            *)
SwitchesInRun == \A p \in CPUs : isContextSwitching[p] => ~RunOver

DefaultInv == Consistent /\ Timely /\ SwitchesInRun /\ ~PostFails

(* Without delays the time does not advance while a CPU switches, and a     *)
(* switch that begins does so before the end of the run.                    *)
LEMMA SwitchesInRunStep ==
    ASSUME NoDelays, TypeOK, DefaultInv, [Next]_vars, ~NewRun
    PROVE  SwitchesInRun'
<1>1. \A p \in CPUs :
         /\ beginEvt[p].posted => beginEvt[p].at = now
         /\ isContextSwitching[p] => endEvt[p].at = now
  <2>1. \A p \in CPUs : beginEvt[p].at \in Nat /\ endEvt[p].at \in Nat
    BY DEF TypeOK
  <2>2. LongestSwitch = 0 /\ now \in Nat
    BY DEF NoDelays, LongestSwitch, TypeOK
  <2> QED
    BY <2>1, <2>2 DEF DefaultInv, Timely
<1>2. ASSUME NEW tau \in Nat, Step(tau), NEW p \in CPUs, isContextSwitching[p]
      PROVE  now' = now
  <2>1. endEvt[p].posted \/ beginEvt[p].posted
    BY <1>2 DEF DefaultInv, Consistent, SwitchingIsExclusive
  <2>2. now \in PostedTimes
    BY <1>1, <1>2, <2>1 DEF PostedTimes
  <2> QED
    BY <1>2, <2>2 DEF Step, TypeOK
<1>3. ASSUME NEW t \in Tasks, NEW tau \in Nat,
             \/ Arrival(t, tau) \/ Resume(t, tau) \/ EndInstance(t, tau)
             \/ Suspend(t, tau) \/ SuspendAndDispatch(t, tau)
      PROVE  SwitchesInRun'
  <2>1. Step(tau) /\ isContextSwitching' = isContextSwitching
    BY <1>3 DEF Arrival, Resume, EndInstance, Suspend, SuspendAndDispatch
  <2> QED
    BY <1>2, <2>1 DEF DefaultInv, SwitchesInRun, RunOver
<1>4. ASSUME NEW p \in CPUs, BeginDispatch(p) \/ EndDispatch(p)
      PROVE  SwitchesInRun'
  <2>1. now' = now /\ ~RunOver
    <3>1. CASE BeginDispatch(p)
      BY <1>1, <3>1 DEF BeginDispatch, Step, Running
    <3>2. CASE EndDispatch(p)
      <4>1. endEvt[p].posted /\ now' = endEvt[p].at /\ ~RunOver
        BY <3>2 DEF EndDispatch, Step, Running
      <4>2. isContextSwitching[p]
        BY <4>1 DEF DefaultInv, Consistent, SwitchingIsExclusive
      <4> QED
        BY <1>1, <4>1, <4>2
    <3> QED
      BY <1>4, <3>1, <3>2
  <2> QED
    BY <2>1 DEF SwitchesInRun, RunOver
<1>5. ASSUME NEW t \in Tasks, OnSched(t) \/ OnDesched(t)
      PROVE  SwitchesInRun'
  <2>1. UNCHANGED <<now, isContextSwitching>>
    BY <1>5 DEF OnSched, OnDesched
  <2> QED
    BY <2>1 DEF DefaultInv, SwitchesInRun, RunOver
<1>6. CASE Stopped \/ UNCHANGED vars
  BY <1>6 DEF Stopped, vars, DefaultInv, SwitchesInRun, RunOver
<1>7. 0..EndTick \subseteq Nat
  OBVIOUS
<1> QED
  BY <1>3, <1>4, <1>5, <1>6, <1>7 DEF Next, Request

(* A new run of the default kernel starts as the first one did, although    *)
(* newRun leaves _isContextSwitching alone.                                 *)
LEMMA NewRunIsClean ==
    ASSUME TypeOK, DefaultInv, NewRun
    PROVE  DefaultInv'
<1>1. \A p \in CPUs : ~isContextSwitching[p]
  BY DEF NewRun, DefaultInv, SwitchesInRun
<1>2. /\ currExe' = [p \in CPUs |-> None]
      /\ dispatched' = [t \in Tasks |-> None]
      /\ isContextSwitching' = isContextSwitching
      /\ exc' = "none"
  BY Zenon DEF NewRun, ResetKernel
<1>3. \A p \in CPUs : ~beginEvt'[p].posted /\ ~endEvt'[p].posted
  <2>1. /\ beginEvt' = [p \in CPUs |-> [beginEvt[p] EXCEPT !.posted = FALSE]]
        /\ endEvt' = [p \in CPUs |-> [endEvt[p] EXCEPT !.posted = FALSE]]
    BY DEF NewRun
  <2>2. \A p \in CPUs : /\ beginEvt[p] \in [posted : BOOLEAN, at : Nat]
                        /\ endEvt[p] \in [posted : BOOLEAN, at : Nat,
                                          task : Tasks \cup {None}]
    BY DEF TypeOK
  <2> QED
    BY <2>1, <2>2
<1>4. Consistent'
  BY <1>1, <1>2, <1>3 DEF Consistent, PlacedIsDispatched, DispatchedIsPlaced,
                          SwitchingIsExclusive
<1>5. Timely' /\ SwitchesInRun' /\ ~PostFails'
  BY <1>1, <1>2, <1>3 DEF Timely, SwitchesInRun, PostFails
<1> QED
  BY <1>4, <1>5 DEF DefaultInv

(* What the theorems about the default kernel rest on. *)
LEMMA DefaultInvariant ==
    ASSUME NoDelays
    PROVE  Spec => [](TypeOK /\ DefaultInv)
<1>1. Init => DefaultInv
  <2>1. Init => SwitchesInRun
    BY DEF Init, SwitchesInRun
  <2> QED
    BY <2>1, InitTimely DEF DefaultInv
<1>2. TypeOK /\ DefaultInv /\ [Next]_vars => DefaultInv'
  <2> SUFFICES ASSUME TypeOK, DefaultInv, [Next]_vars
               PROVE  DefaultInv'
    OBVIOUS
  <2>1. CASE NewRun
    BY <2>1, NewRunIsClean
  <2>2. CASE ~NewRun
    <3>1. Consistent' /\ Timely' /\ ~PostFails'
      BY <2>2, ConsistentStep, TimelyStep DEF DefaultInv
    <3> QED
      BY <2>2, <3>1, SwitchesInRunStep DEF DefaultInv
  <2> QED
    BY <2>1, <2>2
<1> QED
  BY <1>1, <1>2, TypeCorrect, PTL DEF Spec

(* With the default delays the kernel's maps agree in every run.            *)
THEOREM DefaultConsistent ==
    ASSUME NoDelays
    PROVE  Spec => []Consistent
<1>1. DefaultInv => Consistent
  BY DEF DefaultInv
<1> QED
  BY <1>1, DefaultInvariant, PTL

(* With the default delays no task executes on two CPUs, in any run: what   *)
(* happens in later runs of a kernel whose switches take time cannot        *)
(* happen.                                                                  *)
THEOREM DefaultExclusive ==
    ASSUME NoDelays
    PROVE  Spec => []NoTaskOnTwoCPUs
<1>1. TypeOK /\ Consistent => NoTaskOnTwoCPUs
  BY DEF TypeOK, Consistent, PlacedIsDispatched, NoTaskOnTwoCPUs
<1> QED
  BY <1>1, DefaultConsistent, TypeCorrect, PTL

(* With the default delays every dispatch happens in the instant of its     *)
(* request, in every run.                                                   *)
THEOREM DefaultPrompt ==
    ASSUME NoDelays
    PROVE  Spec => []DispatchIsPrompt
<1>1. TypeOK /\ DefaultInv => DispatchIsPrompt
  BY TimelyIsPrompt DEF DefaultInv
<1> QED
  BY <1>1, DefaultInvariant, PTL

-----------------------------------------------------------------------------
(* A dispatched task is in the ready queue.                                  *)

(* Inserting a task keeps those that were there. *)
LEMMA InsertKeeps ==
    ASSUME NEW q \in Seq(Tasks), NEW t \in Tasks, NEW i \in 1..Len(q) + 1,
           NEW u \in Ready(q)
    PROVE  u \in Ready(Insert(q, i, t))
<1>1. PICK k \in 1..Len(q) : q[k] = u
  BY DEF Ready
<1> DEFINE a == SubSeq(q, 1, i - 1) \o <<t>>
           b == SubSeq(q, i, Len(q))
<1>2. a \in Seq(Tasks) /\ Len(a) = i /\ (k < i => a[k] = q[k])
  OBVIOUS
<1>3. b \in Seq(Tasks) /\ Len(b) = Len(q) - i + 1
      /\ (k >= i => b[k + 1 - i] = q[k])
  OBVIOUS
<1>4. Insert(q, i, t) = a \o b
  BY DEF Insert
<1> HIDE DEF a, b
<1>5. CASE k < i
  <2>1. Insert(q, i, t)[k] = u /\ k \in 1..Len(Insert(q, i, t))
    BY <1>1, <1>2, <1>3, <1>4, <1>5
  <2> QED
    BY <2>1 DEF Ready
<1>6. CASE k >= i
  <2>1. Insert(q, i, t)[k + 1] = u /\ k + 1 \in 1..Len(Insert(q, i, t))
    BY <1>1, <1>2, <1>3, <1>4, <1>6
  <2> QED
    BY <2>1 DEF Ready
<1> QED
  BY <1>5, <1>6

(* Extracting a task keeps all others. *)
LEMMA ExtractKeeps ==
    ASSUME NEW q \in Seq(Tasks), NEW t \in Tasks, NEW u \in Ready(q), u # t
    PROVE  u \in Ready(Extract(q, t))
<1>1. CASE t \notin Ready(q)
  BY <1>1 DEF Extract
<1>2. CASE t \in Ready(q)
  <2> DEFINE i == CHOOSE i \in 1..Len(q) : q[i] = t
             r == SubSeq(q, 1, i - 1) \o SubSeq(q, i + 1, Len(q))
  <2>1. i \in 1..Len(q) /\ q[i] = t
    BY <1>2 DEF Ready
  <2>2. Extract(q, t) = r
    BY <1>2 DEF Extract
  <2>3. PICK k \in 1..Len(q) : q[k] = u
    BY DEF Ready
  <2> HIDE DEF i
  <2> DEFINE a == SubSeq(q, 1, i - 1)
             b == SubSeq(q, i + 1, Len(q))
  <2>a. a \in Seq(Tasks) /\ Len(a) = i - 1 /\ (k < i => a[k] = q[k])
    BY <2>1
  <2>b. /\ b \in Seq(Tasks) /\ Len(b) = Len(q) - i
        /\ k > i => b[k - i] = q[k]
    BY <2>1
  <2>c. r = a \o b
    OBVIOUS
  <2> HIDE DEF a, b, r
  <2>4. CASE k < i
    <3>1. r[k] = u /\ k \in 1..Len(r)
      BY <2>1, <2>3, <2>4, <2>a, <2>b, <2>c
    <3> QED
      BY <2>2, <3>1 DEF Ready
  <2>5. CASE k > i
    <3>1. r[k - 1] = u /\ k - 1 \in 1..Len(r)
      BY <2>1, <2>3, <2>5, <2>a, <2>b, <2>c
    <3> QED
      BY <2>2, <3>1 DEF Ready
  <2> QED
    BY <2>1, <2>3, <2>4, <2>5
<1> QED
  BY <1>1, <1>2

(* A dispatch promises no CPU to a task that had none. *)
LEMMA DispatchOnKeeps ==
    ASSUME NEW D, NEW dis, NEW tau, DispatchOn(D, dis, tau)
    PROVE  \A t \in Tasks : dispatched'[t] # None => dis[t] # None
BY DEF DispatchOn

(* A task that ended or was suspended is not left on a CPU nor on its way   *)
(* to one, in any run.                                                      *)
THEOREM DispatchedAreReady == Spec => []DispatchedIsReady
<1>1. Init => DispatchedIsReady
  BY DEF Init, DispatchedIsReady
<1>2. TypeOK /\ DispatchedIsReady /\ [Next]_vars => DispatchedIsReady'
  <2> SUFFICES ASSUME TypeOK, DispatchedIsReady, [Next]_vars
               PROVE  DispatchedIsReady'
    OBVIOUS
  <2>1. ASSUME NEW t \in Tasks, NEW tau, Arrival(t, tau) \/ Resume(t, tau)
        PROVE  DispatchedIsReady'
    <3>1. PICK i \in 1..Len(queue) + 1 :
            /\ queue' = Insert(queue, i, t)
            /\ Dispatch(queue', currExe, dispatched, tau)
      BY <2>1 DEF Arrival, Resume, OnArrival, Places
    <3>2. \A u \in Tasks : dispatched'[u] # None => dispatched[u] # None
      BY <3>1, DispatchOnKeeps DEF Dispatch
    <3> QED
      BY <3>1, <3>2, InsertKeeps DEF DispatchedIsReady, TypeOK
  <2>2. ASSUME NEW t \in Tasks, NEW tau,
               \/ EndInstance(t, tau)
               \/ Suspend(t, tau)
               \/ SuspendAndDispatch(t, tau)
        PROVE  DispatchedIsReady'
    <3> DEFINE dis == [dispatched EXCEPT ![t] = None]
    <3>1. CASE UNCHANGED <<queue, dispatched>>
      BY <3>1 DEF DispatchedIsReady
    <3>2. CASE /\ queue' = Extract(queue, t)
               /\ dispatched' = dis \/ \E D : DispatchOn(D, dis, tau)
      <4>1. \A u \in Tasks : dispatched'[u] # None => dis[u] # None
        BY <3>2, DispatchOnKeeps
      <4>2. \A u \in Tasks : dis[u] # None => dispatched[u] # None /\ u # t
        BY DEF TypeOK
      <4> QED
        BY <3>2, <4>1, <4>2, ExtractKeeps DEF DispatchedIsReady, TypeOK
    <3> QED
      BY <2>2, <3>1, <3>2
      DEF EndInstance, OnEnd, Suspend, SuspendAndDispatch, Vacate,
          dispatchVars
  <2>3. ASSUME NEW p \in CPUs, BeginDispatch(p)
        PROVE  DispatchedIsReady'
    <3> DEFINE dis == [t \in Tasks |-> IF t = currExe[p] THEN None
                                       ELSE dispatched[t]]
    <3>1. PICK st \in Tasks \cup {None} :
            /\ IsNextToRun(st, queue, dis)
            /\ dispatched' = [t \in Tasks |-> IF t = st THEN p ELSE dis[t]]
      BY <2>3, Zenon DEF BeginDispatch
    <3>2. queue' = queue
      BY <2>3 DEF BeginDispatch
    <3>3. st # None => st \in Ready(queue)
      BY <3>1, NoneAssumption DEF IsNextToRun, Ready
    <3> QED
      BY <3>1, <3>2, <3>3, NoneAssumption DEF DispatchedIsReady
  <2>4. ASSUME NEW p \in CPUs, EndDispatch(p)
        PROVE  DispatchedIsReady'
    BY <2>4 DEF EndDispatch, DispatchedIsReady
  <2>5. ASSUME NEW t \in Tasks, OnSched(t) \/ OnDesched(t)
        PROVE  DispatchedIsReady'
    BY <2>5 DEF OnSched, OnDesched, dispatchVars, DispatchedIsReady
  <2>6. CASE NewRun
    <3>1. dispatched' = [t \in Tasks |-> None]
      BY <2>6, Zenon DEF NewRun, ResetKernel
    <3> QED
      BY <3>1 DEF DispatchedIsReady
  <2>7. CASE Stopped \/ UNCHANGED vars
    BY <2>7 DEF Stopped, vars, DispatchedIsReady
  <2> QED
    BY <2>1, <2>2, <2>3, <2>4, <2>5, <2>6, <2>7 DEF Next, Request
<1> QED
  BY <1>1, <1>2, TypeCorrect, PTL DEF Spec

-----------------------------------------------------------------------------
(* The ready queue.                                                          *)

(* A task is in the queue at most once. *)
NoRepeats(q) == \A i, j \in 1..Len(q) : q[i] = q[j] => i = j

(* What two sequences hold when they are joined. *)
LEMMA JoinPlaces ==
    ASSUME NEW a \in Seq(Tasks), NEW b \in Seq(Tasks)
    PROVE  /\ Len(a \o b) = Len(a) + Len(b)
           /\ \A k \in 1..Len(a) + Len(b) :
                 (a \o b)[k] = IF k <= Len(a) THEN a[k] ELSE b[k - Len(a)]
OBVIOUS

(* What a queue holds after an insertion, place by place. *)
LEMMA InsertPlaces ==
    ASSUME NEW q \in Seq(Tasks), NEW t \in Tasks, NEW i \in 1..Len(q) + 1
    PROVE  /\ Len(Insert(q, i, t)) = Len(q) + 1
           /\ \A k \in 1..Len(q) + 1 :
                 Insert(q, i, t)[k] = IF k < i THEN q[k]
                                      ELSE IF k = i THEN t ELSE q[k - 1]
<1> DEFINE a == SubSeq(q, 1, i - 1) \o <<t>>
           b == SubSeq(q, i, Len(q))
<1>1. /\ a \in Seq(Tasks) /\ Len(a) = i /\ a[i] = t
      /\ \A k \in 1..i-1 : a[k] = q[k]
  OBVIOUS
<1>2. /\ b \in Seq(Tasks) /\ Len(b) = Len(q) - i + 1
      /\ \A k \in 1..Len(q) - i + 1 : b[k] = q[i + k - 1]
  OBVIOUS
<1>3. Insert(q, i, t) = a \o b
  BY DEF Insert
<1> HIDE DEF a, b
<1>a. /\ Len(a \o b) = Len(a) + Len(b)
      /\ \A k \in 1..Len(a) + Len(b) :
            (a \o b)[k] = IF k <= Len(a) THEN a[k] ELSE b[k - Len(a)]
  BY <1>1, <1>2, JoinPlaces
<1>b. Len(a) + Len(b) = Len(q) + 1
  BY <1>1, <1>2
<1>4. Len(a \o b) = Len(q) + 1
  BY <1>a, <1>b
<1>5. ASSUME NEW k \in 1..Len(q) + 1
      PROVE  (a \o b)[k] = IF k < i THEN q[k]
                           ELSE IF k = i THEN t ELSE q[k - 1]
  <2>0. k \in Int /\ i \in Int
    OBVIOUS
  <2>1. CASE k <= i
    <3>1. (a \o b)[k] = a[k]
      BY <1>1, <1>a, <1>b, <2>1
    <3> QED
      BY <1>1, <2>1, <3>1
  <2>2. CASE k > i
    <3>1. (a \o b)[k] = b[k - i]
      BY <1>1, <1>a, <1>b, <2>2
    <3>2. b[k - i] = q[k - 1]
      BY <1>2, <2>2
    <3> QED
      BY <2>0, <2>2, <3>1, <3>2
  <2>3. k <= i \/ k > i
    BY <2>0
  <2> QED
    BY <2>1, <2>2, <2>3, Zenon
<1> QED
  BY <1>3, <1>4, <1>5

(* What a queue holds after an extraction, place by place. *)
LEMMA ExtractPlaces ==
    ASSUME NEW q \in Seq(Tasks), NEW t \in Ready(q)
    PROVE  \E i \in 1..Len(q) :
              /\ q[i] = t
              /\ Len(Extract(q, t)) = Len(q) - 1
              /\ \A k \in 1..Len(q) - 1 :
                    Extract(q, t)[k] = IF k < i THEN q[k] ELSE q[k + 1]
<1> DEFINE i == CHOOSE i \in 1..Len(q) : q[i] = t
           a == SubSeq(q, 1, i - 1)
           b == SubSeq(q, i + 1, Len(q))
<1>1. i \in 1..Len(q) /\ q[i] = t
  BY DEF Ready
<1>2. Extract(q, t) = a \o b
  BY DEF Extract
<1> HIDE DEF i
<1>3. /\ a \in Seq(Tasks) /\ Len(a) = i - 1
      /\ \A k \in 1..i-1 : a[k] = q[k]
  BY <1>1
<1>4. /\ b \in Seq(Tasks) /\ Len(b) = Len(q) - i
      /\ \A k \in 1..Len(q) - i : b[k] = q[i + k]
  BY <1>1
<1> HIDE DEF a, b
<1>a. /\ Len(a \o b) = Len(a) + Len(b)
      /\ \A k \in 1..Len(a) + Len(b) :
            (a \o b)[k] = IF k <= Len(a) THEN a[k] ELSE b[k - Len(a)]
  BY <1>3, <1>4, JoinPlaces
<1>b. Len(a) + Len(b) = Len(q) - 1
  BY <1>1, <1>3, <1>4
<1>5. Len(a \o b) = Len(q) - 1
  BY <1>a, <1>b
<1>6. ASSUME NEW k \in 1..Len(q) - 1
      PROVE  (a \o b)[k] = IF k < i THEN q[k] ELSE q[k + 1]
  <2>0. k \in Int /\ i \in Int
    BY <1>1
  <2>1. CASE k < i
    <3>1. (a \o b)[k] = a[k]
      BY <1>1, <1>3, <1>a, <1>b, <2>1
    <3> QED
      BY <1>1, <1>3, <2>1, <3>1
  <2>2. CASE k >= i
    <3>1. (a \o b)[k] = b[k - (i - 1)]
      BY <1>1, <1>3, <1>a, <1>b, <2>2, SMTT(60)
    <3>2. b[k - (i - 1)] = q[k + 1]
      BY <1>1, <1>4, <2>2
    <3> QED
      BY <2>0, <2>2, <3>1, <3>2
  <2>3. k < i \/ k >= i
    BY <2>0
  <2> QED
    BY <2>1, <2>2, <2>3, Zenon
<1> QED
  BY <1>1, <1>2, <1>5, <1>6

(* An arriving task joins the queue, and is in it once.                     *)
LEMMA InsertReady ==
    ASSUME NEW q \in Seq(Tasks), NEW t \in Tasks, NEW i \in 1..Len(q) + 1
    PROVE  /\ Ready(Insert(q, i, t)) = Ready(q) \cup {t}
           /\ NoRepeats(q) /\ t \notin Ready(q) => NoRepeats(Insert(q, i, t))
<1> DEFINE r == Insert(q, i, t)
<1>1. /\ Len(r) = Len(q) + 1
      /\ \A k \in 1..Len(q) + 1 :
            r[k] = IF k < i THEN q[k] ELSE IF k = i THEN t ELSE q[k - 1]
  BY InsertPlaces
<1> HIDE DEF r
<1>2. Ready(r) \subseteq Ready(q) \cup {t}
  <2> SUFFICES ASSUME NEW k \in 1..Len(q) + 1
               PROVE  r[k] \in Ready(q) \cup {t}
    BY <1>1 DEF Ready
  <2> QED
    BY <1>1 DEF Ready
<1>3. Ready(q) \subseteq Ready(r)
  BY InsertKeeps DEF r
<1>4. t \in Ready(r)
  BY <1>1 DEF Ready
<1>5. ASSUME NoRepeats(q), t \notin Ready(q),
             NEW j \in 1..Len(q) + 1, NEW k \in 1..Len(q) + 1, r[j] = r[k]
      PROVE  j = k
  <2>1. \A n \in 1..Len(q) : q[n] # t
    BY <1>5 DEF Ready
  <2>2. \A n \in 1..Len(q) + 1 : n # i => r[n] # t
    BY <1>1, <2>1
  <2>3. r[i] = t
    BY <1>1
  <2>4. CASE j = i \/ k = i
    BY <1>5, <2>2, <2>3, <2>4
  <2>5. CASE j # i /\ k # i
    <3> DEFINE at(n) == IF n < i THEN n ELSE n - 1
    <3>1. /\ at(j) \in 1..Len(q) /\ r[j] = q[at(j)]
          /\ at(k) \in 1..Len(q) /\ r[k] = q[at(k)]
      BY <1>1, <2>5
    <3>2. at(j) = at(k)
      BY <1>5, <3>1 DEF NoRepeats
    <3> QED
      BY <2>5, <3>2
  <2> QED
    BY <2>4, <2>5
<1>6. NoRepeats(q) /\ t \notin Ready(q) => NoRepeats(r)
  BY <1>1, <1>5 DEF NoRepeats
<1> QED
  BY <1>2, <1>3, <1>4, <1>6 DEF r

(* A task that ends or is suspended is in the queue no more. *)
LEMMA ExtractReady ==
    ASSUME NEW q \in Seq(Tasks), NEW t \in Tasks, NoRepeats(q)
    PROVE  Ready(Extract(q, t)) = Ready(q) \ {t} /\ NoRepeats(Extract(q, t))
<1>1. CASE t \notin Ready(q)
  BY <1>1 DEF Extract
<1>2. CASE t \in Ready(q)
  <2> DEFINE r == Extract(q, t)
  <2>1. PICK i \in 1..Len(q) :
           /\ q[i] = t
           /\ Len(r) = Len(q) - 1
           /\ \A k \in 1..Len(q) - 1 :
                 r[k] = IF k < i THEN q[k] ELSE q[k + 1]
    BY <1>2, ExtractPlaces
  <2> HIDE DEF r
  <2> DEFINE at(n) == IF n < i THEN n ELSE n + 1
  <2>2. \A k \in 1..Len(r) : at(k) \in 1..Len(q) /\ at(k) # i /\ r[k] = q[at(k)]
    BY <2>1
  <2>3. ASSUME NEW k \in 1..Len(r) PROVE r[k] \in Ready(q) \ {t}
    <3>1. at(k) \in 1..Len(q) /\ at(k) # i /\ r[k] = q[at(k)]
      BY Zenon, <2>2
    <3> HIDE DEF at
    <3>2. q[at(k)] # t
      BY Zenon, <2>1, <3>1 DEF NoRepeats
    <3> QED
      BY Zenon, <3>1, <3>2 DEF Ready
  <2>4. Ready(r) \subseteq Ready(q) \ {t}
    BY <2>3 DEF Ready
  <2>5. Ready(q) \ {t} \subseteq Ready(r)
    BY ExtractKeeps DEF r
  <2>6. ASSUME NEW j \in 1..Len(r), NEW k \in 1..Len(r), r[j] = r[k]
        PROVE  j = k
    <3>1. at(j) = at(k)
      BY <2>2, <2>6 DEF NoRepeats
    <3> QED
      BY <2>1, <3>1
  <2>7. NoRepeats(r)
    BY <2>6 DEF NoRepeats
  <2> QED
    BY <2>4, <2>5, <2>7 DEF r
<1> QED
  BY <1>1, <1>2

-----------------------------------------------------------------------------
(* Counting tasks and CPUs.                                                  *)

(* The top of the queue has no more tasks than there are CPUs. *)
LEMMA TopFits ==
    ASSUME NEW q \in Seq(Tasks)
    PROVE  /\ NumCPU \in Nat
           /\ Top(q) \subseteq Ready(q) /\ Ready(q) \subseteq Tasks
           /\ IsFiniteSet(Top(q))
           /\ Cardinality(Top(q)) \in Nat
           /\ Cardinality(Top(q)) <= NumCPU
<1>1. NumCPU \in Nat
  BY CPUsAssumption, FS_CardinalityType DEF NumCPU
<1>2. Top(q) \subseteq Ready(q) /\ Ready(q) \subseteq Tasks
  BY DEF Top, Ready
<1> DEFINE at(t) == CHOOSE i \in 1..NumCPU : i \in 1..Len(q) /\ q[i] = t
           f     == [t \in Top(q) |-> at(t)]
<1>3. \A t \in Top(q) : at(t) \in 1..NumCPU /\ q[at(t)] = t
  <2> SUFFICES ASSUME NEW t \in Top(q)
               PROVE  \E i \in 1..NumCPU : i \in 1..Len(q) /\ q[i] = t
    OBVIOUS
  <2> QED
    BY <1>1 DEF Top
<1> HIDE DEF at
<1>4. f \in [Top(q) -> 1..NumCPU] /\ \A t, u \in Top(q) : f[t] = f[u] => t = u
  BY <1>3
<1>5. IsFiniteSet(1..NumCPU) /\ Cardinality(1..NumCPU) = NumCPU
  <2>1. 1 \in Int /\ NumCPU \in Int
    BY <1>1
  <2>2. IsFiniteSet(1..NumCPU)
        /\ Cardinality(1..NumCPU) = IF 1 > NumCPU THEN 0 ELSE NumCPU - 1 + 1
    BY <2>1, FS_Interval
  <2> QED
    BY <1>1, <2>2
<1> HIDE DEF f
<1>6. IsFiniteSet(Top(q)) /\ Cardinality(Top(q)) \in Nat
      /\ Cardinality(Top(q)) <= Cardinality(1..NumCPU)
  BY <1>4, <1>5, CountAtMost
<1> QED
  BY <1>1, <1>2, <1>5, <1>6

(* There are always enough CPUs to take: those that hold no task are free,  *)
(* and those that hold a task beyond the top of the queue can be taken from *)
(* it.  "Can't find enough tasks to deschedule!" cannot happen.             *)
LEMMA EnoughCPUs ==
    ASSUME NEW q \in Seq(Tasks),
           NEW cur \in [CPUs -> Tasks \cup {None}],
           NEW dis \in [Tasks -> CPUs \cup {None}],
           \A p \in CPUs : cur[p] # None => dis[cur[p]] = p,
           \A t \in Tasks : dis[t] # None => t \in Ready(q)
    PROVE  ~RunsShort(q, cur, dis)
<1> DEFINE free  == Free(cur, dis)
           fresh == Fresh(q, cur, dis)
           E     == Evictable(q, dis)
           held  == {p \in CPUs : \E t \in Tasks : dis[t] = p}
           sent  == {t \in Tasks : dis[t] # None}
           inTop == sent \cap Top(q)
           below == sent \ Top(q)
<1>1. NumCPU \in Nat /\ IsFiniteSet(Top(q)) /\ Cardinality(Top(q)) <= NumCPU
  BY TopFits
<1>2. /\ IsFiniteSet(sent) /\ IsFiniteSet(inTop) /\ IsFiniteSet(below)
      /\ Cardinality(sent) = Cardinality(inTop) + Cardinality(below)
  <2>1. sent \subseteq Tasks /\ inTop \subseteq Tasks /\ below \subseteq Tasks
    OBVIOUS
  <2>2. IsFiniteSet(sent) /\ IsFiniteSet(inTop) /\ IsFiniteSet(below)
    BY <2>1, TasksAssumption, CountPart
  <2>3. inTop \cap below = {} /\ inTop \cup below = sent
    OBVIOUS
  <2> HIDE DEF sent, inTop, below
  <2> QED
    BY <2>2, <2>3, CountDisjoint
<1>3. /\ Cardinality(held) \in Nat /\ Cardinality(free) \in Nat
      /\ NumCPU = Cardinality(free) + Cardinality(held)
  <2>1. free \cap held = {}
    BY DEF Free
  <2>2. free \cup held = CPUs
    <3>1. ASSUME NEW p \in CPUs, p \notin held
          PROVE  p \in free
      <4>1. \A t \in Tasks : dis[t] # p
        BY <3>1
      <4>2. cur[p] = None
        BY <4>1
      <4> QED
        BY <4>1, <4>2 DEF Free
    <3> QED
      BY <3>1 DEF Free
  <2>3. IsFiniteSet(free) /\ IsFiniteSet(held)
    BY <2>2, CPUsAssumption, CountPart
  <2> HIDE DEF free, held
  <2> QED
    BY <2>1, <2>2, <2>3, CountDisjoint DEF NumCPU
<1>4. Cardinality(held) <= Cardinality(sent)
  <2> DEFINE of(p) == CHOOSE t \in Tasks : dis[t] = p
             f     == [p \in held |-> of(p)]
  <2>1. \A p \in held : of(p) \in Tasks /\ dis[of(p)] = p
    OBVIOUS
  <2>2. \A p \in held : p # None
    BY NoneAssumption
  <2> HIDE DEF of
  <2>3. f \in [held -> sent] /\ \A p, r \in held : f[p] = f[r] => p = r
    BY <2>1, <2>2
  <2> HIDE DEF f, held, sent
  <2> QED
    BY <1>2, <2>3, CountAtMost
<1>5. Cardinality(E) \in Nat /\ Cardinality(below) <= Cardinality(E)
  <2>1. IsFiniteSet(E)
    <3>1. IsFiniteSet(1..Len(q))
      BY FS_Interval
    <3>2. E \subseteq 1..Len(q)
      BY <1>1 DEF Evictable, EvictableFrom
    <3> QED
      BY <3>1, <3>2, CountPart
  <2> DEFINE at(t) == CHOOSE i \in E : q[i] = t
             f     == [t \in below |-> at(t)]
  <2>2. ASSUME NEW t \in below
        PROVE  at(t) \in E /\ q[at(t)] = t
    <3>1. PICK i \in 1..Len(q) : q[i] = t
      BY DEF Ready
    <3>2. ~(i <= NumCPU)
      BY <3>1 DEF Top
    <3>3. i \in E
      BY <1>1, <3>1, <3>2 DEF Evictable, EvictableFrom
    <3> QED
      BY <3>1, <3>3
  <2> HIDE DEF at, E, below
  <2>3. f \in [below -> E] /\ \A t, u \in below : f[t] = f[u] => t = u
    BY <2>2
  <2> HIDE DEF f
  <2>4. Cardinality(E) \in Nat
    BY <2>1, FS_CardinalityType
  <2>5. Cardinality(below) <= Cardinality(E)
    BY <2>1, <2>3, CountAtMost
  <2> QED
    BY <2>4, <2>5
<1>6. /\ Cardinality(fresh) \in Nat
      /\ Cardinality(fresh) + Cardinality(inTop) <= Cardinality(Top(q))
  <2>1. fresh \subseteq Top(q) /\ inTop \subseteq Top(q)
        /\ fresh \cup inTop \subseteq Top(q) /\ fresh \cap inTop = {}
    BY DEF Fresh
  <2> HIDE DEF fresh, inTop
  <2>2. IsFiniteSet(fresh) /\ IsFiniteSet(inTop)
    BY <1>1, <2>1, CountPart
  <2>3. /\ Cardinality(fresh) \in Nat
        /\ Cardinality(fresh \cup inTop)
              = Cardinality(fresh) + Cardinality(inTop)
    BY <2>1, <2>2, CountDisjoint
  <2>4. Cardinality(fresh \cup inTop) <= Cardinality(Top(q))
    BY <1>1, <2>1, CountPart
  <2> QED
    BY <2>3, <2>4
<1>7. /\ Cardinality(sent) \in Nat /\ Cardinality(inTop) \in Nat
      /\ Cardinality(below) \in Nat /\ Cardinality(Top(q)) \in Nat
  BY <1>1, <1>2, FS_CardinalityType
<1> HIDE DEF free, fresh, E, held, sent, inTop, below
<1>8. Cardinality(fresh) <= Cardinality(free) + Cardinality(E)
  BY <1>1, <1>2, <1>3, <1>4, <1>5, <1>6, <1>7
<1>9. /\ free = Free(cur, dis) /\ fresh = Fresh(q, cur, dis)
      /\ E = Evictable(q, dis)
  BY DEF free, fresh, E
<1>10. /\ Cardinality(fresh) \in Int
       /\ Cardinality(free) + Cardinality(E) \in Int
  BY <1>3, <1>5, <1>6
<1> QED
  BY <1>8, <1>9, <1>10 DEF RunsShort

-----------------------------------------------------------------------------
(* What the theorems above give, together.                                   *)

(* A run that no earlier run can have disturbed: newRun leaves a context    *)
(* switch of the run before in _isContextSwitching.                         *)
GoodRun == run = 1 \/ NoDelays

BaseInv ==
    /\ TypeOK
    /\ DispatchedIsReady
    /\ GoodRun => Consistent /\ ~PostFails

(* The consistency of good runs, in one invariant. *)
LEMMA BaseInvariant == Spec => []BaseInv
<1>1. CASE NoDelays
  <2>1. TypeOK /\ DefaultInv /\ DispatchedIsReady => BaseInv
    BY DEF BaseInv, DefaultInv
  <2>2. Spec => [](TypeOK /\ DefaultInv)
    BY <1>1, DefaultInvariant
  <2> QED
    BY <2>1, <2>2, DispatchedAreReady, PTL
<1>2. CASE ~NoDelays
  <2>1. /\ TypeOK /\ DispatchedIsReady
        /\ run = 1 => Consistent /\ Timely /\ ~PostFails
        => BaseInv
    BY <1>2 DEF BaseInv, GoodRun
  <2> QED
    BY <2>1, TypeCorrect, FirstRunTimely, DispatchedAreReady, PTL
<1> QED
  BY <1>1, <1>2

(* A good run stays good, and a new run that is good has no delays.         *)
LEMMA GoodRunStep ==
    ASSUME TypeOK, [Next]_vars, GoodRun'
    PROVE  GoodRun /\ (NewRun => NoDelays)
<1>1. CASE NewRun
  <2>1. run' = run + 1 /\ run \in Nat /\ run >= 1
    BY <1>1 DEF NewRun, TypeOK
  <2>2. NoDelays
    BY <2>1 DEF GoodRun
  <2> QED
    BY <2>2 DEF GoodRun
<1>2. CASE ~NewRun
  BY <1>2, SameRun DEF GoodRun
<1> QED
  BY <1>1, <1>2

-----------------------------------------------------------------------------
(* What the tasks see.                                                       *)

Executing == {currExe[p] : p \in CPUs}

(* The state of a task agrees with the kernel, except while one of its      *)
(* immediate events tells it of a change; one task at most is told at a     *)
(* time.                                                                    *)
TasksView ==
    /\ NoRepeats(queue)
    /\ \A t \in Ready(queue) : state[t] # "IDLE"
    /\ \A t, u \in Immediate : t = u
    /\ \A t \in Tasks \ Immediate : state[t] = "EXEC" <=> t \in Executing
    /\ \A t \in schedEvt :
          t \notin deschedEvt /\ state[t] = "READY" /\ t \in Executing
    /\ \A t \in deschedEvt :
          state[t] = "EXEC" /\ t \notin Executing /\ oldExe[t] # None

(* A task is on a CPU when some CPU executes it. *)
LEMMA ProcessorsAreExecuting ==
    \A t \in Tasks : ProcessorsOf(t) # {} <=> t \in Executing
BY DEF ProcessorsOf, Executing

(* A task that leaves its CPU executes nowhere, and no other task is        *)
(* disturbed.                                                               *)
LEMMA VacatedExecuting ==
    ASSUME TypeOK, Consistent, NEW p \in CPUs,
           currExe' = [currExe EXCEPT ![p] = None]
    PROVE  \A u \in Tasks :
              u \in Executing' <=> u \in Executing /\ u # currExe[p]
<1>1. \A q \in CPUs : currExe'[q] = IF q = p THEN None ELSE currExe[q]
  BY DEF TypeOK
<1>2. \A q \in CPUs : currExe[q] = currExe[p] /\ currExe[q] # None => q = p
  BY DEF TypeOK, Consistent, PlacedIsDispatched
<1>3. ASSUME NEW u \in Tasks, u \in Executing'
      PROVE  u \in Executing /\ u # currExe[p]
  <2>1. PICK q \in CPUs : currExe'[q] = u
    BY <1>3 DEF Executing
  <2> QED
    BY <1>1, <1>2, <2>1, NoneAssumption DEF Executing
<1>4. ASSUME NEW u \in Tasks, u \in Executing, u # currExe[p]
      PROVE  u \in Executing'
  <2>1. PICK q \in CPUs : currExe[q] = u
    BY <1>4 DEF Executing
  <2> QED
    BY <1>1, <1>4, <2>1 DEF Executing
<1> QED
  BY <1>3, <1>4

(* Starting dispatches only fails where it posts in the past.               *)
LEMMA DispatchOnSucceeds ==
    ASSUME NEW D, NEW dis, NEW tau, DispatchOn(D, dis, tau), ~PostFails'
    PROVE  exc' = "none"
BY DEF DispatchOn, PostFails

(* The dispatch() of an arrival finds its CPUs. *)
LEMMA ArrivalFindsCPUs ==
    ASSUME TypeOK, TypeOK', DispatchedIsReady, Consistent,
           Ready(queue) \subseteq Ready(queue')
    PROVE  ~RunsShort(queue', currExe, dispatched)
<1>1. /\ queue' \in Seq(Tasks)
      /\ currExe \in [CPUs -> Tasks \cup {None}]
      /\ dispatched \in [Tasks -> CPUs \cup {None}]
  BY DEF TypeOK
<1>2. \A p \in CPUs : currExe[p] # None => dispatched[currExe[p]] = p
  BY DEF Consistent, PlacedIsDispatched
<1>3. \A u \in Tasks : dispatched[u] # None => u \in Ready(queue')
  BY DEF DispatchedIsReady
<1> QED
  BY <1>1, <1>2, <1>3, EnoughCPUs

(* An arrival or a resumption keeps the view: the task waits, no one else   *)
(* is told anything, and dispatch() finds its CPUs.                         *)
LEMMA ArrivalKeepsView ==
    ASSUME TypeOK, TypeOK', DispatchedIsReady, Consistent, ~PostFails',
           TasksView, exc = "none",
           NEW t \in Tasks, NEW tau, Arrival(t, tau) \/ Resume(t, tau)
    PROVE  TasksView' /\ exc' = "none"
<1>1. PICK i \in 1..Len(queue) + 1 :
         /\ queue' = Insert(queue, i, t)
         /\ Dispatch(queue', currExe, dispatched, tau)
  BY DEF Arrival, Resume, OnArrival, Places
<1>2. t \notin Ready(queue)
  BY DEF Arrival, Resume, TasksView
<1>3. Ready(queue') = Ready(queue) \cup {t} /\ NoRepeats(queue')
  BY <1>1, <1>2, InsertReady DEF TypeOK, TasksView
<1>4. exc' = "none"
  <2>1. ~RunsShort(queue', currExe, dispatched)
    BY <1>3, ArrivalFindsCPUs
  <2> QED
    BY <1>1, <2>1, DispatchOnSucceeds DEF Dispatch
<1>5. UNCHANGED <<currExe, oldExe, schedEvt, deschedEvt>> /\ Immediate = {}
  BY DEF Arrival, Resume, Step, taskVars
<1>6. \A u \in Tasks : state'[u] = IF u = t THEN "READY" ELSE state[u]
  BY DEF Arrival, Resume, taskVars, TypeOK
<1>7. state[t] # "EXEC"
  BY DEF Arrival, Resume
<1>8. Ready(queue) \subseteq Tasks
  BY DEF Ready, TypeOK
<1> QED
  BY <1>2, <1>3, <1>4, <1>5, <1>6, <1>7, <1>8
  DEF TasksView, Immediate, Executing

(* The end of a job keeps the view: the task is on a CPU, and leaves it and *)
(* the queue.                                                               *)
LEMMA EndKeepsView ==
    ASSUME TypeOK, Consistent, ~PostFails', TasksView, exc = "none",
           NEW t \in Tasks, NEW tau, EndInstance(t, tau)
    PROVE  TasksView' /\ exc' = "none"
<1>1. Immediate = {} /\ state[t] = "EXEC" /\ t \in Executing
  BY DEF EndInstance, Step, TasksView
<1>2. PICK p \in ProcessorsOf(t) : OnEnd(t, p, tau)
  BY <1>1, ProcessorsAreExecuting DEF EndInstance
<1>3. p \in CPUs /\ currExe[p] = t
  BY DEF ProcessorsOf
<1>4. exc' = "none"
  BY <1>2, DispatchOnSucceeds DEF OnEnd
<1>5. Ready(queue') = Ready(queue) \ {t} /\ NoRepeats(queue')
  BY <1>2, ExtractReady DEF OnEnd, TypeOK, TasksView
<1>6. \A u \in Tasks : u \in Executing' <=> u \in Executing /\ u # t
  BY <1>2, <1>3, VacatedExecuting DEF OnEnd
<1>7. UNCHANGED <<schedEvt, deschedEvt>>
  BY DEF EndInstance
<1>8. \A u \in Tasks : state'[u] = IF u = t THEN "IDLE" ELSE state[u]
  BY DEF EndInstance, TypeOK
<1>9. Ready(queue) \subseteq Tasks
  BY DEF Ready, TypeOK
<1> QED
  BY <1>1, <1>4, <1>5, <1>6, <1>7, <1>8, <1>9 DEF TasksView, Immediate

(* The dispatch() of a suspension finds its CPUs. *)
LEMMA SuspendFindsCPUs ==
    ASSUME TypeOK, TypeOK', DispatchedIsReady, Consistent,
           NEW t \in Tasks, NEW p \in ProcessorsOf(t), Vacate(t, p),
           Ready(queue') = Ready(queue) \ {t}
    PROVE  ~RunsShort(queue', currExe', [dispatched EXCEPT ![t] = None])
<1> DEFINE dis == [dispatched EXCEPT ![t] = None]
<1>1. /\ queue' \in Seq(Tasks)
      /\ currExe' \in [CPUs -> Tasks \cup {None}]
      /\ dis \in [Tasks -> CPUs \cup {None}]
  BY DEF TypeOK
<1>2. \A r \in CPUs : currExe'[r] # None => dis[currExe'[r]] = r
  <2>1. ConsistentWith([currExe EXCEPT ![p] = None], dis)
    BY VacateConsistent
  <2>2. currExe' = [currExe EXCEPT ![p] = None]
    BY DEF Vacate
  <2> HIDE DEF dis
  <2> QED
    BY <2>1, <2>2 DEF ConsistentWith
<1>3. \A u \in Tasks : dis[u] # None => u \in Ready(queue')
  BY DEF DispatchedIsReady, TypeOK
<1> HIDE DEF dis
<1>4. ~RunsShort(queue', currExe', dis)
  BY <1>1, <1>2, <1>3, EnoughCPUs
<1> QED
  BY <1>4 DEF dis

(* A suspension keeps the view: the task is to be told that it executes no  *)
(* more, and dispatch() finds its CPUs.                                     *)
LEMMA SuspendKeepsView ==
    ASSUME TypeOK, TypeOK', DispatchedIsReady, Consistent, ~PostFails',
           TasksView, exc = "none", NEW t \in Tasks, NEW tau,
           Suspend(t, tau) \/ SuspendAndDispatch(t, tau)
    PROVE  TasksView' /\ exc' = "none"
<1> DEFINE dis == [dispatched EXCEPT ![t] = None]
<1>1. PICK p \in ProcessorsOf(t) :
        /\ Vacate(t, p)
        /\ \/ DispatchOn({p}, dis, tau)
           \/ RunsShort(queue', currExe', dis)
           \/ \E D : DispatchOn(D, dis, tau)
  BY DEF Suspend, SuspendAndDispatch
<1>2. p \in CPUs /\ currExe[p] = t
  BY DEF ProcessorsOf
<1>3. /\ queue' = Extract(queue, t)
      /\ oldExe' = [oldExe EXCEPT ![t] = p]
      /\ currExe' = [currExe EXCEPT ![p] = None]
      /\ schedEvt' = schedEvt \ {t}
      /\ deschedEvt' = deschedEvt \cup {t}
  BY <1>1 DEF Vacate, Deschedule
<1>4. Immediate = {} /\ state[t] = "EXEC" /\ state' = state
  BY DEF Suspend, SuspendAndDispatch, Step
<1>5. Ready(queue') = Ready(queue) \ {t} /\ NoRepeats(queue')
  BY <1>3, ExtractReady DEF TypeOK, TasksView
<1>6. \A u \in Tasks : u \in Executing' <=> u \in Executing /\ u # t
  BY <1>2, <1>3, VacatedExecuting
<1>7. exc' = "none"
  <2>1. ~RunsShort(queue', currExe', dis)
    BY <1>1, <1>5, SuspendFindsCPUs
  <2> HIDE DEF dis
  <2> QED
    BY <1>1, <2>1, DispatchOnSucceeds
<1>8. p # None /\ oldExe'[t] = p
  BY <1>2, <1>3, NoneAssumption DEF TypeOK
<1>9. Ready(queue) \subseteq Tasks
  BY DEF Ready, TypeOK
<1>10. schedEvt' = {} /\ deschedEvt' = {t}
  BY <1>3, <1>4 DEF Immediate
<1> QED
  BY <1>4, <1>5, <1>6, <1>7, <1>8, <1>9, <1>10 DEF TasksView, Immediate

(* The begin of a dispatch keeps the view: the task that has to leave the   *)
(* CPU did execute, and is to be told.                                      *)
LEMMA BeginKeepsView ==
    ASSUME TypeOK, Consistent, ~PostFails', TasksView, exc = "none",
           NEW p \in CPUs, BeginDispatch(p)
    PROVE  TasksView' /\ exc' = "none"
<1> DEFINE dt == currExe[p]
<1>1. Immediate = {} /\ UNCHANGED <<queue, state>>
  BY DEF BeginDispatch, Step
<1>2. /\ oldExe' = [t \in Tasks |-> IF t = dt THEN p ELSE oldExe[t]]
      /\ currExe' = [currExe EXCEPT ![p] = None]
      /\ IF dt = None THEN UNCHANGED <<schedEvt, deschedEvt>>
                      ELSE Deschedule(dt)
  BY Zenon DEF BeginDispatch
<1>3. exc' \in {"AlreadyPosted", "none"}
  BY DEF BeginDispatch
<1>4. exc' = "none"
  BY <1>3 DEF PostFails
<1>5. \A u \in Tasks : u \in Executing' <=> u \in Executing /\ u # dt
  BY <1>2, VacatedExecuting
<1>6. CASE dt = None
  BY <1>1, <1>2, <1>4, <1>5, <1>6, NoneAssumption DEF TasksView, Immediate
<1>7. CASE dt # None
  <2>1. dt \in Tasks /\ dt \in Executing
    BY <1>7 DEF TypeOK, Executing
  <2>2. schedEvt' = {} /\ deschedEvt' = {dt}
    BY <1>1, <1>2, <1>7 DEF Deschedule, Immediate
  <2>3. oldExe'[dt] # None
    BY <1>2, <2>1, NoneAssumption
  <2>4. state[dt] = "EXEC"
    BY <1>1, <2>1 DEF TasksView
  <2> HIDE DEF dt
  <2> QED
    BY <1>1, <1>4, <1>5, <2>1, <2>2, <2>3, <2>4 DEF TasksView, Immediate
<1> QED
  BY <1>6, <1>7

(* The end of a dispatch keeps the view: the task that takes the CPU was    *)
(* waiting, and is to be told.                                              *)
LEMMA EndDispatchKeepsView ==
    ASSUME TypeOK, DispatchedIsReady, Consistent, TasksView, exc = "none",
           NEW p \in CPUs, EndDispatch(p)
    PROVE  TasksView' /\ exc' = "none"
<1> DEFINE st == endEvt[p].task
<1>1. /\ Immediate = {} /\ endEvt[p].posted
      /\ currExe' = [currExe EXCEPT ![p] = st]
      /\ schedEvt' = IF st = None THEN schedEvt ELSE schedEvt \cup {st}
      /\ UNCHANGED <<exc, queue, oldExe, state, deschedEvt>>
  BY DEF EndDispatch, Step
<1>2. currExe[p] = None
  BY <1>1 DEF Consistent, SwitchingIsExclusive
<1>3. \A q \in CPUs : currExe'[q] = IF q = p THEN st ELSE currExe[q]
  BY <1>1 DEF TypeOK
<1>4. \A u \in Tasks : u \in Executing' <=> u \in Executing \/ u = st
  BY <1>2, <1>3, NoneAssumption DEF Executing
<1>5. CASE st = None
  BY <1>1, <1>4, <1>5, NoneAssumption DEF TasksView, Immediate
<1>6. CASE st # None
  <2>1. st \in Tasks /\ dispatched[st] = p /\ p # None
    BY <1>1, <1>6, NoneAssumption DEF TypeOK, Consistent, PlacedIsDispatched
  <2>2. st \notin Executing
    <3>1. \A q \in CPUs : currExe[q] = st => q = p
      BY <1>6, <2>1 DEF Consistent, PlacedIsDispatched
    <3> QED
      BY <1>2, <1>6, <3>1 DEF Executing
  <2>3. state[st] # "IDLE"
    BY <2>1 DEF DispatchedIsReady, TasksView
  <2>4. state[st] = "READY"
    BY <1>1, <2>1, <2>2, <2>3 DEF TasksView, TypeOK
  <2>5. schedEvt' = {st} /\ deschedEvt' = {}
    BY <1>1, <1>6 DEF Immediate
  <2> HIDE DEF st
  <2> QED
    BY <1>1, <1>4, <2>1, <2>2, <2>4, <2>5 DEF TasksView, Immediate
<1> QED
  BY <1>5, <1>6

(* The immediate events keep the view: the task is in the state they        *)
(* expect, and learns what the kernel did.                                  *)
LEMMA ImmediateKeepsView ==
    ASSUME TypeOK, TasksView, exc = "none",
           NEW t \in Tasks, OnSched(t) \/ OnDesched(t)
    PROVE  TasksView' /\ exc' = "none"
<1>1. UNCHANGED <<queue, oldExe, Executing>>
  BY DEF OnSched, OnDesched, Executing
<1>2. schedEvt \subseteq Tasks /\ deschedEvt \subseteq Tasks
  BY DEF TypeOK
<1>3. Ready(queue) \subseteq Tasks
  BY DEF Ready, TypeOK
<1>4. CASE OnSched(t)
  <2>1. /\ t \in schedEvt /\ t \notin deschedEvt
        /\ state[t] = "READY" /\ t \in Executing
    BY <1>4 DEF OnSched, TasksView
  <2>2. exc' = "none"
    BY <1>4, <2>1, ProcessorsAreExecuting DEF OnSched
  <2>3. schedEvt' = {} /\ deschedEvt' = {} /\ Immediate = {t}
    BY <1>4, <2>1, <2>2 DEF OnSched, TasksView, Immediate
  <2>4. \A u \in Tasks : state'[u] = IF u = t THEN "EXEC" ELSE state[u]
    BY <1>4, <2>2 DEF OnSched, TypeOK
  <2> QED
    BY <1>1, <1>2, <1>3, <2>1, <2>2, <2>3, <2>4 DEF TasksView, Immediate
<1>5. CASE OnDesched(t)
  <2>1. /\ t \in deschedEvt /\ t \notin schedEvt
        /\ state[t] = "EXEC" /\ t \notin Executing /\ oldExe[t] # None
    BY <1>5 DEF OnDesched, TasksView
  <2>2. exc' = "none"
    BY <1>5, <2>1 DEF OnDesched
  <2>3. schedEvt' = {} /\ deschedEvt' = {} /\ Immediate = {t}
    BY <1>5, <2>1, <2>2 DEF OnDesched, TasksView, Immediate
  <2>4. \A u \in Tasks : state'[u] = IF u = t THEN "READY" ELSE state[u]
    BY <1>5, <2>2 DEF OnDesched, TypeOK
  <2> QED
    BY <1>1, <1>2, <1>3, <2>1, <2>2, <2>3, <2>4 DEF TasksView, Immediate
<1> QED
  BY <1>4, <1>5

(* A new run keeps the view: the queue is empty, every task idle and every  *)
(* CPU free.                                                                *)
LEMMA NewRunKeepsView ==
    ASSUME NewRun
    PROVE  TasksView' /\ exc' = "none"
<1>1. /\ queue' = <<>> /\ exc' = "none"
      /\ currExe' = [p \in CPUs |-> None]
      /\ state' = [t \in Tasks |-> "IDLE"]
      /\ schedEvt' = {} /\ deschedEvt' = {}
  BY Zenon DEF NewRun, ResetKernel, ResetQueue
<1>2. \A t \in Tasks : t \notin Executing'
  BY <1>1, NoneAssumption DEF Executing
<1>3. NoRepeats(queue') /\ Ready(queue') = {}
  BY <1>1 DEF NoRepeats, Ready
<1> QED
  BY <1>1, <1>2, <1>3 DEF TasksView, Immediate

ViewInv == GoodRun => TasksView /\ exc = "none"

(* What the theorems below rest on. *)
LEMMA ViewInvariant == Spec => [](BaseInv /\ ViewInv)
<1>1. Init => ViewInv
  <2>1. Init => \A t \in Tasks : t \notin Executing
    BY NoneAssumption DEF Init, Executing
  <2>2. Init => NoRepeats(queue) /\ Ready(queue) = {}
    BY DEF Init, NoRepeats, Ready
  <2> QED
    BY <2>1, <2>2 DEF Init, ViewInv, TasksView, Immediate
<1>2. BaseInv /\ BaseInv' /\ ViewInv /\ [Next]_vars => ViewInv'
  <2> SUFFICES ASSUME BaseInv, BaseInv', ViewInv, [Next]_vars, GoodRun'
               PROVE  TasksView' /\ exc' = "none"
    BY DEF ViewInv
  <2>1. TypeOK /\ TypeOK' /\ DispatchedIsReady
    BY DEF BaseInv
  <2>2. GoodRun
    BY <2>1, GoodRunStep
  <2>3. Consistent /\ ~PostFails' /\ TasksView /\ exc = "none"
    BY <2>2 DEF BaseInv, ViewInv
  <2>4. ASSUME NEW t \in Tasks, Request(t)
        PROVE  TasksView' /\ exc' = "none"
    <3>1. PICK tau \in 0..EndTick :
            \/ Arrival(t, tau) \/ Resume(t, tau) \/ EndInstance(t, tau)
            \/ Suspend(t, tau) \/ SuspendAndDispatch(t, tau)
      BY <2>4 DEF Request
    <3>2. CASE Arrival(t, tau) \/ Resume(t, tau)
      BY <2>1, <2>3, <3>2, ArrivalKeepsView
    <3>3. CASE EndInstance(t, tau)
      BY <2>1, <2>3, <3>3, EndKeepsView
    <3>4. CASE Suspend(t, tau) \/ SuspendAndDispatch(t, tau)
      BY <2>1, <2>3, <3>4, SuspendKeepsView
    <3> QED
      BY <3>1, <3>2, <3>3, <3>4
  <2>5. ASSUME NEW t \in Tasks, OnSched(t) \/ OnDesched(t)
        PROVE  TasksView' /\ exc' = "none"
    BY <2>1, <2>3, <2>5, ImmediateKeepsView
  <2>6. ASSUME NEW p \in CPUs, BeginDispatch(p) \/ EndDispatch(p)
        PROVE  TasksView' /\ exc' = "none"
    BY <2>1, <2>3, <2>6, BeginKeepsView, EndDispatchKeepsView
  <2>7. CASE NewRun
    BY <2>7, NewRunKeepsView
  <2>8. CASE Stopped \/ UNCHANGED vars
    BY <2>3, <2>8 DEF Stopped, vars, TasksView, Immediate, Executing
  <2> QED
    BY <2>4, <2>5, <2>6, <2>7, <2>8 DEF Next
<1> QED
  BY <1>1, <1>2, BaseInvariant, PTL DEF Spec

(* No exception ends the first run, nor any run of the default kernel: none *)
(* of dispatch() finding too few CPUs, of a task told of a change it does   *)
(* not expect, of a job that ends without a CPU, of an event posted twice   *)
(* or in the past.                                                          *)
THEOREM GoodRunsDoNotFail == Spec => [](GoodRun => NoException)
<1>1. ViewInv => (GoodRun => NoException)
  BY DEF ViewInv, NoException
<1> QED
  BY <1>1, ViewInvariant, PTL

(* In the first run, and in every run of the default kernel, a task         *)
(* believes it executes exactly when the kernel has it on a CPU, whenever   *)
(* no immediate event is pending.                                           *)
THEOREM GoodRunsAgree == Spec => [](GoodRun => ExecutingIsOnCPU)
<1>1. ViewInv => (GoodRun => ExecutingIsOnCPU)
  BY ProcessorsAreExecuting DEF ViewInv, TasksView, ExecutingIsOnCPU, Immediate
<1> QED
  BY <1>1, ViewInvariant, PTL

-----------------------------------------------------------------------------
(* The CPUs a dispatch() takes.                                              *)

(* No two tasks are dispatched on one CPU. *)
Apart(dis) ==
    \A t, u \in Tasks : dis[t] = dis[u] /\ dis[t] # None => t = u

(* In consistent assignments no two tasks are dispatched on one CPU. *)
LEMMA ConsistentIsApart ==
    ASSUME TypeOK, NEW cur, NEW dis \in [Tasks -> CPUs \cup {None}],
           ConsistentWith(cur, dis)
    PROVE  Apart(dis)
<1> SUFFICES ASSUME NEW t \in Tasks, NEW u \in Tasks,
                    dis[t] = dis[u], dis[t] # None
             PROVE  t = u
  BY DEF Apart
<1>1. dis[t] \in CPUs
  OBVIOUS
<1>2. t # None /\ u # None
  BY NoneAssumption
<1> QED
  BY <1>1, <1>2 DEF ConsistentWith

(* The first k places of a set of places are k, if it has that many.        *)
LEMMA FirstOfCount ==
    ASSUME NEW S \in SUBSET Nat, IsFiniteSet(S), NEW k \in Nat,
           k <= Cardinality(S)
    PROVE  /\ FirstOf(S, k) \subseteq S
           /\ IsFiniteSet(FirstOf(S, k))
           /\ Cardinality(FirstOf(S, k)) \in Nat
           /\ k <= Cardinality(FirstOf(S, k))
<1> DEFINE F == FirstOf(S, k)
<1>1. F \subseteq S
  BY DEF FirstOf
<1>2. IsFiniteSet(F) /\ Cardinality(F) \in Nat /\ Cardinality(S) \in Nat
  <2> HIDE DEF F
  <2> QED
    BY <1>1, CountPart
<1>3. k <= Cardinality(F)
  <2>1. CASE S \ F = {}
    <3>1. F = S
      BY <1>1, <2>1
    <3> QED
      BY <3>1
  <2>2. CASE S \ F # {}
    <3>1. PICK m \in S \ F : \A n \in S \ F : m <= n
      BY <2>2, LeastNumber
    <3> DEFINE before == {j \in S : j < m}
    <3>2. before \subseteq F
      <4> SUFFICES ASSUME NEW j \in S, j < m, j \notin F
                   PROVE  FALSE
        OBVIOUS
      <4>1. m <= j /\ m \in Nat /\ j \in Nat
        BY <3>1
      <4> QED
        BY <4>1
    <3>3. ~(Cardinality(before) < k)
      BY <3>1 DEF FirstOf
    <3> HIDE DEF before, F
    <3>4. Cardinality(before) \in Nat /\ Cardinality(before) <= Cardinality(F)
      BY <1>2, <3>2, CountPart
    <3> QED
      BY <1>2, <3>3, <3>4
  <2> QED
    BY <2>1, <2>2
<1> QED
  BY <1>1, <1>2, <1>3

(* A dispatch() that finds its CPUs starts at least one switch for every    *)
(* task of the top that has no CPU, and takes none from a task of the top.  *)
LEMMA TargetsCount ==
    ASSUME NEW q \in Seq(Tasks), NoRepeats(q), NEW cur,
           NEW dis \in [Tasks -> CPUs \cup {None}], Apart(dis),
           ~RunsShort(q, cur, dis), NEW D \in DispatchTargets(q, cur, dis)
    PROVE  /\ D \subseteq CPUs
           /\ Cardinality(Fresh(q, cur, dis)) \in Nat
           /\ Cardinality(D) \in Nat
           /\ Cardinality(Fresh(q, cur, dis)) <= Cardinality(D)
           /\ \A t \in Top(q) : dis[t] \notin D
<1> DEFINE fresh == Fresh(q, cur, dis)
           free  == Free(cur, dis)
           E     == Evictable(q, dis)
           n     == Cardinality(fresh)
           f     == Cardinality(free)
           k     == n - f
           F     == FirstOf(E, k)
           taken == {dis[q[i]] : i \in F}
<1>1. D \subseteq CPUs /\ IsFiniteSet(D) /\ Cardinality(D) \in Nat
  <2>1. D \subseteq CPUs
    BY TargetsAreCPUs
  <2> QED
    BY <2>1, CPUsAssumption, CountPart
<1>2. n \in Nat
  <2>1. fresh \subseteq Top(q) /\ IsFiniteSet(Top(q))
    BY TopFits DEF Fresh
  <2> HIDE DEF fresh
  <2> QED
    BY <2>1, CountPart
<1>3. IsFiniteSet(free) /\ f \in Nat
  <2>1. free \subseteq CPUs
    BY DEF Free
  <2> HIDE DEF free
  <2> QED
    BY <2>1, CPUsAssumption, CountPart
<1>4. /\ E \subseteq 1..Len(q) /\ E \in SUBSET Nat
      /\ IsFiniteSet(E) /\ Cardinality(E) \in Nat
  <2>1. NumCPU \in Nat
    BY TopFits
  <2>2. IsFiniteSet(1..Len(q))
    BY FS_Interval
  <2>3. E \subseteq 1..Len(q) /\ E \in SUBSET Nat
    BY <2>1 DEF Evictable, EvictableFrom
  <2> HIDE DEF E
  <2> QED
    BY <2>2, <2>3, CountPart
<1>5. \A i \in E : q[i] \in Tasks /\ q[i] \notin Top(q) /\ dis[q[i]] # None
  <2> SUFFICES ASSUME NEW i \in E
               PROVE  q[i] \in Tasks /\ q[i] \notin Top(q) /\ dis[q[i]] # None
    OBVIOUS
  <2>1. NumCPU \in Nat
    BY TopFits
  <2>2. i \in 1..Len(q) /\ i > NumCPU /\ dis[q[i]] # None
    BY <2>1 DEF Evictable, EvictableFrom
  <2>3. \A j \in 1..Len(q) : q[j] = q[i] => j = i
    BY <2>2 DEF NoRepeats
  <2>4. q[i] \notin Top(q)
    BY <2>1, <2>2, <2>3 DEF Top
  <2> QED
    BY <2>2, <2>4
<1>6. \A t \in Top(q) : dis[t] \notin free
  <2>1. Top(q) \subseteq Tasks
    BY TopFits
  <2> QED
    BY <2>1 DEF Free
<1>7. CASE n <= f
  <2>1. D \subseteq free /\ Cardinality(D) = n
    BY <1>7 DEF DispatchTargets
  <2> HIDE DEF n, free
  <2> QED
    BY <1>1, <1>2, <1>6, <2>1 DEF n
<1>8. CASE ~(n <= f)
  <2>1. D = free \cup taken
    BY <1>8 DEF DispatchTargets
  <2>2. k \in Nat /\ k <= Cardinality(E)
    <3>1. n <= f + Cardinality(E)
      <4> HIDE DEF n, f
      <4>1. ~(n > f + Cardinality(E))
        BY DEF RunsShort, n, f
      <4> HIDE DEF E
      <4> QED
        BY <4>1, <1>2, <1>3, <1>4
    <3> HIDE DEF n, f, E
    <3> QED
      BY <1>2, <1>3, <1>4, <1>8, <3>1
  <2>3. /\ F \subseteq E /\ IsFiniteSet(F) /\ Cardinality(F) \in Nat
        /\ k <= Cardinality(F)
    <3> HIDE DEF k, E
    <3> QED
      BY <1>4, <2>2, FirstOfCount
  <2>4. \A t \in Top(q) : dis[t] \notin taken
    <3> SUFFICES ASSUME NEW t \in Top(q), NEW i \in F, dis[t] = dis[q[i]]
                 PROVE  FALSE
      OBVIOUS
    <3>1. q[i] \in Tasks /\ q[i] \notin Top(q) /\ dis[q[i]] # None
      BY <1>5, <2>3
    <3>2. t \in Tasks
      BY TopFits
    <3> QED
      BY <3>1, <3>2 DEF Apart
  <2>5. free \cap taken = {}
    <3> SUFFICES ASSUME NEW i \in F, dis[q[i]] \in free
                 PROVE  FALSE
      OBVIOUS
    <3>1. q[i] \in Tasks
      BY <1>5, <2>3
    <3> QED
      BY <3>1 DEF Free
  <2>6. IsFiniteSet(taken)
    <3>1. taken \subseteq D
      BY <2>1
    <3> HIDE DEF taken
    <3> QED
      BY <1>1, <3>1, CountPart
  <2>7. Cardinality(F) <= Cardinality(taken)
    <3> DEFINE g == [i \in F |-> dis[q[i]]]
    <3>1. g \in [F -> taken]
      OBVIOUS
    <3>2. \A i, j \in F : g[i] = g[j] => i = j
      <4> SUFFICES ASSUME NEW i \in F, NEW j \in F, dis[q[i]] = dis[q[j]]
                   PROVE  i = j
        OBVIOUS
      <4>1. q[i] = q[j]
        BY <1>5, <2>3 DEF Apart
      <4>2. i \in 1..Len(q) /\ j \in 1..Len(q)
        BY <1>4, <2>3
      <4> QED
        BY <4>1, <4>2 DEF NoRepeats
    <3> HIDE DEF g, F, taken
    <3> QED
      BY <2>6, <3>1, <3>2, CountAtMost
  <2>8. Cardinality(taken) \in Nat
        /\ Cardinality(D) = f + Cardinality(taken)
    <3> HIDE DEF free, taken
    <3>1. Cardinality(free \cup taken) = Cardinality(free) + Cardinality(taken)
          /\ Cardinality(taken) \in Nat
      BY <1>3, <2>5, <2>6, CountDisjoint
    <3> QED
      BY <2>1, <3>1
  <2>9. n <= Cardinality(D)
    <3> HIDE DEF n, f, F, taken
    <3> QED
      BY <1>2, <1>3, <2>3, <2>7, <2>8
  <2>10. \A t \in Top(q) : dis[t] \notin D
    BY <1>6, <2>1, <2>4
  <2> QED
    BY <1>1, <1>2, <2>9, <2>10
<1>9. n <= f \/ ~(n <= f)
  OBVIOUS
<1> QED
  BY <1>7, <1>8, <1>9, Zenon

-----------------------------------------------------------------------------
(* The top of the queue.                                                     *)

(* A task beyond the top has a full top before it.                          *)
LEMMA FullTop ==
    ASSUME NEW q \in Seq(Tasks), NoRepeats(q), NEW t \in Ready(q), t \notin Top(q)
    PROVE  NumCPU <= Cardinality(Top(q))
<1>1. NumCPU \in Nat /\ IsFiniteSet(Top(q))
  BY TopFits
<1>2. PICK i \in 1..Len(q) : q[i] = t
  BY DEF Ready
<1>3. ~(i <= NumCPU)
  BY <1>2 DEF Top
<1> DEFINE f == [k \in 1..NumCPU |-> q[k]]
<1>4. \A k \in 1..NumCPU : k \in 1..Len(q) /\ k <= NumCPU
  BY <1>1, <1>3
<1>5. f \in [1..NumCPU -> Top(q)]
  BY <1>4 DEF Top
<1>6. \A j, k \in 1..NumCPU : f[j] = f[k] => j = k
  BY <1>4 DEF NoRepeats
<1>7. Cardinality(1..NumCPU) = NumCPU
  <2>1. Cardinality(1..NumCPU) = IF 1 > NumCPU THEN 0 ELSE NumCPU - 1 + 1
    BY <1>1, FS_Interval
  <2> QED
    BY <1>1, <2>1
<1> HIDE DEF f
<1>8. Cardinality(1..NumCPU) <= Cardinality(Top(q))
  BY <1>1, <1>5, <1>6, CountAtMost
<1> QED
  BY <1>7, <1>8

(* When a task leaves the queue, no other task leaves the top, and at most  *)
(* one task takes its place there.                                          *)
LEMMA ExtractTop ==
    ASSUME NEW q \in Seq(Tasks), NEW t \in Tasks, NoRepeats(q)
    PROVE  /\ Top(q) \ {t} \subseteq Top(Extract(q, t))
           /\ Cardinality(Top(Extract(q, t))) \in Nat
           /\ Cardinality(Top(Extract(q, t))) <= Cardinality(Top(q))
<1> DEFINE r == Extract(q, t)
<1>1. /\ NumCPU \in Nat /\ IsFiniteSet(Top(q)) /\ Cardinality(Top(q)) \in Nat
      /\ r \in Seq(Tasks) /\ Cardinality(Top(r)) \in Nat
  BY ExtractType, TopFits
<1>2. CASE t \notin Ready(q)
  <2>1. r = q
    BY <1>2 DEF Extract
  <2> HIDE DEF r
  <2>2. Cardinality(Top(r)) <= Cardinality(Top(q))
    BY <1>1, <2>1
  <2> QED
    BY <1>1, <2>1, <2>2 DEF r
<1>3. CASE t \in Ready(q)
  <2>1. PICK i \in 1..Len(q) :
           /\ q[i] = t
           /\ Len(r) = Len(q) - 1
           /\ \A k \in 1..Len(q) - 1 :
                 r[k] = IF k < i THEN q[k] ELSE q[k + 1]
    BY <1>3, ExtractPlaces
  <2>2. t \notin Top(r)
    BY <1>1, ExtractReady, TopFits
  <2> HIDE DEF r
  <2>3. Top(q) \ {t} \subseteq Top(r)
    <3> SUFFICES ASSUME NEW k \in 1..Len(q), k <= NumCPU, q[k] # t
                 PROVE  q[k] \in Top(r)
      BY DEF Top
    <3>1. k # i
      BY <2>1
    <3>2. CASE k < i
      <4>1. k \in 1..Len(r) /\ r[k] = q[k]
        BY <2>1, <3>2
      <4> QED
        BY <4>1 DEF Top
    <3>3. CASE k > i
      <4>1. k - 1 \in 1..Len(r) /\ r[k - 1] = q[k] /\ k - 1 <= NumCPU
        BY <1>1, <2>1, <3>3
      <4> QED
        BY <4>1 DEF Top
    <3> QED
      BY <3>1, <3>2, <3>3
  <2>4. ASSUME NEW u \in Top(r), u \notin Top(q)
        PROVE  u = q[NumCPU + 1] /\ t \in Top(q)
    <3>1. PICK k \in 1..Len(r) : k <= NumCPU /\ r[k] = u
      BY DEF Top
    <3>2. ~(k < i)
      <4> SUFFICES ASSUME k < i PROVE FALSE
        OBVIOUS
      <4>1. r[k] = q[k] /\ k \in 1..Len(q)
        BY <2>1, <3>1
      <4> QED
        BY <2>4, <3>1, <4>1 DEF Top
    <3>3. r[k] = q[k + 1] /\ k + 1 \in 1..Len(q)
      BY <2>1, <3>1, <3>2
    <3>4. ~(k + 1 <= NumCPU)
      BY <2>4, <3>1, <3>3 DEF Top
    <3>5. k = NumCPU
      BY <1>1, <3>1, <3>4
    <3>6. i <= NumCPU
      BY <3>2, <3>5
    <3> QED
      BY <2>1, <3>1, <3>3, <3>5, <3>6 DEF Top
  <2> DEFINE f == [u \in Top(r) |-> IF u \in Top(q) THEN u ELSE t]
  <2>5. f \in [Top(r) -> Top(q)]
    BY <2>4
  <2>6. \A a, b \in Top(r) : f[a] = f[b] => a = b
    BY <2>2, <2>4
  <2> HIDE DEF f
  <2>7. Cardinality(Top(r)) <= Cardinality(Top(q))
    BY <1>1, <2>5, <2>6, CountAtMost
  <2> QED
    BY <1>1, <2>3, <2>7 DEF r
<1> QED
  BY <1>2, <1>3

-----------------------------------------------------------------------------
(* No CPU is idle about the top.                                             *)

(* The CPUs that will neither begin a dispatch nor hold a task of the top.  *)
Lazy ==
    {p \in CPUs : ~beginEvt[p].posted /\ \A t \in Top(queue) : dispatched[t] # p}

(* There are CPUs enough for the top beside the lazy ones. *)
NoSlack == Cardinality(Top(queue)) + Cardinality(Lazy) <= NumCPU

(* When as many CPUs of D begin a dispatch as tasks of the top have no CPU, *)
(* and the others keep theirs, there are enough CPUs beside any set of CPUs *)
(* that neither begin nor hold a task of the top.                           *)
LEMMA SlackCount ==
    ASSUME NEW q \in Seq(Tasks), NEW cur \in [CPUs -> Tasks \cup {None}],
           NEW dis \in [Tasks -> CPUs \cup {None}], Apart(dis),
           \A p \in CPUs : cur[p] # None => dis[cur[p]] = p,
           NEW D \in SUBSET CPUs,
           Cardinality(Fresh(q, cur, dis)) <= Cardinality(D),
           \A t \in Top(q) : dis[t] \notin D,
           NEW L \in SUBSET CPUs, L \cap D = {},
           \A t \in Top(q) : dis[t] \notin L
    PROVE  Cardinality(Top(q)) + Cardinality(L) <= NumCPU
<1> DEFINE fresh == Fresh(q, cur, dis)
           sent  == {t \in Top(q) : dis[t] # None}
           held  == {dis[t] : t \in sent}
<1>1. /\ NumCPU \in Nat /\ Top(q) \subseteq Tasks
      /\ IsFiniteSet(Top(q)) /\ Cardinality(Top(q)) \in Nat
  BY TopFits
<1>2. fresh \cup sent = Top(q) /\ fresh \cap sent = {}
  <2>1. ASSUME NEW t \in Top(q), dis[t] = None, NEW p \in CPUs
        PROVE  cur[p] # t
    BY <1>1, <2>1, NoneAssumption
  <2> QED
    BY <2>1 DEF Fresh
<1>3. /\ Cardinality(fresh) \in Nat /\ Cardinality(sent) \in Nat
      /\ Cardinality(Top(q)) = Cardinality(fresh) + Cardinality(sent)
  <2> HIDE DEF fresh, sent
  <2>1. IsFiniteSet(fresh) /\ IsFiniteSet(sent)
    BY <1>1, <1>2, CountPart
  <2>2. /\ Cardinality(fresh) \in Nat /\ Cardinality(sent) \in Nat
        /\ Cardinality(fresh \cup sent) = Cardinality(fresh) + Cardinality(sent)
    BY <1>2, <2>1, CountDisjoint
  <2> QED
    BY <1>2, <2>2
<1>4. held \subseteq CPUs
  BY <1>1
<1>5. Cardinality(sent) <= Cardinality(held) /\ Cardinality(held) \in Nat
      /\ IsFiniteSet(held)
  <2> DEFINE g == [t \in sent |-> dis[t]]
  <2>1. g \in [sent -> held]
    OBVIOUS
  <2>2. \A t, u \in sent : g[t] = g[u] => t = u
    BY <1>1 DEF Apart
  <2> HIDE DEF g, held, sent
  <2>3. IsFiniteSet(held) /\ Cardinality(held) \in Nat
    BY <1>4, CPUsAssumption, CountPart
  <2> QED
    BY <2>1, <2>2, <2>3, CountAtMost
<1>6. D \cap held = {} /\ (D \cup held) \cap L = {}
  OBVIOUS
<1>7. /\ IsFiniteSet(D) /\ IsFiniteSet(L) /\ Cardinality(D) \in Nat
      /\ Cardinality(L) \in Nat
  BY CPUsAssumption, CountPart
<1> HIDE DEF held, sent
<1>8. /\ IsFiniteSet(D \cup held)
      /\ Cardinality(D \cup held) = Cardinality(D) + Cardinality(held)
  BY <1>5, <1>6, <1>7, CountDisjoint
<1>9. Cardinality((D \cup held) \cup L)
         = Cardinality(D) + Cardinality(held) + Cardinality(L)
  BY <1>6, <1>7, <1>8, CountDisjoint
<1>10. Cardinality((D \cup held) \cup L) <= NumCPU
  <2>1. (D \cup held) \cup L \subseteq CPUs
    BY <1>4
  <2>2. Cardinality((D \cup held) \cup L) <= Cardinality(CPUs)
    BY <2>1, CPUsAssumption, CountPart
  <2> QED
    BY <2>2 DEF NumCPU
<1>11. Cardinality(fresh) <= Cardinality(D)
  OBVIOUS
<1> HIDE DEF fresh
<1> QED
  BY <1>1, <1>3, <1>5, <1>7, <1>9, <1>10, <1>11

(* What a dispatch does to the tasks and CPUs it does not concern.          *)
LEMMA DispatchOnEffect ==
    ASSUME TypeOK, NEW cur, NEW dis \in [Tasks -> CPUs \cup {None}],
           ConsistentWith(cur, dis), NEW D \in SUBSET CPUs, NEW tau,
           DispatchOn(D, dis, tau)
    PROVE  /\ \A p \in CPUs : beginEvt'[p].posted <=> p \in D \/ beginEvt[p].posted
           /\ \A t \in Tasks : dis[t] \notin D => dispatched'[t] = dis[t]
<1>1. \A p \in CPUs : beginEvt'[p].posted <=> p \in D \/ beginEvt[p].posted
  BY DEF DispatchOn, PostBegin, BeginAt, TypeOK
<1>2. ASSUME NEW t \in Tasks, dis[t] \notin D
      PROVE  dispatched'[t] = dis[t]
  <2>1. t \notin Cancelled(D)
    <3> SUFFICES ASSUME NEW p \in D, isContextSwitching[p], endEvt[p].task = t
                 PROVE  FALSE
      BY DEF Cancelled
    <3>1. t # None
      BY NoneAssumption
    <3>2. dis[t] = p
      BY <3>1 DEF ConsistentWith
    <3> QED
      BY <1>2, <3>2
  <2> QED
    BY <2>1 DEF DispatchOn
<1> QED
  BY <1>1, <1>2

(* A dispatch on enough CPUs leaves enough CPUs for the top.                *)
LEMMA SlackAfterDispatch ==
    ASSUME TypeOK, TypeOK', NEW cur \in [CPUs -> Tasks \cup {None}],
           NEW dis \in [Tasks -> CPUs \cup {None}], ConsistentWith(cur, dis),
           NEW D \in SUBSET CPUs, NEW tau, DispatchOn(D, dis, tau),
           Cardinality(Fresh(queue', cur, dis)) <= Cardinality(D),
           \A t \in Top(queue') : dis[t] \notin D
    PROVE  NoSlack'
<1> DEFINE L == Lazy'
<1>1. Apart(dis)
  BY ConsistentIsApart
<1>2. queue' \in Seq(Tasks) /\ Top(queue') \subseteq Tasks
  BY TopFits DEF TypeOK
<1>3. \A p \in CPUs : cur[p] # None => dis[cur[p]] = p
  BY DEF ConsistentWith
<1>4. L \in SUBSET CPUs
  BY DEF Lazy
<1>5. L \cap D = {}
  BY DispatchOnEffect DEF Lazy
<1>6. \A t \in Top(queue') : dis[t] \notin L
  <2>1. \A t \in Top(queue') : dispatched'[t] = dis[t]
    BY <1>2, DispatchOnEffect
  <2> QED
    BY <2>1 DEF Lazy
<1> HIDE DEF L
<1>7. Cardinality(Top(queue')) + Cardinality(L) <= NumCPU
  BY <1>1, <1>2, <1>3, <1>4, <1>5, <1>6, SlackCount
<1> QED
  BY <1>7 DEF NoSlack, L

(* An arrival or a resumption begins a dispatch for each task of the top    *)
(* that has no CPU, and takes none from a task of the top.                  *)
LEMMA ArrivalDispatches ==
    ASSUME TypeOK, TypeOK', DispatchedIsReady, Consistent, TasksView,
           NEW t \in Tasks, NEW tau, Arrival(t, tau) \/ Resume(t, tau)
    PROVE  /\ t \notin Ready(queue)
           /\ Ready(queue') = Ready(queue) \cup {t}
           /\ \E D \in SUBSET CPUs :
                 /\ DispatchOn(D, dispatched, tau)
                 /\ Cardinality(Fresh(queue', currExe, dispatched))
                       <= Cardinality(D)
                 /\ \A u \in Top(queue') : dispatched[u] \notin D
<1>1. PICK i \in 1..Len(queue) + 1 :
         /\ queue' = Insert(queue, i, t)
         /\ Dispatch(queue', currExe, dispatched, tau)
  BY DEF Arrival, Resume, OnArrival, Places
<1>2. t \notin Ready(queue)
  BY DEF Arrival, Resume, TasksView
<1>3. Ready(queue') = Ready(queue) \cup {t} /\ NoRepeats(queue')
  BY <1>1, <1>2, InsertReady DEF TypeOK, TasksView
<1>4. ~RunsShort(queue', currExe, dispatched)
  BY <1>3, ArrivalFindsCPUs
<1>5. PICK D \in DispatchTargets(queue', currExe, dispatched) :
         DispatchOn(D, dispatched, tau)
  BY <1>1, <1>4 DEF Dispatch
<1>6. /\ queue' \in Seq(Tasks)
      /\ dispatched \in [Tasks -> CPUs \cup {None}]
      /\ ConsistentWith(currExe, dispatched)
  BY ConsistentIsConsistentWith DEF TypeOK
<1>7. Apart(dispatched)
  BY <1>6, ConsistentIsApart
<1>8. /\ D \in SUBSET CPUs
      /\ Cardinality(Fresh(queue', currExe, dispatched)) <= Cardinality(D)
      /\ \A u \in Top(queue') : dispatched[u] \notin D
  BY <1>3, <1>4, <1>6, <1>7, TargetsCount
<1> QED
  BY <1>2, <1>3, <1>5, <1>8

(* So there are CPUs enough after an arrival or a resumption.               *)
LEMMA ArrivalKeepsSlack ==
    ASSUME TypeOK, TypeOK', DispatchedIsReady, Consistent, TasksView,
           NEW t \in Tasks, NEW tau, Arrival(t, tau) \/ Resume(t, tau)
    PROVE  NoSlack'
<1>1. PICK D \in SUBSET CPUs :
        /\ DispatchOn(D, dispatched, tau)
        /\ Cardinality(Fresh(queue', currExe, dispatched)) <= Cardinality(D)
        /\ \A u \in Top(queue') : dispatched[u] \notin D
  BY ArrivalDispatches
<1>2. /\ currExe \in [CPUs -> Tasks \cup {None}]
      /\ dispatched \in [Tasks -> CPUs \cup {None}]
      /\ ConsistentWith(currExe, dispatched)
  BY ConsistentIsConsistentWith DEF TypeOK
<1> QED
  BY <1>1, <1>2, SlackAfterDispatch

(* What a task that executes on p leaves behind when it leaves the CPU and  *)
(* the queue.                                                               *)
LEMMA VacateLeaves ==
    ASSUME TypeOK, TypeOK', Consistent, TasksView,
           NEW t \in Tasks, NEW p \in ProcessorsOf(t),
           queue' = Extract(queue, t),
           currExe' = [currExe EXCEPT ![p] = None]
    PROVE  LET dis == [dispatched EXCEPT ![t] = None]
           IN  /\ p \in CPUs /\ {p} \in SUBSET CPUs
               /\ queue' \in Seq(Tasks) /\ NoRepeats(queue')
               /\ currExe' \in [CPUs -> Tasks \cup {None}]
               /\ dis \in [Tasks -> CPUs \cup {None}]
               /\ ConsistentWith(currExe', dis) /\ Apart(dis)
               /\ dispatched[t] = p
               /\ \A u \in Tasks : dis[u] # p
               /\ \A u \in Tasks : u # t => dis[u] = dispatched[u]
<1> DEFINE dis == [dispatched EXCEPT ![t] = None]
<1>1. p \in CPUs /\ currExe[p] = t /\ t # None /\ p # None
  BY NoneAssumption DEF ProcessorsOf
<1>2. /\ queue' \in Seq(Tasks)
      /\ currExe' \in [CPUs -> Tasks \cup {None}]
      /\ dis \in [Tasks -> CPUs \cup {None}]
  BY DEF TypeOK
<1>3. NoRepeats(queue')
  BY ExtractReady DEF TypeOK, TasksView
<1>4. ConsistentWith(currExe', dis)
  BY VacateConsistent
<1>5. dispatched[t] = p
  BY <1>1 DEF Consistent, PlacedIsDispatched
<1>6. \A u \in Tasks : dis[u] = IF u = t THEN None ELSE dispatched[u]
  BY DEF TypeOK
<1>7. Apart(dispatched)
  <2>1. ConsistentWith(currExe, dispatched)
    BY ConsistentIsConsistentWith
  <2>2. dispatched \in [Tasks -> CPUs \cup {None}]
    BY DEF TypeOK
  <2> QED
    BY <2>1, <2>2, ConsistentIsApart
<1> HIDE DEF dis
<1>8. Apart(dis)
  BY <1>2, <1>4, ConsistentIsApart
<1>9. \A u \in Tasks : dis[u] # p
  BY <1>1, <1>5, <1>6, <1>7 DEF Apart
<1>10. {p} \in SUBSET CPUs
  BY <1>1
<1> QED
  BY <1>1, <1>2, <1>3, <1>4, <1>5, <1>6, <1>8, <1>9, <1>10 DEF dis

(* The CPU that is left begins a dispatch: no CPU grows lazy.               *)
LEMMA VacateKeepsSlack ==
    ASSUME TypeOK, TypeOK', Consistent, TasksView, NoSlack,
           NEW t \in Tasks, NEW p \in ProcessorsOf(t), NEW tau,
           queue' = Extract(queue, t),
           currExe' = [currExe EXCEPT ![p] = None],
           DispatchOn({p}, [dispatched EXCEPT ![t] = None], tau)
    PROVE  NoSlack'
<1> DEFINE dis == [dispatched EXCEPT ![t] = None]
<1>1. /\ {p} \in SUBSET CPUs
      /\ dis \in [Tasks -> CPUs \cup {None}]
      /\ ConsistentWith(currExe', dis)
      /\ dispatched[t] = p
      /\ \A u \in Tasks : dis[u] # p
      /\ \A u \in Tasks : u # t => dis[u] = dispatched[u]
  BY VacateLeaves
<1>2. /\ Top(queue) \ {t} \subseteq Top(queue')
      /\ Cardinality(Top(queue')) <= Cardinality(Top(queue))
  BY ExtractTop DEF TypeOK, TasksView
<1>3. /\ NumCPU \in Nat /\ Top(queue) \subseteq Tasks
      /\ Cardinality(Top(queue)) \in Nat /\ Cardinality(Top(queue')) \in Nat
  BY TopFits DEF TypeOK
<1> HIDE DEF dis
<1>4. /\ \A q \in CPUs : beginEvt'[q].posted <=> q \in {p} \/ beginEvt[q].posted
      /\ \A u \in Tasks : dis[u] \notin {p} => dispatched'[u] = dis[u]
  BY <1>1, DispatchOnEffect DEF dis
<1>5. ASSUME NEW q \in Lazy'
      PROVE  q \in Lazy
  <2>1. q \in CPUs /\ q # p /\ ~beginEvt[q].posted
    BY <1>4, <1>5 DEF Lazy
  <2>2. ASSUME NEW u \in Top(queue)
        PROVE  dispatched[u] # q
    <3>1. CASE u = t
      BY <1>1, <2>1, <3>1
    <3>2. CASE u # t
      <4>1. u \in Tasks /\ u \in Top(queue') /\ dispatched'[u] = dispatched[u]
        BY <1>1, <1>2, <1>3, <1>4, <3>2
      <4> QED
        BY <1>5, <4>1 DEF Lazy
    <3> QED
      BY <3>1, <3>2
  <2> QED
    BY <2>1, <2>2 DEF Lazy
<1> DEFINE old == Lazy
           new == Lazy'
<1>6. new \subseteq old /\ old \subseteq CPUs
  BY <1>5 DEF Lazy
<1> HIDE DEF old, new
<1>7. /\ Cardinality(new) \in Nat /\ Cardinality(old) \in Nat
      /\ Cardinality(new) <= Cardinality(old)
  <2>1. IsFiniteSet(old)
    BY <1>6, CPUsAssumption, CountPart
  <2> QED
    BY <1>6, <2>1, CountPart
<1>8. Cardinality(Top(queue)) + Cardinality(old) <= NumCPU
  BY DEF NoSlack, old
<1>9. Cardinality(Top(queue')) + Cardinality(new) <= NumCPU
  BY <1>2, <1>3, <1>7, <1>8
<1> QED
  BY <1>9 DEF NoSlack, new

(* A suspension with dispatch() begins a dispatch on the CPU that is left   *)
(* and on one for each task of the top that has none, and takes none from a *)
(* task of the top.                                                         *)
LEMMA SuspendDispatches ==
    ASSUME TypeOK, TypeOK', DispatchedIsReady, Consistent, TasksView,
           NEW t \in Tasks, NEW tau, SuspendAndDispatch(t, tau)
    PROVE  LET dis == [dispatched EXCEPT ![t] = None]
           IN  \E p \in ProcessorsOf(t) : \E D \in SUBSET CPUs :
                  /\ Vacate(t, p)
                  /\ DispatchOn(D, dis, tau)
                  /\ Cardinality(Fresh(queue', currExe', dis)) <= Cardinality(D)
                  /\ \A u \in Top(queue') : dis[u] \notin D
<1> DEFINE dis == [dispatched EXCEPT ![t] = None]
<1>1. PICK p \in ProcessorsOf(t) :
        /\ Vacate(t, p)
        /\ \/ RunsShort(queue', currExe', dis)
           \/ \E D \in DispatchTargets(queue', currExe', dis) :
                 DispatchOn(D \cup {p}, dis, tau)
  BY DEF SuspendAndDispatch
<1>2. /\ p \in CPUs
      /\ queue' \in Seq(Tasks) /\ NoRepeats(queue')
      /\ dis \in [Tasks -> CPUs \cup {None}]
      /\ Apart(dis)
      /\ \A u \in Tasks : dis[u] # p
  BY <1>1, VacateLeaves DEF Vacate
<1>3. ~RunsShort(queue', currExe', dis)
  <2>1. Ready(queue') = Ready(queue) \ {t}
    BY <1>1, ExtractReady DEF Vacate, TypeOK, TasksView
  <2> QED
    BY <1>1, <2>1, SuspendFindsCPUs
<1> HIDE DEF dis
<1>4. PICK D \in DispatchTargets(queue', currExe', dis) :
         DispatchOn(D \cup {p}, dis, tau)
  BY <1>1, <1>3
<1>5. /\ D \subseteq CPUs
      /\ Cardinality(Fresh(queue', currExe', dis)) \in Nat
      /\ Cardinality(D) \in Nat
      /\ Cardinality(Fresh(queue', currExe', dis)) <= Cardinality(D)
      /\ \A u \in Top(queue') : dis[u] \notin D
  BY <1>2, <1>3, TargetsCount
<1>6. D \cup {p} \in SUBSET CPUs
  BY <1>2, <1>5
<1>7. Cardinality(D \cup {p}) \in Nat /\ Cardinality(D) <= Cardinality(D \cup {p})
  <2>1. IsFiniteSet(D \cup {p})
    BY <1>6, CPUsAssumption, CountPart
  <2> QED
    BY <2>1, CountPart
<1>8. Cardinality(Fresh(queue', currExe', dis)) <= Cardinality(D \cup {p})
  BY <1>5, <1>7
<1>9. \A u \in Top(queue') : dis[u] \notin D \cup {p}
  <2>1. Top(queue') \subseteq Tasks
    BY <1>2, TopFits
  <2> QED
    BY <1>2, <1>5, <2>1
<1>10. \E r \in ProcessorsOf(t) : \E C \in SUBSET CPUs :
          /\ Vacate(t, r)
          /\ DispatchOn(C, dis, tau)
          /\ Cardinality(Fresh(queue', currExe', dis)) <= Cardinality(C)
          /\ \A u \in Top(queue') : dis[u] \notin C
  BY <1>1, <1>4, <1>6, <1>8, <1>9
<1> QED
  BY <1>10 DEF dis

(* So there are CPUs enough after it. *)
LEMMA SuspendKeepsSlack ==
    ASSUME TypeOK, TypeOK', DispatchedIsReady, Consistent, TasksView,
           NEW t \in Tasks, NEW tau, SuspendAndDispatch(t, tau)
    PROVE  NoSlack'
<1> DEFINE dis == [dispatched EXCEPT ![t] = None]
<1>1. PICK p \in ProcessorsOf(t) : \E D \in SUBSET CPUs :
        /\ Vacate(t, p)
        /\ DispatchOn(D, dis, tau)
        /\ Cardinality(Fresh(queue', currExe', dis)) <= Cardinality(D)
        /\ \A u \in Top(queue') : dis[u] \notin D
  BY SuspendDispatches
<1>2. /\ currExe' \in [CPUs -> Tasks \cup {None}]
      /\ dis \in [Tasks -> CPUs \cup {None}]
      /\ ConsistentWith(currExe', dis)
  BY <1>1, VacateLeaves DEF Vacate
<1> HIDE DEF dis
<1> QED
  BY <1>1, <1>2, SlackAfterDispatch

(* The CPU that begins a switch takes a task of the top, unless all tasks   *)
(* of the top have their CPUs.                                              *)
LEMMA BeginKeepsSlack ==
    ASSUME TypeOK, TypeOK', Consistent, Consistent', NoSlack,
           NEW p \in CPUs, BeginDispatch(p)
    PROVE  NoSlack'
<1> DEFINE dt  == currExe[p]
           dis == [t \in Tasks |-> IF t = dt THEN None ELSE dispatched[t]]
<1>1. PICK st \in Tasks \cup {None} :
        /\ IsNextToRun(st, queue, dis)
        /\ dispatched' = [t \in Tasks |-> IF t = st THEN p ELSE dis[t]]
  BY Zenon DEF BeginDispatch
<1>2. /\ queue' = queue
      /\ beginEvt' = [beginEvt EXCEPT ![p].posted = FALSE]
  BY DEF BeginDispatch
<1>3. \A q \in CPUs : q # p => beginEvt'[q].posted = beginEvt[q].posted
  BY <1>2 DEF TypeOK
<1>4. /\ NumCPU \in Nat /\ Top(queue) \subseteq Tasks
      /\ IsFiniteSet(Top(queue)) /\ Cardinality(Top(queue)) \in Nat
  BY TopFits DEF TypeOK
<1>5. dt # None => dispatched[dt] = p
  BY DEF Consistent, PlacedIsDispatched
<1>6. CASE st \in Top(queue)
  <2>1. st \in Tasks /\ dispatched'[st] = p /\ dis[st] = None
    BY <1>1, <1>4, <1>6, NoneAssumption DEF IsNextToRun
  <2>2. ASSUME NEW u \in Tasks, NEW q \in CPUs, q # p, dispatched[u] = q
        PROVE  dispatched'[u] = q
    <3>1. q # None
      BY NoneAssumption
    <3>2. u # dt
      BY <1>5, <2>2, NoneAssumption
    <3>3. u # st
      BY <2>1, <2>2, <3>1, <3>2
    <3> QED
      BY <1>1, <2>2, <3>2, <3>3
  <2>3. ASSUME NEW q \in Lazy'
        PROVE  q \in Lazy
    <3>1. q \in CPUs /\ ~beginEvt'[q].posted
          /\ \A u \in Top(queue) : dispatched'[u] # q
      BY <1>2, <2>3 DEF Lazy
    <3>2. q # p
      BY <1>6, <2>1, <3>1
    <3> QED
      BY <1>3, <1>4, <2>2, <3>1, <3>2 DEF Lazy
  <2> DEFINE old == Lazy
             new == Lazy'
  <2>4. new \subseteq old /\ old \subseteq CPUs
    BY <2>3 DEF Lazy
  <2> HIDE DEF old, new
  <2>5. /\ Cardinality(new) \in Nat /\ Cardinality(old) \in Nat
        /\ Cardinality(new) <= Cardinality(old)
    <3>1. IsFiniteSet(old)
      BY <2>4, CPUsAssumption, CountPart
    <3> QED
      BY <2>4, <3>1, CountPart
  <2>6. Cardinality(Top(queue)) + Cardinality(old) <= NumCPU
    BY DEF NoSlack, old
  <2>7. Cardinality(Top(queue)) + Cardinality(new) <= NumCPU
    BY <1>4, <2>5, <2>6
  <2> QED
    BY <1>2, <2>7 DEF NoSlack, new
<1>7. CASE st \notin Top(queue)
  <2>1. \A u \in Top(queue) : dis[u] # None
    <3> SUFFICES ASSUME NEW k \in 1..Len(queue), k <= NumCPU
                 PROVE  dis[queue[k]] # None
      BY DEF Top
    <3>1. CASE st = None /\ \A j \in 1..Len(queue) : dis[queue[j]] # None
      BY <3>1
    <3>2. CASE \E j \in 1..Len(queue) :
                  st = queue[j] /\ \A m \in 1..j-1 : dis[queue[m]] # None
      <4>1. PICK j \in 1..Len(queue) :
                  st = queue[j] /\ \A m \in 1..j-1 : dis[queue[m]] # None
        BY <3>2
      <4>2. ~(j <= NumCPU)
        BY <1>7, <4>1 DEF Top
      <4>3. k \in 1..j-1
        BY <1>4, <4>2
      <4> QED
        BY <4>1, <4>3
    <3> HIDE DEF dis
    <3> QED
      BY <1>1, <3>1, <3>2 DEF IsNextToRun
  <2>2. \A u \in Top(queue) : dispatched'[u] # None
    BY <1>1, <1>4, <1>7, <2>1
  <2>3. /\ currExe' \in [CPUs -> Tasks \cup {None}]
        /\ dispatched' \in [Tasks -> CPUs \cup {None}]
        /\ queue \in Seq(Tasks)
    BY DEF TypeOK
  <2>4. \A q \in CPUs : currExe'[q] # None => dispatched'[currExe'[q]] = q
    BY DEF Consistent, PlacedIsDispatched
  <2>5. Apart(dispatched')
    <3>1. \A u \in Tasks : u # None
      BY NoneAssumption
    <3>2. \A u \in Tasks : dispatched'[u] # None =>
             \/ currExe'[dispatched'[u]] = u
             \/ endEvt'[dispatched'[u]].posted /\ endEvt'[dispatched'[u]].task = u
      BY DEF Consistent, DispatchedIsPlaced
    <3>3. \A q \in CPUs : endEvt'[q].posted => currExe'[q] = None
      BY DEF Consistent, SwitchingIsExclusive
    <3> SUFFICES ASSUME NEW t \in Tasks, NEW u \in Tasks,
                        dispatched'[t] = dispatched'[u], dispatched'[t] # None
                 PROVE  t = u
      BY DEF Apart
    <3> DEFINE q == dispatched'[t]
    <3>4. q \in CPUs
      BY <2>3
    <3>5. currExe'[q] = t \/ (endEvt'[q].posted /\ endEvt'[q].task = t)
      BY <3>2
    <3>6. currExe'[q] = u \/ (endEvt'[q].posted /\ endEvt'[q].task = u)
      BY <3>2
    <3> HIDE DEF q
    <3> QED
      BY <3>1, <3>3, <3>4, <3>5, <3>6
  <2>6. Fresh(queue, currExe', dispatched') = {}
    BY <2>2 DEF Fresh
  <2>7. Cardinality(Fresh(queue, currExe', dispatched')) <= Cardinality({})
    <3>1. Cardinality({}) = 0
      BY FS_EmptySet
    <3> QED
      BY <2>6, <3>1
  <2> DEFINE new == Lazy'
  <2>8. new \in SUBSET CPUs /\ \A u \in Top(queue) : dispatched'[u] \notin new
    BY <1>2 DEF Lazy
  <2> HIDE DEF new
  <2>9. {} \in SUBSET CPUs /\ new \cap {} = {}
        /\ \A u \in Top(queue) : dispatched'[u] \notin {}
    OBVIOUS
  <2>10. Cardinality(Top(queue)) + Cardinality(new) <= NumCPU
    BY <2>3, <2>4, <2>5, <2>7, <2>8, <2>9, SlackCount
  <2> QED
    BY <1>2, <2>10 DEF NoSlack, new
<1> QED
  BY <1>6, <1>7

(* An empty queue leaves all CPUs to be lazy. *)
LEMMA EmptyHasNoSlack == queue = <<>> => NoSlack
<1> SUFFICES ASSUME queue = <<>> PROVE NoSlack
  OBVIOUS
<1>1. Top(queue) = {}
  BY DEF Top
<1> DEFINE L == Lazy
<1>2. L \subseteq CPUs
  BY DEF Lazy
<1> HIDE DEF L
<1>3. /\ Cardinality(L) \in Nat /\ NumCPU \in Nat /\ Cardinality(L) <= NumCPU
  BY <1>2, CPUsAssumption, CountPart DEF NumCPU
<1>4. Cardinality({}) = 0
  BY FS_EmptySet
<1> QED
  BY <1>1, <1>3, <1>4 DEF NoSlack, L

TopInv == GoodRun => NoSlack

(* What the theorems below rest on. *)
LEMMA TopInvariant == Spec => [](BaseInv /\ ViewInv /\ TopInv)
<1>1. Init => TopInv
  BY EmptyHasNoSlack DEF Init, TopInv
<1>2. /\ BaseInv /\ BaseInv' /\ ViewInv /\ TopInv /\ [Next]_vars
      => TopInv'
  <2> SUFFICES ASSUME BaseInv, BaseInv', ViewInv, TopInv, [Next]_vars, GoodRun'
               PROVE  NoSlack'
    BY DEF TopInv
  <2>1. TypeOK /\ TypeOK' /\ DispatchedIsReady
    BY DEF BaseInv
  <2>2. GoodRun
    BY <2>1, GoodRunStep
  <2>3. Consistent /\ Consistent' /\ TasksView /\ exc = "none" /\ NoSlack
    BY <2>2 DEF BaseInv, ViewInv, TopInv
  <2>4. ASSUME NEW t \in Tasks, Request(t)
        PROVE  NoSlack'
    <3>1. PICK tau \in 0..EndTick :
            \/ Arrival(t, tau) \/ Resume(t, tau) \/ EndInstance(t, tau)
            \/ Suspend(t, tau) \/ SuspendAndDispatch(t, tau)
      BY <2>4 DEF Request
    <3>2. CASE Arrival(t, tau) \/ Resume(t, tau)
      BY <2>1, <2>3, <3>2, ArrivalKeepsSlack
    <3>3. CASE EndInstance(t, tau)
      <4>1. t \in Executing
        BY <2>3, <3>3 DEF EndInstance, Step, TasksView
      <4>2. PICK p \in ProcessorsOf(t) : OnEnd(t, p, tau)
        BY <3>3, <4>1, ProcessorsAreExecuting DEF EndInstance
      <4> QED
        BY <2>1, <2>3, <4>2, VacateKeepsSlack DEF OnEnd
    <3>4. CASE Suspend(t, tau)
      <4>1. PICK p \in ProcessorsOf(t) :
              /\ Vacate(t, p)
              /\ DispatchOn({p}, [dispatched EXCEPT ![t] = None], tau)
        BY <3>4 DEF Suspend
      <4> QED
        BY <2>1, <2>3, <4>1, VacateKeepsSlack DEF Vacate
    <3>5. CASE SuspendAndDispatch(t, tau)
      BY <2>1, <2>3, <3>5, SuspendKeepsSlack
    <3> QED
      BY <3>1, <3>2, <3>3, <3>4, <3>5
  <2>5. ASSUME NEW p \in CPUs, BeginDispatch(p)
        PROVE  NoSlack'
    BY <2>1, <2>3, <2>5, BeginKeepsSlack
  <2>6. CASE UNCHANGED <<queue, dispatched, beginEvt>>
    BY <2>3, <2>6 DEF NoSlack, Lazy
  <2>7. ASSUME NEW t \in Tasks, OnSched(t) \/ OnDesched(t)
        PROVE  UNCHANGED <<queue, dispatched, beginEvt>>
    BY <2>7 DEF OnSched, OnDesched, dispatchVars
  <2>8. ASSUME NEW p \in CPUs, EndDispatch(p)
        PROVE  UNCHANGED <<queue, dispatched, beginEvt>>
    BY <2>8 DEF EndDispatch
  <2>9. CASE NewRun
    <3>1. queue' = <<>>
      BY <2>9 DEF NewRun, ResetQueue
    <3>2. (queue = <<>> => NoSlack)'
      BY EmptyHasNoSlack, PTL
    <3> QED
      BY <3>1, <3>2
  <2>10. CASE Stopped \/ UNCHANGED vars
    BY <2>6, <2>10 DEF Stopped, vars
  <2> QED
    BY <2>4, <2>5, <2>6, <2>7, <2>8, <2>9, <2>10 DEF Next
<1> QED
  BY <1>1, <1>2, ViewInvariant, PTL DEF Spec

-----------------------------------------------------------------------------
(* The tasks of the top get their CPUs.                                      *)

(* When no CPU is lazy beyond need, a CPU is about to begin a dispatch for  *)
(* every task of the top that has none.                                     *)
LEMMA SlackLosesNone ==
    ASSUME TypeOK, NoSlack
    PROVE  NoLostDispatch
<1> DEFINE lost   == {t \in Top(queue) : dispatched[t] = None}
           sent   == {t \in Top(queue) : dispatched[t] # None}
           posted == {p \in CPUs : beginEvt[p].posted}
           held   == {dispatched[t] : t \in sent}
           idle   == Lazy
<1>1. /\ NumCPU \in Nat /\ Top(queue) \subseteq Tasks
      /\ IsFiniteSet(Top(queue)) /\ Cardinality(Top(queue)) \in Nat
  BY TopFits DEF TypeOK
<1>2. /\ lost \cup sent = Top(queue) /\ lost \cap sent = {}
      /\ held \subseteq CPUs /\ posted \subseteq CPUs /\ idle \subseteq CPUs
      /\ posted \cup held \cup idle = CPUs
  <2>1. lost \cup sent = Top(queue) /\ lost \cap sent = {}
    OBVIOUS
  <2>2. held \subseteq CPUs
    BY <1>1 DEF TypeOK
  <2>3. posted \subseteq CPUs /\ idle \subseteq CPUs
    BY DEF Lazy
  <2>4. ASSUME NEW p \in CPUs, p \notin posted, p \notin idle
        PROVE  p \in held
    <3>1. PICK t \in Top(queue) : dispatched[t] = p
      BY <2>4 DEF Lazy
    <3>2. p # None
      BY NoneAssumption
    <3> QED
      BY <3>1, <3>2
  <2> HIDE DEF lost, sent, posted, held, idle
  <2> QED
    BY <2>1, <2>2, <2>3, <2>4
<1>3. Cardinality(held) <= Cardinality(sent)
  <2> DEFINE of(p) == CHOOSE t \in sent : dispatched[t] = p
             g     == [p \in held |-> of(p)]
  <2>1. \A p \in held : of(p) \in sent /\ dispatched[of(p)] = p
    OBVIOUS
  <2> HIDE DEF of
  <2>2. g \in [held -> sent] /\ \A p, r \in held : g[p] = g[r] => p = r
    BY <2>1
  <2> HIDE DEF g, held, sent, lost
  <2>3. IsFiniteSet(sent)
    BY <1>1, <1>2, CountPart
  <2> QED
    BY <2>2, <2>3, CountAtMost
<1>4. Cardinality(Top(queue)) + Cardinality(idle) <= NumCPU
  BY DEF NoSlack
<1> HIDE DEF lost, sent, posted, held, idle
<1>5. /\ IsFiniteSet(lost) /\ IsFiniteSet(sent)
      /\ Cardinality(lost) \in Nat /\ Cardinality(sent) \in Nat
  BY <1>1, <1>2, CountPart
<1>6. Cardinality(Top(queue)) = Cardinality(lost) + Cardinality(sent)
  BY <1>2, <1>5, CountDisjoint
<1>7. /\ IsFiniteSet(posted) /\ IsFiniteSet(held) /\ IsFiniteSet(idle)
      /\ Cardinality(posted) \in Nat /\ Cardinality(held) \in Nat
      /\ Cardinality(idle) \in Nat
  BY <1>2, CPUsAssumption, CountPart
<1>8. NumCPU <= Cardinality(posted) + Cardinality(held) + Cardinality(idle)
  <2>1. /\ IsFiniteSet(posted \cup held)
        /\ Cardinality(posted \cup held) \in Nat
        /\ Cardinality(posted \cup held)
              = Cardinality(posted) + Cardinality(held)
                - Cardinality(posted \cap held)
        /\ Cardinality(posted \cap held) \in Nat
    <3>1. IsFiniteSet(posted \cup held) /\ IsFiniteSet(posted \cap held)
      BY <1>2, CPUsAssumption, CountPart
    <3> QED
      BY <1>7, <3>1, FS_Union, FS_CardinalityType
  <2>2. /\ Cardinality((posted \cup held) \cup idle)
              = Cardinality(posted \cup held) + Cardinality(idle)
                - Cardinality((posted \cup held) \cap idle)
        /\ Cardinality((posted \cup held) \cap idle) \in Nat
    <3>1. IsFiniteSet((posted \cup held) \cap idle)
      BY <1>2, CPUsAssumption, CountPart
    <3> QED
      BY <1>7, <2>1, <3>1, FS_Union, FS_CardinalityType
  <2>3. NumCPU = Cardinality((posted \cup held) \cup idle)
    BY <1>2 DEF NumCPU
  <2> QED
    BY <1>7, <2>1, <2>2, <2>3
<1>9. Cardinality(lost) <= Cardinality(posted)
  BY <1>1, <1>3, <1>4, <1>5, <1>6, <1>7, <1>8
<1> QED
  BY <1>9 DEF NoLostDispatch, lost, posted

(* When nothing is under way, no lazy CPU means that the top executes, and  *)
(* it alone.                                                                *)
LEMMA SlackRunsTop ==
    ASSUME TypeOK, DispatchedIsReady, Consistent, NoRepeats(queue), NoSlack
    PROVE  TopRuns
<1> SUFFICES ASSUME \A p \in CPUs : ~beginEvt[p].posted /\ ~endEvt[p].posted
             PROVE  {currExe[p] : p \in CPUs} \ {None} = Top(queue)
  BY DEF TopRuns
<1>1. /\ NumCPU \in Nat /\ Top(queue) \subseteq Tasks
      /\ IsFiniteSet(Top(queue)) /\ Cardinality(Top(queue)) \in Nat
  BY TopFits DEF TypeOK
<1>2. ASSUME NEW t \in Top(queue)
      PROVE  t \in {currExe[p] : p \in CPUs} \ {None}
  <2> DEFINE lost   == {u \in Top(queue) : dispatched[u] = None}
             posted == {p \in CPUs : beginEvt[p].posted}
  <2>1. Cardinality(lost) <= Cardinality(posted)
    BY SlackLosesNone DEF NoLostDispatch
  <2>2. posted = {}
    OBVIOUS
  <2>3. lost \subseteq Top(queue)
    OBVIOUS
  <2> HIDE DEF lost, posted
  <2>4. lost = {}
    <3>1. Cardinality(posted) = 0
      BY <2>2, FS_EmptySet
    <3>2. IsFiniteSet(lost) /\ Cardinality(lost) \in Nat
      BY <1>1, <2>3, CountPart
    <3>3. Cardinality(lost) = 0
      BY <2>1, <3>1, <3>2
    <3> QED
      BY <3>2, <3>3, FS_EmptySet
  <2>5. dispatched[t] # None
    BY <2>4 DEF lost
  <2>6. dispatched[t] \in CPUs /\ currExe[dispatched[t]] = t
    BY <1>1, <2>5 DEF Consistent, DispatchedIsPlaced, TypeOK
  <2> QED
    BY <1>1, <2>6, NoneAssumption
<1>3. ASSUME NEW p \in CPUs, currExe[p] # None, currExe[p] \notin Top(queue)
      PROVE  FALSE
  <2> DEFINE t    == currExe[p]
             idle == Lazy
  <2>1. t \in Tasks /\ dispatched[t] = p /\ t \in Ready(queue)
    BY <1>3, NoneAssumption
    DEF TypeOK, Consistent, PlacedIsDispatched, DispatchedIsReady
  <2>2. NumCPU <= Cardinality(Top(queue))
    BY <1>3, <2>1, FullTop DEF TypeOK
  <2>3. \A u \in Tasks : dispatched[u] = p => u = t
    <3>1. ConsistentWith(currExe, dispatched)
      BY ConsistentIsConsistentWith
    <3>2. dispatched \in [Tasks -> CPUs \cup {None}] /\ p # None
      BY NoneAssumption DEF TypeOK
    <3>3. Apart(dispatched)
      BY <3>1, <3>2, ConsistentIsApart
    <3> QED
      BY <2>1, <3>2, <3>3 DEF Apart
  <2>4. p \in idle /\ idle \subseteq CPUs
    BY <1>1, <1>3, <2>3 DEF Lazy
  <2>5. Cardinality(Top(queue)) + Cardinality(idle) <= NumCPU
    BY DEF NoSlack
  <2> HIDE DEF idle
  <2>6. IsFiniteSet(idle) /\ Cardinality(idle) \in Nat
    BY <2>4, CPUsAssumption, CountPart
  <2>7. Cardinality(idle) = 0
    BY <1>1, <2>2, <2>5, <2>6
  <2> QED
    BY <2>4, <2>6, <2>7, FS_EmptySet
<1> QED
  BY <1>2, <1>3

(* mrtkernel.hpp on dispatch(), in the first run and in every run of the    *)
(* default kernel: the first N tasks of the ready queue are dispatched on   *)
(* the N CPUs; when no switch is under way or due, they and no other tasks  *)
(* execute.                                                                 *)
THEOREM GoodRunsRunTheTop == Spec => [](GoodRun => TopRuns)
<1>1. BaseInv /\ ViewInv /\ TopInv => (GoodRun => TopRuns)
  BY SlackRunsTop DEF BaseInv, ViewInv, TopInv, TasksView
<1> QED
  BY <1>1, TopInvariant, PTL

(* In the first run and in every run of the default kernel no task of the   *)
(* top is forgotten, however its switch was cancelled: a CPU is about to    *)
(* begin a dispatch for each one that has none.                             *)
THEOREM GoodRunsLoseNone == Spec => [](GoodRun => NoLostDispatch)
<1>1. BaseInv /\ TopInv => (GoodRun => NoLostDispatch)
  BY SlackLosesNone DEF BaseInv, TopInv
<1> QED
  BY <1>1, TopInvariant, PTL

-----------------------------------------------------------------------------
(* Switches towards the top are carried through.                             *)

(* The event of a CPU where no dispatch is started stands. *)
LEMMA OtherEndsStand ==
    ASSUME NEW D, NEW dis, NEW tau, DispatchOn(D, dis, tau), TypeOK,
           NEW p \in CPUs, p \notin D
    PROVE  endEvt'[p] = endEvt[p]
BY DEF DispatchOn

(* What TopSwitchIsKept says of one CPU. *)
SwitchKept(p) ==
    endEvt[p].posted /\ endEvt[p].task # None /\ endEvt[p].task \in Top(queue')
    /\ run' = run
      => endEvt'[p] = endEvt[p] \/ currExe'[p] = endEvt[p].task

(* No step of a good run cancels a switch towards a task of the top.        *)
LEMMA SwitchKeptStep ==
    ASSUME BaseInv, BaseInv', ViewInv, GoodRun, [Next]_vars, NEW p \in CPUs
    PROVE  SwitchKept(p)
<1> DEFINE st == endEvt[p].task
<1> SUFFICES ASSUME endEvt[p].posted, st # None, st \in Top(queue'), run' = run
             PROVE  endEvt'[p] = endEvt[p] \/ currExe'[p] = st
  BY DEF SwitchKept
<1>1. /\ TypeOK /\ TypeOK' /\ DispatchedIsReady /\ Consistent /\ TasksView
  BY DEF BaseInv, ViewInv
<1>2. /\ st \in Tasks /\ dispatched[st] = p /\ p # None
      /\ currExe[p] = None /\ ~beginEvt[p].posted
  BY <1>1, NoneAssumption
  DEF TypeOK, Consistent, PlacedIsDispatched, SwitchingIsExclusive
<1>3. ASSUME NEW t \in Tasks, NEW r \in ProcessorsOf(t)
      PROVE  t # st /\ r # p
  <2>1. r \in CPUs /\ currExe[r] = t /\ t # None
    BY NoneAssumption DEF ProcessorsOf
  <2>2. r # p
    BY <1>2, <2>1
  <2>3. dispatched[t] = r
    BY <1>1, <2>1 DEF Consistent, PlacedIsDispatched
  <2> QED
    BY <1>2, <2>2, <2>3
<1> HIDE DEF st
<1>4. ASSUME NEW t \in Tasks, Request(t)
      PROVE  endEvt'[p] = endEvt[p]
  <2>1. PICK tau \in 0..EndTick :
          \/ Arrival(t, tau) \/ Resume(t, tau) \/ EndInstance(t, tau)
          \/ Suspend(t, tau) \/ SuspendAndDispatch(t, tau)
    BY <1>4 DEF Request
  <2>2. CASE Arrival(t, tau) \/ Resume(t, tau)
    <3>1. PICK D \in SUBSET CPUs :
            /\ DispatchOn(D, dispatched, tau)
            /\ \A u \in Top(queue') : dispatched[u] \notin D
      BY <1>1, <2>2, ArrivalDispatches
    <3>2. p \notin D
      BY <1>2, <3>1
    <3> QED
      BY <1>1, <3>1, <3>2, OtherEndsStand
  <2>3. CASE EndInstance(t, tau)
    <3>1. CASE UNCHANGED dispatchVars
      BY <3>1 DEF dispatchVars
    <3>2. ASSUME NEW r \in ProcessorsOf(t), OnEnd(t, r, tau)
          PROVE  endEvt'[p] = endEvt[p]
      <4>1. p \notin {r}
        BY <1>3
      <4> QED
        BY <1>1, <3>2, <4>1, OtherEndsStand DEF OnEnd
    <3> QED
      BY <2>3, <3>1, <3>2 DEF EndInstance
  <2>4. CASE Suspend(t, tau)
    <3>1. PICK r \in ProcessorsOf(t) :
             DispatchOn({r}, [dispatched EXCEPT ![t] = None], tau)
      BY <2>4 DEF Suspend
    <3>2. p \notin {r}
      BY <1>3
    <3> QED
      BY <1>1, <3>1, <3>2, OtherEndsStand
  <2>5. CASE SuspendAndDispatch(t, tau)
    <3> DEFINE dis == [dispatched EXCEPT ![t] = None]
    <3>1. PICK r \in ProcessorsOf(t) : \E D \in SUBSET CPUs :
            /\ DispatchOn(D, dis, tau)
            /\ \A u \in Top(queue') : dis[u] \notin D
      BY <1>1, <2>5, SuspendDispatches
    <3>2. PICK D \in SUBSET CPUs :
            /\ DispatchOn(D, dis, tau)
            /\ \A u \in Top(queue') : dis[u] \notin D
      BY <3>1
    <3>3. dis[st] = p
      BY <1>1, <1>2, <1>3 DEF TypeOK
    <3> HIDE DEF dis
    <3>4. p \notin D
      BY <3>2, <3>3
    <3> QED
      BY <1>1, <3>2, <3>4, OtherEndsStand
  <2> QED
    BY <2>1, <2>2, <2>3, <2>4, <2>5
<1>5. ASSUME NEW r \in CPUs, BeginDispatch(r)
      PROVE  endEvt'[p] = endEvt[p]
  <2>1. beginEvt[r].posted
    BY <1>5 DEF BeginDispatch
  <2>2. r # p
    BY <1>2, <2>1
  <2>3. UNCHANGED endEvt \/ \E e : endEvt' = [endEvt EXCEPT ![r] = e]
    BY <1>5, Zenon DEF BeginDispatch
  <2> QED
    BY <1>1, <2>2, <2>3 DEF TypeOK
<1>6. ASSUME NEW r \in CPUs, EndDispatch(r)
      PROVE  endEvt'[p] = endEvt[p] \/ currExe'[p] = st
  <2>1. /\ endEvt' = [endEvt EXCEPT ![r].posted = FALSE]
        /\ currExe' = [currExe EXCEPT ![r] = endEvt[r].task]
    BY <1>6 DEF EndDispatch
  <2>2. CASE r = p
    BY <1>1, <2>1, <2>2 DEF TypeOK, st
  <2>3. CASE r # p
    BY <1>1, <2>1, <2>3 DEF TypeOK
  <2> QED
    BY <2>2, <2>3
<1>7. ASSUME NEW t \in Tasks, OnSched(t) \/ OnDesched(t)
      PROVE  endEvt'[p] = endEvt[p]
  BY <1>7 DEF OnSched, OnDesched, dispatchVars
<1>8. ~NewRun
  BY <1>1 DEF NewRun, TypeOK
<1>9. CASE Stopped \/ UNCHANGED vars
  BY <1>9 DEF Stopped, vars
<1> QED
  BY <1>4, <1>5, <1>6, <1>7, <1>8, <1>9 DEF Next

(* A simulation of one run, or of the default kernel: all its runs are good.*)
AllRunsGood == Runs = 1 \/ NoDelays

(* None of its runs is disturbed by an earlier one. *)
LEMMA AllAreGood == ASSUME AllRunsGood PROVE TypeOK => GoodRun
BY DEF AllRunsGood, TypeOK, GoodRun

(* In a simulation of one run, and in every run of the default kernel, a    *)
(* context switch towards a task of the top is carried through: arrivals    *)
(* and evictions cancel only switches towards tasks that lost their place.  *)
THEOREM SwitchesToTheTop ==
    ASSUME AllRunsGood
    PROVE  Spec => TopSwitchIsKept
<1>1. /\ BaseInv /\ BaseInv' /\ ViewInv /\ [Next]_vars
      => [\A p \in CPUs : SwitchKept(p)]_vars
  BY AllAreGood, SwitchKeptStep DEF BaseInv
<1>2. [\A p \in CPUs : SwitchKept(p)]_vars <=>
      [\A p \in CPUs :
          endEvt[p].posted /\ endEvt[p].task # None
          /\ endEvt[p].task \in Top(queue')
          /\ run' = run
            => \/ endEvt'[p] = endEvt[p]
               \/ currExe'[p] = endEvt[p].task]_vars
  BY DEF SwitchKept
<1> QED
  BY <1>1, <1>2, ViewInvariant, PTL DEF Spec, TopSwitchIsKept

-----------------------------------------------------------------------------
(* The kernel implements TaskPlacement.                                      *)

(* How one task may move in one step, said of the kernel's own variables.   *)
Moves(t) ==
    LET d == dispatched[t]
        e == dispatched'[t]
        in     == t \in Ready(queue)
        stayed == t \in Ready(queue')
    IN  \/ (* nothing happens to it *)
           e = d /\ (in <=> stayed)
           /\ (d # None => (currExe[d] = t <=> currExe'[d] = t))
        \/ (* it arrives *)
           d = None /\ e = None /\ ~in /\ stayed
        \/ (* it loses its CPU, and waits *)
           d # None /\ e = None /\ stayed
        \/ (* it ends or is suspended *)
           d # None /\ currExe[d] = t /\ e = None /\ ~stayed
        \/ (* it is dispatched *)
           d = None /\ in /\ e # None /\ currExe'[e] # t
        \/ (* it starts, or its own CPU switches to it again *)
           d # None /\ e = d /\ ~(currExe[d] = t <=> currExe'[d] = t)

(* Where a task is, without CASE. *)
LEMMA PlaceIs ==
    ASSUME NEW t \in Tasks
    PROVE  PlaceOf(t) = IF dispatched[t] = None
                        THEN IF t \in Ready(queue) THEN <<"waiting">>
                                                   ELSE <<"out">>
                        ELSE IF currExe[dispatched[t]] = t
                             THEN <<"running", dispatched[t]>>
                             ELSE <<"dispatched", dispatched[t]>>
BY DEF PlaceOf

(* The same of the state after a step. *)
LEMMA PlaceIsNext ==
    ASSUME NEW t \in Tasks
    PROVE  PlaceOf(t)' = IF dispatched'[t] = None
                         THEN IF t \in Ready(queue') THEN <<"waiting">>
                                                     ELSE <<"out">>
                         ELSE IF currExe'[dispatched'[t]] = t
                              THEN <<"running", dispatched'[t]>>
                              ELSE <<"dispatched", dispatched'[t]>>
BY DEF PlaceOf

(* These moves are those TaskPlacement allows. *)
LEMMA MovesAreLegal ==
    ASSUME TypeOK, TypeOK', NEW t \in Tasks, Moves(t)
    PROVE  Placement!Legal(PlaceOf(t), PlaceOf(t)')
<1> DEFINE d == dispatched[t]
           e == dispatched'[t]
<1>1. d \in CPUs \cup {None} /\ e \in CPUs \cup {None}
  BY DEF TypeOK
<1> USE PlaceIs, PlaceIsNext
    DEF Placement!Legal, Placement!Out, Placement!Waiting,
        Placement!Dispatched, Placement!OnCPU
<1>2. CASE e = d /\ (t \in Ready(queue) <=> t \in Ready(queue'))
           /\ (d # None => (currExe[d] = t <=> currExe'[d] = t))
  <2>1. PlaceOf(t)' = PlaceOf(t)
    BY <1>2
  <2> QED
    BY <2>1
<1>3. CASE d = None /\ e = None /\ t \notin Ready(queue) /\ t \in Ready(queue')
  BY <1>3
<1>4. CASE d # None /\ e = None /\ t \in Ready(queue')
  BY <1>1, <1>4
<1>5. CASE d # None /\ currExe[d] = t /\ e = None /\ t \notin Ready(queue')
  BY <1>1, <1>5
<1>6. CASE d = None /\ t \in Ready(queue) /\ e # None /\ currExe'[e] # t
  BY <1>1, <1>6
<1>7. CASE d # None /\ e = d /\ ~(currExe[d] = t <=> currExe'[d] = t)
  BY <1>1, <1>7
<1> QED
  BY <1>2, <1>3, <1>4, <1>5, <1>6, <1>7 DEF Moves

(* No CPU is promised twice. *)
LEMMA PlacesAreExclusive ==
    TypeOK /\ Consistent => Placement!Exclusive([t \in Tasks |-> PlaceOf(t)])
<1> SUFFICES ASSUME TypeOK, Consistent
             PROVE  Placement!Exclusive([t \in Tasks |-> PlaceOf(t)])
  OBVIOUS
<1>1. ASSUME NEW t \in Tasks, NEW p \in CPUs,
             \/ PlaceOf(t) = Placement!Dispatched(p)
             \/ PlaceOf(t) = Placement!OnCPU(p)
      PROVE  dispatched[t] = p
  BY <1>1, PlaceIs DEF Placement!Dispatched, Placement!OnCPU
<1>2. \A p \in CPUs : p # None
  BY NoneAssumption
<1>3. Apart(dispatched)
  <2>1. ConsistentWith(currExe, dispatched)
    BY ConsistentIsConsistentWith
  <2>2. dispatched \in [Tasks -> CPUs \cup {None}]
    BY DEF TypeOK
  <2> QED
    BY <2>1, <2>2, ConsistentIsApart
<1>4. ASSUME NEW p \in CPUs, NEW t \in Tasks, NEW u \in Tasks,
             dispatched[t] = p, dispatched[u] = p
      PROVE  t = u
  BY <1>2, <1>3, <1>4 DEF Apart
<1> HIDE DEF Placement!Dispatched, Placement!OnCPU
<1> QED
  BY <1>1, <1>4 DEF Placement!Exclusive, Placement!Holds

(* A dispatch leaves a task as it was, or takes its CPU away.               *)
LEMMA DispatchOnMoves ==
    ASSUME TypeOK, NEW cur, NEW dis \in [Tasks -> CPUs \cup {None}],
           ConsistentWith(cur, dis), NEW D \in SUBSET CPUs, NEW tau,
           DispatchOn(D, dis, tau), NEW t \in Tasks
    PROVE  \/ dispatched'[t] = dis[t]
           \/ dis[t] # None /\ dispatched'[t] = None
<1>1. dispatched'[t] = IF t \in Cancelled(D) THEN None ELSE dis[t]
  BY DEF DispatchOn
<1> QED
  BY <1>1

(* An arrival or a resumption only lets its task wait; those whose switch   *)
(* it cancels wait again.                                                   *)
LEMMA ArrivalMoves ==
    ASSUME TypeOK, TypeOK', DispatchedIsReady, Consistent, TasksView,
           NEW t \in Tasks, NEW tau, Arrival(t, tau) \/ Resume(t, tau),
           NEW u \in Tasks
    PROVE  Moves(u)
<1>1. /\ t \notin Ready(queue)
      /\ Ready(queue') = Ready(queue) \cup {t}
      /\ \E D \in SUBSET CPUs : DispatchOn(D, dispatched, tau)
  BY ArrivalDispatches
<1>2. currExe' = currExe
  BY DEF Arrival, Resume
<1>3. /\ dispatched \in [Tasks -> CPUs \cup {None}]
      /\ ConsistentWith(currExe, dispatched)
  BY ConsistentIsConsistentWith DEF TypeOK
<1>4. \/ dispatched'[u] = dispatched[u]
      \/ dispatched[u] # None /\ dispatched'[u] = None
  BY <1>1, <1>3, DispatchOnMoves
<1>5. dispatched[u] # None => u \in Ready(queue)
  BY DEF DispatchedIsReady
<1> QED
  BY <1>1, <1>2, <1>4, <1>5 DEF Moves

(* A task that ends or is suspended leaves the queue from its CPU; those    *)
(* whose switch is cancelled wait again.                                    *)
LEMMA VacateMoves ==
    ASSUME TypeOK, TypeOK', DispatchedIsReady, Consistent, TasksView,
           NEW t \in Tasks, NEW p \in ProcessorsOf(t), NEW tau,
           queue' = Extract(queue, t),
           currExe' = [currExe EXCEPT ![p] = None],
           NEW D \in SUBSET CPUs,
           DispatchOn(D, [dispatched EXCEPT ![t] = None], tau),
           NEW u \in Tasks
    PROVE  Moves(u)
<1> DEFINE dis == [dispatched EXCEPT ![t] = None]
<1>1. /\ p \in CPUs
      /\ dis \in [Tasks -> CPUs \cup {None}]
      /\ ConsistentWith(currExe', dis)
      /\ dispatched[t] = p
      /\ \A v \in Tasks : v # t => dis[v] = dispatched[v]
  BY VacateLeaves
<1>2. dis[t] = None
  BY DEF TypeOK
<1>3. Ready(queue') = Ready(queue) \ {t}
  BY ExtractReady DEF TypeOK, TasksView
<1>4. currExe[p] = t /\ p # None /\ t # None
  BY NoneAssumption DEF ProcessorsOf
<1>5. \A q \in CPUs : currExe'[q] = IF q = p THEN None ELSE currExe[q]
  BY DEF TypeOK
<1>6. dispatched[u] # None => u \in Ready(queue) /\ dispatched[u] \in CPUs
  BY DEF DispatchedIsReady, TypeOK
<1> HIDE DEF dis
<1>7. \/ dispatched'[u] = dis[u]
      \/ dis[u] # None /\ dispatched'[u] = None
  BY <1>1, DispatchOnMoves DEF dis
<1>8. CASE u = t
  BY <1>1, <1>2, <1>3, <1>4, <1>7, <1>8 DEF Moves
<1>9. CASE u # t
  <2>1. \A q \in CPUs : currExe[q] = u <=> currExe'[q] = u
    BY <1>4, <1>5, <1>9, NoneAssumption
  <2> QED
    BY <1>1, <1>3, <1>6, <1>7, <1>9, <2>1 DEF Moves
<1> QED
  BY <1>8, <1>9

(* The begin of a switch dispatches one task, and the one that executed     *)
(* waits again.                                                             *)
LEMMA BeginMoves ==
    ASSUME TypeOK, DispatchedIsReady, Consistent,
           NEW p \in CPUs, BeginDispatch(p), NEW u \in Tasks
    PROVE  Moves(u)
<1> DEFINE dt  == currExe[p]
           dis == [t \in Tasks |-> IF t = dt THEN None ELSE dispatched[t]]
<1>1. PICK st \in Tasks \cup {None} :
        /\ IsNextToRun(st, queue, dis)
        /\ dispatched' = [t \in Tasks |-> IF t = st THEN p ELSE dis[t]]
  BY Zenon DEF BeginDispatch
<1>2. queue' = queue /\ currExe' = [currExe EXCEPT ![p] = None]
  BY DEF BeginDispatch
<1>3. \A q \in CPUs : currExe'[q] = IF q = p THEN None ELSE currExe[q]
  BY <1>2 DEF TypeOK
<1>4. dt # None => dispatched[dt] = p
  BY DEF Consistent, PlacedIsDispatched
<1>5. p # None /\ u # None
  BY NoneAssumption
<1>6. dispatched[u] # None => u \in Ready(queue) /\ dispatched[u] \in CPUs
  BY DEF DispatchedIsReady, TypeOK
<1>7. dispatched'[u] = IF u = st THEN p
                       ELSE IF u = dt THEN None ELSE dispatched[u]
  BY <1>1
<1>8. CASE u = st
  <2>1. u \in Ready(queue) /\ dis[u] = None
    BY <1>1, <1>5, <1>8 DEF IsNextToRun, Ready
  <2>2. u = dt \/ dispatched[u] = None
    BY <2>1
  <2> HIDE DEF dis
  <2> QED
    BY <1>2, <1>3, <1>4, <1>5, <1>7, <1>8, <2>1, <2>2 DEF Moves
<1> HIDE DEF dis
<1>9. CASE u # st /\ u = dt
  BY <1>2, <1>4, <1>5, <1>6, <1>7, <1>9 DEF Moves
<1>10. CASE u # st /\ u # dt
  <2>1. \A q \in CPUs : currExe[q] = u <=> currExe'[q] = u
    BY <1>3, <1>5, <1>10
  <2> QED
    BY <1>2, <1>6, <1>7, <1>10, <2>1 DEF Moves
<1> QED
  BY <1>8, <1>9, <1>10

(* The end of a switch starts the task that was dispatched.                 *)
LEMMA EndMoves ==
    ASSUME TypeOK, Consistent, NEW p \in CPUs, EndDispatch(p), NEW u \in Tasks
    PROVE  Moves(u)
<1> DEFINE st == endEvt[p].task
<1>1. /\ endEvt[p].posted
      /\ currExe' = [currExe EXCEPT ![p] = st]
      /\ UNCHANGED <<dispatched, queue>>
  BY DEF EndDispatch
<1>2. currExe[p] = None
  BY <1>1 DEF Consistent, SwitchingIsExclusive
<1>3. \A q \in CPUs : currExe'[q] = IF q = p THEN st ELSE currExe[q]
  BY <1>1 DEF TypeOK
<1>4. st # None => dispatched[st] = p
  BY <1>1 DEF Consistent, PlacedIsDispatched
<1>5. dispatched[u] # None => dispatched[u] \in CPUs
  BY DEF TypeOK
<1>6. u # None /\ p # None
  BY NoneAssumption
<1> HIDE DEF st
<1>7. CASE u = st
  BY <1>1, <1>2, <1>3, <1>4, <1>6, <1>7 DEF Moves
<1>8. CASE u # st
  <2>1. \A q \in CPUs : currExe[q] = u <=> currExe'[q] = u
    BY <1>2, <1>3, <1>6, <1>8
  <2> QED
    BY <1>1, <1>5, <2>1 DEF Moves
<1> QED
  BY <1>7, <1>8

(* In a simulation of one run, and in every run of the default kernel, a    *)
(* task starts executing only on the CPU it was dispatched to, loses a CPU  *)
(* only to wait again, leaves the queue only from a CPU, and no CPU is      *)
(* promised twice: MRTKernel implements TaskPlacement.                      *)
THEOREM KernelPlacesTasks ==
    ASSUME AllRunsGood
    PROVE  Spec => PlacementIsLegal
<1> DEFINE place == [t \in Tasks |-> PlaceOf(t)]
<1>1. Init => Placement!Init
  <2> SUFFICES ASSUME Init
               PROVE  place = [t \in Tasks |-> <<"out">>]
    BY DEF Placement!Init, Placement!Out
  <2>1. queue = <<>> /\ \A t \in Tasks : dispatched[t] = None
    BY DEF Init
  <2>2. \A t \in Tasks : PlaceOf(t) = <<"out">>
    BY <2>1, PlaceIs DEF Ready
  <2> QED
    BY <2>2
<1>2. BaseInv /\ BaseInv' /\ ViewInv /\ [Next]_vars
      => [Placement!Next]_place
  <2> SUFFICES ASSUME BaseInv, BaseInv', ViewInv, [Next]_vars
               PROVE  Placement!Move \/ Placement!Reset \/ UNCHANGED place
    BY DEF Placement!Next
  <2>0. GoodRun
    BY AllAreGood DEF BaseInv
  <2>1. /\ TypeOK /\ TypeOK' /\ DispatchedIsReady /\ Consistent /\ TasksView
    BY <2>0 DEF BaseInv, ViewInv
  <2>2. Placement!Exclusive(place')
    <3>1. (TypeOK /\ Consistent => Placement!Exclusive(place))'
      BY PlacesAreExclusive, PTL
    <3>2. Consistent'
      <4>1. (TypeOK => GoodRun)'
        BY AllAreGood DEF GoodRun, TypeOK, AllRunsGood
      <4> QED
        BY <2>1, <4>1 DEF BaseInv
    <3> QED
      BY <2>1, <3>1, <3>2
  <2>3. ASSUME \A u \in Tasks : Moves(u)
        PROVE  Placement!Move
    <3>1. \A u \in Tasks : place[u] = PlaceOf(u) /\ place'[u] = PlaceOf(u)'
      OBVIOUS
    <3>2. \A u \in Tasks : Placement!Legal(PlaceOf(u), PlaceOf(u)')
      BY <2>1, <2>3, MovesAreLegal
    <3> QED
      BY <2>2, <3>1, <3>2 DEF Placement!Move
  <2>4. ASSUME NEW t \in Tasks, Request(t)
        PROVE  \A u \in Tasks : Moves(u)
    <3>1. PICK tau \in 0..EndTick :
            \/ Arrival(t, tau) \/ Resume(t, tau) \/ EndInstance(t, tau)
            \/ Suspend(t, tau) \/ SuspendAndDispatch(t, tau)
      BY <2>4 DEF Request
    <3>2. CASE Arrival(t, tau) \/ Resume(t, tau)
      BY <2>1, <3>2, ArrivalMoves
    <3>3. ASSUME NEW p \in ProcessorsOf(t),
                 queue' = Extract(queue, t),
                 currExe' = [currExe EXCEPT ![p] = None],
                 NEW D \in SUBSET CPUs,
                 DispatchOn(D, [dispatched EXCEPT ![t] = None], tau)
          PROVE  \A u \in Tasks : Moves(u)
      BY <2>1, <3>3, VacateMoves
    <3>4. \A p \in ProcessorsOf(t) : {p} \in SUBSET CPUs
      BY DEF ProcessorsOf
    <3>5. CASE EndInstance(t, tau)
      <4>1. t \in Executing
        BY <2>1, <3>5 DEF EndInstance, Step, TasksView
      <4>2. PICK p \in ProcessorsOf(t) : OnEnd(t, p, tau)
        BY <3>5, <4>1, ProcessorsAreExecuting DEF EndInstance
      <4> QED
        BY <3>3, <3>4, <4>2 DEF OnEnd
    <3>6. CASE Suspend(t, tau)
      BY <3>3, <3>4, <3>6 DEF Suspend, Vacate
    <3>7. CASE SuspendAndDispatch(t, tau)
      <4>1. PICK p \in ProcessorsOf(t) : \E D \in SUBSET CPUs :
              /\ Vacate(t, p)
              /\ DispatchOn(D, [dispatched EXCEPT ![t] = None], tau)
        BY <2>1, <3>7, SuspendDispatches
      <4> QED
        BY <3>3, <4>1 DEF Vacate
    <3> QED
      BY <3>1, <3>2, <3>5, <3>6, <3>7
  <2>5. ASSUME NEW p \in CPUs, BeginDispatch(p) \/ EndDispatch(p)
        PROVE  \A u \in Tasks : Moves(u)
    BY <2>1, <2>5, BeginMoves, EndMoves
  <2>6. ASSUME UNCHANGED <<queue, dispatched, currExe>>
        PROVE  UNCHANGED place
    BY <2>6 DEF PlaceOf
  <2>7. ASSUME NEW t \in Tasks, OnSched(t) \/ OnDesched(t)
        PROVE  UNCHANGED <<queue, dispatched, currExe>>
    BY <2>7 DEF OnSched, OnDesched, dispatchVars
  <2>8. CASE NewRun
    <3>1. queue' = <<>> /\ dispatched' = [t \in Tasks |-> None]
      BY <2>8, Zenon DEF NewRun, ResetKernel, ResetQueue
    <3>2. \A t \in Tasks : PlaceOf(t)' = <<"out">>
      BY <3>1, PlaceIsNext DEF Ready
    <3> QED
      BY <3>2 DEF Placement!Reset, Placement!Out
  <2>9. CASE Stopped \/ UNCHANGED vars
    BY <2>6, <2>9 DEF Stopped, vars
  <2> QED
    BY <2>3, <2>4, <2>5, <2>6, <2>7, <2>8, <2>9 DEF Next
<1> QED
  BY <1>1, <1>2, ViewInvariant, PTL DEF Spec, PlacementIsLegal, Placement!Spec
=============================================================================
