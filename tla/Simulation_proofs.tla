------------------------- MODULE Simulation_proofs -------------------------
(***************************************************************************)
(* Theorems about the event queue of libmetasim, for any events, delays    *)
(* and number of posts and runs.                                           *)
(***************************************************************************)
EXTENDS Simulation, Agenda_proofs, TLAPS

-----------------------------------------------------------------------------
(* The first event of the queue.                                             *)

(* An event that was posted is told from the others by its order, and lies  *)
(* in the past of the counter; an event never posted has no time.           *)
OrdersDiffer ==
    /\ \A e \in Events : time[e] # MaxTick => order[e] < counter
    /\ \A e, f \in Events :
          time[e] # MaxTick /\ time[f] # MaxTick /\ order[e] = order[f]
              => e = f

(* A simulation that is not over has a run to go. *)
RunsRemain == phase # "over" => actRuns < Runs

QueueInv == OrdersDiffer /\ FlagIsMembership /\ NothingInThePast /\ RunsRemain

(* What is in the queue was posted. *)
LEMMA QueuedHasTime ==
    ASSUME TypeOK, NothingInThePast, NEW e \in eventQueue
    PROVE  e \in Events /\ time[e] \in Nat /\ time[e] # MaxTick
           /\ globTime <= time[e]
BY DEF TypeOK, NothingInThePast, MaxTick

(* A queue that is not empty has a first event, and it is the earliest.     *)
LEMMA FirstIsEarliest ==
    ASSUME TypeOK, OrdersDiffer, NothingInThePast, eventQueue # {}
    PROVE  First \in eventQueue /\ \A f \in eventQueue : time[First] <= time[f]
<1>1. \A f \in eventQueue :
         time[f] \in Nat /\ priority[f] \in Nat /\ order[f] \in Nat
  BY QueuedHasTime DEF TypeOK
<1> DEFINE Times == {time[f] : f \in eventQueue}
<1>2. PICK t \in Times : \A u \in Times : t <= u
  BY <1>1, LeastNumber
<1> DEFINE S == {f \in eventQueue : time[f] = t}
           Prios == {priority[f] : f \in S}
<1>3. PICK p \in Prios : \A u \in Prios : p <= u
  <2>1. Prios \subseteq Nat /\ Prios # {}
    BY <1>1, <1>2
  <2> QED
    BY <2>1, LeastNumber
<1> DEFINE U == {f \in S : priority[f] = p}
           Orders == {order[f] : f \in U}
<1>4. PICK k \in Orders : \A u \in Orders : k <= u
  <2>1. Orders \subseteq Nat /\ Orders # {}
    BY <1>1, <1>3
  <2> QED
    BY <2>1, LeastNumber
<1>5. PICK e \in U : order[e] = k
  BY <1>4
<1>6. e \in eventQueue /\ time[e] = t /\ priority[e] = p
  BY <1>5
<1>7. \A f \in eventQueue \ {e} : Cmp(e, f)
  <2> SUFFICES ASSUME NEW f \in eventQueue, f # e
               PROVE  Cmp(e, f)
    OBVIOUS
  <2>1. time[e] <= time[f]
    BY <1>2, <1>6
  <2>2. time[f] = time[e] => priority[e] <= priority[f]
    BY <1>3, <1>6
  <2>3. time[f] = time[e] /\ priority[f] = priority[e] => order[e] <= order[f]
    BY <1>4, <1>5, <1>6
  <2>4. order[f] # order[e]
    BY <1>6, QueuedHasTime DEF OrdersDiffer
  <2> QED
    BY <1>1, <1>6, <2>1, <2>2, <2>3, <2>4 DEF Cmp
<1>8. First \in eventQueue /\ \A f \in eventQueue \ {First} : Cmp(First, f)
  BY <1>6, <1>7 DEF First
<1>9. \A f \in eventQueue \ {First} : time[First] <= time[f]
  BY <1>1, <1>8 DEF Cmp
<1> QED
  BY <1>1, <1>8, <1>9

(* Erasing an event from the set by its key removes that event and no       *)
(* other, and nothing if it is not in the set.                              *)
LEMMA ErasedIsOwn ==
    ASSUME TypeOK, OrdersDiffer, NothingInThePast, NEW e \in Events
    PROVE  Erased(e) = eventQueue \cap {e}
<1>1. ~Cmp(e, e)
  BY DEF Cmp, TypeOK, MaxTick
<1>2. ASSUME NEW f \in eventQueue, f # e, ~Cmp(e, f), ~Cmp(f, e)
      PROVE  FALSE
  <2>1. f \in Events /\ time[f] \in Nat /\ time[f] # MaxTick
    BY QueuedHasTime
  <2>2. CASE time[e] = MaxTick
    BY <1>2, <2>1, <2>2 DEF Cmp, MaxTick
  <2>3. CASE time[e] # MaxTick
    <3>1. order[e] # order[f]
      BY <1>2, <2>1, <2>3 DEF OrdersDiffer
    <3>2. /\ time[e] \in Nat
          /\ order[e] \in Nat /\ order[f] \in Nat
          /\ priority[e] \in Nat /\ priority[f] \in Nat
      BY <2>1, <2>3 DEF TypeOK
    <3> QED
      BY <1>2, <2>1, <3>1, <3>2 DEF Cmp
  <2> QED
    BY <2>2, <2>3
<1> QED
  BY <1>1, <1>2 DEF Erased

-----------------------------------------------------------------------------
(* The invariant of the engine.                                              *)

(* Posting an event that is not in the queue, now or later, or moving one   *)
(* that is, keeps the queue in order: what post and process do.             *)
LEMMA PostKeepsQueue ==
    ASSUME TypeOK, QueueInv, NEW e \in Events, NEW t \in Nat, t >= globTime,
           NEW rest \in SUBSET eventQueue, rest \cup {e} = eventQueue \cup {e},
           time' = [time EXCEPT ![e] = t],
           order' = [order EXCEPT ![e] = counter],
           counter' = counter + 1,
           eventQueue' = rest \cup {e},
           isInQueue' = [isInQueue EXCEPT ![e] = TRUE],
           UNCHANGED <<globTime, actRuns, phase, exc>>,
           priority' \in [Events -> Nat]
    PROVE  TypeOK' /\ QueueInv'
<1>1. TypeOK'
  <2>1. eventQueue' \in SUBSET Events
    BY DEF TypeOK
  <2>2. /\ counter' \in Nat
        /\ order' \in [Events -> Nat]
        /\ time' \in [Events -> Nat \cup {MaxTick}]
        /\ isInQueue' \in [Events -> BOOLEAN]
    BY DEF TypeOK
  <2> QED
    BY <2>1, <2>2 DEF TypeOK
<1>2. \A f \in Events : /\ time'[f] = IF f = e THEN t ELSE time[f]
                        /\ order'[f] = IF f = e THEN counter ELSE order[f]
                        /\ isInQueue'[f] = (f = e \/ isInQueue[f])
  BY DEF TypeOK
<1>3. OrdersDiffer'
  <2>1. \A f \in Events : order[f] \in Nat
    BY DEF TypeOK
  <2>2. counter \in Nat /\ counter' = counter + 1
    BY DEF TypeOK
  <2>3. \A f \in Events : time[f] # MaxTick => order[f] < counter
    BY DEF QueueInv, OrdersDiffer
  <2>4. ASSUME NEW f \in Events, time'[f] # MaxTick
        PROVE  order'[f] < counter'
    <3>1. CASE f = e
      <4>1. order'[f] = counter
        BY <1>2, <3>1
      <4>2. counter < counter'
        BY <2>2
      <4> QED
        BY <4>1, <4>2
    <3>2. CASE f # e
      <4>1. order[f] < counter /\ order'[f] = order[f]
        BY <1>2, <2>3, <2>4, <3>2
      <4> QED
        BY <2>1, <2>2, <4>1
    <3> QED
      BY <3>1, <3>2
  <2>5. ASSUME NEW f \in Events, NEW g \in Events, order'[f] = order'[g],
               time'[f] # MaxTick, time'[g] # MaxTick
        PROVE  f = g
    <3>1. CASE f # e /\ g # e
      BY <1>2, <2>5, <3>1 DEF QueueInv, OrdersDiffer
    <3>2. ASSUME NEW h \in Events, h # e, time'[h] # MaxTick
          PROVE  order'[h] # order'[e]
      <4>1. order'[h] = order[h] /\ order[h] < counter /\ order'[e] = counter
        BY <1>2, <2>3, <3>2
      <4> QED
        BY <2>1, <2>2, <4>1
    <3> QED
      BY <2>5, <3>1, <3>2
  <2> QED
    BY <2>4, <2>5 DEF OrdersDiffer
<1>4. FlagIsMembership'
  BY <1>2 DEF QueueInv, FlagIsMembership
<1>5. NothingInThePast'
  BY <1>2 DEF QueueInv, NothingInThePast, TypeOK
<1>6. RunsRemain'
  BY DEF QueueInv, RunsRemain
<1> QED
  BY <1>1, <1>3, <1>4, <1>5, <1>6 DEF QueueInv

(* Every step of the engine and of its entities keeps the invariant.        *)
LEMMA QueueStep ==
    ASSUME TypeOK, QueueInv, [Next]_vars
    PROVE  TypeOK' /\ QueueInv'
<1> USE DEF QueueInv
<1>1. ASSUME NEW e \in Events, NEW d \in Delays, Post(e, globTime + d)
      PROVE  TypeOK' /\ QueueInv'
  <2>1. CASE isInQueue[e] \/ globTime + d < globTime
    BY <1>1, <2>1 DEF Post, TypeOK, fields, OrdersDiffer, FlagIsMembership,
                      NothingInThePast, RunsRemain
  <2>2. CASE ~(isInQueue[e] \/ globTime + d < globTime)
    <3>1. globTime + d \in Nat /\ globTime + d >= globTime
      BY <2>2, EngineAssumption DEF TypeOK
    <3>2. priority' \in [Events -> Nat]
      BY <1>1, <2>2 DEF Post, TypeOK
    <3> QED
      BY <1>1, <2>2, <3>1, <3>2, PostKeepsQueue DEF Post
  <2> QED
    BY <2>1, <2>2
<1>2. ASSUME NEW e \in Events, Process(e)
      PROVE  TypeOK' /\ QueueInv'
  <2>1. Erased(e) = eventQueue \cap {e}
    BY ErasedIsOwn
  <2>2. globTime \in Nat /\ globTime >= globTime
    BY DEF TypeOK
  <2>3. priority' \in [Events -> Nat]
    BY <1>2 DEF Process, TypeOK, Immediate
  <2> QED
    BY <1>2, <2>1, <2>2, <2>3, PostKeepsQueue DEF Process
<1>3. ASSUME NEW e \in Events, Drop(e)
      PROVE  TypeOK' /\ QueueInv'
  <2>1. eventQueue' = eventQueue \ {e}
    BY <1>3, ErasedIsOwn DEF Drop
  <2>2. \A f \in Events : isInQueue'[f] = (isInQueue[f] /\ f # e)
    BY <1>3 DEF Drop, TypeOK
  <2>3. TypeOK'
    BY <1>3, <2>1 DEF Drop, TypeOK
  <2> QED
    BY <1>3, <2>1, <2>2, <2>3
    DEF Drop, OrdersDiffer, FlagIsMembership, NothingInThePast, RunsRemain
<1>4. CASE SimStep
  <2>1. First \in eventQueue /\ \A f \in eventQueue : time[First] <= time[f]
    BY <1>4, FirstIsEarliest DEF SimStep
  <2>2. First \in Events /\ time[First] \in Nat /\ StdPriority[First] \in Nat
    BY <2>1, QueuedHasTime, EngineAssumption
  <2>3. eventQueue' = eventQueue \ {First}
    BY <1>4, <2>2, ErasedIsOwn DEF SimStep
  <2>4. /\ isInQueue' = [isInQueue EXCEPT ![First] = FALSE]
        /\ priority' = [priority EXCEPT ![First] = StdPriority[First]]
        /\ globTime' = time[First] /\ phase' = "handler" /\ phase = "loop"
        /\ UNCHANGED <<actRuns, counter, time, order, exc>>
    BY <1>4 DEF SimStep, Call
  <2> HIDE DEF First
  <2>5. TypeOK'
    BY <2>2, <2>3, <2>4 DEF TypeOK, Phases
  <2>6. FlagIsMembership'
    BY <2>2, <2>3, <2>4 DEF FlagIsMembership, TypeOK
  <2>7. NothingInThePast'
    BY <2>1, <2>3, <2>4 DEF NothingInThePast, TypeOK
  <2> QED
    BY <2>4, <2>5, <2>6, <2>7 DEF OrdersDiffer, RunsRemain
<1>5. CASE NewRunDone \/ HandlerDone \/ LoopDone
  BY <1>5 DEF NewRunDone, HandlerDone, LoopDone, Call, fields, TypeOK, Phases,
              OrdersDiffer, FlagIsMembership, NothingInThePast, RunsRemain
<1>6. CASE EndSingleRun
  <2>1. /\ eventQueue' = {}
        /\ isInQueue' = [e \in Events |-> isInQueue[e] /\ e \notin eventQueue]
        /\ globTime' = 0 /\ actRuns' = actRuns + 1
        /\ phase = "endRun"
        /\ phase' = IF actRuns + 1 < Runs THEN "newRun" ELSE "over"
        /\ UNCHANGED <<counter, time, priority, order, exc>>
    BY <1>6 DEF EndSingleRun, Call, ClearEventQueue
  <2>2. actRuns' \in 0..Runs
    BY <2>1, EngineAssumption DEF TypeOK, RunsRemain
  <2>3. TypeOK'
    BY <2>1, <2>2 DEF TypeOK, Phases
  <2>4. FlagIsMembership'
    BY <2>1 DEF FlagIsMembership
  <2>5. RunsRemain'
    BY <2>1 DEF RunsRemain
  <2> QED
    BY <2>1, <2>3, <2>4, <2>5 DEF OrdersDiffer, NothingInThePast
<1>7. CASE Stopped \/ UNCHANGED vars
  BY <1>7 DEF Stopped, vars, fields, TypeOK, OrdersDiffer, FlagIsMembership,
              NothingInThePast, RunsRemain
<1> QED
  BY <1>1, <1>2, <1>3, <1>4, <1>5, <1>6, <1>7 DEF Next

(* What the theorems about the engine rest on.                              *)
LEMMA QueueInvariant == Spec => [](TypeOK /\ QueueInv)
<1>1. Init => TypeOK /\ QueueInv
  BY EngineAssumption DEF Init, TypeOK, QueueInv, OrdersDiffer,
        FlagIsMembership, NothingInThePast, RunsRemain, Phases, MaxTick
<1> QED
  BY <1>1, QueueStep, PTL DEF Spec

(* Every variable of the engine keeps its type: in particular the number of *)
(* runs is never exceeded.                                                  *)
THEOREM EngineTypeCorrect == Spec => []TypeOK
BY QueueInvariant, PTL

(* An event's _isInQueue says whether it is in the set: a drop, a process   *)
(* or the end of a run, which erase by key, remove no event but their own.  *)
THEOREM EngineFlags == Spec => []FlagIsMembership
BY QueueInvariant, PTL DEF QueueInv

(* No event in the queue is older than the clock. *)
THEOREM EngineKeepsTime == Spec => []NothingInThePast
BY QueueInvariant, PTL DEF QueueInv

(* Within a run the clock never goes back. *)
THEOREM ClockAdvances ==
    Spec => [][actRuns' = actRuns => globTime <= globTime']_vars
<1>1. TypeOK /\ QueueInv /\ [Next]_vars
         => [actRuns' = actRuns => globTime <= globTime']_vars
  <2> SUFFICES ASSUME TypeOK, QueueInv, [Next]_vars, actRuns' = actRuns
               PROVE  globTime <= globTime'
    OBVIOUS
  <2>1. CASE SimStep
    <3>1. First \in eventQueue /\ globTime' = time[First]
      BY <2>1, FirstIsEarliest DEF SimStep, QueueInv
    <3> HIDE DEF First
    <3> QED
      BY <3>1, QueuedHasTime DEF QueueInv
  <2>2. CASE globTime' = globTime
    BY <2>2 DEF TypeOK
  <2>3. CASE EndSingleRun
    BY <2>3 DEF EndSingleRun, TypeOK
  <2> QED
    BY <2>1, <2>2, <2>3
    DEF Next, Post, Drop, Process, NewRunDone, HandlerDone, LoopDone,
        Stopped, vars
<1> QED
  BY <1>1, QueueInvariant, PTL DEF Spec

-----------------------------------------------------------------------------
(* The set in its order.                                                     *)

(* The set is finite, and an event is queued with its own priority or the   *)
(* immediate one.                                                           *)
SetInv ==
    /\ IsFiniteSet(eventQueue)
    /\ \A e \in Events : priority[e] \in {Immediate, StdPriority[e]}

EngineInv == TypeOK /\ QueueInv /\ SetInv

(* What the agenda says of an event. *)
EntryOf(e) == [ev |-> e, at |-> time[e], prio |-> priority[e]]

AgendaEntries == [ev : Events, at : Int, prio : Int]

(* Cmp is a strict total order on the queue. *)
LEMMA CmpIsAnOrder ==
    EngineInv =>
        /\ \A f \in eventQueue : ~Cmp(f, f)
        /\ \A f, g \in eventQueue : f = g \/ Cmp(f, g) \/ Cmp(g, f)
        /\ \A f, g, h \in eventQueue : Cmp(f, g) /\ Cmp(g, h) => Cmp(f, h)
<1> SUFFICES ASSUME TypeOK, QueueInv
             PROVE  /\ \A f \in eventQueue : ~Cmp(f, f)
                    /\ \A f, g \in eventQueue : f = g \/ Cmp(f, g) \/ Cmp(g, f)
                    /\ \A f, g, h \in eventQueue :
                          Cmp(f, g) /\ Cmp(g, h) => Cmp(f, h)
  BY DEF EngineInv
<1>1. \A e \in eventQueue :
         /\ e \in Events /\ time[e] # MaxTick
         /\ time[e] \in Nat /\ priority[e] \in Nat /\ order[e] \in Nat
  BY QueuedHasTime DEF TypeOK, QueueInv
<1>2. \A e, f \in eventQueue : order[e] = order[f] => e = f
  BY <1>1 DEF QueueInv, OrdersDiffer
<1>3. ASSUME NEW e \in eventQueue, NEW f \in eventQueue, e # f
      PROVE  Cmp(e, f) \/ Cmp(f, e)
  <2>1. order[e] # order[f]
    BY <1>2, <1>3
  <2> QED
    BY <1>1, <2>1 DEF Cmp
<1>4. ASSUME NEW e \in eventQueue PROVE ~Cmp(e, e)
  BY <1>1 DEF Cmp
<1>5. ASSUME NEW e \in eventQueue, NEW f \in eventQueue, NEW g \in eventQueue,
             Cmp(e, f), Cmp(f, g)
      PROVE  Cmp(e, g)
  BY <1>1, <1>5 DEF Cmp
<1> QED
  BY <1>3, <1>4, <1>5

(* A list of the queue's events in their order. *)
Listed(s) ==
    /\ s \in [1..Cardinality(eventQueue) -> eventQueue]
    /\ \A i, j \in 1..Cardinality(eventQueue) : i < j => Cmp(s[i], s[j])

(* Queued is such a list. *)
LEMMA QueueIsListed ==
    ASSUME EngineInv
    PROVE  Listed([i \in 1..Cardinality(eventQueue) |-> EventAt(i)])
<1> DEFINE n == Cardinality(eventQueue)
           before == [e \in eventQueue |-> {f \in eventQueue : Cmp(f, e)}]
<1>1. /\ \A f \in eventQueue : ~Cmp(f, f)
      /\ \A e, f \in eventQueue : e = f \/ Cmp(e, f) \/ Cmp(f, e)
      /\ \A e, f, g \in eventQueue : Cmp(e, f) /\ Cmp(f, g) => Cmp(e, g)
  BY CmpIsAnOrder
<1>2. IsFiniteSet(eventQueue) /\ n \in Nat
  BY FS_CardinalityType DEF EngineInv, SetInv
<1>3. /\ before \in [eventQueue -> SUBSET eventQueue]
      /\ \A e \in eventQueue : e \notin before[e]
      /\ \A e, f \in eventQueue : e = f \/ e \in before[f] \/ f \in before[e]
      /\ \A e, f \in eventQueue : e \in before[f] <=> Cmp(e, f)
      /\ \A e, f \in eventQueue :
            e \in before[f] => before[e] \subseteq before[f]
  BY <1>1
<1>4. \A e \in eventQueue : Place(e) = Cardinality(before[e]) + 1
  BY DEF Place
<1> HIDE DEF before
<1>5. /\ \A e \in eventQueue : Cardinality(before[e]) + 1 \in 1..n
      /\ \A i \in 1..n : \E e \in eventQueue : Cardinality(before[e]) + 1 = i
      /\ \A e, f \in eventQueue : e \in before[f]
            => Cardinality(before[e]) < Cardinality(before[f])
  BY <1>2, <1>3, PlacesInOrder
<1>6. \A i \in 1..n : EventAt(i) \in eventQueue /\ Place(EventAt(i)) = i
  BY <1>4, <1>5 DEF EventAt
<1>7. ASSUME NEW i \in 1..n, NEW j \in 1..n, i < j
      PROVE  Cmp(EventAt(i), EventAt(j))
  <2> DEFINE a == EventAt(i)
             b == EventAt(j)
  <2>1. a \in eventQueue /\ b \in eventQueue /\ Place(a) = i /\ Place(b) = j
    BY <1>6
  <2> HIDE DEF a, b
  <2>2. CASE b \in before[a]
    <3>1. Cardinality(before[b]) < Cardinality(before[a])
      BY <1>5, <2>1, <2>2
    <3>2. Cardinality(before[b]) + 1 = j /\ Cardinality(before[a]) + 1 = i
      BY <1>4, <2>1
    <3>3. Cardinality(before[b]) \in Int /\ Cardinality(before[a]) \in Int
      <4>1. IsFiniteSet(before[b]) /\ IsFiniteSet(before[a])
        BY <1>2, <1>3, <2>1, CountPart
      <4> QED
        BY <4>1, FS_CardinalityType
    <3> QED
      BY <1>7, <3>1, <3>2, <3>3
  <2>3. a # b
    BY <1>7, <2>1
  <2> QED
    BY <1>3, <2>1, <2>2, <2>3 DEF a, b
<1> QED
  BY <1>6, <1>7 DEF Listed

(* It is the only one. *)
LEMMA ListIsUnique ==
    EngineInv => \A s : Listed(s) =>
        \A i \in 1..Cardinality(eventQueue) : EventAt(i) = s[i]
<1> SUFFICES ASSUME EngineInv, NEW s, Listed(s),
                    NEW i \in 1..Cardinality(eventQueue)
             PROVE  EventAt(i) = s[i]
  OBVIOUS
<1> DEFINE n == Cardinality(eventQueue)
<1>1. /\ \A f \in eventQueue : ~Cmp(f, f)
      /\ \A e, f, g \in eventQueue : Cmp(e, f) /\ Cmp(f, g) => Cmp(e, g)
  BY CmpIsAnOrder
<1>2. IsFiniteSet(eventQueue) /\ n \in Nat
  BY FS_CardinalityType DEF EngineInv, SetInv
<1>3. s \in [1..n -> eventQueue]
      /\ \A j, k \in 1..n : j < k => Cmp(s[j], s[k])
  BY DEF Listed
<1> HIDE DEF n
<1>4. \A j, k \in 1..n : s[j] = s[k] => j = k
  <2> SUFFICES ASSUME NEW j \in 1..n, NEW k \in 1..n, j # k
               PROVE  s[j] # s[k]
    OBVIOUS
  <2>1. j < k \/ k < j
    BY <1>2
  <2> QED
    BY <1>1, <1>3, <2>1
<1>5. /\ \A e \in eventQueue : \E j \in 1..n : s[j] = e
      /\ \A j \in 1..n : Cardinality(EarlierIn(s, j)) = j - 1
  <2>1. /\ IsFiniteSet(eventQueue)
        /\ s \in [1..Cardinality(eventQueue) -> eventQueue]
        /\ \A j, k \in 1..Cardinality(eventQueue) : s[j] = s[k] => j = k
    BY <1>2, <1>3, <1>4 DEF n
  <2>2. /\ \A e \in eventQueue : \E j \in 1..Cardinality(eventQueue) : s[j] = e
        /\ \A j \in 1..Cardinality(eventQueue) :
              Cardinality(EarlierIn(s, j)) = j - 1
    BY <2>1, ListsAll
  <2> QED
    BY <2>2 DEF n
<1>6. ASSUME NEW j \in 1..n
      PROVE  Place(s[j]) = j
  <2>1. {f \in eventQueue : Cmp(f, s[j])} = {s[k] : k \in 1..j-1}
    <3>1. ASSUME NEW f \in eventQueue, Cmp(f, s[j])
          PROVE  f \in {s[k] : k \in 1..j-1}
      <4>1. PICK k \in 1..n : s[k] = f
        BY <1>5
      <4>2. ~(j < k) /\ j # k
        BY <1>1, <1>3, <3>1, <4>1
      <4>3. k \in 1..j-1
        BY <1>2, <4>2
      <4> QED
        BY <4>1, <4>3
    <3>2. ASSUME NEW k \in 1..j-1
          PROVE  s[k] \in eventQueue /\ Cmp(s[k], s[j])
      BY <1>2, <1>3
    <3> QED
      BY <3>1, <3>2
  <2>2. Cardinality({f \in eventQueue : Cmp(f, s[j])}) = j - 1
    BY <1>5, <2>1 DEF EarlierIn
  <2> QED
    BY <2>2 DEF Place
<1>7. s[i] \in eventQueue /\ Place(s[i]) = i
  BY <1>3, <1>6 DEF n
<1>8. \A e \in eventQueue : Place(e) = i => e = s[i]
  BY <1>5, <1>6
<1> QED
  BY <1>7, <1>8 DEF EventAt

(* Hence the agenda can be told from any list in order. *)
LEMMA QueuedIs ==
    EngineInv => \A s : Listed(s) =>
        Queued = [i \in 1..Cardinality(eventQueue) |-> EntryOf(s[i])]
BY ListIsUnique DEF Queued, EntryOf

(* The same of the next state. *)
LEMMA NextQueuedIs ==
    ASSUME EngineInv'
    PROVE  (\A s : Listed(s) =>
               Queued = [i \in 1..Cardinality(eventQueue) |-> EntryOf(s[i])])'
BY QueuedIs, PTL

(* The agenda is a sequence with each event once. *)
LEMMA QueuedType ==
    ASSUME EngineInv
    PROVE  /\ Cardinality(eventQueue) \in Nat
           /\ Queued \in Seq(AgendaEntries)
           /\ Len(Queued) = Cardinality(eventQueue)
           /\ PostedOnce(Queued)
<1> DEFINE n == Cardinality(eventQueue)
           s == [i \in 1..n |-> EventAt(i)]
<1>1. n \in Nat
  BY FS_CardinalityType DEF EngineInv, SetInv
<1>2. Listed(s)
  BY QueueIsListed
<1>3. /\ s \in [1..n -> eventQueue]
      /\ \A i, j \in 1..n : i < j => Cmp(s[i], s[j])
  BY <1>2 DEF Listed
<1>4. Queued = [i \in 1..n |-> EntryOf(s[i])]
  BY DEF Queued, EntryOf
<1> HIDE DEF s, n
<1>5. \A e \in eventQueue : EntryOf(e) \in AgendaEntries
  BY QueuedHasTime DEF EngineInv, QueueInv, TypeOK, EntryOf, AgendaEntries
<1>6. Queued \in Seq(AgendaEntries) /\ Len(Queued) = n
  BY <1>1, <1>3, <1>4, <1>5
<1>7. ASSUME NEW i \in 1..n, NEW j \in 1..n, s[i] = s[j]
      PROVE  i = j
  <2>1. ~Cmp(s[i], s[i])
    BY <1>3, CmpIsAnOrder DEF EngineInv
  <2>2. ~(i < j) /\ ~(j < i)
    BY <1>3, <1>7, <2>1
  <2> QED
    BY <1>1, <2>2
<1>8. PostedOnce(Queued)
  BY <1>4, <1>7 DEF PostedOnce, EntryOf
<1> QED
  BY <1>1, <1>6, <1>8 DEF n

-----------------------------------------------------------------------------
(* What the agenda becomes.                                                  *)

(* Events in their order, said of any set of events rather than the queue. *)
Sorted(d, S) ==
    /\ d \in [1..Cardinality(S) -> S]
    /\ \A i, j \in 1..Cardinality(S) : i < j => Cmp(d[i], d[j])

(* Without e the agenda lists the rest of the queue in the same order.      *)
LEMMA DroppedIsSorted ==
    ASSUME EngineInv, NEW e \in Events
    PROVE  \E d : /\ Sorted(d, eventQueue \ {e})
                 /\ DropFrom(Queued, e)
                       = [i \in 1..Cardinality(eventQueue \ {e}) |->
                             EntryOf(d[i])]
<1> DEFINE n == Cardinality(eventQueue)
           m == Cardinality(eventQueue \ {e})
           s == [i \in 1..n |-> EventAt(i)]
           D == DropFrom(Queued, e)
<1>1. /\ IsFiniteSet(eventQueue) /\ n \in Nat
      /\ m = IF e \in eventQueue THEN n - 1 ELSE n
  BY FS_CardinalityType, FS_RemoveElement DEF EngineInv, SetInv
<1>2. /\ s \in [1..n -> eventQueue]
      /\ \A i, j \in 1..n : i < j => Cmp(s[i], s[j])
  BY QueueIsListed DEF Listed
<1>3. Queued = [i \in 1..n |-> EntryOf(s[i])]
  BY DEF Queued, EntryOf
<1>4. Queued \in Seq(AgendaEntries) /\ Len(Queued) = n /\ PostedOnce(Queued)
      /\ DOMAIN Queued = 1..n
  BY <1>3, QueuedType
<1>5. \A i, j \in 1..n : s[i] = s[j] => i = j
  BY <1>3, <1>4 DEF PostedOnce, EntryOf
<1> HIDE DEF s
<1>6. \A f \in eventQueue : \E j \in 1..n : s[j] = f
  BY <1>1, <1>2, <1>5, ListsAll
<1>7. \A i \in 1..n : Queued[i] = EntryOf(s[i]) /\ Queued[i].ev = s[i]
  BY <1>3 DEF EntryOf
<1>8. /\ D \in Seq(AgendaEntries)
      /\ ~IsPosted(Queued, e) => D = Queued
      /\ \A k \in 1..n : Queued[k].ev = e =>
            /\ Len(D) = n - 1
            /\ \A i \in 1..n - 1 :
                  D[i] = IF i < k THEN Queued[i] ELSE Queued[i + 1]
  <2>1. /\ D \in Seq(AgendaEntries)
        /\ ~IsPosted(Queued, e) => D = Queued
        /\ \A k \in DOMAIN Queued : Queued[k].ev = e =>
              /\ Len(D) = Len(Queued) - 1
              /\ \A i \in 1..Len(Queued) - 1 :
                    D[i] = IF i < k THEN Queued[i] ELSE Queued[i + 1]
    BY <1>4, DropPlaces
  <2> QED
    BY <1>4, <2>1
<1> HIDE DEF D, n, m
<1>9. CASE e \notin eventQueue
  <2>1. eventQueue \ {e} = eventQueue /\ m = n
    BY <1>1, <1>9
  <2>2. ~IsPosted(Queued, e)
    BY <1>2, <1>4, <1>7, <1>9 DEF IsPosted
  <2>3. Sorted(s, eventQueue \ {e})
    BY <1>2, <2>1 DEF Sorted, n
  <2>4. D = [i \in 1..m |-> EntryOf(s[i])]
    BY <1>3, <1>8, <2>1, <2>2
  <2> QED
    BY <2>3, <2>4 DEF m, D
<1>10. CASE e \in eventQueue
  <2>1. PICK k \in 1..n : s[k] = e
    BY <1>6, <1>10
  <2>2. m = n - 1 /\ m \in Nat
    BY <1>1, <1>10, <2>1
  <2> DEFINE d == [i \in 1..m |-> IF i < k THEN s[i] ELSE s[i + 1]]
  <2>3. \A i \in 1..m : d[i] \in eventQueue /\ d[i] # e
    <3> SUFFICES ASSUME NEW i \in 1..m
                 PROVE  d[i] \in eventQueue /\ d[i] # e
      OBVIOUS
    <3>1. CASE i < k
      BY <1>1, <1>2, <1>5, <2>1, <2>2, <3>1
    <3>2. CASE i >= k
      <4>1. i + 1 \in 1..n /\ i + 1 # k /\ ~(i < k)
        BY <1>1, <2>2, <3>2
      <4> QED
        BY <1>2, <1>5, <2>1, <4>1
    <3> QED
      BY <2>2, <3>1, <3>2
  <2>4. ASSUME NEW i \in 1..m, NEW j \in 1..m, i < j
        PROVE  Cmp(d[i], d[j])
    <3> DEFINE a == IF i < k THEN i ELSE i + 1
               b == IF j < k THEN j ELSE j + 1
    <3>1. a \in 1..n /\ b \in 1..n /\ a < b
      BY <1>1, <2>2, <2>4
    <3>2. d[i] = s[a] /\ d[j] = s[b]
      OBVIOUS
    <3> HIDE DEF a, b, d
    <3> QED
      BY <1>2, <3>1, <3>2
  <2>5. Sorted(d, eventQueue \ {e})
    <3>1. d \in [1..m -> eventQueue \ {e}]
      BY <2>3
    <3> HIDE DEF d
    <3> QED
      BY <2>4, <3>1 DEF Sorted, m
  <2>6. /\ Len(D) = m
        /\ \A i \in 1..m : D[i] = IF i < k THEN Queued[i] ELSE Queued[i + 1]
    BY <1>7, <1>8, <2>1, <2>2
  <2>7. ASSUME NEW i \in 1..m
        PROVE  D[i] = EntryOf(d[i])
    <3>1. CASE i < k
      BY <1>1, <1>7, <2>2, <2>6, <3>1
    <3>2. CASE i >= k
      <4>1. i + 1 \in 1..n /\ ~(i < k)
        BY <1>1, <2>2, <3>2
      <4> QED
        BY <1>7, <2>6, <4>1
    <3> QED
      BY <2>2, <3>1, <3>2
  <2> HIDE DEF d
  <2>8. D = [i \in 1..Len(D) |-> D[i]]
    BY <1>8
  <2>9. D = [i \in 1..m |-> EntryOf(d[i])]
    BY <2>6, <2>7, <2>8
  <2> QED
    BY <2>5, <2>9 DEF m, D
<1> QED
  BY <1>9, <1>10

(* The others keep time, priority and order. *)
OthersStand(e) ==
    \A f \in eventQueue \ {e} :
        time'[f] = time[f] /\ priority'[f] = priority[f] /\ order'[f] = order[f]

(* Events that keep their fields keep their order. *)
LEMMA SortedStands ==
    ASSUME NEW e, OthersStand(e), NEW d, Sorted(d, eventQueue \ {e})
    PROVE  /\ d \in [1..Cardinality(eventQueue \ {e}) -> eventQueue \ {e}]
           /\ \A i, j \in 1..Cardinality(eventQueue \ {e}) :
                 i < j => Cmp(d[i], d[j])'
           /\ \A i \in 1..Cardinality(eventQueue \ {e}) :
                 EntryOf(d[i])' = EntryOf(d[i])
<1>1. ASSUME NEW f \in eventQueue \ {e}, NEW g \in eventQueue \ {e}, Cmp(f, g)
      PROVE  Cmp(f, g)'
  BY <1>1 DEF Cmp, OthersStand
<1>2. ASSUME NEW f \in eventQueue \ {e}
      PROVE  EntryOf(f)' = EntryOf(f)
  BY DEF EntryOf, OthersStand
<1> QED
  BY <1>1, <1>2 DEF Sorted

(* An event that leaves the queue is dropped from the agenda. *)
LEMMA LeavingIsDropping ==
    ASSUME EngineInv, EngineInv', NEW e \in Events, OthersStand(e),
           eventQueue' = eventQueue \ {e}
    PROVE  Queued' = DropFrom(Queued, e)
<1> DEFINE m == Cardinality(eventQueue \ {e})
<1>1. PICK d : /\ Sorted(d, eventQueue \ {e})
               /\ DropFrom(Queued, e) = [i \in 1..m |-> EntryOf(d[i])]
  BY DroppedIsSorted
<1>2. /\ d \in [1..m -> eventQueue \ {e}]
      /\ \A i, j \in 1..m : i < j => Cmp(d[i], d[j])'
      /\ \A i \in 1..m : EntryOf(d[i])' = EntryOf(d[i])
  BY <1>1, SortedStands
<1>3. Listed(d)'
  BY <1>2 DEF Listed
<1>4. (\A s : Listed(s) =>
           Queued = [i \in 1..Cardinality(eventQueue) |-> EntryOf(s[i])])'
  BY NextQueuedIs
<1>5. Queued' = [i \in 1..m |-> EntryOf(d[i])']
  BY <1>3, <1>4
<1> QED
  BY <1>1, <1>2, <1>5

(* An event posted last is inserted in the agenda where its entry belongs.  *)
LEMMA EnteringIsPosting ==
    ASSUME EngineInv, EngineInv', NEW e \in Events, OthersStand(e),
           eventQueue' = (eventQueue \ {e}) \cup {e},
           \A f \in eventQueue \ {e} : order[f] < order'[e]
    PROVE  \E i \in DOMAIN Queued' :
              /\ Queued'[i] = EntryOf(e)'
              /\ Queued' = PostIn(DropFrom(Queued, e), Queued'[i])
<1>a. PICK m, D, y : /\ m = Cardinality(eventQueue \ {e})
                     /\ D = DropFrom(Queued, e)
                     /\ y = EntryOf(e)'
  OBVIOUS
<1> DEFINE k == Before(D, y)
<1>c. (\A s : Listed(s) =>
           Queued = [i \in 1..Cardinality(eventQueue) |-> EntryOf(s[i])])'
  BY NextQueuedIs
<1>b. (/\ \A f \in eventQueue : ~Cmp(f, f)
       /\ \A f, g \in eventQueue : f = g \/ Cmp(f, g) \/ Cmp(g, f)
       /\ \A f, g, h \in eventQueue : Cmp(f, g) /\ Cmp(g, h) => Cmp(f, h))'
  BY CmpIsAnOrder, PTL
<1>1. PICK d : /\ Sorted(d, eventQueue \ {e})
               /\ D = [i \in 1..m |-> EntryOf(d[i])]
  BY <1>a, DroppedIsSorted
<1>2. /\ d \in [1..m -> eventQueue \ {e}]
      /\ \A i, j \in 1..m : i < j => Cmp(d[i], d[j])'
      /\ \A i \in 1..m : EntryOf(d[i])' = EntryOf(d[i])
  BY <1>1, <1>a, SortedStands
<1>3. /\ m \in Nat /\ Cardinality(eventQueue') = m + 1
  <2>1. IsFiniteSet(eventQueue \ {e})
    BY FS_RemoveElement DEF EngineInv, SetInv
  <2>2. e \notin eventQueue \ {e}
    OBVIOUS
  <2> QED
    BY <1>a, <2>1, <2>2, FS_CardinalityType, FS_AddElement
<1>4. /\ y \in AgendaEntries
      /\ D \in Seq(AgendaEntries) /\ Len(D) = m /\ DOMAIN D = 1..m
      /\ \A f \in eventQueue' : /\ f \in Events /\ time'[f] \in Nat
                                /\ priority'[f] \in Nat /\ order'[f] \in Nat
  <2>1. \A f \in eventQueue' : /\ f \in Events /\ time'[f] \in Nat
                                /\ priority'[f] \in Nat /\ order'[f] \in Nat
    BY DEF EngineInv, QueueInv, TypeOK, NothingInThePast, MaxTick
  <2>2. \A f \in eventQueue' : EntryOf(f)' \in AgendaEntries
    BY <2>1 DEF EntryOf, AgendaEntries
  <2>3. \A i \in 1..m : EntryOf(d[i]) \in AgendaEntries
    BY <1>2, <2>2
  <2>4. D \in Seq(AgendaEntries) /\ Len(D) = m /\ DOMAIN D = 1..m
    BY <1>1, <1>3, <2>3
  <2>5. y \in AgendaEntries
    BY <1>a, <2>2
  <2> QED
    BY <2>1, <2>4, <2>5
<1>5. /\ k \in 0..Len(D)
      /\ PostIn(D, y) \in Seq(AgendaEntries)
      /\ Len(PostIn(D, y)) = Len(D) + 1
      /\ \A i \in 1..Len(D) + 1 :
            PostIn(D, y)[i] = IF i <= k THEN D[i]
                              ELSE IF i = k + 1 THEN y ELSE D[i - 1]
  <2>1. D \in Seq(AgendaEntries) /\ y \in AgendaEntries
    BY <1>4
  <2> QED
    BY <2>1, PostPlaces
<1>6. \A i \in 1..m : Precedes(D[i], y) <=> Cmp(d[i], e)'
  <2> SUFFICES ASSUME NEW i \in 1..m
               PROVE  Precedes(D[i], y) <=> Cmp(d[i], e)'
    OBVIOUS
  <2>1. D[i] = EntryOf(d[i])' /\ d[i] \in eventQueue \ {e}
    BY <1>1, <1>2
  <2>2. order'[d[i]] < order'[e]
    BY <2>1 DEF OthersStand
  <2>3. /\ time'[d[i]] \in Nat /\ priority'[d[i]] \in Nat
        /\ time'[e] \in Nat /\ priority'[e] \in Nat
    BY <1>4, <2>1
  <2> QED
    BY <1>a, <2>1, <2>2, <2>3 DEF Precedes, Cmp, EntryOf
<1>7. \A i \in 1..m : Precedes(D[i], y) <=> i <= k
  <2> DEFINE B == {i \in DOMAIN D : Precedes(D[i], y)}
  <2>1. B \in SUBSET (1..m)
    BY <1>4
  <2>2. \A i \in B : 1..i \subseteq B
    <3> SUFFICES ASSUME NEW i \in B, NEW j \in 1..i
                 PROVE  j \in B
      OBVIOUS
    <3>1. i \in 1..m /\ j \in 1..m /\ (j = i \/ j < i)
      BY <1>3, <2>1
    <3>2. Cmp(d[i], e)'
      BY <1>6, <3>1
    <3>3. j < i => Cmp(d[j], d[i])'
      BY <1>2, <3>1
    <3>4. (\A f, g, h \in eventQueue : Cmp(f, g) /\ Cmp(g, h) => Cmp(f, h))'
      BY <1>b
    <3>5. d[i] \in eventQueue' /\ d[j] \in eventQueue' /\ e \in eventQueue'
      BY <1>2, <3>1
    <3>6. Cmp(d[j], e)'
      BY <3>1, <3>2, <3>3, <3>4, <3>5
    <3> QED
      BY <1>4, <1>6, <3>1, <3>6
  <2>3. k = Cardinality(B)
    BY DEF Before
  <2> HIDE DEF B
  <2>4. Cardinality(B) \in 0..m /\ B = 1..Cardinality(B)
    BY <1>3, <2>1, <2>2, FirstNumbers
  <2> HIDE DEF k
  <2>5. \A i \in 1..m : i \in B <=> i <= k
    BY <1>3, <2>3, <2>4
  <2> QED
    BY <1>4, <2>5 DEF B
<1> HIDE DEF k
<1> DEFINE s == [i \in 1..m + 1 |-> IF i <= k THEN d[i]
                                    ELSE IF i = k + 1 THEN e ELSE d[i - 1]]
<1>8. k \in 0..m
  BY <1>4, <1>5
<1>9. \A i \in 1..m + 1 :
         \/ i <= k /\ i \in 1..m /\ s[i] = d[i]
         \/ i = k + 1 /\ s[i] = e
         \/ i > k + 1 /\ i - 1 \in 1..m /\ s[i] = d[i - 1]
  BY <1>3, <1>8
<1>10. s \in [1..m + 1 -> eventQueue']
  <2>1. \A i \in 1..m + 1 : s[i] \in eventQueue'
    BY <1>2, <1>9
  <2> QED
    BY <2>1
<1> HIDE DEF s
<1>11. \A i \in 1..m : IF i <= k THEN Cmp(d[i], e)' ELSE Cmp(e, d[i])'
  <2> SUFFICES ASSUME NEW i \in 1..m, ~(i <= k)
               PROVE  Cmp(e, d[i])'
    BY <1>6, <1>7
  <2>1. ~Cmp(d[i], e)'
    BY <1>6, <1>7
  <2>2. d[i] \in eventQueue' /\ e \in eventQueue' /\ d[i] # e
    BY <1>2
  <2>3. (\A f, g \in eventQueue : f = g \/ Cmp(f, g) \/ Cmp(g, f))'
    BY <1>b
  <2> QED
    BY <2>1, <2>2, <2>3
<1>12. ASSUME NEW i \in 1..m + 1, NEW j \in 1..m + 1, i < j
       PROVE  Cmp(s[i], s[j])'
  <2>1. CASE i <= k /\ j <= k
    BY <1>2, <1>8, <1>9, <1>12, <2>1
  <2>2. CASE i <= k /\ j = k + 1
    BY <1>8, <1>9, <1>11, <2>2
  <2>3. CASE i <= k /\ j > k + 1
    <3>1. /\ s[i] = d[i] /\ s[j] = d[j - 1] /\ i < j - 1
          /\ i \in 1..m /\ j - 1 \in 1..m
      BY <1>8, <1>9, <2>3
    <3> QED
      BY <1>2, <3>1
  <2>4. CASE i = k + 1 /\ j > k + 1
    <3>1. s[i] = e /\ s[j] = d[j - 1] /\ j - 1 \in 1..m /\ ~(j - 1 <= k)
      BY <1>8, <1>9, <2>4
    <3> QED
      BY <1>11, <3>1
  <2>5. CASE i > k + 1 /\ j > k + 1
    <3>1. /\ s[i] = d[i - 1] /\ s[j] = d[j - 1] /\ i - 1 < j - 1
          /\ i - 1 \in 1..m /\ j - 1 \in 1..m
      BY <1>8, <1>9, <1>12, <2>5
    <3> QED
      BY <1>2, <3>1
  <2> QED
    BY <1>3, <1>8, <1>12, <2>1, <2>2, <2>3, <2>4, <2>5
<1>14. Listed(s)'
  BY <1>3, <1>10, <1>12 DEF Listed
<1>16. Queued' = [i \in 1..m + 1 |-> EntryOf(s[i])']
  BY <1>3, <1>14, <1>c
<1>17. ASSUME NEW i \in 1..m + 1
       PROVE  EntryOf(s[i])' = PostIn(D, y)[i]
  <2>1. CASE i <= k
    <3>1. i \in 1..m /\ s[i] = d[i]
      BY <1>8, <1>9, <2>1
    <3>2. EntryOf(s[i])' = D[i]
      BY <1>1, <1>2, <3>1
    <3> QED
      BY <1>4, <1>5, <2>1, <3>2
  <2>2. CASE i = k + 1
    <3>1. s[i] = e
      BY <1>8, <1>9, <2>2
    <3>2. EntryOf(s[i])' = y
      BY <1>a, <3>1
    <3> QED
      BY <1>4, <1>5, <1>8, <2>2, <3>2
  <2>3. CASE i > k + 1
    <3>1. i - 1 \in 1..m /\ s[i] = d[i - 1]
      BY <1>8, <1>9, <2>3
    <3>2. EntryOf(s[i])' = D[i - 1]
      BY <1>1, <1>2, <3>1
    <3> QED
      BY <1>4, <1>5, <1>8, <2>3, <3>2
  <2> QED
    BY <1>3, <1>8, <2>1, <2>2, <2>3
<1>18. PostIn(D, y) = [i \in 1..m + 1 |-> PostIn(D, y)[i]]
  BY <1>4, <1>5
<1>19. Queued' = PostIn(D, y)
  BY <1>16, <1>17, <1>18
<1>20. k + 1 \in DOMAIN Queued' /\ Queued'[k + 1] = y
  BY <1>3, <1>4, <1>5, <1>8, <1>16, <1>19
<1> QED
  BY <1>19, <1>20, <1>a

-----------------------------------------------------------------------------
(* The engine implements the agenda.                                         *)

(* The set stays finite, and an event leaves it with its own priority or    *)
(* keeps that of the last process.                                          *)
LEMMA SetStep ==
    ASSUME EngineInv, [Next]_vars
    PROVE  SetInv'
<1> USE DEF EngineInv, SetInv
<1>1. IsFiniteSet(eventQueue')
  <2>1. ASSUME NEW S \in SUBSET eventQueue, NEW e
        PROVE  IsFiniteSet(S) /\ IsFiniteSet(S \cup {e})
    <3>1. IsFiniteSet(S)
      BY CountPart
    <3> QED
      BY <3>1, FS_AddElement
  <2>2. \/ eventQueue' \in SUBSET eventQueue
        \/ \E S \in SUBSET eventQueue : \E e \in Events : eventQueue' = S \cup {e}
    <3>1. \A e : eventQueue \ Erased(e) \in SUBSET eventQueue
      OBVIOUS
    <3> QED
      BY <3>1
      DEF Next, Post, Drop, Process, NewRunDone, SimStep, HandlerDone, LoopDone,
          EndSingleRun, ClearEventQueue, Stopped, vars
  <2> QED
    BY <2>1, <2>2
<1>2. \A e \in Events : priority'[e] \in {Immediate, StdPriority[e]}
  <2>1. ASSUME NEW e, NEW v, priority' = [priority EXCEPT ![e] = v],
               v = Immediate \/ v = StdPriority[e]
        PROVE  \A f \in Events : priority'[f] \in {Immediate, StdPriority[f]}
    BY <2>1 DEF TypeOK
  <2>2. CASE priority' = priority
    BY <2>2
  <2>3. CASE SimStep
    BY <2>1, <2>3 DEF SimStep
  <2>4. CASE \E e \in Events : Process(e)
    BY <2>1, <2>4 DEF Process
  <2> QED
    BY <2>2, <2>3, <2>4
    DEF Next, Post, Drop, NewRunDone, HandlerDone, LoopDone,
        EndSingleRun, Stopped, vars, fields
<1> QED
  BY <1>1, <1>2

(* What the refinement rests on. *)
LEMMA EngineInvariant == Spec => []EngineInv
<1>1. Init => EngineInv
  <2>1. Init => TypeOK /\ QueueInv
    BY EngineAssumption DEF Init, TypeOK, QueueInv, OrdersDiffer,
          FlagIsMembership, NothingInThePast, RunsRemain, Phases, MaxTick
  <2> QED
    BY <2>1, FS_EmptySet DEF Init, EngineInv, SetInv
<1>2. EngineInv /\ [Next]_vars => EngineInv'
  BY QueueStep, SetStep DEF EngineInv
<1> QED
  BY <1>1, <1>2, PTL DEF Spec

(* The operators of the agenda, as EventOrder has them. *)
LEMMA OrderIsAgenda ==
    ASSUME NEW q, NEW y, NEW e
    PROVE  /\ Order!PostIn(q, y) = PostIn(q, y)
           /\ Order!DropFrom(q, e) = DropFrom(q, e)
<1>1. Order!PostIn(q, y) = PostIn(q, y)
  <2>1. \A S : Order!Cardinality(S) = Cardinality(S)
    BY DEF Order!Cardinality, Cardinality
  <2> DEFINE D == {i \in DOMAIN q : Precedes(q[i], y)}
  <2>2. Order!PostIn(q, y) = Order!InsertAt(q, Order!Cardinality(D) + 1, y)
    BY DEF Order!PostIn, Order!Precedes, Precedes
  <2>3. PostIn(q, y) = InsertAt(q, Cardinality(D) + 1, y)
    BY DEF PostIn
  <2> HIDE DEF D
  <2>4. \A i : Order!InsertAt(q, i, y) = InsertAt(q, i, y)
    BY DEF Order!InsertAt, InsertAt
  <2> QED
    BY <2>1, <2>2, <2>3, <2>4
<1>2. Order!DropFrom(q, e) = DropFrom(q, e)
  BY DEF Order!DropFrom, DropFrom, Order!IsPosted, IsPosted,
         Order!RemoveAt, RemoveAt
<1> QED
  BY <1>1, <1>2

(* A post or a process that succeeds puts the event in its place. *)
LEMMA PostMeetsAgenda ==
    ASSUME EngineInv, EngineInv', NEW e \in Events, OthersStand(e),
           eventQueue' = (eventQueue \ {e}) \cup {e}, order'[e] = counter,
           time'[e] >= globTime, globTime' = globTime
    PROVE  Order!Posts(e)
<1>1. \A f \in eventQueue \ {e} : order[f] < order'[e]
  BY DEF EngineInv, QueueInv, OrdersDiffer, TypeOK, NothingInThePast, MaxTick
<1>2. PICK i \in DOMAIN Queued' :
              /\ Queued'[i] = EntryOf(e)'
              /\ Queued' = PostIn(DropFrom(Queued, e), Queued'[i])
  BY <1>1, EnteringIsPosting
<1>3. priority'[e] \in {Immediate} \cup {StdPriority[f] : f \in Events}
  BY DEF EngineInv, SetInv
<1>4. /\ Queued'[i].ev = e /\ Queued'[i].at = time'[e]
      /\ Queued'[i].prio = priority'[e]
  BY <1>2 DEF EntryOf
<1>5. Queued' = Order!PostIn(Order!DropFrom(Queued, e), Queued'[i])
  BY <1>2, OrderIsAgenda
<1> QED
  BY <1>3, <1>4, <1>5 DEF Order!Posts

(* Steps that leave the set and the fields alone leave the agenda alone. *)
LEMMA AgendaStands ==
    ASSUME UNCHANGED <<eventQueue, time, priority, order>>
    PROVE  Queued' = Queued
BY DEF Queued, EventAt, Place, Cmp

(* The event handled is the first of the agenda. *)
LEMMA StepIsHandling ==
    ASSUME EngineInv, EngineInv', SimStep
    PROVE  Order!Handle
<1> DEFINE n == Cardinality(eventQueue)
           s == [i \in 1..n |-> EventAt(i)]
           m == Cardinality(eventQueue')
<1>1. n \in Nat /\ Queued \in Seq(AgendaEntries) /\ Len(Queued) = n
  BY QueuedType
<1>2. IsFiniteSet(eventQueue) /\ eventQueue # {}
  BY DEF SimStep, EngineInv, SetInv
<1>3. n >= 1
  BY <1>1, <1>2, FS_EmptySet
<1>4. /\ s \in [1..n -> eventQueue]
      /\ \A i, j \in 1..n : i < j => Cmp(s[i], s[j])
  BY QueueIsListed DEF Listed
<1>5. Queued = [i \in 1..n |-> EntryOf(s[i])]
  BY DEF Queued, EntryOf
<1>6. /\ \A f \in eventQueue : ~Cmp(f, f)
      /\ \A f, g, h \in eventQueue : Cmp(f, g) /\ Cmp(g, h) => Cmp(f, h)
  BY CmpIsAnOrder
<1> HIDE DEF s, n
<1>7. \A i, j \in 1..n : s[i] = s[j] => i = j
  <2> SUFFICES ASSUME NEW i \in 1..n, NEW j \in 1..n, i # j
               PROVE  s[i] # s[j]
    OBVIOUS
  <2>1. i < j \/ j < i
    BY <1>1
  <2> QED
    BY <1>4, <1>6, <2>1
<1>8. \A f \in eventQueue : \E i \in 1..n : s[i] = f
  BY <1>2, <1>4, <1>7, ListsAll DEF n
<1>9. s[1] \in eventQueue /\ \A f \in eventQueue \ {s[1]} : Cmp(s[1], f)
  <2>1. 1 \in 1..n
    BY <1>1, <1>3
  <2>2. ASSUME NEW f \in eventQueue, f # s[1]
        PROVE  Cmp(s[1], f)
    <3>1. PICK i \in 1..n : s[i] = f
      BY <1>8
    <3>2. 1 < i
      BY <2>2, <3>1
    <3> QED
      BY <1>4, <2>1, <3>1, <3>2
  <2> QED
    BY <1>4, <2>1, <2>2
<1>10. First = s[1]
  <2>1. First \in eventQueue /\ \A f \in eventQueue \ {First} : Cmp(First, f)
    BY <1>9 DEF First
  <2> HIDE DEF First
  <2> QED
    BY <1>6, <1>9, <2>1
<1>11. /\ eventQueue' = eventQueue \ {s[1]} /\ s[1] \in Events
       /\ globTime' = time[s[1]] /\ OthersStand(s[1])
  <2>1. s[1] \in Events
    BY <1>9 DEF EngineInv, TypeOK
  <2>2. Erased(s[1]) = {s[1]}
    BY <1>9, <2>1, ErasedIsOwn DEF EngineInv, QueueInv
  <2>3. /\ eventQueue' = eventQueue \ Erased(s[1])
        /\ globTime' = time[s[1]]
        /\ priority' = [priority EXCEPT ![s[1]] = StdPriority[s[1]]]
        /\ UNCHANGED <<time, order>>
    BY <1>10 DEF SimStep
  <2>4. OthersStand(s[1])
    BY <2>3 DEF OthersStand, EngineInv, TypeOK
  <2> QED
    BY <2>1, <2>2, <2>3, <2>4
<1>12. m = n - 1 /\ m \in Nat
  <2>1. Cardinality(eventQueue \ {s[1]}) = Cardinality(eventQueue) - 1
    BY <1>2, <1>9, FS_RemoveElement
  <2>2. m = n - 1
    BY <1>11, <2>1 DEF n
  <2> HIDE DEF m
  <2> QED
    BY <1>1, <1>3, <2>2
<1>13. PICK d : d = [i \in 1..m |-> s[i + 1]]
  OBVIOUS
<1> HIDE DEF m
<1>14. Listed(d)'
  <2>1. \A i \in 1..m : d[i] = s[i + 1] /\ i + 1 \in 1..n /\ i + 1 # 1 /\ 1 \in 1..n
    BY <1>1, <1>3, <1>12, <1>13
  <2>2. \A i \in 1..m : d[i] \in eventQueue'
    BY <1>4, <1>7, <1>11, <2>1
  <2>3. \A i, j \in 1..m : i < j => Cmp(d[i], d[j])
    <3> SUFFICES ASSUME NEW i \in 1..m, NEW j \in 1..m, i < j
                 PROVE  Cmp(d[i], d[j])
      OBVIOUS
    <3>1. i + 1 < j + 1
      BY <1>12
    <3> QED
      BY <1>4, <2>1, <3>1
  <2>4. \A f, g \in eventQueue' : Cmp(f, g) => Cmp(f, g)'
    BY <1>11 DEF Cmp, OthersStand
  <2>5. \A i, j \in 1..m : i < j => Cmp(d[i], d[j])'
    BY <2>2, <2>3, <2>4
  <2>6. d \in [1..m -> eventQueue']
    BY <1>13, <2>2
  <2> QED
    BY <2>5, <2>6 DEF Listed, m
<1>15. Queued' = [i \in 1..m |-> EntryOf(d[i])']
  BY <1>14, NextQueuedIs DEF m
<1>16. /\ Queued # <<>> /\ Head(Queued) = EntryOf(s[1])
       /\ Tail(Queued) = [i \in 1..n - 1 |-> Queued[i + 1]]
  BY <1>1, <1>3, <1>5
<1>17. \A i \in 1..m : EntryOf(d[i])' = Queued[i + 1]
  <2> SUFFICES ASSUME NEW i \in 1..m
               PROVE  EntryOf(d[i])' = Queued[i + 1]
    OBVIOUS
  <2>1. i + 1 \in 1..n /\ i + 1 # 1 /\ 1 \in 1..n /\ d[i] = s[i + 1]
    BY <1>1, <1>3, <1>12, <1>13
  <2>2. d[i] \in eventQueue \ {s[1]}
    BY <1>4, <1>7, <2>1
  <2>3. EntryOf(d[i])' = EntryOf(d[i])
    BY <1>11, <2>2 DEF OthersStand, EntryOf
  <2> QED
    BY <1>5, <2>1, <2>3
<1>18. Queued' = Tail(Queued)
  BY <1>12, <1>15, <1>16, <1>17
<1>19. globTime' = Head(Queued).at
  BY <1>11, <1>16 DEF EntryOf
<1> QED
  BY <1>16, <1>18, <1>19 DEF Order!Handle

(* Every step of the engine is one of the agenda, or leaves it as it was.   *)
LEMMA AgendaStep ==
    ASSUME EngineInv, EngineInv', [Next]_vars
    PROVE  [Order!Next]_(Order!vars)
<1> USE DEF EngineInv
<1>a. TypeOK /\ OrdersDiffer /\ NothingInThePast /\ FlagIsMembership
  BY DEF QueueInv
<1>1. ASSUME NEW e \in Events, NEW d \in Delays, Post(e, globTime + d)
      PROVE  [Order!Next]_(Order!vars)
  <2>1. CASE isInQueue[e] \/ globTime + d < globTime
    <3>1. UNCHANGED <<eventQueue, time, priority, order, globTime>>
      BY <1>1, <2>1 DEF Post, fields
    <3>2. Queued' = Queued
      BY <3>1, AgendaStands
    <3> QED
      BY <3>1, <3>2 DEF Order!vars
  <2>2. CASE ~(isInQueue[e] \/ globTime + d < globTime)
    <3>1. e \notin eventQueue
      BY <1>a, <2>2 DEF FlagIsMembership
    <3>2. /\ time' = [time EXCEPT ![e] = globTime + d]
          /\ order' = [order EXCEPT ![e] = counter]
          /\ eventQueue' = eventQueue \cup {e}
          /\ UNCHANGED <<priority, globTime>>
      BY <1>1, <2>2 DEF Post
    <3>3. globTime + d \in Int /\ globTime \in Int
      BY EngineAssumption DEF TypeOK
    <3>4. OthersStand(e)
      BY <3>2 DEF OthersStand, TypeOK
    <3>5. /\ eventQueue' = (eventQueue \ {e}) \cup {e}
          /\ order'[e] = counter /\ time'[e] >= globTime
      BY <2>2, <3>1, <3>2, <3>3 DEF TypeOK
    <3>6. Order!Posts(e)
      BY <3>2, <3>4, <3>5, PostMeetsAgenda
    <3> QED
      BY <3>6 DEF Order!Next
  <2> QED
    BY <2>1, <2>2
<1>2. ASSUME NEW e \in Events, Process(e)
      PROVE  [Order!Next]_(Order!vars)
  <2>1. eventQueue' = (eventQueue \ {e}) \cup {e}
    BY <1>2, <1>a, ErasedIsOwn DEF Process
  <2>2. /\ priority' = [priority EXCEPT ![e] = Immediate]
        /\ time' = [time EXCEPT ![e] = globTime]
        /\ order' = [order EXCEPT ![e] = counter]
        /\ UNCHANGED globTime
    BY <1>2 DEF Process
  <2>3. OthersStand(e)
    BY <2>2 DEF OthersStand, TypeOK
  <2>4. order'[e] = counter /\ time'[e] >= globTime
    BY <2>2 DEF TypeOK
  <2>5. Order!Posts(e)
    BY <2>1, <2>2, <2>3, <2>4, PostMeetsAgenda
  <2> QED
    BY <2>5 DEF Order!Next
<1>3. ASSUME NEW e \in Events, Drop(e)
      PROVE  [Order!Next]_(Order!vars)
  <2>1. eventQueue' = eventQueue \ {e}
    BY <1>3, <1>a, ErasedIsOwn DEF Drop
  <2>2. UNCHANGED <<time, priority, order, globTime>>
    BY <1>3 DEF Drop
  <2>3. Queued' = DropFrom(Queued, e)
    BY <2>1, <2>2, LeavingIsDropping DEF OthersStand
  <2>4. Order!Cancel(e)
    BY <2>2, <2>3, OrderIsAgenda DEF Order!Cancel
  <2> QED
    BY <2>4 DEF Order!Next
<1>4. CASE SimStep
  BY <1>4, StepIsHandling DEF Order!Next
<1>5. CASE EndSingleRun
  <2>1. eventQueue' = {} /\ globTime' = 0
    BY <1>5 DEF EndSingleRun, ClearEventQueue
  <2>2. Cardinality(eventQueue') = 0
    BY <2>1, FS_EmptySet
  <2>3. Queued' = <<>>
    BY <2>2 DEF Queued
  <2> QED
    BY <2>1, <2>3 DEF Order!Reset, Order!Next
<1>6. CASE NewRunDone \/ HandlerDone \/ LoopDone \/ Stopped \/ UNCHANGED vars
  <2>1. UNCHANGED <<eventQueue, time, priority, order, globTime>>
    BY <1>6 DEF NewRunDone, HandlerDone, LoopDone, Stopped, vars, fields
  <2>2. Queued' = Queued
    BY <2>1, AgendaStands
  <2> QED
    BY <2>1, <2>2 DEF Order!vars
<1> QED
  BY <1>1, <1>2, <1>3, <1>4, <1>5, <1>6 DEF Next

(* The engine implements the agenda: events are handled by time, then       *)
(* priority, then in the order of posting, and none is handled twice or     *)
(* lost, except by a drop or the end of the run, whatever the entities post,*)
(* drop and process.                                                        *)
THEOREM EngineImplementsAgenda == Spec => ImplementsAgenda
<1>1. Init => Order!Init
  <2> SUFFICES ASSUME Init PROVE Order!Init
    OBVIOUS
  <2>1. Cardinality(eventQueue) = 0 /\ globTime = 0
    BY FS_EmptySet DEF Init
  <2>2. Queued = <<>>
    BY <2>1 DEF Queued
  <2> QED
    BY <2>1, <2>2 DEF Order!Init
<1>2. EngineInv /\ EngineInv' /\ [Next]_vars => [Order!Next]_(Order!vars)
  BY AgendaStep
<1> QED
  BY <1>1, <1>2, EngineInvariant, PTL DEF Spec, ImplementsAgenda, Order!Spec
=============================================================================
