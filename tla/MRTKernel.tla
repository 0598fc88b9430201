------------------------------ MODULE MRTKernel ------------------------------
(***************************************************************************)
(* The multiprocessor kernel with global scheduling (librtsim's            *)
(* MRTKernel): one ready queue, a set of CPUs, and for each CPU a pair of  *)
(* events, "begin dispatch" and "end dispatch", that bracket a context     *)
(* switch.                                                                 *)
(*                                                                         *)
(* The model runs the kernel against every environment its callers can be: *)
(* tasks arrive, end, suspend, block on a resource and come back at any    *)
(* instant, and the scheduler may rank an arriving task anywhere in the    *)
(* queue (so EDF, RM, FP and FIFO are all instances).  Events of one       *)
(* instant and priority are handled in any order, which covers the order   *)
(* the engine picks.  Only events of the immediate priority (the tasks'    *)
(* schedEvt and deschedEvt) are known to come before all others.           *)
(***************************************************************************)
EXTENDS Integers, FiniteSets, Sequences

CONSTANTS
    Tasks,               (* the AbsRTTasks (tasks or servers) of the kernel  *)
    CPUs,                (* the CPUs it manages                              *)
    None,                (* the null pointer                                 *)
    ContextSwitchDelay,  (* overhead of every dispatch                       *)
    MigrationDelay,      (* added when the task last ran on another CPU      *)
    EndTick,             (* the tick at which a simulation run stops         *)
    Runs                 (* how many runs Simulation::run performs           *)

ASSUME CPUsAssumption  == IsFiniteSet(CPUs)
ASSUME TasksAssumption == IsFiniteSet(Tasks)
ASSUME NoneAssumption  == None \notin Tasks \cup CPUs
ASSUME DelayAssumption == ContextSwitchDelay \in Nat /\ MigrationDelay \in Nat
(* Simulation::run turns 2 runs into 3. *)
ASSUME RunAssumption   == EndTick \in Nat /\ Runs \in Nat \ {0, 2}

VARIABLES
    now,                 (* Simulation::globTime                             *)
    run,                 (* the run in progress, 1..Runs                     *)
    exc,                 (* the exception that ended the program, or "none"  *)
    queue,               (* Scheduler::_queue, highest priority first        *)
    currExe,             (* _m_currExe: the task executing on each CPU       *)
    oldExe,              (* _m_oldExe: the CPU each task last executed on    *)
    dispatched,          (* _m_dispatched: the CPU each task is dispatched on*)
    isContextSwitching,  (* per CPU                                          *)
    beginEvt,            (* per CPU: is it posted, and for when              *)
    endEvt,              (* per CPU: the same, and the task being switched in*)
    state,               (* Task::state of each task                         *)
    schedEvt,            (* tasks whose schedEvt is posted (immediate)       *)
    deschedEvt           (* tasks whose deschedEvt is posted (immediate)     *)

dispatchVars == <<dispatched, beginEvt, endEvt>>
taskVars     == <<state, schedEvt, deschedEvt>>
vars == <<now, run, exc, queue, currExe, oldExe, dispatched,
          isContextSwitching, beginEvt, endEvt, state, schedEvt, deschedEvt>>

Exceptions == {"none", "CantDeschedule", "PostedInThePast", "AlreadyPosted",
               "TaskNotActive", "TaskNotExecuting", "TaskAlreadyExecuting",
               "NoCPU"}

NumCPU     == Cardinality(CPUs)
Ready(q)   == {q[i] : i \in 1..Len(q)}

-----------------------------------------------------------------------------
(* The ready queue.                                                          *)

(* Scheduler::insert puts the task at the place its priority gives it. *)
Insert(q, i, t) == SubSeq(q, 1, i - 1) \o <<t>> \o SubSeq(q, i, Len(q))

(* Scheduler::extract; a task that is not in the queue is left alone. *)
Extract(q, t) ==
    IF t \in Ready(q)
    THEN LET i == CHOOSE i \in 1..Len(q) : q[i] = t
         IN  SubSeq(q, 1, i - 1) \o SubSeq(q, i + 1, Len(q))
    ELSE q

(* The tasks that ought to be running: the first NumCPU of the queue. *)
Top(q) == {q[i] : i \in {j \in 1..Len(q) : j <= NumCPU}}

-----------------------------------------------------------------------------
(* MRTKernel::dispatch(): on which CPUs a dispatch is started.  The loop of  *)
(* the code takes free CPUs first, in the order of a map keyed by pointers   *)
(* (here: any), then evicts the dispatched tasks that follow the first       *)
(* NumCPU of the queue, from the front.                                      *)

Fresh(q, cur, dis) ==
    {t \in Top(q) : dis[t] = None /\ \A p \in CPUs : cur[p] # t}

Free(cur, dis) ==
    {p \in CPUs : cur[p] = None /\ \A t \in Tasks : dis[t] # p}

EvictableFrom(q, dis, first) == {i \in first..Len(q) : dis[q[i]] # None}

(* What a scan that starts at the head of the queue would find. *)
EvictableFromHead(q, dis) == EvictableFrom(q, dis, 1)

(* What a scan that starts one place too late would find. *)
EvictableLate(q, dis) == EvictableFrom(q, dis, NumCPU + 2)

Evictable(q, dis) == EvictableFrom(q, dis, NumCPU + 1)

FirstOf(S, k) == {i \in S : Cardinality({j \in S : j < i}) < k}

(* "Can't find enough tasks to deschedule!" *)
RunsShort(q, cur, dis) ==
    Cardinality(Fresh(q, cur, dis))
        > Cardinality(Free(cur, dis)) + Cardinality(Evictable(q, dis))

(* A dispatch() that never evicts. *)
TargetsWithoutEviction(q, cur, dis) ==
    {D \in SUBSET Free(cur, dis) :
        Cardinality(D) <= Cardinality(Fresh(q, cur, dis))}

DispatchTargets(q, cur, dis) ==
    LET new  == Cardinality(Fresh(q, cur, dis))
        free == Free(cur, dis)
    IN  IF new <= Cardinality(free)
        THEN {D \in SUBSET free : Cardinality(D) = new}
        ELSE {free \cup {dis[q[i]] :
                i \in FirstOf(Evictable(q, dis), new - Cardinality(free))}}

-----------------------------------------------------------------------------
(* MRTKernel::dispatch of one CPU, for every CPU of D at time tau, from      *)
(* the dispatched map dis.  A CPU in the middle of a switch has the switch   *)
(* cancelled and its next dispatch put off to the time it would have ended.  *)

(* A cancelled switch that leaves its task dispatched. *)
NoneCancelled(D) == {}

Cancelled(D) == {endEvt[p].task : p \in {q \in D : isContextSwitching[q]}}

(* How the begin events change when the one of a switching CPU is put off   *)
(* to time at[p].                                                           *)
BeginAt(D, tau, at) ==
    beginEvt' = [p \in CPUs |->
        IF p \notin D THEN beginEvt[p]
        ELSE [posted |-> TRUE,
              at |-> IF isContextSwitching[p] THEN at[p] ELSE tau]]

(* A delay counted twice, and the delay of the cancelled switch taken back. *)
PostBeginLate(D, tau) ==
    BeginAt(D, tau, [p \in CPUs |-> endEvt[p].at + ContextSwitchDelay])
PostBeginEarly(D, tau) ==
    BeginAt(D, tau, [p \in CPUs |->
                endEvt[p].at - ContextSwitchDelay - MigrationDelay])

PostBegin(D, tau) == BeginAt(D, tau, [p \in CPUs |-> endEvt[p].at])

DispatchOn(D, dis, tau) ==
    /\ PostBegin(D, tau)
    /\ endEvt' = [p \in CPUs |->
          IF p \in D /\ isContextSwitching[p]
          THEN [posted |-> FALSE, at |-> endEvt[p].at, task |-> None]
          ELSE endEvt[p]]
    /\ dispatched' =
          [t \in Tasks |-> IF t \in Cancelled(D) THEN None ELSE dis[t]]
    /\ exc' = IF \E p \in D : isContextSwitching[p] /\ endEvt[p].at < tau
              THEN "PostedInThePast" ELSE "none"

(* MRTKernel::dispatch() with queue q and assignments cur and dis. *)
Dispatch(q, cur, dis, tau) ==
    \/ /\ RunsShort(q, cur, dis)
       /\ exc' = "CantDeschedule"
       /\ dispatched' = dis
       /\ UNCHANGED <<beginEvt, endEvt>>
    \/ /\ ~RunsShort(q, cur, dis)
       /\ \E D \in DispatchTargets(q, cur, dis) : DispatchOn(D, dis, tau)

-----------------------------------------------------------------------------
(* The clock.  The engine executes the posted event of least time; a run is  *)
(* over as soon as an event at or after EndTick has been executed.           *)

RunOver == now >= EndTick

Running == exc = "none" /\ ~RunOver

Immediate == schedEvt \cup deschedEvt

PostedTimes == {beginEvt[p].at : p \in {q \in CPUs : beginEvt[q].posted}}
               \cup {endEvt[p].at : p \in {q \in CPUs : endEvt[q].posted}}

(* The next event is one of time tau and of ordinary priority. *)
Step(tau) ==
    /\ Running
    /\ Immediate = {}
    /\ tau >= now
    /\ \A u \in PostedTimes : tau <= u
    /\ now' = tau

-----------------------------------------------------------------------------
(* What tasks, servers and resource managers ask of the kernel.              *)

ProcessorsOf(t) == {p \in CPUs : currExe[p] = t}

(* Where the scheduler may rank t. *)
Places == 1..Len(queue) + 1

(* MRTKernel::onArrival *)
OnArrival(t, tau) ==
    \E i \in Places :
        /\ queue' = Insert(queue, i, t)
        /\ Dispatch(queue', currExe, dispatched, tau)

(* A new job: Task::onArrival, handleArrival and the kernel's onArrival. *)
Arrival(t, tau) ==
    /\ Step(tau)
    /\ state[t] = "IDLE"
    /\ state' = [state EXCEPT ![t] = "READY"]
    /\ OnArrival(t, tau)
    /\ UNCHANGED <<run, currExe, oldExe, isContextSwitching,
                   schedEvt, deschedEvt>>

(* A task or server that was suspended is ready again: the end of its      *)
(* suspension, its replenishment, or the release of what it waited for.    *)
Resume(t, tau) ==
    /\ Step(tau)
    /\ state[t] = "READY"
    /\ t \notin Ready(queue)
    /\ OnArrival(t, tau)
    /\ UNCHANGED <<run, currExe, oldExe, isContextSwitching, taskVars>>

(* An onEnd that forgets _m_dispatched, and one that does not dispatch. *)
OnEndStaysDispatched(t, p, tau) ==
    /\ queue' = Extract(queue, t)
    /\ oldExe' = [oldExe EXCEPT ![t] = p]
    /\ currExe' = [currExe EXCEPT ![p] = None]
    /\ DispatchOn({p}, dispatched, tau)
OnEndWithoutDispatch(t, p, tau) ==
    /\ queue' = Extract(queue, t)
    /\ oldExe' = [oldExe EXCEPT ![t] = p]
    /\ currExe' = [currExe EXCEPT ![p] = None]
    /\ dispatched' = [dispatched EXCEPT ![t] = None]
    /\ UNCHANGED <<exc, beginEvt, endEvt>>

(* MRTKernel::onEnd: the job of the task that executes on p is over. *)
OnEnd(t, p, tau) ==
    /\ queue' = Extract(queue, t)
    /\ oldExe' = [oldExe EXCEPT ![t] = p]
    /\ currExe' = [currExe EXCEPT ![p] = None]
    /\ DispatchOn({p}, [dispatched EXCEPT ![t] = None], tau)

(* Task::onEndInstance; without a CPU, its getCPU()->getIndex() crashes. *)
EndInstance(t, tau) ==
    /\ Step(tau)
    /\ state[t] = "EXEC"
    /\ state' = [state EXCEPT ![t] = "IDLE"]
    /\ \/ \E p \in ProcessorsOf(t) : OnEnd(t, p, tau)
       \/ /\ ProcessorsOf(t) = {}
          /\ exc' = "NoCPU"
          /\ UNCHANGED <<queue, oldExe, currExe, dispatchVars>>
    /\ UNCHANGED <<run, isContextSwitching, schedEvt, deschedEvt>>

(* A deschedule that only takes back schedEvt. *)
DescheduleSilently(t) == schedEvt' = schedEvt \ {t} /\ UNCHANGED deschedEvt

(* Task::deschedule *)
Deschedule(t) ==
    /\ schedEvt' = schedEvt \ {t}
    /\ deschedEvt' = deschedEvt \cup {t}

(* MRTKernel::suspend of a task that executes on p: what it leaves behind. *)
Vacate(t, p) ==
    /\ queue' = Extract(queue, t)
    /\ oldExe' = [oldExe EXCEPT ![t] = p]
    /\ currExe' = [currExe EXCEPT ![p] = None]
    /\ Deschedule(t)

(* SuspendInstr::onSuspend: the executing task suspends itself. *)
Suspend(t, tau) ==
    /\ Step(tau)
    /\ state[t] = "EXEC"
    /\ \E p \in ProcessorsOf(t) :
          /\ Vacate(t, p)
          /\ DispatchOn({p}, [dispatched EXCEPT ![t] = None], tau)
    /\ UNCHANGED <<run, isContextSwitching, state>>

(* The executing task is refused a resource, or the executing server is    *)
(* out of budget or of work: suspend, which dispatches on p, and then      *)
(* dispatch() once more.                                                   *)
SuspendAndDispatch(t, tau) ==
    /\ Step(tau)
    /\ state[t] = "EXEC"
    /\ \E p \in ProcessorsOf(t) :
          /\ Vacate(t, p)
          /\ LET dis == [dispatched EXCEPT ![t] = None] IN
                \/ /\ RunsShort(queue', currExe', dis)
                   /\ exc' = "CantDeschedule"
                   /\ UNCHANGED <<beginEvt, endEvt>>
                   /\ dispatched' = dis
                \/ /\ ~RunsShort(queue', currExe', dis)
                   /\ \E D \in DispatchTargets(queue', currExe', dis) :
                         DispatchOn(D \cup {p}, dis, tau)
    /\ UNCHANGED <<run, isContextSwitching, state>>

-----------------------------------------------------------------------------
(* The two halves of a context switch.                                       *)

(* st is the first task of q that dis leaves undispatched, None if every   *)
(* task of q is dispatched.  (The first variant looks at _m_currExe.)      *)
IsFirstNotRunning(st, q, dis) ==
    LET waiting == {i \in 1..Len(q) : ProcessorsOf(q[i]) = {}}
    IN  \/ st = None /\ waiting = {}
        \/ \E i \in waiting : st = q[i] /\ \A j \in waiting : i <= j

IsNextToRun(st, q, dis) ==
    \/ /\ st = None
       /\ \A i \in 1..Len(q) : dis[q[i]] # None
    \/ \E i \in 1..Len(q) :
          /\ st = q[i]
          /\ dis[st] = None
          /\ \A j \in 1..i-1 : dis[q[j]] # None

(* The time a switch to t on p takes; old is where each task last ran. *)
Overhead(t, p, old) ==
    IF t # None /\ old[t] \notin {p, None}
    THEN ContextSwitchDelay + MigrationDelay
    ELSE ContextSwitchDelay

(* MRTKernel::onBeginDispatchMulti *)
BeginDispatch(p) ==
    LET dt  == currExe[p]
        dis == [t \in Tasks |-> IF t = dt THEN None ELSE dispatched[t]]
        old == [t \in Tasks |-> IF t = dt THEN p ELSE oldExe[t]]
    IN  /\ beginEvt[p].posted
        /\ Step(beginEvt[p].at)
        /\ beginEvt' = [beginEvt EXCEPT ![p].posted = FALSE]
        /\ oldExe' = old
        /\ currExe' = [currExe EXCEPT ![p] = None]
        /\ IF dt = None THEN UNCHANGED <<schedEvt, deschedEvt>>
                        ELSE Deschedule(dt)
        /\ \E st \in Tasks \cup {None} :
              /\ IsNextToRun(st, queue, dis)
              /\ dispatched' = [t \in Tasks |-> IF t = st THEN p ELSE dis[t]]
              /\ IF endEvt[p].posted
                 THEN exc' = "AlreadyPosted" /\ UNCHANGED endEvt
                 ELSE /\ exc' = "none"
                      /\ endEvt' = [endEvt EXCEPT ![p] =
                            [posted |-> TRUE, task |-> st,
                             at |-> now' + Overhead(st, p, old)]]
        /\ isContextSwitching' = [isContextSwitching EXCEPT ![p] = TRUE]
        /\ UNCHANGED <<run, queue, state>>

(* MRTKernel::onEndDispatchMulti, with Task::schedule *)
EndDispatch(p) ==
    LET st == endEvt[p].task
    IN  /\ endEvt[p].posted
        /\ Step(endEvt[p].at)
        /\ endEvt' = [endEvt EXCEPT ![p].posted = FALSE]
        /\ currExe' = [currExe EXCEPT ![p] = st]
        /\ schedEvt' = IF st = None THEN schedEvt ELSE schedEvt \cup {st}
        /\ isContextSwitching' = [isContextSwitching EXCEPT ![p] = FALSE]
        /\ UNCHANGED <<run, exc, queue, oldExe, dispatched, beginEvt,
                       state, deschedEvt>>

-----------------------------------------------------------------------------
(* The tasks' own immediate events.                                          *)

(* Task::onSched *)
OnSched(t) ==
    /\ Running
    /\ t \in schedEvt
    /\ schedEvt' = schedEvt \ {t}
    /\ exc' = CASE ProcessorsOf(t) = {}  -> "NoCPU"
                [] state[t] = "IDLE"     -> "TaskNotActive"
                [] state[t] = "EXEC"     -> "TaskAlreadyExecuting"
                [] OTHER                 -> "none"
    /\ deschedEvt' = IF exc' = "none" THEN deschedEvt \ {t} ELSE deschedEvt
    /\ state' = IF exc' = "none" THEN [state EXCEPT ![t] = "EXEC"] ELSE state
    /\ UNCHANGED <<now, run, queue, currExe, oldExe, dispatchVars,
                   isContextSwitching>>

(* Task::onDesched *)
OnDesched(t) ==
    /\ Running
    /\ t \in deschedEvt
    /\ deschedEvt' = deschedEvt \ {t}
    /\ exc' = CASE oldExe[t] = None      -> "NoCPU"
                [] state[t] = "IDLE"     -> "TaskNotActive"
                [] state[t] = "READY"    -> "TaskNotExecuting"
                [] OTHER                 -> "none"
    /\ state' = IF exc' = "none" THEN [state EXCEPT ![t] = "READY"] ELSE state
    /\ UNCHANGED <<now, run, queue, currExe, oldExe, dispatchVars,
                   isContextSwitching, schedEvt>>

-----------------------------------------------------------------------------
(* Simulation::endSingleRun and the next initSingleRun: every event is       *)
(* dropped, the scheduler's queue is cleared, the tasks are idle, and        *)
(* MRTKernel::newRun clears three of its maps.                               *)

(* A newRun that leaves _m_currExe, and one that leaves the queue. *)
ResetButCurrExe ==
    /\ dispatched' = [t \in Tasks |-> None]
    /\ oldExe' = [t \in Tasks |-> None]
    /\ UNCHANGED currExe
KeepQueue == UNCHANGED queue

ResetKernel ==
    /\ currExe' = [p \in CPUs |-> None]
    /\ dispatched' = [t \in Tasks |-> None]
    /\ oldExe' = [t \in Tasks |-> None]

ResetQueue == queue' = <<>>

NewRun ==
    /\ exc = "none"
    /\ RunOver
    /\ run < Runs
    /\ run' = run + 1
    /\ now' = 0
    /\ ResetKernel
    /\ ResetQueue
    /\ beginEvt' = [p \in CPUs |-> [beginEvt[p] EXCEPT !.posted = FALSE]]
    /\ endEvt' = [p \in CPUs |-> [endEvt[p] EXCEPT !.posted = FALSE]]
    /\ state' = [t \in Tasks |-> "IDLE"]
    /\ schedEvt' = {}
    /\ deschedEvt' = {}
    /\ UNCHANGED <<exc, isContextSwitching>>

(* Nothing happens after the last run, or after an uncaught exception. *)
Stopped ==
    /\ exc # "none" \/ (RunOver /\ run = Runs)
    /\ UNCHANGED vars

-----------------------------------------------------------------------------
Init ==
    /\ now = 0
    /\ run = 1
    /\ exc = "none"
    /\ queue = <<>>
    /\ currExe = [p \in CPUs |-> None]
    /\ oldExe = [t \in Tasks |-> None]
    /\ dispatched = [t \in Tasks |-> None]
    /\ isContextSwitching = [p \in CPUs |-> FALSE]
    /\ beginEvt = [p \in CPUs |-> [posted |-> FALSE, at |-> 0]]
    /\ endEvt = [p \in CPUs |-> [posted |-> FALSE, at |-> 0, task |-> None]]
    /\ state = [t \in Tasks |-> "IDLE"]
    /\ schedEvt = {}
    /\ deschedEvt = {}

(* Requests come at any tick of the run; the last one stops it. *)
Request(t) ==
    \E tau \in 0..EndTick :
        \/ Arrival(t, tau)
        \/ Resume(t, tau)
        \/ EndInstance(t, tau)
        \/ Suspend(t, tau)
        \/ SuspendAndDispatch(t, tau)

Next ==
    \/ \E t \in Tasks : Request(t) \/ OnSched(t) \/ OnDesched(t)
    \/ \E p \in CPUs : BeginDispatch(p) \/ EndDispatch(p)
    \/ NewRun
    \/ Stopped

Spec == Init /\ [][Next]_vars

-----------------------------------------------------------------------------
(* Invariants.                                                               *)

TypeOK ==
    /\ now \in Nat
    /\ run \in 1..Runs
    /\ exc \in Exceptions
    /\ queue \in Seq(Tasks)
    /\ currExe \in [CPUs -> Tasks \cup {None}]
    /\ oldExe \in [Tasks -> CPUs \cup {None}]
    /\ dispatched \in [Tasks -> CPUs \cup {None}]
    /\ isContextSwitching \in [CPUs -> BOOLEAN]
    /\ beginEvt \in [CPUs -> [posted : BOOLEAN, at : Nat]]
    /\ endEvt \in [CPUs ->
                     [posted : BOOLEAN, at : Nat, task : Tasks \cup {None}]]
    /\ state \in [Tasks -> {"IDLE", "READY", "EXEC"}]
    /\ schedEvt \in SUBSET Tasks
    /\ deschedEvt \in SUBSET Tasks

(* A task never executes on two CPUs. *)
NoTaskOnTwoCPUs ==
    \A p, q \in CPUs : currExe[p] = currExe[q] /\ currExe[p] # None => p = q

(* mrtkernel.hpp: "The set of dispatched tasks includes the set of          *)
(* executing tasks"; and a task that is being switched in is dispatched on  *)
(* that CPU, so that no second CPU picks it meanwhile.                      *)
PlacedIsDispatched ==
    \A p \in CPUs :
        /\ currExe[p] # None => dispatched[currExe[p]] = p
        /\ endEvt[p].posted /\ endEvt[p].task # None
              => dispatched[endEvt[p].task] = p

(* Conversely a dispatched task really is executing or being switched in,   *)
(* or it would be skipped by every later dispatch.                          *)
DispatchedIsPlaced ==
    \A t \in Tasks : dispatched[t] # None =>
        LET p == dispatched[t]
        IN  currExe[p] = t \/ (endEvt[p].posted /\ endEvt[p].task = t)

(* A CPU does not execute while it switches, and switches only while its    *)
(* end event, or the begin event that replaces it, is on the way; a switch  *)
(* that was cancelled no longer names a task.                               *)
SwitchingIsExclusive ==
    \A p \in CPUs :
        /\ isContextSwitching[p] => currExe[p] = None
        /\ endEvt[p].posted => isContextSwitching[p] /\ ~beginEvt[p].posted
        /\ isContextSwitching[p] /\ ~endEvt[p].posted
              => beginEvt[p].posted /\ endEvt[p].task = None

Consistent ==
    PlacedIsDispatched /\ DispatchedIsPlaced /\ SwitchingIsExclusive

(* A task that ended or was suspended is not left on a CPU, nor on its way  *)
(* to one.                                                                  *)
DispatchedIsReady ==
    \A t \in Tasks : dispatched[t] # None => t \in Ready(queue)

(* Whenever no immediate event is pending, the tasks that believe they      *)
(* execute are those the kernel put on a CPU.                               *)
ExecutingIsOnCPU ==
    exc = "none" /\ Immediate = {} =>
        \A t \in Tasks : state[t] = "EXEC" <=> ProcessorsOf(t) # {}

(* None of the exceptions and null dereferences on these paths can happen;  *)
(* in particular dispatch() always finds enough tasks to evict.             *)
NoException == exc = "none"

(* mrtkernel.hpp on dispatch(): "the first N tasks in the ready queue are   *)
(* dispatched on the N cpus": when no switch is under way or due, the       *)
(* executing tasks are exactly the first NumCPU of the queue.               *)
TopRuns ==
    (\A p \in CPUs : ~beginEvt[p].posted /\ ~endEvt[p].posted)
        => {currExe[p] : p \in CPUs} \ {None} = Top(queue)

(* Every task of the top that neither executes nor is being switched in has *)
(* a CPU of its own about to begin a dispatch.                              *)
NoLostDispatch ==
    Cardinality({t \in Top(queue) : dispatched[t] = None})
        <= Cardinality({p \in CPUs : beginEvt[p].posted})

(* No dispatch is put off for longer than one context switch. *)
DispatchIsPrompt ==
    \A u \in PostedTimes : u <= now + ContextSwitchDelay + MigrationDelay

(* A context switch towards a task of the top is carried through: arrivals  *)
(* and evictions cancel only switches towards tasks that lost their place.  *)
TopSwitchIsKept ==
    [][\A p \in CPUs :
          endEvt[p].posted /\ endEvt[p].task # None
          /\ endEvt[p].task \in Top(queue')
          /\ run' = run
            => \/ endEvt'[p] = endEvt[p]
               \/ currExe'[p] = endEvt[p].task]_vars

-----------------------------------------------------------------------------
(* The kernel implements TaskPlacement.                                      *)

PlaceOf(t) ==
    CASE dispatched[t] = None /\ t \notin Ready(queue) -> <<"out">>
      [] dispatched[t] = None /\ t \in Ready(queue)    -> <<"waiting">>
      [] OTHER -> IF currExe[dispatched[t]] = t
                  THEN <<"running", dispatched[t]>>
                  ELSE <<"dispatched", dispatched[t]>>

Placement ==
    INSTANCE TaskPlacement WITH place <- [t \in Tasks |-> PlaceOf(t)]

(* A task starts executing only on the CPU it was dispatched to, loses a    *)
(* CPU only to wait again, leaves the queue only from a CPU, and no CPU is  *)
(* promised twice (MRTKernel's handlers taken together).                    *)
PlacementIsLegal == Placement!Spec
=============================================================================
