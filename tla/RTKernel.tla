------------------------------ MODULE RTKernel ------------------------------
(***************************************************************************)
(* A single-processor kernel (librtsim's RTKernel) with its tasks, their   *)
(* instructions and a first-come-first-served resource manager, on the     *)
(* exact event queue of libmetasim (see Agenda), over several runs of the  *)
(* simulation.  The only choices left are the random ones of the program:  *)
(* phases, interarrival times and execution times.                         *)
(*                                                                         *)
(* A handler is one action, except that an instruction which ends at once  *)
(* schedules the next one by a nested call: `call' then names the task     *)
(* and the handler goes on, before any other event, with Schedule.         *)
(***************************************************************************)
EXTENDS Agenda, SequencesExt, FiniteSetsExt

CONSTANTS
    TaskSeq,             (* the tasks, in the order they were created        *)
    Program,             (* the instructions of each task                    *)
    Phases,              (* the first arrivals a task may have               *)
    Periods,             (* interarrival times a task may draw               *)
    RelDeadline,         (* Task::_rdl                                       *)
    QueueSize,           (* Task::arrQueueSize                               *)
    KillOnMiss,          (* the tasks killed at a missed deadline            *)
    Policies,            (* the schedulers a run may have                    *)
    FixedPriority,       (* the priorities of FPScheduler                    *)
    Slice,               (* RRModel::_rrSlice, or 0 for none                 *)
    Resources, Units,    (* the resources and how many units of each         *)
    ContextSwitchDelay,
    EndTick,             (* no event is handled once this tick is reached    *)
    Runs,                (* how many runs the simulation has                 *)
    None                 (* the null pointer                                 *)

Tasks == ToSet(TaskSeq)

Undrawn == -1            (* the cost of an instruction that has not begun    *)

ASSUME TaskAssumption ==
    /\ TaskSeq \in Seq(Tasks)
    /\ None \notin Tasks
    /\ \A t \in Tasks :
          /\ Len(Program[t]) \in Nat \ {0}
          /\ DOMAIN Program[t] = 1..Len(Program[t])
          /\ \A i \in DOMAIN Program[t] :
                LET I == Program[t][i]
                IN  \/ I.op = "exec" /\ I.costs \subseteq Nat
                    \/ I.op = "suspend" /\ I.delay \in Nat
                    \/ /\ I.op \in {"wait", "signal"}
                       /\ I.res \in Resources /\ I.nr \in Nat \ {0}
          /\ Phases[t] \subseteq Nat /\ Periods[t] \subseteq Nat
          /\ RelDeadline[t] \in Nat /\ FixedPriority[t] \in Nat
          /\ Slice[t] \in Nat
          /\ QueueSize[t] \in Nat \cup {-1}

ASSUME KernelAssumption ==
    /\ Units \in [Resources -> Nat]
    /\ ContextSwitchDelay \in Nat /\ EndTick \in Nat
    /\ Runs \in Nat \ {0, 2}
    /\ Policies \subseteq {"EDF", "FP", "RR"}

VARIABLES
    now,                 (* Simulation::globTime                             *)
    run,                 (* Simulation::actRuns, from 1                      *)
    agenda,              (* the event queue                                  *)
    exc,                 (* what ended the program, or "none"                *)
    call,                (* the task whose instruction is being scheduled    *)
    policy,              (* the scheduler                                    *)
    phase,               (* Task::phase                                      *)
    urgent,              (* the events that were dropped while they had the  *)
                         (* immediate priority, which they therefore keep    *)
    queue,               (* Scheduler::_queue                                *)
    insertTime,          (* TaskModel::_insertTime                           *)
    currExe,             (* RTKernel::_currExe                               *)
    lastSched,           (* Task::_lastSched, which RRScheduler reads        *)
    state,               (* Task::state                                      *)
    actInstr,            (* Task::actInstr                                   *)
    arrival, dl,         (* Task::arrival and _dl                            *)
    arrQueue,            (* Task::arrQueue                                   *)
    cost, done, lastTime,(* ExecInstr::currentCost, actCycles and lastTime   *)
    waiting,             (* WaitInstr::_waiting                              *)
    available,           (* Resource::_available                             *)
    blocked              (* FCFSResManager::_blocked                         *)

kernelVars == <<queue, insertTime, currExe>>
jobVars    == <<actInstr, arrival, dl, arrQueue>>
instrVars  == <<cost, done, lastTime, waiting>>
resVars    == <<available, blocked>>
rrVars     == <<policy, lastSched>>
runVars    == <<run, phase, urgent>>
vars == <<now, agenda, exc, call, kernelVars, rrVars, runVars, state, jobVars,
          instrVars, resVars>>

Exceptions == {"none", "AlreadyPosted", "TaskNotActive", "TaskNotExecuting",
               "TaskAlreadyExecuting", "TaskAlreadyActive", "NoInstruction",
               "EmptyBuffer", "NullPointer"}

-----------------------------------------------------------------------------
(* Events and their priorities.                                              *)

Begin      == <<"beginDispatch", None>>
EndDisp    == <<"endDispatch", None>>
Round      == <<"RoundRobinRound", None>>
Arr(t)     == <<"arr", t>>
FakeArr(t) == <<"fakeArr", t>>
InstrEvt(t)== <<"instr", t>>
EndEvt(t)  == <<"end", t>>
Kill(t)    == <<"kill", t>>
Dead(t)    == <<"dead", t>>
Sched(t)   == <<"sched", t>>
Desched(t) == <<"desched", t>>
Susp(t)    == <<"susp", t>>
Resume(t)  == <<"resume", t>>

(* Event::_priority of an event that is not in the queue.  (fakeArr has 7   *)
(* until it is handled for the first time; as it is only posted together    *)
(* with a kill, which has 6 and drops it, 7 and 8 make no difference.)      *)
Priority(e) ==
    CASE e[1] \in {"sched", "desched", "susp"}     -> 0
      [] e[1] = "instr"                            -> 5
      [] e[1] \in {"end", "kill"}                  -> 6
      [] e[1] = "fakeArr"                          -> IF e \in urgent THEN 0 ELSE 8
      [] e[1] = "dead"                             -> IF e \in urgent THEN 0 ELSE 9
      [] e[1] \in {"beginDispatch", "endDispatch"} -> 18
      [] OTHER                                     -> 8

Post(q, e, at) == PostIn(q, Entry(e, at, Priority(e)))

(* The time of the step: that of the next event, or of the handler that     *)
(* schedules an instruction.                                                *)
Now == IF call = None THEN Head(agenda).at ELSE now

(* Event::process: the event moves to the front of what is to come. *)
Process(q, e) == PostIn(DropFrom(q, e), Entry(e, Now, 0))

RunOver == now >= EndTick

(* The next event is e. *)
Comes(e) ==
    /\ exc = "none" /\ call = None /\ ~RunOver
    /\ agenda # <<>>
    /\ Head(agenda).ev = e
    /\ now' = Now
    /\ UNCHANGED <<run, phase, policy>>

(* Event::action restores its priority and enters its handler; only         *)
(* onEndDispatch gives a task the CPU.                                      *)
Enters(e) == Comes(e) /\ urgent' = urgent \ {e}

Handles(e) == Enters(e) /\ UNCHANGED lastSched

Rest == Tail(agenda)

(* A handler that throws x; nothing is handled after it. *)
Throw(x) ==
    /\ exc' = x
    /\ UNCHANGED <<agenda, call, kernelVars, state, jobVars, instrVars,
                   resVars>>

(* A handler that does not throw, or only by posting e twice. *)
Goes == exc' = "none" /\ UNCHANGED call
GoesUnlessPosted(q, e) ==
    exc' = (IF IsPosted(q, e) THEN "AlreadyPosted" ELSE "none")

-----------------------------------------------------------------------------
(* The ready queue and the dispatcher.                                       *)

(* getPriority of the schedulers' models *)
Rank(t) ==
    CASE policy = "EDF" -> dl[t]
      [] policy = "FP"  -> FixedPriority[t]
      [] policy = "RR"  -> 1

Number(t) == CHOOSE i \in DOMAIN TaskSeq : TaskSeq[i] = t

(* TaskModelCmp the wrong way round. *)
Behind(t, u) ==
    \/ Rank(t) > Rank(u)
    \/ Rank(t) = Rank(u) /\ Number(t) < Number(u)

(* TaskModelCmp *)
Ahead(t, u) ==
    \/ Rank(t) < Rank(u)
    \/ Rank(t) = Rank(u) /\ insertTime[t] < insertTime[u]
    \/ /\ Rank(t) = Rank(u) /\ insertTime[t] = insertTime[u]
       /\ Number(t) < Number(u)

First ==
    IF queue = {} THEN None
    ELSE CHOOSE t \in queue : \A u \in queue \ {t} : Ahead(t, u)

(* Scheduler::insert *)
InsertAll(T) ==
    /\ queue' = queue \cup T
    /\ insertTime' = [t \in Tasks |-> IF t \in T THEN Now ELSE insertTime[t]]

(* A dispatch that never preempts. *)
DispatchingIfIdle(q) ==
    IF currExe = None THEN Post(DropFrom(q, Begin), Begin, Now) ELSE q

(* RTKernel::dispatch *)
Dispatching(q) == Post(DropFrom(q, Begin), Begin, Now)

(* A deschedule that only takes back schedEvt. *)
DescheduledSilently(q, t) == DropFrom(q, Sched(t))

(* Task::deschedule *)
Descheduled(q, t) == Process(DropFrom(q, Sched(t)), Desched(t))

(* RTKernel::suspend and onEnd: t leaves the queue and the CPU ... *)
LeavesKernel(t) ==
    /\ queue' = queue \ {t}
    /\ currExe' = IF currExe = t THEN None ELSE currExe
    /\ UNCHANGED insertTime

(* ... and suspend deschedules it. *)
Suspended(q, t) == IF currExe = t THEN Descheduled(q, t) ELSE q

(* RRScheduler::notify *)
Notified(q, t) ==
    LET r == DropFrom(q, Round)
    IN  IF policy # "RR" THEN q
        ELSE IF t = None THEN r
        ELSE IF Slice[t] = 0 THEN r ELSE Post(r, Round, Now + Slice[t])

(* RTKernel::onBeginDispatch *)
OnBeginDispatch ==
    /\ Handles(Begin)
    /\ LET q == IF currExe = None THEN Rest ELSE Descheduled(Rest, currExe)
       IN  CASE First = currExe ->
                  /\ agenda' = Notified(Rest, First)
                  /\ Goes /\ UNCHANGED currExe
             [] First = None /\ currExe # None ->
                  /\ agenda' = q /\ Goes /\ UNCHANGED currExe
             [] OTHER ->
                  /\ agenda' = Post(q, EndDisp, Now + ContextSwitchDelay)
                  /\ currExe' = First
                  /\ GoesUnlessPosted(q, EndDisp) /\ UNCHANGED call
    /\ UNCHANGED <<queue, insertTime, state, jobVars, instrVars, resVars>>

(* RTKernel::onEndDispatch *)
OnEndDispatch ==
    /\ Enters(EndDisp)
    /\ IF currExe = None
       THEN Throw("NullPointer") /\ UNCHANGED lastSched
       ELSE /\ agenda' = Notified(Process(Rest, Sched(currExe)), currExe)
            /\ lastSched' = IF policy = "RR"
                            THEN [lastSched EXCEPT ![currExe] = Now]
                            ELSE lastSched
            /\ Goes
            /\ UNCHANGED <<kernelVars, state, jobVars, instrVars, resVars>>

(* RRModel::isRoundExpired *)
IsRoundExpired(t) == Slice[t] > 0 /\ Now - lastSched[t] >= Slice[t]

(* The first of the queue, its round over, is inserted again; the variant   *)
(* inserts it where it was.                                                 *)
ReinsertedInPlace(t) == insertTime

Reinserted(t) ==
    IF IsRoundExpired(t) THEN [insertTime EXCEPT ![t] = Now] ELSE insertTime

(* RRScheduler::round; it reads the front of the queue without asking if    *)
(* there is one.  What the end of the library's empty set holds there is    *)
(* the number of its elements: a null pointer, with which it returns.       *)
OnRound ==
    /\ Handles(Round)
    /\ UNCHANGED <<call, queue, currExe, state, jobVars, instrVars, resVars>>
    /\ exc' = "none"
    /\ IF First = None THEN agenda' = Rest /\ UNCHANGED insertTime
       ELSE /\ insertTime' = Reinserted(First)
            /\ agenda' = Dispatching(
                  IF First' # First \/ IsRoundExpired(First)
                  THEN Notified(Rest, First') ELSE Rest)

-----------------------------------------------------------------------------
(* The life of a job.                                                        *)

(* Task::handleArrival of a job that arrived at arr; q is the agenda. *)
JobStarts(t, arr) ==
    /\ arrival' = [arrival EXCEPT ![t] = arr]
    /\ dl' = [dl EXCEPT ![t] = arr + RelDeadline[t]]
    /\ actInstr' = [actInstr EXCEPT ![t] = 1]
    /\ cost' = [cost EXCEPT ![t] = Undrawn]
    /\ done' = [done EXCEPT ![t] = 0]
    /\ lastTime' = [lastTime EXCEPT ![t] = 0]
    /\ state' = [state EXCEPT ![t] = "READY"]

(* The agenda q with the deadline d of the job that starts; the first       *)
(* variant does not check that it is still to come.                         *)
WithAnyDeadline(q, t, d) == Post(DropFrom(q, InstrEvt(t)), Dead(t), d)

WithDeadline(q, t, d) ==
    LET r == DropFrom(q, InstrEvt(t))
    IN  IF d >= Now THEN Post(r, Dead(t), d) ELSE r

(* Task::reactivate, with a reactivation that does not check its interval. *)
ReactivateAnyway(t, q) ==
    IF Periods[t] = {} THEN {q}
    ELSE {Post(q, Arr(t), Now + v) : v \in Periods[t]}

Reactivate(t, q) ==
    IF Periods[t] = {} THEN {q}
    ELSE {IF v > 0 THEN Post(q, Arr(t), Now + v) ELSE q : v \in Periods[t]}

(* Task::buffArrival *)
Buffered(t) ==
    IF Len(arrQueue[t]) <= QueueSize[t]
    THEN [arrQueue EXCEPT ![t] = Append(@, Now)]
    ELSE arrQueue

(* Task::onArrival *)
OnArrival(t) ==
    /\ Handles(Arr(t))
    /\ IF state[t] = "IDLE"
       THEN /\ JobStarts(t, Now)
            /\ InsertAll({t})
            /\ agenda' \in Reactivate(t,
                  Dispatching(WithDeadline(Rest, t, Now + RelDeadline[t])))
            /\ GoesUnlessPosted(Rest, Dead(t))
            /\ UNCHANGED <<call, currExe, arrQueue, waiting, resVars>>
       ELSE /\ arrQueue' = Buffered(t)
            /\ agenda' \in Reactivate(t, Process(Rest, Dead(t)))
            /\ Goes
            /\ UNCHANGED <<kernelVars, state, actInstr, arrival, dl,
                           instrVars, resVars>>

(* Task::getBuffArrival, and one that takes the latest. *)
GetLatestArrival(t) == Last(arrQueue[t])

GetBuffArrival(t) == Head(arrQueue[t])

(* Task::onFakeArrival *)
OnFakeArrival(t) ==
    LET arr == GetBuffArrival(t)
    IN
    /\ Handles(FakeArr(t))
    /\ CASE arrQueue[t] = <<>>   -> Throw("EmptyBuffer")
         [] state[t] # "IDLE"    -> Throw("TaskAlreadyActive")
         [] OTHER ->
              /\ JobStarts(t, arr)
              /\ arrQueue' = [arrQueue EXCEPT ![t] = Tail(@)]
              /\ InsertAll({t})
              /\ agenda' =
                    Dispatching(WithDeadline(Rest, t, arr + RelDeadline[t]))
              /\ GoesUnlessPosted(Rest, Dead(t))
              /\ UNCHANGED <<call, currExe, waiting, resVars>>

(* The deadline of a job that ends is dropped; the first variant forgets. *)
DeadlineStays(q, t) == q

DeadlineDropped(q, t) == DropFrom(q, Dead(t))

(* If there are buffered arrivals, the first is served; off by one first. *)
ServesBufferOfTwo(q, t) ==
    IF Len(arrQueue[t]) <= 1 THEN q ELSE Process(q, FakeArr(t))

ServesBuffer(q, t) ==
    IF arrQueue[t] = <<>> THEN q ELSE Process(q, FakeArr(t))

(* RTKernel::onEnd, and what Task::onEndInstance and onKill do around it. *)
JobEnds(t) ==
    /\ LeavesKernel(t)
    /\ state' = [state EXCEPT ![t] = "IDLE"]

(* Task::onEndInstance *)
OnEndInstance(t) ==
    /\ Handles(EndEvt(t))
    /\ CASE state[t] = "IDLE"  -> Throw("TaskNotActive")
         [] state[t] = "READY" -> Throw("TaskNotExecuting")
         [] OTHER ->
              /\ JobEnds(t)
              /\ actInstr' = [actInstr EXCEPT ![t] = 1]
              /\ agenda' =
                    ServesBuffer(Dispatching(DeadlineDropped(Rest, t)), t)
              /\ Goes
              /\ UNCHANGED <<arrival, dl, arrQueue, instrVars, resVars>>

(* DeadEvt::doit and, if the task is to be killed, Task::killInstance. *)
OnDeadline(t) ==
    LET q == IF arrQueue[t] = <<>> THEN Rest ELSE Post(Rest, FakeArr(t), Now)
        r == IF state[t] = "EXEC" THEN Descheduled(q, t) ELSE q
    IN  /\ Handles(Dead(t))
        /\ IF t \in KillOnMiss /\ state[t] # "IDLE"
           THEN agenda' = Post(r, Kill(t), Now) /\ GoesUnlessPosted(r, Kill(t))
           ELSE agenda' = Rest /\ exc' = "none"
        /\ UNCHANGED <<call, kernelVars, state, jobVars, instrVars, resVars>>

(* What Task::endRun drops, and a variant that leaves an event. *)
TaskEventsButFakeArr(t) ==
    {Arr(t), EndEvt(t), Sched(t), Desched(t), Dead(t), Kill(t)}

TaskEvents(t) ==
    {Arr(t), EndEvt(t), Sched(t), Desched(t), FakeArr(t), Dead(t), Kill(t)}

(* Task::onKill, with the endRun that follows it.  If there are buffered    *)
(* arrivals, fakeArrEvt is processed, and dropped by endRun before it is    *)
(* handled: it stays urgent.                                                *)
OnKill(t) ==
    /\ Comes(Kill(t)) /\ UNCHANGED lastSched
    /\ urgent' = IF arrQueue[t] = <<>> THEN urgent ELSE urgent \cup {FakeArr(t)}
    /\ JobEnds(t)
    /\ arrQueue' = [arrQueue EXCEPT ![t] = <<>>]
    /\ agenda' = DropAllFrom(Dispatching(Rest), TaskEvents(t))
    /\ Goes
    /\ UNCHANGED <<actInstr, arrival, dl, instrVars, resVars>>

-----------------------------------------------------------------------------
(* Instructions.                                                             *)

Instr(t) == Program[t][actInstr[t]]

(* Task::onInstrEnd; q is the agenda the handler has left so far. *)
InstrEnds(t, q) ==
    /\ state[t] # "IDLE"
    /\ actInstr' = [actInstr EXCEPT ![t] = @ + 1]
    /\ IF actInstr[t] = Len(Program[t])
       THEN /\ agenda' = Post(q, EndEvt(t), Now)
            /\ GoesUnlessPosted(q, EndEvt(t))
            /\ call' = None
       ELSE /\ agenda' = q
            /\ exc' = "none"
            /\ call' = IF state[t] = "EXEC" THEN t ELSE None

(* Task::onSched *)
OnSched(t) ==
    /\ Handles(Sched(t))
    /\ CASE state[t] = "IDLE"              -> Throw("TaskNotActive")
         [] state[t] = "EXEC"              -> Throw("TaskAlreadyExecuting")
         [] actInstr[t] > Len(Program[t])  -> Throw("NoInstruction")
         [] OTHER ->
              /\ agenda' = DropFrom(Rest, Desched(t))
              /\ state' = [state EXCEPT ![t] = "EXEC"]
              /\ call' = t
              /\ exc' = "none"
              /\ UNCHANGED <<kernelVars, jobVars, instrVars, resVars>>

(* ExecInstr::deschedule, and one that forgets the cycles executed. *)
StopWithoutCount(t) ==
    /\ lastTime' = [lastTime EXCEPT ![t] = Now]
    /\ UNCHANGED done

Stop(t) ==
    /\ lastTime' = [lastTime EXCEPT ![t] = Now]
    /\ done' = [done EXCEPT ![t] = @ + Now - lastTime[t]]

(* Task::onDesched *)
OnDesched(t) ==
    /\ Handles(Desched(t))
    /\ CASE state[t] = "IDLE"              -> Throw("TaskNotActive")
         [] state[t] = "READY"             -> Throw("TaskNotExecuting")
         [] actInstr[t] > Len(Program[t])  -> Throw("NoInstruction")
         [] OTHER ->
              /\ agenda' = DropFrom(DropFrom(Rest, EndEvt(t)), InstrEvt(t))
              /\ state' = [state EXCEPT ![t] = "READY"]
              /\ IF IsPosted(Rest, InstrEvt(t)) THEN Stop(t)
                                                ELSE UNCHANGED <<done, lastTime>>
              /\ Goes
              /\ UNCHANGED <<kernelVars, jobVars, cost, waiting, resVars>>

(* ExecInstr::onEnd *)
OnInstrEnd(t) ==
    /\ Handles(InstrEvt(t))
    /\ IF state[t] = "IDLE"
       THEN Throw("TaskNotActive")
       ELSE
          /\ InstrEnds(t, Rest)
          /\ cost' = [cost EXCEPT ![t] = Undrawn]
          /\ done' = [done EXCEPT ![t] = 0]
          /\ lastTime' = [lastTime EXCEPT ![t] = Now]
          /\ UNCHANGED <<kernelVars, state, arrival, dl, arrQueue, waiting,
                         resVars>>

(* SuspendInstr::onSuspend; RTKernel::suspend does not dispatch. *)
OnSuspend(t) ==
    LET q == Suspended(Rest, t)
    IN  /\ Handles(Susp(t))
        /\ LeavesKernel(t)
        /\ agenda' = Post(q, Resume(t), Now + Instr(t).delay)
        /\ GoesUnlessPosted(q, Resume(t)) /\ UNCHANGED call
        /\ UNCHANGED <<state, jobVars, instrVars, resVars>>

(* SuspendInstr::onEnd.  The task was descheduled when it suspended itself, *)
(* so onInstrEnd does not schedule its next instruction.                    *)
OnResume(t) ==
    /\ Handles(Resume(t))
    /\ state[t] # "EXEC"
    /\ IF state[t] = "IDLE"
       THEN Throw("TaskNotActive")
       ELSE
          /\ InstrEnds(t, Dispatching(Rest))
          /\ InsertAll({t})
          /\ UNCHANGED <<currExe, state, arrival, dl, arrQueue, instrVars,
                         resVars>>

(* ExecInstr::schedule, on a CPU of speed 1. *)
ScheduleExec(t) ==
    /\ Instr(t).op = "exec"
    /\ \E c \in IF cost[t] = Undrawn THEN Instr(t).costs ELSE {cost[t]} :
          LET left == IF c > done[t] THEN c - done[t] ELSE 0
          IN  /\ cost' = [cost EXCEPT ![t] = c]
              /\ agenda' = Post(agenda, InstrEvt(t), now + left)
    /\ GoesUnlessPosted(agenda, InstrEvt(t))
    /\ lastTime' = [lastTime EXCEPT ![t] = now]
    /\ call' = None
    /\ UNCHANGED <<kernelVars, jobVars, done, waiting, resVars>>

(* SuspendInstr::schedule *)
ScheduleSuspend(t) ==
    /\ Instr(t).op = "suspend"
    /\ agenda' = Process(agenda, Susp(t))
    /\ call' = None
    /\ UNCHANGED <<exc, kernelVars, jobVars, instrVars, resVars>>

(* FCFSResManager::request: granted, if there are enough units and no one   *)
(* waits for some.                                                          *)
EnoughUnits(I) == available[I.res] >= I.nr

Grantable(I) == blocked[I.res] = <<>> /\ EnoughUnits(I)

(* WaitInstr::schedule and AbsKernel::requestResource *)
ScheduleWait(t) ==
    LET I == Instr(t)
    IN  /\ I.op = "wait"
        /\ \/ /\ waiting[t]
              /\ waiting' = [waiting EXCEPT ![t] = FALSE]
              /\ InstrEnds(t, agenda)
              /\ UNCHANGED <<kernelVars, resVars>>
           \/ /\ ~waiting[t] /\ Grantable(I)
              /\ available' = [available EXCEPT ![I.res] = @ - I.nr]
              /\ InstrEnds(t, agenda)
              /\ UNCHANGED <<kernelVars, waiting, blocked>>
           \/ /\ ~waiting[t] /\ ~Grantable(I)
              /\ LeavesKernel(t)
              /\ blocked' = [blocked EXCEPT ![I.res] = Append(@, [task |-> t,
                                                                  nr |-> I.nr])]
              /\ agenda' = Dispatching(Suspended(agenda, t))
              /\ waiting' = [waiting EXCEPT ![t] = TRUE]
              /\ call' = None
              /\ UNCHANGED <<exc, actInstr, available>>
        /\ UNCHANGED <<arrival, dl, arrQueue, cost, done, lastTime>>

(* What the first k tasks of b wait for. *)
Demand(b, k) ==
    LET sum[j \in 0..Len(b)] == IF j = 0 THEN 0 ELSE sum[j - 1] + b[j].nr
    IN  sum[k]

(* How many of those that wait, b, n units satisfy: in order, and only one, *)
(* or in order.                                                             *)
ServesOne(b, n) == IF b # <<>> /\ b[1].nr <= n THEN 1 ELSE 0

Serves(b, n) == CHOOSE k \in 0..Len(b) :
                    /\ Demand(b, k) <= n
                    /\ k < Len(b) => Demand(b, k + 1) > n

(* FCFSResManager::release of n units, of which nr are locked again for the *)
(* first k who wait.                                                        *)
ReleaseTo(r, n, k, nr) ==
    /\ blocked' = [blocked EXCEPT ![r] = SubSeq(@, k + 1, Len(@))]
    /\ available' = [available EXCEPT ![r] = @ + n - nr]
    /\ InsertAll({blocked[r][i].task : i \in 1..k})

(* A release that does not wake. *)
ReleaseSilently(r, n) ==
    LET k == Serves(blocked[r], available[r] + n)
    IN  /\ blocked' = [blocked EXCEPT ![r] = SubSeq(@, k + 1, Len(@))]
        /\ available' = [available EXCEPT ![r] = @ + n - Demand(blocked[r], k)]
        /\ UNCHANGED <<queue, insertTime>>

Release(r, n) ==
    LET k == Serves(blocked[r], available[r] + n)
    IN  ReleaseTo(r, n, k, Demand(blocked[r], k))

(* SignalInstr::schedule and AbsKernel::releaseResource *)
ScheduleSignal(t) ==
    /\ Instr(t).op = "signal"
    /\ Release(Instr(t).res, Instr(t).nr)
    /\ InstrEnds(t, Dispatching(agenda))
    /\ UNCHANGED <<currExe, arrival, dl, arrQueue, instrVars>>

Schedule(t) ==
    /\ exc = "none"
    /\ call = t
    /\ UNCHANGED <<now, state, rrVars, runVars>>
    /\ \/ ScheduleExec(t)
       \/ ScheduleSuspend(t)
       \/ ScheduleWait(t)
       \/ ScheduleSignal(t)

-----------------------------------------------------------------------------
(* Task::newRun: every task that has interarrival times posts its arrival,  *)
(* in the order of the tasks.                                               *)
FirstArrivals(at) ==
    LET Arriving   == {t \in Tasks : Periods[t] # {}}
        Earlier(t) == {u \in Arriving :
                          \/ at[u] < at[t]
                          \/ at[u] = at[t] /\ Number(u) < Number(t)}
        Nth(n)     == CHOOSE t \in Arriving : Cardinality(Earlier(t)) + 1 = n
    IN  [n \in 1..Cardinality(Arriving) |->
            Entry(Arr(Nth(n)), at[Nth(n)], Priority(Arr(Nth(n))))]

Init ==
    /\ run = 1
    /\ now = 0
    /\ phase \in [Tasks -> UNION {Phases[t] : t \in Tasks}]
    /\ \A t \in Tasks : phase[t] \in Phases[t]
    /\ urgent = {}
    /\ agenda = FirstArrivals(phase)
    /\ arrival = phase
    /\ exc = "none"
    /\ call = None
    /\ queue = {}
    /\ insertTime = [t \in Tasks |-> 0]
    /\ currExe = None
    /\ policy \in Policies
    /\ lastSched = [t \in Tasks |-> 0]
    /\ state = [t \in Tasks |-> "IDLE"]
    /\ actInstr = [t \in Tasks |-> 1]
    /\ dl = [t \in Tasks |-> 0]
    /\ arrQueue = [t \in Tasks |-> <<>>]
    /\ cost = [t \in Tasks |-> Undrawn]
    /\ done = [t \in Tasks |-> 0]
    /\ lastTime = [t \in Tasks |-> 0]
    /\ waiting = [t \in Tasks |-> FALSE]
    /\ available = Units
    /\ blocked = [r \in Resources |-> <<>>]

(* A run is over in time or for want of events. *)
RunIsOver == call = None /\ (RunOver \/ agenda = <<>>)

(* What the endRun and newRun of tasks, instructions and resources reset ...*)
ResetTasks ==
    /\ arrival' = phase
    /\ state' = [t \in Tasks |-> "IDLE"]
    /\ actInstr' = [t \in Tasks |-> 1]
    /\ dl' = [t \in Tasks |-> 0]
    /\ arrQueue' = [t \in Tasks |-> <<>>]
    /\ cost' = [t \in Tasks |-> Undrawn]
    /\ done' = [t \in Tasks |-> 0]
    /\ lastTime' = [t \in Tasks |-> 0]
    /\ waiting' = [t \in Tasks |-> FALSE]

(* ... with resources that do not get back the units of unfinished jobs. *)
ResetBlocked ==
    /\ blocked' = [r \in Resources |-> <<>>]
    /\ UNCHANGED available

ResetResources ==
    /\ available' = Units
    /\ blocked' = [r \in Resources |-> <<>>]

(* Event::process gives an event the immediate priority, which stays if the *)
(* event is dropped before it is handled, as all are at the end of a run.   *)
(* It makes a difference to those that are also posted with another.        *)
MayStayUrgent == {Dead(t) : t \in Tasks} \cup {FakeArr(t) : t \in Tasks}

LeftUrgent ==
    {e \in MayStayUrgent :
        \E i \in DOMAIN agenda : agenda[i].ev = e /\ agenda[i].prio = 0}

(* Simulation::endSingleRun and initSingleRun.  _lastSched stays; so does   *)
(* _insertTime, which nobody reads before it is set again.                  *)
NewRun ==
    /\ exc = "none" /\ RunIsOver /\ run < Runs
    /\ run' = run + 1
    /\ now' = 0
    /\ agenda' = FirstArrivals(phase)
    /\ urgent' = urgent \cup LeftUrgent
    /\ queue' = {}
    /\ currExe' = None
    /\ insertTime' = [t \in Tasks |-> 0]
    /\ ResetTasks
    /\ ResetResources
    /\ UNCHANGED <<exc, call, policy, phase, lastSched>>

(* The last run is over, or the program ended with an exception. *)
Over ==
    /\ exc # "none" \/ (RunIsOver /\ run = Runs)
    /\ UNCHANGED vars

Steps ==
    \/ OnBeginDispatch \/ OnEndDispatch \/ OnRound \/ NewRun
    \/ \E t \in Tasks :
          \/ OnArrival(t) \/ OnFakeArrival(t) \/ OnEndInstance(t)
          \/ OnDeadline(t) \/ OnKill(t) \/ OnSched(t) \/ OnDesched(t)
          \/ OnInstrEnd(t) \/ OnSuspend(t) \/ OnResume(t) \/ Schedule(t)

Next == Steps \/ Over

(* The loop of Simulation::run goes on as long as it can. *)
Spec == Init /\ [][Next]_vars /\ WF_vars(Steps)

-----------------------------------------------------------------------------
TypeOK ==
    /\ now \in Nat
    /\ \A i \in DOMAIN agenda : agenda[i].at >= now
    /\ exc \in Exceptions
    /\ call \in Tasks \cup {None}
    /\ queue \subseteq Tasks
    /\ insertTime \in [Tasks -> Nat]
    /\ currExe \in Tasks \cup {None}
    /\ run \in 1..Runs /\ urgent \subseteq MayStayUrgent
    /\ policy \in Policies /\ lastSched \in [Tasks -> Nat]
    /\ state \in [Tasks -> {"IDLE", "READY", "EXEC"}]
    /\ actInstr \in [Tasks -> Nat]
    /\ \A t \in Tasks : actInstr[t] \in 1..Len(Program[t]) + 1
    /\ arrival \in [Tasks -> Nat] /\ dl \in [Tasks -> Nat]
    /\ arrQueue \in [Tasks -> Seq(Nat)]
    /\ cost \in [Tasks -> Nat \cup {Undrawn}]
    /\ done \in [Tasks -> Nat] /\ lastTime \in [Tasks -> Nat]
    /\ waiting \in [Tasks -> BOOLEAN]
    /\ available \in [Resources -> Nat]
    /\ blocked \in [Resources -> Seq([task : Tasks, nr : Nat])]

(* No handler throws, posts an event twice or follows a null pointer.       *)
NoException == exc = "none"

(* The one exception of sound task sets (RTKernel_proofs): a fakeArr event  *)
(* that an earlier run left urgent, posted together with a kill, comes      *)
(* before it and finds the task active.                                     *)
OnlyStaleFakeArrThrows ==
    exc # "none" =>
        /\ exc = "TaskAlreadyActive" /\ run > 1
        /\ \E t \in KillOnMiss :
              /\ QueueSize[t] >= 0 /\ state[t] # "IDLE"
              /\ Head(agenda) = Entry(FakeArr(t), now, 0)
              /\ IsPosted(agenda, Kill(t))

Settled == call = None /\ ~IsPosted(agenda, Begin) /\ ~IsPosted(agenda, EndDisp)

(* kernel.hpp on dispatch(): "Compares _currExe with the first task in the  *)
(* ready queue. If they are different, it forces a context switch": while   *)
(* no dispatch is due, the first task of the queue has the CPU.             *)
FirstRuns == Settled => currExe = First

(* The same in time: the CPU does not idle while a task is ready.           *)
NoIdleWhileReady ==
    Settled /\ agenda # <<>> /\ Head(agenda).at > now /\ queue # {}
        => currExe # None

BlockedOn(t) == {r \in Resources :
                    \E i \in DOMAIN blocked[r] : blocked[r][i].task = t}

(* No wake-up is lost: a job that is not in the ready queue waits for       *)
(* exactly one resource, or its suspension is about to begin or to end.     *)
NoLostTask ==
    exc = "none" /\ call = None =>
        \A t \in Tasks :
            state[t] # "IDLE" /\ t \notin queue =>
                \/ Cardinality(BlockedOn(t)) = 1 /\ waiting[t]
                \/ BlockedOn(t) = {} /\ IsPosted(agenda, Resume(t))

(* Whoever believes to execute has the CPU and is timed: it has an          *)
(* instruction in execution, or has just come to the end of one.            *)
ExecutingIsTimed ==
    exc = "none" /\ call = None =>
        \A t \in Tasks : state[t] = "EXEC" =>
            \/ IsPosted(agenda, Desched(t))
            \/ /\ currExe = t
               /\ \/ IsPosted(agenda, InstrEvt(t))
                  \/ IsPosted(agenda, EndEvt(t))
                  \/ IsPosted(agenda, Susp(t))

(* A job that was completed or killed leaves neither the queue, nor the     *)
(* CPU, nor an event of its own behind it.                                  *)
IdleLeavesNothing ==
    exc = "none" =>
        \A t \in Tasks : state[t] = "IDLE" =>
            /\ t \notin queue /\ currExe # t /\ BlockedOn(t) = {}
            /\ ~\E k \in {"instr", "end", "sched", "desched", "susp",
                          "resume", "dead", "kill"} :
                    IsPosted(agenda, <<k, t>>)

(* A buffered arrival is not forgotten: as soon as the task is idle, the    *)
(* arrival is about to be served.                                           *)
BufferedIsServed ==
    \A t \in Tasks :
        state[t] = "IDLE" /\ arrQueue[t] # <<>> => IsPosted(agenda, FakeArr(t))

(* Jobs are served in the order of their arrivals, and none before it       *)
(* arrived.                                                                 *)
JobsInOrder ==
    \A t \in Tasks :
        LET a == IF state[t] = "IDLE" THEN arrQueue[t]
                 ELSE <<arrival[t]>> \o arrQueue[t]
        IN  \A i \in DOMAIN a : a[i] <= now /\ \A j \in 1..i-1 : a[j] < a[i]

(* Round robin lets nobody wait for long: each of the others has its slice   *)
(* once before a task that is ready gets the CPU, though onBeginDispatch     *)
(* starts the slice of the task it leaves on the CPU again whenever another  *)
(* one arrives, which each of them does at most once in that time.           *)
BoundedWait ==
    policy = "RR" /\ (\A t \in Tasks : Slice[t] > 0) =>
        \A t \in queue \ {currExe} :
            now - insertTime[t] <=
                SumFunctionOnSet(Slice, Tasks \ {t})
                + (Max(Range(Slice)) - 1) * (Cardinality(Tasks) - 1)

(* No job is still active after its deadline.  With EDF, deadlines equal to *)
(* the least interarrival times and a utilisation of at most one, no        *)
(* deadline is missed (the theorem of Liu and Layland).                     *)
NoMiss == \A t \in Tasks : state[t] # "IDLE" => now <= dl[t]

-----------------------------------------------------------------------------
(* Resources.                                                                *)

Delta(I, r) ==
    CASE I.op = "wait" /\ I.res = r   -> I.nr
      [] I.op = "signal" /\ I.res = r -> -I.nr
      [] OTHER                        -> 0

(* The units of r that t holds, by its place in its program: a task that    *)
(* was refused holds what it asked for once it is taken off the list.       *)
Held(t, r) ==
    IF state[t] = "IDLE" THEN 0
    ELSE SumFunctionOnSet([i \in DOMAIN Program[t] |-> Delta(Program[t][i], r)],
                          1..(actInstr[t] - 1))
         + IF waiting[t] /\ BlockedOn(t) = {} THEN Delta(Instr(t), r) ELSE 0

(* In programs that release all they take, units are neither lost nor made. *)
UnitsAreConserved ==
    exc = "none" =>
        \A r \in Resources :
            available[r] + SumFunctionOnSet([t \in Tasks |-> Held(t, r)], Tasks)
                = Units[r]

(* No units lie idle that the first of those who wait could have.           *)
NoIdleUnits ==
    \A r \in Resources :
        blocked[r] # <<>> => available[r] < blocked[r][1].nr

(* First come, first served: while t waits for units of r, no task gets any *)
(* of them but those that asked before t did.                               *)
NotOvertaken ==
    [][\A r \in Resources : \A i \in DOMAIN blocked[r] : \A u \in Tasks :
          Held(u, r)' > Held(u, r) /\ (\E j \in DOMAIN blocked'[r] :
                                          blocked'[r][j] = blocked[r][i])
              => \E j \in 1..i-1 : blocked[r][j].task = u]_vars

(* The simulation ends: no instant of any run goes on for ever.             *)
RunEnds == <>(exc # "none" \/ (RunIsOver /\ run = Runs))

-----------------------------------------------------------------------------
(* The kernel implements FluidCPU when programs only execute, for costs     *)
(* that are known in advance.                                               *)

WCET(I) == IF I.op = "exec" THEN Max(I.costs) ELSE 0

(* What is left of the instruction at hand. *)
LeftOfInstr(t) ==
    IF cost[t] = Undrawn THEN WCET(Instr(t))
    ELSE cost[t] - done[t]
         - IF IsPosted(agenda, InstrEvt(t)) THEN now - lastTime[t] ELSE 0

Work(t) ==
    IF state[t] = "IDLE" \/ actInstr[t] > Len(Program[t]) THEN 0
    ELSE LeftOfInstr(t)
         + SumFunctionOnSet([i \in DOMAIN Program[t] |-> WCET(Program[t][i])],
                            actInstr[t] + 1 .. Len(Program[t]))

CPU == INSTANCE FluidCPU WITH
    clock <- now,
    work <- [t \in Tasks |-> Work(t)],
    rank <- [t \in Tasks |-> Rank(t)]

(* Every job gets exactly its execution time, by rank, however often it is  *)
(* preempted, and the CPU is never idle while there is work.                *)
ServesByRank == CPU!Spec
============================================================================
