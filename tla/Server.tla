------------------------------- MODULE Server -------------------------------
(***************************************************************************)
(* Servers between an RTKernel and the tasks they serve: for the kernel a  *)
(* server is a task, for its tasks it is a kernel.  The common state       *)
(* machine of librtsim's Server is here, with the handlers of its events   *)
(* and of those of the kernel and the tasks; the transitions it leaves to  *)
(* its subclasses are in CBServer, PollingServer, SporadicServer and Grub. *)
(* Every handler is one action, on the event queue of Agenda.              *)
(***************************************************************************)
EXTENDS ServerWorld, FiniteSetsExt

CONSTANTS
    Program,           (* the instructions of each task: exec and suspend    *)
    Phases,            (* the first arrivals a task may have                 *)
    Periods,           (* the interarrival times it may draw                 *)
    RelDeadline,       (* Task::_rdl                                         *)
    Kinds,             (* the classes a server may be of                     *)
    ChangesAt,         (* when changeBudget may be called for each server    *)
    NewBudgets,        (* and with what                                      *)
    EndTick            (* no event is handled once this tick is reached      *)

Undrawn == -1          (* the cost of an instruction that has not begun      *)
Never   == -1          (* the time of an event that was never posted         *)

Instructions == [op: {"exec"}, costs: SUBSET Nat] \cup [op: {"suspend"}, delay: Nat]

ASSUME TaskAssumption ==
    /\ Phases \in [Tasks -> SUBSET Nat]
    /\ \A t \in Tasks :
          /\ Program[t] \in Seq(Instructions) /\ Program[t] # <<>>
          /\ Periods[t] \subseteq Nat \ {0} /\ RelDeadline[t] \in Nat

(* The classes of servers. *)
Classes == {"hardCBS", "softCBS", "reuseCBS", "polling", "sporadic", "grub"}

ASSUME KindAssumption == Kinds \in [Servers -> SUBSET Classes]

ASSUME ChangeAssumption ==
    /\ ChangesAt \in [Servers -> SUBSET (Nat \cup {Never})]
    /\ \A s \in Servers : NewBudgets[s] \subseteq Int

(* The bandwidth of a GRUB server is an integer of 1/UUnit. *)
ASSUME UnitAssumption ==
    \A s \in Servers : "grub" \in Kinds[s] => (Q[s] * UUnit) % P[s] = 0

(* The rates that follow from new budgets and from the bandwidth in use are *)
(* integers of 1/VUnit.                                                     *)
ASSUME NewRateAssumption ==
    \A s \in Servers :
        /\ \A n \in NewBudgets[s] : n > 0 => (P[s] * VUnit) % n = 0
        /\ "grub" \in Kinds[s] => VUnit % ((Q[s] * UUnit) \div P[s]) = 0

VARIABLES
    now, agenda, exc,
    queue,             (* the ready queue of each kernel: Scheduler::_queue  *)
    insertTime,        (* TaskModel::_insertTime                             *)
    currExe,           (* RTKernel::_currExe and Server::currExe_            *)
    sv,                (* the servers' own state, see ServerWorld            *)
    tk,                (* the tasks': state, actInstr, cost, done, last,     *)
                       (* arrival, dl, arrQueue, and the times endAt and     *)
                       (* arrAt their end and arrival events were posted for *)
    sup                (* GrubSupervisor: active and residual                *)

vars == <<now, agenda, exc, queue, insertTime, currExe, sv, tk, sup>>

CBS  == INSTANCE CBServer
PS   == INSTANCE PollingServer
SS   == INSTANCE SporadicServer
GRUB == INSTANCE Grub

-----------------------------------------------------------------------------
(* The virtual methods.                                                      *)

Kind(w, s)  == w.sv[s].kind
IsCBS(w, s) == Kind(w, s) \in {"hardCBS", "softCBS", "reuseCBS"}

IdleReady(w, s) ==
    CASE IsCBS(w, s)              -> CBS!IdleReady(w, s)
      [] Kind(w, s) = "polling"   -> PS!IdleReady(w, s)
      [] Kind(w, s) = "sporadic"  -> SS!IdleReady(w, s)
      [] Kind(w, s) = "grub"      -> GRUB!IdleReady(w, s)

ReleasingReady(w, s) ==
    CASE IsCBS(w, s)              -> CBS!ReleasingReady(w, s)
      [] Kind(w, s) = "polling"   -> PS!ReleasingReady(w, s)
      [] Kind(w, s) = "sporadic"  -> SS!ReleasingReady(w, s)
      [] Kind(w, s) = "grub"      -> GRUB!ReleasingReady(w, s)

ReadyExecuting(w, s) ==
    CASE IsCBS(w, s)              -> CBS!ReadyExecuting(w, s)
      [] Kind(w, s) = "polling"   -> PS!ReadyExecuting(w, s)
      [] Kind(w, s) = "sporadic"  -> SS!ReadyExecuting(w, s)
      [] Kind(w, s) = "grub"      -> GRUB!ReadyExecuting(w, s)

ExecutingReady(w, s) ==
    CASE IsCBS(w, s)              -> CBS!ExecutingReady(w, s)
      [] Kind(w, s) = "polling"   -> PS!ExecutingReady(w, s)
      [] Kind(w, s) = "sporadic"  -> SS!ExecutingReady(w, s)
      [] Kind(w, s) = "grub"      -> GRUB!ExecutingReady(w, s)

ExecutingReleasing(w, s) ==
    CASE IsCBS(w, s)              -> CBS!ExecutingReleasing(w, s)
      [] Kind(w, s) = "polling"   -> PS!ExecutingReleasing(w, s)
      [] Kind(w, s) = "sporadic"  -> SS!ExecutingReleasing(w, s)
      [] Kind(w, s) = "grub"      -> GRUB!ExecutingReleasing(w, s)

ExecutingRecharging(w, s) ==
    CASE IsCBS(w, s)              -> CBS!ExecutingRecharging(w, s)
      [] Kind(w, s) = "polling"   -> PS!ExecutingRecharging(w, s)
      [] Kind(w, s) = "sporadic"  -> SS!ExecutingRecharging(w, s)
      [] Kind(w, s) = "grub"      -> GRUB!ExecutingRecharging(w, s)

RechargingReady(w, s) ==
    CASE Kind(w, s) = "polling"   -> PS!RechargingReady(w, s)
      [] Kind(w, s) = "grub"      -> GRUB!RechargingReady(w, s)

RechargingIdle(w, s) ==
    CASE Kind(w, s) = "polling"   -> PS!RechargingIdle(w, s)
      [] Kind(w, s) = "grub"      -> GRUB!RechargingIdle(w, s)

-----------------------------------------------------------------------------
(* A server as the kernel of its tasks.                                      *)

(* Server::dispatch *)
ServerDispatch(w, s) == Post(Drop(w, Dispatch(s)), Dispatch(s), w.now)

(* Server::onArrival of the task t *)
ServerOnArrival(w, s, t) ==
    LET w1 == Insert(w, s, t)
    IN  CASE w.sv[s].status = "EXECUTING" -> ServerDispatch(w1, s)
          [] w.sv[s].status = "IDLE"      -> KernelOnArrival(IdleReady(w1, s), s)
          [] w.sv[s].status = "RELEASING" ->
                KernelOnArrival(ReleasingReady(w1, s), s)
          [] OTHER                        -> w1

(* Server::suspend *)
ServerSuspend(w, s, t) ==
    LET w1 == Deschedule(Extract(w, s, t), t)
    IN  IF w.sv[s].status # "EXECUTING" THEN Throw(w, "NotExecuting")
        ELSE ServerDispatch(SetExe(w1, s, None), s)

(* Server::onEnd *)
ServerOnEnd(w, s, t) ==
    IF w.sv[s].status # "EXECUTING" THEN Throw(w, "NotExecuting")
    ELSE ServerDispatch(SetExe(Extract(w, s, t), s, None), s)

(* taskIsActive of server.cpp *)
TaskIsActive(w, t) ==
    /\ w.tk[t].endAt # w.now
    /\ ~(w.tk[t].arrAt > w.now /\ w.tk[t].state = "IDLE")

(* CBServer::isEmpty: of all its tasks, whatever its queue holds. *)
IsEmpty(w, s) == \A t \in Tasks : Home[t] = s => ~TaskIsActive(w, t)

(* onEnd, onArrival and suspend of whatever kernel a task has. *)
HomeOnArrival(w, t) ==
    IF Home[t] = Kernel THEN KernelOnArrival(w, t)
                        ELSE ServerOnArrival(w, Home[t], t)

HomeOnEnd(w, t) ==
    IF Home[t] = Kernel THEN KernelOnEnd(w, t) ELSE ServerOnEnd(w, Home[t], t)

HomeSuspend(w, t) ==
    IF Home[t] = Kernel THEN KernelSuspend(w, t)
                        ELSE ServerSuspend(w, Home[t], t)

-----------------------------------------------------------------------------
(* Handlers.                                                                 *)

RunOver == now >= EndTick

(* The world in which the handler of e, the next event, starts. *)
Handles(e) ==
    /\ exc = "none" /\ ~RunOver
    /\ agenda # <<>>
    /\ Head(agenda).ev = e
    /\ now' = Head(agenda).at

World ==
    [now |-> Head(agenda).at, q |-> Tail(agenda), exc |-> "none",
     queue |-> queue, insertTime |-> insertTime, currExe |-> currExe,
     sv |-> sv, tk |-> tk, sup |-> sup]

(* The handler leaves the world w. *)
Becomes(w) ==
    /\ agenda' = w.q /\ exc' = w.exc
    /\ queue' = w.queue /\ insertTime' = w.insertTime /\ currExe' = w.currExe
    /\ sv' = w.sv /\ tk' = w.tk /\ sup' = w.sup

(* RTKernel::onBeginDispatch *)
OnBeginDispatch ==
    LET w == World
        c == currExe[Kernel]
        n == First(w, Kernel)
        d == IF c = None THEN w ELSE Deschedule(w, c)
    IN  /\ Handles(Begin)
        /\ Becomes(CASE n = c    -> w
                     [] n = None -> d
                     [] OTHER    -> Post(SetExe(d, Kernel, n), EndDisp, w.now))

(* RTKernel::onEndDispatch *)
OnEndDispatch ==
    LET c == currExe[Kernel]
    IN  /\ Handles(EndDisp)
        /\ Becomes(IF c = None THEN Throw(World, "NullPointer")
                               ELSE Schedule(World, c))

(* Server::onSched *)
OnServerSched(s) ==
    LET w == World
    IN  /\ Handles(Sched(s))
        /\ Becomes(IF sv[s].status # "READY" THEN Throw(w, "NotReady")
                   ELSE ServerDispatch(ReadyExecuting(w, s), s))

(* Server::onDesched; a CBServer that takes itself for empty only yields.   *)
StopsTask(w, s) ==
    LET w1 == ExecutingReady(w, s)
    IN  IF w.sv[s].status # "EXECUTING" THEN w
        ELSE IF w.currExe[s] = None THEN Throw(w, "NullPointer")
        ELSE SetExe(Deschedule(w1, w.currExe[s]), s, None)

OnServerDesched(s) ==
    LET w == World
    IN  /\ Handles(Desched(s))
        /\ Becomes(IF IsCBS(w, s) /\ IsEmpty(w, s) THEN w ELSE StopsTask(w, s))

(* Server::onDispatch: the first of the server's queue gets its time ... *)
SwitchTasks(w, s) ==
    LET c  == w.currExe[s]
        n  == First(w, s)
        w1 == IF c = None THEN w ELSE Deschedule(w, c)
        w2 == SetExe(w1, s, n)
    IN  IF n = c THEN w ELSE IF n = None THEN w2 ELSE Schedule(w2, n)

(* ... and without any the server leaves the CPU. *)
OnServerDispatch(s) ==
    LET w  == World
        w1 == SwitchTasks(w, s)
    IN  /\ Handles(Dispatch(s))
        /\ Becomes(IF sv[s].status # "EXECUTING" THEN Throw(w, "NotExecuting")
                   ELSE IF w1.currExe[s] # None THEN w1
                   ELSE KernelDispatch(KernelSuspend(ExecutingReleasing(w1, s), s)))

(* Server::onBudgetExhausted *)
Exhausted(w, s) ==
    LET c  == w.currExe[s]
        w1 == Drop(w, Dispatch(s))
        w2 == IF c = None THEN w1 ELSE SetExe(Deschedule(w1, c), s, None)
        w3 == ExecutingRecharging(KernelDispatch(KernelSuspend(w2, s)), s)
    IN  IF w3.sv[s].status = "READY" THEN KernelOnArrival(w3, s) ELSE w3

OnBudgetExhausted(s) ==
    /\ Handles(BandEx(s))
    /\ Becomes(IF sv[s].status # "EXECUTING" THEN Throw(World, "NotExecuting")
                                             ELSE Exhausted(World, s))

(* Server::onRecharging *)
OnRecharging(s) ==
    LET w == World
    IN  /\ Handles(Recharge(s))
        /\ Becomes(IF sv[s].status # "RECHARGING" THEN Throw(w, "NotRecharging")
                   ELSE IF First(w, s) # None
                   THEN KernelOnArrival(RechargingReady(w, s), s)
                   ELSE SetExe(RechargingIdle(w, s), s, None))

OnReplenishment(s) ==
    /\ Handles(Repl(s))
    /\ Becomes(IF IsCBS(World, s) THEN CBS!OnReplenishment(World, s)
                                  ELSE SS!OnReplenishment(World, s))

OnIdle(s) ==
    \/ Handles(CBSIdle(s)) /\ Becomes(CBS!OnIdle(World, s))
    \/ /\ Handles(Idle(s))
       /\ Becomes(IF Kind(World, s) = "grub" THEN GRUB!OnIdle(World, s)
                                             ELSE SS!OnIdle(World, s))

(* A call of changeBudget by one of the programs that adapt budgets.        *)
OnChangeBudget(s) ==
    LET w == World
    IN  /\ Handles(ChangeEvt(s))
        /\ \E n \in NewBudgets[s] :
              Becomes(CASE IsCBS(w, s)            -> CBS!ChangeBudget(w, s, n)
                        [] Kind(w, s) = "polling"  -> PS!ChangeBudget(w, s, n)
                        [] Kind(w, s) = "sporadic" -> SS!ChangeBudget(w, s, n)
                        [] Kind(w, s) = "grub"     -> Throw(w, "NothingToDo"))

-----------------------------------------------------------------------------
(* The tasks.                                                                *)

Instr(w, t) == Program[t][w.tk[t].actInstr]

(* Task::handleArrival of a job that arrived at a; deadline events, which   *)
(* only statistics and killOnMiss use, are left out.                        *)
JobStarts(w, t, a) ==
    [w EXCEPT !.tk[t] = [@ EXCEPT !.state = "READY", !.actInstr = 1,
                             !.cost = Undrawn, !.done = 0, !.last = 0,
                             !.arrival = a, !.dl = a + RelDeadline[t]]]

(* Task::onArrival and reactivate *)
OnArrival(t) ==
    LET w  == World
        w1 == IF tk[t].state = "IDLE"
              THEN HomeOnArrival(JobStarts(w, t, w.now), t)
              ELSE [w EXCEPT !.tk[t].arrQueue = Append(@, w.now)]
    IN  /\ Handles(Arr(t))
        /\ IF Periods[t] = {} THEN Becomes(w1)
           ELSE \E v \in Periods[t] :
                   Becomes(Post([w1 EXCEPT !.tk[t].arrAt = w.now + v],
                                Arr(t), w.now + v))

(* Task::onFakeArrival *)
OnFakeArrival(t) ==
    LET b  == tk[t].arrQueue
        w1 == [World EXCEPT !.tk[t].arrQueue = Tail(b)]
    IN  /\ Handles(FakeArr(t))
        /\ Becomes(IF tk[t].state # "IDLE" \/ b = <<>>
                   THEN Throw(World, "TaskAlreadyActive")
                   ELSE HomeOnArrival(JobStarts(w1, t, b[1]), t))

(* Task::onEndInstance *)
OnEndInstance(t) ==
    LET w  == World
        w1 == [HomeOnEnd([w EXCEPT !.tk[t].actInstr = 1], t) EXCEPT
                   !.tk[t].state = "IDLE"]
    IN  /\ Handles(EndEvt(t))
        /\ Becomes(IF tk[t].state # "EXEC" THEN Throw(w, "TaskNotExecuting")
                   ELSE IF tk[t].arrQueue = <<>> THEN w1
                   ELSE Process(w1, FakeArr(t)))

(* The instruction at hand is scheduled, and costs c if it executes.        *)
Runs(w, t, c) ==
    LET k == w.tk[t]
    IN  IF Instr(w, t).op = "suspend" THEN Process(w, Susp(t))
        ELSE Post([w EXCEPT !.tk[t].cost = c, !.tk[t].last = w.now],
                  InstrEvt(t), w.now + (IF c > k.done THEN c - k.done ELSE 0))

(* What it may cost: drawn when it is first scheduled. *)
Costs(w, t) ==
    IF w.tk[t].cost # Undrawn THEN {w.tk[t].cost}
    ELSE IF Instr(w, t).op = "suspend" THEN {Undrawn} ELSE Instr(w, t).costs

(* Task::onSched *)
OnTaskSched(t) ==
    LET w  == World
        w1 == Drop([w EXCEPT !.tk[t].state = "EXEC"], Desched(t))
    IN  /\ Handles(Sched(t))
        /\ IF tk[t].state # "READY" THEN Becomes(Throw(w, "TaskNotReady"))
           ELSE IF tk[t].actInstr > Len(Program[t])
           THEN Becomes(Throw(w, "NoInstruction"))
           ELSE \E c \in Costs(w1, t) : Becomes(Runs(w1, t, c))

(* Task::onDesched and ExecInstr::deschedule *)
OnTaskDesched(t) ==
    LET w  == World
        w1 == Drop(Drop([w EXCEPT !.tk[t].state = "READY"], EndEvt(t)),
                   InstrEvt(t))
    IN  /\ Handles(Desched(t))
        /\ Becomes(IF tk[t].state # "EXEC" THEN Throw(w, "TaskNotExecuting")
                   ELSE IF tk[t].actInstr > Len(Program[t])
                   THEN Throw(w, "NoInstruction")
                   ELSE IF ~IsPosted(w.q, InstrEvt(t)) THEN w1
                   ELSE [w1 EXCEPT !.tk[t].last = w.now,
                             !.tk[t].done = @ + w.now - tk[t].last])

(* Task::onInstrEnd: the last instruction ends the instance.                *)
InstrEnds(w, t) ==
    LET w1 == [w EXCEPT !.tk[t].actInstr = @ + 1]
    IN  IF w.tk[t].state = "IDLE" THEN Throw(w, "TaskNotActive")
        ELSE IF w.tk[t].actInstr = Len(Program[t])
        THEN Post([w1 EXCEPT !.tk[t].endAt = w.now], EndEvt(t), w.now)
        ELSE w1

(* ExecInstr::onEnd *)
OnInstrEnd(t) ==
    LET w  == World
        w1 == InstrEnds([w EXCEPT !.tk[t].cost = Undrawn, !.tk[t].done = 0,
                                  !.tk[t].last = w.now], t)
    IN  /\ Handles(InstrEvt(t))
        /\ IF w1.tk[t].actInstr > Len(Program[t]) \/ tk[t].state # "EXEC"
           THEN Becomes(w1)
           ELSE \E c \in Costs(w1, t) : Becomes(Runs(w1, t, c))

(* SuspendInstr::onSuspend and onEnd *)
OnSuspend(t) ==
    LET w == World
    IN  /\ Handles(Susp(t))
        /\ Becomes(Post(HomeSuspend(w, t), Resume(t),
                        w.now + Instr(w, t).delay))

OnResume(t) ==
    /\ Handles(Resume(t))
    /\ Becomes(HomeOnArrival(InstrEnds(World, t), t))

-----------------------------------------------------------------------------
(* A choice of one value for each x from its set. *)
OneOfEach(S) == {f \in [DOMAIN S -> UNION Range(S)] : \A x \in DOMAIN S : f[x] \in S[x]}

(* Simulation::initSingleRun: the tasks post their first arrivals, and then *)
(* the changes of the budgets are posted.                                   *)
FirstEvents(at, ch) ==
    LET Posting    == Tasks \cup {s \in Servers : ch[s] # Never}
        Time(x)    == IF x \in Tasks THEN at[x] ELSE ch[x]
        Event(x)   == IF x \in Tasks THEN Arr(x) ELSE ChangeEvt(x)
        Sooner(y, x) == IF (y \in Tasks) = (x \in Tasks)
                        THEN Number(y) < Number(x) ELSE y \in Tasks
        Earlier(x) == {y \in Posting : \/ Time(y) < Time(x)
                                       \/ Time(y) = Time(x) /\ Sooner(y, x)}
        Nth(n)     == CHOOSE x \in Posting : Cardinality(Earlier(x)) + 1 = n
    IN  [n \in 1..Cardinality(Posting) |-> Entry(Event(Nth(n)), Time(Nth(n)), 8)]

(* The newRun of a server of kind k; it is called once, in a fresh program. *)
NewServer(s, k) ==
    [kind |-> k, status |-> "IDLE", q |-> Q[s],
     cap |-> IF k \in {"polling", "grub"} THEN 0 ELSE Q[s],
     dl |-> 0, last |-> 0, vtime |-> StoppedAt(0), capacity |-> StoppedAt(0),
     repl |-> <<>>, ready |-> <<>>]

NewTask(at) ==
    [state |-> "IDLE", actInstr |-> 1, cost |-> Undrawn, done |-> 0, last |-> 0,
     arrival |-> at, dl |-> 0, arrQueue |-> <<>>, endAt |-> Never, arrAt |-> at]

Init ==
    /\ now = 0 /\ exc = "none"
    /\ \E at \in OneOfEach(Phases), ch \in OneOfEach(ChangesAt),
         k \in OneOfEach(Kinds) :
          /\ \A s \in Servers : k[s] = "grub" => ch[s] = Never
          /\ agenda = FirstEvents(at, ch)
          /\ sv = [s \in Servers |-> NewServer(s, k[s])]
          /\ tk = [t \in Tasks |-> NewTask(at[t])]
    /\ queue = [k \in Kernels |-> {}]
    /\ insertTime = [x \in Entities |-> 0]
    /\ currExe = [k \in Kernels |-> None]
    /\ sup = [active |-> 0, residual |-> 0]

(* The run is over in time, for want of events, or by an exception. *)
Over ==
    /\ exc # "none" \/ RunOver \/ agenda = <<>>
    /\ UNCHANGED vars

Steps ==
    \/ OnBeginDispatch \/ OnEndDispatch
    \/ \E s \in Servers :
          \/ OnServerSched(s) \/ OnServerDesched(s) \/ OnServerDispatch(s)
          \/ OnBudgetExhausted(s) \/ OnRecharging(s) \/ OnReplenishment(s)
          \/ OnIdle(s) \/ OnChangeBudget(s)
    \/ \E t \in Tasks :
          \/ OnArrival(t) \/ OnFakeArrival(t) \/ OnEndInstance(t)
          \/ OnTaskSched(t) \/ OnTaskDesched(t) \/ OnInstrEnd(t)
          \/ OnSuspend(t) \/ OnResume(t)

Next == Steps \/ Over

(* The loop of Simulation::run goes on as long as it can. *)
Spec == Init /\ [][Next]_vars /\ WF_vars(Steps)

-----------------------------------------------------------------------------
(* Between two handlers of an instant a kernel may have a dispatch to do,   *)
(* a task or a server an event that tells it of one.                        *)
Pending == {"beginDispatch", "endDispatch", "dispatch", "sched", "desched"}

Settled == ~\E i \in DOMAIN agenda : agenda[i].ev[1] \in Pending

Status(s) == sv[s].status
Active    == {"READY", "EXECUTING"}

(* No assertion fails, no event is posted twice or in the past, no null     *)
(* pointer is followed.                                                     *)
NoException == exc = "none"

(* The kernel and the server agree: a server that executes is the one on    *)
(* the CPU, one with work to do is in the ready queue and no other is, and  *)
(* a job executes only if its server does and gave it the time.             *)
ServersAgree ==
    exc = "none" /\ Settled =>
        /\ \A s \in Servers :
              /\ Status(s) = "EXECUTING" <=> currExe[Kernel] = s
              /\ Status(s) \in Active <=> s \in queue[Kernel]
              /\ currExe[s] # None <=> Status(s) = "EXECUTING"
        /\ \A t \in Tasks :
              tk[t].state = "EXEC" <=>
                  /\ currExe[Home[t]] = t
                  /\ Home[t] # Kernel => currExe[Kernel] = Home[t]

(* No work is forgotten: a server whose queue is not empty is in the        *)
(* kernel's queue, or its budget is about to come back.                     *)
NoLostWork ==
    exc = "none" =>
        \A s \in Servers : queue[s] # {} =>
            \/ s \in queue[Kernel] /\ Status(s) \in Active
            \/ /\ Status(s) = "RECHARGING"
               /\ IsPosted(agenda, Repl(s)) \/ IsPosted(agenda, Recharge(s))

(* The budget of s that is left at the time t, while it executes too. *)
LeftAt(s, t) ==
    sv[s].cap - (IF Status(s) = "EXECUTING" THEN t - sv[s].last ELSE 0)

Left(s) == LeftAt(s, now)

(* The virtual time of a constant bandwidth server that is not idle is the  *)
(* moment its deadline and the budget that is left say: the deadline, less  *)
(* a period for each full budget.  Two accounts, the one in cap and the one *)
(* in vtime, are kept by different code and must agree.                     *)
VirtualTimeIsBudget ==
    exc = "none" =>
        \A s \in Servers :
            sv[s].kind \in {"hardCBS", "softCBS"} /\ Status(s) # "IDLE" =>
                GetValue(sv[s].vtime, now) =
                    (sv[s].dl - (IF Status(s) = "RECHARGING" THEN P[s] ELSE 0))
                        * VUnit
                    - (IF Status(s) = "RECHARGING" THEN 0
                       ELSE Left(s) * VRate(sv[s], s))

(* Isolation: at a total bandwidth of no more than one, a server that has   *)
(* work is never late, and neither is a periodic task beside the servers,   *)
(* whatever the jobs inside of the servers need.                            *)
NoMiss ==
    exc = "none" =>
        \A x \in queue[Kernel] :
            now <= IF x \in Servers THEN sv[x].dl ELSE tk[x].dl

(* A polling server gets its budget once a period, however it is preempted  *)
(* or runs out of work: what is left never grows before the recharge that   *)
(* it waits for.                                                            *)
PollsOncePerPeriod ==
    [][\A s \in Servers :
          sv[s].kind = "polling" /\ Left(s)' > LeftAt(s, now') =>
              \A i \in DOMAIN agenda :
                  agenda[i].ev = Recharge(s) => agenda[i].at <= now']_vars

(* A sporadic server loses no budget: what it has, what is ready to be used *)
(* and what is to come back are at least its budget, whatever order the     *)
(* executions, the preemptions and the replenishments come in.              *)
NoBudgetIsLost ==
    exc = "none" =>
        \A s \in Servers :
            sv[s].kind = "sporadic" /\ Status(s) # "IDLE" =>
                sv[s].q <= sv[s].cap
                           + SS!SumAmounts(sv[s].ready, Len(sv[s].ready))
                           + SS!SumAmounts(sv[s].repl, Len(sv[s].repl))

(* A sporadic server's replenishments are all to come (the comment of       *)
(* repl_queue, sporadicserver.hpp:23-24).                                   *)
AllInTheFuture ==
    \A s \in Servers : \A i \in DOMAIN sv[s].repl : sv[s].repl[i].at >= now

(* The supervisor's account of the bandwidth in use is that of the servers  *)
(* that are not idle.                                                       *)
ActiveIsInUse ==
    exc = "none" =>
        sup.active = SumFunctionOnSet([s \in Servers |-> GRUB!Util(s)],
                         {s \in Servers : sv[s].kind = "grub" /\ Status(s) # "IDLE"})

(* Each tick that a Grub server executes moves its virtual time as far as   *)
(* its capacity pays for, at the rate of the bandwidth in use at the        *)
(* moment, and what is left over from others is on top.                     *)
GrubAccounts ==
    exc = "none" =>
        \A s \in Servers : sv[s].kind = "grub" /\ Status(s) # "IDLE" =>
            /\ GetValue(sv[s].capacity, now) >= 0
            /\ GetValue(sv[s].vtime, now) * GRUB!Util(s)
               + GetValue(sv[s].capacity, now) * VUnit
                   >= sv[s].dl * GRUB!Util(s) * VUnit
            /\ Status(s) = "EXECUTING" => sv[s].capacity.der = -sup.active

(* The three together: whatever the class of the servers, and whatever the  *)
(* programs that change their budgets do.                                   *)
ServerInvariant == NoException /\ ServersAgree /\ NoLostWork

(* Constant bandwidth servers keep the promises of Reservation: of the      *)
(* budget, what is not left is used; a server that never had work counts as *)
(* one that got its first budget at the start; and one that waits for its   *)
(* budget still has the deadline it waits for.  A server without work is    *)
(* idle from the tick of its virtual time on, which executing_releasing     *)
(* rounds down: the promises of Reservation with Rounded.                   *)
UsedBudget == [s \in Servers |-> sv[s].q - Left(s)]

DeadlineInForce ==
    [s \in Servers |->
        IF sv[s].dl = 0 THEN P[s]
        ELSE sv[s].dl - (IF Status(s) = "RECHARGING" THEN P[s] ELSE 0)]

HardServers == {s \in Servers : sv[s].kind # "softCBS"}

Reserved == INSTANCE Reservation WITH
    clock <- now, used <- UsedBudget, dl <- DeadlineInForce, hard <- HardServers,
    Rounded <- TRUE

ASSUME BudgetAssumption == Reserved!ReservationAssumption

ImplementsReservation == Reserved!Spec
=============================================================================
