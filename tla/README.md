# PARTSim in TLA+

PARTSim is a discrete-event simulator of real-time schedulers: `libmetasim` is
the event engine, `librtsim` the tasks, kernels, servers and resource managers
that post events on it, `rtsim` the program that builds a system from YAML and
runs it. Everything runs on one thread. What makes the code hard is not
parallelism but order: many events share an instant, their handlers post, drop
and "process" each other's events, call into objects that are half way through
a context switch, and leave state for later runs.

The project models the engine, the multiprocessor kernel, the single-processor
kernel with its tasks, instructions, resource manager and round robin scheduler,
and the five kinds of servers between that kernel and its tasks. It checks them
with TLC, and proves with TLAPS every invariant and the refinement it checks of
the engine and of the multiprocessor kernel, twelve properties of the
single-processor kernel and its refinement, and a bound on the bandwidth that
constant bandwidth servers get. Four
runs (`expect: violation`) each show a place where the code does not do what its
documentation or its own assertions say; section 6 lists those and the others
that the models make visible.

## 1. Inventory

| part | state | operations | how it interacts |
|---|---|---|---|
| `Event` (event.cpp, plist.hpp) | `_eventQueue` (a `std::set` ordered by time, priority, `_order`), `counter`, and per event time, priority, order, `_isInQueue` | post, drop, process, action | everything posts events; `action` calls the handler |
| `Simulation` (simul.cpp), `Entity` | `globTime`, `actRuns` | run, run_to, sim_step, initSingleRun, endSingleRun, clearEventQueue | calls `newRun`/`endRun` of all entities, then handles the first event again and again |
| `MRTKernel` | `_m_currExe`, `_m_oldExe`, `_m_dispatched`, `_isContextSwitching`, `_beginEvt`, `_endEvt` | onArrival, onEnd, suspend, activate, dispatch, begin and end of a dispatch, newRun, endRun | called by tasks, servers, resource managers; calls the scheduler and `schedule`/`deschedule` of tasks |
| `RTKernel` | `_currExe`, `_isContextSwitching`, two dispatch events | the same, for one CPU | the same |
| `Scheduler` and its kinds (EDF, FP, RM, FIFO, TrueFIFO, RR) | `_queue`, insertion times; RR: slices and the round event | insert, extract, getFirst, getTaskN, notify; RR: round | called by kernels and servers; RR calls `dispatch` |
| `Task` | state, `actInstr`, `arrival`, `_dl`, `arrQueue`, seven events | the handlers of those events, schedule, deschedule, killInstance, block, unblock, onInstrEnd | calls its kernel; is called by it, by its instructions, by servers |
| `ExecInstr`, `WaitInstr`, `SignalInstr`, `SuspendInstr` | cost, cycles, `_waiting`; end, suspend and resume events | schedule, deschedule, onEnd, onSuspend | call the task, the kernel, the resource manager |
| `FCFSResManager`, `Resource` | `_available`, `_blocked` | request, release | suspends and activates tasks in their kernels |
| `Server` (server.cpp) | status, `currExe_`, `_bandExEvt`, `_dispatchEvt`, `_rechargingEvt`, its scheduler | onArrival, onEnd, suspend, dispatch, onSched, onDesched, onDispatch, onBudgetExhausted, onRecharging | a task to its kernel and a kernel to its tasks |
| `CBServer` | `cap`, `last_time`, `d`, `vtime`, `_replEvt`, `_idleEvt` | the transitions of the status, onReplenishment, onIdle, changeBudget | posts its own events; calls its kernel |
| `SporadicServer` | `cap`, `repl_queue`, `capacity_queue`, `vtime` | the same, check_repl, changeBudget | the same |
| `PollingServer` | `cap`, the recharging event | the same | the same |
| `Grub`, `GrubSupervisor` | capacity and virtual time as timers; active and residual bandwidth | the same, updateBudget, startAccounting, set_active, set_idle | each change of one server closes and opens the accounts of all |
| `CapacityTimer` | value, rate, running | start, stop, set_value, get_value, get_intercept | the servers' clocks |
| `SuperCBS`, `SparePot` | budgets and spare bandwidth | changeBudget, gather, dispense | call the servers |
| load, timers, statistics, traces, power models, YAML | | | arrivals from outside; output; input |

What is hard, and what makes each part correct:

* **Engine.** Events are handled by time, then priority, then order of posting,
  over all runs; a drop never removes another event; nothing happens in the
  past. The `std::set` is keyed by fields that stay behind in events that are
  not queued.
* **MRTKernel.** Switches that take time are cancelled and put off; several
  CPUs switch at once; `dispatch()` counts and evicts. No task on two CPUs, no
  dispatch lost, the right tasks running when all is quiet, nothing thrown,
  nothing left for the next run.
* **RTKernel and tasks.** Arrivals, ends, preemptions, deadlines and kills of
  one instant; buffered arrivals; jobs preempted any number of times still
  execute exactly their cost; the CPU is never idle while there is work.
* **Resources.** No units lost or made, no wake-up lost, first come first
  served.
* **Servers.** A status machine whose transitions are called from kernel, tasks
  and its own events, in one instant in any order. Budget is never used twice
  and never lost, the deadline goes with the budget, virtual time and budget are
  two accounts that agree, nobody else is late because of a server, and no
  event meets a status it asserts away.

`PROJECT.json` lists the parts, also those not modelled, and every hazard at
its line.

## 2. Modules

| module | models | extends / uses |
|---|---|---|
| `MRTKernel` | MRTKernel with its ready queue, against an open environment (below) | |
| `TaskPlacement` | abstract: where a task may be and how it may move | refined by `MRTKernel` |
| `MRTKernel_proofs` | theorems: the kernel's maps agree, dispatches are prompt, nothing is thrown, the tasks' view is the kernel's, the first of the queue run, `TaskPlacement` is implemented | `MRTKernel`, `Counting` |
| `MCMRTKernelReruns` | `MRTKernel`, requests before dispatches in every instant | `MRTKernel` |
| `Simulation` | Event and Simulation, against any entities | |
| `EventOrder` | abstract: the engine as an agenda | `Agenda`; refined by `Simulation` |
| `Simulation_proofs` | theorems: the set is sound, the engine implements `EventOrder` | `Simulation`, `Agenda_proofs` |
| `Agenda` | operators on the sequence of events to come | |
| `Agenda_proofs` | lemmas: what posting and dropping do, place by place | `Agenda`, `Counting` |
| `Counting` | lemmas on numbers and finite sets: least elements, cardinalities, places in an order, sums | TLAPS |
| `RTKernel` | RTKernel, Task, the instructions, FCFSResManager, EDF, FP and RR schedulers, on the agenda | `Agenda` |
| `RTKernel_proofs` | theorems: nothing is thrown, no job, arrival or unit is lost, the first of the queue has the CPU, jobs and requests are served in order, `FluidCPU` is implemented | `RTKernel`, `Agenda_proofs` |
| `FluidCPU` | abstract: an ideal preemptive CPU serving work by rank | refined by `RTKernel` |
| `CapacityTimer` | operators of CapacityTimer | |
| `ServerWorld` | what servers share: events, kernel, schedulers, records | `Agenda`, `CapacityTimer` |
| `CBServer`, `PollingServer`, `SporadicServer`, `Grub` | the transitions each class of servers defines | `ServerWorld` |
| `Server` | servers between an RTKernel and tasks: state, handlers, properties | `ServerWorld`; the four classes by INSTANCE |
| `Server_proofs` | theorem: Grub's account of the bandwidth in use is right | `Server`, `Agenda_proofs` |
| `ServerBudget_proofs` | theorem: a sporadic server loses no budget | `Server_proofs` |
| `Reservation` | abstract: budgets with deadlines and a virtual time | refined by `Server` |
| `Reservation_proofs` | theorems of `Reservation` | `Reservation`, TLAPS |
| `MCMRTKernel`, `MCSimulation`, `MCRTKernel`, `MCServer` | instances for TLC: symmetry, task sets, bounds | |

The models compose along the agenda: `Simulation` is shown to implement
`EventOrder`, whose operators (`Agenda`) are the event queue `RTKernel` and
`Server` run on. `MRTKernel` needs less than that: it leaves the order of the events of an
instant open, apart from the immediate ones, so that what holds of it holds for
the engine's order too.

### MRTKernel

One variable per member, named after it; `_beginEvt[p]` and `_endEvt[p]` are
records of whether they are posted, for when, and towards which task. A handler
is one action: `Arrival`, `Resume`, `EndInstance`, `Suspend`,
`SuspendAndDispatch` are the callers (Task::onArrival, the end of a suspension
or of a wait or a server's recharging, Task::onEndInstance,
SuspendInstr::onSuspend, and a refused request or an exhausted server) with the
whole of what the kernel does for them; `BeginDispatch` and `EndDispatch` are
onBeginDispatchMulti and onEndDispatchMulti; `OnSched` and `OnDesched` are the
tasks' handlers; `NewRun` ends a run and begins the next. `Insert` puts a task
anywhere in the queue, so that every scheduler is covered; the free CPUs are
taken in any order, since the code's order is that of pointers in a map. The
environment makes these calls at any time the state of the task allows and draws
all delays, but it does not do everything the program can: it kills no job
(Task::killInstance and onKill), suspends no task that has no CPU, and ranks no
task again that stays in the queue (RRScheduler::round). The theorems about
`MRTKernel` are about this environment. Exceptions and null dereferences set `exc`, which stops the program.

`SuspendAndDispatch` merges two calls: `suspend`, which dispatches on the CPU
the task leaves, and `dispatch()`. In the code the first sets the begin event
of that CPU and `dispatch()` then takes the CPU as free; dispatching twice on a
CPU that is not switching is the same as once, so the CPU is added to the set.

### Simulation

The entities are the environment: in `newRun`, a handler or `endRun` they post,
drop and process any event. `phase` says where `Simulation::run` is. The fields
of an event stay in it when it leaves the queue, as in the code, and `Erased`
is what `std::set::erase` removes: the element equivalent to the key. `Delays`
includes a negative one, a post in the past.

### RTKernel

The events are pairs of a kind and a task, in an agenda. The queue of the
scheduler is a set with the order of TaskModelCmp (deadline or fixed priority,
insertion time, task number). The random variables of the program are the only
choices: phases, interarrival times, execution times. A task has a program of
`exec`, `wait`, `signal` and `suspend` instructions. A handler is one action,
but `onInstrEnd` calls `schedule` of the next instruction, which may end at
once and call `onInstrEnd` again: this nested call is the variable `call` and
the action `Schedule`, and no event is handled while it is set. `done` and
`lastTime` are what the ExecInstr remembers of its execution, in time units of
a CPU of speed 1.

`NewRun` is endSingleRun and initSingleRun: what the entities' endRun and newRun
reset, and what they do not, which is the last time each task was scheduled
(Task::_lastSched) and the immediate priority that `process` gives to an event and
that stays if the event is dropped before it is handled (`urgent`): to a deadline
event or `fakeArrEvt` by the end of a run, and to `fakeArrEvt` by every kill
with a buffered arrival, since the `endRun` that ends `onKill` drops what
`onKill` has just processed. The first arrivals (`phase`) are the same in
all runs.

`policy` is the scheduler of the run (EDF, FP or RR). `Notified` is
RRScheduler::notify, called where the kernel calls it, and `OnRound` the round
event with the two dispatches it asks for; `lastSched` is the Task::_lastSched by
which RRScheduler tells whether a slice is used up, and is kept under RR only,
since nothing else reads it.

### Server

A handler of a server calls its way through several objects: an arrival of a
task goes through its server's status machine into the kernel and back. So the
methods are operators from a world to a world, where a world is the record of
all variables in the middle of a handler (`ServerWorld`); an action `Handles` the
next event and `Becomes` the world its handler makes. An assertion, an exception
or a null pointer sets `exc`, whose first value stays. The virtual methods are
dispatched on the kind of the server (`IdleReady`, `ExecutingRecharging` ...), so
that servers of different kinds share one system; the kinds are chosen in `Init`.

Tasks inside of servers have a program of `exec` and `suspend` instructions.
`endAt` and `arrAt` are the times of their end and arrival events, which stay in
the event after it was handled and which taskIsActive (server.cpp:71) reads.
Deadline events of tasks, killing and resources are left out of this model. The
kernel has no context switch delay, and a server schedules its tasks first in,
first out.

Virtual times are doubles in the program and integers of 1/`VUnit` of a tick
here, capacities of Grub integers of 1/`UUnit`. The assumptions on the constants
(`RateAssumption`, `NewRateAssumption`, `UnitAssumption`) say that every rate,
also those of budgets that may be set later, is such an integer, so that nothing
is rounded but what the program rounds (`Trunc`, `Ceil`); the rounding of the
doubles themselves is left out.

`Reservation` is what is left of a constant bandwidth server without queues,
events and states: a deadline and how much of the budget is used, which a step
may keep, postpone (budget spent), renew or reuse (virtual time past). The
refinement mapping takes `used` to be the budget that is not left, and the
deadline of a server that is recharging to be the one it waits for, since the
code moves `d` before it waits (cbserver.cpp:273-275). Which reservations are
hard is fixed at the start. When a virtual time falls between two ticks, the code
takes it for past in the first of them (cbserver.cpp:213), which is the reservation
with `Rounded`; without it a virtual time is past only when it is, which the code
does not keep to (see 6).

## 3. Runs

Bounds: `EndTick` ends a run and keeps time finite; `Runs` is the number of runs;
`MaxPosts` in the engine bounds its counter. Task sets are in `MCRTKernel` and
`MCServer`.

| run | question |
|---|---|
| `two_cpus` | MRTKernel with 3 tasks, 2 CPUs, switch 1, migration 1, one run of 3 ticks: all invariants, `TopSwitchIsKept`, and that it implements `TaskPlacement`. Three tasks on two CPUs give evictions, migrations, and switches cancelled by one another and by arrivals. |
| `default_delays` | the default delays, 4 tasks on 2 CPUs, 3 runs of 2 ticks: two tasks wait, several evictions and begin events share an instant, and nothing of a run leaks into the next. Tasks and CPUs are symmetric: no definition tells two of them apart. |
| `reruns` | with delays, what a run leaves behind (see 6) |
| `engine` | three events, two of one priority, three runs, four posts: fields and order numbers of earlier posts and runs meet those of later ones; it implements `EventOrder` |
| `edf` | three sporadic tasks of utilisation exactly 1, 24 ticks (the hyperperiod of 3, 6, 8), any phase of 0 or 1: no deadline is missed, and the kernel implements `FluidCPU` |
| `resources` | a resource of 2 units, one task wanting both, fixed priorities, costs that vary and may be 0; suspensions inside and outside critical sections; 3 runs of 14 ticks, which may end with units taken; nothing throws |
| `overload` | more work than time, under EDF and under round robin with slices of 2, 1, 1; buffers of size 1, 1000 and -1, interarrival times that end in 0, executions of 0, one task killed at a miss; 3 runs of 13 ticks, so that deadlines and buffered arrivals that a run left with the immediate priority come in the next; the latter throw, and nothing else does; no wait is longer than a round, and the simulation ends |
| `suspend` | the idle CPU after a self-suspension (see 6) |
| `cbs` | a periodic task (1 in 4) and two servers under EDF: one (2 in 5) hard, soft or REUSE_DLINE, the other (1 in 4) hard or soft. Half of the virtual times of the first fall between ticks, and rounded down they let it take 1 / 2, so that the three fill the CPU. Jobs need up to more than a budget and suspend themselves, so that servers become idle, late, preempted and spent in any order; three phases each, 26 ticks, more than five periods |
| `fixed` | a task and two servers, each polling, sporadic or Grub, by fixed priorities with the task in between; one budget of 2 that becomes 1 or 3 at one of five instants or never; the server whose budget changes may also be a hard or soft constant bandwidth server; 24 ticks, three periods |
| `late`, `yield` | a replenishment in the past; a failed assertion (see 6) |

Every passing property has a mutant of a mapped definition which TLC refutes it
on; the variants stand beside the definitions they vary.

Each server has one task in all runs, as those that `rtsim` builds (main.cpp:24-30),
so a server never switches between tasks of its own. In `cbs` the jobs inside of
servers end before the next of their task arrives; `yield` is the case where they
do not, and the assertion that fails there would stop `cbs` too. The FIXMEs at
server.cpp:247-250 expect that assertion to fail for hard servers in RECHARGING and
soft ones in IDLE; within these bounds `ServersAgree` and `NoException` show that
neither happens. In `fixed` the instants of the changes are such that no server is
made smaller in the instant it became ready (see 6), and the polling servers are
not still active when their period ends, which Server::onRecharging asserts.

Fairness. Only `RunEnds` needs it: weak fairness of the disjunction of all
steps, since the loop of `Simulation::run` (simul.cpp:200-202) takes the first
event again and again and nothing else decides whether to go on. There is no
fairness of single handlers: which is handled is determined by the agenda.

Deadlock is checked in all runs: the end of the simulation and an uncaught
exception are explicit stuttering actions (`Stopped`, `Over`), so that any other
state without a step would be reported.

## 4. Properties

`MRTKernel`: `NoTaskOnTwoCPUs`; `Consistent` (the three maps and the switching
flags agree, in both directions); `DispatchedIsReady`; `ExecutingIsOnCPU` (the
tasks' view is the kernel's whenever no immediate event is pending);
`NoException` (in particular dispatch() never runs short of tasks to evict);
`TopRuns` and `NoLostDispatch` (the first N tasks run when nothing is under
way, and are covered by begin events before that); `DispatchIsPrompt`;
`TopSwitchIsKept`; `PlacementIsLegal` (the refinement).

`Simulation`: `FlagIsMembership`, and `ImplementsAgenda`, which says
how ties are resolved: by the order of the posts, and not as a comment has it
(see 6).

`RTKernel`: `FirstRuns`, `ExecutingIsTimed`, `ServesByRank` (the refinement: jobs
receive exactly their cost, by rank, with no idling), `NoMiss` (Liu and
Layland's theorem, which holds only if all of the former does), `NoLostTask`,
`UnitsAreConserved`, `NoIdleUnits`, `NotOvertaken`, `BufferedIsServed`,
`JobsInOrder`, `IdleLeavesNothing` (no event of an ended job is queued; with which
priority events of it will be posted again it does not say), `NoException`,
`OnlyStaleFakeArrThrows` (with kills and several runs one exception is possible, and
only in the situation that section 6 tells), `RunEnds`, and under round
robin `BoundedWait`: no task is in the queue for longer than the slices of the
others and what each of their arrivals may add to the slice of the task that has
the CPU. `NoIdleWhileReady` states what section 6 refutes.

`Server`: `ServerInvariant` is three: `NoException`, `ServersAgree` (once the events
of an instant are done, status, the kernel's queue and CPU, the server's task and
the tasks' states are one consistent picture), and `NoLostWork` (a server with
work is in the kernel's queue or its budget is about to come back).
`VirtualTimeIsBudget` ties two accounts that different code keeps. `NoMiss` is
isolation: in a system that fills the CPU no server and no task beside them is
ever late, whatever the served jobs need. `ImplementsReservation` is the
refinement, with rounded virtual times; with exact ones it does not hold (see 6). `NoBudgetIsLost` (sporadic), `PollsOncePerPeriod` (polling),
`ActiveIsInUse` and `GrubAccounts` (Grub) are each class's account.
`AllInTheFuture` states what section 6 refutes, and so does `NoException` in the
run `yield`.

## 5. Proofs

`MRTKernel_proofs` proves, for any finite sets of tasks and CPUs, any delays,
any `EndTick` and any number of runs (the assumptions of `MRTKernel`):

* `TypeCorrect`: `Spec => []TypeOK`.
* `FirstRunConsistent`: `Spec => [](run = 1 => Consistent)`. `Consistent` is
  inductive together with `TypeOK` within a run: a task being switched in is
  recognised by the end event of its CPU, a cancelled switch names no task, and
  a switching CPU always has its end event or a begin event posted. The lemmas
  follow the code: `DispatchOnConsistent` (dispatch of one CPU, for any set of
  CPUs), `DispatchConsistent` (dispatch()), `VacateConsistent` (the first half
  of a suspend or an end), and `ConsistentStep` with one step per action. It is
  not an invariant of several runs when switches take time, and that is the
  finding of section 6: `NewRun` leaves `isContextSwitching`.
* `FirstRunExclusive`: `Spec => [](run = 1 => NoTaskOnTwoCPUs)`: a task on a CPU
  is dispatched on that CPU, and `dispatched` is a function.
* `FirstRunPrompt`: `Spec => [](run = 1 => DispatchIsPrompt)`, and
  `FirstRunPosts`: no post of the kernel throws in the first run. Both follow
  from `Timely` (`TimelyStep`, one step per action): what is pending lies neither
  in the past nor further off than one switch, and the begin event of a CPU whose
  switch was cancelled is due when that switch would have ended. `Consistent` is
  needed: it says that a switching CPU has something pending, which bounds the
  time of the next step.
* `DefaultConsistent`, `DefaultExclusive`, `DefaultPrompt`: with the default
  delays (`NoDelays`: both 0) `Consistent`, `NoTaskOnTwoCPUs` and
  `DispatchIsPrompt` hold in all runs. The strengthening is `SwitchesInRun`: time
  does not advance while a CPU switches, hence no CPU is switching when a run is
  over, and `NewRunIsClean` shows that the next run starts as the first.
* `DispatchedAreReady`: `Spec => []DispatchedIsReady`, in all runs: every handler
  that takes a task off the queue clears its entry, and the task a begin event
  picks is in the queue.

The next theorems are about good runs: `GoodRun` is the first run, or any run with
the default delays. For a later run with delays they are false, by the finding
`reruns`. What earlier theorems say of good runs is `BaseInv`.

* `GoodRunsDoNotFail`: `Spec => [](GoodRun => NoException)`. The hard part is "Can't
  find enough tasks" (mrtkernel.cpp:272), the exception of a dispatch() that finds
  fewer tasks to evict than it needs CPUs. `EnoughCPUs` is the count: a CPU without a
  task is free, one whose task is beyond the first N of the queue can be taken from
  it, and those whose task is among the first N are N less the tasks that need one. `InsertReady`, `ExtractReady`
  and `TopFits` say what an insertion and an extraction do to the first N.
* `GoodRunsAgree`: `Spec => [](GoodRun => ExecutingIsOnCPU)`. It is not inductive, for a
  task is told of its CPU by immediate events that come later; `TasksView` is what
  holds in between: at most one task has an immediate event pending, a `schedEvt` or
  `deschedEvt` that makes up the difference between its state and the kernel's map,
  and all others agree.
* `GoodRunsLoseNone` and `GoodRunsRunTheTop`: `NoLostDispatch` and `TopRuns`. Both follow
  from `NoSlack`, a count: the first N tasks of the queue, and the CPUs on which
  none of them is dispatched and no begin event is posted, are together at most N.
  One lemma per handler keeps it (`ArrivalKeepsSlack`, `VacateKeepsSlack`,
  `SuspendKeepsSlack`, `BeginKeepsSlack`), from what dispatch() takes
  (`TargetsCount`) and what a removal does to the first N (`ExtractTop`).
* `SwitchesToTheTop`: `AllRunsGood => (Spec => TopSwitchIsKept)`, the action property: a
  context switch towards a task that stays among the first N is not cancelled.
  `AllRunsGood` (one run, or no delays) is `GoodRun` as a condition on the constants,
  since a property of all steps cannot be restricted to the first run.
* `KernelPlacesTasks`: `AllRunsGood => (Spec => PlacementIsLegal)`, the refinement of
  `TaskPlacement`. `Moves` lists the moves of one task that a step may make; the
  lemmas `ArrivalMoves`, `VacateMoves`, `BeginMoves` and `EndMoves` show that a handler
  makes no other, and `PlacesAreExclusive` that no CPU is promised twice.

`Simulation_proofs` proves of the engine, for any events, standard priorities,
delays, and number of posts and runs:

* `EngineTypeCorrect`, `EngineFlags`, `EngineKeepsTime`: `TypeOK`, `FlagIsMembership`,
  `NothingInThePast`. None is inductive alone; `QueueInv` adds `OrdersDiffer` (posted
  events differ in `_order`, also those long handled) and `RunsRemain`. The point is
  `ErasedIsOwn`: `std::set::erase` removes what is equivalent to the key, and by
  `OrdersDiffer` nothing but the event itself ever is.
* `ClockAdvances`: within a run the clock does not go back, for the first event of
  the set is the earliest (`FirstIsEarliest`).
* `EngineImplementsAgenda`: `Spec => ImplementsAgenda`. The refinement mapping lists
  the set in its order: the place of an event is one more than the number of those
  before it. `PlacesInOrder` (`Counting`) shows that these places are 1 to the
  size of the set, `ListIsUnique` that an ascending list of the set is unique. So a
  step needs only to be shown to leave an ascending list: taking an event out of
  one is `DropFrom` (`LeavingIsDropping`), an event posted with the highest `_order` is
  where `PostIn` puts it (`EnteringIsPosting`), and the first is the head
  (`StepIsHandling`). `Agenda_proofs` tells the entries of `PostIn` and `DropFrom`.

`Reservation_proofs` proves of `Reservation`, for any set of reservations, any
budgets and periods, and any choice of the hard ones:

* `ServedWithinShare`: what a reservation was given (a history variable) times
  its `Pace` is at most its budget times its virtual time. `Pace` is the period if
  virtual times are exact, and the period rounded down to a multiple of the budget
  if they are `Rounded`, as in the code. The invariant is `WithinShare`: a tick of
  service costs a tick of budget and so moves the virtual time by P / Q; postponing
  leaves it where it is; reusing moves it forward only. Renewing may take back less
  than a tick if rounded (`PastBoundsGiven`): what was given is a whole number of
  ticks, times a whole number P div Q, so it is at most the tick the virtual time
  falls in. With P / Q in place of its whole part the same would be false: see
  the first of the servers in section 6.
* `HardBandwidth`: a hard reservation never has more than Q / `Pace` of the time
  since the start and one period. It needs `NotAhead` as well: the deadline of a hard
  reservation is at most one period ahead of the clock, since a postponement
  waits for the old one.

With `ImplementsReservation`, which TLC checks in `cbs`, these are bounds on
what the code's constant bandwidth servers can take from others: their bandwidth
Q / P where the period is a multiple of the budget, and else the somewhat larger
one, 1 / 2 for a budget of 2 in 5, which a server that becomes idle again and
again does get. The products of variables are in lemmas on arithmetic, and the
steps cite them.

`RTKernel_proofs` proves of the single-processor kernel, for any task set, programs,
costs, scheduler, resources, buffers and number of runs, what the runs `edf`,
`resources` and `overload` check of a few. The condition is `Sound`, and each of its
three parts is there because the code fails without it (section 6): no context
switch delay, which is the default; no program ends with a suspension, after which
the end of the job throws; and a task that is killed at a miss only executes,
since a kill leaves the requests, the units and the resume event of the job
behind.

* `KernelInvariant`: `Spec => []KernelInv`, the inductive invariant behind all of the
  following. None of them is inductive alone: whether a handler may throw depends
  on which other events of the same instant are still to come. `KernelInv` says of
  every task in which `Situation` it is (`Idle`, `Ready`, `Executing`, or `Scheduling`
  within a handler), each with the sets of events that may be posted for its job,
  with its place in the queue and on the CPU, and whether it waits for a resource.
  `Timed` gives the time and priority every kind of event is posted with, which
  decides what comes first in an instant; `FakeInTurn`, `FakesInTurn` and `HasRoom` say
  which buffered arrivals may have been left urgent, and by what; `SchedIsAlone` and `DispatchIsAlone` say
  that nothing else of the instant is left when a task is given the CPU, and
  `CallGoesOn` what may be pending while a handler schedules the next
  instruction. `EndsInTime` keeps a kill from meeting the end of its job,
  `DeadInTime` and `BufferInTime` tie deadlines and buffered arrivals to the job at
  hand, `InProgram` the events to the instruction, and `Waits` the requests to the
  tasks that made them. There is one lemma per handler (`IdleArrivalKeeps` ...
  `ScheduleSignalKeeps`), which says what the handler does to the agenda in the terms
  of `Gains` and `Loses` and leaves the other tasks to `Untouched`. TLC checked
  `KernelInv` on the task sets of the runs before it was proved.
* `KernelTypes`, `OnlyStaleFakeArrEverThrows`, `WhoExecutesIsTimed`, `JobsLeaveNothing`,
  `ArrivalsAreServed`, `NoTaskIsLost`: `TypeOK`, `OnlyStaleFakeArrThrows`,
  `ExecutingIsTimed`, `IdleLeavesNothing`, `BufferedIsServed` and `NoLostTask` follow
  from it.
* `KernelThrowsNothing`: `NoException`, in a simulation of one run, or if no task that is
  killed at a miss buffers arrivals. Without one of the two it is false: see the
  fakeArr event in section 6.
* `UnitsAreUsed`: `NoIdleUnits`. The point is `Serving`: the loop of
  FCFSResManager::release stops at the first request that what is left does not
  satisfy, and a request is refused or queued only if the first in line is.
* `FirstHasTheCPU`: `FirstRuns`, from `FirstInv`: `beginDispatchEvt` is posted or the CPU
  has the first task. Every handler that changes the queue or a rank dispatches
  (`JobHandlers`, `ScheduleHandler`), and the others leave both alone
  (`QuietHandlers`). The one exception in the code is RTKernel::suspend, so the theorem
  assumes `NoSuspension`; the run `suspend` refutes its consequence without.
* `JobsAreInOrder`: `JobsInOrder`, from `JobInOrder`, which adds that the next arrival of a
  task, being posted, lies beyond all that are buffered. That nothing but
  `Task::reactivate` posts an arrival takes a lemma for each handler
  (`NothingNew`), and a job that starts from idle needs that the buffer is empty
  then: a pending `fakeArrEvt`, which has the immediate priority, comes before
  the arrival (`FirstJobInOrder`).
* `UnitsConserved` and `NobodyIsOvertaken`: `UnitsAreConserved` and `NotOvertaken`, for
  programs that are `Balanced`, which those of the run `resources` are: each releases
  what it takes. What a task holds is a sum over the part of its program it has
  come through, and all that is held a sum over the tasks. `UnitsMove` lists what a
  step may do with units: nothing (`Undisturbed`), begin a run, grant a request or
  queue it, or pass what is given back to the first who wait (`PassedOn`); the
  lemmas up to `UnitsAreMoved` show of every handler that it does one of these. The
  invariant is `Conserved` with `AskedFor`: an entry on the list asks for what its
  task's instruction does, without which an entry served could get more than it
  will hold. `NotOvertaken` needs no more, for those served are the first.
  `Counting` has the lemmas on sums (`SumTakesOne`, `SumOfChanged`): the fold that
  defines them takes the members of a set in an order nobody knows, and is shown
  not to depend on it by taking ever larger subsets of one finite set.
* `KernelServesByRank`: `Spec => ServesByRank`, the refinement of `FluidCPU`, for
  the task sets of `FixedWork`, such as that of the run `edf`: any number of
  tasks, arrivals, buffers, deadlines and instructions, any scheduler, in one run.
  Each of its parts is there because `FluidCPU` does not promise more: a drawn
  cost is known only when the instruction begins, a kill takes work away, and time
  begins again with a run. `FixedWork` implies `Sound` and `NoSuspension`, so
  `KernelInv` and `FirstInv` hold. The invariant is these and `Costed`: an
  instruction that has begun costs what the program says, no more of it is done
  than it costs, and its end is posted for `lastTime` and what is left.
  `WorkersAreServed` reads from `KernelInv` that, when there is nothing but
  execution, a job is in the queue until it ends and its instruction is timed
  exactly while it executes. A step lets time pass to the next event at most
  (`Passes`), does that much of the work of whoever is timed and nothing else
  (`Worked`; `WorkGoesOn`, `WorkStops`, `WorkIsDone`, `WorkIsScheduled` ...), and
  if time passes, no dispatch and no switch is pending, so that `FirstInv` makes
  the one who is timed the first of the queue (`FirstIsServed`).

`Server_proofs` proves of the servers, for any tasks and servers of any mixture of
classes, any budgets, programs and times at which budgets are changed:

* `ActiveIsTheUse`: `Spec => []ActiveIsInUse`. `update_act_bw` is called from the
  transitions of Grub only, and so the theorem is about who calls these, when. The
  handlers nest as deep as the calls of the code, so the lemmas are about worlds:
  `Still` says that a call leaves the status and the class of every server and the
  supervisor's account alone, `Local` that it may change the status of one server,
  and `Turned` to what, and `Moved` that a transition moved the account by that
  server's bandwidth or by nothing. Each method of the model has a lemma in these
  terms, and they chain as the calls do. The inductive invariant is `Balanced`: the
  account is the sum over the servers in use, and every event posted is one that
  its server's class posts and handles (`Fits`). The second half is needed because
  a handler that meets the event of another class would make a transition of that
  class. A step that throws keeps it too, so the theorem holds without the
  condition on `exc`.

`ServerBudget_proofs` goes on from there:

* `NoBudgetGetsLost`: `Spec => []NoBudgetIsLost`. The account of a server is `Kept`: its
  budget is at most what its capacity was when it was last looked at, plus the
  amounts ready and those to come back; no amount is negative; and that look
  was not in the future. With the last part, what an execution takes away
  from the capacity is not negative, and the same call adds it to the last entry
  of the list. None of it speaks of
  the status, so it is kept where the status machine is not: in the run `late`, whose
  replenishments come for a time past, nothing is lost either.
  `DecreaseIsFair` is the arithmetic of `changeBudget` downwards, which takes from
  the capacity, then from the amounts ready (`ReducedIsFair`), then from those to
  come (`SkippedIsFair`) and never more than there is.

  The account alone is not inductive, for its arithmetic needs types, and the
  types need the agenda. `Orderly` says that the immediate events (`sched`,
  `desched`, the suspension, the fake arrival) are of the present instant and all
  others not before it, and with it time moves forward only. `Waits` says
  that a task which is told to suspend is at an instruction that is a suspension:
  the handler reads that instruction's delay. `Solvent` is the types and the
  accounts of all servers, and `WorkInv` the invariant. As in `Server_proofs` each
  method has a lemma about worlds, and they chain as the calls do: `Calm` for what
  only touches the kernel, `Mine` for what touches one server and its events,
  `Steady` for what any call may do to the accounts of all servers. So the other
  classes are part of the theorem: that a polling, constant bandwidth or Grub server
  leaves the sporadic ones alone is shown of each of their transitions.

The constants are typed by assumptions: `TaskAssumption` (a program is a
sequence of `Instructions`, phases and periods are times), `ChangeAssumption` (budgets
are changed at times, or never, to integers), `UnitAssumption` (the bandwidth of a
Grub server is an integer in the unit of `UUnit`, for the model's `update_act_bw`
adds integers where the code adds doubles) and, which no proof uses,
`RateAssumption` and `NewRateAssumption` (section 2). TLC evaluates them on every run.

Only model-checked: of RTKernel `NoMiss` and `BoundedWait`. `NoMiss` is a theorem about utilisations (Liu and Layland), not
about the steps of a kernel.
Of the servers all but `ActiveIsInUse` and `NoBudgetIsLost`. `ServerInvariant`,
`VirtualTimeIsBudget`, `GrubAccounts`, `PollsOncePerPeriod` and `ImplementsReservation`
depend on the status of the servers, on the order of the events of an instant, on the times they are posted for and on
the arithmetic of budgets at once, and an inductive invariant with all of that, as
`KernelInv` is for RTKernel, has not been written; `NoMiss` is again about
utilisations, of servers this time. Liveness
(`RunEnds`), and what needs ENABLED, is beyond TLAPS's backends and stays with TLC.

## 6. Where the code and its documentation part

| run | what happens |
|---|---|
| `reruns` | `MRTKernel::newRun` leaves `_isContextSwitching` and the end events' tasks (mrtkernel.cpp:380); in a later run a task can be put on two CPUs |
| `suspend` | the CPU idles after a self-suspension, for RTKernel::suspend does not dispatch (kernel.cpp:111) |
| `late` | a replenishment of a sporadic server that was kept off the CPU is queued, and later posted, for a time that is past (sporadicserver.cpp:210); sporadicserver.hpp:23-24 says that all are in the future |
| `yield` | a job that ends as the next of its task arrives makes `taskIsActive` answer no (server.cpp:75-77); preempted in that instant, the constant bandwidth server only yields, stays EXECUTING, and fails the assertion on its status when it is scheduled again (server.cpp:252) |

The models show more, which no run repeats. In the engine:

* events equal in time and priority are handled in the order they were posted
  (event.cpp:81-85), which is what `ImplementsAgenda` checks and the theorems on
  the kernels build on; the comment of the comparison says "in case of another tie,
  event objects are ordered by pointer value" (event.hpp:82-85);
* one event past the end of the run is handled, since the loop tests the time of
  the last event (simul.cpp:200; simul.hpp:88-89 speaks of a number of ticks);
* `process()` followed by a drop, also by the one at the end of a run, leaves the
  immediate priority in the event, and the next post queues it before all others
  of its instant (event.cpp:144): the cause of the fakeArr event and of the
  deadline below;
* the key of an event that was never posted is (MAXTICK, priority, 0), and to drop
  it would erase an event posted for MAXTICK by the first post of the program; nothing posts
  for that time, and `Simulation` has no time equal to it (`MaxTick`).

In the kernels and tasks:

* after a run that ended during a context switch, the first dispatch of the next
  waits for the switch of the run before (mrtkernel.cpp:205-207): with
  `Runs = 2`, `DispatchIsPrompt` is violated;
* with a context switch delay, a preemption during a switch posts
  `endDispatchEvt` twice and throws (kernel.cpp:179): `NoException` fails in every
  run of `MCRTKernel` whose `ContextSwitchDelay` is above 0;
* one arrival too many is buffered (task.cpp:248; task.hpp:255-258), and a buffer
  of size -1, "no-limit" in task.hpp:85, buffers nothing;
* the deadline event is handled, and the job killed, at the next arrival, which
  may be before the deadline (task.cpp:295; task.hpp:328-332);
* `onKill` processes `fakeArrEvt` when an arrival is buffered and then drops it, so
  that it keeps the immediate priority over the end of the run, and newRun does not
  restore it (task.cpp:391-397, event.cpp:144). At the next kill with a buffered
  arrival, in a later run, it comes before the kill it is posted with
  (task.cpp:348-356), and the simulation ends with `TaskAlreadyActive`
  (task.cpp:166-168) where killOnMiss promises a kill (task.hpp:331) and newRun a
  reset (entity.hpp:181-182). `overload` has such a task set: `NoException` fails
  there, and `OnlyStaleFakeArrThrows` says that nothing else is thrown;
* the two effects of the deadline meet: when the last event of a run is an arrival of an
  active task, its deadline event keeps the immediate priority for the next run,
  where a job that would end exactly at its deadline is killed first
  (event.cpp:144, task.cpp:295);
* RRScheduler reads `_lastSched` of a run before, since nothing resets it between
  runs (rrsched.cpp:17): a round event that meets a task not yet scheduled in its
  run compares the clock with a time that may lie ahead of it;
* its round event may come when the queue is empty, and `round` reads the front of
  the empty set (rrsched.cpp:97, plist.hpp:107), which is undefined. In GNU's
  library the place holds the number of elements, a null pointer, on which `round`
  returns, and `OnRound` models that;
* a killed task never arrives again in its run, since `onKill` ends with
  `endRun`, which drops the arrival event (task.cpp:397);
* a program that ends with a suspension throws `TaskNotExecuting` at the end of
  its instance (task.cpp:312);
* under round robin an arrival that changes nothing starts the slice of the
  executing task again (kernel.cpp:182), where scheduler.hpp:181-185 assigns it
  when the task starts executing; this is the second term of `BoundedWait`.

In the servers:

* a constant bandwidth server without work is idle from the tick its virtual time
  falls in (cbserver.cpp:213), not, as after a replenishment (324) or in
  SporadicServer (sporadicserver.cpp:115), from the next: a new job then gets a
  full budget and a new deadline too early, and the server more than the Q / P of
  a "COnstant Bandwidth Server" (server.hpp:52). In `cbs`, `ImplementsReservation`
  fails when `Rounded` is FALSE in its mapping: with 2 in 5, a server that works
  one tick of every two always has budget;
* `CBServer::changeBudget` assigns Q before it computes n - Q (cbserver.cpp:56-58),
  so that the capacity of the present period never changes;
* a sporadic server that becomes ready from idle has its whole budget although
  replenishments are still to come (sporadicserver.cpp:51-62), so that it may use
  more than its share; `NoBudgetIsLost` is the one half of its account that holds;
* a smaller budget for a sporadic server that has just become ready pops the
  replenishment that has no amount yet, and the next execution writes to the back
  of an empty list (sporadicserver.cpp:313-318); that function also reads the front of
  the list unasked for its result (288), which only supervisors not modelled here use;
* a polling server that is still ready or executing when its period is over fails
  `assert(status == RECHARGING)` (server.cpp:278): it is correct only where its
  priority is high enough for its budget;
* a round robin scheduler inside of a server never rotates: servers call
  `notify` with a null pointer only, which posts no round event.

## 7. Not modelled, and why

* `SuperCBS` and `SparePot`: supervisors that nothing in the repository builds.
  SparePot reads past a row of its table from its first server on, and so has no
  defined state; SuperCBS calls `changeBudget`, which `Server` has.
* Several runs of servers, `killInstance` on a server, servers on
  MRTKernel, resources in servers, kills of jobs with critical sections, speeds
  other than 1, `run_to` and disposable events.
* Power and speed models, the statistics and the schedulability tests are
  floating-point formulas; tracing is output; YAML and construction happen before
  the simulation.
* Some files are not compiled at all (energyMRTKernel, multisched, piresmanager,
  bwi, AVRTask and others, see `PROJECT.json`), and src/old, the examples and the
  tools are not part of the program: together with the formulas, the output and
  the input they are most of the lines of the repository. The code that
  decides what a simulation does is in some twenty files of `librtsim` and four of
  `libmetasim`, which are the ones the map covers.

## 8. Plan

1. Servers over several runs; kills of tasks that hold or wait for resources;
   FCFSResManager over two kernels.
2. MRTKernel with real tasks and servers in place of the open environment.
3. `SuperCBS` on the budgets of `Server`; `run_to` and the disposable events.
4. Proofs about the servers beyond `ActiveIsInUse` and `NoBudgetIsLost`: on top of the
   types (`Typed`) and the agenda (`Orderly`) of `ServerBudget_proofs`, `ServersAgree` of
   one class of servers first, then `VirtualTimeIsBudget` and the steps of
   `ImplementsReservation`.
