----------------------------- MODULE ServerWorld -----------------------------
(***************************************************************************)
(* What the servers of librtsim share: the events around them, the kernel  *)
(* they run on (an RTKernel without context switch delay) and the          *)
(* schedulers of both.                                                     *)
(*                                                                         *)
(* A handler calls its way through several objects before it returns.  The *)
(* world w is the state in the middle of such a handler, a record whose    *)
(* fields are the variables of the module Server; a method is an operator  *)
(* from the world before the call to the world after it, and w.exc is the  *)
(* exception or the assertion that stopped it.                             *)
(***************************************************************************)
EXTENDS Agenda, CapacityTimer, SequencesExt

CONSTANTS
    Kernel,            (* the RTKernel                                       *)
    Tasks, Servers,
    EntitySeq,         (* tasks and servers in the order they were created   *)
    Home,              (* the kernel of each task: Kernel or a server        *)
    EDF,               (* the scheduler of Kernel: EDF if TRUE, FP if FALSE  *)
    FixedPriority,     (* the priorities of FPScheduler                      *)
    Q, P,              (* the initial budgets and the periods of the servers *)
    VUnit,             (* virtual times are integers of 1/VUnit ticks        *)
    UUnit,             (* and utilisations of 1/UUnit                        *)
    None               (* the null pointer                                   *)

Kernels  == Servers \cup {Kernel}
Entities == Tasks \cup Servers

ASSUME ServerAssumption ==
    /\ Kernel \notin Entities /\ None \notin Entities \cup {Kernel}
    /\ Tasks \cap Servers = {}
    /\ EntitySeq \in Seq(Entities) /\ ToSet(EntitySeq) = Entities
    /\ Home \in [Tasks -> Kernels]
    /\ EDF \in BOOLEAN /\ VUnit \in Nat \ {0} /\ UUnit \in Nat \ {0}
    /\ \A s \in Servers : P[s] \in Nat \ {0} /\ Q[s] \in 1..P[s]

(* The unit of virtual time is fine enough for the rates P / Q, which the   *)
(* program keeps in doubles: VRate, below, rounds nothing.                  *)
ASSUME RateAssumption == \A s \in Servers : (P[s] * VUnit) % Q[s] = 0

-----------------------------------------------------------------------------
(* Events and their priorities.                                              *)

Begin       == <<"beginDispatch", None>>
EndDisp     == <<"endDispatch", None>>
Arr(t)      == <<"arr", t>>
FakeArr(t)  == <<"fakeArr", t>>
InstrEvt(t) == <<"instr", t>>
EndEvt(t)   == <<"end", t>>
Susp(t)     == <<"susp", t>>
Resume(t)   == <<"resume", t>>
Sched(x)    == <<"sched", x>>
Desched(x)  == <<"desched", x>>
BandEx(s)   == <<"bandEx", s>>
Recharge(s) == <<"recharging", s>>
Dispatch(s) == <<"dispatch", s>>
DlineMiss(s)== <<"dlineMiss", s>>
Repl(s)     == <<"replenishing", s>>
Idle(s)     == <<"goingIdle", s>>
CBSIdle(s)  == <<"CBSGoingIdle", s>>
ChangeEvt(s)== <<"changeBudget", s>>

(* dlineMiss has the priority that PollingServer gives it.  It needs no     *)
(* action: the recharging event of the same instant drops it first, or the  *)
(* program fails; and its handler is empty.                                 *)
Priority(e) ==
    CASE e[1] \in {"sched", "desched", "susp"}                 -> 0
      [] e[1] = "instr"                                        -> 5
      [] e[1] = "end"                                          -> 6
      [] e[1] \in {"replenishing", "recharging", "CBSGoingIdle"} -> 7
      [] e[1] = "dlineMiss"                                    -> 10
      [] e[1] = "bandEx"                                       -> 12
      [] e[1] = "dispatch"                                     -> 13
      [] e[1] \in {"beginDispatch", "endDispatch"}             -> 18
      [] OTHER                                                 -> 8

Throw(w, x) == [w EXCEPT !.exc = IF @ = "none" THEN x ELSE @]

(* Event::drop, post and process *)
Drop(w, e) == [w EXCEPT !.q = DropFrom(@, e)]

Post(w, e, at) ==
    IF IsPosted(w.q, e) THEN Throw(w, "AlreadyPosted")
    ELSE IF at < w.now THEN Throw(w, "PostedInThePast")
    ELSE [w EXCEPT !.q = PostIn(@, Entry(e, at, Priority(e)))]

Process(w, e) ==
    [w EXCEPT !.q = PostIn(DropFrom(@, e), Entry(e, w.now, 0))]

-----------------------------------------------------------------------------
(* Schedulers.                                                               *)

Number(x) == CHOOSE i \in DOMAIN EntitySeq : EntitySeq[i] = x

Deadline(w, x) == IF x \in Servers THEN w.sv[x].dl ELSE w.tk[x].dl

(* A server schedules its tasks first in, first out. *)
Rank(w, k, x) ==
    IF k # Kernel THEN w.tk[x].arrival
    ELSE IF EDF THEN Deadline(w, x)
    ELSE FixedPriority[x]

(* TaskModelCmp *)
Ahead(w, k, x, y) ==
    LET i == w.insertTime[x]
        j == w.insertTime[y]
    IN  \/ Rank(w, k, x) < Rank(w, k, y)
        \/ /\ Rank(w, k, x) = Rank(w, k, y)
           /\ i < j \/ (i = j /\ Number(x) < Number(y))

First(w, k) ==
    IF w.queue[k] = {} THEN None
    ELSE CHOOSE x \in w.queue[k] : \A y \in w.queue[k] \ {x} : Ahead(w, k, x, y)

(* Scheduler::insert and extract *)
Insert(w, k, x) ==
    [w EXCEPT !.queue[k] = @ \cup {x}, !.insertTime[x] = w.now]

Extract(w, k, x) == [w EXCEPT !.queue[k] = @ \ {x}]

SetExe(w, k, x) == [w EXCEPT !.currExe[k] = x]

-----------------------------------------------------------------------------
(* What a kernel does to a task or a server, and what RTKernel offers.       *)

(* Task::schedule and Server::schedule *)
Schedule(w, x) == Process(w, Sched(x))

(* Task::deschedule and Server::deschedule, which leaves schedEvt. *)
Deschedule(w, x) ==
    Process(IF x \in Tasks THEN Drop(w, Sched(x)) ELSE w, Desched(x))

(* RTKernel::dispatch *)
KernelDispatch(w) == Post(Drop(w, Begin), Begin, w.now)

(* RTKernel::onArrival *)
KernelOnArrival(w, x) == KernelDispatch(Insert(w, Kernel, x))

(* RTKernel::suspend *)
KernelSuspend(w, x) ==
    LET w1 == Extract(w, Kernel, x)
    IN  IF w.currExe[Kernel] = x THEN SetExe(Deschedule(w1, x), Kernel, None)
                                 ELSE w1

(* RTKernel::onEnd *)
KernelOnEnd(w, x) ==
    LET w1 == Extract(w, Kernel, x)
    IN  KernelDispatch(IF w.currExe[Kernel] = x THEN SetExe(w1, Kernel, None)
                                                ELSE w1)

-----------------------------------------------------------------------------
(* A server's record: kind, status, q (its budget Q), cap, dl (abs_dline),  *)
(* last (last_time), vtime, and for a sporadic server repl and ready        *)
(* (repl_queue and capacity_queue), for Grub the timer of its capacity.     *)

SetStatus(w, s, x) == [w EXCEPT !.sv[s].status = x]

(* The tick of a virtual time, truncated or rounded up. *)
Trunc(v) == v \div VUnit
Ceil(v)  == -((-v) \div VUnit)

VTime(w, s) == GetValue(w.sv[s].vtime, w.now)

SetVTime(w, s) ==
    IF w.sv[s].vtime.running THEN Throw(w, "TimerIsRunning")
    ELSE [w EXCEPT !.sv[s].vtime = SetValue(@, w.now * VUnit)]

StartVTime(w, s, rate) ==
    IF w.sv[s].vtime.running THEN Throw(w, "TimerIsRunning")
    ELSE [w EXCEPT !.sv[s].vtime = Started(@, rate, w.now)]

StopVTime(w, s) ==
    IF ~w.sv[s].vtime.running THEN Throw(w, "TimerIsStopped")
    ELSE [w EXCEPT !.sv[s].vtime = Stopped(@, w.now)]

(* How many units of virtual time a tick of execution is: P / Q, exactly    *)
(* (RateAssumption).                                                        *)
VRate(v, s) == (P[s] * VUnit) \div v.q
=============================================================================
