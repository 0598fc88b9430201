----------------------------- MODULE Simulation -----------------------------
(***************************************************************************)
(* The engine of libmetasim: the event queue (a std::set ordered by time,  *)
(* priority and a counter) and the main loop of Simulation::run.  The      *)
(* entities are the environment: in their newRun, their event handlers and *)
(* their endRun they post, drop and process events as they like.           *)
(***************************************************************************)
EXTENDS Integers, Sequences, FiniteSets

CONSTANTS
    Events,        (* the Event objects                                      *)
    StdPriority,   (* the priority each was constructed with                 *)
    EndTick,       (* the length of a run                                    *)
    Delays,        (* how far ahead (or behind) the entities post            *)
    Runs,          (* how many runs                                          *)
    MaxPosts       (* bound on the number of posts of the whole simulation   *)

ASSUME EngineAssumption ==
    /\ StdPriority \in [Events -> Nat]
    /\ EndTick \in Nat
    /\ Delays \subseteq Int
    /\ Runs \in Nat \ {0, 2}
    /\ MaxPosts \in Nat

VARIABLES
    globTime,      (* Simulation::globTime                                   *)
    actRuns,       (* Simulation::actRuns                                    *)
    phase,         (* where Simulation::run is                               *)
    eventQueue,    (* Event::_eventQueue                                     *)
    counter,       (* Event::counter                                         *)
    time,          (* Event::_time, of each event                            *)
    priority,      (* Event::_priority                                       *)
    order,         (* Event::_order                                          *)
    isInQueue,     (* Event::_isInQueue                                      *)
    exc            (* the exception that ended the program, or "none"        *)

fields == <<time, priority, order, isInQueue>>
vars   == <<globTime, actRuns, phase, eventQueue, counter, fields, exc>>

Immediate == 0
MaxTick   == -1   (* the MAXTICK of an event never posted; no model time is
                     MAXTICK, and nothing is posted for the end of time *)

Phases == {"newRun", "loop", "handler", "endRun", "over"}

-----------------------------------------------------------------------------
(* The order with the counter the wrong way round: the last goes first. *)
CmpLastFirst(e1, e2) ==
    \/ time[e1] < time[e2]
    \/ time[e1] = time[e2] /\ priority[e1] < priority[e2]
    \/ /\ time[e1] = time[e2]
       /\ priority[e1] = priority[e2]
       /\ order[e1] > order[e2]

(* Event::Cmp *)
Cmp(e1, e2) ==
    \/ time[e1] < time[e2]
    \/ time[e1] = time[e2] /\ priority[e1] < priority[e2]
    \/ /\ time[e1] = time[e2]
       /\ priority[e1] = priority[e2]
       /\ order[e1] < order[e2]

First == CHOOSE e \in eventQueue : \A f \in eventQueue \ {e} : Cmp(e, f)

(* Erasing from a std::set removes the element equivalent to the key, if   *)
(* there is one, be it the event itself or not.                            *)
Erased(e) == {f \in eventQueue : ~Cmp(e, f) /\ ~Cmp(f, e)}

-----------------------------------------------------------------------------
(* What entities do, in their newRun, handlers and endRun.                   *)

EntityCalled == exc = "none" /\ phase \in {"newRun", "handler", "endRun"}

(* A post that forgets to check the time. *)
PostAnyTime(e, t) ==
    /\ EntityCalled
    /\ counter < MaxPosts
    /\ IF isInQueue[e]
       THEN exc' = "AlreadyPosted" /\ UNCHANGED <<eventQueue, counter, fields>>
       ELSE /\ time' = [time EXCEPT ![e] = t]
            /\ order' = [order EXCEPT ![e] = counter]
            /\ counter' = counter + 1
            /\ eventQueue' = eventQueue \cup {e}
            /\ isInQueue' = [isInQueue EXCEPT ![e] = TRUE]
            /\ UNCHANGED <<priority, exc>>
    /\ UNCHANGED <<globTime, actRuns, phase>>

(* Event::post *)
Post(e, t) ==
    /\ EntityCalled
    /\ counter < MaxPosts
    /\ IF isInQueue[e] \/ t < globTime
       THEN /\ exc' = IF isInQueue[e] THEN "AlreadyPosted" ELSE "InThePast"
            /\ UNCHANGED <<eventQueue, counter, fields>>
       ELSE /\ time' = [time EXCEPT ![e] = t]
            /\ order' = [order EXCEPT ![e] = counter]
            /\ counter' = counter + 1
            /\ eventQueue' = eventQueue \cup {e}
            /\ isInQueue' = [isInQueue EXCEPT ![e] = TRUE]
            /\ UNCHANGED <<priority, exc>>
    /\ UNCHANGED <<globTime, actRuns, phase>>

(* Event::drop *)
Drop(e) ==
    /\ EntityCalled
    /\ eventQueue' = eventQueue \ Erased(e)
    /\ isInQueue' = [isInQueue EXCEPT ![e] = FALSE]
    /\ UNCHANGED <<globTime, actRuns, phase, counter, time, priority, order,
                   exc>>

(* Event::process: drop, then post at once with the immediate priority. *)
Process(e) ==
    /\ EntityCalled
    /\ counter < MaxPosts
    /\ priority' = [priority EXCEPT ![e] = Immediate]
    /\ time' = [time EXCEPT ![e] = globTime]
    /\ order' = [order EXCEPT ![e] = counter]
    /\ counter' = counter + 1
    /\ eventQueue' = (eventQueue \ Erased(e)) \cup {e}
    /\ isInQueue' = [isInQueue EXCEPT ![e] = TRUE]
    /\ UNCHANGED <<globTime, actRuns, phase, exc>>

-----------------------------------------------------------------------------
(* The main loop.                                                            *)

Call(from, to) ==
    /\ exc = "none"
    /\ phase = from
    /\ phase' = to

(* Entity::callNewRun has returned. *)
NewRunDone ==
    /\ Call("newRun", "loop")
    /\ UNCHANGED <<globTime, actRuns, eventQueue, counter, fields, exc>>

(* Simulation::sim_step, up to the call of doit. *)
SimStep ==
    /\ Call("loop", "handler")
    /\ globTime < EndTick
    /\ eventQueue # {}
    /\ globTime' = time[First]
    /\ eventQueue' = eventQueue \ Erased(First)
    /\ isInQueue' = [isInQueue EXCEPT ![First] = FALSE]
    /\ priority' = [priority EXCEPT ![First] = StdPriority[First]]
    /\ UNCHANGED <<actRuns, counter, time, order, exc>>

(* The handler has returned, and with it sim_step. *)
HandlerDone ==
    /\ Call("handler", "loop")
    /\ UNCHANGED <<globTime, actRuns, eventQueue, counter, fields, exc>>

(* The run is over: in time, or for want of events. *)
LoopDone ==
    /\ Call("loop", "endRun")
    /\ globTime >= EndTick \/ eventQueue = {}
    /\ UNCHANGED <<globTime, actRuns, eventQueue, counter, fields, exc>>

(* A clearEventQueue that empties the set behind the events' backs. *)
EmptySet == eventQueue' = {} /\ UNCHANGED isInQueue

(* Simulation::clearEventQueue *)
ClearEventQueue ==
    /\ eventQueue' = {}
    /\ isInQueue' = [e \in Events |-> isInQueue[e] /\ e \notin eventQueue]

(* Entity::callEndRun has returned; the next run, if there is one. *)
EndSingleRun ==
    /\ Call("endRun", IF actRuns + 1 < Runs THEN "newRun" ELSE "over")
    /\ ClearEventQueue
    /\ globTime' = 0
    /\ actRuns' = actRuns + 1
    /\ UNCHANGED <<counter, time, priority, order, exc>>

Stopped == (exc # "none" \/ phase = "over") /\ UNCHANGED vars

-----------------------------------------------------------------------------
Init ==
    /\ globTime = 0
    /\ actRuns = 0
    /\ phase = "newRun"
    /\ eventQueue = {}
    /\ counter = 0
    /\ time = [e \in Events |-> MaxTick]
    /\ priority = StdPriority
    /\ order = [e \in Events |-> 0]
    /\ isInQueue = [e \in Events |-> FALSE]
    /\ exc = "none"

Next ==
    \/ \E e \in Events :
          (\E d \in Delays : Post(e, globTime + d)) \/ Drop(e) \/ Process(e)
    \/ NewRunDone \/ SimStep \/ HandlerDone \/ LoopDone \/ EndSingleRun
    \/ Stopped

Spec == Init /\ [][Next]_vars

-----------------------------------------------------------------------------
TypeOK ==
    /\ globTime \in Nat
    /\ actRuns \in 0..Runs
    /\ phase \in Phases
    /\ eventQueue \in SUBSET Events
    /\ counter \in Nat
    /\ time \in [Events -> Nat \cup {MaxTick}]
    /\ priority \in [Events -> Nat]
    /\ order \in [Events -> Nat]
    /\ isInQueue \in [Events -> BOOLEAN]
    /\ exc \in {"none", "AlreadyPosted", "InThePast"}

(* An event knows whether it is in the queue: dropping or clearing never    *)
(* removes another event than the one asked for (std::set::erase is given   *)
(* a key, and keys of events long handled are compared with live ones).     *)
FlagIsMembership == \A e \in Events : isInQueue[e] <=> e \in eventQueue

(* Nothing in the queue is older than the clock, across runs too.  (Part of  *)
(* ImplementsAgenda: events are posted for now or later, and handled in the  *)
(* order of their times.)                                                    *)
NothingInThePast == \A e \in eventQueue : time[e] >= globTime

-----------------------------------------------------------------------------
(* The engine implements the agenda.                                         *)

(* The place of an event in the set, and the event of a place. *)
Place(e) == Cardinality({f \in eventQueue : Cmp(f, e)}) + 1

EventAt(i) == CHOOSE e \in eventQueue : Place(e) = i

(* The set in its order. *)
Queued ==
    [i \in 1..Cardinality(eventQueue) |->
        LET e == EventAt(i)
        IN  [ev |-> e, at |-> time[e], prio |-> priority[e]]]

Order == INSTANCE EventOrder WITH
    Priorities <- {Immediate} \cup {StdPriority[e] : e \in Events},
    clock <- globTime,
    agenda <- Queued

(* Events are handled by time, then priority, then in the order of posting  *)
(* (the comment of Event::Cmp says by address); none is handled twice or    *)
(* lost, except by a drop or the end of the run.                            *)
ImplementsAgenda == Order!Spec
=============================================================================
