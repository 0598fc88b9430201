----------------------------- MODULE EventOrder -----------------------------
(***************************************************************************)
(* The agenda as a specification: what Event and Simulation offer to the   *)
(* entities of a simulation, without the std::set, its comparison and its  *)
(* counter.                                                                *)
(***************************************************************************)
EXTENDS Agenda

CONSTANTS Events, Priorities

VARIABLES clock, agenda

vars == <<clock, agenda>>

Init == clock = 0 /\ agenda = <<>>

(* An event is posted, or moved, to a place now or later. *)
Posts(e) ==
    \E i \in DOMAIN agenda' :
        LET y == agenda'[i]
        IN  /\ y.ev = e /\ y.at >= clock /\ y.prio \in Priorities
            /\ agenda' = PostIn(DropFrom(agenda, e), y)
            /\ UNCHANGED clock

Cancel(e) == agenda' = DropFrom(agenda, e) /\ UNCHANGED clock

(* The event handled is the first of the agenda. *)
Handle ==
    /\ agenda # <<>>
    /\ clock' = Head(agenda).at
    /\ agenda' = Tail(agenda)

(* A new run. *)
Reset == clock' = 0 /\ agenda' = <<>>

Next == Handle \/ Reset \/ \E e \in Events : Posts(e) \/ Cancel(e)

Spec == Init /\ [][Next]_vars
=============================================================================
