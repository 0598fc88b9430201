---------------------------- MODULE MCSimulation ----------------------------
(***************************************************************************)
(* Three events on a small instance of the engine: two arrivals that share *)
(* a priority and a dispatch.                                              *)
(***************************************************************************)
EXTENDS Simulation

CONSTANTS e1, e2, e3

MCStdPriority == [e \in Events |-> IF e = e3 THEN 18 ELSE 8]

(* A handler may post in the past, now, at the next tick or past the end. *)
MCDelays == {-1, 0, 1, 3}
=============================================================================
