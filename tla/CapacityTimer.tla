---------------------------- MODULE CapacityTimer ----------------------------
(***************************************************************************)
(* CapacityTimer of librtsim: a value that grows with time at a rate while *)
(* the timer runs.  Values are fractions in the program; here they are     *)
(* integers of a unit the caller chooses, and so are the rates.            *)
(***************************************************************************)
EXTENDS Integers

(* A timer that is stopped at a value. *)
StoppedAt(x) == [value |-> x, last |-> 0, der |-> 1, running |-> FALSE]

(* CapacityTimer::get_value at the time t *)
GetValue(c, t) ==
    IF c.running THEN c.value + (t - c.last) * c.der ELSE c.value

(* CapacityTimer::start, stop and set_value *)
Started(c, rate, t) == [c EXCEPT !.der = rate, !.last = t, !.running = TRUE]

Stopped(c, t) == [c EXCEPT !.value = GetValue(c, t), !.running = FALSE]

SetValue(c, x) == [c EXCEPT !.value = x]

(* CapacityTimer::get_intercept of zero: how long until the value is zero.  *)
InterceptOfZero(c, t) ==
    IF c.der > 0 THEN (-GetValue(c, t)) \div c.der
                 ELSE GetValue(c, t) \div (-c.der)
=============================================================================
