----------------------------- MODULE Reservation -----------------------------
(***************************************************************************)
(* What constant bandwidth servers promise to the rest of the system,      *)
(* without queues, events or states: the reservation s has a budget of     *)
(* Q[s] for every P[s], a deadline dl[s], and used[s] of the budget it has *)
(* is used.  One reservation at a time is served, none beyond its budget.  *)
(*                                                                         *)
(* A budget and a deadline say a virtual time, dl - (Q - used) * P / Q:    *)
(* the moment until which the reservation has had its share Q / P of the   *)
(* processor.  A new budget comes with a later deadline, when the old one  *)
(* is spent or when the virtual time is past.  A virtual time that falls   *)
(* between two ticks counts as past from the first of them on if Rounded,  *)
(* and from the second if not.                                             *)
(***************************************************************************)
EXTENDS Integers

CONSTANTS Servers, None, Q, P, Rounded

ReservationAssumption ==
    /\ Rounded \in BOOLEAN
    /\ Q \in [Servers -> Nat \ {0}]
    /\ P \in [Servers -> Nat \ {0}]
    /\ None \notin Servers

VARIABLES
    clock, used, dl,
    hard               (* the reservations that wait for their deadlines     *)

vars == <<clock, used, dl, hard>>

Init ==
    /\ clock = 0
    /\ used = [s \in Servers |-> 0]
    /\ dl = P
    /\ hard \in SUBSET Servers

(* What s has used when time has passed until clock' and r was served. *)
Until(r, s) == IF s = r THEN used[s] + (clock' - clock) ELSE used[s]

(* Of the virtual time, with u of the budget used, times Q[s]. *)
Share(s, d, u) == d * Q[s] - (Q[s] - u) * P[s]

(* The virtual time of s is past. *)
IsPast(s, u) ==
    IF Rounded THEN Share(s, dl[s], u) < (clock' + 1) * Q[s]
               ELSE Share(s, dl[s], u) <= clock' * Q[s]

(* Nothing else happens to s. *)
Keeps(s, u) == used'[s] = u /\ dl'[s] = dl[s]

(* The budget is spent: a new one, and the deadline is put off; a hard      *)
(* reservation waits for the deadline it had.                               *)
Postpones(s, u) ==
    /\ u = Q[s] /\ (s \in hard => dl[s] <= clock')
    /\ used'[s] = 0 /\ dl'[s] = dl[s] + P[s]

(* The virtual time of s is past: a fresh start, with a full budget ... *)
Renews(s, u) ==
    /\ IsPast(s, u)
    /\ used'[s] = 0 /\ dl'[s] = clock' + P[s]

(* ... or with as much as fits in until the deadline it has. *)
Reuses(s, u) ==
    /\ IsPast(s, u)
    /\ used'[s] \in 0..Q[s] /\ dl'[s] = dl[s]
    /\ clock' * Q[s] <= Share(s, dl[s], used'[s])

Step(r) ==
    /\ clock' \in Nat /\ clock' >= clock
    /\ used' \in [Servers -> Int] /\ dl' \in [Servers -> Int]
    /\ UNCHANGED hard
    /\ \A s \in Servers :
          /\ Until(r, s) <= Q[s]
          /\ \/ Keeps(s, Until(r, s))  \/ Postpones(s, Until(r, s))
             \/ Renews(s, Until(r, s)) \/ Reuses(s, Until(r, s))

Next == \E r \in Servers \cup {None} : Step(r)

Spec == Init /\ [][Next]_vars
=============================================================================
