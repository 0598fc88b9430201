------------------------------- MODULE Agenda -------------------------------
(***************************************************************************)
(* What the event queue of libmetasim promises to the entities of a        *)
(* simulation.  The agenda is the sequence of the posted events in the     *)
(* order they will be handled: by time, then by priority (the lower        *)
(* number first), then in the order they were posted.  Time is that of     *)
(* the last event handled and does not go back within a run.               *)
(***************************************************************************)
EXTENDS Integers, Sequences, FiniteSets, SequencesExt

(* An event of the agenda. *)
Entry(e, at, prio) == [ev |-> e, at |-> at, prio |-> prio]

IsPosted(q, e) == \E i \in DOMAIN q : q[i].ev = e

(* x, once in the agenda, is handled before an entry y that comes later. *)
Precedes(x, y) == x.at < y.at \/ (x.at = y.at /\ x.prio <= y.prio)

(* The agenda with the entry y: behind all that precede it.  (Here and       *)
(* below the agenda is the argument of a function, of which TLC evaluates it *)
(* once, not at every use.)                                                  *)
PostIn(q, y) ==
    LET Posted[p \in {q}] ==
            InsertAt(p, Cardinality({i \in DOMAIN p : Precedes(p[i], y)}) + 1, y)
    IN  Posted[q]

(* The agenda without the event e, which is posted once if at all. *)
DropFrom(q, e) ==
    LET Dropped[p \in {q}] ==
            IF IsPosted(p, e)
            THEN RemoveAt(p, CHOOSE i \in DOMAIN p : p[i].ev = e)
            ELSE p
    IN  Dropped[q]

(* The agenda without the events E, each posted once if at all. *)
DropAllFrom(q, E) ==
    LET Dropped[p \in {q}] ==
            LET Kept == {i \in DOMAIN p : p[i].ev \notin E}
                Nth(n) == CHOOSE i \in Kept :
                              Cardinality({h \in Kept : h < i}) + 1 = n
            IN  [n \in 1..Cardinality(Kept) |-> p[Nth(n)]]
    IN  Dropped[q]
=============================================================================
