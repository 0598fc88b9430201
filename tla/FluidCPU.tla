------------------------------ MODULE FluidCPU ------------------------------
(***************************************************************************)
(* What a preemptive single-processor kernel promises, without events,     *)
(* queues or instructions: jobs of a given amount of work and a given      *)
(* rank; the CPU is never idle while there is work, and at every moment    *)
(* serves one of the jobs of the lowest rank.                              *)
(***************************************************************************)
EXTENDS Integers

CONSTANTS Tasks, None

VARIABLES clock, work, rank

vars == <<clock, work, rank>>

Init == clock = 0 /\ work = [t \in Tasks |-> 0] /\ rank \in [Tasks -> Int]

Pending == {t \in Tasks : work[t] > 0}

(* The CPU may serve r; no one, if there is no work. *)
MayRun(r) ==
    IF Pending = {} THEN r = None
    ELSE r \in Pending /\ \A t \in Pending : rank[r] <= rank[t]

(* The work that is left when r has been served until clock'. *)
Left(r) ==
    [t \in Tasks |-> IF t = r THEN work[t] - (clock' - clock) ELSE work[t]]

(* Time passes, then jobs may start: only a task without work gets any, and *)
(* the rank of a job never changes.                                         *)
Next ==
    /\ clock' >= clock
    /\ \E r \in Tasks \cup {None} :
          /\ clock' > clock => MayRun(r)
          /\ \A t \in Tasks : Left(r)[t] >= 0
          /\ \A t \in Tasks :
                work'[t] # Left(r)[t] \/ rank'[t] # rank[t] => Left(r)[t] = 0

Spec == Init /\ [][Next]_vars
=============================================================================
