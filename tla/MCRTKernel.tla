----------------------------- MODULE MCRTKernel -----------------------------
(***************************************************************************)
(* Task sets for RTKernel.                                                 *)
(***************************************************************************)
EXTENDS RTKernel

CONSTANTS t1, t2, t3, r1

MCTasks == <<t1, t2, t3>>

Each(a, b, c) == [t \in {t1, t2, t3} |->
                     CASE t = t1 -> a [] t = t2 -> b [] t = t3 -> c]

Exec(costs) == [op |-> "exec", costs |-> costs]
Sleep(d)    == [op |-> "suspend", delay |-> d]
Take(n)     == [op |-> "wait", res |-> r1, nr |-> n]
Give(n)     == [op |-> "signal", res |-> r1, nr |-> n]

Nothing  == [r \in {} |-> 0]
AllZero  == Each(0, 0, 0)
Early    == Each({0, 1}, {0, 1}, {0, 1})
Late     == Each({0}, {0, 1}, {0, 1})
LongBuffer == Each(1000, 1000, 1000)

(* Three sporadic tasks that together may use the CPU fully: 1/3 + 1/6 + 4/8. *)
FullPrograms  == Each(<<Exec({1})>>, <<Exec({1})>>, <<Exec({2}), Exec({2})>>)
FullPeriods   == Each({3, 4}, {6}, {8, 9})
FullDeadlines == Each(3, 6, 8)

(* Critical sections over a resource of two units, one job wanting both,    *)
(* and suspensions inside and outside of them, with the lowest priority     *)
(* asking first.                                                            *)
ResourcePrograms ==
    Each(<<Exec({1}), Take(2), Sleep(2), Give(2), Exec({1})>>,
         <<Exec({0, 1}), Take(1), Exec({1, 2}), Give(1)>>,
         <<Exec({1, 2}), Take(1), Sleep(0), Give(1), Exec({1})>>)
TwoUnits        == [r \in {r1} |-> 2]
ResourcePhases  == Each({1, 2}, {0, 1, 2}, {0})
ResourcePeriods == Each({4, 5}, {6}, {5, 7})
ByNumber        == Each(1, 2, 3)

(* More work than time, with arrivals buffered or discarded; an interarrival *)
(* time of 0 is the last.                                                    *)
BusyPrograms  == Each(<<Exec({0, 7})>>, <<Exec({2}), Exec({0, 1})>>, <<Exec({1})>>)
BusyPeriods   == Each({2}, {0, 3}, {0, 4})
BusyDeadlines == Each(2, 5, 3)
BusyBuffers   == Each(1, 1000, -1)

(* Slices of round robin. *)
BusySlices    == Each(2, 1, 1)
=============================================================================
