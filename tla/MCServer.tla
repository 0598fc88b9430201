------------------------------ MODULE MCServer ------------------------------
(***************************************************************************)
(* Task sets and servers for Server.                                       *)
(***************************************************************************)
EXTENDS Server

CONSTANTS ta, tb, tc, s1, s2

Exec(costs) == [op |-> "exec", costs |-> costs]
Sleep(d)    == [op |-> "suspend", delay |-> d]

EachTask(x, y, z) == [t \in {ta, tb, tc} |-> CASE t = ta -> x [] t = tb -> y [] t = tc -> z]
EachServer(x, y)  == [s \in {s1, s2} |-> IF s = s1 THEN x ELSE y]

MCEntities == <<ta, tb, tc, s1, s2>>
MCHome     == EachTask(Kernel, s1, s2)
NoChange   == EachServer({Never}, {Never})
NoBudget   == EachServer({}, {})
NoPriority == [x \in {ta, tb, tc, s1, s2} |-> 0]

(* A periodic task beside two servers, of which one has a period that is no *)
(* multiple of its budget: with its virtual time rounded down it may take   *)
(* half of the CPU, and the three together use it fully.  The tasks inside  *)
(* wake up as the virtual times fall on ticks or between them.              *)
CBSPrograms  == EachTask(<<Exec({1})>>, <<Exec({1,2}), Sleep(1), Exec({1,3})>>, <<Exec({1}), Sleep(1), Exec({1,2})>>)
CBSPhases    == EachTask({0}, {0, 1, 2}, {0, 1, 2})
CBSPeriods   == EachTask({4}, {18, 19}, {13})
CBSDeadlines == EachTask(4, 0, 0)
CBSQ         == EachServer(2, 1)
CBSP         == EachServer(5, 4)
CBSKinds     == EachServer({"hardCBS", "softCBS", "reuseCBS"}, {"hardCBS", "softCBS"})

(* Two servers of even rates and a job that ends as the next of its task    *)
(* arrives.                                                                 *)
YieldPrograms == EachTask(<<Exec({1})>>, <<Exec({2})>>, <<Exec({1})>>)
YieldPhases   == EachTask({0}, {0, 1, 2}, {0})
YieldPeriods  == EachTask({4}, {2, 6}, {9})
YieldQ        == EachServer(4, 1)
YieldP        == EachServer(8, 4)
YieldKinds    == EachServer({"hardCBS", "softCBS"}, {"hardCBS", "softCBS", "reuseCBS"})

(* The task and servers of the other kinds, by fixed priorities. *)
FPPriority  == [x \in {ta, tb, tc, s1, s2} |-> CASE x = s1 -> 1 [] x = ta -> 2 [] OTHER -> 3]
FPKinds     == EachServer({"polling", "sporadic", "grub", "hardCBS", "softCBS"}, {"polling", "sporadic", "grub"})
FPPhases    == EachTask({0,1},{0,1,2},{0,1})
FPPrograms  == EachTask(<<Exec({2})>>, <<Exec({1,3})>>, <<Exec({1}), Sleep(1), Exec({1})>>)
FPPeriods   == EachTask({8}, {9}, {8})
FPDeadlines == EachTask(5, 0, 0)
FPQ         == EachServer(2, 4)
FPP         == EachServer(8, 8)
FPChanges   == EachServer({Never, 3, 5, 6, 12, 13}, {Never})
FPBudgets   == EachServer({1,3}, {})

(* A sporadic server below another and a task. *)
LateKinds     == EachServer({"sporadic"}, {"sporadic"})
LatePrograms  == EachTask(<<Exec({1,2})>>, <<Exec({1,2})>>, <<Exec({1}), Sleep(1), Exec({1,2})>>)
LatePhases    == EachTask({0}, {0, 1, 5}, {0})
LatePeriods   == EachTask({6}, {}, {8})
LateDeadlines == EachTask(6, 0, 0)
LateQ         == EachServer(1, 4)
LateP         == EachServer(4, 8)
=============================================================================
