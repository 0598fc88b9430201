---------------------------- MODULE TaskPlacement ----------------------------
(***************************************************************************)
(* What a multiprocessor kernel promises its tasks, without queue, events  *)
(* or time: where each task may be and how it may move.  A task is out of  *)
(* the ready queue, waits in it, is dispatched to a CPU (the context       *)
(* switch towards it is under way) or is running on that CPU.  A CPU is    *)
(* never promised to two tasks.                                            *)
(***************************************************************************)
CONSTANTS Tasks, CPUs

VARIABLE place

Out           == <<"out">>
Waiting       == <<"waiting">>
Dispatched(p) == <<"dispatched", p>>
OnCPU(p)      == <<"running", p>>

Holds(t, p, where) == where[t] = Dispatched(p) \/ where[t] = OnCPU(p)

(* No CPU is held by two tasks. *)
Exclusive(where) ==
    \A p \in CPUs, t, u \in Tasks :
        Holds(t, p, where) /\ Holds(u, p, where) => t = u

(* A task starts only on the CPU it was dispatched to; it loses a CPU only *)
(* to wait again, and leaves the queue only from a CPU.                    *)
Legal(from, to) ==
    \/ to = from
    \/ from = Out /\ to = Waiting
    \/ from = Waiting /\ \E p \in CPUs : to = Dispatched(p)
    \/ \E p \in CPUs : from = Dispatched(p) /\ to \in {OnCPU(p), Waiting}
    \/ \E p \in CPUs : from = OnCPU(p) /\ to \in {Waiting, Out, Dispatched(p)}

Init == place = [t \in Tasks |-> Out]

(* One event moves every task it concerns. *)
Move ==
    /\ \A t \in Tasks : Legal(place[t], place'[t])
    /\ Exclusive(place')

(* A new run starts from nothing. *)
Reset == place' = [t \in Tasks |-> Out]

Next == Move \/ Reset

Spec == Init /\ [][Next]_place
=============================================================================
