-------------------------- MODULE ServerBudget_proofs --------------------------
(***************************************************************************)
(* The theorem that a sporadic server loses no budget, for any number of   *)
(* servers of all classes together.  The account of each sporadic server   *)
(* is kept by every method of every class; that needs the types of the     *)
(* state and an agenda in order, which are proved with it.                 *)
(***************************************************************************)
EXTENDS Server_proofs

-----------------------------------------------------------------------------
(* The agenda.                                                               *)

(* Events that are processed: in the instant of the call, before all others. *)
Urgent == {"sched", "desched", "susp", "fakeArr"}

(* The priority an event has in the agenda. *)
PrioOf(e) == IF e[1] \in Urgent THEN 0 ELSE Priority(e)

Due(t, x) ==
    /\ x.at \in Nat /\ x.at >= t
    /\ x.prio = PrioOf(x.ev)
    /\ x.ev[1] \in Urgent => x.at = t

(* An agenda at the time t. *)
Orderly(q, t) ==
    /\ Proper(q)
    /\ \E S : q \in Seq(S) /\ \A x \in S : x.at \in Nat /\ x.prio \in Nat
    /\ \A x \in Entries(q) : Due(t, x)

LEMMA PriosAreNumbers ==
    ASSUME NEW e
    PROVE  PrioOf(e) \in Nat /\ (e[1] \notin Urgent => PrioOf(e) = Priority(e))
BY DEF PrioOf, Priority, Urgent

LEMMA DropOrderly ==
    ASSUME NEW q, NEW t, Orderly(q, t), NEW e
    PROVE  /\ Orderly(DropFrom(q, e), t)
           /\ Entries(DropFrom(q, e)) = {x \in Entries(q) : x.ev # e}
           /\ \A f : IsPosted(DropFrom(q, e), f) <=> IsPosted(q, f) /\ f # e
<1>1. PICK S : q \in Seq(S) /\ \A x \in S : x.at \in Nat /\ x.prio \in Nat
  BY DEF Orderly
<1>2. /\ DropFrom(q, e) \in Seq(S)
      /\ Proper(DropFrom(q, e))
      /\ Entries(DropFrom(q, e)) = {x \in Entries(q) : x.ev # e}
  BY <1>1, DropEntries DEF Orderly
<1>3. Orderly(DropFrom(q, e), t)
  BY <1>1, <1>2 DEF Orderly
<1>4. \A f : IsPosted(DropFrom(q, e), f) <=> IsPosted(q, f) /\ f # e
  BY <1>2, PostedEntries
<1> QED
  BY <1>2, <1>3, <1>4

LEMMA PostOrderly ==
    ASSUME NEW q, NEW t, Orderly(q, t), NEW y, Due(t, y), ~IsPosted(q, y.ev)
    PROVE  /\ Orderly(PostIn(q, y), t)
           /\ Entries(PostIn(q, y)) = Entries(q) \cup {y}
           /\ \A f : IsPosted(PostIn(q, y), f) <=> IsPosted(q, f) \/ f = y.ev
<1>1. PICK T : q \in Seq(T) /\ \A x \in T : x.at \in Nat /\ x.prio \in Nat
  BY DEF Orderly
<1> DEFINE S == T \cup {y}
<1>2. y.at \in Nat /\ y.prio \in Nat
  BY PriosAreNumbers DEF Due
<1>3. q \in Seq(S) /\ y \in S /\ \A x \in S : x.at \in Nat /\ x.prio \in Nat
  BY <1>1, <1>2
<1>4. Proper(q)
  BY DEF Orderly
<1> HIDE DEF S
<1>5. /\ PostIn(q, y) \in Seq(S)
      /\ Proper(PostIn(q, y))
      /\ Entries(PostIn(q, y)) = Entries(q) \cup {y}
  BY <1>3, <1>4, PostEntries
<1>6. Orderly(PostIn(q, y), t)
  BY <1>3, <1>5 DEF Orderly
<1>7. \A f : IsPosted(PostIn(q, y), f) <=> IsPosted(q, f) \/ f = y.ev
  BY <1>5, PostedEntries
<1> QED
  BY <1>5, <1>6, <1>7

-----------------------------------------------------------------------------
(* Worlds.                                                                   *)

Posted(w, e) == IsPosted(w.q, e)

Timers  == [value: Int, last: Int, der: Int, running: BOOLEAN]
Amounts == [at: Int, amount: Int]

Statuses == {"IDLE", "READY", "EXECUTING", "RELEASING", "RECHARGING"}

Records ==
    [kind: Classes, status: Statuses, q: Nat \ {0}, cap: Int, dl: Int, last: Int,
     vtime: Timers, capacity: Timers, repl: Seq(Amounts), ready: Seq(Amounts)]

Jobs ==
    [state: {"IDLE", "READY", "EXEC"}, actInstr: Nat \ {0}, cost: Int, done: Int,
     last: Int, arrival: Nat, dl: Int, arrQueue: Seq(Nat), endAt: Int, arrAt: Int]

Typed(w) ==
    /\ On(w, WorldFields)
    /\ w.now \in Nat
    /\ w.sv \in [Servers -> Records]
    /\ \A s \in Servers : w.sv[s].kind \in Kinds[s]
    /\ w.tk \in [Tasks -> Jobs]
    /\ On(w.queue, Kernels) /\ \A s \in Servers : w.queue[s] \subseteq Tasks
    /\ On(w.insertTime, Entities) /\ \A t \in Tasks : w.insertTime[t] \in Nat
    /\ On(w.currExe, Kernels)
    /\ w.sup \in [active: Int, residual: Int]
    /\ Orderly(w.q, w.now)

(* From w to v the agenda changes only, and an exception stays. *)
Elsewhere(w, v) ==
    /\ v.now = w.now /\ v.sv = w.sv /\ v.tk = w.tk /\ v.queue = w.queue
    /\ v.insertTime = w.insertTime /\ v.currExe = w.currExe /\ v.sup = w.sup
    /\ v.exc = "none" => w.exc = "none"

LEMMA AgendaChanged ==
    ASSUME NEW w, Typed(w), NEW p, Orderly(p, w.now)
    PROVE  /\ Typed([w EXCEPT !.q = p])
           /\ Elsewhere(w, [w EXCEPT !.q = p])
           /\ [w EXCEPT !.q = p].q = p
           /\ [w EXCEPT !.q = p].exc = w.exc
<1> DEFINE v == [w EXCEPT !.q = p]
<1>1. /\ On(v, WorldFields) /\ v.q = p
      /\ v.now = w.now /\ v.sv = w.sv /\ v.tk = w.tk /\ v.queue = w.queue
      /\ v.insertTime = w.insertTime /\ v.currExe = w.currExe /\ v.sup = w.sup
      /\ v.exc = w.exc
  BY DEF Typed, On, WorldFields
<1> HIDE DEF v
<1>2. Typed(v) /\ Elsewhere(w, v)
  BY <1>1 DEF Typed, Elsewhere
<1> QED
  BY <1>1, <1>2 DEF v

LEMMA Thrown ==
    ASSUME NEW w, Typed(w), NEW x, x # "none"
    PROVE  /\ Typed(Throw(w, x)) /\ Elsewhere(w, Throw(w, x))
           /\ Throw(w, x).exc # "none" /\ Throw(w, x).q = w.q
<1> DEFINE v == Throw(w, x)
<1>1. /\ On(v, WorldFields) /\ v.q = w.q
      /\ v.now = w.now /\ v.sv = w.sv /\ v.tk = w.tk /\ v.queue = w.queue
      /\ v.insertTime = w.insertTime /\ v.currExe = w.currExe /\ v.sup = w.sup
      /\ v.exc = (IF w.exc = "none" THEN x ELSE w.exc)
  BY DEF Typed, On, WorldFields, Throw
<1> HIDE DEF v
<1>2. Typed(v) /\ Elsewhere(w, v) /\ v.exc # "none"
  BY <1>1 DEF Typed, Elsewhere
<1> QED
  BY <1>1, <1>2 DEF v

LEMMA Dropped ==
    ASSUME NEW w, Typed(w), NEW e
    PROVE  /\ Typed(Drop(w, e)) /\ Elsewhere(w, Drop(w, e))
           /\ Drop(w, e).exc = w.exc
           /\ Entries(Drop(w, e).q) = {x \in Entries(w.q) : x.ev # e}
           /\ \A f : Posted(Drop(w, e), f) <=> Posted(w, f) /\ f # e
<1>1. /\ Orderly(DropFrom(w.q, e), w.now)
      /\ Entries(DropFrom(w.q, e)) = {x \in Entries(w.q) : x.ev # e}
      /\ \A f : IsPosted(DropFrom(w.q, e), f) <=> IsPosted(w.q, f) /\ f # e
  BY DropOrderly DEF Typed
<1> QED
  BY <1>1, AgendaChanged DEF Drop, Posted

(* A post either throws or adds an entry. *)
LEMMA PostAdds ==
    ASSUME NEW w, Typed(w), NEW e, e[1] \notin Urgent, NEW at \in Int
    PROVE  /\ Typed(Post(w, e, at)) /\ Elsewhere(w, Post(w, e, at))
           /\ \A f : Posted(Post(w, e, at), f) => Posted(w, f) \/ f = e
           /\ Post(w, e, at).exc = "none" =>
                 /\ ~Posted(w, e) /\ at >= w.now
                 /\ Entries(Post(w, e, at).q) = Entries(w.q) \cup {Entry(e, at, Priority(e))}
                 /\ \A f : Posted(Post(w, e, at), f) <=> Posted(w, f) \/ f = e
           /\ Entries(Post(w, e, at).q) = Entries(w.q) \cup {Entry(e, at, Priority(e))}
              \/ Entries(Post(w, e, at).q) = Entries(w.q)
<1> DEFINE y == Entry(e, at, Priority(e))
           v == Post(w, e, at)
<1>1. CASE Posted(w, e)
  <2>1. v = Throw(w, "AlreadyPosted")
    BY <1>1 DEF Post, Posted
  <2> HIDE DEF v, y
  <2>2. /\ Typed(v) /\ Elsewhere(w, v) /\ v.exc # "none" /\ v.q = w.q
    BY <2>1, Thrown
  <2> QED
    BY <2>2 DEF Posted, v
<1>2. CASE ~Posted(w, e) /\ at < w.now
  <2>1. v = Throw(w, "PostedInThePast")
    BY <1>2 DEF Post, Posted
  <2> HIDE DEF v, y
  <2>2. /\ Typed(v) /\ Elsewhere(w, v) /\ v.exc # "none" /\ v.q = w.q
    BY <2>1, Thrown
  <2> QED
    BY <2>2 DEF Posted, v
<1>3. CASE ~Posted(w, e) /\ ~(at < w.now)
  <2>1. v = [w EXCEPT !.q = PostIn(w.q, y)]
    BY <1>3 DEF Post, Posted
  <2>2. Due(w.now, y) /\ y.ev = e
    <3>1. w.now \in Nat
      BY DEF Typed
    <3>2. y.ev = e /\ y.at = at /\ y.prio = Priority(e)
      BY DEF Entry
    <3> QED
      BY <1>3, <3>1, <3>2, PriosAreNumbers DEF Due
  <2> HIDE DEF v, y
  <2>3. /\ Orderly(PostIn(w.q, y), w.now)
        /\ Entries(PostIn(w.q, y)) = Entries(w.q) \cup {y}
        /\ \A f : IsPosted(PostIn(w.q, y), f) <=> IsPosted(w.q, f) \/ f = e
    BY <1>3, <2>2, PostOrderly DEF Typed, Posted
  <2>4. Typed(v) /\ Elsewhere(w, v) /\ v.q = PostIn(w.q, y)
    BY <2>1, <2>3, AgendaChanged
  <2>5. at >= w.now
    BY <1>3 DEF Typed
  <2> QED
    BY <1>3, <2>3, <2>4, <2>5 DEF Posted, v, y
<1> QED
  BY <1>1, <1>2, <1>3

LEMMA Processed ==
    ASSUME NEW w, Typed(w), NEW e, e[1] \in Urgent
    PROVE  /\ Typed(Process(w, e)) /\ Elsewhere(w, Process(w, e))
           /\ Process(w, e).exc = w.exc
           /\ Entries(Process(w, e).q)
                 = {x \in Entries(w.q) : x.ev # e} \cup {Entry(e, w.now, 0)}
           /\ \A f : Posted(Process(w, e), f) <=> Posted(w, f) \/ f = e
<1> DEFINE p == DropFrom(w.q, e)
           y == Entry(e, w.now, 0)
<1>1. /\ Orderly(p, w.now)
      /\ Entries(p) = {x \in Entries(w.q) : x.ev # e}
      /\ \A f : IsPosted(p, f) <=> IsPosted(w.q, f) /\ f # e
  BY DropOrderly DEF Typed
<1>2. Due(w.now, y) /\ y.ev = e
  <2>1. y.ev = e /\ y.at = w.now /\ y.prio = 0
    BY DEF Entry
  <2> QED
    BY <2>1 DEF Due, PrioOf, Typed
<1> HIDE DEF p, y
<1>3. /\ Orderly(PostIn(p, y), w.now)
      /\ Entries(PostIn(p, y)) = Entries(p) \cup {y}
      /\ \A f : IsPosted(PostIn(p, y), f) <=> IsPosted(p, f) \/ f = e
  BY <1>1, <1>2, PostOrderly
<1>4. Process(w, e) = [w EXCEPT !.q = PostIn(p, y)]
  BY DEF Process, p, y
<1>5. /\ Typed(Process(w, e)) /\ Elsewhere(w, Process(w, e))
      /\ Process(w, e).q = PostIn(p, y) /\ Process(w, e).exc = w.exc
  BY <1>3, <1>4, AgendaChanged
<1> QED
  BY <1>1, <1>3, <1>5 DEF Posted, y

-----------------------------------------------------------------------------
(* The kernels.                                                              *)

(* The events that matter to what servers are waiting for.                   *)
Noted == {"replenishing", "recharging", "goingIdle", "CBSGoingIdle", "bandEx", "susp"}

(* Of those only events of E come or go, and nobody is told to execute. *)
Hushed(w, v, E) ==
    /\ \A x : x.ev[1] \in Noted /\ x.ev \notin E =>
                 (x \in Entries(v.q) <=> x \in Entries(w.q))
    /\ \A x : Posted(v, Sched(x)) => Posted(w, Sched(x))

(* What the kernels do: their queues become Qs. *)
Calm(w, v, Qs) ==
    /\ Typed(v)
    /\ v.now = w.now /\ v.sv = w.sv /\ v.tk = w.tk /\ v.queue = Qs
    /\ v.exc = "none" => w.exc = "none"
    /\ Hushed(w, v, {})

LEMMA HushedChain ==
    ASSUME NEW w, NEW v, NEW z, NEW E, NEW F, Hushed(w, v, E), Hushed(v, z, F), F \subseteq E
    PROVE  Hushed(w, z, E)
<1>1. ASSUME NEW x, x.ev[1] \in Noted, x.ev \notin E
      PROVE  x \in Entries(z.q) <=> x \in Entries(w.q)
  <2>1. x.ev \notin F
    BY <1>1
  <2> QED
    BY <1>1, <2>1 DEF Hushed
<1> QED
  BY <1>1 DEF Hushed

LEMMA CalmChain ==
    ASSUME NEW w, NEW v, NEW z, NEW A, NEW B, Calm(w, v, A), Calm(v, z, B)
    PROVE  Calm(w, z, B)
<1>1. Hushed(w, z, {})
  BY HushedChain DEF Calm
<1> QED
  BY <1>1 DEF Calm

LEMMA ElsewhereIsCalm ==
    ASSUME NEW w, NEW v, Typed(v), Elsewhere(w, v), Hushed(w, v, {})
    PROVE  Calm(w, v, w.queue)
BY DEF Calm, Elsewhere

(* Events that are not noted. *)
LEMMA UnnotedIsCalm ==
    ASSUME NEW w, Typed(w), NEW e, e[1] \notin Noted \cup {"sched"}
    PROVE  /\ Calm(w, Drop(w, e), w.queue)
           /\ e[1] \notin Urgent => \A at \in Int : Calm(w, Post(w, e, at), w.queue)
           /\ e[1] \in Urgent => Calm(w, Process(w, e), w.queue)
<1>1. \A x : Sched(x) # e
  BY DEF Sched
<1>2. Calm(w, Drop(w, e), w.queue)
  <2> DEFINE v == Drop(w, e)
  <2>1. /\ Typed(v) /\ Elsewhere(w, v)
        /\ Entries(v.q) = {x \in Entries(w.q) : x.ev # e}
        /\ \A f : Posted(v, f) <=> Posted(w, f) /\ f # e
    BY Dropped
  <2> HIDE DEF v
  <2>2. Hushed(w, v, {})
    BY <2>1 DEF Hushed
  <2> QED
    BY <2>1, <2>2, ElsewhereIsCalm DEF v
<1>3. ASSUME e[1] \notin Urgent, NEW at \in Int PROVE Calm(w, Post(w, e, at), w.queue)
  <2> DEFINE v == Post(w, e, at)
             y == Entry(e, at, Priority(e))
  <2>1. /\ Typed(v) /\ Elsewhere(w, v)
        /\ \A f : Posted(v, f) => Posted(w, f) \/ f = e
        /\ Entries(v.q) = Entries(w.q) \cup {y} \/ Entries(v.q) = Entries(w.q)
    BY <1>3, PostAdds
  <2>2. y.ev = e
    BY DEF Entry
  <2> HIDE DEF v, y
  <2>3. Hushed(w, v, {})
    BY <1>1, <2>1, <2>2 DEF Hushed
  <2> QED
    BY <2>1, <2>3, ElsewhereIsCalm DEF v
<1>4. ASSUME e[1] \in Urgent PROVE Calm(w, Process(w, e), w.queue)
  <2> DEFINE v == Process(w, e)
             y == Entry(e, w.now, 0)
  <2>1. /\ Typed(v) /\ Elsewhere(w, v)
        /\ Entries(v.q) = {x \in Entries(w.q) : x.ev # e} \cup {y}
        /\ \A f : Posted(v, f) <=> Posted(w, f) \/ f = e
    BY <1>4, Processed
  <2>2. y.ev = e
    BY DEF Entry
  <2> HIDE DEF v, y
  <2>3. Hushed(w, v, {})
    BY <1>1, <2>1, <2>2 DEF Hushed
  <2> QED
    BY <2>1, <2>3, ElsewhereIsCalm DEF v
<1> QED
  BY <1>2, <1>3, <1>4

LEMMA SchedDroppedIsCalm ==
    ASSUME NEW w, Typed(w), NEW x
    PROVE  Calm(w, Drop(w, Sched(x)), w.queue)
<1> DEFINE v == Drop(w, Sched(x))
<1>1. /\ Typed(v) /\ Elsewhere(w, v)
      /\ Entries(v.q) = {y \in Entries(w.q) : y.ev # Sched(x)}
      /\ \A f : Posted(v, f) <=> Posted(w, f) /\ f # Sched(x)
  BY Dropped
<1>2. Sched(x)[1] \notin Noted
  BY DEF Sched, Noted
<1> HIDE DEF v
<1>3. Hushed(w, v, {})
  BY <1>1, <1>2 DEF Hushed
<1> QED
  BY <1>1, <1>3, ElsewhereIsCalm DEF v

LEMMA QueueIsCalm ==
    ASSUME NEW w, Typed(w), NEW k \in Kernels, NEW x \in Entities
    PROVE  /\ k \notin Servers \/ x \in Tasks =>
                 Calm(w, Insert(w, k, x), [w.queue EXCEPT ![k] = @ \cup {x}])
           /\ Calm(w, Extract(w, k, x), [w.queue EXCEPT ![k] = @ \ {x}])
<1>1. ASSUME k \notin Servers \/ x \in Tasks
      PROVE  Calm(w, Insert(w, k, x), [w.queue EXCEPT ![k] = @ \cup {x}])
  <2> DEFINE v == Insert(w, k, x)
             Qs == [w.queue EXCEPT ![k] = @ \cup {x}]
             i == [w.insertTime EXCEPT ![x] = w.now]
  <2>1. /\ On(v, WorldFields) /\ v.queue = Qs /\ v.insertTime = i
        /\ v.now = w.now /\ v.sv = w.sv /\ v.tk = w.tk /\ v.q = w.q /\ v.exc = w.exc
        /\ v.currExe = w.currExe /\ v.sup = w.sup
    BY DEF Insert, Typed, On, WorldFields
  <2>2. On(Qs, Kernels) /\ \A s \in Servers : Qs[s] \subseteq Tasks
    <3>1. On(w.queue, Kernels) /\ \A s \in Servers : w.queue[s] \subseteq Tasks
      BY DEF Typed
    <3> DEFINE r == w.queue[k] \cup {x}
    <3>4. Qs = [w.queue EXCEPT ![k] = r]
      OBVIOUS
    <3> HIDE DEF r
    <3>5. /\ On([w.queue EXCEPT ![k] = r], Kernels)
          /\ \A y \in Kernels : [w.queue EXCEPT ![k] = r][y] = IF y = k THEN r ELSE w.queue[y]
      BY <3>1 DEF On
    <3>2. \A y \in Kernels : Qs[y] = IF y = k THEN w.queue[k] \cup {x} ELSE w.queue[y]
      BY <3>4, <3>5 DEF r
    <3>3. On(Qs, Kernels)
      BY <3>4, <3>5
    <3> HIDE DEF Qs
    <3> QED
      BY <1>1, <3>1, <3>2, <3>3 DEF Kernels
  <2>3. On(i, Entities) /\ \A t \in Tasks : i[t] \in Nat
    <3>1. w.now \in Nat /\ On(w.insertTime, Entities) /\ \A t \in Tasks : w.insertTime[t] \in Nat
      BY DEF Typed
    <3> DEFINE r == w.now
    <3> HIDE DEF r
    <3>4. /\ On([w.insertTime EXCEPT ![x] = r], Entities)
          /\ \A y \in Entities : [w.insertTime EXCEPT ![x] = r][y] = IF y = x THEN r ELSE w.insertTime[y]
      BY <3>1 DEF On
    <3>2. On(i, Entities)
          /\ \A y \in Entities : i[y] = IF y = x THEN w.now ELSE w.insertTime[y]
      BY <3>4 DEF r
    <3> HIDE DEF i
    <3> QED
      BY <3>1, <3>2 DEF Entities
  <2> HIDE DEF v, Qs, i
  <2>4. Typed(v) /\ Hushed(w, v, {})
    BY <2>1, <2>2, <2>3 DEF Typed, Hushed, Posted
  <2> QED
    BY <2>1, <2>4 DEF Calm, v, Qs
<1>2. Calm(w, Extract(w, k, x), [w.queue EXCEPT ![k] = @ \ {x}])
  <2> DEFINE v == Extract(w, k, x)
             Qs == [w.queue EXCEPT ![k] = @ \ {x}]
  <2>1. /\ On(v, WorldFields) /\ v.queue = Qs /\ v.insertTime = w.insertTime
        /\ v.now = w.now /\ v.sv = w.sv /\ v.tk = w.tk /\ v.q = w.q /\ v.exc = w.exc
        /\ v.currExe = w.currExe /\ v.sup = w.sup
    BY DEF Extract, Typed, On, WorldFields
  <2>2. On(Qs, Kernels) /\ \A s \in Servers : Qs[s] \subseteq Tasks
    <3>1. On(w.queue, Kernels) /\ \A s \in Servers : w.queue[s] \subseteq Tasks
      BY DEF Typed
    <3> DEFINE r == w.queue[k] \ {x}
    <3>4. Qs = [w.queue EXCEPT ![k] = r]
      OBVIOUS
    <3> HIDE DEF r
    <3>5. /\ On([w.queue EXCEPT ![k] = r], Kernels)
          /\ \A y \in Kernels : [w.queue EXCEPT ![k] = r][y] = IF y = k THEN r ELSE w.queue[y]
      BY <3>1 DEF On
    <3>2. \A y \in Kernels : Qs[y] = IF y = k THEN w.queue[k] \ {x} ELSE w.queue[y]
      BY <3>4, <3>5 DEF r
    <3>3. On(Qs, Kernels)
      BY <3>4, <3>5
    <3> HIDE DEF Qs
    <3> QED
      BY <3>1, <3>2, <3>3 DEF Kernels
  <2> HIDE DEF v, Qs
  <2>3. Typed(v) /\ Hushed(w, v, {})
    BY <2>1, <2>2 DEF Typed, Hushed, Posted
  <2> QED
    BY <2>1, <2>3 DEF Calm, v, Qs
<1> QED
  BY <1>1, <1>2

LEMMA ExeIsCalm ==
    ASSUME NEW w, Typed(w), NEW k, NEW x
    PROVE  Calm(w, SetExe(w, k, x), w.queue)
<1> DEFINE v == SetExe(w, k, x)
           c == [w.currExe EXCEPT ![k] = x]
<1>1. /\ On(v, WorldFields) /\ v.queue = w.queue /\ v.insertTime = w.insertTime
      /\ v.now = w.now /\ v.sv = w.sv /\ v.tk = w.tk /\ v.q = w.q /\ v.exc = w.exc
      /\ v.currExe = c /\ v.sup = w.sup
  BY DEF SetExe, Typed, On, WorldFields
<1>2. On(c, Kernels)
  BY DEF Typed, On
<1> HIDE DEF v, c
<1>3. Typed(v) /\ Hushed(w, v, {})
  BY <1>1, <1>2 DEF Typed, Hushed, Posted
<1> QED
  BY <1>1, <1>3 DEF Calm, v

LEMMA DescheduleIsCalm ==
    ASSUME NEW w, Typed(w), NEW x
    PROVE  Calm(w, Deschedule(w, x), w.queue)
<1> DEFINE v == IF x \in Tasks THEN Drop(w, Sched(x)) ELSE w
<1>1. Calm(w, v, w.queue) /\ Typed(v) /\ v.queue = w.queue
  <2>1. Calm(w, w, w.queue)
    BY DEF Calm, Hushed
  <2> QED
    BY <2>1, SchedDroppedIsCalm DEF Calm
<1> HIDE DEF v
<1>2. Desched(x)[1] \notin Noted \cup {"sched"} /\ Desched(x)[1] \in Urgent
  BY DEF Desched, Noted, Urgent
<1>3. Calm(v, Process(v, Desched(x)), v.queue)
  BY <1>1, <1>2, UnnotedIsCalm
<1>4. Calm(w, Process(v, Desched(x)), w.queue)
  BY <1>1, <1>3, CalmChain
<1> QED
  BY <1>4 DEF Deschedule, v

(* RTKernel::dispatch and Server::dispatch. *)
LEMMA DispatchIsCalm ==
    ASSUME NEW w, Typed(w), NEW s
    PROVE  /\ Calm(w, KernelDispatch(w), w.queue)
           /\ Calm(w, ServerDispatch(w, s), w.queue)
<1>1. ASSUME NEW e, e[1] \notin Noted \cup {"sched"} \cup Urgent
      PROVE  Calm(w, Post(Drop(w, e), e, w.now), w.queue)
  <2> DEFINE v == Drop(w, e)
  <2>1. Calm(w, v, w.queue) /\ Typed(v) /\ v.queue = w.queue
    BY <1>1, UnnotedIsCalm DEF Calm
  <2> HIDE DEF v
  <2>2. w.now \in Int
    BY DEF Typed
  <2>3. Calm(v, Post(v, e, w.now), v.queue)
    BY <1>1, <2>1, <2>2, UnnotedIsCalm
  <2>4. Calm(w, Post(v, e, w.now), w.queue)
    BY <2>1, <2>3, CalmChain
  <2> QED
    BY <2>4 DEF v
<1>2. /\ Begin[1] \notin Noted \cup {"sched"} \cup Urgent
      /\ Dispatch(s)[1] \notin Noted \cup {"sched"} \cup Urgent
  BY DEF Begin, Dispatch, Noted, Urgent
<1> QED
  BY <1>1, <1>2 DEF KernelDispatch, ServerDispatch

LEMMA KernelIsCalm ==
    ASSUME NEW w, Typed(w), NEW x \in Entities
    PROVE  /\ Calm(w, KernelOnArrival(w, x), [w.queue EXCEPT ![Kernel] = @ \cup {x}])
           /\ Calm(w, KernelSuspend(w, x), [w.queue EXCEPT ![Kernel] = @ \ {x}])
           /\ Calm(w, KernelOnEnd(w, x), [w.queue EXCEPT ![Kernel] = @ \ {x}])
<1> DEFINE i == Insert(w, Kernel, x)
           r == Extract(w, Kernel, x)
           I == [w.queue EXCEPT ![Kernel] = @ \cup {x}]
           R == [w.queue EXCEPT ![Kernel] = @ \ {x}]
<1>0. Kernel \in Kernels /\ Kernel \notin Servers
  BY ServerAssumption DEF Kernels, Entities
<1>1. Calm(w, i, I) /\ Calm(w, r, R)
  BY <1>0, QueueIsCalm
<1>2. KernelOnArrival(w, x) = KernelDispatch(i)
  BY DEF KernelOnArrival
<1>3. /\ KernelSuspend(w, x) = IF w.currExe[Kernel] = x
                               THEN SetExe(Deschedule(r, x), Kernel, None) ELSE r
      /\ KernelOnEnd(w, x) = KernelDispatch(IF w.currExe[Kernel] = x
                                            THEN SetExe(r, Kernel, None) ELSE r)
  BY DEF KernelSuspend, KernelOnEnd
<1> HIDE DEF i, r, I, R
<1>4. Typed(i) /\ i.queue = I /\ Typed(r) /\ r.queue = R
  BY <1>1 DEF Calm
<1>5. Calm(w, KernelDispatch(i), I)
  BY <1>1, <1>4, DispatchIsCalm, CalmChain
<1>6. Calm(w, Deschedule(r, x), R) /\ Typed(Deschedule(r, x))
      /\ Deschedule(r, x).queue = R
  <2>1. Calm(r, Deschedule(r, x), R)
    BY <1>4, DescheduleIsCalm
  <2> QED
    BY <1>1, <2>1, CalmChain DEF Calm
<1>7. Calm(w, SetExe(Deschedule(r, x), Kernel, None), R)
  BY <1>6, ExeIsCalm, CalmChain
<1>8. Calm(w, SetExe(r, Kernel, None), R) /\ Typed(SetExe(r, Kernel, None))
      /\ SetExe(r, Kernel, None).queue = R
  <2>1. Calm(r, SetExe(r, Kernel, None), R)
    BY <1>4, ExeIsCalm
  <2> QED
    BY <1>1, <2>1, CalmChain DEF Calm
<1>9. Calm(w, KernelDispatch(r), R) /\ Calm(w, KernelDispatch(SetExe(r, Kernel, None)), R)
  <2>1. Calm(r, KernelDispatch(r), R)
    BY <1>4, DispatchIsCalm
  <2>2. Calm(SetExe(r, Kernel, None), KernelDispatch(SetExe(r, Kernel, None)), R)
    BY <1>8, DispatchIsCalm
  <2> QED
    BY <1>1, <1>8, <2>1, <2>2, CalmChain
<1> QED
  BY <1>1, <1>2, <1>3, <1>5, <1>7, <1>9 DEF I, R

-----------------------------------------------------------------------------
(* What the classes of servers do to one of them.                            *)

(* The events a server waits for, and the exhaustion of its budget.          *)
Own(s) == {Repl(s), Recharge(s), Idle(s), CBSIdle(s), BandEx(s)}

(* With s the GRUB servers are accounted for anew. *)
Theirs(w, s) == Own(s) \cup {BandEx(x) : x \in {y \in Servers : w.sv[y].kind = "grub"}}

(* From w to v only the server s changes, but for the accounts of the GRUB  *)
(* servers.                                                                  *)
Mine(w, v, s) ==
    /\ Typed(v)
    /\ v.now = w.now /\ v.queue = w.queue /\ v.tk = w.tk
    /\ v.exc = "none" => w.exc = "none"
    /\ \A x \in Servers : v.sv[x].kind = w.sv[x].kind
    /\ \A x \in Servers \ {s} :
          /\ v.sv[x].status = w.sv[x].status
          /\ w.sv[x].kind # "grub" => v.sv[x] = w.sv[x]
    /\ Hushed(w, v, Theirs(w, s))

LEMMA OwnEventsAreNamed ==
    ASSUME NEW s, NEW e \in Own(s)
    PROVE  /\ e[2] = s
           /\ e[1] \in {"replenishing", "recharging", "goingIdle", "CBSGoingIdle", "bandEx"}
           /\ e[1] \notin Urgent /\ \A x : Sched(x) # e
BY DEF Own, Repl, Recharge, Idle, CBSIdle, BandEx, Urgent, Sched

LEMMA ThrownIsMine ==
    ASSUME NEW w, Typed(w), NEW x, x # "none", NEW s
    PROVE  Mine(w, Throw(w, x), s) /\ Throw(w, x).exc # "none"
<1> DEFINE v == Throw(w, x)
<1>1. Typed(v) /\ Elsewhere(w, v) /\ v.exc # "none" /\ v.q = w.q
  BY Thrown
<1> HIDE DEF v
<1>2. Hushed(w, v, Theirs(w, s))
  BY <1>1 DEF Hushed, Posted
<1> QED
  BY <1>1, <1>2 DEF Mine, Elsewhere, v

LEMMA RecordIsMine ==
    ASSUME NEW w, Typed(w), NEW s \in Servers, NEW r \in Records, r.kind = w.sv[s].kind
    PROVE  /\ Mine(w, WithServer(w, s, r), s) /\ Typed(WithServer(w, s, r))
           /\ WithServer(w, s, r).sv[s] = r
           /\ WithServer(w, s, r).q = w.q /\ WithServer(w, s, r).exc = w.exc
<1> DEFINE v == WithServer(w, s, r)
<1>1. /\ On(v, WorldFields) /\ v.queue = w.queue /\ v.insertTime = w.insertTime
      /\ v.now = w.now /\ v.tk = w.tk /\ v.q = w.q /\ v.exc = w.exc
      /\ v.currExe = w.currExe /\ v.sup = w.sup /\ v.sv = [w.sv EXCEPT ![s] = r]
  BY DEF Typed, On, WorldFields, WithServer
<1>2. w.sv \in [Servers -> Records]
  BY DEF Typed
<1>3. v.sv \in [Servers -> Records] /\ \A x \in Servers : v.sv[x] = IF x = s THEN r ELSE w.sv[x]
  BY <1>1, <1>2
<1> HIDE DEF v
<1>4. Typed(v) /\ Hushed(w, v, Theirs(w, s))
  BY <1>1, <1>3 DEF Typed, Hushed, Posted
<1>5. Mine(w, v, s)
  BY <1>1, <1>3, <1>4 DEF Mine
<1> QED
  BY <1>1, <1>3, <1>4, <1>5 DEF v

(* The records and the timers. *)
LEMMA TimersAreTyped ==
    ASSUME NEW c \in Timers, NEW rate \in Int, NEW t \in Int
    PROVE  /\ Started(c, rate, t) \in Timers /\ Stopped(c, t) \in Timers
           /\ SetValue(c, t) \in Timers /\ GetValue(c, t) \in Int
<1>1. GetValue(c, t) \in Int
  BY DEF Timers, GetValue
<1> QED
  BY <1>1 DEF Timers, Started, Stopped, SetValue

(* A record with another status or another timer. *)
Turn(r, st)       == [r EXCEPT !.status = st]
VTimed(r, c)      == [r EXCEPT !.vtime = c]
Capacitated(r, c) == [r EXCEPT !.capacity = c]

LEMMA StatusIsMine ==
    ASSUME NEW w, Typed(w), NEW s \in Servers, NEW st \in Statuses
    PROVE  /\ Mine(w, SetStatus(w, s, st), s) /\ Typed(SetStatus(w, s, st))
           /\ SetStatus(w, s, st).sv[s] = Turn(w.sv[s], st)
           /\ SetStatus(w, s, st).q = w.q /\ SetStatus(w, s, st).exc = w.exc
<1> DEFINE r == Turn(w.sv[s], st)
<1>1. r \in Records /\ r.kind = w.sv[s].kind
  BY DEF Typed, Records, Turn
<1>2. SetStatus(w, s, st) = WithServer(w, s, r)
  BY DEF SetStatus, WithServer, Turn
<1>3. /\ Mine(w, WithServer(w, s, r), s) /\ Typed(WithServer(w, s, r))
      /\ WithServer(w, s, r).sv[s] = r
      /\ WithServer(w, s, r).q = w.q /\ WithServer(w, s, r).exc = w.exc
  <2> HIDE DEF r
  <2> QED
    BY <1>1, RecordIsMine
<1> QED
  BY <1>2, <1>3

(* A server with other timers. *)
WithVTime(w, s, c)    == [w EXCEPT !.sv[s].vtime = c]
WithCapacity(w, s, c) == [w EXCEPT !.sv[s].capacity = c]

LEMMA TimerIsMine ==
    ASSUME NEW w, Typed(w), NEW s \in Servers, NEW c \in Timers
    PROVE  /\ Mine(w, WithVTime(w, s, c), s) /\ Typed(WithVTime(w, s, c))
           /\ WithVTime(w, s, c).sv[s] = VTimed(w.sv[s], c)
           /\ WithVTime(w, s, c).q = w.q /\ WithVTime(w, s, c).exc = w.exc
           /\ Mine(w, WithCapacity(w, s, c), s) /\ Typed(WithCapacity(w, s, c))
           /\ WithCapacity(w, s, c).sv[s] = Capacitated(w.sv[s], c)
           /\ WithCapacity(w, s, c).q = w.q /\ WithCapacity(w, s, c).exc = w.exc
<1> DEFINE r == VTimed(w.sv[s], c)
           p == Capacitated(w.sv[s], c)
<1>1. r \in Records /\ r.kind = w.sv[s].kind /\ p \in Records /\ p.kind = w.sv[s].kind
  BY DEF Typed, Records, VTimed, Capacitated
<1>2. WithVTime(w, s, c) = WithServer(w, s, r) /\ WithCapacity(w, s, c) = WithServer(w, s, p)
  BY DEF WithVTime, WithCapacity, WithServer, VTimed, Capacitated
<1>3. /\ \A x : x \in {r, p} =>
            /\ Mine(w, WithServer(w, s, x), s) /\ Typed(WithServer(w, s, x))
            /\ WithServer(w, s, x).sv[s] = x
            /\ WithServer(w, s, x).q = w.q /\ WithServer(w, s, x).exc = w.exc
  <2> HIDE DEF r, p
  <2> QED
    BY <1>1, RecordIsMine
<1> QED
  BY <1>2, <1>3

(* The virtual time is set, started or stopped, or the program fails. *)
LEMMA VTimeIsMine ==
    ASSUME NEW w, Typed(w), NEW s \in Servers
    PROVE  /\ Mine(w, SetVTime(w, s), s) /\ Typed(SetVTime(w, s))
           /\ SetVTime(w, s).exc = "none" =>
                 /\ ~w.sv[s].vtime.running /\ SetVTime(w, s).q = w.q
                 /\ SetVTime(w, s).sv[s]
                       = VTimed(w.sv[s], SetValue(w.sv[s].vtime, w.now * VUnit))
           /\ Mine(w, StopVTime(w, s), s) /\ Typed(StopVTime(w, s))
           /\ StopVTime(w, s).exc = "none" =>
                 /\ w.sv[s].vtime.running /\ StopVTime(w, s).q = w.q
                 /\ StopVTime(w, s).sv[s] = VTimed(w.sv[s], Stopped(w.sv[s].vtime, w.now))
           /\ \A rate \in Int :
                 /\ Mine(w, StartVTime(w, s, rate), s) /\ Typed(StartVTime(w, s, rate))
                 /\ StartVTime(w, s, rate).exc = "none" =>
                       /\ ~w.sv[s].vtime.running /\ StartVTime(w, s, rate).q = w.q
                       /\ StartVTime(w, s, rate).sv[s]
                             = VTimed(w.sv[s], Started(w.sv[s].vtime, rate, w.now))
<1> DEFINE c == w.sv[s].vtime
           t == w.now * VUnit
<1>1. c \in Timers /\ w.now \in Int /\ t \in Int
  BY ServerAssumption DEF Typed, Records
<1>2. SetValue(c, t) \in Timers /\ Stopped(c, w.now) \in Timers
      /\ \A rate \in Int : Started(c, rate, w.now) \in Timers
  <2> HIDE DEF c, t
  <2> QED
    BY <1>1, TimersAreTyped
<1>3. ASSUME NEW x, x # "none"
      PROVE  Mine(w, Throw(w, x), s) /\ Throw(w, x).exc # "none" /\ Typed(Throw(w, x))
  BY <1>3, ThrownIsMine DEF Mine
<1>4. /\ SetVTime(w, s) = IF c.running THEN Throw(w, "TimerIsRunning")
                          ELSE WithVTime(w, s, SetValue(c, t))
      /\ StopVTime(w, s) = IF ~c.running THEN Throw(w, "TimerIsStopped")
                           ELSE WithVTime(w, s, Stopped(c, w.now))
      /\ \A rate : StartVTime(w, s, rate)
                      = IF c.running THEN Throw(w, "TimerIsRunning")
                        ELSE WithVTime(w, s, Started(c, rate, w.now))
  BY DEF SetVTime, StopVTime, StartVTime, WithVTime
<1>6. ASSUME NEW x \in Timers
      PROVE  /\ Mine(w, WithVTime(w, s, x), s) /\ Typed(WithVTime(w, s, x))
             /\ WithVTime(w, s, x).sv[s] = VTimed(w.sv[s], x)
             /\ WithVTime(w, s, x).q = w.q
  BY TimerIsMine
<1>7. /\ Mine(w, SetVTime(w, s), s) /\ Typed(SetVTime(w, s))
      /\ SetVTime(w, s).exc = "none" =>
            /\ ~c.running /\ SetVTime(w, s).q = w.q
            /\ SetVTime(w, s).sv[s] = VTimed(w.sv[s], SetValue(c, t))
  <2> HIDE DEF c, t
  <2>1. CASE c.running
    BY <1>3, <1>4, <2>1
  <2>2. CASE ~c.running
    BY <1>2, <1>4, <1>6, <2>2
  <2> QED
    BY <2>1, <2>2
<1>8. /\ Mine(w, StopVTime(w, s), s) /\ Typed(StopVTime(w, s))
      /\ StopVTime(w, s).exc = "none" =>
            /\ c.running /\ StopVTime(w, s).q = w.q
            /\ StopVTime(w, s).sv[s] = VTimed(w.sv[s], Stopped(c, w.now))
  <2> HIDE DEF c, t
  <2>1. CASE c.running
    BY <1>2, <1>4, <1>6, <2>1
  <2>2. CASE ~c.running
    BY <1>3, <1>4, <2>2
  <2> QED
    BY <2>1, <2>2
<1>9. ASSUME NEW rate \in Int
      PROVE  /\ Mine(w, StartVTime(w, s, rate), s) /\ Typed(StartVTime(w, s, rate))
             /\ StartVTime(w, s, rate).exc = "none" =>
                   /\ ~c.running /\ StartVTime(w, s, rate).q = w.q
                   /\ StartVTime(w, s, rate).sv[s]
                         = VTimed(w.sv[s], Started(c, rate, w.now))
  <2> HIDE DEF c, t
  <2>1. CASE c.running
    BY <1>3, <1>4, <2>1
  <2>2. CASE ~c.running
    <3> DEFINE d == Started(c, rate, w.now)
    <3>1. d \in Timers
      BY <1>2
    <3>2. StartVTime(w, s, rate) = WithVTime(w, s, d)
      BY <1>4, <2>2
    <3> HIDE DEF d
    <3>3. /\ Mine(w, WithVTime(w, s, d), s) /\ Typed(WithVTime(w, s, d))
          /\ WithVTime(w, s, d).sv[s] = VTimed(w.sv[s], d)
          /\ WithVTime(w, s, d).q = w.q
      BY <1>6, <3>1
    <3> QED
      BY <2>2, <3>2, <3>3 DEF d
  <2> QED
    BY <2>1, <2>2
<1> QED
  BY <1>7, <1>8, <1>9

-----------------------------------------------------------------------------
(* Lists of amounts.                                                         *)

(* What holds of 0 and of the next number holds up to n. *)
LEMMA Upwards ==
    ASSUME NEW n \in Nat, NEW T, 0 \in T, \A k \in 0..(n - 1) : k \in T => k + 1 \in T
    PROVE  \A k \in 0..n : k \in T
<1> DEFINE B == {k \in 0..n : k \notin T}
<1> SUFFICES ASSUME B # {} PROVE FALSE
  OBVIOUS
<1>1. PICK m \in B : \A k \in B : m <= k
  <2>1. B \in SUBSET Nat
    OBVIOUS
  <2> HIDE DEF B
  <2> QED
    BY <2>1, LeastNumber
<1>2. m \in 0..n /\ m \notin T /\ m # 0
  BY <1>1
<1>3. m - 1 \in 0..(n - 1) /\ m - 1 \in T
  BY <1>1, <1>2
<1> QED
  BY <1>2, <1>3

(* Numbers are the amounts of the first n. *)
Numbers(b, n) == \A i \in 1..n : b[i].amount \in Int

Positive(b, n) == \A i \in 1..n : b[i].amount \in Nat

LEMMA SumOfAmounts ==
    ASSUME NEW b, NEW k
    PROVE  SS!SumAmounts(b, k) = SumFunctionOnSet([i \in 1..k |-> b[i].amount], 1..k)
BY DEF SS!SumAmounts, SS!SumFunctionOnSet, SS!FoldFunctionOnSet, SS!MapThenFoldSet,
       SumFunctionOnSet, FoldFunctionOnSet, MapThenFoldSet

LEMMA NoAmounts ==
    ASSUME NEW b
    PROVE  SS!SumAmounts(b, 0) = 0
<1>1. 1..0 = {}
  OBVIOUS
<1> QED
  BY <1>1, SumOfAmounts, SumOfNone

LEMMA NextAmount ==
    ASSUME NEW b, NEW k \in Nat, Numbers(b, k + 1)
    PROVE  /\ SS!SumAmounts(b, k) \in Int
           /\ SS!SumAmounts(b, k + 1) = SS!SumAmounts(b, k) + b[k + 1].amount
<1> DEFINE n == k + 1
           f == [i \in 1..n |-> b[i].amount]
           g == [i \in 1..k |-> b[i].amount]
<1>1. \A i \in 1..n : f[i] \in Int
  BY DEF Numbers
<1>2. f[n] = b[n].amount /\ \A i \in 1..k : f[i] = g[i]
  OBVIOUS
<1>3. /\ SS!SumAmounts(b, n) = SumFunctionOnSet(f, 1..n)
      /\ SS!SumAmounts(b, k) = SumFunctionOnSet(g, 1..k)
  BY SumOfAmounts
<1> HIDE DEF f, g
<1>4. SumFunctionOnSet(f, 1..n) = f[n] + SumFunctionOnSet(f, 1..(n - 1))
      /\ SumFunctionOnSet(f, 1..(n - 1)) \in Int
  <2> HIDE DEF n
  <2>1. n \in Int /\ n >= 1
    BY DEF n
  <2> QED
    BY <1>1, <2>1, SumUpTo
<1>5. n - 1 = k
  OBVIOUS
<1>6. SumFunctionOnSet(g, 1..k) = SumFunctionOnSet(f, 1..k)
  BY <1>2, SumOfSame, IntervalIsFinite
<1>7. SumFunctionOnSet(f, 1..k) \in Int
  BY <1>4, <1>5
<1>8. b[n].amount \in Int
  BY DEF Numbers
<1> QED
  BY <1>2, <1>3, <1>4, <1>5, <1>6, <1>7, <1>8

LEMMA AmountsAreNumbers ==
    ASSUME NEW b, NEW n \in Nat, Numbers(b, n)
    PROVE  \A k \in 0..n : SS!SumAmounts(b, k) \in Int
<1> DEFINE T == {k \in 0..n : SS!SumAmounts(b, k) \in Int}
<1>1. 0 \in T
  BY NoAmounts
<1>2. ASSUME NEW k \in 0..(n - 1), k \in T PROVE k + 1 \in T
  <2>1. Numbers(b, k + 1) /\ k \in Nat
    BY DEF Numbers
  <2>2. SS!SumAmounts(b, k + 1) = SS!SumAmounts(b, k) + b[k + 1].amount
    BY <2>1, NextAmount
  <2>3. b[k + 1].amount \in Int
    BY DEF Numbers
  <2> QED
    BY <1>2, <2>2, <2>3
<1> HIDE DEF T
<1>3. \A k \in 0..n : k \in T
  BY <1>1, <1>2, Upwards
<1> QED
  BY <1>3 DEF T

(* A list that begins later in another has the difference of the sums.      *)
LEMMA AmountsFrom ==
    ASSUME NEW b, NEW m \in Nat, NEW n \in Nat, Numbers(b, m + n),
           NEW e, \A i \in 1..n : e[i].amount = b[m + i].amount
    PROVE  \A k \in 0..n :
              SS!SumAmounts(e, k) = SS!SumAmounts(b, m + k) - SS!SumAmounts(b, m)
<1> DEFINE T == {k \in 0..n :
                   SS!SumAmounts(e, k) = SS!SumAmounts(b, m + k) - SS!SumAmounts(b, m)}
<1>1. 0 \in T
  BY NoAmounts, AmountsAreNumbers
<1>2. ASSUME NEW k \in 0..(n - 1), k \in T PROVE k + 1 \in T
  <2>1. m + k \in Nat /\ k \in Nat /\ k + 1 \in 1..n /\ (m + k) + 1 \in 1..(m + n)
    OBVIOUS
  <2>2. Numbers(b, (m + k) + 1)
    BY <2>1 DEF Numbers
  <2>3. e[k + 1].amount = b[(m + k) + 1].amount /\ e[k + 1].amount \in Int
    BY <2>1 DEF Numbers
  <2>4. Numbers(e, k + 1)
    BY DEF Numbers
  <2>5. /\ SS!SumAmounts(b, (m + k) + 1) = SS!SumAmounts(b, m + k) + b[(m + k) + 1].amount
        /\ SS!SumAmounts(b, m + k) \in Int
    BY <2>1, <2>2, NextAmount
  <2>6. /\ SS!SumAmounts(e, k + 1) = SS!SumAmounts(e, k) + e[k + 1].amount
        /\ SS!SumAmounts(e, k) \in Int
    BY <2>1, <2>4, NextAmount
  <2>7. SS!SumAmounts(b, m) \in Int
    BY AmountsAreNumbers
  <2>8. m + (k + 1) = (m + k) + 1
    OBVIOUS
  <2> QED
    BY <1>2, <2>3, <2>5, <2>6, <2>7, <2>8
<1> HIDE DEF T
<1>3. \A k \in 0..n : k \in T
  BY <1>1, <1>2, Upwards
<1> QED
  BY <1>3 DEF T

LEMMA SameAmounts ==
    ASSUME NEW b, NEW n \in Nat, Numbers(b, n),
           NEW e, \A i \in 1..n : e[i].amount = b[i].amount
    PROVE  SS!SumAmounts(e, n) = SS!SumAmounts(b, n)
<1>1. [i \in 1..n |-> b[i].amount] = [i \in 1..n |-> e[i].amount]
  OBVIOUS
<1> QED
  BY <1>1, SumOfAmounts

(* Sums of amounts that are not negative grow. *)
LEMMA AmountsGrow ==
    ASSUME NEW b, NEW n \in Nat, Positive(b, n)
    PROVE  /\ \A k \in 0..n : SS!SumAmounts(b, k) \in Nat
           /\ \A k \in 0..n : \A m \in 0..k : SS!SumAmounts(b, m) <= SS!SumAmounts(b, k)
<1>1. Numbers(b, n)
  BY DEF Numbers, Positive
<1>2. ASSUME NEW k \in 0..n, NEW m \in 0..k
      PROVE  SS!SumAmounts(b, m) <= SS!SumAmounts(b, k)
  <2> DEFINE T == {j \in 0..(k - m) : SS!SumAmounts(b, m) <= SS!SumAmounts(b, m + j)}
  <2>1. SS!SumAmounts(b, m) \in Int
    BY <1>1, AmountsAreNumbers
  <2>2. 0 \in T
    BY <2>1
  <2>3. ASSUME NEW j \in 0..((k - m) - 1), j \in T PROVE j + 1 \in T
    <3>1. m + j \in Nat /\ (m + j) + 1 \in 1..n /\ m + (j + 1) = (m + j) + 1
      OBVIOUS
    <3>2. Numbers(b, (m + j) + 1) /\ b[(m + j) + 1].amount \in Nat
      BY <3>1 DEF Numbers, Positive
    <3>3. /\ SS!SumAmounts(b, (m + j) + 1) = SS!SumAmounts(b, m + j) + b[(m + j) + 1].amount
          /\ SS!SumAmounts(b, m + j) \in Int
      BY <3>1, <3>2, NextAmount
    <3> QED
      BY <2>1, <2>3, <3>1, <3>2, <3>3
  <2> HIDE DEF T
  <2>4. \A j \in 0..(k - m) : j \in T
    <3>1. k - m \in Nat
      OBVIOUS
    <3> QED
      BY <2>2, <2>3, <3>1, Upwards
  <2>5. k - m \in 0..(k - m) /\ m + (k - m) = k
    OBVIOUS
  <2> QED
    BY <2>4, <2>5 DEF T
<1>3. ASSUME NEW k \in 0..n PROVE SS!SumAmounts(b, k) \in Nat
  <2>1. SS!SumAmounts(b, 0) <= SS!SumAmounts(b, k)
    BY <1>2
  <2>2. SS!SumAmounts(b, k) \in Int
    BY <1>1, AmountsAreNumbers
  <2> QED
    BY <2>1, <2>2, NoAmounts
<1> QED
  BY <1>2, <1>3

(* The sum of a list, and what the operations on lists do to it.             *)
Total(b) == SS!SumAmounts(b, Len(b))

(* A list of amounts that are not negative. *)
Fair(b) == b \in Seq(Amounts) /\ Positive(b, Len(b))

LEMMA FairLists ==
    ASSUME NEW b, Fair(b)
    PROVE  /\ Len(b) \in Nat /\ Numbers(b, Len(b)) /\ Total(b) \in Nat
           /\ \A i \in 1..Len(b) : b[i] \in Amounts /\ b[i].amount \in Nat
<1>1. Len(b) \in Nat /\ \A i \in 1..Len(b) : b[i] \in Amounts /\ b[i].amount \in Nat
  BY DEF Fair, Positive
<1>2. Numbers(b, Len(b))
  BY <1>1 DEF Numbers
<1>3. Total(b) \in Nat
  <2>1. Len(b) \in 0..Len(b)
    BY <1>1
  <2> QED
    BY <1>1, <2>1, AmountsGrow DEF Fair, Total
<1> QED
  BY <1>1, <1>2, <1>3

LEMMA NoneIsFair == Fair(<<>>) /\ Total(<<>>) = 0
<1>1. Len(<<>>) = 0 /\ <<>> \in Seq(Amounts)
  OBVIOUS
<1>2. Positive(<<>>, 0)
  BY DEF Positive
<1> QED
  BY <1>1, <1>2, NoAmounts DEF Fair, Total

LEMMA AppendIsFair ==
    ASSUME NEW b, Fair(b), NEW x \in Amounts, x.amount \in Nat
    PROVE  /\ Fair(Append(b, x)) /\ Append(b, x) # <<>>
           /\ Total(Append(b, x)) = Total(b) + x.amount
<1> DEFINE e == Append(b, x)
           n == Len(b)
<1>1. b \in Seq(Amounts) /\ n \in Nat /\ Numbers(b, n) /\ \A i \in 1..n : b[i].amount \in Nat
  BY FairLists DEF Fair
<1>2. e \in Seq(Amounts) /\ Len(e) = n + 1 /\ e[n + 1] = x /\ \A i \in 1..n : e[i] = b[i]
  BY <1>1
<1> HIDE DEF e, n
<1>3. Positive(e, n + 1) /\ Numbers(e, n + 1)
  <2>1. ASSUME NEW i \in 1..(n + 1) PROVE e[i].amount \in Nat
    BY <1>1, <1>2
  <2> QED
    BY <2>1 DEF Positive, Numbers
<1>4. /\ SS!SumAmounts(e, n) \in Int
      /\ SS!SumAmounts(e, n + 1) = SS!SumAmounts(e, n) + e[n + 1].amount
  BY <1>1, <1>3, NextAmount
<1>5. SS!SumAmounts(e, n) = SS!SumAmounts(b, n)
  BY <1>1, <1>2, SameAmounts
<1>6. Total(e) = Total(b) + x.amount
  BY <1>2, <1>4, <1>5 DEF Total, n
<1>7. e # <<>>
  BY <1>1, <1>2
<1> QED
  BY <1>2, <1>3, <1>6, <1>7 DEF Fair, e

LEMMA TailIsFair ==
    ASSUME NEW b, Fair(b), b # <<>>
    PROVE  /\ b[1] \in Amounts /\ b[1].amount \in Nat
           /\ Fair(Tail(b))
           /\ Total(b) = b[1].amount + Total(Tail(b))
<1> DEFINE e == Tail(b)
           n == Len(b)
<1>1. b \in Seq(Amounts) /\ n \in Nat /\ Numbers(b, n) /\ \A i \in 1..n : b[i].amount \in Nat
  BY FairLists DEF Fair
<1>2. /\ n >= 1 /\ e \in Seq(Amounts) /\ Len(e) = n - 1
      /\ \A i \in 1..(n - 1) : e[i] = b[1 + i]
      /\ b[1] \in Amounts
  BY <1>1
<1>3. b[1].amount \in Nat
  BY <1>1, <1>2
<1> HIDE DEF e, n
<1>4. n - 1 \in Nat /\ 1 + (n - 1) = n /\ n - 1 \in 0..(n - 1)
  BY <1>1, <1>2
<1>5. SS!SumAmounts(e, n - 1) = SS!SumAmounts(b, n) - SS!SumAmounts(b, 1)
  <2>1. Numbers(b, 1 + (n - 1)) /\ \A i \in 1..(n - 1) : e[i].amount = b[1 + i].amount
    BY <1>1, <1>2, <1>4
  <2>2. \A k \in 0..(n - 1) :
           SS!SumAmounts(e, k) = SS!SumAmounts(b, 1 + k) - SS!SumAmounts(b, 1)
    BY <1>4, <2>1, AmountsFrom
  <2> QED
    BY <1>4, <2>2
<1>6. SS!SumAmounts(b, 1) = b[1].amount
  <2>1. Numbers(b, 0 + 1)
    BY <1>3 DEF Numbers
  <2>2. SS!SumAmounts(b, 0 + 1) = SS!SumAmounts(b, 0) + b[0 + 1].amount
    BY <2>1, NextAmount
  <2>3. 0 + 1 = 1
    OBVIOUS
  <2> QED
    BY <1>3, <2>2, <2>3, NoAmounts
<1>7. Positive(e, n - 1)
  <2>1. ASSUME NEW i \in 1..(n - 1) PROVE e[i].amount \in Nat
    BY <1>1, <1>2
  <2> QED
    BY <2>1 DEF Positive
<1>8. Total(b) \in Nat
  BY FairLists
<1> QED
  BY <1>2, <1>3, <1>5, <1>6, <1>7, <1>8 DEF Fair, Total, e, n

(* The last amount grows. *)
LEMMA LastIsFair ==
    ASSUME NEW b, Fair(b), b # <<>>, NEW u \in Nat
    PROVE  /\ Fair([b EXCEPT ![Len(b)].amount = @ + u])
           /\ Total([b EXCEPT ![Len(b)].amount = @ + u]) = Total(b) + u
<1> DEFINE n == Len(b)
           e == [b EXCEPT ![Len(b)].amount = @ + u]
<1>1. b \in Seq(Amounts) /\ n \in Nat /\ Numbers(b, n)
      /\ \A i \in 1..n : b[i] \in Amounts /\ b[i].amount \in Nat
  BY FairLists DEF Fair
<1>2. n >= 1
  BY <1>1
<1>3. [b[n] EXCEPT !.amount = @ + u] \in Amounts
      /\ [b[n] EXCEPT !.amount = @ + u].amount = b[n].amount + u
  <2>1. b[n] \in Amounts
    BY <1>1, <1>2
  <2> HIDE DEF n
  <2> QED
    BY <2>1 DEF Amounts
<1>4. /\ e \in Seq(Amounts) /\ Len(e) = n /\ e[n] = [b[n] EXCEPT !.amount = @ + u]
      /\ \A i \in 1..(n - 1) : e[i] = b[i]
  <2> DEFINE y == [b[n] EXCEPT !.amount = @ + u]
  <2>1. e = [b EXCEPT ![n] = y]
    OBVIOUS
  <2> HIDE DEF y, e
  <2>2. y \in Amounts
    BY <1>3 DEF y
  <2>3. DOMAIN b = 1..n /\ n \in 1..n
    BY <1>1, <1>2
  <2>4. e \in Seq(Amounts) /\ Len(e) = n
    <3>1. e \in [1..n -> Amounts]
      <4> HIDE DEF n
      <4> QED
        BY <1>1, <2>1, <2>2, <2>3
    <3> QED
      BY <1>1, <3>1
  <2>5. e[n] = y /\ \A i \in 1..(n - 1) : e[i] = b[i]
    <3> HIDE DEF n
    <3> QED
      BY <1>1, <2>1, <2>3
  <2> QED
    BY <2>4, <2>5 DEF y
<1> HIDE DEF e, n
<1>5. e[n].amount = b[n].amount + u
  BY <1>3, <1>4
<1>6. PICK k \in Nat : n = k + 1
  <2>1. n - 1 \in Nat /\ n = (n - 1) + 1
    BY <1>1, <1>2
  <2> QED
    BY <2>1
<1>7. k = n - 1 /\ n \in 1..n
  BY <1>1, <1>2, <1>6
<1>8. Positive(e, n) /\ Numbers(e, n)
  <2>1. ASSUME NEW i \in 1..n PROVE e[i].amount \in Nat
    <3>1. CASE i = n
      BY <1>1, <1>5, <3>1
    <3>2. CASE i # n
      BY <1>1, <1>4, <3>2
    <3> QED
      BY <3>1, <3>2
  <2> QED
    BY <2>1 DEF Positive, Numbers
<1>9. /\ SS!SumAmounts(e, n) = SS!SumAmounts(e, k) + e[n].amount
      /\ SS!SumAmounts(b, n) = SS!SumAmounts(b, k) + b[n].amount
      /\ SS!SumAmounts(b, k) \in Int
  BY <1>1, <1>6, <1>8, NextAmount
<1>10. SS!SumAmounts(e, k) = SS!SumAmounts(b, k)
  <2>1. Numbers(b, k) /\ \A i \in 1..k : e[i].amount = b[i].amount
    BY <1>1, <1>4, <1>6, <1>7 DEF Numbers
  <2> QED
    BY <2>1, SameAmounts
<1>11. b[n].amount \in Nat
  BY <1>1, <1>7
<1>12. Total(e) = Total(b) + u
  BY <1>4, <1>5, <1>9, <1>10, <1>11 DEF Total, n
<1> QED
  BY <1>4, <1>8, <1>12 DEF Fair, e

(* A list that is reduced by d loses no more than d. *)
LEMMA ReducedIsFair ==
    ASSUME NEW b, Fair(b), NEW d \in Nat
    PROVE  /\ Fair(SS!Reduced(b, d))
           /\ Total(SS!Reduced(b, d)) >= Total(b) - d
           /\ Total(b) <= d => Total(SS!Reduced(b, d)) = 0
<1> DEFINE n == Len(b)
           X(i) == SS!Least(b[i].amount, SS!Most(d - SS!SumAmounts(b, i - 1), 0))
           e == SS!Reduced(b, d)
           S(k) == SS!SumAmounts(b, k)
           T == {k \in 0..n : SS!SumAmounts(e, k) = SS!Most(S(k) - d, 0)}
<1>1. b \in Seq(Amounts) /\ n \in Nat /\ Numbers(b, n) /\ Positive(b, n)
      /\ \A i \in 1..n : b[i] \in Amounts /\ b[i].amount \in Nat
  BY FairLists DEF Fair
<1>2. \A k \in 0..n : S(k) \in Nat
  BY <1>1, AmountsGrow
<1>3. e = [i \in 1..n |-> [b[i] EXCEPT !.amount = @ - X(i)]]
  BY <1>1 DEF SS!Reduced
<1>4. ASSUME NEW i \in 1..n
      PROVE  /\ X(i) \in Nat /\ X(i) <= b[i].amount
             /\ e[i] \in Amounts /\ e[i].amount = b[i].amount - X(i)
  <2>1. S(i - 1) \in Nat /\ b[i].amount \in Nat
    BY <1>1, <1>2
  <2>2. X(i) \in Nat /\ X(i) <= b[i].amount
    BY <2>1 DEF SS!Least, SS!Most
  <2>3. e[i] = [b[i] EXCEPT !.amount = @ - X(i)]
    <3> HIDE DEF X, e
    <3> QED
      BY <1>3
  <2>4. b[i] \in Amounts
    BY <1>1
  <2> HIDE DEF X, e
  <2> QED
    BY <2>1, <2>2, <2>3, <2>4 DEF Amounts
<1>5. e \in Seq(Amounts) /\ Len(e) = n
  <2> HIDE DEF X
  <2>1. e \in [1..n -> Amounts]
    <3>1. DOMAIN e = 1..n
      <4> HIDE DEF e
      <4> QED
        BY <1>3
    <3>2. e = [i \in 1..n |-> e[i]]
      <4> HIDE DEF e
      <4> QED
        BY <1>3, <3>1
    <3> HIDE DEF e
    <3> QED
      BY <1>4, <3>2
  <2> HIDE DEF e
  <2> QED
    BY <1>1, <2>1
<1>6. Positive(e, n) /\ Numbers(e, n)
  <2> HIDE DEF X, e
  <2>1. ASSUME NEW i \in 1..n PROVE e[i].amount \in Nat
    BY <1>1, <1>4
  <2> QED
    BY <2>1 DEF Positive, Numbers
<1>7. 0 \in T
  BY <1>1, NoAmounts DEF SS!Most
<1>8. ASSUME NEW k \in 0..(n - 1), k \in T PROVE k + 1 \in T
  <2>1. k \in Nat /\ k + 1 \in 1..n /\ Numbers(b, k + 1) /\ Numbers(e, k + 1)
    BY <1>1, <1>6 DEF Numbers
  <2>2. S(k + 1) = S(k) + b[k + 1].amount
    BY <2>1, NextAmount
  <2>3. SS!SumAmounts(e, k + 1) = SS!SumAmounts(e, k) + e[k + 1].amount
    BY <2>1, NextAmount
  <2>4. X(k + 1) = SS!Least(b[k + 1].amount, SS!Most(d - S(k), 0))
    BY <2>1
  <2>5. e[k + 1].amount = b[k + 1].amount - X(k + 1) /\ b[k + 1].amount \in Nat
    BY <1>1, <1>4, <2>1
  <2>6. S(k) \in Nat
    BY <1>2
  <2>7. SS!SumAmounts(e, k) = SS!Most(S(k) - d, 0)
    BY <1>8
  <2> HIDE DEF S, X, e
  <2>8. SS!SumAmounts(e, k + 1) = SS!Most(S(k + 1) - d, 0)
    BY <2>2, <2>3, <2>4, <2>5, <2>6, <2>7 DEF SS!Least, SS!Most
  <2> QED
    BY <2>1, <2>8
<1> HIDE DEF T
<1>9. n \in T
  <2>1. \A k \in 0..n : k \in T
    BY <1>1, <1>7, <1>8, Upwards
  <2> QED
    BY <1>1, <2>1
<1>10. Total(e) = SS!Most(Total(b) - d, 0)
  BY <1>5, <1>9 DEF T, Total
<1>11. Total(b) \in Nat
  BY FairLists
<1>12. Fair(e)
  BY <1>5, <1>6 DEF Fair
<1> HIDE DEF e
<1>13. Total(e) >= Total(b) - d /\ (Total(b) <= d => Total(e) = 0)
  BY <1>10, <1>11 DEF SS!Most
<1> QED
  BY <1>12, <1>13 DEF e

(* Nothing is skipped but amounts of zero. *)
LEMMA SkippedIsFair ==
    ASSUME NEW b, Fair(b)
    PROVE  Fair(SS!SkipEmpty(b)) /\ Total(SS!SkipEmpty(b)) = Total(b)
<1> DEFINE n == Len(b)
           S(k) == SS!SumAmounts(b, k)
           D == {i \in DOMAIN b : S(i) = 0}
           N == {j \in 0..n : j = n \/ S(j + 1) # 0}
<1>1. b \in Seq(Amounts) /\ n \in Nat /\ Numbers(b, n) /\ Positive(b, n)
      /\ \A i \in 1..n : b[i] \in Amounts /\ b[i].amount \in Nat
  BY FairLists DEF Fair
<1>2. /\ \A k \in 0..n : S(k) \in Nat
      /\ \A k \in 0..n : \A m \in 0..k : S(m) <= S(k)
  BY <1>1, AmountsGrow
<1>3. PICK m \in N : \A j \in N : m <= j
  <2>1. N \in SUBSET Nat /\ N # {}
    BY <1>1
  <2> HIDE DEF N
  <2> QED
    BY <2>1, LeastNumber
<1>4. m \in 0..n
  BY <1>3
<1>5. D = 1..m
  <2>1. ASSUME NEW i \in 1..m PROVE S(i) = 0 /\ i \in DOMAIN b
    <3>1. i - 1 \in 0..n /\ ~(m <= i - 1) /\ (i - 1) + 1 = i
      BY <1>4
    <3>2. i - 1 \notin N
      BY <1>3, <3>1
    <3>3. S(i) = 0
      BY <3>1, <3>2
    <3> QED
      BY <1>1, <1>4, <3>3
  <2>2. ASSUME NEW i \in DOMAIN b, S(i) = 0 PROVE i \in 1..m
    <3>1. i \in 1..n
      BY <1>1
    <3>2. CASE i > m
      <4>1. m # n /\ m + 1 \in 0..i /\ m + 1 \in 0..n /\ i \in 0..n
        BY <1>4, <3>1, <3>2
      <4>2. S(m + 1) # 0
        BY <1>3, <4>1
      <4>3. S(m + 1) <= S(i) /\ S(m + 1) \in Nat
        BY <1>2, <4>1
      <4> QED
        BY <2>2, <4>2, <4>3
    <3> QED
      BY <1>4, <3>1, <3>2
  <2> HIDE DEF S, n, N
  <2> QED
    BY <2>1, <2>2
<1>6. Cardinality(D) = m
  <2>1. m \in Nat
    BY <1>4
  <2>2. Cardinality(1..m) = m
    BY <2>1, FS_Interval
  <2> QED
    BY <1>5, <2>2
<1>7. S(m) = 0
  <2>1. CASE m = 0
    BY <2>1, NoAmounts
  <2>2. CASE m # 0
    <3>1. m \in D
      BY <1>4, <1>5, <2>2
    <3> QED
      BY <3>1
  <2> QED
    BY <2>1, <2>2
<1> DEFINE e == SubSeq(b, m + 1, n)
<1>8. SS!SkipEmpty(b) = e
  <2>1. SS!Cardinality(D) = Cardinality(D)
    <3> HIDE DEF D
    <3> QED
      BY Zenon DEF SS!Cardinality, Cardinality
  <2>2. SS!SkipEmpty(b) = SubSeq(b, SS!Cardinality(D) + 1, n)
    BY DEF SS!SkipEmpty
  <2> HIDE DEF D, n
  <2> QED
    BY <1>6, <2>1, <2>2
<1>9. /\ e \in Seq(Amounts) /\ Len(e) = n - m
      /\ \A i \in 1..(n - m) : e[i] = b[m + i]
  BY <1>1, <1>4
<1> HIDE DEF e
<1>10. n - m \in Nat /\ m + (n - m) = n /\ m \in Nat /\ n - m \in 0..(n - m)
  BY <1>1, <1>4
<1>11. SS!SumAmounts(e, n - m) = SS!SumAmounts(b, n) - SS!SumAmounts(b, m)
  <2> HIDE DEF n, S, D, N
  <2> DEFINE l == n - m
  <2>1. /\ l \in Nat /\ m \in Nat /\ m + l = n /\ l \in 0..l
        /\ \A i \in 1..l : e[i].amount = b[m + i].amount
    BY <1>9, <1>10
  <2> HIDE DEF l
  <2>2. Numbers(b, m + l)
    BY <1>1, <2>1
  <2>3. \A k \in 0..l :
           SS!SumAmounts(e, k) = SS!SumAmounts(b, m + k) - SS!SumAmounts(b, m)
    BY <2>1, <2>2, AmountsFrom
  <2>4. SS!SumAmounts(e, l) = SS!SumAmounts(b, m + l) - SS!SumAmounts(b, m)
    BY Zenon, <2>1, <2>3
  <2> QED
    BY <2>1, <2>4 DEF l
<1>12. Positive(e, n - m)
  <2> HIDE DEF n, S, D, N
  <2>1. ASSUME NEW i \in 1..(n - m) PROVE e[i].amount \in Nat
    <3>1. m + i \in 1..n
      BY <1>10, <1>1
    <3>2. b[m + i].amount \in Nat
      BY Zenon, <1>1, <3>1
    <3>3. e[i] = b[m + i]
      BY Zenon, <1>9
    <3> QED
      BY Zenon, <3>2, <3>3
  <2> QED
    BY <2>1 DEF Positive
<1>13. Total(e) = Total(b)
  <2>1. Total(b) \in Nat
    BY FairLists
  <2> QED
    BY <1>7, <1>9, <1>11, <2>1 DEF Total
<1> QED
  BY <1>8, <1>9, <1>12, <1>13 DEF Fair

-----------------------------------------------------------------------------
(* What a sporadic server has.                                               *)

(* The account of a sporadic server at the time t: what it has now, what is *)
(* ready and what is to come back are at least its budget.                  *)
Kept(r, t) ==
    r.kind = "sporadic" =>
        /\ r.last <= t
        /\ Fair(r.repl) /\ Fair(r.ready)
        /\ r.q <= r.cap + Total(r.ready) + Total(r.repl)

Solvent(w) == Typed(w) /\ \A s \in Servers : Kept(w.sv[s], w.now)

(* Between w and v no account of a sporadic server is short, no time passes, *)
(* no job changes and no task is told to suspend itself.                     *)
Steady(w, v) ==
    /\ Solvent(v)
    /\ v.now = w.now /\ v.tk = w.tk
    /\ \A s \in Servers : v.sv[s].kind = w.sv[s].kind
    /\ \A t : Posted(v, Susp(t)) => Posted(w, Susp(t))

LEMMA SteadyAtFirst ==
    ASSUME NEW w, Solvent(w)
    PROVE  Steady(w, w)
BY DEF Steady

LEMMA SteadyChain ==
    ASSUME NEW w, NEW v, NEW z, Steady(w, v), Steady(v, z)
    PROVE  Steady(w, z)
BY DEF Steady

(* The account does not depend on the status, the deadline or the timers.   *)
LEMMA KeptFields ==
    ASSUME NEW r, NEW t, Kept(r, t), NEW x, x.kind = r.kind, x.last = r.last,
           x.repl = r.repl, x.ready = r.ready, x.q = r.q, x.cap = r.cap
    PROVE  Kept(x, t)
BY DEF Kept

LEMMA OnlySusp ==
    ASSUME NEW w, NEW v, NEW E, Hushed(w, v, E), \A e \in E : e[1] # "susp"
    PROVE  \A t : Posted(v, Susp(t)) => Posted(w, Susp(t))
<1>1. ASSUME NEW t, Posted(v, Susp(t)) PROVE Posted(w, Susp(t))
  <2>1. PICK x \in Entries(v.q) : x.ev = Susp(t)
    BY <1>1, PostedEntries DEF Posted
  <2>2. Susp(t)[1] = "susp" /\ "susp" \in Noted
    BY DEF Susp, Noted
  <2>3. x \in Entries(w.q)
    BY <2>1, <2>2 DEF Hushed
  <2> QED
    BY <2>1, <2>3, PostedEntries DEF Posted
<1> QED
  BY <1>1

LEMMA CalmIsSteady ==
    ASSUME NEW w, NEW v, NEW z, Steady(w, v), NEW A, Calm(v, z, A)
    PROVE  Steady(w, z)
<1>1. \A t : Posted(z, Susp(t)) => Posted(v, Susp(t))
  BY OnlySusp DEF Calm
<1>2. Solvent(z)
  BY DEF Solvent, Calm, Steady
<1> QED
  BY <1>1, <1>2 DEF Calm, Steady

LEMMA MineIsSteady ==
    ASSUME NEW w, NEW v, NEW z, Steady(w, v), NEW s \in Servers, Mine(v, z, s),
           Kept(z.sv[s], v.now)
    PROVE  Steady(w, z)
<1>1. \A e \in Theirs(v, s) : e[1] # "susp"
  <2>1. \A e \in Own(s) : e[1] # "susp"
    BY OwnEventsAreNamed
  <2>2. \A x : BandEx(x)[1] # "susp"
    BY DEF BandEx
  <2> QED
    BY <2>1, <2>2 DEF Theirs
<1>2. \A t : Posted(z, Susp(t)) => Posted(v, Susp(t))
  BY <1>1, OnlySusp DEF Mine
<1>3. Solvent(z)
  <2>1. ASSUME NEW x \in Servers PROVE Kept(z.sv[x], z.now)
    <3>1. CASE x = s
      BY <3>1 DEF Mine
    <3>2. CASE x # s /\ v.sv[x].kind = "grub"
      <4>1. z.sv[x].kind # "sporadic"
        BY <3>2 DEF Mine
      <4> QED
        BY <4>1 DEF Kept
    <3>3. CASE x # s /\ v.sv[x].kind # "grub"
      BY <3>3 DEF Mine, Steady, Solvent
    <3> QED
      BY <3>1, <3>2, <3>3
  <2> QED
    BY <2>1 DEF Solvent, Mine
<1> QED
  BY <1>2, <1>3 DEF Mine, Steady

(* The timers do not touch the account. *)
LEMMA VTimeKeeps ==
    ASSUME NEW w, Typed(w), NEW s \in Servers, NEW rate \in Int,
           NEW v, v \in {SetVTime(w, s), StopVTime(w, s), StartVTime(w, s, rate)}
    PROVE  /\ Mine(w, v, s)
           /\ v.sv[s].kind = w.sv[s].kind /\ v.sv[s].last = w.sv[s].last
           /\ v.sv[s].repl = w.sv[s].repl /\ v.sv[s].ready = w.sv[s].ready
           /\ v.sv[s].q = w.sv[s].q /\ v.sv[s].cap = w.sv[s].cap
           /\ v.sv[s].status = w.sv[s].status /\ v.sv[s].dl = w.sv[s].dl
<1>1. Mine(w, v, s)
  BY VTimeIsMine
<1>2. w.sv[s] \in Records
  BY DEF Typed
<1>3. ASSUME NEW x, x # "none" PROVE Throw(w, x).sv = w.sv
  BY <1>3, Thrown DEF Elsewhere
<1>4. ASSUME NEW c, v = WithVTime(w, s, c)
      PROVE  v.sv[s] = [w.sv[s] EXCEPT !.vtime = c]
  BY <1>4 DEF WithVTime, Typed, On, WorldFields
<1>5. \/ \E x : x # "none" /\ v = Throw(w, x)
      \/ \E c : v = WithVTime(w, s, c)
  <2>1. "TimerIsRunning" # "none" /\ "TimerIsStopped" # "none"
    OBVIOUS
  <2> QED
    BY <2>1 DEF SetVTime, StopVTime, StartVTime, WithVTime
<1>6. CASE \E x : x # "none" /\ v = Throw(w, x)
  BY <1>1, <1>3, <1>6
<1>7. CASE \E c : v = WithVTime(w, s, c)
  <2>1. PICK c : v = WithVTime(w, s, c)
    BY <1>7
  <2>2. v.sv[s] = [w.sv[s] EXCEPT !.vtime = c]
    BY <1>4, <2>1
  <2> QED
    BY <1>1, <1>2, <2>2 DEF Records
<1> QED
  BY <1>5, <1>6, <1>7

(* The events that may be posted. *)
LEMMA SteadyAgain ==
    ASSUME NEW w, NEW v, Steady(w, v)
    PROVE  /\ \A x : x # "none" => Steady(w, Throw(v, x))
           /\ \A e : Steady(w, Drop(v, e))
           /\ \A e, at : e[1] \notin Urgent /\ at \in Int => Steady(w, Post(v, e, at))
           /\ \A e : e[1] \in Urgent \ {"susp"} => Steady(w, Process(v, e))
<1>1. Typed(v) /\ Solvent(v)
  BY DEF Steady, Solvent
<1>2. ASSUME NEW z, Typed(z), Elsewhere(v, z),
             \A t : Posted(z, Susp(t)) => Posted(v, Susp(t))
      PROVE  Steady(w, z)
  <2>1. Solvent(z)
    BY <1>1, <1>2 DEF Solvent, Elsewhere
  <2> QED
    BY <1>2, <2>1 DEF Steady, Elsewhere
<1>3. ASSUME NEW x, x # "none" PROVE Steady(w, Throw(v, x))
  <2>1. Typed(Throw(v, x)) /\ Elsewhere(v, Throw(v, x)) /\ Throw(v, x).q = v.q
    BY <1>1, <1>3, Thrown
  <2> QED
    BY <1>2, <2>1 DEF Posted
<1>4. ASSUME NEW e PROVE Steady(w, Drop(v, e))
  <2>1. Typed(Drop(v, e)) /\ Elsewhere(v, Drop(v, e))
        /\ \A f : Posted(Drop(v, e), f) <=> Posted(v, f) /\ f # e
    BY <1>1, Dropped
  <2> QED
    BY <1>2, <2>1
<1>5. \A t : Susp(t)[1] = "susp" /\ "susp" \in Urgent
  BY DEF Susp, Urgent
<1>6. ASSUME NEW e, NEW at \in Int, e[1] \notin Urgent PROVE Steady(w, Post(v, e, at))
  <2>1. Typed(Post(v, e, at)) /\ Elsewhere(v, Post(v, e, at))
        /\ \A f : Posted(Post(v, e, at), f) => Posted(v, f) \/ f = e
    BY <1>1, <1>6, PostAdds
  <2>2. \A t : Susp(t) # e
    BY <1>5, <1>6
  <2> QED
    BY <1>2, <2>1, <2>2
<1>7. ASSUME NEW e, e[1] \in Urgent \ {"susp"} PROVE Steady(w, Process(v, e))
  <2>1. Typed(Process(v, e)) /\ Elsewhere(v, Process(v, e))
        /\ \A f : Posted(Process(v, e), f) <=> Posted(v, f) \/ f = e
    BY <1>1, <1>7, Processed
  <2>2. \A t : Susp(t) # e
    BY <1>5, <1>7
  <2> QED
    BY <1>2, <2>1, <2>2
<1> QED
  BY <1>3, <1>4, <1>6, <1>7

(* The kernels. *)
LEMMA KernelIsSteady ==
    ASSUME NEW w, NEW v, Steady(w, v)
    PROVE  /\ Steady(w, KernelDispatch(v))
           /\ \A x : Steady(w, Schedule(v, x)) /\ Steady(w, Deschedule(v, x))
                     /\ Steady(w, ServerDispatch(v, x))
           /\ \A x \in Entities : Steady(w, KernelOnArrival(v, x))
                     /\ Steady(w, KernelSuspend(v, x)) /\ Steady(w, KernelOnEnd(v, x))
           /\ \A k, x : Steady(w, SetExe(v, k, x))
           /\ \A k \in Kernels, t \in Tasks :
                 Steady(w, Insert(v, k, t)) /\ Steady(w, Extract(v, k, t))
<1>1. Typed(v)
  BY DEF Steady, Solvent
<1>2. /\ Steady(w, KernelDispatch(v))
      /\ \A x : Steady(w, Deschedule(v, x)) /\ Steady(w, ServerDispatch(v, x))
  BY <1>1, CalmIsSteady, DescheduleIsCalm, DispatchIsCalm
<1>3. \A x : Steady(w, Schedule(v, x))
  <2>1. \A x : Sched(x)[1] \in Urgent \ {"susp"}
    BY DEF Sched, Urgent
  <2> QED
    BY <2>1, SteadyAgain DEF Schedule
<1>4. ASSUME NEW x \in Entities
      PROVE  Steady(w, KernelOnArrival(v, x)) /\ Steady(w, KernelSuspend(v, x))
             /\ Steady(w, KernelOnEnd(v, x))
  <2>1. \E A, B, C : Calm(v, KernelOnArrival(v, x), A) /\ Calm(v, KernelSuspend(v, x), B)
                     /\ Calm(v, KernelOnEnd(v, x), C)
    BY <1>1, KernelIsCalm
  <2> QED
    BY <2>1, CalmIsSteady
<1>5. \A k, x : Steady(w, SetExe(v, k, x))
  BY <1>1, CalmIsSteady, ExeIsCalm
<1>6. ASSUME NEW k \in Kernels, NEW t \in Tasks
      PROVE  Steady(w, Insert(v, k, t)) /\ Steady(w, Extract(v, k, t))
  <2>1. \E A, B : Calm(v, Insert(v, k, t), A) /\ Calm(v, Extract(v, k, t), B)
    BY <1>1, QueueIsCalm DEF Entities
  <2> QED
    BY <2>1, CalmIsSteady
<1> QED
  BY <1>2, <1>3, <1>4, <1>5, <1>6

(* The server s itself. *)
LEMMA RecordIsSteady ==
    ASSUME NEW w, NEW v, Steady(w, v), NEW s \in Servers
    PROVE  /\ v.sv[s] \in Records /\ Kept(v.sv[s], v.now) /\ v.now \in Nat
           /\ v.sv[s].kind \in Kinds[s] /\ v.sup.active \in Int /\ v.sup.residual \in Int
           /\ \A r \in Records : r.kind = v.sv[s].kind /\ Kept(r, v.now) =>
                 /\ Steady(w, WithServer(v, s, r)) /\ WithServer(v, s, r).sv[s] = r
           /\ \A st \in Statuses : Steady(w, SetStatus(v, s, st))
           /\ Steady(w, SetVTime(v, s)) /\ Steady(w, StopVTime(v, s))
           /\ \A rate \in Int : Steady(w, StartVTime(v, s, rate))
<1>1. Typed(v) /\ v.sv[s] \in Records /\ Kept(v.sv[s], v.now) /\ v.now \in Nat
      /\ v.sv[s].kind \in Kinds[s] /\ v.sup.active \in Int /\ v.sup.residual \in Int
  BY DEF Steady, Solvent, Typed
<1>2. ASSUME NEW r \in Records, r.kind = v.sv[s].kind, Kept(r, v.now)
      PROVE  Steady(w, WithServer(v, s, r)) /\ WithServer(v, s, r).sv[s] = r
  <2>1. Mine(v, WithServer(v, s, r), s) /\ WithServer(v, s, r).sv[s] = r
    BY <1>1, <1>2, RecordIsMine
  <2> QED
    BY <1>2, <2>1, MineIsSteady
<1>3. ASSUME NEW st \in Statuses PROVE Steady(w, SetStatus(v, s, st))
  <2>1. Mine(v, SetStatus(v, s, st), s) /\ SetStatus(v, s, st).sv[s] = Turn(v.sv[s], st)
    BY <1>1, StatusIsMine
  <2>2. Kept(Turn(v.sv[s], st), v.now)
    BY <1>1 DEF Turn, Kept, Records
  <2> QED
    BY <2>1, <2>2, MineIsSteady
<1>4. ASSUME NEW rate \in Int, NEW z,
             z \in {SetVTime(v, s), StopVTime(v, s), StartVTime(v, s, rate)}
      PROVE  Steady(w, z)
  <2>1. /\ Mine(v, z, s)
        /\ z.sv[s].kind = v.sv[s].kind /\ z.sv[s].last = v.sv[s].last
        /\ z.sv[s].repl = v.sv[s].repl /\ z.sv[s].ready = v.sv[s].ready
        /\ z.sv[s].q = v.sv[s].q /\ z.sv[s].cap = v.sv[s].cap
    BY <1>1, <1>4, VTimeKeeps
  <2>2. Kept(z.sv[s], v.now)
    BY <1>1, <2>1, KeptFields
  <2> QED
    BY <2>1, <2>2, MineIsSteady
<1>5. 0 \in Int
  OBVIOUS
<1> QED
  BY <1>1, <1>2, <1>3, <1>4, <1>5

-----------------------------------------------------------------------------
(* The methods of the servers.                                               *)

(* The numbers they compute. *)
LEMMA TimesAreNumbers ==
    ASSUME NEW w, Solvent(w), NEW s \in Servers
    PROVE  /\ VTime(w, s) \in Int /\ Trunc(VTime(w, s)) \in Int /\ Ceil(VTime(w, s)) \in Int
           /\ P[s] \in Nat \ {0} /\ VUnit \in Nat \ {0}
           /\ \A r \in Records : VRate(r, s) \in Int
           /\ w.now \in Nat /\ w.sv[s] \in Records
           /\ w.sv[s].q \in Nat \ {0} /\ w.sv[s].cap \in Int /\ w.sv[s].dl \in Int
           /\ w.sv[s].last \in Int
<1>1. P[s] \in Nat \ {0} /\ VUnit \in Nat \ {0}
  BY ServerAssumption
<1>2. w.now \in Nat /\ w.sv[s] \in Records
  BY DEF Solvent, Typed
<1>3. w.sv[s].vtime \in Timers /\ w.sv[s].q \in Nat \ {0} /\ w.sv[s].cap \in Int
      /\ w.sv[s].dl \in Int /\ w.sv[s].last \in Int
  BY <1>2 DEF Records
<1>4. VTime(w, s) \in Int
  BY <1>2, <1>3 DEF VTime, GetValue, Timers
<1>5. \A x \in Int : Trunc(x) \in Int /\ Ceil(x) \in Int
  BY <1>1 DEF Trunc, Ceil
<1>6. ASSUME NEW r \in Records PROVE VRate(r, s) \in Int
  <2>1. r.q \in Nat \ {0} /\ P[s] * VUnit \in Int
    BY <1>1 DEF Records
  <2> QED
    BY <2>1 DEF VRate
<1> QED
  BY <1>1, <1>2, <1>3, <1>4, <1>5, <1>6

(* Worlds in which the record of s is edited. *)
WithCap(w, s, x)               == [w EXCEPT !.sv[s].cap = x]
WithLast(w, s, x)              == [w EXCEPT !.sv[s].last = x]
WithBudget(w, s, n)            == [w EXCEPT !.sv[s].q = n]
WithCapAndDl(w, s, x, y)       == [w EXCEPT !.sv[s].cap = x, !.sv[s].dl = y]
WithStatusAndCap(w, s, st, x)  == [w EXCEPT !.sv[s].status = st, !.sv[s].cap = x]
WithStatusAndCapacity(w, s, st, c) ==
    [w EXCEPT !.sv[s].status = st, !.sv[s].capacity = c]

LEMMA EditIsSteady ==
    ASSUME NEW w, NEW v, Steady(w, v), NEW s \in Servers, v.sv[s].kind # "sporadic"
    PROVE  /\ \A x \in Int : Steady(w, WithCap(v, s, x)) /\ Steady(w, WithLast(v, s, x))
           /\ \A n \in Nat \ {0} : Steady(w, WithBudget(v, s, n))
           /\ \A c \in Timers : Steady(w, WithCapacity(v, s, c))
           /\ \A x, y \in Int : Steady(w, WithCapAndDl(v, s, x, y))
           /\ \A st \in Statuses : \A x \in Int : Steady(w, WithStatusAndCap(v, s, st, x))
           /\ \A st \in Statuses : \A c \in Timers :
                 Steady(w, WithStatusAndCapacity(v, s, st, c))
           /\ \A r \in Records : r.kind = v.sv[s].kind => Steady(w, WithServer(v, s, r))
<1>1. On(v, WorldFields) /\ v.sv \in [Servers -> Records] /\ v.sv[s] \in Records
  BY DEF Steady, Solvent, Typed
<1>2. ASSUME NEW r \in Records, r.kind = v.sv[s].kind
      PROVE  Steady(w, WithServer(v, s, r))
  <2>1. Kept(r, v.now)
    BY <1>2 DEF Kept
  <2> QED
    BY <1>2, <2>1, RecordIsSteady
<1>3. ASSUME NEW x \in Int PROVE Steady(w, WithCap(v, s, x)) /\ Steady(w, WithLast(v, s, x))
  <2> DEFINE r == [v.sv[s] EXCEPT !.cap = x]
             p == [v.sv[s] EXCEPT !.last = x]
  <2>1. r \in Records /\ r.kind = v.sv[s].kind /\ p \in Records /\ p.kind = v.sv[s].kind
    BY <1>1 DEF Records
  <2>2. WithCap(v, s, x) = WithServer(v, s, r) /\ WithLast(v, s, x) = WithServer(v, s, p)
    BY DEF WithCap, WithLast, WithServer
  <2> HIDE DEF r, p
  <2> QED
    BY <1>2, <2>1, <2>2
<1>4. ASSUME NEW n \in Nat \ {0} PROVE Steady(w, WithBudget(v, s, n))
  <2> DEFINE r == [v.sv[s] EXCEPT !.q = n]
  <2>1. r \in Records /\ r.kind = v.sv[s].kind
    BY <1>1 DEF Records
  <2>2. WithBudget(v, s, n) = WithServer(v, s, r)
    BY DEF WithBudget, WithServer
  <2> HIDE DEF r
  <2> QED
    BY <1>2, <2>1, <2>2
<1>5. ASSUME NEW c \in Timers PROVE Steady(w, WithCapacity(v, s, c))
  <2> DEFINE r == [v.sv[s] EXCEPT !.capacity = c]
  <2>1. r \in Records /\ r.kind = v.sv[s].kind
    BY <1>1 DEF Records
  <2>2. WithCapacity(v, s, c) = WithServer(v, s, r)
    BY DEF WithCapacity, WithServer
  <2> HIDE DEF r
  <2> QED
    BY <1>2, <2>1, <2>2
<1>6. ASSUME NEW x \in Int, NEW y \in Int PROVE Steady(w, WithCapAndDl(v, s, x, y))
  <2> DEFINE r == [v.sv[s] EXCEPT !.cap = x, !.dl = y]
  <2>1. r \in Records /\ r.kind = v.sv[s].kind
    BY <1>1 DEF Records
  <2>2. WithCapAndDl(v, s, x, y) = WithServer(v, s, r)
    BY <1>1 DEF WithCapAndDl, WithServer, On, WorldFields
  <2> HIDE DEF r
  <2> QED
    BY <1>2, <2>1, <2>2
<1>7. ASSUME NEW st \in Statuses, NEW x \in Int PROVE Steady(w, WithStatusAndCap(v, s, st, x))
  <2> DEFINE r == [v.sv[s] EXCEPT !.status = st, !.cap = x]
  <2>1. r \in Records /\ r.kind = v.sv[s].kind
    BY <1>1 DEF Records
  <2>2. WithStatusAndCap(v, s, st, x) = WithServer(v, s, r)
    BY <1>1 DEF WithStatusAndCap, WithServer, On, WorldFields
  <2> HIDE DEF r
  <2> QED
    BY <1>2, <2>1, <2>2
<1>8. ASSUME NEW st \in Statuses, NEW c \in Timers
      PROVE  Steady(w, WithStatusAndCapacity(v, s, st, c))
  <2> DEFINE r == [v.sv[s] EXCEPT !.status = st, !.capacity = c]
  <2>1. r \in Records /\ r.kind = v.sv[s].kind
    BY <1>1 DEF Records
  <2>2. WithStatusAndCapacity(v, s, st, c) = WithServer(v, s, r)
    BY <1>1 DEF WithStatusAndCapacity, WithServer, On, WorldFields
  <2> HIDE DEF r
  <2> QED
    BY <1>2, <2>1, <2>2
<1> QED
  BY <1>2, <1>3, <1>4, <1>5, <1>6, <1>7, <1>8

LEMMA RefilledIsRecord ==
    ASSUME NEW r \in Records, NEW dl \in Int
    PROVE  CBS!Refilled(r, dl) \in Records /\ CBS!Refilled(r, dl).kind = r.kind
<1> DEFINE c == r.q
<1>1. c \in Int
  BY DEF Records
<1>2. CBS!Refilled(r, dl) = [r EXCEPT !.cap = c, !.dl = dl]
  BY DEF CBS!Refilled
<1> HIDE DEF c
<1>3. [r EXCEPT !.cap = c, !.dl = dl] \in Records
      /\ [r EXCEPT !.cap = c, !.dl = dl].kind = r.kind
  BY <1>1 DEF Records
<1> QED
  BY <1>2, <1>3

LEMMA ConstantBandwidthIsSteady ==
    ASSUME NEW w, Solvent(w), NEW s \in Servers,
           w.sv[s].kind \in {"hardCBS", "softCBS", "reuseCBS"}
    PROVE  /\ Steady(w, CBS!IdleReady(w, s))
           /\ Steady(w, CBS!ReleasingReady(w, s))
           /\ Steady(w, CBS!ReadyExecuting(w, s))
           /\ Steady(w, CBS!ExecutingReady(w, s))
           /\ Steady(w, CBS!ExecutingReleasing(w, s))
           /\ Steady(w, CBS!ExecutingRecharging(w, s))
           /\ Steady(w, CBS!OnReplenishment(w, s))
           /\ Steady(w, CBS!OnIdle(w, s))
           /\ \A n \in Int : Steady(w, CBS!ChangeBudget(w, s, n))
<1> DEFINE L(v) == Steady(w, v)
<1>1. L(w)
  BY SteadyAtFirst
<1>2. ASSUME NEW v, L(v)
      PROVE  /\ \A x : x # "none" => L(CBS!Throw(v, x))
             /\ \A e : L(CBS!Drop(v, e))
             /\ \A x \in Statuses : L(CBS!SetStatus(v, s, x))
             /\ L(CBS!SetVTime(v, s)) /\ L(CBS!StopVTime(v, s))
             /\ \A x \in Int : L(CBS!StartVTime(v, s, x))
             /\ L(CBS!KernelOnArrival(v, s)) /\ \A x : L(CBS!SetExe(v, s, x))
  <2>1. s \in Entities
    BY DEF Entities
  <2>2. /\ \A x : x # "none" => L(Throw(v, x))
        /\ \A e : L(Drop(v, e))
        /\ \A x \in Statuses : L(SetStatus(v, s, x))
        /\ L(SetVTime(v, s)) /\ L(StopVTime(v, s))
        /\ \A x \in Int : L(StartVTime(v, s, x))
        /\ L(KernelOnArrival(v, s)) /\ \A x : L(SetExe(v, s, x))
    BY <1>2, <2>1, SteadyAgain, RecordIsSteady, KernelIsSteady
  <2> HIDE DEF L
  <2> QED
    BY <2>2, ConstantBandwidthShares
<1>3. ASSUME NEW v, L(v), NEW x \in Int
      PROVE  /\ L(CBS!Post(v, CBS!BandEx(s), x)) /\ L(CBS!Post(v, CBS!Repl(s), x))
             /\ L(CBS!Post(v, CBS!CBSIdle(s), x))
  <2>1. /\ BandEx(s)[1] \notin Urgent /\ Repl(s)[1] \notin Urgent
        /\ CBSIdle(s)[1] \notin Urgent
    BY DEF BandEx, Repl, CBSIdle, Urgent
  <2>2. L(Post(v, BandEx(s), x)) /\ L(Post(v, Repl(s), x)) /\ L(Post(v, CBSIdle(s), x))
    BY <1>3, <2>1, SteadyAgain
  <2> HIDE DEF L
  <2> QED
    BY <2>2, ConstantBandwidthShares
<1>4. ASSUME NEW v, L(v)
      PROVE  /\ Solvent(v) /\ v.sv[s].kind # "sporadic" /\ v.sv[s].kind = w.sv[s].kind
             /\ v.now = w.now
  BY <1>4 DEF Steady
<1>5. ASSUME NEW v, L(v)
      PROVE  /\ \A x \in Int : L(WithCap(v, s, x)) /\ L(WithLast(v, s, x))
             /\ \A n \in Nat \ {0} : L(WithBudget(v, s, n))
             /\ \A x, y \in Int : L(WithCapAndDl(v, s, x, y))
             /\ \A r \in Records : r.kind = v.sv[s].kind => L(WithServer(v, s, r))
  BY <1>4, <1>5, EditIsSteady
<1> HIDE DEF L
<1>6. /\ "IDLE" \in Statuses /\ "READY" \in Statuses /\ "EXECUTING" \in Statuses
      /\ "RELEASING" \in Statuses /\ "RECHARGING" \in Statuses
  BY DEF Statuses
<1>7. ASSUME NEW v, L(v)
      PROVE  /\ CBS!VTime(v, s) \in Int /\ CBS!Trunc(CBS!VTime(v, s)) \in Int
             /\ CBS!Ceil(CBS!VTime(v, s)) \in Int /\ P[s] \in Nat \ {0}
             /\ \A r \in Records : CBS!VRate(r, s) \in Int
             /\ v.now \in Nat /\ v.sv[s] \in Records
             /\ v.sv[s].q \in Nat \ {0} /\ v.sv[s].cap \in Int /\ v.sv[s].dl \in Int
             /\ v.sv[s].last \in Int
  <2>1. /\ VTime(v, s) \in Int /\ Trunc(VTime(v, s)) \in Int /\ Ceil(VTime(v, s)) \in Int
        /\ \A r \in Records : VRate(r, s) \in Int
        /\ P[s] \in Nat \ {0}
        /\ v.now \in Nat /\ v.sv[s] \in Records
        /\ v.sv[s].q \in Nat \ {0} /\ v.sv[s].cap \in Int /\ v.sv[s].dl \in Int
        /\ v.sv[s].last \in Int
    BY <1>4, <1>7, TimesAreNumbers
  <2>2. \A x : CBS!Trunc(x) = Trunc(x) /\ CBS!Ceil(x) = Ceil(x) /\ CBS!VRate(x, s) = VRate(x, s)
    BY DEF CBS!Trunc, CBS!Ceil, CBS!VRate, Trunc, Ceil, VRate
  <2> QED
    BY <2>1, <2>2, ConstantBandwidthShares
<1>8. L(CBS!IdleReady(w, s))
  <2> DEFINE c == CBS!Reusable(w, s)
             u == IF c = 0 THEN CBS!Refilled(w.sv[s], w.now + P[s])
                           ELSE [w.sv[s] EXCEPT !.cap = c]
             v == WithServer(w, s, u)
  <2>0. w.sv[s] \in Records /\ w.now + P[s] \in Int /\ P[s] \in Nat \ {0} /\ w.now \in Nat
        /\ w.sv[s].q \in Nat \ {0} /\ w.sv[s].dl \in Int
    BY <1>1, <1>7
  <2>1. c \in Int
    <3>1. (w.sv[s].dl - w.now) * w.sv[s].q \in Int
      BY <2>0
    <3> QED
      BY <2>0, <3>1 DEF CBS!Reusable
  <2>2. u \in Records /\ u.kind = w.sv[s].kind
    <3> HIDE DEF c
    <3>1. CBS!Refilled(w.sv[s], w.now + P[s]) \in Records
          /\ CBS!Refilled(w.sv[s], w.now + P[s]).kind = w.sv[s].kind
      BY <2>0, RefilledIsRecord
    <3>2. [w.sv[s] EXCEPT !.cap = c] \in Records
          /\ [w.sv[s] EXCEPT !.cap = c].kind = w.sv[s].kind
      BY <2>0, <2>1 DEF Records
    <3> QED
      BY <3>1, <3>2
  <2>3. L(v)
    <3> HIDE DEF u
    <3> QED
      BY <1>1, <1>5, <2>2
  <2> HIDE DEF v
  <2>4. L(CBS!SetVTime(CBS!SetStatus(v, s, "READY"), s)) /\ L(CBS!Throw(w, "NotIdle"))
    BY <1>1, <1>2, <1>6, <2>3
  <2> QED
    BY <2>4 DEF CBS!IdleReady, v, WithServer
<1>9. L(CBS!ReleasingReady(w, s))
  BY <1>1, <1>2, <1>6 DEF CBS!ReleasingReady
<1>10. L(CBS!ReadyExecuting(w, s))
  <2> DEFINE v == WithLast(w, s, w.now)
             z == CBS!SetStatus(v, s, "EXECUTING")
             y == CBS!StartVTime(z, s, CBS!VRate(w.sv[s], s))
  <2>0. w.now \in Int /\ w.now + w.sv[s].cap \in Int /\ CBS!VRate(w.sv[s], s) \in Int
    BY <1>1, <1>7
  <2>1. L(v)
    BY <1>1, <1>5, <2>0
  <2>2. L(y)
    <3> HIDE DEF v
    <3> QED
      BY <1>2, <1>6, <2>0, <2>1
  <2> HIDE DEF y
  <2>3. L(CBS!Post(y, CBS!BandEx(s), w.now + w.sv[s].cap))
    BY <1>3, <2>0, <2>2
  <2> QED
    BY <2>3 DEF CBS!ReadyExecuting, y, WithLast
<1>11. ASSUME NEW v, L(v) PROVE L(CBS!Charged(v, s))
  <2>1. v.sv[s].cap - (v.now - v.sv[s].last) \in Int
    BY <1>7, <1>11
  <2>2. L(WithCap(v, s, v.sv[s].cap - (v.now - v.sv[s].last)))
    BY <1>5, <1>11, <2>1
  <2> QED
    BY <2>2 DEF CBS!Charged, WithCap
<1>12. L(CBS!StopsExecuting(w, s))
  BY <1>1, <1>2, <1>11 DEF CBS!StopsExecuting
<1>13. L(CBS!ExecutingReady(w, s))
  BY <1>2, <1>6, <1>12 DEF CBS!ExecutingReady
<1>14. \A v : \A at \in Int : L(v) => L(CBS!ReleaseUntil(v, s, at))
  BY <1>2, <1>3, <1>6 DEF CBS!ReleaseUntil
<1>15. L(CBS!ExecutingReleasing(w, s))
  <2> DEFINE v == IF w.sv[s].status = "EXECUTING" THEN CBS!StopsExecuting(w, s) ELSE w
  <2>1. L(v)
    BY <1>1, <1>12
  <2> HIDE DEF v
  <2>2. L(CBS!ReleaseUntil(v, s, CBS!Trunc(CBS!VTime(v, s))))
    BY <1>7, <1>14, <2>1
  <2> QED
    BY <2>2 DEF CBS!ExecutingReleasing, v
<1>16. L(CBS!ExecutingRecharging(w, s))
  <2> DEFINE z  == CBS!StopVTime(CBS!Drop(w, CBS!BandEx(s)), s)
             v  == z.sv[s]
             p  == CBS!Post(z, CBS!Repl(s), v.dl)
             ph == WithCapAndDl(p, s, 0, v.dl + P[s])
             zs == WithServer(z, s, CBS!Refilled(v, v.dl + P[s]))
  <2>1. L(z)
    BY <1>1, <1>2
  <2>0. v \in Records /\ v.dl \in Int /\ v.dl + P[s] \in Int /\ 0 \in Int /\ w.now \in Int
    <3> HIDE DEF z
    <3> QED
      BY <1>1, <1>7, <2>1
  <2>2. L(ph)
    <3> HIDE DEF z, v
    <3>1. L(p)
      BY <1>3, <2>0, <2>1
    <3> HIDE DEF p
    <3> QED
      BY <1>5, <2>0, <3>1
  <2>3. L(zs)
    <3> HIDE DEF z
    <3> DEFINE r == CBS!Refilled(v, v.dl + P[s])
    <3>1. r \in Records /\ r.kind = v.kind
      <4> HIDE DEF v
      <4> QED
        BY <2>0, RefilledIsRecord
    <3> HIDE DEF r
    <3>2. L(WithServer(z, s, r))
      BY <1>5, <2>0, <2>1, <3>1
    <3> QED
      BY <3>2 DEF r
  <2> HIDE DEF ph, zs
  <2>4. L(CBS!SetStatus(ph, s, "RECHARGING"))
    BY <1>2, <1>6, <2>2
  <2>5. L(CBS!Post(CBS!SetStatus(zs, s, "READY"), CBS!Repl(s), w.now))
    BY <1>2, <1>3, <1>6, <2>0, <2>3
  <2> QED
    BY <2>4, <2>5 DEF CBS!ExecutingRecharging, ph, zs, WithCapAndDl, WithServer
<1>17. L(CBS!OnReplenishment(w, s))
  <2> DEFINE v == WithCap(w, s, w.sv[s].q)
             z == CBS!ReleaseUntil(v, s, CBS!Ceil(CBS!VTime(v, s)))
  <2>0. w.sv[s].q \in Int
    BY <1>1, <1>7
  <2>1. L(v)
    BY <1>1, <1>5, <2>0
  <2> HIDE DEF v
  <2>2. L(CBS!KernelOnArrival(CBS!RechargingReady(v, s), s))
    BY <1>2, <1>6, <2>1 DEF CBS!RechargingReady
  <2>3. L(z)
    BY <1>7, <1>14, <2>1
  <2> HIDE DEF z
  <2>4. L(CBS!SetExe(z, s, None))
    BY <1>2, <2>3
  <2> QED
    BY <1>1, <2>1, <2>2, <2>4 DEF CBS!OnReplenishment, v, z, WithCap
<1>18. L(CBS!OnIdle(w, s))
  BY <1>1, <1>2, <1>6 DEF CBS!OnIdle, CBS!ReleasingIdle
<1>19. ASSUME NEW n \in Int PROVE L(CBS!ChangeBudget(w, s, n))
  <2> DEFINE w1 == WithBudget(w, s, n)
             w2 == CBS!StopVTime(CBS!Drop(CBS!Charged(w1, s), CBS!BandEx(s)), s)
             w2b == WithLast(w2, s, w.now)
             w3 == CBS!Post(w2b, CBS!BandEx(s), w.now + w2.sv[s].cap)
             w4 == CBS!StartVTime(w3, s, CBS!VRate(w3.sv[s], s))
  <2>0. CASE n <= 0 \/ n = w.sv[s].q
    BY <1>1, <2>0 DEF CBS!ChangeBudget
  <2>1. CASE n > 0 /\ n # w.sv[s].q
    <3>0. n \in Nat \ {0} /\ w.now \in Int
      BY <1>1, <1>7, <2>1
    <3>1. L(w1)
      BY <1>1, <1>5, <3>0
    <3>2. L(w2)
      <4> HIDE DEF w1
      <4> QED
        BY <1>2, <1>11, <3>1
    <3>3. L(w2b) /\ w.now + w2.sv[s].cap \in Int
      <4> HIDE DEF w2
      <4> QED
        <5>1. w2.sv[s].cap \in Int
          BY <1>7, <3>2
        <5>2. L(WithLast(w2, s, w.now))
          BY <1>5, <3>0, <3>2
        <5> QED
          BY <3>0, <5>1, <5>2
    <3>4. L(w3)
      <4> HIDE DEF w2, w2b
      <4> QED
        BY <1>3, <3>3
    <3>5. L(w4)
      <4> HIDE DEF w3
      <4> QED
        BY <1>2, <1>7, <3>4
    <3>6. CBS!ChangeBudget(w, s, n) = IF w.sv[s].status # "EXECUTING" THEN w1 ELSE w4
      <4>1. n \in Int /\ ~(n <= 0 \/ n = w.sv[s].q)
        BY <2>1
      <4> QED
        BY <4>1 DEF CBS!ChangeBudget, WithBudget, WithLast
    <3> HIDE DEF w1, w4
    <3> QED
      BY <3>1, <3>5, <3>6
  <2>2. w.sv[s].q \in Int
    BY <1>1, <1>7
  <2> QED
    BY <2>0, <2>1, <2>2
<1> QED
  BY <1>8, <1>9, <1>10, <1>13, <1>15, <1>16, <1>17, <1>18, <1>19 DEF L

LEMMA PollingIsSteady ==
    ASSUME NEW w, Solvent(w), NEW s \in Servers, w.sv[s].kind = "polling"
    PROVE  /\ Steady(w, PS!IdleReady(w, s))
           /\ Steady(w, PS!ReleasingReady(w, s))
           /\ Steady(w, PS!ReadyExecuting(w, s))
           /\ Steady(w, PS!ExecutingReady(w, s))
           /\ Steady(w, PS!ExecutingReleasing(w, s))
           /\ Steady(w, PS!ExecutingRecharging(w, s))
           /\ Steady(w, PS!RechargingReady(w, s))
           /\ Steady(w, PS!RechargingIdle(w, s))
           /\ \A n \in Int : Steady(w, PS!ChangeBudget(w, s, n))
<1> DEFINE L(v) == Steady(w, v)
<1>1. L(w)
  BY SteadyAtFirst
<1>2. ASSUME NEW v, L(v)
      PROVE  /\ \A x : x # "none" => L(PS!Throw(v, x))
             /\ \A e : L(PS!Drop(v, e))
             /\ \A x \in Statuses : L(PS!SetStatus(v, s, x))
  <2>1. /\ \A x : x # "none" => L(Throw(v, x))
        /\ \A e : L(Drop(v, e))
        /\ \A x \in Statuses : L(SetStatus(v, s, x))
    BY <1>2, SteadyAgain, RecordIsSteady
  <2> HIDE DEF L
  <2> QED
    BY <2>1, PollingShares
<1>3. ASSUME NEW v, L(v), NEW x \in Int
      PROVE  /\ L(PS!Post(v, PS!BandEx(s), x)) /\ L(PS!Post(v, PS!Recharge(s), x))
             /\ L(PS!Post(v, PS!DlineMiss(s), x))
  <2>1. /\ BandEx(s)[1] \notin Urgent /\ Recharge(s)[1] \notin Urgent
        /\ DlineMiss(s)[1] \notin Urgent
    BY DEF BandEx, Recharge, DlineMiss, Urgent
  <2>2. L(Post(v, BandEx(s), x)) /\ L(Post(v, Recharge(s), x)) /\ L(Post(v, DlineMiss(s), x))
    BY <1>3, <2>1, SteadyAgain
  <2> HIDE DEF L
  <2> QED
    BY <2>2, PollingShares
<1>4. ASSUME NEW v, L(v)
      PROVE  /\ Solvent(v) /\ v.sv[s].kind # "sporadic" /\ v.now = w.now
             /\ v.now \in Nat /\ v.sv[s] \in Records /\ P[s] \in Nat \ {0}
             /\ v.sv[s].q \in Nat \ {0} /\ v.sv[s].cap \in Int /\ v.sv[s].last \in Int
  <2>1. Solvent(v) /\ v.sv[s].kind # "sporadic" /\ v.now = w.now
    BY <1>4 DEF Steady
  <2> HIDE DEF L
  <2> QED
    BY <2>1, TimesAreNumbers
<1>5. ASSUME NEW v, L(v)
      PROVE  /\ \A x \in Int : L(WithCap(v, s, x)) /\ L(WithLast(v, s, x))
             /\ \A n \in Nat \ {0} : L(WithBudget(v, s, n))
             /\ \A st \in Statuses : \A x \in Int : L(WithStatusAndCap(v, s, st, x))
  BY <1>4, <1>5, EditIsSteady
<1> HIDE DEF L
<1>6. /\ "IDLE" \in Statuses /\ "READY" \in Statuses /\ "EXECUTING" \in Statuses
      /\ "RELEASING" \in Statuses /\ "RECHARGING" \in Statuses
  BY DEF Statuses
<1>7. ASSUME NEW v, L(v) PROVE L(PS!Recharged(v, s))
  <2> DEFINE z == WithStatusAndCap(v, s, "READY", v.sv[s].q)
             y == [v EXCEPT !.sv[s].cap = v.sv[s].q, !.sv[s].status = "READY"]
             at == v.now + P[s]
  <2>1. v.sv[s].q \in Int /\ at \in Int
    BY <1>4, <1>7
  <2>2. L(z)
    BY <1>5, <1>6, <1>7, <2>1
  <2>3. y = z
    <3>1. On(v, WorldFields) /\ On(v.sv, Servers) /\ v.sv[s] \in Records
      BY <1>4, <1>7 DEF Solvent, Typed, On
    <3>2. y.sv[s] = z.sv[s]
      BY <3>1 DEF On, WorldFields, Records, WithStatusAndCap
    <3> QED
      BY <3>1, <3>2 DEF On, WorldFields, WithStatusAndCap
  <2> HIDE DEF z, y, at
  <2>4. L(PS!Post(PS!Post(y, PS!Recharge(s), at), PS!DlineMiss(s), at))
    BY <1>3, <2>1, <2>2, <2>3
  <2> QED
    BY <2>4 DEF PS!Recharged, y, at
<1>8. L(PS!IdleReady(w, s)) /\ L(PS!ReleasingReady(w, s))
  BY <1>1, <1>2, <1>7 DEF PS!IdleReady, PS!ReleasingReady
<1>9. L(PS!ReadyExecuting(w, s))
  <2> DEFINE v == WithLast(w, s, w.now)
  <2>0. w.now \in Int /\ w.now + w.sv[s].cap \in Int
    BY <1>1, <1>4
  <2>1. L(v)
    BY <1>1, <1>5, <2>0
  <2> HIDE DEF v
  <2>2. L(PS!Post(PS!SetStatus(v, s, "EXECUTING"), PS!BandEx(s), w.now + w.sv[s].cap))
    BY <1>2, <1>3, <1>6, <2>0, <2>1
  <2> QED
    BY <2>2 DEF PS!ReadyExecuting, v, WithLast
<1>10. L(PS!ExecutingReady(w, s))
  <2> DEFINE c == w.sv[s].cap - (w.now - w.sv[s].last)
             v == WithStatusAndCap(w, s, "READY", c)
  <2>1. c \in Int
    BY <1>1, <1>4
  <2>2. L(v)
    <3> HIDE DEF c
    <3> QED
      BY <1>1, <1>5, <1>6, <2>1
  <2>3. v = [w EXCEPT !.sv[s].status = "READY", !.sv[s].cap = @ - (w.now - w.sv[s].last)]
    <3>1. On(w, WorldFields) /\ On(w.sv, Servers) /\ w.sv[s] \in Records
      BY <1>1, <1>4 DEF Solvent, Typed, On
    <3> QED
      BY <3>1 DEF On, WorldFields, Records, WithStatusAndCap
  <2> HIDE DEF v
  <2> QED
    BY <1>2, <2>2, <2>3 DEF PS!ExecutingReady
<1>11. L(PS!WaitsForPeriod(w, s))
  <2> DEFINE v == WithStatusAndCap(w, s, "RECHARGING", 0)
  <2>1. L(v)
    BY <1>1, <1>5, <1>6
  <2> HIDE DEF v
  <2>2. L(PS!Drop(v, PS!BandEx(s)))
    BY <1>2, <2>1
  <2> QED
    BY <2>2 DEF PS!WaitsForPeriod, v, WithStatusAndCap
<1>12. L(PS!ExecutingReleasing(w, s)) /\ L(PS!ExecutingRecharging(w, s))
  BY <1>11 DEF PS!ExecutingReleasing, PS!ExecutingRecharging
<1>13. L(PS!RechargingReady(w, s)) /\ L(PS!RechargingIdle(w, s))
  BY <1>1, <1>2, <1>6, <1>7 DEF PS!RechargingReady, PS!RechargingIdle
<1>14. ASSUME NEW n \in Int PROVE L(PS!ChangeBudget(w, s, n))
  <2>1. n > 0 => L(WithBudget(w, s, n))
    BY <1>1, <1>5
  <2> QED
    BY <1>1, <2>1 DEF PS!ChangeBudget, WithBudget
<1> QED
  BY <1>8, <1>9, <1>10, <1>12, <1>13, <1>14 DEF L

(* The supervisor's account. *)
WithActive(w, a)   == [w EXCEPT !.sup.active = a]
WithResidual(w, a) == [w EXCEPT !.sup.residual = a]

LEMMA AccountIsSteady ==
    ASSUME NEW w, NEW v, Steady(w, v), NEW a \in Int
    PROVE  Steady(w, WithActive(v, a)) /\ Steady(w, WithResidual(v, a))
<1>1. Solvent(v) /\ Typed(v)
  BY DEF Steady, Solvent
<1>2. ASSUME NEW z, z \in {WithActive(v, a), WithResidual(v, a)}
      PROVE  Steady(w, z)
  <2>1. /\ On(z, WorldFields) /\ z.queue = v.queue /\ z.insertTime = v.insertTime
        /\ z.now = v.now /\ z.tk = v.tk /\ z.q = v.q /\ z.currExe = v.currExe
        /\ z.sv = v.sv
        /\ z.sup \in {[v.sup EXCEPT !.active = a], [v.sup EXCEPT !.residual = a]}
    BY <1>1, <1>2 DEF Typed, On, WorldFields, WithActive, WithResidual
  <2>2. z.sup \in [active: Int, residual: Int]
    BY <1>1, <2>1 DEF Typed
  <2>3. Typed(z)
    BY <1>1, <2>1, <2>2 DEF Typed
  <2>4. Solvent(z)
    BY <1>1, <2>1, <2>3 DEF Solvent
  <2> QED
    BY <2>1, <2>4 DEF Steady, Posted
<1> QED
  BY <1>2

LEMMA UtilisationIsPositive ==
    ASSUME NEW s \in Servers, "grub" \in Kinds[s]
    PROVE  GRUB!Util(s) \in Nat \ {0} /\ UUnit \in Nat \ {0} /\ VUnit \in Nat \ {0}
<1> DEFINE m == Q[s] * UUnit
           p == P[s]
<1>1. UUnit \in Nat \ {0} /\ VUnit \in Nat \ {0} /\ p \in Nat \ {0} /\ Q[s] \in Nat \ {0}
  BY ServerAssumption
<1>2. m \in Nat \ {0}
  BY <1>1
<1>3. m % p = 0
  BY UnitAssumption
<1>4. GRUB!Util(s) = m \div p
  BY DEF GRUB!Util
<1> HIDE DEF m, p
<1>5. m = p * (m \div p) + (m % p) /\ m \div p \in Int
  BY <1>1, <1>2
<1>6. m \div p > 0
  <2> DEFINE k == m \div p
  <2>1. m = p * k /\ k \in Int
    BY <1>1, <1>2, <1>3, <1>5
  <2> HIDE DEF k
  <2>2. ~(k <= 0)
    <3>1. k <= 0 => p * k <= 0
      BY <1>1, <2>1
    <3> QED
      BY <1>2, <2>1, <3>1
  <2> QED
    BY <2>1, <2>2 DEF k
<1> QED
  BY <1>1, <1>4, <1>5, <1>6

LEMMA UpdateIsSteady ==
    ASSUME NEW w, NEW v, Steady(w, v), NEW s \in Servers, v.sv[s].kind = "grub"
    PROVE  Steady(w, GRUB!UpdateBudget(v, s))
<1> DEFINE y == StopVTime(v, s)
           c == GRUB!Stopped(y.sv[s].capacity, v.now)
           z == WithCapacity(y, s, c)
<1>1. Steady(w, y)
  BY RecordIsSteady
<1>2. y.sv[s] \in Records /\ y.sv[s].kind = "grub" /\ v.now \in Nat
  <2> HIDE DEF y
  <2>1. y.sv[s] \in Records /\ v.now \in Nat
    BY <1>1, RecordIsSteady
  <2> QED
    BY <1>1, <2>1 DEF Steady
<1>3. c \in Timers
  <2> HIDE DEF y
  <2>1. y.sv[s].capacity \in Timers
    BY <1>2 DEF Records
  <2>2. Stopped(y.sv[s].capacity, v.now) \in Timers
    <3>1. 0 \in Int /\ v.now \in Int
      BY <1>2
    <3> QED
      BY <2>1, <3>1, TimersAreTyped
  <2> QED
    BY <2>2 DEF GRUB!Stopped, Stopped, GRUB!GetValue, GetValue
<1>4. Steady(w, z)
  <2> HIDE DEF y, c
  <2> QED
    BY <1>1, <1>2, <1>3, EditIsSteady
<1>5. Steady(w, Drop(z, BandEx(s)))
  <2> HIDE DEF z
  <2> QED
    BY <1>4, SteadyAgain
<1>6. /\ GRUB!StopVTime(v, s) = y
      /\ GRUB!Drop(z, GRUB!BandEx(s)) = Drop(z, BandEx(s))
  <2> HIDE DEF z
  <2> QED
    BY GrubShares
<1> HIDE DEF y
<1> QED
  BY <1>5, <1>6 DEF GRUB!UpdateBudget, WithCapacity

LEMMA StartIsSteady ==
    ASSUME NEW w, NEW v, Steady(w, v), NEW s \in Servers, v.sv[s].kind = "grub"
    PROVE  Steady(w, GRUB!StartAccounting(v, s))
<1> DEFINE a    == v.sup.active
           c    == GRUB!Started(v.sv[s].capacity, -a, v.now)
           y    == WithCapacity(v, s, c)
           rate == (a * VUnit) \div GRUB!Util(s)
           z    == StartVTime(y, s, rate)
           left == GRUB!InterceptOfZero(c, v.now)
<1>1. v.sv[s] \in Records /\ v.now \in Nat /\ a \in Int /\ "grub" \in Kinds[s]
  BY RecordIsSteady
<1>2. c \in Timers /\ c.der = -a
  <2> HIDE DEF a
  <2>1. v.sv[s].capacity \in Timers
    BY <1>1 DEF Records
  <2>2. Started(v.sv[s].capacity, -a, v.now) \in Timers
    BY <1>1, <2>1, TimersAreTyped
  <2> QED
    BY <2>1, <2>2 DEF GRUB!Started, Started, Timers
<1>3. Steady(w, y)
  <2> HIDE DEF c
  <2> QED
    BY <1>2, EditIsSteady
<1>4. rate \in Int
  <2> HIDE DEF a
  <2>1. GRUB!Util(s) \in Nat \ {0} /\ VUnit \in Nat \ {0}
    BY <1>1, UtilisationIsPositive
  <2>2. a * VUnit \in Int
    BY <1>1, <2>1
  <2> QED
    BY <2>1, <2>2
<1>5. Steady(w, z)
  <2> HIDE DEF y, rate
  <2> QED
    BY <1>3, <1>4, RecordIsSteady
<1>6. a # 0 => left \in Int
  <2> HIDE DEF c
  <2>1. GetValue(c, v.now) \in Int
    <3>1. 0 \in Int /\ v.now \in Int
      BY <1>1
    <3> QED
      BY <1>2, <3>1, TimersAreTyped
  <2>2. GRUB!GetValue(c, v.now) = GetValue(c, v.now)
    BY DEF GRUB!GetValue, GetValue
  <2> DEFINE x == GetValue(c, v.now)
  <2>3. left = IF c.der > 0 THEN (-x) \div c.der ELSE x \div (-c.der)
    BY <2>2 DEF GRUB!InterceptOfZero
  <2>4. x \in Int
    BY <2>1
  <2> HIDE DEF x, left, a
  <2> QED
    BY <1>1, <1>2, <2>3, <2>4
<1>7. /\ Steady(w, Throw(z, "CapacityIsNegative"))
      /\ a # 0 => Steady(w, Post(z, BandEx(s), v.now + left))
  <2> HIDE DEF z, left
  <2>1. BandEx(s)[1] \notin Urgent
    BY DEF BandEx, Urgent
  <2>2. a # 0 => v.now + left \in Int
    BY <1>1, <1>6
  <2> QED
    BY <1>5, <2>1, <2>2, SteadyAgain
<1>8. /\ GRUB!StartVTime(y, s, rate) = z
      /\ GRUB!Throw(z, "CapacityIsNegative") = Throw(z, "CapacityIsNegative")
      /\ GRUB!Post(z, GRUB!BandEx(s), v.now + left) = Post(z, BandEx(s), v.now + left)
  <2> HIDE DEF y, rate, left
  <2>1. GRUB!StartVTime(y, s, rate) = z
    BY GrubShares
  <2> HIDE DEF z
  <2> QED
    BY <2>1, GrubShares
<1> HIDE DEF z
<1> QED
  BY <1>7, <1>8 DEF GRUB!StartAccounting, WithCapacity

(* All the calls that a change of the bandwidth in use makes. *)
LEMMA CallsAreSteady ==
    ASSUME NEW b, NEW w, NEW v, Steady(w, v), NEW n \in Nat, NEW g, Calls(g, b, v, n)
    PROVE  Steady(w, g[n])
<1> DEFINE Bad == {m \in 0..n : ~Steady(v, g[m])}
<1>0. Solvent(v)
  BY DEF Steady
<1>1. Bad = {}
  <2> SUFFICES ASSUME Bad # {} PROVE FALSE
    OBVIOUS
  <2>1. PICK k \in Bad : \A m \in Bad : k <= m
    <3>1. Bad \in SUBSET Nat
      OBVIOUS
    <3> HIDE DEF Bad
    <3> QED
      BY <3>1, LeastNumber
  <2>2. k \in 0..n /\ ~Steady(v, g[k])
    BY <2>1
  <2>3. k # 0
    <3>1. g[0] = v
      BY DEF Calls
    <3> QED
      BY <1>0, <2>2, <3>1, SteadyAtFirst
  <2>4. k - 1 \in 0..n /\ k - 1 \notin Bad
    <3> HIDE DEF Bad
    <3>1. k - 1 \in 0..n /\ ~(k <= k - 1)
      BY <2>2, <2>3
    <3> QED
      BY <2>1, <3>1
  <2>5. Steady(v, g[k - 1])
    BY <2>4
  <2> DEFINE z == g[k - 1]
             x == EntitySeq[k]
  <2>6. g[k] = IF x \in Servers /\ v.sv[x].kind = "grub" THEN Account(b, z, x) ELSE z
    BY <2>2, <2>3 DEF Calls
  <2>7. x \in Servers => z.sv[x].kind = v.sv[x].kind
    BY <2>5 DEF Steady
  <2> HIDE DEF z, x
  <2>8. x \in Servers /\ v.sv[x].kind = "grub" => Steady(v, Account(b, z, x))
    BY <2>5, <2>7, UpdateIsSteady, StartIsSteady DEF Account, z
  <2> QED
    BY <2>2, <2>5, <2>6, <2>8 DEF z
<1>2. n \in 0..n
  OBVIOUS
<1>3. Steady(v, g[n])
  BY <1>1, <1>2
<1> QED
  BY <1>3, SteadyChain

LEMMA AllServersAreSteady ==
    ASSUME NEW w, NEW v, Steady(w, v)
    PROVE  /\ Steady(w, GRUB!OfAllServers(GRUB!UpdateBudget, v))
           /\ Steady(w, GRUB!OfAllServers(GRUB!StartAccounting, v))
<1> DEFINE n == Len(EntitySeq)
           done(b) == CHOOSE g : Calls(g, b, v, n)
<1>1. n \in Nat
  BY ServerAssumption
<1> HIDE DEF n
<1>2. \A b : Calls(done(b), b, v, n)
  BY <1>1, CallsExist
<1> HIDE DEF done
<1>3. \A b : Steady(w, done(b)[n])
  BY <1>1, <1>2, CallsAreSteady
<1>4. GRUB!OfAllServers(GRUB!UpdateBudget, v) = done(TRUE)[n]
  BY DEF GRUB!OfAllServers, done, Calls, Account, n
<1>5. GRUB!OfAllServers(GRUB!StartAccounting, v) = done(FALSE)[n]
  BY DEF GRUB!OfAllServers, done, Calls, Account, n
<1> QED
  BY <1>3, <1>4, <1>5

LEMMA ActiveIsSteady ==
    ASSUME NEW w, NEW v, Steady(w, v), NEW d \in Int
    PROVE  Steady(w, GRUB!ChangeActive(v, d))
<1> DEFINE y == GRUB!OfAllServers(GRUB!UpdateBudget, v)
           a == y.sup.active + d
           z == WithActive(y, a)
<1>1. Steady(w, y)
  BY AllServersAreSteady
<1>2. a \in Int
  <2> HIDE DEF y
  <2>1. y.sup.active \in Int
    BY <1>1 DEF Steady, Solvent, Typed
  <2> QED
    BY <2>1
<1>3. Steady(w, z)
  <2> HIDE DEF y, a
  <2> QED
    BY <1>1, <1>2, AccountIsSteady
<1>4. Steady(w, GRUB!OfAllServers(GRUB!StartAccounting, z))
  <2> HIDE DEF z
  <2> QED
    BY <1>3, AllServersAreSteady
<1> HIDE DEF y
<1> QED
  BY <1>4 DEF GRUB!ChangeActive, WithActive, y

LEMMA GrubIsSteady ==
    ASSUME NEW w, Solvent(w), NEW s \in Servers, w.sv[s].kind = "grub"
    PROVE  /\ Steady(w, GRUB!IdleReady(w, s))
           /\ Steady(w, GRUB!ReleasingReady(w, s))
           /\ Steady(w, GRUB!ReadyExecuting(w, s))
           /\ Steady(w, GRUB!ExecutingReady(w, s))
           /\ Steady(w, GRUB!ExecutingReleasing(w, s))
           /\ Steady(w, GRUB!ExecutingRecharging(w, s))
           /\ Steady(w, GRUB!RechargingReady(w, s))
           /\ Steady(w, GRUB!RechargingIdle(w, s))
           /\ Steady(w, GRUB!OnIdle(w, s))
           /\ Steady(w, GRUB!Throw(w, "NothingToDo"))
<1> DEFINE L(v) == Steady(w, v)
<1>1. L(w)
  BY SteadyAtFirst
<1>2. ASSUME NEW v, L(v)
      PROVE  /\ \A x : x # "none" => L(GRUB!Throw(v, x))
             /\ \A e : L(GRUB!Drop(v, e))
             /\ \A x \in Statuses : L(GRUB!SetStatus(v, s, x))
             /\ L(GRUB!SetVTime(v, s))
  <2>1. /\ \A x : x # "none" => L(Throw(v, x))
        /\ \A e : L(Drop(v, e))
        /\ \A x \in Statuses : L(SetStatus(v, s, x))
        /\ L(SetVTime(v, s))
    BY <1>2, SteadyAgain, RecordIsSteady
  <2> HIDE DEF L
  <2> QED
    BY <2>1, GrubShares
<1>3. ASSUME NEW v, L(v), NEW x \in Int
      PROVE  L(GRUB!Post(v, GRUB!Idle(s), x)) /\ L(GRUB!Post(v, GRUB!Recharge(s), x))
  <2>1. Idle(s)[1] \notin Urgent /\ Recharge(s)[1] \notin Urgent
    BY DEF Idle, Recharge, Urgent
  <2>2. L(Post(v, Idle(s), x)) /\ L(Post(v, Recharge(s), x))
    BY <1>3, <2>1, SteadyAgain
  <2> HIDE DEF L
  <2> QED
    BY <2>2, GrubShares
<1>4. ASSUME NEW v, L(v)
      PROVE  /\ Solvent(v) /\ v.sv[s].kind = "grub" /\ v.now = w.now
             /\ v.now \in Nat /\ v.sv[s] \in Records /\ P[s] \in Nat \ {0}
             /\ v.sv[s].q \in Nat \ {0} /\ v.sv[s].dl \in Int
             /\ VTime(v, s) \in Int /\ Trunc(VTime(v, s)) \in Int
             /\ v.sup.residual \in Int
  <2>1. Solvent(v) /\ v.sv[s].kind = "grub" /\ v.now = w.now /\ v.sup.residual \in Int
    BY <1>4 DEF Steady, Solvent, Typed
  <2> HIDE DEF L
  <2> QED
    BY <2>1, TimesAreNumbers
<1>5. ASSUME NEW v, L(v)
      PROVE  /\ \A st \in Statuses : \A c \in Timers : L(WithStatusAndCapacity(v, s, st, c))
             /\ \A r \in Records : r.kind = "grub" => L(WithServer(v, s, r))
             /\ \A a \in Int : L(WithResidual(v, a)) /\ L(GRUB!ChangeActive(v, a))
             /\ L(GRUB!UpdateBudget(v, s)) /\ L(GRUB!StartAccounting(v, s))
  <2>1. v.sv[s].kind = "grub"
    BY <1>4, <1>5
  <2> QED
    BY <1>5, <2>1, EditIsSteady, AccountIsSteady, ActiveIsSteady, UpdateIsSteady,
       StartIsSteady
<1> HIDE DEF L
<1>6. /\ "IDLE" \in Statuses /\ "READY" \in Statuses /\ "EXECUTING" \in Statuses
      /\ "RELEASING" \in Statuses /\ "RECHARGING" \in Statuses
  BY DEF Statuses
<1>7. /\ GRUB!Util(s) \in Nat \ {0} /\ UUnit \in Nat \ {0} /\ VUnit \in Nat \ {0}
      /\ -GRUB!Util(s) \in Int /\ GRUB!Util(s) \in Int
  <2>1. "grub" \in Kinds[s]
    BY DEF Solvent, Typed
  <2>2. GRUB!Util(s) \in Nat \ {0} /\ UUnit \in Nat \ {0} /\ VUnit \in Nat \ {0}
    BY <2>1, UtilisationIsPositive
  <2> QED
    BY <2>2
<1>8. /\ w.sv[s] \in Records /\ w.sv[s].kind = "grub" /\ w.now + P[s] \in Int
      /\ w.sv[s].q * UUnit \in Int /\ w.now \in Nat /\ w.sv[s].capacity \in Timers
      /\ w.sv[s].capacity.value \in Int
  <2>1. w.sv[s] \in Records /\ w.now \in Nat /\ P[s] \in Nat \ {0}
        /\ w.sv[s].q \in Nat \ {0}
    BY <1>1, <1>4
  <2>2. w.sv[s].capacity \in Timers
    BY <2>1 DEF Records
  <2> QED
    BY <1>7, <2>1, <2>2 DEF Timers
<1>9. ASSUME NEW x \in Int PROVE GRUB!SetValue(w.sv[s].capacity, x) \in Timers
  BY <1>8, <1>9 DEF GRUB!SetValue, Timers
<1> DEFINE r == [w.sv[s] EXCEPT !.status = "READY", !.dl = w.now + P[s],
                    !.capacity = GRUB!SetValue(w.sv[s].capacity, w.sv[s].q * UUnit)]
           f == WithServer(w, s, r)
<1>10. L(GRUB!SetVTime(f, s))
  <2>1. GRUB!SetValue(w.sv[s].capacity, w.sv[s].q * UUnit) \in Timers
    <3> DEFINE x == w.sv[s].q * UUnit
    <3>1. x \in Int
      BY <1>8
    <3> HIDE DEF x
    <3>2. GRUB!SetValue(w.sv[s].capacity, x) \in Timers
      BY <1>9, <3>1
    <3> QED
      BY <3>2 DEF x
  <2>2. r \in Records /\ r.kind = "grub"
    BY <1>6, <1>8, <2>1 DEF Records
  <2> HIDE DEF r
  <2>3. L(f)
    BY <1>1, <1>5, <2>2
  <2> HIDE DEF f
  <2> QED
    BY <1>2, <2>3
<1>11. L(GRUB!IdleReady(w, s))
  <2> DEFINE u == GRUB!SetVTime(f, s)
  <2>1. L(u)
    BY <1>10
  <2> HIDE DEF u
  <2>2. L(GRUB!ChangeActive(u, GRUB!Util(s))) /\ L(GRUB!Throw(w, "NotIdle"))
    BY <1>1, <1>2, <1>5, <1>7, <2>1
  <2> QED
    BY <2>2 DEF GRUB!IdleReady, WithServer, u
<1>12. L(GRUB!RechargingReady(w, s))
  BY <1>10 DEF GRUB!RechargingReady, WithServer
<1> HIDE DEF r, f
<1>13. L(GRUB!ReleasingReady(w, s))
  BY <1>1, <1>2, <1>6 DEF GRUB!ReleasingReady
<1>14. L(GRUB!ReadyExecuting(w, s))
  <2> DEFINE a == w.sv[s].capacity.value + w.sup.residual * UUnit
             c == GRUB!SetValue(w.sv[s].capacity, a)
             v == WithStatusAndCapacity(w, s, "EXECUTING", c)
             z == WithResidual(v, 0)
  <2>1. a \in Int
    BY <1>1, <1>4, <1>7, <1>8
  <2>2. c \in Timers
    <3> HIDE DEF a
    <3> QED
      BY <1>9, <2>1
  <2>3. L(v)
    <3> HIDE DEF c
    <3> QED
      BY <1>1, <1>5, <1>6, <2>2
  <2>4. L(z)
    <3> HIDE DEF v
    <3> QED
      BY <1>5, <2>3
  <2>5. z = [w EXCEPT !.sv[s].status = "EXECUTING", !.sv[s].capacity = c,
                      !.sup.residual = 0]
    <3> HIDE DEF c
    <3> QED
      BY DEF WithResidual, WithStatusAndCapacity
  <2> HIDE DEF z
  <2>6. L(GRUB!StartAccounting(z, s))
    BY <1>5, <2>4
  <2> QED
    BY <2>5, <2>6 DEF GRUB!ReadyExecuting
<1>15. L(GRUB!ExecutingReady(w, s))
  BY <1>1, <1>2, <1>5, <1>6 DEF GRUB!ExecutingReady
<1>16. L(GRUB!ExecutingReleasing(w, s))
  <2> DEFINE v  == GRUB!UpdateBudget(w, s)
             at == GRUB!Trunc(GRUB!VTime(v, s))
             z  == GRUB!SetStatus(v, s, "RELEASING")
             b  == IF w.now < at THEN at ELSE w.now
  <2>1. L(v)
    BY <1>1, <1>5
  <2>2. at \in Int
    <3> HIDE DEF v
    <3>1. GRUB!VTime(v, s) = VTime(v, s) /\ GRUB!Trunc(VTime(v, s)) = Trunc(VTime(v, s))
      BY GrubShares DEF GRUB!Trunc, Trunc
    <3> QED
      BY <1>4, <2>1, <3>1
  <2>3. b \in Int
    <3> HIDE DEF at
    <3> QED
      BY <1>8, <2>2
  <2>4. L(z)
    <3> HIDE DEF v
    <3> QED
      BY <1>2, <1>6, <2>1
  <2> HIDE DEF z, b
  <2>5. L(GRUB!Post(z, GRUB!Idle(s), b))
    BY <1>3, <2>3, <2>4
  <2> QED
    BY <2>5 DEF GRUB!ExecutingReleasing, z, b
<1>17. L(GRUB!ReleasingIdle(w, s))
  <2> DEFINE late == w.now * VUnit - GRUB!VTime(w, s)
             a == (GRUB!Util(s) * late) \div (UUnit * VUnit)
             v == IF late > 0 THEN WithResidual(w, a) ELSE w
             z == GRUB!SetStatus(v, s, "IDLE")
  <2>1. late \in Int
    <3>1. VTime(w, s) \in Int
      BY <1>1, <1>4
    <3> QED
      BY <1>7, <1>8, <3>1, GrubShares
  <2>2. a \in Int
    <3> DEFINE m == GRUB!Util(s) * late
               n == UUnit * VUnit
    <3>1. m \in Int /\ n \in Nat \ {0}
      <4> HIDE DEF late
      <4> QED
        BY <1>7, <2>1
    <3> HIDE DEF m, n
    <3>2. m \div n \in Int
      BY <3>1
    <3> QED
      BY <3>2 DEF m, n
  <2>3. L(v)
    <3> HIDE DEF late, a
    <3> QED
      BY <1>1, <1>5, <2>2
  <2>4. L(z)
    <3> HIDE DEF v
    <3> QED
      BY <1>2, <1>6, <2>3
  <2> HIDE DEF z
  <2>5. L(GRUB!ChangeActive(z, -GRUB!Util(s)))
    BY <1>5, <1>7, <2>4
  <2> QED
    BY <2>5 DEF GRUB!ReleasingIdle, z, WithResidual
<1>18. L(GRUB!RechargingIdle(w, s)) /\ L(GRUB!OnIdle(w, s))
  BY <1>1, <1>2, <1>17 DEF GRUB!RechargingIdle, GRUB!OnIdle
<1>19. L(GRUB!ExecutingRecharging(w, s))
  <2> DEFINE v == GRUB!SetStatus(GRUB!UpdateBudget(w, s), s, "RECHARGING")
             b == IF w.sv[s].dl < w.now THEN w.now ELSE w.sv[s].dl
  <2>1. L(v)
    BY <1>1, <1>2, <1>5, <1>6
  <2>2. b \in Int
    BY <1>1, <1>4
  <2> HIDE DEF v, b
  <2>3. L(GRUB!Post(v, GRUB!Recharge(s), b))
    BY <1>3, <2>1, <2>2
  <2> QED
    BY <2>3 DEF GRUB!ExecutingRecharging, v, b
<1>20. L(GRUB!Throw(w, "NothingToDo"))
  BY <1>1, <1>2
<1> QED
  BY <1>11, <1>12, <1>13, <1>14, <1>15, <1>16, <1>18, <1>19, <1>20 DEF L

(* The account of a sporadic server. *)
LEMMA AccountOfSporadic ==
    ASSUME NEW w, Solvent(w), NEW s \in Servers, w.sv[s].kind = "sporadic"
    PROVE  /\ w.sv[s].last <= w.now
           /\ Fair(w.sv[s].repl) /\ Fair(w.sv[s].ready)
           /\ Total(w.sv[s].repl) \in Nat /\ Total(w.sv[s].ready) \in Nat
           /\ w.sv[s].q <= w.sv[s].cap + Total(w.sv[s].ready) + Total(w.sv[s].repl)
BY FairLists DEF Solvent, Kept

(* What a replenishment brings to those that wait. *)
LEMMA PreparedIsSteady ==
    ASSUME NEW w, NEW v, Steady(w, v), NEW s \in Servers, v.sv[s].kind = "sporadic",
           NEW t \in Int
    PROVE  Steady(w, SS!PrepareReplenishment(v, s, t))
<1> DEFINE x == SS!Replenishment(t + P[s], 0)
           b == Append(v.sv[s].repl, x)
           r == [v.sv[s] EXCEPT !.repl = b]
<1>1. /\ Solvent(v) /\ v.sv[s] \in Records /\ v.sv[s].last <= v.now /\ P[s] \in Int
      /\ Fair(v.sv[s].repl) /\ Fair(v.sv[s].ready)
      /\ Total(v.sv[s].repl) \in Nat /\ Total(v.sv[s].ready) \in Nat
      /\ v.sv[s].q <= v.sv[s].cap + Total(v.sv[s].ready) + Total(v.sv[s].repl)
  <2>1. Solvent(v)
    BY DEF Steady
  <2>2. v.sv[s] \in Records /\ P[s] \in Int
    BY <2>1, TimesAreNumbers
  <2> QED
    BY <2>1, <2>2, AccountOfSporadic
<1>2. x \in Amounts /\ x.amount = 0
  BY <1>1 DEF SS!Replenishment, Amounts
<1>3. Fair(b) /\ Total(b) = Total(v.sv[s].repl)
  <2> HIDE DEF x
  <2>1. Fair(b) /\ Total(b) = Total(v.sv[s].repl) + x.amount
    BY <1>1, <1>2, AppendIsFair
  <2> QED
    BY <1>1, <1>2, <2>1
<1>4. /\ r \in Records /\ r.kind = v.sv[s].kind /\ r.last = v.sv[s].last /\ r.repl = b
      /\ r.ready = v.sv[s].ready /\ r.q = v.sv[s].q /\ r.cap = v.sv[s].cap
  <2> HIDE DEF b
  <2> QED
    BY <1>1, <1>3 DEF Records, Fair
<1>5. Kept(r, v.now)
  <2> HIDE DEF r, b
  <2> QED
    BY <1>1, <1>3, <1>4 DEF Kept
<1>6. Steady(w, WithServer(v, s, r))
  <2> HIDE DEF r
  <2> QED
    BY <1>4, <1>5, RecordIsSteady
<1> QED
  BY <1>6 DEF SS!PrepareReplenishment, WithServer

(* What was executed goes from the capacity to the latest replenishment. *)
LEMMA SpentIsSteady ==
    ASSUME NEW w, NEW v, Steady(w, v), NEW s \in Servers, v.sv[s].kind = "sporadic"
    PROVE  Steady(w, SS!Spent(v, s))
<1> DEFINE used == v.now - v.sv[s].last
           n == Len(v.sv[s].repl)
           b == [v.sv[s].repl EXCEPT ![n].amount = @ + used]
           c == v.sv[s].cap - used
           r == [v.sv[s] EXCEPT !.cap = c, !.repl = b]
           u == [v EXCEPT !.sv[s].cap = @ - used, !.sv[s].repl[n].amount = @ + used]
<1>1. /\ Solvent(v) /\ v.sv[s] \in Records /\ v.sv[s].last <= v.now
      /\ v.sv[s].last \in Int /\ v.sv[s].cap \in Int /\ v.now \in Int /\ v.sv[s].q \in Int
      /\ Fair(v.sv[s].repl) /\ Fair(v.sv[s].ready)
      /\ Total(v.sv[s].repl) \in Nat /\ Total(v.sv[s].ready) \in Nat
      /\ v.sv[s].q <= v.sv[s].cap + Total(v.sv[s].ready) + Total(v.sv[s].repl)
  <2>1. Solvent(v)
    BY DEF Steady
  <2> QED
    BY <2>1, TimesAreNumbers, AccountOfSporadic
<1>2. CASE n = 0
  <2>1. Steady(w, Throw(v, "EmptyList"))
    BY SteadyAgain
  <2> QED
    BY <1>2, <2>1, SporadicShares DEF SS!Spent
<1>3. CASE n # 0
  <2>1. used \in Nat /\ c \in Int /\ v.sv[s].repl # <<>>
    <3>1. Len(<<>>) = 0
      OBVIOUS
    <3> QED
      BY <1>1, <1>3, <3>1
  <2>2. Fair(b) /\ Total(b) = Total(v.sv[s].repl) + used
    <3> HIDE DEF used
    <3> QED
      BY <1>1, <2>1, LastIsFair
  <2>3. /\ r \in Records /\ r.kind = v.sv[s].kind /\ r.last = v.sv[s].last /\ r.repl = b
        /\ r.ready = v.sv[s].ready /\ r.q = v.sv[s].q /\ r.cap = c
    <3> HIDE DEF b, c
    <3> QED
      BY <1>1, <2>1, <2>2 DEF Records, Fair
  <2>4. v.sv[s].q <= c + Total(v.sv[s].ready) + Total(b)
    <3> HIDE DEF b
    <3> QED
      BY <1>1, <2>1, <2>2
  <2>5. Kept(r, v.now)
    <3> HIDE DEF r, b, c
    <3> QED
      BY <1>1, <2>2, <2>3, <2>4 DEF Kept
  <2>6. Steady(w, WithServer(v, s, r))
    <3> HIDE DEF r
    <3> QED
      BY <2>3, <2>5, RecordIsSteady
  <2>7. u = WithServer(v, s, r)
    <3>1. On(v, WorldFields) /\ On(v.sv, Servers) /\ On(v.sv[s], ServerFields)
      BY <1>1 DEF Solvent, Typed, On, Records, ServerFields
    <3> HIDE DEF used, n
    <3> QED
      BY <3>1 DEF On, WorldFields, ServerFields, WithServer
  <2> HIDE DEF u, r
  <2> QED
    BY <1>3, <2>6, <2>7 DEF SS!Spent, u
<1> QED
  BY <1>2, <1>3

LEMMA CheckIsSteady ==
    ASSUME NEW w, NEW v, Steady(w, v), NEW s \in Servers, v.sv[s].kind = "sporadic"
    PROVE  Steady(w, SS!CheckRepl(v, s))
<1>1. CASE v.sv[s].repl # <<>>
  <2> DEFINE x == v.sv[s].repl[1].at
  <2>1. v.sv[s].repl[1] \in Amounts
    BY <1>1, AccountOfSporadic, TailIsFair DEF Steady
  <2>2. x \in Int /\ Repl(s)[1] \notin Urgent
    BY <2>1 DEF Amounts, Repl, Urgent
  <2> HIDE DEF x
  <2>3. Steady(w, Post(v, Repl(s), x))
    BY <2>2, SteadyAgain
  <2>4. SS!Post(v, SS!Repl(s), x) = Post(v, Repl(s), x)
    BY SporadicShares
  <2> QED
    BY <2>3, <2>4 DEF SS!CheckRepl, x
<1>2. CASE v.sv[s].repl = <<>>
  BY <1>2 DEF SS!CheckRepl
<1> QED
  BY <1>1, <1>2

(* A decrease of the budget by d takes it from the capacity, what is ready  *)
(* and what is to come back, but from each no more than there is.           *)
LEMMA DecreaseIsFair ==
    ASSUME NEW a, Fair(a), NEW b, Fair(b), NEW c \in Int, NEW q \in Int, NEW n \in Int,
           q <= c + Total(a) + Total(b),
           NEW l, l = SS!Least(q - n, c), NEW d1, d1 = (q - n) - l,
           NEW d2, d2 = SS!Most(d1 - Total(a), 0)
    PROVE  /\ c - l \in Int
           /\ Fair(SS!SkipEmpty(SS!Reduced(a, d1))) /\ Fair(SS!SkipEmpty(SS!Reduced(b, d2)))
           /\ n <= (c - l) + Total(SS!SkipEmpty(SS!Reduced(a, d1)))
                           + Total(SS!SkipEmpty(SS!Reduced(b, d2)))
<1> DEFINE ra == SS!Reduced(a, d1)
           rb == SS!Reduced(b, d2)
           e  == SS!SkipEmpty(ra)
           f  == SS!SkipEmpty(rb)
<1>1. Total(a) \in Nat /\ Total(b) \in Nat
  BY FairLists
<1>2. l \in Int /\ l <= q - n /\ l <= c
  BY DEF SS!Least
<1>3. d1 \in Nat
  BY <1>2
<1>4. d2 \in Nat /\ d2 >= d1 - Total(a) /\ (d2 = d1 - Total(a) \/ (d2 = 0 /\ d1 <= Total(a)))
  BY <1>1, <1>3 DEF SS!Most
<1>5. /\ Fair(ra) /\ Total(ra) >= Total(a) - d1
      /\ Total(a) <= d1 => Total(ra) = 0
  BY <1>3, ReducedIsFair
<1>6. Fair(rb) /\ Total(rb) >= Total(b) - d2
  BY <1>4, ReducedIsFair
<1>7. Fair(e) /\ Total(e) = Total(ra) /\ Fair(f) /\ Total(f) = Total(rb)
  <2> HIDE DEF ra, rb
  <2> QED
    BY <1>5, <1>6, SkippedIsFair
<1>8. Total(ra) \in Nat /\ Total(rb) \in Nat
  <2> HIDE DEF ra, rb
  <2> QED
    BY <1>5, <1>6, FairLists
<1>9. n <= (c - l) + Total(e) + Total(f)
  <2> DEFINE A == Total(a)
             B == Total(b)
             x == Total(ra)
             y == Total(rb)
  <2>1. /\ A \in Nat /\ B \in Nat /\ x \in Nat /\ y \in Nat
        /\ x >= A - d1 /\ (A <= d1 => x = 0) /\ y >= B - d2
        /\ q <= c + A + B
    BY <1>1, <1>5, <1>6, <1>8
  <2> HIDE DEF A, B, x, y
  <2>2. d1 = (q - n) - l
    OBVIOUS
  <2>3. d2 \in Nat /\ (d2 = d1 - A \/ (d2 = 0 /\ d1 <= A))
    BY <1>4 DEF A
  <2> HIDE DEF e, f, ra, rb
  <2>4. n <= (c - l) + x + y
    BY <1>2, <1>3, <2>1, <2>2, <2>3
  <2> QED
    BY <1>7, <2>4 DEF x, y
<1>10. c - l \in Int
  BY <1>2
<1> HIDE DEF ra, rb, e, f
<1> QED
  BY <1>7, <1>9, <1>10 DEF ra, rb, e, f

LEMMA SporadicIsSteady ==
    ASSUME NEW w, Solvent(w), NEW s \in Servers, w.sv[s].kind = "sporadic"
    PROVE  /\ Steady(w, SS!IdleReady(w, s))
           /\ Steady(w, SS!ReleasingReady(w, s))
           /\ Steady(w, SS!ReadyExecuting(w, s))
           /\ Steady(w, SS!ExecutingReady(w, s))
           /\ Steady(w, SS!ExecutingReleasing(w, s))
           /\ Steady(w, SS!ExecutingRecharging(w, s))
           /\ Steady(w, SS!OnReplenishment(w, s))
           /\ Steady(w, SS!OnIdle(w, s))
           /\ \A n \in Int : Steady(w, SS!ChangeBudget(w, s, n))
<1> DEFINE L(v) == Steady(w, v)
<1>1. L(w)
  BY SteadyAtFirst
<1>2. ASSUME NEW v, L(v)
      PROVE  /\ \A x : x # "none" => L(SS!Throw(v, x))
             /\ \A e : L(SS!Drop(v, e))
             /\ \A x \in Statuses : L(SS!SetStatus(v, s, x))
             /\ L(SS!SetVTime(v, s)) /\ L(SS!StopVTime(v, s))
             /\ \A x \in Int : L(SS!StartVTime(v, s, x))
             /\ L(SS!KernelOnArrival(v, s)) /\ \A x : L(SS!SetExe(v, s, x))
  <2>1. s \in Entities
    BY DEF Entities
  <2>2. /\ \A x : x # "none" => L(Throw(v, x))
        /\ \A e : L(Drop(v, e))
        /\ \A x \in Statuses : L(SetStatus(v, s, x))
        /\ L(SetVTime(v, s)) /\ L(StopVTime(v, s))
        /\ \A x \in Int : L(StartVTime(v, s, x))
        /\ L(KernelOnArrival(v, s)) /\ \A x : L(SetExe(v, s, x))
    BY <1>2, <2>1, SteadyAgain, RecordIsSteady, KernelIsSteady
  <2> HIDE DEF L
  <2> QED
    BY <2>2, SporadicShares
<1>3. ASSUME NEW v, L(v), NEW x \in Int
      PROVE  /\ L(SS!Post(v, SS!BandEx(s), x)) /\ L(SS!Post(v, SS!Repl(s), x))
             /\ L(SS!Post(v, SS!Idle(s), x))
  <2>1. BandEx(s)[1] \notin Urgent /\ Repl(s)[1] \notin Urgent /\ Idle(s)[1] \notin Urgent
    BY DEF BandEx, Repl, Idle, Urgent
  <2>2. L(Post(v, BandEx(s), x)) /\ L(Post(v, Repl(s), x)) /\ L(Post(v, Idle(s), x))
    BY <1>3, <2>1, SteadyAgain
  <2> HIDE DEF L
  <2> QED
    BY <2>2, SporadicShares
<1>4. ASSUME NEW v, L(v)
      PROVE  Solvent(v) /\ v.sv[s].kind = "sporadic" /\ v.now = w.now
  BY <1>4 DEF Steady
<1>5. ASSUME NEW v, L(v)
      PROVE  /\ L(SS!Spent(v, s)) /\ L(SS!CheckRepl(v, s))
             /\ \A t \in Int : L(SS!PrepareReplenishment(v, s, t))
             /\ \A r \in Records : r.kind = v.sv[s].kind /\ Kept(r, v.now)
                   => L(WithServer(v, s, r))
  BY <1>4, <1>5, PreparedIsSteady, SpentIsSteady, CheckIsSteady, RecordIsSteady
<1> HIDE DEF L
<1>6. ASSUME NEW v, L(v)
      PROVE  /\ v.now \in Nat /\ v.sv[s] \in Records
             /\ v.sv[s].q \in Nat \ {0} /\ v.sv[s].cap \in Int /\ v.sv[s].last \in Int
             /\ v.sv[s].last <= v.now
             /\ Fair(v.sv[s].repl) /\ Fair(v.sv[s].ready)
             /\ Total(v.sv[s].repl) \in Nat /\ Total(v.sv[s].ready) \in Nat
             /\ v.sv[s].q <= v.sv[s].cap + Total(v.sv[s].ready) + Total(v.sv[s].repl)
             /\ On(v, WorldFields) /\ On(v.sv, Servers) /\ On(v.sv[s], ServerFields)
  <2>1. Solvent(v) /\ v.sv[s].kind = "sporadic"
    BY <1>4, <1>6
  <2>2. On(v, WorldFields) /\ On(v.sv, Servers) /\ On(v.sv[s], ServerFields)
    BY <2>1 DEF Solvent, Typed, On, Records, ServerFields
  <2> QED
    BY <2>1, <2>2, TimesAreNumbers, AccountOfSporadic
<1>7. ASSUME NEW v, L(v)
      PROVE  /\ SS!VTime(v, s) \in Int /\ SS!Ceil(SS!VTime(v, s)) \in Int
             /\ \A r \in Records : SS!VRate(r, s) \in Int
  <2>1. Solvent(v)
    BY <1>4, <1>7
  <2>2. /\ VTime(v, s) \in Int /\ Ceil(VTime(v, s)) \in Int
        /\ \A r \in Records : VRate(r, s) \in Int
    BY <2>1, TimesAreNumbers
  <2>3. \A x : SS!Ceil(x) = Ceil(x) /\ SS!VRate(x, s) = VRate(x, s)
    BY DEF SS!Ceil, SS!VRate, Ceil, VRate
  <2> QED
    BY <2>2, <2>3, SporadicShares
<1>8. /\ "IDLE" \in Statuses /\ "READY" \in Statuses /\ "EXECUTING" \in Statuses
      /\ "RELEASING" \in Statuses /\ "RECHARGING" \in Statuses
  BY DEF Statuses
<1>9. ASSUME NEW v, L(v), NEW r \in Records, r.kind = v.sv[s].kind,
             r.last <= v.now, Fair(r.repl), Fair(r.ready),
             r.q <= r.cap + Total(r.ready) + Total(r.repl)
      PROVE  L(WithServer(v, s, r))
  <2>1. Kept(r, v.now)
    BY <1>9 DEF Kept
  <2> QED
    BY <1>5, <1>9, <2>1
(* The moment the server executes again. *)
<1>10. ASSUME NEW v, L(v) PROVE L(WithLast(v, s, w.now))
  <2> DEFINE r == [v.sv[s] EXCEPT !.last = w.now]
  <2>1. /\ r \in Records /\ r.kind = v.sv[s].kind /\ r.last = w.now /\ r.repl = v.sv[s].repl
        /\ r.ready = v.sv[s].ready /\ r.q = v.sv[s].q /\ r.cap = v.sv[s].cap
    <3>1. v.sv[s] \in Records /\ w.now \in Int
      BY <1>1, <1>6, <1>10
    <3> QED
      BY <3>1 DEF Records
  <2>2. v.now = w.now /\ w.now <= w.now
    BY <1>1, <1>4, <1>6, <1>10
  <2>3. L(WithServer(v, s, r))
    <3> HIDE DEF r
    <3> QED
      BY <1>6, <1>9, <1>10, <2>1, <2>2
  <2> QED
    BY <2>3 DEF WithLast, WithServer
<1>11. L(SS!IdleReady(w, s))
  <2> DEFINE k == w.sv[s].q
             r == [w.sv[s] EXCEPT !.status = "READY", !.cap = k]
             u == [w EXCEPT !.sv[s].status = "READY", !.sv[s].cap = w.sv[s].q]
  <2>1. /\ r \in Records /\ r.kind = w.sv[s].kind /\ r.last = w.sv[s].last
        /\ r.repl = w.sv[s].repl /\ r.ready = w.sv[s].ready /\ r.q = w.sv[s].q
        /\ r.cap = k
    <3>1. w.sv[s] \in Records /\ k \in Int
      BY <1>1, <1>6
    <3> HIDE DEF k
    <3> QED
      BY <1>8, <3>1 DEF Records
  <2>2. w.sv[s].q <= w.sv[s].q + Total(w.sv[s].ready) + Total(w.sv[s].repl)
    BY <1>1, <1>6
  <2>3. L(WithServer(w, s, r))
    <3> HIDE DEF r
    <3> QED
      BY <1>1, <1>6, <1>9, <2>1, <2>2
  <2>4. u = WithServer(w, s, r)
    <3>1. On(w, WorldFields) /\ On(w.sv, Servers) /\ On(w.sv[s], ServerFields)
      BY <1>1, <1>6
    <3> QED
      BY <3>1 DEF On, WorldFields, ServerFields, WithServer
  <2> HIDE DEF u, r
  <2>5. L(SS!PrepareReplenishment(SS!SetVTime(u, s), s, w.now))
    <3>1. w.now \in Int
      BY <1>1, <1>6
    <3> QED
      BY <1>2, <1>5, <2>3, <2>4, <3>1
  <2> QED
    BY <1>1, <1>2, <2>5 DEF SS!IdleReady, u
<1>12. \A v : L(v) => L(SS!RechargingReady(v, s))
  <2>1. w.now \in Int
    BY <1>1, <1>6
  <2> QED
    BY <1>2, <1>4, <1>5, <1>8, <2>1 DEF SS!RechargingReady
<1>13. L(SS!ReleasingReady(w, s))
  <2>1. w.now \in Int
    BY <1>1, <1>6
  <2> QED
    BY <1>1, <1>2, <1>5, <1>8, <2>1 DEF SS!ReleasingReady
<1>14. L(SS!ReadyExecuting(w, s))
  <2> DEFINE u == WithLast(w, s, w.now)
             z == SS!StartVTime(SS!SetStatus(u, s, "EXECUTING"), s, SS!VRate(w.sv[s], s))
  <2>0. w.now + w.sv[s].cap \in Int /\ SS!VRate(w.sv[s], s) \in Int
    BY <1>1, <1>6, <1>7
  <2>1. L(u)
    BY <1>1, <1>10
  <2>2. L(z)
    <3> HIDE DEF u
    <3> QED
      BY <1>2, <1>8, <2>0, <2>1
  <2> HIDE DEF z
  <2>3. L(SS!Post(z, SS!BandEx(s), w.now + w.sv[s].cap))
    BY <1>3, <2>0, <2>2
  <2> QED
    BY <2>3 DEF SS!ReadyExecuting, z, WithLast
<1>15. L(SS!ExecutingReady(w, s))
  BY <1>1, <1>2, <1>5, <1>8 DEF SS!ExecutingReady
<1>16. L(SS!ExecutingReleasing(w, s))
  <2> DEFINE u == IF w.sv[s].status = "EXECUTING"
                  THEN SS!StopVTime(SS!CheckRepl(SS!Drop(SS!Spent(w, s), SS!BandEx(s)), s), s)
                  ELSE w
  <2>1. L(u)
    BY <1>1, <1>2, <1>5
  <2> HIDE DEF u
  <2>2. /\ L(SS!SetStatus(u, s, "IDLE"))
        /\ L(SS!SetStatus(SS!Post(u, SS!Idle(s), SS!Ceil(SS!VTime(u, s))), s, "RELEASING"))
    BY <1>2, <1>3, <1>7, <1>8, <2>1
  <2> QED
    BY <2>2 DEF SS!ExecutingReleasing, u
<1>17. L(SS!ExecutingRecharging(w, s))
  <2> DEFINE z == SS!StopVTime(SS!CheckRepl(SS!Spent(SS!Drop(w, SS!BandEx(s)), s), s), s)
             c == z.sv[s].ready
             k == z.sv[s].cap + c[1].amount
             e == Tail(c)
             r == [z.sv[s] EXCEPT !.status = "READY", !.cap = k, !.ready = e, !.last = w.now]
             u == [z EXCEPT !.sv[s].status = "READY",
                            !.sv[s].cap = @ + c[1].amount,
                            !.sv[s].ready = Tail(c),
                            !.sv[s].last = w.now]
  <2>1. L(z)
    BY <1>1, <1>2, <1>5
  <2>2. L(SS!SetStatus(z, s, "RECHARGING"))
    <3> HIDE DEF z
    <3> QED
      BY <1>2, <1>8, <2>1
  <2>3. ASSUME c # <<>> PROVE L(SS!PrepareReplenishment(u, s, c[1].at))
    <3> HIDE DEF z
    <3>1. /\ c[1] \in Amounts /\ c[1].amount \in Nat /\ Fair(e)
          /\ Total(c) = c[1].amount + Total(e)
      <4>1. Fair(c)
        BY <1>6, <2>1
      <4> HIDE DEF c
      <4> QED
        BY <2>3, <4>1, TailIsFair
    <3>2. Total(e) \in Nat /\ c[1].at \in Int
      <4> HIDE DEF c, e
      <4> QED
        BY <3>1, FairLists DEF Amounts
    <3>3. k \in Int /\ z.sv[s].q <= k + Total(e) + Total(z.sv[s].repl)
      <4>1. /\ z.sv[s].cap \in Int /\ z.sv[s].q \in Int /\ Total(z.sv[s].repl) \in Nat
            /\ z.sv[s].q <= z.sv[s].cap + Total(c) + Total(z.sv[s].repl)
        BY <1>6, <2>1
      <4> HIDE DEF c, e
      <4> QED
        BY <3>1, <3>2, <4>1
    <3>4. /\ r \in Records /\ r.kind = z.sv[s].kind /\ r.last = w.now
          /\ r.repl = z.sv[s].repl /\ r.ready = e /\ r.q = z.sv[s].q /\ r.cap = k
      <4>1. z.sv[s] \in Records /\ w.now \in Int
        BY <1>1, <1>6, <2>1
      <4> HIDE DEF e, k
      <4> QED
        BY <1>8, <3>1, <3>3, <4>1 DEF Records, Fair
    <3>5. z.now = w.now /\ w.now <= w.now /\ Fair(z.sv[s].repl)
      BY <1>1, <1>4, <1>6, <2>1
    <3>6. L(WithServer(z, s, r))
      <4> HIDE DEF r, e, k
      <4> QED
        BY <1>9, <2>1, <3>1, <3>3, <3>4, <3>5
    <3>7. u = WithServer(z, s, r)
      <4>1. On(z, WorldFields) /\ On(z.sv, Servers) /\ On(z.sv[s], ServerFields)
        BY <1>6, <2>1
      <4> HIDE DEF c
      <4> QED
        BY <4>1, ZenonT(60) DEF On, WorldFields, ServerFields, WithServer
    <3> HIDE DEF u, r, c
    <3> QED
      BY <1>5, <3>2, <3>6, <3>7
  <2> HIDE DEF u
  <2> QED
    BY <2>2, <2>3 DEF SS!ExecutingRecharging, u
<1>18. L(SS!OnReplenishment(w, s))
  <2> DEFINE b == w.sv[s].repl
             e == Tail(b)
             a == b[1].amount
             u == [w EXCEPT !.sv[s].repl = Tail(b)]
             k == w.sv[s].cap + a
             p == Append(w.sv[s].ready, b[1])
             ri == [w.sv[s] EXCEPT !.repl = e, !.cap = k]
             ra == [w.sv[s] EXCEPT !.repl = e, !.ready = p]
             ui == [u EXCEPT !.sv[s].cap = @ + b[1].amount]
             ua == [u EXCEPT !.sv[s].ready = Append(@, b[1])]
             z  == SS!CheckRepl(ui, s)
  <2>1. ASSUME b # <<>> PROVE L(ui) /\ L(ua)
    <3>0. /\ w.sv[s] \in Records /\ w.sv[s].cap \in Int /\ w.sv[s].q \in Int
          /\ w.sv[s].last <= w.now /\ Fair(b) /\ Fair(w.sv[s].ready)
          /\ Total(w.sv[s].ready) \in Nat
          /\ w.sv[s].q <= w.sv[s].cap + Total(w.sv[s].ready) + Total(b)
      BY <1>1, <1>6
    <3>1. b[1] \in Amounts /\ a \in Nat /\ Fair(e) /\ Total(b) = a + Total(e)
      <4> HIDE DEF b
      <4> QED
        BY <2>1, <3>0, TailIsFair
    <3>2. Total(e) \in Nat
      <4> HIDE DEF e
      <4> QED
        BY <3>1, FairLists
    <3>3. Fair(p) /\ Total(p) = Total(w.sv[s].ready) + a
      <4> HIDE DEF b
      <4> QED
        BY <3>0, <3>1, AppendIsFair
    <3>4. /\ ri \in Records /\ ri.kind = w.sv[s].kind /\ ri.last = w.sv[s].last
          /\ ri.repl = e /\ ri.ready = w.sv[s].ready /\ ri.q = w.sv[s].q /\ ri.cap = k
          /\ k \in Int
      <4>1. k \in Int
        <5> HIDE DEF a
        <5> QED
          BY <3>0, <3>1
      <4> HIDE DEF e, k
      <4> QED
        BY <3>0, <3>1, <4>1 DEF Records, Fair
    <3>5. /\ ra \in Records /\ ra.kind = w.sv[s].kind /\ ra.last = w.sv[s].last
          /\ ra.repl = e /\ ra.ready = p /\ ra.q = w.sv[s].q /\ ra.cap = w.sv[s].cap
      <4> HIDE DEF e, p
      <4> QED
        BY <3>0, <3>1, <3>3 DEF Records, Fair
    <3>6. /\ w.sv[s].q <= k + Total(w.sv[s].ready) + Total(e)
          /\ w.sv[s].q <= w.sv[s].cap + Total(p) + Total(e)
      <4> HIDE DEF a, e, p, b
      <4> QED
        BY <3>0, <3>1, <3>2, <3>3
    <3>7. L(WithServer(w, s, ri)) /\ L(WithServer(w, s, ra))
      <4> HIDE DEF ri, ra, e, p, b, k
      <4> QED
        BY <1>1, <1>9, <3>0, <3>1, <3>3, <3>4, <3>5, <3>6
    <3>8. ui = WithServer(w, s, ri) /\ ua = WithServer(w, s, ra)
      <4>1. On(w, WorldFields) /\ On(w.sv, Servers) /\ On(w.sv[s], ServerFields)
        BY <1>1, <1>6
      <4> HIDE DEF b
      <4>2. ui = WithServer(w, s, ri)
        BY <4>1, ZenonT(60) DEF On, WorldFields, ServerFields, WithServer
      <4>3. ua = WithServer(w, s, ra)
        BY <4>1, ZenonT(60) DEF On, WorldFields, ServerFields, WithServer
      <4> QED
        BY <4>2, <4>3
    <3> HIDE DEF ui, ua, ri, ra
    <3> QED
      BY <3>7, <3>8
  <2>2. ASSUME b # <<>> PROVE L(SS!ReplenishedInactive(u, s, b[1]))
    <3>1. L(z)
      <4> HIDE DEF ui, b
      <4> QED
        BY <1>5, <2>1, <2>2
    <3> HIDE DEF z, u
    <3>2. /\ L(SS!KernelOnArrival(SS!RechargingReady(z, s), s))
          /\ L(SS!SetExe(SS!SetStatus(z, s, "RELEASING"), s, None))
      BY <1>2, <1>8, <1>12, <3>1
    <3> QED
      BY <3>1, <3>2 DEF SS!ReplenishedInactive, z, ui
  <2>3. ASSUME b # <<>> PROVE L(SS!ReplenishedActive(u, s, b[1]))
    <3>1. L(ua)
      BY <2>1, <2>3
    <3> HIDE DEF ua, u
    <3>2. L(SS!CheckRepl(ua, s))
      BY <1>5, <3>1
    <3> QED
      BY <3>1, <3>2 DEF SS!ReplenishedActive, ua
  <2>4. L(SS!Throw(w, "EmptyList"))
    BY <1>1, <1>2
  <2> HIDE DEF u
  <2> QED
    BY <2>2, <2>3, <2>4 DEF SS!OnReplenishment, u
<1>19. L(SS!OnIdle(w, s))
  BY <1>1, <1>2, <1>8 DEF SS!OnIdle, SS!ReleasingIdle
<1>20. ASSUME NEW v, L(v) PROVE L(SS!Closed(v, s)) /\ L(SS!Opened(v, s))
  <2>1. L(SS!Closed(v, s))
    <3> DEFINE z == SS!StopVTime(SS!Drop(SS!Spent(v, s), SS!BandEx(s)), s)
    <3>1. L(z)
      BY <1>2, <1>5, <1>20
    <3>2. v.now = w.now
      BY <1>4, <1>20
    <3> HIDE DEF z
    <3>3. L(WithLast(z, s, w.now))
      BY <1>10, <3>1
    <3> QED
      BY <1>20, <3>2, <3>3 DEF SS!Closed, z, WithLast
  <2>2. L(SS!Opened(v, s))
    <3>1. v.now + v.sv[s].cap \in Int /\ SS!VRate(v.sv[s], s) \in Int
      BY <1>6, <1>7, <1>20
    <3>2. L(SS!Post(SS!StartVTime(v, s, SS!VRate(v.sv[s], s)), SS!BandEx(s),
                    v.now + v.sv[s].cap))
      BY <1>2, <1>3, <1>20, <3>1
    <3> QED
      BY <1>20, <3>2 DEF SS!Opened
  <2> QED
    BY <2>1, <2>2
<1>21. ASSUME NEW n \in Nat \ {0}, n > w.sv[s].q PROVE L(SS!Increase(w, s, n))
  <2> DEFINE k == w.sv[s].cap + n - w.sv[s].q
             r == [w.sv[s] EXCEPT !.cap = k, !.q = n]
             u == [w EXCEPT !.sv[s].cap = @ + n - w.sv[s].q, !.sv[s].q = n]
  <2>0. /\ w.sv[s] \in Records /\ w.sv[s].cap \in Int /\ w.sv[s].q \in Int
        /\ w.sv[s].last <= w.now /\ Fair(w.sv[s].repl) /\ Fair(w.sv[s].ready)
        /\ Total(w.sv[s].ready) \in Nat /\ Total(w.sv[s].repl) \in Nat
        /\ w.sv[s].q <= w.sv[s].cap + Total(w.sv[s].ready) + Total(w.sv[s].repl)
    BY <1>1, <1>6
  <2>1. k \in Int /\ n <= k + Total(w.sv[s].ready) + Total(w.sv[s].repl)
    BY <2>0
  <2>2. /\ r \in Records /\ r.kind = w.sv[s].kind /\ r.last = w.sv[s].last
        /\ r.repl = w.sv[s].repl /\ r.ready = w.sv[s].ready /\ r.q = n /\ r.cap = k
    <3> HIDE DEF k
    <3> QED
      BY <2>0, <2>1 DEF Records
  <2>3. L(WithServer(w, s, r))
    <3> HIDE DEF r, k
    <3> QED
      BY <1>1, <1>9, <2>0, <2>1, <2>2
  <2>4. u = WithServer(w, s, r)
    <3>1. On(w, WorldFields) /\ On(w.sv, Servers) /\ On(w.sv[s], ServerFields)
      BY <1>1, <1>6
    <3> QED
      BY <3>1 DEF On, WorldFields, ServerFields, WithServer
  <2> HIDE DEF u, r
  <2>5. L(SS!Opened(SS!Closed(u, s), s))
    BY <1>20, <2>3, <2>4
  <2> QED
    BY <2>5 DEF SS!Increase, u
<1>22. ASSUME NEW n \in Nat \ {0} PROVE L(SS!Decrease(w, s, n))
  <2> DEFINE w1 == SS!Closed(w, s)
             v  == w1.sv[s]
             l  == SS!Least(v.q - n, v.cap)
             d1 == (v.q - n) - l
             d2 == SS!Most(d1 - SS!SumAmounts(v.ready, Len(v.ready)), 0)
             b  == SS!SkipEmpty(SS!Reduced(v.repl, d2))
             a  == SS!SkipEmpty(SS!Reduced(v.ready, d1))
             k  == v.cap - l
             w2 == [w1 EXCEPT !.sv[s].cap = @ - l, !.sv[s].q = n,
                              !.sv[s].ready = SS!SkipEmpty(SS!Reduced(@, d1)),
                              !.sv[s].repl = b]
             r  == [v EXCEPT !.cap = k, !.q = n, !.ready = a, !.repl = b]
             w3 == IF ~SS!IsPosted(w.q, SS!Repl(s)) \/ Len(b) = Len(v.repl) THEN w2
                   ELSE IF \E i \in 2..(Len(v.repl) - Len(b)) : v.repl[i].at < w.now
                   THEN SS!Throw(w2, "PostedInThePast")
                   ELSE IF b = <<>> THEN SS!Throw(w2, "EmptyList")
                   ELSE SS!Post(SS!Drop(w2, SS!Repl(s)), SS!Repl(s), b[1].at)
  <2>1. L(w1)
    BY <1>1, <1>20
  <2>2. /\ k \in Int /\ Fair(a) /\ Fair(b) /\ n <= k + Total(a) + Total(b)
    <3>1. /\ v.cap \in Int /\ v.q \in Int /\ n \in Int /\ Fair(v.repl) /\ Fair(v.ready)
          /\ v.q <= v.cap + Total(v.ready) + Total(v.repl)
      <4> HIDE DEF w1
      <4> QED
        BY <1>6, <2>1
    <3>2. d2 = SS!Most(d1 - Total(v.ready), 0)
      BY DEF Total
    <3>3. l = SS!Least(v.q - n, v.cap) /\ d1 = (v.q - n) - l
      OBVIOUS
    <3> HIDE DEF v, l, d1, d2
    <3> QED
      BY <3>1, <3>2, <3>3, DecreaseIsFair
  <2>3. L(w2)
    <3>1. /\ On(w1, WorldFields) /\ On(w1.sv, Servers) /\ On(v, ServerFields)
          /\ v \in Records /\ v.last <= w1.now
      <4> HIDE DEF w1
      <4> QED
        BY <1>6, <2>1
    <3>2. /\ r \in Records /\ r.kind = v.kind /\ r.last = v.last
          /\ r.repl = b /\ r.ready = a /\ r.q = n /\ r.cap = k
      <4> HIDE DEF w1, v, l, d1, d2, b, a, k
      <4> QED
        BY <2>2, <3>1 DEF Records, Fair
    <3>3. w2 = WithServer(w1, s, r)
      <4> HIDE DEF w1, l, d1, d2, b
      <4> QED
        BY <3>1, ZenonT(60) DEF On, WorldFields, ServerFields, WithServer
    <3>4. L(WithServer(w1, s, r))
      <4> HIDE DEF w1, r, l, d1, d2, b, a, k
      <4> QED
        BY <1>9, <2>1, <2>2, <3>1, <3>2
    <3> HIDE DEF w2, r, w1
    <3> QED
      BY <3>3, <3>4
  <2>4. L(w3)
    <3>1. b # <<>> => b[1].at \in Int
      <4> HIDE DEF b
      <4>1. b # <<>> => b[1] \in Amounts
        BY <2>2, TailIsFair
      <4> QED
        BY <4>1 DEF Amounts
    <3> HIDE DEF w2, b, v
    <3>2. L(SS!Throw(w2, "EmptyList")) /\ L(SS!Throw(w2, "PostedInThePast"))
      BY <1>2, <2>3
    <3>3. b # <<>> => L(SS!Post(SS!Drop(w2, SS!Repl(s)), SS!Repl(s), b[1].at))
      BY <1>2, <1>3, <2>3, <3>1
    <3> QED
      BY <2>3, <3>2, <3>3
  <2>5. L(SS!Opened(w3, s)) /\ L(SS!Throw(w, "BudgetIsNotThere"))
    <3> HIDE DEF w3
    <3> QED
      BY <1>1, <1>2, <1>20, <2>4
  <2> HIDE DEF w3
  <2>6. SS!Decrease(w, s, n) \in {SS!Opened(w3, s), SS!Throw(w, "BudgetIsNotThere")}
    BY DEF SS!Decrease, w3
  <2> QED
    BY <2>5, <2>6
<1>23. ASSUME NEW n \in Int PROVE L(SS!ChangeBudget(w, s, n))
  <2>1. w.sv[s].q \in Nat \ {0}
    BY <1>1, <1>6
  <2>2. CASE n <= 0 \/ n = w.sv[s].q
    BY <1>1, <2>1, <2>2 DEF SS!ChangeBudget
  <2>3. CASE n > 0 /\ n > w.sv[s].q
    <3>1. L(SS!Increase(w, s, n))
      BY <1>21, <2>3
    <3>2. SS!ChangeBudget(w, s, n) = SS!Increase(w, s, n)
      BY <2>1, <2>3 DEF SS!ChangeBudget
    <3> QED
      BY <3>1, <3>2
  <2>4. CASE n > 0 /\ n < w.sv[s].q
    <3>1. L(SS!Decrease(w, s, n))
      BY <1>22, <2>4
    <3>2. SS!ChangeBudget(w, s, n) = SS!Decrease(w, s, n)
      BY <2>1, <2>4 DEF SS!ChangeBudget
    <3> QED
      BY <3>1, <3>2
  <2> QED
    BY <2>1, <2>2, <2>3, <2>4
<1> QED
  BY <1>11, <1>13, <1>14, <1>15, <1>16, <1>17, <1>18, <1>19, <1>23 DEF L

-----------------------------------------------------------------------------
(* The virtual methods, whatever the class.                                  *)

LEMMA KindsAreApart ==
    ASSUME NEW w, Solvent(w), NEW s \in Servers
    PROVE  /\ w.sv[s].kind \in Classes /\ Kind(w, s) = w.sv[s].kind
           /\ IsCBS(w, s) <=> w.sv[s].kind \in {"hardCBS", "softCBS", "reuseCBS"}
BY DEF Solvent, Typed, Records, Kind, IsCBS

LEMMA MethodsAreSteady ==
    ASSUME NEW w, Solvent(w), NEW s \in Servers
    PROVE  /\ Steady(w, IdleReady(w, s))
           /\ Steady(w, ReleasingReady(w, s))
           /\ Steady(w, ReadyExecuting(w, s))
           /\ Steady(w, ExecutingReady(w, s))
           /\ Steady(w, ExecutingReleasing(w, s))
           /\ Steady(w, ExecutingRecharging(w, s))
           /\ w.sv[s].kind \in {"polling", "grub"} =>
                 Steady(w, RechargingReady(w, s)) /\ Steady(w, RechargingIdle(w, s))
<1>0. /\ w.sv[s].kind \in Classes /\ Kind(w, s) = w.sv[s].kind
      /\ IsCBS(w, s) <=> w.sv[s].kind \in {"hardCBS", "softCBS", "reuseCBS"}
  BY KindsAreApart
<1>1. CASE w.sv[s].kind \in {"hardCBS", "softCBS", "reuseCBS"}
  <2>1. /\ Steady(w, CBS!IdleReady(w, s)) /\ Steady(w, CBS!ReleasingReady(w, s))
        /\ Steady(w, CBS!ReadyExecuting(w, s)) /\ Steady(w, CBS!ExecutingReady(w, s))
        /\ Steady(w, CBS!ExecutingReleasing(w, s))
        /\ Steady(w, CBS!ExecutingRecharging(w, s))
    BY <1>1, ConstantBandwidthIsSteady
  <2>2. /\ IdleReady(w, s) = CBS!IdleReady(w, s)
        /\ ReleasingReady(w, s) = CBS!ReleasingReady(w, s)
        /\ ReadyExecuting(w, s) = CBS!ReadyExecuting(w, s)
        /\ ExecutingReady(w, s) = CBS!ExecutingReady(w, s)
        /\ ExecutingReleasing(w, s) = CBS!ExecutingReleasing(w, s)
        /\ ExecutingRecharging(w, s) = CBS!ExecutingRecharging(w, s)
    BY <1>0, <1>1 DEF IdleReady, ReleasingReady, ReadyExecuting, ExecutingReady,
                      ExecutingReleasing, ExecutingRecharging
  <2> QED
    BY <1>1, <2>1, <2>2
<1>2. CASE w.sv[s].kind = "polling"
  <2>1. /\ Steady(w, PS!IdleReady(w, s)) /\ Steady(w, PS!ReleasingReady(w, s))
        /\ Steady(w, PS!ReadyExecuting(w, s)) /\ Steady(w, PS!ExecutingReady(w, s))
        /\ Steady(w, PS!ExecutingReleasing(w, s))
        /\ Steady(w, PS!ExecutingRecharging(w, s))
        /\ Steady(w, PS!RechargingReady(w, s)) /\ Steady(w, PS!RechargingIdle(w, s))
    BY <1>2, PollingIsSteady
  <2>2. /\ IdleReady(w, s) = PS!IdleReady(w, s)
        /\ ReleasingReady(w, s) = PS!ReleasingReady(w, s)
        /\ ReadyExecuting(w, s) = PS!ReadyExecuting(w, s)
        /\ ExecutingReady(w, s) = PS!ExecutingReady(w, s)
        /\ ExecutingReleasing(w, s) = PS!ExecutingReleasing(w, s)
        /\ ExecutingRecharging(w, s) = PS!ExecutingRecharging(w, s)
        /\ RechargingReady(w, s) = PS!RechargingReady(w, s)
        /\ RechargingIdle(w, s) = PS!RechargingIdle(w, s)
    BY <1>0, <1>2 DEF IdleReady, ReleasingReady, ReadyExecuting, ExecutingReady,
                      ExecutingReleasing, ExecutingRecharging, RechargingReady,
                      RechargingIdle
  <2> QED
    BY <2>1, <2>2
<1>3. CASE w.sv[s].kind = "sporadic"
  <2>1. /\ Steady(w, SS!IdleReady(w, s)) /\ Steady(w, SS!ReleasingReady(w, s))
        /\ Steady(w, SS!ReadyExecuting(w, s)) /\ Steady(w, SS!ExecutingReady(w, s))
        /\ Steady(w, SS!ExecutingReleasing(w, s))
        /\ Steady(w, SS!ExecutingRecharging(w, s))
    BY <1>3, SporadicIsSteady
  <2>2. /\ IdleReady(w, s) = SS!IdleReady(w, s)
        /\ ReleasingReady(w, s) = SS!ReleasingReady(w, s)
        /\ ReadyExecuting(w, s) = SS!ReadyExecuting(w, s)
        /\ ExecutingReady(w, s) = SS!ExecutingReady(w, s)
        /\ ExecutingReleasing(w, s) = SS!ExecutingReleasing(w, s)
        /\ ExecutingRecharging(w, s) = SS!ExecutingRecharging(w, s)
    BY <1>0, <1>3 DEF IdleReady, ReleasingReady, ReadyExecuting, ExecutingReady,
                      ExecutingReleasing, ExecutingRecharging
  <2> QED
    BY <1>3, <2>1, <2>2
<1>4. CASE w.sv[s].kind = "grub"
  <2>1. /\ Steady(w, GRUB!IdleReady(w, s)) /\ Steady(w, GRUB!ReleasingReady(w, s))
        /\ Steady(w, GRUB!ReadyExecuting(w, s)) /\ Steady(w, GRUB!ExecutingReady(w, s))
        /\ Steady(w, GRUB!ExecutingReleasing(w, s))
        /\ Steady(w, GRUB!ExecutingRecharging(w, s))
        /\ Steady(w, GRUB!RechargingReady(w, s)) /\ Steady(w, GRUB!RechargingIdle(w, s))
    BY <1>4, GrubIsSteady
  <2>2. /\ IdleReady(w, s) = GRUB!IdleReady(w, s)
        /\ ReleasingReady(w, s) = GRUB!ReleasingReady(w, s)
        /\ ReadyExecuting(w, s) = GRUB!ReadyExecuting(w, s)
        /\ ExecutingReady(w, s) = GRUB!ExecutingReady(w, s)
        /\ ExecutingReleasing(w, s) = GRUB!ExecutingReleasing(w, s)
        /\ ExecutingRecharging(w, s) = GRUB!ExecutingRecharging(w, s)
        /\ RechargingReady(w, s) = GRUB!RechargingReady(w, s)
        /\ RechargingIdle(w, s) = GRUB!RechargingIdle(w, s)
    BY <1>0, <1>4 DEF IdleReady, ReleasingReady, ReadyExecuting, ExecutingReady,
                      ExecutingReleasing, ExecutingRecharging, RechargingReady,
                      RechargingIdle
  <2> QED
    BY <2>1, <2>2
<1> QED
  BY <1>0, <1>1, <1>2, <1>3, <1>4 DEF Classes

LEMMA MethodsGoOn ==
    ASSUME NEW w, NEW v, Steady(w, v), NEW s \in Servers
    PROVE  /\ Steady(w, IdleReady(v, s))
           /\ Steady(w, ReleasingReady(v, s))
           /\ Steady(w, ReadyExecuting(v, s))
           /\ Steady(w, ExecutingReady(v, s))
           /\ Steady(w, ExecutingReleasing(v, s))
           /\ Steady(w, ExecutingRecharging(v, s))
<1>1. Solvent(v)
  BY DEF Steady
<1>2. /\ Steady(v, IdleReady(v, s)) /\ Steady(v, ReleasingReady(v, s))
      /\ Steady(v, ReadyExecuting(v, s)) /\ Steady(v, ExecutingReady(v, s))
      /\ Steady(v, ExecutingReleasing(v, s)) /\ Steady(v, ExecutingRecharging(v, s))
  BY <1>1, MethodsAreSteady
<1> QED
  BY <1>2, SteadyChain

(* The events of the servers and the calls of changeBudget. *)
LEMMA EventsAreSteady ==
    ASSUME NEW w, Solvent(w), NEW s \in Servers
    PROVE  /\ Fits(w, Repl(s)) =>
                 Steady(w, IF IsCBS(w, s) THEN CBS!OnReplenishment(w, s)
                                          ELSE SS!OnReplenishment(w, s))
           /\ Fits(w, CBSIdle(s)) => Steady(w, CBS!OnIdle(w, s))
           /\ Fits(w, Idle(s)) =>
                 Steady(w, IF Kind(w, s) = "grub" THEN GRUB!OnIdle(w, s)
                                                  ELSE SS!OnIdle(w, s))
           /\ \A n \in Int :
                 Steady(w, CASE IsCBS(w, s)            -> CBS!ChangeBudget(w, s, n)
                             [] Kind(w, s) = "polling"  -> PS!ChangeBudget(w, s, n)
                             [] Kind(w, s) = "sporadic" -> SS!ChangeBudget(w, s, n)
                             [] Kind(w, s) = "grub"     -> Throw(w, "NothingToDo"))
<1>1. /\ w.sv[s].kind \in Classes /\ Kind(w, s) = w.sv[s].kind
      /\ IsCBS(w, s) <=> w.sv[s].kind \in {"hardCBS", "softCBS", "reuseCBS"}
  BY KindsAreApart
<1>2. w.sv[s].kind \in {"hardCBS", "softCBS", "reuseCBS"} =>
         /\ Steady(w, CBS!OnReplenishment(w, s)) /\ Steady(w, CBS!OnIdle(w, s))
         /\ \A n \in Int : Steady(w, CBS!ChangeBudget(w, s, n))
  BY ConstantBandwidthIsSteady
<1>3. w.sv[s].kind = "polling" => \A n \in Int : Steady(w, PS!ChangeBudget(w, s, n))
  BY PollingIsSteady
<1>4. w.sv[s].kind = "sporadic" =>
         /\ Steady(w, SS!OnReplenishment(w, s)) /\ Steady(w, SS!OnIdle(w, s))
         /\ \A n \in Int : Steady(w, SS!ChangeBudget(w, s, n))
  BY SporadicIsSteady
<1>5. w.sv[s].kind = "grub" => Steady(w, GRUB!OnIdle(w, s)) /\ Steady(w, Throw(w, "NothingToDo"))
  BY GrubIsSteady, GrubShares
<1>6. /\ Fits(w, Repl(s)) =>
            w.sv[s].kind \in {"hardCBS", "softCBS", "reuseCBS", "sporadic"}
      /\ Fits(w, CBSIdle(s)) => w.sv[s].kind \in {"hardCBS", "softCBS", "reuseCBS"}
      /\ Fits(w, Idle(s)) => w.sv[s].kind \in {"sporadic", "grub"}
  BY DEF Fits, Posters, Repl, CBSIdle, Idle
<1>7. ASSUME NEW n \in Int
      PROVE  Steady(w, CASE IsCBS(w, s)            -> CBS!ChangeBudget(w, s, n)
                         [] Kind(w, s) = "polling"  -> PS!ChangeBudget(w, s, n)
                         [] Kind(w, s) = "sporadic" -> SS!ChangeBudget(w, s, n)
                         [] Kind(w, s) = "grub"     -> Throw(w, "NothingToDo"))
  <2>1. CASE w.sv[s].kind \in {"hardCBS", "softCBS", "reuseCBS"}
    BY <1>1, <1>2, <2>1
  <2>2. CASE w.sv[s].kind = "polling"
    BY <1>1, <1>3, <2>2
  <2>3. CASE w.sv[s].kind = "sporadic"
    BY <1>1, <1>4, <2>3
  <2>4. CASE w.sv[s].kind = "grub"
    BY <1>1, <1>5, <2>4
  <2> QED
    BY <1>1, <2>1, <2>2, <2>3, <2>4 DEF Classes
<1> QED
  BY <1>1, <1>2, <1>4, <1>5, <1>6, <1>7

-----------------------------------------------------------------------------
(* What the handlers do around them.                                         *)

LEMMA ServerIsSteady ==
    ASSUME NEW w, NEW v, Steady(w, v), NEW s \in Servers, NEW t \in Tasks
    PROVE  /\ Steady(w, ServerOnArrival(v, s, t))
           /\ Steady(w, ServerSuspend(v, s, t))
           /\ Steady(w, ServerOnEnd(v, s, t))
<1>1. s \in Entities /\ s \in Kernels
  BY DEF Entities, Kernels
<1>2. \A z : Steady(w, z) => Steady(w, KernelOnArrival(z, s))
  BY <1>1, KernelIsSteady
<1>3. \A z : Steady(w, z) => /\ \A x : Steady(w, Deschedule(z, x))
                             /\ Steady(w, ServerDispatch(z, s))
                             /\ \A x : Steady(w, SetExe(z, s, x))
  BY KernelIsSteady
<1>4. Steady(w, Insert(v, s, t)) /\ Steady(w, Extract(v, s, t))
  BY <1>1, KernelIsSteady
<1>5. \A z : Steady(w, z) => Steady(w, Throw(z, "NotExecuting"))
  BY SteadyAgain
<1>6. Steady(w, ServerOnArrival(v, s, t))
  <2> DEFINE z == Insert(v, s, t)
  <2>1. Steady(w, z)
    BY <1>4
  <2> HIDE DEF z
  <2>2. /\ Steady(w, ServerDispatch(z, s)) /\ Steady(w, KernelOnArrival(IdleReady(z, s), s))
        /\ Steady(w, KernelOnArrival(ReleasingReady(z, s), s))
    BY <1>2, <1>3, <2>1, MethodsGoOn
  <2> QED
    BY <2>1, <2>2 DEF ServerOnArrival, z
<1>7. Steady(w, ServerSuspend(v, s, t))
  <2> DEFINE z == Deschedule(Extract(v, s, t), t)
  <2>1. Steady(w, z)
    BY <1>3, <1>4
  <2> HIDE DEF z
  <2>2. Steady(w, ServerDispatch(SetExe(z, s, None), s))
    BY <1>3, <2>1
  <2> QED
    BY <1>5, <2>2 DEF ServerSuspend, z
<1>8. Steady(w, ServerOnEnd(v, s, t))
  BY <1>3, <1>4, <1>5 DEF ServerOnEnd
<1> QED
  BY <1>6, <1>7, <1>8

LEMMA HomesAreSteady ==
    ASSUME NEW w, NEW v, Steady(w, v), NEW t \in Tasks
    PROVE  /\ Steady(w, HomeOnArrival(v, t))
           /\ Steady(w, HomeOnEnd(v, t))
           /\ Steady(w, HomeSuspend(v, t))
<1>1. Home[t] # Kernel => Home[t] \in Servers
  BY ServerAssumption DEF Kernels
<1>2. t \in Entities
  BY DEF Entities
<1>3. Steady(w, KernelOnArrival(v, t)) /\ Steady(w, KernelSuspend(v, t))
      /\ Steady(w, KernelOnEnd(v, t))
  BY <1>2, KernelIsSteady
<1>4. Home[t] # Kernel =>
         /\ Steady(w, ServerOnArrival(v, Home[t], t))
         /\ Steady(w, ServerSuspend(v, Home[t], t))
         /\ Steady(w, ServerOnEnd(v, Home[t], t))
  BY <1>1, ServerIsSteady
<1> QED
  BY <1>3, <1>4 DEF HomeOnArrival, HomeOnEnd, HomeSuspend

(* Server::onDesched, onDispatch, onBudgetExhausted and onRecharging. *)
LEMMA SwitchIsSteady ==
    ASSUME NEW w, NEW v, Steady(w, v), NEW s \in Servers
    PROVE  /\ Steady(w, SwitchTasks(v, s)) /\ Steady(w, StopsTask(v, s))
           /\ Steady(w, KernelDispatch(KernelSuspend(ExecutingReleasing(v, s), s)))
           /\ Steady(w, Exhausted(v, s))
<1>1. s \in Entities
  BY DEF Entities
<1>2. \A z : Steady(w, z) =>
         /\ \A x : Steady(w, Deschedule(z, x)) /\ Steady(w, Schedule(z, x))
         /\ \A x : Steady(w, SetExe(z, s, x))
         /\ Steady(w, KernelDispatch(z)) /\ Steady(w, KernelSuspend(z, s))
         /\ Steady(w, KernelOnArrival(z, s))
  BY <1>1, KernelIsSteady
<1>3. Steady(w, SwitchTasks(v, s))
  <2> DEFINE a == IF v.currExe[s] = None THEN v ELSE Deschedule(v, v.currExe[s])
             b == SetExe(a, s, First(v, s))
  <2>1. Steady(w, a)
    BY <1>2
  <2> HIDE DEF a
  <2>2. Steady(w, b)
    BY <1>2, <2>1
  <2> HIDE DEF b
  <2>3. Steady(w, Schedule(b, First(v, s)))
    BY <1>2, <2>2
  <2> QED
    BY <2>2, <2>3 DEF SwitchTasks, a, b
<1>4. Steady(w, StopsTask(v, s))
  <2> DEFINE z == ExecutingReady(v, s)
  <2>1. Steady(w, z)
    BY MethodsGoOn
  <2> HIDE DEF z
  <2>2. Steady(w, SetExe(Deschedule(z, v.currExe[s]), s, None))
        /\ Steady(w, Throw(v, "NullPointer"))
    BY <1>2, <2>1, SteadyAgain
  <2> QED
    BY <2>2 DEF StopsTask, z
<1>5. Steady(w, KernelDispatch(KernelSuspend(ExecutingReleasing(v, s), s)))
  BY <1>2, MethodsGoOn
<1>6. Steady(w, Exhausted(v, s))
  <2> DEFINE c == v.currExe[s]
             a == Drop(v, Dispatch(s))
             d == IF c = None THEN a ELSE SetExe(Deschedule(a, c), s, None)
             f == KernelDispatch(KernelSuspend(d, s))
             g == ExecutingRecharging(f, s)
  <2>1. Steady(w, a)
    BY SteadyAgain
  <2> HIDE DEF a, c
  <2>2. Steady(w, d)
    BY <1>2, <2>1
  <2> HIDE DEF d
  <2>3. Steady(w, f)
    BY <1>2, <2>2
  <2> HIDE DEF f
  <2>4. Steady(w, g)
    BY <2>3, MethodsGoOn
  <2> HIDE DEF g
  <2>5. Steady(w, KernelOnArrival(g, s))
    BY <1>2, <2>4
  <2>6. Exhausted(v, s) = IF g.sv[s].status = "READY" THEN KernelOnArrival(g, s) ELSE g
    BY DEF Exhausted, a, c, d, f, g
  <2> QED
    BY <2>4, <2>5, <2>6
<1> QED
  BY <1>3, <1>4, <1>5, <1>6

LEMMA RechargeIsSteady ==
    ASSUME NEW w, Solvent(w), NEW s \in Servers, Fits(w, Recharge(s))
    PROVE  /\ Steady(w, KernelOnArrival(RechargingReady(w, s), s))
           /\ Steady(w, SetExe(RechargingIdle(w, s), s, None))
<1>1. w.sv[s].kind \in {"polling", "grub"}
  BY DEF Fits, Recharge, Posters
<1>2. Steady(w, RechargingReady(w, s)) /\ Steady(w, RechargingIdle(w, s))
  BY <1>1, MethodsAreSteady
<1>3. s \in Entities
  BY DEF Entities
<1> QED
  BY <1>2, <1>3, KernelIsSteady

-----------------------------------------------------------------------------
(* The jobs.                                                                 *)

(* The job k of t is at an instruction that suspends it. *)
Suspends(k, t) ==
    /\ k.state # "IDLE"
    /\ k.actInstr <= Len(Program[t])
    /\ Program[t][k.actInstr].op = "suspend"

(* A task that is told to suspend itself is at such an instruction. *)
Waits(w) ==
    /\ Solvent(w)
    /\ \A t \in Tasks : Posted(w, Susp(t)) => Suspends(w.tk[t], t)

LEMMA SteadyWaits ==
    ASSUME NEW w, Waits(w), NEW v, Steady(w, v)
    PROVE  Waits(v)
BY DEF Waits, Steady

(* The handler goes on to v. *)
Goes(w, v) == Waits(v) /\ v.now = w.now

LEMMA SteadyGoes ==
    ASSUME NEW w, NEW u, Goes(w, u), NEW v, Steady(u, v)
    PROVE  Goes(w, v)
BY SteadyWaits DEF Goes, Steady

(* From w to v the job of t becomes k, and nothing else changes. *)
Edited(w, v, t, k) ==
    /\ On(v, WorldFields)
    /\ v.tk = [w.tk EXCEPT ![t] = k]
    /\ v.now = w.now /\ v.sv = w.sv /\ v.queue = w.queue /\ v.q = w.q
    /\ v.insertTime = w.insertTime /\ v.currExe = w.currExe /\ v.sup = w.sup

LEMMA EditedWaits ==
    ASSUME NEW w, Waits(w), NEW v, NEW t \in Tasks, NEW k \in Jobs, Edited(w, v, t, k),
           Posted(w, Susp(t)) => Suspends(k, t)
    PROVE  Goes(w, v) /\ v.tk[t] = k
<1>1. w.tk \in [Tasks -> Jobs]
  BY DEF Waits, Solvent, Typed
<1>2. /\ v.tk \in [Tasks -> Jobs] /\ v.tk[t] = k
      /\ \A x \in Tasks : x # t => v.tk[x] = w.tk[x]
  BY <1>1 DEF Edited
<1>3. Solvent(v)
  <2>1. Typed(v)
    BY <1>2 DEF Edited, Waits, Solvent, Typed
  <2> QED
    BY <2>1 DEF Edited, Waits, Solvent
<1>4. \A x \in Tasks : Posted(v, Susp(x)) => Suspends(v.tk[x], x)
  BY <1>2 DEF Edited, Waits, Posted
<1> QED
  BY <1>2, <1>3, <1>4 DEF Waits, Goes, Edited

(* The job that is edited is one, at a time that is a number. *)
LEMMA JobOf ==
    ASSUME NEW w, Waits(w), NEW t \in Tasks
    PROVE  /\ w.tk[t] \in Jobs /\ w.now \in Nat
           /\ On(w, WorldFields) /\ On(w.tk, Tasks)
           /\ Posted(w, Susp(t)) => Suspends(w.tk[t], t)
BY DEF Waits, Solvent, Typed, On

(* The instruction at hand. *)
LEMMA InstructionOf ==
    ASSUME NEW t \in Tasks, NEW i \in Nat \ {0}, i <= Len(Program[t])
    PROVE  /\ Program[t][i] \in Instructions
           /\ Program[t][i].op = "suspend" => Program[t][i].delay \in Nat
           /\ Program[t][i].op # "suspend" => Program[t][i].costs \subseteq Nat
<1>1. Program[t] \in Seq(Instructions)
  BY TaskAssumption
<1>2. Program[t][i] \in Instructions
  <2>1. i \in 1..Len(Program[t])
    BY <1>1
  <2> QED
    BY <1>1, <2>1
<1> QED
  BY <1>2 DEF Instructions

(* Task::handleArrival *)
LEMMA JobStartWaits ==
    ASSUME NEW w, Waits(w), NEW t \in Tasks, NEW a \in Nat, ~Posted(w, Susp(t))
    PROVE  Goes(w, JobStarts(w, t, a))
<1> DEFINE v == JobStarts(w, t, a)
           d == a + RelDeadline[t]
           k == [w.tk[t] EXCEPT !.state = "READY", !.actInstr = 1,
                             !.cost = Undrawn, !.done = 0, !.last = 0,
                             !.arrival = a, !.dl = d]
<1>1. w.tk[t] \in Jobs /\ On(w, WorldFields) /\ On(w.tk, Tasks)
  BY JobOf
<1>2. d \in Int
  BY TaskAssumption
<1>3. v = [w EXCEPT !.tk[t] = k]
  BY DEF JobStarts
<1> HIDE DEF d
<1>4. k \in Jobs
  <2> DEFINE j == w.tk[t]
             o == 1
             z == 0
             u == Undrawn
             st == "READY"
  <2>1. j \in Jobs /\ o \in Nat \ {0} /\ z \in Int /\ u \in Int /\ st \in {"READY"}
    BY <1>1 DEF Undrawn
  <2>2. k = [j EXCEPT !.state = st, !.actInstr = o, !.cost = u, !.done = z,
                      !.last = z, !.arrival = a, !.dl = d]
    OBVIOUS
  <2> HIDE DEF j, o, z, u, st, k
  <2> QED
    BY <1>2, <2>1, <2>2 DEF Jobs
<1> HIDE DEF k
<1>5. Edited(w, v, t, k)
  BY <1>1, <1>3 DEF Edited, On, WorldFields
<1> HIDE DEF v
<1>6. Goes(w, v)
  BY <1>4, <1>5, EditedWaits
<1> QED
  BY <1>6 DEF v

(* The instruction at hand is scheduled. *)
LEMMA RunsWaits ==
    ASSUME NEW w, Waits(w), NEW t \in Tasks, NEW c \in Int,
           w.tk[t].state # "IDLE", w.tk[t].actInstr <= Len(Program[t])
    PROVE  Goes(w, Runs(w, t, c))
<1>1. /\ w.tk[t] \in Jobs /\ w.now \in Nat /\ On(w, WorldFields) /\ On(w.tk, Tasks)
      /\ Posted(w, Susp(t)) => Suspends(w.tk[t], t)
  BY JobOf
<1>2. CASE Instr(w, t).op = "suspend"
  <2> DEFINE v == Process(w, Susp(t))
  <2>1. Susp(t)[1] \in Urgent
    BY DEF Susp, Urgent
  <2>2. Typed(w)
    BY DEF Waits, Solvent
  <2>3. /\ Typed(v) /\ Elsewhere(w, v)
        /\ \A f : Posted(v, f) <=> Posted(w, f) \/ f = Susp(t)
    BY <2>1, <2>2, Processed
  <2>4. Suspends(w.tk[t], t)
    BY <1>2 DEF Suspends, Instr
  <2>5. Runs(w, t, c) = v
    BY <1>2 DEF Runs
  <2> HIDE DEF v
  <2>6. \A x : Susp(x) = Susp(t) => x = t
    BY DEF Susp
  <2>7. Solvent(v)
    BY <2>3 DEF Elsewhere, Solvent, Waits
  <2>8. \A x \in Tasks : Posted(v, Susp(x)) => Suspends(v.tk[x], x)
    BY <2>3, <2>4, <2>6 DEF Elsewhere, Waits
  <2> QED
    BY <2>3, <2>5, <2>7, <2>8 DEF Waits, Goes, Elsewhere
<1>3. CASE Instr(w, t).op # "suspend"
  <2> DEFINE v == [w EXCEPT !.tk[t].cost = c, !.tk[t].last = w.now]
             k == [w.tk[t] EXCEPT !.cost = c, !.last = w.now]
             n == w.tk[t].done
             l == w.now + (IF c > n THEN c - n ELSE 0)
  <2>1. Edited(w, v, t, k)
    BY <1>1 DEF Edited, On, WorldFields
  <2>2. k \in Jobs /\ k.state = w.tk[t].state /\ k.actInstr = w.tk[t].actInstr
    <3> DEFINE j == w.tk[t]
               y == w.now
    <3>1. j \in Jobs /\ y \in Int /\ k = [j EXCEPT !.cost = c, !.last = y]
      BY <1>1
    <3> HIDE DEF j, y, k
    <3>2. k \in Jobs /\ k.state = j.state /\ k.actInstr = j.actInstr
      BY <3>1 DEF Jobs
    <3> QED
      BY <3>2 DEF j
  <2>3. l \in Int
    <3>1. n \in Int
      BY <1>1 DEF Jobs
    <3> HIDE DEF n
    <3> QED
      BY <1>1, <3>1
  <2>4. Runs(w, t, c) = Post(v, InstrEvt(t), l)
    BY <1>3 DEF Runs
  <2> HIDE DEF v, k, l
  <2>5. Goes(w, v)
    BY <1>1, <2>1, <2>2, EditedWaits DEF Suspends
  <2>6. InstrEvt(t)[1] \notin Urgent
    BY DEF InstrEvt, Urgent
  <2>7. Steady(v, Post(v, InstrEvt(t), l))
    BY <2>3, <2>5, <2>6, SteadyAtFirst, SteadyAgain DEF Waits, Goes
  <2> QED
    BY <2>4, <2>5, <2>7, SteadyGoes
<1> QED
  BY <1>2, <1>3

(* What it costs is a number. *)
LEMMA CostsAreNumbers ==
    ASSUME NEW w, Waits(w), NEW t \in Tasks, w.tk[t].actInstr <= Len(Program[t])
    PROVE  Costs(w, t) \subseteq Int
<1>1. w.tk[t].cost \in Int /\ w.tk[t].actInstr \in Nat \ {0}
  BY JobOf DEF Jobs
<1>2. Instr(w, t).op # "suspend" => Instr(w, t).costs \subseteq Nat
  BY <1>1, InstructionOf DEF Instr
<1>3. Undrawn \in Int
  BY DEF Undrawn
<1> QED
  BY <1>1, <1>2, <1>3 DEF Costs

(* Task::onInstrEnd *)
LEMMA InstrEndWaits ==
    ASSUME NEW w, Waits(w), NEW t \in Tasks, ~Posted(w, Susp(t))
    PROVE  Goes(w, InstrEnds(w, t)) /\ InstrEnds(w, t).tk[t].state = w.tk[t].state
<1>1. /\ w.tk[t] \in Jobs /\ w.now \in Nat /\ On(w, WorldFields) /\ On(w.tk, Tasks)
  BY JobOf
<1> DEFINE n == w.tk[t].actInstr + 1
           v == [w EXCEPT !.tk[t].actInstr = n]
           k == [w.tk[t] EXCEPT !.actInstr = n]
           e == [v EXCEPT !.tk[t].endAt = w.now]
           z == Post(e, EndEvt(t), w.now)
           d == Throw(w, "TaskNotActive")
<1>2. InstrEnds(w, t) = IF w.tk[t].state = "IDLE" THEN d
                        ELSE IF w.tk[t].actInstr = Len(Program[t]) THEN z ELSE v
  BY DEF InstrEnds
<1>3. n \in Nat \ {0}
  <2> DEFINE i == w.tk[t].actInstr
  <2>1. i \in Nat \ {0} /\ n = i + 1
    BY <1>1 DEF Jobs
  <2> HIDE DEF i, n
  <2> QED
    BY <2>1
<1> HIDE DEF n
<1>4. Edited(w, v, t, k)
  BY <1>1 DEF Edited, On, WorldFields
<1>5. k \in Jobs /\ k.state = w.tk[t].state
  BY <1>1, <1>3 DEF Jobs
<1> HIDE DEF k, v
<1>6. Goes(w, v) /\ v.tk[t] = k /\ v.now = w.now /\ ~Posted(v, Susp(t))
  <2>1. v.q = w.q /\ v.now = w.now
    BY <1>4 DEF Edited
  <2>2. Goes(w, v) /\ v.tk[t] = k
    BY <1>4, <1>5, EditedWaits
  <2> QED
    BY <2>1, <2>2 DEF Posted
<1> DEFINE j == [v.tk[t] EXCEPT !.endAt = w.now]
<1>7. /\ v.tk[t] \in Jobs /\ On(v, WorldFields) /\ On(v.tk, Tasks)
  BY <1>6, JobOf DEF Goes
<1>8. Edited(v, e, t, j)
  BY <1>7 DEF Edited, On, WorldFields
<1>9. j \in Jobs /\ j.state = k.state
  <2> DEFINE i == v.tk[t]
             y == w.now
  <2>1. i \in Jobs /\ y \in Int /\ j = [i EXCEPT !.endAt = y] /\ i = k
    BY <1>1, <1>6, <1>7
  <2> HIDE DEF i, y, j
  <2> QED
    BY <2>1 DEF Jobs
<1> HIDE DEF j, e
<1>10. Goes(w, e) /\ e.tk[t] = j
  BY <1>6, <1>8, <1>9, EditedWaits DEF Goes
<1>11. EndEvt(t)[1] \notin Urgent
  BY DEF EndEvt, Urgent
<1>12. Steady(e, z)
  BY <1>1, <1>10, <1>11, SteadyAtFirst, SteadyAgain DEF Waits, Goes
<1>13. Goes(w, z) /\ z.tk = e.tk
  BY <1>10, <1>12, SteadyGoes DEF Steady
<1>14. Goes(w, d) /\ d.tk = w.tk
  <2>1. Goes(w, w)
    BY DEF Goes
  <2>2. Steady(w, w)
    BY SteadyAtFirst DEF Waits
  <2>3. "TaskNotActive" # "none"
    OBVIOUS
  <2>4. Steady(w, d)
    BY <2>2, <2>3, SteadyAgain
  <2> HIDE DEF d
  <2> QED
    BY <2>1, <2>4, SteadyGoes DEF Steady
<1> HIDE DEF z, d
<1> QED
  BY <1>2, <1>5, <1>6, <1>9, <1>10, <1>13, <1>14

-----------------------------------------------------------------------------
(* The handlers.                                                             *)

(* The inductive invariant: with the supervisor's account, the account of   *)
(* each sporadic server, and what is told to suspend itself can.            *)
WorkInv == AccountInv /\ Waits(NowWorld)

(* The handler is done. *)
Done(w) == \E v : Goes(w, v) /\ Becomes(v)

LEMMA WorkStarts ==
    ASSUME WorkInv, NEW e, Handles(e)
    PROVE  /\ Waits(World) /\ Solvent(World) /\ Fits(World, e)
           /\ World.sv = sv /\ World.tk = tk /\ World.currExe = currExe
           /\ World.now = now' /\ World.q = Tail(agenda)
           /\ e[1] \notin Urgent => \A t : ~Posted(World, Susp(t))
           /\ \A t \in Tasks : e = Susp(t) => Suspends(tk[t], t)
<1> DEFINE n == NowWorld
           w == World
           h == Head(agenda)
<1>1. /\ On(w, WorldFields) /\ w.q = Tail(agenda) /\ w.sv = n.sv /\ w.sup = n.sup
      /\ w.tk = n.tk /\ w.queue = n.queue /\ w.insertTime = n.insertTime
      /\ w.currExe = n.currExe /\ w.now = h.at
      /\ w.sv = sv /\ w.tk = tk /\ w.currExe = currExe
      /\ n.q = agenda /\ n.now = now
  BY DEF On, WorldFields, World, NowWorld
<1>2. Fits(w, e)
  BY HandlerStarts DEF WorkInv
<1>3. agenda # <<>> /\ h.ev = e /\ now' = h.at
  BY DEF Handles
<1>4. Waits(n) /\ Solvent(n) /\ Typed(n)
  BY DEF WorkInv, Waits, Solvent
<1> HIDE DEF n, w
<1>5. /\ Proper(agenda)
      /\ \A x \in Entries(agenda) : Due(now, x)
  BY <1>1, <1>4 DEF Typed, Orderly
<1>6. PICK S : agenda \in Seq(S) /\ \A x \in S : x.at \in Nat /\ x.prio \in Nat
  BY <1>1, <1>4 DEF Typed, Orderly
<1>7. /\ h \in Entries(agenda)
      /\ \A x \in Entries(agenda) : Precedes(h, x)
      /\ Tail(agenda) \in Seq(S)
      /\ Proper(Tail(agenda))
      /\ Entries(Tail(agenda)) = {x \in Entries(agenda) : x.ev # e}
  BY <1>3, <1>5, <1>6, TailEntries
<1> HIDE DEF h
<1>8. now \in Nat /\ h.at \in Nat /\ h.at >= now
  BY <1>1, <1>4, <1>5, <1>7 DEF Due, Typed
<1>9. ASSUME NEW x \in Entries(Tail(agenda)) PROVE Due(h.at, x)
  <2>1. Due(now, x) /\ Precedes(h, x)
    BY <1>5, <1>7
  <2>2. x.at >= h.at
    BY <1>8, <2>1 DEF Precedes, Due
  <2>3. x.ev[1] \in Urgent => x.at = h.at
    BY <1>8, <2>1, <2>2 DEF Due
  <2> QED
    BY <2>1, <2>2, <2>3 DEF Due
<1>10. Orderly(w.q, w.now)
  BY <1>1, <1>6, <1>7, <1>9 DEF Orderly
<1>11. Typed(w)
  BY <1>1, <1>4, <1>8, <1>10 DEF Typed
<1>12. Solvent(w)
  <2>1. ASSUME NEW s \in Servers PROVE Kept(w.sv[s], w.now)
    <3>1. Kept(n.sv[s], now) /\ n.sv[s].last \in Int
      BY <1>1, <1>4 DEF Solvent, Typed, Records
    <3> QED
      BY <1>1, <1>8, <3>1 DEF Kept
  <2> QED
    BY <1>11, <2>1 DEF Solvent
<1>13. \A f : Posted(w, f) <=> \E x \in Entries(Tail(agenda)) : x.ev = f
  BY <1>1, PostedEntries DEF Posted
<1>14. \A f : Posted(n, f) <=> \E x \in Entries(agenda) : x.ev = f
  BY <1>1, PostedEntries DEF Posted
<1>15. Waits(w)
  <2>1. \A f : Posted(w, f) => Posted(n, f)
    BY <1>7, <1>13, <1>14
  <2> QED
    BY <1>1, <1>4, <1>12, <2>1 DEF Waits
<1>16. ASSUME e[1] \notin Urgent, NEW t, Posted(w, Susp(t)) PROVE FALSE
  <2>1. PICK x \in Entries(Tail(agenda)) : x.ev = Susp(t)
    BY <1>13, <1>16
  <2>2. Susp(t)[1] = "susp" /\ Susp(t)[1] \in Urgent
    BY DEF Susp, Urgent
  <2>3. Due(now, x) /\ Due(h.at, x) /\ Precedes(h, x) /\ Due(now, h)
    BY <1>5, <1>7, <1>9
  <2>4. x.prio = 0 /\ x.at = h.at /\ h.prio = Priority(e)
    BY <1>3, <1>16, <2>1, <2>2, <2>3 DEF Due, PrioOf, h
  <2>5. Priority(e) \in Nat \ {0}
    BY <1>16 DEF Priority, Urgent
  <2> QED
    BY <1>8, <2>3, <2>4, <2>5 DEF Precedes
<1>17. ASSUME NEW t \in Tasks, e = Susp(t) PROVE Suspends(tk[t], t)
  <2>1. Posted(n, Susp(t))
    BY <1>3, <1>7, <1>14, <1>17 DEF h
  <2> QED
    BY <1>1, <1>4, <2>1 DEF Waits
<1> QED
  BY <1>1, <1>2, <1>3, <1>12, <1>15, <1>16, <1>17 DEF w, h

LEMMA WorkEnds ==
    ASSUME AccountInv', World.now = now', Done(World)
    PROVE  WorkInv'
<1>1. PICK v : Goes(World, v) /\ Becomes(v)
  BY DEF Done
<1> DEFINE n == NowWorld'
<1>2. n = v
  <2>1. On(n, WorldFields) /\ On(v, WorldFields)
    BY <1>1 DEF NowWorld, On, WorldFields, Goes, Waits, Solvent, Typed
  <2>2. \A f \in WorldFields : n[f] = v[f]
    <3>1. /\ n.now = v.now /\ n.q = v.q /\ n.exc = v.exc /\ n.queue = v.queue
          /\ n.insertTime = v.insertTime /\ n.currExe = v.currExe /\ n.sv = v.sv
          /\ n.tk = v.tk /\ n.sup = v.sup
      BY <1>1 DEF NowWorld, Goes, Becomes
    <3> HIDE DEF n
    <3> QED
      BY <3>1 DEF WorldFields
  <2> HIDE DEF n
  <2> QED
    BY <2>1, <2>2 DEF On
<1>3. Waits(n)
  BY <1>1, <1>2 DEF Goes
<1> QED
  BY <1>3 DEF WorkInv

(* What the handler may come to. *)
LEMMA DoneAfter ==
    ASSUME NEW w, Waits(w)
    PROVE  /\ \A v : Steady(w, v) /\ Becomes(v) => Done(w)
           /\ \A x : x # "none" /\ Becomes(Throw(w, x)) => Done(w)
           /\ Becomes(w) => Done(w)
           /\ \A v : Goes(w, v) /\ Becomes(v) => Done(w)
<1>1. Goes(w, w) /\ Solvent(w)
  BY DEF Goes, Waits
<1>2. \A v : Steady(w, v) => Goes(w, v)
  BY <1>1, SteadyGoes
<1>3. Steady(w, w) /\ \A x : x # "none" => Steady(w, Throw(w, x))
  BY <1>1, SteadyAtFirst, SteadyAgain
<1> QED
  BY <1>2, <1>3 DEF Done

(* The handlers of the kernel's events. *)
LEMMA KernelWorks ==
    ASSUME WorkInv, OnBeginDispatch \/ OnEndDispatch
    PROVE  Done(World) /\ World.now = now'
<1> DEFINE w == World
<1>1. Waits(w) /\ Solvent(w) /\ w.now = now'
  BY WorkStarts DEF OnBeginDispatch, OnEndDispatch
<1>2. CASE OnBeginDispatch
  <2> DEFINE c == currExe[Kernel]
             n == First(w, Kernel)
             d == IF c = None THEN w ELSE Deschedule(w, c)
             e == SetExe(d, Kernel, n)
             p == Post(e, EndDisp, w.now)
  <2>1. Becomes(CASE n = c -> w [] n = None -> d [] OTHER -> Post(e, EndDisp, w.now))
    BY <1>2 DEF OnBeginDispatch
  <2> HIDE DEF w, c, n
  <2>2. Steady(w, d)
    BY <1>1, SteadyAtFirst, KernelIsSteady
  <2> HIDE DEF d
  <2>3. Steady(w, e)
    BY <2>2, KernelIsSteady
  <2> HIDE DEF e
  <2>4. Steady(w, p)
    <3>1. EndDisp[1] \notin Urgent
      BY DEF EndDisp, Urgent
    <3>2. w.now \in Int
      BY <1>1 DEF Solvent, Typed
    <3> QED
      BY <2>3, <3>1, <3>2, SteadyAgain
  <2>5. Becomes(w) \/ Becomes(d) \/ Becomes(p)
    <3>1. CASE n = c
      BY <2>1, <3>1
    <3>2. CASE n # c /\ n = None
      BY <2>1, <3>2
    <3>3. CASE n # c /\ n # None
      BY <2>1, <3>3
    <3> QED
      BY <3>1, <3>2, <3>3
  <2> HIDE DEF p
  <2>6. Done(w)
    BY <1>1, <2>2, <2>4, <2>5, DoneAfter
  <2> QED
    BY <1>1, <2>6 DEF w
<1>3. CASE OnEndDispatch
  <2>1. Steady(w, Schedule(w, currExe[Kernel]))
    <3> HIDE DEF w
    <3> QED
      BY <1>1, SteadyAtFirst, KernelIsSteady
  <2>2. Becomes(Throw(w, "NullPointer")) \/ Becomes(Schedule(w, currExe[Kernel]))
    BY <1>3 DEF OnEndDispatch
  <2> HIDE DEF w
  <2>3. Done(w)
    BY <1>1, <2>1, <2>2, DoneAfter
  <2> QED
    BY <1>1, <2>3 DEF w
<1> QED
  BY <1>2, <1>3

(* The handlers of the servers' events. *)
LEMMA ServerWorks ==
    ASSUME WorkInv, NEW s \in Servers,
           \/ OnServerSched(s) \/ OnServerDesched(s) \/ OnServerDispatch(s)
           \/ OnBudgetExhausted(s) \/ OnRecharging(s)
    PROVE  Done(World) /\ World.now = now'
<1> DEFINE w == World
<1>1. Waits(w) /\ Solvent(w) /\ w.now = now' /\ Steady(w, w)
  <2>1. Waits(w) /\ Solvent(w) /\ w.now = now'
    BY WorkStarts DEF OnServerSched, OnServerDesched, OnServerDispatch,
                      OnBudgetExhausted, OnRecharging
  <2> QED
    BY <2>1, SteadyAtFirst
<1>2. CASE OnServerSched(s)
  <2> DEFINE v == ReadyExecuting(w, s)
             z == ServerDispatch(v, s)
  <2>1. Becomes(Throw(w, "NotReady")) \/ Becomes(z)
    BY <1>2 DEF OnServerSched
  <2> HIDE DEF w
  <2>2. Steady(w, v)
    BY <1>1, MethodsAreSteady
  <2> HIDE DEF v
  <2>3. Steady(w, z)
    BY <2>2, KernelIsSteady
  <2> HIDE DEF z
  <2>4. Done(w)
    BY <1>1, <2>1, <2>3, DoneAfter
  <2> QED
    BY <1>1, <2>4 DEF w
<1>3. CASE OnServerDesched(s)
  <2>1. Becomes(w) \/ Becomes(StopsTask(w, s))
    BY <1>3 DEF OnServerDesched
  <2> HIDE DEF w
  <2>2. Steady(w, StopsTask(w, s))
    BY <1>1, SwitchIsSteady
  <2>3. Done(w)
    BY <1>1, <2>1, <2>2, DoneAfter
  <2> QED
    BY <1>1, <2>3 DEF w
<1>4. CASE OnServerDispatch(s)
  <2> DEFINE v == SwitchTasks(w, s)
             z == KernelDispatch(KernelSuspend(ExecutingReleasing(v, s), s))
  <2>1. Becomes(Throw(w, "NotExecuting")) \/ Becomes(v) \/ Becomes(z)
    BY <1>4 DEF OnServerDispatch
  <2> HIDE DEF w
  <2>2. Steady(w, v)
    BY <1>1, SwitchIsSteady
  <2> HIDE DEF v
  <2>3. Steady(w, z)
    BY <2>2, SwitchIsSteady
  <2> HIDE DEF z
  <2>4. Done(w)
    BY <1>1, <2>1, <2>2, <2>3, DoneAfter
  <2> QED
    BY <1>1, <2>4 DEF w
<1>5. CASE OnBudgetExhausted(s)
  <2>1. Becomes(Throw(w, "NotExecuting")) \/ Becomes(Exhausted(w, s))
    BY <1>5 DEF OnBudgetExhausted
  <2> HIDE DEF w
  <2>2. Steady(w, Exhausted(w, s))
    BY <1>1, SwitchIsSteady
  <2>3. Done(w)
    BY <1>1, <2>1, <2>2, DoneAfter
  <2> QED
    BY <1>1, <2>3 DEF w
<1>6. CASE OnRecharging(s)
  <2> DEFINE y == KernelOnArrival(RechargingReady(w, s), s)
             z == SetExe(RechargingIdle(w, s), s, None)
  <2>1. Fits(w, Recharge(s))
    BY <1>6, WorkStarts DEF OnRecharging
  <2>2. Becomes(Throw(w, "NotRecharging")) \/ Becomes(y) \/ Becomes(z)
    BY <1>6 DEF OnRecharging
  <2> HIDE DEF w
  <2>3. Steady(w, y) /\ Steady(w, z)
    BY <1>1, <2>1, RechargeIsSteady
  <2> HIDE DEF y, z
  <2>4. Done(w)
    BY <1>1, <2>2, <2>3, DoneAfter
  <2> QED
    BY <1>1, <2>4 DEF w
<1> QED
  BY <1>2, <1>3, <1>4, <1>5, <1>6

LEMMA BudgetWorks ==
    ASSUME WorkInv, NEW s \in Servers,
           OnReplenishment(s) \/ OnIdle(s) \/ OnChangeBudget(s)
    PROVE  Done(World) /\ World.now = now'
<1> DEFINE w == World
<1>1. Waits(w) /\ Solvent(w) /\ w.now = now'
  BY WorkStarts DEF OnReplenishment, OnIdle, OnChangeBudget
<1>2. CASE OnReplenishment(s)
  <2> DEFINE v == IF IsCBS(w, s) THEN CBS!OnReplenishment(w, s)
                                 ELSE SS!OnReplenishment(w, s)
  <2>1. Fits(w, Repl(s)) /\ Becomes(v)
    BY <1>2, WorkStarts DEF OnReplenishment
  <2> HIDE DEF w
  <2>2. Steady(w, v)
    BY <1>1, <2>1, EventsAreSteady
  <2> HIDE DEF v
  <2>3. Done(w)
    BY <1>1, <2>1, <2>2, DoneAfter
  <2> QED
    BY <1>1, <2>3 DEF w
<1>3. CASE OnIdle(s)
  <2> DEFINE v == IF Kind(w, s) = "grub" THEN GRUB!OnIdle(w, s) ELSE SS!OnIdle(w, s)
  <2>1. \/ Fits(w, CBSIdle(s)) /\ Becomes(CBS!OnIdle(w, s))
        \/ Fits(w, Idle(s)) /\ Becomes(v)
    BY <1>3, WorkStarts DEF OnIdle
  <2> HIDE DEF w
  <2>2. /\ Fits(w, CBSIdle(s)) => Steady(w, CBS!OnIdle(w, s))
        /\ Fits(w, Idle(s)) => Steady(w, v)
    BY <1>1, EventsAreSteady
  <2> HIDE DEF v
  <2>3. Done(w)
    BY <1>1, <2>1, <2>2, DoneAfter
  <2> QED
    BY <1>1, <2>3 DEF w
<1>4. CASE OnChangeBudget(s)
  <2>1. PICK n \in NewBudgets[s] :
           Becomes(CASE IsCBS(w, s)            -> CBS!ChangeBudget(w, s, n)
                     [] Kind(w, s) = "polling"  -> PS!ChangeBudget(w, s, n)
                     [] Kind(w, s) = "sporadic" -> SS!ChangeBudget(w, s, n)
                     [] Kind(w, s) = "grub"     -> Throw(w, "NothingToDo"))
    BY <1>4 DEF OnChangeBudget
  <2> DEFINE v == CASE IsCBS(w, s)            -> CBS!ChangeBudget(w, s, n)
                    [] Kind(w, s) = "polling"  -> PS!ChangeBudget(w, s, n)
                    [] Kind(w, s) = "sporadic" -> SS!ChangeBudget(w, s, n)
                    [] Kind(w, s) = "grub"     -> Throw(w, "NothingToDo")
  <2>2. n \in Int
    BY ChangeAssumption
  <2> HIDE DEF w
  <2>3. Steady(w, v)
    BY <1>1, <2>2, EventsAreSteady
  <2>4. Becomes(v)
    BY <2>1
  <2> HIDE DEF v
  <2>5. Done(w)
    BY <1>1, <2>3, <2>4, DoneAfter
  <2> QED
    BY <1>1, <2>5 DEF w
<1> QED
  BY <1>2, <1>3, <1>4

(* The handlers of the tasks' events. *)
LEMMA ArrivalWorks ==
    ASSUME WorkInv, NEW t \in Tasks, OnArrival(t)
    PROVE  Done(World) /\ World.now = now'
<1> DEFINE w == World
           j == JobStarts(w, t, w.now)
           a == HomeOnArrival(j, t)
           q == Append(w.tk[t].arrQueue, w.now)
           b == [w EXCEPT !.tk[t].arrQueue = q]
           v == IF tk[t].state = "IDLE" THEN a ELSE b
<1>1. Waits(w) /\ w.now = now' /\ ~Posted(w, Susp(t))
  <2>1. Arr(t)[1] \notin Urgent
    BY DEF Arr, Urgent
  <2> QED
    BY <2>1, WorkStarts DEF OnArrival
<1>2. \/ Becomes(v)
      \/ \E p \in Periods[t] :
            Becomes(Post([v EXCEPT !.tk[t].arrAt = w.now + p], Arr(t), w.now + p))
  BY DEF OnArrival
<1> HIDE DEF w
<1>3. w.tk[t] \in Jobs /\ w.now \in Nat /\ On(w, WorldFields) /\ On(w.tk, Tasks)
  BY <1>1, JobOf
<1>4. Goes(w, j)
  BY <1>1, <1>3, JobStartWaits
<1> HIDE DEF j
<1>5. Goes(w, a)
  <2>1. Steady(j, a)
    BY <1>4, SteadyAtFirst, HomesAreSteady DEF Goes, Waits
  <2> QED
    BY <1>4, <2>1, SteadyGoes
<1> HIDE DEF a
<1>6. Goes(w, b)
  <2> DEFINE i == w.tk[t]
             k == [i EXCEPT !.arrQueue = q]
  <2>1. q \in Seq(Nat)
    BY <1>3 DEF Jobs
  <2> HIDE DEF q
  <2>2. Edited(w, b, t, k)
    BY <1>3 DEF Edited, On, WorldFields
  <2>3. i \in Jobs
    BY <1>3
  <2> HIDE DEF b, i
  <2>4. k \in Jobs
    BY <2>1, <2>3 DEF Jobs
  <2> HIDE DEF k
  <2> QED
    BY <1>1, <2>2, <2>4, EditedWaits
<1> HIDE DEF b
<1>7. Goes(w, v)
  BY <1>5, <1>6
<1> HIDE DEF v
<1>8. ASSUME NEW p \in Periods[t]
      PROVE  Goes(w, Post([v EXCEPT !.tk[t].arrAt = w.now + p], Arr(t), w.now + p))
  <2> DEFINE x == w.now + p
             z == [v EXCEPT !.tk[t].arrAt = x]
             i == v.tk[t]
             k == [i EXCEPT !.arrAt = x]
  <2>1. x \in Int
    BY <1>3, TaskAssumption
  <2> HIDE DEF x
  <2>2. /\ i \in Jobs /\ On(v, WorldFields) /\ On(v.tk, Tasks)
        /\ Posted(v, Susp(t)) => Suspends(i, t)
    BY <1>7, JobOf DEF Goes
  <2>3. Edited(v, z, t, k)
    BY <2>2 DEF Edited, On, WorldFields
  <2> HIDE DEF i, z
  <2>4. k \in Jobs /\ k.state = i.state /\ k.actInstr = i.actInstr
    BY <2>1, <2>2 DEF Jobs
  <2>5. Goes(v, z)
    <3>1. Posted(v, Susp(t)) => Suspends(k, t)
      BY <2>2, <2>4 DEF Suspends
    <3> HIDE DEF k
    <3> QED
      BY <1>7, <2>3, <2>4, <3>1, EditedWaits DEF Goes
  <2>6. Goes(w, z)
    BY <1>7, <2>5 DEF Goes
  <2>7. Arr(t)[1] \notin Urgent
    BY DEF Arr, Urgent
  <2>8. Steady(z, Post(z, Arr(t), x))
    BY <2>1, <2>6, <2>7, SteadyAtFirst, SteadyAgain DEF Goes, Waits
  <2>9. Goes(w, Post(z, Arr(t), x))
    BY <2>6, <2>8, SteadyGoes
  <2> QED
    BY <2>9 DEF z, x
<1>9. Done(w)
  BY <1>1, <1>2, <1>7, <1>8, DoneAfter
<1> QED
  BY <1>1, <1>9 DEF w

LEMMA FakeArrivalWorks ==
    ASSUME WorkInv, NEW t \in Tasks, OnFakeArrival(t)
    PROVE  Done(World) /\ World.now = now'
<1> DEFINE w == World
           b == tk[t].arrQueue
           q == Tail(b)
           v == [w EXCEPT !.tk[t].arrQueue = q]
           j == JobStarts(v, t, b[1])
           z == HomeOnArrival(j, t)
<1>1. Waits(w) /\ w.now = now' /\ w.tk = tk
  BY WorkStarts DEF OnFakeArrival
<1>2. \/ Becomes(Throw(w, "TaskAlreadyActive"))
      \/ w.tk[t].state = "IDLE" /\ b # <<>> /\ Becomes(z)
  BY <1>1 DEF OnFakeArrival
<1>3. b = w.tk[t].arrQueue
  BY <1>1
<1> HIDE DEF w, b
<1>4. CASE Becomes(Throw(w, "TaskAlreadyActive"))
  <2>1. Done(w)
    BY <1>1, <1>4, DoneAfter
  <2> QED
    BY <1>1, <2>1 DEF w
<1>5. CASE w.tk[t].state = "IDLE" /\ b # <<>> /\ Becomes(z)
  <2>1. /\ w.tk[t] \in Jobs /\ w.now \in Nat /\ On(w, WorldFields) /\ On(w.tk, Tasks)
        /\ ~Posted(w, Susp(t))
    BY <1>1, <1>5, JobOf DEF Suspends
  <2>2. q \in Seq(Nat) /\ b[1] \in Nat
    <3>1. b \in Seq(Nat)
      BY <1>3, <2>1 DEF Jobs
    <3>2. Len(b) # 0
      BY <1>5, <3>1
    <3>3. 1 \in 1..Len(b)
      BY <3>1, <3>2
    <3> QED
      BY <1>5, <3>1, <3>3
  <2> HIDE DEF q
  <2> DEFINE i == w.tk[t]
             k == [i EXCEPT !.arrQueue = q]
  <2>3. Edited(w, v, t, k)
    BY <2>1 DEF Edited, On, WorldFields
  <2>4. i \in Jobs
    BY <2>1
  <2> HIDE DEF i, v
  <2>5. k \in Jobs
    BY <2>2, <2>4 DEF Jobs
  <2> HIDE DEF k
  <2>6. Goes(w, v) /\ ~Posted(v, Susp(t))
    <3>1. Goes(w, v)
      BY <1>1, <2>1, <2>3, <2>5, EditedWaits
    <3> QED
      BY <2>1, <2>3, <3>1 DEF Edited, Posted
  <2>7. Goes(w, j)
    BY <2>2, <2>6, JobStartWaits DEF Goes
  <2> HIDE DEF j
  <2>8. Steady(j, z)
    BY <2>7, SteadyAtFirst, HomesAreSteady DEF Goes, Waits
  <2>9. Goes(w, z)
    BY <2>7, <2>8, SteadyGoes
  <2> HIDE DEF z
  <2>10. Done(w)
    BY <1>1, <1>5, <2>9, DoneAfter
  <2> QED
    BY <1>1, <2>10 DEF w
<1> QED
  BY <1>2, <1>4, <1>5

LEMMA EndInstanceWorks ==
    ASSUME WorkInv, NEW t \in Tasks, OnEndInstance(t)
    PROVE  Done(World) /\ World.now = now'
<1> DEFINE w == World
           a == [w EXCEPT !.tk[t].actInstr = 1]
           h == HomeOnEnd(a, t)
           v == [h EXCEPT !.tk[t].state = "IDLE"]
           z == Process(v, FakeArr(t))
<1>1. Waits(w) /\ w.now = now' /\ ~Posted(w, Susp(t))
  <2>1. EndEvt(t)[1] \notin Urgent
    BY DEF EndEvt, Urgent
  <2> QED
    BY <2>1, WorkStarts DEF OnEndInstance
<1>2. Becomes(Throw(w, "TaskNotExecuting")) \/ Becomes(v) \/ Becomes(z)
  BY DEF OnEndInstance
<1> HIDE DEF w
<1>3. w.tk[t] \in Jobs /\ On(w, WorldFields) /\ On(w.tk, Tasks)
  BY <1>1, JobOf
<1>4. Goes(w, a) /\ ~Posted(a, Susp(t))
  <2> DEFINE i == w.tk[t]
             o == 1
             k == [i EXCEPT !.actInstr = o]
  <2>1. Edited(w, a, t, k)
    BY <1>3 DEF Edited, On, WorldFields
  <2>2. i \in Jobs /\ o \in Nat \ {0}
    BY <1>3
  <2> HIDE DEF i, o, a
  <2>3. k \in Jobs
    BY <2>2 DEF Jobs
  <2> HIDE DEF k
  <2>4. Goes(w, a)
    BY <1>1, <2>1, <2>3, EditedWaits
  <2> QED
    BY <1>1, <2>1, <2>4 DEF Edited, Posted
<1> HIDE DEF a
<1>5. Steady(a, h)
  BY <1>4, SteadyAtFirst, HomesAreSteady DEF Goes, Waits
<1>6. Goes(w, h) /\ ~Posted(h, Susp(t))
  BY <1>4, <1>5, SteadyGoes DEF Steady
<1> HIDE DEF h
<1>7. Goes(h, v)
  <2> DEFINE i == h.tk[t]
             o == "IDLE"
             k == [i EXCEPT !.state = o]
  <2>1. i \in Jobs /\ On(h, WorldFields) /\ On(h.tk, Tasks) /\ o \in {"IDLE"}
    BY <1>6, JobOf DEF Goes
  <2>2. Edited(h, v, t, k)
    BY <2>1 DEF Edited, On, WorldFields
  <2> HIDE DEF i, o, v
  <2>3. k \in Jobs
    BY <2>1 DEF Jobs
  <2> HIDE DEF k
  <2> QED
    BY <1>6, <2>2, <2>3, EditedWaits DEF Goes
<1>8. Goes(w, v)
  BY <1>6, <1>7 DEF Goes
<1> HIDE DEF v
<1>9. Goes(w, z)
  <2>1. FakeArr(t)[1] \in Urgent \ {"susp"}
    BY DEF FakeArr, Urgent
  <2>2. Steady(v, z)
    BY <1>8, <2>1, SteadyAtFirst, SteadyAgain DEF Goes, Waits
  <2> QED
    BY <1>8, <2>2, SteadyGoes
<1> HIDE DEF z
<1>10. Done(w)
  BY <1>1, <1>2, <1>8, <1>9, DoneAfter
<1> QED
  BY <1>1, <1>10 DEF w

LEMMA SchedulingWorks ==
    ASSUME WorkInv, NEW t \in Tasks, OnTaskSched(t)
    PROVE  Done(World) /\ World.now = now'
<1> DEFINE w == World
           a == [w EXCEPT !.tk[t].state = "EXEC"]
           v == Drop(a, Desched(t))
<1>1. Waits(w) /\ w.now = now' /\ w.tk = tk
  BY WorkStarts DEF OnTaskSched
<1>2. \/ Becomes(Throw(w, "TaskNotReady")) \/ Becomes(Throw(w, "NoInstruction"))
      \/ /\ tk[t].state = "READY" /\ ~(tk[t].actInstr > Len(Program[t]))
         /\ \E c \in Costs(v, t) : Becomes(Runs(v, t, c))
  BY DEF OnTaskSched
<1> HIDE DEF w
<1>3. CASE Becomes(Throw(w, "TaskNotReady")) \/ Becomes(Throw(w, "NoInstruction"))
  <2>1. Done(w)
    BY <1>1, <1>3, DoneAfter
  <2> QED
    BY <1>1, <2>1 DEF w
<1>4. CASE /\ tk[t].state = "READY" /\ ~(tk[t].actInstr > Len(Program[t]))
           /\ \E c \in Costs(v, t) : Becomes(Runs(v, t, c))
  <2> DEFINE i == w.tk[t]
             o == "EXEC"
             k == [i EXCEPT !.state = o]
  <2>1. /\ i \in Jobs /\ On(w, WorldFields) /\ On(w.tk, Tasks) /\ o \in {"EXEC"}
        /\ Posted(w, Susp(t)) => Suspends(i, t)
    BY <1>1, JobOf
  <2>2. i.actInstr <= Len(Program[t])
    <3>1. i.actInstr \in Nat
      BY <2>1 DEF Jobs
    <3>2. Len(Program[t]) \in Nat
      BY TaskAssumption
    <3> QED
      BY <1>1, <1>4, <3>1, <3>2
  <2>3. Edited(w, a, t, k)
    BY <2>1 DEF Edited, On, WorldFields
  <2> HIDE DEF i, o, a
  <2>4. k \in Jobs /\ k.state = o /\ k.actInstr = i.actInstr
    BY <2>1 DEF Jobs
  <2> HIDE DEF k
  <2>5. Posted(w, Susp(t)) => Suspends(k, t)
    <3>1. k.state # "IDLE"
      BY <2>1, <2>4
    <3> QED
      BY <2>1, <2>4, <3>1 DEF Suspends
  <2>6. Goes(w, a) /\ a.tk[t] = k
    BY <1>1, <2>3, <2>4, <2>5, EditedWaits
  <2>7. Steady(a, v)
    BY <2>6, SteadyAtFirst, SteadyAgain DEF Goes, Waits
  <2>8. Goes(w, v) /\ v.tk[t] = k
    BY <2>6, <2>7, SteadyGoes DEF Steady
  <2> HIDE DEF v
  <2>9. Costs(v, t) \subseteq Int
    BY <2>2, <2>4, <2>8, CostsAreNumbers DEF Goes
  <2>10. v.tk[t].state # "IDLE" /\ v.tk[t].actInstr <= Len(Program[t])
    BY <2>1, <2>2, <2>4, <2>8
  <2>11. \A c \in Int : Goes(v, Runs(v, t, c))
    BY <2>8, <2>10, RunsWaits DEF Goes
  <2>12. \A c \in Int : Goes(w, Runs(v, t, c))
    BY <2>8, <2>11 DEF Goes
  <2>13. Done(w)
    BY <1>1, <1>4, <2>9, <2>12, DoneAfter
  <2> QED
    BY <1>1, <2>13 DEF w
<1> QED
  BY <1>2, <1>3, <1>4

LEMMA DeschedulingWorks ==
    ASSUME WorkInv, NEW t \in Tasks, OnTaskDesched(t)
    PROVE  Done(World) /\ World.now = now'
<1> DEFINE w == World
           a == [w EXCEPT !.tk[t].state = "READY"]
           b == Drop(a, EndEvt(t))
           v == Drop(b, InstrEvt(t))
           d == v.tk[t].done + w.now - tk[t].last
           z == [v EXCEPT !.tk[t].last = w.now, !.tk[t].done = d]
<1>1. Waits(w) /\ w.now = now' /\ w.tk = tk
  BY WorkStarts DEF OnTaskDesched
<1>2. \/ Becomes(Throw(w, "TaskNotExecuting")) \/ Becomes(Throw(w, "NoInstruction"))
      \/ tk[t].state = "EXEC"
         /\ (Becomes(v) \/ Becomes([v EXCEPT !.tk[t].last = w.now,
                                             !.tk[t].done = @ + w.now - tk[t].last]))
  BY DEF OnTaskDesched
<1>3. [v EXCEPT !.tk[t].last = w.now, !.tk[t].done = @ + w.now - tk[t].last] = z
  <2> HIDE DEF v, w
  <2> QED
    OBVIOUS
<1> HIDE DEF w
<1>4. CASE Becomes(Throw(w, "TaskNotExecuting")) \/ Becomes(Throw(w, "NoInstruction"))
  <2>1. Done(w)
    BY <1>1, <1>4, DoneAfter
  <2> QED
    BY <1>1, <2>1 DEF w
<1>5. CASE tk[t].state = "EXEC" /\ (Becomes(v) \/ Becomes(z))
  <2> DEFINE i == w.tk[t]
             o == "READY"
             k == [i EXCEPT !.state = o]
  <2>1. /\ i \in Jobs /\ On(w, WorldFields) /\ On(w.tk, Tasks) /\ o \in {"READY"}
        /\ w.now \in Nat
        /\ Posted(w, Susp(t)) => Suspends(i, t)
    BY <1>1, JobOf
  <2>2. Edited(w, a, t, k)
    BY <2>1 DEF Edited, On, WorldFields
  <2>3. tk[t] = i
    BY <1>1
  <2> HIDE DEF i, o, a, z, d
  <2>4. k \in Jobs /\ k.state = o /\ k.actInstr = i.actInstr
    BY <2>1 DEF Jobs
  <2> HIDE DEF k
  <2>5. Posted(w, Susp(t)) => Suspends(k, t)
    <3>1. k.state # "IDLE"
      BY <2>1, <2>4
    <3> QED
      BY <2>1, <2>4, <3>1 DEF Suspends
  <2>6. Goes(w, a)
    BY <1>1, <2>2, <2>4, <2>5, EditedWaits
  <2>7. Steady(a, b)
    BY <2>6, SteadyAtFirst, SteadyAgain DEF Goes, Waits
  <2>8. Steady(a, v)
    BY <2>7, SteadyAgain
  <2>9. Goes(w, v)
    BY <2>6, <2>8, SteadyGoes
  <2> HIDE DEF v
  <2> DEFINE m == v.tk[t]
             y == w.now
             j == [m EXCEPT !.last = y, !.done = d]
  <2>10. /\ m \in Jobs /\ On(v, WorldFields) /\ On(v.tk, Tasks) /\ y \in Int
         /\ Posted(v, Susp(t)) => Suspends(m, t)
    BY <2>1, <2>9, JobOf DEF Goes
  <2>11. Edited(v, z, t, j)
    BY <2>10 DEF Edited, On, WorldFields, z
  <2>12. d \in Int
    <3> DEFINE e == m.done
               l == tk[t].last
    <3>1. d = e + y - l
      BY DEF d
    <3>2. e \in Int /\ l \in Int
      BY <2>1, <2>3, <2>10 DEF Jobs
    <3> HIDE DEF e, l, y
    <3> QED
      BY <2>10, <3>1, <3>2
  <2> HIDE DEF m, y
  <2>13. j \in Jobs /\ j.state = m.state /\ j.actInstr = m.actInstr
    BY <2>10, <2>12 DEF Jobs
  <2>14. Posted(v, Susp(t)) => Suspends(j, t)
    BY <2>10, <2>13 DEF Suspends
  <2> HIDE DEF j
  <2>15. Goes(v, z)
    BY <2>9, <2>11, <2>13, <2>14, EditedWaits DEF Goes
  <2>16. Goes(w, z)
    BY <2>9, <2>15 DEF Goes
  <2>17. Done(w)
    BY <1>1, <1>5, <2>9, <2>16, DoneAfter
  <2> QED
    BY <1>1, <2>17 DEF w
<1> QED
  BY <1>2, <1>3, <1>4, <1>5

LEMMA InstrEndWorks ==
    ASSUME WorkInv, NEW t \in Tasks, OnInstrEnd(t)
    PROVE  Done(World) /\ World.now = now'
<1> DEFINE w == World
           a == [w EXCEPT !.tk[t].cost = Undrawn, !.tk[t].done = 0,
                          !.tk[t].last = w.now]
           v == InstrEnds(a, t)
<1>1. Waits(w) /\ w.now = now' /\ w.tk = tk /\ ~Posted(w, Susp(t))
  <2>1. InstrEvt(t)[1] \notin Urgent
    BY DEF InstrEvt, Urgent
  <2> QED
    BY <2>1, WorkStarts DEF OnInstrEnd
<1>2. \/ Becomes(v)
      \/ /\ ~(v.tk[t].actInstr > Len(Program[t])) /\ tk[t].state = "EXEC"
         /\ \E c \in Costs(v, t) : Becomes(Runs(v, t, c))
  BY DEF OnInstrEnd
<1> HIDE DEF w
<1> DEFINE i == w.tk[t]
           u == Undrawn
           o == 0
           y == w.now
           k == [i EXCEPT !.cost = u, !.done = o, !.last = y]
<1>3. /\ i \in Jobs /\ On(w, WorldFields) /\ On(w.tk, Tasks)
      /\ u \in Int /\ o \in Int /\ y \in Int
  BY <1>1, JobOf DEF Undrawn
<1>4. Edited(w, a, t, k)
  BY <1>3 DEF Edited, On, WorldFields
<1>5. tk[t] = i
  BY <1>1
<1> HIDE DEF i, u, o, y, a
<1>6. k \in Jobs /\ k.state = i.state
  BY <1>3 DEF Jobs
<1> HIDE DEF k
<1>7. Goes(w, a) /\ a.tk[t] = k /\ ~Posted(a, Susp(t))
  <2>1. Goes(w, a) /\ a.tk[t] = k
    BY <1>1, <1>4, <1>6, EditedWaits
  <2> QED
    BY <1>1, <1>4, <2>1 DEF Edited, Posted
<1>8. Goes(a, v) /\ v.tk[t].state = k.state
  BY <1>7, InstrEndWaits DEF Goes
<1> HIDE DEF v
<1>9. Goes(w, v)
  BY <1>7, <1>8 DEF Goes
<1>10. ASSUME ~(v.tk[t].actInstr > Len(Program[t])), tk[t].state = "EXEC",
              NEW c \in Costs(v, t)
       PROVE  Goes(w, Runs(v, t, c))
  <2>1. v.tk[t].actInstr <= Len(Program[t])
    <3>1. v.tk[t].actInstr \in Nat
      BY <1>9, JobOf DEF Goes, Jobs
    <3>2. Len(Program[t]) \in Nat
      BY TaskAssumption
    <3> QED
      BY <1>10, <3>1, <3>2
  <2>2. c \in Int
    BY <1>9, <1>10, <2>1, CostsAreNumbers DEF Goes
  <2>3. v.tk[t].state # "IDLE"
    BY <1>5, <1>6, <1>8, <1>10
  <2>4. Goes(v, Runs(v, t, c))
    BY <1>9, <2>1, <2>2, <2>3, RunsWaits DEF Goes
  <2> QED
    BY <1>9, <2>4 DEF Goes
<1>11. Done(w)
  BY <1>1, <1>2, <1>9, <1>10, DoneAfter
<1> QED
  BY <1>1, <1>11 DEF w

LEMMA SuspensionWorks ==
    ASSUME WorkInv, NEW t \in Tasks, OnSuspend(t) \/ OnResume(t)
    PROVE  Done(World) /\ World.now = now'
<1> DEFINE w == World
<1>1. CASE OnSuspend(t)
  <2> DEFINE v == HomeSuspend(w, t)
             p == w.now + Instr(w, t).delay
  <2>1. Waits(w) /\ w.now = now' /\ w.tk = tk /\ Suspends(tk[t], t)
    BY <1>1, WorkStarts DEF OnSuspend
  <2>2. Becomes(Post(v, Resume(t), p))
    BY <1>1 DEF OnSuspend
  <2>3. Instr(w, t) = Program[t][w.tk[t].actInstr]
    BY DEF Instr
  <2> HIDE DEF w
  <2>4. p \in Int
    <3>1. w.tk[t].actInstr \in Nat \ {0} /\ w.now \in Nat
      BY <2>1, JobOf DEF Jobs
    <3>2. Instr(w, t).delay \in Nat
      BY <2>1, <2>3, <3>1, InstructionOf DEF Suspends
    <3> QED
      BY <3>1, <3>2
  <2> HIDE DEF p
  <2>5. Steady(w, v)
    BY <2>1, SteadyAtFirst, HomesAreSteady DEF Waits
  <2> HIDE DEF v
  <2>6. Resume(t)[1] \notin Urgent
    BY DEF Resume, Urgent
  <2>7. Steady(w, Post(v, Resume(t), p))
    BY <2>4, <2>5, <2>6, SteadyAgain
  <2>8. Done(w)
    BY <2>1, <2>2, <2>7, DoneAfter
  <2> QED
    BY <2>1, <2>8 DEF w
<1>2. CASE OnResume(t)
  <2> DEFINE v == InstrEnds(w, t)
             z == HomeOnArrival(v, t)
  <2>1. Waits(w) /\ w.now = now' /\ ~Posted(w, Susp(t))
    <3>1. Resume(t)[1] \notin Urgent
      BY DEF Resume, Urgent
    <3> QED
      BY <1>2, <3>1, WorkStarts DEF OnResume
  <2>2. Becomes(z)
    BY <1>2 DEF OnResume
  <2> HIDE DEF w
  <2>3. Goes(w, v)
    BY <2>1, InstrEndWaits
  <2> HIDE DEF v
  <2>4. Steady(v, z)
    BY <2>3, SteadyAtFirst, HomesAreSteady DEF Goes, Waits
  <2>5. Goes(w, z)
    BY <2>3, <2>4, SteadyGoes
  <2> HIDE DEF z
  <2>6. Done(w)
    BY <2>1, <2>2, <2>5, DoneAfter
  <2> QED
    BY <2>1, <2>6 DEF w
<1> QED
  BY <1>1, <1>2

(* All handlers. *)
LEMMA WorkIsKept ==
    WorkInv /\ [Next]_vars => WorkInv'
<1> SUFFICES ASSUME WorkInv, [Next]_vars PROVE WorkInv'
  OBVIOUS
<1>1. AccountInv'
  BY AccountIsKept DEF WorkInv
<1>2. CASE Steps
  <2>1. Done(World) /\ World.now = now'
    <3>1. CASE OnBeginDispatch \/ OnEndDispatch
      BY <3>1, KernelWorks
    <3>2. CASE \E s \in Servers : \/ OnServerSched(s) \/ OnServerDesched(s)
                                  \/ OnServerDispatch(s) \/ OnBudgetExhausted(s)
                                  \/ OnRecharging(s)
      BY <3>2, ServerWorks
    <3>3. CASE \E s \in Servers : OnReplenishment(s) \/ OnIdle(s) \/ OnChangeBudget(s)
      BY <3>3, BudgetWorks
    <3>4. CASE \E t \in Tasks : OnArrival(t) \/ OnFakeArrival(t) \/ OnEndInstance(t)
      BY <3>4, ArrivalWorks, FakeArrivalWorks, EndInstanceWorks
    <3>5. CASE \E t \in Tasks : OnTaskSched(t) \/ OnTaskDesched(t)
      BY <3>5, SchedulingWorks, DeschedulingWorks
    <3>6. CASE \E t \in Tasks : OnInstrEnd(t) \/ OnSuspend(t) \/ OnResume(t)
      BY <3>6, InstrEndWorks, SuspensionWorks
    <3> QED
      BY <1>2, <3>1, <3>2, <3>3, <3>4, <3>5, <3>6 DEF Steps
  <2> QED
    BY <1>1, <2>1, WorkEnds
<1>3. CASE Over \/ UNCHANGED vars
  <2>1. NowWorld' = NowWorld
    BY <1>3 DEF Over, vars, NowWorld
  <2> QED
    BY <1>1, <2>1 DEF WorkInv
<1> QED
  BY <1>2, <1>3 DEF Next

-----------------------------------------------------------------------------
(* The first events.                                                         *)

(* The entities are numbered. *)
LEMMA NumbersOfEntities ==
    /\ \A x \in Entities : Number(x) \in Nat /\ EntitySeq[Number(x)] = x
    /\ \A x, y \in Entities : Number(x) = Number(y) => x = y
<1>1. EntitySeq \in Seq(Entities) /\ ToSet(EntitySeq) = Entities
  BY ServerAssumption
<1>2. ASSUME NEW x \in Entities PROVE Number(x) \in Nat /\ EntitySeq[Number(x)] = x
  <2>1. \E i \in DOMAIN EntitySeq : EntitySeq[i] = x
    BY <1>1 DEF ToSet
  <2>2. Number(x) \in DOMAIN EntitySeq /\ EntitySeq[Number(x)] = x
    BY <2>1 DEF Number
  <2> QED
    BY <1>1, <2>2
<1> QED
  BY <1>2

LEMMA FirstAreOrderly ==
    ASSUME NEW at \in OneOfEach(Phases), NEW ch \in OneOfEach(ChangesAt)
    PROVE  /\ Orderly(FirstEvents(at, ch), 0)
           /\ \A t : ~IsPosted(FirstEvents(at, ch), Susp(t))
<1> DEFINE Posting    == Tasks \cup {s \in Servers : ch[s] # Never}
           Time(x)    == IF x \in Tasks THEN at[x] ELSE ch[x]
           Event(x)   == IF x \in Tasks THEN Arr(x) ELSE ChangeEvt(x)
           Sooner(y, x) == IF (y \in Tasks) = (x \in Tasks)
                           THEN Number(y) < Number(x) ELSE y \in Tasks
           Earlier(x) == {y \in Posting : \/ Time(y) < Time(x)
                                          \/ Time(y) = Time(x) /\ Sooner(y, x)}
           Nth(i)     == CHOOSE x \in Posting : Cardinality(Earlier(x)) + 1 = i
           N          == Cardinality(Posting)
           E          == [i \in 1..N |-> Entry(Event(Nth(i)), Time(Nth(i)), 8)]
           before     == [x \in Posting |-> Earlier(x)]
<1>1. FirstEvents(at, ch) = E
  BY DEF FirstEvents
<1>2. IsFiniteSet(Posting) /\ N \in Nat
  <2>1. Posting \in SUBSET Entities
    BY DEF Entities
  <2> HIDE DEF Posting
  <2> QED
    BY <2>1, ServersAreFinite, FS_Subset, FS_CardinalityType
<1>3. \A x \in Posting : Time(x) \in Nat
  <2>1. \A t \in Tasks : at[t] \in Nat
    BY TaskAssumption DEF OneOfEach
  <2>2. \A s \in Servers : ch[s] \in Nat \cup {Never}
    BY ChangeAssumption DEF OneOfEach
  <2> QED
    BY <2>1, <2>2
<1>4. /\ \A x \in Posting : x \in Entities /\ Number(x) \in Nat
      /\ \A x, y \in Posting : Number(x) = Number(y) => x = y
  <2>1. Posting \subseteq Entities
    BY DEF Entities
  <2> HIDE DEF Posting
  <2> QED
    BY <2>1, NumbersOfEntities
<1>5. /\ \A x : Event(x) = IF x \in Tasks THEN <<"arr", x>> ELSE <<"changeBudget", x>>
      /\ \A x : Event(x)[2] = x /\ Event(x)[1] \in {"arr", "changeBudget"}
      /\ \A x : Event(x)[1] \notin Urgent /\ PrioOf(Event(x)) = 8
  <2>1. \A x : Event(x) = IF x \in Tasks THEN <<"arr", x>> ELSE <<"changeBudget", x>>
    BY DEF Arr, ChangeEvt
  <2> HIDE DEF Event
  <2>2. \A x : Event(x)[2] = x /\ Event(x)[1] \in {"arr", "changeBudget"}
    BY <2>1
  <2>3. \A x : Event(x)[1] \notin Urgent
    BY <2>2 DEF Urgent
  <2>4. ASSUME NEW x PROVE PrioOf(Event(x)) = 8
    <3>1. PrioOf(Event(x)) = Priority(Event(x))
      BY <2>3 DEF PrioOf
    <3>2. Event(x)[1] = "arr" \/ Event(x)[1] = "changeBudget"
      BY <2>2
    <3> QED
      BY <3>1, <3>2 DEF Priority
  <2> QED
    BY <2>1, <2>2, <2>3, <2>4
<1> HIDE DEF Event, Time, Posting
<1>6. /\ before \in [Posting -> SUBSET Posting]
      /\ \A x \in Posting : before[x] = Earlier(x)
  OBVIOUS
<1>7. /\ \A x \in Posting : x \notin Earlier(x)
      /\ \A x, y \in Posting : x = y \/ x \in Earlier(y) \/ y \in Earlier(x)
      /\ \A x, y \in Posting : x \in Earlier(y) => Earlier(x) \subseteq Earlier(y)
  <2>1. ASSUME NEW x \in Posting PROVE x \notin Earlier(x)
    BY <1>3, <1>4
  <2>2. ASSUME NEW x \in Posting, NEW y \in Posting, x # y
        PROVE  x \in Earlier(y) \/ y \in Earlier(x)
    <3>1. Sooner(x, y) \/ Sooner(y, x)
      BY <1>4, <2>2
    <3> HIDE DEF Sooner
    <3> QED
      BY <1>3, <2>2, <3>1
  <2>3. ASSUME NEW x \in Posting, NEW y \in Posting, x \in Earlier(y),
               NEW z \in Earlier(x)
        PROVE  z \in Earlier(y)
    <3>1. z \in Posting /\ Time(x) \in Nat /\ Time(y) \in Nat /\ Time(z) \in Nat
      BY <1>3, <2>3
    <3>2. Sooner(z, x) /\ Sooner(x, y) => Sooner(z, y)
      BY <1>4, <3>1
    <3> HIDE DEF Sooner
    <3> QED
      BY <2>3, <3>1, <3>2
  <2> QED
    BY <2>1, <2>2, <2>3
<1>8. /\ \A i \in 1..N : \E x \in Posting : Cardinality(Earlier(x)) + 1 = i
      /\ \A x, y \in Posting : x \in Earlier(y)
            => Cardinality(Earlier(x)) < Cardinality(Earlier(y))
      /\ \A x \in Posting : Cardinality(Earlier(x)) \in Nat
  <2>1. /\ \A x \in Posting : x \notin before[x]
        /\ \A x, y \in Posting : x = y \/ x \in before[y] \/ y \in before[x]
        /\ \A x, y \in Posting : x \in before[y] => before[x] \subseteq before[y]
    BY <1>6, <1>7
  <2>2. \A x \in Posting : IsFiniteSet(Earlier(x)) /\ Cardinality(Earlier(x)) \in Nat
    <3>1. \A x \in Posting : Earlier(x) \in SUBSET Posting
      OBVIOUS
    <3> HIDE DEF Earlier
    <3> QED
      BY <1>2, <3>1, FS_Subset, FS_CardinalityType
  <2> HIDE DEF before
  <2>3. /\ \A i \in 1..Cardinality(Posting) :
              \E x \in Posting : Cardinality(before[x]) + 1 = i
        /\ \A x, y \in Posting : x \in before[y]
              => Cardinality(before[x]) < Cardinality(before[y])
    BY <1>2, <1>6, <2>1, PlacesInOrder
  <2> HIDE DEF Earlier
  <2> QED
    BY <1>6, <2>2, <2>3
<1> HIDE DEF Earlier
<1>9. \A i \in 1..N : Nth(i) \in Posting /\ Cardinality(Earlier(Nth(i))) + 1 = i
  BY <1>8
<1>10. \A x, y \in Posting : Time(x) < Time(y) => x \in Earlier(y)
  BY DEF Earlier
<1>11. \A i \in 1..N : /\ E[i].ev = Event(Nth(i)) /\ E[i].at = Time(Nth(i))
                       /\ E[i].prio = 8
  BY DEF Entry
<1>12. E \in Seq({E[i] : i \in 1..N}) /\ DOMAIN E = 1..N
  <2> DEFINE S == {E[i] : i \in 1..N}
  <2>1. E = [i \in 1..N |-> E[i]] /\ DOMAIN E = 1..N
    OBVIOUS
  <2>2. \A i \in 1..N : E[i] \in S
    OBVIOUS
  <2> HIDE DEF E, N, S
  <2>3. [i \in 1..N |-> E[i]] \in Seq(S)
    BY <1>2, <2>2
  <2> QED
    BY <2>1, <2>3 DEF S
<1> HIDE DEF E, Nth, N
<1>13. InOrder(E)
  <2> SUFFICES ASSUME NEW i \in 1..N, NEW j \in 1..N, i < j PROVE Precedes(E[i], E[j])
    BY <1>12 DEF InOrder
  <2>1. ~(Nth(j) \in Earlier(Nth(i)))
    BY <1>2, <1>8, <1>9
  <2>2. Time(Nth(i)) <= Time(Nth(j))
    BY <1>3, <1>9, <1>10, <2>1
  <2> QED
    BY <1>3, <1>9, <1>11, <2>2 DEF Precedes
<1>14. PostedOnce(E)
  <2> SUFFICES ASSUME NEW i \in 1..N, NEW j \in 1..N, E[i].ev = E[j].ev PROVE i = j
    BY <1>12 DEF PostedOnce
  <2>1. Nth(i) = Nth(j)
    BY <1>5, <1>11
  <2> QED
    BY <1>2, <1>8, <1>9, <2>1
<1>15. \A i \in 1..N : Due(0, E[i]) /\ E[i].at \in Nat /\ E[i].prio \in Nat
  BY <1>3, <1>5, <1>9, <1>11 DEF Due
<1>16. Orderly(E, 0)
  <2>1. \A x \in Entries(E) : Due(0, x)
    BY <1>12, <1>15 DEF Entries
  <2>2. \E S : E \in Seq(S) /\ \A x \in S : x.at \in Nat /\ x.prio \in Nat
    BY <1>12, <1>15
  <2> QED
    BY <1>13, <1>14, <2>1, <2>2 DEF Orderly, Proper
<1>17. ASSUME NEW t PROVE ~IsPosted(E, Susp(t))
  <2>1. Susp(t)[1] = "susp"
    BY DEF Susp
  <2> QED
    BY <1>5, <1>11, <1>12, <2>1 DEF IsPosted
<1> QED
  BY <1>1, <1>16, <1>17

LEMMA WorkAtFirst ==
    Init => WorkInv
<1> SUFFICES ASSUME Init PROVE WorkInv
  OBVIOUS
<1> DEFINE n == NowWorld
<1>1. PICK at \in OneOfEach(Phases), ch \in OneOfEach(ChangesAt), k \in OneOfEach(Kinds) :
         /\ agenda = FirstEvents(at, ch)
         /\ sv = [s \in Servers |-> NewServer(s, k[s])]
         /\ tk = [t \in Tasks |-> NewTask(at[t])]
  BY DEF Init
<1>2. /\ On(n, WorldFields) /\ n.now = 0 /\ n.q = agenda /\ n.sv = sv /\ n.tk = tk
      /\ n.sup = [active |-> 0, residual |-> 0]
      /\ n.queue = [x \in Kernels |-> {}] /\ n.insertTime = [x \in Entities |-> 0]
      /\ n.currExe = [x \in Kernels |-> None]
  BY DEF On, WorldFields, NowWorld, Init
<1> HIDE DEF n
<1>3. Orderly(n.q, 0) /\ \A t : ~Posted(n, Susp(t))
  BY <1>1, <1>2, FirstAreOrderly DEF Posted
<1>4. ASSUME NEW s \in Servers
      PROVE  /\ n.sv[s] \in Records /\ n.sv[s].kind \in Kinds[s]
             /\ Kept(n.sv[s], 0)
  <2> DEFINE x == k[s]
             r == NewServer(s, x)
             c == StoppedAt(0)
             y == IF x \in {"polling", "grub"} THEN 0 ELSE Q[s]
             b == <<>>
             z == 0
  <2>1. x \in Kinds[s] /\ x \in Classes
    BY <1>1, KindAssumption DEF OneOfEach
  <2>2. n.sv[s] = r
    BY <1>1, <1>2
  <2>3. c \in Timers
    BY DEF StoppedAt, Timers
  <2>4. Q[s] \in Nat \ {0} /\ y \in Int /\ z \in Int
    BY ServerAssumption
  <2>5. b \in Seq(Amounts) /\ Fair(b) /\ Total(b) = 0
    BY NoneIsFair
  <2>6. r = [kind |-> x, status |-> "IDLE", q |-> Q[s], cap |-> y, dl |-> z, last |-> z,
             vtime |-> c, capacity |-> c, repl |-> b, ready |-> b]
    BY DEF NewServer
  <2>7. x = "sporadic" => y = Q[s]
    OBVIOUS
  <2> HIDE DEF x, c, y, b, z, r
  <2>8. r \in Records
    BY <2>1, <2>3, <2>4, <2>5, <2>6 DEF Records, Statuses
  <2>9. /\ r.kind = x /\ r.last = z /\ r.repl = b /\ r.ready = b /\ r.cap = y
        /\ r.q = Q[s]
    BY <2>6
  <2>10. Kept(r, 0)
    BY <2>4, <2>5, <2>7, <2>9 DEF Kept, z
  <2> QED
    BY <2>1, <2>2, <2>8, <2>9, <2>10
<1>5. ASSUME NEW t \in Tasks PROVE n.tk[t] \in Jobs
  <2> DEFINE a == at[t]
             b == <<>>
             u == Undrawn
             z == 0
             o == 1
             e == Never
             st == "IDLE"
             k1 == NewTask(a)
  <2>1. a \in Nat
    BY <1>1, TaskAssumption DEF OneOfEach
  <2>2. b \in Seq(Nat) /\ u \in Int /\ z \in Int /\ o \in Nat \ {0} /\ e \in Int
        /\ st \in {"IDLE"}
    BY DEF Undrawn, Never
  <2>3. k1 = [state |-> st, actInstr |-> o, cost |-> u, done |-> z, last |-> z,
              arrival |-> a, dl |-> z, arrQueue |-> b, endAt |-> e, arrAt |-> a]
    BY DEF NewTask
  <2>4. n.tk[t] = k1
    BY <1>1, <1>2
  <2> HIDE DEF a, b, u, z, o, e, st, k1
  <2>5. k1 \in Jobs
    BY <2>1, <2>2, <2>3 DEF Jobs
  <2> QED
    BY <2>4, <2>5
<1>6. n.sv \in [Servers -> Records] /\ n.tk \in [Tasks -> Jobs]
  <2>1. n.sv = [s \in Servers |-> n.sv[s]] /\ n.tk = [t \in Tasks |-> n.tk[t]]
    BY <1>1, <1>2
  <2> QED
    BY <1>4, <1>5, <2>1
<1>7. /\ On(n.queue, Kernels) /\ \A s \in Servers : n.queue[s] \subseteq Tasks
      /\ On(n.insertTime, Entities) /\ \A t \in Tasks : n.insertTime[t] \in Nat
      /\ On(n.currExe, Kernels)
      /\ n.sup \in [active: Int, residual: Int]
  BY <1>2 DEF On, Kernels, Entities
<1>8. Typed(n)
  <2>1. n.now \in Nat /\ Orderly(n.q, n.now)
    BY <1>2, <1>3
  <2>2. \A s \in Servers : n.sv[s].kind \in Kinds[s]
    BY <1>4
  <2>3. On(n, WorldFields)
    BY <1>2
  <2> QED
    BY <1>6, <1>7, <2>1, <2>2, <2>3 DEF Typed
<1>9. Waits(n)
  BY <1>2, <1>3, <1>4, <1>8 DEF Waits, Solvent
<1> QED
  BY <1>9, AccountAtFirst DEF WorkInv, n

(* A sporadic server loses no budget: what it has, what is ready to be used *)
(* and what is to come back are at least its budget at all times, whether   *)
(* it is idle or not, whatever executions, preemptions, replenishments and  *)
(* changes of the budget come in what order, for any number of servers of   *)
(* all classes together.                                                    *)
THEOREM NoBudgetGetsLost == Spec => []NoBudgetIsLost
<1>1. Init => WorkInv
  BY WorkAtFirst
<1>2. WorkInv /\ [Next]_vars => WorkInv'
  BY WorkIsKept
<1>3. WorkInv => NoBudgetIsLost
  <2> SUFFICES ASSUME WorkInv, NEW s \in Servers, sv[s].kind = "sporadic"
               PROVE  sv[s].q <= sv[s].cap
                                 + SS!SumAmounts(sv[s].ready, Len(sv[s].ready))
                                 + SS!SumAmounts(sv[s].repl, Len(sv[s].repl))
    BY DEF NoBudgetIsLost
  <2>1. Kept(sv[s], now)
    BY DEF WorkInv, Waits, Solvent, NowWorld
  <2> QED
    BY <2>1 DEF Kept, Total
<1> QED
  BY <1>1, <1>2, <1>3, PTL DEF Spec
=============================================================================
