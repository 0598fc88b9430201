---------------------------- MODULE Server_proofs ----------------------------
(***************************************************************************)
(* Theorems about the servers, of all classes and whatever their budgets   *)
(* are changed to: the supervisor's account of the bandwidth in use is     *)
(* that of the GRUB servers that are not idle.                             *)
(***************************************************************************)
EXTENDS Server, Agenda_proofs

-----------------------------------------------------------------------------
(* Worlds.                                                                   *)

(* f is a function on D. *)
On(f, D) == f = [x \in D |-> f[x]]

WorldFields  == {"now", "q", "exc", "queue", "insertTime", "currExe", "sv", "tk", "sup"}
ServerFields == {"kind", "status", "q", "cap", "dl", "last", "vtime", "capacity",
                 "repl", "ready"}

(* The classes of servers whose code posts the events of a name. *)
Posters ==
    [n \in {"recharging", "replenishing", "goingIdle", "CBSGoingIdle"} |->
        CASE n = "recharging"   -> {"polling", "grub"}
          [] n = "replenishing" -> {"hardCBS", "softCBS", "reuseCBS", "sporadic"}
          [] n = "goingIdle"    -> {"sporadic", "grub"}
          [] n = "CBSGoingIdle" -> {"hardCBS", "softCBS", "reuseCBS"}]

(* The event e, if it is one of those, is of a server of such a class. *)
Fits(w, e) ==
    e[1] \in DOMAIN Posters =>
        e[2] \in Servers /\ w.sv[e[2]].kind \in Posters[e[1]]

Sound(w) ==
    /\ On(w, WorldFields)
    /\ On(w.sup, {"active", "residual"})
    /\ On(w.sv, Servers)
    /\ \A s \in Servers : On(w.sv[s], ServerFields) /\ w.sv[s].kind \in Classes
    /\ \E S : w.q \in Seq(S)
    /\ \A e : IsPosted(w.q, e) => Fits(w, e)

(* From w to v the servers but x keep their status, ... *)
Local(w, v, x) ==
    /\ Sound(v)
    /\ v.sup.active = w.sup.active
    /\ \A s \in Servers : v.sv[s].kind = w.sv[s].kind
    /\ \A s \in Servers \ {x} : v.sv[s].status = w.sv[s].status

(* ... and all of them keep it. *)
Still(w, v) ==
    /\ Sound(v)
    /\ v.sup.active = w.sup.active
    /\ \A s \in Servers : v.sv[s].kind = w.sv[s].kind
                          /\ v.sv[s].status = w.sv[s].status

(* The server x has the status st in v. *)
Turned(w, v, x, st) == Local(w, v, x) /\ v.sv[x].status = st

LEMMA StillChain ==
    ASSUME NEW w, NEW v, NEW z, NEW x, Still(w, v)
    PROVE  /\ Still(v, z) => Still(w, z)
           /\ Local(v, z, x) => Local(w, z, x)
           /\ \A st : Turned(v, z, x, st) => Turned(w, z, x, st)
BY DEF Still, Local, Turned

LEMMA StillIsLocal ==
    ASSUME NEW w, NEW v, NEW x, Still(w, v)
    PROVE  Local(w, v, x) /\ Sound(v)
BY DEF Still, Local

LEMMA LocalChain ==
    ASSUME NEW w, NEW v, NEW z, NEW x \in Servers, Local(w, v, x)
    PROVE  /\ Sound(v)
           /\ Still(v, z) => Local(w, z, x)
           /\ Local(v, z, x) => Local(w, z, x)
           /\ \A st : Turned(v, z, x, st) => Turned(w, z, x, st)
           /\ \A st : v.sv[x].status = st /\ Still(v, z) => Turned(w, z, x, st)
BY DEF Still, Local, Turned

(* A server with its record replaced. *)
WithServer(w, s, r) == [w EXCEPT !.sv[s] = r]

LEMMA ServerReplaced ==
    ASSUME NEW w, Sound(w), NEW s \in Servers, NEW r, On(r, ServerFields),
           r.kind = w.sv[s].kind
    PROVE  /\ Turned(w, WithServer(w, s, r), s, r.status)
           /\ WithServer(w, s, r).sv[s] = r
           /\ r.status = w.sv[s].status => Still(w, WithServer(w, s, r))
<1> DEFINE v == WithServer(w, s, r)
<1>1. /\ On(v, WorldFields) /\ On(v.sv, Servers)
      /\ v.sup = w.sup /\ v.q = w.q
      /\ v.sv[s] = r
      /\ \A u \in Servers \ {s} : v.sv[u] = w.sv[u]
  BY DEF Sound, On, WithServer, WorldFields
<1>2. \A e : Fits(w, e) => Fits(v, e)
  BY <1>1 DEF Fits
<1> HIDE DEF v
<1>3. \A u \in Servers : On(v.sv[u], ServerFields) /\ v.sv[u].kind = w.sv[u].kind
                          /\ v.sv[u].kind \in Classes
  BY <1>1 DEF Sound
<1>4. \A e : IsPosted(v.q, e) => Fits(v, e)
  BY <1>1, <1>2 DEF Sound
<1>5. Sound(v)
  BY <1>1, <1>3, <1>4 DEF Sound
<1> QED
  BY <1>1, <1>3, <1>5 DEF Turned, Local, Still, v

(* A world with other fields than the servers changed. *)
LEMMA ElsewhereChanged ==
    ASSUME NEW w, Sound(w), NEW v, On(v, WorldFields),
           v.sv = w.sv, v.q = w.q, v.sup = w.sup
    PROVE  Still(w, v)
BY DEF Sound, Still, Fits

-----------------------------------------------------------------------------
(* Events.                                                                   *)

LEMMA DropPosts ==
    ASSUME NEW S, NEW q \in Seq(S), NEW e, NEW f
    PROVE  /\ DropFrom(q, e) \in Seq(S)
           /\ IsPosted(DropFrom(q, e), f) => IsPosted(q, f)
<1>1. CASE ~IsPosted(q, e)
  BY <1>1 DEF DropFrom
<1>2. CASE IsPosted(q, e)
  <2> DEFINE k == CHOOSE i \in DOMAIN q : q[i].ev = e
  <2>1. DropFrom(q, e) = RemoveAt(q, k)
    BY <1>2 DEF DropFrom
  <2>2. k \in 1..Len(q)
    BY <1>2 DEF IsPosted
  <2> HIDE DEF k
  <2>3. /\ RemoveAt(q, k) \in Seq(S)
        /\ Len(RemoveAt(q, k)) = Len(q) - 1
        /\ \A i \in 1..Len(q) - 1 :
              RemoveAt(q, k)[i] = IF i < k THEN q[i] ELSE q[i + 1]
    BY <2>2, RemoveAtPlaces
  <2>4. ASSUME NEW i \in DOMAIN RemoveAt(q, k)
        PROVE  \E j \in DOMAIN q : RemoveAt(q, k)[i] = q[j]
    <3>1. i \in 1..Len(q) - 1 /\ Len(q) \in Nat /\ DOMAIN q = 1..Len(q)
      BY <2>3
    <3>2. i \in DOMAIN q /\ i + 1 \in DOMAIN q
      BY <3>1
    <3> QED
      BY <2>3, <3>1, <3>2
  <2> QED
    BY <2>1, <2>3, <2>4 DEF IsPosted
<1> QED
  BY <1>1, <1>2

(* The queue of events is another one, of which all were there but e. *)
LEMMA QueueChanged ==
    ASSUME NEW w, Sound(w), NEW S, NEW p \in Seq(S), NEW e, Fits(w, e),
           \A f : IsPosted(p, f) => IsPosted(w.q, f) \/ f = e
    PROVE  Still(w, [w EXCEPT !.q = p])
<1> DEFINE v == [w EXCEPT !.q = p]
<1>1. On(v, WorldFields) /\ v.q = p /\ v.sv = w.sv /\ v.sup = w.sup
  BY DEF Sound, On, WorldFields
<1>2. \A f : IsPosted(p, f) => Fits(w, f)
  BY DEF Sound
<1>3. \A f : Fits(w, f) => Fits(v, f)
  BY <1>1 DEF Fits
<1> HIDE DEF v
<1>4. \A e1 : IsPosted(v.q, e1) => Fits(v, e1)
  BY <1>1, <1>2, <1>3
<1>5. Sound(v)
  BY <1>1, <1>4 DEF Sound
<1> QED
  BY <1>1, <1>5 DEF Still, v

LEMMA ThrowIsStill ==
    ASSUME NEW w, Sound(w), NEW x
    PROVE  Still(w, Throw(w, x))
<1>1. /\ On(Throw(w, x), WorldFields)
      /\ Throw(w, x).sv = w.sv /\ Throw(w, x).q = w.q /\ Throw(w, x).sup = w.sup
  BY DEF Throw, Sound, On, WorldFields
<1> QED
  BY <1>1, ElsewhereChanged

LEMMA DropIsStill ==
    ASSUME NEW w, Sound(w), NEW e
    PROVE  Still(w, Drop(w, e))
<1>1. PICK S : w.q \in Seq(S)
  BY DEF Sound
<1>2. /\ DropFrom(w.q, e) \in Seq(S)
      /\ \A f : IsPosted(DropFrom(w.q, e), f) => IsPosted(w.q, f)
  BY <1>1, DropPosts
<1>3. Fits(w, Begin)
  BY DEF Fits, Begin, Posters
<1> QED
  BY <1>2, <1>3, QueueChanged DEF Drop

(* A post into the queue p, of which all events were there. *)
LEMMA PostedIsStill ==
    ASSUME NEW w, Sound(w), NEW T, NEW p \in Seq(T), NEW y, Fits(w, y.ev),
           \A f : IsPosted(p, f) => IsPosted(w.q, f)
    PROVE  Still(w, [w EXCEPT !.q = PostIn(p, y)])
<1> DEFINE S == T \cup {y}
<1>1. p \in Seq(S) /\ y \in S
  OBVIOUS
<1>2. /\ PostIn(p, y) \in Seq(S)
      /\ \A f : IsPosted(PostIn(p, y), f) => IsPosted(p, f) \/ y.ev = f
  <2> HIDE DEF S
  <2> QED
    BY <1>1, PostPosts, PostPlaces
<1> HIDE DEF S
<1>3. \A f : IsPosted(PostIn(p, y), f) => IsPosted(w.q, f) \/ f = y.ev
  BY <1>2
<1> QED
  BY <1>2, <1>3, QueueChanged

LEMMA PostIsStill ==
    ASSUME NEW w, Sound(w), NEW e, NEW at, Fits(w, e)
    PROVE  Still(w, Post(w, e, at))
<1>1. PICK S : w.q \in Seq(S)
  BY DEF Sound
<1> DEFINE y == Entry(e, at, Priority(e))
<1>2. y.ev = e
  BY DEF Entry
<1> HIDE DEF y
<1>3. Still(w, [w EXCEPT !.q = PostIn(w.q, y)])
  BY <1>1, <1>2, PostedIsStill
<1>4. /\ Still(w, Throw(w, "AlreadyPosted"))
      /\ Still(w, Throw(w, "PostedInThePast"))
  BY ThrowIsStill
<1> QED
  BY <1>3, <1>4 DEF Post, y

LEMMA ProcessIsStill ==
    ASSUME NEW w, Sound(w), NEW e, Fits(w, e)
    PROVE  Still(w, Process(w, e))
<1>1. PICK S : w.q \in Seq(S)
  BY DEF Sound
<1> DEFINE y == Entry(e, w.now, 0)
           p == DropFrom(w.q, e)
<1>2. y.ev = e
  BY DEF Entry
<1>3. p \in Seq(S) /\ \A f : IsPosted(p, f) => IsPosted(w.q, f)
  BY <1>1, DropPosts
<1> HIDE DEF y, p
<1>4. Still(w, [w EXCEPT !.q = PostIn(p, y)])
  BY <1>2, <1>3, PostedIsStill
<1> QED
  BY <1>4 DEF Process, y, p

(* Which events fit: those of the kernels and the tasks. *)
LEMMA TheyFit ==
    ASSUME NEW w
    PROVE  /\ Fits(w, Begin) /\ Fits(w, EndDisp)
           /\ \A x : /\ Fits(w, Sched(x)) /\ Fits(w, Desched(x)) /\ Fits(w, Dispatch(x))
                     /\ Fits(w, BandEx(x)) /\ Fits(w, DlineMiss(x)) /\ Fits(w, Arr(x))
                     /\ Fits(w, FakeArr(x)) /\ Fits(w, InstrEvt(x)) /\ Fits(w, EndEvt(x))
                     /\ Fits(w, Susp(x)) /\ Fits(w, Resume(x)) /\ Fits(w, ChangeEvt(x))
BY DEF Fits, Posters, Begin, EndDisp, Sched, Desched, Dispatch, BandEx, DlineMiss, Arr,
       FakeArr, InstrEvt, EndEvt, Susp, Resume, ChangeEvt

LEMMA ServersFit ==
    ASSUME NEW w, NEW s \in Servers
    PROVE  /\ w.sv[s].kind \in {"polling", "grub"} => Fits(w, Recharge(s))
           /\ w.sv[s].kind \in {"hardCBS", "softCBS", "reuseCBS", "sporadic"}
                 => Fits(w, Repl(s))
           /\ w.sv[s].kind \in {"sporadic", "grub"} => Fits(w, Idle(s))
           /\ w.sv[s].kind \in {"hardCBS", "softCBS", "reuseCBS"} => Fits(w, CBSIdle(s))
BY DEF Fits, Posters, Recharge, Repl, Idle, CBSIdle

-----------------------------------------------------------------------------
(* The kernels.                                                              *)

LEMMA QueuesAreStill ==
    ASSUME NEW w, Sound(w), NEW k, NEW x
    PROVE  /\ Still(w, Insert(w, k, x))
           /\ Still(w, Extract(w, k, x))
           /\ Still(w, SetExe(w, k, x))
<1>1. /\ On(Insert(w, k, x), WorldFields) /\ Insert(w, k, x).sv = w.sv
      /\ Insert(w, k, x).q = w.q /\ Insert(w, k, x).sup = w.sup
  BY DEF Insert, Sound, On, WorldFields
<1>2. /\ On(Extract(w, k, x), WorldFields) /\ Extract(w, k, x).sv = w.sv
      /\ Extract(w, k, x).q = w.q /\ Extract(w, k, x).sup = w.sup
  BY DEF Extract, Sound, On, WorldFields
<1>3. /\ On(SetExe(w, k, x), WorldFields) /\ SetExe(w, k, x).sv = w.sv
      /\ SetExe(w, k, x).q = w.q /\ SetExe(w, k, x).sup = w.sup
  BY DEF SetExe, Sound, On, WorldFields
<1> QED
  BY <1>1, <1>2, <1>3, ElsewhereChanged

LEMMA SchedulingIsStill ==
    ASSUME NEW w, Sound(w), NEW x
    PROVE  /\ Still(w, Schedule(w, x))
           /\ Still(w, Deschedule(w, x))
           /\ Still(w, KernelDispatch(w))
<1>1. Still(w, Drop(w, Sched(x))) /\ Still(w, Drop(w, Begin))
  BY DropIsStill
<1>2. Sound(Drop(w, Sched(x))) /\ Sound(Drop(w, Begin))
  BY <1>1 DEF Still
<1>3. Still(w, Schedule(w, x))
  BY ProcessIsStill, TheyFit DEF Schedule
<1>4. Still(w, Deschedule(w, x))
  <2>1. Still(Drop(w, Sched(x)), Process(Drop(w, Sched(x)), Desched(x)))
        /\ Still(w, Process(w, Desched(x)))
    BY <1>2, ProcessIsStill, TheyFit
  <2> QED
    BY <1>1, <2>1, StillChain DEF Deschedule
<1>5. Still(w, KernelDispatch(w))
  <2>1. Still(Drop(w, Begin), Post(Drop(w, Begin), Begin, w.now))
    BY <1>2, PostIsStill, TheyFit
  <2> QED
    BY <1>1, <2>1, StillChain DEF KernelDispatch
<1> QED
  BY <1>3, <1>4, <1>5

LEMMA KernelIsStill ==
    ASSUME NEW w, Sound(w), NEW x
    PROVE  /\ Still(w, KernelOnArrival(w, x))
           /\ Still(w, KernelSuspend(w, x))
           /\ Still(w, KernelOnEnd(w, x))
<1> DEFINE i == Insert(w, Kernel, x)
           r == Extract(w, Kernel, x)
           d == Deschedule(r, x)
           n == SetExe(d, Kernel, None)
           m == SetExe(r, Kernel, None)
<1>1. Still(w, i) /\ Sound(i) /\ Still(w, r) /\ Sound(r)
  BY QueuesAreStill DEF Still
<1>2. Still(w, d) /\ Sound(d)
  <2> HIDE DEF r
  <2> QED
    BY <1>1, SchedulingIsStill, StillChain, StillIsLocal
<1>3. Still(w, n) /\ Still(w, m) /\ Sound(m)
  <2> HIDE DEF r, d
  <2> QED
    BY <1>1, <1>2, QueuesAreStill, StillChain, StillIsLocal
<1>4. /\ Still(w, KernelDispatch(i)) /\ Still(w, KernelDispatch(r))
      /\ Still(w, KernelDispatch(m))
  <2> HIDE DEF i, r, m
  <2> QED
    BY <1>1, <1>3, SchedulingIsStill, StillChain
<1> QED
  BY <1>1, <1>3, <1>4 DEF KernelOnArrival, KernelSuspend, KernelOnEnd

-----------------------------------------------------------------------------
(* A server's own state.                                                     *)

LEMMA StatusIsSet ==
    ASSUME NEW w, Sound(w), NEW s \in Servers, NEW x
    PROVE  Turned(w, SetStatus(w, s, x), s, x) /\ Sound(SetStatus(w, s, x))
<1> DEFINE r == [w.sv[s] EXCEPT !.status = x]
<1>1. SetStatus(w, s, x) = WithServer(w, s, r)
  BY DEF SetStatus, WithServer
<1>2. On(r, ServerFields) /\ r.status = x /\ r.kind = w.sv[s].kind
  BY DEF Sound, On, ServerFields
<1> HIDE DEF r
<1> QED
  BY <1>1, <1>2, ServerReplaced DEF Turned, Local

(* The virtual time is another one. *)
LEMMA TimerIsStill ==
    ASSUME NEW w, Sound(w), NEW s, NEW c
    PROVE  /\ Still(w, [w EXCEPT !.sv[s].vtime = c])
           /\ Still(w, [w EXCEPT !.sv[s].capacity = c])
<1>1. CASE s \in Servers
  <2> DEFINE r == [w.sv[s] EXCEPT !.vtime = c]
             t == [w.sv[s] EXCEPT !.capacity = c]
  <2>1. /\ [w EXCEPT !.sv[s].vtime = c] = WithServer(w, s, r)
        /\ [w EXCEPT !.sv[s].capacity = c] = WithServer(w, s, t)
    BY DEF WithServer
  <2>2. /\ On(r, ServerFields) /\ r.status = w.sv[s].status /\ r.kind = w.sv[s].kind
        /\ On(t, ServerFields) /\ t.status = w.sv[s].status /\ t.kind = w.sv[s].kind
    BY <1>1 DEF Sound, On, ServerFields
  <2> HIDE DEF r, t
  <2> QED
    BY <1>1, <2>1, <2>2, ServerReplaced
<1>2. CASE s \notin Servers
  <2> DEFINE v == [w EXCEPT !.sv[s].vtime = c]
             z == [w EXCEPT !.sv[s].capacity = c]
  <2>1. /\ On(v, WorldFields) /\ v.sv = w.sv /\ v.q = w.q /\ v.sup = w.sup
        /\ On(z, WorldFields) /\ z.sv = w.sv /\ z.q = w.q /\ z.sup = w.sup
    BY <1>2 DEF Sound, On, WorldFields
  <2> HIDE DEF v, z
  <2>2. Still(w, v) /\ Still(w, z)
    BY <2>1, ElsewhereChanged
  <2> QED
    BY <2>2 DEF v, z
<1> QED
  BY <1>1, <1>2

LEMMA VTimeIsStill ==
    ASSUME NEW w, Sound(w), NEW s, NEW rate
    PROVE  /\ Still(w, SetVTime(w, s)) /\ Still(w, StartVTime(w, s, rate))
           /\ Still(w, StopVTime(w, s))
<1>1. \A c : Still(w, [w EXCEPT !.sv[s].vtime = c])
  BY TimerIsStill
<1>2. \A x : Still(w, Throw(w, x))
  BY ThrowIsStill
<1>3. Still(w, SetVTime(w, s))
  <2>1. Still(w, [w EXCEPT !.sv[s].vtime = SetValue(w.sv[s].vtime, w.now * VUnit)])
    BY <1>1
  <2> QED
    BY <1>2, <2>1 DEF SetVTime
<1>4. Still(w, StartVTime(w, s, rate))
  <2>1. Still(w, [w EXCEPT !.sv[s].vtime = Started(w.sv[s].vtime, rate, w.now)])
    BY <1>1
  <2> QED
    BY <1>2, <2>1 DEF StartVTime
<1>5. Still(w, StopVTime(w, s))
  <2>1. Still(w, [w EXCEPT !.sv[s].vtime = Stopped(w.sv[s].vtime, w.now)])
    BY <1>1
  <2> QED
    BY <1>2, <2>1 DEF StopVTime
<1> QED
  BY <1>3, <1>4, <1>5

-----------------------------------------------------------------------------
(* The classes are instances of their own of ServerWorld: what they share   *)
(* is the same.                                                              *)

LEMMA GrubShares ==
    ASSUME NEW w, NEW s, NEW x, NEW y
    PROVE  /\ GRUB!Throw(w, x) = Throw(w, x)
           /\ GRUB!Drop(w, x) = Drop(w, x)
           /\ GRUB!Post(w, x, y) = Post(w, x, y)
           /\ GRUB!SetStatus(w, s, x) = SetStatus(w, s, x)
           /\ GRUB!VTime(w, s) = VTime(w, s)
           /\ GRUB!SetVTime(w, s) = SetVTime(w, s)
           /\ GRUB!StartVTime(w, s, x) = StartVTime(w, s, x)
           /\ GRUB!StopVTime(w, s) = StopVTime(w, s)
           /\ GRUB!BandEx(s) = BandEx(s) /\ GRUB!Idle(s) = Idle(s)
           /\ GRUB!Recharge(s) = Recharge(s)
<1>1. GRUB!Throw(w, x) = Throw(w, x)
  BY DEF GRUB!Throw, Throw
<1>2. GRUB!Drop(w, x) = Drop(w, x)
  BY DEF GRUB!Drop, Drop, GRUB!DropFrom, DropFrom, GRUB!IsPosted, IsPosted,
         GRUB!RemoveAt, RemoveAt
<1>3. GRUB!Post(w, x, y) = Post(w, x, y)
  BY DEF GRUB!Post, Post, GRUB!Throw, Throw, GRUB!IsPosted, IsPosted, GRUB!PostIn,
         PostIn, GRUB!Entry, Entry, GRUB!Priority, Priority, GRUB!Precedes, Precedes,
         GRUB!InsertAt, InsertAt, GRUB!Cardinality, Cardinality
<1>4. GRUB!SetStatus(w, s, x) = SetStatus(w, s, x)
  BY DEF GRUB!SetStatus, SetStatus
<1>5. GRUB!VTime(w, s) = VTime(w, s)
  BY DEF GRUB!VTime, VTime, GRUB!GetValue, GetValue
<1>6. GRUB!SetVTime(w, s) = SetVTime(w, s)
  BY DEF GRUB!SetVTime, SetVTime, GRUB!Throw, Throw, GRUB!SetValue, SetValue
<1>7. GRUB!StartVTime(w, s, x) = StartVTime(w, s, x)
  BY DEF GRUB!StartVTime, StartVTime, GRUB!Throw, Throw, GRUB!Started, Started
<1>8. GRUB!StopVTime(w, s) = StopVTime(w, s)
  BY DEF GRUB!StopVTime, StopVTime, GRUB!Throw, Throw, GRUB!Stopped, Stopped,
         GRUB!GetValue, GetValue
<1>9. /\ GRUB!BandEx(s) = BandEx(s) /\ GRUB!Idle(s) = Idle(s)
      /\ GRUB!Recharge(s) = Recharge(s)
  BY DEF GRUB!BandEx, BandEx, GRUB!Idle, Idle, GRUB!Recharge, Recharge
<1> QED
  BY <1>1, <1>2, <1>3, <1>4, <1>5, <1>6, <1>7, <1>8, <1>9

LEMMA ConstantBandwidthShares ==
    ASSUME NEW w, NEW s, NEW x, NEW y
    PROVE  /\ CBS!Throw(w, x) = Throw(w, x)
           /\ CBS!Drop(w, x) = Drop(w, x)
           /\ CBS!Post(w, x, y) = Post(w, x, y)
           /\ CBS!SetStatus(w, s, x) = SetStatus(w, s, x)
           /\ CBS!SetExe(w, s, x) = SetExe(w, s, x)
           /\ CBS!VTime(w, s) = VTime(w, s)
           /\ CBS!SetVTime(w, s) = SetVTime(w, s)
           /\ CBS!StartVTime(w, s, x) = StartVTime(w, s, x)
           /\ CBS!StopVTime(w, s) = StopVTime(w, s)
           /\ CBS!KernelOnArrival(w, s) = KernelOnArrival(w, s)
           /\ CBS!BandEx(s) = BandEx(s) /\ CBS!Repl(s) = Repl(s)
           /\ CBS!CBSIdle(s) = CBSIdle(s)
<1>1. CBS!Throw(w, x) = Throw(w, x)
  BY DEF CBS!Throw, Throw
<1>2. CBS!Drop(w, x) = Drop(w, x)
  BY DEF CBS!Drop, Drop, CBS!DropFrom, DropFrom, CBS!IsPosted, IsPosted,
         CBS!RemoveAt, RemoveAt
<1>3. CBS!Post(w, x, y) = Post(w, x, y)
  BY DEF CBS!Post, Post, CBS!Throw, Throw, CBS!IsPosted, IsPosted, CBS!PostIn,
         PostIn, CBS!Entry, Entry, CBS!Priority, Priority, CBS!Precedes, Precedes,
         CBS!InsertAt, InsertAt, CBS!Cardinality, Cardinality
<1>4. CBS!SetStatus(w, s, x) = SetStatus(w, s, x)
  BY DEF CBS!SetStatus, SetStatus
<1>5. CBS!VTime(w, s) = VTime(w, s)
  BY DEF CBS!VTime, VTime, CBS!GetValue, GetValue
<1>6. CBS!SetVTime(w, s) = SetVTime(w, s)
  BY DEF CBS!SetVTime, SetVTime, CBS!Throw, Throw, CBS!SetValue, SetValue
<1>7. CBS!StartVTime(w, s, x) = StartVTime(w, s, x)
  BY DEF CBS!StartVTime, StartVTime, CBS!Throw, Throw, CBS!Started, Started
<1>8. CBS!StopVTime(w, s) = StopVTime(w, s)
  BY DEF CBS!StopVTime, StopVTime, CBS!Throw, Throw, CBS!Stopped, Stopped,
         CBS!GetValue, GetValue
<1>9. /\ CBS!BandEx(s) = BandEx(s) /\ CBS!Repl(s) = Repl(s)
      /\ CBS!CBSIdle(s) = CBSIdle(s)
  BY DEF CBS!BandEx, BandEx, CBS!Repl, Repl, CBS!CBSIdle, CBSIdle
<1>10. CBS!SetExe(w, s, x) = SetExe(w, s, x)
  BY DEF CBS!SetExe, SetExe
<1>11. CBS!KernelOnArrival(w, s) = KernelOnArrival(w, s)
  <2>1. \A v, e : CBS!Drop(v, e) = Drop(v, e)
    BY DEF CBS!Drop, Drop, CBS!DropFrom, DropFrom, CBS!IsPosted, IsPosted,
           CBS!RemoveAt, RemoveAt
  <2>2. \A v, e, at : CBS!Post(v, e, at) = Post(v, e, at)
    BY DEF CBS!Post, Post, CBS!Throw, Throw, CBS!IsPosted, IsPosted, CBS!PostIn,
           PostIn, CBS!Entry, Entry, CBS!Priority, Priority, CBS!Precedes, Precedes,
           CBS!InsertAt, InsertAt, CBS!Cardinality, Cardinality
  <2>3. CBS!Begin = Begin
    BY DEF CBS!Begin, Begin
  <2>4. \A v : CBS!KernelDispatch(v) = KernelDispatch(v)
    BY <2>1, <2>2, <2>3 DEF CBS!KernelDispatch, KernelDispatch
  <2>5. CBS!Insert(w, Kernel, s) = Insert(w, Kernel, s)
    BY DEF CBS!Insert, Insert
  <2> QED
    BY <2>4, <2>5 DEF CBS!KernelOnArrival, KernelOnArrival
<1> QED
  BY <1>1, <1>2, <1>3, <1>4, <1>5, <1>6, <1>7, <1>8, <1>9, <1>10, <1>11

LEMMA SporadicShares ==
    ASSUME NEW w, NEW s, NEW x, NEW y
    PROVE  /\ SS!Throw(w, x) = Throw(w, x)
           /\ SS!Drop(w, x) = Drop(w, x)
           /\ SS!Post(w, x, y) = Post(w, x, y)
           /\ SS!SetStatus(w, s, x) = SetStatus(w, s, x)
           /\ SS!SetExe(w, s, x) = SetExe(w, s, x)
           /\ SS!VTime(w, s) = VTime(w, s)
           /\ SS!SetVTime(w, s) = SetVTime(w, s)
           /\ SS!StartVTime(w, s, x) = StartVTime(w, s, x)
           /\ SS!StopVTime(w, s) = StopVTime(w, s)
           /\ SS!KernelOnArrival(w, s) = KernelOnArrival(w, s)
           /\ SS!BandEx(s) = BandEx(s) /\ SS!Repl(s) = Repl(s)
           /\ SS!Idle(s) = Idle(s)
<1>1. SS!Throw(w, x) = Throw(w, x)
  BY DEF SS!Throw, Throw
<1>2. SS!Drop(w, x) = Drop(w, x)
  BY DEF SS!Drop, Drop, SS!DropFrom, DropFrom, SS!IsPosted, IsPosted,
         SS!RemoveAt, RemoveAt
<1>3. SS!Post(w, x, y) = Post(w, x, y)
  BY DEF SS!Post, Post, SS!Throw, Throw, SS!IsPosted, IsPosted, SS!PostIn,
         PostIn, SS!Entry, Entry, SS!Priority, Priority, SS!Precedes, Precedes,
         SS!InsertAt, InsertAt, SS!Cardinality, Cardinality
<1>4. SS!SetStatus(w, s, x) = SetStatus(w, s, x)
  BY DEF SS!SetStatus, SetStatus
<1>5. SS!VTime(w, s) = VTime(w, s)
  BY DEF SS!VTime, VTime, SS!GetValue, GetValue
<1>6. SS!SetVTime(w, s) = SetVTime(w, s)
  BY DEF SS!SetVTime, SetVTime, SS!Throw, Throw, SS!SetValue, SetValue
<1>7. SS!StartVTime(w, s, x) = StartVTime(w, s, x)
  BY DEF SS!StartVTime, StartVTime, SS!Throw, Throw, SS!Started, Started
<1>8. SS!StopVTime(w, s) = StopVTime(w, s)
  BY DEF SS!StopVTime, StopVTime, SS!Throw, Throw, SS!Stopped, Stopped,
         SS!GetValue, GetValue
<1>9. /\ SS!BandEx(s) = BandEx(s) /\ SS!Repl(s) = Repl(s)
      /\ SS!Idle(s) = Idle(s)
  BY DEF SS!BandEx, BandEx, SS!Repl, Repl, SS!Idle, Idle
<1>10. SS!SetExe(w, s, x) = SetExe(w, s, x)
  BY DEF SS!SetExe, SetExe
<1>11. SS!KernelOnArrival(w, s) = KernelOnArrival(w, s)
  <2>1. \A v, e : SS!Drop(v, e) = Drop(v, e)
    BY DEF SS!Drop, Drop, SS!DropFrom, DropFrom, SS!IsPosted, IsPosted,
           SS!RemoveAt, RemoveAt
  <2>2. \A v, e, at : SS!Post(v, e, at) = Post(v, e, at)
    BY DEF SS!Post, Post, SS!Throw, Throw, SS!IsPosted, IsPosted, SS!PostIn,
           PostIn, SS!Entry, Entry, SS!Priority, Priority, SS!Precedes, Precedes,
           SS!InsertAt, InsertAt, SS!Cardinality, Cardinality
  <2>3. SS!Begin = Begin
    BY DEF SS!Begin, Begin
  <2>4. \A v : SS!KernelDispatch(v) = KernelDispatch(v)
    BY <2>1, <2>2, <2>3 DEF SS!KernelDispatch, KernelDispatch
  <2>5. SS!Insert(w, Kernel, s) = Insert(w, Kernel, s)
    BY DEF SS!Insert, Insert
  <2> QED
    BY <2>4, <2>5 DEF SS!KernelOnArrival, KernelOnArrival
<1> QED
  BY <1>1, <1>2, <1>3, <1>4, <1>5, <1>6, <1>7, <1>8, <1>9, <1>10, <1>11

LEMMA PollingShares ==
    ASSUME NEW w, NEW s, NEW x, NEW y
    PROVE  /\ PS!Throw(w, x) = Throw(w, x)
           /\ PS!Drop(w, x) = Drop(w, x)
           /\ PS!Post(w, x, y) = Post(w, x, y)
           /\ PS!SetStatus(w, s, x) = SetStatus(w, s, x)
           /\ PS!BandEx(s) = BandEx(s) /\ PS!Recharge(s) = Recharge(s)
           /\ PS!DlineMiss(s) = DlineMiss(s)
<1>1. PS!Throw(w, x) = Throw(w, x)
  BY DEF PS!Throw, Throw
<1>2. PS!Drop(w, x) = Drop(w, x)
  BY DEF PS!Drop, Drop, PS!DropFrom, DropFrom, PS!IsPosted, IsPosted,
         PS!RemoveAt, RemoveAt
<1>3. PS!Post(w, x, y) = Post(w, x, y)
  BY DEF PS!Post, Post, PS!Throw, Throw, PS!IsPosted, IsPosted, PS!PostIn,
         PostIn, PS!Entry, Entry, PS!Priority, Priority, PS!Precedes, Precedes,
         PS!InsertAt, InsertAt, PS!Cardinality, Cardinality
<1>4. PS!SetStatus(w, s, x) = SetStatus(w, s, x)
  BY DEF PS!SetStatus, SetStatus
<1>9. /\ PS!BandEx(s) = BandEx(s) /\ PS!Recharge(s) = Recharge(s)
      /\ PS!DlineMiss(s) = DlineMiss(s)
  BY DEF PS!BandEx, BandEx, PS!Recharge, Recharge, PS!DlineMiss, DlineMiss
<1> QED
  BY <1>1, <1>2, <1>3, <1>4, <1>9

-----------------------------------------------------------------------------
(* GRUB.                                                                     *)

LEMMA UpdateIsStill ==
    ASSUME NEW w, Sound(w), NEW s
    PROVE  Still(w, GRUB!UpdateBudget(w, s))
<1> DEFINE v == StopVTime(w, s)
           c == GRUB!Stopped(v.sv[s].capacity, w.now)
           z == [v EXCEPT !.sv[s].capacity = c]
<1>1. Still(w, v) /\ Sound(v)
  BY VTimeIsStill, StillIsLocal
<1>2. Still(v, z) /\ Sound(z)
  <2> HIDE DEF v, c
  <2> QED
    BY <1>1, TimerIsStill, StillIsLocal
<1>3. Still(z, Drop(z, BandEx(s)))
  <2> HIDE DEF z
  <2> QED
    BY <1>2, DropIsStill
<1>4. Still(w, Drop(z, BandEx(s)))
  <2> HIDE DEF v, z
  <2> QED
    BY <1>1, <1>2, <1>3, StillChain
<1>5. Still(w, w)
  BY DEF Still
<1>6. /\ GRUB!StopVTime(w, s) = v
      /\ GRUB!Drop(z, GRUB!BandEx(s)) = Drop(z, BandEx(s))
  <2> HIDE DEF z
  <2> QED
    BY GrubShares
<1> HIDE DEF v
<1> QED
  BY <1>4, <1>5, <1>6 DEF GRUB!UpdateBudget

LEMMA StartIsStill ==
    ASSUME NEW w, Sound(w), NEW s
    PROVE  Still(w, GRUB!StartAccounting(w, s))
<1> DEFINE a    == w.sup.active
           c    == GRUB!Started(w.sv[s].capacity, -a, w.now)
           v    == [w EXCEPT !.sv[s].capacity = c]
           rate == (a * VUnit) \div GRUB!Util(s)
           z    == StartVTime(v, s, rate)
           left == GRUB!InterceptOfZero(c, w.now)
<1>1. Still(w, v) /\ Sound(v)
  <2> HIDE DEF c
  <2> QED
    BY TimerIsStill, StillIsLocal
<1>2. Still(v, z) /\ Sound(z)
  <2> HIDE DEF v, rate
  <2> QED
    BY <1>1, VTimeIsStill, StillIsLocal
<1>3. /\ Still(w, Throw(z, "CapacityIsNegative"))
      /\ Still(w, Post(z, BandEx(s), w.now + left))
  <2> HIDE DEF v, z, left
  <2>1. /\ Still(z, Throw(z, "CapacityIsNegative"))
        /\ Still(z, Post(z, BandEx(s), w.now + left))
    BY <1>2, ThrowIsStill, PostIsStill, TheyFit
  <2> QED
    BY <1>1, <1>2, <2>1, StillChain
<1>4. Still(w, w)
  BY DEF Still
<1>5. /\ GRUB!StartVTime(v, s, rate) = z
      /\ GRUB!Throw(z, "CapacityIsNegative") = Throw(z, "CapacityIsNegative")
      /\ GRUB!Post(z, GRUB!BandEx(s), w.now + left) = Post(z, BandEx(s), w.now + left)
  <2> HIDE DEF v, rate, left
  <2>1. GRUB!StartVTime(v, s, rate) = z
    BY GrubShares
  <2> HIDE DEF z
  <2> QED
    BY <2>1, GrubShares
<1> HIDE DEF z
<1> QED
  BY <1>3, <1>4, <1>5 DEF GRUB!StartAccounting

(* The two calls that a change of the bandwidth in use makes for each of    *)
(* the servers, closing its accounts or opening them, ...                   *)
Account(b, z, x) == IF b THEN GRUB!UpdateBudget(z, x) ELSE GRUB!StartAccounting(z, x)

(* ... and the worlds that they lead through. *)
Calls(g, b, w, n) ==
    g = [i \in 0..n |->
            IF i = 0 THEN w
            ELSE IF EntitySeq[i] \in Servers /\ w.sv[EntitySeq[i]].kind = "grub"
                 THEN Account(b, g[i - 1], EntitySeq[i]) ELSE g[i - 1]]

LEMMA CallsExist ==
    ASSUME NEW b, NEW w, NEW n \in Nat
    PROVE  \E g : Calls(g, b, w, n)
<1> DEFINE Bad == {m \in Nat : ~\E g : Calls(g, b, w, m)}
<1>1. Bad = {}
  <2> SUFFICES ASSUME Bad # {} PROVE FALSE
    OBVIOUS
  <2>1. PICK k \in Bad : \A m \in Bad : k <= m
    <3>1. Bad \in SUBSET Nat
      OBVIOUS
    <3> HIDE DEF Bad
    <3> QED
      BY <3>1, LeastNumber
  <2>2. k \in Nat
    BY <2>1
  <2>3. CASE k = 0
    <3> DEFINE g == [i \in 0..0 |-> w]
    <3>1. Calls(g, b, w, 0)
      BY DEF Calls
    <3> QED
      BY <2>1, <2>3, <3>1
  <2>4. CASE k # 0
    <3>1. k - 1 \in Nat /\ k - 1 \notin Bad
      <4> HIDE DEF Bad
      <4>1. k - 1 \in Nat /\ ~(k <= k - 1)
        BY <2>2, <2>4
      <4> QED
        BY <2>1, <4>1
    <3>2. PICK g : Calls(g, b, w, k - 1)
      BY <3>1
    <3> DEFINE Goes(i) ==
                   IF i = 0 THEN w
                   ELSE IF EntitySeq[i] \in Servers /\ w.sv[EntitySeq[i]].kind = "grub"
                        THEN Account(b, g[i - 1], EntitySeq[i]) ELSE g[i - 1]
               h == [i \in 0..k |-> IF i \in 0..(k - 1) THEN g[i] ELSE Goes(i)]
    <3>3. \A i \in 0..(k - 1) : g[i] = Goes(i)
      BY <3>2 DEF Calls
    <3>4. \A i \in 0..k : h[i] = Goes(i)
      BY <3>3
    <3>5. \A i \in 0..k : i # 0 => h[i - 1] = g[i - 1]
      BY <2>2
    <3>6. \A i \in 0..k :
             h[i] = IF i = 0 THEN w
                    ELSE IF EntitySeq[i] \in Servers /\ w.sv[EntitySeq[i]].kind = "grub"
                         THEN Account(b, h[i - 1], EntitySeq[i]) ELSE h[i - 1]
      <4>1. h[0] = w
        BY <2>2, <3>4
      <4> HIDE DEF h
      <4> QED
        BY <3>4, <3>5, <4>1
    <3>7. h = [i \in 0..k |-> h[i]]
      OBVIOUS
    <3>8. Calls(h, b, w, k)
      <4> HIDE DEF h
      <4> QED
        BY <3>6, <3>7 DEF Calls
    <3> HIDE DEF h
    <3> QED
      BY <2>1, <3>8
  <2> QED
    BY <2>3, <2>4
<1> QED
  BY <1>1

LEMMA CallsAreStill ==
    ASSUME NEW b, NEW w, Sound(w), NEW n \in Nat, NEW g, Calls(g, b, w, n)
    PROVE  Still(w, g[n])
<1> DEFINE Bad == {m \in 0..n : ~Still(w, g[m])}
<1>1. Bad = {}
  <2> SUFFICES ASSUME Bad # {} PROVE FALSE
    OBVIOUS
  <2>1. PICK k \in Bad : \A m \in Bad : k <= m
    <3>1. Bad \in SUBSET Nat
      OBVIOUS
    <3> HIDE DEF Bad
    <3> QED
      BY <3>1, LeastNumber
  <2>2. k \in 0..n /\ ~Still(w, g[k])
    BY <2>1
  <2>3. k # 0
    <3>1. g[0] = w
      BY DEF Calls
    <3> QED
      BY <2>2, <3>1 DEF Still
  <2>4. k - 1 \in 0..n /\ k - 1 \notin Bad
    <3> HIDE DEF Bad
    <3>1. k - 1 \in 0..n /\ ~(k <= k - 1)
      BY <2>2, <2>3
    <3> QED
      BY <2>1, <3>1
  <2>5. Still(w, g[k - 1]) /\ Sound(g[k - 1])
    BY <2>4 DEF Still
  <2> DEFINE z == g[k - 1]
  <2>6. g[k] \in {z, Account(b, z, EntitySeq[k])}
    BY <2>2, <2>3 DEF Calls
  <2> HIDE DEF z
  <2>7. Still(w, Account(b, z, EntitySeq[k]))
    <3>1. Still(z, Account(b, z, EntitySeq[k]))
      BY <2>5, UpdateIsStill, StartIsStill DEF Account, z
    <3> QED
      BY <2>5, <3>1, StillChain DEF z
  <2> QED
    BY <2>2, <2>5, <2>6, <2>7 DEF z
<1> QED
  BY <1>1

LEMMA CallsOfAllServers ==
    ASSUME NEW w, Sound(w)
    PROVE  /\ Still(w, GRUB!OfAllServers(GRUB!UpdateBudget, w))
           /\ Still(w, GRUB!OfAllServers(GRUB!StartAccounting, w))
<1> DEFINE n == Len(EntitySeq)
           done(b) == CHOOSE g : Calls(g, b, w, n)
<1>1. n \in Nat
  BY ServerAssumption
<1> HIDE DEF n
<1>2. \A b : Calls(done(b), b, w, n)
  BY <1>1, CallsExist
<1> HIDE DEF done
<1>3. \A b : Still(w, done(b)[n])
  BY <1>1, <1>2, CallsAreStill
<1>4. GRUB!OfAllServers(GRUB!UpdateBudget, w) = done(TRUE)[n]
  BY DEF GRUB!OfAllServers, done, Calls, Account, n
<1>5. GRUB!OfAllServers(GRUB!StartAccounting, w) = done(FALSE)[n]
  BY DEF GRUB!OfAllServers, done, Calls, Account, n
<1> QED
  BY <1>3, <1>4, <1>5

(* From w to v the bandwidth in use changes by d, x gets the status st and  *)
(* the others keep theirs.                                                  *)
Moved(w, v, x, st, d) ==
    /\ Sound(v)
    /\ v.sup.active = w.sup.active + d
    /\ \A s \in Servers : v.sv[s].kind = w.sv[s].kind
    /\ \A s \in Servers \ {x} : v.sv[s].status = w.sv[s].status
    /\ v.sv[x].status = st

LEMMA MovedChain ==
    ASSUME NEW w, NEW v, NEW z, NEW x, NEW st, NEW d, NEW e \in Servers
    PROVE  /\ Local(w, v, x) /\ Moved(v, z, x, st, d) => Moved(w, z, x, st, d)
           /\ Moved(w, v, e, st, d) /\ Still(v, z) => Moved(w, z, e, st, d)
BY DEF Still, Local, Moved

LEMMA SumIsMoved ==
    ASSUME NEW w, Sound(w), NEW d, NEW x \in Servers
    PROVE  Moved(w, [w EXCEPT !.sup.active = w.sup.active + d], x, w.sv[x].status, d)
<1> DEFINE a == w.sup.active + d
           v == [w EXCEPT !.sup.active = a]
<1>1. /\ On(v, WorldFields) /\ v.sv = w.sv /\ v.q = w.q
      /\ On(v.sup, {"active", "residual"}) /\ v.sup.active = a
  <2> HIDE DEF a
  <2> QED
    BY DEF Sound, On, WorldFields
<1>2. \A e : Fits(w, e) => Fits(v, e)
  BY <1>1 DEF Fits
<1> HIDE DEF v
<1>3. \A e : IsPosted(v.q, e) => Fits(v, e)
  BY <1>1, <1>2 DEF Sound
<1>4. Sound(v)
  BY <1>1, <1>3 DEF Sound
<1> QED
  BY <1>1, <1>4 DEF Moved, v

LEMMA ActiveIsMoved ==
    ASSUME NEW w, Sound(w), NEW d, NEW x \in Servers
    PROVE  Moved(w, GRUB!ChangeActive(w, d), x, w.sv[x].status, d)
<1> DEFINE v == GRUB!OfAllServers(GRUB!UpdateBudget, w)
           z == [v EXCEPT !.sup.active = v.sup.active + d]
           u == GRUB!OfAllServers(GRUB!StartAccounting, z)
<1>1. Still(w, v) /\ Sound(v) /\ v.sv[x].status = w.sv[x].status
  BY CallsOfAllServers DEF Still
<1>2. Moved(v, z, x, w.sv[x].status, d) /\ Sound(z)
  <2> HIDE DEF v
  <2>1. Moved(v, z, x, v.sv[x].status, d)
    BY <1>1, SumIsMoved
  <2> HIDE DEF z
  <2> QED
    BY <1>1, <2>1 DEF Moved
<1>3. Still(z, u)
  <2> HIDE DEF z
  <2> QED
    BY <1>2, CallsOfAllServers
<1>4. Moved(w, u, x, w.sv[x].status, d)
  <2> HIDE DEF v, z, u
  <2> QED
    BY <1>1, <1>2, <1>3, MovedChain, StillIsLocal
<1> HIDE DEF v
<1> QED
  BY <1>4 DEF GRUB!ChangeActive, v

LEMMA GrubIdleReady ==
    ASSUME NEW w, Sound(w), NEW s \in Servers, w.sv[s].status = "IDLE"
    PROVE  Moved(w, GRUB!IdleReady(w, s), s, "READY", GRUB!Util(s))
<1> DEFINE r == [w.sv[s] EXCEPT !.status = "READY", !.dl = w.now + P[s],
                    !.capacity = GRUB!SetValue(w.sv[s].capacity, w.sv[s].q * UUnit)]
           v == [w EXCEPT !.sv[s] = r]
           z == SetVTime(v, s)
           u == GRUB!ChangeActive(z, GRUB!Util(s))
<1>1. On(r, ServerFields) /\ r.status = "READY" /\ r.kind = w.sv[s].kind
  BY DEF Sound, On, ServerFields
<1>2. Turned(w, v, s, "READY") /\ Sound(v)
  <2> HIDE DEF r
  <2> QED
    BY <1>1, ServerReplaced DEF WithServer, Turned, Local
<1>3. Turned(w, z, s, "READY") /\ Sound(z)
  <2> HIDE DEF v
  <2>1. Still(v, z)
    BY <1>2, VTimeIsStill
  <2> QED
    BY <1>2, <2>1 DEF Turned, Local, Still
<1>4. Moved(w, u, s, "READY", GRUB!Util(s))
  <2> HIDE DEF z
  <2>1. Moved(z, u, s, z.sv[s].status, GRUB!Util(s))
    BY <1>3, ActiveIsMoved
  <2> QED
    BY <1>3, <2>1, MovedChain DEF Turned
<1>5. GRUB!SetVTime(v, s) = z
  <2> HIDE DEF v
  <2> QED
    BY GrubShares
<1> HIDE DEF z
<1> QED
  BY <1>4, <1>5 DEF GRUB!IdleReady

LEMMA GrubReleasingIdle ==
    ASSUME NEW w, Sound(w), NEW s \in Servers
    PROVE  Moved(w, GRUB!ReleasingIdle(w, s), s, "IDLE", -GRUB!Util(s))
<1> DEFINE late == w.now * VUnit - VTime(w, s)
           res == (GRUB!Util(s) * late) \div (UUnit * VUnit)
           r == [w EXCEPT !.sup.residual = res]
           v == IF late > 0 THEN r ELSE w
           z == SetStatus(v, s, "IDLE")
           u == GRUB!ChangeActive(z, -GRUB!Util(s))
<1>1. Still(w, v) /\ Sound(v)
  <2>1. Still(w, r)
    <3> HIDE DEF res
    <3>1. /\ On(r, WorldFields) /\ r.sv = w.sv /\ r.q = w.q
          /\ On(r.sup, {"active", "residual"}) /\ r.sup.active = w.sup.active
      BY DEF Sound, On, WorldFields
    <3>2. \A e : Fits(w, e) => Fits(r, e)
      BY <3>1 DEF Fits
    <3> HIDE DEF r
    <3>3. \A e : IsPosted(r.q, e) => Fits(r, e)
      BY <3>1, <3>2 DEF Sound
    <3>4. Sound(r)
      BY <3>1, <3>3 DEF Sound
    <3> QED
      BY <3>1, <3>4 DEF Still
  <2>2. Still(w, w)
    BY DEF Still
  <2> HIDE DEF r
  <2> QED
    BY <2>1, <2>2 DEF Still
<1>2. Turned(w, z, s, "IDLE") /\ Sound(z)
  <2> HIDE DEF v
  <2> QED
    BY <1>1, StatusIsSet, StillChain
<1>3. Moved(w, u, s, "IDLE", -GRUB!Util(s))
  <2> HIDE DEF z
  <2>1. Moved(z, u, s, z.sv[s].status, -GRUB!Util(s))
    BY <1>2, ActiveIsMoved
  <2> QED
    BY <1>2, <2>1, MovedChain DEF Turned
<1>4. GRUB!SetStatus(v, s, "IDLE") = z /\ GRUB!VTime(w, s) = VTime(w, s)
  <2> HIDE DEF v
  <2> QED
    BY GrubShares
<1> HIDE DEF z
<1> QED
  BY <1>3, <1>4 DEF GRUB!ReleasingIdle

LEMMA GrubTurns ==
    ASSUME NEW w, Sound(w), NEW s \in Servers, w.sv[s].kind = "grub"
    PROVE  /\ Turned(w, GRUB!ReleasingReady(w, s), s, "READY")
           /\ Turned(w, GRUB!ReadyExecuting(w, s), s, "EXECUTING")
           /\ Turned(w, GRUB!ExecutingReady(w, s), s, "READY")
           /\ Turned(w, GRUB!ExecutingReleasing(w, s), s, "RELEASING")
           /\ Turned(w, GRUB!ExecutingRecharging(w, s), s, "RECHARGING")
           /\ Turned(w, GRUB!RechargingReady(w, s), s, "READY")
<1>1. Turned(w, GRUB!ReleasingReady(w, s), s, "READY")
  <2> DEFINE v == SetStatus(w, s, "READY")
  <2>1. Turned(w, v, s, "READY") /\ Sound(v)
    BY StatusIsSet
  <2> HIDE DEF v
  <2>2. Still(v, Drop(v, Idle(s)))
    BY <2>1, DropIsStill
  <2>3. Turned(w, Drop(v, Idle(s)), s, "READY")
    BY <2>1, <2>2, LocalChain DEF Turned
  <2> QED
    BY <2>3, GrubShares DEF GRUB!ReleasingReady, v
<1>2. Turned(w, GRUB!ReadyExecuting(w, s), s, "EXECUTING")
  <2> DEFINE c == w.sv[s].capacity
             r == [w.sv[s] EXCEPT !.status = "EXECUTING",
                      !.capacity = GRUB!SetValue(c, c.value + w.sup.residual * UUnit)]
             v == [w EXCEPT !.sv[s] = r]
             z == [v EXCEPT !.sup.residual = 0]
  <2>1. On(r, ServerFields) /\ r.status = "EXECUTING" /\ r.kind = w.sv[s].kind
    BY DEF Sound, On, ServerFields
  <2>2. Turned(w, v, s, "EXECUTING") /\ Sound(v)
    <3> HIDE DEF r
    <3> QED
      BY <2>1, ServerReplaced DEF WithServer, Turned, Local
  <2>3. Still(v, z) /\ Sound(z)
    <3> HIDE DEF v
    <3>1. /\ On(z, WorldFields) /\ z.sv = v.sv /\ z.q = v.q
          /\ On(z.sup, {"active", "residual"}) /\ z.sup.active = v.sup.active
      BY <2>2 DEF Sound, On, WorldFields
    <3>2. \A e : Fits(v, e) => Fits(z, e)
      BY <3>1 DEF Fits
    <3> HIDE DEF z
    <3>3. \A e : IsPosted(z.q, e) => Fits(z, e)
      BY <2>2, <3>1, <3>2 DEF Sound
    <3>4. Sound(z)
      BY <2>2, <3>1, <3>3 DEF Sound
    <3> QED
      BY <3>1, <3>4 DEF Still
  <2>4. Turned(w, z, s, "EXECUTING")
    <3> HIDE DEF v, z
    <3> QED
      BY <2>2, <2>3, LocalChain DEF Turned
  <2>5. Turned(w, GRUB!StartAccounting(z, s), s, "EXECUTING")
    <3> HIDE DEF v, z
    <3>1. Still(z, GRUB!StartAccounting(z, s))
      BY <2>3, StartIsStill
    <3> QED
      BY <2>4, <3>1, LocalChain DEF Turned
  <2>6. GRUB!ReadyExecuting(w, s) = GRUB!StartAccounting(z, s)
    BY DEF GRUB!ReadyExecuting, Sound, On, WorldFields
  <2> QED
    BY <2>5, <2>6
<1>3. Still(w, GRUB!UpdateBudget(w, s)) /\ Sound(GRUB!UpdateBudget(w, s))
  BY UpdateIsStill, StillIsLocal
<1>4. Turned(w, GRUB!ExecutingReady(w, s), s, "READY")
  <2> DEFINE v == GRUB!UpdateBudget(w, s)
  <2>1. Turned(v, SetStatus(v, s, "READY"), s, "READY")
    BY <1>3, StatusIsSet
  <2>2. Turned(w, SetStatus(v, s, "READY"), s, "READY")
    <3> HIDE DEF v
    <3> QED
      BY <1>3, <2>1, StillChain DEF v
  <2> QED
    BY <2>2, GrubShares DEF GRUB!ExecutingReady
<1>5. Turned(w, GRUB!ExecutingReleasing(w, s), s, "RELEASING")
  <2> DEFINE v == GRUB!UpdateBudget(w, s)
             z == SetStatus(v, s, "RELEASING")
             at == GRUB!Trunc(GRUB!VTime(v, s))
             to == IF w.now < at THEN at ELSE w.now
             u == Post(z, Idle(s), to)
  <2>1. Turned(w, z, s, "RELEASING") /\ Sound(z)
    <3> HIDE DEF v
    <3> QED
      BY <1>3, StatusIsSet, StillChain, ZenonT(60) DEF v
  <2>2. Still(z, u)
    <3> HIDE DEF z, to
    <3>1. z.sv[s].kind = "grub"
      BY <2>1 DEF Turned, Local
    <3> QED
      BY <2>1, <3>1, PostIsStill, ServersFit
  <2>3. Turned(w, u, s, "RELEASING")
    <3> HIDE DEF z, u
    <3> QED
      BY <2>1, <2>2, LocalChain DEF Turned
  <2>4. GRUB!SetStatus(v, s, "RELEASING") = z /\ GRUB!Post(z, GRUB!Idle(s), to) = u
    <3> HIDE DEF v, to
    <3>1. GRUB!SetStatus(v, s, "RELEASING") = z
      BY GrubShares
    <3> HIDE DEF z
    <3> QED
      BY <3>1, GrubShares
  <2> HIDE DEF z, u
  <2> QED
    BY <2>3, <2>4 DEF GRUB!ExecutingReleasing
<1>6. Turned(w, GRUB!ExecutingRecharging(w, s), s, "RECHARGING")
  <2> DEFINE v == GRUB!UpdateBudget(w, s)
             z == SetStatus(v, s, "RECHARGING")
             to == IF w.sv[s].dl < w.now THEN w.now ELSE w.sv[s].dl
             u == Post(z, Recharge(s), to)
  <2>1. Turned(w, z, s, "RECHARGING") /\ Sound(z)
    <3> HIDE DEF v
    <3> QED
      BY <1>3, StatusIsSet, StillChain, ZenonT(60) DEF v
  <2>2. Still(z, u)
    <3> HIDE DEF z, to
    <3>1. z.sv[s].kind = "grub"
      BY <2>1 DEF Turned, Local
    <3> QED
      BY <2>1, <3>1, PostIsStill, ServersFit
  <2>3. Turned(w, u, s, "RECHARGING")
    <3> HIDE DEF z, u
    <3> QED
      BY <2>1, <2>2, LocalChain DEF Turned
  <2>4. GRUB!SetStatus(v, s, "RECHARGING") = z /\ GRUB!Post(z, GRUB!Recharge(s), to) = u
    <3> HIDE DEF v, to
    <3>1. GRUB!SetStatus(v, s, "RECHARGING") = z
      BY GrubShares
    <3> HIDE DEF z
    <3> QED
      BY <3>1, GrubShares
  <2> HIDE DEF z, u
  <2> QED
    BY <2>3, <2>4 DEF GRUB!ExecutingRecharging
<1>7. Turned(w, GRUB!RechargingReady(w, s), s, "READY")
  <2> DEFINE r == [w.sv[s] EXCEPT !.status = "READY", !.dl = w.now + P[s],
                      !.capacity = GRUB!SetValue(w.sv[s].capacity, w.sv[s].q * UUnit)]
             v == [w EXCEPT !.sv[s] = r]
             z == SetVTime(v, s)
  <2>1. On(r, ServerFields) /\ r.status = "READY" /\ r.kind = w.sv[s].kind
    BY ZenonT(60) DEF Sound, On, ServerFields
  <2>2. Turned(w, v, s, "READY") /\ Sound(v)
    <3> HIDE DEF r
    <3> QED
      BY <2>1, ServerReplaced DEF WithServer, Turned, Local
  <2>3. Turned(w, z, s, "READY")
    <3> HIDE DEF v
    <3>1. Still(v, z)
      BY <2>2, VTimeIsStill
    <3> QED
      BY <2>2, <3>1 DEF Turned, Local, Still
  <2>4. GRUB!SetVTime(v, s) = z
    <3> HIDE DEF v
    <3> QED
      BY GrubShares
  <2> HIDE DEF z
  <2> QED
    BY <2>3, <2>4 DEF GRUB!RechargingReady
<1> QED
  BY <1>1, <1>2, <1>4, <1>5, <1>6, <1>7

-----------------------------------------------------------------------------
(* The other classes: what they do is local to the server.                   *)

LEMMA EditIsLocal ==
    ASSUME NEW w, Sound(w), NEW s \in Servers, NEW r, On(r, ServerFields),
           r.kind = w.sv[s].kind
    PROVE  Local(w, [w EXCEPT !.sv[s] = r], s) /\ Sound([w EXCEPT !.sv[s] = r])
BY ServerReplaced DEF WithServer, Turned, Local

(* A local change goes on with another one. *)
LEMMA LocalAgain ==
    ASSUME NEW w, NEW s \in Servers, NEW v, Local(w, v, s), NEW e, NEW x, NEW r
    PROVE  /\ Sound(v) /\ v.sv[s].kind = w.sv[s].kind
           /\ Local(w, Throw(v, x), s) /\ Local(w, Drop(v, e), s)
           /\ Fits(v, e) => Local(w, Post(v, e, x), s)
           /\ Local(w, SetStatus(v, s, x), s)
           /\ Local(w, SetVTime(v, s), s) /\ Local(w, StartVTime(v, s, x), s)
           /\ Local(w, StopVTime(v, s), s)
           /\ Local(w, KernelOnArrival(v, x), s) /\ Local(w, SetExe(v, s, x), s)
           /\ On(r, ServerFields) /\ r.kind = v.sv[s].kind
                 => Local(w, [v EXCEPT !.sv[s] = r], s)
<1>1. Sound(v) /\ v.sv[s].kind = w.sv[s].kind
  BY DEF Local
<1>2. /\ Still(v, Throw(v, x)) /\ Still(v, Drop(v, e))
      /\ Fits(v, e) => Still(v, Post(v, e, x))
      /\ Still(v, SetVTime(v, s)) /\ Still(v, StartVTime(v, s, x))
      /\ Still(v, StopVTime(v, s))
      /\ Still(v, KernelOnArrival(v, x)) /\ Still(v, SetExe(v, s, x))
  BY <1>1, ThrowIsStill, DropIsStill, PostIsStill, VTimeIsStill, KernelIsStill,
     QueuesAreStill
<1>3. Local(v, SetStatus(v, s, x), s)
  BY <1>1, StatusIsSet DEF Turned
<1>4. On(r, ServerFields) /\ r.kind = v.sv[s].kind => Local(v, [v EXCEPT !.sv[s] = r], s)
  BY <1>1, EditIsLocal
<1>5. \A z : Still(v, z) \/ Local(v, z, s) => Local(w, z, s)
  BY LocalChain
<1> QED
  BY <1>1, <1>2, <1>3, <1>4, <1>5

LEMMA LocalAtFirst ==
    ASSUME NEW w, Sound(w), NEW s
    PROVE  Local(w, w, s)
BY DEF Local

(* The records of the servers' classes. *)
LEMMA RecordsAreEdited ==
    ASSUME NEW r, On(r, ServerFields), NEW a, NEW b, NEW c, NEW d
    PROVE  /\ On([r EXCEPT !.cap = a], ServerFields) /\ [r EXCEPT !.cap = a].kind = r.kind
           /\ On([r EXCEPT !.last = a], ServerFields) /\ [r EXCEPT !.last = a].kind = r.kind
           /\ On([r EXCEPT !.q = a], ServerFields) /\ [r EXCEPT !.q = a].kind = r.kind
           /\ On([r EXCEPT !.dl = a], ServerFields) /\ [r EXCEPT !.dl = a].kind = r.kind
           /\ On([r EXCEPT !.repl = a], ServerFields) /\ [r EXCEPT !.repl = a].kind = r.kind
           /\ On([r EXCEPT !.ready = a], ServerFields)
           /\ [r EXCEPT !.ready = a].kind = r.kind
           /\ On([r EXCEPT !.status = a], ServerFields)
           /\ [r EXCEPT !.status = a].kind = r.kind
BY DEF On, ServerFields

LEMMA ConstantBandwidthIsLocal ==
    ASSUME NEW w, Sound(w), NEW s \in Servers,
           w.sv[s].kind \in {"hardCBS", "softCBS", "reuseCBS"}
    PROVE  /\ Local(w, CBS!IdleReady(w, s), s)
           /\ Local(w, CBS!ReleasingReady(w, s), s)
           /\ Local(w, CBS!ReadyExecuting(w, s), s)
           /\ Local(w, CBS!ExecutingReady(w, s), s)
           /\ Local(w, CBS!ExecutingReleasing(w, s), s)
           /\ Local(w, CBS!ExecutingRecharging(w, s), s)
           /\ Local(w, CBS!OnReplenishment(w, s), s)
           /\ Local(w, CBS!OnIdle(w, s), s)
           /\ \A n : Local(w, CBS!ChangeBudget(w, s, n), s)
<1> DEFINE L(v) == Local(w, v, s)
<1>1. L(w)
  BY LocalAtFirst
<1>2. ASSUME NEW v, L(v), NEW x, NEW e
      PROVE  /\ L(CBS!Throw(v, x)) /\ L(CBS!Drop(v, e))
             /\ L(CBS!SetStatus(v, s, x)) /\ L(CBS!SetVTime(v, s))
             /\ L(CBS!StartVTime(v, s, x)) /\ L(CBS!StopVTime(v, s))
             /\ L(CBS!KernelOnArrival(v, s)) /\ L(CBS!SetExe(v, s, x))
  <2>1. /\ L(Throw(v, x)) /\ L(Drop(v, e)) /\ L(SetStatus(v, s, x)) /\ L(SetVTime(v, s))
        /\ L(StartVTime(v, s, x)) /\ L(StopVTime(v, s))
        /\ L(KernelOnArrival(v, s)) /\ L(SetExe(v, s, x))
    BY <1>2, LocalAgain
  <2> HIDE DEF L
  <2> QED
    BY <2>1, ConstantBandwidthShares
<1>3. ASSUME NEW v, L(v), NEW x
      PROVE  /\ L(CBS!Post(v, CBS!BandEx(s), x)) /\ L(CBS!Post(v, CBS!Repl(s), x))
             /\ L(CBS!Post(v, CBS!CBSIdle(s), x))
  <2>1. v.sv[s].kind \in {"hardCBS", "softCBS", "reuseCBS"}
    BY <1>3 DEF Local
  <2>2. Fits(v, BandEx(s)) /\ Fits(v, Repl(s)) /\ Fits(v, CBSIdle(s))
    BY <2>1, TheyFit, ServersFit
  <2>3. L(Post(v, BandEx(s), x)) /\ L(Post(v, Repl(s), x)) /\ L(Post(v, CBSIdle(s), x))
    BY <1>3, <2>2, LocalAgain
  <2> QED
    BY <2>3, ConstantBandwidthShares
<1>4. ASSUME NEW v, L(v), NEW r, On(r, ServerFields), r.kind = v.sv[s].kind
      PROVE  L([v EXCEPT !.sv[s] = r])
  BY <1>4, LocalAgain
<1>5. ASSUME NEW v, L(v) PROVE On(v.sv[s], ServerFields) /\ Sound(v)
  BY <1>5 DEF Local, Sound
<1> HIDE DEF L
<1>6. ASSUME NEW v, L(v), NEW x, NEW y
      PROVE  /\ L([v EXCEPT !.sv[s].cap = x]) /\ L([v EXCEPT !.sv[s].last = x])
             /\ L([v EXCEPT !.sv[s].q = x])
             /\ L([v EXCEPT !.sv[s].cap = x, !.sv[s].dl = y])
  <2> DEFINE r1 == [v.sv[s] EXCEPT !.cap = x]
             r2 == [v.sv[s] EXCEPT !.last = x]
             r3 == [v.sv[s] EXCEPT !.q = x]
             r4 == [v.sv[s] EXCEPT !.cap = x, !.dl = y]
  <2>1. /\ On(r1, ServerFields) /\ r1.kind = v.sv[s].kind
        /\ On(r2, ServerFields) /\ r2.kind = v.sv[s].kind
        /\ On(r3, ServerFields) /\ r3.kind = v.sv[s].kind
        /\ On(r4, ServerFields) /\ r4.kind = v.sv[s].kind
    BY <1>5, <1>6 DEF On, ServerFields
  <2>2. /\ L([v EXCEPT !.sv[s] = r1]) /\ L([v EXCEPT !.sv[s] = r2])
        /\ L([v EXCEPT !.sv[s] = r3]) /\ L([v EXCEPT !.sv[s] = r4])
    <3> HIDE DEF r1, r2, r3, r4
    <3> QED
      BY <1>4, <1>6, <2>1
  <2>3. [v EXCEPT !.sv[s].cap = x, !.sv[s].dl = y] = [v EXCEPT !.sv[s] = r4]
    <3>1. Sound(v)
      BY <1>5, <1>6
    <3> QED
      BY <3>1 DEF Sound, On, WorldFields
  <2> QED
    BY <2>2, <2>3
<1>7. L(CBS!IdleReady(w, s))
  <2> DEFINE c == CBS!Reusable(w, s)
             u == IF c = 0 THEN CBS!Refilled(w.sv[s], w.now + P[s])
                           ELSE [w.sv[s] EXCEPT !.cap = c]
             v == [w EXCEPT !.sv[s] = u]
  <2>1. On(u, ServerFields) /\ u.kind = w.sv[s].kind
    <3> HIDE DEF c
    <3> QED
      BY <1>1, <1>5 DEF On, ServerFields, CBS!Refilled
  <2>2. L(v)
    <3> HIDE DEF u
    <3> QED
      BY <1>1, <1>4, <2>1
  <2> HIDE DEF v
  <2>3. L(CBS!SetVTime(CBS!SetStatus(v, s, "READY"), s)) /\ L(CBS!Throw(w, "NotIdle"))
    BY <1>1, <1>2, <2>2
  <2> QED
    BY <2>3 DEF CBS!IdleReady, v
<1>8. L(CBS!ReleasingReady(w, s))
  BY <1>1, <1>2 DEF CBS!ReleasingReady
<1>9. L(CBS!ReadyExecuting(w, s))
  <2> DEFINE v == [w EXCEPT !.sv[s].last = w.now]
             z == CBS!SetStatus(v, s, "EXECUTING")
             y == CBS!StartVTime(z, s, CBS!VRate(w.sv[s], s))
  <2>1. L(v)
    BY <1>1, <1>6
  <2>2. L(y)
    <3> HIDE DEF v
    <3> QED
      BY <1>2, <2>1
  <2> HIDE DEF y
  <2>3. L(CBS!Post(y, CBS!BandEx(s), w.now + w.sv[s].cap))
    BY <1>3, <2>2
  <2> QED
    BY <2>3 DEF CBS!ReadyExecuting, y
<1>10. L(CBS!StopsExecuting(w, s))
  <2>1. L(CBS!Charged(w, s))
    BY <1>1, <1>6 DEF CBS!Charged
  <2> QED
    BY <1>2, <2>1 DEF CBS!StopsExecuting
<1>11. L(CBS!ExecutingReady(w, s))
  BY <1>2, <1>10 DEF CBS!ExecutingReady
<1>12. \A v, at : L(v) => L(CBS!ReleaseUntil(v, s, at))
  BY <1>2, <1>3 DEF CBS!ReleaseUntil
<1>13. L(CBS!ExecutingReleasing(w, s))
  BY <1>1, <1>10, <1>12 DEF CBS!ExecutingReleasing
<1>14. L(CBS!ExecutingRecharging(w, s))
  <2> DEFINE z  == CBS!StopVTime(CBS!Drop(w, CBS!BandEx(s)), s)
             v  == z.sv[s]
             p  == CBS!Post(z, CBS!Repl(s), v.dl)
             ph == [p EXCEPT !.sv[s].cap = 0, !.sv[s].dl = v.dl + P[s]]
             zs == [z EXCEPT !.sv[s] = CBS!Refilled(v, v.dl + P[s])]
  <2>1. L(z)
    BY <1>1, <1>2
  <2>2. L(ph)
    <3> HIDE DEF z
    <3>1. L(p)
      BY <1>3, <2>1
    <3> HIDE DEF p
    <3> QED
      BY <1>6, <3>1
  <2>3. L(zs)
    <3> HIDE DEF z
    <3>1. On(CBS!Refilled(v, v.dl + P[s]), ServerFields)
          /\ CBS!Refilled(v, v.dl + P[s]).kind = v.kind
      BY <1>5, <2>1 DEF On, ServerFields, CBS!Refilled
    <3> QED
      BY <1>4, <2>1, <3>1
  <2> HIDE DEF ph, zs
  <2>4. L(CBS!SetStatus(ph, s, "RECHARGING"))
    BY <1>2, <2>2
  <2>5. L(CBS!Post(CBS!SetStatus(zs, s, "READY"), CBS!Repl(s), w.now))
    BY <1>2, <1>3, <2>3
  <2> QED
    BY <2>4, <2>5 DEF CBS!ExecutingRecharging, ph, zs
<1>15. L(CBS!OnReplenishment(w, s))
  <2> DEFINE v == [w EXCEPT !.sv[s].cap = w.sv[s].q]
             z == CBS!ReleaseUntil(v, s, CBS!Ceil(CBS!VTime(v, s)))
  <2>1. L(v)
    BY <1>1, <1>6
  <2> HIDE DEF v
  <2>2. L(CBS!KernelOnArrival(CBS!RechargingReady(v, s), s))
    BY <1>2, <2>1 DEF CBS!RechargingReady
  <2>3. L(z)
    BY <1>12, <2>1
  <2> HIDE DEF z
  <2>4. L(CBS!SetExe(z, s, None))
    BY <1>2, <2>3
  <2> QED
    BY <1>1, <2>1, <2>2, <2>4 DEF CBS!OnReplenishment, v, z
<1>16. L(CBS!OnIdle(w, s))
  BY <1>1, <1>2 DEF CBS!OnIdle, CBS!ReleasingIdle
<1>17. ASSUME NEW n PROVE L(CBS!ChangeBudget(w, s, n))
  <2> DEFINE w1 == [w EXCEPT !.sv[s].q = n]
             w2 == CBS!StopVTime(CBS!Drop(CBS!Charged(w1, s), CBS!BandEx(s)), s)
             w2b == [w2 EXCEPT !.sv[s].last = w.now]
             w3 == CBS!Post(w2b, CBS!BandEx(s), w.now + w2.sv[s].cap)
             w4 == CBS!StartVTime(w3, s, CBS!VRate(w3.sv[s], s))
  <2>1. L(w1)
    BY <1>1, <1>6
  <2>2. L(w2)
    <3> HIDE DEF w1
    <3>1. L(CBS!Charged(w1, s))
      BY <1>6, <2>1 DEF CBS!Charged
    <3> QED
      BY <1>2, <3>1
  <2>3. L(w2b)
    <3> HIDE DEF w2
    <3> QED
      BY <1>6, <2>2
  <2>4. L(w4)
    <3> HIDE DEF w2, w2b
    <3> QED
      BY <1>2, <1>3, <2>3
  <2> HIDE DEF w1, w4
  <2> QED
    BY <1>1, <2>1, <2>4 DEF CBS!ChangeBudget, w1, w4
<1> QED
  BY <1>7, <1>8, <1>9, <1>11, <1>13, <1>14, <1>15, <1>16, <1>17 DEF L

LEMMA PollingIsLocal ==
    ASSUME NEW w, Sound(w), NEW s \in Servers, w.sv[s].kind = "polling"
    PROVE  /\ Local(w, PS!IdleReady(w, s), s)
           /\ Local(w, PS!ReleasingReady(w, s), s)
           /\ Local(w, PS!ReadyExecuting(w, s), s)
           /\ Local(w, PS!ExecutingReady(w, s), s)
           /\ Local(w, PS!ExecutingReleasing(w, s), s)
           /\ Local(w, PS!ExecutingRecharging(w, s), s)
           /\ Local(w, PS!RechargingReady(w, s), s)
           /\ Local(w, PS!RechargingIdle(w, s), s)
           /\ \A n : Local(w, PS!ChangeBudget(w, s, n), s)
<1> DEFINE L(v) == Local(w, v, s)
<1>1. L(w)
  BY LocalAtFirst
<1>2. ASSUME NEW v, L(v), NEW x, NEW e
      PROVE  /\ L(PS!Throw(v, x)) /\ L(PS!Drop(v, e)) /\ L(PS!SetStatus(v, s, x))
  <2>1. L(Throw(v, x)) /\ L(Drop(v, e)) /\ L(SetStatus(v, s, x))
    BY <1>2, LocalAgain
  <2> HIDE DEF L
  <2> QED
    BY <2>1, PollingShares
<1>3. ASSUME NEW v, L(v), NEW x
      PROVE  /\ L(PS!Post(v, PS!BandEx(s), x)) /\ L(PS!Post(v, PS!Recharge(s), x))
             /\ L(PS!Post(v, PS!DlineMiss(s), x))
  <2>1. v.sv[s].kind = "polling"
    BY <1>3 DEF Local
  <2>2. Fits(v, BandEx(s)) /\ Fits(v, Recharge(s)) /\ Fits(v, DlineMiss(s))
    BY <2>1, TheyFit, ServersFit
  <2>3. L(Post(v, BandEx(s), x)) /\ L(Post(v, Recharge(s), x)) /\ L(Post(v, DlineMiss(s), x))
    BY <1>3, <2>2, LocalAgain
  <2> QED
    BY <2>3, PollingShares
<1>4. ASSUME NEW v, L(v), NEW r, On(r, ServerFields), r.kind = v.sv[s].kind
      PROVE  L([v EXCEPT !.sv[s] = r])
  BY <1>4, LocalAgain
<1>5. ASSUME NEW v, L(v) PROVE On(v.sv[s], ServerFields) /\ Sound(v)
  BY <1>5 DEF Local, Sound
<1> HIDE DEF L
<1>6. ASSUME NEW v, L(v), NEW x, NEW y
      PROVE  /\ L([v EXCEPT !.sv[s].cap = x, !.sv[s].status = y])
             /\ L([v EXCEPT !.sv[s].status = y, !.sv[s].cap = x])
             /\ L([v EXCEPT !.sv[s].last = x]) /\ L([v EXCEPT !.sv[s].q = x])
  <2> DEFINE r1 == [v.sv[s] EXCEPT !.cap = x, !.status = y]
             r2 == [v.sv[s] EXCEPT !.last = x]
             r3 == [v.sv[s] EXCEPT !.q = x]
             r4 == [v.sv[s] EXCEPT !.status = y, !.cap = x]
  <2>1. /\ On(r1, ServerFields) /\ r1.kind = v.sv[s].kind
        /\ On(r2, ServerFields) /\ r2.kind = v.sv[s].kind
        /\ On(r3, ServerFields) /\ r3.kind = v.sv[s].kind
        /\ On(r4, ServerFields) /\ r4.kind = v.sv[s].kind
    BY <1>5, <1>6 DEF On, ServerFields
  <2>2. /\ L([v EXCEPT !.sv[s] = r1]) /\ L([v EXCEPT !.sv[s] = r2])
        /\ L([v EXCEPT !.sv[s] = r3]) /\ L([v EXCEPT !.sv[s] = r4])
    <3> HIDE DEF r1, r2, r3, r4
    <3> QED
      BY <1>4, <1>6, <2>1
  <2>3. Sound(v)
    BY <1>5, <1>6
  <2>4. [v EXCEPT !.sv[s].cap = x, !.sv[s].status = y] = [v EXCEPT !.sv[s] = r1]
    BY <2>3 DEF Sound, On, WorldFields
  <2>5. [v EXCEPT !.sv[s].status = y, !.sv[s].cap = x] = [v EXCEPT !.sv[s] = r4]
    BY <2>3 DEF Sound, On, WorldFields
  <2> QED
    BY <2>2, <2>4, <2>5
<1>7. ASSUME NEW v, L(v) PROVE L(PS!Recharged(v, s))
  <2> DEFINE u == [v EXCEPT !.sv[s].cap = v.sv[s].q, !.sv[s].status = "READY"]
  <2>1. L(u)
    BY <1>6, <1>7
  <2> HIDE DEF u
  <2>2. \A x, y : L(PS!Post(PS!Post(u, PS!Recharge(s), x), PS!DlineMiss(s), y))
    BY <1>3, <2>1
  <2> QED
    BY <2>2 DEF PS!Recharged, u
<1>8. L(PS!IdleReady(w, s))
  BY <1>1, <1>2, <1>7 DEF PS!IdleReady
<1>9. L(PS!ReleasingReady(w, s))
  BY <1>1, <1>2 DEF PS!ReleasingReady
<1>10. L(PS!ReadyExecuting(w, s))
  <2> DEFINE u == [w EXCEPT !.sv[s].last = w.now]
  <2>1. L(u)
    BY <1>1, <1>6
  <2> HIDE DEF u
  <2>2. \A x : L(PS!Post(PS!SetStatus(u, s, "EXECUTING"), PS!BandEx(s), x))
    BY <1>2, <1>3, <2>1
  <2> QED
    BY <2>2 DEF PS!ReadyExecuting, u
<1>11. L(PS!ExecutingReady(w, s))
  <2> DEFINE u == [w EXCEPT !.sv[s].status = "READY",
                      !.sv[s].cap = w.sv[s].cap - (w.now - w.sv[s].last)]
             z == [w EXCEPT !.sv[s].status = "READY",
                      !.sv[s].cap = @ - (w.now - w.sv[s].last)]
  <2>1. L(u)
    BY <1>1, <1>6
  <2>2. u = z
    BY DEF Sound, On, WorldFields, ServerFields
  <2> HIDE DEF u, z
  <2>3. L(PS!Drop(z, PS!BandEx(s)))
    BY <1>2, <2>1, <2>2
  <2> QED
    BY <2>3 DEF PS!ExecutingReady, z
<1>12. L(PS!WaitsForPeriod(w, s))
  <2> DEFINE u == [w EXCEPT !.sv[s].status = "RECHARGING", !.sv[s].cap = 0]
  <2>1. L(u)
    BY <1>1, <1>6
  <2> HIDE DEF u
  <2>2. L(PS!Drop(u, PS!BandEx(s)))
    BY <1>2, <2>1
  <2> QED
    BY <2>2 DEF PS!WaitsForPeriod, u
<1>13. L(PS!ExecutingReleasing(w, s)) /\ L(PS!ExecutingRecharging(w, s))
  BY <1>12 DEF PS!ExecutingReleasing, PS!ExecutingRecharging
<1>14. L(PS!RechargingReady(w, s))
  BY <1>1, <1>2, <1>7 DEF PS!RechargingReady
<1>15. L(PS!RechargingIdle(w, s))
  BY <1>1, <1>2 DEF PS!RechargingIdle
<1>16. \A n : L(PS!ChangeBudget(w, s, n))
  BY <1>1, <1>6 DEF PS!ChangeBudget
<1> QED
  BY <1>8, <1>9, <1>10, <1>11, <1>13, <1>14, <1>15, <1>16 DEF L

LEMMA SporadicIsLocal ==
    ASSUME NEW w, Sound(w), NEW s \in Servers, w.sv[s].kind = "sporadic"
    PROVE  /\ Local(w, SS!IdleReady(w, s), s)
           /\ Local(w, SS!ReleasingReady(w, s), s)
           /\ Local(w, SS!ReadyExecuting(w, s), s)
           /\ Local(w, SS!ExecutingReady(w, s), s)
           /\ Local(w, SS!ExecutingReleasing(w, s), s)
           /\ Local(w, SS!ExecutingRecharging(w, s), s)
           /\ Local(w, SS!OnReplenishment(w, s), s)
           /\ Local(w, SS!OnIdle(w, s), s)
           /\ \A n : Local(w, SS!ChangeBudget(w, s, n), s)
<1> DEFINE L(v) == Local(w, v, s)
<1>1. L(w)
  BY LocalAtFirst
<1>2. ASSUME NEW v, L(v), NEW x, NEW e
      PROVE  /\ L(SS!Throw(v, x)) /\ L(SS!Drop(v, e))
             /\ L(SS!SetStatus(v, s, x)) /\ L(SS!SetVTime(v, s))
             /\ L(SS!StartVTime(v, s, x)) /\ L(SS!StopVTime(v, s))
             /\ L(SS!KernelOnArrival(v, s)) /\ L(SS!SetExe(v, s, x))
  <2>1. /\ L(Throw(v, x)) /\ L(Drop(v, e)) /\ L(SetStatus(v, s, x)) /\ L(SetVTime(v, s))
        /\ L(StartVTime(v, s, x)) /\ L(StopVTime(v, s))
        /\ L(KernelOnArrival(v, s)) /\ L(SetExe(v, s, x))
    BY <1>2, LocalAgain
  <2> HIDE DEF L
  <2> QED
    BY <2>1, SporadicShares
<1>3. ASSUME NEW v, L(v), NEW x
      PROVE  /\ L(SS!Post(v, SS!BandEx(s), x)) /\ L(SS!Post(v, SS!Repl(s), x))
             /\ L(SS!Post(v, SS!Idle(s), x))
  <2>1. v.sv[s].kind = "sporadic"
    BY <1>3 DEF Local
  <2>2. Fits(v, BandEx(s)) /\ Fits(v, Repl(s)) /\ Fits(v, Idle(s))
    BY <2>1, TheyFit, ServersFit
  <2>3. L(Post(v, BandEx(s), x)) /\ L(Post(v, Repl(s), x)) /\ L(Post(v, Idle(s), x))
    BY <1>3, <2>2, LocalAgain
  <2> QED
    BY <2>3, SporadicShares
<1>4. ASSUME NEW v, L(v), NEW r, On(r, ServerFields), r.kind = v.sv[s].kind
      PROVE  L([v EXCEPT !.sv[s] = r])
  BY <1>4, LocalAgain
<1>5. ASSUME NEW v, L(v) PROVE On(v.sv[s], ServerFields) /\ Sound(v)
  BY <1>5 DEF Local, Sound
<1> HIDE DEF L
<1>6. ASSUME NEW v, L(v), NEW x, NEW y
      PROVE  /\ L([v EXCEPT !.sv[s].repl = x]) /\ L([v EXCEPT !.sv[s].last = x])
             /\ L([v EXCEPT !.sv[s].cap = x]) /\ L([v EXCEPT !.sv[s].ready = x])
  <2> DEFINE r1 == [v.sv[s] EXCEPT !.repl = x]
             r2 == [v.sv[s] EXCEPT !.last = x]
             r3 == [v.sv[s] EXCEPT !.cap = x]
             r4 == [v.sv[s] EXCEPT !.ready = x]
  <2>1. /\ On(r1, ServerFields) /\ r1.kind = v.sv[s].kind
        /\ On(r2, ServerFields) /\ r2.kind = v.sv[s].kind
        /\ On(r3, ServerFields) /\ r3.kind = v.sv[s].kind
        /\ On(r4, ServerFields) /\ r4.kind = v.sv[s].kind
    BY <1>5, <1>6 DEF On, ServerFields
  <2>2. /\ L([v EXCEPT !.sv[s] = r1]) /\ L([v EXCEPT !.sv[s] = r2])
        /\ L([v EXCEPT !.sv[s] = r3]) /\ L([v EXCEPT !.sv[s] = r4])
    <3> HIDE DEF r1, r2, r3, r4
    <3> QED
      BY <1>4, <1>6, <2>1
  <2> QED
    BY <2>2
<1>7. ASSUME NEW v, L(v), NEW t PROVE L(SS!PrepareReplenishment(v, s, t))
  <2>1. L([v EXCEPT !.sv[s].repl = Append(v.sv[s].repl, SS!Replenishment(t + P[s], 0))])
    BY <1>6, <1>7
  <2> QED
    BY <2>1 DEF SS!PrepareReplenishment
<1>8. ASSUME NEW v, L(v) PROVE L(SS!CheckRepl(v, s))
  BY <1>3, <1>8 DEF SS!CheckRepl
<1>9. L(SS!IdleReady(w, s))
  <2> DEFINE r == [w.sv[s] EXCEPT !.status = "READY", !.cap = w.sv[s].q]
             u == [w EXCEPT !.sv[s].status = "READY", !.sv[s].cap = w.sv[s].q]
  <2>1. On(r, ServerFields) /\ r.kind = w.sv[s].kind
    BY <1>1, <1>5 DEF On, ServerFields
  <2>2. u = [w EXCEPT !.sv[s] = r]
    BY DEF Sound, On, WorldFields
  <2>3. L([w EXCEPT !.sv[s] = r])
    <3> HIDE DEF r
    <3> QED
      BY <1>1, <1>4, <2>1
  <2> HIDE DEF u, r
  <2>4. L(SS!PrepareReplenishment(SS!SetVTime(u, s), s, w.now))
    BY <1>2, <1>7, <2>2, <2>3
  <2> QED
    BY <1>1, <1>2, <2>4 DEF SS!IdleReady, u
<1>10. L(SS!ReleasingReady(w, s))
  BY <1>1, <1>2, <1>7 DEF SS!ReleasingReady
<1>11. L(SS!ReadyExecuting(w, s))
  <2> DEFINE u == [w EXCEPT !.sv[s].last = w.now]
             z == SS!StartVTime(SS!SetStatus(u, s, "EXECUTING"), s, SS!VRate(w.sv[s], s))
  <2>1. L(u)
    BY <1>1, <1>6
  <2>2. L(z)
    <3> HIDE DEF u
    <3> QED
      BY <1>2, <2>1
  <2> HIDE DEF z
  <2>3. L(SS!Post(z, SS!BandEx(s), w.now + w.sv[s].cap))
    BY <1>3, <2>2
  <2> QED
    BY <2>3 DEF SS!ReadyExecuting, z
<1>12. ASSUME NEW v, L(v) PROVE L(SS!Spent(v, s))
  <2> DEFINE used == v.now - v.sv[s].last
             n == Len(v.sv[s].repl)
             r == [v.sv[s] EXCEPT !.cap = @ - used, !.repl[n].amount = @ + used]
             u == [v EXCEPT !.sv[s].cap = @ - used, !.sv[s].repl[n].amount = @ + used]
  <2>1. Sound(v) /\ On(v.sv[s], ServerFields)
    BY <1>5, <1>12
  <2>2. On(r, ServerFields) /\ r.kind = v.sv[s].kind
    BY <2>1 DEF On, ServerFields
  <2>3. u = [v EXCEPT !.sv[s] = r]
    <3> HIDE DEF used, n
    <3> QED
      BY <2>1 DEF Sound, On, WorldFields, ServerFields
  <2>4. L([v EXCEPT !.sv[s] = r])
    <3> HIDE DEF r
    <3> QED
      BY <1>4, <1>12, <2>2
  <2> HIDE DEF r
  <2>5. L(u) /\ L(SS!Throw(v, "EmptyList"))
    BY <1>2, <1>12, <2>3, <2>4
  <2> QED
    BY <2>5 DEF SS!Spent
<1>13. L(SS!ExecutingReady(w, s))
  BY <1>1, <1>2, <1>12 DEF SS!ExecutingReady
<1>14. L(SS!ExecutingReleasing(w, s))
  <2> DEFINE u == IF w.sv[s].status = "EXECUTING"
                  THEN SS!StopVTime(SS!CheckRepl(SS!Drop(SS!Spent(w, s), SS!BandEx(s)), s), s)
                  ELSE w
  <2>1. L(u)
    BY <1>1, <1>2, <1>8, <1>12
  <2> HIDE DEF u
  <2>2. /\ L(SS!SetStatus(u, s, "IDLE"))
        /\ \A x : L(SS!SetStatus(SS!Post(u, SS!Idle(s), x), s, "RELEASING"))
    BY <1>2, <1>3, <2>1
  <2> QED
    BY <2>2 DEF SS!ExecutingReleasing, u
<1>15. L(SS!ExecutingRecharging(w, s))
  <2> DEFINE z == SS!StopVTime(SS!CheckRepl(SS!Spent(SS!Drop(w, SS!BandEx(s)), s), s), s)
             c == z.sv[s].ready
             r == [z.sv[s] EXCEPT !.status = "READY", !.cap = @ + c[1].amount,
                                  !.ready = Tail(c), !.last = w.now]
             u == [z EXCEPT !.sv[s].status = "READY",
                            !.sv[s].cap = @ + c[1].amount,
                            !.sv[s].ready = Tail(c),
                            !.sv[s].last = w.now]
  <2>1. L(z)
    BY <1>1, <1>2, <1>8, <1>12
  <2>2. L(u)
    <3> HIDE DEF z
    <3>1. Sound(z) /\ On(z.sv[s], ServerFields)
      BY <1>5, <2>1
    <3>2. On(r, ServerFields) /\ r.kind = z.sv[s].kind
      BY <3>1 DEF On, ServerFields
    <3>3. u = [z EXCEPT !.sv[s] = r]
      <4> HIDE DEF c
      <4> QED
        BY <3>1, ZenonT(60) DEF Sound, On, WorldFields, ServerFields
    <3>4. L([z EXCEPT !.sv[s] = r])
      <4> HIDE DEF r
      <4> QED
        BY <1>4, <2>1, <3>2
    <3> QED
      BY <3>3, <3>4
  <2> HIDE DEF u
  <2>3. \A t : L(SS!PrepareReplenishment(u, s, t))
    BY <1>7, <2>2
  <2>4. L(SS!SetStatus(z, s, "RECHARGING"))
    <3> HIDE DEF z
    <3> QED
      BY <1>2, <2>1
  <2> QED
    BY <2>3, <2>4 DEF SS!ExecutingRecharging, u
<1>16. \A v : L(v) => L(SS!RechargingReady(v, s))
  BY <1>2, <1>7 DEF SS!RechargingReady
<1>17. L(SS!OnReplenishment(w, s))
  <2> DEFINE b == w.sv[s].repl
             u == [w EXCEPT !.sv[s].repl = Tail(b)]
  <2>1. L(u)
    BY <1>1, <1>6
  <2>2. ASSUME NEW v, L(v), NEW r PROVE L(SS!ReplenishedInactive(v, s, r))
    <3> DEFINE z == SS!CheckRepl([v EXCEPT !.sv[s].cap = @ + r.amount], s)
    <3>1. L([v EXCEPT !.sv[s].cap = @ + r.amount])
      <4>1. L([v EXCEPT !.sv[s].cap = v.sv[s].cap + r.amount])
        BY <1>6, <2>2
      <4> QED
        BY <4>1
    <3>2. L(z)
      BY <1>8, <3>1
    <3> HIDE DEF z
    <3>3. /\ L(SS!KernelOnArrival(SS!RechargingReady(z, s), s))
          /\ L(SS!SetExe(SS!SetStatus(z, s, "RELEASING"), s, None))
      BY <1>2, <1>16, <3>2
    <3> QED
      BY <3>2, <3>3 DEF SS!ReplenishedInactive, z
  <2>3. ASSUME NEW v, L(v), NEW r PROVE L(SS!ReplenishedActive(v, s, r))
    <3> DEFINE z == [v EXCEPT !.sv[s].ready = Append(v.sv[s].ready, r)]
    <3>1. L(z)
      BY <1>6, <2>3
    <3> HIDE DEF z
    <3>2. L(SS!CheckRepl(z, s))
      BY <1>8, <3>1
    <3> QED
      BY <3>1, <3>2 DEF SS!ReplenishedActive, z
  <2>4. /\ L(SS!Throw(w, "EmptyList"))
        /\ L(SS!ReplenishedInactive(u, s, b[1])) /\ L(SS!ReplenishedActive(u, s, b[1]))
    <3> HIDE DEF u
    <3> QED
      BY <1>1, <1>2, <2>1, <2>2, <2>3
  <2> HIDE DEF u
  <2> QED
    BY <2>4 DEF SS!OnReplenishment, u
<1>18. L(SS!OnIdle(w, s))
  BY <1>1, <1>2 DEF SS!OnIdle, SS!ReleasingIdle
<1>19. ASSUME NEW v, L(v) PROVE L(SS!Closed(v, s)) /\ L(SS!Opened(v, s))
  <2>1. L(SS!Closed(v, s))
    <3> DEFINE z == SS!StopVTime(SS!Drop(SS!Spent(v, s), SS!BandEx(s)), s)
    <3>1. L(z)
      BY <1>2, <1>12, <1>19
    <3> HIDE DEF z
    <3>2. L([z EXCEPT !.sv[s].last = v.now])
      BY <1>6, <3>1
    <3> QED
      BY <1>19, <3>2 DEF SS!Closed, z
  <2>2. L(SS!Opened(v, s))
    <3>1. \A x, y : L(SS!Post(SS!StartVTime(v, s, x), SS!BandEx(s), y))
      BY <1>2, <1>3, <1>19
    <3> QED
      BY <1>19, <3>1 DEF SS!Opened
  <2> QED
    BY <2>1, <2>2
<1>20. ASSUME NEW n PROVE L(SS!Increase(w, s, n))
  <2> DEFINE r == [w.sv[s] EXCEPT !.cap = @ + n - w.sv[s].q, !.q = n]
             u == [w EXCEPT !.sv[s].cap = @ + n - w.sv[s].q, !.sv[s].q = n]
  <2>1. On(r, ServerFields) /\ r.kind = w.sv[s].kind
    BY <1>1, <1>5 DEF On, ServerFields
  <2>2. u = [w EXCEPT !.sv[s] = r]
    BY DEF Sound, On, WorldFields, ServerFields
  <2>3. L([w EXCEPT !.sv[s] = r])
    <3> HIDE DEF r
    <3> QED
      BY <1>1, <1>4, <2>1
  <2> HIDE DEF u, r
  <2>4. L(SS!Opened(SS!Closed(u, s), s))
    BY <1>19, <2>2, <2>3
  <2> QED
    BY <2>4 DEF SS!Increase, u
<1>21. ASSUME NEW n PROVE L(SS!Decrease(w, s, n))
  <2> DEFINE w1 == SS!Closed(w, s)
             v  == w1.sv[s]
             l  == SS!Least(v.q - n, v.cap)
             d1 == (v.q - n) - l
             d2 == SS!Most(d1 - SS!SumAmounts(v.ready, Len(v.ready)), 0)
             b  == SS!SkipEmpty(SS!Reduced(v.repl, d2))
             a  == SS!SkipEmpty(SS!Reduced(v.ready, d1))
             w2 == [w1 EXCEPT !.sv[s].cap = @ - l, !.sv[s].q = n,
                              !.sv[s].ready = SS!SkipEmpty(SS!Reduced(@, d1)),
                              !.sv[s].repl = b]
             r  == [v EXCEPT !.cap = @ - l, !.q = n, !.ready = a, !.repl = b]
             w3 == IF ~SS!IsPosted(w.q, SS!Repl(s)) \/ Len(b) = Len(v.repl) THEN w2
                   ELSE IF \E i \in 2..(Len(v.repl) - Len(b)) : v.repl[i].at < w.now
                   THEN SS!Throw(w2, "PostedInThePast")
                   ELSE IF b = <<>> THEN SS!Throw(w2, "EmptyList")
                   ELSE SS!Post(SS!Drop(w2, SS!Repl(s)), SS!Repl(s), b[1].at)
  <2>1. L(w1)
    BY <1>1, <1>19
  <2>2. L(w2)
    <3>1. Sound(w1) /\ On(v, ServerFields)
      BY <1>5, <2>1
    <3>2. On(r, ServerFields) /\ r.kind = v.kind
      <4> HIDE DEF w1, v, l, d1, d2, b, a
      <4> QED
        BY <3>1 DEF On, ServerFields
    <3>3. w2 = [w1 EXCEPT !.sv[s] = r]
      <4> HIDE DEF w1, l, d1, d2, b
      <4> QED
        BY <3>1, ZenonT(60) DEF Sound, On, WorldFields, ServerFields
    <3>4. L([w1 EXCEPT !.sv[s] = r])
      <4> HIDE DEF w1, r
      <4> QED
        BY <1>4, <2>1, <3>2
    <3> HIDE DEF w2, r, w1
    <3> QED
      BY <3>3, <3>4
  <2>3. L(w3)
    <3> HIDE DEF w2, b, v
    <3>1. L(SS!Throw(w2, "EmptyList")) /\ L(SS!Throw(w2, "PostedInThePast"))
          /\ L(SS!Post(SS!Drop(w2, SS!Repl(s)), SS!Repl(s), b[1].at))
      BY <1>2, <1>3, <2>2
    <3> QED
      BY <2>2, <3>1
  <2>4. L(SS!Opened(w3, s)) /\ L(SS!Throw(w, "BudgetIsNotThere"))
    <3> HIDE DEF w3
    <3> QED
      BY <1>1, <1>2, <1>19, <2>3
  <2> HIDE DEF w3
  <2>5. SS!Decrease(w, s, n) \in {SS!Opened(w3, s), SS!Throw(w, "BudgetIsNotThere")}
    BY DEF SS!Decrease, w3
  <2> QED
    BY <2>4, <2>5
<1>22. ASSUME NEW n PROVE L(SS!ChangeBudget(w, s, n))
  BY <1>1, <1>20, <1>21 DEF SS!ChangeBudget
<1> QED
  BY <1>9, <1>10, <1>11, <1>13, <1>14, <1>15, <1>17, <1>18, <1>22 DEF L

-----------------------------------------------------------------------------
(* The bandwidth in use.                                                     *)

Bandwidths == [s \in Servers |-> GRUB!Util(s)]

Using(w) == {s \in Servers : w.sv[s].kind = "grub" /\ w.sv[s].status # "IDLE"}

(* The supervisor's account is that of the servers that use bandwidth. *)
Balanced(w) ==
    /\ Sound(w)
    /\ w.sup.active = SumFunctionOnSet(Bandwidths, Using(w))

LEMMA ServersAreFinite == IsFiniteSet(Servers) /\ IsFiniteSet(Entities)
<1>1. Len(EntitySeq) \in Nat /\ DOMAIN EntitySeq = 1..Len(EntitySeq)
  BY ServerAssumption
<1>2. EntitySeq \in [1..Len(EntitySeq) -> Entities]
  BY <1>1, ServerAssumption
<1>3. \A x \in Entities : \E i \in 1..Len(EntitySeq) : EntitySeq[i] = x
  BY <1>1, ServerAssumption DEF ToSet
<1>4. EntitySeq \in Surjection(1..Len(EntitySeq), Entities)
  BY <1>2, <1>3 DEF Surjection
<1>5. IsFiniteSet(1..Len(EntitySeq))
  BY <1>1, IntervalIsFinite
<1>6. IsFiniteSet(Entities)
  BY <1>4, <1>5, FS_Surjection
<1>7. Servers \in SUBSET Entities
  BY DEF Entities
<1> QED
  BY <1>6, <1>7, FS_Subset

LEMMA BandwidthsAreIntegers ==
    ASSUME NEW s \in Servers
    PROVE  Bandwidths[s] = GRUB!Util(s) /\ GRUB!Util(s) \in Int
<1>1. Q[s] \in Int /\ P[s] \in Int /\ P[s] > 0 /\ UUnit \in Int
  <2>1. P[s] \in Nat \ {0} /\ Q[s] \in 1..P[s] /\ UUnit \in Nat
    BY ServerAssumption
  <2> QED
    BY <2>1
<1> QED
  BY <1>1 DEF Bandwidths, GRUB!Util

(* What is done to no GRUB server keeps the balance, ... *)
LEMMA StillBalanced ==
    ASSUME NEW w, NEW v, Balanced(w), Still(w, v)
    PROVE  Balanced(v)
<1>1. Using(v) = Using(w)
  BY DEF Still, Using
<1> QED
  BY <1>1 DEF Balanced, Still

LEMMA LocalBalanced ==
    ASSUME NEW w, NEW v, NEW s \in Servers, Balanced(w), Local(w, v, s),
           w.sv[s].kind # "grub"
    PROVE  Balanced(v)
<1>1. Using(v) = Using(w)
  BY DEF Local, Using
<1> QED
  BY <1>1 DEF Balanced, Local

(* ... and so does what turns a GRUB server that is not idle, ... *)
LEMMA TurnedBalanced ==
    ASSUME NEW w, NEW v, NEW s \in Servers, NEW st, Balanced(w), Turned(w, v, s, st),
           w.sv[s].status # "IDLE", st # "IDLE"
    PROVE  Balanced(v)
<1>1. Using(v) = Using(w)
  BY DEF Turned, Local, Using
<1> QED
  BY <1>1 DEF Balanced, Turned, Local

(* A server more or less in a sum. *)
LEMMA SumOfBandwidths ==
    ASSUME NEW T \in SUBSET Servers, NEW s \in T
    PROVE  /\ SumFunctionOnSet(Bandwidths, T \ {s}) \in Int
           /\ SumFunctionOnSet(Bandwidths, T)
                  = Bandwidths[s] + SumFunctionOnSet(Bandwidths, T \ {s})
<1>1. IsFiniteSet(T)
  BY ServersAreFinite, FS_Subset
<1>2. \A x \in T : Bandwidths[x] \in Int
  BY BandwidthsAreIntegers
<1>3. \A f : (\A x \in T : f[x] \in Int) =>
         /\ SumFunctionOnSet(f, T \ {s}) \in Int
         /\ SumFunctionOnSet(f, T) = f[s] + SumFunctionOnSet(f, T \ {s})
  BY <1>1, SumTakesOne, ZenonT(40)
<1> QED
  BY <1>2, <1>3, ZenonT(40)

(* ... and what makes it busy or idle. *)
LEMMA BusyBalanced ==
    ASSUME NEW w, NEW v, NEW s \in Servers, Balanced(w),
           Moved(w, v, s, "READY", GRUB!Util(s)),
           w.sv[s].kind = "grub", w.sv[s].status = "IDLE"
    PROVE  Balanced(v)
<1> DEFINE U == Using(w)
           V == Using(v)
<1>1. s \in V /\ U = V \ {s}
  BY DEF Moved, Using
<1>2. V \in SUBSET Servers
  BY DEF Using
<1>3. w.sup.active = SumFunctionOnSet(Bandwidths, U)
      /\ v.sup.active = w.sup.active + GRUB!Util(s) /\ Sound(v)
  BY DEF Balanced, Moved
<1>4. Bandwidths[s] = GRUB!Util(s) /\ GRUB!Util(s) \in Int
  BY BandwidthsAreIntegers
<1> HIDE DEF U, V
<1>5. SumFunctionOnSet(Bandwidths, V \ {s}) \in Int
      /\ SumFunctionOnSet(Bandwidths, V) = Bandwidths[s] + SumFunctionOnSet(Bandwidths, V \ {s})
  BY <1>1, <1>2, SumOfBandwidths
<1>6. v.sup.active = SumFunctionOnSet(Bandwidths, V)
  BY <1>1, <1>3, <1>4, <1>5
<1> QED
  BY <1>3, <1>6 DEF Balanced, V

LEMMA IdleBalanced ==
    ASSUME NEW w, NEW v, NEW s \in Servers, Balanced(w),
           Moved(w, v, s, "IDLE", -GRUB!Util(s)),
           w.sv[s].kind = "grub", w.sv[s].status # "IDLE"
    PROVE  Balanced(v)
<1> DEFINE U == Using(w)
           V == Using(v)
<1>1. s \in U /\ V = U \ {s}
  BY DEF Moved, Using
<1>2. U \in SUBSET Servers
  BY DEF Using
<1>3. w.sup.active = SumFunctionOnSet(Bandwidths, U)
      /\ v.sup.active = w.sup.active + (-GRUB!Util(s)) /\ Sound(v)
  BY DEF Balanced, Moved
<1>4. Bandwidths[s] = GRUB!Util(s) /\ GRUB!Util(s) \in Int
  BY BandwidthsAreIntegers
<1> HIDE DEF U, V
<1>5. SumFunctionOnSet(Bandwidths, U \ {s}) \in Int
      /\ SumFunctionOnSet(Bandwidths, U) = Bandwidths[s] + SumFunctionOnSet(Bandwidths, U \ {s})
  BY <1>1, <1>2, SumOfBandwidths
<1>6. v.sup.active = SumFunctionOnSet(Bandwidths, V)
  BY <1>1, <1>3, <1>4, <1>5
<1> QED
  BY <1>3, <1>6 DEF Balanced, V

-----------------------------------------------------------------------------
(* The virtual methods keep the balance, called where the server's common   *)
(* code calls them.                                                          *)

LEMMA ClassOf ==
    ASSUME NEW w, Sound(w), NEW s \in Servers
    PROVE  \/ /\ IsCBS(w, s) /\ w.sv[s].kind \in {"hardCBS", "softCBS", "reuseCBS"}
              /\ w.sv[s].kind \notin {"polling", "sporadic", "grub"}
           \/ /\ Kind(w, s) = "polling" /\ ~IsCBS(w, s)
              /\ w.sv[s].kind = "polling"
           \/ /\ Kind(w, s) = "sporadic" /\ ~IsCBS(w, s)
              /\ w.sv[s].kind = "sporadic"
           \/ /\ Kind(w, s) = "grub" /\ ~IsCBS(w, s)
              /\ w.sv[s].kind = "grub"
BY DEF Sound, Classes, IsCBS, Kind

LEMMA MethodsBalance ==
    ASSUME NEW w, Balanced(w), NEW s \in Servers
    PROVE  /\ w.sv[s].status = "IDLE" => Balanced(IdleReady(w, s))
           /\ w.sv[s].status # "IDLE" =>
                 /\ Balanced(ReleasingReady(w, s))
                 /\ Balanced(ReadyExecuting(w, s))
                 /\ Balanced(ExecutingReady(w, s))
                 /\ Balanced(ExecutingReleasing(w, s))
                 /\ Balanced(ExecutingRecharging(w, s))
                 /\ w.sv[s].kind \in {"polling", "grub"} =>
                       /\ Balanced(RechargingReady(w, s))
                       /\ Balanced(RechargingIdle(w, s))
<1>1. Sound(w)
  BY DEF Balanced
<1>2. CASE IsCBS(w, s) /\ w.sv[s].kind \in {"hardCBS", "softCBS", "reuseCBS"}
           /\ w.sv[s].kind \notin {"polling", "sporadic", "grub"}
  <2>1. \A v : Local(w, v, s) => Balanced(v)
    BY <1>2, LocalBalanced
  <2>2. /\ Local(w, CBS!IdleReady(w, s), s) /\ Local(w, CBS!ReleasingReady(w, s), s)
        /\ Local(w, CBS!ReadyExecuting(w, s), s) /\ Local(w, CBS!ExecutingReady(w, s), s)
        /\ Local(w, CBS!ExecutingReleasing(w, s), s)
        /\ Local(w, CBS!ExecutingRecharging(w, s), s)
    BY <1>1, <1>2, ConstantBandwidthIsLocal
  <2>3. /\ IdleReady(w, s) = CBS!IdleReady(w, s)
        /\ ReleasingReady(w, s) = CBS!ReleasingReady(w, s)
        /\ ReadyExecuting(w, s) = CBS!ReadyExecuting(w, s)
        /\ ExecutingReady(w, s) = CBS!ExecutingReady(w, s)
        /\ ExecutingReleasing(w, s) = CBS!ExecutingReleasing(w, s)
        /\ ExecutingRecharging(w, s) = CBS!ExecutingRecharging(w, s)
    BY <1>2 DEF IdleReady, ReleasingReady, ReadyExecuting, ExecutingReady,
                ExecutingReleasing, ExecutingRecharging, Kind
  <2> QED
    BY <1>2, <2>1, <2>2, <2>3
<1>3. CASE Kind(w, s) = "polling" /\ ~IsCBS(w, s) /\ w.sv[s].kind = "polling"
  <2>1. \A v : Local(w, v, s) => Balanced(v)
    BY <1>3, LocalBalanced
  <2>2. /\ Local(w, PS!IdleReady(w, s), s) /\ Local(w, PS!ReleasingReady(w, s), s)
        /\ Local(w, PS!ReadyExecuting(w, s), s) /\ Local(w, PS!ExecutingReady(w, s), s)
        /\ Local(w, PS!ExecutingReleasing(w, s), s)
        /\ Local(w, PS!ExecutingRecharging(w, s), s)
        /\ Local(w, PS!RechargingReady(w, s), s) /\ Local(w, PS!RechargingIdle(w, s), s)
    BY <1>1, <1>3, PollingIsLocal
  <2>3. /\ IdleReady(w, s) = PS!IdleReady(w, s)
        /\ ReleasingReady(w, s) = PS!ReleasingReady(w, s)
        /\ ReadyExecuting(w, s) = PS!ReadyExecuting(w, s)
        /\ ExecutingReady(w, s) = PS!ExecutingReady(w, s)
        /\ ExecutingReleasing(w, s) = PS!ExecutingReleasing(w, s)
        /\ ExecutingRecharging(w, s) = PS!ExecutingRecharging(w, s)
        /\ RechargingReady(w, s) = PS!RechargingReady(w, s)
        /\ RechargingIdle(w, s) = PS!RechargingIdle(w, s)
    BY <1>3 DEF IdleReady, ReleasingReady, ReadyExecuting, ExecutingReady,
                ExecutingReleasing, ExecutingRecharging, RechargingReady, RechargingIdle
  <2> QED
    BY <2>1, <2>2, <2>3
<1>4. CASE Kind(w, s) = "sporadic" /\ ~IsCBS(w, s) /\ w.sv[s].kind = "sporadic"
  <2>1. \A v : Local(w, v, s) => Balanced(v)
    BY <1>4, LocalBalanced
  <2>2. /\ Local(w, SS!IdleReady(w, s), s) /\ Local(w, SS!ReleasingReady(w, s), s)
        /\ Local(w, SS!ReadyExecuting(w, s), s) /\ Local(w, SS!ExecutingReady(w, s), s)
        /\ Local(w, SS!ExecutingReleasing(w, s), s)
        /\ Local(w, SS!ExecutingRecharging(w, s), s)
    BY <1>1, <1>4, SporadicIsLocal
  <2>3. /\ IdleReady(w, s) = SS!IdleReady(w, s)
        /\ ReleasingReady(w, s) = SS!ReleasingReady(w, s)
        /\ ReadyExecuting(w, s) = SS!ReadyExecuting(w, s)
        /\ ExecutingReady(w, s) = SS!ExecutingReady(w, s)
        /\ ExecutingReleasing(w, s) = SS!ExecutingReleasing(w, s)
        /\ ExecutingRecharging(w, s) = SS!ExecutingRecharging(w, s)
    BY <1>4 DEF IdleReady, ReleasingReady, ReadyExecuting, ExecutingReady,
                ExecutingReleasing, ExecutingRecharging
  <2> QED
    BY <1>4, <2>1, <2>2, <2>3
<1>5. CASE Kind(w, s) = "grub" /\ ~IsCBS(w, s) /\ w.sv[s].kind = "grub"
  <2>1. /\ IdleReady(w, s) = GRUB!IdleReady(w, s)
        /\ ReleasingReady(w, s) = GRUB!ReleasingReady(w, s)
        /\ ReadyExecuting(w, s) = GRUB!ReadyExecuting(w, s)
        /\ ExecutingReady(w, s) = GRUB!ExecutingReady(w, s)
        /\ ExecutingReleasing(w, s) = GRUB!ExecutingReleasing(w, s)
        /\ ExecutingRecharging(w, s) = GRUB!ExecutingRecharging(w, s)
        /\ RechargingReady(w, s) = GRUB!RechargingReady(w, s)
        /\ RechargingIdle(w, s) = GRUB!RechargingIdle(w, s)
    BY <1>5 DEF IdleReady, ReleasingReady, ReadyExecuting, ExecutingReady,
                ExecutingReleasing, ExecutingRecharging, RechargingReady, RechargingIdle
  <2>2. w.sv[s].status = "IDLE" => Balanced(GRUB!IdleReady(w, s))
    BY <1>1, <1>5, GrubIdleReady, BusyBalanced
  <2>3. ASSUME w.sv[s].status # "IDLE"
        PROVE  /\ Balanced(GRUB!ReleasingReady(w, s))
               /\ Balanced(GRUB!ReadyExecuting(w, s))
               /\ Balanced(GRUB!ExecutingReady(w, s))
               /\ Balanced(GRUB!ExecutingReleasing(w, s))
               /\ Balanced(GRUB!ExecutingRecharging(w, s))
               /\ Balanced(GRUB!RechargingReady(w, s))
               /\ Balanced(GRUB!RechargingIdle(w, s))
    <3>1. \A v, st : Turned(w, v, s, st) /\ st # "IDLE" => Balanced(v)
      BY <2>3, TurnedBalanced
    <3>2. /\ Turned(w, GRUB!ReleasingReady(w, s), s, "READY")
          /\ Turned(w, GRUB!ReadyExecuting(w, s), s, "EXECUTING")
          /\ Turned(w, GRUB!ExecutingReady(w, s), s, "READY")
          /\ Turned(w, GRUB!ExecutingReleasing(w, s), s, "RELEASING")
          /\ Turned(w, GRUB!ExecutingRecharging(w, s), s, "RECHARGING")
          /\ Turned(w, GRUB!RechargingReady(w, s), s, "READY")
      BY <1>1, <1>5, GrubTurns
    <3>3. Balanced(GRUB!RechargingIdle(w, s))
      BY <1>1, <1>5, <2>3, GrubReleasingIdle, IdleBalanced DEF GRUB!RechargingIdle
    <3> QED
      BY <3>1, <3>2, <3>3
  <2> QED
    BY <2>1, <2>2, <2>3
<1> QED
  BY <1>1, <1>2, <1>3, <1>4, <1>5, ClassOf

-----------------------------------------------------------------------------
(* What handlers do around the virtual methods.                              *)

LEMMA EventsBalance ==
    ASSUME NEW w, Balanced(w), NEW s \in Servers
    PROVE  /\ Fits(w, Repl(s)) =>
                 Balanced(IF IsCBS(w, s) THEN CBS!OnReplenishment(w, s)
                                         ELSE SS!OnReplenishment(w, s))
           /\ Fits(w, CBSIdle(s)) => Balanced(CBS!OnIdle(w, s))
           /\ Fits(w, Idle(s)) =>
                 Balanced(IF Kind(w, s) = "grub" THEN GRUB!OnIdle(w, s)
                                                 ELSE SS!OnIdle(w, s))
           /\ \A n : /\ IsCBS(w, s) => Balanced(CBS!ChangeBudget(w, s, n))
                     /\ Kind(w, s) = "polling" => Balanced(PS!ChangeBudget(w, s, n))
                     /\ Kind(w, s) = "sporadic" => Balanced(SS!ChangeBudget(w, s, n))
<1>1. Sound(w)
  BY DEF Balanced
<1>2. \A v : Local(w, v, s) /\ w.sv[s].kind # "grub" => Balanced(v)
  BY LocalBalanced
<1>3. w.sv[s].kind \in {"hardCBS", "softCBS", "reuseCBS"} =>
         /\ IsCBS(w, s)
         /\ Balanced(CBS!OnReplenishment(w, s)) /\ Balanced(CBS!OnIdle(w, s))
         /\ \A n : Balanced(CBS!ChangeBudget(w, s, n))
  BY <1>1, <1>2, ConstantBandwidthIsLocal DEF IsCBS, Kind
<1>4. w.sv[s].kind = "polling" =>
         ~IsCBS(w, s) /\ \A n : Balanced(PS!ChangeBudget(w, s, n))
  BY <1>1, <1>2, PollingIsLocal DEF IsCBS, Kind
<1>5. w.sv[s].kind = "sporadic" =>
         /\ ~IsCBS(w, s) /\ Kind(w, s) # "grub"
         /\ Balanced(SS!OnReplenishment(w, s)) /\ Balanced(SS!OnIdle(w, s))
         /\ \A n : Balanced(SS!ChangeBudget(w, s, n))
  BY <1>1, <1>2, SporadicIsLocal DEF IsCBS, Kind
<1>6. w.sv[s].kind = "grub" => Kind(w, s) = "grub" /\ Balanced(GRUB!OnIdle(w, s))
  <2> SUFFICES ASSUME w.sv[s].kind = "grub" PROVE Balanced(GRUB!OnIdle(w, s))
    BY DEF Kind
  <2>1. CASE w.sv[s].status = "RELEASING"
    BY <1>1, <2>1, GrubReleasingIdle, IdleBalanced DEF GRUB!OnIdle
  <2>2. CASE w.sv[s].status # "RELEASING"
    BY <1>1, <2>2, GrubShares, ThrowIsStill, StillBalanced DEF GRUB!OnIdle
  <2> QED
    BY <2>1, <2>2
<1>7. /\ Fits(w, Repl(s)) =>
            w.sv[s].kind \in {"hardCBS", "softCBS", "reuseCBS", "sporadic"}
      /\ Fits(w, CBSIdle(s)) => w.sv[s].kind \in {"hardCBS", "softCBS", "reuseCBS"}
      /\ Fits(w, Idle(s)) => w.sv[s].kind \in {"sporadic", "grub"}
  BY DEF Fits, Posters, Repl, CBSIdle, Idle
<1>8. /\ IsCBS(w, s) => w.sv[s].kind \in {"hardCBS", "softCBS", "reuseCBS"}
      /\ Kind(w, s) = w.sv[s].kind
  BY DEF IsCBS, Kind
<1> QED
  BY <1>3, <1>4, <1>5, <1>6, <1>7, <1>8

(* A server and the kernel of a task. *)
LEMMA DispatchIsStill ==
    ASSUME NEW w, Sound(w), NEW s
    PROVE  Still(w, ServerDispatch(w, s))
<1> DEFINE d == Drop(w, Dispatch(s))
<1>1. Still(w, d) /\ Sound(d)
  BY DropIsStill, StillIsLocal
<1>2. Still(w, Post(d, Dispatch(s), w.now))
  <2> HIDE DEF d
  <2> QED
    BY <1>1, PostIsStill, TheyFit, StillChain
<1> QED
  BY <1>2 DEF ServerDispatch

LEMMA ServerIsStill ==
    ASSUME NEW w, Sound(w), NEW s, NEW t
    PROVE  Still(w, ServerSuspend(w, s, t)) /\ Still(w, ServerOnEnd(w, s, t))
<1> DEFINE r == Extract(w, s, t)
           d == Deschedule(r, t)
           n == SetExe(d, s, None)
           m == SetExe(r, s, None)
<1>1. Still(w, r) /\ Sound(r)
  BY QueuesAreStill, StillIsLocal
<1>2. Still(w, d) /\ Sound(d)
  <2> HIDE DEF r
  <2> QED
    BY <1>1, SchedulingIsStill, StillChain, StillIsLocal
<1>3. Still(w, n) /\ Still(w, m) /\ Sound(n) /\ Sound(m)
  <2> HIDE DEF r, d
  <2> QED
    BY <1>1, <1>2, QueuesAreStill, StillChain, StillIsLocal
<1>4. Still(w, ServerDispatch(n, s)) /\ Still(w, ServerDispatch(m, s))
  <2> HIDE DEF n, m
  <2> QED
    BY <1>3, DispatchIsStill, StillChain
<1>5. /\ Still(d, Throw(d, "NotExecuting")) /\ Still(w, Throw(w, "NotExecuting"))
  <2> HIDE DEF d
  <2> QED
    BY <1>2, ThrowIsStill
<1>6. Still(w, Throw(d, "NotExecuting"))
  <2> HIDE DEF d
  <2> QED
    BY <1>2, <1>5, StillChain
<1> QED
  BY <1>4, <1>5, <1>6 DEF ServerSuspend, ServerOnEnd

LEMMA ArrivalBalances ==
    ASSUME NEW w, Balanced(w), NEW s \in Servers, NEW t
    PROVE  Balanced(ServerOnArrival(w, s, t))
<1> DEFINE v == Insert(w, s, t)
<1>1. /\ Still(w, v) /\ Balanced(v) /\ v.sv[s].status = w.sv[s].status
  BY QueuesAreStill, StillBalanced DEF Balanced, Still
<1> HIDE DEF v
<1>2. Balanced(ServerDispatch(v, s))
  BY <1>1, DispatchIsStill, StillBalanced DEF Balanced
<1>3. \A z : Balanced(z) => Balanced(KernelOnArrival(z, s))
  BY KernelIsStill, StillBalanced DEF Balanced
<1>4. w.sv[s].status = "IDLE" => Balanced(KernelOnArrival(IdleReady(v, s), s))
  BY <1>1, <1>3, MethodsBalance
<1>5. w.sv[s].status = "RELEASING" => Balanced(KernelOnArrival(ReleasingReady(v, s), s))
  BY <1>1, <1>3, MethodsBalance
<1> QED
  BY <1>1, <1>2, <1>4, <1>5 DEF ServerOnArrival, v

LEMMA HomesBalance ==
    ASSUME NEW w, Balanced(w), NEW t \in Tasks
    PROVE  /\ Balanced(HomeOnArrival(w, t))
           /\ Balanced(HomeOnEnd(w, t))
           /\ Balanced(HomeSuspend(w, t))
<1>1. Sound(w) /\ \A v : Still(w, v) => Balanced(v)
  BY StillBalanced DEF Balanced
<1>2. Home[t] # Kernel => Home[t] \in Servers
  BY ServerAssumption DEF Kernels
<1>3. Balanced(HomeOnArrival(w, t))
  BY <1>1, <1>2, KernelIsStill, ArrivalBalances DEF HomeOnArrival
<1>4. Balanced(HomeOnEnd(w, t))
  BY <1>1, KernelIsStill, ServerIsStill DEF HomeOnEnd
<1>5. Balanced(HomeSuspend(w, t))
  BY <1>1, KernelIsStill, ServerIsStill DEF HomeSuspend
<1> QED
  BY <1>3, <1>4, <1>5

(* Server::onDispatch, onDesched and onBudgetExhausted. *)
LEMMA SwitchIsStill ==
    ASSUME NEW w, Sound(w), NEW s
    PROVE  Still(w, SwitchTasks(w, s))
<1> DEFINE c == w.currExe[s]
           n == First(w, s)
           a == IF c = None THEN w ELSE Deschedule(w, c)
           b == SetExe(a, s, n)
<1>1. Still(w, w)
  BY DEF Still
<1>2. Still(w, a) /\ Sound(a)
  BY <1>1, SchedulingIsStill, StillIsLocal
<1> HIDE DEF a
<1>3. Still(w, b) /\ Sound(b)
  <2>1. Still(a, b)
    BY <1>2, QueuesAreStill
  <2> HIDE DEF b
  <2> QED
    BY <1>2, <2>1, StillChain, StillIsLocal
<1> HIDE DEF b
<1>4. Still(w, Schedule(b, n))
  BY <1>3, SchedulingIsStill, StillChain
<1> QED
  BY <1>1, <1>3, <1>4 DEF SwitchTasks, a, b

LEMMA StopBalances ==
    ASSUME NEW w, Balanced(w), NEW s \in Servers
    PROVE  Balanced(StopsTask(w, s))
<1>1. CASE w.sv[s].status # "EXECUTING" \/ w.currExe[s] = None
  BY <1>1, ThrowIsStill, StillBalanced DEF StopsTask, Balanced
<1>2. CASE w.sv[s].status = "EXECUTING" /\ w.currExe[s] # None
  <2> DEFINE v == ExecutingReady(w, s)
             d == Deschedule(v, w.currExe[s])
             e == SetExe(d, s, None)
  <2>1. Balanced(v)
    BY <1>2, MethodsBalance
  <2> HIDE DEF v
  <2>2. Balanced(d)
    BY <2>1, SchedulingIsStill, StillBalanced DEF Balanced
  <2> HIDE DEF d
  <2>3. Balanced(e)
    BY <2>2, QueuesAreStill, StillBalanced DEF Balanced
  <2> QED
    BY <1>2, <2>3 DEF StopsTask, v, d
<1> QED
  BY <1>1, <1>2

LEMMA LeaveBalances ==
    ASSUME NEW w, Balanced(w), NEW s \in Servers, w.sv[s].status = "EXECUTING"
    PROVE  Balanced(KernelDispatch(KernelSuspend(ExecutingReleasing(w, s), s)))
<1> DEFINE v == ExecutingReleasing(w, s)
           d == KernelSuspend(v, s)
<1>1. Balanced(v)
  BY MethodsBalance
<1> HIDE DEF v
<1>2. Balanced(d)
  BY <1>1, KernelIsStill, StillBalanced DEF Balanced
<1> HIDE DEF d
<1>3. Balanced(KernelDispatch(d))
  BY <1>2, SchedulingIsStill, StillBalanced DEF Balanced
<1> QED
  BY <1>3 DEF v, d

LEMMA ExhaustedBalances ==
    ASSUME NEW w, Balanced(w), NEW s \in Servers, w.sv[s].status = "EXECUTING"
    PROVE  Balanced(Exhausted(w, s))
<1> DEFINE c == w.currExe[s]
           a == Drop(w, Dispatch(s))
           b == Deschedule(a, c)
           d == IF c = None THEN a ELSE SetExe(b, s, None)
           e == KernelSuspend(d, s)
           f == KernelDispatch(e)
           g == ExecutingRecharging(f, s)
<1>1. Still(w, a) /\ Sound(a)
  BY DropIsStill, StillIsLocal DEF Balanced
<1> HIDE DEF a, c
<1>2. Still(w, b) /\ Sound(b)
  BY <1>1, SchedulingIsStill, StillChain, StillIsLocal
<1> HIDE DEF b
<1>3. Still(w, d) /\ Sound(d)
  <2>1. Still(w, SetExe(b, s, None))
    BY <1>2, QueuesAreStill, StillChain
  <2> QED
    BY <1>1, <2>1, StillIsLocal
<1> HIDE DEF d
<1>4. Still(w, e) /\ Sound(e)
  BY <1>3, KernelIsStill, StillChain, StillIsLocal
<1> HIDE DEF e
<1>5. Still(w, f) /\ Sound(f)
  BY <1>4, SchedulingIsStill, StillChain, StillIsLocal
<1> HIDE DEF f
<1>6. Balanced(f) /\ f.sv[s].status = "EXECUTING"
  BY <1>5, StillBalanced DEF Still
<1>7. Balanced(g)
  BY <1>6, MethodsBalance
<1> HIDE DEF g
<1>8. Balanced(KernelOnArrival(g, s))
  BY <1>7, KernelIsStill, StillBalanced DEF Balanced
<1>9. Exhausted(w, s) = IF g.sv[s].status = "READY" THEN KernelOnArrival(g, s) ELSE g
  BY DEF Exhausted, a, b, c, d, e, f, g
<1> QED
  BY <1>7, <1>8, <1>9

(* Server::onRecharging *)
LEMMA RechargeBalances ==
    ASSUME NEW w, Balanced(w), NEW s \in Servers, w.sv[s].status = "RECHARGING",
           Fits(w, Recharge(s))
    PROVE  /\ Balanced(KernelOnArrival(RechargingReady(w, s), s))
           /\ Balanced(SetExe(RechargingIdle(w, s), s, None))
<1>1. w.sv[s].kind \in {"polling", "grub"}
  BY DEF Fits, Recharge, Posters
<1>2. Balanced(RechargingReady(w, s)) /\ Balanced(RechargingIdle(w, s))
  BY <1>1, MethodsBalance
<1>3. \A v : Balanced(v) =>
         Balanced(KernelOnArrival(v, s)) /\ Balanced(SetExe(v, s, None))
  BY KernelIsStill, QueuesAreStill, StillBalanced DEF Balanced
<1> QED
  BY <1>2, <1>3

-----------------------------------------------------------------------------
(* The tasks.                                                                *)

LEMMA EditsAreStill ==
    ASSUME NEW w, Sound(w), NEW z
    PROVE  Still(w, [w EXCEPT !.tk = z])
<1> DEFINE v == [w EXCEPT !.tk = z]
<1>1. On(v, WorldFields) /\ v.sv = w.sv /\ v.q = w.q /\ v.sup = w.sup
  BY DEF Sound, On, WorldFields
<1> HIDE DEF v
<1>2. Still(w, v)
  BY <1>1, ElsewhereChanged
<1> QED
  BY <1>2 DEF v

LEMMA TaskEditsAreStill ==
    ASSUME NEW w, Sound(w), NEW t, NEW a, NEW b, NEW c
    PROVE  /\ Still(w, JobStarts(w, t, a))
           /\ Still(w, [w EXCEPT !.tk[t].arrQueue = a])
           /\ Still(w, [w EXCEPT !.tk[t].arrAt = a])
           /\ Still(w, [w EXCEPT !.tk[t].endAt = a])
           /\ Still(w, [w EXCEPT !.tk[t].actInstr = a])
           /\ Still(w, [w EXCEPT !.tk[t].state = a])
           /\ Still(w, [w EXCEPT !.tk[t].cost = a, !.tk[t].last = b])
           /\ Still(w, [w EXCEPT !.tk[t].last = a, !.tk[t].done = b])
           /\ Still(w, [w EXCEPT !.tk[t].cost = a, !.tk[t].done = b, !.tk[t].last = c])
<1>0. /\ On(w, WorldFields) /\ "tk" \in WorldFields
      /\ "sv" \in WorldFields \ {"tk"} /\ "q" \in WorldFields \ {"tk"}
      /\ "sup" \in WorldFields \ {"tk"}
  BY DEF Sound, WorldFields
<1>1. \A z : Still(w, [w EXCEPT !.tk = z])
  BY EditsAreStill
<1>2. \A f : [w EXCEPT !.tk[t] = f] = [w EXCEPT !.tk = [w.tk EXCEPT ![t] = f]]
  BY DEF Sound, On, WorldFields
<1>3. \A f : Still(w, [w EXCEPT !.tk[t] = f])
  BY <1>1, <1>2
<1>4. Still(w, JobStarts(w, t, a))
  <2> DEFINE r == [w.tk[t] EXCEPT !.state = "READY", !.actInstr = 1,
                             !.cost = Undrawn, !.done = 0, !.last = 0,
                             !.arrival = a, !.dl = a + RelDeadline[t]]
  <2>1. JobStarts(w, t, a) = [w EXCEPT !.tk[t] = r]
    BY DEF JobStarts
  <2> HIDE DEF r
  <2> QED
    BY <1>3, <2>1
<1>5. /\ [w EXCEPT !.tk[t].arrQueue = a] = [w EXCEPT !.tk[t] = [w.tk[t] EXCEPT !.arrQueue = a]]
      /\ [w EXCEPT !.tk[t].arrAt = a] = [w EXCEPT !.tk[t] = [w.tk[t] EXCEPT !.arrAt = a]]
      /\ [w EXCEPT !.tk[t].endAt = a] = [w EXCEPT !.tk[t] = [w.tk[t] EXCEPT !.endAt = a]]
      /\ [w EXCEPT !.tk[t].actInstr = a] = [w EXCEPT !.tk[t] = [w.tk[t] EXCEPT !.actInstr = a]]
      /\ [w EXCEPT !.tk[t].state = a] = [w EXCEPT !.tk[t] = [w.tk[t] EXCEPT !.state = a]]
  OBVIOUS
<1>6. ASSUME NEW v, On(v, WorldFields),
             \A f \in WorldFields \ {"tk"} : v[f] = w[f]
      PROVE  Still(w, v)
  <2>1. v.sv = w.sv /\ v.q = w.q /\ v.sup = w.sup
    BY <1>0, <1>6
  <2> QED
    BY <1>6, <2>1, ElsewhereChanged
<1>7. Still(w, [w EXCEPT !.tk[t].cost = a, !.tk[t].last = b])
  <2> DEFINE v == [w EXCEPT !.tk[t].cost = a, !.tk[t].last = b]
  <2>1. On(v, WorldFields) /\ \A f \in WorldFields \ {"tk"} : v[f] = w[f]
    BY <1>0 DEF On
  <2> HIDE DEF v
  <2>2. Still(w, v)
    BY <1>6, <2>1
  <2> QED
    BY <2>2 DEF v
<1>8. Still(w, [w EXCEPT !.tk[t].last = a, !.tk[t].done = b])
  <2> DEFINE v == [w EXCEPT !.tk[t].last = a, !.tk[t].done = b]
  <2>1. On(v, WorldFields) /\ \A f \in WorldFields \ {"tk"} : v[f] = w[f]
    BY <1>0 DEF On
  <2> HIDE DEF v
  <2>2. Still(w, v)
    BY <1>6, <2>1
  <2> QED
    BY <2>2 DEF v
<1>9. Still(w, [w EXCEPT !.tk[t].cost = a, !.tk[t].done = b, !.tk[t].last = c])
  <2> DEFINE v == [w EXCEPT !.tk[t].cost = a, !.tk[t].done = b, !.tk[t].last = c]
  <2>1. On(v, WorldFields) /\ \A f \in WorldFields \ {"tk"} : v[f] = w[f]
    BY <1>0 DEF On
  <2> HIDE DEF v
  <2>2. Still(w, v)
    BY <1>6, <2>1
  <2> QED
    BY <2>2 DEF v
<1> QED
  BY <1>3, <1>4, <1>5, <1>7, <1>8, <1>9

(* The instruction at hand is scheduled, or ends. *)
LEMMA InstructionsAreStill ==
    ASSUME NEW w, Sound(w), NEW t, NEW c
    PROVE  Still(w, Runs(w, t, c)) /\ Still(w, InstrEnds(w, t))
<1>1. Still(w, Process(w, Susp(t)))
  BY ProcessIsStill, TheyFit
<1>2. \A at : Still(w, Post([w EXCEPT !.tk[t].cost = c, !.tk[t].last = w.now],
                            InstrEvt(t), at))
  <2> DEFINE v == [w EXCEPT !.tk[t].cost = c, !.tk[t].last = w.now]
  <2>1. Still(w, v) /\ Sound(v)
    BY TaskEditsAreStill, StillIsLocal
  <2> HIDE DEF v
  <2>2. \A at : Still(v, Post(v, InstrEvt(t), at))
    BY <2>1, PostIsStill, TheyFit
  <2>3. \A at : Still(w, Post(v, InstrEvt(t), at))
    BY <2>1, <2>2, StillChain
  <2> QED
    BY <2>3 DEF v
<1>3. Still(w, Runs(w, t, c))
  BY <1>1, <1>2 DEF Runs
<1>4. Still(w, InstrEnds(w, t))
  <2> DEFINE v == [w EXCEPT !.tk[t].actInstr = w.tk[t].actInstr + 1]
             e == [v EXCEPT !.tk[t].endAt = w.now]
  <2>1. Still(w, v) /\ Sound(v)
    BY TaskEditsAreStill, StillIsLocal
  <2>2. InstrEnds(w, t) = IF w.tk[t].state = "IDLE"
                          THEN Throw(w, "TaskNotActive")
                          ELSE IF w.tk[t].actInstr = Len(Program[t])
                          THEN Post(e, EndEvt(t), w.now) ELSE v
    BY DEF InstrEnds
  <2> HIDE DEF v
  <2>3. Still(w, e) /\ Sound(e)
    <3>1. \A y : Still(v, [v EXCEPT !.tk[t].endAt = y])
      BY <2>1, TaskEditsAreStill
    <3>2. Still(v, e)
      BY <3>1
    <3> HIDE DEF e
    <3> QED
      BY <2>1, <3>2, StillChain, StillIsLocal
  <2> HIDE DEF e
  <2>4. Still(w, Post(e, EndEvt(t), w.now))
    BY <2>3, PostIsStill, TheyFit, StillChain
  <2>5. Still(w, Throw(w, "TaskNotActive"))
    BY ThrowIsStill
  <2> QED
    BY <2>1, <2>2, <2>4, <2>5
<1> QED
  BY <1>3, <1>4

-----------------------------------------------------------------------------
(* The handlers.                                                             *)

NowWorld ==
    [now |-> now, q |-> agenda, exc |-> exc,
     queue |-> queue, insertTime |-> insertTime, currExe |-> currExe,
     sv |-> sv, tk |-> tk, sup |-> sup]

(* The inductive invariant: the account is right, the servers' records have *)
(* their fields, and every event that is posted is of a server whose class  *)
(* handles it.                                                              *)
AccountInv == Balanced(NowWorld)

LEMMA HandlerStarts ==
    ASSUME AccountInv, NEW e, Handles(e)
    PROVE  /\ Balanced(World) /\ Sound(World) /\ Fits(World, e)
           /\ World.sv = sv /\ World.tk = tk /\ World.currExe = currExe
<1> DEFINE n == NowWorld
           w == World
<1>1. /\ On(w, WorldFields) /\ w.q = Tail(agenda) /\ w.sv = n.sv /\ w.sup = n.sup
      /\ w.sv = sv /\ w.tk = tk /\ w.currExe = currExe
      /\ n.q = agenda
  BY DEF On, WorldFields, World, NowWorld
<1>2. Sound(n)
  BY DEF AccountInv, Balanced
<1>3. agenda # <<>> /\ Head(agenda).ev = e
  BY DEF Handles
<1> HIDE DEF n, w
<1>4. PICK S : agenda \in Seq(S)
  BY <1>1, <1>2 DEF Sound
<1>5. /\ Tail(agenda) \in Seq(S)
      /\ \A f : IsPosted(Tail(agenda), f) => IsPosted(agenda, f)
      /\ IsPosted(agenda, e)
  <2>1. /\ Len(agenda) \in Nat \ {0} /\ DOMAIN agenda = 1..Len(agenda)
        /\ Len(Tail(agenda)) = Len(agenda) - 1
        /\ Tail(agenda) \in Seq(S)
        /\ DOMAIN Tail(agenda) = 1..Len(agenda) - 1
        /\ \A i \in 1..Len(agenda) - 1 : Tail(agenda)[i] = agenda[i + 1]
        /\ Head(agenda) = agenda[1]
    BY <1>3, <1>4
  <2>2. \A i \in 1..Len(agenda) - 1 : i + 1 \in DOMAIN agenda
    BY <2>1
  <2>3. 1 \in DOMAIN agenda
    BY <2>1
  <2> QED
    BY <1>3, <2>1, <2>2, <2>3 DEF IsPosted
<1>6. \A f : Fits(n, f) => Fits(w, f)
  BY <1>1 DEF Fits
<1>7. \A f : IsPosted(agenda, f) => Fits(w, f)
  BY <1>1, <1>2, <1>6 DEF Sound
<1>8. Sound(w)
  BY <1>1, <1>2, <1>5, <1>7 DEF Sound
<1>9. Still(n, w)
  BY <1>1, <1>8 DEF Still
<1>10. Balanced(w)
  BY <1>9, StillBalanced DEF AccountInv, n
<1> QED
  BY <1>1, <1>5, <1>7, <1>8, <1>10 DEF w

LEMMA HandlerEnds ==
    ASSUME NEW w, Balanced(w), Becomes(w)
    PROVE  AccountInv'
<1> DEFINE n == NowWorld'
<1>1. On(n, WorldFields) /\ n.sv = w.sv /\ n.q = w.q /\ n.sup = w.sup
  BY DEF NowWorld, On, WorldFields, Becomes
<1> HIDE DEF n
<1>2. Still(w, n)
  BY <1>1, ElsewhereChanged DEF Balanced
<1>3. Balanced(n)
  BY <1>2, StillBalanced
<1> QED
  BY <1>3 DEF AccountInv, n

LEMMA KernelKeeps ==
    ASSUME AccountInv, OnBeginDispatch \/ OnEndDispatch
    PROVE  AccountInv'
<1>1. CASE OnBeginDispatch
  <2> DEFINE w == World
             c == currExe[Kernel]
             n == First(w, Kernel)
             d == IF c = None THEN w ELSE Deschedule(w, c)
             e == SetExe(d, Kernel, n)
             p == Post(e, EndDisp, w.now)
  <2>1. Balanced(w) /\ Sound(w)
    BY <1>1, HandlerStarts DEF OnBeginDispatch
  <2>2. Becomes(CASE n = c -> w [] n = None -> d [] OTHER -> Post(e, EndDisp, w.now))
    BY <1>1 DEF OnBeginDispatch
  <2> HIDE DEF w, c, n
  <2>3. Balanced(d) /\ Sound(d)
    BY <2>1, SchedulingIsStill, StillBalanced DEF Balanced
  <2> HIDE DEF d
  <2>4. Balanced(e) /\ Sound(e)
    BY <2>3, QueuesAreStill, StillBalanced DEF Balanced
  <2> HIDE DEF e
  <2>5. Balanced(p)
    BY <2>4, PostIsStill, TheyFit, StillBalanced DEF Balanced
  <2>6. Becomes(w) \/ Becomes(d) \/ Becomes(p)
    <3>1. CASE n = c
      BY <2>2, <3>1
    <3>2. CASE n # c /\ n = None
      BY <2>2, <3>2
    <3>3. CASE n # c /\ n # None
      BY <2>2, <3>3
    <3> QED
      BY <3>1, <3>2, <3>3
  <2> HIDE DEF p
  <2> QED
    BY <2>1, <2>3, <2>5, <2>6, HandlerEnds
<1>2. CASE OnEndDispatch
  <2>1. Balanced(World)
    BY <1>2, HandlerStarts DEF OnEndDispatch
  <2>2. /\ Balanced(Throw(World, "NullPointer"))
        /\ Balanced(Schedule(World, currExe[Kernel]))
    BY <2>1, ThrowIsStill, SchedulingIsStill, StillBalanced DEF Balanced
  <2> QED
    BY <1>2, <2>2, HandlerEnds DEF OnEndDispatch
<1> QED
  BY <1>1, <1>2

LEMMA ServerKeeps ==
    ASSUME AccountInv, NEW s \in Servers,
           \/ OnServerSched(s) \/ OnServerDesched(s) \/ OnServerDispatch(s)
           \/ OnBudgetExhausted(s) \/ OnRecharging(s)
    PROVE  AccountInv'
<1> DEFINE w == World
<1>1. Balanced(w) /\ Sound(w) /\ w.sv[s].status = sv[s].status
  BY HandlerStarts DEF OnServerSched, OnServerDesched, OnServerDispatch,
                       OnBudgetExhausted, OnRecharging
<1>2. \A x : Balanced(Throw(w, x))
  <2> HIDE DEF w
  <2> QED
    BY <1>1, ThrowIsStill, StillBalanced
<1>3. CASE OnServerSched(s)
  <2>1. ASSUME sv[s].status = "READY" PROVE Balanced(ServerDispatch(ReadyExecuting(w, s), s))
    <3> DEFINE v == ReadyExecuting(w, s)
    <3>1. Balanced(v)
      <4> HIDE DEF w
      <4> QED
        BY <1>1, <2>1, MethodsBalance
    <3> HIDE DEF v
    <3>2. Balanced(ServerDispatch(v, s))
      BY <3>1, DispatchIsStill, StillBalanced DEF Balanced
    <3> QED
      BY <3>2 DEF v
  <2> QED
    BY <1>2, <1>3, <2>1, HandlerEnds DEF OnServerSched
<1>4. CASE OnServerDesched(s)
  <2>1. Balanced(StopsTask(w, s))
    BY <1>1, StopBalances
  <2> QED
    BY <1>1, <1>4, <2>1, HandlerEnds DEF OnServerDesched
<1>5. CASE OnServerDispatch(s)
  <2> DEFINE v == SwitchTasks(w, s)
             z == KernelDispatch(KernelSuspend(ExecutingReleasing(v, s), s))
  <2>1. Still(w, v)
    BY <1>1, SwitchIsStill
  <2>2. Balanced(v) /\ v.sv[s].status = sv[s].status
    BY <1>1, <2>1, StillBalanced DEF Still
  <2>3. ASSUME sv[s].status = "EXECUTING" PROVE Balanced(z)
    <3> HIDE DEF v
    <3> QED
      BY <2>2, <2>3, LeaveBalances
  <2>4. Becomes(IF sv[s].status # "EXECUTING" THEN Throw(w, "NotExecuting")
                ELSE IF v.currExe[s] # None THEN v ELSE z)
    BY <1>5 DEF OnServerDispatch
  <2> HIDE DEF v, z, w
  <2>5. CASE sv[s].status # "EXECUTING" /\ Becomes(Throw(w, "NotExecuting"))
    BY <1>2, <2>5, HandlerEnds
  <2>6. CASE Becomes(v)
    BY <2>2, <2>6, HandlerEnds
  <2>7. CASE sv[s].status = "EXECUTING" /\ Becomes(z)
    BY <2>3, <2>7, HandlerEnds
  <2> QED
    BY <2>4, <2>5, <2>6, <2>7
<1>6. CASE OnBudgetExhausted(s)
  <2>1. sv[s].status = "EXECUTING" => Balanced(Exhausted(w, s))
    <3> HIDE DEF w
    <3> QED
      BY <1>1, ExhaustedBalances
  <2> QED
    BY <1>2, <1>6, <2>1, HandlerEnds DEF OnBudgetExhausted
<1>7. CASE OnRecharging(s)
  <2> DEFINE y == KernelOnArrival(RechargingReady(w, s), s)
             z == SetExe(RechargingIdle(w, s), s, None)
  <2>1. Fits(w, Recharge(s))
    BY <1>7, HandlerStarts DEF OnRecharging
  <2>2. sv[s].status = "RECHARGING" => Balanced(y) /\ Balanced(z)
    <3> HIDE DEF w
    <3> QED
      BY <1>1, <2>1, RechargeBalances
  <2>3. Becomes(IF sv[s].status # "RECHARGING" THEN Throw(w, "NotRecharging")
                ELSE IF First(w, s) # None THEN y ELSE z)
    BY <1>7 DEF OnRecharging
  <2> HIDE DEF y, z, w
  <2>4. CASE Becomes(Throw(w, "NotRecharging"))
    BY <1>2, <2>4, HandlerEnds
  <2>5. CASE sv[s].status = "RECHARGING" /\ (Becomes(y) \/ Becomes(z))
    BY <2>2, <2>5, HandlerEnds
  <2>6. CASE sv[s].status # "RECHARGING"
    BY <2>3, <2>4, <2>6
  <2>7. CASE sv[s].status = "RECHARGING" /\ First(w, s) # None
    BY <2>3, <2>5, <2>7
  <2>8. CASE sv[s].status = "RECHARGING" /\ First(w, s) = None
    BY <2>3, <2>5, <2>8
  <2> QED
    BY <2>6, <2>7, <2>8
<1> QED
  BY <1>3, <1>4, <1>5, <1>6, <1>7

LEMMA BudgetKeeps ==
    ASSUME AccountInv, NEW s \in Servers,
           OnReplenishment(s) \/ OnIdle(s) \/ OnChangeBudget(s)
    PROVE  AccountInv'
<1> DEFINE w == World
<1>1. Balanced(w) /\ Sound(w)
  BY HandlerStarts DEF OnReplenishment, OnIdle, OnChangeBudget
<1>2. CASE OnReplenishment(s)
  <2>1. Fits(w, Repl(s))
    BY <1>2, HandlerStarts DEF OnReplenishment
  <2>2. Balanced(IF IsCBS(w, s) THEN CBS!OnReplenishment(w, s)
                                ELSE SS!OnReplenishment(w, s))
    <3> HIDE DEF w
    <3> QED
      BY <1>1, <2>1, EventsBalance
  <2> QED
    BY <1>2, <2>2, HandlerEnds DEF OnReplenishment
<1>3. CASE OnIdle(s)
  <2>1. Handles(CBSIdle(s)) => Balanced(CBS!OnIdle(w, s))
    <3>1. Handles(CBSIdle(s)) => Fits(w, CBSIdle(s))
      BY HandlerStarts
    <3> HIDE DEF w
    <3> QED
      BY <1>1, <3>1, EventsBalance
  <2>2. Handles(Idle(s)) =>
           Balanced(IF Kind(w, s) = "grub" THEN GRUB!OnIdle(w, s) ELSE SS!OnIdle(w, s))
    <3>1. Handles(Idle(s)) => Fits(w, Idle(s))
      BY HandlerStarts
    <3> HIDE DEF w
    <3> QED
      BY <1>1, <3>1, EventsBalance
  <2>3. \/ Handles(CBSIdle(s)) /\ Becomes(CBS!OnIdle(w, s))
        \/ /\ Handles(Idle(s))
           /\ Becomes(IF Kind(w, s) = "grub" THEN GRUB!OnIdle(w, s) ELSE SS!OnIdle(w, s))
    BY <1>3 DEF OnIdle
  <2> HIDE DEF w
  <2> QED
    BY <2>1, <2>2, <2>3, HandlerEnds
<1>4. CASE OnChangeBudget(s)
  <2>1. PICK n \in NewBudgets[s] :
           Becomes(CASE IsCBS(w, s)            -> CBS!ChangeBudget(w, s, n)
                     [] Kind(w, s) = "polling"  -> PS!ChangeBudget(w, s, n)
                     [] Kind(w, s) = "sporadic" -> SS!ChangeBudget(w, s, n)
                     [] Kind(w, s) = "grub"     -> Throw(w, "NothingToDo"))
    BY <1>4 DEF OnChangeBudget
  <2> HIDE DEF w
  <2>2. IsCBS(w, s) \/ Kind(w, s) \in {"polling", "sporadic", "grub"}
    BY <1>1, ClassOf
  <2>3. /\ IsCBS(w, s) => Balanced(CBS!ChangeBudget(w, s, n))
        /\ Kind(w, s) = "polling" => Balanced(PS!ChangeBudget(w, s, n))
        /\ Kind(w, s) = "sporadic" => Balanced(SS!ChangeBudget(w, s, n))
        /\ Balanced(Throw(w, "NothingToDo"))
    BY <1>1, EventsBalance, ThrowIsStill, StillBalanced
  <2>4. PICK z : Balanced(z) /\ Becomes(z)
    <3>1. IsCBS(w, s) => Kind(w, s) \notin {"polling", "sporadic", "grub"}
      BY DEF IsCBS
    <3> QED
      BY <2>1, <2>2, <2>3, <3>1
  <2> QED
    BY <2>4, HandlerEnds
<1> QED
  BY <1>2, <1>3, <1>4

LEMMA JobsKeep ==
    ASSUME AccountInv, NEW t \in Tasks,
           OnArrival(t) \/ OnFakeArrival(t) \/ OnEndInstance(t)
    PROVE  AccountInv'
<1> DEFINE w == World
<1>1. Balanced(w) /\ Sound(w) /\ w.tk = tk
  BY HandlerStarts DEF OnArrival, OnFakeArrival, OnEndInstance
<1>2. \A v : Balanced(v) => Sound(v) /\ (\A z : Still(v, z) => Balanced(z))
  BY StillBalanced DEF Balanced
<1>3. CASE OnArrival(t)
  <2> DEFINE j == JobStarts(w, t, w.now)
             a == HomeOnArrival(j, t)
             b == [w EXCEPT !.tk[t].arrQueue = Append(w.tk[t].arrQueue, w.now)]
             v == IF tk[t].state = "IDLE" THEN a ELSE b
  <2>1. Balanced(j) /\ Balanced(b)
    <3> HIDE DEF w
    <3> QED
      BY <1>1, <1>2, TaskEditsAreStill
  <2>2. Balanced(v) /\ Sound(v)
    <3> HIDE DEF w, j, b
    <3> QED
      BY <1>2, <2>1, HomesBalance
  <2>3. \/ Becomes(v)
        \/ \E p \in Periods[t] :
              Becomes(Post([v EXCEPT !.tk[t].arrAt = w.now + p], Arr(t), w.now + p))
    BY <1>3 DEF OnArrival
  <2> HIDE DEF v, w
  <2>4. ASSUME NEW p \in Periods[t]
        PROVE  Balanced(Post([v EXCEPT !.tk[t].arrAt = w.now + p], Arr(t), w.now + p))
    <3> DEFINE z == [v EXCEPT !.tk[t].arrAt = w.now + p]
    <3>1. Balanced(z) /\ Sound(z)
      BY <1>2, <2>2, TaskEditsAreStill
    <3> HIDE DEF z
    <3>2. Balanced(Post(z, Arr(t), w.now + p))
      BY <1>2, <3>1, PostIsStill, TheyFit
    <3> QED
      BY <3>2 DEF z
  <2> QED
    BY <2>2, <2>3, <2>4, HandlerEnds
<1>4. CASE OnFakeArrival(t)
  <2> DEFINE b == tk[t].arrQueue
             v == [w EXCEPT !.tk[t].arrQueue = Tail(b)]
             j == JobStarts(v, t, b[1])
  <2>1. Balanced(v) /\ Balanced(Throw(w, "TaskAlreadyActive"))
    <3> HIDE DEF w
    <3> QED
      BY <1>1, <1>2, TaskEditsAreStill, ThrowIsStill
  <2>2. Balanced(j)
    <3> HIDE DEF v, b
    <3> QED
      BY <1>2, <2>1, TaskEditsAreStill
  <2>3. Balanced(HomeOnArrival(j, t))
    <3> HIDE DEF j
    <3> QED
      BY <2>2, HomesBalance
  <2>4. \/ Becomes(Throw(w, "TaskAlreadyActive"))
        \/ Becomes(HomeOnArrival(j, t))
    BY <1>4 DEF OnFakeArrival
  <2> HIDE DEF j, w
  <2> QED
    BY <2>1, <2>3, <2>4, HandlerEnds
<1>5. CASE OnEndInstance(t)
  <2> DEFINE a == [w EXCEPT !.tk[t].actInstr = 1]
             h == HomeOnEnd(a, t)
             v == [h EXCEPT !.tk[t].state = "IDLE"]
  <2>1. Balanced(a) /\ Balanced(Throw(w, "TaskNotExecuting"))
    <3> HIDE DEF w
    <3> QED
      BY <1>1, <1>2, TaskEditsAreStill, ThrowIsStill
  <2>2. Balanced(h) /\ Sound(h)
    <3> HIDE DEF a
    <3> QED
      BY <1>2, <2>1, HomesBalance
  <2>3. Balanced(v) /\ Sound(v)
    <3> HIDE DEF h
    <3> QED
      BY <1>2, <2>2, TaskEditsAreStill
  <2>4. Balanced(Process(v, FakeArr(t)))
    <3> HIDE DEF v
    <3> QED
      BY <1>2, <2>3, ProcessIsStill, TheyFit
  <2>5. Becomes(IF tk[t].state # "EXEC" THEN Throw(w, "TaskNotExecuting")
                ELSE IF tk[t].arrQueue = <<>> THEN v ELSE Process(v, FakeArr(t)))
    BY <1>5 DEF OnEndInstance
  <2> HIDE DEF v, w
  <2>6. CASE tk[t].state # "EXEC"
    BY <2>1, <2>5, <2>6, HandlerEnds
  <2>7. CASE tk[t].state = "EXEC" /\ tk[t].arrQueue = <<>>
    BY <2>3, <2>5, <2>7, HandlerEnds
  <2>8. CASE tk[t].state = "EXEC" /\ tk[t].arrQueue # <<>>
    BY <2>4, <2>5, <2>8, HandlerEnds
  <2> QED
    BY <2>6, <2>7, <2>8
<1> QED
  BY <1>3, <1>4, <1>5

LEMMA SchedulingKeeps ==
    ASSUME AccountInv, NEW t \in Tasks, OnTaskSched(t) \/ OnTaskDesched(t)
    PROVE  AccountInv'
<1> DEFINE w == World
<1>1. Balanced(w) /\ Sound(w) /\ w.tk = tk
  BY HandlerStarts DEF OnTaskSched, OnTaskDesched
<1>2. \A v : Balanced(v) => Sound(v) /\ (\A z : Still(v, z) => Balanced(z))
  BY StillBalanced DEF Balanced
<1>3. \A x : Balanced(Throw(w, x))
  <2> HIDE DEF w
  <2> QED
    BY <1>1, <1>2, ThrowIsStill
<1>4. CASE OnTaskSched(t)
  <2> DEFINE a == [w EXCEPT !.tk[t].state = "EXEC"]
             v == Drop(a, Desched(t))
  <2>1. Balanced(a)
    <3> HIDE DEF w
    <3> QED
      BY <1>1, <1>2, TaskEditsAreStill
  <2>2. Balanced(v)
    <3> HIDE DEF a
    <3> QED
      BY <1>2, <2>1, DropIsStill
  <2>3. \A c : Balanced(Runs(v, t, c))
    <3> HIDE DEF v
    <3> QED
      BY <1>2, <2>2, InstructionsAreStill
  <2>4. \/ Becomes(Throw(w, "TaskNotReady")) \/ Becomes(Throw(w, "NoInstruction"))
        \/ \E c \in Costs(v, t) : Becomes(Runs(v, t, c))
    BY <1>4 DEF OnTaskSched
  <2> HIDE DEF v, w
  <2> QED
    BY <1>3, <2>3, <2>4, HandlerEnds
<1>5. CASE OnTaskDesched(t)
  <2> DEFINE a == [w EXCEPT !.tk[t].state = "READY"]
             b == Drop(a, EndEvt(t))
             v == Drop(b, InstrEvt(t))
             d == v.tk[t].done + w.now - tk[t].last
             z == [v EXCEPT !.tk[t].last = w.now, !.tk[t].done = d]
  <2>1. Balanced(a)
    <3> HIDE DEF w
    <3> QED
      BY <1>1, <1>2, TaskEditsAreStill
  <2>2. Balanced(b)
    <3> HIDE DEF a
    <3> QED
      BY <1>2, <2>1, DropIsStill
  <2>3. Balanced(v)
    <3> HIDE DEF b
    <3> QED
      BY <1>2, <2>2, DropIsStill
  <2>4. Balanced(z)
    <3> HIDE DEF v, d
    <3> QED
      BY <1>2, <2>3, TaskEditsAreStill
  <2>5. Becomes(IF tk[t].state # "EXEC" THEN Throw(w, "TaskNotExecuting")
                ELSE IF tk[t].actInstr > Len(Program[t]) THEN Throw(w, "NoInstruction")
                ELSE IF ~IsPosted(w.q, InstrEvt(t)) THEN v
                ELSE [v EXCEPT !.tk[t].last = w.now,
                          !.tk[t].done = @ + w.now - tk[t].last])
    BY <1>5 DEF OnTaskDesched
  <2>6. [v EXCEPT !.tk[t].last = w.now, !.tk[t].done = @ + w.now - tk[t].last] = z
    <3> HIDE DEF v, w
    <3> QED
      OBVIOUS
  <2> HIDE DEF v, w, z
  <2>7. \/ Becomes(Throw(w, "TaskNotExecuting")) \/ Becomes(Throw(w, "NoInstruction"))
        \/ Becomes(v) \/ Becomes(z)
    <3> DEFINE l == tk[t].actInstr > Len(Program[t])
               p == IsPosted(w.q, InstrEvt(t))
    <3>0. Becomes(IF tk[t].state # "EXEC" THEN Throw(w, "TaskNotExecuting")
                  ELSE IF l THEN Throw(w, "NoInstruction")
                  ELSE IF ~p THEN v ELSE z)
      BY <2>5, <2>6
    <3> HIDE DEF l, p
    <3>1. CASE tk[t].state # "EXEC"
      BY <3>0, <3>1
    <3>2. CASE tk[t].state = "EXEC" /\ l
      BY <3>0, <3>2
    <3>3. CASE tk[t].state = "EXEC" /\ ~l /\ ~p
      BY <3>0, <3>3
    <3>4. CASE tk[t].state = "EXEC" /\ ~l /\ p
      BY <3>0, <3>4
    <3> QED
      BY <3>1, <3>2, <3>3, <3>4
  <2> QED
    BY <1>3, <2>3, <2>4, <2>7, HandlerEnds
<1> QED
  BY <1>4, <1>5

LEMMA InstructionsKeep ==
    ASSUME AccountInv, NEW t \in Tasks,
           OnInstrEnd(t) \/ OnSuspend(t) \/ OnResume(t)
    PROVE  AccountInv'
<1> DEFINE w == World
<1>1. Balanced(w) /\ Sound(w) /\ w.tk = tk
  BY HandlerStarts DEF OnInstrEnd, OnSuspend, OnResume
<1>2. \A v : Balanced(v) => Sound(v) /\ (\A z : Still(v, z) => Balanced(z))
  BY StillBalanced DEF Balanced
<1>3. CASE OnInstrEnd(t)
  <2> DEFINE a == [w EXCEPT !.tk[t].cost = Undrawn, !.tk[t].done = 0,
                            !.tk[t].last = w.now]
             v == InstrEnds(a, t)
  <2>1. Balanced(a)
    <3> HIDE DEF w
    <3> QED
      BY <1>1, <1>2, TaskEditsAreStill
  <2>2. Balanced(v)
    <3> HIDE DEF a
    <3> QED
      BY <1>2, <2>1, InstructionsAreStill
  <2>3. \A c : Balanced(Runs(v, t, c))
    <3> HIDE DEF v
    <3> QED
      BY <1>2, <2>2, InstructionsAreStill
  <2>4. Becomes(v) \/ \E c \in Costs(v, t) : Becomes(Runs(v, t, c))
    BY <1>3 DEF OnInstrEnd
  <2> HIDE DEF v
  <2> QED
    BY <2>2, <2>3, <2>4, HandlerEnds
<1>4. CASE OnSuspend(t)
  <2> DEFINE v == HomeSuspend(w, t)
             p == w.now + Instr(w, t).delay
  <2>1. Balanced(v)
    <3> HIDE DEF w
    <3> QED
      BY <1>1, HomesBalance
  <2>2. Balanced(Post(v, Resume(t), p))
    <3> HIDE DEF v, p
    <3> QED
      BY <1>2, <2>1, PostIsStill, TheyFit
  <2>3. Becomes(Post(v, Resume(t), p))
    BY <1>4 DEF OnSuspend
  <2> HIDE DEF v, p
  <2> QED
    BY <2>2, <2>3, HandlerEnds
<1>5. CASE OnResume(t)
  <2> DEFINE v == InstrEnds(w, t)
  <2>1. Balanced(v)
    <3> HIDE DEF w
    <3> QED
      BY <1>1, <1>2, InstructionsAreStill
  <2>2. Balanced(HomeOnArrival(v, t))
    <3> HIDE DEF v
    <3> QED
      BY <2>1, HomesBalance
  <2> QED
    BY <1>5, <2>2, HandlerEnds DEF OnResume
<1> QED
  BY <1>3, <1>4, <1>5

-----------------------------------------------------------------------------
(* All handlers.                                                             *)

LEMMA AccountAtFirst ==
    Init => AccountInv
<1> SUFFICES ASSUME Init PROVE AccountInv
  OBVIOUS
<1> DEFINE n == NowWorld
<1>1. PICK at, ch, k :
         /\ k \in OneOfEach(Kinds)
         /\ agenda = FirstEvents(at, ch)
         /\ sv = [s \in Servers |-> NewServer(s, k[s])]
  BY DEF Init
<1>2. /\ On(n, WorldFields) /\ n.q = agenda /\ n.sv = sv
      /\ n.sup = [active |-> 0, residual |-> 0]
  BY DEF On, WorldFields, NowWorld, Init
<1>3. \A s \in Servers : k[s] \in Classes
  BY <1>1, KindAssumption DEF OneOfEach
<1>4. \A s \in Servers : On(sv[s], ServerFields) /\ sv[s].kind \in Classes
                         /\ sv[s].status = "IDLE"
  BY <1>1, <1>3 DEF NewServer, On, ServerFields
<1>5. On(sv, Servers)
  BY <1>1 DEF On
<1> DEFINE Posting    == Tasks \cup {s \in Servers : ch[s] # Never}
           Time(x)    == IF x \in Tasks THEN at[x] ELSE ch[x]
           Event(x)   == IF x \in Tasks THEN Arr(x) ELSE ChangeEvt(x)
           Sooner(y, x) == IF (y \in Tasks) = (x \in Tasks)
                           THEN Number(y) < Number(x) ELSE y \in Tasks
           Earlier(x) == {y \in Posting : \/ Time(y) < Time(x)
                                          \/ Time(y) = Time(x) /\ Sooner(y, x)}
           Nth(i)     == CHOOSE x \in Posting : Cardinality(Earlier(x)) + 1 = i
           N          == Cardinality(Posting)
           E          == [i \in 1..N |-> Entry(Event(Nth(i)), Time(Nth(i)), 8)]
<1>6. agenda = E
  BY <1>1 DEF FirstEvents
<1>7. N \in Nat
  <2>1. Posting \in SUBSET Entities
    BY DEF Entities
  <2> HIDE DEF Posting
  <2> QED
    BY <2>1, ServersAreFinite, FS_Subset, FS_CardinalityType
<1>8. \A x : Fits(n, Event(x))
  BY TheyFit
<1>9. \A i \in 1..N : E[i].ev = Event(Nth(i))
  BY DEF Entry
<1>10. \E S : E \in Seq(S)
  <2> DEFINE S == {E[i] : i \in 1..N}
  <2>1. E = [i \in 1..N |-> E[i]]
    OBVIOUS
  <2>2. \A i \in 1..N : E[i] \in S
    OBVIOUS
  <2> HIDE DEF E, N, S
  <2>3. [i \in 1..N |-> E[i]] \in Seq(S)
    BY <1>7, <2>2
  <2> QED
    BY <2>1, <2>3
<1>11. DOMAIN E = 1..N
  OBVIOUS
<1> HIDE DEF E, N, Event, Nth
<1>12. \A e : IsPosted(E, e) => Fits(n, e)
  BY <1>8, <1>9, <1>11 DEF IsPosted
<1> HIDE DEF n
<1>13. Sound(n)
  <2>1. On(n.sup, {"active", "residual"})
    BY <1>2 DEF On
  <2> QED
    BY <1>2, <1>4, <1>5, <1>6, <1>10, <1>12, <2>1 DEF Sound
<1>14. Using(n) = {}
  BY <1>2, <1>4 DEF Using
<1>15. n.sup.active = SumFunctionOnSet(Bandwidths, Using(n))
  BY <1>2, <1>14, SumOfNone
<1> QED
  BY <1>13, <1>15 DEF AccountInv, Balanced, n

LEMMA AccountIsKept ==
    AccountInv /\ [Next]_vars => AccountInv'
<1> SUFFICES ASSUME AccountInv, [Next]_vars PROVE AccountInv'
  OBVIOUS
<1>1. CASE Steps
  <2>1. CASE OnBeginDispatch \/ OnEndDispatch
    BY <2>1, KernelKeeps
  <2>2. CASE \E s \in Servers : \/ OnServerSched(s) \/ OnServerDesched(s)
                                \/ OnServerDispatch(s) \/ OnBudgetExhausted(s)
                                \/ OnRecharging(s)
    BY <2>2, ServerKeeps
  <2>3. CASE \E s \in Servers : OnReplenishment(s) \/ OnIdle(s) \/ OnChangeBudget(s)
    BY <2>3, BudgetKeeps
  <2>4. CASE \E t \in Tasks : OnArrival(t) \/ OnFakeArrival(t) \/ OnEndInstance(t)
    BY <2>4, JobsKeep
  <2>5. CASE \E t \in Tasks : OnTaskSched(t) \/ OnTaskDesched(t)
    BY <2>5, SchedulingKeeps
  <2>6. CASE \E t \in Tasks : OnInstrEnd(t) \/ OnSuspend(t) \/ OnResume(t)
    BY <2>6, InstructionsKeep
  <2> QED
    BY <1>1, <2>1, <2>2, <2>3, <2>4, <2>5, <2>6 DEF Steps
<1>2. CASE Over \/ UNCHANGED vars
  <2>1. NowWorld' = NowWorld
    BY <1>2 DEF Over, vars, NowWorld
  <2> QED
    BY <2>1 DEF AccountInv
<1> QED
  BY <1>1, <1>2 DEF Next

LEMMA AccountIsRight ==
    AccountInv => ActiveIsInUse
<1> SUFFICES ASSUME AccountInv PROVE ActiveIsInUse
  OBVIOUS
<1>1. NowWorld.sup = sup /\ NowWorld.sv = sv
  BY DEF NowWorld
<1>2. Using(NowWorld) = {s \in Servers : sv[s].kind = "grub" /\ Status(s) # "IDLE"}
  BY <1>1 DEF Using, Status
<1> QED
  BY <1>1, <1>2 DEF AccountInv, Balanced, ActiveIsInUse, Bandwidths

(* The supervisor's account of the bandwidth in use is that of the GRUB      *)
(* servers that are not idle: no order in which servers begin to work,       *)
(* recharge, release what they keep and go idle, and no exception among      *)
(* them, makes GrubSupervisor::update_act_bw count a server twice or forget  *)
(* one.                                                                      *)
THEOREM ActiveIsTheUse == Spec => []ActiveIsInUse
<1>1. Init => AccountInv
  BY AccountAtFirst
<1>2. AccountInv /\ [Next]_vars => AccountInv'
  BY AccountIsKept
<1>3. AccountInv => ActiveIsInUse
  BY AccountIsRight
<1> QED
  BY <1>1, <1>2, <1>3, PTL DEF Spec
=============================================================================
