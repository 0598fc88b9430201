---------------------------- MODULE RTKernel_proofs ----------------------------
(***************************************************************************)
(* What the single-processor kernel does for every task set, every          *)
(* scheduler and every number of resources: its types are kept, no handler  *)
(* throws but that of a fakeArr event an earlier run left urgent, whoever   *)
(* executes is timed, a job that ends leaves nothing behind, no task is     *)
(* lost, no buffered arrival forgotten, no unit kept from who waits for it, *)
(* jobs are served in order, the CPU has the first task of the ready queue, *)
(* units are neither lost nor made, and nobody is served before those who   *)
(* asked earlier.  When programs only execute, it implements FluidCPU.      *)
(***************************************************************************)
EXTENDS RTKernel, Agenda_proofs

(* What the results need of the programs and of the kernel; the suspend and *)
(* default runs, and the findings, show what happens without.               *)
Sound ==
    /\ ContextSwitchDelay = 0
    /\ \A t \in Tasks :
          /\ Program[t][Len(Program[t])].op # "suspend"
          /\ t \in KillOnMiss =>
                \A i \in DOMAIN Program[t] : Program[t][i].op = "exec"

-----------------------------------------------------------------------------
(* The invariant.                                                            *)

Kinds == {"arr", "fakeArr", "instr", "end", "kill", "dead", "sched",
          "desched", "susp", "resume"}

Events == {Begin, EndDisp, Round} \cup (Kinds \X Tasks)

EventEntry == [ev : Events, at : Nat, prio : Nat]

(* When, and with what priority, an event may be posted at the time n. *)
Timed(x, n) ==
    /\ x.at >= n
    /\ \/ x.ev[1] \in {"sched", "desched", "susp"} /\ x.at = n /\ x.prio = 0
       \/ x.ev[1] = "instr" /\ x.prio = 5
       \/ x.ev[1] \in {"end", "kill"} /\ x.at = n /\ x.prio = 6
       \/ x.ev[1] = "dead" /\ x.prio \in {0, 9}
       \/ x.ev[1] \in {"arr", "resume", "RoundRobinRound"} /\ x.prio = 8
       \/ x.ev[1] \in {"beginDispatch", "endDispatch"} /\ x.at = n /\ x.prio = 18
       \/ x.ev[1] = "fakeArr" /\ x.at = n /\ x.prio \in {0, 8}

GoodAgenda(q, n) ==
    /\ q \in Seq(EventEntry)
    /\ Proper(q)
    /\ \A x \in Entries(q) : Timed(x, n)

(* The events of a job in the agenda q. *)
JobKinds == {"instr", "end", "kill", "sched", "desched", "susp", "resume"}

Of(q, t) == {k \in JobKinds : IsPosted(q, <<k, t>>)}

IsBlocked(t) == \E r \in Resources : \E i \in DOMAIN blocked[r] :
                    blocked[r][i].task = t

Typed ==
    /\ now \in Nat
    /\ call \in Tasks \cup {None}
    /\ queue \subseteq Tasks
    /\ insertTime \in [Tasks -> Nat]
    /\ currExe \in Tasks \cup {None}
    /\ run \in 1..Runs /\ urgent \subseteq MayStayUrgent
    /\ phase \in [Tasks -> Nat]
    /\ policy \in Policies /\ lastSched \in [Tasks -> Nat]
    /\ state \in [Tasks -> {"IDLE", "READY", "EXEC"}]
    /\ actInstr \in [Tasks -> Nat]
    /\ arrival \in [Tasks -> Nat] /\ dl \in [Tasks -> Nat]
    /\ arrQueue \in [Tasks -> Seq(Nat)]
    /\ cost \in [Tasks -> Nat \cup {Undrawn}]
    /\ done \in [Tasks -> Nat] /\ lastTime \in [Tasks -> Nat]
    /\ waiting \in [Tasks -> BOOLEAN]
    /\ available \in [Resources -> Nat]
    /\ blocked \in [Resources -> Seq([task : Tasks, nr : Nat])]

(* A task is in one of these situations; k are the events of its job. *)
Scheduling(t, k) ==
    state[t] = "EXEC" /\ t \in queue /\ currExe = t /\ ~IsBlocked(t) /\ k = {}

Idle(t, k) ==
    state[t] = "IDLE" /\ t \notin queue /\ currExe # t /\ ~IsBlocked(t) /\ k = {}

Ready(t, k) ==
    /\ state[t] = "READY"
    /\ \/ /\ t \in queue /\ ~IsBlocked(t)
          /\ \/ currExe # t /\ k \in {{}, {"kill"}}
             \/ currExe = t /\ k = {} /\ IsPosted(agenda, EndDisp)
             \/ currExe = t /\ k \in {{"sched"}, {"kill"}}
       \/ /\ t \notin queue /\ currExe # t
          /\ \/ IsBlocked(t) /\ k = {}
             \/ ~IsBlocked(t) /\ k = {"resume"}

Executing(t, k) ==
    /\ state[t] = "EXEC"
    /\ \/ /\ t \in queue /\ ~IsBlocked(t)
          /\ \/ /\ currExe = t
                /\ k \in {{"instr"}, {"end"}, {"susp"},
                          {"instr", "desched", "kill"}}
             \/ /\ currExe # t
                /\ k \in {{"instr", "desched"}, {"instr", "desched", "kill"}}
       \/ /\ t \notin queue /\ currExe # t
          /\ \/ IsBlocked(t) /\ k = {"desched"}
             \/ ~IsBlocked(t) /\ k = {"desched", "resume"}

Situation(t, k) ==
    IF call = t THEN Scheduling(t, k)
    ELSE Idle(t, k) \/ Ready(t, k) \/ Executing(t, k)

(* What is handled before anything else. *)
SchedIsAlone ==
    \A x, y \in Entries(agenda) :
        x.ev[1] = "sched" => y = x \/ y.at > now

DispatchIsAlone ==
    IsPosted(agenda, EndDisp) =>
        /\ currExe \in Tasks /\ state[currExe] = "READY"
        /\ \A y \in Entries(agenda) :
              y.ev = EndDisp \/ y.at > now \/ y.ev[1] = "desched"

CallGoesOn ==
    call # None =>
        /\ ~IsPosted(agenda, EndDisp)
        /\ \A y \in Entries(agenda) : y.at > now \/ y.prio > 0

(* A job at the end of an instruction is not killed. *)
EndsInTime(t) ==
    state[t] = "EXEC" /\ (call = t \/ "end" \in Of(agenda, t)) =>
        \A y \in Entries(agenda) :
            y.ev = Dead(t) => y.at > now \/ y.prio > 0

(* Only a job has a deadline, and only one until it is killed. *)
DeadInTime(t) ==
    /\ state[t] = "IDLE" => ~IsPosted(agenda, Dead(t))
    /\ "kill" \in Of(agenda, t) =>
          t \in KillOnMiss /\ ~IsPosted(agenda, Dead(t))

(* Buffered arrivals are served, after the job at hand. *)
BufferInTime(t) ==
    /\ state[t] = "IDLE" /\ arrQueue[t] # <<>> => IsPosted(agenda, FakeArr(t))
    /\ \A x \in Entries(agenda) : x.ev = FakeArr(t) =>
          /\ arrQueue[t] # <<>>
          /\ \/ state[t] = "IDLE" /\ x.prio = 0
             \/ "kill" \in Of(agenda, t)

(* Where a job is in its program. *)
InProgram(t) ==
    LET k == Of(agenda, t)
    IN  /\ actInstr[t] \in 1..Len(Program[t]) + 1
        /\ actInstr[t] = Len(Program[t]) + 1 <=> "end" \in k
        /\ "susp" \in k \/ "resume" \in k => Instr(t).op = "suspend"
        /\ "instr" \in k => Instr(t).op = "exec"
        /\ waiting[t] => state[t] # "IDLE" /\ "end" \notin k /\ Instr(t).op = "wait"
        /\ lastTime[t] <= now

TaskInv(t) ==
    /\ Situation(t, Of(agenda, t))
    /\ EndsInTime(t) /\ DeadInTime(t) /\ BufferInTime(t) /\ InProgram(t)

(* Those who wait for units of a resource. *)
Waits ==
    /\ \A r \in Resources : \A i \in DOMAIN blocked[r] :
          LET t == blocked[r][i].task
          IN  waiting[t] /\ Instr(t).op = "wait" /\ Instr(t).res = r
    /\ \A r \in Resources : \A i, j \in DOMAIN blocked[r] :
          blocked[r][i].task = blocked[r][j].task => i = j

(* What may have been thrown. *)
ThrownByStaleFakeArr ==
    /\ exc = "TaskAlreadyActive"
    /\ \E t \in KillOnMiss :
          /\ state[t] # "IDLE" /\ IsPosted(agenda, Kill(t))
          /\ Head(agenda) = Entry(FakeArr(t), now, 0)

KernelInv ==
    /\ Typed
    /\ exc = "none" \/ ThrownByStaleFakeArr
    /\ GoodAgenda(agenda, now)
    /\ \A t \in Tasks : TaskInv(t)
    /\ SchedIsAlone /\ DispatchIsAlone /\ CallGoesOn
    /\ Waits

-----------------------------------------------------------------------------
(* Agendas of this kernel.                                                   *)

LEMMA EventsAreEvents ==
    /\ Begin \in Events /\ EndDisp \in Events /\ Round \in Events
    /\ \A t \in Tasks : \A k \in Kinds : <<k, t>> \in Events
BY DEF Events

LEMMA EntriesHaveTimes ==
    /\ \A s \in EventEntry : s.at \in Nat /\ s.prio \in Nat /\ s.ev \in Events
    /\ \A e \in Events, at \in Nat, p \in Nat :
          Entry(e, at, p) \in EventEntry
BY DEF EventEntry, Entry

LEMMA Priorities ==
    \A e : Priority(e) \in Nat
BY DEF Priority

(* What is in a good agenda. *)
LEMMA GoodEntries ==
    ASSUME NEW q, NEW n, GoodAgenda(q, n)
    PROVE  \A x \in Entries(q) :
              x.ev \in Events /\ x.at \in Nat /\ x.prio \in Nat /\ Timed(x, n)
<1>1. \A i \in DOMAIN q : q[i] \in EventEntry
  BY DEF GoodAgenda
<1> QED
  BY <1>1, EntriesHaveTimes DEF Entries, GoodAgenda

(* What a new entry does to an agenda, for all that is asked of it. *)
Gains(p, q, y) ==
    /\ Entries(p) = Entries(q) \cup {y}
    /\ \A f : IsPosted(p, f) <=> IsPosted(q, f) \/ f = y.ev
    /\ \A t : Of(p, t) = Of(q, t) \cup {k \in JobKinds : <<k, t>> = y.ev}

LEMMA Gaining ==
    ASSUME NEW p, NEW q, NEW y, Entries(p) = Entries(q) \cup {y}
    PROVE  Gains(p, q, y)
<1>1. \A f : IsPosted(p, f) <=> IsPosted(q, f) \/ f = y.ev
  BY PostedEntries
<1>2. ASSUME NEW t
      PROVE  Of(p, t) = Of(q, t) \cup {k \in JobKinds : <<k, t>> = y.ev}
  BY <1>1 DEF Of
<1> QED
  BY <1>1, <1>2 DEF Gains

(* What the loss of events does. *)
Loses(p, q, e) ==
    /\ Entries(p) = {x \in Entries(q) : x.ev # e}
    /\ \A f : IsPosted(p, f) <=> IsPosted(q, f) /\ f # e
    /\ \A t : Of(p, t) = {k \in Of(q, t) : <<k, t>> # e}

LEMMA Losing ==
    ASSUME NEW p, NEW q, NEW e, Entries(p) = {x \in Entries(q) : x.ev # e}
    PROVE  Loses(p, q, e)
<1>1. \A f : IsPosted(p, f) <=> IsPosted(q, f) /\ f # e
  BY PostedEntries
<1>2. ASSUME NEW t PROVE Of(p, t) = {k \in Of(q, t) : <<k, t>> # e}
  BY <1>1 DEF Of
<1> QED
  BY <1>1, <1>2 DEF Loses

LEMMA GoodPost ==
    ASSUME NEW q, NEW n, GoodAgenda(q, n), NEW y \in EventEntry, Timed(y, n),
           ~IsPosted(q, y.ev)
    PROVE  GoodAgenda(PostIn(q, y), n) /\ Gains(PostIn(q, y), q, y)
<1>1. /\ PostIn(q, y) \in Seq(EventEntry)
      /\ Proper(PostIn(q, y))
      /\ Entries(PostIn(q, y)) = Entries(q) \cup {y}
  BY EntriesHaveTimes, PostEntries DEF GoodAgenda
<1> QED
  BY <1>1, Gaining DEF GoodAgenda

LEMMA GoodDrop ==
    ASSUME NEW q, NEW n, GoodAgenda(q, n), NEW e
    PROVE  GoodAgenda(DropFrom(q, e), n) /\ Loses(DropFrom(q, e), q, e)
<1>1. /\ DropFrom(q, e) \in Seq(EventEntry)
      /\ Proper(DropFrom(q, e))
      /\ Entries(DropFrom(q, e)) = {x \in Entries(q) : x.ev # e}
  BY DropEntries DEF GoodAgenda
<1> QED
  BY <1>1, Losing DEF GoodAgenda

(* An event that is posted, whether it was before or not. *)
Moves(p, q, y) ==
    /\ Entries(p) = {x \in Entries(q) : x.ev # y.ev} \cup {y}
    /\ \A f : IsPosted(p, f) <=> IsPosted(q, f) \/ f = y.ev
    /\ \A t : Of(p, t) = Of(q, t) \cup {k \in JobKinds : <<k, t>> = y.ev}

LEMMA GoodMove ==
    ASSUME NEW q, NEW n, GoodAgenda(q, n), NEW y \in EventEntry, Timed(y, n)
    PROVE  /\ GoodAgenda(PostIn(DropFrom(q, y.ev), y), n)
           /\ Moves(PostIn(DropFrom(q, y.ev), y), q, y)
<1> DEFINE d == DropFrom(q, y.ev)
           p == PostIn(d, y)
<1>1. GoodAgenda(d, n) /\ Loses(d, q, y.ev)
  BY GoodDrop
<1> HIDE DEF d
<1>2. ~IsPosted(d, y.ev)
  BY <1>1 DEF Loses
<1>3. GoodAgenda(p, n) /\ Gains(p, d, y)
  BY <1>1, <1>2, GoodPost
<1> HIDE DEF p
<1>4. Entries(p) = {x \in Entries(q) : x.ev # y.ev} \cup {y}
  BY <1>1, <1>3 DEF Loses, Gains
<1>5. \A f : IsPosted(p, f) <=> IsPosted(q, f) \/ f = y.ev
  BY <1>1, <1>3 DEF Loses, Gains
<1>6. ASSUME NEW t
      PROVE  Of(p, t) = Of(q, t) \cup {k \in JobKinds : <<k, t>> = y.ev}
  BY <1>5 DEF Of
<1> QED
  BY <1>3, <1>4, <1>5, <1>6 DEF Moves, p, d

-----------------------------------------------------------------------------
(* The operators that change the agenda.                                     *)

LEMMA PriorityOf ==
    /\ Priority(Begin) = 18 /\ Priority(EndDisp) = 18 /\ Priority(Round) = 8
    /\ \A t : /\ Priority(Arr(t)) = 8 /\ Priority(FakeArr(t)) \in {0, 8}
              /\ Priority(InstrEvt(t)) = 5 /\ Priority(EndEvt(t)) = 6
              /\ Priority(Kill(t)) = 6 /\ Priority(Dead(t)) \in {0, 9}
              /\ Priority(Resume(t)) = 8
BY EventParts
   DEF Priority, Begin, EndDisp, Round, Arr, FakeArr, InstrEvt, EndEvt, Kill,
       Dead, Resume

(* The kinds of the events. *)
LEMMA KindOf ==
    /\ Begin[1] = "beginDispatch" /\ EndDisp[1] = "endDispatch"
    /\ Round[1] = "RoundRobinRound"
    /\ \A t : /\ Arr(t)[1] = "arr" /\ FakeArr(t)[1] = "fakeArr"
              /\ InstrEvt(t)[1] = "instr" /\ EndEvt(t)[1] = "end"
              /\ Kill(t)[1] = "kill" /\ Dead(t)[1] = "dead"
              /\ Sched(t)[1] = "sched" /\ Desched(t)[1] = "desched"
              /\ Susp(t)[1] = "susp" /\ Resume(t)[1] = "resume"
BY EventParts
   DEF Begin, EndDisp, Round, Arr, FakeArr, InstrEvt, EndEvt, Kill, Dead,
       Sched, Desched, Susp, Resume

LEMMA EventOf ==
    /\ Begin \in Events /\ EndDisp \in Events /\ Round \in Events
    /\ \A t \in Tasks :
          /\ Arr(t) \in Events /\ FakeArr(t) \in Events
          /\ InstrEvt(t) \in Events /\ EndEvt(t) \in Events
          /\ Kill(t) \in Events /\ Dead(t) \in Events
          /\ Sched(t) \in Events /\ Desched(t) \in Events
          /\ Susp(t) \in Events /\ Resume(t) \in Events
BY EventsAreEvents
   DEF Kinds, Arr, FakeArr, InstrEvt, EndEvt, Kill, Dead, Sched, Desched,
       Susp, Resume

(* When a post is in time. *)
LEMMA PostsInTime ==
    ASSUME NEW n \in Nat, NEW at \in Nat, at >= n
    PROVE  /\ Timed(Entry(Round, at, 8), n)
           /\ Timed(Entry(Begin, n, 18), n) /\ Timed(Entry(EndDisp, n, 18), n)
           /\ \A t : /\ Timed(Entry(Arr(t), at, 8), n)
                     /\ Timed(Entry(Resume(t), at, 8), n)
                     /\ Timed(Entry(InstrEvt(t), at, 5), n)
                     /\ Timed(Entry(EndEvt(t), n, 6), n)
                     /\ Timed(Entry(Kill(t), n, 6), n)
                     /\ Timed(Entry(FakeArr(t), n, 8), n)
                     /\ Timed(Entry(FakeArr(t), n, 0), n)
                     /\ Timed(Entry(Dead(t), n, 0), n)
                     /\ \A p \in {0, 9} : Timed(Entry(Dead(t), at, p), n)
                     /\ Timed(Entry(Sched(t), n, 0), n)
                     /\ Timed(Entry(Desched(t), n, 0), n)
                     /\ Timed(Entry(Susp(t), n, 0), n)
<1>1. \A e, p :
         /\ e[1] \in {"arr", "resume", "RoundRobinRound"} => Timed(Entry(e, at, 8), n)
         /\ e[1] \in {"sched", "desched", "susp"} => Timed(Entry(e, n, 0), n)
         /\ e[1] \in {"end", "kill"} => Timed(Entry(e, n, 6), n)
         /\ e[1] = "instr" => Timed(Entry(e, at, 5), n)
  BY EntryParts DEF Timed
<1>2. \A e, p :
         /\ e[1] = "dead" /\ p \in {0, 9} =>
               Timed(Entry(e, at, p), n) /\ Timed(Entry(e, n, p), n)
         /\ e[1] \in {"beginDispatch", "endDispatch"} => Timed(Entry(e, n, 18), n)
         /\ e[1] = "fakeArr" /\ p \in {0, 8} => Timed(Entry(e, n, p), n)
  BY EntryParts DEF Timed
<1>3. /\ Timed(Entry(Round, at, 8), n)
      /\ Timed(Entry(Begin, n, 18), n) /\ Timed(Entry(EndDisp, n, 18), n)
  BY <1>1, <1>2, KindOf
<1>4. ASSUME NEW t
      PROVE  /\ Timed(Entry(Arr(t), at, 8), n)
             /\ Timed(Entry(Resume(t), at, 8), n)
             /\ Timed(Entry(InstrEvt(t), at, 5), n)
             /\ Timed(Entry(EndEvt(t), n, 6), n)
             /\ Timed(Entry(Kill(t), n, 6), n)
             /\ Timed(Entry(Sched(t), n, 0), n)
             /\ Timed(Entry(Desched(t), n, 0), n)
             /\ Timed(Entry(Susp(t), n, 0), n)
  BY <1>1, KindOf
<1>5. ASSUME NEW t
      PROVE  /\ Timed(Entry(FakeArr(t), n, 8), n)
             /\ Timed(Entry(FakeArr(t), n, 0), n)
             /\ Timed(Entry(Dead(t), n, 0), n)
             /\ \A p \in {0, 9} : Timed(Entry(Dead(t), at, p), n)
  BY <1>2, KindOf
<1> QED
  BY <1>3, <1>4, <1>5

(* Event::post, of an event that is not posted. *)
LEMMA PostGains ==
    ASSUME NEW q, NEW n, GoodAgenda(q, n), NEW e \in Events, NEW at \in Nat,
           Timed(Entry(e, at, Priority(e)), n), ~IsPosted(q, e)
    PROVE  /\ GoodAgenda(Post(q, e, at), n)
           /\ Gains(Post(q, e, at), q, Entry(e, at, Priority(e)))
<1> DEFINE y == Entry(e, at, Priority(e))
<1>1. y \in EventEntry /\ y.ev = e
  BY Priorities, EntriesHaveTimes, EntryParts
<1>2. Timed(y, n)
  OBVIOUS
<1>3. Post(q, e, at) = PostIn(q, y)
  BY DEF Post
<1> HIDE DEF y
<1>4. ~IsPosted(q, y.ev)
  BY <1>1
<1>5. GoodAgenda(PostIn(q, y), n) /\ Gains(PostIn(q, y), q, y)
  BY <1>1, <1>2, <1>4, GoodPost
<1> QED
  BY <1>3, <1>5 DEF y

(* Event::drop of an event that is not posted. *)
LEMMA DropNothing ==
    ASSUME NEW q, NEW e, ~IsPosted(q, e)
    PROVE  DropFrom(q, e) = q
BY DEF DropFrom

(* Event::process *)
LEMMA ProcessMoves ==
    ASSUME NEW q, NEW e \in Events, Now \in Nat, GoodAgenda(q, Now),
           Timed(Entry(e, Now, 0), Now)
    PROVE  /\ GoodAgenda(Process(q, e), Now)
           /\ Moves(Process(q, e), q, Entry(e, Now, 0))
<1> DEFINE y == Entry(e, Now, 0)
<1>1. y \in EventEntry /\ y.ev = e
  BY EntriesHaveTimes, EntryParts
<1>2. Timed(y, Now)
  OBVIOUS
<1>3. Process(q, e) = PostIn(DropFrom(q, y.ev), y)
  BY <1>1 DEF Process
<1> HIDE DEF y
<1>5. /\ GoodAgenda(PostIn(DropFrom(q, y.ev), y), Now)
      /\ Moves(PostIn(DropFrom(q, y.ev), y), q, y)
  BY <1>1, <1>2, GoodMove
<1> QED
  BY <1>3, <1>5 DEF y

(* RTKernel::dispatch *)
LEMMA DispatchMoves ==
    ASSUME NEW q, Now \in Nat, GoodAgenda(q, Now)
    PROVE  /\ GoodAgenda(Dispatching(q), Now)
           /\ Moves(Dispatching(q), q, Entry(Begin, Now, 18))
<1> DEFINE y == Entry(Begin, Now, 18)
<1>1. y \in EventEntry /\ y.ev = Begin
  BY EventOf, EntriesHaveTimes, EntryParts
<1>2. Timed(y, Now)
  BY PostsInTime
<1>3. Dispatching(q) = PostIn(DropFrom(q, y.ev), y)
  BY <1>1, PriorityOf DEF Dispatching, Post
<1> HIDE DEF y
<1>5. /\ GoodAgenda(PostIn(DropFrom(q, y.ev), y), Now)
      /\ Moves(PostIn(DropFrom(q, y.ev), y), q, y)
  BY <1>1, <1>2, GoodMove
<1> QED
  BY <1>3, <1>5 DEF y

(* Task::deschedule, of a task whose schedEvt is not posted. *)
LEMMA DeschedMoves ==
    ASSUME NEW q, NEW t \in Tasks, Now \in Nat, GoodAgenda(q, Now),
           ~IsPosted(q, Sched(t))
    PROVE  /\ GoodAgenda(Descheduled(q, t), Now)
           /\ Moves(Descheduled(q, t), q, Entry(Desched(t), Now, 0))
<1>1. Descheduled(q, t) = Process(q, Desched(t))
  BY DropNothing DEF Descheduled
<1>2. Desched(t) \in Events /\ Timed(Entry(Desched(t), Now, 0), Now)
  BY EventOf, PostsInTime
<1> QED
  BY <1>1, <1>2, ProcessMoves

(* Agendas that differ by the round of RRScheduler. *)
ButRound(p, q, n) ==
    /\ \A x \in Entries(p) : x \in Entries(q) \/ (x.ev = Round /\ x.at > n)
    /\ \A x \in Entries(q) : x \in Entries(p) \/ x.ev = Round
    /\ \A f : f # Round => (IsPosted(p, f) <=> IsPosted(q, f))
    /\ \A t : Of(p, t) = Of(q, t)

(* RRScheduler::notify *)
LEMMA NotifiedButRound ==
    ASSUME NEW q, NEW t \in Tasks \cup {None}, Now \in Nat, GoodAgenda(q, Now)
    PROVE  /\ GoodAgenda(Notified(q, t), Now)
           /\ ButRound(Notified(q, t), q, Now)
<1> DEFINE r == DropFrom(q, Round)
<1>1. GoodAgenda(r, Now) /\ Loses(r, q, Round)
  BY GoodDrop
<1> HIDE DEF r
<1>0. \A k \in JobKinds : \A u : <<k, u>> # Round
  BY EventParts DEF JobKinds, Round
<1>2. ButRound(q, q, Now)
  BY DEF ButRound
<1>3. ButRound(r, q, Now)
  BY <1>1, <1>0 DEF ButRound, Loses, Of
<1>4. ASSUME t \in Tasks, Slice[t] # 0
      PROVE  /\ GoodAgenda(Post(r, Round, Now + Slice[t]), Now)
             /\ ButRound(Post(r, Round, Now + Slice[t]), q, Now)
  <2> DEFINE at == Now + Slice[t]
             y == Entry(Round, at, 8)
             p == Post(r, Round, at)
  <2>1. at \in Nat /\ at > Now /\ at >= Now
    BY <1>4, TaskAssumption
  <2>2. y.ev = Round /\ y.at = at
    BY EntryParts
  <2> HIDE DEF at
  <2>3. ~IsPosted(r, Round)
    BY <1>1 DEF Loses
  <2>4. Timed(y, Now) /\ y = Entry(Round, at, Priority(Round)) /\ Round \in Events
    BY <2>1, PostsInTime, PriorityOf, EventOf
  <2> HIDE DEF y
  <2>5. GoodAgenda(p, Now) /\ Gains(p, r, y)
    BY <1>1, <2>1, <2>3, <2>4, PostGains
  <2> HIDE DEF p
  <2>6. \A x \in Entries(p) : x \in Entries(q) \/ (x.ev = Round /\ x.at > Now)
    BY <1>1, <2>1, <2>2, <2>5 DEF Gains, Loses
  <2>7. \A x \in Entries(q) : x \in Entries(p) \/ x.ev = Round
    BY <1>1, <2>5 DEF Gains, Loses
  <2>8. \A f : f # Round => (IsPosted(p, f) <=> IsPosted(q, f))
    BY <1>1, <2>2, <2>5 DEF Gains, Loses
  <2>9. \A u : Of(p, u) = Of(q, u)
    BY <1>0, <2>8 DEF Of
  <2> QED
    BY <2>5, <2>6, <2>7, <2>8, <2>9 DEF ButRound, p, at
<1> QED
  BY <1>1, <1>2, <1>3, <1>4 DEF Notified, r

-----------------------------------------------------------------------------
(* The event that is handled.                                                *)

(* What is known when the handler of e is entered. *)
Entered(e) ==
    /\ exc = "none" /\ call = None /\ Now \in Nat /\ now' = Now /\ Now >= now
    /\ GoodAgenda(agenda, Now) /\ GoodAgenda(Rest, Now)
    /\ Loses(Rest, agenda, e)
    /\ IsPosted(agenda, e)
    /\ Head(agenda) \in Entries(agenda)
    /\ Head(agenda).ev = e /\ Head(agenda).at = Now
    /\ Timed(Head(agenda), Now)
    /\ \A y \in Entries(agenda) : Precedes(Head(agenda), y)

LEMMA Entering ==
    ASSUME KernelInv, NEW e, Comes(e) \/ Enters(e)
    PROVE  Entered(e)
<1> DEFINE h == Head(agenda)
<1>1. /\ exc = "none" /\ call = None /\ agenda # <<>> /\ h.ev = e
      /\ Now = h.at /\ now' = Now
  BY DEF Comes, Enters, Now
<1>2. GoodAgenda(agenda, now) /\ now \in Nat
  BY DEF KernelInv, Typed
<1>3. /\ h \in Entries(agenda)
      /\ \A x \in Entries(agenda) : Precedes(h, x)
      /\ Rest \in Seq(EventEntry)
      /\ Proper(Rest)
      /\ Entries(Rest) = {x \in Entries(agenda) : x.ev # h.ev}
  <2>1. \A s \in EventEntry : s.at \in Nat /\ s.prio \in Nat
    BY EntriesHaveTimes
  <2> QED
    BY <1>1, <1>2, <2>1, TailEntries DEF GoodAgenda, Rest
<1>4. \A x \in Entries(agenda) :
         x.ev \in Events /\ x.at \in Nat /\ x.prio \in Nat /\ Timed(x, now)
  BY <1>2, GoodEntries
<1> HIDE DEF h
<1>5. Now \in Nat /\ Now >= now
  BY <1>1, <1>3, <1>4 DEF Timed
<1>6. \A x \in Entries(agenda) : Timed(x, Now)
  <2> SUFFICES ASSUME NEW x \in Entries(agenda) PROVE Timed(x, Now)
    OBVIOUS
  <2>1. x.at >= Now /\ x.at \in Nat /\ Timed(x, now)
    BY <1>1, <1>3, <1>4, <1>5 DEF Precedes
  <2>2. x.at = now => Now = now
    BY <1>2, <1>5, <2>1
  <2> QED
    BY <1>2, <2>1, <2>2 DEF Timed
<1>7. GoodAgenda(agenda, Now) /\ GoodAgenda(Rest, Now)
  BY <1>2, <1>3, <1>6 DEF GoodAgenda
<1>8. Loses(Rest, agenda, e)
  BY <1>1, <1>3, Losing
<1>9. IsPosted(agenda, e) /\ Timed(h, Now)
  BY <1>1, <1>3, <1>6, PostedEntries
<1> QED
  BY <1>1, <1>3, <1>5, <1>7, <1>8, <1>9 DEF Entered, h

(* The priority of the event that is handled. *)
LEMMA HandledPriority ==
    ASSUME NEW e, Entered(e)
    PROVE  /\ Head(agenda).prio \in Nat
           /\ e[1] \in {"sched", "desched", "susp"} => Head(agenda).prio = 0
           /\ e[1] = "instr" => Head(agenda).prio = 5
           /\ e[1] \in {"end", "kill"} => Head(agenda).prio = 6
           /\ e[1] = "dead" => Head(agenda).prio \in {0, 9}
           /\ e[1] \in {"arr", "resume", "RoundRobinRound"}
                 => Head(agenda).prio = 8
           /\ e[1] \in {"beginDispatch", "endDispatch"} => Head(agenda).prio = 18
           /\ e[1] = "fakeArr" => Head(agenda).prio \in {0, 8}
BY GoodEntries DEF Entered, Timed

(* No event is due that is handled before this one. *)
LEMMA NotBefore ==
    ASSUME NEW e, Entered(e)
    PROVE  /\ \A y \in Entries(agenda) :
                 y.at > Now \/ (y.at = Now /\ y.prio >= Head(agenda).prio)
           /\ Head(agenda).prio > 0 =>
                 \A t : /\ "sched" \notin Of(agenda, t)
                        /\ "desched" \notin Of(agenda, t)
                        /\ "susp" \notin Of(agenda, t)
           /\ Head(agenda).prio > 6 =>
                 \A t : "end" \notin Of(agenda, t) /\ "kill" \notin Of(agenda, t)
<1> DEFINE p == Head(agenda).prio
<1>1. /\ p \in Nat /\ Now \in Nat
      /\ \A y \in Entries(agenda) : y.at \in Nat /\ y.prio \in Nat /\ Timed(y, Now)
  BY HandledPriority, GoodEntries DEF Entered
<1>2. \A y \in Entries(agenda) :
         y.at > Now \/ (y.at = Now /\ y.prio >= p)
  BY <1>1 DEF Entered, Precedes
<1> HIDE DEF p
<1>3. ASSUME NEW t, NEW k \in Of(agenda, t)
      PROVE  \E y \in Entries(agenda) : y.ev[1] = k
  BY <1>3, PostedEntries, EventParts DEF Of
<1>4. ASSUME NEW y \in Entries(agenda), y.ev[1] \in {"sched", "desched", "susp"}
      PROVE  p = 0
  BY <1>1, <1>2, <1>4 DEF Timed
<1>5. ASSUME NEW y \in Entries(agenda), y.ev[1] \in {"end", "kill"}
      PROVE  ~(p > 6)
  BY <1>1, <1>2, <1>5 DEF Timed
<1> QED
  BY <1>1, <1>2, <1>3, <1>4, <1>5 DEF p

(* No task is about to get the CPU when another event is handled. *)
LEMMA NoSched ==
    ASSUME KernelInv, NEW e, Entered(e), e[1] # "sched"
    PROVE  \A t : "sched" \notin Of(agenda, t)
<1> SUFFICES ASSUME NEW t, "sched" \in Of(agenda, t) PROVE FALSE
  OBVIOUS
<1>1. PICK y \in Entries(agenda) : y.ev[1] = "sched"
  BY PostedEntries, EventParts DEF Of
<1>2. Head(agenda) # y
  BY <1>1 DEF Entered
<1>3. Now > now /\ now \in Nat /\ Now \in Nat
  BY <1>1, <1>2 DEF KernelInv, SchedIsAlone, Entered, Typed
<1>4. Timed(y, now) /\ y.at >= Now
  BY <1>1, <1>3, GoodEntries DEF KernelInv, Entered, Precedes
<1> QED
  BY <1>1, <1>3, <1>4 DEF Timed

LEMMA NoEndDispatch ==
    ASSUME KernelInv, NEW e, Entered(e), e # EndDisp, e[1] # "desched"
    PROVE  ~IsPosted(agenda, EndDisp)
<1> SUFFICES ASSUME IsPosted(agenda, EndDisp) PROVE FALSE
  OBVIOUS
<1>1. PICK y \in Entries(agenda) : y.ev = EndDisp
  BY PostedEntries
<1>2. Now > now /\ now \in Nat /\ Now \in Nat
  BY DEF KernelInv, DispatchIsAlone, Entered, Typed
<1>3. Timed(y, now) /\ y.at >= Now
  BY <1>1, <1>2, GoodEntries DEF KernelInv, Entered, Precedes
<1> QED
  BY <1>1, <1>2, <1>3, KindOf DEF Timed

-----------------------------------------------------------------------------
(* What a step leaves alone.                                                 *)

(* A task that a step has nothing to do with. *)
Untouched(u) ==
    /\ state'[u] = state[u] /\ actInstr'[u] = actInstr[u]
    /\ arrQueue'[u] = arrQueue[u] /\ waiting'[u] = waiting[u]
    /\ lastTime'[u] = lastTime[u]
    /\ u \in queue' <=> u \in queue
    /\ currExe' = u <=> currExe = u
    /\ call' = u <=> call = u
    /\ IsBlocked(u)' <=> IsBlocked(u)
    /\ Of(agenda', u) = Of(agenda, u)
    /\ \A x : x.ev \in {Dead(u), FakeArr(u)} =>
                 (x \in Entries(agenda') <=> x \in Entries(agenda))
    /\ IsPosted(agenda, EndDisp) => IsPosted(agenda', EndDisp)
    /\ now' >= now
    /\ call = u \/ "end" \in Of(agenda, u) => now' = now

LEMMA UntouchedStays ==
    ASSUME NEW u \in Tasks, TaskInv(u), Untouched(u), now \in Nat, now' \in Nat,
           lastTime[u] \in Nat
    PROVE  TaskInv(u)'
<1>1. Situation(u, Of(agenda, u))'
  BY DEF TaskInv, Untouched, Situation, Scheduling, Idle, Ready, Executing
<1>2. EndsInTime(u)'
  BY DEF TaskInv, Untouched, EndsInTime
<1>3. /\ IsPosted(agenda', Dead(u)) <=> IsPosted(agenda, Dead(u))
      /\ IsPosted(agenda', FakeArr(u)) <=> IsPosted(agenda, FakeArr(u))
  BY PostedEntries DEF Untouched
<1>4. DeadInTime(u)'
  BY <1>3 DEF TaskInv, Untouched, DeadInTime
<1>5. BufferInTime(u)'
  BY <1>3 DEF TaskInv, Untouched, BufferInTime
<1>6. InProgram(u)'
  BY DEF TaskInv, Untouched, InProgram, Instr
<1> QED
  BY <1>1, <1>2, <1>4, <1>5, <1>6 DEF TaskInv

(* Nobody waits for other units than before. *)
LEMMA WaitsStay ==
    ASSUME Waits, blocked' = blocked,
           \A t : IsBlocked(t) =>
                     waiting'[t] = waiting[t] /\ actInstr'[t] = actInstr[t]
    PROVE  Waits' /\ \A t : IsBlocked(t)' <=> IsBlocked(t)
<1>1. \A r \in Resources : \A i \in DOMAIN blocked[r] :
         IsBlocked(blocked[r][i].task)
  BY DEF IsBlocked
<1>2. Waits'
  <2>1. ASSUME NEW r \in Resources, NEW i \in DOMAIN blocked[r]
        PROVE  /\ waiting'[blocked[r][i].task]
               /\ Instr(blocked[r][i].task)'.op = "wait"
               /\ Instr(blocked[r][i].task)'.res = r
    <3> DEFINE t == blocked[r][i].task
    <3>1. waiting[t] /\ Instr(t).op = "wait" /\ Instr(t).res = r
      BY DEF Waits
    <3>2. waiting'[t] = waiting[t] /\ actInstr'[t] = actInstr[t]
      BY Zenon, <1>1
    <3> QED
      BY Zenon, <3>1, <3>2 DEF Instr
  <2>2. \A r \in Resources : \A i, j \in DOMAIN blocked[r] :
           blocked[r][i].task = blocked[r][j].task => i = j
    BY Zenon DEF Waits
  <2> QED
    BY Zenon, <2>1, <2>2 DEF Waits
<1>3. \A t : IsBlocked(t)' <=> IsBlocked(t)
  BY DEF IsBlocked
<1> QED
  BY <1>2, <1>3

(* The event of a job tells its task. *)
LEMMA EventTask ==
    ASSUME NEW q, NEW n, GoodAgenda(q, n), NEW x \in Entries(q)
    PROVE  /\ x.ev \in {Begin, EndDisp, Round}
                 \/ \E k \in Kinds, t \in Tasks : x.ev = <<k, t>>
           /\ x.ev[1] = "sched" => \E t \in Tasks : "sched" \in Of(q, t)
<1>1. x.ev \in Events
  BY GoodEntries
<1>2. x.ev \in {Begin, EndDisp, Round} \/ \E k \in Kinds, t \in Tasks : x.ev = <<k, t>>
  BY <1>1 DEF Events
<1>3. ASSUME x.ev[1] = "sched" PROVE \E t \in Tasks : "sched" \in Of(q, t)
  <2>1. PICK k \in Kinds, t \in Tasks : x.ev = <<k, t>>
    BY <1>2, <1>3, KindOf
  <2>2. k = "sched"
    BY <1>3, <2>1, EventParts
  <2> QED
    BY <2>1, <2>2, PostedEntries DEF Of, JobKinds
<1> QED
  BY <1>2, <1>3

(* When neither a task nor a dispatch is about to take the CPU. *)
LEMMA QuietAgenda ==
    ASSUME GoodAgenda(agenda', now'), \A t \in Tasks : "sched" \notin Of(agenda', t),
           ~IsPosted(agenda', EndDisp)
    PROVE  SchedIsAlone' /\ DispatchIsAlone'
BY EventTask DEF SchedIsAlone, DispatchIsAlone

(* A job comes to its end at once. *)
LEMMA EndsAtOnce ==
    ASSUME KernelInv, NEW e, Entered(e), NEW t, "end" \in Of(agenda, t)
    PROVE  Now = now
<1>1. PICK y \in Entries(agenda) : y.ev = <<"end", t>>
  BY PostedEntries DEF Of
<1>2. Timed(y, now) /\ y.ev[1] = "end"
  BY <1>1, EventParts, GoodEntries DEF KernelInv
<1>3. y.at >= Now /\ y.at \in Nat
  BY GoodEntries DEF Entered, Precedes
<1> QED
  BY <1>2, <1>3 DEF Timed, Entered, KernelInv, Typed

-----------------------------------------------------------------------------
(* The end of an instruction.                                                *)

LEMMA Programs ==
    ASSUME NEW t \in Tasks
    PROVE  /\ Len(Program[t]) \in Nat /\ Len(Program[t]) >= 1
           /\ DOMAIN Program[t] = 1..Len(Program[t])
           /\ None \notin Tasks
           /\ RelDeadline[t] \in Nat
BY TaskAssumption

LEMMA InstrEndsOnce ==
    ASSUME KernelInv, NEW t \in Tasks, NEW q, Now \in Nat, GoodAgenda(q, Now),
           "end" \notin Of(q, t), InstrEnds(t, q)
    PROVE  /\ exc' = "none" /\ GoodAgenda(agenda', Now)
           /\ actInstr' = [actInstr EXCEPT ![t] = @ + 1]
           /\ \/ /\ actInstr[t] = Len(Program[t]) /\ call' = None
                 /\ Gains(agenda', q, Entry(EndEvt(t), Now, 6))
              \/ /\ actInstr[t] # Len(Program[t])
                 /\ agenda' = q
                 /\ call' = IF state[t] = "EXEC" THEN t ELSE None
<1>1. ~IsPosted(q, EndEvt(t))
  BY DEF Of, JobKinds, EndEvt
<1>2. /\ EndEvt(t) \in Events /\ Priority(EndEvt(t)) = 6
      /\ Timed(Entry(EndEvt(t), Now, 6), Now)
  BY EventOf, PriorityOf, PostsInTime
<1>3. CASE actInstr[t] = Len(Program[t])
  <2>1. /\ agenda' = Post(q, EndEvt(t), Now) /\ call' = None /\ exc' = "none"
        /\ actInstr' = [actInstr EXCEPT ![t] = @ + 1]
    BY <1>1, <1>3 DEF InstrEnds, GoesUnlessPosted
  <2>2. /\ GoodAgenda(Post(q, EndEvt(t), Now), Now)
        /\ Gains(Post(q, EndEvt(t), Now), q, Entry(EndEvt(t), Now, 6))
    <3>1. Timed(Entry(EndEvt(t), Now, Priority(EndEvt(t))), Now)
      BY <1>2
    <3> QED
      BY <1>1, <1>2, <3>1, PostGains
  <2> QED
    BY <1>3, <2>1, <2>2
<1>4. CASE actInstr[t] # Len(Program[t])
  BY <1>4 DEF InstrEnds
<1> QED
  BY <1>3, <1>4

(* What the gain of an entry is for the events of the tasks. *)
LEMMA GainsOf ==
    ASSUME NEW p, NEW q, NEW k, NEW t, NEW at, NEW prio,
           \/ Gains(p, q, Entry(<<k, t>>, at, prio))
           \/ Moves(p, q, Entry(<<k, t>>, at, prio))
    PROVE  /\ \A u : u # t => Of(p, u) = Of(q, u)
           /\ Of(p, t) = Of(q, t) \cup (JobKinds \cap {k})
           /\ \A f : IsPosted(p, f) <=> IsPosted(q, f) \/ f = <<k, t>>
           /\ \A x : x.ev # <<k, t>> => (x \in Entries(p) <=> x \in Entries(q))
           /\ Entry(<<k, t>>, at, prio) \in Entries(p)
<1> DEFINE y == Entry(<<k, t>>, at, prio)
<1>1. y.ev = <<k, t>>
  BY EntryParts
<1> HIDE DEF y
<1>2. /\ \A f : IsPosted(p, f) <=> IsPosted(q, f) \/ f = <<k, t>>
      /\ \A u : Of(p, u) = Of(q, u) \cup {l \in JobKinds : <<l, u>> = <<k, t>>}
  BY <1>1 DEF Gains, Moves, y
<1>3. \A x : x.ev # <<k, t>> => (x \in Entries(p) <=> x \in Entries(q))
  BY <1>1 DEF Gains, Moves, y
<1>4. ASSUME NEW u, u # t PROVE {l \in JobKinds : <<l, u>> = <<k, t>>} = {}
  BY <1>4, EventParts
<1>5. {l \in JobKinds : <<l, t>> = <<k, t>>} = JobKinds \cap {k}
  BY EventParts
<1>6. y \in Entries(p)
  BY DEF Gains, Moves, y
<1> QED
  BY <1>2, <1>3, <1>4, <1>5, <1>6 DEF y

LEMMA LosesOf ==
    ASSUME NEW p, NEW q, NEW k, NEW t, Loses(p, q, <<k, t>>)
    PROVE  /\ \A u : u # t => Of(p, u) = Of(q, u)
           /\ Of(p, t) = Of(q, t) \ {k}
           /\ \A f : IsPosted(p, f) <=> IsPosted(q, f) /\ f # <<k, t>>
           /\ \A x : x.ev # <<k, t>> => (x \in Entries(p) <=> x \in Entries(q))
<1>1. ASSUME NEW u, u # t PROVE {l \in Of(q, u) : <<l, u>> # <<k, t>>} = Of(q, u)
  BY <1>1, EventParts
<1>2. {l \in Of(q, t) : <<l, t>> # <<k, t>>} = Of(q, t) \ {k}
  BY EventParts
<1> QED
  BY <1>1, <1>2 DEF Loses

(* Task::onInstrEnd of the job that executes. *)
LEMMA InstrEndKeeps ==
    ASSUME KernelInv, NEW t \in Tasks, OnInstrEnd(t)
    PROVE  KernelInv'
<1>1. Entered(InstrEvt(t)) /\ InstrEvt(t)[1] = "instr"
  BY Entering, KindOf DEF OnInstrEnd, Handles
<1>2. Head(agenda).prio = 5
  BY <1>1, HandledPriority
<1>3. /\ \A y \in Entries(agenda) : y.at > Now \/ y.prio > 0
      /\ \A u : "sched" \notin Of(agenda, u) /\ "desched" \notin Of(agenda, u)
      /\ ~IsPosted(agenda, EndDisp)
  <2>1. InstrEvt(t) # EndDisp
    BY KindOf
  <2>2. \A y \in Entries(agenda) : y.prio \in Nat
    BY <1>1, GoodEntries DEF Entered
  <2> QED
    BY <1>1, <1>2, <2>1, <2>2, NotBefore, NoEndDispatch
<1>4. "instr" \in Of(agenda, t)
  BY <1>1 DEF Entered, Of, JobKinds, InstrEvt
<1>5. TaskInv(t) /\ call = None /\ None \notin Tasks
  BY <1>1, Programs DEF KernelInv, Entered
<1>6. /\ state[t] = "EXEC" /\ t \in queue /\ currExe = t /\ ~IsBlocked(t)
      /\ Of(agenda, t) = {"instr"}
  BY <1>3, <1>4, <1>5
     DEF TaskInv, Situation, Scheduling, Idle, Ready, Executing
<1>7. /\ GoodAgenda(Rest, Now) /\ Now \in Nat /\ now' = Now /\ Now >= now
      /\ Loses(Rest, agenda, <<"instr", t>>)
  BY <1>1 DEF Entered, InstrEvt
<1>8. /\ \A u : u # t => Of(Rest, u) = Of(agenda, u)
      /\ Of(Rest, t) = {}
      /\ \A f : IsPosted(Rest, f) <=> IsPosted(agenda, f) /\ f # <<"instr", t>>
      /\ \A x : x.ev # <<"instr", t>> => (x \in Entries(Rest) <=> x \in Entries(agenda))
  BY <1>6, <1>7, LosesOf
<1>9. /\ InstrEnds(t, Rest)
      /\ cost' = [cost EXCEPT ![t] = Undrawn]
      /\ done' = [done EXCEPT ![t] = 0]
      /\ lastTime' = [lastTime EXCEPT ![t] = Now]
      /\ UNCHANGED <<queue, insertTime, currExe, state, arrival, dl, arrQueue,
                     waiting, available, blocked, run, phase, policy, lastSched>>
      /\ urgent' \subseteq urgent
  BY <1>6 DEF OnInstrEnd, Handles, Enters, Comes, kernelVars, resVars
<1> DEFINE last == actInstr[t] = Len(Program[t])
<1>10. /\ exc' = "none" /\ GoodAgenda(agenda', Now)
       /\ actInstr' = [actInstr EXCEPT ![t] = @ + 1]
       /\ \/ last /\ call' = None /\ Gains(agenda', Rest, Entry(<<"end", t>>, Now, 6))
          \/ ~last /\ agenda' = Rest /\ call' = t
  BY <1>6, <1>7, <1>8, <1>9, InstrEndsOnce DEF EndEvt
<1>11. /\ \A u : u # t => Of(agenda', u) = Of(agenda, u)
       /\ Of(agenda', t) = IF last THEN {"end"} ELSE {}
       /\ \A f : f \notin {<<"end", t>>, <<"instr", t>>} =>
                    (IsPosted(agenda', f) <=> IsPosted(agenda, f))
       /\ \A x : x.ev \notin {<<"end", t>>, <<"instr", t>>} =>
                    (x \in Entries(agenda') <=> x \in Entries(agenda))
       /\ \A x \in Entries(agenda') :
             x \in Entries(agenda) \/ x = Entry(<<"end", t>>, Now, 6)
  <2>1. CASE last
    <3>1. Gains(agenda', Rest, Entry(<<"end", t>>, Now, 6))
      BY <1>10, <2>1
    <3>2. /\ \A u : u # t => Of(agenda', u) = Of(Rest, u)
          /\ Of(agenda', t) = Of(Rest, t) \cup (JobKinds \cap {"end"})
          /\ \A f : IsPosted(agenda', f) <=> IsPosted(Rest, f) \/ f = <<"end", t>>
          /\ \A x : x.ev # <<"end", t>> => (x \in Entries(agenda') <=> x \in Entries(Rest))
      BY <3>1, GainsOf
    <3>3. \A x \in Entries(agenda') :
             x \in Entries(Rest) \/ x = Entry(<<"end", t>>, Now, 6)
      BY <3>1 DEF Gains
    <3> HIDE DEF last
    <3> QED
      BY <1>7, <1>8, <2>1, <3>2, <3>3 DEF JobKinds, Loses
  <2>2. CASE ~last
    <3> HIDE DEF last
    <3> QED
      BY <1>7, <1>8, <1>10, <2>2 DEF Loses
  <2> QED
    BY <2>1, <2>2
<1>12. ASSUME NEW u \in Tasks, u # t PROVE TaskInv(u)'
  <2>1. "end" \in Of(agenda, u) => Now = now
    BY <1>1, EndsAtOnce
  <2>2. Untouched(u)
    <3>1. Dead(u) \notin {<<"end", t>>, <<"instr", t>>}
          /\ FakeArr(u) \notin {<<"end", t>>, <<"instr", t>>}
      BY KindOf, EventParts
    <3>2. /\ actInstr'[u] = actInstr[u] /\ lastTime'[u] = lastTime[u]
          /\ (call' = u <=> call = u) /\ (IsBlocked(u)' <=> IsBlocked(u))
      BY <1>5, <1>9, <1>10, <1>12 DEF KernelInv, Typed, IsBlocked
    <3> QED
      BY <1>3, <1>5, <1>7, <1>9, <1>11, <1>12, <2>1, <3>1, <3>2 DEF Untouched
  <2> QED
    BY <1>7, <2>2, UntouchedStays DEF KernelInv, Typed
<1>13. TaskInv(t)'
  <2>1. /\ actInstr'[t] = actInstr[t] + 1 /\ lastTime'[t] = Now
        /\ ~IsBlocked(t)' /\ actInstr[t] \in 1..Len(Program[t]) + 1
        /\ actInstr[t] # Len(Program[t]) + 1 /\ Len(Program[t]) \in Nat
        /\ Instr(t).op = "exec" /\ ~waiting[t]
    BY <1>5, <1>6, <1>9, <1>10, Programs
       DEF KernelInv, Typed, IsBlocked, TaskInv, InProgram
  <2>2. Situation(t, Of(agenda, t))'
    <3> HIDE DEF last
    <3> QED
      BY <1>5, <1>6, <1>9, <1>10, <1>11, <2>1
         DEF Situation, Scheduling, Executing
  <2>3. EndsInTime(t)' /\ DeadInTime(t)' /\ BufferInTime(t)'
    <3>1. Dead(t) \notin {<<"end", t>>, <<"instr", t>>}
          /\ FakeArr(t) \notin {<<"end", t>>, <<"instr", t>>}
      BY KindOf, EventParts
    <3>2. "kill" \notin Of(agenda', t)
      BY <1>11
    <3>3. EndsInTime(t)'
      BY <1>3, <1>7, <1>11, <3>1 DEF EndsInTime
    <3> HIDE DEF last
    <3> QED
      BY <1>5, <1>6, <1>9, <1>11, <3>1, <3>2, <3>3
         DEF DeadInTime, BufferInTime, TaskInv
  <2>4. InProgram(t)'
    BY <1>7, <1>9, <1>11, <2>1 DEF InProgram
  <2> QED
    BY <2>2, <2>3, <2>4 DEF TaskInv
<1>14. SchedIsAlone' /\ DispatchIsAlone' /\ CallGoesOn'
  <2>1. EndDisp \notin {<<"end", t>>, <<"instr", t>>}
    BY KindOf, EventParts
  <2>2. ~IsPosted(agenda', EndDisp) /\ \A u \in Tasks : "sched" \notin Of(agenda', u)
    BY <1>3, <1>11, <2>1
  <2>3. \A y \in Entries(agenda') : y.at > Now \/ y.prio > 0
    BY <1>3, <1>11, EntryParts
  <2> QED
    BY <1>7, <1>10, <2>2, <2>3, QuietAgenda DEF CallGoesOn
<1>15. Waits'
  <2>1. \A u : IsBlocked(u) => waiting'[u] = waiting[u] /\ actInstr'[u] = actInstr[u]
    BY <1>6, <1>9, <1>10 DEF KernelInv, Typed
  <2> QED
    BY <1>9, <2>1, WaitsStay DEF KernelInv
<1>16. Typed'
  <2> HIDE DEF last
  <2>0. call' \in Tasks \cup {None}
    BY <1>10
  <2>1. actInstr' \in [Tasks -> Nat]
    <3>1. actInstr \in [Tasks -> Nat] /\ actInstr' = [actInstr EXCEPT ![t] = @ + 1]
      BY <1>10 DEF KernelInv, Typed
    <3> QED
      BY <3>1
  <2>2. /\ cost' \in [Tasks -> Nat \cup {Undrawn}] /\ done' \in [Tasks -> Nat]
        /\ lastTime' \in [Tasks -> Nat]
    BY <1>7, <1>9 DEF KernelInv, Typed
  <2> QED
    BY <1>7, <1>9, <2>0, <2>1, <2>2 DEF KernelInv, Typed
<1> QED
  BY <1>7, <1>10, <1>12, <1>13, <1>14, <1>15, <1>16 DEF KernelInv

-----------------------------------------------------------------------------
(* A task gets the CPU, and loses it.                                        *)

(* An event that is handled at the time it was posted for, at once. *)
LEMMA HandledAtOnce ==
    ASSUME KernelInv, NEW e, Entered(e),
           e[1] \in {"sched", "desched", "susp", "end", "kill", "beginDispatch",
                     "endDispatch", "fakeArr"}
    PROVE  Now = now
<1>1. Timed(Head(agenda), now) /\ Head(agenda).ev = e /\ Head(agenda).at = Now
  BY GoodEntries DEF KernelInv, Entered
<1> QED
  BY <1>1 DEF Timed

LEMMA SchedKeeps ==
    ASSUME KernelInv, NEW t \in Tasks, OnSched(t)
    PROVE  KernelInv'
<1>1. Entered(Sched(t)) /\ Sched(t)[1] = "sched" /\ Now = now
  BY Entering, HandledAtOnce, KindOf DEF OnSched, Handles
<1>2. TaskInv(t) /\ call = None /\ None \notin Tasks
  BY <1>1, Programs DEF KernelInv, Entered
<1>3. "sched" \in Of(agenda, t)
  BY <1>1 DEF Entered, Of, JobKinds, Sched
<1>4. /\ state[t] = "READY" /\ t \in queue /\ currExe = t /\ ~IsBlocked(t)
      /\ Of(agenda, t) = {"sched"}
  BY <1>2, <1>3 DEF TaskInv, Situation, Scheduling, Idle, Ready, Executing
<1>5. /\ GoodAgenda(Rest, Now) /\ Now \in Nat /\ now' = Now
      /\ Loses(Rest, agenda, <<"sched", t>>)
  BY <1>1 DEF Entered, Sched
<1>6. /\ \A u : u # t => Of(Rest, u) = Of(agenda, u)
      /\ Of(Rest, t) = {}
      /\ \A f : IsPosted(Rest, f) <=> IsPosted(agenda, f) /\ f # <<"sched", t>>
      /\ \A x : x.ev # <<"sched", t>> => (x \in Entries(Rest) <=> x \in Entries(agenda))
  BY <1>4, <1>5, LosesOf
<1>7. \A y \in Entries(Rest) : y.at > Now
  <2>1. Head(agenda) \in Entries(agenda) /\ Head(agenda).ev = Sched(t)
    BY <1>1 DEF Entered
  <2> QED
    BY <1>1, <1>5, <2>1 DEF KernelInv, SchedIsAlone, Loses, Sched
<1>8. actInstr[t] <= Len(Program[t]) /\ ~(actInstr[t] > Len(Program[t]))
  BY <1>2, <1>4, Programs DEF TaskInv, InProgram
<1>9. /\ agenda' = DropFrom(Rest, Desched(t))
      /\ state' = [state EXCEPT ![t] = "EXEC"]
      /\ call' = t /\ exc' = "none"
      /\ UNCHANGED <<queue, insertTime, currExe, actInstr, arrival, dl,
                     arrQueue, cost, done, lastTime, waiting, available,
                     blocked, run, phase, policy, lastSched>>
      /\ urgent' \subseteq urgent
  BY <1>4, <1>8 DEF OnSched, Handles, Enters, Comes, kernelVars, jobVars, instrVars, resVars
<1>10. agenda' = Rest
  <2>1. ~IsPosted(Rest, Desched(t))
    BY <1>6 DEF Of, JobKinds, Desched
  <2> QED
    BY <1>9, <2>1, DropNothing
<1>11. \A u : IsBlocked(u)' <=> IsBlocked(u)
  BY <1>9 DEF IsBlocked
<1>12. \A u : "sched" \notin Of(agenda', u) /\ ~IsPosted(agenda', EndDisp)
  <2>1. \A y \in Entries(Rest) : Timed(y, Now) /\ y.at > Now /\ y.at \in Nat
    BY <1>5, <1>7, GoodEntries
  <2>2. \A y \in Entries(Rest) : y.ev[1] # "sched" /\ y.ev[1] # "endDispatch"
    BY <1>5, <2>1 DEF Timed
  <2>3. ASSUME NEW u, "sched" \in Of(Rest, u) PROVE FALSE
    <3>1. PICK y \in Entries(Rest) : y.ev = <<"sched", u>>
      BY <2>3, PostedEntries DEF Of
    <3> QED
      BY <2>2, <3>1, EventParts
  <2>4. ~IsPosted(Rest, EndDisp)
    BY <2>2, KindOf, PostedEntries
  <2> QED
    BY <1>10, <2>3, <2>4
<1>13. ASSUME NEW u \in Tasks, u # t PROVE TaskInv(u)'
  <2>1. Dead(u) # <<"sched", t>> /\ FakeArr(u) # <<"sched", t>>
        /\ EndDisp # <<"sched", t>>
    BY KindOf, EventParts
  <2>0. state'[u] = state[u] /\ (call' = u <=> call = u) /\ now' = now
    BY <1>1, <1>2, <1>5, <1>9, <1>13 DEF KernelInv, Typed
  <2>2. Untouched(u)
    BY <1>1, <1>5, <1>6, <1>9, <1>10, <1>11, <1>13, <2>0, <2>1 DEF Untouched
  <2> QED
    BY <1>1, <1>5, <2>2, UntouchedStays DEF KernelInv, Typed
<1>14. TaskInv(t)'
  <2>1. state'[t] = "EXEC"
    BY <1>9 DEF KernelInv, Typed
  <2>2. Situation(t, Of(agenda, t))'
    BY <1>4, <1>6, <1>9, <1>10, <1>11, <2>1 DEF Situation, Scheduling
  <2>3. EndsInTime(t)' /\ DeadInTime(t)'
    BY <1>5, <1>6, <1>7, <1>10, <2>1 DEF EndsInTime, DeadInTime
  <2>4. BufferInTime(t)'
    <3>1. FakeArr(t) # <<"sched", t>>
      BY KindOf, EventParts
    <3> QED
      BY <1>2, <1>4, <1>6, <1>9, <1>10, <2>1, <3>1 DEF BufferInTime, TaskInv
  <2>5. InProgram(t)'
    BY <1>1, <1>2, <1>4, <1>5, <1>6, <1>9, <1>10, <2>1 DEF InProgram, TaskInv, Instr
  <2> QED
    BY <2>2, <2>3, <2>4, <2>5 DEF TaskInv
<1>15. SchedIsAlone' /\ DispatchIsAlone' /\ CallGoesOn'
  BY <1>5, <1>7, <1>10, <1>12, QuietAgenda DEF CallGoesOn
<1>16. Waits'
  BY <1>9, WaitsStay DEF KernelInv
<1>17. Typed'
  BY <1>5, <1>9 DEF KernelInv, Typed
<1> QED
  BY <1>5, <1>9, <1>10, <1>13, <1>14, <1>15, <1>16, <1>17 DEF KernelInv

LEMMA DeschedKeeps ==
    ASSUME KernelInv, NEW t \in Tasks, OnDesched(t)
    PROVE  KernelInv'
<1>1. Entered(Desched(t)) /\ Desched(t)[1] = "desched" /\ Now = now
  BY Entering, HandledAtOnce, KindOf DEF OnDesched, Handles
<1>2. TaskInv(t) /\ call = None /\ None \notin Tasks
  BY <1>1, Programs DEF KernelInv, Entered
<1>3. "desched" \in Of(agenda, t) /\ \A u : "sched" \notin Of(agenda, u)
  BY <1>1, NoSched DEF Entered, Of, JobKinds, Desched
<1>4. state[t] = "EXEC" /\ Executing(t, Of(agenda, t)) /\ "end" \notin Of(agenda, t)
  BY <1>2, <1>3 DEF TaskInv, Situation, Scheduling, Idle, Ready, Executing
<1>5. /\ GoodAgenda(Rest, Now) /\ Now \in Nat /\ now' = Now
      /\ Loses(Rest, agenda, <<"desched", t>>)
  BY <1>1 DEF Entered, Desched
<1>6. actInstr[t] <= Len(Program[t]) /\ ~(actInstr[t] > Len(Program[t]))
  BY <1>2, <1>4, Programs DEF TaskInv, InProgram
<1> DEFINE q == DropFrom(Rest, EndEvt(t))
<1>7. /\ agenda' = DropFrom(q, InstrEvt(t))
      /\ state' = [state EXCEPT ![t] = "READY"]
      /\ IF IsPosted(Rest, InstrEvt(t)) THEN Stop(t) ELSE UNCHANGED <<done, lastTime>>
      /\ call' = None /\ exc' = "none"
      /\ UNCHANGED <<queue, insertTime, currExe, actInstr, arrival, dl,
                     arrQueue, cost, waiting, available,
                     blocked, run, phase, policy, lastSched>>
      /\ urgent' \subseteq urgent
  BY <1>2, <1>4, <1>6
     DEF OnDesched, Handles, Enters, Comes, Goes, kernelVars, jobVars, resVars
<1>8. /\ GoodAgenda(q, Now) /\ Loses(q, Rest, <<"end", t>>)
      /\ GoodAgenda(agenda', Now) /\ Loses(agenda', q, <<"instr", t>>)
  <2>1. GoodAgenda(q, Now) /\ Loses(q, Rest, <<"end", t>>)
    BY <1>5, GoodDrop DEF EndEvt
  <2> HIDE DEF q
  <2> QED
    BY <1>7, <2>1, GoodDrop DEF InstrEvt
<1> HIDE DEF q
<1>9. /\ \A u : u # t => Of(agenda', u) = Of(agenda, u)
      /\ Of(agenda', t) = Of(agenda, t) \ {"desched", "end", "instr"}
      /\ \A f : f \notin {<<"desched", t>>, <<"end", t>>, <<"instr", t>>} =>
                   (IsPosted(agenda', f) <=> IsPosted(agenda, f))
      /\ \A x : x.ev \notin {<<"desched", t>>, <<"end", t>>, <<"instr", t>>} =>
                   (x \in Entries(agenda') <=> x \in Entries(agenda))
      /\ \A x \in Entries(agenda') : x \in Entries(agenda)
  <2>1. /\ \A u : u # t => Of(Rest, u) = Of(agenda, u)
        /\ Of(Rest, t) = Of(agenda, t) \ {"desched"}
        /\ \A f : IsPosted(Rest, f) <=> IsPosted(agenda, f) /\ f # <<"desched", t>>
        /\ \A x : x.ev # <<"desched", t>> => (x \in Entries(Rest) <=> x \in Entries(agenda))
    BY <1>5, LosesOf
  <2>2. /\ \A u : u # t => Of(q, u) = Of(Rest, u)
        /\ Of(q, t) = Of(Rest, t) \ {"end"}
        /\ \A f : IsPosted(q, f) <=> IsPosted(Rest, f) /\ f # <<"end", t>>
        /\ \A x : x.ev # <<"end", t>> => (x \in Entries(q) <=> x \in Entries(Rest))
    BY <1>8, LosesOf
  <2>3. /\ \A u : u # t => Of(agenda', u) = Of(q, u)
        /\ Of(agenda', t) = Of(q, t) \ {"instr"}
        /\ \A f : IsPosted(agenda', f) <=> IsPosted(q, f) /\ f # <<"instr", t>>
        /\ \A x : x.ev # <<"instr", t>> => (x \in Entries(agenda') <=> x \in Entries(q))
    BY <1>8, LosesOf
  <2>4. \A x \in Entries(agenda') : x \in Entries(agenda)
    BY <1>5, <1>8 DEF Loses
  <2> QED
    BY <2>1, <2>2, <2>3, <2>4
<1>10. /\ \A u : IsBlocked(u)' <=> IsBlocked(u)
       /\ \A u : /\ Dead(u) \notin {<<"desched", t>>, <<"end", t>>, <<"instr", t>>}
                 /\ FakeArr(u) \notin {<<"desched", t>>, <<"end", t>>, <<"instr", t>>}
       /\ EndDisp \notin {<<"desched", t>>, <<"end", t>>, <<"instr", t>>}
  BY <1>7, KindOf, EventParts DEF IsBlocked
<1>11. /\ done' \in [Tasks -> Nat] /\ lastTime' \in [Tasks -> Nat]
       /\ \A u \in Tasks : u # t => lastTime'[u] = lastTime[u]
       /\ lastTime'[t] <= Now
  <2>1. /\ done \in [Tasks -> Nat] /\ lastTime \in [Tasks -> Nat]
        /\ lastTime[t] <= Now
    BY <1>1, <1>2 DEF KernelInv, Typed, TaskInv, InProgram
  <2>2. CASE IsPosted(Rest, InstrEvt(t))
    <3>1. /\ lastTime' = [lastTime EXCEPT ![t] = Now]
          /\ done' = [done EXCEPT ![t] = @ + Now - lastTime[t]]
      BY <1>7, <2>2 DEF Stop
    <3>2. done[t] + Now - lastTime[t] \in Nat
      BY <1>5, <2>1
    <3> QED
      BY <1>5, <2>1, <3>1, <3>2
  <2>3. CASE ~IsPosted(Rest, InstrEvt(t))
    BY <1>7, <2>1, <2>3
  <2> QED
    BY <2>2, <2>3
<1>12. ASSUME NEW u \in Tasks, u # t PROVE TaskInv(u)'
  <2>0. state'[u] = state[u] /\ (call' = u <=> call = u) /\ now' = now
    BY <1>1, <1>2, <1>5, <1>7, <1>12 DEF KernelInv, Typed
  <2>1. Untouched(u)
    BY <1>1, <1>5, <1>7, <1>9, <1>10, <1>11, <1>12, <2>0 DEF Untouched
  <2> QED
    BY <1>1, <1>5, <2>1, UntouchedStays DEF KernelInv, Typed
<1>13. TaskInv(t)'
  <2>1. state'[t] = "READY"
    BY <1>7 DEF KernelInv, Typed
  <2>2. Situation(t, Of(agenda, t))'
    <3>1. call' # t
      BY <1>2, <1>7
    <3>2. Ready(t, Of(agenda, t))'
      <4>1. LET D == {"desched", "end", "instr"}
            IN  /\ {"instr", "desched"} \ D = {} /\ {"desched"} \ D = {}
                /\ {"instr", "desched", "kill"} \ D = {"kill"}
                /\ {"desched", "resume"} \ D = {"resume"}
        OBVIOUS
      <4>2. \/ /\ t \in queue /\ ~IsBlocked(t)
               /\ \/ currExe = t /\ Of(agenda', t) = {"kill"}
                  \/ currExe # t /\ Of(agenda', t) \in {{}, {"kill"}}
            \/ /\ t \notin queue /\ currExe # t
               /\ \/ IsBlocked(t) /\ Of(agenda', t) = {}
                  \/ ~IsBlocked(t) /\ Of(agenda', t) = {"resume"}
        BY <1>3, <1>4, <1>9, <4>1 DEF Executing
      <4> QED
        BY <1>7, <1>10, <2>1, <4>2 DEF Ready
    <3> QED
      BY <3>1, <3>2 DEF Situation
  <2>3. EndsInTime(t)' /\ DeadInTime(t)'
    BY <1>2, <1>9, <1>10, <2>1 DEF EndsInTime, DeadInTime, TaskInv
  <2>4. BufferInTime(t)'
    BY <1>2, <1>4, <1>7, <1>9, <1>10, <2>1 DEF BufferInTime, TaskInv
  <2>5. InProgram(t)'
    BY <1>2, <1>4, <1>5, <1>6, <1>7, <1>9, <1>11, <2>1
       DEF InProgram, TaskInv, Instr
  <2> QED
    BY <2>2, <2>3, <2>4, <2>5 DEF TaskInv
<1>14. SchedIsAlone' /\ DispatchIsAlone' /\ CallGoesOn'
  <2>1. SchedIsAlone'
    BY <1>3, <1>8, <1>9, EventTask DEF SchedIsAlone
  <2>2. DispatchIsAlone'
    <3> SUFFICES ASSUME IsPosted(agenda', EndDisp)
                 PROVE  /\ currExe \in Tasks /\ state'[currExe] = "READY"
                        /\ \A y \in Entries(agenda') :
                              y.ev = EndDisp \/ y.at > now \/ y.ev[1] = "desched"
      BY <1>1, <1>5, <1>7 DEF DispatchIsAlone
    <3>1. IsPosted(agenda, EndDisp)
      BY <1>9, <1>10
    <3> QED
      BY <1>7, <1>9, <3>1 DEF DispatchIsAlone, KernelInv, Typed
  <2> QED
    BY <1>7, <2>1, <2>2 DEF CallGoesOn
<1>15. Waits'
  BY <1>7, WaitsStay DEF KernelInv
<1>16. Typed'
  BY <1>5, <1>7, <1>11 DEF KernelInv, Typed
<1> QED
  BY <1>5, <1>7, <1>8, <1>12, <1>13, <1>14, <1>15, <1>16 DEF KernelInv

-----------------------------------------------------------------------------
(* The dispatcher.                                                           *)

LEMMA Numbers ==
    ASSUME NEW t \in Tasks
    PROVE  Number(t) \in Nat /\ TaskSeq[Number(t)] = t
<1>1. \E i \in DOMAIN TaskSeq : TaskSeq[i] = t
  BY DEF Tasks, ToSet
<1>2. Number(t) \in DOMAIN TaskSeq /\ TaskSeq[Number(t)] = t
  BY <1>1 DEF Number
<1>3. DOMAIN TaskSeq = 1..Len(TaskSeq) /\ Len(TaskSeq) \in Nat
  BY TaskAssumption
<1> QED
  BY <1>2, <1>3

(* Every scheduler ranks the tasks by a number. *)
LEMMA Ranks ==
    ASSUME Typed, NEW t \in Tasks
    PROVE  Rank(t) \in Nat /\ insertTime[t] \in Nat
BY TaskAssumption, KernelAssumption DEF Typed, Rank

(* One of the tasks of the queue is ahead of all others. *)
FirstIsAhead ==
    \/ queue = {} /\ First = None
    \/ First \in queue /\ \A u \in queue \ {First} : Ahead(First, u)

LEMMA FirstOfQueue ==
    Typed => FirstIsAhead
<1> SUFFICES ASSUME Typed PROVE FirstIsAhead
  OBVIOUS
<1>1. CASE queue = {}
  BY <1>1 DEF First, FirstIsAhead
<1>2. CASE queue # {}
  <2>1. \A u \in queue : u \in Tasks /\ Rank(u) \in Nat /\ insertTime[u] \in Nat
                         /\ Number(u) \in Nat /\ TaskSeq[Number(u)] = u
    BY Ranks, Numbers DEF Typed
  <2> DEFINE A == {Rank(u) : u \in queue}
  <2>2. PICK m \in A : \A n \in A : m <= n
    <3>1. A \in SUBSET Nat /\ A # {}
      BY <1>2, <2>1
    <3> QED
      BY <3>1, LeastNumber
  <2>m. m \in Nat
    BY <2>1
  <2> DEFINE Q == {u \in queue : Rank(u) = m}
             B == {insertTime[u] : u \in Q}
  <2>3. PICK i \in B : \A n \in B : i <= n
    <3>1. B \in SUBSET Nat /\ B # {}
      BY <2>1
    <3> HIDE DEF B
    <3> QED
      BY <3>1, LeastNumber
  <2>i. i \in Nat
    BY <2>1
  <2> DEFINE R == {u \in Q : insertTime[u] = i}
             C == {Number(u) : u \in R}
  <2>4. PICK c \in C : \A n \in C : c <= n
    <3>1. C \in SUBSET Nat /\ C # {}
      BY <2>1
    <3> HIDE DEF C
    <3> QED
      BY <3>1, LeastNumber
  <2>5. PICK t \in queue : Rank(t) = m /\ insertTime[t] = i /\ Number(t) = c
    OBVIOUS
  <2>6. ASSUME NEW u \in queue, u # t PROVE Ahead(t, u)
    <3>1. /\ m <= Rank(u)
          /\ Rank(u) = m => i <= insertTime[u]
          /\ Rank(u) = m /\ insertTime[u] = i => c <= Number(u)
      BY <2>2, <2>3, <2>4
    <3>2. Number(u) # c
      BY <2>1, <2>5, <2>6
    <3> HIDE DEF A, B, C, Q, R
    <3>3. c \in Nat
      BY <2>1, <2>5
    <3> QED
      BY <2>1, <2>m, <2>i, <2>5, <3>1, <3>2, <3>3 DEF Ahead
  <2>7. First = CHOOSE s \in queue : \A u \in queue \ {s} : Ahead(s, u)
    BY <1>2 DEF First
  <2> HIDE DEF A, B, C, Q, R
  <2> QED
    BY <2>6, <2>7 DEF FirstIsAhead
<1> QED
  BY <1>1, <1>2

LEMMA FirstIsReady ==
    ASSUME Typed
    PROVE  /\ First \in Tasks \cup {None}
           /\ First # None => First \in queue
           /\ First = None => queue = {}
BY FirstOfQueue, TaskAssumption DEF FirstIsAhead, Typed

(* Every task is untouched. *)
LEMMA AllUntouched ==
    ASSUME KernelInv, \A u \in Tasks : Untouched(u), now' \in Nat
    PROVE  \A u \in Tasks : TaskInv(u)'
<1> SUFFICES ASSUME NEW u \in Tasks PROVE TaskInv(u)'
  OBVIOUS
<1>1. TaskInv(u) /\ now \in Nat /\ lastTime[u] \in Nat /\ Untouched(u)
  BY DEF KernelInv, Typed
<1> QED
  BY <1>1, UntouchedStays

(* The events of tasks are not the kernel's. *)
LEMMA NotOfTask ==
    \A e \in {Begin, EndDisp, Round} :
        \A u : /\ Dead(u) # e /\ FakeArr(u) # e /\ Sched(u) # e /\ Desched(u) # e
               /\ \A k \in JobKinds : <<k, u>> # e
BY KindOf, EventParts DEF JobKinds

(* A handler that changes nothing of any task, and no event of one. *)
LEMMA NoTaskIsTouched ==
    ASSUME KernelInv, NEW e \in {Begin, Round}, Entered(e),
           \A f : f \notin {Begin, Round} =>
                     (IsPosted(agenda', f) <=> IsPosted(agenda, f)),
           \A x : x.ev \notin {Begin, Round} =>
                     (x \in Entries(agenda') <=> x \in Entries(agenda)),
           GoodAgenda(agenda', Now), call' = None,
           UNCHANGED <<queue, currExe, state, actInstr, arrQueue, lastTime,
                       waiting, blocked>>
    PROVE  /\ \A u \in Tasks : TaskInv(u)'
           /\ SchedIsAlone' /\ DispatchIsAlone' /\ CallGoesOn' /\ Waits'
<1>1. /\ Now \in Nat /\ now' = Now /\ Now >= now /\ call = None
      /\ e # EndDisp /\ e[1] # "desched" /\ e[1] # "sched"
  BY KindOf DEF Entered
<1>2. ASSUME NEW u PROVE Of(agenda', u) = Of(agenda, u)
  <2>1. \A k \in JobKinds : <<k, u>> \notin {Begin, Round}
    BY NotOfTask
  <2> QED
    BY <2>1 DEF Of
<1>3. ~IsPosted(agenda, EndDisp) /\ ~IsPosted(agenda', EndDisp)
  BY <1>1, KindOf, NoEndDispatch
<1>4. \A u : "sched" \notin Of(agenda', u)
  BY <1>1, <1>2, NoSched
<1>5. ASSUME NEW u \in Tasks PROVE Untouched(u)
  <2>1. "end" \in Of(agenda, u) => Now = now
    BY EndsAtOnce
  <2>2. Dead(u) \notin {Begin, Round} /\ FakeArr(u) \notin {Begin, Round}
    BY NotOfTask
  <2>3. call # u /\ (IsBlocked(u)' <=> IsBlocked(u))
    BY <1>1, Programs DEF IsBlocked
  <2> QED
    BY <1>1, <1>2, <1>3, <2>1, <2>2, <2>3 DEF Untouched
<1>6. \A u \in Tasks : TaskInv(u)'
  BY <1>1, <1>5, AllUntouched
<1>7. SchedIsAlone' /\ DispatchIsAlone' /\ CallGoesOn'
  BY <1>1, <1>3, <1>4, QuietAgenda DEF CallGoesOn
<1>8. Waits'
  BY WaitsStay DEF KernelInv
<1> QED
  BY <1>6, <1>7, <1>8

(* RRScheduler::round *)
LEMMA RoundKeeps ==
    ASSUME KernelInv, OnRound
    PROVE  KernelInv'
<1>1. Entered(Round)
  BY Entering DEF OnRound, Handles
<1>2. /\ UNCHANGED <<call, queue, currExe, state, actInstr, arrival, dl,
                     arrQueue, cost, done, lastTime, waiting, available,
                     blocked, run, phase, policy, lastSched>>
      /\ exc' = "none" /\ urgent' \subseteq urgent
  BY DEF OnRound, Handles, Enters, Comes, jobVars, instrVars, resVars
<1>3. /\ GoodAgenda(Rest, Now) /\ Now \in Nat /\ now' = Now /\ call = None
      /\ Loses(Rest, agenda, Round)
  BY <1>1 DEF Entered
<1>4. insertTime' \in [Tasks -> Nat]
  <2>1. insertTime \in [Tasks -> Nat] /\ (First # None => First \in Tasks)
    BY FirstIsReady DEF KernelInv, Typed
  <2>2. CASE First = None
    BY <2>1, <2>2 DEF OnRound
  <2>3. CASE First # None
    BY <1>3, <2>1, <2>3 DEF OnRound, Reinserted
  <2> QED
    BY <2>2, <2>3
<1>5. Typed'
  BY <1>2, <1>3, <1>4 DEF KernelInv, Typed
<1>6. First' \in Tasks \cup {None}
  <2>1. FirstIsAhead'
    BY <1>5, FirstOfQueue, PTL
  <2> QED
    BY <1>5, <2>1 DEF FirstIsAhead, Typed
<1> DEFINE q == IF First' # First \/ IsRoundExpired(First)
                THEN Notified(Rest, First') ELSE Rest
<1>7. GoodAgenda(q, Now) /\ ButRound(q, Rest, Now)
  <2>1. ButRound(Rest, Rest, Now)
    BY DEF ButRound
  <2>2. GoodAgenda(Notified(Rest, First'), Now)
        /\ ButRound(Notified(Rest, First'), Rest, Now)
    <3>1. PICK f \in Tasks \cup {None} : f = First'
      BY <1>6
    <3>2. GoodAgenda(Notified(Rest, f), Now) /\ ButRound(Notified(Rest, f), Rest, Now)
      BY <1>3, NotifiedButRound
    <3> QED
      BY <3>1, <3>2
  <2> QED
    BY <1>3, <2>1, <2>2
<1> HIDE DEF q
<1>8. /\ GoodAgenda(agenda', Now)
      /\ \A f : f \notin {Begin, Round} =>
                   (IsPosted(agenda', f) <=> IsPosted(agenda, f))
      /\ \A x : x.ev \notin {Begin, Round} =>
                   (x \in Entries(agenda') <=> x \in Entries(agenda))
  <2>1. CASE First = None
    BY <1>3, <2>1 DEF OnRound, Loses
  <2>2. CASE First # None
    <3>1. agenda' = Dispatching(q)
      BY <2>2 DEF OnRound, q
    <3>2. GoodAgenda(agenda', Now) /\ Moves(agenda', q, Entry(Begin, Now, 18))
      BY <1>3, <1>7, <3>1, DispatchMoves
    <3> QED
      BY <1>3, <1>7, <3>2, EntryParts DEF Moves, ButRound, Loses
  <2> QED
    BY <2>1, <2>2
<1>9. /\ \A u \in Tasks : TaskInv(u)'
      /\ SchedIsAlone' /\ DispatchIsAlone' /\ CallGoesOn' /\ Waits'
  BY <1>1, <1>2, <1>3, <1>8, NoTaskIsTouched
<1> QED
  BY <1>2, <1>3, <1>5, <1>8, <1>9 DEF KernelInv

(* When the CPU is given away, nothing else is due. *)
LEMMA NothingDue ==
    ASSUME KernelInv, NEW e \in {Begin, EndDisp}, Entered(e)
    PROVE  /\ Now = now /\ call = None
           /\ \A u : Of(agenda, u) \cap {"sched", "desched", "susp", "end", "kill"}
                        = {}
           /\ \A y \in Entries(Rest) : y.at > Now
           /\ e = Begin => ~IsPosted(agenda, EndDisp)
<1>1. /\ e[1] \in {"beginDispatch", "endDispatch"} /\ call = None
      /\ GoodAgenda(agenda, Now) /\ Loses(Rest, agenda, e)
      /\ GoodAgenda(Rest, Now) /\ Now \in Nat
  BY KindOf DEF Entered
<1>2. Now = now
  BY <1>1, HandledAtOnce
<1>3. Head(agenda).prio = 18
  BY <1>1, HandledPriority
<1>4. /\ \A y \in Entries(agenda) : y.at > Now \/ y.prio >= 18
      /\ \A u : Of(agenda, u) \cap {"sched", "desched", "susp", "end", "kill"} = {}
  BY <1>3, NotBefore
<1>5. e = Begin => ~IsPosted(agenda, EndDisp)
  <2>1. Begin # EndDisp /\ Begin[1] # "desched"
    BY KindOf
  <2> QED
    BY <2>1, NoEndDispatch
<1>6. ASSUME NEW y \in Entries(Rest) PROVE y.at > Now
  <2>1. y \in Entries(agenda) /\ y.ev # e /\ Timed(y, Now) /\ y.at \in Nat
    BY <1>1, GoodEntries DEF Loses
  <2>2. CASE e = Begin
    <3>1. y.ev \notin {Begin, EndDisp}
      BY <1>5, <2>1, <2>2, PostedEntries
    <3>2. y.ev[1] # "beginDispatch" /\ y.ev[1] # "endDispatch"
      BY <1>1, <2>1, <3>1, EventTask, EventParts, KindOf DEF Kinds
    <3> QED
      BY <1>1, <1>4, <2>1, <3>2 DEF Timed
  <2>3. CASE e = EndDisp
    <3>1. y.at > now \/ y.ev[1] = "desched"
      BY <1>1, <2>1, <2>3 DEF KernelInv, DispatchIsAlone, Entered
    <3> QED
      BY <1>1, <1>2, <1>4, <2>1, <3>1 DEF Timed
  <2> QED
    BY <2>2, <2>3
<1> QED
  BY <1>1, <1>2, <1>4, <1>5, <1>6

(* RTKernel::onBeginDispatch, when another task is the first. *)
LEMMA SwitchKeeps ==
    ASSUME KernelInv, Sound, OnBeginDispatch, First # currExe
    PROVE  KernelInv'
<1>1. Entered(Begin)
  BY Entering DEF OnBeginDispatch, Handles
<1>2. /\ Now = now /\ call = None
      /\ \A u : Of(agenda, u) \cap {"sched", "desched", "susp", "end", "kill"} = {}
      /\ \A y \in Entries(Rest) : y.at > Now
      /\ ~IsPosted(agenda, EndDisp)
  BY <1>1, NothingDue
<1>3. /\ GoodAgenda(Rest, Now) /\ Now \in Nat /\ now' = Now
      /\ Loses(Rest, agenda, Begin) /\ None \notin Tasks
  BY <1>1, TaskAssumption DEF Entered
<1>4. ASSUME NEW u \in Tasks, currExe = u
      PROVE  state[u] = "EXEC" /\ u \in queue /\ ~IsBlocked(u) /\ Of(agenda, u) = {"instr"}
  <2>1. TaskInv(u) /\ call # u
    BY <1>2, <1>3 DEF KernelInv
  <2>2. /\ "kill" \notin Of(agenda, u) /\ "sched" \notin Of(agenda, u)
        /\ "end" \notin Of(agenda, u) /\ "susp" \notin Of(agenda, u)
    BY <1>2
  <2> QED
    BY <1>2, <1>4, <2>1, <2>2
       DEF TaskInv, Situation, Scheduling, Idle, Ready, Executing
<1>5. First \in queue /\ First \in Tasks
  <2>1. /\ First \in Tasks \cup {None} /\ (First # None => First \in queue)
        /\ (First = None => queue = {})
    BY FirstIsReady DEF KernelInv
  <2>2. First = None => currExe \in Tasks /\ currExe \in queue
    BY <1>4 DEF KernelInv, Typed
  <2> QED
    BY <2>1, <2>2
<1>6. PICK f \in Tasks : f = First
  BY <1>5
<1>7. state[f] = "READY" /\ f \in queue /\ ~IsBlocked(f) /\ Of(agenda, f) = {}
      /\ currExe # f
  <2>1. TaskInv(f) /\ call # f
    BY <1>2, <1>3 DEF KernelInv
  <2>2. "kill" \notin Of(agenda, f) /\ "desched" \notin Of(agenda, f)
    BY <1>2
  <2> QED
    BY <1>2, <1>5, <1>6, <2>1, <2>2
       DEF TaskInv, Situation, Scheduling, Idle, Ready, Executing
<1> DEFINE q == IF currExe = None THEN Rest ELSE Descheduled(Rest, currExe)
<1>8. /\ agenda' = Post(q, EndDisp, Now)
      /\ currExe' = f
      /\ exc' = IF IsPosted(q, EndDisp) THEN "AlreadyPosted" ELSE "none"
      /\ UNCHANGED <<call, queue, insertTime, state, actInstr, arrival, dl,
                     arrQueue, cost, done, lastTime, waiting, available,
                     blocked, run, phase, policy, lastSched>>
      /\ urgent' \subseteq urgent
  <2>1. First # None
    BY <1>3, <1>5
  <2>2. Now + ContextSwitchDelay = Now
    BY <1>3 DEF Sound
  <2> QED
    BY <1>6, <2>1, <2>2
       DEF OnBeginDispatch, Handles, Enters, Comes, GoesUnlessPosted, jobVars,
           instrVars, resVars
<1>9. \A f1 : f1 # Begin => (IsPosted(Rest, f1) <=> IsPosted(agenda, f1))
  BY <1>3 DEF Loses
<1>10. \A u : Of(Rest, u) = Of(agenda, u)
  BY <1>9, NotOfTask DEF Of
<1>11. /\ GoodAgenda(q, Now) /\ ~IsPosted(q, EndDisp)
       /\ \A u : Of(q, u) = IF currExe # None /\ u = currExe
                            THEN {"instr", "desched"} ELSE Of(agenda, u)
       /\ \A x : x.ev[1] # "desched" => (x \in Entries(q) <=> x \in Entries(Rest))
       /\ \A x \in Entries(q) : x.at > Now \/ x.ev[1] = "desched"
       /\ \A x \in Entries(q) : x.ev[1] # "sched"
  <2>0. \A x \in Entries(Rest) : x.ev[1] # "sched"
    BY <1>2, <1>3, <1>10, EventTask
  <2>1. CASE currExe = None
    BY <1>2, <1>3, <1>9, <1>10, <2>0, <2>1, KindOf
  <2>2. CASE currExe # None
    <3>1. PICK o \in Tasks : o = currExe
      BY <2>2 DEF KernelInv, Typed
    <3>2. ~IsPosted(Rest, Sched(o))
      <4>1. "sched" \notin Of(Rest, o)
        BY <1>2, <1>10
      <4> QED
        BY <4>1 DEF Of, JobKinds, Sched
    <3>3. q = Descheduled(Rest, o)
      BY <2>2, <3>1
    <3> HIDE DEF q
    <3>4. GoodAgenda(q, Now) /\ Moves(q, Rest, Entry(<<"desched", o>>, Now, 0))
      BY <1>3, <3>2, <3>3, DeschedMoves DEF Desched
    <3>5. /\ \A u : u # o => Of(q, u) = Of(Rest, u)
          /\ Of(q, o) = Of(Rest, o) \cup (JobKinds \cap {"desched"})
          /\ \A f1 : IsPosted(q, f1) <=> IsPosted(Rest, f1) \/ f1 = <<"desched", o>>
      BY <3>4, GainsOf
    <3>6. Of(q, o) = {"instr", "desched"}
      BY <1>4, <1>10, <3>1, <3>5 DEF JobKinds
    <3>7. ~IsPosted(q, EndDisp)
      <4>1. EndDisp # <<"desched", o>>
        BY KindOf, EventParts
      <4>2. ~IsPosted(Rest, EndDisp)
        BY <1>2, <1>9, KindOf
      <4> QED
        BY <3>5, <4>1, <4>2
    <3>8. \A x \in Entries(q) : x \in Entries(Rest) \/ x.ev = <<"desched", o>>
      BY <3>4, EntryParts DEF Moves
    <3>9. \A x : x.ev # <<"desched", o>> => (x \in Entries(q) <=> x \in Entries(Rest))
      BY <3>4, EntryParts DEF Moves
    <3>10. \A x \in Entries(q) : x.at > Now \/ x.ev[1] = "desched"
      BY <1>2, <3>8, EventParts
    <3>11. \A x \in Entries(q) : x.ev[1] # "sched"
      BY <2>0, <3>8, EventParts
    <3>12. \A x : x.ev[1] # "desched" => (x \in Entries(q) <=> x \in Entries(Rest))
      BY <3>9, EventParts
    <3> QED
      BY <1>10, <2>2, <3>1, <3>4, <3>5, <3>6, <3>7, <3>10, <3>11, <3>12
  <2> QED
    BY <2>1, <2>2
<1> HIDE DEF q
<1>12. /\ exc' = "none" /\ GoodAgenda(agenda', Now)
       /\ Gains(agenda', q, Entry(EndDisp, Now, 18))
  <2>1. /\ EndDisp \in Events /\ Timed(Entry(EndDisp, Now, Priority(EndDisp)), Now)
        /\ Priority(EndDisp) = 18
    BY <1>3, EventOf, PriorityOf, PostsInTime
  <2>2. /\ GoodAgenda(Post(q, EndDisp, Now), Now)
        /\ Gains(Post(q, EndDisp, Now), q, Entry(EndDisp, Now, Priority(EndDisp)))
    BY <1>3, <1>11, <2>1, PostGains
  <2> QED
    BY <1>8, <1>11, <2>1, <2>2
<1>13. /\ \A u : Of(agenda', u) = Of(q, u)
       /\ IsPosted(agenda', EndDisp)
       /\ \A x : x.ev # EndDisp => (x \in Entries(agenda') <=> x \in Entries(q))
  <2>1. Entry(EndDisp, Now, 18).ev = EndDisp
    BY EntryParts
  <2>2. \A u : {k \in JobKinds : <<k, u>> = EndDisp} = {}
    BY NotOfTask
  <2> QED
    BY <1>12, <2>1, <2>2 DEF Gains
<1>14. \A u, x : x.ev \in {Dead(u), FakeArr(u)} =>
                    (x \in Entries(agenda') <=> x \in Entries(agenda))
  <2>1. \A u, x : x.ev \in {Dead(u), FakeArr(u)} =>
           x.ev # EndDisp /\ x.ev # Begin /\ x.ev[1] # "desched"
    BY KindOf, EventParts
  <2> QED
    BY <1>3, <1>11, <1>13, <2>1 DEF Loses
<1>15. \A u : /\ IsPosted(agenda', Dead(u)) <=> IsPosted(agenda, Dead(u))
              /\ IsPosted(agenda', FakeArr(u)) <=> IsPosted(agenda, FakeArr(u))
  BY <1>14, PostedEntries
<1>16. /\ \A u : IsBlocked(u)' <=> IsBlocked(u)
       /\ now' = now
  BY <1>2, <1>3, <1>8 DEF IsBlocked
<1>17. ASSUME NEW u \in Tasks PROVE TaskInv(u)'
  <2>1. TaskInv(u) /\ call # u /\ call' # u /\ now \in Nat /\ lastTime[u] \in Nat
    BY <1>2, <1>3, <1>8 DEF KernelInv, Typed
  <2>2. CASE u # f /\ u # currExe
    <3>1. Of(agenda', u) = Of(agenda, u)
      BY <1>11, <1>13, <2>2
    <3>2. Untouched(u)
      BY <1>3, <1>2, <1>8, <1>13, <1>14, <1>16, <2>1, <2>2, <3>1 DEF Untouched
    <3> QED
      BY <1>16, <2>1, <3>2, UntouchedStays
  <2>3. CASE u = f \/ u = currExe
    <3>1. /\ u = f => Of(agenda', u) = {}
          /\ u # f => Of(agenda', u) = {"instr", "desched"} /\ currExe = u
      BY <1>3, <1>7, <1>11, <1>13, <2>3
    <3>2. Situation(u, Of(agenda, u))'
      <4>1. CASE u = f
        BY <1>7, <1>8, <1>13, <1>16, <2>1, <3>1, <4>1 DEF Situation, Ready
      <4>2. CASE u # f
        BY <1>4, <1>8, <1>16, <2>1, <3>1, <4>2 DEF Situation, Executing
      <4> QED
        BY <4>1, <4>2
    <3>3. EndsInTime(u)' /\ DeadInTime(u)'
      BY <1>8, <1>15, <2>1, <3>1 DEF EndsInTime, DeadInTime, TaskInv
    <3>4. BufferInTime(u)'
      <4>1. "kill" \notin Of(agenda, u)
        BY <1>2
      <4> QED
        BY <1>8, <1>14, <1>15, <2>1, <4>1 DEF BufferInTime, TaskInv
    <3>5. InProgram(u)'
      <4>1. "end" \notin Of(agenda, u) /\ "susp" \notin Of(agenda, u)
        BY <1>2
      <4>2. u # f => "instr" \in Of(agenda, u)
        BY <1>4, <3>1
      <4> QED
        BY <1>8, <1>16, <2>1, <3>1, <4>1, <4>2 DEF InProgram, TaskInv, Instr
    <3> QED
      BY <3>2, <3>3, <3>4, <3>5 DEF TaskInv
  <2> QED
    BY <2>2, <2>3
<1>18. SchedIsAlone' /\ DispatchIsAlone' /\ CallGoesOn'
  <2>1. \A x \in Entries(agenda') : x.ev = EndDisp \/ x \in Entries(q)
    BY <1>13
  <2>2. \A x \in Entries(agenda') : x.ev[1] # "sched"
    BY <1>11, <2>1, KindOf
  <2>3. \A x \in Entries(agenda') : x.ev = EndDisp \/ x.at > Now \/ x.ev[1] = "desched"
    BY <1>11, <2>1
  <2> QED
    BY <1>2, <1>3, <1>7, <1>8, <2>2, <2>3
       DEF SchedIsAlone, DispatchIsAlone, CallGoesOn
<1>19. Waits'
  BY <1>8, WaitsStay DEF KernelInv
<1>20. Typed'
  BY <1>3, <1>8 DEF KernelInv, Typed
<1> QED
  BY <1>3, <1>12, <1>17, <1>18, <1>19, <1>20 DEF KernelInv

(* RTKernel::onBeginDispatch *)
LEMMA BeginDispatchKeeps ==
    ASSUME KernelInv, Sound, OnBeginDispatch
    PROVE  KernelInv'
<1>1. CASE First # currExe
  BY <1>1, SwitchKeeps
<1>2. CASE First = currExe
  <2>1. Entered(Begin)
    BY Entering DEF OnBeginDispatch, Handles
  <2>2. /\ agenda' = Notified(Rest, First)
        /\ exc' = "none" /\ urgent' \subseteq urgent
        /\ UNCHANGED <<call, queue, insertTime, currExe, state, actInstr,
                       arrival, dl, arrQueue, cost, done, lastTime, waiting,
                       available, blocked, run, phase, policy, lastSched>>
    BY <1>2 DEF OnBeginDispatch, Handles, Enters, Comes, Goes, jobVars, instrVars, resVars
  <2>3. GoodAgenda(Rest, Now) /\ Now \in Nat /\ now' = Now /\ call = None
        /\ Loses(Rest, agenda, Begin)
    BY <2>1 DEF Entered
  <2>4. First \in Tasks \cup {None}
    BY FirstIsReady DEF KernelInv
  <2>5. GoodAgenda(agenda', Now) /\ ButRound(agenda', Rest, Now)
    BY <2>2, <2>3, <2>4, NotifiedButRound
  <2>6. /\ \A f : f \notin {Begin, Round} =>
                     (IsPosted(agenda', f) <=> IsPosted(agenda, f))
        /\ \A x : x.ev \notin {Begin, Round} =>
                     (x \in Entries(agenda') <=> x \in Entries(agenda))
    BY <2>3, <2>5 DEF ButRound, Loses
  <2>7. /\ \A u \in Tasks : TaskInv(u)'
        /\ SchedIsAlone' /\ DispatchIsAlone' /\ CallGoesOn' /\ Waits'
    BY <2>1, <2>2, <2>3, <2>5, <2>6, NoTaskIsTouched
  <2>8. Typed'
    BY <2>2, <2>3 DEF KernelInv, Typed
  <2> QED
    BY <2>2, <2>3, <2>5, <2>7, <2>8 DEF KernelInv
<1> QED
  BY <1>1, <1>2

(* RTKernel::onEndDispatch *)
LEMMA EndDispatchKeeps ==
    ASSUME KernelInv, OnEndDispatch
    PROVE  KernelInv'
<1>1. Entered(EndDisp)
  BY Entering DEF OnEndDispatch
<1>2. /\ Now = now /\ call = None
      /\ \A u : Of(agenda, u) \cap {"sched", "desched", "susp", "end", "kill"} = {}
      /\ \A y \in Entries(Rest) : y.at > Now
  BY <1>1, NothingDue
<1>3. /\ GoodAgenda(Rest, Now) /\ Now \in Nat /\ now' = Now
      /\ Loses(Rest, agenda, EndDisp) /\ None \notin Tasks
      /\ IsPosted(agenda, EndDisp)
  BY <1>1, TaskAssumption DEF Entered
<1>4. PICK o \in Tasks : o = currExe
  BY <1>3 DEF KernelInv, DispatchIsAlone
<1>5. /\ state[o] = "READY" /\ o \in queue /\ ~IsBlocked(o) /\ Of(agenda, o) = {}
  <2>1. TaskInv(o) /\ call # o /\ state[o] = "READY"
    BY <1>2, <1>3, <1>4 DEF KernelInv, DispatchIsAlone
  <2>2. "kill" \notin Of(agenda, o) /\ "sched" \notin Of(agenda, o)
    BY <1>2
  <2> QED
    BY <1>4, <2>1, <2>2
       DEF TaskInv, Situation, Scheduling, Idle, Ready, Executing
<1> DEFINE q == Process(Rest, Sched(o))
<1>6. /\ agenda' = Notified(q, o)
      /\ exc' = "none" /\ urgent' \subseteq urgent
      /\ lastSched' = IF policy = "RR" THEN [lastSched EXCEPT ![o] = Now]
                                       ELSE lastSched
      /\ UNCHANGED <<call, queue, insertTime, currExe, state, actInstr,
                     arrival, dl, arrQueue, cost, done, lastTime, waiting,
                     available, blocked, run, phase, policy>>
  BY <1>3, <1>4
     DEF OnEndDispatch, Enters, Comes, Goes, kernelVars, jobVars, instrVars, resVars
<1>7. GoodAgenda(q, Now) /\ Moves(q, Rest, Entry(<<"sched", o>>, Now, 0))
  <2>1. Sched(o) \in Events /\ Timed(Entry(Sched(o), Now, 0), Now)
    BY <1>3, EventOf, PostsInTime
  <2> QED
    BY <1>3, <2>1, ProcessMoves DEF Sched
<1> HIDE DEF q
<1>8. /\ \A u : u # o => Of(q, u) = Of(Rest, u)
      /\ Of(q, o) = Of(Rest, o) \cup (JobKinds \cap {"sched"})
      /\ \A f : IsPosted(q, f) <=> IsPosted(Rest, f) \/ f = <<"sched", o>>
      /\ \A x : x.ev # <<"sched", o>> => (x \in Entries(q) <=> x \in Entries(Rest))
  BY <1>7, GainsOf
<1>9. GoodAgenda(agenda', Now) /\ ButRound(agenda', q, Now)
  BY <1>3, <1>6, <1>7, NotifiedButRound
<1>10. \A u : Of(Rest, u) = Of(agenda, u)
  <2>1. \A f : f # EndDisp => (IsPosted(Rest, f) <=> IsPosted(agenda, f))
    BY <1>3 DEF Loses
  <2> QED
    BY <2>1, NotOfTask DEF Of
<1>11. \A u : Of(agenda', u) = IF u = o THEN {"sched"} ELSE Of(agenda, u)
  BY <1>5, <1>8, <1>9, <1>10 DEF ButRound, JobKinds
<1>12. \A u, x : x.ev \in {Dead(u), FakeArr(u)} =>
                    (x \in Entries(agenda') <=> x \in Entries(agenda))
  <2>1. \A u, x : x.ev \in {Dead(u), FakeArr(u)} =>
           x.ev # EndDisp /\ x.ev # Round /\ x.ev # <<"sched", o>>
    BY KindOf, EventParts
  <2> QED
    BY <1>3, <1>8, <1>9, <2>1 DEF Loses, ButRound
<1>13. \A u : /\ IsPosted(agenda', Dead(u)) <=> IsPosted(agenda, Dead(u))
              /\ IsPosted(agenda', FakeArr(u)) <=> IsPosted(agenda, FakeArr(u))
  BY <1>12, PostedEntries
<1>14. ~IsPosted(agenda', EndDisp)
  <2>1. EndDisp # <<"sched", o>> /\ EndDisp # Round
    BY KindOf, EventParts
  <2>2. ~IsPosted(Rest, EndDisp)
    BY <1>3 DEF Loses
  <2> QED
    BY <1>8, <1>9, <2>1, <2>2 DEF ButRound
<1>15. /\ \A u : IsBlocked(u)' <=> IsBlocked(u)
       /\ now' = now
  BY <1>2, <1>3, <1>6 DEF IsBlocked
<1>16. ASSUME NEW u \in Tasks PROVE Situation(u, Of(agenda, u))'
  <2>1. TaskInv(u) /\ call # u /\ call' # u
    BY <1>2, <1>3, <1>6 DEF KernelInv
  <2>2. CASE u = o
    BY <1>4, <1>5, <1>6, <1>11, <1>15, <2>1, <2>2 DEF Situation, Ready
  <2>3. CASE u # o
    BY <1>4, <1>6, <1>11, <1>15, <2>1, <2>3
       DEF TaskInv, Situation, Scheduling, Idle, Ready, Executing
  <2> QED
    BY <2>2, <2>3
<1>17. ASSUME NEW u \in Tasks PROVE TaskInv(u)'
  <2>1. TaskInv(u) /\ call # u /\ call' # u
    BY <1>2, <1>3, <1>6 DEF KernelInv
  <2>2. /\ u # o => Of(agenda', u) = Of(agenda, u)
        /\ u = o => Of(agenda', u) = {"sched"} /\ Of(agenda, u) = {}
    BY <1>5, <1>11
  <2>3. EndsInTime(u)' /\ DeadInTime(u)' /\ BufferInTime(u)'
    <3>1. EndsInTime(u)'
      BY <1>2, <1>6, <1>15, <2>1, <2>2 DEF EndsInTime
    <3>2. DeadInTime(u)'
      BY <1>6, <1>13, <2>1, <2>2 DEF DeadInTime, TaskInv
    <3>3. BufferInTime(u)'
      BY <1>6, <1>12, <1>13, <2>1, <2>2 DEF BufferInTime, TaskInv
    <3> QED
      BY <3>1, <3>2, <3>3
  <2>4. InProgram(u)'
    BY <1>6, <1>15, <2>1, <2>2 DEF InProgram, TaskInv, Instr
  <2> QED
    BY <1>16, <2>3, <2>4 DEF TaskInv
<1>18. SchedIsAlone' /\ DispatchIsAlone' /\ CallGoesOn'
  <2>1. ASSUME NEW x \in Entries(agenda')
        PROVE  x.at > Now \/ x = Entry(<<"sched", o>>, Now, 0)
    BY <1>2, <1>7, <1>9 DEF Moves, ButRound
  <2>2. ASSUME NEW x \in Entries(agenda'), x.ev[1] = "sched"
        PROVE  x = Entry(<<"sched", o>>, Now, 0)
    <3>1. Timed(x, Now) /\ x.at \in Nat
      BY <1>9, GoodEntries
    <3> QED
      BY <1>3, <2>1, <2>2, <3>1 DEF Timed
  <2>3. SchedIsAlone'
    BY <1>3, <2>1, <2>2 DEF SchedIsAlone
  <2> QED
    BY <1>2, <1>6, <1>14, <2>3 DEF DispatchIsAlone, CallGoesOn
<1>19. Waits'
  BY <1>6, WaitsStay DEF KernelInv
<1>20. Typed'
  BY <1>3, <1>6 DEF KernelInv, Typed
<1> QED
  BY <1>3, <1>6, <1>9, <1>17, <1>18, <1>19, <1>20 DEF KernelInv

-----------------------------------------------------------------------------
(* Arrivals.                                                                 *)

(* Agendas that differ in the events E, none of which is of a job's course. *)
SameBut(p, q, E) ==
    /\ \A f : f \notin E => (IsPosted(p, f) <=> IsPosted(q, f))
    /\ \A x : x.ev \notin E => (x \in Entries(p) <=> x \in Entries(q))
    /\ \A u : Of(p, u) = Of(q, u)

LEMMA OfNoJob ==
    ASSUME NEW E, NEW p, NEW q, \A u : \A k \in JobKinds : <<k, u>> \notin E,
           \A f : f \notin E => (IsPosted(p, f) <=> IsPosted(q, f))
    PROVE  \A u : Of(p, u) = Of(q, u)
BY DEF Of

(* The events that an arrival posts. *)
Arriving(t) == {Begin, Dead(t), Arr(t), FakeArr(t)}

LEMMA ArrivingIsNoJob ==
    ASSUME NEW t
    PROVE  /\ \A u : \A k \in JobKinds : <<k, u>> \notin Arriving(t)
           /\ EndDisp \notin Arriving(t)
           /\ \A u : u # t => Dead(u) \notin Arriving(t) /\ FakeArr(u) \notin Arriving(t)
           /\ Dead(t) # FakeArr(t) /\ Dead(t) # Arr(t) /\ Dead(t) # Begin
           /\ FakeArr(t) # Arr(t) /\ FakeArr(t) # Begin /\ Begin # Arr(t)
BY KindOf, EventParts DEF Arriving, JobKinds, Dead, FakeArr, Arr

(* Task::reactivate *)
LEMMA Reactivated ==
    ASSUME NEW t \in Tasks, NEW q, Now \in Nat, GoodAgenda(q, Now),
           ~IsPosted(q, Arr(t)), NEW p \in Reactivate(t, q)
    PROVE  /\ GoodAgenda(p, Now)
           /\ \A f : f # Arr(t) => (IsPosted(p, f) <=> IsPosted(q, f))
           /\ \A x : x.ev # Arr(t) => (x \in Entries(p) <=> x \in Entries(q))
<1>1. CASE p = q
  BY <1>1
<1>2. CASE p # q
  <2>1. PICK v \in Periods[t] : v > 0 /\ p = Post(q, Arr(t), Now + v)
    BY <1>2 DEF Reactivate
  <2>2. PICK at \in Nat : at = Now + v /\ at >= Now
    BY <2>1, TaskAssumption
  <2>3. /\ Arr(t) \in Events /\ Timed(Entry(Arr(t), at, Priority(Arr(t))), Now)
    BY <2>2, EventOf, PriorityOf, PostsInTime
  <2>4. /\ GoodAgenda(p, Now)
        /\ Gains(p, q, Entry(Arr(t), at, Priority(Arr(t))))
    BY <2>1, <2>2, <2>3, PostGains
  <2> QED
    BY <2>4, EntryParts DEF Gains
<1> QED
  BY <1>1, <1>2

(* The agenda of a job that starts. *)
LEMMA Started ==
    ASSUME NEW t \in Tasks, NEW q, NEW d \in Nat, Now \in Nat,
           GoodAgenda(q, Now), Of(q, t) = {}, ~IsPosted(q, Dead(t))
    PROVE  LET p == Dispatching(WithDeadline(q, t, d))
           IN  /\ GoodAgenda(p, Now)
               /\ \A f : f \notin {Begin, Dead(t)} => (IsPosted(p, f) <=> IsPosted(q, f))
               /\ \A x : x.ev \notin {Begin, Dead(t)} =>
                            (x \in Entries(p) <=> x \in Entries(q))
<1> DEFINE r == WithDeadline(q, t, d)
           p == Dispatching(r)
<1>1. DropFrom(q, InstrEvt(t)) = q
  <2>1. ~IsPosted(q, InstrEvt(t))
    BY DEF Of, JobKinds, InstrEvt
  <2> QED
    BY <2>1, DropNothing
<1>2. /\ GoodAgenda(r, Now)
      /\ \A f : f # Dead(t) => (IsPosted(r, f) <=> IsPosted(q, f))
      /\ \A x : x.ev # Dead(t) => (x \in Entries(r) <=> x \in Entries(q))
  <2>1. CASE d >= Now
    <3>1. r = Post(q, Dead(t), d)
      BY <1>1, <2>1 DEF WithDeadline
    <3>2. /\ Dead(t) \in Events
          /\ Timed(Entry(Dead(t), d, Priority(Dead(t))), Now)
      BY <2>1, EventOf, PriorityOf, PostsInTime
    <3>3. GoodAgenda(r, Now) /\ Gains(r, q, Entry(Dead(t), d, Priority(Dead(t))))
      BY <3>1, <3>2, PostGains
    <3> HIDE DEF r
    <3> QED
      BY <3>3, EntryParts DEF Gains
  <2>2. CASE ~(d >= Now)
    BY <1>1, <2>2 DEF WithDeadline
  <2> QED
    BY <2>1, <2>2
<1> HIDE DEF r
<1>3. GoodAgenda(p, Now) /\ Moves(p, r, Entry(Begin, Now, 18))
  BY <1>2, DispatchMoves
<1> HIDE DEF p
<1>4. /\ GoodAgenda(p, Now)
      /\ \A f : f \notin {Begin, Dead(t)} => (IsPosted(p, f) <=> IsPosted(q, f))
      /\ \A x : x.ev \notin {Begin, Dead(t)} =>
                   (x \in Entries(p) <=> x \in Entries(q))
  BY <1>2, <1>3, EntryParts DEF Moves
<1> QED
  BY <1>4 DEF p, r

(* A job starts when its task is idle. *)
LEMMA JobStartKeeps ==
    ASSUME KernelInv, NEW t \in Tasks, NEW e \in {Arr(t), FakeArr(t)}, Entered(e),
           state[t] = "IDLE", NEW arr \in Nat, JobStarts(t, arr), InsertAll({t}),
           GoodAgenda(agenda', Now), SameBut(agenda', Rest, {Begin, Dead(t), Arr(t)}),
           ~IsPosted(Rest, FakeArr(t)), exc' = "none",
           arrQueue' \in [Tasks -> Seq(Nat)],
           \A u \in Tasks : u # t => arrQueue'[u] = arrQueue[u],
           urgent' \subseteq urgent,
           UNCHANGED <<call, currExe, waiting, available, blocked, run, phase,
                       policy, lastSched>>
    PROVE  KernelInv'
<1>1. /\ GoodAgenda(Rest, Now) /\ Now \in Nat /\ now' = Now /\ Now >= now
      /\ call = None /\ Loses(Rest, agenda, e) /\ None \notin Tasks
  BY TaskAssumption DEF Entered
<1>2. /\ ~IsPosted(agenda, EndDisp) /\ \A u : "sched" \notin Of(agenda, u)
  <2>1. e # EndDisp /\ e[1] # "desched" /\ e[1] # "sched"
    BY KindOf
  <2> QED
    BY <2>1, NoEndDispatch, NoSched
<1>3. /\ TaskInv(t) /\ t \notin queue /\ currExe # t /\ ~IsBlocked(t)
      /\ Of(agenda, t) = {} /\ ~waiting[t]
  <2>1. TaskInv(t) /\ call # t
    BY <1>1 DEF KernelInv
  <2> QED
    BY <2>1 DEF KernelInv, Typed, TaskInv, Situation, Idle, Ready, Executing, InProgram
<1>4. e \in Arriving(t) /\ {Begin, Dead(t), Arr(t)} \subseteq Arriving(t)
  BY DEF Arriving
<1>5. SameBut(agenda', agenda, Arriving(t))
  <2>1. /\ \A f : f \notin Arriving(t) => (IsPosted(agenda', f) <=> IsPosted(agenda, f))
        /\ \A x : x.ev \notin Arriving(t) => (x \in Entries(agenda') <=> x \in Entries(agenda))
    BY <1>1, <1>4 DEF SameBut, Loses
  <2>2. \A u : \A k \in JobKinds : <<k, u>> \notin Arriving(t)
    BY ArrivingIsNoJob
  <2>3. \A u : Of(agenda', u) = Of(agenda, u)
    BY <2>1, <2>2, OfNoJob
  <2> QED
    BY <2>1, <2>3 DEF SameBut
<1>6. ~IsPosted(agenda', EndDisp) /\ \A u : "sched" \notin Of(agenda', u)
  BY <1>2, <1>5, ArrivingIsNoJob DEF SameBut
<1>7. /\ \A u : IsBlocked(u)' <=> IsBlocked(u)
      /\ queue' = queue \cup {t}
      /\ insertTime' = [u \in Tasks |-> IF u \in {t} THEN Now ELSE insertTime[u]]
      /\ arrival' = [arrival EXCEPT ![t] = arr]
      /\ dl' = [dl EXCEPT ![t] = arr + RelDeadline[t]]
      /\ actInstr' = [actInstr EXCEPT ![t] = 1]
      /\ cost' = [cost EXCEPT ![t] = Undrawn]
      /\ done' = [done EXCEPT ![t] = 0]
      /\ lastTime' = [lastTime EXCEPT ![t] = 0]
      /\ state' = [state EXCEPT ![t] = "READY"]
  BY DEF IsBlocked, InsertAll, JobStarts
<1>8. Typed'
  <2>1. arr + RelDeadline[t] \in Nat
    BY TaskAssumption
  <2>2. Typed
    BY DEF KernelInv
  <2>3. insertTime' \in [Tasks -> Nat] /\ queue' \subseteq Tasks
    BY <1>1, <1>7, <2>2 DEF Typed
  <2>4. arrival' \in [Tasks -> Nat] /\ dl' \in [Tasks -> Nat]
    BY <1>7, <2>1, <2>2 DEF Typed
  <2>5. /\ actInstr' \in [Tasks -> Nat] /\ done' \in [Tasks -> Nat]
        /\ lastTime' \in [Tasks -> Nat]
    BY <1>7, <2>2 DEF Typed
  <2>6. /\ cost' \in [Tasks -> Nat \cup {Undrawn}]
        /\ state' \in [Tasks -> {"IDLE", "READY", "EXEC"}]
    BY <1>7, <2>2 DEF Typed
  <2> QED
    BY <1>1, <2>2, <2>3, <2>4, <2>5, <2>6 DEF Typed
<1>9. /\ state'[t] = "READY" /\ actInstr'[t] = 1 /\ lastTime'[t] = 0
      /\ \A u \in Tasks : u # t => /\ state'[u] = state[u]
                                   /\ actInstr'[u] = actInstr[u]
                                   /\ lastTime'[u] = lastTime[u]
                                   /\ u \in queue' <=> u \in queue
  BY <1>7 DEF KernelInv, Typed
<1>10. ASSUME NEW u \in Tasks, u # t PROVE TaskInv(u)'
  <2>1. "end" \in Of(agenda, u) => Now = now
    BY EndsAtOnce
  <2>2. TaskInv(u) /\ call # u /\ now \in Nat /\ lastTime[u] \in Nat
    BY <1>1 DEF KernelInv, Typed
  <2>3. Untouched(u)
    BY <1>1, <1>2, <1>5, <1>7, <1>9, <1>10, <2>1, <2>2, ArrivingIsNoJob
       DEF Untouched, SameBut
  <2> QED
    BY <1>1, <2>2, <2>3, UntouchedStays
<1>11. TaskInv(t)'
  <2>1. Of(agenda', t) = {} /\ call' # t
    BY <1>1, <1>3, <1>5 DEF SameBut
  <2>2. Situation(t, Of(agenda, t))'
    BY <1>3, <1>7, <1>9, <2>1 DEF Situation, Ready
  <2>3. EndsInTime(t)' /\ DeadInTime(t)'
    BY <1>9, <2>1 DEF EndsInTime, DeadInTime
  <2>4. BufferInTime(t)'
    <3>1. FakeArr(t) \notin {Begin, Dead(t), Arr(t)}
      BY ArrivingIsNoJob
    <3>2. ~IsPosted(agenda', FakeArr(t))
      BY <3>1 DEF SameBut
    <3> QED
      BY <1>9, <3>2, PostedEntries DEF BufferInTime
  <2>5. InProgram(t)'
    BY <1>1, <1>3, <1>9, <2>1, Programs DEF InProgram
  <2> QED
    BY <2>2, <2>3, <2>4, <2>5 DEF TaskInv
<1>12. SchedIsAlone' /\ DispatchIsAlone' /\ CallGoesOn'
  BY <1>1, <1>6, QuietAgenda DEF CallGoesOn
<1>13. Waits'
  <2>1. \A u : IsBlocked(u) => waiting'[u] = waiting[u] /\ actInstr'[u] = actInstr[u]
    BY <1>3, <1>7 DEF KernelInv, Typed
  <2> QED
    BY <2>1, WaitsStay DEF KernelInv
<1> QED
  BY <1>1, <1>8, <1>10, <1>11, <1>12, <1>13 DEF KernelInv

(* Task::onArrival of an idle task. *)
LEMMA IdleArrivalKeeps ==
    ASSUME KernelInv, NEW t \in Tasks, OnArrival(t), state[t] = "IDLE"
    PROVE  KernelInv'
<1>1. Entered(Arr(t)) /\ Head(agenda).prio = 8
  <2>1. Entered(Arr(t)) /\ Arr(t)[1] = "arr"
    BY Entering, KindOf DEF OnArrival, Handles
  <2> QED
    BY <2>1, HandledPriority
<1>2. /\ GoodAgenda(agenda, Now) /\ GoodAgenda(Rest, Now) /\ Now \in Nat
      /\ call = None /\ Loses(Rest, agenda, Arr(t)) /\ now' = Now
  BY <1>1 DEF Entered
<1>3. TaskInv(t) /\ call # t
  BY <1>2, Programs DEF KernelInv
<1>4. Of(agenda, t) = {} /\ Of(Rest, t) = {}
  <2>1. Of(agenda, t) = {}
    BY <1>3 DEF TaskInv, Situation, Idle, Ready, Executing
  <2> QED
    BY <1>2, <2>1 DEF Loses
<1>5. ~IsPosted(agenda, FakeArr(t)) /\ arrQueue[t] = <<>>
  <2>1. ASSUME NEW x \in Entries(agenda), x.ev = FakeArr(t) PROVE FALSE
    <3>1. x.prio = 0 /\ Timed(x, Now) /\ x.at \in Nat
      BY <1>2, <1>3, <1>4, <2>1, GoodEntries DEF TaskInv, BufferInTime
    <3>2. x.at = Now
      BY <2>1, <3>1, KindOf DEF Timed
    <3> QED
      BY <1>1, <1>2, <3>1, <3>2, NotBefore
  <2>2. ~IsPosted(agenda, FakeArr(t))
    BY <2>1, PostedEntries
  <2> QED
    BY <1>3, <2>2 DEF TaskInv, BufferInTime
<1>6. ~IsPosted(Rest, Dead(t)) /\ ~IsPosted(Rest, FakeArr(t)) /\ ~IsPosted(Rest, Arr(t))
  BY <1>2, <1>3, <1>5 DEF Loses, TaskInv, DeadInTime
<1> DEFINE q == Dispatching(WithDeadline(Rest, t, Now + RelDeadline[t]))
<1>7. /\ JobStarts(t, Now) /\ InsertAll({t})
      /\ agenda' \in Reactivate(t, q) /\ exc' = "none"
      /\ urgent' \subseteq urgent
      /\ UNCHANGED <<call, currExe, arrQueue, waiting, available, blocked, run,
                     phase, policy, lastSched>>
  BY <1>6 DEF OnArrival, Handles, Enters, Comes, GoesUnlessPosted, resVars
<1>8. /\ GoodAgenda(q, Now)
      /\ \A f : f \notin {Begin, Dead(t)} => (IsPosted(q, f) <=> IsPosted(Rest, f))
      /\ \A x : x.ev \notin {Begin, Dead(t)} =>
                   (x \in Entries(q) <=> x \in Entries(Rest))
  <2>1. PICK d \in Nat : d = Now + RelDeadline[t]
    BY <1>2, TaskAssumption
  <2> QED
    BY <1>2, <1>4, <1>6, <2>1, Started
<1> HIDE DEF q
<1>9. /\ GoodAgenda(agenda', Now)
      /\ \A f : f # Arr(t) => (IsPosted(agenda', f) <=> IsPosted(q, f))
      /\ \A x : x.ev # Arr(t) => (x \in Entries(agenda') <=> x \in Entries(q))
  <2>1. ~IsPosted(q, Arr(t))
    BY <1>6, <1>8, ArrivingIsNoJob
  <2>2. PICK p \in Reactivate(t, q) : p = agenda'
    BY <1>7
  <2>3. /\ GoodAgenda(p, Now)
        /\ \A f : f # Arr(t) => (IsPosted(p, f) <=> IsPosted(q, f))
        /\ \A x : x.ev # Arr(t) => (x \in Entries(p) <=> x \in Entries(q))
    BY <1>2, <1>8, <2>1, Reactivated
  <2> QED
    BY <2>2, <2>3
<1>10. SameBut(agenda', Rest, {Begin, Dead(t), Arr(t)})
  <2>1. /\ \A f : f \notin {Begin, Dead(t), Arr(t)} =>
                     (IsPosted(agenda', f) <=> IsPosted(Rest, f))
        /\ \A x : x.ev \notin {Begin, Dead(t), Arr(t)} =>
                     (x \in Entries(agenda') <=> x \in Entries(Rest))
    BY <1>8, <1>9
  <2>2. \A u : \A k \in JobKinds : <<k, u>> \notin {Begin, Dead(t), Arr(t)}
    BY ArrivingIsNoJob DEF Arriving
  <2>3. \A u : Of(agenda', u) = Of(Rest, u)
    BY <2>1, <2>2, OfNoJob
  <2> QED
    BY <2>1, <2>3 DEF SameBut
<1>11. /\ arrQueue' \in [Tasks -> Seq(Nat)]
       /\ \A u \in Tasks : u # t => arrQueue'[u] = arrQueue[u]
  BY <1>7 DEF KernelInv, Typed
<1> QED
  BY <1>1, <1>2, <1>6, <1>7, <1>9, <1>10, <1>11, JobStartKeeps

(* Task::onArrival of a task that has a job. *)
LEMMA BusyArrivalKeeps ==
    ASSUME KernelInv, NEW t \in Tasks, OnArrival(t), state[t] # "IDLE"
    PROVE  KernelInv'
<1>1. Entered(Arr(t)) /\ Head(agenda).prio = 8
  <2>1. Entered(Arr(t)) /\ Arr(t)[1] = "arr"
    BY Entering, KindOf DEF OnArrival, Handles
  <2> QED
    BY <2>1, HandledPriority
<1>2. /\ GoodAgenda(Rest, Now) /\ Now \in Nat /\ now' = Now /\ Now >= now
      /\ call = None /\ Loses(Rest, agenda, Arr(t)) /\ None \notin Tasks
  BY <1>1, TaskAssumption DEF Entered
<1>3. /\ \A u : /\ "sched" \notin Of(agenda, u) /\ "end" \notin Of(agenda, u)
                /\ "kill" \notin Of(agenda, u)
      /\ ~IsPosted(agenda, EndDisp)
  <2>1. Arr(t) # EndDisp /\ Arr(t)[1] # "desched"
    BY KindOf
  <2>2. ~IsPosted(agenda, EndDisp)
    BY <1>1, <2>1, NoEndDispatch
  <2> QED
    BY <1>1, <2>2, NotBefore
<1> DEFINE q == Process(Rest, Dead(t))
<1>4. /\ arrQueue' = Buffered(t)
      /\ agenda' \in Reactivate(t, q) /\ exc' = "none"
      /\ urgent' \subseteq urgent
      /\ UNCHANGED <<call, queue, insertTime, currExe, state, actInstr, arrival,
                     dl, cost, done, lastTime, waiting, available, blocked, run,
                     phase, policy, lastSched>>
  BY DEF OnArrival, Handles, Enters, Comes, Goes, kernelVars, instrVars, resVars
<1>5. GoodAgenda(q, Now) /\ Moves(q, Rest, Entry(Dead(t), Now, 0))
  <2>1. Dead(t) \in Events /\ Timed(Entry(Dead(t), Now, 0), Now)
    BY <1>2, EventOf, PostsInTime
  <2> QED
    BY <1>2, <2>1, ProcessMoves
<1> HIDE DEF q
<1>6. /\ GoodAgenda(agenda', Now)
      /\ \A f : f # Arr(t) => (IsPosted(agenda', f) <=> IsPosted(q, f))
      /\ \A x : x.ev # Arr(t) => (x \in Entries(agenda') <=> x \in Entries(q))
  <2>1. ~IsPosted(q, Arr(t))
    BY <1>2, <1>5, ArrivingIsNoJob, EntryParts DEF Moves, Loses
  <2>2. PICK p \in Reactivate(t, q) : p = agenda'
    BY <1>4
  <2>3. /\ GoodAgenda(p, Now)
        /\ \A f : f # Arr(t) => (IsPosted(p, f) <=> IsPosted(q, f))
        /\ \A x : x.ev # Arr(t) => (x \in Entries(p) <=> x \in Entries(q))
    BY <1>2, <1>5, <2>1, Reactivated
  <2> QED
    BY <2>2, <2>3
<1>7. SameBut(agenda', agenda, {Dead(t), Arr(t)})
  <2>1. /\ \A f : f \notin {Dead(t), Arr(t)} =>
                     (IsPosted(agenda', f) <=> IsPosted(agenda, f))
        /\ \A x : x.ev \notin {Dead(t), Arr(t)} =>
                     (x \in Entries(agenda') <=> x \in Entries(agenda))
    BY <1>2, <1>5, <1>6, EntryParts DEF Moves, Loses
  <2>2. \A u : \A k \in JobKinds : <<k, u>> \notin {Dead(t), Arr(t)}
    BY ArrivingIsNoJob DEF Arriving
  <2>3. \A u : Of(agenda', u) = Of(agenda, u)
    BY <2>1, <2>2, OfNoJob
  <2> QED
    BY <2>1, <2>3 DEF SameBut
<1>8. ~IsPosted(agenda', EndDisp) /\ \A u : "sched" \notin Of(agenda', u)
  <2>1. EndDisp \notin {Dead(t), Arr(t)}
    BY KindOf
  <2> QED
    BY <1>3, <1>7, <2>1 DEF SameBut
<1>9. /\ arrQueue' \in [Tasks -> Seq(Nat)]
      /\ \A u \in Tasks : u # t => arrQueue'[u] = arrQueue[u]
      /\ arrQueue[t] # <<>> => arrQueue'[t] # <<>>
  <2>1. arrQueue \in [Tasks -> Seq(Nat)] /\ Append(arrQueue[t], Now) \in Seq(Nat)
        /\ Append(arrQueue[t], Now) # <<>>
    <3>1. arrQueue \in [Tasks -> Seq(Nat)] /\ arrQueue[t] \in Seq(Nat)
      BY DEF KernelInv, Typed
    <3> QED
      BY <1>2, <3>1
  <2>2. arrQueue' = arrQueue \/ arrQueue' = [arrQueue EXCEPT ![t] = Append(@, Now)]
    BY <1>4 DEF Buffered
  <2> QED
    BY <2>1, <2>2
<1>10. \A u : IsBlocked(u)' <=> IsBlocked(u)
  BY <1>4 DEF IsBlocked
<1>11. ASSUME NEW u \in Tasks, u # t PROVE TaskInv(u)'
  <2>1. "end" \in Of(agenda, u) => Now = now
    BY <1>3
  <2>2. TaskInv(u) /\ call # u /\ now \in Nat /\ lastTime[u] \in Nat
    BY <1>2 DEF KernelInv, Typed
  <2>3. Dead(u) \notin {Dead(t), Arr(t)} /\ FakeArr(u) \notin {Dead(t), Arr(t)}
    BY <1>11, ArrivingIsNoJob DEF Arriving
  <2>4. Untouched(u)
    BY <1>2, <1>3, <1>4, <1>7, <1>9, <1>10, <1>11, <2>1, <2>2, <2>3
       DEF Untouched, SameBut
  <2> QED
    BY <1>2, <2>2, <2>4, UntouchedStays
<1>12. TaskInv(t)'
  <2>1. TaskInv(t) /\ call # t /\ call' # t /\ Of(agenda', t) = Of(agenda, t)
    BY <1>2, <1>4, <1>7 DEF KernelInv, SameBut
  <2>2. Situation(t, Of(agenda, t))'
    BY <1>3, <1>4, <1>10, <2>1
       DEF TaskInv, Situation, Idle, Ready, Executing
  <2>3. EndsInTime(t)' /\ DeadInTime(t)'
    BY <1>3, <1>4, <2>1 DEF EndsInTime, DeadInTime
  <2>4. BufferInTime(t)'
    <3>1. FakeArr(t) \notin {Dead(t), Arr(t)}
      BY ArrivingIsNoJob
    <3> QED
      BY <1>3, <1>4, <1>7, <1>9, <2>1, <3>1 DEF SameBut, TaskInv, BufferInTime
  <2>5. InProgram(t)'
    <3>1. lastTime[t] \in Nat /\ now \in Nat
      BY DEF KernelInv, Typed
    <3> QED
      BY <1>2, <1>4, <2>1, <3>1 DEF TaskInv, InProgram, Instr
  <2> QED
    BY <2>2, <2>3, <2>4, <2>5 DEF TaskInv
<1>13. SchedIsAlone' /\ DispatchIsAlone' /\ CallGoesOn'
  BY <1>2, <1>4, <1>6, <1>8, QuietAgenda DEF CallGoesOn
<1>14. Waits'
  BY <1>4, WaitsStay DEF KernelInv
<1>15. Typed'
  BY <1>2, <1>4, <1>9 DEF KernelInv, Typed
<1> QED
  BY <1>2, <1>4, <1>6, <1>11, <1>12, <1>13, <1>14, <1>15 DEF KernelInv

(* Nothing changes but what was thrown. *)
LEMMA FrozenKeeps ==
    ASSUME KernelInv, exc' = "none" \/ ThrownByStaleFakeArr', urgent' \subseteq urgent,
           UNCHANGED <<now, run, agenda, call, policy, phase, queue, insertTime,
                       currExe, lastSched, state, actInstr, arrival, dl, arrQueue,
                       cost, done, lastTime, waiting, available, blocked>>
    PROVE  KernelInv'
<1>1. Typed'
  BY DEF KernelInv, Typed
<1>2. ASSUME NEW t \in Tasks PROVE TaskInv(t)'
  <2>1. IsBlocked(t)' <=> IsBlocked(t)
    BY DEF IsBlocked
  <2>2. now \in Nat /\ lastTime[t] \in Nat /\ TaskInv(t)
    BY DEF KernelInv, Typed
  <2>3. Untouched(t)
    BY <2>1, <2>2 DEF Untouched
  <2> QED
    BY <2>2, <2>3, UntouchedStays
<1>3. SchedIsAlone' /\ DispatchIsAlone' /\ CallGoesOn' /\ Waits'
  <2>1. SchedIsAlone'
    BY DEF KernelInv, SchedIsAlone
  <2>2. DispatchIsAlone'
    BY DEF KernelInv, DispatchIsAlone
  <2>3. CallGoesOn'
    BY DEF KernelInv, CallGoesOn
  <2>4. Waits'
    BY WaitsStay DEF KernelInv
  <2> QED
    BY <2>1, <2>2, <2>3, <2>4
<1> QED
  BY <1>1, <1>2, <1>3 DEF KernelInv

(* Task::onFakeArrival of a task that has a job: only a fakeArr event that  *)
(* comes before the kill it was posted with.                                *)
LEMMA StaleFakeArrivalKeeps ==
    ASSUME KernelInv, NEW t \in Tasks, OnFakeArrival(t), state[t] # "IDLE"
    PROVE  KernelInv'
<1>1. Entered(FakeArr(t)) /\ FakeArr(t)[1] = "fakeArr"
  BY Entering, KindOf DEF OnFakeArrival, Handles
<1> DEFINE h == Head(agenda)
<1>2. /\ h \in Entries(agenda) /\ h \in EventEntry /\ h.ev = FakeArr(t) /\ h.at = Now
      /\ Timed(h, now) /\ h.prio \in {0, 8} /\ h.prio \in Nat /\ now' = Now
  <2>1. \A x \in Entries(agenda) : x \in EventEntry /\ Timed(x, now)
    BY DEF KernelInv, GoodAgenda, Entries
  <2> QED
    BY <1>1, <2>1, HandledPriority DEF Entered
<1> HIDE DEF h
<1>3. Now = now
  BY <1>1, <1>2 DEF Timed
<1>4. /\ TaskInv(t) /\ arrQueue[t] # <<>> /\ "kill" \in Of(agenda, t)
  BY <1>2 DEF KernelInv, TaskInv, BufferInTime
<1>5. h.prio = 0
  <2>1. ~(h.prio > 6)
    BY <1>1, <1>4, NotBefore DEF h
  <2> QED
    BY <1>2, <2>1
<1>6. t \in KillOnMiss /\ IsPosted(agenda, Kill(t))
  BY <1>4 DEF TaskInv, DeadInTime, Of, Kill
<1>7. h = Entry(FakeArr(t), now, 0)
  BY <1>2, <1>3, <1>5 DEF EventEntry, Entry
<1>8. /\ exc' = "TaskAlreadyActive" /\ urgent' \subseteq urgent
      /\ UNCHANGED <<agenda, call, queue, insertTime, currExe, state, actInstr,
                     arrival, dl, arrQueue, cost, done, lastTime, waiting,
                     available, blocked, run, phase, policy, lastSched>>
  BY <1>4 DEF OnFakeArrival, Throw, Handles, Enters, Comes, kernelVars, jobVars,
              instrVars, resVars
<1>9. now' = now
  BY <1>2, <1>3
<1>10. ThrownByStaleFakeArr'
  <2>1. /\ state'[t] # "IDLE" /\ IsPosted(agenda', Kill(t))
        /\ Head(agenda') = Entry(FakeArr(t), now', 0)
    BY <1>6, <1>7, <1>8, <1>9 DEF h
  <2> QED
    BY <1>6, <1>8, <2>1 DEF ThrownByStaleFakeArr
<1> QED
  BY <1>8, <1>9, <1>10, FrozenKeeps

(* Task::onFakeArrival of a task that is idle *)
LEMMA BufferedArrivalKeeps ==
    ASSUME KernelInv, NEW t \in Tasks, OnFakeArrival(t), state[t] = "IDLE"
    PROVE  KernelInv'
<1>1. Entered(FakeArr(t)) /\ Head(agenda).prio \in {0, 8}
  <2>1. Entered(FakeArr(t)) /\ FakeArr(t)[1] = "fakeArr"
    BY Entering, KindOf DEF OnFakeArrival, Handles
  <2> QED
    BY <2>1, HandledPriority
<1>2. /\ GoodAgenda(Rest, Now) /\ Now \in Nat /\ now' = Now
      /\ call = None /\ Loses(Rest, agenda, FakeArr(t))
      /\ Head(agenda) \in Entries(agenda) /\ Head(agenda).ev = FakeArr(t)
  BY <1>1 DEF Entered
<1>3. TaskInv(t) /\ call # t
  BY <1>2, Programs DEF KernelInv
<1>4. state[t] = "IDLE" /\ arrQueue[t] # <<>>
  BY <1>2, <1>3 DEF TaskInv, BufferInTime
<1>5. Of(agenda, t) = {} /\ Of(Rest, t) = {}
  <2>1. Of(agenda, t) = {}
    BY <1>3, <1>4 DEF TaskInv, Situation, Idle, Ready, Executing
  <2> QED
    BY <1>2, <2>1 DEF Loses
<1>6. ~IsPosted(Rest, Dead(t)) /\ ~IsPosted(Rest, FakeArr(t))
  BY <1>2, <1>3, <1>4 DEF Loses, TaskInv, DeadInTime
<1> DEFINE arr == Head(arrQueue[t])
           q == Dispatching(WithDeadline(Rest, t, arr + RelDeadline[t]))
<1>7. /\ arrQueue \in [Tasks -> Seq(Nat)] /\ arr \in Nat
      /\ Tail(arrQueue[t]) \in Seq(Nat) /\ arr + RelDeadline[t] \in Nat
  <2>1. arrQueue \in [Tasks -> Seq(Nat)] /\ arrQueue[t] \in Seq(Nat)
    BY DEF KernelInv, Typed
  <2> QED
    BY <1>4, <2>1, TaskAssumption
<1>8. /\ JobStarts(t, arr) /\ InsertAll({t})
      /\ agenda' = q /\ exc' = "none" /\ urgent' \subseteq urgent
      /\ arrQueue' = [arrQueue EXCEPT ![t] = Tail(@)]
      /\ UNCHANGED <<call, currExe, waiting, available, blocked, run,
                     phase, policy, lastSched>>
  BY <1>4, <1>6
     DEF OnFakeArrival, GetBuffArrival, Handles, Enters, Comes, GoesUnlessPosted, resVars
<1> HIDE DEF arr
<1>9. /\ GoodAgenda(q, Now)
      /\ \A f : f \notin {Begin, Dead(t)} => (IsPosted(q, f) <=> IsPosted(Rest, f))
      /\ \A x : x.ev \notin {Begin, Dead(t)} =>
                   (x \in Entries(q) <=> x \in Entries(Rest))
  BY <1>2, <1>5, <1>6, <1>7, Started
<1> HIDE DEF q
<1>10. SameBut(agenda', Rest, {Begin, Dead(t), Arr(t)})
  <2>1. /\ \A f : f \notin {Begin, Dead(t), Arr(t)} =>
                     (IsPosted(agenda', f) <=> IsPosted(Rest, f))
        /\ \A x : x.ev \notin {Begin, Dead(t), Arr(t)} =>
                     (x \in Entries(agenda') <=> x \in Entries(Rest))
    BY <1>8, <1>9
  <2>2. \A u : \A k \in JobKinds : <<k, u>> \notin {Begin, Dead(t), Arr(t)}
    BY ArrivingIsNoJob DEF Arriving
  <2>3. \A u : Of(agenda', u) = Of(Rest, u)
    BY <2>1, <2>2, OfNoJob
  <2> QED
    BY <2>1, <2>3 DEF SameBut
<1>11. /\ arrQueue' \in [Tasks -> Seq(Nat)]
       /\ \A u \in Tasks : u # t => arrQueue'[u] = arrQueue[u]
  BY <1>7, <1>8
<1> QED
  BY <1>1, <1>2, <1>4, <1>6, <1>7, <1>8, <1>9, <1>10, <1>11, JobStartKeeps

-----------------------------------------------------------------------------
(* The end of a job.                                                         *)

LEMMA Waiting ==
    ASSUME Typed, NEW r \in Resources
    PROVE  /\ blocked[r] \in Seq([task : Tasks, nr : Nat])
           /\ Len(blocked[r]) \in Nat /\ DOMAIN blocked[r] = 1..Len(blocked[r])
           /\ \A i \in DOMAIN blocked[r] :
                 blocked[r][i].task \in Tasks /\ blocked[r][i].nr \in Nat
<1> DEFINE W == [task : Tasks, nr : Nat]
<1>1. blocked[r] \in Seq(W)
  BY DEF Typed
<1>2. \A w \in W : w.task \in Tasks /\ w.nr \in Nat
  OBVIOUS
<1> HIDE DEF W
<1>3. /\ Len(blocked[r]) \in Nat /\ DOMAIN blocked[r] = 1..Len(blocked[r])
      /\ \A i \in DOMAIN blocked[r] : blocked[r][i] \in W
  BY <1>1
<1> QED
  BY <1>1, <1>2, <1>3 DEF W

(* The events that are dropped or posted when a job ends. *)
Ending(t) == {Begin} \cup TaskEvents(t)

LEMMA EndingIsOfTask ==
    ASSUME NEW t
    PROVE  /\ EndDisp \notin Ending(t)
           /\ \A u : u # t => /\ Dead(u) \notin Ending(t) /\ FakeArr(u) \notin Ending(t)
                              /\ \A k \in JobKinds : <<k, u>> \notin Ending(t)
BY KindOf, EventParts
   DEF Ending, TaskEvents, JobKinds, Begin, Arr, EndEvt, Sched, Desched,
       FakeArr, Dead, Kill

(* The waits stay while the tasks that wait do not go on. *)
LEMMA WaitsGoOn ==
    ASSUME Waits, blocked' = blocked,
           \A r \in Resources : \A i \in DOMAIN blocked[r] :
              LET u == blocked[r][i].task
              IN  actInstr'[u] = actInstr[u] /\ waiting'[u] = waiting[u]
    PROVE  Waits'
<1>1. ASSUME NEW r \in Resources, NEW i \in DOMAIN blocked[r]
      PROVE  LET u == blocked[r][i].task
             IN  waiting'[u] /\ Instr(u)'.op = "wait" /\ Instr(u)'.res = r
  <2> DEFINE u == blocked[r][i].task
  <2>1. waiting[u] /\ Instr(u).op = "wait" /\ Instr(u).res = r
    BY <1>1 DEF Waits
  <2>2. actInstr'[u] = actInstr[u] /\ waiting'[u] = waiting[u]
    BY <1>1
  <2> QED
    BY <2>1, <2>2 DEF Instr
<1>2. \A r \in Resources : \A i, j \in DOMAIN blocked[r] :
          blocked[r][i].task = blocked[r][j].task => i = j
  BY DEF Waits
<1> QED
  BY <1>1, <1>2 DEF Waits

(* A job that has the CPU or not leaves the kernel, completed or killed. *)
LEMMA JobEndKeeps ==
    ASSUME KernelInv, NEW t \in Tasks, NEW e \in {EndEvt(t), Kill(t)}, Entered(e),
           ~IsBlocked(t), ~waiting[t], JobEnds(t), GoodAgenda(agenda', Now),
           \A f : f \notin Ending(t) => (IsPosted(agenda', f) <=> IsPosted(agenda, f)),
           \A x : x.ev \notin Ending(t) =>
                     (x \in Entries(agenda') <=> x \in Entries(agenda)),
           Of(agenda', t) = {}, ~IsPosted(agenda', Dead(t)), BufferInTime(t)',
           actInstr' \in [Tasks -> Nat], actInstr'[t] \in 1..Len(Program[t]),
           \A u \in Tasks : u # t => actInstr'[u] = actInstr[u],
           arrQueue' \in [Tasks -> Seq(Nat)],
           \A u \in Tasks : u # t => arrQueue'[u] = arrQueue[u],
           exc' = "none", urgent' \subseteq MayStayUrgent,
           UNCHANGED <<call, arrival, dl, cost, done, lastTime, waiting,
                       available, blocked, run, phase, policy, lastSched>>
    PROVE  KernelInv'
<1>1. e[1] \in {"end", "kill"} /\ e # EndDisp /\ e[1] # "desched" /\ e[1] # "sched"
  BY KindOf
<1>2. /\ Now \in Nat /\ now' = Now /\ Now = now /\ call = None /\ None \notin Tasks
  BY <1>1, HandledAtOnce, TaskAssumption DEF Entered
<1>3. ~IsPosted(agenda', EndDisp)
  <2>1. ~IsPosted(agenda, EndDisp)
    BY <1>1, NoEndDispatch
  <2> QED
    BY <2>1, EndingIsOfTask
<1>4. \A u : u # t => Of(agenda', u) = Of(agenda, u)
  BY EndingIsOfTask DEF Of
<1>5. \A u : "sched" \notin Of(agenda', u)
  <2>1. \A u : "sched" \notin Of(agenda, u)
    BY <1>1, NoSched
  <2> QED
    BY <1>4, <2>1
<1>6. /\ \A u : IsBlocked(u)' <=> IsBlocked(u)
      /\ queue' = queue \ {t} /\ currExe' # t
      /\ \A u : u # t => (currExe' = u <=> currExe = u) \/ u = None
      /\ state' = [state EXCEPT ![t] = "IDLE"] /\ insertTime' = insertTime
      /\ currExe' \in {currExe, None}
  BY <1>2 DEF IsBlocked, JobEnds, LeavesKernel
<1>7. /\ state'[t] = "IDLE" /\ state' \in [Tasks -> {"IDLE", "READY", "EXEC"}]
      /\ \A u \in Tasks : u # t => state'[u] = state[u]
  BY <1>6 DEF KernelInv, Typed
<1>8. ASSUME NEW u \in Tasks, u # t PROVE TaskInv(u)'
  <2>1. TaskInv(u) /\ call # u /\ now \in Nat /\ lastTime[u] \in Nat /\ u # None
    BY <1>2 DEF KernelInv, Typed
  <2>2. Dead(u) \notin Ending(t) /\ FakeArr(u) \notin Ending(t)
    BY <1>8, EndingIsOfTask
  <2>3. (u \in queue' <=> u \in queue) /\ (currExe' = u <=> currExe = u)
    BY <1>6, <1>8, <2>1
  <2>4. ~IsPosted(agenda, EndDisp)
    BY <1>1, NoEndDispatch
  <2>5. Untouched(u)
    BY <1>2, <1>4, <1>6, <1>7, <1>8, <2>1, <2>2, <2>3, <2>4 DEF Untouched
  <2> QED
    BY <1>2, <2>1, <2>5, UntouchedStays
<1>9. TaskInv(t)'
  <2>1. call' # t
    BY <1>2
  <2>2. Situation(t, Of(agenda, t))'
    BY <1>6, <1>7, <2>1 DEF Situation, Idle
  <2>3. EndsInTime(t)' /\ DeadInTime(t)'
    BY <1>7 DEF EndsInTime, DeadInTime
  <2>4. InProgram(t)'
    <3>1. TaskInv(t) /\ lastTime'[t] <= now' /\ Len(Program[t]) \in Nat
      BY <1>2, Programs DEF KernelInv, TaskInv, InProgram
    <3>2. actInstr'[t] \in 1..Len(Program[t]) + 1 /\ actInstr'[t] # Len(Program[t]) + 1
      BY <3>1
    <3> QED
      BY <3>1, <3>2 DEF InProgram
  <2> QED
    BY <2>2, <2>3, <2>4 DEF TaskInv
<1>10. SchedIsAlone' /\ DispatchIsAlone' /\ CallGoesOn'
  BY <1>2, <1>3, <1>5, QuietAgenda DEF CallGoesOn
<1>11. Waits'
  <2>1. \A r \in Resources : \A i \in DOMAIN blocked[r] :
           blocked[r][i].task \in Tasks
    BY Waiting DEF KernelInv
  <2>2. \A r \in Resources : \A i \in DOMAIN blocked[r] :
           blocked[r][i].task # t
    BY DEF IsBlocked
  <2>3. \A r \in Resources : \A i \in DOMAIN blocked[r] :
           actInstr'[blocked[r][i].task] = actInstr[blocked[r][i].task]
    BY <2>1, <2>2
  <2> QED
    BY <2>3, WaitsGoOn DEF KernelInv
<1>12. Typed'
  <2>1. queue' \subseteq Tasks /\ currExe' \in Tasks \cup {None}
    BY <1>6 DEF KernelInv, Typed
  <2> QED
    BY <1>2, <1>6, <1>7, <2>1 DEF KernelInv, Typed
<1> QED
  BY <1>2, <1>8, <1>9, <1>10, <1>11, <1>12 DEF KernelInv

(* Task::onEndInstance *)
LEMMA EndInstanceKeeps ==
    ASSUME KernelInv, NEW t \in Tasks, OnEndInstance(t)
    PROVE  KernelInv'
<1>1. Entered(EndEvt(t))
  BY Entering DEF OnEndInstance, Handles
<1>2. /\ GoodAgenda(Rest, Now) /\ Now \in Nat /\ now' = Now
      /\ call = None /\ Loses(Rest, agenda, <<"end", t>>)
  BY <1>1 DEF Entered, EndEvt
<1>3. TaskInv(t) /\ call # t
  BY <1>2, Programs DEF KernelInv
<1>4. /\ state[t] = "EXEC" /\ t \in queue /\ ~IsBlocked(t)
      /\ Of(agenda, t) = {"end"} /\ ~waiting[t]
  <2>1. "end" \in Of(agenda, t)
    BY <1>1 DEF Entered, Of, JobKinds, EndEvt
  <2> QED
    BY <1>3, <2>1
       DEF TaskInv, Situation, Idle, Ready, Executing, InProgram
<1>5. Of(Rest, t) = {}
  BY <1>2, <1>4, LosesOf
<1> DEFINE d == DropFrom(Rest, Dead(t))
           r == Dispatching(d)
<1>6. /\ JobEnds(t) /\ actInstr' = [actInstr EXCEPT ![t] = 1]
      /\ agenda' = IF arrQueue[t] = <<>> THEN r ELSE Process(r, FakeArr(t))
      /\ exc' = "none" /\ urgent' \subseteq urgent /\ urgent \subseteq MayStayUrgent
      /\ UNCHANGED <<call, arrival, dl, arrQueue, cost, done, lastTime, waiting,
                     available, blocked, run, phase, policy, lastSched>>
  BY <1>4 DEF OnEndInstance, Handles, Enters, Comes, Goes, ServesBuffer,
              DeadlineDropped, instrVars, resVars, KernelInv, Typed
<1>7. GoodAgenda(d, Now) /\ Loses(d, Rest, Dead(t))
  BY <1>2, GoodDrop
<1> HIDE DEF d
<1>8. GoodAgenda(r, Now) /\ Moves(r, d, Entry(Begin, Now, 18))
  BY <1>2, <1>7, DispatchMoves
<1> HIDE DEF r
<1>9. /\ arrQueue[t] = <<>> => agenda' = r
      /\ arrQueue[t] # <<>> => /\ GoodAgenda(agenda', Now)
                               /\ Moves(agenda', r, Entry(FakeArr(t), Now, 0))
  <2>1. FakeArr(t) \in Events /\ Timed(Entry(FakeArr(t), Now, 0), Now)
    BY <1>2, EventOf, PostsInTime
  <2> QED
    BY <1>2, <1>6, <1>8, <2>1, ProcessMoves
<1>10. /\ \A f : f \notin {EndEvt(t), Dead(t), Begin, FakeArr(t)} =>
                    (IsPosted(agenda', f) <=> IsPosted(agenda, f))
       /\ \A x : x.ev \notin {EndEvt(t), Dead(t), Begin, FakeArr(t)} =>
                    (x \in Entries(agenda') <=> x \in Entries(agenda))
       /\ ~IsPosted(agenda', Dead(t))
       /\ \A f \in {EndEvt(t)} : ~IsPosted(agenda', f)
  <2>1. /\ Dead(t) # Begin /\ Dead(t) # FakeArr(t) /\ EndEvt(t) # Begin
        /\ EndEvt(t) # FakeArr(t)
    BY KindOf
  <2> QED
    BY <1>2, <1>7, <1>8, <1>9, <2>1, EntryParts DEF Loses, Moves, EndEvt
<1>11. Of(agenda', t) = {}
  <2>1. ASSUME NEW k \in JobKinds, IsPosted(agenda', <<k, t>>) PROVE FALSE
    <3>1. <<k, t>> # Dead(t) /\ <<k, t>> # Begin /\ <<k, t>> # FakeArr(t)
      BY ArrivingIsNoJob DEF Arriving
    <3>2. <<k, t>> # EndEvt(t) /\ IsPosted(agenda, <<k, t>>)
      BY <1>10, <2>1, <3>1
    <3> QED
      BY <1>4, <3>2 DEF Of, EndEvt
  <2> QED
    BY <2>1 DEF Of
<1>12. BufferInTime(t)'
  <2>1. state'[t] = "IDLE"
    BY <1>6 DEF JobEnds, KernelInv, Typed
  <2>2. CASE arrQueue[t] = <<>>
    <3>1. ~IsPosted(agenda, FakeArr(t))
      BY <1>3, <2>2, PostedEntries DEF TaskInv, BufferInTime
    <3>2. ~IsPosted(agenda', FakeArr(t))
      BY <1>2, <1>7, <1>8, <1>9, <2>2, <3>1, ArrivingIsNoJob, EntryParts DEF Loses, Moves
    <3> QED
      BY <1>6, <2>2, <3>2, PostedEntries DEF BufferInTime
  <2>3. CASE arrQueue[t] # <<>>
    <3>1. IsPosted(agenda', FakeArr(t))
          /\ \A x \in Entries(agenda') : x.ev = FakeArr(t) => x.prio = 0
      BY <1>9, <2>3, EntryParts DEF Moves
    <3> QED
      BY <1>6, <2>1, <2>3, <3>1 DEF BufferInTime
  <2> QED
    BY <2>2, <2>3
<1>13. /\ actInstr' \in [Tasks -> Nat] /\ actInstr'[t] \in 1..Len(Program[t])
       /\ \A u \in Tasks : u # t => actInstr'[u] = actInstr[u]
       /\ arrQueue' \in [Tasks -> Seq(Nat)] /\ arrQueue' = arrQueue
  <2>1. actInstr \in [Tasks -> Nat] /\ arrQueue \in [Tasks -> Seq(Nat)]
    BY DEF KernelInv, Typed
  <2>2. actInstr' = [actInstr EXCEPT ![t] = 1] /\ arrQueue' = arrQueue
    BY <1>6
  <2>3. 1 \in 1..Len(Program[t])
    BY Programs
  <2> QED
    BY <2>1, <2>2, <2>3
<1>14. {EndEvt(t), Dead(t), Begin, FakeArr(t)} \subseteq Ending(t)
  BY DEF Ending, TaskEvents
<1>15. /\ GoodAgenda(agenda', Now)
       /\ \A f : f \notin Ending(t) => (IsPosted(agenda', f) <=> IsPosted(agenda, f))
       /\ \A x : x.ev \notin Ending(t) =>
                     (x \in Entries(agenda') <=> x \in Entries(agenda))
  BY <1>8, <1>9, <1>10, <1>14
<1> QED
  BY <1>1, <1>4, <1>6, <1>10, <1>11, <1>12, <1>13, <1>15, JobEndKeeps

(* Task::onKill *)
LEMMA KillKeeps ==
    ASSUME KernelInv, Sound, NEW t \in Tasks, OnKill(t)
    PROVE  KernelInv'
<1>1. Entered(Kill(t)) /\ Kill(t)[1] = "kill"
  BY Entering, KindOf DEF OnKill
<1>2. /\ GoodAgenda(Rest, Now) /\ Now \in Nat /\ now' = Now
      /\ call = None /\ Loses(Rest, agenda, <<"kill", t>>)
  BY <1>1 DEF Entered, Kill
<1>3. TaskInv(t) /\ call # t
  BY <1>2, Programs DEF KernelInv
<1>4. "kill" \in Of(agenda, t) /\ "desched" \notin Of(agenda, t)
  <2>1. Head(agenda).prio = 6 /\ 6 > 0
    BY <1>1, HandledPriority
  <2>2. "desched" \notin Of(agenda, t)
    BY <1>1, <2>1, NotBefore
  <2> QED
    BY <1>1, <2>2 DEF Entered, Of, JobKinds, Kill
<1>5. /\ state[t] = "READY" /\ ~IsBlocked(t) /\ Of(agenda, t) = {"kill"}
  BY <1>3, <1>4 DEF TaskInv, Situation, Idle, Ready, Executing
<1>6. ~waiting[t] /\ actInstr[t] \in 1..Len(Program[t])
  <2>1. t \in KillOnMiss /\ actInstr[t] \in 1..Len(Program[t]) + 1
        /\ actInstr[t] # Len(Program[t]) + 1 /\ Len(Program[t]) \in Nat
    BY <1>3, <1>4, <1>5, Programs DEF TaskInv, DeadInTime, InProgram
  <2>2. actInstr[t] \in 1..Len(Program[t])
    BY <2>1
  <2>3. Instr(t).op = "exec"
    BY <2>1, <2>2, Programs DEF Sound, Instr
  <2> QED
    BY <1>3, <2>2, <2>3 DEF TaskInv, InProgram
<1> DEFINE r == Dispatching(Rest)
<1>7. /\ JobEnds(t) /\ arrQueue' = [arrQueue EXCEPT ![t] = <<>>]
      /\ agenda' = DropAllFrom(r, TaskEvents(t))
      /\ exc' = "none" /\ urgent' \subseteq MayStayUrgent
      /\ UNCHANGED <<call, actInstr, arrival, dl, cost, done, lastTime, waiting,
                     available, blocked, run, phase, policy, lastSched>>
  BY DEF OnKill, Comes, Goes, instrVars, resVars, KernelInv, Typed, MayStayUrgent
<1>8. GoodAgenda(r, Now) /\ Moves(r, Rest, Entry(Begin, Now, 18))
  BY <1>2, DispatchMoves
<1> HIDE DEF r
<1>9. /\ agenda' \in Seq(EventEntry)
      /\ Proper(agenda')
      /\ Entries(agenda') = {x \in Entries(r) : x.ev \notin TaskEvents(t)}
  BY <1>7, <1>8, DropAllEntries DEF GoodAgenda
<1>10. GoodAgenda(agenda', Now)
  BY <1>8, <1>9 DEF GoodAgenda
<1>11. \A f : IsPosted(agenda', f) <=> IsPosted(r, f) /\ f \notin TaskEvents(t)
  BY <1>9, PostedEntries
<1>12. Kill(t) \in TaskEvents(t) /\ Begin \in Ending(t) /\ Kill(t) \in Ending(t)
       /\ \A f \in TaskEvents(t) : f \in Ending(t)
  BY DEF TaskEvents, Ending
<1>13. /\ \A f : f \notin Ending(t) => (IsPosted(agenda', f) <=> IsPosted(agenda, f))
       /\ \A x : x.ev \notin Ending(t) =>
                     (x \in Entries(agenda') <=> x \in Entries(agenda))
  BY <1>2, <1>8, <1>9, <1>11, <1>12, EntryParts DEF Moves, Loses, Kill
<1>14. Of(agenda', t) = {}
  <2>1. ASSUME NEW k \in JobKinds, IsPosted(agenda', <<k, t>>) PROVE FALSE
    <3>1. <<k, t>> # Begin
      BY NotOfTask
    <3>2. IsPosted(agenda, <<k, t>>) /\ <<k, t>> # Kill(t)
      BY <1>2, <1>8, <1>11, <1>12, <2>1, <3>1, EntryParts DEF Moves, Loses, Kill
    <3> QED
      BY <1>5, <3>2 DEF Of, Kill
  <2> QED
    BY <2>1 DEF Of
<1>15. ~IsPosted(agenda', Dead(t)) /\ ~IsPosted(agenda', FakeArr(t))
  BY <1>11 DEF TaskEvents
<1>16. /\ arrQueue' \in [Tasks -> Seq(Nat)] /\ arrQueue'[t] = <<>>
       /\ \A u \in Tasks : u # t => arrQueue'[u] = arrQueue[u]
  BY <1>7 DEF KernelInv, Typed
<1>17. BufferInTime(t)'
  BY <1>15, <1>16, PostedEntries DEF BufferInTime
<1>18. actInstr' \in [Tasks -> Nat] /\ actInstr' = actInstr
  <2>1. actInstr \in [Tasks -> Nat]
    BY DEF KernelInv, Typed
  <2> QED
    BY <1>7, <2>1
<1> QED
  BY <1>1, <1>5, <1>6, <1>7, <1>10, <1>13, <1>14, <1>15, <1>16, <1>17, <1>18,
     JobEndKeeps

-----------------------------------------------------------------------------
(* Deadlines and suspensions.                                                *)

LEMMA Instructions ==
    ASSUME NEW t \in Tasks, NEW i \in 1..Len(Program[t])
    PROVE  LET I == Program[t][i]
           IN  \/ I.op = "exec" /\ I.costs \subseteq Nat
               \/ I.op = "suspend" /\ I.delay \in Nat
               \/ /\ I.op \in {"wait", "signal"}
                  /\ I.res \in Resources /\ I.nr \in Nat
BY TaskAssumption

(* Events of t only. *)
EventsOf(t) == {<<k, t>> : k \in Kinds}

LEMMA EventsOfOthers ==
    ASSUME NEW t
    PROVE  /\ EndDisp \notin EventsOf(t) \cup {Begin}
           /\ \A u : u # t => /\ Dead(u) \notin EventsOf(t) \cup {Begin}
                              /\ FakeArr(u) \notin EventsOf(t) \cup {Begin}
                              /\ \A k \in JobKinds :
                                    <<k, u>> \notin EventsOf(t) \cup {Begin}
           /\ \A k \in Kinds : <<k, t>> \in EventsOf(t) \cup {Begin}
<1>1. ASSUME NEW k \in Kinds, NEW l, NEW u, u # t PROVE <<l, u>> # <<k, t>>
  BY <1>1, EventParts
<1>2. /\ EndDisp \notin EventsOf(t) /\ EndDisp # Begin
      /\ \A u : Dead(u) # Begin /\ FakeArr(u) # Begin
      /\ \A u : \A k \in JobKinds : <<k, u>> # Begin
  BY KindOf, EventParts, NotOfTask DEF EventsOf, Kinds
<1> QED
  BY <1>1, <1>2 DEF EventsOf, Dead, FakeArr

(* A handler that changes one task only, and gives nobody the CPU. *)
LEMMA OneTaskIsTouched ==
    ASSUME KernelInv, NEW t \in Tasks, NEW e, Entered(e),
           e[1] # "sched", e[1] # "desched", e # EndDisp,
           GoodAgenda(agenda', Now),
           \A f : f \notin EventsOf(t) \cup {Begin} =>
                     (IsPosted(agenda', f) <=> IsPosted(agenda, f)),
           \A x : x.ev \notin EventsOf(t) \cup {Begin} =>
                     (x \in Entries(agenda') <=> x \in Entries(agenda)),
           TaskInv(t)', "sched" \notin Of(agenda', t), Typed', Waits',
           \A u \in Tasks : u # t =>
              /\ actInstr'[u] = actInstr[u]
              /\ u \in queue' <=> u \in queue
              /\ currExe' = u <=> currExe = u,
           exc' = "none",
           UNCHANGED <<call, state, arrQueue, waiting, lastTime, blocked>>
    PROVE  KernelInv'
<1>1. Now \in Nat /\ now' = Now /\ Now >= now /\ call = None /\ None \notin Tasks
  BY TaskAssumption DEF Entered
<1>2. ~IsPosted(agenda, EndDisp) /\ ~IsPosted(agenda', EndDisp)
  BY NoEndDispatch, EventsOfOthers
<1>3. \A u : u # t => Of(agenda', u) = Of(agenda, u)
  BY EventsOfOthers DEF Of
<1>4. \A u : "sched" \notin Of(agenda', u)
  BY <1>3, NoSched
<1>5. ASSUME NEW u \in Tasks, u # t PROVE TaskInv(u)'
  <2>1. TaskInv(u) /\ call # u /\ now \in Nat /\ lastTime[u] \in Nat
    BY <1>1 DEF KernelInv, Typed
  <2>2. /\ Dead(u) \notin EventsOf(t) \cup {Begin}
        /\ FakeArr(u) \notin EventsOf(t) \cup {Begin}
    BY <1>5, EventsOfOthers
  <2>3. "end" \in Of(agenda, u) => Now = now
    BY EndsAtOnce
  <2>4. Of(agenda', u) = Of(agenda, u) /\ (IsBlocked(u)' <=> IsBlocked(u))
    BY <1>3, <1>5 DEF IsBlocked
  <2>5. \A x : x.ev \in {Dead(u), FakeArr(u)} =>
                  (x \in Entries(agenda') <=> x \in Entries(agenda))
    BY <2>2
  <2>6. Untouched(u)
    BY <1>1, <1>2, <1>5, <2>1, <2>3, <2>4, <2>5 DEF Untouched
  <2> QED
    BY <1>1, <2>1, <2>6, UntouchedStays
<1>6. SchedIsAlone' /\ DispatchIsAlone' /\ CallGoesOn'
  BY <1>1, <1>2, <1>4, QuietAgenda DEF CallGoesOn
<1> QED
  BY <1>1, <1>5, <1>6 DEF KernelInv

(* DeadEvt::doit of a task that is not to be killed. *)
LEMMA MissKeeps ==
    ASSUME KernelInv, NEW t \in Tasks, OnDeadline(t),
           ~(t \in KillOnMiss /\ state[t] # "IDLE")
    PROVE  KernelInv'
<1>1. Entered(Dead(t)) /\ Dead(t)[1] = "dead" /\ Dead(t) # EndDisp
  BY Entering, KindOf DEF OnDeadline, Handles
<1>2. /\ GoodAgenda(Rest, Now) /\ Now \in Nat /\ now' = Now /\ Now >= now
      /\ call = None /\ Loses(Rest, agenda, <<"dead", t>>)
  BY <1>1 DEF Entered, Dead
<1>3. TaskInv(t) /\ call # t
  BY <1>2, Programs DEF KernelInv
<1>4. /\ agenda' = Rest /\ exc' = "none" /\ urgent' \subseteq urgent
      /\ UNCHANGED <<call, queue, insertTime, currExe, state, actInstr, arrival,
                     dl, arrQueue, cost, done, lastTime, waiting, available,
                     blocked, run, phase, policy, lastSched>>
  BY DEF OnDeadline, Handles, Enters, Comes, kernelVars, jobVars, instrVars, resVars
<1>5. /\ \A f : IsPosted(agenda', f) <=> IsPosted(agenda, f) /\ f # Dead(t)
      /\ \A x : x \in Entries(agenda') <=> x \in Entries(agenda) /\ x.ev # Dead(t)
      /\ Of(agenda', t) = Of(agenda, t)
      /\ "sched" \notin Of(agenda, t)
      /\ ~IsPosted(agenda, EndDisp)
  <2>1. Of(agenda', t) = Of(agenda, t)
    BY <1>2, <1>4, LosesOf DEF JobKinds, Of
  <2>2. "sched" \notin Of(agenda, t) /\ ~IsPosted(agenda, EndDisp)
    BY <1>1, NoSched, NoEndDispatch
  <2> QED
    BY <1>2, <1>4, <2>1, <2>2 DEF Loses, Dead
<1>6. IsBlocked(t)' <=> IsBlocked(t)
  BY <1>4 DEF IsBlocked
<1>7. TaskInv(t)'
  <2>1. Situation(t, Of(agenda, t))'
    BY <1>3, <1>4, <1>5, <1>6 DEF TaskInv, Situation, Idle, Ready, Executing
  <2>2. EndsInTime(t)' /\ DeadInTime(t)'
    <3>1. ~IsPosted(agenda', Dead(t)) /\ \A y \in Entries(agenda') : y.ev # Dead(t)
      BY <1>5
    <3> QED
      BY <1>3, <1>4, <1>5, <3>1 DEF EndsInTime, DeadInTime, TaskInv
  <2>3. BufferInTime(t)'
    <3>1. FakeArr(t) # Dead(t)
      BY KindOf
    <3> QED
      BY <1>3, <1>4, <1>5, <3>1 DEF BufferInTime, TaskInv
  <2>4. InProgram(t)'
    <3>1. lastTime[t] \in Nat /\ now \in Nat
      BY DEF KernelInv, Typed
    <3> QED
      BY <1>2, <1>3, <1>4, <1>5, <3>1 DEF InProgram, TaskInv, Instr
  <2> QED
    BY <2>1, <2>2, <2>3, <2>4 DEF TaskInv
<1>8. Typed'
  BY <1>2, <1>4 DEF KernelInv, Typed
<1>9. Waits'
  BY <1>4, WaitsStay DEF KernelInv
<1>10. Dead(t) \in EventsOf(t)
  BY DEF Dead, EventsOf, Kinds
<1>11. /\ \A f : f \notin EventsOf(t) \cup {Begin} =>
                    (IsPosted(agenda', f) <=> IsPosted(agenda, f))
       /\ \A x : x.ev \notin EventsOf(t) \cup {Begin} =>
                    (x \in Entries(agenda') <=> x \in Entries(agenda))
  BY <1>5, <1>10
<1> QED
  BY <1>1, <1>2, <1>4, <1>5, <1>7, <1>8, <1>9, <1>11, OneTaskIsTouched

(* The job that may be killed for its deadline has no other event due. *)
LEMMA KilledInTime ==
    ASSUME KernelInv, Sound, NEW t \in Tasks, Entered(Dead(t)),
           t \in KillOnMiss, state[t] # "IDLE"
    PROVE  /\ t \in queue /\ ~IsBlocked(t) /\ ~IsPosted(agenda, FakeArr(t))
           /\ \/ state[t] = "READY" /\ currExe # t /\ Of(agenda, t) = {}
              \/ state[t] = "EXEC" /\ Of(agenda, t) = {"instr"}
              \/ /\ state[t] = "EXEC" /\ Of(agenda, t) = {"instr", "desched"}
                 /\ currExe # t
<1>1. /\ call = None /\ None \notin Tasks /\ Now \in Nat
      /\ IsPosted(agenda, Dead(t)) /\ Dead(t)[1] = "dead" /\ Dead(t) # EndDisp
      /\ Head(agenda) \in Entries(agenda) /\ Head(agenda).ev = Dead(t)
      /\ Head(agenda).at = Now
  BY KindOf, TaskAssumption DEF Entered
<1>2. TaskInv(t) /\ call # t
  BY <1>1 DEF KernelInv
<1>3. "kill" \notin Of(agenda, t) /\ "sched" \notin Of(agenda, t)
      /\ ~IsPosted(agenda, EndDisp)
  BY <1>1, <1>2, NoSched, NoEndDispatch DEF TaskInv, DeadInTime
<1>4. "end" \notin Of(agenda, t)
  <2> SUFFICES ASSUME "end" \in Of(agenda, t) PROVE FALSE
    OBVIOUS
  <2>1. state[t] = "EXEC" /\ Now = now
    BY <1>2, EndsAtOnce DEF TaskInv, Situation, Idle, Ready, Executing
  <2>2. Head(agenda).prio > 0
    BY <1>1, <1>2, <2>1 DEF TaskInv, EndsInTime
  <2>3. Head(agenda).prio = 9 /\ 9 > 6
    BY <1>1, <2>2, HandledPriority
  <2> QED
    BY <2>3, NotBefore
<1>5. actInstr[t] \in 1..Len(Program[t])
  BY <1>2, <1>4, Programs DEF TaskInv, InProgram
<1>6. Instr(t).op = "exec"
  BY <1>5, Programs DEF Sound, Instr
<1>7. ~IsBlocked(t) /\ "susp" \notin Of(agenda, t) /\ "resume" \notin Of(agenda, t)
  <2>1. "susp" \notin Of(agenda, t) /\ "resume" \notin Of(agenda, t) /\ ~waiting[t]
    BY <1>2, <1>6 DEF TaskInv, InProgram
  <2>2. ~IsBlocked(t)
    BY <1>6, <2>1 DEF IsBlocked, KernelInv, Waits
  <2> QED
    BY <2>1, <2>2
<1>8. ~IsPosted(agenda, FakeArr(t))
  BY <1>2, <1>3, PostedEntries DEF TaskInv, BufferInTime
<1> QED
  BY <1>2, <1>3, <1>4, <1>7, <1>8
     DEF TaskInv, Situation, Idle, Ready, Executing

(* DeadEvt::doit and Task::killInstance *)
LEMMA KillInstanceKeeps ==
    ASSUME KernelInv, Sound, NEW t \in Tasks, OnDeadline(t),
           t \in KillOnMiss, state[t] # "IDLE"
    PROVE  KernelInv'
<1>1. Entered(Dead(t)) /\ Dead(t)[1] = "dead" /\ Dead(t) # EndDisp
  BY Entering, KindOf DEF OnDeadline, Handles
<1>2. /\ GoodAgenda(Rest, Now) /\ Now \in Nat /\ now' = Now /\ Now >= now
      /\ call = None /\ Loses(Rest, agenda, <<"dead", t>>)
  BY <1>1 DEF Entered, Dead
<1>3. TaskInv(t) /\ call # t
  BY <1>2, Programs DEF KernelInv
<1>4. /\ t \in queue /\ ~IsBlocked(t) /\ ~IsPosted(agenda, FakeArr(t))
      /\ \/ state[t] = "READY" /\ currExe # t /\ Of(agenda, t) = {}
         \/ state[t] = "EXEC" /\ Of(agenda, t) = {"instr"}
         \/ /\ state[t] = "EXEC" /\ Of(agenda, t) = {"instr", "desched"}
            /\ currExe # t
  BY <1>1, KilledInTime
<1> DEFINE q == IF arrQueue[t] = <<>> THEN Rest ELSE Post(Rest, FakeArr(t), Now)
           r == IF state[t] = "EXEC" THEN Descheduled(q, t) ELSE q
           prio == Priority(FakeArr(t))
<1>5. /\ agenda' = Post(r, Kill(t), Now) /\ urgent' \subseteq urgent
      /\ exc' = IF IsPosted(r, Kill(t)) THEN "AlreadyPosted" ELSE "none"
      /\ UNCHANGED <<call, queue, insertTime, currExe, state, actInstr, arrival,
                     dl, arrQueue, cost, done, lastTime, waiting, available,
                     blocked, run, phase, policy, lastSched>>
  BY DEF OnDeadline, Handles, Enters, Comes, GoesUnlessPosted, kernelVars, jobVars,
         instrVars, resVars
<1>6. /\ Of(Rest, t) = Of(agenda, t)
      /\ \A f : IsPosted(Rest, f) <=> IsPosted(agenda, f) /\ f # <<"dead", t>>
      /\ \A x : x.ev # <<"dead", t>> => (x \in Entries(Rest) <=> x \in Entries(agenda))
  BY <1>2, LosesOf DEF JobKinds, Of
<1>7. /\ GoodAgenda(q, Now)
      /\ arrQueue[t] = <<>> => q = Rest
      /\ arrQueue[t] # <<>> => Gains(q, Rest, Entry(<<"fakeArr", t>>, Now, prio))
  <2>1. ~IsPosted(Rest, FakeArr(t))
    BY <1>4, <1>6
  <2>2. /\ FakeArr(t) \in Events /\ prio = Priority(FakeArr(t))
        /\ Timed(Entry(FakeArr(t), Now, Priority(FakeArr(t))), Now)
    BY <1>2, EventOf, PriorityOf, PostsInTime
  <2>3. /\ GoodAgenda(Post(Rest, FakeArr(t), Now), Now)
        /\ Gains(Post(Rest, FakeArr(t), Now), Rest, Entry(FakeArr(t), Now, prio))
    BY <1>2, <2>1, <2>2, PostGains
  <2> QED
    BY <1>2, <2>3 DEF FakeArr
<1> HIDE DEF q, prio
<1>8. /\ Of(q, t) = Of(Rest, t)
      /\ \A f : f # <<"fakeArr", t>> => (IsPosted(q, f) <=> IsPosted(Rest, f))
      /\ \A x : x.ev # <<"fakeArr", t>> => (x \in Entries(q) <=> x \in Entries(Rest))
      /\ \A x \in Entries(q) : x.ev = <<"fakeArr", t>> => arrQueue[t] # <<>>
  <2>1. CASE arrQueue[t] = <<>>
    <3>1. ~IsPosted(q, FakeArr(t))
      BY <1>4, <1>6, <1>7, <2>1
    <3> QED
      BY <1>7, <2>1, <3>1, PostedEntries DEF FakeArr
  <2>2. CASE arrQueue[t] # <<>>
    <3>1. Gains(q, Rest, Entry(<<"fakeArr", t>>, Now, prio))
      BY <1>7, <2>2
    <3>4. JobKinds \cap {"fakeArr"} = {}
      BY DEF JobKinds
    <3>5. /\ Of(q, t) = Of(Rest, t) \cup (JobKinds \cap {"fakeArr"})
          /\ \A f : IsPosted(q, f) <=> IsPosted(Rest, f) \/ f = <<"fakeArr", t>>
          /\ \A x : x.ev # <<"fakeArr", t>> => (x \in Entries(q) <=> x \in Entries(Rest))
      BY <3>1, GainsOf
    <3> QED
      BY <2>2, <3>4, <3>5
  <2> QED
    BY <2>1, <2>2
<1>9. /\ GoodAgenda(r, Now)
      /\ state[t] = "READY" => r = q
      /\ state[t] = "EXEC" => Moves(r, q, Entry(<<"desched", t>>, Now, 0))
  <2>1. ~IsPosted(q, Sched(t))
    <3>1. "sched" \notin Of(q, t)
      BY <1>4, <1>6, <1>8
    <3> QED
      BY <3>1 DEF Of, JobKinds, Sched
  <2>2. /\ GoodAgenda(Descheduled(q, t), Now)
        /\ Moves(Descheduled(q, t), q, Entry(Desched(t), Now, 0))
    BY <1>2, <1>7, <2>1, DeschedMoves
  <2> QED
    BY <1>4, <1>7, <2>2 DEF Desched
<1> HIDE DEF r
<1>10. /\ Of(r, t) = IF state[t] = "EXEC" THEN {"instr", "desched"} ELSE {}
       /\ \A f : f # <<"desched", t>> => (IsPosted(r, f) <=> IsPosted(q, f))
       /\ \A x : x.ev # <<"desched", t>> => (x \in Entries(r) <=> x \in Entries(q))
  <2>1. CASE state[t] = "READY"
    BY <1>4, <1>6, <1>8, <1>9, <2>1
  <2>2. CASE state[t] = "EXEC"
    <3>1. /\ Of(r, t) = Of(q, t) \cup (JobKinds \cap {"desched"})
          /\ \A f : IsPosted(r, f) <=> IsPosted(q, f) \/ f = <<"desched", t>>
          /\ \A x : x.ev # <<"desched", t>> => (x \in Entries(r) <=> x \in Entries(q))
      BY <1>9, <2>2, GainsOf
    <3> QED
      BY <1>4, <1>6, <1>8, <2>2, <3>1 DEF JobKinds
  <2> QED
    BY <1>4, <2>1, <2>2
<1>11. /\ exc' = "none" /\ GoodAgenda(agenda', Now)
       /\ Gains(agenda', r, Entry(<<"kill", t>>, Now, 6))
  <2>1. ~IsPosted(r, Kill(t))
    <3>1. "kill" \notin Of(r, t)
      BY <1>10
    <3> QED
      BY <3>1 DEF Of, JobKinds, Kill
  <2>2. /\ Kill(t) \in Events /\ Priority(Kill(t)) = 6
        /\ Timed(Entry(Kill(t), Now, Priority(Kill(t))), Now)
    BY <1>2, EventOf, PriorityOf, PostsInTime
  <2>3. /\ GoodAgenda(Post(r, Kill(t), Now), Now)
        /\ Gains(Post(r, Kill(t), Now), r, Entry(Kill(t), Now, 6))
    BY <1>2, <1>9, <2>1, <2>2, PostGains
  <2> QED
    BY <1>5, <2>1, <2>3 DEF Kill
<1>12. /\ Of(agenda', t) = IF state[t] = "EXEC" THEN {"instr", "desched", "kill"}
                                                ELSE {"kill"}
       /\ \A f : f # <<"kill", t>> => (IsPosted(agenda', f) <=> IsPosted(r, f))
       /\ \A x : x.ev # <<"kill", t>> => (x \in Entries(agenda') <=> x \in Entries(r))
  <2>1. /\ Of(agenda', t) = Of(r, t) \cup (JobKinds \cap {"kill"})
        /\ \A f : IsPosted(agenda', f) <=> IsPosted(r, f) \/ f = <<"kill", t>>
        /\ \A x : x.ev # <<"kill", t>> => (x \in Entries(agenda') <=> x \in Entries(r))
    BY <1>11, GainsOf
  <2> QED
    BY <1>10, <2>1 DEF JobKinds
<1>13. /\ ~IsPosted(agenda', Dead(t))
       /\ \A x \in Entries(agenda') : x.ev = FakeArr(t) => arrQueue[t] # <<>>
  <2>1. /\ Dead(t) # <<"kill", t>> /\ Dead(t) # <<"desched", t>>
        /\ Dead(t) # <<"fakeArr", t>>
        /\ FakeArr(t) # <<"kill", t>> /\ FakeArr(t) # <<"desched", t>>
    BY EventParts DEF Dead, FakeArr
  <2> QED
    BY <1>6, <1>8, <1>10, <1>12, <2>1 DEF Dead, FakeArr
<1>14. IsBlocked(t)' <=> IsBlocked(t)
  BY <1>5 DEF IsBlocked
<1>15. TaskInv(t)'
  <2>1. Situation(t, Of(agenda, t))'
    BY <1>3, <1>4, <1>5, <1>12, <1>14 DEF Situation, Ready, Executing
  <2>2. EndsInTime(t)' /\ DeadInTime(t)'
    BY <1>3, <1>5, <1>12, <1>13 DEF EndsInTime, DeadInTime
  <2>3. BufferInTime(t)'
    BY <1>5, <1>12, <1>13 DEF BufferInTime
  <2>4. InProgram(t)'
    <3>1. lastTime[t] \in Nat /\ now \in Nat
      BY DEF KernelInv, Typed
    <3>2. /\ "end" \notin Of(agenda', t) /\ "end" \notin Of(agenda, t)
          /\ "susp" \notin Of(agenda', t) /\ "resume" \notin Of(agenda', t)
          /\ "instr" \in Of(agenda', t) => "instr" \in Of(agenda, t)
      BY <1>4, <1>12
    <3> QED
      BY <1>2, <1>3, <1>5, <3>1, <3>2 DEF InProgram, TaskInv, Instr
  <2> QED
    BY <2>1, <2>2, <2>3, <2>4 DEF TaskInv
<1>16. Typed'
  BY <1>2, <1>5 DEF KernelInv, Typed
<1>17. Waits'
  BY <1>5, WaitsStay DEF KernelInv
<1>18. /\ \A f : f \notin EventsOf(t) \cup {Begin} =>
                    (IsPosted(agenda', f) <=> IsPosted(agenda, f))
       /\ \A x : x.ev \notin EventsOf(t) \cup {Begin} =>
                    (x \in Entries(agenda') <=> x \in Entries(agenda))
  <2>1. \A k \in {"dead", "fakeArr", "desched", "kill"} :
           <<k, t>> \in EventsOf(t) \cup {Begin}
    BY EventsOfOthers DEF Kinds
  <2> QED
    BY <1>6, <1>8, <1>10, <1>12, <2>1
<1>19. "sched" \notin Of(agenda', t)
  BY <1>12
<1> QED
  BY <1>1, <1>2, <1>5, <1>11, <1>15, <1>16, <1>17, <1>18, <1>19, OneTaskIsTouched

(* SuspendInstr::onSuspend *)
LEMMA SuspendKeeps ==
    ASSUME KernelInv, NEW t \in Tasks, OnSuspend(t)
    PROVE  KernelInv'
<1>1. Entered(Susp(t)) /\ Susp(t)[1] = "susp" /\ Susp(t) # EndDisp
  BY Entering, KindOf DEF OnSuspend, Handles
<1>2. /\ GoodAgenda(Rest, Now) /\ Now \in Nat /\ now' = Now /\ Now = now
      /\ call = None /\ Loses(Rest, agenda, <<"susp", t>>)
  BY <1>1, HandledAtOnce DEF Entered, Susp
<1>3. TaskInv(t) /\ call # t /\ None # t
  BY <1>2, Programs DEF KernelInv
<1>4. /\ state[t] = "EXEC" /\ t \in queue /\ currExe = t /\ ~IsBlocked(t)
      /\ Of(agenda, t) = {"susp"}
  <2>1. "susp" \in Of(agenda, t)
    BY <1>1 DEF Entered, Of, JobKinds, Susp
  <2> QED
    BY <1>3, <2>1 DEF TaskInv, Situation, Idle, Ready, Executing
<1>5. /\ Instr(t).op = "suspend" /\ actInstr[t] \in 1..Len(Program[t])
      /\ Instr(t).delay \in Nat
  <2>1. Instr(t).op = "suspend" /\ actInstr[t] \in 1..Len(Program[t])
    BY <1>3, <1>4, Programs DEF TaskInv, InProgram
  <2> QED
    BY <2>1, Instructions DEF Instr
<1> DEFINE q == Descheduled(Rest, t)
           at == Now + Instr(t).delay
<1>6. at \in Nat /\ at >= Now
  BY <1>2, <1>5
<1> HIDE DEF at
<1>7. /\ agenda' = Post(q, Resume(t), at) /\ urgent' \subseteq urgent
      /\ exc' = IF IsPosted(q, Resume(t)) THEN "AlreadyPosted" ELSE "none"
      /\ queue' = queue \ {t} /\ currExe' = None
      /\ UNCHANGED <<call, insertTime, state, actInstr, arrival, dl, arrQueue,
                     cost, done, lastTime, waiting, available, blocked, run,
                     phase, policy, lastSched>>
  BY <1>4 DEF OnSuspend, Handles, Enters, Comes, GoesUnlessPosted, Suspended,
              LeavesKernel, jobVars, instrVars, resVars, at
<1>8. /\ Of(Rest, t) = {}
      /\ \A f : IsPosted(Rest, f) <=> IsPosted(agenda, f) /\ f # <<"susp", t>>
      /\ \A x : x.ev # <<"susp", t>> => (x \in Entries(Rest) <=> x \in Entries(agenda))
  BY <1>2, <1>4, LosesOf
<1>9. GoodAgenda(q, Now) /\ Moves(q, Rest, Entry(<<"desched", t>>, Now, 0))
  <2>1. ~IsPosted(Rest, Sched(t))
    BY <1>8 DEF Of, JobKinds, Sched
  <2> QED
    BY <1>2, <2>1, DeschedMoves DEF Desched
<1> HIDE DEF q
<1>10. /\ Of(q, t) = {"desched"}
       /\ \A f : IsPosted(q, f) <=> IsPosted(Rest, f) \/ f = <<"desched", t>>
       /\ \A x : x.ev # <<"desched", t>> => (x \in Entries(q) <=> x \in Entries(Rest))
  <2>1. /\ Of(q, t) = Of(Rest, t) \cup (JobKinds \cap {"desched"})
        /\ \A f : IsPosted(q, f) <=> IsPosted(Rest, f) \/ f = <<"desched", t>>
        /\ \A x : x.ev # <<"desched", t>> => (x \in Entries(q) <=> x \in Entries(Rest))
    BY <1>9, GainsOf
  <2> QED
    BY <1>8, <2>1 DEF JobKinds
<1>11. /\ exc' = "none" /\ GoodAgenda(agenda', Now)
       /\ Gains(agenda', q, Entry(<<"resume", t>>, at, 8))
  <2>1. ~IsPosted(q, Resume(t))
    <3>1. "resume" \notin Of(q, t)
      BY <1>10
    <3> QED
      BY <3>1 DEF Of, JobKinds, Resume
  <2>2. /\ Resume(t) \in Events /\ Priority(Resume(t)) = 8
        /\ Timed(Entry(Resume(t), at, Priority(Resume(t))), Now)
    BY <1>2, <1>6, EventOf, PriorityOf, PostsInTime
  <2>3. /\ GoodAgenda(Post(q, Resume(t), at), Now)
        /\ Gains(Post(q, Resume(t), at), q, Entry(Resume(t), at, 8))
    BY <1>2, <1>6, <1>9, <2>1, <2>2, PostGains
  <2> QED
    BY <1>7, <2>1, <2>3 DEF Resume
<1>12. /\ Of(agenda', t) = {"desched", "resume"}
       /\ \A f : f # <<"resume", t>> => (IsPosted(agenda', f) <=> IsPosted(q, f))
       /\ \A x : x.ev # <<"resume", t>> => (x \in Entries(agenda') <=> x \in Entries(q))
  <2>1. /\ Of(agenda', t) = Of(q, t) \cup (JobKinds \cap {"resume"})
        /\ \A f : IsPosted(agenda', f) <=> IsPosted(q, f) \/ f = <<"resume", t>>
        /\ \A x : x.ev # <<"resume", t>> => (x \in Entries(agenda') <=> x \in Entries(q))
    BY <1>11, GainsOf
  <2> QED
    BY <1>10, <2>1 DEF JobKinds
<1>13. /\ \A f : f \notin EventsOf(t) \cup {Begin} =>
                    (IsPosted(agenda', f) <=> IsPosted(agenda, f))
       /\ \A x : x.ev \notin EventsOf(t) \cup {Begin} =>
                    (x \in Entries(agenda') <=> x \in Entries(agenda))
  <2>1. \A k \in {"susp", "desched", "resume"} :
           <<k, t>> \in EventsOf(t) \cup {Begin}
    BY EventsOfOthers DEF Kinds
  <2> QED
    BY <1>8, <1>10, <1>12, <2>1
<1>14. ~IsPosted(agenda', FakeArr(t)) /\ (IsBlocked(t)' <=> IsBlocked(t))
  <2>1. ~IsPosted(agenda, FakeArr(t))
    BY <1>3, <1>4, PostedEntries DEF TaskInv, BufferInTime
  <2>2. /\ FakeArr(t) # <<"susp", t>> /\ FakeArr(t) # <<"desched", t>>
        /\ FakeArr(t) # <<"resume", t>>
    BY EventParts DEF FakeArr
  <2> QED
    BY <1>7, <1>8, <1>10, <1>12, <2>1, <2>2 DEF IsBlocked
<1>15. TaskInv(t)'
  <2>1. Situation(t, Of(agenda, t))'
    BY <1>3, <1>4, <1>7, <1>12, <1>14 DEF Situation, Executing
  <2>2. EndsInTime(t)' /\ DeadInTime(t)'
    BY <1>3, <1>4, <1>7, <1>12 DEF EndsInTime, DeadInTime
  <2>3. BufferInTime(t)'
    BY <1>4, <1>7, <1>14, PostedEntries DEF BufferInTime
  <2>4. InProgram(t)'
    BY <1>2, <1>3, <1>4, <1>5, <1>7, <1>12 DEF InProgram, TaskInv, Instr
  <2> QED
    BY <2>1, <2>2, <2>3, <2>4 DEF TaskInv
<1>16. Typed'
  BY <1>2, <1>7 DEF KernelInv, Typed
<1>17. Waits'
  BY <1>7, WaitsStay DEF KernelInv
<1>18. /\ "sched" \notin Of(agenda', t)
       /\ \A u \in Tasks : u # t => /\ u \in queue' <=> u \in queue
                                    /\ currExe' = u <=> currExe = u
  BY <1>4, <1>7, <1>12, TaskAssumption
<1> QED
  BY <1>1, <1>2, <1>7, <1>11, <1>13, <1>15, <1>16, <1>17, <1>18, OneTaskIsTouched

(* SuspendInstr::onEnd *)
LEMMA ResumeKeeps ==
    ASSUME KernelInv, Sound, NEW t \in Tasks, OnResume(t)
    PROVE  KernelInv'
<1>1. Entered(Resume(t)) /\ Resume(t)[1] = "resume" /\ Resume(t) # EndDisp
  BY Entering, KindOf DEF OnResume, Handles
<1>2. /\ GoodAgenda(Rest, Now) /\ Now \in Nat /\ now' = Now /\ Now >= now
      /\ call = None /\ Loses(Rest, agenda, <<"resume", t>>)
  BY <1>1 DEF Entered, Resume
<1>3. TaskInv(t) /\ call # t /\ None # t
  BY <1>2, Programs DEF KernelInv
<1>4. /\ state[t] = "READY" /\ t \notin queue /\ currExe # t /\ ~IsBlocked(t)
      /\ Of(agenda, t) = {"resume"}
  <2>1. "resume" \in Of(agenda, t)
    BY <1>1 DEF Entered, Of, JobKinds, Resume
  <2> QED
    BY <1>3, <2>1 DEF TaskInv, Situation, Idle, Ready, Executing, OnResume
<1>5. /\ Instr(t).op = "suspend" /\ actInstr[t] \in 1..Len(Program[t])
      /\ actInstr[t] # Len(Program[t])
  <2>1. Instr(t).op = "suspend" /\ actInstr[t] \in 1..Len(Program[t])
    BY <1>3, <1>4, Programs DEF TaskInv, InProgram
  <2> QED
    BY <2>1 DEF Sound, Instr
<1> DEFINE q == Dispatching(Rest)
<1>6. /\ InstrEnds(t, q) /\ urgent' \subseteq urgent /\ InsertAll({t})
      /\ UNCHANGED <<currExe, state, arrival, dl, arrQueue,
                     cost, done, lastTime, waiting, available, blocked, run,
                     phase, policy, lastSched>>
  BY <1>4 DEF OnResume, Handles, Enters, Comes, instrVars, resVars
<1>7. GoodAgenda(q, Now) /\ Moves(q, Rest, Entry(Begin, Now, 18))
  BY <1>2, DispatchMoves
<1> HIDE DEF q
<1>8. /\ Of(Rest, t) = {}
      /\ \A f : IsPosted(Rest, f) <=> IsPosted(agenda, f) /\ f # <<"resume", t>>
      /\ \A x : x.ev # <<"resume", t>> => (x \in Entries(Rest) <=> x \in Entries(agenda))
  BY <1>2, <1>4, LosesOf
<1>9. /\ Of(q, t) = {}
      /\ \A f : f # Begin => (IsPosted(q, f) <=> IsPosted(Rest, f))
      /\ \A x : x.ev # Begin => (x \in Entries(q) <=> x \in Entries(Rest))
  <2>1. /\ \A f : f # Begin => (IsPosted(q, f) <=> IsPosted(Rest, f))
        /\ \A x : x.ev # Begin => (x \in Entries(q) <=> x \in Entries(Rest))
    BY <1>7, EntryParts DEF Moves
  <2>2. \A k \in JobKinds : <<k, t>> # Begin
    BY NotOfTask
  <2> QED
    BY <1>8, <2>1, <2>2 DEF Of
<1>10. /\ exc' = "none" /\ agenda' = q /\ call' = None
       /\ actInstr' = [actInstr EXCEPT ![t] = @ + 1]
  BY <1>2, <1>4, <1>5, <1>6, <1>7, <1>9, InstrEndsOnce
<1>11. /\ \A f : f \notin EventsOf(t) \cup {Begin} =>
                    (IsPosted(agenda', f) <=> IsPosted(agenda, f))
       /\ \A x : x.ev \notin EventsOf(t) \cup {Begin} =>
                    (x \in Entries(agenda') <=> x \in Entries(agenda))
  <2>1. <<"resume", t>> \in EventsOf(t) \cup {Begin}
    BY EventsOfOthers DEF Kinds
  <2> QED
    BY <1>8, <1>9, <1>10, <2>1
<1>12. ~IsPosted(agenda', FakeArr(t)) /\ (IsBlocked(t)' <=> IsBlocked(t))
  <2>1. ~IsPosted(agenda, FakeArr(t))
    BY <1>3, <1>4, PostedEntries DEF TaskInv, BufferInTime
  <2>2. FakeArr(t) # Begin
    BY NotOfTask
  <2> QED
    BY <1>6, <1>8, <1>9, <1>10, <2>1, <2>2 DEF IsBlocked
<1>13. /\ actInstr' \in [Tasks -> Nat] /\ actInstr'[t] = actInstr[t] + 1
       /\ \A u \in Tasks : u # t => actInstr'[u] = actInstr[u]
  <2>1. actInstr \in [Tasks -> Nat]
    BY DEF KernelInv, Typed
  <2> QED
    BY <1>10, <2>1
<1>14. /\ queue' = queue \cup {t} /\ insertTime' \in [Tasks -> Nat]
       /\ queue' \subseteq Tasks
  <2>1. insertTime \in [Tasks -> Nat] /\ queue \subseteq Tasks
    BY DEF KernelInv, Typed
  <2> QED
    BY <1>2, <1>6, <2>1 DEF InsertAll
<1>15. TaskInv(t)'
  <2>1. Situation(t, Of(agenda, t))'
    BY <1>3, <1>4, <1>6, <1>9, <1>10, <1>12, <1>14 DEF Situation, Ready
  <2>2. EndsInTime(t)' /\ DeadInTime(t)'
    BY <1>4, <1>6, <1>9, <1>10 DEF EndsInTime, DeadInTime
  <2>3. BufferInTime(t)'
    BY <1>4, <1>6, <1>12, PostedEntries DEF BufferInTime
  <2>4. InProgram(t)'
    <3>1. ~waiting'[t] /\ lastTime'[t] <= now'
      <4>1. lastTime[t] \in Nat /\ now \in Nat
        BY DEF KernelInv, Typed
      <4> QED
        BY <1>2, <1>3, <1>5, <1>6, <4>1 DEF TaskInv, InProgram
    <3>2. /\ actInstr'[t] \in 1..Len(Program[t]) + 1
          /\ actInstr'[t] # Len(Program[t]) + 1
      BY <1>5, <1>13, Programs
    <3> QED
      BY <1>9, <1>10, <3>1, <3>2 DEF InProgram
  <2> QED
    BY <2>1, <2>2, <2>3, <2>4 DEF TaskInv
<1>16. Typed'
  BY <1>2, <1>6, <1>10, <1>13, <1>14 DEF KernelInv, Typed
<1>17. Waits'
  <2>1. \A u : IsBlocked(u) => waiting'[u] = waiting[u] /\ actInstr'[u] = actInstr[u]
    BY <1>4, <1>6, <1>10 DEF KernelInv, Typed
  <2> QED
    BY <1>6, <2>1, WaitsStay DEF KernelInv
<1>18. /\ "sched" \notin Of(agenda', t)
       /\ \A u \in Tasks : u # t => /\ u \in queue' <=> u \in queue
                                    /\ actInstr'[u] = actInstr[u]
  BY <1>9, <1>10, <1>13, <1>14
<1> QED
  BY <1>1, <1>2, <1>6, <1>7, <1>10, <1>11, <1>15, <1>16, <1>17, <1>18,
     OneTaskIsTouched

-----------------------------------------------------------------------------
(* How many of those that wait are served.                                   *)

(* Demand adds up what the first ask for. *)
LEMMA Demands ==
    ASSUME NEW b, Len(b) \in Nat, \A i \in 1..Len(b) : b[i].nr \in Nat
    PROVE  /\ \A k \in 0..Len(b) : Demand(b, k) \in Nat
           /\ Demand(b, 0) = 0
           /\ \A k \in 0..Len(b) : k < Len(b) =>
                 Demand(b, k + 1) = Demand(b, k) + b[k + 1].nr
<1> DEFINE n == Len(b)
           sum == CHOOSE f : f = [j \in 0..n |->
                                     IF j = 0 THEN 0 ELSE f[j - 1] + b[j].nr]
<1>1. sum = [j \in 0..n |-> IF j = 0 THEN 0 ELSE sum[j - 1] + b[j].nr]
  <2>1. \E f : f = [j \in 0..n |-> IF j = 0 THEN 0 ELSE f[j - 1] + b[j].nr]
    BY SumExists
  <2> QED
    BY <2>1, Zenon
<1>2. \A k : Demand(b, k) = sum[k]
  BY Zenon DEF Demand
<1> HIDE DEF sum
<1>3. sum[0] = 0
  BY <1>1
<1>4. ASSUME NEW k \in 0..n, k < n PROVE sum[k + 1] = sum[k] + b[k + 1].nr
  <2>1. k + 1 \in 0..n /\ k + 1 # 0 /\ (k + 1) - 1 = k
    BY <1>4
  <2>2. sum[k + 1] = sum[(k + 1) - 1] + b[k + 1].nr
    BY <1>1, <2>1
  <2> QED
    BY <2>1, <2>2
<1>5. \A k \in 0..n : sum[k] \in Nat
  <2> DEFINE Bad == {k \in 0..n : sum[k] \notin Nat}
  <2> SUFFICES ASSUME Bad # {} PROVE FALSE
    OBVIOUS
  <2>1. PICK k \in Bad : \A m \in Bad : k <= m
    <3>1. Bad \in SUBSET Nat
      OBVIOUS
    <3> HIDE DEF Bad
    <3> QED
      BY <3>1, LeastNumber
  <2>2. k # 0
    BY <1>3, <2>1
  <2>3. k - 1 \in 0..n /\ k - 1 < n /\ (k - 1) + 1 = k /\ k - 1 \notin Bad
        /\ k \in 1..n
    BY <2>1, <2>2
  <2>4. sum[k] = sum[k - 1] + b[k].nr
    BY <1>4, <2>3
  <2> QED
    BY <2>1, <2>3, <2>4
<1> QED
  BY <1>2, <1>3, <1>4, <1>5

(* n units serve as many as they can, in order. *)
LEMMA Serving ==
    ASSUME NEW b, Len(b) \in Nat, \A i \in 1..Len(b) : b[i].nr \in Nat,
           NEW n \in Nat
    PROVE  LET k == Serves(b, n)
           IN  /\ k \in 0..Len(b) /\ Demand(b, k) \in 0..n
               /\ k < Len(b) => n - Demand(b, k) < b[k + 1].nr
<1>1. /\ \A k \in 0..Len(b) : Demand(b, k) \in Nat
      /\ Demand(b, 0) = 0
      /\ \A k \in 0..Len(b) : k < Len(b) =>
            Demand(b, k + 1) = Demand(b, k) + b[k + 1].nr
  BY Demands
<1> DEFINE S == {k \in 0..Len(b) : k < Len(b) => Demand(b, k + 1) > n}
<1>2. PICK k \in S : \A m \in S : k <= m
  <2>1. Len(b) \in S /\ S \in SUBSET Nat
    OBVIOUS
  <2> HIDE DEF S
  <2> QED
    BY <2>1, LeastNumber
<1>3. Demand(b, k) <= n
  <2>1. CASE k = 0
    BY <1>1, <2>1
  <2>2. CASE k # 0
    <3>1. k - 1 \in 0..Len(b) /\ k - 1 < Len(b) /\ (k - 1) + 1 = k /\ k - 1 \notin S
      <4>1. k \in 0..Len(b)
        BY <1>2
      <4> HIDE DEF S
      <4>2. /\ k - 1 \in 0..Len(b) /\ k - 1 < Len(b) /\ (k - 1) + 1 = k
            /\ ~(k <= k - 1)
        BY <2>2, <4>1
      <4> QED
        BY <1>2, <4>2
    <3>2. ~(Demand(b, k) > n) /\ Demand(b, k) \in Nat
      BY <1>1, <1>2, <3>1
    <3> QED
      BY <3>2
  <2> QED
    BY <2>1, <2>2
<1> DEFINE s == Serves(b, n)
<1>4. /\ s \in 0..Len(b) /\ Demand(b, s) <= n
      /\ s < Len(b) => Demand(b, s + 1) > n
  BY <1>2, <1>3 DEF Serves
<1> HIDE DEF s
<1>5. Demand(b, s) \in Nat /\ (s < Len(b) => Demand(b, s + 1) = Demand(b, s) + b[s + 1].nr)
  BY <1>1, <1>4
<1>6. s < Len(b) => n - Demand(b, s) < b[s + 1].nr
  <2> SUFFICES ASSUME s < Len(b) PROVE n - Demand(b, s) < b[s + 1].nr
    OBVIOUS
  <2>1. s + 1 \in 1..Len(b) /\ b[s + 1].nr \in Nat
    BY <1>4
  <2> QED
    BY <1>4, <1>5, <2>1
<1> QED
  BY <1>4, <1>5, <1>6 DEF s

-----------------------------------------------------------------------------
(* The next instruction of the task that executes is scheduled.              *)

LEMMA Calling ==
    ASSUME KernelInv, NEW t \in Tasks, call = t
    PROVE  /\ Now = now /\ now \in Nat /\ t # None /\ GoodAgenda(agenda, now)
           /\ state[t] = "EXEC" /\ t \in queue /\ currExe = t /\ ~IsBlocked(t)
           /\ Of(agenda, t) = {} /\ actInstr[t] \in 1..Len(Program[t])
           /\ ~IsPosted(agenda, EndDisp) /\ ~IsPosted(agenda, FakeArr(t))
           /\ \A y \in Entries(agenda) : y.at > now \/ y.prio > 0
           /\ \A u : /\ "sched" \notin Of(agenda, u)
                     /\ "desched" \notin Of(agenda, u)
                     /\ "susp" \notin Of(agenda, u)
<1>1. /\ Now = now /\ now \in Nat /\ t # None /\ GoodAgenda(agenda, now)
      /\ TaskInv(t)
  BY TaskAssumption DEF KernelInv, Typed, Now
<1>2. /\ state[t] = "EXEC" /\ t \in queue /\ currExe = t /\ ~IsBlocked(t)
      /\ Of(agenda, t) = {}
  BY <1>1 DEF TaskInv, Situation, Scheduling
<1>3. actInstr[t] \in 1..Len(Program[t])
  BY <1>1, <1>2, Programs DEF TaskInv, InProgram
<1>4. /\ ~IsPosted(agenda, EndDisp)
      /\ \A y \in Entries(agenda) : y.at > now \/ y.prio > 0
  BY <1>1 DEF KernelInv, CallGoesOn
<1>5. ~IsPosted(agenda, FakeArr(t))
  BY <1>1, <1>2, PostedEntries DEF TaskInv, BufferInTime
<1>6. ASSUME NEW u, NEW k \in {"sched", "desched", "susp"}, k \in Of(agenda, u)
      PROVE  FALSE
  <2>1. PICK y \in Entries(agenda) : y.ev = <<k, u>>
    BY <1>6, PostedEntries DEF Of
  <2>2. Timed(y, now) /\ y.ev[1] = k
    BY <1>1, <2>1, EventParts, GoodEntries
  <2> QED
    BY <1>1, <1>4, <2>1, <2>2 DEF Timed
<1> QED
  BY <1>1, <1>2, <1>3, <1>4, <1>5, <1>6

(* An instruction that concerns its own task only. *)
LEMMA OneTaskCalls ==
    ASSUME KernelInv, NEW t \in Tasks, call = t, now' = now,
           GoodAgenda(agenda', now),
           \A f : f \notin EventsOf(t) \cup {Begin} =>
                     (IsPosted(agenda', f) <=> IsPosted(agenda, f)),
           \A x : x.ev \notin EventsOf(t) \cup {Begin} =>
                     (x \in Entries(agenda') <=> x \in Entries(agenda)),
           TaskInv(t)', "sched" \notin Of(agenda', t), Typed', Waits',
           \A u \in Tasks : u # t =>
              /\ actInstr'[u] = actInstr[u] /\ waiting'[u] = waiting[u]
              /\ lastTime'[u] = lastTime[u]
              /\ currExe' = u <=> currExe = u
              /\ \/ /\ u \in queue' <=> u \in queue
                    /\ IsBlocked(u)' <=> IsBlocked(u)
                 \/ u \in queue' /\ ~IsBlocked(u)' /\ IsBlocked(u),
           exc' = "none", call' \in {t, None}, CallGoesOn',
           UNCHANGED <<state, arrQueue>>
    PROVE  KernelInv'
<1>1. now \in Nat /\ t # None /\ ~IsPosted(agenda, EndDisp)
      /\ \A u : "sched" \notin Of(agenda, u) /\ "desched" \notin Of(agenda, u)
  BY Calling
<1>2. ~IsPosted(agenda', EndDisp)
  BY <1>1, EventsOfOthers
<1>3. \A u : u # t => Of(agenda', u) = Of(agenda, u)
  BY EventsOfOthers DEF Of
<1>4. \A u : "sched" \notin Of(agenda', u)
  BY <1>1, <1>3
<1>5. ASSUME NEW u \in Tasks, u # t PROVE TaskInv(u)'
  <2>1. /\ TaskInv(u) /\ lastTime[u] \in Nat
        /\ (call' = u <=> call = u)
    BY <1>5, TaskAssumption DEF KernelInv, Typed
  <2>2. /\ Dead(u) \notin EventsOf(t) \cup {Begin}
        /\ FakeArr(u) \notin EventsOf(t) \cup {Begin}
    BY <1>5, EventsOfOthers
  <2>3. Of(agenda', u) = Of(agenda, u)
    BY <1>3, <1>5
  <2>4. \A x : x.ev \in {Dead(u), FakeArr(u)} =>
                  (x \in Entries(agenda') <=> x \in Entries(agenda))
    BY <2>2
  <2>5. CASE (u \in queue' <=> u \in queue) /\ (IsBlocked(u)' <=> IsBlocked(u))
    <3>1. Untouched(u)
      BY <1>1, <1>2, <1>5, <2>1, <2>3, <2>4, <2>5 DEF Untouched
    <3> QED
      BY <1>1, <2>1, <3>1, UntouchedStays
  <2>6. CASE u \in queue' /\ ~IsBlocked(u)' /\ IsBlocked(u)
    <3>1. /\ state[u] = "READY" /\ u \notin queue /\ currExe # u
          /\ Of(agenda, u) = {} /\ call # u
      BY <1>1, <1>5, <2>1, <2>6
         DEF TaskInv, Situation, Scheduling, Idle, Ready, Executing
    <3>2. Situation(u, Of(agenda, u))'
      BY <1>5, <2>1, <2>3, <2>6, <3>1 DEF Situation, Ready
    <3>3. EndsInTime(u)' /\ DeadInTime(u)'
      BY <2>3, <3>1 DEF EndsInTime, DeadInTime
    <3>4. BufferInTime(u)'
      BY <2>1, <2>3, <2>4, <3>1 DEF TaskInv, BufferInTime
    <3>5. InProgram(u)'
      BY <1>5, <2>1, <2>3 DEF TaskInv, InProgram, Instr
    <3> QED
      BY <3>2, <3>3, <3>4, <3>5 DEF TaskInv
  <2> QED
    BY <1>5, <2>5, <2>6
<1>6. SchedIsAlone' /\ DispatchIsAlone'
  BY <1>2, <1>4, QuietAgenda
<1> QED
  BY <1>5, <1>6 DEF KernelInv

(* ExecInstr::schedule *)
LEMMA ScheduleExecKeeps ==
    ASSUME KernelInv, NEW t \in Tasks, Schedule(t), ScheduleExec(t)
    PROVE  KernelInv'
<1>1. call = t /\ now' = now
      /\ UNCHANGED <<state, policy, lastSched, run, phase, urgent>>
  BY DEF Schedule, rrVars, runVars
<1>2. /\ Now = now /\ now \in Nat /\ t # None /\ GoodAgenda(agenda, now)
      /\ state[t] = "EXEC" /\ t \in queue /\ currExe = t /\ ~IsBlocked(t)
      /\ Of(agenda, t) = {} /\ actInstr[t] \in 1..Len(Program[t])
      /\ ~IsPosted(agenda, FakeArr(t))
  BY <1>1, Calling
<1>3. TaskInv(t) /\ Instr(t).op = "exec"
  BY DEF KernelInv, ScheduleExec
<1>4. PICK c : /\ c \in IF cost[t] = Undrawn THEN Instr(t).costs ELSE {cost[t]}
               /\ cost' = [cost EXCEPT ![t] = c]
               /\ agenda' = Post(agenda, InstrEvt(t),
                                 now + IF c > done[t] THEN c - done[t] ELSE 0)
  BY DEF ScheduleExec
<1>5. /\ exc' = IF IsPosted(agenda, InstrEvt(t)) THEN "AlreadyPosted" ELSE "none"
      /\ lastTime' = [lastTime EXCEPT ![t] = now]
      /\ call' = None
      /\ UNCHANGED <<queue, insertTime, currExe, actInstr, arrival, dl, arrQueue,
                     done, waiting, available, blocked>>
  BY DEF ScheduleExec, GoesUnlessPosted, kernelVars, jobVars, resVars
<1>6. c \in Nat /\ cost' \in [Tasks -> Nat \cup {Undrawn}] /\ done[t] \in Nat
  <2>1. cost \in [Tasks -> Nat \cup {Undrawn}] /\ done \in [Tasks -> Nat]
    BY DEF KernelInv, Typed
  <2>2. Instr(t).costs \subseteq Nat
    BY <1>2, <1>3, Instructions DEF Instr
  <2>3. c \in Nat
    BY <1>4, <2>1, <2>2
  <2> QED
    BY <1>4, <2>1, <2>3
<1>7. PICK at \in Nat : /\ at >= now
                        /\ at = now + IF c > done[t] THEN c - done[t] ELSE 0
  <2>1. (IF c > done[t] THEN c - done[t] ELSE 0) \in Nat
    BY <1>6
  <2> QED
    BY <1>2, <2>1
<1>8. /\ exc' = "none" /\ GoodAgenda(agenda', now)
      /\ Gains(agenda', agenda, Entry(<<"instr", t>>, at, 5))
  <2>1. ~IsPosted(agenda, InstrEvt(t))
    BY <1>2 DEF Of, JobKinds, InstrEvt
  <2>2. /\ InstrEvt(t) \in Events /\ Priority(InstrEvt(t)) = 5
        /\ Timed(Entry(InstrEvt(t), at, Priority(InstrEvt(t))), now)
    BY <1>2, <1>7, EventOf, PriorityOf, PostsInTime
  <2>3. /\ GoodAgenda(Post(agenda, InstrEvt(t), at), now)
        /\ Gains(Post(agenda, InstrEvt(t), at), agenda, Entry(InstrEvt(t), at, 5))
    BY <1>2, <2>1, <2>2, PostGains
  <2> QED
    BY <1>4, <1>5, <1>7, <2>1, <2>3 DEF InstrEvt
<1>9. /\ Of(agenda', t) = {"instr"}
      /\ \A f : f # <<"instr", t>> => (IsPosted(agenda', f) <=> IsPosted(agenda, f))
      /\ \A x : x.ev # <<"instr", t>> => (x \in Entries(agenda') <=> x \in Entries(agenda))
  <2>1. /\ Of(agenda', t) = Of(agenda, t) \cup (JobKinds \cap {"instr"})
        /\ \A f : IsPosted(agenda', f) <=> IsPosted(agenda, f) \/ f = <<"instr", t>>
        /\ \A x : x.ev # <<"instr", t>> => (x \in Entries(agenda') <=> x \in Entries(agenda))
    <3>1. PICK a : Gains(agenda', agenda, Entry(<<"instr", t>>, a, 5))
      BY <1>8
    <3> QED
      BY <3>1, GainsOf
  <2> QED
    BY <1>2, <2>1 DEF JobKinds
<1>10. /\ \A f : f \notin EventsOf(t) \cup {Begin} =>
                    (IsPosted(agenda', f) <=> IsPosted(agenda, f))
       /\ \A x : x.ev \notin EventsOf(t) \cup {Begin} =>
                    (x \in Entries(agenda') <=> x \in Entries(agenda))
  <2>1. <<"instr", t>> \in EventsOf(t) \cup {Begin}
    BY EventsOfOthers DEF Kinds
  <2> QED
    BY <1>9, <2>1
<1>11. \A u : IsBlocked(u)' <=> IsBlocked(u)
  BY <1>5 DEF IsBlocked
<1>12. /\ lastTime' \in [Tasks -> Nat] /\ lastTime'[t] = now
       /\ \A u \in Tasks : u # t => lastTime'[u] = lastTime[u]
  <2>1. lastTime \in [Tasks -> Nat]
    BY DEF KernelInv, Typed
  <2> QED
    BY <1>2, <1>5, <2>1
<1>13. TaskInv(t)'
  <2>1. Situation(t, Of(agenda, t))'
    BY <1>1, <1>2, <1>5, <1>9, <1>11 DEF Situation, Executing
  <2>2. EndsInTime(t)' /\ DeadInTime(t)'
    BY <1>1, <1>2, <1>5, <1>9 DEF EndsInTime, DeadInTime
  <2>3. BufferInTime(t)'
    <3>1. FakeArr(t) # <<"instr", t>>
      BY EventParts DEF FakeArr
    <3> QED
      BY <1>1, <1>2, <1>5, <1>9, <3>1, PostedEntries DEF BufferInTime
  <2>4. InProgram(t)'
    BY <1>1, <1>2, <1>3, <1>5, <1>9, <1>12, Programs DEF InProgram, TaskInv, Instr
  <2> QED
    BY <2>1, <2>2, <2>3, <2>4 DEF TaskInv
<1>14. Typed'
  BY <1>1, <1>2, <1>5, <1>6, <1>12 DEF KernelInv, Typed
<1>15. Waits'
  BY <1>5, WaitsStay DEF KernelInv
<1>16. CallGoesOn' /\ "sched" \notin Of(agenda', t)
  BY <1>5, <1>9 DEF CallGoesOn
<1> QED
  BY <1>1, <1>5, <1>8, <1>10, <1>11, <1>12, <1>13, <1>14, <1>15, <1>16, OneTaskCalls

(* SuspendInstr::schedule *)
LEMMA ScheduleSuspendKeeps ==
    ASSUME KernelInv, NEW t \in Tasks, Schedule(t), ScheduleSuspend(t)
    PROVE  KernelInv'
<1>1. call = t /\ now' = now
      /\ UNCHANGED <<state, policy, lastSched, run, phase, urgent>>
  BY DEF Schedule, rrVars, runVars
<1>2. /\ Now = now /\ now \in Nat /\ t # None /\ GoodAgenda(agenda, now)
      /\ state[t] = "EXEC" /\ t \in queue /\ currExe = t /\ ~IsBlocked(t)
      /\ Of(agenda, t) = {} /\ actInstr[t] \in 1..Len(Program[t])
      /\ ~IsPosted(agenda, FakeArr(t))
  BY <1>1, Calling
<1>3. TaskInv(t) /\ Instr(t).op = "suspend" /\ exc = "none"
  BY DEF KernelInv, Schedule, ScheduleSuspend
<1>4. /\ agenda' = Process(agenda, Susp(t))
      /\ call' = None
      /\ UNCHANGED <<exc, queue, insertTime, currExe, actInstr, arrival, dl,
                     arrQueue, cost, done, lastTime, waiting, available, blocked>>
  BY DEF ScheduleSuspend, kernelVars, jobVars, instrVars, resVars
<1>5. /\ GoodAgenda(agenda', now)
      /\ Moves(agenda', agenda, Entry(<<"susp", t>>, now, 0))
  <2>1. Susp(t) \in Events /\ Timed(Entry(Susp(t), now, 0), now)
    BY <1>2, EventOf, PostsInTime
  <2> QED
    BY <1>2, <1>4, <2>1, ProcessMoves DEF Susp
<1>6. /\ Of(agenda', t) = {"susp"}
      /\ \A f : f # <<"susp", t>> => (IsPosted(agenda', f) <=> IsPosted(agenda, f))
      /\ \A x : x.ev # <<"susp", t>> => (x \in Entries(agenda') <=> x \in Entries(agenda))
  <2>1. /\ Of(agenda', t) = Of(agenda, t) \cup (JobKinds \cap {"susp"})
        /\ \A f : IsPosted(agenda', f) <=> IsPosted(agenda, f) \/ f = <<"susp", t>>
        /\ \A x : x.ev # <<"susp", t>> => (x \in Entries(agenda') <=> x \in Entries(agenda))
    BY <1>5, GainsOf
  <2> QED
    BY <1>2, <2>1 DEF JobKinds
<1>7. /\ \A f : f \notin EventsOf(t) \cup {Begin} =>
                   (IsPosted(agenda', f) <=> IsPosted(agenda, f))
      /\ \A x : x.ev \notin EventsOf(t) \cup {Begin} =>
                   (x \in Entries(agenda') <=> x \in Entries(agenda))
  <2>1. <<"susp", t>> \in EventsOf(t) \cup {Begin}
    BY EventsOfOthers DEF Kinds
  <2> QED
    BY <1>6, <2>1
<1>8. \A u : IsBlocked(u)' <=> IsBlocked(u)
  BY <1>4 DEF IsBlocked
<1>9. TaskInv(t)'
  <2>1. Situation(t, Of(agenda, t))'
    BY <1>1, <1>2, <1>4, <1>6, <1>8 DEF Situation, Executing
  <2>2. EndsInTime(t)' /\ DeadInTime(t)'
    BY <1>1, <1>2, <1>4, <1>6 DEF EndsInTime, DeadInTime
  <2>3. BufferInTime(t)'
    <3>1. FakeArr(t) # <<"susp", t>>
      BY EventParts DEF FakeArr
    <3> QED
      BY <1>1, <1>2, <1>4, <1>6, <3>1, PostedEntries DEF BufferInTime
  <2>4. InProgram(t)'
    BY <1>1, <1>2, <1>3, <1>4, <1>6, Programs DEF InProgram, TaskInv, Instr
  <2> QED
    BY <2>1, <2>2, <2>3, <2>4 DEF TaskInv
<1>10. Typed'
  BY <1>1, <1>2, <1>4 DEF KernelInv, Typed
<1>11. Waits'
  BY <1>4, WaitsStay DEF KernelInv
<1>12. CallGoesOn' /\ "sched" \notin Of(agenda', t) /\ exc' = "none"
  BY <1>3, <1>4, <1>6 DEF CallGoesOn
<1> QED
  BY <1>1, <1>4, <1>5, <1>7, <1>8, <1>9, <1>10, <1>11, <1>12, OneTaskCalls

(* A gain, when only the event matters. *)
LEMMA GainOf ==
    ASSUME NEW p, NEW q, NEW y, NEW k, NEW t, y.ev = <<k, t>>, Gains(p, q, y)
    PROVE  /\ Of(p, t) = Of(q, t) \cup (JobKinds \cap {k})
           /\ \A f : IsPosted(p, f) <=> IsPosted(q, f) \/ f = <<k, t>>
           /\ \A x : x.ev # <<k, t>> => (x \in Entries(p) <=> x \in Entries(q))
           /\ \A x \in Entries(p) : x \in Entries(q) \/ x = y
<1>1. /\ \A f : IsPosted(p, f) <=> IsPosted(q, f) \/ f = <<k, t>>
      /\ Of(p, t) = Of(q, t) \cup {l \in JobKinds : <<l, t>> = <<k, t>>}
      /\ Entries(p) = Entries(q) \cup {y}
  BY DEF Gains
<1>2. {l \in JobKinds : <<l, t>> = <<k, t>>} = JobKinds \cap {k}
  BY EventParts
<1> QED
  BY <1>1, <1>2

(* An instruction that takes no time ends: the next one is scheduled, or the *)
(* job comes to its end.                                                     *)
LEMMA CallEnds ==
    ASSUME KernelInv, NEW t \in Tasks, call = t, now' = now,
           NEW q, GoodAgenda(q, now),
           \A f : f # Begin => (IsPosted(q, f) <=> IsPosted(agenda, f)),
           \A x : x.ev # Begin => (x \in Entries(q) <=> x \in Entries(agenda)),
           InstrEnds(t, q), ~waiting'[t], t \in queue', ~IsBlocked(t)',
           UNCHANGED <<state, arrQueue, lastTime, currExe>>
    PROVE  /\ exc' = "none" /\ GoodAgenda(agenda', now)
           /\ \A f : f \notin EventsOf(t) \cup {Begin} =>
                        (IsPosted(agenda', f) <=> IsPosted(agenda, f))
           /\ \A x : x.ev \notin EventsOf(t) \cup {Begin} =>
                        (x \in Entries(agenda') <=> x \in Entries(agenda))
           /\ TaskInv(t)' /\ CallGoesOn' /\ call' \in {t, None}
           /\ "sched" \notin Of(agenda', t)
           /\ actInstr' \in [Tasks -> Nat]
           /\ \A u \in Tasks : u # t => actInstr'[u] = actInstr[u]
<1>1. /\ Now = now /\ now \in Nat /\ t # None
      /\ state[t] = "EXEC" /\ currExe = t
      /\ Of(agenda, t) = {} /\ actInstr[t] \in 1..Len(Program[t])
      /\ ~IsPosted(agenda, FakeArr(t)) /\ ~IsPosted(agenda, EndDisp)
      /\ \A y \in Entries(agenda) : y.at > now \/ y.prio > 0
      /\ TaskInv(t) /\ Len(Program[t]) \in Nat
  BY Calling, Programs DEF KernelInv
<1>2. Of(q, t) = {}
  BY <1>1, NotOfTask DEF Of
<1> DEFINE last == actInstr[t] = Len(Program[t])
<1>3. /\ exc' = "none" /\ GoodAgenda(agenda', now)
      /\ actInstr' = [actInstr EXCEPT ![t] = @ + 1]
      /\ \/ last /\ call' = None /\ Gains(agenda', q, Entry(<<"end", t>>, now, 6))
         \/ ~last /\ agenda' = q /\ call' = t
  <2>1. "end" \notin Of(q, t)
    BY <1>2
  <2> QED
    BY <1>1, <2>1, InstrEndsOnce DEF EndEvt
<1>4. /\ Of(agenda', t) = IF last THEN {"end"} ELSE {}
      /\ \A f : f # <<"end", t>> => (IsPosted(agenda', f) <=> IsPosted(q, f))
      /\ \A x : x.ev # <<"end", t>> => (x \in Entries(agenda') <=> x \in Entries(q))
      /\ \A x \in Entries(agenda') : x \in Entries(q) \/ x.prio = 6
  <2>1. CASE last
    <3>1. Gains(agenda', q, Entry(<<"end", t>>, now, 6))
      BY <1>3, <2>1
    <3>2. PICK y : Gains(agenda', q, y) /\ y.ev = <<"end", t>> /\ y.prio = 6
      BY <3>1, EntryParts
    <3>3. /\ Of(agenda', t) = Of(q, t) \cup (JobKinds \cap {"end"})
          /\ \A f : IsPosted(agenda', f) <=> IsPosted(q, f) \/ f = <<"end", t>>
          /\ \A x : x.ev # <<"end", t>> => (x \in Entries(agenda') <=> x \in Entries(q))
          /\ \A x \in Entries(agenda') : x \in Entries(q) \/ x = y
      BY <3>2, GainOf
    <3> HIDE DEF last
    <3> QED
      BY <1>2, <2>1, <3>2, <3>3 DEF JobKinds
  <2>2. CASE ~last
    <3> HIDE DEF last
    <3> QED
      BY <1>2, <1>3, <2>2
  <2> QED
    BY <2>1, <2>2
<1>5. /\ \A f : f \notin {<<"end", t>>, Begin} =>
                    (IsPosted(agenda', f) <=> IsPosted(agenda, f))
      /\ \A x : x.ev \notin {<<"end", t>>, Begin} =>
                    (x \in Entries(agenda') <=> x \in Entries(agenda))
      /\ Dead(t) \notin {<<"end", t>>, Begin} /\ FakeArr(t) \notin {<<"end", t>>, Begin}
  <2>1. Dead(t) \notin {<<"end", t>>, Begin} /\ FakeArr(t) \notin {<<"end", t>>, Begin}
    BY NotOfTask, EventParts DEF Dead, FakeArr
  <2> QED
    BY <1>4, <2>1
<1>6. /\ actInstr' \in [Tasks -> Nat] /\ actInstr'[t] = actInstr[t] + 1
      /\ \A u \in Tasks : u # t => actInstr'[u] = actInstr[u]
  <2>1. actInstr \in [Tasks -> Nat]
    BY DEF KernelInv, Typed
  <2>2. actInstr' = [actInstr EXCEPT ![t] = @ + 1]
    BY <1>3
  <2> QED
    BY <2>1, <2>2
<1>7. TaskInv(t)'
  <2>1. Situation(t, Of(agenda, t))'
    <3> HIDE DEF last
    <3> QED
      BY <1>1, <1>3, <1>4 DEF Situation, Scheduling, Executing
  <2>2. EndsInTime(t)'
    BY <1>1, <1>5 DEF EndsInTime
  <2>3. DeadInTime(t)' /\ BufferInTime(t)'
    <3> HIDE DEF last
    <3>1. "kill" \notin Of(agenda', t) /\ ~IsPosted(agenda', FakeArr(t))
      BY <1>1, <1>4, <1>5
    <3> QED
      BY <1>1, <3>1, PostedEntries DEF DeadInTime, BufferInTime
  <2>4. InProgram(t)'
    <3>1. lastTime'[t] <= now'
      BY <1>1 DEF TaskInv, InProgram
    <3>2. /\ actInstr'[t] \in 1..Len(Program[t]) + 1
          /\ actInstr'[t] = Len(Program[t]) + 1 <=> last
      BY <1>1, <1>6
    <3> HIDE DEF last
    <3>3. /\ "end" \in Of(agenda', t) <=> last
          /\ "susp" \notin Of(agenda', t) /\ "resume" \notin Of(agenda', t)
          /\ "instr" \notin Of(agenda', t)
      BY <1>4
    <3> QED
      BY <3>1, <3>2, <3>3 DEF InProgram
  <2> QED
    BY <2>1, <2>2, <2>3, <2>4 DEF TaskInv
<1>8. CallGoesOn'
  <2> SUFFICES ASSUME call' # None
               PROVE  /\ ~IsPosted(agenda', EndDisp)
                      /\ \A y \in Entries(agenda') : y.at > now \/ y.prio > 0
    BY DEF CallGoesOn
  <2>1. ~IsPosted(agenda', EndDisp)
    <3>1. EndDisp \notin {<<"end", t>>, Begin}
      BY KindOf, EventParts
    <3> QED
      BY <1>1, <1>5, <3>1
  <2>2. ASSUME NEW y \in Entries(agenda') PROVE y.at > now \/ y.prio > 0
    <3>1. CASE y.ev \notin {<<"end", t>>, Begin}
      BY <1>1, <1>5, <2>2, <3>1
    <3>2. CASE y.ev \in {<<"end", t>>, Begin}
      <4>1. Timed(y, now) /\ y.ev[1] \in {"end", "beginDispatch"}
        BY <1>3, <2>2, <3>2, GoodEntries, EventParts, KindOf
      <4> QED
        BY <4>1 DEF Timed
    <3> QED
      BY <3>1, <3>2
  <2> QED
    BY <2>1, <2>2
<1>9. {<<"end", t>>, Begin} \subseteq EventsOf(t) \cup {Begin}
  <2>1. "end" \in Kinds
    BY DEF Kinds
  <2>2. <<"end", t>> \in EventsOf(t) \cup {Begin}
    BY <2>1, EventsOfOthers
  <2> QED
    BY <2>2
<1>10. "sched" \notin Of(agenda', t) /\ call' \in {t, None}
  <2> HIDE DEF last
  <2> QED
    BY <1>3, <1>4
<1> QED
  BY <1>3, <1>5, <1>6, <1>7, <1>8, <1>9, <1>10

(* WaitInstr::schedule, when the units were or are granted. *)
LEMMA GrantKeeps ==
    ASSUME KernelInv, NEW t \in Tasks, Schedule(t), Instr(t).op = "wait",
           InstrEnds(t, agenda), waiting' \in [Tasks -> BOOLEAN], ~waiting'[t],
           \A u \in Tasks : u # t => waiting'[u] = waiting[u],
           available' \in [Resources -> Nat],
           UNCHANGED <<queue, insertTime, currExe, blocked, arrival, dl, arrQueue,
                       cost, done, lastTime>>
    PROVE  KernelInv'
<1>1. call = t /\ now' = now
      /\ UNCHANGED <<state, policy, lastSched, run, phase, urgent>>
  BY DEF Schedule, rrVars, runVars
<1>2. /\ t \in queue /\ ~IsBlocked(t) /\ GoodAgenda(agenda, now)
  BY <1>1, Calling
<1>3. \A u : IsBlocked(u)' <=> IsBlocked(u)
  BY DEF IsBlocked
<1>4. /\ exc' = "none" /\ GoodAgenda(agenda', now)
      /\ \A f : f \notin EventsOf(t) \cup {Begin} =>
                   (IsPosted(agenda', f) <=> IsPosted(agenda, f))
      /\ \A x : x.ev \notin EventsOf(t) \cup {Begin} =>
                   (x \in Entries(agenda') <=> x \in Entries(agenda))
      /\ TaskInv(t)' /\ CallGoesOn' /\ call' \in {t, None}
      /\ "sched" \notin Of(agenda', t)
      /\ actInstr' \in [Tasks -> Nat]
      /\ \A u \in Tasks : u # t => actInstr'[u] = actInstr[u]
  <2>1. t \in queue' /\ ~IsBlocked(t)'
    BY <1>2, <1>3
  <2> QED
    BY <1>1, <1>2, <2>1, CallEnds
<1>5. Typed'
  BY <1>1, <1>4 DEF KernelInv, Typed
<1>6. Waits'
  <2>1. ASSUME NEW r \in Resources, NEW i \in DOMAIN blocked[r]
        PROVE  blocked[r][i].task \in Tasks /\ blocked[r][i].task # t
    BY <1>2, Waiting DEF IsBlocked, KernelInv
  <2>2. Waits
    BY DEF KernelInv
  <2>3. ASSUME NEW r \in Resources, NEW i \in DOMAIN blocked[r]
        PROVE  LET u == blocked[r][i].task
               IN  actInstr'[u] = actInstr[u] /\ waiting'[u] = waiting[u]
    BY <1>4, <2>1
  <2> QED
    BY <2>2, <2>3, WaitsGoOn
<1> QED
  BY <1>1, <1>3, <1>4, <1>5, <1>6, OneTaskCalls

(* Those who wait, one by one. *)
WaitsFor(u, r) ==
    waiting[u] /\ Program[u][actInstr[u]].op = "wait"
    /\ Program[u][actInstr[u]].res = r

WaitsOneByOne ==
    /\ \A r \in Resources : \A i \in DOMAIN blocked[r] : \A u :
          blocked[r][i].task = u => WaitsFor(u, r)
    /\ \A r \in Resources : \A i, j \in DOMAIN blocked[r] : \A u :
          blocked[r][i].task = u /\ blocked[r][j].task = u => i = j

LEMMA Waiters ==
    Waits <=> WaitsOneByOne
<1>1. ASSUME NEW r, NEW i, NEW u, blocked[r][i].task = u
      PROVE  WaitsFor(u, r) <=> LET t == blocked[r][i].task
                                IN  waiting[t] /\ Instr(t).op = "wait" /\ Instr(t).res = r
  BY <1>1 DEF Instr, WaitsFor
<1>2. (\A r \in Resources : \A i, j \in DOMAIN blocked[r] :
          blocked[r][i].task = blocked[r][j].task => i = j)
      <=> (\A r \in Resources : \A i, j \in DOMAIN blocked[r] : \A u :
              blocked[r][i].task = u /\ blocked[r][j].task = u => i = j)
  OBVIOUS
<1>3. (\A r \in Resources : \A i \in DOMAIN blocked[r] :
          LET t == blocked[r][i].task
          IN  waiting[t] /\ Instr(t).op = "wait" /\ Instr(t).res = r)
      <=> (\A r \in Resources : \A i \in DOMAIN blocked[r] : \A u :
              blocked[r][i].task = u => WaitsFor(u, r))
  BY <1>1
<1> QED
  BY <1>2, <1>3 DEF Waits, WaitsOneByOne

(* WaitInstr::schedule, when the task has to wait. *)
LEMMA BlockKeeps ==
    ASSUME KernelInv, NEW t \in Tasks, Schedule(t), Instr(t).op = "wait",
           LeavesKernel(t),
           blocked' = [blocked EXCEPT ![Instr(t).res] =
                          Append(@, [task |-> t, nr |-> Instr(t).nr])],
           agenda' = Dispatching(Suspended(agenda, t)),
           waiting' = [waiting EXCEPT ![t] = TRUE], call' = None,
           UNCHANGED <<exc, actInstr, available, arrival, dl, arrQueue, cost,
                       done, lastTime>>
    PROVE  KernelInv'
<1>1. call = t /\ now' = now
      /\ UNCHANGED <<state, policy, lastSched, run, phase, urgent>>
  BY DEF Schedule, rrVars, runVars
<1>2. /\ Now = now /\ now \in Nat /\ t # None /\ GoodAgenda(agenda, now)
      /\ state[t] = "EXEC" /\ t \in queue /\ currExe = t /\ ~IsBlocked(t)
      /\ Of(agenda, t) = {} /\ actInstr[t] \in 1..Len(Program[t])
      /\ ~IsPosted(agenda, FakeArr(t))
  BY <1>1, Calling
<1>3. /\ TaskInv(t) /\ exc' = "none"
      /\ queue' = queue \ {t} /\ currExe' = None /\ insertTime' = insertTime
  BY <1>2 DEF KernelInv, Schedule, LeavesKernel
<1>4. PICK r \in Resources : r = Instr(t).res
  BY <1>2, Instructions DEF Instr
<1>5. Instr(t).nr \in Nat
  BY <1>2, Instructions DEF Instr
<1> DEFINE w == [task |-> t, nr |-> Instr(t).nr]
           W == [task : Tasks, nr : Nat]
<1>6. w \in W /\ w.task = t
  BY <1>5
<1> HIDE DEF w
<1>7. /\ blocked \in [Resources -> Seq(W)] /\ blocked[r] \in Seq(W)
      /\ blocked' = [blocked EXCEPT ![r] = Append(@, w)]
  BY <1>4 DEF KernelInv, Typed, w
<1> HIDE DEF W
<1>8. /\ Append(blocked[r], w) \in Seq(W)
      /\ Len(blocked[r]) \in Nat /\ DOMAIN blocked[r] = 1..Len(blocked[r])
      /\ DOMAIN Append(blocked[r], w) = 1..Len(blocked[r]) + 1
      /\ Append(blocked[r], w)[Len(blocked[r]) + 1] = w
      /\ \A i \in 1..Len(blocked[r]) : Append(blocked[r], w)[i] = blocked[r][i]
  BY <1>6, <1>7
<1>9. /\ blocked' \in [Resources -> Seq(W)]
      /\ blocked'[r] = Append(blocked[r], w)
      /\ \A s \in Resources : s # r => blocked'[s] = blocked[s]
  BY <1>7, <1>8
<1>10. /\ \A s \in Resources : \A i \in DOMAIN blocked'[s] :
             \/ i \in DOMAIN blocked[s] /\ blocked'[s][i] = blocked[s][i]
             \/ s = r /\ i = Len(blocked[r]) + 1 /\ blocked'[s][i] = w
       /\ \A s \in Resources : \A i \in DOMAIN blocked[s] :
             i \in DOMAIN blocked'[s] /\ blocked'[s][i] = blocked[s][i]
       /\ Len(blocked[r]) + 1 \in DOMAIN blocked'[r]
       /\ blocked'[r][Len(blocked[r]) + 1] = w
  <2>1. ASSUME NEW i \in 1..Len(blocked[r]) + 1
        PROVE  i \in 1..Len(blocked[r]) \/ i = Len(blocked[r]) + 1
    BY <1>8
  <2>2. \A i \in 1..Len(blocked[r]) : i \in 1..Len(blocked[r]) + 1
    BY <1>8
  <2>3. Len(blocked[r]) + 1 \in 1..Len(blocked[r]) + 1
    BY <1>8
  <2> QED
    BY <1>8, <1>9, <2>1, <2>2, <2>3
<1>11. \A u : IsBlocked(u)' <=> IsBlocked(u) \/ u = t
  BY <1>6, <1>10 DEF IsBlocked
<1> DEFINE q == Descheduled(agenda, t)
<1>12. agenda' = Dispatching(q)
  BY <1>2 DEF Suspended
<1>13. GoodAgenda(q, now) /\ Moves(q, agenda, Entry(<<"desched", t>>, now, 0))
  <2>1. ~IsPosted(agenda, Sched(t))
    BY <1>2 DEF Of, JobKinds, Sched
  <2> QED
    BY <1>2, <2>1, DeschedMoves DEF Desched
<1> HIDE DEF q
<1>14. /\ Of(q, t) = {"desched"}
       /\ \A f : f # <<"desched", t>> => (IsPosted(q, f) <=> IsPosted(agenda, f))
       /\ \A x : x.ev # <<"desched", t>> => (x \in Entries(q) <=> x \in Entries(agenda))
  <2>1. /\ \A f : f # <<"desched", t>> => (IsPosted(q, f) <=> IsPosted(agenda, f))
        /\ \A x : x.ev # <<"desched", t>> => (x \in Entries(q) <=> x \in Entries(agenda))
        /\ IsPosted(q, <<"desched", t>>)
    BY <1>13, EntryParts DEF Moves
  <2>2. \A k \in JobKinds : k # "desched" => <<k, t>> # <<"desched", t>>
    BY EventParts
  <2> QED
    BY <1>2, <2>1, <2>2 DEF Of, JobKinds
<1>15. GoodAgenda(agenda', now) /\ Moves(agenda', q, Entry(Begin, now, 18))
  BY <1>2, <1>12, <1>13, DispatchMoves
<1>16. /\ Of(agenda', t) = {"desched"}
       /\ \A f : f # Begin => (IsPosted(agenda', f) <=> IsPosted(q, f))
       /\ \A x : x.ev # Begin => (x \in Entries(agenda') <=> x \in Entries(q))
  <2>1. /\ \A f : f # Begin => (IsPosted(agenda', f) <=> IsPosted(q, f))
        /\ \A x : x.ev # Begin => (x \in Entries(agenda') <=> x \in Entries(q))
    BY <1>15, EntryParts DEF Moves
  <2>2. \A k \in JobKinds : <<k, t>> # Begin
    BY NotOfTask
  <2> QED
    BY <1>14, <2>1, <2>2 DEF Of
<1>17. /\ \A f : f \notin EventsOf(t) \cup {Begin} =>
                    (IsPosted(agenda', f) <=> IsPosted(agenda, f))
       /\ \A x : x.ev \notin EventsOf(t) \cup {Begin} =>
                    (x \in Entries(agenda') <=> x \in Entries(agenda))
  <2>1. "desched" \in Kinds
    BY DEF Kinds
  <2>2. <<"desched", t>> \in EventsOf(t) \cup {Begin}
    BY <2>1, EventsOfOthers
  <2> QED
    BY <1>14, <1>16, <2>2
<1>18. /\ waiting' \in [Tasks -> BOOLEAN] /\ waiting'[t]
       /\ \A u \in Tasks : u # t => waiting'[u] = waiting[u]
  <2>1. waiting \in [Tasks -> BOOLEAN]
    BY DEF KernelInv, Typed
  <2> QED
    BY <2>1
<1>19. TaskInv(t)'
  <2>1. Situation(t, Of(agenda, t))'
    BY <1>1, <1>2, <1>3, <1>11, <1>16 DEF Situation, Executing
  <2>2. EndsInTime(t)' /\ DeadInTime(t)'
    BY <1>1, <1>2, <1>16 DEF EndsInTime, DeadInTime
  <2>3. BufferInTime(t)'
    <3>1. FakeArr(t) # <<"desched", t>> /\ FakeArr(t) # Begin
      BY EventParts, NotOfTask DEF FakeArr
    <3> QED
      BY <1>1, <1>2, <1>14, <1>16, <3>1, PostedEntries DEF BufferInTime
  <2>4. InProgram(t)'
    BY <1>1, <1>2, <1>3, <1>16, Programs DEF InProgram, TaskInv, Instr
  <2> QED
    BY <2>1, <2>2, <2>3, <2>4 DEF TaskInv
<1>20. Typed'
  <2>1. queue' \subseteq Tasks /\ currExe' \in Tasks \cup {None}
    BY <1>3 DEF KernelInv, Typed
  <2>2. Typed
    BY DEF KernelInv
  <2> QED
    BY <1>1, <1>3, <1>9, <1>18, <2>1, <2>2 DEF Typed, W
<1>21. Waits'
  <2>1. ASSUME NEW s \in Resources, NEW i \in DOMAIN blocked[s]
        PROVE  /\ blocked[s][i].task \in Tasks /\ blocked[s][i].task # t
    BY <1>2, Waiting DEF IsBlocked, KernelInv
  <2>2. WaitsOneByOne
    BY Waiters DEF KernelInv
  <2>3. ASSUME NEW s \in Resources, NEW i \in DOMAIN blocked'[s],
               NEW u, blocked'[s][i].task = u
        PROVE  WaitsFor(u, s)'
    <3>1. CASE i \in DOMAIN blocked[s] /\ blocked'[s][i] = blocked[s][i]
      <4>1. blocked[s][i].task = u /\ u \in Tasks /\ u # t
        BY <2>1, <2>3, <3>1
      <4>2. WaitsFor(u, s)
        BY <2>2, <3>1, <4>1 DEF WaitsOneByOne
      <4> QED
        BY <1>18, <4>1, <4>2 DEF WaitsFor
    <3>2. CASE s = r /\ blocked'[s][i] = w
      <4>1. u = t
        BY <1>6, <2>3, <3>2
      <4> QED
        BY <1>4, <1>18, <3>2, <4>1 DEF Instr, WaitsFor
    <3> QED
      BY <1>10, <3>1, <3>2
  <2>4. ASSUME NEW s \in Resources, NEW i \in DOMAIN blocked'[s],
               NEW j \in DOMAIN blocked'[s], NEW u,
               blocked'[s][i].task = u, blocked'[s][j].task = u
        PROVE  i = j
    BY <1>6, <1>10, <2>1, <2>2, <2>4 DEF WaitsOneByOne
  <2>5. WaitsOneByOne'
    BY <2>3, <2>4, SMTT(60) DEF WaitsOneByOne
  <2> QED
    BY <2>5, Waiters, PTL
<1>22. /\ CallGoesOn' /\ "sched" \notin Of(agenda', t)
       /\ \A u \in Tasks : u # t => /\ u \in queue' <=> u \in queue
                                    /\ currExe' = u <=> currExe = u
                                    /\ IsBlocked(u)' <=> IsBlocked(u)
  BY <1>2, <1>3, <1>11, <1>16, TaskAssumption DEF CallGoesOn
<1> QED
  BY <1>1, <1>3, <1>15, <1>17, <1>18, <1>19, <1>20, <1>21, <1>22, OneTaskCalls

(* WaitInstr::schedule *)
LEMMA ScheduleWaitKeeps ==
    ASSUME KernelInv, NEW t \in Tasks, Schedule(t), ScheduleWait(t)
    PROVE  KernelInv'
<1> DEFINE I == Instr(t)
<1>1. /\ I.op = "wait"
      /\ UNCHANGED <<arrival, dl, arrQueue, cost, done, lastTime>>
  BY DEF ScheduleWait
<1>2. waiting \in [Tasks -> BOOLEAN] /\ available \in [Resources -> Nat]
  BY DEF KernelInv, Typed
<1>3. CASE /\ waiting' = [waiting EXCEPT ![t] = FALSE]
           /\ InstrEnds(t, agenda)
           /\ UNCHANGED <<kernelVars, resVars>>
  <2>1. /\ waiting' \in [Tasks -> BOOLEAN] /\ ~waiting'[t]
        /\ \A u \in Tasks : u # t => waiting'[u] = waiting[u]
    BY <1>2, <1>3
  <2>2. /\ UNCHANGED <<queue, insertTime, currExe, blocked>>
        /\ available' \in [Resources -> Nat]
    BY <1>2, <1>3 DEF kernelVars, resVars
  <2> QED
    BY <1>1, <1>3, <2>1, <2>2, GrantKeeps
<1>4. CASE /\ ~waiting[t] /\ Grantable(I)
           /\ available' = [available EXCEPT ![I.res] = @ - I.nr]
           /\ InstrEnds(t, agenda)
           /\ UNCHANGED <<kernelVars, waiting, blocked>>
  <2>1. call = t
    BY DEF Schedule
  <2>2. I.res \in Resources /\ I.nr \in Nat /\ available[I.res] >= I.nr
    <3>1. actInstr[t] \in 1..Len(Program[t])
      BY <2>1, Calling
    <3> QED
      BY <1>1, <1>4, <3>1, Instructions DEF Instr, Grantable, EnoughUnits
  <2> HIDE DEF I
  <2>3. available' \in [Resources -> Nat]
    <3>1. available[I.res] - I.nr \in Nat
      BY <1>2, <2>2
    <3> QED
      BY <1>2, <1>4, <2>2, <3>1
  <2>4. UNCHANGED <<queue, insertTime, currExe, blocked>>
    BY <1>4 DEF kernelVars
  <2>5. waiting' \in [Tasks -> BOOLEAN] /\ ~waiting'[t] /\ waiting' = waiting
    BY <1>2, <1>4
  <2> QED
    BY <1>1, <1>4, <2>3, <2>4, <2>5, GrantKeeps DEF I
<1>5. CASE /\ LeavesKernel(t)
           /\ blocked' = [blocked EXCEPT ![I.res] = Append(@, [task |-> t,
                                                               nr |-> I.nr])]
           /\ agenda' = Dispatching(Suspended(agenda, t))
           /\ waiting' = [waiting EXCEPT ![t] = TRUE]
           /\ call' = None
           /\ UNCHANGED <<exc, actInstr, available>>
  BY <1>1, <1>5, BlockKeeps
<1> QED
  BY <1>3, <1>4, <1>5 DEF ScheduleWait

(* FCFSResManager::release: the first k of those who wait are served. *)
LEMMA Releases ==
    ASSUME Typed, Now \in Nat, NEW r \in Resources, NEW n \in Nat, Release(r, n)
    PROVE  \E k \in 0..Len(blocked[r]) :
              /\ blocked' \in [Resources -> Seq([task : Tasks, nr : Nat])]
              /\ DOMAIN blocked'[r] = 1..Len(blocked[r]) - k
              /\ \A i \in DOMAIN blocked'[r] : /\ i + k \in DOMAIN blocked[r]
                                               /\ blocked'[r][i] = blocked[r][i + k]
              /\ \A s \in Resources : s # r => /\ blocked'[s] = blocked[s]
                                               /\ available'[s] = available[s]
              /\ available' \in [Resources -> Nat]
              /\ available'[r] = available[r] + n - Demand(blocked[r], k)
              /\ k < Len(blocked[r]) => available'[r] < blocked[r][k + 1].nr
              /\ queue' = queue \cup {blocked[r][i].task : i \in 1..k}
              /\ insertTime' \in [Tasks -> Nat]
<1> DEFINE b == blocked[r]
           W == [task : Tasks, nr : Nat]
           m == available[r] + n
           k == Serves(b, m)
           S == {b[i].task : i \in 1..k}
           rest == SubSeq(b, k + 1, Len(b))
<1>1. /\ b \in Seq(W) /\ Len(b) \in Nat /\ DOMAIN b = 1..Len(b)
      /\ \A i \in 1..Len(b) : b[i].nr \in Nat
  BY Waiting
<1>2. /\ blocked \in [Resources -> Seq(W)] /\ available \in [Resources -> Nat]
      /\ insertTime \in [Tasks -> Nat]
  BY DEF Typed
<1>3. /\ blocked' = [blocked EXCEPT ![r] = rest]
      /\ available' = [available EXCEPT ![r] = @ + n - Demand(b, k)]
      /\ queue' = queue \cup S
      /\ insertTime' = [t \in Tasks |-> IF t \in S THEN Now ELSE insertTime[t]]
  BY <1>2 DEF Release, ReleaseTo, InsertAll
<1>4. m \in Nat /\ available[r] \in Nat
  BY <1>2
<1> HIDE DEF m
<1>5. /\ k \in 0..Len(b) /\ Demand(b, k) \in 0..m
      /\ k < Len(b) => m - Demand(b, k) < b[k + 1].nr
  BY <1>1, <1>4, Serving
<1> HIDE DEF k, b
<1> HIDE DEF W
<1>6. /\ rest \in Seq(W) /\ Len(rest) = Len(b) - k
      /\ \A i \in 1..Len(b) - k : rest[i] = b[i + k]
  <2>1. k + 1 \in 1..Len(b) + 1
    BY <1>1, <1>5
  <2>2. k + 1 <= Len(b) + 1
    BY <1>1, <1>5
  <2> DEFINE l == k + 1
  <2>3. /\ SubSeq(b, l, Len(b)) \in Seq(W)
        /\ Len(SubSeq(b, l, Len(b))) = Len(b) - l + 1
        /\ \A i \in 1..Len(b) - l + 1 : SubSeq(b, l, Len(b))[i] = b[l + i - 1]
    <3> HIDE DEF l
    <3> QED
      BY <1>1, <2>1, <2>2, Parts DEF l
  <2>4. Len(b) - l + 1 = Len(b) - k
    BY <1>1, <1>5
  <2>5. \A i \in 1..Len(b) - k : l + i - 1 = i + k
    BY <1>1, <1>5
  <2> QED
    BY <2>3, <2>4, <2>5
<1> HIDE DEF rest
<1>7. DOMAIN rest = 1..Len(rest)
  BY <1>6
<1>8. /\ blocked' \in [Resources -> Seq(W)] /\ blocked'[r] = rest
      /\ \A s \in Resources : s # r => blocked'[s] = blocked[s]
  BY <1>2, <1>3, <1>6
<1>9. /\ available' \in [Resources -> Nat] /\ available'[r] = m - Demand(b, k)
      /\ \A s \in Resources : s # r => available'[s] = available[s]
  <2> DEFINE d == Demand(b, k)
  <2>1. d \in 0..m
    BY <1>5
  <2> HIDE DEF d
  <2>2. available[r] + n - d = m - d /\ m - d \in Nat
    BY <1>4, <2>1 DEF m
  <2>3. available' = [available EXCEPT ![r] = m - d]
    BY <1>2, <1>3, <2>2 DEF d
  <2> QED
    BY <1>2, <2>2, <2>3 DEF d
<1>10. \A i \in 1..Len(b) - k : i + k \in 1..Len(b)
  BY <1>1, <1>5
<1>11. insertTime' \in [Tasks -> Nat]
  <2> HIDE DEF S
  <2> QED
    BY <1>2, <1>3
<1>12. k \in 0..Len(blocked[r])
       /\ available'[r] = available[r] + n - Demand(blocked[r], k)
  BY <1>4, <1>5, <1>9 DEF b, m
<1> QED
  BY <1>1, <1>3, <1>5, <1>6, <1>7, <1>8, <1>9, <1>10, <1>11, <1>12 DEF b, W

FirstOf(r, k) == {blocked[r][i].task : i \in 1..k}

(* A release of n units of r takes the first k of those who wait off the    *)
(* list, and nobody else.                                                   *)
Handed(r, n, k) ==
    /\ blocked' \in [Resources -> Seq([task : Tasks, nr : Nat])]
    /\ available' \in [Resources -> Nat] /\ insertTime' \in [Tasks -> Nat]
    /\ available'[r] = available[r] + n - Demand(blocked[r], k)
    /\ queue' = queue \cup FirstOf(r, k)
    /\ \A s \in Resources : s # r => /\ blocked'[s] = blocked[s]
                                     /\ available'[s] = available[s]
    /\ \A i \in 1..k : i \in DOMAIN blocked[r]
    /\ \A i \in DOMAIN blocked'[r] :
          i \in Nat \ {0} /\ blocked'[r][i] = blocked[r][i + k]
    /\ \A u \in FirstOf(r, k) : u \in Tasks /\ IsBlocked(u) /\ WaitsFor(u, r)
    /\ \A s \in Resources : \A i \in DOMAIN blocked'[s] : \A u :
          blocked'[s][i].task = u =>
             /\ u \in Tasks /\ u \notin FirstOf(r, k)
             /\ IsBlocked(u) /\ WaitsFor(u, s)
             /\ s = r => i + k \in DOMAIN blocked[r] /\ blocked[r][i + k].task = u
             /\ s # r => i \in DOMAIN blocked[s] /\ blocked[s][i].task = u
    /\ \A u : IsBlocked(u)' <=> IsBlocked(u) /\ u \notin FirstOf(r, k)

LEMMA SignalHands ==
    ASSUME KernelInv, NEW t \in Tasks, Schedule(t), ScheduleSignal(t)
    PROVE  \E r \in Resources, n \in Nat : \E k \in 0..Len(blocked[r]) :
              r = Instr(t).res /\ n = Instr(t).nr /\ Handed(r, n, k)
<1>1. call = t
  BY DEF Schedule
<1>2. Now \in Nat /\ actInstr[t] \in 1..Len(Program[t])
  BY <1>1, Calling
<1>3. Instr(t).op = "signal" /\ Typed /\ WaitsOneByOne
  BY Waiters DEF KernelInv, ScheduleSignal
<1>5. PICK r \in Resources, n \in Nat : r = Instr(t).res /\ n = Instr(t).nr
  BY <1>2, <1>3, Instructions DEF Instr
<1>6. Release(r, n)
  BY <1>5 DEF ScheduleSignal
<1>7. PICK k \in 0..Len(blocked[r]) :
              /\ blocked' \in [Resources -> Seq([task : Tasks, nr : Nat])]
              /\ DOMAIN blocked'[r] = 1..Len(blocked[r]) - k
              /\ \A i \in DOMAIN blocked'[r] : /\ i + k \in DOMAIN blocked[r]
                                               /\ blocked'[r][i] = blocked[r][i + k]
              /\ \A s \in Resources : s # r => /\ blocked'[s] = blocked[s]
                                               /\ available'[s] = available[s]
              /\ available' \in [Resources -> Nat]
              /\ available'[r] = available[r] + n - Demand(blocked[r], k)
              /\ k < Len(blocked[r]) => available'[r] < blocked[r][k + 1].nr
              /\ queue' = queue \cup {blocked[r][i].task : i \in 1..k}
              /\ insertTime' \in [Tasks -> Nat]
  BY <1>2, <1>3, <1>6, Releases
<1> DEFINE S == FirstOf(r, k)
<1>8. Len(blocked[r]) \in Nat /\ DOMAIN blocked[r] = 1..Len(blocked[r])
      /\ \A i \in DOMAIN blocked[r] : blocked[r][i].task \in Tasks
  BY <1>3, Waiting
<1>9. /\ \A i \in 1..k : i \in DOMAIN blocked[r]
      /\ \A i \in DOMAIN blocked'[r] : i \in Nat \ {0}
      /\ \A i \in DOMAIN blocked[r] : i \notin 1..k =>
            i - k \in DOMAIN blocked'[r] /\ i - k + k = i
      /\ k \in Nat
  <2> DEFINE l == Len(blocked[r])
  <2>1. l \in Nat /\ k \in 0..l
    BY <1>8
  <2>2. DOMAIN blocked[r] = 1..l /\ DOMAIN blocked'[r] = 1..l - k
    BY <1>7, <1>8
  <2> HIDE DEF l
  <2>3. \A i \in 1..l : i \notin 1..k => i - k \in 1..l - k /\ i - k + k = i
    BY <2>1
  <2>4. (\A i \in 1..k : i \in 1..l) /\ \A i \in 1..l - k : i \in Nat \ {0}
    BY <2>1
  <2> QED
    BY <2>1, <2>2, <2>3, <2>4
<1>10. \A u \in S : u \in Tasks /\ IsBlocked(u) /\ WaitsFor(u, r)
  <2>1. ASSUME NEW i \in 1..k, NEW u, blocked[r][i].task = u
        PROVE  u \in Tasks /\ IsBlocked(u) /\ WaitsFor(u, r)
    <3>1. i \in DOMAIN blocked[r]
      BY <1>9
    <3> QED
      BY <1>3, <1>8, <2>1, <3>1 DEF IsBlocked, WaitsOneByOne
  <2> QED
    BY <2>1 DEF FirstOf
<1>11. ASSUME NEW s \in Resources, NEW i \in DOMAIN blocked'[s], NEW u,
              blocked'[s][i].task = u
       PROVE  /\ u \in Tasks /\ u \notin S /\ IsBlocked(u) /\ WaitsFor(u, s)
              /\ s = r => i + k \in DOMAIN blocked[r] /\ blocked[r][i + k].task = u
              /\ s # r => i \in DOMAIN blocked[s] /\ blocked[s][i].task = u
  <2>1. CASE s # r
    <3>1. i \in DOMAIN blocked[s] /\ blocked[s][i].task = u
      BY <1>7, <1>11, <2>1
    <3>2. WaitsFor(u, s) /\ IsBlocked(u)
      BY <1>3, <3>1 DEF WaitsOneByOne, IsBlocked
    <3>3. u \in Tasks
      BY <1>3, <3>1, Waiting
    <3>4. u \notin S
      BY <1>10, <2>1, <3>2 DEF WaitsFor
    <3> QED
      BY <2>1, <3>1, <3>2, <3>3, <3>4
  <2>2. CASE s = r
    <3>1. i + k \in DOMAIN blocked[r] /\ blocked[r][i + k].task = u /\ i \in Nat \ {0}
      BY <1>7, <1>9, <1>11, <2>2
    <3>2. WaitsFor(u, r) /\ IsBlocked(u) /\ u \in Tasks
      BY <1>3, <1>8, <3>1 DEF WaitsOneByOne, IsBlocked
    <3>3. ASSUME NEW j \in 1..k, blocked[r][j].task = u PROVE FALSE
      <4>1. i + k = j
        BY <1>3, <1>9, <3>1, <3>3, ZenonT(40) DEF WaitsOneByOne
      <4> QED
        BY <1>9, <3>1, <4>1
    <3> QED
      BY <2>2, <3>1, <3>2, <3>3 DEF FirstOf
  <2> QED
    BY <2>1, <2>2
<1>12. ASSUME NEW u, IsBlocked(u), u \notin S PROVE IsBlocked(u)'
  <2>0. PICK s \in Resources : \E i \in DOMAIN blocked[s] : blocked[s][i].task = u
    BY <1>12 DEF IsBlocked
  <2>1. PICK i \in DOMAIN blocked[s] : blocked[s][i].task = u
    BY <2>0
  <2>2. CASE s # r
    BY <1>7, <2>1, <2>2 DEF IsBlocked
  <2>3. CASE s = r
    <3>1. i \in 1..Len(blocked[r]) /\ i \notin 1..k
      BY <1>8, <1>12, <2>1, <2>3 DEF FirstOf
    <3>2. i - k \in DOMAIN blocked'[r] /\ i - k + k = i
      BY <1>8, <1>9, <3>1
    <3>3. blocked'[r][i - k] = blocked[r][i]
      BY <1>7, <3>2
    <3> QED
      BY <2>1, <2>3, <3>2, <3>3 DEF IsBlocked
  <2> QED
    BY <2>2, <2>3
<1>13. \A u : IsBlocked(u)' => IsBlocked(u) /\ u \notin S
  <2>1. ASSUME NEW u, IsBlocked(u)'
        PROVE  IsBlocked(u) /\ u \notin S
    <3>1. PICK s \in Resources : \E i \in DOMAIN blocked'[s] : blocked'[s][i].task = u
      BY <2>1 DEF IsBlocked
    <3> QED
      BY <1>11, <3>1
  <2> QED
    BY <2>1
<1>14. queue' = queue \cup S
  BY <1>7 DEF FirstOf
<1>15. \A u : IsBlocked(u)' <=> IsBlocked(u) /\ u \notin S
  BY <1>12, <1>13
<1>16. \A i \in DOMAIN blocked'[r] :
          i \in Nat \ {0} /\ blocked'[r][i] = blocked[r][i + k]
  BY <1>7, <1>9
<1> HIDE DEF S
<1>17. S = FirstOf(r, k)
  BY DEF S
<1>18. \A s \in Resources : \A i \in DOMAIN blocked'[s] : \A u :
          blocked'[s][i].task = u =>
             /\ u \in Tasks /\ u \notin S /\ IsBlocked(u) /\ WaitsFor(u, s)
             /\ s = r => i + k \in DOMAIN blocked[r] /\ blocked[r][i + k].task = u
             /\ s # r => i \in DOMAIN blocked[s] /\ blocked[s][i].task = u
  BY <1>11
<1>19. /\ blocked' \in [Resources -> Seq([task : Tasks, nr : Nat])]
       /\ available' \in [Resources -> Nat] /\ insertTime' \in [Tasks -> Nat]
       /\ available'[r] = available[r] + n - Demand(blocked[r], k)
       /\ \A s \in Resources : s # r => /\ blocked'[s] = blocked[s]
                                        /\ available'[s] = available[s]
  BY <1>7
<1>20. \A i \in 1..k : i \in DOMAIN blocked[r]
  BY <1>9
<1>21. Handed(r, n, k)
  <2>1. queue' = queue \cup FirstOf(r, k)
    BY <1>14, <1>17
  <2>2. \A u \in FirstOf(r, k) : u \in Tasks /\ IsBlocked(u) /\ WaitsFor(u, r)
    BY <1>10, <1>17
  <2>3. \A s \in Resources : \A i \in DOMAIN blocked'[s] : \A u :
          blocked'[s][i].task = u =>
             /\ u \in Tasks /\ u \notin FirstOf(r, k)
             /\ IsBlocked(u) /\ WaitsFor(u, s)
             /\ s = r => i + k \in DOMAIN blocked[r] /\ blocked[r][i + k].task = u
             /\ s # r => i \in DOMAIN blocked[s] /\ blocked[s][i].task = u
    BY <1>17, <1>18
  <2>4. \A u : IsBlocked(u)' <=> IsBlocked(u) /\ u \notin FirstOf(r, k)
    BY <1>15, <1>17
  <2> QED
    BY <1>16, <1>19, <1>20, <2>1, <2>2, <2>3, <2>4 DEF Handed
<1> QED
  BY <1>5, <1>21

(* SignalInstr::schedule *)
LEMMA ScheduleSignalKeeps ==
    ASSUME KernelInv, NEW t \in Tasks, Schedule(t), ScheduleSignal(t)
    PROVE  KernelInv'
<1>1. call = t /\ now' = now
      /\ UNCHANGED <<state, policy, lastSched, run, phase, urgent>>
  BY DEF Schedule, rrVars, runVars
<1>2. /\ Now = now /\ now \in Nat /\ t # None /\ GoodAgenda(agenda, now)
      /\ state[t] = "EXEC" /\ t \in queue /\ currExe = t /\ ~IsBlocked(t)
      /\ Of(agenda, t) = {} /\ actInstr[t] \in 1..Len(Program[t])
  BY <1>1, Calling
<1>3. /\ TaskInv(t) /\ Instr(t).op = "signal" /\ Typed /\ WaitsOneByOne
      /\ UNCHANGED <<currExe, arrival, dl, arrQueue, cost, done, lastTime, waiting>>
  BY Waiters DEF KernelInv, ScheduleSignal, instrVars
<1>4. ~waiting[t]
  BY <1>3 DEF TaskInv, InProgram
<1>5. PICK r \in Resources, n \in Nat : \E k \in 0..Len(blocked[r]) :
         r = Instr(t).res /\ n = Instr(t).nr /\ Handed(r, n, k)
  BY SignalHands
<1>6. PICK k \in 0..Len(blocked[r]) : Handed(r, n, k)
  BY <1>5
<1> DEFINE S == FirstOf(r, k)
<1>7. /\ blocked' \in [Resources -> Seq([task : Tasks, nr : Nat])]
      /\ available' \in [Resources -> Nat] /\ insertTime' \in [Tasks -> Nat]
      /\ \A i \in DOMAIN blocked'[r] : i \in Nat
  BY <1>6 DEF Handed
<1>10. \A u \in S : u \in Tasks /\ IsBlocked(u) /\ WaitsFor(u, r)
  BY <1>6 DEF Handed
<1>11. \A s \in Resources : \A i \in DOMAIN blocked'[s] : \A u :
          blocked'[s][i].task = u =>
             /\ u \in Tasks /\ u \notin S /\ IsBlocked(u) /\ WaitsFor(u, s)
             /\ s = r => i + k \in DOMAIN blocked[r] /\ blocked[r][i + k].task = u
             /\ s # r => i \in DOMAIN blocked[s] /\ blocked[s][i].task = u
  BY <1>6, SMTT(60) DEF Handed
<1>13. \A u : IsBlocked(u)' <=> IsBlocked(u) /\ u \notin S
  BY <1>6 DEF Handed
<1>14. queue' = queue \cup S
  BY <1>6 DEF Handed
<1> HIDE DEF S
<1>15. t \in queue' /\ ~IsBlocked(t)' /\ ~waiting'[t]
  BY <1>2, <1>3, <1>4, <1>13, <1>14
<1> DEFINE q == Dispatching(agenda)
<1>16. /\ GoodAgenda(q, now)
       /\ \A f : f # Begin => (IsPosted(q, f) <=> IsPosted(agenda, f))
       /\ \A x : x.ev # Begin => (x \in Entries(q) <=> x \in Entries(agenda))
  <2>1. GoodAgenda(q, now) /\ Moves(q, agenda, Entry(Begin, now, 18))
    BY <1>2, DispatchMoves
  <2> HIDE DEF q
  <2> QED
    BY <2>1, EntryParts DEF Moves
<1>17. InstrEnds(t, q)
  BY DEF ScheduleSignal
<1> HIDE DEF q
<1>18. /\ exc' = "none" /\ GoodAgenda(agenda', now)
       /\ \A f : f \notin EventsOf(t) \cup {Begin} =>
                    (IsPosted(agenda', f) <=> IsPosted(agenda, f))
       /\ \A x : x.ev \notin EventsOf(t) \cup {Begin} =>
                    (x \in Entries(agenda') <=> x \in Entries(agenda))
       /\ TaskInv(t)' /\ CallGoesOn' /\ call' \in {t, None}
       /\ "sched" \notin Of(agenda', t)
       /\ actInstr' \in [Tasks -> Nat]
       /\ \A u \in Tasks : u # t => actInstr'[u] = actInstr[u]
  BY <1>1, <1>3, <1>15, <1>16, <1>17, CallEnds
<1>19. Typed'
  <2>1. queue' \subseteq Tasks
    BY <1>3, <1>10, <1>14 DEF Typed
  <2>2. call' \in Tasks \cup {None}
    BY <1>18
  <2> QED
    BY <1>1, <1>3, <1>7, <1>18, <2>1, <2>2 DEF Typed
<1>20. Waits'
  <2>1. ASSUME NEW s \in Resources, NEW i \in DOMAIN blocked'[s], NEW u,
               blocked'[s][i].task = u
        PROVE  WaitsFor(u, s)'
    <3>1. u \in Tasks /\ IsBlocked(u) /\ WaitsFor(u, s) /\ u # t
      BY <1>2, <1>11, <2>1
    <3> QED
      BY <1>3, <1>18, <3>1 DEF WaitsFor
  <2>2. ASSUME NEW s \in Resources, NEW i \in DOMAIN blocked'[s],
               NEW j \in DOMAIN blocked'[s], NEW u,
               blocked'[s][i].task = u, blocked'[s][j].task = u
        PROVE  i = j
    <3>1. CASE s # r
      BY <1>3, <1>11, <2>2, <3>1 DEF WaitsOneByOne
    <3>2. CASE s = r
      <4>1. i + k = j + k
        BY <1>3, <1>11, <2>2, <3>2 DEF WaitsOneByOne
      <4>2. i \in Nat /\ j \in Nat
        BY <1>7, <3>2
      <4>3. k \in Nat
        BY <1>3, Waiting
      <4> QED
        BY <4>1, <4>2, <4>3
    <3> QED
      BY <3>1, <3>2
  <2>3. WaitsOneByOne'
    BY <2>1, <2>2 DEF WaitsOneByOne
  <2> QED
    BY <2>3, Waiters, PTL
<1>21. \A u \in Tasks : u # t =>
              /\ currExe' = u <=> currExe = u
              /\ \/ /\ u \in queue' <=> u \in queue
                    /\ IsBlocked(u)' <=> IsBlocked(u)
                 \/ u \in queue' /\ ~IsBlocked(u)' /\ IsBlocked(u)
  BY <1>3, <1>10, <1>13, <1>14
<1> QED
  BY <1>1, <1>3, <1>18, <1>19, <1>20, <1>21, OneTaskCalls

(* Schedule of the task that executes. *)
LEMMA ScheduleKeeps ==
    ASSUME KernelInv, NEW t \in Tasks, Schedule(t)
    PROVE  KernelInv'
BY ScheduleExecKeeps, ScheduleSuspendKeeps, ScheduleWaitKeeps,
   ScheduleSignalKeeps DEF Schedule

-----------------------------------------------------------------------------
(* A run begins.                                                             *)

(* The tasks of the system are those of a list. *)
LEMMA TasksAreFinite == IsFiniteSet(Tasks)
<1> DEFINE D == DOMAIN TaskSeq
           num == [t \in Tasks |-> Number(t)]
<1>1. IsFiniteSet(D)
  <2>1. D = 1..Len(TaskSeq) /\ Len(TaskSeq) \in Nat
    BY TaskAssumption
  <2> QED
    BY <2>1, FS_Interval
<1>2. \A t \in Tasks : Number(t) \in D /\ TaskSeq[Number(t)] = t
  <2>1. \A t \in Tasks : \E i \in DOMAIN TaskSeq : TaskSeq[i] = t
    BY DEF Tasks, ToSet
  <2> QED
    BY <2>1 DEF Number
<1>3. num \in [Tasks -> D] /\ \A t, u \in Tasks : num[t] = num[u] => t = u
  <2> HIDE DEF D
  <2> QED
    BY <1>2
<1> HIDE DEF D, num
<1> QED
  BY <1>1, <1>3, CountAtMost

(* The first arrivals are posted in the order of their times. *)
LEMMA FirstArrivalsAreGood ==
    ASSUME NEW at \in [Tasks -> Nat]
    PROVE  /\ GoodAgenda(FirstArrivals(at), 0)
           /\ \A x \in Entries(FirstArrivals(at)) :
                 \E t \in Tasks : x.ev = Arr(t)
<1> DEFINE S == {t \in Tasks : Periods[t] # {}}
           earlier(t) == {u \in S : \/ at[u] < at[t]
                                    \/ at[u] = at[t] /\ Number(u) < Number(t)}
           before == [t \in S |-> earlier(t)]
           nth(n) == CHOOSE t \in S : Cardinality(earlier(t)) + 1 = n
           entry(n) == Entry(Arr(nth(n)), at[nth(n)], Priority(Arr(nth(n))))
           last == Cardinality(S)
           q == [n \in 1..last |-> entry(n)]
<1>1. FirstArrivals(at) = q
  BY DEF FirstArrivals
<1>2. IsFiniteSet(S)
  BY TasksAreFinite, FS_Subset
<1>3. \A t \in S : t \in Tasks /\ at[t] \in Nat /\ Number(t) \in Nat
                   /\ TaskSeq[Number(t)] = t
  BY Numbers
<1> HIDE DEF S
<1>4. /\ before \in [S -> SUBSET S]
      /\ \A t \in S : before[t] = earlier(t)
  OBVIOUS
<1>5. /\ \A t \in S : t \notin earlier(t)
      /\ \A t, u \in S : t = u \/ t \in earlier(u) \/ u \in earlier(t)
      /\ \A t, u \in S : t \in earlier(u) => earlier(t) \subseteq earlier(u)
  <2>1. \A t \in S : t \notin earlier(t)
    BY <1>3
  <2>2. ASSUME NEW t \in S, NEW u \in S
        PROVE  t = u \/ t \in earlier(u) \/ u \in earlier(t)
    <3>1. Number(t) = Number(u) => t = u
      BY <1>3
    <3> QED
      BY <1>3, <3>1
  <2>3. ASSUME NEW t \in S, NEW u \in S, t \in earlier(u), NEW v \in earlier(t)
        PROVE  v \in earlier(u)
    <3>1. v \in S
      OBVIOUS
    <3>2. /\ at[t] \in Nat /\ at[u] \in Nat /\ at[v] \in Nat
          /\ Number(t) \in Nat /\ Number(u) \in Nat /\ Number(v) \in Nat
      BY <1>3, <3>1
    <3> QED
      BY <2>3, <3>1, <3>2
  <2> QED
    BY <2>1, <2>2, <2>3
<1> HIDE DEF earlier
<1>6. /\ \A i \in 1..last : \E t \in S : Cardinality(earlier(t)) + 1 = i
      /\ \A t, u \in S : t \in earlier(u)
            => Cardinality(earlier(t)) < Cardinality(earlier(u))
      /\ \A t \in S : Cardinality(earlier(t)) + 1 \in 1..last
  <2>1. /\ \A t \in S : t \notin before[t]
        /\ \A t, u \in S : t = u \/ t \in before[u] \/ u \in before[t]
        /\ \A t, u \in S : t \in before[u] => before[t] \subseteq before[u]
    BY <1>4, <1>5
  <2> HIDE DEF before
  <2>2. /\ \A x \in S : Cardinality(before[x]) + 1 \in 1..Cardinality(S)
        /\ \A i \in 1..Cardinality(S) :
                 \E x \in S : Cardinality(before[x]) + 1 = i
        /\ \A x, y \in S : x \in before[y]
                 => Cardinality(before[x]) < Cardinality(before[y])
    BY <1>2, <1>4, <2>1, PlacesInOrder
  <2> QED
    BY <1>4, <2>2
<1>7. last \in Nat
  BY <1>2, FS_CardinalityType
<1>8. \A i \in 1..last : nth(i) \in S /\ Cardinality(earlier(nth(i))) + 1 = i
  BY <1>6
<1>9. \A t \in S : Cardinality(earlier(t)) \in Nat
  <2>1. \A t \in S : earlier(t) \subseteq S
    BY DEF earlier
  <2> QED
    BY <1>2, <2>1, CountPart
<1> HIDE DEF nth, last
<1>10. \A i, j \in 1..last : i < j => nth(i) = nth(j) \/ nth(i) \in earlier(nth(j))
  <2> SUFFICES ASSUME NEW i \in 1..last, NEW j \in 1..last, i < j,
                      nth(j) \in earlier(nth(i))
               PROVE  FALSE
    BY <1>5, <1>8
  <2>1. Cardinality(earlier(nth(j))) < Cardinality(earlier(nth(i)))
    BY <1>6, <1>8
  <2>2. /\ Cardinality(earlier(nth(j))) + 1 = j
        /\ Cardinality(earlier(nth(i))) + 1 = i
        /\ Cardinality(earlier(nth(j))) \in Nat
        /\ Cardinality(earlier(nth(i))) \in Nat
    BY <1>8, <1>9
  <2> QED
    BY <2>1, <2>2
<1>11. \A i, j \in 1..last : i < j => at[nth(i)] <= at[nth(j)]
  <2> SUFFICES ASSUME NEW i \in 1..last, NEW j \in 1..last, i < j
               PROVE  at[nth(i)] <= at[nth(j)]
    OBVIOUS
  <2>1. at[nth(i)] \in Nat /\ at[nth(j)] \in Nat
    BY <1>3, <1>8
  <2> QED
    BY <1>10, <2>1 DEF earlier
<1>12. ASSUME NEW i \in 1..last
       PROVE  /\ entry(i) \in EventEntry /\ Timed(entry(i), 0)
              /\ entry(i).ev = Arr(nth(i)) /\ entry(i).prio = 8
              /\ entry(i).at = at[nth(i)]
  <2>1. nth(i) \in Tasks /\ at[nth(i)] \in Nat
    BY <1>3, <1>8
  <2>2. Arr(nth(i)) \in Events /\ Arr(nth(i))[1] = "arr"
        /\ Priority(Arr(nth(i))) = 8
    <3>1. "arr" \in Kinds
      BY DEF Kinds
    <3> QED
      BY <2>1, <3>1, EventsAreEvents, EventParts, PriorityOf DEF Arr
  <2>3. entry(i) \in EventEntry
    BY <2>1, <2>2, EntriesHaveTimes
  <2> QED
    BY <2>1, <2>2, <2>3, EntryParts DEF Timed
<1> HIDE DEF entry
<1>13. q \in Seq(EventEntry) /\ DOMAIN q = 1..last
       /\ \A i \in 1..last : q[i] = entry(i)
  <2>1. \A i \in 1..last : entry(i) \in EventEntry
    BY <1>12
  <2>2. q \in [1..last -> EventEntry]
    BY <2>1
  <2>3. [1..last -> EventEntry] \subseteq Seq(EventEntry)
    BY <1>7
  <2> QED
    BY <2>2, <2>3
<1> HIDE DEF q
<1>14. Proper(q)
  <2>1. InOrder(q)
    <3> SUFFICES ASSUME NEW i \in 1..last, NEW j \in 1..last, i < j
                 PROVE  Precedes(entry(i), entry(j))
      BY <1>13 DEF InOrder
    <3>1. /\ at[nth(i)] \in Nat /\ at[nth(j)] \in Nat
          /\ at[nth(i)] <= at[nth(j)]
      BY <1>3, <1>8, <1>11
    <3> QED
      BY <1>12, <3>1 DEF Precedes
  <2>2. PostedOnce(q)
    <3> SUFFICES ASSUME NEW i \in 1..last, NEW j \in 1..last,
                        entry(i).ev = entry(j).ev
                 PROVE  i = j
      BY <1>13 DEF PostedOnce
    <3>1. nth(i) = nth(j)
      BY <1>12, EventParts DEF Arr
    <3> QED
      BY <1>8, <3>1
  <2> QED
    BY <2>1, <2>2 DEF Proper
<1>15. \A x \in Entries(q) : \E i \in 1..last : x = entry(i)
  BY <1>13 DEF Entries
<1>16. GoodAgenda(q, 0)
  BY <1>12, <1>13, <1>14, <1>15 DEF GoodAgenda
<1>17. \A i \in 1..last : nth(i) \in Tasks
  BY <1>3, <1>8
<1> QED
  BY <1>1, <1>12, <1>15, <1>16, <1>17

(* The state in which a run begins. *)
Beginning ==
    /\ Typed /\ exc = "none" /\ now = 0 /\ call = None
    /\ agenda = FirstArrivals(phase)
    /\ queue = {} /\ currExe = None
    /\ \A t \in Tasks : /\ state[t] = "IDLE" /\ actInstr[t] = 1
                        /\ arrQueue[t] = <<>> /\ ~waiting[t] /\ lastTime[t] = 0
    /\ \A r \in Resources : blocked[r] = <<>>

LEMMA BeginningIsGood ==
    Beginning => KernelInv
<1> SUFFICES ASSUME Beginning PROVE KernelInv
  OBVIOUS
<1>1. /\ Typed /\ exc = "none" /\ now = 0 /\ call = None /\ queue = {}
      /\ currExe = None /\ None \notin Tasks
      /\ \A t \in Tasks : /\ state[t] = "IDLE" /\ actInstr[t] = 1
                          /\ arrQueue[t] = <<>> /\ ~waiting[t] /\ lastTime[t] = 0
  BY TaskAssumption DEF Beginning
<1>2. /\ GoodAgenda(agenda, 0)
      /\ \A x \in Entries(agenda) : \E t \in Tasks : x.ev = Arr(t)
  <2>1. phase \in [Tasks -> Nat] /\ agenda = FirstArrivals(phase)
    BY DEF Beginning, Typed
  <2> QED
    BY <2>1, FirstArrivalsAreGood
<1>3. \A e : IsPosted(agenda, e) => \E t \in Tasks : e = Arr(t)
  BY <1>2, PostedEntries
<1>4. /\ \A t : Of(agenda, t) = {} /\ ~IsPosted(agenda, Dead(t))
                /\ ~IsPosted(agenda, FakeArr(t))
      /\ ~IsPosted(agenda, EndDisp)
  BY <1>3, EventParts DEF Of, JobKinds, Arr, Dead, FakeArr, EndDisp
<1>5. \A r \in Resources : DOMAIN blocked[r] = {}
  BY DEF Beginning
<1>6. \A u : ~IsBlocked(u)
  BY <1>5 DEF IsBlocked
<1>7. Waits
  BY <1>5 DEF Waits
<1>8. ASSUME NEW t \in Tasks PROVE TaskInv(t)
  <2>1. Situation(t, Of(agenda, t))
    BY <1>1, <1>4, <1>6 DEF Situation, Idle
  <2>2. EndsInTime(t) /\ DeadInTime(t)
    BY <1>1, <1>4 DEF EndsInTime, DeadInTime
  <2>3. BufferInTime(t)
    BY <1>1, <1>4, PostedEntries DEF BufferInTime
  <2>4. InProgram(t)
    BY <1>1, <1>4, Programs DEF InProgram
  <2> QED
    BY <2>1, <2>2, <2>3, <2>4 DEF TaskInv
<1>9. SchedIsAlone
  BY <1>2, EventParts DEF SchedIsAlone, Arr
<1>10. DispatchIsAlone /\ CallGoesOn
  BY <1>1, <1>4 DEF DispatchIsAlone, CallGoesOn
<1> QED
  BY <1>1, <1>2, <1>7, <1>8, <1>9, <1>10 DEF KernelInv

(* Init *)
LEMMA InitIsGood ==
    Init => KernelInv
<1> SUFFICES ASSUME Init PROVE KernelInv
  OBVIOUS
<1>1. phase \in [Tasks -> Nat] /\ arrival = phase
  <2>1. phase = [t \in Tasks |-> phase[t]] /\ \A t \in Tasks : phase[t] \in Nat
    BY TaskAssumption DEF Init
  <2>2. [t \in Tasks |-> phase[t]] \in [Tasks -> Nat]
    BY <2>1
  <2> QED
    BY <2>1, <2>2 DEF Init
<1>2. /\ available \in [Resources -> Nat] /\ run \in 1..Runs
      /\ blocked \in [Resources -> Seq([task : Tasks, nr : Nat])]
  <2> DEFINE W == [task : Tasks, nr : Nat]
  <2>1. <<>> \in Seq(W)
    OBVIOUS
  <2> HIDE DEF W
  <2>2. blocked \in [Resources -> Seq(W)]
    BY <2>1 DEF Init
  <2> QED
    BY <2>2, KernelAssumption DEF Init, W
<1>3. /\ cost \in [Tasks -> Nat \cup {Undrawn}]
      /\ arrQueue \in [Tasks -> Seq(Nat)]
      /\ waiting \in [Tasks -> BOOLEAN]
  BY DEF Init
<1>4. Typed
  BY <1>1, <1>2, <1>3 DEF Init, Typed
<1>5. Beginning
  BY <1>4 DEF Beginning, Init
<1> QED
  BY <1>5, BeginningIsGood

(* Simulation::endSingleRun and initSingleRun *)
LEMMA NewRunKeeps ==
    ASSUME KernelInv, NewRun
    PROVE  KernelInv'
<1>1. /\ arrival' \in [Tasks -> Nat] /\ phase' = phase
      /\ policy' = policy /\ lastSched' = lastSched
  BY DEF KernelInv, Typed, NewRun, ResetTasks
<1>2. /\ available' \in [Resources -> Nat]
      /\ blocked' \in [Resources -> Seq([task : Tasks, nr : Nat])]
  <2> DEFINE W == [task : Tasks, nr : Nat]
  <2>1. <<>> \in Seq(W)
    OBVIOUS
  <2> HIDE DEF W
  <2>2. blocked' \in [Resources -> Seq(W)]
    BY <2>1 DEF NewRun, ResetResources
  <2> QED
    BY <2>2, KernelAssumption DEF NewRun, ResetResources, W
<1>3. run' \in 1..Runs
  BY KernelAssumption DEF KernelInv, Typed, NewRun
<1>4. urgent' \subseteq MayStayUrgent
  BY DEF KernelInv, Typed, NewRun, LeftUrgent
<1>5. /\ cost' \in [Tasks -> Nat \cup {Undrawn}]
      /\ arrQueue' \in [Tasks -> Seq(Nat)]
      /\ waiting' \in [Tasks -> BOOLEAN]
  BY DEF NewRun, ResetTasks
<1>6. /\ exc' = "none" /\ now' = 0 /\ call' = None
      /\ agenda' = FirstArrivals(phase')
      /\ queue' = {} /\ currExe' = None
      /\ \A t \in Tasks : /\ state'[t] = "IDLE" /\ actInstr'[t] = 1
                          /\ arrQueue'[t] = <<>> /\ ~waiting'[t] /\ lastTime'[t] = 0
      /\ \A r \in Resources : blocked'[r] = <<>>
  BY DEF NewRun, RunIsOver, ResetTasks, ResetResources
<1>7. Typed'
  <2>1. /\ insertTime' = [t \in Tasks |-> 0] /\ dl' = [t \in Tasks |-> 0]
        /\ done' = [t \in Tasks |-> 0] /\ lastTime' = [t \in Tasks |-> 0]
        /\ actInstr' = [t \in Tasks |-> 1] /\ state' = [t \in Tasks |-> "IDLE"]
    BY DEF NewRun, ResetTasks
  <2>2. Typed
    BY DEF KernelInv
  <2> QED
    BY <1>1, <1>2, <1>3, <1>4, <1>5, <1>6, <2>1, <2>2 DEF Typed
<1>8. Beginning'
  <2>1. (agenda = FirstArrivals(phase))'
    BY <1>1, <1>6 DEF FirstArrivals, Priority, Arr
  <2> QED
    BY <1>6, <1>7, <2>1 DEF Beginning
<1> QED
  BY <1>8, BeginningIsGood, PTL

-----------------------------------------------------------------------------
(* The invariant is kept, and what it implies.                               *)

(* OnArrival and OnDeadline, in all their cases. *)
LEMMA ArrivalKeeps ==
    ASSUME KernelInv, NEW t \in Tasks, OnArrival(t)
    PROVE  KernelInv'
BY IdleArrivalKeeps, BusyArrivalKeeps

LEMMA DeadlineKeeps ==
    ASSUME KernelInv, Sound, NEW t \in Tasks, OnDeadline(t)
    PROVE  KernelInv'
BY MissKeeps, KillInstanceKeeps

LEMMA FakeArrivalKeeps ==
    ASSUME KernelInv, NEW t \in Tasks, OnFakeArrival(t)
    PROVE  KernelInv'
BY BufferedArrivalKeeps, StaleFakeArrivalKeeps

LEMMA StutterKeeps ==
    ASSUME KernelInv, UNCHANGED vars
    PROVE  KernelInv'
<1>1. UNCHANGED <<now, run, agenda, exc, call, policy, phase, urgent>>
  BY DEF vars, rrVars, runVars
<1>2. UNCHANGED <<queue, insertTime, currExe, lastSched, state, actInstr, arrival, dl, arrQueue>>
  BY DEF vars, kernelVars, rrVars, jobVars
<1>3. UNCHANGED <<cost, done, lastTime, waiting, available, blocked>>
  BY DEF vars, instrVars, resVars
<1>4. exc' = "none" \/ ThrownByStaleFakeArr'
  BY <1>1, <1>2 DEF KernelInv, ThrownByStaleFakeArr
<1> QED
  BY <1>1, <1>2, <1>3, <1>4, FrozenKeeps

(* Every step keeps the invariant. *)
LEMMA StepKeeps ==
    ASSUME KernelInv, Sound, [Next]_vars
    PROVE  KernelInv'
<1>1. CASE OnBeginDispatch
  BY <1>1, BeginDispatchKeeps
<1>2. CASE OnEndDispatch
  BY <1>2, EndDispatchKeeps
<1>3. CASE OnRound
  BY <1>3, RoundKeeps
<1>4. CASE NewRun
  BY <1>4, NewRunKeeps
<1>5. ASSUME NEW t \in Tasks,
             \/ OnArrival(t) \/ OnFakeArrival(t) \/ OnEndInstance(t)
             \/ OnDeadline(t) \/ OnKill(t) \/ OnSched(t) \/ OnDesched(t)
             \/ OnInstrEnd(t) \/ OnSuspend(t) \/ OnResume(t) \/ Schedule(t)
      PROVE  KernelInv'
  BY <1>5, ArrivalKeeps, FakeArrivalKeeps, EndInstanceKeeps, DeadlineKeeps,
     KillKeeps, SchedKeeps, DeschedKeeps, InstrEndKeeps, SuspendKeeps,
     ResumeKeeps, ScheduleKeeps
<1>6. CASE UNCHANGED vars
  BY <1>6, StutterKeeps
<1> QED
  BY <1>1, <1>2, <1>3, <1>4, <1>5, <1>6 DEF Next, Steps, Over

(* The invariant holds of every state of a sound system. *)
THEOREM KernelInvariant ==
    ASSUME Sound
    PROVE  Spec => []KernelInv
<1>1. Init => KernelInv
  BY InitIsGood
<1>2. KernelInv /\ [Next]_vars => KernelInv'
  BY StepKeeps
<1> QED
  BY <1>1, <1>2, PTL DEF Spec

(* Every variable of the kernel keeps its type, no event of the past is in   *)
(* the agenda and no task leaves its program.                               *)
THEOREM KernelTypes ==
    ASSUME Sound
    PROVE  Spec => []TypeOK
<1>1. KernelInv => TypeOK
  <2> SUFFICES ASSUME KernelInv PROVE TypeOK
    OBVIOUS
  <2>1. \A i \in DOMAIN agenda : agenda[i].at >= now
    BY DEF KernelInv, GoodAgenda, Entries, Timed
  <2>2. \A t \in Tasks : actInstr[t] \in 1..Len(Program[t]) + 1
    BY DEF KernelInv, TaskInv, InProgram
  <2>3. exc \in Exceptions
    BY DEF KernelInv, ThrownByStaleFakeArr, Exceptions
  <2>4. Typed
    BY DEF KernelInv
  <2> QED
    BY <2>1, <2>2, <2>3, <2>4 DEF Typed, TypeOK
<1> QED
  BY <1>1, KernelInvariant, PTL

(* Whoever believes to execute has the CPU, and the end of what it executes  *)
(* is posted, or it is about to be descheduled.                             *)
THEOREM WhoExecutesIsTimed ==
    ASSUME Sound
    PROVE  Spec => []ExecutingIsTimed
<1>1. KernelInv => ExecutingIsTimed
  <2> SUFFICES ASSUME KernelInv, call = None, NEW t \in Tasks, state[t] = "EXEC"
               PROVE  \/ IsPosted(agenda, Desched(t))
                      \/ /\ currExe = t
                         /\ \/ IsPosted(agenda, InstrEvt(t))
                            \/ IsPosted(agenda, EndEvt(t))
                            \/ IsPosted(agenda, Susp(t))
    BY DEF ExecutingIsTimed
  <2>1. Executing(t, Of(agenda, t))
    BY TaskAssumption DEF KernelInv, TaskInv, Situation, Idle, Ready
  <2>2. \A k : k \in Of(agenda, t) => IsPosted(agenda, <<k, t>>)
    BY DEF Of
  <2>3. \/ "desched" \in Of(agenda, t)
        \/ /\ currExe = t
           /\ \/ "instr" \in Of(agenda, t) \/ "end" \in Of(agenda, t)
              \/ "susp" \in Of(agenda, t)
    BY <2>1 DEF Executing
  <2> QED
    BY <2>2, <2>3 DEF Desched, InstrEvt, EndEvt, Susp
<1> QED
  BY <1>1, KernelInvariant, PTL

(* A job that was completed or killed leaves neither the queue, nor the CPU, *)
(* nor a request, nor an event of its own behind it.                        *)
THEOREM JobsLeaveNothing ==
    ASSUME Sound
    PROVE  Spec => []IdleLeavesNothing
<1>1. KernelInv => IdleLeavesNothing
  <2> SUFFICES ASSUME KernelInv, NEW t \in Tasks, state[t] = "IDLE"
               PROVE  /\ t \notin queue /\ currExe # t /\ BlockedOn(t) = {}
                      /\ ~\E k \in {"instr", "end", "sched", "desched", "susp",
                                    "resume", "dead", "kill"} :
                              IsPosted(agenda, <<k, t>>)
    BY DEF IdleLeavesNothing
  <2>1. Idle(t, Of(agenda, t)) /\ ~IsPosted(agenda, Dead(t))
    BY DEF KernelInv, TaskInv, Situation, Scheduling, Ready, Executing, DeadInTime
  <2>2. BlockedOn(t) = {}
    BY <2>1 DEF Idle, IsBlocked, BlockedOn
  <2>3. \A k \in JobKinds : ~IsPosted(agenda, <<k, t>>)
    BY <2>1 DEF Idle, Of
  <2> QED
    BY <2>1, <2>2, <2>3 DEF Idle, JobKinds, Dead
<1> QED
  BY <1>1, KernelInvariant, PTL

(* A buffered arrival is about to be served as soon as its task is idle. *)
THEOREM ArrivalsAreServed ==
    ASSUME Sound
    PROVE  Spec => []BufferedIsServed
<1>1. KernelInv => BufferedIsServed
  BY DEF KernelInv, TaskInv, BufferInTime, BufferedIsServed
<1> QED
  BY <1>1, KernelInvariant, PTL

(* A job that is not in the ready queue waits for one resource, or for the   *)
(* end of its suspension: no wake-up is lost.                               *)
THEOREM NoTaskIsLost ==
    ASSUME Sound
    PROVE  Spec => []NoLostTask
<1>1. KernelInv => NoLostTask
  <2> SUFFICES ASSUME KernelInv, call = None, NEW t \in Tasks,
                      state[t] # "IDLE", t \notin queue
               PROVE  \/ Cardinality(BlockedOn(t)) = 1 /\ waiting[t]
                      \/ BlockedOn(t) = {} /\ IsPosted(agenda, Resume(t))
    BY DEF NoLostTask
  <2>1. IsBlocked(t) \/ "resume" \in Of(agenda, t)
    BY TaskAssumption DEF KernelInv, TaskInv, Situation, Idle, Ready, Executing
  <2>2. CASE IsBlocked(t)
    <3>1. WaitsOneByOne
      BY Waiters DEF KernelInv
    <3>2. PICK r \in Resources : \E i \in DOMAIN blocked[r] : blocked[r][i].task = t
      BY <2>2 DEF IsBlocked
    <3>3. waiting[t] /\ Program[t][actInstr[t]].res = r
      BY <3>1, <3>2 DEF WaitsOneByOne, WaitsFor
    <3>4. \A s \in BlockedOn(t) : s = r
      BY <3>1, <3>3 DEF BlockedOn, WaitsOneByOne, WaitsFor
    <3>5. BlockedOn(t) = {r}
      BY <3>2, <3>4 DEF BlockedOn
    <3> QED
      BY <3>3, <3>5, FS_Singleton
  <2>3. CASE ~IsBlocked(t)
    <3>1. BlockedOn(t) = {}
      BY <2>3 DEF IsBlocked, BlockedOn
    <3> QED
      BY <2>1, <2>3, <3>1 DEF Of, Resume
  <2> QED
    BY <2>2, <2>3
<1> QED
  BY <1>1, KernelInvariant, PTL

-----------------------------------------------------------------------------
(* No units lie idle that the first of those who wait could have.            *)

LEMMA ScheduleKeepsUnits ==
    ASSUME Typed, NoIdleUnits, Now \in Nat, NEW t \in Tasks, Schedule(t),
           actInstr[t] \in 1..Len(Program[t])
    PROVE  NoIdleUnits'
<1>1. CASE UNCHANGED <<available, blocked>>
  BY <1>1 DEF NoIdleUnits
<1>2. CASE /\ Instr(t).op = "wait" /\ Grantable(Instr(t))
           /\ available' = [available EXCEPT ![Instr(t).res] = @ - Instr(t).nr]
           /\ UNCHANGED blocked
  <2>1. ASSUME NEW r \in Resources, blocked[r] # <<>>
        PROVE  available'[r] = available[r]
    <3>1. r # Instr(t).res
      BY <1>2, <2>1 DEF Grantable
    <3>2. available \in [Resources -> Nat]
      BY DEF Typed
    <3> QED
      BY <1>2, <3>1, <3>2
  <2> QED
    BY <1>2, <2>1 DEF NoIdleUnits
<1>3. CASE /\ Instr(t).op = "wait" /\ ~Grantable(Instr(t))
           /\ blocked' = [blocked EXCEPT ![Instr(t).res] =
                             Append(@, [task |-> t, nr |-> Instr(t).nr])]
           /\ UNCHANGED available
  <2>1. PICK r \in Resources, n \in Nat : r = Instr(t).res /\ n = Instr(t).nr
    BY <1>3, Instructions DEF Instr
  <2> DEFINE w == [task |-> t, nr |-> n]
             W == [task : Tasks, nr : Nat]
  <2>2. /\ w \in W /\ w.nr = n
        /\ blocked \in [Resources -> Seq(W)]
        /\ available \in [Resources -> Nat]
        /\ blocked' = [blocked EXCEPT ![r] = Append(@, w)]
    BY <1>3, <2>1 DEF Typed
  <2>3. blocked[r] = <<>> => available[r] < n
    BY <1>3, <2>1, <2>2 DEF Grantable, EnoughUnits
  <2> HIDE DEF w, W
  <2>4. /\ blocked'[r] = Append(blocked[r], w)
        /\ \A s \in Resources : s # r => blocked'[s] = blocked[s]
    BY <2>2
  <2>5. /\ blocked[r] = <<>> => blocked'[r][1] = w
        /\ blocked[r] # <<>> => blocked'[r][1] = blocked[r][1]
    BY <2>2, <2>4
  <2>6. available[r] < blocked'[r][1].nr
    BY <2>2, <2>3, <2>5 DEF NoIdleUnits
  <2> QED
    BY <1>3, <2>4, <2>6 DEF NoIdleUnits
<1>4. CASE ScheduleSignal(t)
  <2>1. PICK r \in Resources, n \in Nat : r = Instr(t).res /\ n = Instr(t).nr
    BY <1>4, Instructions DEF Instr, ScheduleSignal
  <2>2. Release(r, n)
    BY <1>4, <2>1 DEF ScheduleSignal
  <2>3. PICK k \in 0..Len(blocked[r]) :
              /\ blocked' \in [Resources -> Seq([task : Tasks, nr : Nat])]
              /\ DOMAIN blocked'[r] = 1..Len(blocked[r]) - k
              /\ \A i \in DOMAIN blocked'[r] : /\ i + k \in DOMAIN blocked[r]
                                               /\ blocked'[r][i] = blocked[r][i + k]
              /\ \A s \in Resources : s # r => /\ blocked'[s] = blocked[s]
                                               /\ available'[s] = available[s]
              /\ k < Len(blocked[r]) => available'[r] < blocked[r][k + 1].nr
    BY <2>2, Releases
  <2>4. ASSUME blocked'[r] # <<>>
        PROVE  available'[r] < blocked'[r][1].nr
    <3>1. 1 \in DOMAIN blocked'[r]
      BY <2>3, <2>4
    <3> DEFINE l == Len(blocked[r])
    <3>2. l \in Nat
      BY Waiting
    <3>3. 1 \in 1..l - k /\ k \in 0..l
      BY <2>3, <3>1
    <3> HIDE DEF l
    <3>4. k < l /\ 1 + k = k + 1
      BY <3>2, <3>3
    <3> QED
      BY <2>3, <3>1, <3>4 DEF l
  <2> QED
    BY <2>3, <2>4 DEF NoIdleUnits
<1> QED
  BY <1>1, <1>2, <1>3, <1>4
     DEF Schedule, ScheduleExec, ScheduleSuspend, ScheduleWait, resVars

LEMMA OthersKeepUnits ==
    ASSUME NEW t,
           \/ OnBeginDispatch \/ OnEndDispatch \/ OnRound
           \/ OnArrival(t) \/ OnFakeArrival(t) \/ OnEndInstance(t)
           \/ OnDeadline(t) \/ OnKill(t) \/ OnSched(t) \/ OnDesched(t)
           \/ OnInstrEnd(t) \/ OnSuspend(t) \/ OnResume(t)
    PROVE  UNCHANGED resVars
<1>1. CASE OnBeginDispatch \/ OnEndDispatch \/ OnRound
  BY <1>1 DEF OnBeginDispatch, OnEndDispatch, OnRound, Throw
<1>2. CASE OnArrival(t) \/ OnFakeArrival(t) \/ OnEndInstance(t)
  BY <1>2 DEF OnArrival, OnFakeArrival, OnEndInstance, Throw
<1>3. CASE OnDeadline(t) \/ OnKill(t) \/ OnSched(t) \/ OnDesched(t)
  BY <1>3 DEF OnDeadline, OnKill, OnSched, OnDesched, Throw
<1>4. CASE OnInstrEnd(t) \/ OnSuspend(t) \/ OnResume(t)
  BY <1>4 DEF OnInstrEnd, OnSuspend, OnResume, Throw
<1> QED
  BY <1>1, <1>2, <1>3, <1>4

(* FCFSResManager leaves no units idle that the first of those who wait      *)
(* could have, whatever is requested and released, and in whatever order.   *)
THEOREM UnitsAreUsed ==
    ASSUME Sound
    PROVE  Spec => []NoIdleUnits
<1>1. Init => NoIdleUnits
  BY DEF Init, NoIdleUnits
<1>2. KernelInv /\ NoIdleUnits /\ [Next]_vars => NoIdleUnits'
  <2> SUFFICES ASSUME KernelInv, NoIdleUnits, [Next]_vars
               PROVE  NoIdleUnits'
    OBVIOUS
  <2>1. CASE UNCHANGED resVars
    BY <2>1 DEF resVars, NoIdleUnits
  <2>2. CASE NewRun
    BY <2>2 DEF NewRun, ResetResources, NoIdleUnits
  <2>3. ASSUME NEW t \in Tasks, Schedule(t) PROVE NoIdleUnits'
    <3>1. call = t
      BY <2>3 DEF Schedule
    <3>2. Now \in Nat /\ Typed /\ actInstr[t] \in 1..Len(Program[t])
      BY <3>1, Calling DEF KernelInv
    <3> QED
      BY <2>3, <3>2, ScheduleKeepsUnits
  <2>4. CASE OnBeginDispatch \/ OnEndDispatch \/ OnRound
    BY <2>1, <2>4, OthersKeepUnits
  <2>5. ASSUME NEW t \in Tasks,
               \/ OnArrival(t) \/ OnFakeArrival(t) \/ OnEndInstance(t)
               \/ OnDeadline(t) \/ OnKill(t) \/ OnSched(t) \/ OnDesched(t)
               \/ OnInstrEnd(t) \/ OnSuspend(t) \/ OnResume(t)
        PROVE  NoIdleUnits'
    BY <2>1, <2>5, OthersKeepUnits
  <2>6. CASE UNCHANGED vars
    BY <2>1, <2>6 DEF vars
  <2> QED
    BY <2>2, <2>3, <2>4, <2>5, <2>6 DEF Next, Steps, Over
<1> QED
  BY <1>1, <1>2, KernelInvariant, PTL DEF Spec

-----------------------------------------------------------------------------
(* While no dispatch is due, the first task of the queue has the CPU.        *)

FirstInv == IsPosted(agenda, Begin) \/ currExe = First

(* A drop takes no other event away. *)
LEMMA DropLeaves ==
    ASSUME NEW q \in Seq(EventEntry), NEW e
    PROVE  /\ DropFrom(q, e) \in Seq(EventEntry)
           /\ \A f : f # e /\ IsPosted(q, f) => IsPosted(DropFrom(q, e), f)
<1>1. CASE ~IsPosted(q, e)
  BY <1>1 DEF DropFrom
<1>2. CASE IsPosted(q, e)
  <2> DEFINE k == CHOOSE i \in DOMAIN q : q[i].ev = e
             p == RemoveAt(q, k)
  <2>1. DropFrom(q, e) = p
    BY <1>2 DEF DropFrom
  <2>2. k \in DOMAIN q /\ q[k].ev = e
    BY <1>2 DEF IsPosted
  <2>3. DOMAIN q = 1..Len(q) /\ Len(q) \in Nat
    OBVIOUS
  <2> HIDE DEF k
  <2>4. /\ p \in Seq(EventEntry) /\ Len(p) = Len(q) - 1
        /\ \A i \in 1..Len(q) - 1 : p[i] = IF i < k THEN q[i] ELSE q[i + 1]
    BY <2>2, <2>3, RemoveAtPlaces
  <2> HIDE DEF p
  <2>5. DOMAIN p = 1..Len(q) - 1
    BY <2>4
  <2>6. ASSUME NEW f, f # e, IsPosted(q, f) PROVE IsPosted(p, f)
    <3>1. PICK i \in 1..Len(q) : q[i].ev = f
      BY <2>3, <2>6 DEF IsPosted
    <3>2. i # k
      BY <2>2, <2>6, <3>1
    <3>3. CASE i < k
      <4>1. i \in 1..Len(q) - 1 /\ p[i] = q[i]
        BY <2>2, <2>3, <2>4, <3>3
      <4> QED
        BY <2>5, <3>1, <4>1 DEF IsPosted
    <3>4. CASE i > k
      <4>1. i - 1 \in 1..Len(q) - 1 /\ ~(i - 1 < k) /\ i - 1 + 1 = i
        BY <2>2, <2>3, <3>4
      <4>2. p[i - 1] = q[i]
        BY <2>4, <4>1
      <4> QED
        BY <2>5, <3>1, <4>1, <4>2 DEF IsPosted
    <3> QED
      BY <2>2, <2>3, <3>2, <3>3, <3>4
  <2> QED
    BY <2>1, <2>4, <2>6
<1> QED
  BY <1>1, <1>2

(* A post takes no event away. *)
LEMMA PostLeaves ==
    ASSUME NEW q \in Seq(EventEntry), NEW e \in Events, NEW at \in Nat,
           NEW p \in Nat
    PROVE  /\ PostIn(q, Entry(e, at, p)) \in Seq(EventEntry)
           /\ \A f : IsPosted(PostIn(q, Entry(e, at, p)), f)
                        <=> IsPosted(q, f) \/ e = f
<1>1. Entry(e, at, p) \in EventEntry /\ Entry(e, at, p).ev = e
  BY EntriesHaveTimes, EntryParts
<1>2. PICK y \in EventEntry : y = Entry(e, at, p)
  BY <1>1
<1>3. PostIn(q, y) \in Seq(EventEntry)
  BY PostPlaces
<1>4. \A f : IsPosted(PostIn(q, y), f) <=> IsPosted(q, f) \/ y.ev = f
  BY PostPosts
<1> QED
  BY <1>1, <1>2, <1>3, <1>4

(* What follows takes a dispatch away from no agenda. *)
StillDue(p, q) ==
    p \in Seq(EventEntry) /\ (IsPosted(q, Begin) => IsPosted(p, Begin))

Due(q) == q \in Seq(EventEntry) /\ IsPosted(q, Begin)

LEMMA DispatchIsDue ==
    ASSUME NEW q \in Seq(EventEntry), Now \in Nat
    PROVE  Due(Dispatching(q))
<1>1. DropFrom(q, Begin) \in Seq(EventEntry)
  BY DropLeaves
<1> QED
  BY <1>1, PostLeaves, EventsAreEvents, Priorities DEF Dispatching, Post, Due

LEMMA OthersLeaveDispatch ==
    ASSUME NEW q \in Seq(EventEntry), Now \in Nat
    PROVE  /\ \A e \in Events, at \in Nat : StillDue(Post(q, e, at), q)
           /\ \A e \in Events : e # Begin => StillDue(Process(q, e), q)
           /\ \A e : e # Begin => StillDue(DropFrom(q, e), q)
           /\ \A t \in Tasks : StillDue(Descheduled(q, t), q)
           /\ \A t \in Tasks : StillDue(Notified(q, t), q)
           /\ StillDue(Notified(q, None), q)
<1>1. \A p \in Seq(EventEntry), e \in Events, at \in Nat, n \in Nat :
         StillDue(PostIn(p, Entry(e, at, n)), p)
  BY PostLeaves DEF StillDue
<1>2. \A p \in Seq(EventEntry) : \A e : e # Begin => StillDue(DropFrom(p, e), p)
  BY DropLeaves DEF StillDue
<1>3. \A p \in Seq(EventEntry), e \in Events, at \in Nat : StillDue(Post(p, e, at), p)
  BY <1>1, Priorities DEF Post
<1>4. \A p \in Seq(EventEntry), e \in Events : e # Begin => StillDue(Process(p, e), p)
  BY <1>1, <1>2 DEF Process, StillDue
<1>5. \A t : Sched(t) # Begin /\ Desched(t) # Begin /\ Round # Begin
  BY NotOfTask, KindOf
<1>6. \A t \in Tasks : Desched(t) \in Events
  BY EventsAreEvents DEF Kinds, Desched
<1>7. \A t \in Tasks : StillDue(Descheduled(q, t), q)
  BY <1>2, <1>4, <1>5, <1>6 DEF Descheduled, StillDue
<1>8. \A t \in Tasks \cup {None} : StillDue(Notified(q, t), q)
  <2> SUFFICES ASSUME NEW t \in Tasks \cup {None}
               PROVE  StillDue(Notified(q, t), q)
    OBVIOUS
  <2>1. StillDue(q, q) /\ StillDue(DropFrom(q, Round), q)
    BY <1>2, <1>5 DEF StillDue
  <2>2. t # None => StillDue(Post(DropFrom(q, Round), Round, Now + Slice[t]), q)
    <3>1. t # None => Now + Slice[t] \in Nat
      BY TaskAssumption
    <3> QED
      BY <1>3, <2>1, <3>1, EventsAreEvents DEF StillDue
  <2> QED
    BY <2>1, <2>2 DEF Notified
<1> QED
  BY <1>2, <1>3, <1>4, <1>7, <1>8

(* The first of the queue, when neither the queue nor a rank changes. *)
LEMMA FirstIsTheSame ==
    ASSUME queue' = queue, insertTime' = insertTime, \A t : Rank(t)' = Rank(t)
    PROVE  First' = First
<1>1. \A t, u : Ahead(t, u)' <=> Ahead(t, u)
  BY DEF Ahead
<1>2. (CHOOSE t \in queue : \A u \in queue \ {t} : Ahead(t, u))'
         = CHOOSE t \in queue : \A u \in queue \ {t} : Ahead(t, u)
  BY <1>1, Zenon
<1>3. CASE queue = {}
  BY <1>3 DEF First
<1>4. CASE queue # {}
  <2>1. First = CHOOSE t \in queue : \A u \in queue \ {t} : Ahead(t, u)
    BY <1>4, Zenon DEF First
  <2>2. First' = (CHOOSE t \in queue : \A u \in queue \ {t} : Ahead(t, u))'
    BY <1>4, Zenon DEF First
  <2> QED
    BY <1>2, <2>1, <2>2, Zenon
<1> QED
  BY <1>3, <1>4

LEMMA FirstStays ==
    ASSUME FirstInv, StillDue(agenda', agenda),
           UNCHANGED <<queue, insertTime, dl, policy, currExe>>
    PROVE  FirstInv'
<1>1. \A t : Rank(t)' = Rank(t)
  BY DEF Rank
<1>2. First' = First
  BY <1>1, FirstIsTheSame
<1> QED
  BY <1>2 DEF FirstInv, StillDue

LEMMA DueIsEnough ==
    ASSUME Due(agenda')
    PROVE  FirstInv'
BY DEF FirstInv, Due

(* What a handler finds of the agenda. *)
LEMMA RestIsDue ==
    ASSUME KernelInv, NEW e, e # Begin, Comes(e) \/ Enters(e)
    PROVE  /\ Now \in Nat /\ StillDue(Rest, agenda) /\ Rest \in Seq(EventEntry)
           /\ StillDue(agenda, agenda) /\ GoodAgenda(Rest, Now) /\ policy' = policy
<1>1. Entered(e) /\ policy' = policy
  BY Entering DEF Comes, Enters
<1>2. GoodAgenda(Rest, Now) /\ GoodAgenda(agenda, Now) /\ Now \in Nat
  BY <1>1 DEF Entered
<1>3. Rest \in Seq(EventEntry) /\ agenda \in Seq(EventEntry)
  BY <1>2 DEF GoodAgenda
<1>4. \A f : f # e => (IsPosted(Rest, f) <=> IsPosted(agenda, f))
  BY <1>1 DEF Entered, Loses
<1> QED
  BY <1>1, <1>2, <1>3, <1>4 DEF StillDue

(* An instruction that ends leaves the dispatch. *)
LEMMA EndLeavesDispatch ==
    ASSUME NEW q \in Seq(EventEntry), NEW t \in Tasks, Now \in Nat, InstrEnds(t, q)
    PROVE  StillDue(agenda', q)
<1>1. EndEvt(t) \in Events
  BY EventsAreEvents DEF Kinds, EndEvt
<1> QED
  BY <1>1, OthersLeaveDispatch DEF InstrEnds, StillDue

(* The handlers that change neither the queue nor a rank. *)
LEMMA QuietHandlers ==
    ASSUME KernelInv, FirstInv, NEW t \in Tasks,
           OnSched(t) \/ OnDesched(t) \/ OnInstrEnd(t) \/ OnDeadline(t)
    PROVE  FirstInv'
<1>1. /\ Sched(t) # Begin /\ Desched(t) # Begin /\ InstrEvt(t) # Begin
      /\ Dead(t) # Begin /\ EndEvt(t) # Begin
  BY NotOfTask DEF JobKinds, InstrEvt, EndEvt
<1>2. /\ FakeArr(t) \in Events /\ Kill(t) \in Events
  BY EventsAreEvents DEF Kinds, FakeArr, Kill
<1>3. CASE OnSched(t)
  <2>1. /\ Now \in Nat /\ StillDue(Rest, agenda) /\ Rest \in Seq(EventEntry)
        /\ StillDue(agenda, agenda) /\ policy' = policy
    BY <1>1, <1>3, RestIsDue DEF OnSched, Handles
  <2>2. agenda' = agenda \/ agenda' = DropFrom(Rest, Desched(t))
    BY <1>3 DEF OnSched, Throw
  <2>3. StillDue(agenda', agenda)
    BY <1>1, <2>1, <2>2, OthersLeaveDispatch DEF StillDue
  <2>4. UNCHANGED <<queue, insertTime, dl, currExe>>
    BY <1>3 DEF OnSched, Throw, kernelVars, jobVars
  <2> QED
    BY <2>1, <2>3, <2>4, FirstStays
<1>4. CASE OnDesched(t)
  <2>1. /\ Now \in Nat /\ StillDue(Rest, agenda) /\ Rest \in Seq(EventEntry)
        /\ StillDue(agenda, agenda) /\ policy' = policy
    BY <1>1, <1>4, RestIsDue DEF OnDesched, Handles
  <2>2. \/ agenda' = agenda
        \/ agenda' = DropFrom(DropFrom(Rest, EndEvt(t)), InstrEvt(t))
    BY <1>4 DEF OnDesched, Throw
  <2>3. StillDue(DropFrom(Rest, EndEvt(t)), Rest)
    BY <1>1, <2>1, OthersLeaveDispatch
  <2>4. StillDue(DropFrom(DropFrom(Rest, EndEvt(t)), InstrEvt(t)), agenda)
    BY <1>1, <2>1, <2>3, OthersLeaveDispatch DEF StillDue
  <2>5. UNCHANGED <<queue, insertTime, dl, currExe>>
    BY <1>4 DEF OnDesched, Throw, kernelVars, jobVars
  <2> QED
    BY <2>1, <2>2, <2>4, <2>5, FirstStays
<1>5. CASE OnInstrEnd(t)
  <2>1. /\ Now \in Nat /\ StillDue(Rest, agenda) /\ Rest \in Seq(EventEntry)
        /\ StillDue(agenda, agenda) /\ policy' = policy
    BY <1>1, <1>5, RestIsDue DEF OnInstrEnd, Handles
  <2>2. agenda' = agenda \/ InstrEnds(t, Rest)
    BY <1>5 DEF OnInstrEnd, Throw
  <2>3. StillDue(agenda', agenda)
    BY <2>1, <2>2, EndLeavesDispatch DEF StillDue
  <2>4. UNCHANGED <<queue, insertTime, dl, currExe>>
    BY <1>5 DEF OnInstrEnd, Throw, kernelVars, jobVars
  <2> QED
    BY <2>1, <2>3, <2>4, FirstStays
<1>6. CASE OnDeadline(t)
  <2> DEFINE q == IF arrQueue[t] = <<>> THEN Rest ELSE Post(Rest, FakeArr(t), Now)
             r == IF state[t] = "EXEC" THEN Descheduled(q, t) ELSE q
  <2>1. /\ Now \in Nat /\ StillDue(Rest, agenda) /\ Rest \in Seq(EventEntry)
        /\ policy' = policy
    BY <1>1, <1>6, RestIsDue DEF OnDeadline, Handles
  <2>2. agenda' = Post(r, Kill(t), Now) \/ agenda' = Rest
    BY <1>6 DEF OnDeadline
  <2>3. StillDue(q, agenda)
    BY <1>2, <2>1, OthersLeaveDispatch DEF StillDue
  <2> HIDE DEF q
  <2>4. StillDue(r, agenda)
    BY <2>1, <2>3, OthersLeaveDispatch DEF StillDue
  <2> HIDE DEF r
  <2>5. StillDue(Post(r, Kill(t), Now), agenda)
    BY <1>2, <2>1, <2>4, OthersLeaveDispatch DEF StillDue
  <2>6. UNCHANGED <<queue, insertTime, dl, currExe>>
    BY <1>6 DEF OnDeadline, kernelVars, jobVars
  <2> QED
    BY <2>1, <2>2, <2>5, <2>6, FirstStays
<1> QED
  BY <1>3, <1>4, <1>5, <1>6

(* The handlers of arrivals and ends of jobs. *)
LEMMA JobHandlers ==
    ASSUME KernelInv, FirstInv, NEW t \in Tasks,
           OnArrival(t) \/ OnFakeArrival(t) \/ OnEndInstance(t) \/ OnKill(t)
    PROVE  FirstInv'
<1>1. /\ InstrEvt(t) # Begin /\ Dead(t) # Begin /\ EndEvt(t) # Begin
      /\ FakeArr(t) # Begin /\ Kill(t) # Begin /\ Arr(t) # Begin
  BY NotOfTask, KindOf, EventParts DEF JobKinds, InstrEvt, EndEvt, Kill, Arr
<1>2. /\ FakeArr(t) \in Events /\ Arr(t) \in Events /\ Dead(t) \in Events
  BY EventsAreEvents DEF Kinds, FakeArr, Arr, Dead
<1>3. ASSUME NEW q \in Seq(EventEntry), Now \in Nat, agenda' \in Reactivate(t, q)
      PROVE  StillDue(agenda', q)
  <2>1. \A v \in Periods[t] : StillDue(Post(q, Arr(t), Now + v), q)
    BY <1>2, <1>3, OthersLeaveDispatch, TaskAssumption
  <2>2. StillDue(q, q)
    BY DEF StillDue
  <2> QED
    BY <1>3, <2>1, <2>2 DEF Reactivate
<1>4. ASSUME Now \in Nat, NEW d \in Nat, Rest \in Seq(EventEntry)
      PROVE  WithDeadline(Rest, t, d) \in Seq(EventEntry)
  BY <1>1, <1>2, <1>4, OthersLeaveDispatch DEF WithDeadline, StillDue
<1>5. CASE OnArrival(t)
  <2>1. /\ Now \in Nat /\ StillDue(Rest, agenda) /\ Rest \in Seq(EventEntry)
        /\ policy' = policy
    BY <1>1, <1>5, RestIsDue DEF OnArrival, Handles
  <2>2. CASE state[t] = "IDLE"
    <3>1. Now + RelDeadline[t] \in Nat
      BY <2>1, TaskAssumption
    <3> DEFINE q == Dispatching(WithDeadline(Rest, t, Now + RelDeadline[t]))
    <3>2. Due(q)
      BY <1>4, <2>1, <3>1, DispatchIsDue
    <3>3. agenda' \in Reactivate(t, q)
      BY <1>5, <2>2 DEF OnArrival
    <3> HIDE DEF q
    <3>4. Due(agenda')
      BY <1>3, <2>1, <3>2, <3>3 DEF Due, StillDue
    <3> QED
      BY <3>4, DueIsEnough
  <2>3. CASE state[t] # "IDLE"
    <3> DEFINE q == Process(Rest, Dead(t))
    <3>1. StillDue(q, Rest)
      BY <1>1, <1>2, <2>1, OthersLeaveDispatch
    <3>2. agenda' \in Reactivate(t, q)
      BY <1>5, <2>3 DEF OnArrival
    <3> HIDE DEF q
    <3>3. StillDue(agenda', agenda)
      BY <1>3, <2>1, <3>1, <3>2 DEF StillDue
    <3>4. UNCHANGED <<queue, insertTime, dl, currExe>>
      BY <1>5, <2>3 DEF OnArrival, kernelVars
    <3> QED
      BY <2>1, <3>3, <3>4, FirstStays
  <2> QED
    BY <2>2, <2>3
<1>6. CASE OnFakeArrival(t)
  <2>1. /\ Now \in Nat /\ Rest \in Seq(EventEntry) /\ policy' = policy
        /\ StillDue(agenda, agenda)
    BY <1>1, <1>6, RestIsDue DEF OnFakeArrival, Handles
  <2>2. CASE arrQueue[t] = <<>> \/ state[t] # "IDLE"
    <3>1. UNCHANGED <<queue, insertTime, dl, currExe, agenda>>
      BY <1>6, <2>2 DEF OnFakeArrival, Throw, kernelVars, jobVars
    <3> QED
      BY <2>1, <3>1, FirstStays
  <2>3. CASE arrQueue[t] # <<>> /\ state[t] = "IDLE"
    <3> DEFINE d == GetBuffArrival(t) + RelDeadline[t]
    <3>1. d \in Nat
      <4>1. arrQueue[t] \in Seq(Nat)
        BY DEF KernelInv, Typed
      <4> QED
        BY <2>3, <4>1, TaskAssumption DEF GetBuffArrival
    <3>2. agenda' = Dispatching(WithDeadline(Rest, t, d))
      BY <1>6, <2>3 DEF OnFakeArrival
    <3> HIDE DEF d
    <3>3. Due(agenda')
      BY <1>4, <2>1, <3>1, <3>2, DispatchIsDue
    <3> QED
      BY <3>3, DueIsEnough
  <2> QED
    BY <2>2, <2>3
<1>7. CASE OnEndInstance(t)
  <2>1. /\ Now \in Nat /\ Rest \in Seq(EventEntry) /\ policy' = policy
        /\ StillDue(agenda, agenda)
    BY <1>1, <1>7, RestIsDue DEF OnEndInstance, Handles
  <2> DEFINE q == Dispatching(DeadlineDropped(Rest, t))
  <2>2. \/ UNCHANGED <<queue, insertTime, dl, currExe, agenda>>
        \/ agenda' = ServesBuffer(q, t)
    BY <1>7 DEF OnEndInstance, Throw, kernelVars, jobVars
  <2>3. Due(q)
    BY <1>1, <2>1, DispatchIsDue, OthersLeaveDispatch DEF DeadlineDropped, StillDue
  <2> HIDE DEF q
  <2>4. Due(ServesBuffer(q, t))
    <3>1. StillDue(Process(q, FakeArr(t)), q)
      BY <1>1, <1>2, <2>1, <2>3, OthersLeaveDispatch DEF Due
    <3> QED
      BY <2>3, <3>1 DEF ServesBuffer, Due, StillDue
  <2> QED
    BY <2>1, <2>2, <2>4, FirstStays, DueIsEnough
<1>8. CASE OnKill(t)
  <2>1. /\ Now \in Nat /\ Rest \in Seq(EventEntry) /\ GoodAgenda(Rest, Now)
    BY <1>1, <1>8, RestIsDue DEF OnKill
  <2> DEFINE q == Dispatching(Rest)
  <2>2. agenda' = DropAllFrom(q, TaskEvents(t))
    BY <1>8 DEF OnKill
  <2>3. Due(q) /\ GoodAgenda(q, Now)
    BY <2>1, DispatchIsDue, DispatchMoves
  <2> HIDE DEF q
  <2>4. /\ agenda' \in Seq(EventEntry)
        /\ Entries(agenda') = {x \in Entries(q) : x.ev \notin TaskEvents(t)}
    BY <2>2, <2>3, DropAllEntries DEF GoodAgenda
  <2>5. Begin \notin TaskEvents(t)
    BY <1>1, NotOfTask DEF TaskEvents
  <2>6. Due(agenda')
    BY <2>3, <2>4, <2>5, PostedEntries DEF Due
  <2> QED
    BY <2>6, DueIsEnough
<1> QED
  BY <1>5, <1>6, <1>7, <1>8

(* The handlers of the dispatcher. *)
LEMMA DispatchHandlers ==
    ASSUME KernelInv, KernelInv', FirstInv,
           OnBeginDispatch \/ OnEndDispatch \/ OnRound
    PROVE  FirstInv'
<1>1. EndDisp # Begin /\ Round # Begin /\ EndDisp \in Events /\ Round \in Events
  BY KindOf, EventsAreEvents
<1>2. \A t \in Tasks : Sched(t) # Begin /\ Sched(t) \in Events
  BY NotOfTask, EventsAreEvents DEF Kinds, Sched
<1>3. FirstIsAhead /\ currExe \in Tasks \cup {None} /\ queue \subseteq Tasks
      /\ None \notin Tasks
  BY FirstOfQueue, TaskAssumption DEF KernelInv, Typed
<1>4. FirstIsAhead' /\ queue' \subseteq Tasks
  <2>2. Typed'
    BY DEF KernelInv
  <2>3. FirstIsAhead'
    BY <2>2, FirstOfQueue, PTL
  <2> QED
    BY <2>2, <2>3 DEF Typed
<1>5. CASE OnBeginDispatch
  <2>1. UNCHANGED <<queue, insertTime, dl, policy>>
    BY <1>5 DEF OnBeginDispatch, Handles, Enters, Comes, jobVars
  <2>2. First' = First
    <3>1. \A t : Rank(t)' = Rank(t)
      BY <2>1 DEF Rank
    <3> QED
      BY <2>1, <3>1, FirstIsTheSame
  <2>3. currExe = First => currExe' = currExe
    BY <1>5 DEF OnBeginDispatch
  <2>4. ~(First = None /\ currExe # None)
    <3>1. currExe \in Tasks => currExe \in queue
      BY <1>3 DEF KernelInv, TaskInv, Situation, Scheduling, Idle, Ready, Executing
    <3> QED
      BY <1>3, <3>1 DEF FirstIsAhead
  <2>5. currExe # First => currExe' = First
    BY <1>5, <2>4 DEF OnBeginDispatch
  <2> QED
    BY <2>2, <2>3, <2>5 DEF FirstInv
<1>6. CASE OnEndDispatch
  <2>1. /\ Now \in Nat /\ StillDue(Rest, agenda) /\ Rest \in Seq(EventEntry)
        /\ StillDue(agenda, agenda) /\ policy' = policy
    BY <1>1, <1>6, RestIsDue DEF OnEndDispatch
  <2>2. UNCHANGED <<queue, insertTime, dl, currExe>>
    BY <1>6 DEF OnEndDispatch, Throw, kernelVars, jobVars
  <2>3. CASE currExe = None
    BY <1>6, <2>1, <2>2, <2>3, FirstStays DEF OnEndDispatch, Throw
  <2>4. CASE currExe # None
    <3> DEFINE q == Process(Rest, Sched(currExe))
    <3>1. currExe \in Tasks /\ agenda' = Notified(q, currExe)
      BY <1>3, <1>6, <2>4 DEF OnEndDispatch
    <3>2. StillDue(q, Rest)
      BY <1>2, <2>1, <3>1, OthersLeaveDispatch
    <3> HIDE DEF q
    <3>3. StillDue(agenda', q)
      BY <2>1, <3>1, <3>2, OthersLeaveDispatch DEF StillDue
    <3> QED
      BY <2>1, <2>2, <3>2, <3>3, FirstStays DEF StillDue
  <2> QED
    BY <2>3, <2>4
<1>7. CASE OnRound
  <2>1. /\ Now \in Nat /\ StillDue(Rest, agenda) /\ Rest \in Seq(EventEntry)
        /\ policy' = policy
    BY <1>1, <1>7, RestIsDue DEF OnRound, Handles
  <2>2. CASE First = None
    <3>1. UNCHANGED <<queue, insertTime, dl, currExe>> /\ agenda' = Rest
      BY <1>7, <2>2 DEF OnRound, jobVars
    <3> QED
      BY <2>1, <3>1, FirstStays
  <2>3. CASE First # None
    <3>1. First' \in Tasks
      <4>1. queue' = queue /\ queue # {}
        BY <1>3, <1>7, <2>3 DEF OnRound, FirstIsAhead
      <4> QED
        BY <1>4, <4>1 DEF FirstIsAhead
    <3>2. StillDue(Notified(Rest, First'), Rest)
      BY <2>1, <3>1, OthersLeaveDispatch
    <3>3. Due(agenda')
      BY <1>7, <2>1, <2>3, <3>2, DispatchIsDue DEF OnRound, StillDue
    <3> QED
      BY <3>3, DueIsEnough
  <2> QED
    BY <2>2, <2>3
<1> QED
  BY <1>5, <1>6, <1>7

(* What is scheduled. *)
LEMMA ScheduleHandler ==
    ASSUME KernelInv, FirstInv, NEW t \in Tasks, Schedule(t)
    PROVE  FirstInv'
<1>1. call = t /\ policy' = policy /\ now' = now
  BY DEF Schedule, rrVars
<1>2. /\ Now = now /\ Now \in Nat /\ actInstr[t] \in 1..Len(Program[t])
      /\ agenda \in Seq(EventEntry) /\ currExe = t
  BY <1>1, Calling DEF GoodAgenda
<1>3. /\ InstrEvt(t) \in Events /\ Susp(t) \in Events /\ Susp(t) # Begin
      /\ StillDue(agenda, agenda)
  BY <1>2, EventsAreEvents, NotOfTask DEF Kinds, JobKinds, InstrEvt, Susp, StillDue
<1>4. CASE ScheduleExec(t)
  <2>1. PICK c \in IF cost[t] = Undrawn THEN Instr(t).costs ELSE {cost[t]} :
           agenda' = Post(agenda, InstrEvt(t),
                          now + IF c > done[t] THEN c - done[t] ELSE 0)
    BY <1>4 DEF ScheduleExec
  <2>2. now + (IF c > done[t] THEN c - done[t] ELSE 0) \in Nat
    <3>1. Instr(t).costs \subseteq Nat /\ done[t] \in Nat
      BY <1>2, <1>4, Instructions DEF ScheduleExec, Instr, KernelInv, Typed
    <3>2. cost[t] # Undrawn => cost[t] \in Nat
      BY DEF KernelInv, Typed
    <3> QED
      BY <1>2, <2>1, <3>1, <3>2
  <2>3. StillDue(agenda', agenda)
    BY <1>2, <1>3, <2>1, <2>2, OthersLeaveDispatch
  <2>4. UNCHANGED <<queue, insertTime, dl, currExe>>
    BY <1>4 DEF ScheduleExec, kernelVars, jobVars
  <2> QED
    BY <1>1, <2>3, <2>4, FirstStays
<1>5. CASE ScheduleSuspend(t)
  <2>1. StillDue(agenda', agenda)
    BY <1>2, <1>3, <1>5, OthersLeaveDispatch DEF ScheduleSuspend
  <2>2. UNCHANGED <<queue, insertTime, dl, currExe>>
    BY <1>5 DEF ScheduleSuspend, kernelVars, jobVars
  <2> QED
    BY <1>1, <2>1, <2>2, FirstStays
<1>6. CASE ScheduleWait(t)
  <2>1. \/ InstrEnds(t, agenda) /\ UNCHANGED <<queue, insertTime, dl, currExe>>
        \/ agenda' = Dispatching(Suspended(agenda, t))
    BY <1>6 DEF ScheduleWait, kernelVars
  <2>2. InstrEnds(t, agenda) => StillDue(agenda', agenda)
    BY <1>2, EndLeavesDispatch
  <2>3. Due(Dispatching(Suspended(agenda, t)))
    <3>1. Suspended(agenda, t) \in Seq(EventEntry)
      BY <1>2, OthersLeaveDispatch DEF Suspended, StillDue
    <3> QED
      BY <1>2, <3>1, DispatchIsDue
  <2> QED
    BY <1>1, <2>1, <2>2, <2>3, FirstStays, DueIsEnough
<1>7. CASE ScheduleSignal(t)
  <2> DEFINE q == Dispatching(agenda)
  <2>1. InstrEnds(t, q)
    BY <1>7 DEF ScheduleSignal
  <2>2. Due(q)
    BY <1>2, DispatchIsDue
  <2> HIDE DEF q
  <2>3. Due(agenda')
    BY <1>2, <2>1, <2>2, EndLeavesDispatch DEF Due, StillDue
  <2> QED
    BY <2>3, DueIsEnough
<1> QED
  BY <1>4, <1>5, <1>6, <1>7 DEF Schedule

(* What the result needs of the programs: see the suspend run. *)
NoSuspension ==
    \A t \in Tasks : \A i \in DOMAIN Program[t] : Program[t][i].op # "suspend"

(* In programs that do not suspend, nobody comes to suspend or to resume. *)
LEMMA NobodySuspends ==
    ASSUME KernelInv, NoSuspension, NEW t \in Tasks
    PROVE  ~OnSuspend(t) /\ ~OnResume(t)
<1>1. SUFFICES ASSUME NEW k \in {"susp", "resume"}, Enters(<<k, t>>)
               PROVE  FALSE
  BY DEF OnSuspend, OnResume, Handles, Susp, Resume
<1>2. k \in Of(agenda, t)
  BY <1>1, Entering DEF Entered, Of, JobKinds
<1>3. Instr(t).op = "suspend" /\ TaskInv(t)
  BY <1>2 DEF KernelInv, TaskInv, InProgram
<1>4. actInstr[t] \in 1..Len(Program[t])
  <2>1. "end" \notin Of(agenda, t)
    BY <1>2, <1>3 DEF TaskInv, Situation, Scheduling, Idle, Ready, Executing
  <2> QED
    BY <1>3, <2>1, Programs DEF TaskInv, InProgram
<1> QED
  BY <1>3, <1>4, TaskAssumption DEF NoSuspension, Instr

(* The first task has the CPU, or a dispatch is due. *)
LEMMA FirstInvariant ==
    ASSUME Sound, NoSuspension
    PROVE  Spec => []FirstInv
<1>1. Init => FirstInv
  BY DEF Init, FirstInv, First
<1>2. KernelInv /\ KernelInv' /\ FirstInv /\ [Next]_vars => FirstInv'
  <2> SUFFICES ASSUME KernelInv, KernelInv', FirstInv, [Next]_vars
               PROVE  FirstInv'
    OBVIOUS
  <2>1. CASE NewRun
    BY <2>1 DEF NewRun, FirstInv, First
  <2>2. CASE OnBeginDispatch \/ OnEndDispatch \/ OnRound
    BY <2>2, DispatchHandlers
  <2>3. ASSUME NEW t \in Tasks,
               \/ OnArrival(t) \/ OnFakeArrival(t) \/ OnEndInstance(t)
               \/ OnDeadline(t) \/ OnKill(t) \/ OnSched(t) \/ OnDesched(t)
               \/ OnInstrEnd(t) \/ OnSuspend(t) \/ OnResume(t) \/ Schedule(t)
        PROVE  FirstInv'
    BY <2>3, QuietHandlers, JobHandlers, ScheduleHandler, NobodySuspends
  <2>4. CASE UNCHANGED vars
    <3>1. UNCHANGED <<agenda, queue, insertTime, dl, policy, currExe>>
      BY <2>4 DEF vars, kernelVars, jobVars, rrVars
    <3>2. StillDue(agenda', agenda)
      BY <3>1 DEF StillDue, KernelInv, GoodAgenda
    <3> QED
      BY <3>1, <3>2, FirstStays
  <2> QED
    BY <2>1, <2>2, <2>3, <2>4 DEF Next, Steps, Over
<1> QED
  BY <1>1, <1>2, KernelInvariant, PTL DEF Spec

(* kernel.hpp on dispatch(): whenever no dispatch is due, the CPU has the    *)
(* first task of the ready queue, with every scheduler, for all arrivals,    *)
(* costs and resources, as long as no program suspends.                     *)
THEOREM FirstHasTheCPU ==
    ASSUME Sound, NoSuspension
    PROVE  Spec => []FirstRuns
<1>1. FirstInv => FirstRuns
  BY DEF FirstInv, FirstRuns, Settled
<1> QED
  BY <1>1, FirstInvariant, PTL

-----------------------------------------------------------------------------
(* Jobs are served in the order of their arrivals.                           *)

(* The jobs of t that have arrived are in order, and the next arrives later. *)
JobInOrder(t) ==
    LET q == arrQueue[t]
    IN  /\ \A i \in 1..Len(q) : q[i] <= now
        /\ \A i, j \in 1..Len(q) : i < j => q[i] < q[j]
        /\ state[t] # "IDLE" => /\ arrival[t] <= now
                                /\ \A i \in 1..Len(q) : arrival[t] < q[i]
        /\ \A x \in Entries(agenda) : x.ev = Arr(t) =>
              /\ \A i \in 1..Len(q) : q[i] < x.at
              /\ state[t] # "IDLE" => arrival[t] < x.at

(* Events of which we must know who posts them. *)
Awaited == {"arr", "fakeArr", "instr"}

(* Of these, p has only some of the event f that q has not. *)
NothingNew(p, q, f) ==
    /\ p \in Seq(EventEntry)
    /\ \A x \in Entries(p) : x \in Entries(q) \/ x.ev[1] \notin Awaited \/ x.ev = f

(* The arrivals of two tasks differ, and no arrival is a dispatch. *)
LEMMA ArrivalsDiffer ==
    /\ \A t, u : t # u => Arr(t) # Arr(u) /\ FakeArr(t) # FakeArr(u)
    /\ \A t, u : /\ Arr(t) # Begin /\ Arr(t) # InstrEvt(u) /\ Arr(t) # FakeArr(u)
                 /\ FakeArr(t) # Begin /\ FakeArr(t) # InstrEvt(u)
BY EventParts DEF Arr, FakeArr, Begin, InstrEvt

LEMMA DropsAreFewer ==
    ASSUME NEW q \in Seq(EventEntry), NEW e
    PROVE  Entries(DropFrom(q, e)) \subseteq Entries(q)
<1>1. CASE ~IsPosted(q, e)
  BY <1>1 DEF DropFrom
<1>2. CASE IsPosted(q, e)
  <2> DEFINE k == CHOOSE i \in DOMAIN q : q[i].ev = e
             p == RemoveAt(q, k)
  <2>1. DropFrom(q, e) = p
    BY <1>2 DEF DropFrom
  <2>2. k \in DOMAIN q
    BY <1>2 DEF IsPosted
  <2>3. DOMAIN q = 1..Len(q) /\ Len(q) \in Nat
    OBVIOUS
  <2> HIDE DEF k
  <2>4. /\ p \in Seq(EventEntry) /\ Len(p) = Len(q) - 1
        /\ \A i \in 1..Len(q) - 1 : p[i] = IF i < k THEN q[i] ELSE q[i + 1]
    BY <2>2, <2>3, RemoveAtPlaces
  <2> HIDE DEF p
  <2>5. DOMAIN p = 1..Len(q) - 1
    BY <2>4
  <2>6. \A i \in 1..Len(q) - 1 : i \in 1..Len(q) /\ i + 1 \in 1..Len(q)
    BY <2>3
  <2>7. \A i \in DOMAIN p : p[i] \in Entries(q)
    BY <2>3, <2>4, <2>5, <2>6 DEF Entries
  <2> QED
    BY <2>1, <2>7 DEF Entries
<1> QED
  BY <1>1, <1>2

LEMMA PostsAreFew ==
    ASSUME NEW q \in Seq(EventEntry), NEW y \in EventEntry
    PROVE  Entries(PostIn(q, y)) \subseteq Entries(q) \cup {y}
<1> DEFINE k == Before(q, y)
           p == PostIn(q, y)
<1>1. /\ k \in 0..Len(q) /\ p \in Seq(EventEntry) /\ Len(p) = Len(q) + 1
      /\ \A i \in 1..Len(q) + 1 :
            p[i] = IF i <= k THEN q[i] ELSE IF i = k + 1 THEN y ELSE q[i - 1]
  BY PostPlaces
<1> HIDE DEF k, p
<1>2. /\ DOMAIN q = 1..Len(q) /\ Len(q) \in Nat /\ DOMAIN p = 1..Len(q) + 1
  BY <1>1
<1>3. \A i \in 1..Len(q) + 1 : /\ i <= k => i \in 1..Len(q)
                               /\ i > k + 1 => i - 1 \in 1..Len(q)
                               /\ i <= k \/ i = k + 1 \/ i > k + 1
  BY <1>1, <1>2
<1>4. \A i \in DOMAIN p : p[i] \in Entries(q) \cup {y}
  BY <1>1, <1>2, <1>3 DEF Entries
<1> QED
  BY <1>4 DEF Entries, p

LEMMA NothingNewFollows ==
    ASSUME NEW p, NEW q, NEW r, NEW f, NothingNew(p, q, f), NothingNew(q, r, f)
    PROVE  NothingNew(p, r, f)
BY DEF NothingNew

(* What posts none of these events, or only f. *)
LEMMA OthersPostNothingNew ==
    ASSUME NEW q \in Seq(EventEntry), Now \in Nat, NEW f
    PROVE  /\ \A e \in Events, at \in Nat : e[1] \notin Awaited \/ e = f
                 => NothingNew(Post(q, e, at), q, f)
           /\ \A e \in Events : e[1] \notin Awaited \/ e = f
                 => NothingNew(Process(q, e), q, f)
           /\ \A e : NothingNew(DropFrom(q, e), q, f)
           /\ NothingNew(Dispatching(q), q, f)
           /\ \A u \in Tasks : NothingNew(Descheduled(q, u), q, f)
           /\ \A u \in Tasks \cup {None} : NothingNew(Notified(q, u), q, f)
<1>1. \A p \in Seq(EventEntry), e \in Events, at \in Nat, n \in Nat :
         e[1] \notin Awaited \/ e = f
            => NothingNew(PostIn(p, Entry(e, at, n)), p, f)
  <2> SUFFICES ASSUME NEW p \in Seq(EventEntry), NEW e \in Events,
                      NEW at \in Nat, NEW n \in Nat, e[1] \notin Awaited \/ e = f
               PROVE  NothingNew(PostIn(p, Entry(e, at, n)), p, f)
    OBVIOUS
  <2>1. PICK y \in EventEntry : y = Entry(e, at, n) /\ y.ev = e
    BY EntriesHaveTimes, EntryParts
  <2>2. PostIn(p, y) \in Seq(EventEntry) /\ Entries(PostIn(p, y)) \subseteq Entries(p) \cup {y}
    BY PostPlaces, PostsAreFew
  <2> QED
    BY <2>1, <2>2 DEF NothingNew
<1>2. \A p \in Seq(EventEntry) : \A e : NothingNew(DropFrom(p, e), p, f)
  BY DropLeaves, DropsAreFewer DEF NothingNew
<1>3. \A p \in Seq(EventEntry), e \in Events, at \in Nat :
         e[1] \notin Awaited \/ e = f => NothingNew(Post(p, e, at), p, f)
  BY <1>1, Priorities DEF Post
<1>4. \A p \in Seq(EventEntry), e \in Events :
         e[1] \notin Awaited \/ e = f => NothingNew(Process(p, e), p, f)
  <2> SUFFICES ASSUME NEW p \in Seq(EventEntry), NEW e \in Events,
                      e[1] \notin Awaited \/ e = f
               PROVE  NothingNew(Process(p, e), p, f)
    OBVIOUS
  <2> DEFINE d == DropFrom(p, e)
  <2>1. NothingNew(d, p, f) /\ d \in Seq(EventEntry)
    BY <1>2 DEF NothingNew
  <2>2. Process(p, e) = PostIn(d, Entry(e, Now, 0))
    BY DEF Process
  <2> HIDE DEF d
  <2> QED
    BY <1>1, <2>1, <2>2, NothingNewFollows
<1>5. /\ Begin[1] \notin Awaited /\ Round[1] \notin Awaited /\ Begin \in Events /\ Round \in Events
      /\ \A u \in Tasks : Desched(u) \in Events /\ Desched(u)[1] \notin Awaited
  BY KindOf, EventsAreEvents, EventParts DEF Kinds, Desched, Awaited
<1>6. NothingNew(Dispatching(q), q, f)
  <2> DEFINE d == DropFrom(q, Begin)
  <2>1. NothingNew(d, q, f) /\ d \in Seq(EventEntry)
    BY <1>2 DEF NothingNew
  <2>2. Dispatching(q) = Post(d, Begin, Now)
    BY DEF Dispatching
  <2> HIDE DEF d
  <2> QED
    BY <1>3, <1>5, <2>1, <2>2, NothingNewFollows
<1>7. \A u \in Tasks : NothingNew(Descheduled(q, u), q, f)
  <2> SUFFICES ASSUME NEW u \in Tasks PROVE NothingNew(Descheduled(q, u), q, f)
    OBVIOUS
  <2> DEFINE d == DropFrom(q, Sched(u))
  <2>1. NothingNew(d, q, f) /\ d \in Seq(EventEntry)
    BY <1>2 DEF NothingNew
  <2>2. Descheduled(q, u) = Process(d, Desched(u))
    BY DEF Descheduled
  <2> HIDE DEF d
  <2> QED
    BY <1>4, <1>5, <2>1, <2>2, NothingNewFollows
<1>8. \A u \in Tasks \cup {None} : NothingNew(Notified(q, u), q, f)
  <2> SUFFICES ASSUME NEW u \in Tasks \cup {None}
               PROVE  NothingNew(Notified(q, u), q, f)
    OBVIOUS
  <2>1. NothingNew(q, q, f) /\ NothingNew(DropFrom(q, Round), q, f)
    BY <1>2 DEF NothingNew
  <2>2. u # None
           => NothingNew(Post(DropFrom(q, Round), Round, Now + Slice[u]), q, f)
    <3>1. u # None => Now + Slice[u] \in Nat
      BY TaskAssumption
    <3> QED
      BY <1>3, <1>5, <2>1, <3>1 DEF NothingNew
  <2> QED
    BY <2>1, <2>2 DEF Notified
<1> QED
  BY <1>2, <1>3, <1>4, <1>6, <1>7, <1>8

(* What the handlers post is neither, with the exceptions named. *)
LEMMA RestHasNothingNew ==
    ASSUME KernelInv, NEW e, Comes(e) \/ Enters(e), NEW f
    PROVE  /\ Now \in Nat /\ now' >= now
           /\ NothingNew(Rest, agenda, f) /\ NothingNew(agenda, agenda, f)
           /\ Rest \in Seq(EventEntry) /\ GoodAgenda(Rest, Now)
<1>1. Entered(e)
  BY Entering
<1> QED
  BY <1>1 DEF Entered, Loses, GoodAgenda, NothingNew

LEMMA EndPostsNothingNew ==
    ASSUME NEW q \in Seq(EventEntry), NEW t \in Tasks, Now \in Nat,
           InstrEnds(t, q), NEW f
    PROVE  NothingNew(agenda', q, f)
<1>1. EndEvt(t) \in Events /\ EndEvt(t)[1] \notin Awaited
  BY EventsAreEvents, EventParts DEF Kinds, EndEvt, Awaited
<1>2. NothingNew(q, q, f) /\ NothingNew(Post(q, EndEvt(t), Now), q, f)
  BY <1>1, OthersPostNothingNew DEF NothingNew
<1> QED
  BY <1>2 DEF InstrEnds

LEMMA DispatchPostsNothingNew ==
    ASSUME KernelInv, OnBeginDispatch \/ OnEndDispatch \/ OnRound, First' \in Tasks \cup {None}
    PROVE  NothingNew(agenda', agenda, Begin)
<1>1. EndDisp \in Events /\ EndDisp[1] \notin Awaited
  BY KindOf, EventsAreEvents DEF Awaited
<1>2. \A t \in Tasks : Sched(t) \in Events /\ Sched(t)[1] \notin Awaited
  BY EventsAreEvents, EventParts DEF Kinds, Sched, Awaited
<1>3. /\ First \in Tasks \cup {None} /\ currExe \in Tasks \cup {None}
  BY FirstOfQueue DEF FirstIsAhead, KernelInv, Typed
<1>4. /\ Now \in Nat /\ Rest \in Seq(EventEntry)
      /\ NothingNew(Rest, agenda, Begin) /\ NothingNew(agenda, agenda, Begin)
  BY RestHasNothingNew DEF OnBeginDispatch, OnEndDispatch, OnRound, Handles
<1>5. CASE OnBeginDispatch
  <2> DEFINE q == IF currExe = None THEN Rest ELSE Descheduled(Rest, currExe)
  <2>1. \/ agenda' = Notified(Rest, First) \/ agenda' = q
        \/ agenda' = Post(q, EndDisp, Now + ContextSwitchDelay)
    BY <1>5 DEF OnBeginDispatch
  <2>2. NothingNew(q, agenda, Begin)
    BY <1>3, <1>4, OthersPostNothingNew, NothingNewFollows
  <2> HIDE DEF q
  <2>3. NothingNew(Post(q, EndDisp, Now + ContextSwitchDelay), q, Begin)
    <3>1. Now + ContextSwitchDelay \in Nat /\ q \in Seq(EventEntry)
      BY <1>4, <2>2, KernelAssumption DEF NothingNew
    <3> QED
      BY <1>1, <1>4, <3>1, OthersPostNothingNew
  <2>4. NothingNew(Notified(Rest, First), Rest, Begin)
    BY <1>3, <1>4, OthersPostNothingNew
  <2> QED
    BY <1>4, <2>1, <2>2, <2>3, <2>4, NothingNewFollows
<1>6. CASE OnEndDispatch
  <2> DEFINE q == Process(Rest, Sched(currExe))
  <2>1. \/ agenda' = agenda
        \/ currExe \in Tasks /\ agenda' = Notified(q, currExe)
    BY <1>3, <1>6 DEF OnEndDispatch, Throw
  <2>2. currExe \in Tasks => NothingNew(q, Rest, Begin)
    BY <1>2, <1>4, OthersPostNothingNew
  <2> HIDE DEF q
  <2>3. currExe \in Tasks => NothingNew(Notified(q, currExe), q, Begin)
    BY <1>4, <2>2, OthersPostNothingNew DEF NothingNew
  <2> QED
    BY <1>4, <2>1, <2>2, <2>3, NothingNewFollows
<1>7. CASE OnRound
  <2>1. PICK q \in {Rest, Notified(Rest, First')} :
           agenda' = Rest \/ agenda' = Dispatching(q)
    BY <1>7 DEF OnRound
  <2>2. NothingNew(Notified(Rest, First'), Rest, Begin)
    BY <1>4, OthersPostNothingNew
  <2>3. NothingNew(q, agenda, Begin)
    BY <1>4, <2>1, <2>2, NothingNewFollows
  <2>4. NothingNew(Dispatching(q), q, Begin)
    BY <1>4, <2>3, OthersPostNothingNew DEF NothingNew
  <2> QED
    BY <1>4, <2>1, <2>3, <2>4, NothingNewFollows
<1> QED
  BY <1>5, <1>6, <1>7

(* Whoever suspends itself is at an instruction that says for how long. *)
LEMMA SuspendsForAWhile ==
    ASSUME KernelInv, NEW t \in Tasks, OnSuspend(t)
    PROVE  Instr(t).delay \in Nat
<1>1. "susp" \in Of(agenda, t)
  BY Entering DEF OnSuspend, Handles, Entered, Of, JobKinds, Susp
<1>2. Instr(t).op = "suspend" /\ TaskInv(t)
  BY <1>1 DEF KernelInv, TaskInv, InProgram
<1>3. "end" \notin Of(agenda, t)
  BY <1>1, <1>2 DEF TaskInv, Situation, Scheduling, Idle, Ready, Executing
<1>4. actInstr[t] \in 1..Len(Program[t])
  BY <1>2, <1>3, Programs DEF TaskInv, InProgram
<1> QED
  BY <1>2, <1>4, Instructions DEF Instr

LEMMA TaskPostsNothingNew ==
    ASSUME KernelInv, NEW t \in Tasks,
           \/ OnSched(t) \/ OnDesched(t) \/ OnInstrEnd(t) \/ OnDeadline(t)
           \/ OnSuspend(t) \/ OnResume(t),
           NEW f, f = FakeArr(t) \/ ~OnDeadline(t)
    PROVE  NothingNew(agenda', agenda, f)
<1>1. /\ FakeArr(t) \in Events
      /\ Kill(t) \in Events /\ Kill(t)[1] \notin Awaited
      /\ Resume(t) \in Events /\ Resume(t)[1] \notin Awaited
  BY EventsAreEvents, EventParts DEF Kinds, FakeArr, Kill, Resume, Awaited
<1>2. /\ Now \in Nat /\ Rest \in Seq(EventEntry)
      /\ NothingNew(Rest, agenda, f) /\ NothingNew(agenda, agenda, f)
  BY RestHasNothingNew
     DEF OnSched, OnDesched, OnInstrEnd, OnDeadline, OnSuspend, OnResume, Handles
<1>3. CASE OnSched(t)
  <2>1. agenda' = agenda \/ agenda' = DropFrom(Rest, Desched(t))
    BY <1>3 DEF OnSched, Throw
  <2>2. NothingNew(DropFrom(Rest, Desched(t)), Rest, f)
    BY <1>2, OthersPostNothingNew
  <2> QED
    BY <1>2, <2>1, <2>2, NothingNewFollows
<1>4. CASE OnDesched(t)
  <2> DEFINE q == DropFrom(Rest, EndEvt(t))
  <2>1. agenda' = agenda \/ agenda' = DropFrom(q, InstrEvt(t))
    BY <1>4 DEF OnDesched, Throw
  <2>2. NothingNew(q, Rest, f)
    BY <1>2, OthersPostNothingNew
  <2> HIDE DEF q
  <2>3. NothingNew(DropFrom(q, InstrEvt(t)), q, f)
    BY <1>2, <2>2, OthersPostNothingNew DEF NothingNew
  <2> QED
    BY <1>2, <2>1, <2>2, <2>3, NothingNewFollows
<1>5. CASE OnInstrEnd(t)
  <2>1. agenda' = agenda \/ InstrEnds(t, Rest)
    BY <1>5 DEF OnInstrEnd, Throw
  <2>2. InstrEnds(t, Rest) => NothingNew(agenda', Rest, f)
    BY <1>2, EndPostsNothingNew
  <2> QED
    BY <1>2, <2>1, <2>2, NothingNewFollows
<1>6. CASE OnDeadline(t)
  <2> DEFINE q == IF arrQueue[t] = <<>> THEN Rest ELSE Post(Rest, FakeArr(t), Now)
             r == IF state[t] = "EXEC" THEN Descheduled(q, t) ELSE q
  <2>1. agenda' = Post(r, Kill(t), Now) \/ agenda' = Rest
    BY <1>6 DEF OnDeadline
  <2>2. NothingNew(q, agenda, f)
    BY <1>1, <1>2, <1>6, OthersPostNothingNew, NothingNewFollows
  <2> HIDE DEF q
  <2>3. NothingNew(r, agenda, f)
    <3>1. NothingNew(Descheduled(q, t), q, f)
      BY <1>2, <2>2, OthersPostNothingNew DEF NothingNew
    <3> QED
      BY <2>2, <3>1, NothingNewFollows
  <2> HIDE DEF r
  <2>4. NothingNew(Post(r, Kill(t), Now), r, f)
    <3>1. r \in Seq(EventEntry)
      BY <2>3 DEF NothingNew
    <3> QED
      BY <1>1, <1>2, <3>1, OthersPostNothingNew
  <2> QED
    BY <1>2, <2>1, <2>3, <2>4, NothingNewFollows
<1>7. CASE OnSuspend(t)
  <2> DEFINE q == Suspended(Rest, t)
  <2>1. agenda' = Post(q, Resume(t), Now + Instr(t).delay)
    BY <1>7 DEF OnSuspend
  <2>2. NothingNew(q, agenda, f)
    BY <1>2, OthersPostNothingNew, NothingNewFollows DEF Suspended
  <2> HIDE DEF q
  <2>3. Now + Instr(t).delay \in Nat
    BY <1>2, <1>7, SuspendsForAWhile
  <2>4. NothingNew(agenda', q, f)
    <3>1. q \in Seq(EventEntry)
      BY <2>2 DEF NothingNew
    <3> DEFINE at == Now + Instr(t).delay
    <3>2. agenda' = Post(q, Resume(t), at) /\ at \in Nat
      BY <2>1, <2>3
    <3> HIDE DEF at
    <3> QED
      BY <1>1, <1>2, <3>1, <3>2, OthersPostNothingNew
  <2> QED
    BY <2>2, <2>4, NothingNewFollows
<1>8. CASE OnResume(t)
  <2> DEFINE q == Dispatching(Rest)
  <2>1. agenda' = agenda \/ InstrEnds(t, q)
    BY <1>8 DEF OnResume, Throw
  <2>2. NothingNew(q, Rest, f)
    BY <1>2, OthersPostNothingNew
  <2> HIDE DEF q
  <2>3. InstrEnds(t, q) => NothingNew(agenda', q, f)
    BY <1>2, <2>2, EndPostsNothingNew DEF NothingNew
  <2> QED
    BY <1>2, <2>1, <2>2, <2>3, NothingNewFollows
<1> QED
  BY <1>3, <1>4, <1>5, <1>6, <1>7, <1>8

LEMMA DeadlineIsNothingNew ==
    ASSUME NEW q \in Seq(EventEntry), Now \in Nat, NEW t \in Tasks, NEW d \in Nat,
           NEW f
    PROVE  NothingNew(WithDeadline(q, t, d), q, f)
<1>1. Dead(t) \in Events /\ Dead(t)[1] \notin Awaited
  BY EventsAreEvents, EventParts DEF Kinds, Dead, Awaited
<1> DEFINE r == DropFrom(q, InstrEvt(t))
<1>2. NothingNew(r, q, f) /\ r \in Seq(EventEntry)
  BY OthersPostNothingNew DEF NothingNew
<1>3. WithDeadline(q, t, d) \in {r, Post(r, Dead(t), d)}
  BY DEF WithDeadline
<1> HIDE DEF r
<1>4. NothingNew(Post(r, Dead(t), d), r, f)
  BY <1>1, <1>2, OthersPostNothingNew
<1> QED
  BY <1>2, <1>3, <1>4, NothingNewFollows

LEMMA JobPostsNothingNew ==
    ASSUME KernelInv, NEW t \in Tasks,
           OnFakeArrival(t) \/ OnEndInstance(t) \/ OnKill(t),
           NEW f, f = FakeArr(t) \/ ~OnEndInstance(t)
    PROVE  /\ NothingNew(agenda', agenda, f)
           /\ OnFakeArrival(t) /\ arrQueue[t] # <<>> /\ state[t] = "IDLE"
                 => NothingNew(agenda', Rest, f)
           /\ OnKill(t) => \A x \in Entries(agenda') : x.ev \notin TaskEvents(t)
<1>1. /\ FakeArr(t) \in Events
      /\ Dead(t) \in Events /\ Dead(t)[1] \notin Awaited
  BY EventsAreEvents, EventParts DEF Kinds, FakeArr, Dead, Awaited
<1>2. /\ Now \in Nat /\ Rest \in Seq(EventEntry) /\ GoodAgenda(Rest, Now)
      /\ NothingNew(Rest, agenda, f) /\ NothingNew(agenda, agenda, f)
  BY RestHasNothingNew DEF OnFakeArrival, OnEndInstance, OnKill, Handles
<1>3. ASSUME OnFakeArrival(t)
      PROVE  /\ NothingNew(agenda', agenda, f)
             /\ arrQueue[t] # <<>> /\ state[t] = "IDLE"
                   => NothingNew(agenda', Rest, f)
  <2>1. CASE arrQueue[t] = <<>> \/ state[t] # "IDLE"
    BY <1>2, <1>3, <2>1 DEF OnFakeArrival, Throw
  <2>2. CASE arrQueue[t] # <<>> /\ state[t] = "IDLE"
    <3> DEFINE d == GetBuffArrival(t) + RelDeadline[t]
               q == WithDeadline(Rest, t, d)
    <3>1. d \in Nat
      <4>1. arrQueue[t] \in Seq(Nat)
        BY DEF KernelInv, Typed
      <4> QED
        BY <2>2, <4>1, TaskAssumption DEF GetBuffArrival
    <3>2. agenda' = Dispatching(q)
      BY <1>3, <2>2 DEF OnFakeArrival
    <3> HIDE DEF d
    <3>3. NothingNew(q, Rest, f)
      BY <1>1, <1>2, <3>1, DeadlineIsNothingNew
    <3> HIDE DEF q
    <3>4. NothingNew(Dispatching(q), q, f)
      BY <1>2, <3>3, OthersPostNothingNew DEF NothingNew
    <3> QED
      BY <1>2, <3>2, <3>3, <3>4, NothingNewFollows
  <2> QED
    BY <2>1, <2>2
<1>4. ASSUME OnEndInstance(t) PROVE NothingNew(agenda', agenda, f)
  <2> DEFINE d == DropFrom(Rest, Dead(t))
             q == Dispatching(d)
  <2>1. agenda' = agenda \/ agenda' = q \/ agenda' = Process(q, FakeArr(t))
    BY <1>4 DEF OnEndInstance, Throw, DeadlineDropped, ServesBuffer
  <2>2. NothingNew(d, Rest, f) /\ d \in Seq(EventEntry)
    BY <1>2, OthersPostNothingNew DEF NothingNew
  <2> HIDE DEF d
  <2>3. NothingNew(q, d, f) /\ q \in Seq(EventEntry)
    BY <1>2, <2>2, OthersPostNothingNew DEF NothingNew
  <2> HIDE DEF q
  <2>4. NothingNew(Process(q, FakeArr(t)), q, f)
    BY <1>1, <1>2, <1>4, <2>3, OthersPostNothingNew
  <2> QED
    BY <1>2, <2>1, <2>2, <2>3, <2>4, NothingNewFollows
<1>5. ASSUME OnKill(t)
      PROVE  /\ NothingNew(agenda', agenda, f)
             /\ \A x \in Entries(agenda') : x.ev \notin TaskEvents(t)
  <2> DEFINE q == Dispatching(Rest)
  <2>1. agenda' = DropAllFrom(q, TaskEvents(t))
    BY <1>5 DEF OnKill
  <2>2. GoodAgenda(q, Now)
    BY <1>2, DispatchMoves
  <2>3. NothingNew(q, Rest, f)
    BY <1>2, OthersPostNothingNew
  <2> HIDE DEF q
  <2>4. /\ agenda' \in Seq(EventEntry)
        /\ Entries(agenda') = {x \in Entries(q) : x.ev \notin TaskEvents(t)}
    BY <2>1, <2>2, DropAllEntries DEF GoodAgenda
  <2>5. NothingNew(agenda', q, f)
    BY <2>4 DEF NothingNew
  <2> QED
    BY <1>2, <2>3, <2>4, <2>5, NothingNewFollows
<1> QED
  BY <1>3, <1>4, <1>5

LEMMA SchedulePostsNothingNew ==
    ASSUME KernelInv, NEW t \in Tasks, Schedule(t)
    PROVE  NothingNew(agenda', agenda, InstrEvt(t))
<1>1. call = t /\ now' = now
  BY DEF Schedule
<1>2. /\ Now = now /\ Now \in Nat /\ actInstr[t] \in 1..Len(Program[t])
      /\ agenda \in Seq(EventEntry)
  BY <1>1, Calling DEF GoodAgenda
<1>3. /\ InstrEvt(t) \in Events /\ InstrEvt(t)[1] = "instr"
      /\ Susp(t) \in Events /\ Susp(t)[1] \notin Awaited
  BY EventsAreEvents, EventParts DEF Kinds, InstrEvt, Susp, Awaited
<1>4. CASE ScheduleExec(t)
  <2>1. PICK c \in IF cost[t] = Undrawn THEN Instr(t).costs ELSE {cost[t]} :
           agenda' = Post(agenda, InstrEvt(t),
                          now + IF c > done[t] THEN c - done[t] ELSE 0)
    BY <1>4 DEF ScheduleExec
  <2>2. now + (IF c > done[t] THEN c - done[t] ELSE 0) \in Nat
    <3>1. Instr(t).costs \subseteq Nat /\ done[t] \in Nat
      BY <1>2, <1>4, Instructions DEF ScheduleExec, Instr, KernelInv, Typed
    <3>2. cost[t] # Undrawn => cost[t] \in Nat
      BY DEF KernelInv, Typed
    <3> QED
      BY <1>2, <2>1, <3>1, <3>2
  <2> QED
    BY <1>2, <1>3, <2>1, <2>2, OthersPostNothingNew
<1>5. CASE ScheduleSuspend(t)
  BY <1>2, <1>3, <1>5, OthersPostNothingNew DEF ScheduleSuspend
<1>6. CASE ScheduleWait(t)
  <2> DEFINE q == Suspended(agenda, t)
  <2>1. InstrEnds(t, agenda) \/ agenda' = Dispatching(q)
    BY <1>6 DEF ScheduleWait
  <2>2. NothingNew(q, agenda, InstrEvt(t)) /\ q \in Seq(EventEntry)
    <3>1. NothingNew(Descheduled(agenda, t), agenda, InstrEvt(t))
      BY <1>2, OthersPostNothingNew
    <3> QED
      BY <1>2, <3>1 DEF Suspended, NothingNew
  <2> HIDE DEF q
  <2>3. NothingNew(Dispatching(q), q, InstrEvt(t))
    BY <1>2, <2>2, OthersPostNothingNew
  <2>4. InstrEnds(t, agenda) => NothingNew(agenda', agenda, InstrEvt(t))
    BY <1>2, EndPostsNothingNew
  <2> QED
    BY <2>1, <2>2, <2>3, <2>4, NothingNewFollows
<1>7. CASE ScheduleSignal(t)
  <2> DEFINE q == Dispatching(agenda)
  <2>1. InstrEnds(t, q)
    BY <1>7 DEF ScheduleSignal
  <2>2. NothingNew(q, agenda, InstrEvt(t)) /\ q \in Seq(EventEntry)
    BY <1>2, OthersPostNothingNew DEF NothingNew
  <2> HIDE DEF q
  <2>3. NothingNew(agenda', q, InstrEvt(t))
    BY <1>2, <2>1, <2>2, EndPostsNothingNew
  <2> QED
    BY <2>2, <2>3, NothingNewFollows
<1> QED
  BY <1>4, <1>5, <1>6, <1>7 DEF Schedule

(* An arrival posts the next one of its task, later. *)
LEMMA ArrivalPostsItsNext ==
    ASSUME KernelInv, NEW t \in Tasks, OnArrival(t)
    PROVE  /\ NothingNew(agenda', agenda, Arr(t))
           /\ \A x \in Entries(agenda') : x.ev = Arr(t) => x.at > Now
<1>1. /\ Dead(t) \in Events /\ Dead(t)[1] \notin Awaited /\ Arr(t) \in Events
      /\ Arr(t)[1] = "arr"
  BY EventsAreEvents, EventParts DEF Kinds, Arr, Dead, Awaited
<1>2. /\ Now \in Nat /\ Rest \in Seq(EventEntry) /\ ~IsPosted(Rest, Arr(t))
      /\ NothingNew(Rest, agenda, Arr(t))
  <2>1. Enters(Arr(t))
    BY DEF OnArrival, Handles
  <2>2. Loses(Rest, agenda, Arr(t))
    BY <2>1, Entering DEF Entered
  <2> QED
    BY <2>1, <2>2, RestHasNothingNew DEF Loses
<1>3. PICK q : /\ agenda' \in Reactivate(t, q)
               /\ NothingNew(q, Rest, Arr(t)) /\ NothingNew(q, Rest, Begin)
  <2>1. CASE state[t] = "IDLE"
    <3> DEFINE d == Now + RelDeadline[t]
               r == WithDeadline(Rest, t, d)
    <3>1. d \in Nat
      BY <1>2, TaskAssumption
    <3>2. agenda' \in Reactivate(t, Dispatching(r))
      BY <2>1 DEF OnArrival
    <3> HIDE DEF d
    <3>3. NothingNew(r, Rest, Arr(t)) /\ NothingNew(r, Rest, Begin) /\ r \in Seq(EventEntry)
      BY <1>2, <3>1, DeadlineIsNothingNew DEF NothingNew
    <3> HIDE DEF r
    <3>4. /\ NothingNew(Dispatching(r), r, Arr(t))
          /\ NothingNew(Dispatching(r), r, Begin)
      BY <1>2, <3>3, OthersPostNothingNew
    <3> QED
      BY <3>2, <3>3, <3>4, NothingNewFollows
  <2>2. CASE state[t] # "IDLE"
    <3>1. agenda' \in Reactivate(t, Process(Rest, Dead(t)))
      BY <2>2 DEF OnArrival
    <3>2. /\ NothingNew(Process(Rest, Dead(t)), Rest, Arr(t))
          /\ NothingNew(Process(Rest, Dead(t)), Rest, Begin)
      BY <1>1, <1>2, OthersPostNothingNew
    <3> QED
      BY <3>1, <3>2
  <2> QED
    BY <2>1, <2>2
<1>4. \A x \in Entries(q) : x.ev # Arr(t)
  <2>1. Arr(t) # Begin
    BY ArrivalsDiffer
  <2>2. \A x \in Entries(Rest) : x.ev # Arr(t)
    BY <1>2, PostedEntries
  <2> QED
    BY <1>1, <1>3, <2>1, <2>2 DEF NothingNew, Awaited
<1>5. CASE agenda' = q
  BY <1>2, <1>3, <1>4, <1>5, NothingNewFollows
<1>6. ASSUME NEW v \in Nat, v > 0, agenda' = Post(q, Arr(t), Now + v)
      PROVE  /\ NothingNew(agenda', agenda, Arr(t))
             /\ \A x \in Entries(agenda') : x.ev = Arr(t) => x.at > Now
  <2>1. PICK at \in Nat : at = Now + v /\ at > Now
    BY <1>2, <1>6
  <2>2. q \in Seq(EventEntry)
    BY <1>3 DEF NothingNew
  <2>3. NothingNew(Post(q, Arr(t), at), q, Arr(t))
    BY <1>1, <1>2, <2>1, <2>2, OthersPostNothingNew
  <2>4. PICK y \in EventEntry : y = Entry(Arr(t), at, Priority(Arr(t))) /\ y.at = at
    BY <1>1, <2>1, EntriesHaveTimes, EntryParts, Priorities
  <2>5. agenda' = PostIn(q, y)
    BY <1>6, <2>1, <2>4 DEF Post
  <2>6. Entries(agenda') \subseteq Entries(q) \cup {y}
    BY <2>2, <2>5, PostsAreFew
  <2> QED
    BY <1>2, <1>3, <1>4, <1>6, <2>1, <2>3, <2>4, <2>6, NothingNewFollows
<1> QED
  BY <1>3, <1>5, <1>6, TaskAssumption DEF Reactivate

(* A step that concerns the arrivals of u at most by ending its job. *)
LEMMA JobStays ==
    ASSUME NEW u \in Tasks, JobInOrder(u), now \in Nat, now' \in Nat, now' >= now,
           arrQueue[u] \in Seq(Nat), arrival[u] \in Nat,
           arrQueue'[u] = arrQueue[u], arrival'[u] = arrival[u],
           state[u] = "IDLE" => state'[u] = "IDLE",
           \A x \in Entries(agenda') : x.ev = Arr(u) => x \in Entries(agenda)
    PROVE  JobInOrder(u)'
<1> DEFINE q == arrQueue[u]
<1>1. \A i \in 1..Len(q) : q[i] \in Nat /\ q[i] <= now
  BY DEF JobInOrder
<1>2. \A i \in 1..Len(q) : q[i] <= now'
  BY <1>1
<1>3. state'[u] # "IDLE" => arrival[u] <= now'
  BY DEF JobInOrder
<1> QED
  BY <1>2, <1>3 DEF JobInOrder

(* What is left of the other tasks. *)
LEMMA NoArrivalOf ==
    ASSUME NEW f, NEW u \in Tasks, Arr(u) # f, NothingNew(agenda', agenda, f)
    PROVE  \A x \in Entries(agenda') : x.ev = Arr(u) => x \in Entries(agenda)
<1>1. Arr(u)[1] \in Awaited
  BY EventParts DEF Arr, Awaited
<1> QED
  BY <1>1 DEF NothingNew

(* Task::onArrival of an idle task, which has no arrivals buffered. *)
LEMMA NothingIsBuffered ==
    ASSUME KernelInv, NEW t \in Tasks, OnArrival(t), state[t] = "IDLE"
    PROVE  arrQueue[t] = <<>>
<1>1. Entered(Arr(t))
  BY Entering DEF OnArrival, Handles
<1> SUFFICES ASSUME arrQueue[t] # <<>> PROVE FALSE
  OBVIOUS
<1>2. PICK y \in Entries(agenda) : y.ev = FakeArr(t) /\ y.prio = 0
  <2>1. BufferInTime(t) /\ "kill" \notin Of(agenda, t)
    BY TaskAssumption DEF KernelInv, TaskInv, Situation, Scheduling, Idle, Ready, Executing
  <2> QED
    BY <2>1, PostedEntries DEF BufferInTime
<1>3. Timed(y, now)
  BY <1>2, GoodEntries DEF KernelInv
<1>4. now \in Nat /\ Now \in Nat /\ Now >= now /\ y.at = now
  BY <1>1, <1>2, <1>3, EventParts DEF Timed, FakeArr, Entered, KernelInv, Typed
<1>5. Head(agenda).prio = 8
  <2>1. Arr(t)[1] = "arr"
    BY EventParts DEF Arr
  <2> QED
    BY <1>1, <2>1 DEF Entered, Timed
<1>6. y.at > Now \/ (y.at = Now /\ y.prio >= Head(agenda).prio)
  BY <1>1, <1>2, NotBefore
<1> QED
  BY <1>2, <1>4, <1>5, <1>6

LEMMA FirstJobInOrder ==
    ASSUME KernelInv, NEW t \in Tasks, JobInOrder(t), OnArrival(t), state[t] = "IDLE"
    PROVE  JobInOrder(t)'
<1>1. Entered(Arr(t))
  BY Entering DEF OnArrival, Handles
<1>2. Now \in Nat /\ now' = Now
  BY <1>1 DEF Entered
<1>3. arrQueue[t] = <<>>
  BY NothingIsBuffered
<1>4. arrQueue' = arrQueue /\ arrival' = [arrival EXCEPT ![t] = Now]
  BY DEF OnArrival, JobStarts
<1>5. arrival \in [Tasks -> Nat]
  BY DEF KernelInv, Typed
<1>6. arrQueue'[t] = <<>> /\ arrival'[t] = Now
  BY <1>3, <1>4, <1>5
<1>7. \A x \in Entries(agenda') : x.ev = Arr(t) => x.at > Now
  BY ArrivalPostsItsNext
<1>8. ASSUME NEW x \in Entries(agenda'), x.ev = Arr(t) PROVE Now < x.at
  <2>1. x.at \in Nat
    <3>1. NothingNew(agenda', agenda, Arr(t))
      BY ArrivalPostsItsNext
    <3>2. \A i \in DOMAIN agenda' : agenda'[i] \in EventEntry
      BY <3>1 DEF NothingNew
    <3> QED
      BY <1>8, <3>2, EntriesHaveTimes DEF Entries
  <2> QED
    BY <1>2, <1>7, <1>8, <2>1
<1> QED
  BY <1>2, <1>6, <1>8 DEF JobInOrder

(* Task::buffArrival: what is buffered arrived later than all before. *)
LEMMA BufferInOrder ==
    ASSUME KernelInv, NEW t \in Tasks, JobInOrder(t), OnArrival(t), state[t] # "IDLE"
    PROVE  JobInOrder(t)'
<1>1. Entered(Arr(t))
  BY Entering DEF OnArrival, Handles
<1>2. Now \in Nat /\ now' = Now /\ Now >= now /\ now \in Nat
  BY <1>1 DEF Entered, KernelInv, Typed
<1> DEFINE q == arrQueue[t]
           p == arrQueue'[t]
<1>3. q \in Seq(Nat) /\ arrival[t] \in Nat /\ Len(q) \in Nat
      /\ \A i \in 1..Len(q) : q[i] \in Nat
  <2>1. q \in Seq(Nat) /\ arrival[t] \in Nat
    BY DEF KernelInv, Typed
  <2> QED
    BY <2>1
<1>4. UNCHANGED <<arrival, state>> /\ arrQueue' = Buffered(t)
  BY DEF OnArrival
<1>5. p = q \/ p = Append(q, Now)
  <2>1. arrQueue \in [Tasks -> Seq(Nat)]
    BY DEF KernelInv, Typed
  <2> QED
    BY <1>4, <2>1 DEF Buffered
<1>6. /\ \A i \in 1..Len(q) : q[i] < Now
      /\ arrival[t] < Now
  <2>1. /\ Head(agenda) \in Entries(agenda) /\ Head(agenda).ev = Arr(t)
        /\ Head(agenda).at = Now
    BY <1>1 DEF Entered
  <2> QED
    BY <2>1 DEF JobInOrder
<1>7. \A i, j \in 1..Len(q) : i < j => q[i] < q[j]
  BY DEF JobInOrder
<1>8. \A i \in 1..Len(q) : arrival[t] < q[i]
  BY DEF JobInOrder
<1> HIDE DEF q, p
<1>9. \A i \in 1..Len(p) : /\ p[i] \in Nat /\ p[i] <= Now /\ arrival[t] < p[i]
                           /\ \A j \in 1..Len(p) : i < j => p[i] < p[j]
  <2>1. CASE p = q
    BY <1>2, <1>3, <1>6, <1>7, <1>8, <2>1
  <2>2. CASE p = Append(q, Now)
    <3>1. /\ Len(p) = Len(q) + 1 /\ p[Len(q) + 1] = Now
          /\ \A i \in 1..Len(q) : p[i] = q[i]
      BY <1>2, <1>3, <2>2
    <3>2. \A i \in 1..Len(p) : i \in 1..Len(q) \/ i = Len(q) + 1
      BY <1>3, <3>1
    <3>3. \A i \in 1..Len(p) : p[i] \in Nat /\ p[i] <= Now /\ arrival[t] < p[i]
      BY <1>2, <1>3, <1>6, <1>8, <3>1, <3>2
    <3>4. ASSUME NEW i \in 1..Len(p), NEW j \in 1..Len(p), i < j
          PROVE  p[i] < p[j]
      <4>1. i \in 1..Len(q)
        BY <1>3, <3>1, <3>4
      <4> QED
        BY <1>3, <1>6, <1>7, <3>1, <3>2, <3>4, <4>1
    <3> QED
      BY <3>3, <3>4
  <2> QED
    BY <1>5, <2>1, <2>2
<1>10. ASSUME NEW x \in Entries(agenda'), x.ev = Arr(t)
       PROVE  arrival[t] < x.at /\ \A i \in 1..Len(p) : p[i] < x.at
  <2>1. x.at \in Nat /\ x.at > Now
    <3>1. NothingNew(agenda', agenda, Arr(t)) /\ x.at > Now
      BY <1>10, ArrivalPostsItsNext
    <3>2. \A i \in DOMAIN agenda' : agenda'[i] \in EventEntry
      BY <3>1 DEF NothingNew
    <3> QED
      BY <1>10, <3>1, <3>2, EntriesHaveTimes DEF Entries
  <2> QED
    BY <1>2, <1>3, <1>6, <1>9, <2>1
<1>11. arrival[t] <= now'
  BY <1>2, <1>3, <1>6
<1> QED
  BY <1>2, <1>4, <1>9, <1>10, <1>11 DEF JobInOrder, p

(* Task::onFakeArrival takes the first of those that are buffered. *)
LEMMA NextJobInOrder ==
    ASSUME KernelInv, NEW t \in Tasks, JobInOrder(t), OnFakeArrival(t)
    PROVE  JobInOrder(t)'
<1>1. Enters(FakeArr(t))
  BY DEF OnFakeArrival, Handles
<1>2. Now \in Nat /\ now' = Now /\ Now >= now /\ now \in Nat /\ now' \in Nat
  BY <1>1, Entering DEF Entered, KernelInv, Typed
<1>3. \A x \in Entries(agenda') : x.ev = Arr(t) => x \in Entries(agenda)
  <2>1. NothingNew(agenda', agenda, FakeArr(t))
    BY JobPostsNothingNew
  <2> QED
    BY <2>1, NoArrivalOf, ArrivalsDiffer
<1>4. arrQueue[t] \in Seq(Nat) /\ arrival[t] \in Nat
      /\ arrival \in [Tasks -> Nat] /\ arrQueue \in [Tasks -> Seq(Nat)]
  BY DEF KernelInv, Typed
<1>5. CASE arrQueue[t] = <<>> \/ state[t] # "IDLE"
  <2>1. UNCHANGED <<arrival, arrQueue, state>>
    BY <1>5 DEF OnFakeArrival, Throw, jobVars
  <2> QED
    BY <1>2, <1>3, <1>4, <2>1, JobStays
<1>6. CASE arrQueue[t] # <<>> /\ state[t] = "IDLE"
  <2> DEFINE q == arrQueue[t]
             p == arrQueue'[t]
  <2>1. /\ arrival' = [arrival EXCEPT ![t] = Head(q)]
        /\ arrQueue' = [arrQueue EXCEPT ![t] = Tail(@)]
    BY <1>6 DEF OnFakeArrival, JobStarts, GetBuffArrival
  <2>2. /\ Len(q) \in Nat \ {0} /\ Head(q) = q[1]
        /\ \A i \in 1..Len(q) : q[i] \in Nat
        /\ Len(Tail(q)) = Len(q) - 1
        /\ \A i \in 1..Len(q) - 1 : Tail(q)[i] = q[i + 1]
    BY <1>4, <1>6
  <2>3. arrival'[t] = q[1] /\ p = Tail(q)
    BY <1>4, <2>1, <2>2
  <2>4. /\ \A i \in 1..Len(q) : q[i] <= now
        /\ \A i, j \in 1..Len(q) : i < j => q[i] < q[j]
        /\ \A x \in Entries(agenda) : x.ev = Arr(t) =>
              \A i \in 1..Len(q) : q[i] < x.at
    BY DEF JobInOrder
  <2> HIDE DEF q, p
  <2>5. \A i \in 1..Len(p) : i + 1 \in 1..Len(q) /\ p[i] = q[i + 1] /\ 1 < i + 1
    BY <2>2, <2>3
  <2>6. /\ \A i \in 1..Len(p) : p[i] <= now' /\ q[1] < p[i]
        /\ q[1] <= now' /\ 1 \in 1..Len(q)
    BY <1>2, <2>2, <2>4, <2>5
  <2>7. \A i, j \in 1..Len(p) : i < j => p[i] < p[j]
    <3> SUFFICES ASSUME NEW i \in 1..Len(p), NEW j \in 1..Len(p), i < j
                 PROVE  p[i] < p[j]
      OBVIOUS
    <3>1. i + 1 < j + 1
      BY <2>2, <2>3
    <3> QED
      BY <2>4, <2>5, <3>1
  <2> QED
    BY <1>3, <2>3, <2>4, <2>5, <2>6, <2>7 DEF JobInOrder, p
<1> QED
  BY <1>5, <1>6

(* Task::onKill forgets the arrivals that are buffered. *)
LEMMA KilledJobInOrder ==
    ASSUME KernelInv, NEW t \in Tasks, OnKill(t)
    PROVE  JobInOrder(t)'
<1>1. /\ arrQueue' = [arrQueue EXCEPT ![t] = <<>>]
      /\ state' = [state EXCEPT ![t] = "IDLE"]
  BY DEF OnKill, JobEnds
<1>2. arrQueue'[t] = <<>> /\ state'[t] = "IDLE"
  BY <1>1 DEF KernelInv, Typed
<1> QED
  BY <1>2 DEF JobInOrder

(* A step that leaves the arrivals of u alone, or only ends its job. *)
LEMMA OthersKeepOrder ==
    ASSUME KernelInv, NEW u \in Tasks, JobInOrder(u), NEW f, Arr(u) # f,
           NothingNew(agenda', agenda, f), now' \in Nat, now' >= now,
           arrQueue'[u] = arrQueue[u], arrival'[u] = arrival[u],
           state[u] = "IDLE" => state'[u] = "IDLE"
    PROVE  JobInOrder(u)'
<1>1. now \in Nat /\ arrQueue[u] \in Seq(Nat) /\ arrival[u] \in Nat
  BY DEF KernelInv, Typed
<1>2. \A x \in Entries(agenda') : x.ev = Arr(u) => x \in Entries(agenda)
  BY NoArrivalOf
<1> QED
  BY <1>1, <1>2, JobStays

(* The time of a handler. *)
LEMMA TimeOfHandler ==
    ASSUME KernelInv, NEW e, Comes(e) \/ Enters(e)
    PROVE  now' \in Nat /\ now' >= now
<1>1. Now \in Nat /\ now' = Now /\ now' >= now
  BY RestHasNothingNew DEF Comes, Enters
<1> QED
  BY <1>1

LEMMA DispatchKeepsOrder ==
    ASSUME KernelInv, KernelInv', NEW u \in Tasks, JobInOrder(u),
           OnBeginDispatch \/ OnEndDispatch \/ OnRound
    PROVE  JobInOrder(u)'
<1>1. UNCHANGED <<arrival, arrQueue, state>>
  BY DEF OnBeginDispatch, OnEndDispatch, OnRound, Throw, jobVars
<1>2. now' \in Nat /\ now' >= now
  BY TimeOfHandler DEF OnBeginDispatch, OnEndDispatch, OnRound, Handles
<1>3. First' \in Tasks \cup {None}
  <2>1. Typed' /\ (queue \subseteq Tasks)'
    BY DEF KernelInv, Typed
  <2>2. FirstIsAhead'
    BY <2>1, FirstOfQueue, PTL
  <2> QED
    BY <2>1, <2>2 DEF FirstIsAhead
<1>4. NothingNew(agenda', agenda, Begin) /\ Arr(u) # Begin
  BY <1>3, DispatchPostsNothingNew, ArrivalsDiffer
<1> QED
  BY <1>1, <1>2, <1>4, OthersKeepOrder

LEMMA UrgentOrNot ==
    ASSUME NEW e, NEW f, Enters(e)
    PROVE  f \in urgent' => f \in urgent
BY DEF Enters

(* What a handler changes of the tasks: of its own only, and of that it     *)
(* wakes up only if it is idle.                                             *)
LEMMA TaskStates ==
    ASSUME KernelInv, NEW u \in Tasks, NEW t \in Tasks,
           \/ OnSched(t) \/ OnDesched(t) \/ OnInstrEnd(t) \/ OnDeadline(t)
           \/ OnSuspend(t) \/ OnResume(t) \/ OnEndInstance(t)
    PROVE  /\ UNCHANGED <<arrival, arrQueue>>
           /\ state[u] = "IDLE" => state'[u] = "IDLE"
           /\ FakeArr(u) \in urgent' => FakeArr(u) \in urgent
<1>1. UNCHANGED <<arrival, arrQueue>>
  BY DEF OnSched, OnDesched, OnInstrEnd, OnDeadline, OnSuspend, OnResume,
         OnEndInstance, Throw, jobVars
<1>2. state[u] = "IDLE" => state'[u] = "IDLE"
  <2>1. state \in [Tasks -> {"IDLE", "READY", "EXEC"}]
    BY DEF KernelInv, Typed
  <2>2. CASE OnSched(t)
    <3>1. \/ state' = state
          \/ state[t] # "IDLE" /\ state' = [state EXCEPT ![t] = "EXEC"]
      BY <2>2 DEF OnSched, Throw
    <3> QED
      BY <2>1, <3>1
  <2>3. CASE OnDesched(t)
    <3>1. \/ state' = state
          \/ state[t] # "IDLE" /\ state' = [state EXCEPT ![t] = "READY"]
      BY <2>3 DEF OnDesched, Throw
    <3> QED
      BY <2>1, <3>1
  <2>4. CASE OnEndInstance(t)
    <3>1. state' = state \/ state' = [state EXCEPT ![t] = "IDLE"]
      BY <2>4 DEF OnEndInstance, Throw, JobEnds
    <3> QED
      BY <2>1, <3>1
  <2>5. CASE OnInstrEnd(t) \/ OnDeadline(t) \/ OnSuspend(t) \/ OnResume(t)
    <3>1. state' = state
      BY <2>5 DEF OnInstrEnd, OnDeadline, OnSuspend, OnResume, Throw
    <3> QED
      BY <3>1
  <2> QED
    BY <2>2, <2>3, <2>4, <2>5
<1>3. FakeArr(u) \in urgent' => FakeArr(u) \in urgent
  BY UrgentOrNot
     DEF OnSched, OnDesched, OnInstrEnd, OnDeadline, OnSuspend, OnResume,
         OnEndInstance, Handles
<1> QED
  BY <1>1, <1>2, <1>3

LEMMA TaskKeepsOrder ==
    ASSUME KernelInv, NEW u \in Tasks, JobInOrder(u), NEW t \in Tasks,
           \/ OnSched(t) \/ OnDesched(t) \/ OnInstrEnd(t) \/ OnDeadline(t)
           \/ OnSuspend(t) \/ OnResume(t) \/ OnEndInstance(t)
    PROVE  JobInOrder(u)'
<1>1. /\ UNCHANGED <<arrival, arrQueue>>
      /\ state[u] = "IDLE" => state'[u] = "IDLE"
  BY TaskStates
<1>2. now' \in Nat /\ now' >= now
  BY TimeOfHandler
     DEF OnSched, OnDesched, OnInstrEnd, OnDeadline, OnSuspend, OnResume,
         OnEndInstance, Handles
<1>3. NothingNew(agenda', agenda, FakeArr(t)) /\ Arr(u) # FakeArr(t)
  BY TaskPostsNothingNew, JobPostsNothingNew, ArrivalsDiffer
<1> QED
  BY <1>1, <1>2, <1>3, OthersKeepOrder

(* Handlers that change what has arrived, of their task only. *)
LEMMA ArrivalsKeepOrder ==
    ASSUME KernelInv, NEW u \in Tasks, JobInOrder(u), NEW t \in Tasks,
           OnArrival(t) \/ OnFakeArrival(t) \/ OnKill(t)
    PROVE  JobInOrder(u)'
<1>1. CASE u = t
  BY <1>1, FirstJobInOrder, BufferInOrder, NextJobInOrder, KilledJobInOrder
<1>2. CASE u # t
  <2>1. now' \in Nat /\ now' >= now
    BY TimeOfHandler DEF OnArrival, OnFakeArrival, OnKill, Handles
  <2>2. /\ arrival \in [Tasks -> Nat] /\ arrQueue \in [Tasks -> Seq(Nat)]
        /\ state \in [Tasks -> {"IDLE", "READY", "EXEC"}]
    BY DEF KernelInv, Typed
  <2>3. \E a, q, s :
           /\ arrival' = arrival \/ arrival' = [arrival EXCEPT ![t] = a]
           /\ arrQueue' = arrQueue \/ arrQueue' = [arrQueue EXCEPT ![t] = q]
           /\ state' = state \/ state' = [state EXCEPT ![t] = s]
    <3>1. CASE OnArrival(t)
      <4>1. CASE state[t] = "IDLE"
        BY <3>1, <4>1 DEF OnArrival, JobStarts
      <4>2. CASE state[t] # "IDLE"
        BY <3>1, <4>2 DEF OnArrival, Buffered
      <4> QED
        BY <4>1, <4>2
    <3>2. CASE OnFakeArrival(t)
      <4>1. CASE arrQueue[t] = <<>> \/ state[t] # "IDLE"
        BY <3>2, <4>1 DEF OnFakeArrival, Throw, jobVars
      <4>2. CASE arrQueue[t] # <<>> /\ state[t] = "IDLE"
        BY <3>2, <4>2 DEF OnFakeArrival, JobStarts
      <4> QED
        BY <4>1, <4>2
    <3>3. CASE OnKill(t)
      BY <3>3 DEF OnKill, JobEnds
    <3> QED
      BY <3>1, <3>2, <3>3
  <2>4. arrQueue'[u] = arrQueue[u] /\ arrival'[u] = arrival[u] /\ state'[u] = state[u]
    BY <1>2, <2>2, <2>3
  <2>5. \E f \in {Arr(t), FakeArr(t)} : NothingNew(agenda', agenda, f) /\ Arr(u) # f
    BY <1>2, ArrivalPostsItsNext, JobPostsNothingNew, ArrivalsDiffer
  <2> QED
    BY <2>1, <2>4, <2>5, OthersKeepOrder
<1> QED
  BY <1>1, <1>2

LEMMA ScheduleKeepsOrder ==
    ASSUME KernelInv, NEW u \in Tasks, JobInOrder(u), NEW t \in Tasks, Schedule(t)
    PROVE  JobInOrder(u)'
<1>1. UNCHANGED <<arrival, arrQueue, state, now>>
  BY DEF Schedule, ScheduleExec, ScheduleSuspend, ScheduleWait, ScheduleSignal,
         jobVars
<1>2. NothingNew(agenda', agenda, InstrEvt(t)) /\ Arr(u) # InstrEvt(t)
  BY SchedulePostsNothingNew, ArrivalsDiffer
<1>3. now \in Nat
  BY DEF KernelInv, Typed
<1> QED
  BY <1>1, <1>2, <1>3, OthersKeepOrder

(* Task::arrQueue serves the jobs of a task in the order in which they      *)
(* arrived, and none before it did, however long each of them takes and     *)
(* whichever of them are killed or dropped.                                 *)
THEOREM JobsAreInOrder ==
    ASSUME Sound
    PROVE  Spec => []JobsInOrder
<1> DEFINE Ordered == \A u \in Tasks : JobInOrder(u)
<1>1. Init => Ordered
  BY DEF Init, JobInOrder
<1>2. KernelInv /\ KernelInv' /\ Ordered /\ [Next]_vars => Ordered'
  <2> SUFFICES ASSUME KernelInv, KernelInv', [Next]_vars,
                      NEW u \in Tasks, JobInOrder(u)
               PROVE  JobInOrder(u)'
    OBVIOUS
  <2>1. CASE NewRun
    <3>1. arrQueue'[u] = <<>> /\ state'[u] = "IDLE"
      BY <2>1 DEF NewRun, ResetTasks
    <3> QED
      BY <3>1 DEF JobInOrder
  <2>2. CASE OnBeginDispatch \/ OnEndDispatch \/ OnRound
    BY <2>2, DispatchKeepsOrder
  <2>3. ASSUME NEW t \in Tasks,
               \/ OnArrival(t) \/ OnFakeArrival(t) \/ OnEndInstance(t)
               \/ OnDeadline(t) \/ OnKill(t) \/ OnSched(t) \/ OnDesched(t)
               \/ OnInstrEnd(t) \/ OnSuspend(t) \/ OnResume(t) \/ Schedule(t)
        PROVE  JobInOrder(u)'
    BY <2>3, TaskKeepsOrder, ArrivalsKeepOrder, ScheduleKeepsOrder
  <2>4. CASE UNCHANGED vars
    BY <2>4 DEF vars, jobVars, JobInOrder
  <2> QED
    BY <2>1, <2>2, <2>3, <2>4 DEF Next, Steps, Over
<1>3. KernelInv /\ Ordered => JobsInOrder
  <2> SUFFICES ASSUME KernelInv, NEW t \in Tasks, JobInOrder(t)
               PROVE  LET a == IF state[t] = "IDLE" THEN arrQueue[t]
                               ELSE <<arrival[t]>> \o arrQueue[t]
                      IN  \A i \in DOMAIN a :
                             a[i] <= now /\ \A j \in 1..i-1 : a[j] < a[i]
    BY DEF JobsInOrder
  <2> DEFINE q == arrQueue[t]
             b == <<arrival[t]>>
             a == b \o q
  <2>1. q \in Seq(Nat) /\ b \in Seq(Nat) /\ Len(b) = 1 /\ b[1] = arrival[t]
    BY DEF KernelInv, Typed
  <2>2. Len(q) \in Nat /\ DOMAIN q = 1..Len(q)
    BY <2>1
  <2>3. /\ \A i \in 1..Len(q) : q[i] <= now
        /\ \A i, j \in 1..Len(q) : i < j => q[i] < q[j]
        /\ state[t] # "IDLE" => /\ arrival[t] <= now
                                /\ \A i \in 1..Len(q) : arrival[t] < q[i]
    BY DEF JobInOrder
  <2>4. CASE state[t] = "IDLE"
    <3> HIDE DEF q
    <3>1. \A i \in DOMAIN q : q[i] <= now /\ \A j \in 1..i-1 : q[j] < q[i]
      <4> SUFFICES ASSUME NEW i \in 1..Len(q), NEW j \in 1..i-1
                   PROVE  q[i] <= now /\ q[j] < q[i]
        BY <2>2, <2>3
      <4>1. j \in 1..Len(q) /\ j < i
        BY <2>2
      <4> QED
        BY <2>3, <4>1
    <3> QED
      BY <2>4, <3>1 DEF q
  <2>5. CASE state[t] # "IDLE"
    <3>1. /\ Len(a) = 1 + Len(q) /\ a \in Seq(Nat)
          /\ \A i \in 1..1 + Len(q) : a[i] = IF i <= 1 THEN b[i] ELSE q[i - 1]
      BY <2>1, Joined
    <3>2. DOMAIN a = 1..1 + Len(q)
      BY <3>1
    <3> HIDE DEF q, a, b
    <3>3. a[1] = arrival[t]
      BY <2>1, <2>2, <3>1
    <3>4. \A i \in 2..1 + Len(q) : i - 1 \in 1..Len(q) /\ a[i] = q[i - 1]
      BY <2>2, <3>1
    <3>5. ASSUME NEW i \in 1..1 + Len(q), NEW j \in 1..i-1
          PROVE  a[j] < a[i]
      <4>1. i \in 2..1 + Len(q) /\ (j = 1 \/ j \in 2..1 + Len(q))
        BY <2>2
      <4>2. CASE j = 1
        BY <2>3, <2>5, <3>3, <3>4, <4>1, <4>2
      <4>3. CASE j \in 2..1 + Len(q)
        <5>1. j - 1 < i - 1
          BY <2>2, <4>3
        <5> QED
          BY <2>3, <3>4, <4>1, <4>3, <5>1
      <4> QED
        BY <4>1, <4>2, <4>3
    <3>6. ASSUME NEW i \in 1..1 + Len(q) PROVE a[i] <= now
      <4>1. i = 1 \/ i \in 2..1 + Len(q)
        BY <2>2
      <4> QED
        BY <2>3, <2>5, <3>3, <3>4, <4>1
    <3>7. \A i \in DOMAIN a : a[i] <= now /\ \A j \in 1..i-1 : a[j] < a[i]
      BY <3>2, <3>5, <3>6
    <3> QED
      BY <2>5, <3>7 DEF a, b, q
  <2> QED
    BY <2>4, <2>5
<1> HIDE DEF Ordered
<1> QED
  BY <1>1, <1>2, <1>3, KernelInvariant, PTL DEF Spec

-----------------------------------------------------------------------------
(* Only a fakeArr that an earlier run left urgent throws.                    *)

(* In the first run, a task whose fakeArr is urgent does not come back, and *)
(* none that is active has its fakeArr before its kill.                     *)
FakeInTurn(t) ==
    /\ FakeArr(t) \in urgent =>
          /\ state[t] = "IDLE" /\ arrQueue[t] = <<>>
          /\ \A x \in Entries(agenda) : x.ev # Arr(t)
    /\ \A x \in Entries(agenda) :
          x.ev = FakeArr(t) /\ state[t] # "IDLE" => x.prio = 8

(* Only a task that has a buffer buffers arrivals. *)
HasRoom(t) == arrQueue[t] # <<>> => QueueSize[t] >= 0

(* What a step does not change, or ends. *)
LEMMA FakeStays ==
    ASSUME NEW u \in Tasks, FakeInTurn(u), NEW f, f # Arr(u), f # FakeArr(u),
           NothingNew(agenda', agenda, f),
           FakeArr(u) \in urgent' => FakeArr(u) \in urgent,
           arrQueue'[u] = arrQueue[u], state[u] = "IDLE" => state'[u] = "IDLE"
    PROVE  FakeInTurn(u)'
<1>1. Arr(u)[1] \in Awaited /\ FakeArr(u)[1] \in Awaited
  BY EventParts DEF Arr, FakeArr, Awaited
<1>2. \A x \in Entries(agenda') : x.ev \in {Arr(u), FakeArr(u)} => x \in Entries(agenda)
  BY <1>1 DEF NothingNew
<1> QED
  BY <1>2 DEF FakeInTurn

(* Handlers of events that are no arrivals and end no job. *)
LEMMA DispatchKeepsFakes ==
    ASSUME KernelInv, KernelInv', NEW u \in Tasks, FakeInTurn(u),
           OnBeginDispatch \/ OnEndDispatch \/ OnRound
    PROVE  FakeInTurn(u)'
<1>1. UNCHANGED <<arrQueue, state>>
  BY DEF OnBeginDispatch, OnEndDispatch, OnRound, Throw, jobVars
<1>2. FakeArr(u) \in urgent' => FakeArr(u) \in urgent
  BY UrgentOrNot DEF OnBeginDispatch, OnEndDispatch, OnRound, Handles
<1>3. First' \in Tasks \cup {None}
  <2>1. Typed' /\ (queue \subseteq Tasks)'
    BY DEF KernelInv, Typed
  <2>2. FirstIsAhead'
    BY <2>1, FirstOfQueue, PTL
  <2> QED
    BY <2>1, <2>2 DEF FirstIsAhead
<1>4. /\ NothingNew(agenda', agenda, Begin) /\ Arr(u) # Begin /\ FakeArr(u) # Begin
  BY <1>3, DispatchPostsNothingNew, ArrivalsDiffer
<1> QED
  BY <1>1, <1>2, <1>4, FakeStays

LEMMA ScheduleKeepsFakes ==
    ASSUME KernelInv, NEW u \in Tasks, FakeInTurn(u), NEW t \in Tasks, Schedule(t)
    PROVE  FakeInTurn(u)'
<1>1. UNCHANGED <<arrQueue, state, urgent>>
  BY DEF Schedule, ScheduleExec, ScheduleSuspend, ScheduleWait, ScheduleSignal,
         jobVars, runVars
<1>2. /\ NothingNew(agenda', agenda, InstrEvt(t))
      /\ Arr(u) # InstrEvt(t) /\ FakeArr(u) # InstrEvt(t)
  BY SchedulePostsNothingNew, ArrivalsDiffer
<1> QED
  BY <1>1, <1>2, FakeStays

(* DeadEvt::doit: the fakeArr it posts has not become urgent. *)
LEMMA DeadlineKeepsFakes ==
    ASSUME KernelInv, NEW t \in Tasks, FakeInTurn(t), OnDeadline(t)
    PROVE  FakeInTurn(t)'
<1>1. /\ UNCHANGED <<state, arrQueue>>
      /\ FakeArr(t) \in urgent' => FakeArr(t) \in urgent
  BY UrgentOrNot DEF OnDeadline, Handles, jobVars
<1>2. CASE state[t] = "IDLE"
  <2>1. agenda' = Rest
    BY <1>2 DEF OnDeadline
  <2>2. NothingNew(Rest, agenda, Begin) /\ Arr(t) # Begin /\ FakeArr(t) # Begin
    BY RestHasNothingNew, ArrivalsDiffer DEF OnDeadline, Handles
  <2> QED
    BY <1>1, <2>1, <2>2, FakeStays
<1>3. CASE state[t] # "IDLE"
  <2>1. FakeArr(t) \notin urgent /\ FakeArr(t) \notin urgent'
    BY <1>1, <1>3 DEF FakeInTurn
  <2>2. /\ Kill(t) \in Events /\ Kill(t)[1] \notin Awaited
        /\ FakeArr(t) \in Events /\ FakeArr(t)[1] = "fakeArr"
    BY EventsAreEvents, EventParts DEF Kinds, FakeArr, Kill, Awaited
  <2>3. Now \in Nat /\ Rest \in Seq(EventEntry) /\ NothingNew(Rest, agenda, Begin)
    BY RestHasNothingNew DEF OnDeadline, Handles
  <2> DEFINE q == IF arrQueue[t] = <<>> THEN Rest ELSE Post(Rest, FakeArr(t), Now)
             r == IF state[t] = "EXEC" THEN Descheduled(q, t) ELSE q
             InTurn(p) == /\ p \in Seq(EventEntry)
                          /\ \A x \in Entries(p) : x.ev = FakeArr(t) => x.prio = 8
  <2>4. agenda' = Post(r, Kill(t), Now) \/ agenda' = Rest
    BY DEF OnDeadline
  <2>5. \A p, s : InTurn(s) /\ NothingNew(p, s, Begin) => InTurn(p)
    <3>1. FakeArr(t)[1] \in Awaited /\ FakeArr(t) # Begin
      BY <2>2, ArrivalsDiffer DEF Awaited
    <3> QED
      BY <3>1 DEF NothingNew
  <2>6. InTurn(Rest)
    <3>1. InTurn(agenda)
      BY <1>3 DEF FakeInTurn, KernelInv, GoodAgenda
    <3> QED
      BY <2>3, <2>5, <3>1
  <2>7. InTurn(Post(Rest, FakeArr(t), Now))
    <3>1. Priority(FakeArr(t)) = 8
      BY <2>1, <2>2 DEF Priority
    <3>2. PICK y \in EventEntry : y = Entry(FakeArr(t), Now, 8) /\ y.prio = 8
      BY <2>2, <2>3, EntriesHaveTimes, EntryParts
    <3>3. Post(Rest, FakeArr(t), Now) = PostIn(Rest, y)
      BY <3>1, <3>2 DEF Post
    <3>4. /\ PostIn(Rest, y) \in Seq(EventEntry)
          /\ Entries(PostIn(Rest, y)) \subseteq Entries(Rest) \cup {y}
      BY <2>3, PostPlaces, PostsAreFew
    <3> QED
      BY <2>6, <3>2, <3>3, <3>4
  <2>8. InTurn(q)
    BY <2>6, <2>7
  <2> HIDE DEF q
  <2>9. InTurn(r)
    <3>1. NothingNew(Descheduled(q, t), q, Begin)
      BY <2>3, <2>8, OthersPostNothingNew
    <3> QED
      BY <2>5, <2>8, <3>1
  <2> HIDE DEF r
  <2>10. InTurn(Post(r, Kill(t), Now))
    <3>1. NothingNew(Post(r, Kill(t), Now), r, Begin)
      BY <2>2, <2>3, <2>9, OthersPostNothingNew
    <3> QED
      BY <2>5, <2>9, <3>1
  <2>11. InTurn(agenda')
    BY <2>4, <2>6, <2>10
  <2> QED
    BY <2>1, <2>11 DEF FakeInTurn
<1> QED
  BY <1>2, <1>3

LEMMA TaskKeepsFakes ==
    ASSUME KernelInv, NEW u \in Tasks, FakeInTurn(u), NEW t \in Tasks,
           \/ OnSched(t) \/ OnDesched(t) \/ OnInstrEnd(t) \/ OnDeadline(t)
           \/ OnSuspend(t) \/ OnResume(t)
    PROVE  FakeInTurn(u)'
<1>1. CASE u = t /\ OnDeadline(t)
  BY <1>1, DeadlineKeepsFakes
<1>2. CASE u # t \/ ~OnDeadline(t)
  <2>1. PICK f : f # FakeArr(u) /\ f # Arr(u) /\ (f = FakeArr(t) \/ ~OnDeadline(t))
    BY <1>2, ArrivalsDiffer
  <2>2. NothingNew(agenda', agenda, f)
    BY <2>1, TaskPostsNothingNew
  <2>3. /\ arrQueue' = arrQueue /\ (state[u] = "IDLE" => state'[u] = "IDLE")
        /\ FakeArr(u) \in urgent' => FakeArr(u) \in urgent
    BY TaskStates
  <2> QED
    BY <2>1, <2>2, <2>3, FakeStays
<1> QED
  BY <1>1, <1>2

(* Task::onEndInstance: only a job that is over has its fakeArr processed. *)
LEMMA EndKeepsFakes ==
    ASSUME KernelInv, NEW u \in Tasks, FakeInTurn(u), NEW t \in Tasks, OnEndInstance(t)
    PROVE  FakeInTurn(u)'
<1>1. /\ arrQueue' = arrQueue /\ (state[u] = "IDLE" => state'[u] = "IDLE")
      /\ FakeArr(u) \in urgent' => FakeArr(u) \in urgent
  BY TaskStates
<1>2. CASE u # t
  <2>1. NothingNew(agenda', agenda, FakeArr(t))
    BY JobPostsNothingNew
  <2> QED
    BY <1>1, <1>2, <2>1, ArrivalsDiffer, FakeStays
<1>3. CASE u = t /\ (state[t] = "IDLE" \/ state[t] = "READY")
  <2>1. UNCHANGED <<agenda, state>>
    BY <1>3 DEF OnEndInstance, Throw
  <2> QED
    BY <1>1, <1>3, <2>1 DEF FakeInTurn
<1>4. CASE u = t /\ ~(state[t] = "IDLE" \/ state[t] = "READY")
  <2>1. state' = [state EXCEPT ![t] = "IDLE"]
    BY <1>4 DEF OnEndInstance, JobEnds
  <2>2. state'[t] = "IDLE"
    BY <2>1 DEF KernelInv, Typed
  <2>3. FakeArr(t) \notin urgent'
    BY <1>1, <1>4 DEF FakeInTurn
  <2> QED
    BY <1>4, <2>2, <2>3 DEF FakeInTurn
<1> QED
  BY <1>2, <1>3, <1>4

(* Task::onKill: a task that is killed in the first run does not come back. *)
LEMMA KillKeepsFakes ==
    ASSUME KernelInv, NEW u \in Tasks, FakeInTurn(u), NEW t \in Tasks, OnKill(t)
    PROVE  FakeInTurn(u)'
<1>1. /\ arrQueue' = [arrQueue EXCEPT ![t] = <<>>]
      /\ state' = [state EXCEPT ![t] = "IDLE"]
      /\ urgent' \subseteq urgent \cup {FakeArr(t)}
  BY DEF OnKill, JobEnds
<1>2. /\ arrQueue \in [Tasks -> Seq(Nat)]
      /\ state \in [Tasks -> {"IDLE", "READY", "EXEC"}]
  BY DEF KernelInv, Typed
<1>3. CASE u = t
  <2>1. arrQueue'[t] = <<>> /\ state'[t] = "IDLE"
    BY <1>1, <1>2
  <2>2. \A x \in Entries(agenda') : x.ev # Arr(t)
    BY JobPostsNothingNew DEF TaskEvents
  <2> QED
    BY <1>3, <2>1, <2>2 DEF FakeInTurn
<1>4. CASE u # t
  <2>1. /\ arrQueue'[u] = arrQueue[u] /\ state'[u] = state[u]
        /\ FakeArr(u) \in urgent' => FakeArr(u) \in urgent
    BY <1>1, <1>2, <1>4, ArrivalsDiffer
  <2>2. NothingNew(agenda', agenda, FakeArr(t))
    BY JobPostsNothingNew
  <2> QED
    BY <1>4, <2>1, <2>2, ArrivalsDiffer, FakeStays
<1> QED
  BY <1>3, <1>4

(* Task::onArrival. *)
LEMMA ArrivalKeepsFakes ==
    ASSUME KernelInv, NEW u \in Tasks, FakeInTurn(u), NEW t \in Tasks, OnArrival(t)
    PROVE  FakeInTurn(u)'
<1>1. /\ Enters(Arr(t)) /\ NothingNew(agenda', agenda, Arr(t))
      /\ FakeArr(u) \in urgent' => FakeArr(u) \in urgent
  BY ArrivalPostsItsNext, UrgentOrNot DEF OnArrival, Handles
<1>2. CASE u # t
  <2>1. \E s, q : /\ state' = state \/ state' = [state EXCEPT ![t] = s]
                  /\ arrQueue' = arrQueue \/ arrQueue' = [arrQueue EXCEPT ![t] = q]
    <3>1. CASE state[t] = "IDLE"
      BY <3>1 DEF OnArrival, JobStarts
    <3>2. CASE state[t] # "IDLE"
      BY <3>2 DEF OnArrival, Buffered
    <3> QED
      BY <3>1, <3>2
  <2>2. state'[u] = state[u] /\ arrQueue'[u] = arrQueue[u]
    BY <1>2, <2>1 DEF KernelInv, Typed
  <2> QED
    BY <1>1, <1>2, <2>2, ArrivalsDiffer, FakeStays
<1>3. CASE u = t
  <2>1. FakeArr(t)[1] \in Awaited /\ FakeArr(t) # Arr(t)
    BY EventParts, ArrivalsDiffer DEF FakeArr, Awaited
  <2>2. \A x \in Entries(agenda') : x.ev = FakeArr(t) => x \in Entries(agenda)
    BY <1>1, <2>1 DEF NothingNew
  <2>3. FakeArr(t) \notin urgent
    <3>1. Head(agenda) \in Entries(agenda) /\ Head(agenda).ev = Arr(t)
      BY <1>1, Entering DEF Entered
    <3> QED
      BY <1>3, <3>1 DEF FakeInTurn
  <2>4. CASE state[t] = "IDLE"
    <3>1. \A x \in Entries(agenda) : x.ev # FakeArr(t)
      BY <2>4, NothingIsBuffered DEF KernelInv, TaskInv, BufferInTime
    <3> QED
      BY <1>1, <1>3, <2>2, <2>3, <3>1 DEF FakeInTurn
  <2>5. CASE state[t] # "IDLE"
    BY <1>1, <1>3, <2>2, <2>3, <2>5 DEF FakeInTurn
  <2> QED
    BY <2>4, <2>5
<1> QED
  BY <1>2, <1>3

(* Task::onFakeArrival. *)
LEMMA FakeArrivalKeepsFakes ==
    ASSUME KernelInv, NEW u \in Tasks, FakeInTurn(u), NEW t \in Tasks, OnFakeArrival(t)
    PROVE  FakeInTurn(u)'
<1>1. /\ Enters(FakeArr(t)) /\ FakeArr(t) \notin urgent'
      /\ FakeArr(u) \in urgent' => FakeArr(u) \in urgent
  BY UrgentOrNot DEF OnFakeArrival, Handles, Enters
<1>2. CASE arrQueue[t] = <<>> \/ state[t] # "IDLE"
  <2>1. UNCHANGED <<agenda, state, arrQueue>>
    BY <1>2 DEF OnFakeArrival, Throw, jobVars
  <2> QED
    BY <1>1, <2>1 DEF FakeInTurn
<1>3. CASE arrQueue[t] # <<>> /\ state[t] = "IDLE"
  <2>1. /\ state' = [state EXCEPT ![t] = "READY"]
        /\ arrQueue' = [arrQueue EXCEPT ![t] = Tail(@)]
    BY <1>3 DEF OnFakeArrival, JobStarts
  <2>2. NothingNew(agenda', Rest, Begin) /\ NothingNew(agenda', agenda, Begin)
    <3>1. FakeArr(t) # EndEvt(t)
      BY EventParts DEF FakeArr, EndEvt
    <3>2. ~OnEndInstance(t)
      BY <1>1, <3>1 DEF OnEndInstance, Handles, Enters, Comes
    <3> QED
      BY <1>3, <3>2, JobPostsNothingNew
  <2>3. CASE u # t
    <3>1. state'[u] = state[u] /\ arrQueue'[u] = arrQueue[u]
      BY <2>1, <2>3 DEF KernelInv, Typed
    <3> QED
      BY <1>1, <2>2, <3>1, ArrivalsDiffer, FakeStays
  <2>4. CASE u = t
    <3>1. ~IsPosted(Rest, FakeArr(t))
      BY <1>1, Entering DEF Entered, Loses
    <3>2. FakeArr(t)[1] \in Awaited /\ FakeArr(t) # Begin
      BY EventParts, ArrivalsDiffer DEF FakeArr, Awaited
    <3>3. \A x \in Entries(agenda') : x.ev # FakeArr(t)
      BY <2>2, <3>1, <3>2, PostedEntries DEF NothingNew
    <3> QED
      BY <1>1, <2>4, <3>3 DEF FakeInTurn
  <2> QED
    BY <2>3, <2>4
<1> QED
  BY <1>2, <1>3

(* Task::buffArrival, of a task that has a buffer. *)
LEMMA RoomStays ==
    ASSUME KernelInv, [Next]_vars, NEW u \in Tasks, HasRoom(u)
    PROVE  HasRoom(u)'
<1>1. arrQueue \in [Tasks -> Seq(Nat)] /\ QueueSize[u] \in Nat \cup {-1}
  BY TaskAssumption DEF KernelInv, Typed
<1>2. CASE UNCHANGED arrQueue
  BY <1>2 DEF HasRoom
<1>3. CASE NewRun
  BY <1>3 DEF NewRun, ResetTasks, HasRoom
<1>4. ASSUME NEW t \in Tasks, OnArrival(t) PROVE HasRoom(u)'
  <2>1. CASE state[t] = "IDLE"
    BY <1>2, <1>4, <2>1 DEF OnArrival
  <2>2. CASE state[t] # "IDLE"
    <3>1. arrQueue' = Buffered(t)
      BY <1>4, <2>2 DEF OnArrival
    <3>2. Len(arrQueue[t]) \in Nat
      BY <1>1
    <3>3. \/ arrQueue' = arrQueue
          \/ arrQueue' = [arrQueue EXCEPT ![t] = Append(@, Now)] /\ Len(arrQueue[t]) <= QueueSize[t]
      BY <3>1 DEF Buffered
    <3>4. QueueSize[t] \in Nat \cup {-1}
      BY TaskAssumption
    <3> QED
      BY <1>1, <1>2, <3>2, <3>3, <3>4 DEF HasRoom
  <2> QED
    BY <2>1, <2>2
<1>5. ASSUME NEW t \in Tasks, OnFakeArrival(t) PROVE HasRoom(u)'
  <2>1. CASE arrQueue[t] = <<>> \/ state[t] # "IDLE"
    BY <1>2, <1>5, <2>1 DEF OnFakeArrival, Throw, jobVars
  <2>2. CASE arrQueue[t] # <<>> /\ state[t] = "IDLE"
    <3>1. arrQueue' = [arrQueue EXCEPT ![t] = Tail(@)]
      BY <1>5, <2>2 DEF OnFakeArrival
    <3> QED
      BY <1>1, <2>2, <3>1 DEF HasRoom
  <2> QED
    BY <2>1, <2>2
<1>6. ASSUME NEW t \in Tasks, OnKill(t) PROVE HasRoom(u)'
  <2>1. arrQueue' = [arrQueue EXCEPT ![t] = <<>>]
    BY <1>6 DEF OnKill
  <2> QED
    BY <1>1, <2>1 DEF HasRoom
<1>7. CASE OnBeginDispatch \/ OnEndDispatch \/ OnRound
  <2>1. UNCHANGED arrQueue
    BY <1>7 DEF OnBeginDispatch, OnEndDispatch, OnRound, Throw, jobVars
  <2> QED
    BY <1>2, <2>1
<1>8. ASSUME NEW t \in Tasks,
             \/ OnSched(t) \/ OnDesched(t) \/ OnInstrEnd(t) \/ OnDeadline(t)
             \/ OnSuspend(t) \/ OnResume(t) \/ OnEndInstance(t)
      PROVE  HasRoom(u)'
  BY <1>2, <1>8, TaskStates
<1>9. ASSUME NEW t \in Tasks, Schedule(t) PROVE HasRoom(u)'
  <2>1. UNCHANGED arrQueue
    BY <1>9 DEF Schedule, ScheduleExec, ScheduleSuspend, ScheduleWait,
                ScheduleSignal, jobVars
  <2> QED
    BY <1>2, <2>1
<1>10. CASE UNCHANGED vars
  BY <1>2, <1>10 DEF vars, jobVars
<1> QED
  BY <1>3, <1>4, <1>5, <1>6, <1>7, <1>8, <1>9, <1>10 DEF Next, Steps, Over

(* The invariant of every run, and that of the first. *)
FakesInTurn == \A u \in Tasks : HasRoom(u) /\ (run = 1 => FakeInTurn(u))

LEMMA FakesInvariant ==
    ASSUME Sound
    PROVE  Spec => []FakesInTurn
<1>1. Init => FakesInTurn
  <2> SUFFICES ASSUME Init, NEW u \in Tasks PROVE HasRoom(u) /\ FakeInTurn(u)
    BY DEF FakesInTurn
  <2>1. /\ urgent = {} /\ state[u] = "IDLE" /\ arrQueue[u] = <<>>
    BY DEF Init
  <2> QED
    BY <2>1 DEF HasRoom, FakeInTurn
<1>2. KernelInv /\ KernelInv' /\ FakesInTurn /\ [Next]_vars => FakesInTurn'
  <2> SUFFICES ASSUME KernelInv, KernelInv', [Next]_vars, NEW u \in Tasks,
                      HasRoom(u), run = 1 => FakeInTurn(u)
               PROVE  HasRoom(u)' /\ (run' = 1 => FakeInTurn(u)')
    BY DEF FakesInTurn
  <2>1. HasRoom(u)'
    BY RoomStays
  <2>2. CASE NewRun
    <3>1. run' = run + 1 /\ run \in 1..Runs /\ Runs \in Nat
      BY <2>2, KernelAssumption DEF NewRun, KernelInv, Typed
    <3>2. run' # 1
      BY <3>1
    <3> QED
      BY <2>1, <3>2
  <2>3. CASE OnBeginDispatch \/ OnEndDispatch \/ OnRound
    <3>1. run' = run
      BY <2>3 DEF OnBeginDispatch, OnEndDispatch, OnRound, Handles, Enters, Comes
    <3> QED
      BY <2>1, <2>3, <3>1, DispatchKeepsFakes
  <2>4. ASSUME NEW t \in Tasks,
               \/ OnArrival(t) \/ OnFakeArrival(t) \/ OnEndInstance(t)
               \/ OnDeadline(t) \/ OnKill(t) \/ OnSched(t) \/ OnDesched(t)
               \/ OnInstrEnd(t) \/ OnSuspend(t) \/ OnResume(t) \/ Schedule(t)
        PROVE  run' = 1 => FakeInTurn(u)'
    <3>1. run' = run
      BY <2>4 DEF OnArrival, OnFakeArrival, OnEndInstance, OnDeadline, OnKill,
                  OnSched, OnDesched, OnInstrEnd, OnSuspend, OnResume, Schedule,
                  Handles, Enters, Comes, runVars
    <3> QED
      BY <2>4, <3>1, TaskKeepsFakes, EndKeepsFakes, KillKeepsFakes,
         ArrivalKeepsFakes, FakeArrivalKeepsFakes, ScheduleKeepsFakes
  <2>5. CASE UNCHANGED vars
    BY <2>1, <2>5 DEF vars, runVars, jobVars, FakeInTurn
  <2> QED
    BY <2>1, <2>2, <2>3, <2>4, <2>5 DEF Next, Steps, Over
<1> QED
  BY <1>1, <1>2, KernelInvariant, PTL DEF Spec

(* No handler posts an event twice, follows a null pointer or throws,       *)
(* whatever the programs, the scheduler, the resources and the buffers,     *)
(* with one exception: after a run in which Task::onKill dropped the        *)
(* fakeArr it had just processed, killInstance may post it ahead of the     *)
(* kill, and Task::onFakeArrival finds the task active.                     *)
THEOREM OnlyStaleFakeArrEverThrows ==
    ASSUME Sound
    PROVE  Spec => []OnlyStaleFakeArrThrows
<1>1. KernelInv /\ FakesInTurn => OnlyStaleFakeArrThrows
  <2> SUFFICES ASSUME KernelInv, FakesInTurn, exc # "none"
               PROVE  OnlyStaleFakeArrThrows
    BY DEF OnlyStaleFakeArrThrows
  <2>1. PICK t \in KillOnMiss :
           /\ exc = "TaskAlreadyActive"
           /\ state[t] # "IDLE" /\ IsPosted(agenda, Kill(t))
           /\ Head(agenda) = Entry(FakeArr(t), now, 0)
    BY DEF KernelInv, ThrownByStaleFakeArr
  <2>2. PICK y \in Entries(agenda) : y = Head(agenda) /\ y.ev = FakeArr(t) /\ y.prio = 0
    <3>1. agenda \in Seq(EventEntry) /\ agenda # <<>>
      BY <2>1 DEF KernelInv, GoodAgenda, IsPosted
    <3>2. 1 \in DOMAIN agenda /\ Head(agenda) = agenda[1]
      BY <3>1
    <3> QED
      BY <2>1, <3>2, EntryParts DEF Entries
  <2>3. t \in Tasks
    <3>1. y.ev \in Events /\ y.ev = FakeArr(t)
      BY <2>2, GoodEntries DEF KernelInv
    <3> QED
      BY <3>1, EventParts DEF Events, FakeArr, Begin, EndDisp, Round
  <2>4. QueueSize[t] >= 0
    <3>1. arrQueue[t] # <<>>
      BY <2>2, <2>3 DEF KernelInv, TaskInv, BufferInTime
    <3> QED
      BY <2>3, <3>1 DEF FakesInTurn, HasRoom
  <2>5. run > 1
    <3>1. run # 1
      BY <2>1, <2>2, <2>3 DEF FakesInTurn, FakeInTurn
    <3>2. run \in 1..Runs /\ Runs \in Nat
      BY KernelAssumption DEF KernelInv, Typed
    <3> QED
      BY <3>1, <3>2
  <2> QED
    BY <2>1, <2>4, <2>5 DEF OnlyStaleFakeArrThrows
<1> QED
  BY <1>1, KernelInvariant, FakesInvariant, PTL

(* A simulation of one run, and one in which no task that is killed buffers *)
(* arrivals, throws nothing at all.                                         *)
THEOREM KernelThrowsNothing ==
    ASSUME Sound, Runs = 1 \/ \A t \in KillOnMiss : QueueSize[t] < 0
    PROVE  Spec => []NoException
<1>1. KernelInv /\ OnlyStaleFakeArrThrows => NoException
  <2> SUFFICES ASSUME KernelInv, OnlyStaleFakeArrThrows, exc # "none"
               PROVE  FALSE
    BY DEF NoException
  <2>1. run \in 1..Runs /\ run > 1
    BY DEF KernelInv, Typed, OnlyStaleFakeArrThrows
  <2>2. PICK t \in KillOnMiss : QueueSize[t] >= 0 /\ IsPosted(agenda, Kill(t))
    BY DEF OnlyStaleFakeArrThrows
  <2>3. Runs # 1
    BY <2>1
  <2>4. QueueSize[t] < 0
    BY <2>3
  <2>5. t \in Tasks
    <3>1. PICK x \in Entries(agenda) : x.ev = Kill(t) /\ x.ev \in Events
      BY <2>2, GoodEntries, PostedEntries DEF KernelInv
    <3> QED
      BY <3>1, EventParts DEF Events, Kill, Begin, EndDisp, Round
  <2>6. QueueSize[t] \in Nat \cup {-1}
    BY <2>5, TaskAssumption
  <2> QED
    BY <2>2, <2>4, <2>6
<1> QED
  BY <1>1, KernelInvariant, OnlyStaleFakeArrEverThrows, PTL

-----------------------------------------------------------------------------
(* Units are conserved.                                                      *)

(* Every program releases all it takes. *)
Balanced ==
    \A t \in Tasks, r \in Resources :
        SumFunctionOnSet([i \in DOMAIN Program[t] |-> Delta(Program[t][i], r)],
                         DOMAIN Program[t]) = 0

(* The units of r that an instruction takes. *)
LEMMA Deltas ==
    ASSUME NEW t \in Tasks, NEW i \in 1..Len(Program[t]), NEW r
    PROVE  LET I == Program[t][i]
           IN  /\ Delta(I, r) \in Int
               /\ I.op \in {"exec", "suspend"} => Delta(I, r) = 0
               /\ I.op = "wait" =>
                     /\ Delta(I, r) = IF I.res = r THEN I.nr ELSE 0
                     /\ I.nr \in Nat /\ I.nr > 0 /\ I.res \in Resources
               /\ I.op = "signal" =>
                     /\ Delta(I, r) = IF I.res = r THEN -I.nr ELSE 0
                     /\ I.nr \in Nat /\ I.nr > 0 /\ I.res \in Resources
<1> DEFINE I == Program[t][i]
<1>1. \/ I.op \in {"exec", "suspend"}
      \/ I.op \in {"wait", "signal"} /\ I.res \in Resources /\ I.nr \in Nat \ {0}
  BY TaskAssumption
<1> HIDE DEF I
<1>2. /\ Delta(I, r) \in Int
      /\ I.op \in {"exec", "suspend"} => Delta(I, r) = 0
      /\ I.op = "wait" => /\ Delta(I, r) = IF I.res = r THEN I.nr ELSE 0
                          /\ I.nr \in Nat /\ I.nr > 0 /\ I.res \in Resources
      /\ I.op = "signal" => /\ Delta(I, r) = IF I.res = r THEN -I.nr ELSE 0
                            /\ I.nr \in Nat /\ I.nr > 0 /\ I.res \in Resources
  BY <1>1 DEF Delta
<1> QED
  BY <1>2 DEF I

(* What each instruction of t takes of r. *)
Terms(t, r) == [i \in DOMAIN Program[t] |-> Delta(Program[t][i], r)]

(* What t has taken of r when it comes to its k-th instruction. *)
Taken(t, r, k) == SumFunctionOnSet(Terms(t, r), 1..(k - 1))

(* What is taken grows by what each instruction takes. *)
LEMMA TakenOneByOne ==
    ASSUME NEW t \in Tasks, NEW r
    PROVE  /\ Taken(t, r, 1) = 0
           /\ \A k \in 1..Len(Program[t]) + 1 : Taken(t, r, k) \in Int
           /\ \A k \in 1..Len(Program[t]) :
                 Taken(t, r, k + 1) = Taken(t, r, k) + Delta(Program[t][k], r)
<1> DEFINE n == Len(Program[t])
           f == Terms(t, r)
<1>1. n \in Nat /\ DOMAIN Program[t] = 1..n
  BY Programs
<1>2. \A i \in 1..n : f[i] = Delta(Program[t][i], r) /\ f[i] \in Int
  BY <1>1, Deltas DEF Terms
<1> HIDE DEF n, f
<1>3. Taken(t, r, 1) = 0
  <2>1. 1..(1 - 1) = {}
    OBVIOUS
  <2> QED
    BY <2>1, SumOfNone DEF Taken
<1>4. ASSUME NEW k \in 1..n + 1
      PROVE  Taken(t, r, k) \in Int
  <2>1. k - 1 \in Int /\ \A x \in 1..(k - 1) : x \in 1..n
    BY <1>1
  <2>2. IsFiniteSet(1..(k - 1))
    BY <2>1, IntervalIsFinite
  <2>3. \A x \in 1..(k - 1) : f[x] \in Int
    BY <1>2, <2>1
  <2>4. SumFunctionOnSet(f, 1..(k - 1)) \in Int
    BY <2>2, <2>3, SumIsNumber
  <2> QED
    BY <2>4 DEF Taken, f
<1>5. ASSUME NEW k \in 1..n
      PROVE  Taken(t, r, k + 1) = Taken(t, r, k) + Delta(Program[t][k], r)
  <2>1. /\ k \in Int /\ k >= 1 /\ k + 1 - 1 = k
        /\ \A x \in 1..k : x \in 1..n
    BY <1>1
  <2>2. \A x \in 1..k : f[x] \in Int
    BY <1>2, <2>1
  <2>5. /\ SumFunctionOnSet(f, 1..k) = f[k] + SumFunctionOnSet(f, 1..(k - 1))
        /\ SumFunctionOnSet(f, 1..(k - 1)) \in Int
    BY <2>1, <2>2, SumUpTo
  <2>3. Taken(t, r, k + 1) = f[k] + Taken(t, r, k) /\ Taken(t, r, k) \in Int
    BY <2>1, <2>5 DEF Taken, f
  <2>4. f[k] = Delta(Program[t][k], r) /\ f[k] \in Int
    BY <1>2
  <2> QED
    BY <2>3, <2>4
<1> QED
  BY <1>3, <1>4, <1>5 DEF n

(* Nothing is kept at the end, and nothing taken by who only executes. *)
LEMMA TakenIsReleased ==
    ASSUME NEW t \in Tasks, NEW r \in Resources
    PROVE  /\ Balanced => Taken(t, r, Len(Program[t]) + 1) = 0
           /\ (\A i \in DOMAIN Program[t] : Program[t][i].op = "exec") =>
                 \A k \in 1..Len(Program[t]) + 1 : Taken(t, r, k) = 0
<1> DEFINE n == Len(Program[t])
           f == Terms(t, r)
<1>1. n \in Nat /\ DOMAIN Program[t] = 1..n /\ 1..(n + 1 - 1) = 1..n
  BY Programs
<1>2. Balanced => Taken(t, r, n + 1) = 0
  BY <1>1 DEF Balanced, Taken, Terms
<1>3. ASSUME \A i \in DOMAIN Program[t] : Program[t][i].op = "exec",
             NEW k \in 1..n + 1
      PROVE  Taken(t, r, k) = 0
  <2>1. \A i \in 1..n : f[i] = 0
    BY <1>1, <1>3, Deltas DEF Terms
  <2> HIDE DEF n, f
  <2>2. k - 1 \in Int /\ \A x \in 1..(k - 1) : x \in 1..n
    BY <1>1
  <2>4. IsFiniteSet(1..(k - 1))
    BY <2>2, IntervalIsFinite
  <2>5. \A x \in 1..(k - 1) : f[x] = 0
    BY <2>1, <2>2
  <2>3. SumFunctionOnSet(f, 1..(k - 1)) = 0
    BY <2>4, <2>5, SumOfZeros
  <2> QED
    BY <2>3 DEF Taken, f
<1> QED
  BY <1>2, <1>3

(* The first k of b have got what they asked for, and nobody else anything. *)
GotTheirs(T, f, e, b, k) ==
    /\ f \in [T -> Int] /\ e \in [T -> Int]
    /\ Len(b) \in Nat
    /\ \A i \in 1..Len(b) : b[i].task \in T /\ b[i].nr \in Nat
    /\ k \in 0..Len(b)
    /\ \A i, j \in 1..Len(b) : b[i].task = b[j].task => i = j
    /\ \A i \in 1..k : e[b[i].task] = f[b[i].task] + b[i].nr
    /\ \A u \in T : (\A i \in 1..k : b[i].task # u) => e[u] = f[u]

(* The sum grows by what the first k have asked for. *)
LEMMA SumOfServed ==
    ASSUME NEW T, IsFiniteSet(T), NEW f, NEW e, NEW b, NEW k,
           GotTheirs(T, f, e, b, k)
    PROVE  SumFunctionOnSet(e, T) = SumFunctionOnSet(f, T) + Demand(b, k)
<1> SUFFICES ASSUME f \in [T -> Int], e \in [T -> Int], Len(b) \in Nat,
                    \A i \in 1..Len(b) : b[i].task \in T /\ b[i].nr \in Nat,
                    k \in 0..Len(b),
                    \A i, j \in 1..Len(b) : b[i].task = b[j].task => i = j,
                    \A i \in 1..k : e[b[i].task] = f[b[i].task] + b[i].nr,
                    \A u \in T : (\A i \in 1..k : b[i].task # u) => e[u] = f[u]
             PROVE  SumFunctionOnSet(e, T) = SumFunctionOnSet(f, T) + Demand(b, k)
  BY DEF GotTheirs
<1>1. /\ Len(b) \in Nat
      /\ \A i \in 1..Len(b) : b[i].task \in T /\ b[i].nr \in Nat
  OBVIOUS
<1>2. /\ \A j \in 0..Len(b) : Demand(b, j) \in Nat
      /\ Demand(b, 0) = 0
      /\ \A j \in 0..Len(b) : j < Len(b) =>
            Demand(b, j + 1) = Demand(b, j) + b[j + 1].nr
  BY <1>1, Demands
<1> DEFINE Got(j) == [u \in T |-> IF \E i \in 1..j : b[i].task = u
                                  THEN e[u] ELSE f[u]]
           Bad == {j \in 0..k : SumFunctionOnSet(Got(j), T)
                                    # SumFunctionOnSet(f, T) + Demand(b, j)}
<1>3. \A j \in 0..k : Got(j) \in [T -> Int]
  OBVIOUS
<1>4. 0 \notin Bad
  <2>1. \A u \in T : Got(0)[u] = f[u]
    OBVIOUS
  <2>2. SumFunctionOnSet(Got(0), T) = SumFunctionOnSet(f, T)
    <3> HIDE DEF Got
    <3> QED
      BY <2>1, SumOfSame
  <2>3. SumFunctionOnSet(f, T) \in Int
    BY SumIsNumber
  <2> HIDE DEF Got
  <2> QED
    BY <1>2, <2>2, <2>3
<1>5. ASSUME NEW j \in 0..k, j # 0, j - 1 \notin Bad
      PROVE  j \notin Bad
  <2>1. /\ j \in 1..k /\ j - 1 \in 0..k /\ j - 1 \in 0..Len(b) /\ j - 1 < Len(b)
        /\ j - 1 + 1 = j /\ j \in 1..Len(b) /\ j \in 0..Len(b)
    BY <1>1, <1>5
  <2> DEFINE y == b[j].task
             g == Got(j - 1)
             h == Got(j)
  <2>2. y \in T
    BY <1>1, <2>1
  <2>3. g \in [T -> Int] /\ h \in [T -> Int]
    BY <1>3, <2>1
  <2>4. h[y] = f[y] + b[j].nr /\ g[y] = f[y]
    <3>1. h[y] = e[y]
      BY <2>1, <2>2
    <3>2. \A i \in 1..j - 1 : i \in 1..Len(b) /\ i # j
      <4>1. j \in Nat /\ Len(b) \in Nat /\ j <= Len(b)
        BY <1>1, <2>1
      <4> QED
        BY <4>1
    <3>3. ~\E i \in 1..j - 1 : b[i].task = y
      BY <2>1, <3>2
    <3> QED
      BY <2>1, <2>2, <3>1, <3>3
  <2>5. \A x \in T : x # y => h[x] = g[x]
    <3>1. \A i : i \in 1..j <=> i \in 1..j - 1 \/ i = j
      BY <2>1
    <3> QED
      BY <3>1
  <2>6. f[y] \in Int /\ b[j].nr \in Nat
    BY <1>1, <2>1, <2>2
  <2> HIDE DEF Got, g, h, y
  <2>7. SumFunctionOnSet(h, T) = SumFunctionOnSet(g, T) + (h[y] - g[y])
    <3>1. \A x \in T : g[x] \in Int /\ h[x] \in Int
      BY <2>3
    <3> QED
      BY <2>2, <2>5, <3>1, SumOfChanged, SMTT(60)
  <2>8. SumFunctionOnSet(g, T) = SumFunctionOnSet(f, T) + Demand(b, j - 1)
    BY <1>5, <2>1 DEF g
  <2>9. SumFunctionOnSet(f, T) \in Int /\ Demand(b, j - 1) \in Nat
        /\ Demand(b, j) = Demand(b, j - 1) + b[j].nr
    BY <1>2, <2>1, SumIsNumber
  <2> DEFINE s == SumFunctionOnSet(f, T)
             d == Demand(b, j - 1)
             n == b[j].nr
  <2>10. SumFunctionOnSet(h, T) = SumFunctionOnSet(f, T) + Demand(b, j)
    <3>1. SumFunctionOnSet(h, T) = s + d + n
      <4>1. /\ s \in Int /\ d \in Nat /\ n \in Nat /\ f[y] \in Int
            /\ SumFunctionOnSet(g, T) = s + d
            /\ h[y] = f[y] + n /\ g[y] = f[y]
        BY <2>4, <2>6, <2>8, <2>9
      <4> HIDE DEF s, d, n
      <4> QED
        BY <4>1, <2>7
    <3>2. Demand(b, j) = d + n /\ s \in Int /\ d \in Nat /\ n \in Nat
      BY <2>6, <2>9
    <3>3. s = SumFunctionOnSet(f, T)
      OBVIOUS
    <3> HIDE DEF s, d, n
    <3> QED
      BY <3>1, <3>2, <3>3
  <2> QED
    BY <2>10 DEF h
<1>6. k \notin Bad
  <2> HIDE DEF Got
  <2>1. Bad \in SUBSET Nat
    OBVIOUS
  <2> SUFFICES ASSUME Bad # {} PROVE FALSE
    OBVIOUS
  <2>2. PICK j \in Bad : \A m \in Bad : j <= m
    <3> HIDE DEF Bad
    <3> QED
      BY <2>1, LeastNumber
  <2>3. j \in 0..k
    OBVIOUS
  <2> HIDE DEF Bad
  <2>4. j # 0 /\ j - 1 \notin Bad
    <3>1. ~(j <= j - 1)
      BY <2>3
    <3> QED
      BY <1>4, <2>2, <3>1
  <2> QED
    BY <1>5, <2>3, <2>4
<1>7. \A u \in T : e[u] = Got(k)[u]
  OBVIOUS
<1>8. SumFunctionOnSet(e, T) = SumFunctionOnSet(Got(k), T)
  <2> DEFINE g == Got(k)
  <2>1. \A u \in T : e[u] = g[u]
    BY <1>7
  <2>2. SumFunctionOnSet(e, T) = SumFunctionOnSet(g, T)
    <3> HIDE DEF g, Got
    <3> QED
      BY <2>1, SumOfSame
  <2> QED
    BY <2>2
<1> HIDE DEF Got
<1> QED
  BY <1>1, <1>6, <1>8

(* A task in its program: only one that waits for units waits at all. *)
LEMMA AtWork ==
    ASSUME KernelInv, NEW t \in Tasks
    PROVE  /\ actInstr[t] \in 1..Len(Program[t]) + 1
           /\ waiting[t] \in BOOLEAN
           /\ waiting[t] => /\ state[t] # "IDLE" /\ Instr(t).op = "wait"
                            /\ actInstr[t] \in 1..Len(Program[t])
           /\ IsBlocked(t) => waiting[t]
<1>1. InProgram(t) /\ Typed /\ WaitsOneByOne
  BY Waiters DEF KernelInv, TaskInv
<1>2. Len(Program[t]) \in Nat
  BY Programs
<1>3. actInstr[t] \in 1..Len(Program[t]) + 1
  BY <1>1 DEF InProgram
<1>4. waiting[t] \in BOOLEAN
  BY <1>1 DEF Typed
<1>5. waiting[t] => /\ state[t] # "IDLE" /\ Instr(t).op = "wait"
                    /\ actInstr[t] # Len(Program[t]) + 1
  BY <1>1 DEF InProgram
<1>6. IsBlocked(t) => waiting[t]
  BY <1>1 DEF WaitsOneByOne, IsBlocked, WaitsFor
<1> QED
  BY <1>2, <1>3, <1>4, <1>5, <1>6

(* What t holds of r. *)
HeldBy(t, r) ==
    /\ state[t] = "IDLE" => Held(t, r) = 0
    /\ state[t] # "IDLE" /\ (waiting[t] => IsBlocked(t)) =>
          Held(t, r) = Taken(t, r, actInstr[t])
    /\ state[t] # "IDLE" /\ waiting[t] /\ ~IsBlocked(t) =>
          Held(t, r) = Taken(t, r, actInstr[t]) + Delta(Instr(t), r)

(* What every task holds follows from how far it has come. *)
Holdings == \A t \in Tasks : \A r : HeldBy(t, r) /\ Held(t, r) \in Int

(* Who is not at work holds nothing, who waits holds what it had taken      *)
(* before, and who was served has what it asked for as well.                *)
LEMMA HeldUnits ==
    KernelInv => Holdings
<1> SUFFICES ASSUME KernelInv, NEW t \in Tasks, NEW r
             PROVE  HeldBy(t, r) /\ Held(t, r) \in Int
  BY DEF Holdings
<1>1. BlockedOn(t) = {} <=> ~IsBlocked(t)
  BY DEF BlockedOn, IsBlocked
<1>2. /\ actInstr[t] \in 1..Len(Program[t]) + 1
      /\ waiting[t] => actInstr[t] \in 1..Len(Program[t])
  BY AtWork
<1> DEFINE held == Taken(t, r, actInstr[t])
           asked == Delta(Instr(t), r)
<1>3. Held(t, r) = IF state[t] = "IDLE" THEN 0
                   ELSE held + IF waiting[t] /\ BlockedOn(t) = {} THEN asked ELSE 0
  BY DEF Held, Taken, Terms
<1>4. held \in Int
  BY <1>2, TakenOneByOne
<1>5. waiting[t] => asked \in Int
  BY <1>2, Deltas DEF Instr
<1> HIDE DEF held, asked
<1>6. /\ state[t] = "IDLE" => Held(t, r) = 0
      /\ state[t] # "IDLE" /\ (waiting[t] => IsBlocked(t)) => Held(t, r) = held
      /\ state[t] # "IDLE" /\ waiting[t] /\ ~IsBlocked(t) =>
            Held(t, r) = held + asked
      /\ Held(t, r) \in Int
  BY <1>1, <1>3, <1>4, <1>5
<1> QED
  BY <1>6 DEF HeldBy, held, asked

(* What the tasks hold before a step. *)
LEMMA HeldBefore ==
    ASSUME KernelInv
    PROVE  \A t \in Tasks : \A r : HeldBy(t, r) /\ Held(t, r) \in Int
BY HeldUnits DEF Holdings

(* What the tasks hold after a step. *)
LEMMA HeldAfter ==
    ASSUME KernelInv'
    PROVE  \A t \in Tasks : \A r : HeldBy(t, r)' /\ Held(t, r)' \in Int
<1>1. Holdings'
  BY HeldUnits, PTL
<1> QED
  BY <1>1 DEF Holdings

(* No task takes units or gives them back. *)
NobodyHoldsMore == \A u \in Tasks, r \in Resources : Held(u, r)' = Held(u, r)

(* What a task holds stays the same while it does not go on. *)
LEMMA HeldStays ==
    ASSUME NEW u, NEW r, state'[u] = "IDLE" <=> state[u] = "IDLE",
           waiting'[u] = waiting[u], actInstr'[u] = actInstr[u],
           IsBlocked(u)' <=> IsBlocked(u)
    PROVE  Held(u, r)' = Held(u, r)
<1>1. BlockedOn(u) = {} <=> ~IsBlocked(u)
  BY DEF BlockedOn, IsBlocked
<1>2. (BlockedOn(u) = {})' <=> ~IsBlocked(u)'
  BY DEF BlockedOn, IsBlocked
<1>3. (BlockedOn(u) = {})' <=> BlockedOn(u) = {}
  BY <1>1, <1>2
<1> QED
  BY <1>3 DEF Held, Instr

-----------------------------------------------------------------------------
(* The handlers that leave the resources alone.                              *)

(* Nothing is asked for or given back, and who waits still does. *)
Undisturbed ==
    /\ UNCHANGED <<available, blocked>>
    /\ NobodyHoldsMore
    /\ \A u \in Tasks : IsBlocked(u) => actInstr'[u] = actInstr[u]

(* Nothing moves while the instructions and the lists stay as they are. *)
LEMMA QuietUnits ==
    ASSUME UNCHANGED <<actInstr, waiting, available, blocked>>,
           \A u \in Tasks : state'[u] = "IDLE" <=> state[u] = "IDLE"
    PROVE  Undisturbed
<1>1. \A u : IsBlocked(u)' <=> IsBlocked(u)
  BY DEF IsBlocked
<1>2. ASSUME NEW u \in Tasks, NEW r \in Resources PROVE Held(u, r)' = Held(u, r)
  BY <1>1, HeldStays
<1> QED
  BY <1>2 DEF Undisturbed, NobodyHoldsMore

(* One task goes on, and holds no more than before. *)
LEMMA OneGoesOn ==
    ASSUME KernelInv, NEW t \in Tasks, UNCHANGED <<waiting, available, blocked>>,
           ~waiting[t],
           \A u \in Tasks : u # t =>
              /\ state'[u] = "IDLE" <=> state[u] = "IDLE"
              /\ actInstr'[u] = actInstr[u],
           \A r \in Resources : Held(t, r)' = Held(t, r)
    PROVE  Undisturbed
<1>1. \A u : IsBlocked(u)' <=> IsBlocked(u)
  BY DEF IsBlocked
<1>2. ASSUME NEW u \in Tasks, u # t, NEW r \in Resources
      PROVE  Held(u, r)' = Held(u, r)
  BY <1>1, <1>2, HeldStays
<1>3. ~IsBlocked(t)
  BY AtWork
<1> QED
  BY <1>2, <1>3 DEF Undisturbed, NobodyHoldsMore

(* The kernel's own events move no units. *)
LEMMA DispatchIsQuiet ==
    ASSUME OnBeginDispatch \/ OnEndDispatch \/ OnRound
    PROVE  Undisturbed
<1>1. UNCHANGED <<actInstr, waiting, state>>
  BY DEF OnBeginDispatch, OnEndDispatch, OnRound, Throw, jobVars, instrVars
<1>2. UNCHANGED <<available, blocked>>
  BY OthersKeepUnits DEF resVars
<1> QED
  BY <1>1, <1>2, QuietUnits

(* Nor do deadlines, the CPU given and taken away, and suspensions. *)
LEMMA TaskIsQuiet ==
    ASSUME KernelInv, NEW t \in Tasks,
           OnDeadline(t) \/ OnSched(t) \/ OnDesched(t) \/ OnSuspend(t)
    PROVE  Undisturbed
<1>1. UNCHANGED <<actInstr, waiting>>
  BY DEF OnDeadline, OnSched, OnDesched, OnSuspend, Throw, jobVars, instrVars
<1>2. UNCHANGED <<available, blocked>>
  BY OthersKeepUnits DEF resVars
<1>3. \A u \in Tasks : state'[u] = "IDLE" <=> state[u] = "IDLE"
  <2>1. state \in [Tasks -> {"IDLE", "READY", "EXEC"}]
    BY DEF KernelInv, Typed
  <2>2. CASE OnSched(t)
    <3>1. \/ state' = state
          \/ state[t] # "IDLE" /\ state' = [state EXCEPT ![t] = "EXEC"]
      BY <2>2 DEF OnSched, Throw
    <3> QED
      BY <2>1, <3>1
  <2>3. CASE OnDesched(t)
    <3>1. \/ state' = state
          \/ state[t] # "IDLE" /\ state' = [state EXCEPT ![t] = "READY"]
      BY <2>3 DEF OnDesched, Throw
    <3> QED
      BY <2>1, <3>1
  <2>4. CASE OnDeadline(t) \/ OnSuspend(t)
    BY <2>4 DEF OnDeadline, OnSuspend
  <2> QED
    BY <2>2, <2>3, <2>4
<1> QED
  BY <1>1, <1>2, <1>3, QuietUnits

(* A job that starts has taken nothing yet. *)
LEMMA StartIsQuiet ==
    ASSUME KernelInv, KernelInv', NEW t \in Tasks, state[t] = "IDLE",
           NEW arr, JobStarts(t, arr), UNCHANGED <<waiting, available, blocked>>
    PROVE  Undisturbed
<1>1. /\ state \in [Tasks -> {"IDLE", "READY", "EXEC"}]
      /\ actInstr \in [Tasks -> Nat]
  BY DEF KernelInv, Typed
<1>2. /\ state' = [state EXCEPT ![t] = "READY"]
      /\ actInstr' = [actInstr EXCEPT ![t] = 1]
  BY DEF JobStarts
<1>3. state'[t] = "READY" /\ actInstr'[t] = 1
  BY <1>1, <1>2
<1>4. \A u \in Tasks : u # t => state'[u] = state[u] /\ actInstr'[u] = actInstr[u]
  BY <1>1, <1>2
<1>5. ~waiting[t] /\ ~waiting'[t]
  BY AtWork
<1>6. ASSUME NEW r \in Resources PROVE Held(t, r)' = Held(t, r)
  <2>1. HeldBy(t, r) /\ HeldBy(t, r)'
    BY HeldBefore, HeldAfter
  <2>2. Held(t, r) = 0 /\ Held(t, r)' = Taken(t, r, 1)
    BY <1>3, <1>5, <2>1 DEF HeldBy
  <2> QED
    BY <2>2, TakenOneByOne
<1> QED
  BY <1>4, <1>5, <1>6, OneGoesOn

(* Arrivals move no units: one that starts a job finds nothing taken. *)
LEMMA ArrivalIsQuiet ==
    ASSUME KernelInv, KernelInv', NEW t \in Tasks, OnArrival(t) \/ OnFakeArrival(t)
    PROVE  Undisturbed
<1>1. UNCHANGED <<available, blocked>>
  BY OthersKeepUnits DEF resVars
<1>2. CASE /\ state[t] = "IDLE" /\ UNCHANGED waiting
           /\ \E arr : JobStarts(t, arr)
  BY <1>1, <1>2, StartIsQuiet
<1>3. CASE UNCHANGED <<state, actInstr, waiting>>
  BY <1>1, <1>3, QuietUnits
<1>4. CASE OnArrival(t)
  <2>1. CASE state[t] = "IDLE"
    BY <1>2, <1>4, <2>1 DEF OnArrival
  <2>2. CASE state[t] # "IDLE"
    BY <1>3, <1>4, <2>2 DEF OnArrival, instrVars
  <2> QED
    BY <2>1, <2>2
<1>5. CASE OnFakeArrival(t)
  <2>1. CASE arrQueue[t] = <<>> \/ state[t] # "IDLE"
    BY <1>3, <1>5, <2>1 DEF OnFakeArrival, Throw, jobVars, instrVars
  <2>2. CASE arrQueue[t] # <<>> /\ state[t] = "IDLE"
    BY <1>2, <1>5, <2>2 DEF OnFakeArrival
  <2> QED
    BY <2>1, <2>2
<1> QED
  BY <1>4, <1>5

(* A job that ends has given back what it had taken. *)
LEMMA EndIsQuiet ==
    ASSUME KernelInv, Balanced, NEW t \in Tasks, OnEndInstance(t)
    PROVE  Undisturbed
<1>1. Entered(EndEvt(t)) /\ UNCHANGED <<waiting, available, blocked>>
  BY Entering, OthersKeepUnits
     DEF OnEndInstance, Handles, resVars, instrVars, Throw
<1>2. "end" \in Of(agenda, t)
  BY <1>1 DEF Entered, Of, JobKinds, EndEvt
<1>3. actInstr[t] = Len(Program[t]) + 1 /\ ~waiting[t]
  BY <1>2 DEF KernelInv, TaskInv, InProgram
<1>4. /\ state \in [Tasks -> {"IDLE", "READY", "EXEC"}]
      /\ actInstr \in [Tasks -> Nat]
  BY DEF KernelInv, Typed
<1>5. CASE UNCHANGED <<state, actInstr>>
  BY <1>1, <1>5, QuietUnits
<1>6. CASE /\ state[t] = "EXEC"
           /\ state' = [state EXCEPT ![t] = "IDLE"]
           /\ actInstr' = [actInstr EXCEPT ![t] = 1]
  <2>1. state'[t] = "IDLE"
    BY <1>4, <1>6
  <2>2. \A u \in Tasks : u # t => state'[u] = state[u] /\ actInstr'[u] = actInstr[u]
    BY <1>4, <1>6
  <2>3. ASSUME NEW r \in Resources PROVE Held(t, r)' = Held(t, r)
    <3>1. HeldBy(t, r)
      BY HeldBefore
    <3>2. Held(t, r) = Taken(t, r, Len(Program[t]) + 1)
      BY <1>3, <1>6, <3>1 DEF HeldBy
    <3>3. Held(t, r)' = 0
      BY <2>1 DEF Held
    <3> QED
      BY <3>2, <3>3, TakenIsReleased
  <2> QED
    BY <1>1, <1>3, <2>2, <2>3, OneGoesOn
<1> QED
  BY <1>4, <1>5, <1>6 DEF OnEndInstance, Throw, JobEnds, jobVars

(* A job that is killed only executes. *)
LEMMA KillIsQuiet ==
    ASSUME KernelInv, Sound, NEW t \in Tasks, OnKill(t)
    PROVE  Undisturbed
<1>1. Entered(Kill(t)) /\ UNCHANGED <<waiting, available, blocked>>
  BY Entering, OthersKeepUnits DEF OnKill, Handles, resVars, instrVars
<1>2. "kill" \in Of(agenda, t)
  BY <1>1 DEF Entered, Of, JobKinds, Kill
<1>3. t \in KillOnMiss
  BY <1>2 DEF KernelInv, TaskInv, DeadInTime
<1>4. \A i \in DOMAIN Program[t] : Program[t][i].op = "exec"
  BY <1>3 DEF Sound
<1>5. /\ actInstr[t] \in 1..Len(Program[t]) + 1
      /\ waiting[t] => /\ Instr(t).op = "wait"
                       /\ actInstr[t] \in 1..Len(Program[t])
      /\ DOMAIN Program[t] = 1..Len(Program[t])
  BY AtWork, Programs
<1>6. ~waiting[t]
  BY <1>4, <1>5 DEF Instr
<1>7. /\ state \in [Tasks -> {"IDLE", "READY", "EXEC"}]
      /\ state' = [state EXCEPT ![t] = "IDLE"] /\ actInstr' = actInstr
  BY DEF KernelInv, Typed, OnKill, JobEnds
<1>8. ASSUME NEW r \in Resources PROVE Held(t, r)' = Held(t, r)
  <2>1. HeldBy(t, r)
    BY HeldBefore
  <2>2. Held(t, r) = 0 \/ Held(t, r) = Taken(t, r, actInstr[t])
    BY <1>6, <2>1 DEF HeldBy
  <2>3. Held(t, r)' = 0
    BY <1>7 DEF Held
  <2> QED
    BY <1>4, <1>5, <2>2, <2>3, TakenIsReleased
<1>9. \A u \in Tasks : u # t => state'[u] = state[u]
  BY <1>7
<1> QED
  BY <1>1, <1>6, <1>7, <1>8, <1>9, OneGoesOn

(* A job that goes on with its next instruction. *)
LEMMA NextInstruction ==
    ASSUME KernelInv, KernelInv', NEW t \in Tasks, NEW q, InstrEnds(t, q),
           state' = state, ~waiting'[t], actInstr[t] \in 1..Len(Program[t]), NEW r
    PROVE  /\ Held(t, r)' = Taken(t, r, actInstr[t]) + Delta(Instr(t), r)
           /\ state[t] # "IDLE"
           /\ \A u \in Tasks : u # t => actInstr'[u] = actInstr[u]
<1>1. /\ actInstr \in [Tasks -> Nat] /\ state[t] # "IDLE"
      /\ actInstr' = [actInstr EXCEPT ![t] = @ + 1]
  BY DEF KernelInv, Typed, InstrEnds
<1>2. HeldBy(t, r)'
  BY HeldAfter
<1>3. actInstr'[t] = actInstr[t] + 1
  BY <1>1
<1>4. Held(t, r)' = Taken(t, r, actInstr[t] + 1)
  BY <1>1, <1>2, <1>3 DEF HeldBy
<1>5. Taken(t, r, actInstr[t] + 1) = Taken(t, r, actInstr[t]) + Delta(Instr(t), r)
  BY TakenOneByOne DEF Instr
<1> QED
  BY <1>1, <1>4, <1>5

(* Instructions that execute or suspend take nothing. *)
LEMMA EndOfWorkIsQuiet ==
    ASSUME KernelInv, KernelInv', NEW t \in Tasks, OnInstrEnd(t) \/ OnResume(t)
    PROVE  Undisturbed
<1>1. UNCHANGED <<waiting, available, blocked>>
  BY OthersKeepUnits DEF OnInstrEnd, OnResume, resVars, instrVars, Throw
<1>2. \E e \in {InstrEvt(t), Resume(t)} : Entered(e)
  BY Entering DEF OnInstrEnd, OnResume, Handles
<1>3. "instr" \in Of(agenda, t) \/ "resume" \in Of(agenda, t)
  BY <1>2 DEF Entered, Of, JobKinds, InstrEvt, Resume
<1>4. Instr(t).op \in {"exec", "suspend"} /\ TaskInv(t) /\ call # t
  <2>1. call = None
    BY <1>2 DEF Entered
  <2> QED
    BY <1>3, <2>1, Programs DEF KernelInv, TaskInv, InProgram
<1>5. ~waiting[t]
  BY <1>4, AtWork
<1>6. actInstr[t] \in 1..Len(Program[t])
  <2>1. "end" \notin Of(agenda, t)
    BY <1>3, <1>4 DEF TaskInv, Situation, Idle, Ready, Executing
  <2>2. actInstr[t] # Len(Program[t]) + 1
    BY <1>4, <2>1 DEF TaskInv, InProgram
  <2> QED
    BY <2>2, AtWork, Programs
<1>7. CASE UNCHANGED <<state, actInstr>>
  BY <1>1, <1>7, QuietUnits
<1>8. CASE state' = state /\ \E q : InstrEnds(t, q)
  <2>1. ASSUME NEW r \in Resources PROVE Held(t, r)' = Held(t, r)
    <3>1. Held(t, r)' = Taken(t, r, actInstr[t]) + Delta(Instr(t), r)
      BY <1>1, <1>5, <1>6, <1>8, NextInstruction
    <3>2. state[t] # "IDLE"
      BY <1>8 DEF InstrEnds
    <3>3. Held(t, r) = Taken(t, r, actInstr[t])
      BY <1>5, <3>2, HeldBefore DEF HeldBy
    <3>4. Delta(Instr(t), r) = 0
      BY <1>4, <1>6, Deltas DEF Instr
    <3>5. Taken(t, r, actInstr[t]) \in Int
      BY TakenOneByOne, AtWork
    <3> QED
      BY <3>1, <3>3, <3>4, <3>5
  <2>2. \A u \in Tasks : u # t => actInstr'[u] = actInstr[u]
    BY <1>8 DEF KernelInv, Typed, InstrEnds
  <2> QED
    BY <1>1, <1>5, <1>8, <2>1, <2>2, OneGoesOn
<1> QED
  BY <1>7, <1>8 DEF OnInstrEnd, OnResume, Throw, jobVars

-----------------------------------------------------------------------------
(* The handlers that ask for units and give them back.                       *)

(* Who waits is on the list with the units it asks for. *)
AskedFor ==
    \A r \in Resources : \A i \in DOMAIN blocked[r] : \A u :
        blocked[r][i].task = u => blocked[r][i].nr = Instr(u).nr

(* Units of what t asks for are granted to it. *)
Granted(t) ==
    /\ blocked[Instr(t).res] = <<>> /\ UNCHANGED blocked
    /\ Instr(t).nr \in Nat
    /\ \A r \in Resources :
          /\ available'[r] = available[r] - Delta(Instr(t), r)
          /\ Held(t, r)' = Held(t, r) + Delta(Instr(t), r)
    /\ \A u \in Tasks, r \in Resources : u # t => Held(u, r)' = Held(u, r)
    /\ \A u \in Tasks : IsBlocked(u) => actInstr'[u] = actInstr[u]

(* t joins those who wait for what it asks for. *)
Refused(t) ==
    /\ NobodyHoldsMore /\ UNCHANGED <<available, actInstr>>
    /\ \A r \in Resources : r # Instr(t).res => blocked'[r] = blocked[r]
    /\ \A i \in DOMAIN blocked'[Instr(t).res] :
          LET b == blocked[Instr(t).res]
              c == blocked'[Instr(t).res]
          IN  \/ i \in DOMAIN b /\ c[i] = b[i]
              \/ i \notin DOMAIN b /\ c[i] = [task |-> t, nr |-> Instr(t).nr]

(* A wait instruction is granted its units or joins the list. *)
LEMMA WaitingTurns ==
    ASSUME KernelInv, KernelInv', NEW t \in Tasks, Schedule(t), ScheduleWait(t)
    PROVE  Undisturbed \/ Granted(t) \/ Refused(t)
<1>1. /\ call = t /\ state' = state /\ Instr(t).op = "wait"
  BY DEF Schedule, ScheduleWait
<1>2. /\ state[t] # "IDLE" /\ ~IsBlocked(t)
      /\ actInstr[t] \in 1..Len(Program[t])
  BY <1>1, Calling
<1>3. /\ waiting \in [Tasks -> BOOLEAN] /\ available \in [Resources -> Nat]
      /\ blocked \in [Resources -> Seq([task : Tasks, nr : Nat])]
      /\ actInstr \in [Tasks -> Nat]
  BY DEF KernelInv, Typed
<1>4. \A r \in Resources : HeldBy(t, r) /\ Held(t, r) \in Int
  BY HeldBefore
<1>5. \A r \in Resources :
         /\ Delta(Instr(t), r) = IF Instr(t).res = r THEN Instr(t).nr ELSE 0
         /\ Taken(t, r, actInstr[t]) \in Int
  <2>1. ASSUME NEW r \in Resources
        PROVE  Delta(Instr(t), r) = IF Instr(t).res = r THEN Instr(t).nr ELSE 0
    BY <1>1, <1>2, Deltas DEF Instr
  <2>2. \A r : Taken(t, r, actInstr[t]) \in Int
    BY TakenOneByOne, AtWork
  <2> QED
    BY <2>1, <2>2
<1>6. Instr(t).res \in Resources /\ Instr(t).nr \in Nat
  BY <1>1, <1>2, Deltas DEF Instr
<1>7. CASE /\ waiting[t] /\ waiting' = [waiting EXCEPT ![t] = FALSE]
           /\ InstrEnds(t, agenda) /\ UNCHANGED resVars
  <2>1. /\ ~waiting'[t] /\ \A u \in Tasks : u # t => waiting'[u] = waiting[u]
        /\ \A u : IsBlocked(u)' <=> IsBlocked(u)
    BY <1>3, <1>7 DEF IsBlocked, resVars
  <2>2. \A r : Held(t, r)' = Taken(t, r, actInstr[t]) + Delta(Instr(t), r)
    BY <1>1, <1>2, <1>7, <2>1, NextInstruction
  <2>3. \A u \in Tasks : u # t => actInstr'[u] = actInstr[u]
    BY <1>3, <1>7 DEF InstrEnds
  <2>4. \A r \in Resources : Held(t, r)' = Held(t, r)
    BY <1>2, <1>4, <1>7, <2>2 DEF HeldBy
  <2>5. \A u \in Tasks, r \in Resources : u # t => Held(u, r)' = Held(u, r)
    BY <1>1, <2>1, <2>3, HeldStays
  <2> QED
    BY <1>2, <1>7, <2>3, <2>4, <2>5 DEF Undisturbed, NobodyHoldsMore, resVars
<1>8. CASE /\ ~waiting[t] /\ Grantable(Instr(t)) /\ UNCHANGED <<waiting, blocked>>
           /\ available' = [available EXCEPT ![Instr(t).res] = @ - Instr(t).nr]
           /\ InstrEnds(t, agenda)
  <2>1. /\ ~waiting'[t] /\ \A u : IsBlocked(u)' <=> IsBlocked(u)
    BY <1>8 DEF IsBlocked
  <2>2. \A r : Held(t, r)' = Taken(t, r, actInstr[t]) + Delta(Instr(t), r)
    BY <1>1, <1>2, <1>8, <2>1, NextInstruction
  <2>3. \A u \in Tasks : u # t => actInstr'[u] = actInstr[u]
    BY <1>3, <1>8 DEF InstrEnds
  <2>4. \A r \in Resources : Held(t, r)' = Held(t, r) + Delta(Instr(t), r)
    BY <1>2, <1>4, <1>8, <2>2 DEF HeldBy
  <2>5. \A u \in Tasks, r \in Resources : u # t => Held(u, r)' = Held(u, r)
    BY <1>1, <1>8, <2>1, <2>3, HeldStays
  <2>6. \A r \in Resources : available'[r] = available[r] - Delta(Instr(t), r)
    <3>1. PICK s \in Resources, n \in Nat : s = Instr(t).res /\ n = Instr(t).nr
      BY <1>6
    <3>2. /\ available' = [available EXCEPT ![s] = @ - n]
          /\ \A r \in Resources : Delta(Instr(t), r) = IF s = r THEN n ELSE 0
      BY <1>5, <1>8, <3>1
    <3>3. \A r \in Resources : available'[r] = available[r] - IF s = r THEN n ELSE 0
      BY <1>3, <3>2
    <3> QED
      BY <3>2, <3>3
  <2> QED
    BY <1>2, <1>6, <1>8, <2>3, <2>4, <2>5, <2>6 DEF Granted, Grantable
<1>9. CASE /\ ~waiting[t]
           /\ blocked' = [blocked EXCEPT ![Instr(t).res] =
                             Append(@, [task |-> t, nr |-> Instr(t).nr])]
           /\ waiting' = [waiting EXCEPT ![t] = TRUE]
           /\ UNCHANGED <<actInstr, available>>
  <2>1. PICK r \in Resources, n \in Nat : r = Instr(t).res /\ n = Instr(t).nr
    BY <1>6
  <2> DEFINE w == [task |-> t, nr |-> n]
             W == [task : Tasks, nr : Nat]
             b == blocked[r]
             c == blocked'[r]
  <2>2. w \in W /\ w.task = t /\ b \in Seq(W) /\ Len(b) \in Nat
        /\ DOMAIN b = 1..Len(b)
    BY <1>3, Waiting DEF KernelInv
  <2>3. c = Append(b, w) /\ \A s \in Resources : s # r => blocked'[s] = blocked[s]
    <3> HIDE DEF w, W
    <3> QED
      BY <1>3, <1>9, <2>1 DEF w
  <2> HIDE DEF w, W, b, c
  <2>4. /\ DOMAIN c = 1..Len(b) + 1
        /\ \A i \in 1..Len(b) : c[i] = b[i]
        /\ c[Len(b) + 1] = w
    BY <2>2, <2>3
  <2>5. \A i \in DOMAIN c : \/ i \in DOMAIN b /\ c[i] = b[i]
                            \/ i \notin DOMAIN b /\ c[i] = w
    BY <2>2, <2>4
  <2>6. \A i \in DOMAIN b : i \in DOMAIN c /\ c[i] = b[i]
    BY <2>2, <2>4
  <2>7. IsBlocked(t)'
    <3>1. Len(b) + 1 \in DOMAIN c /\ c[Len(b) + 1].task = t
      BY <2>2, <2>4
    <3> QED
      BY <3>1 DEF IsBlocked, c
  <2>8. ASSUME NEW u, u # t PROVE IsBlocked(u)' <=> IsBlocked(u)
    <3>1. ASSUME NEW s \in Resources
          PROVE  (\E i \in DOMAIN blocked'[s] : blocked'[s][i].task = u)
                 <=> (\E i \in DOMAIN blocked[s] : blocked[s][i].task = u)
      <4>1. CASE s # r
        BY <2>3, <4>1
      <4>2. CASE s = r
        BY <2>2, <2>5, <2>6, <2>8, <4>2 DEF b, c
      <4> QED
        BY <4>1, <4>2
    <3> QED
      BY <3>1 DEF IsBlocked
  <2>9. \A s \in Resources : Held(t, s)' = Held(t, s)
    <3>1. \A s : HeldBy(t, s)'
      BY HeldAfter
    <3> QED
      BY <1>1, <1>2, <1>4, <1>9, <2>7, <3>1 DEF HeldBy
  <2>10. \A u \in Tasks, s \in Resources : u # t => Held(u, s)' = Held(u, s)
    <3>1. \A u \in Tasks : u # t => waiting'[u] = waiting[u]
      BY <1>3, <1>9
    <3> QED
      BY <1>1, <1>9, <2>8, <3>1, HeldStays
  <2>11. Refused(t)
    BY <1>9, <2>1, <2>3, <2>5, <2>9, <2>10
       DEF Refused, NobodyHoldsMore, b, c, w
  <2> QED
    BY <2>11
<1> QED
  BY <1>7, <1>8, <1>9 DEF ScheduleWait

(* The n units of r that t gives back, and those left over, go to the first *)
(* k who wait for some, each of whom gets what it asked for.                *)
PassedOn(t, r, n, k) ==
    /\ Handed(r, n, k)
    /\ \A u \in Tasks, s \in Resources : s # r => Held(u, s)' = Held(u, s)
    /\ Held(t, r)' = Held(t, r) - n
    /\ \A i \in 1..k : \A u : blocked[r][i].task = u =>
          Held(u, r)' = Held(u, r) + blocked[r][i].nr
    /\ \A u \in Tasks : u # t /\ u \notin FirstOf(r, k) =>
          Held(u, r)' = Held(u, r)
    /\ t \notin FirstOf(r, k)
    /\ \A u \in Tasks : IsBlocked(u) => actInstr'[u] = actInstr[u]

(* A signal instruction passes its units on. *)
LEMMA SignalPasses ==
    ASSUME KernelInv, KernelInv', AskedFor, NEW t \in Tasks, Schedule(t),
           ScheduleSignal(t)
    PROVE  \E r \in Resources, n \in Nat : \E k \in 0..Len(blocked[r]) :
              PassedOn(t, r, n, k)
<1>1. /\ call = t /\ state' = state /\ Instr(t).op = "signal" /\ waiting' = waiting
      /\ InstrEnds(t, Dispatching(agenda))
  BY DEF Schedule, ScheduleSignal, instrVars
<1>2. /\ state[t] # "IDLE" /\ ~IsBlocked(t) /\ ~waiting[t]
      /\ actInstr[t] \in 1..Len(Program[t])
  BY <1>1, Calling, AtWork
<1>3. PICK r \in Resources, n \in Nat : \E k \in 0..Len(blocked[r]) :
         r = Instr(t).res /\ n = Instr(t).nr /\ Handed(r, n, k)
  BY SignalHands
<1>4. PICK k \in 0..Len(blocked[r]) : Handed(r, n, k)
  BY <1>3
<1>5. \A u \in Tasks : u # t => actInstr'[u] = actInstr[u]
  BY <1>1 DEF KernelInv, Typed, InstrEnds
<1>6. /\ \A u \in FirstOf(r, k) : u \in Tasks /\ IsBlocked(u) /\ WaitsFor(u, r)
      /\ \A u : IsBlocked(u)' <=> IsBlocked(u) /\ u \notin FirstOf(r, k)
      /\ \A i \in 1..k : i \in DOMAIN blocked[r]
  BY <1>4 DEF Handed
<1>7. ASSUME NEW s \in Resources
      PROVE  /\ s # r => Held(t, s)' = Held(t, s)
             /\ s = r => Held(t, s)' = Held(t, s) - n
  <2>1. Held(t, s)' = Taken(t, s, actInstr[t]) + Delta(Instr(t), s)
    BY <1>1, <1>2, NextInstruction
  <2>2. Held(t, s) = Taken(t, s, actInstr[t]) /\ Held(t, s) \in Int
    BY <1>2, HeldBefore DEF HeldBy
  <2>3. Delta(Instr(t), s) = IF Instr(t).res = s THEN -Instr(t).nr ELSE 0
    BY <1>1, <1>2, Deltas DEF Instr
  <2>4. Delta(Instr(t), s) = IF r = s THEN -n ELSE 0
    BY <1>3, <2>3
  <2> QED
    BY <2>1, <2>2, <2>4
<1>8. ASSUME NEW u \in Tasks, u # t, u \notin FirstOf(r, k), NEW s \in Resources
      PROVE  Held(u, s)' = Held(u, s)
  BY <1>1, <1>5, <1>6, <1>8, HeldStays
<1>9. ASSUME NEW u \in FirstOf(r, k), NEW s \in Resources
      PROVE  /\ s # r => Held(u, s)' = Held(u, s)
             /\ s = r => Held(u, s)' = Held(u, s) + Instr(u).nr
  <2>1. /\ u \in Tasks /\ u # t /\ IsBlocked(u) /\ ~IsBlocked(u)'
        /\ waiting[u] /\ waiting'[u] /\ Instr(u).op = "wait" /\ Instr(u).res = r
    BY <1>1, <1>2, <1>6 DEF WaitsFor, Instr
  <2>2. /\ state[u] # "IDLE" /\ state'[u] # "IDLE" /\ actInstr'[u] = actInstr[u]
        /\ actInstr[u] \in 1..Len(Program[u])
    BY <1>1, <1>5, <2>1, AtWork
  <2>3. Held(u, s) = Taken(u, s, actInstr[u]) /\ Held(u, s) \in Int
    BY <2>1, <2>2, HeldBefore DEF HeldBy
  <2>4. Held(u, s)' = Taken(u, s, actInstr[u]) + Delta(Instr(u), s)
    <3>1. HeldBy(u, s)'
      BY <2>1, HeldAfter
    <3> QED
      BY <2>1, <2>2, <3>1 DEF HeldBy, Instr
  <2>5. Delta(Instr(u), s) = IF Instr(u).res = s THEN Instr(u).nr ELSE 0
    BY <2>1, <2>2, Deltas DEF Instr
  <2> QED
    BY <2>1, <2>3, <2>4, <2>5
<1>10. \A u \in Tasks, s \in Resources : s # r => Held(u, s)' = Held(u, s)
  BY <1>7, <1>8, <1>9
<1>11. \A i \in 1..k : \A u : blocked[r][i].task = u =>
          Held(u, r)' = Held(u, r) + blocked[r][i].nr
  <2>1. ASSUME NEW i \in 1..k, NEW u, blocked[r][i].task = u
        PROVE  Held(u, r)' = Held(u, r) + blocked[r][i].nr
    <3>1. u \in FirstOf(r, k) /\ i \in DOMAIN blocked[r]
      BY <1>6, <2>1 DEF FirstOf
    <3>2. blocked[r][i].nr = Instr(u).nr
      BY <2>1, <3>1 DEF AskedFor
    <3> QED
      BY <1>9, <3>1, <3>2
  <2> QED
    BY <2>1
<1>12. t \notin FirstOf(r, k) /\ \A u \in Tasks : IsBlocked(u) => actInstr'[u] = actInstr[u]
  BY <1>2, <1>5, <1>6
<1>13. PassedOn(t, r, n, k)
  BY <1>4, <1>7, <1>8, <1>10, <1>11, <1>12 DEF PassedOn
<1> QED
  BY <1>13

(* What any step does with the units. *)
Begins ==
    /\ available' = Units
    /\ \A r \in Resources : blocked'[r] = <<>>
    /\ \A u \in Tasks, r \in Resources : Held(u, r)' = 0

(* What any step does with the units. *)
UnitsMove ==
    \/ Undisturbed
    \/ Begins
    \/ \E t \in Tasks : Granted(t) \/ Refused(t)
    \/ \E t \in Tasks, r \in Resources, n \in Nat :
          \E k \in 0..Len(blocked[r]) : PassedOn(t, r, n, k)

(* No step does anything else with them. *)
LEMMA UnitsAreMoved ==
    ASSUME KernelInv, KernelInv', AskedFor, Sound, Balanced, [Next]_vars
    PROVE  UnitsMove
<1>1. CASE NewRun
  <2>1. \A u \in Tasks : state'[u] = "IDLE"
    BY <1>1 DEF NewRun, ResetTasks
  <2>2. \A u \in Tasks, r \in Resources : Held(u, r)' = 0
    BY <2>1 DEF Held
  <2>3. available' = Units /\ \A r \in Resources : blocked'[r] = <<>>
    BY <1>1 DEF NewRun, ResetResources
  <2> QED
    BY <2>2, <2>3 DEF UnitsMove, Begins
<1>2. CASE OnBeginDispatch \/ OnEndDispatch \/ OnRound
  BY <1>2, DispatchIsQuiet DEF UnitsMove
<1>3. ASSUME NEW t \in Tasks,
             \/ OnArrival(t) \/ OnFakeArrival(t) \/ OnEndInstance(t)
             \/ OnDeadline(t) \/ OnKill(t) \/ OnSched(t) \/ OnDesched(t)
             \/ OnInstrEnd(t) \/ OnSuspend(t) \/ OnResume(t)
      PROVE  UnitsMove
  BY <1>3, ArrivalIsQuiet, EndIsQuiet, KillIsQuiet, TaskIsQuiet, EndOfWorkIsQuiet
     DEF UnitsMove
<1>4. ASSUME NEW t \in Tasks, Schedule(t) PROVE UnitsMove
  <2>1. CASE ScheduleExec(t) \/ ScheduleSuspend(t)
    <3>1. UNCHANGED <<state, actInstr, waiting, available, blocked>>
      BY <1>4, <2>1
         DEF Schedule, ScheduleExec, ScheduleSuspend, jobVars, instrVars, resVars
    <3> QED
      BY <3>1, QuietUnits DEF UnitsMove
  <2>2. CASE ScheduleWait(t)
    BY <1>4, <2>2, WaitingTurns DEF UnitsMove
  <2>3. CASE ScheduleSignal(t)
    BY <1>4, <2>3, SignalPasses DEF UnitsMove
  <2> QED
    BY <1>4, <2>1, <2>2, <2>3 DEF Schedule
<1>5. CASE UNCHANGED vars
  <2>1. UNCHANGED <<state, actInstr, waiting, available, blocked>>
    BY <1>5 DEF vars, jobVars, instrVars, resVars
  <2> QED
    BY <2>1, QuietUnits DEF UnitsMove
<1> QED
  BY <1>1, <1>2, <1>3, <1>4, <1>5 DEF Next, Steps, Over

(* Who waits goes on asking for the same units. *)
LEMMA AskedForStays ==
    ASSUME KernelInv, AskedFor, UnitsMove
    PROVE  AskedFor'
<1>1. ASSUME NEW r \in Resources, NEW i \in DOMAIN blocked[r], NEW u,
             blocked[r][i].task = u
      PROVE  u \in Tasks /\ IsBlocked(u) /\ blocked[r][i].nr = Instr(u).nr
  <2>1. u \in Tasks
    BY <1>1, Waiting DEF KernelInv
  <2> QED
    BY <1>1, <2>1 DEF AskedFor, IsBlocked
<1>2. ASSUME UNCHANGED blocked, \A u \in Tasks : IsBlocked(u) => actInstr'[u] = actInstr[u]
      PROVE  AskedFor'
  BY <1>1, <1>2 DEF AskedFor, Instr
<1>3. CASE Undisturbed \/ \E t \in Tasks : Granted(t)
  BY <1>2, <1>3 DEF Undisturbed, Granted
<1>4. CASE Begins
  BY <1>4 DEF Begins, AskedFor
<1>5. ASSUME NEW t \in Tasks, Refused(t) PROVE AskedFor'
  <2> SUFFICES ASSUME NEW r \in Resources, NEW i \in DOMAIN blocked'[r], NEW u,
                      blocked'[r][i].task = u
               PROVE  blocked'[r][i].nr = Instr(u)'.nr
    BY DEF AskedFor
  <2>1. Instr(u)' = Instr(u)
    BY <1>5 DEF Refused, Instr
  <2>2. CASE r # Instr(t).res
    BY <1>1, <1>5, <2>1, <2>2 DEF Refused
  <2>3. CASE r = Instr(t).res
    <3>1. CASE i \in DOMAIN blocked[r] /\ blocked'[r][i] = blocked[r][i]
      BY <1>1, <2>1, <3>1
    <3>2. CASE blocked'[r][i] = [task |-> t, nr |-> Instr(t).nr]
      BY <2>1, <3>2
    <3> QED
      BY <1>5, <2>3, <3>1, <3>2 DEF Refused
  <2> QED
    BY <2>2, <2>3
<1>6. ASSUME NEW t \in Tasks, NEW r \in Resources, NEW n \in Nat,
             NEW k \in 0..Len(blocked[r]), PassedOn(t, r, n, k)
      PROVE  AskedFor'
  <2> SUFFICES ASSUME NEW s \in Resources, NEW i \in DOMAIN blocked'[s], NEW u,
                      blocked'[s][i].task = u
               PROVE  blocked'[s][i].nr = Instr(u)'.nr
    BY DEF AskedFor
  <2>1. /\ u \in Tasks /\ IsBlocked(u)
        /\ s = r => i + k \in DOMAIN blocked[r] /\ blocked[r][i + k].task = u
        /\ s # r => i \in DOMAIN blocked[s] /\ blocked[s][i].task = u
        /\ s # r => blocked'[s] = blocked[s]
        /\ s = r => blocked'[s][i] = blocked[r][i + k]
    BY <1>6 DEF PassedOn, Handed
  <2>2. Instr(u)' = Instr(u)
    BY <1>6, <2>1 DEF PassedOn, Instr
  <2>3. CASE s # r
    BY <1>1, <2>1, <2>2, <2>3
  <2>4. CASE s = r
    <3>1. blocked[r][i + k].nr = Instr(u).nr
      BY <1>1, <2>1, <2>4
    <3> QED
      BY <2>1, <2>2, <2>4, <3>1
  <2> QED
    BY <2>3, <2>4
<1> QED
  BY <1>3, <1>4, <1>5, <1>6 DEF UnitsMove

(* The units available and those held are all there are. *)
Conserved ==
    \A r \in Resources :
        available[r] + SumFunctionOnSet([t \in Tasks |-> Held(t, r)], Tasks)
            = Units[r]

(* What is passed on is what was given back or left over. *)
LEMMA PassedOnIsConserved ==
    ASSUME KernelInv, KernelInv', Conserved, NEW t \in Tasks, NEW r \in Resources,
           NEW n \in Nat, NEW k \in 0..Len(blocked[r]), PassedOn(t, r, n, k)
    PROVE  available'[r] + SumFunctionOnSet([u \in Tasks |-> Held(u, r)'], Tasks)
              = Units[r]
<1> DEFINE f == [u \in Tasks |-> Held(u, r)]
           e == [u \in Tasks |-> Held(u, r)']
           g == [u \in Tasks |-> IF u = t THEN f[t] - n ELSE f[u]]
           b == blocked[r]
<1>1. f \in [Tasks -> Int] /\ e \in [Tasks -> Int] /\ g \in [Tasks -> Int]
  <2>1. \A u \in Tasks : Held(u, r) \in Int /\ Held(u, r)' \in Int
    BY HeldBefore, HeldAfter
  <2> QED
    BY <2>1
<1>2. /\ Len(b) \in Nat
      /\ \A i \in 1..Len(b) : b[i].task \in Tasks /\ b[i].nr \in Nat
      /\ \A i, j \in 1..Len(b) : b[i].task = b[j].task => i = j
  BY Waiting DEF KernelInv, Waits
<1>3. t \notin FirstOf(r, k) /\ e[t] = f[t] - n
  BY DEF PassedOn
<1>4. \A i \in 1..k : e[b[i].task] = g[b[i].task] + b[i].nr
  <2>1. ASSUME NEW i \in 1..k PROVE e[b[i].task] = g[b[i].task] + b[i].nr
    <3>1. i \in 1..Len(b)
      BY <1>2
    <3>2. PICK u : u = b[i].task
      OBVIOUS
    <3>3. u \in Tasks /\ u # t
      BY <1>2, <1>3, <3>1, <3>2 DEF FirstOf
    <3>4. Held(u, r)' = Held(u, r) + b[i].nr
      BY <3>2 DEF PassedOn
    <3>5. e[u] = Held(u, r)' /\ g[u] = Held(u, r)
      BY <3>3
    <3> HIDE DEF e, g
    <3> QED
      BY <3>2, <3>4, <3>5
  <2> QED
    BY <2>1
<1>5. \A u \in Tasks : (\A i \in 1..k : b[i].task # u) => e[u] = g[u]
  <2>1. ASSUME NEW u \in Tasks, \A i \in 1..k : b[i].task # u PROVE e[u] = g[u]
    <3>1. u \notin FirstOf(r, k)
      BY <2>1 DEF FirstOf
    <3> QED
      BY <1>3, <3>1 DEF PassedOn
  <2> QED
    BY <2>1
<1>6. g[t] = f[t] - n /\ \A u \in Tasks : u # t => g[u] = f[u]
  OBVIOUS
<1>7. /\ available'[r] = available[r] + n - Demand(b, k)
      /\ available[r] + SumFunctionOnSet(f, Tasks) = Units[r]
  BY DEF PassedOn, Handed, Conserved
<1>8. available[r] \in Nat
  BY DEF KernelInv, Typed
<1> HIDE DEF f, e, g, b
<1>9. SumFunctionOnSet(e, Tasks) = SumFunctionOnSet(g, Tasks) + Demand(b, k)
  <2>1. k \in 0..Len(b)
    BY DEF b
  <2>2. GotTheirs(Tasks, g, e, b, k)
    BY <1>1, <1>2, <1>4, <1>5, <2>1 DEF GotTheirs
  <2> QED
    BY <2>2, TasksAreFinite, SumOfServed
<1>10. SumFunctionOnSet(g, Tasks) = SumFunctionOnSet(f, Tasks) + (g[t] - f[t])
  <2>1. (\A u \in Tasks : f[u] \in Int) /\ g[t] \in Int
    BY <1>1
  <2> QED
    BY <1>6, <2>1, TasksAreFinite, SumOfChanged
<1>11. SumFunctionOnSet(f, Tasks) \in Int
  <2>1. \A u \in Tasks : f[u] \in Int
    BY <1>1
  <2> QED
    BY <2>1, TasksAreFinite, SumIsNumber
<1>12. Demand(b, k) \in Nat /\ f[t] \in Int
  <2>1. k \in 0..Len(b)
    BY DEF b
  <2> QED
    BY <1>1, <1>2, <2>1, Demands
<1> DEFINE s == SumFunctionOnSet(f, Tasks)
           d == Demand(b, k)
<1>13. available'[r] + SumFunctionOnSet(e, Tasks) = Units[r]
  <2>1. /\ s \in Int /\ d \in Nat /\ f[t] \in Int
        /\ SumFunctionOnSet(e, Tasks) = s + (f[t] - n - f[t]) + d
        /\ available'[r] = available[r] + n - d
        /\ available[r] + s = Units[r]
    BY <1>6, <1>7, <1>9, <1>10, <1>11, <1>12
  <2> HIDE DEF s, d
  <2> QED
    BY <1>8, <2>1
<1> QED
  BY <1>13 DEF e

(* What nobody takes, everybody keeps. *)
LEMMA SameIsConserved ==
    ASSUME Conserved, NEW r \in Resources, available'[r] = available[r],
           \A u \in Tasks : Held(u, r)' = Held(u, r)
    PROVE  available'[r] + SumFunctionOnSet([u \in Tasks |-> Held(u, r)'], Tasks)
              = Units[r]
<1> DEFINE f == [u \in Tasks |-> Held(u, r)]
           e == [u \in Tasks |-> Held(u, r)']
<1>1. e = f
  OBVIOUS
<1>2. available[r] + SumFunctionOnSet(f, Tasks) = Units[r]
  BY DEF Conserved
<1> HIDE DEF e, f
<1>3. available'[r] + SumFunctionOnSet(e, Tasks) = Units[r]
  BY <1>1, <1>2
<1> QED
  BY <1>3 DEF e

(* What is granted is no longer available. *)
LEMMA GrantedIsConserved ==
    ASSUME KernelInv, KernelInv', Conserved, NEW t \in Tasks, Granted(t),
           NEW r \in Resources
    PROVE  available'[r] + SumFunctionOnSet([u \in Tasks |-> Held(u, r)'], Tasks)
              = Units[r]
<1> DEFINE f == [u \in Tasks |-> Held(u, r)]
           e == [u \in Tasks |-> Held(u, r)']
           d == Delta(Instr(t), r)
<1>1. /\ \A u \in Tasks : f[u] \in Int /\ e[u] \in Int
      /\ \A u \in Tasks : u # t => e[u] = f[u]
      /\ e[t] = f[t] + d
  <2>1. \A u \in Tasks : Held(u, r) \in Int /\ Held(u, r)' \in Int
    BY HeldBefore, HeldAfter
  <2> QED
    BY <2>1 DEF Granted
<1>2. /\ available'[r] = available[r] - d
      /\ available[r] + SumFunctionOnSet(f, Tasks) = Units[r]
      /\ available[r] \in Nat /\ available'[r] \in Nat
  BY DEF Granted, Conserved, KernelInv, Typed
<1> HIDE DEF f, e, d
<1>3. SumFunctionOnSet(e, Tasks) = SumFunctionOnSet(f, Tasks) + (e[t] - f[t])
  BY <1>1, TasksAreFinite, SumOfChanged
<1>4. SumFunctionOnSet(f, Tasks) \in Int
  <2>1. \A u \in Tasks : f[u] \in Int
    BY <1>1
  <2> QED
    BY <2>1, TasksAreFinite, SumIsNumber
<1> DEFINE s == SumFunctionOnSet(f, Tasks)
<1>5. available'[r] + SumFunctionOnSet(e, Tasks) = Units[r]
  <2>1. /\ s \in Int /\ f[t] \in Int /\ e[t] \in Int /\ e[t] = f[t] + d
        /\ SumFunctionOnSet(e, Tasks) = s + (e[t] - f[t])
        /\ available'[r] = available[r] - d
        /\ available[r] + s = Units[r]
    BY <1>1, <1>2, <1>3, <1>4
  <2>2. d \in Int
    <3>1. PICK n \in Nat : n = Instr(t).nr
      BY DEF Granted
    <3>2. d \in {n, -n, 0}
      BY <3>1 DEF d, Delta
    <3> QED
      BY <3>2
  <2> HIDE DEF s
  <2> QED
    BY <1>2, <2>1, <2>2
<1> QED
  BY <1>5 DEF e

(* No step loses or makes units. *)
LEMMA MovesConserve ==
    ASSUME KernelInv, KernelInv', Conserved, UnitsMove
    PROVE  Conserved'
<1> SUFFICES ASSUME NEW r \in Resources
             PROVE  available'[r]
                    + SumFunctionOnSet([u \in Tasks |-> Held(u, r)'], Tasks) = Units[r]
  BY DEF Conserved
<1>1. CASE Undisturbed \/ \E t \in Tasks : Refused(t)
  <2>1. available'[r] = available[r] /\ \A u \in Tasks : Held(u, r)' = Held(u, r)
    BY <1>1 DEF Undisturbed, Refused, NobodyHoldsMore
  <2> QED
    BY <2>1, SameIsConserved
<1>2. CASE Begins
  <2> DEFINE e == [u \in Tasks |-> Held(u, r)']
  <2>1. \A u \in Tasks : e[u] = 0
    BY <1>2 DEF Begins
  <2>2. available'[r] = Units[r] /\ Units[r] \in Nat
    BY <1>2, KernelAssumption DEF Begins
  <2> HIDE DEF e
  <2>3. SumFunctionOnSet(e, Tasks) = 0
    BY <2>1, TasksAreFinite, SumOfZeros
  <2>4. available'[r] + SumFunctionOnSet(e, Tasks) = Units[r]
    BY <2>2, <2>3
  <2> QED
    BY <2>4 DEF e
<1>3. ASSUME NEW t \in Tasks, Granted(t)
      PROVE  available'[r]
             + SumFunctionOnSet([u \in Tasks |-> Held(u, r)'], Tasks) = Units[r]
  BY <1>3, GrantedIsConserved
<1>4. ASSUME NEW t \in Tasks, NEW s \in Resources, NEW n \in Nat,
             NEW k \in 0..Len(blocked[s]), PassedOn(t, s, n, k)
      PROVE  available'[r]
             + SumFunctionOnSet([u \in Tasks |-> Held(u, r)'], Tasks) = Units[r]
  <2>1. CASE s = r
    BY <1>4, <2>1, PassedOnIsConserved
  <2>2. CASE s # r
    <3>1. available'[r] = available[r] /\ \A u \in Tasks : Held(u, r)' = Held(u, r)
      BY <1>4, <2>2 DEF PassedOn, Handed
    <3> QED
      BY <3>1, SameIsConserved
  <2> QED
    BY <2>1, <2>2
<1> QED
  BY <1>1, <1>2, <1>3, <1>4 DEF UnitsMove

(* The invariant: the kernel's, what is asked for, and the sum of the units. *)
LEMMA UnitsInvariant ==
    ASSUME Sound, Balanced
    PROVE  Spec => [](KernelInv /\ AskedFor /\ Conserved)
<1>1. Init => AskedFor /\ Conserved
  <2> SUFFICES ASSUME Init PROVE AskedFor /\ Conserved
    OBVIOUS
  <2>1. AskedFor
    BY DEF Init, AskedFor
  <2>2. ASSUME NEW r \in Resources
        PROVE  available[r] + SumFunctionOnSet([t \in Tasks |-> Held(t, r)], Tasks)
                  = Units[r]
    <3> DEFINE f == [t \in Tasks |-> Held(t, r)]
    <3>1. \A t \in Tasks : f[t] = 0
      BY DEF Init, Held
    <3>2. available[r] = Units[r] /\ Units[r] \in Nat
      BY KernelAssumption DEF Init
    <3> HIDE DEF f
    <3>3. SumFunctionOnSet(f, Tasks) = 0
      BY <3>1, TasksAreFinite, SumOfZeros
    <3>4. available[r] + SumFunctionOnSet(f, Tasks) = Units[r]
      BY <3>2, <3>3
    <3> QED
      BY <3>4 DEF f
  <2> QED
    BY <2>1, <2>2 DEF Conserved
<1>2. KernelInv /\ KernelInv' /\ AskedFor /\ Conserved /\ [Next]_vars
         => AskedFor' /\ Conserved'
  BY UnitsAreMoved, AskedForStays, MovesConserve
<1> QED
  BY <1>1, <1>2, KernelInvariant, PTL DEF Spec

(* FCFSResManager neither loses units of a resource nor makes any, through   *)
(* grants, refusals, releases to any number of those who wait, the ends of   *)
(* jobs, kills and new runs, when every program releases what it takes: what *)
(* is available and what the jobs hold, by their places in their programs,   *)
(* make up the units there are.                                              *)
THEOREM UnitsConserved ==
    ASSUME Sound, Balanced
    PROVE  Spec => []UnitsAreConserved
<1>1. Conserved => UnitsAreConserved
  BY DEF Conserved, UnitsAreConserved
<1> QED
  BY <1>1, UnitsInvariant, PTL

-----------------------------------------------------------------------------
(* First come, first served.                                                 *)

(* Who gets units while an entry stays on the list was ahead of it. *)
LEMMA MovesInTurn ==
    ASSUME KernelInv, KernelInv', UnitsMove, NEW r \in Resources,
           NEW i \in DOMAIN blocked[r], NEW u \in Tasks,
           Held(u, r)' > Held(u, r),
           NEW j \in DOMAIN blocked'[r], blocked'[r][j] = blocked[r][i]
    PROVE  \E m \in 1..i-1 : blocked[r][m].task = u
<1>1. Held(u, r) \in Int
  BY HeldBefore
<1>2. Held(u, r)' # Held(u, r)
  BY <1>1
<1>3. Len(blocked[r]) \in Nat /\ DOMAIN blocked[r] = 1..Len(blocked[r])
  BY Waiting DEF KernelInv
<1>4. CASE Undisturbed \/ \E t \in Tasks : Refused(t)
  BY <1>2, <1>4 DEF Undisturbed, Refused, NobodyHoldsMore
<1>5. CASE Begins
  BY <1>5 DEF Begins
<1>6. ASSUME NEW t \in Tasks, Granted(t) PROVE FALSE
  <2>1. u = t
    BY <1>2, <1>6 DEF Granted
  <2>2. actInstr[t] \in 1..Len(Program[t]) + 1 /\ blocked[Instr(t).res] = <<>>
    BY <1>6, AtWork DEF Granted
  <2>3. Held(u, r)' = Held(u, r) + Delta(Instr(t), r)
    BY <1>6, <2>1 DEF Granted
  <2>4. CASE Instr(t).res = r
    BY <1>3, <2>2, <2>4
  <2>5. CASE Instr(t).res # r
    <3>1. Delta(Instr(t), r) = 0
      BY <2>5 DEF Delta
    <3> QED
      BY <1>1, <1>2, <2>3, <3>1
  <2> QED
    BY <2>4, <2>5
<1>7. ASSUME NEW t \in Tasks, NEW s \in Resources, NEW n \in Nat,
             NEW k \in 0..Len(blocked[s]), PassedOn(t, s, n, k)
      PROVE  \E m \in 1..i-1 : blocked[r][m].task = u
  <2>1. s = r
    BY <1>2, <1>7 DEF PassedOn
  <2>2. u # t
    <3>1. Held(t, r)' = Held(t, r) - n
      BY <1>7, <2>1 DEF PassedOn
    <3>2. CASE u = t
      BY <1>1, <3>1, <3>2
    <3> QED
      BY <3>2
  <2>3. u \in FirstOf(r, k)
    BY <1>2, <1>7, <2>1, <2>2 DEF PassedOn
  <2>4. PICK m \in 1..k : blocked[r][m].task = u
    BY <2>3 DEF FirstOf
  <2>5. j + k \in DOMAIN blocked[r] /\ j \in Nat \ {0}
        /\ blocked[r][j + k].task = blocked[r][i].task
    BY <1>7, <2>1 DEF PassedOn, Handed
  <2>6. j + k = i
    BY <2>5 DEF KernelInv, Waits
  <2>7. m \in 1..i-1
    <3>1. k \in Nat
      BY <1>3, <2>1
    <3> QED
      BY <2>5, <2>6, <3>1
  <2> QED
    BY <2>4, <2>7
<1> QED
  BY <1>4, <1>5, <1>6, <1>7 DEF UnitsMove

(* FCFSResManager: while a task waits for units of a resource, only those    *)
(* that asked before it get any, whatever is asked for and given back.       *)
THEOREM NobodyIsOvertaken ==
    ASSUME Sound, Balanced
    PROVE  Spec => NotOvertaken
<1> DEFINE InTurn ==
              \A r \in Resources : \A i \in DOMAIN blocked[r] : \A u \in Tasks :
                 Held(u, r)' > Held(u, r)
                    /\ (\E j \in DOMAIN blocked'[r] : blocked'[r][j] = blocked[r][i])
                 => \E j \in 1..i-1 : blocked[r][j].task = u
<1>1. KernelInv /\ KernelInv' /\ AskedFor /\ [Next]_vars => InTurn
  BY UnitsAreMoved, MovesInTurn
<1>2. Spec => [][InTurn]_vars
  <2> HIDE DEF InTurn
  <2> QED
    BY <1>1, UnitsInvariant, PTL DEF Spec
<1> QED
  BY <1>2 DEF NotOvertaken

-----------------------------------------------------------------------------
(* The kernel implements FluidCPU.                                           *)

(* Programs only execute, for costs known in advance, and nobody is killed;  *)
(* the clock of FluidCPU is that of one run.                                 *)
FixedWork ==
    /\ ContextSwitchDelay = 0 /\ Runs = 1 /\ KillOnMiss = {}
    /\ \A t \in Tasks : \A i \in DOMAIN Program[t] :
          /\ Program[t][i].op = "exec"
          /\ \E c \in Nat : Program[t][i].costs = {c}

LEMMA FixedWorkIsSound ==
    FixedWork => Sound /\ NoSuspension
BY Programs DEF FixedWork, Sound, NoSuspension

(* The cost of an instruction is its worst case. *)
LEMMA FixedCosts ==
    ASSUME FixedWork, NEW t \in Tasks, NEW i \in 1..Len(Program[t])
    PROVE  /\ Program[t][i].op = "exec"
           /\ WCET(Program[t][i]) \in Nat
           /\ Program[t][i].costs = {WCET(Program[t][i])}
<1>1. Program[t][i].op = "exec"
  BY Programs DEF FixedWork
<1>2. PICK c \in Nat : Program[t][i].costs = {c}
  BY Programs DEF FixedWork
<1>3. Max({c}) = c
  BY DEF Max
<1> QED
  BY <1>1, <1>2, <1>3 DEF WCET

Costs(t) == [i \in DOMAIN Program[t] |-> WCET(Program[t][i])]

(* The work of t from its k-th instruction on. *)
ToCome(t, k) == SumFunctionOnSet(Costs(t), k..Len(Program[t]))

(* It shrinks by what each instruction costs. *)
LEMMA WorkToCome ==
    ASSUME FixedWork, NEW t \in Tasks
    PROVE  /\ \A k \in 1..Len(Program[t]) + 1 : ToCome(t, k) \in Nat
           /\ ToCome(t, Len(Program[t]) + 1) = 0
           /\ \A k \in 1..Len(Program[t]) :
                 ToCome(t, k) = WCET(Program[t][k]) + ToCome(t, k + 1)
<1> DEFINE n == Len(Program[t])
           f == Costs(t)
<1>1. n \in Nat /\ DOMAIN Program[t] = 1..n
  BY Programs
<1>2. \A i \in 1..n : f[i] = WCET(Program[t][i]) /\ f[i] \in Nat
  BY <1>1, FixedCosts DEF Costs
<1> HIDE DEF n, f
<1>3. ASSUME NEW k \in 1..n + 1
      PROVE  SumFunctionOnSet(f, k..n) \in Nat
  <2>1. k \in Int /\ n \in Int /\ \A x \in k..n : x \in 1..n
    BY <1>1
  <2>2. IsFiniteSet(k..n)
    BY <2>1, FS_Interval
  <2>3. \A x \in k..n : f[x] \in Nat
    BY <1>2, <2>1
  <2> QED
    BY <2>2, <2>3, SumOfNaturals
<1>4. SumFunctionOnSet(f, n + 1..n) = 0
  <2>1. n + 1..n = {}
    BY <1>1
  <2> QED
    BY <2>1, SumOfNone
<1>5. ASSUME NEW k \in 1..n
      PROVE  SumFunctionOnSet(f, k..n) = f[k] + SumFunctionOnSet(f, k + 1..n)
  <2>1. k \in Int /\ n \in Int /\ k <= n /\ \A x \in k..n : x \in 1..n
    BY <1>1
  <2>2. \A x \in k..n : f[x] \in Int
    BY <1>2, <2>1
  <2> QED
    BY <2>1, <2>2, SumFrom
<1> QED
  BY <1>2, <1>3, <1>4, <1>5 DEF ToCome, f, n

(* What is left of a job at work. *)
LEMMA WorkLeft ==
    ASSUME NEW t \in Tasks
    PROVE  /\ state[t] = "IDLE" \/ actInstr[t] > Len(Program[t]) => Work(t) = 0
           /\ ~(state[t] = "IDLE" \/ actInstr[t] > Len(Program[t])) =>
                 Work(t) = LeftOfInstr(t) + ToCome(t, actInstr[t] + 1)
BY DEF Work, ToCome, Costs

(* When only execution is left to do, a job is in the queue until it ends,   *)
(* and has the CPU with its end of instruction posted, except while it is    *)
(* given the CPU or it is taken from it.                                     *)
AtItsWork(t) ==
    /\ actInstr[t] \in 1..Len(Program[t]) + 1
    /\ "kill" \notin Of(agenda, t)
    /\ state[t] # "IDLE" <=> t \in queue
    /\ IsPosted(agenda, InstrEvt(t)) <=>
          state[t] = "EXEC" /\ call # t /\ actInstr[t] <= Len(Program[t])
    /\ state[t] = "EXEC" /\ currExe # t => "desched" \in Of(agenda, t)
    /\ state[t] = "READY" /\ currExe = t =>
          IsPosted(agenda, EndDisp) \/ "sched" \in Of(agenda, t)
    /\ actInstr[t] > Len(Program[t]) <=> "end" \in Of(agenda, t)

LEMMA WorkersAreServed ==
    ASSUME KernelInv, FixedWork, NEW t \in Tasks
    PROVE  AtItsWork(t)
<1>1. /\ TaskInv(t) /\ state[t] \in {"IDLE", "READY", "EXEC"}
      /\ Len(Program[t]) \in Nat
  BY Programs DEF KernelInv, Typed
<1> DEFINE k == Of(agenda, t)
<1>2. /\ actInstr[t] \in 1..Len(Program[t]) + 1
      /\ actInstr[t] = Len(Program[t]) + 1 <=> "end" \in k
      /\ "susp" \in k \/ "resume" \in k => Instr(t).op = "suspend"
      /\ "kill" \notin k
  BY <1>1 DEF TaskInv, InProgram, DeadInTime, FixedWork
<1>3. actInstr[t] <= Len(Program[t]) => Instr(t).op = "exec"
  BY <1>1, <1>2, FixedCosts DEF Instr
<1>4. ~IsBlocked(t)
  BY <1>1, <1>2, <1>3, AtWork
<1>5. Situation(t, k)
  BY <1>1 DEF TaskInv
<1>6. IsPosted(agenda, InstrEvt(t)) <=> "instr" \in k
  BY DEF Of, JobKinds, InstrEvt
<1> HIDE DEF k
<1>7. "susp" \notin k /\ "resume" \notin k
  <2>1. CASE actInstr[t] <= Len(Program[t])
    BY <1>2, <1>3, <2>1
  <2>2. CASE actInstr[t] > Len(Program[t])
    <3>1. "end" \in k
      BY <1>1, <1>2, <2>2
    <3> QED
      BY <1>5, <3>1 DEF Situation, Scheduling, Idle, Ready, Executing
  <2> QED
    BY <1>1, <1>2, <2>1, <2>2
<1>8. \/ call = t /\ Scheduling(t, k)
      \/ call # t /\ (Idle(t, k) \/ Ready(t, k) \/ Executing(t, k))
  BY <1>5 DEF Situation
<1>9. /\ state[t] # "IDLE" <=> t \in queue
      /\ state[t] = "READY" /\ currExe = t =>
            IsPosted(agenda, EndDisp) \/ "sched" \in k
      /\ state[t] = "EXEC" /\ currExe # t => "desched" \in k
  BY <1>2, <1>4, <1>7, <1>8 DEF Scheduling, Idle, Ready, Executing
<1>10. /\ state[t] # "EXEC" => "instr" \notin k
       /\ call = t => "instr" \notin k /\ "end" \notin k
       /\ state[t] = "EXEC" /\ call # t => ("instr" \in k <=> "end" \notin k)
  BY <1>2, <1>4, <1>7, <1>8 DEF Scheduling, Idle, Ready, Executing
<1>11. "instr" \in k <=>
          state[t] = "EXEC" /\ call # t /\ actInstr[t] <= Len(Program[t])
  <2>1. actInstr[t] <= Len(Program[t]) <=> "end" \notin k
    BY <1>1, <1>2
  <2> QED
    BY <1>10, <2>1
<1> QED
  BY <1>1, <1>2, <1>6, <1>9, <1>11 DEF AtItsWork, k

(* The instruction at hand costs what its program says, no more of it was    *)
(* done than it costs, and its end is posted for when the rest is done.      *)
Costed(t) ==
    /\ state[t] # "IDLE" =>
          IF cost[t] = Undrawn THEN done[t] = 0
          ELSE /\ actInstr[t] <= Len(Program[t])
               /\ cost[t] = WCET(Instr(t)) /\ done[t] <= cost[t]
    /\ \A x \in Entries(agenda) : x.ev = InstrEvt(t) =>
          cost[t] # Undrawn /\ x.at = lastTime[t] + (cost[t] - done[t])

(* Time passes up to the next event at most. *)
Passes ==
    /\ now' \in Nat /\ now' >= now
    /\ \A x \in Entries(agenda) : x.at \in Nat /\ x.at >= now'

LEMMA TimePasses ==
    ASSUME KernelInv
    PROVE  /\ \A e : Enters(e) => Passes /\ call = None /\ policy' = policy
           /\ \A t \in Tasks : Schedule(t) =>
                 Passes /\ call = t /\ now' = now /\ policy' = policy
<1>1. now \in Nat /\ \A x \in Entries(agenda) : x.at \in Nat /\ x.at >= now
  BY GoodEntries DEF KernelInv, Typed, Timed
<1>2. ASSUME NEW e, Enters(e)
      PROVE  Passes /\ call = None /\ policy' = policy
  <2>1. Entered(e)
    BY <1>2, Entering
  <2>2. \A x \in Entries(agenda) : x.at > Now \/ x.at = Now
    BY <2>1, NotBefore
  <2> QED
    BY <1>1, <1>2, <2>1, <2>2 DEF Passes, Entered, Comes, Enters
<1>3. ASSUME NEW t \in Tasks, Schedule(t)
      PROVE  Passes /\ call = t /\ now' = now /\ policy' = policy
  BY <1>1, <1>3 DEF Passes, Schedule, rrVars
<1> QED
  BY <1>2, <1>3

(* The time for which t is served in a step. *)
Spent(t) == IF IsPosted(agenda, InstrEvt(t)) THEN now' - now ELSE 0

(* What is then left of its instruction. *)
Remains(t) ==
    IF cost[t] = Undrawn THEN WCET(Instr(t))
    ELSE cost[t] - done[t]
         - IF IsPosted(agenda, InstrEvt(t)) THEN now' - lastTime[t] ELSE 0

(* The work that is left when the time of a step has passed. *)
LEMMA WorkBefore ==
    ASSUME KernelInv, FixedWork, Passes, NEW t \in Tasks, Costed(t)
    PROVE  IF state[t] = "IDLE" \/ actInstr[t] > Len(Program[t])
           THEN Work(t) = 0 /\ Spent(t) = 0
           ELSE /\ Remains(t) \in Nat
                /\ ToCome(t, actInstr[t] + 1) \in Nat
                /\ Work(t) \in Int /\ Spent(t) \in Int
                /\ Work(t) - Spent(t) = Remains(t) + ToCome(t, actInstr[t] + 1)
<1>1. /\ now \in Nat /\ now' \in Nat /\ now' >= now
      /\ cost[t] \in Nat \cup {Undrawn} /\ done[t] \in Nat /\ lastTime[t] \in Nat
      /\ Len(Program[t]) \in Nat
  BY Programs DEF KernelInv, Typed, Passes
<1>2. /\ actInstr[t] \in 1..Len(Program[t]) + 1
      /\ IsPosted(agenda, InstrEvt(t)) <=>
            state[t] = "EXEC" /\ call # t /\ actInstr[t] <= Len(Program[t])
  BY WorkersAreServed DEF AtItsWork
<1>3. CASE state[t] = "IDLE" \/ actInstr[t] > Len(Program[t])
  <2>1. ~IsPosted(agenda, InstrEvt(t))
    <3>1. CASE state[t] = "IDLE"
      BY <1>2, <3>1
    <3>2. CASE actInstr[t] > Len(Program[t])
      <4>1. ~(actInstr[t] <= Len(Program[t]))
        BY <1>1, <1>2, <3>2
      <4> QED
        BY <1>2, <4>1
    <3> QED
      BY <1>3, <3>1, <3>2
  <2>2. Spent(t) = 0
    BY <2>1 DEF Spent
  <2>3. Work(t) = 0
    BY <1>3, WorkLeft
  <2> QED
    BY <1>3, <2>2, <2>3
<1>4. CASE ~(state[t] = "IDLE" \/ actInstr[t] > Len(Program[t]))
  <2> DEFINE f == ToCome(t, actInstr[t] + 1)
             w == WCET(Instr(t))
             p == IsPosted(agenda, InstrEvt(t))
  <2>1. actInstr[t] \in 1..Len(Program[t]) /\ actInstr[t] + 1 \in 1..Len(Program[t]) + 1
    BY <1>1, <1>2, <1>4
  <2>2. f \in Nat
    BY <2>1, WorkToCome
  <2>3. w \in Nat
    BY <2>1, FixedCosts DEF Instr
  <2>4. Work(t) = LeftOfInstr(t) + f
    BY <1>4, WorkLeft
  <2>5. LeftOfInstr(t) = IF cost[t] = Undrawn THEN w
                         ELSE cost[t] - done[t] - IF p THEN now - lastTime[t] ELSE 0
    BY DEF LeftOfInstr
  <2>6. p => cost[t] # Undrawn /\ lastTime[t] + (cost[t] - done[t]) >= now'
    <3>1. p => \E x \in Entries(agenda) : x.ev = InstrEvt(t)
      BY PostedEntries
    <3> QED
      BY <3>1 DEF Costed, Passes
  <2>7. /\ cost[t] # Undrawn => cost[t] \in Nat /\ done[t] <= cost[t]
        /\ Spent(t) = IF p THEN now' - now ELSE 0
        /\ Remains(t) = IF cost[t] = Undrawn THEN w
                        ELSE cost[t] - done[t] - IF p THEN now' - lastTime[t] ELSE 0
    BY <1>1, <1>4 DEF Costed, Spent, Remains
  <2> HIDE DEF f, w, p
  <2>8. /\ Remains(t) \in Nat /\ Work(t) \in Int /\ Spent(t) \in Int
        /\ Work(t) - Spent(t) = Remains(t) + f
    <3>1. CASE cost[t] = Undrawn
      <4>1. ~p /\ Remains(t) = w /\ LeftOfInstr(t) = w
        BY <2>5, <2>6, <2>7, <3>1
      <4>2. Spent(t) = 0
        BY <2>7, <4>1
      <4> QED
        BY <2>2, <2>3, <2>4, <4>1, <4>2
    <3>2. CASE cost[t] # Undrawn /\ p
      <4>1. Remains(t) = cost[t] - done[t] - (now' - lastTime[t])
            /\ Spent(t) = now' - now
            /\ LeftOfInstr(t) = cost[t] - done[t] - (now - lastTime[t])
        BY <2>5, <2>7, <3>2
      <4>2. cost[t] \in Nat /\ lastTime[t] + (cost[t] - done[t]) >= now'
        BY <2>6, <2>7, <3>2
      <4> DEFINE c == cost[t]
                 d == done[t]
                 l == lastTime[t]
                 m == now'
      <4>3. /\ c \in Nat /\ d \in Nat /\ l \in Nat /\ m \in Nat /\ now \in Nat
            /\ l + (c - d) >= m
        BY <1>1, <4>2
      <4>4. /\ Remains(t) = c - d - (m - l) /\ Spent(t) = m - now
            /\ Work(t) = c - d - (now - l) + f
        BY <2>4, <4>1
      <4> HIDE DEF c, d, l, m
      <4> QED
        BY <2>2, <4>3, <4>4
    <3>3. CASE cost[t] # Undrawn /\ ~p
      <4>1. Remains(t) = cost[t] - done[t] - 0 /\ Spent(t) = 0
            /\ LeftOfInstr(t) = cost[t] - done[t] - 0
        BY <2>5, <2>7, <3>3
      <4>2. cost[t] \in Nat /\ done[t] <= cost[t]
        BY <2>7, <3>3
      <4> QED
        BY <1>1, <2>2, <2>4, <4>1, <4>2
    <3> QED
      BY <3>1, <3>2, <3>3
  <2> QED
    BY <1>4, <2>2, <2>8 DEF f
<1> QED
  BY <1>3, <1>4

(* The work after a step. *)
LEMMA WorkAfter ==
    ASSUME NEW t \in Tasks
    PROVE  LET over == state'[t] = "IDLE" \/ actInstr'[t] > Len(Program[t])
               left == IF cost'[t] = Undrawn THEN WCET(Program[t][actInstr'[t]])
                       ELSE cost'[t] - done'[t]
                            - IF IsPosted(agenda', InstrEvt(t))
                              THEN now' - lastTime'[t] ELSE 0
           IN  /\ over => Work(t)' = 0
               /\ ~over => Work(t)' = left + ToCome(t, actInstr'[t] + 1)
BY DEF Work, ToCome, Costs, LeftOfInstr, Instr

(* A step does t's work for the time that passes, and nothing else to it;    *)
(* without work it may get a new job.                                        *)
Worked(t) ==
    /\ Work(t) \in Int /\ Spent(t) \in Int /\ Work(t) - Spent(t) \in Nat
    /\ \/ Work(t)' = Work(t) - Spent(t) /\ Rank(t)' = Rank(t)
       \/ Work(t) - Spent(t) = 0

(* A job that a step leaves alone, its instruction running on if it did. *)
LEMMA WorkGoesOn ==
    ASSUME KernelInv, KernelInv', FixedWork, Passes, NEW t \in Tasks, Costed(t),
           call # t, call' # t, policy' = policy,
           state'[t] = state[t], actInstr'[t] = actInstr[t], dl'[t] = dl[t],
           cost'[t] = cost[t], done'[t] = done[t], lastTime'[t] = lastTime[t],
           NEW f, f # InstrEvt(t), NothingNew(agenda', agenda, f)
    PROVE  Costed(t)' /\ Worked(t)
<1>1. AtItsWork(t) /\ AtItsWork(t)'
  <2>1. AtItsWork(t)
    BY WorkersAreServed
  <2>2. AtItsWork(t)'
    BY WorkersAreServed, PTL
  <2> QED
    BY <2>1, <2>2
<1>2. IsPosted(agenda', InstrEvt(t)) <=> IsPosted(agenda, InstrEvt(t))
  BY <1>1 DEF AtItsWork
<1>3. Costed(t)'
  <2>1. InstrEvt(t)[1] \in Awaited
    BY EventParts DEF InstrEvt, Awaited
  <2>2. \A x \in Entries(agenda') : x.ev = InstrEvt(t) => x \in Entries(agenda)
    BY <2>1 DEF NothingNew
  <2>3. Instr(t)' = Instr(t)
    BY DEF Instr
  <2> QED
    BY <2>2, <2>3 DEF Costed
<1>4. Rank(t)' = Rank(t)
  BY DEF Rank
<1>5. Work(t) \in Int /\ Spent(t) \in Int /\ Work(t) - Spent(t) \in Nat
      /\ Work(t)' = Work(t) - Spent(t)
  <2>1. CASE state[t] = "IDLE" \/ actInstr[t] > Len(Program[t])
    <3>1. Work(t) = 0 /\ Spent(t) = 0
      BY <2>1, WorkBefore
    <3>2. Work(t)' = 0
      BY <2>1, WorkAfter
    <3> QED
      BY <3>1, <3>2
  <2>2. CASE ~(state[t] = "IDLE" \/ actInstr[t] > Len(Program[t]))
    <3> DEFINE f0 == ToCome(t, actInstr[t] + 1)
    <3>1. /\ Remains(t) \in Nat /\ f0 \in Nat
          /\ Work(t) \in Int /\ Spent(t) \in Int
          /\ Work(t) - Spent(t) = Remains(t) + f0
      BY <2>2, WorkBefore
    <3>2. Work(t)' = Remains(t) + f0
      BY <1>2, <2>2, WorkAfter DEF Remains, Instr
    <3> HIDE DEF f0
    <3> QED
      BY <3>1, <3>2
  <2> QED
    BY <2>1, <2>2
<1> QED
  BY <1>3, <1>4, <1>5 DEF Worked

(* A task without work may start a job or end one. *)
LEMMA WorkBegins ==
    ASSUME KernelInv, KernelInv', FixedWork, Passes, NEW t \in Tasks, Costed(t),
           state[t] = "IDLE" \/ actInstr[t] > Len(Program[t]),
           \/ state'[t] = "IDLE"
           \/ state'[t] = "READY" /\ cost'[t] = Undrawn /\ done'[t] = 0
    PROVE  Costed(t)' /\ Worked(t)
<1>1. Work(t) = 0 /\ Spent(t) = 0
  BY WorkBefore
<1>2. AtItsWork(t)'
  BY WorkersAreServed, PTL
<1>3. ~IsPosted(agenda', InstrEvt(t))
  BY <1>2 DEF AtItsWork
<1>4. \A x \in Entries(agenda') : x.ev # InstrEvt(t)
  BY <1>3, PostedEntries
<1> QED
  BY <1>1, <1>4 DEF Costed, Worked

(* A job that is given the CPU goes on where it was. *)
LEMMA WorkIsResumed ==
    ASSUME KernelInv, KernelInv', FixedWork, Passes, NEW t \in Tasks, Costed(t),
           state[t] = "READY", state'[t] = "EXEC", call' = t, policy' = policy,
           actInstr'[t] = actInstr[t], dl'[t] = dl[t],
           cost'[t] = cost[t], done'[t] = done[t], lastTime'[t] = lastTime[t]
    PROVE  Costed(t)' /\ Worked(t)
<1>1. AtItsWork(t) /\ AtItsWork(t)'
  <2>1. AtItsWork(t)
    BY WorkersAreServed
  <2>2. AtItsWork(t)'
    BY WorkersAreServed, PTL
  <2> QED
    BY <2>1, <2>2
<1>2. ~IsPosted(agenda', InstrEvt(t)) /\ ~IsPosted(agenda, InstrEvt(t))
  BY <1>1 DEF AtItsWork
<1>3. \A x \in Entries(agenda') : x.ev # InstrEvt(t)
  BY <1>2, PostedEntries
<1>4. Costed(t)'
  <2>1. Instr(t)' = Instr(t)
    BY DEF Instr
  <2> QED
    BY <1>3, <2>1 DEF Costed
<1>5. Rank(t)' = Rank(t)
  BY DEF Rank
<1>6. Work(t) \in Int /\ Spent(t) \in Int /\ Work(t) - Spent(t) \in Nat
      /\ Work(t)' = Work(t) - Spent(t)
  <2>1. CASE actInstr[t] > Len(Program[t])
    <3>1. Work(t) = 0 /\ Spent(t) = 0
      BY <2>1, WorkBefore
    <3>2. Work(t)' = 0
      BY <2>1, WorkAfter
    <3> QED
      BY <3>1, <3>2
  <2>2. CASE ~(actInstr[t] > Len(Program[t]))
    <3> DEFINE f0 == ToCome(t, actInstr[t] + 1)
    <3>1. /\ Remains(t) \in Nat /\ f0 \in Nat
          /\ Work(t) \in Int /\ Spent(t) \in Int
          /\ Work(t) - Spent(t) = Remains(t) + f0
      BY <2>2, WorkBefore
    <3>2. Work(t)' = Remains(t) + f0
      BY <1>2, <2>2, WorkAfter DEF Remains, Instr
    <3> HIDE DEF f0
    <3> QED
      BY <3>1, <3>2
  <2> QED
    BY <2>1, <2>2
<1> QED
  BY <1>4, <1>5, <1>6 DEF Worked

(* The work of a job up to a new place in its program. *)
LEMMA WorkMoves ==
    ASSUME KernelInv, KernelInv', FixedWork, Passes, NEW t \in Tasks, Costed(t),
           state[t] # "IDLE", actInstr[t] <= Len(Program[t]),
           state'[t] # "IDLE", actInstr'[t] <= Len(Program[t]), Rank(t)' = Rank(t),
           NEW left \in Int,
           left = IF cost'[t] = Undrawn THEN WCET(Program[t][actInstr'[t]])
                  ELSE cost'[t] - done'[t]
                       - IF IsPosted(agenda', InstrEvt(t))
                         THEN now' - lastTime'[t] ELSE 0,
           left + ToCome(t, actInstr'[t] + 1)
              = Remains(t) + ToCome(t, actInstr[t] + 1)
    PROVE  Worked(t)
<1>1. ~(actInstr[t] > Len(Program[t])) /\ ~(actInstr'[t] > Len(Program[t]))
  <2>1. actInstr[t] \in Nat /\ actInstr'[t] \in Nat /\ Len(Program[t]) \in Nat
    BY Programs DEF KernelInv, Typed
  <2> QED
    BY <2>1
<1>2. /\ Remains(t) \in Nat /\ ToCome(t, actInstr[t] + 1) \in Nat
      /\ Work(t) \in Int /\ Spent(t) \in Int
      /\ Work(t) - Spent(t) = Remains(t) + ToCome(t, actInstr[t] + 1)
  BY <1>1, WorkBefore
<1>3. Work(t)' = left + ToCome(t, actInstr'[t] + 1)
  BY <1>1, WorkAfter
<1> QED
  BY <1>2, <1>3 DEF Worked

LEMMA NothingIsThrown ==
    ASSUME KernelInv', FixedWork
    PROVE  exc' = "none"
BY DEF KernelInv, ThrownByStaleFakeArr, FixedWork

(* Task::onDesched: what was done of the instruction is noted. *)
LEMMA WorkStops ==
    ASSUME KernelInv, KernelInv', FixedWork, Passes, NEW t \in Tasks, Costed(t),
           OnDesched(t)
    PROVE  Costed(t)' /\ Worked(t)
<1>1. AtItsWork(t) /\ AtItsWork(t)'
  <2>1. AtItsWork(t)
    BY WorkersAreServed
  <2>2. AtItsWork(t)'
    BY WorkersAreServed, PTL
  <2> QED
    BY <2>1, <2>2
<1>2. Entered(Desched(t)) /\ exc' = "none" /\ policy' = policy
  BY Entering, NothingIsThrown DEF OnDesched, Handles, Enters, Comes
<1>3. /\ state[t] = "EXEC" /\ actInstr[t] <= Len(Program[t])
      /\ state' = [state EXCEPT ![t] = "READY"]
      /\ UNCHANGED <<actInstr, dl, cost>>
      /\ IF IsPosted(Rest, InstrEvt(t)) THEN Stop(t) ELSE UNCHANGED <<done, lastTime>>
  <2>1. state[t] # "IDLE"
    BY <1>2 DEF OnDesched, Throw
  <2>2. state[t] # "READY"
    BY <1>2, <2>1 DEF OnDesched, Throw
  <2>3. ~(actInstr[t] > Len(Program[t]))
    BY <1>2, <2>1, <2>2 DEF OnDesched, Throw
  <2>4. /\ state[t] = "EXEC" /\ actInstr[t] <= Len(Program[t])
    <3>1. actInstr[t] \in Nat /\ Len(Program[t]) \in Nat
      BY Programs DEF KernelInv, Typed
    <3>2. state[t] \in {"IDLE", "READY", "EXEC"}
      BY DEF KernelInv, Typed
    <3>3. state[t] = "EXEC"
      BY <2>1, <2>2, <3>2
    <3>4. actInstr[t] <= Len(Program[t])
      BY <2>3, <3>1
    <3> QED
      BY <3>3, <3>4
  <2> QED
    BY <2>1, <2>2, <2>3, <2>4 DEF OnDesched, jobVars
<1>4. IsPosted(Rest, InstrEvt(t)) /\ IsPosted(agenda, InstrEvt(t)) /\ call # t
  <2>1. InstrEvt(t) # Desched(t)
    BY EventParts DEF InstrEvt, Desched
  <2>2. IsPosted(Rest, InstrEvt(t)) <=> IsPosted(agenda, InstrEvt(t))
    BY <1>2, <2>1 DEF Entered, Loses
  <2>3. call # t
    BY <1>2, TaskAssumption DEF Entered
  <2> QED
    BY <1>1, <1>3, <2>2, <2>3 DEF AtItsWork
<1>5. /\ state \in [Tasks -> {"IDLE", "READY", "EXEC"}]
      /\ done \in [Tasks -> Nat] /\ lastTime \in [Tasks -> Nat]
      /\ cost[t] \in Nat \cup {Undrawn} /\ actInstr[t] \in Nat
      /\ now' = Now /\ now' \in Nat
  BY <1>2 DEF KernelInv, Typed, Entered, Passes
<1>6. /\ state'[t] = "READY" /\ cost'[t] = cost[t] /\ actInstr'[t] = actInstr[t]
      /\ done'[t] = done[t] + now' - lastTime[t] /\ dl'[t] = dl[t]
  BY <1>3, <1>4, <1>5 DEF Stop
<1>7. ~IsPosted(agenda', InstrEvt(t)) /\ \A x \in Entries(agenda') : x.ev # InstrEvt(t)
  <2>1. ~IsPosted(agenda', InstrEvt(t))
    BY <1>1, <1>6 DEF AtItsWork
  <2> QED
    BY <2>1, PostedEntries
<1>8. /\ cost[t] # Undrawn /\ cost[t] \in Nat /\ done[t] \in Nat
      /\ lastTime[t] \in Nat
      /\ lastTime[t] + (cost[t] - done[t]) >= now'
  <2>1. \E x \in Entries(agenda) : x.ev = InstrEvt(t)
    BY <1>4, PostedEntries
  <2> QED
    BY <1>5, <2>1 DEF Costed, Passes
<1>9. cost[t] - done'[t] = Remains(t)
  BY <1>4, <1>5, <1>6, <1>8 DEF Remains
<1>10. Costed(t)'
  <2>1. Instr(t)' = Instr(t) /\ cost[t] = WCET(Instr(t))
    BY <1>3, <1>6, <1>8 DEF Instr, Costed
  <2>2. done'[t] <= cost[t]
    BY <1>5, <1>6, <1>8
  <2> QED
    BY <1>3, <1>6, <1>7, <1>8, <2>1, <2>2 DEF Costed
<1>11. Rank(t)' = Rank(t)
  BY <1>2, <1>6 DEF Rank
<1> DEFINE left == cost'[t] - done'[t] - 0
<1>12. left = Remains(t) /\ left \in Int
  BY <1>5, <1>6, <1>8, <1>9
<1>13. left = IF cost'[t] = Undrawn THEN WCET(Program[t][actInstr'[t]])
              ELSE cost'[t] - done'[t]
                   - IF IsPosted(agenda', InstrEvt(t)) THEN now' - lastTime'[t] ELSE 0
  BY <1>6, <1>7, <1>8
<1> HIDE DEF left
<1>14. Worked(t)
  BY <1>3, <1>6, <1>11, <1>12, <1>13, WorkMoves
<1> QED
  BY <1>10, <1>14

(* ExecInstr::onEnd: the instruction was done for as long as it costs. *)
LEMMA WorkIsDone ==
    ASSUME KernelInv, KernelInv', FixedWork, Passes, NEW t \in Tasks, Costed(t),
           OnInstrEnd(t)
    PROVE  Costed(t)' /\ Worked(t)
<1>1. AtItsWork(t) /\ AtItsWork(t)'
  <2>1. AtItsWork(t)
    BY WorkersAreServed
  <2>2. AtItsWork(t)'
    BY WorkersAreServed, PTL
  <2> QED
    BY <2>1, <2>2
<1>2. Entered(InstrEvt(t)) /\ exc' = "none" /\ policy' = policy
  BY Entering, NothingIsThrown DEF OnInstrEnd, Handles, Enters, Comes
<1>3. /\ state[t] = "EXEC" /\ actInstr[t] <= Len(Program[t])
      /\ IsPosted(agenda, InstrEvt(t))
  BY <1>1, <1>2 DEF AtItsWork, Entered
<1>4. /\ InstrEnds(t, Rest) /\ UNCHANGED <<state, dl>>
      /\ cost' = [cost EXCEPT ![t] = Undrawn]
      /\ done' = [done EXCEPT ![t] = 0]
  BY <1>3 DEF OnInstrEnd
<1>5. /\ cost \in [Tasks -> Nat \cup {Undrawn}] /\ done \in [Tasks -> Nat]
      /\ actInstr \in [Tasks -> Nat] /\ lastTime[t] \in Nat
      /\ Len(Program[t]) \in Nat /\ now' = Now /\ now' \in Nat
  BY <1>2, Programs DEF KernelInv, Typed, Entered, Passes
<1>6. /\ cost'[t] = Undrawn /\ done'[t] = 0 /\ actInstr'[t] = actInstr[t] + 1
      /\ state'[t] = "EXEC" /\ dl'[t] = dl[t]
      /\ actInstr[t] # Len(Program[t]) => call' = t
  BY <1>3, <1>4, <1>5 DEF InstrEnds
<1>7. /\ ~IsPosted(agenda', InstrEvt(t))
      /\ \A x \in Entries(agenda') : x.ev # InstrEvt(t)
  <2>1. actInstr[t] = Len(Program[t]) => actInstr'[t] > Len(Program[t])
    BY <1>5, <1>6
  <2>2. ~IsPosted(agenda', InstrEvt(t))
    BY <1>1, <1>6, <2>1 DEF AtItsWork
  <2> QED
    BY <2>2, PostedEntries
<1>8. /\ cost[t] # Undrawn /\ cost[t] \in Nat /\ done[t] \in Nat
      /\ lastTime[t] + (cost[t] - done[t]) = now'
  <2>1. Head(agenda) \in Entries(agenda) /\ Head(agenda).ev = InstrEvt(t)
        /\ Head(agenda).at = Now
    BY <1>2 DEF Entered
  <2> QED
    BY <1>5, <2>1 DEF Costed
<1>9. Remains(t) = 0
  BY <1>3, <1>5, <1>8 DEF Remains
<1>10. Costed(t)'
  BY <1>6, <1>7 DEF Costed
<1>11. Rank(t)' = Rank(t)
  BY <1>2, <1>6 DEF Rank
<1>12. /\ Remains(t) \in Nat /\ ToCome(t, actInstr[t] + 1) \in Nat
       /\ Work(t) \in Int /\ Spent(t) \in Int
       /\ Work(t) - Spent(t) = Remains(t) + ToCome(t, actInstr[t] + 1)
  <2>1. ~(actInstr[t] > Len(Program[t]))
    <3>1. actInstr[t] \in Nat
      BY <1>5
    <3> QED
      BY <1>3, <1>5, <3>1
  <2> QED
    BY <1>3, <2>1, WorkBefore
<1>13. CASE actInstr[t] = Len(Program[t])
  <2>1. actInstr'[t] > Len(Program[t])
    BY <1>5, <1>6, <1>13
  <2>2. Work(t)' = 0
    BY <2>1, WorkAfter
  <2>3. ToCome(t, actInstr[t] + 1) = 0
    BY <1>13, WorkToCome
  <2>4. Worked(t)
    BY <1>9, <1>11, <1>12, <2>2, <2>3 DEF Worked
  <2> QED
    BY <1>10, <2>4
<1>14. CASE actInstr[t] # Len(Program[t])
  <2>1. actInstr'[t] \in 1..Len(Program[t])
    BY <1>3, <1>5, <1>6, <1>14
  <2> DEFINE w == WCET(Program[t][actInstr'[t]])
  <2>2. w \in Nat /\ ToCome(t, actInstr'[t]) = w + ToCome(t, actInstr'[t] + 1)
    BY <2>1, FixedCosts, WorkToCome
  <2> HIDE DEF w
  <2>3. w + ToCome(t, actInstr'[t] + 1) = Remains(t) + ToCome(t, actInstr[t] + 1)
    BY <1>6, <1>9, <1>12, <2>2
  <2>4. Worked(t)
    BY <1>3, <1>6, <1>11, <2>1, <2>2, <2>3, WorkMoves DEF w
  <2> QED
    BY <1>10, <2>4
<1> QED
  BY <1>13, <1>14

(* What is scheduled is an execution. *)
LEMMA OnlyExecution ==
    ASSUME KernelInv, KernelInv', FixedWork, NEW t \in Tasks, Schedule(t)
    PROVE  /\ ScheduleExec(t) /\ call = t /\ exc' = "none" /\ UNCHANGED <<now, policy, state>>
           /\ actInstr[t] \in 1..Len(Program[t])
           /\ Instr(t).costs = {WCET(Instr(t))} /\ WCET(Instr(t)) \in Nat
<1>1. call = t /\ UNCHANGED <<now, policy, state>>
  BY DEF Schedule, rrVars
<1>2. actInstr[t] \in 1..Len(Program[t])
  BY <1>1, Calling
<1>3. /\ Instr(t).op = "exec" /\ WCET(Instr(t)) \in Nat
      /\ Instr(t).costs = {WCET(Instr(t))}
  BY <1>2, FixedCosts DEF Instr
<1>4. ScheduleExec(t)
  BY <1>3 DEF Schedule, ScheduleSuspend, ScheduleWait, ScheduleSignal
<1> QED
  BY <1>1, <1>2, <1>3, <1>4, NothingIsThrown

(* ExecInstr::schedule: what is left of the instruction is posted. *)
LEMMA WorkIsScheduled ==
    ASSUME KernelInv, KernelInv', FixedWork, Passes, NEW t \in Tasks, Costed(t),
           Schedule(t)
    PROVE  Costed(t)' /\ Worked(t)
<1> DEFINE w == WCET(Instr(t))
<1>1. /\ ScheduleExec(t) /\ call = t /\ UNCHANGED <<now, policy, state>>
      /\ actInstr[t] \in 1..Len(Program[t])
      /\ Instr(t).costs = {w} /\ w \in Nat
  BY OnlyExecution
<1>2. /\ state[t] = "EXEC" /\ Of(agenda, t) = {} /\ now \in Nat
      /\ agenda \in Seq(EventEntry)
  BY <1>1, Calling DEF GoodAgenda
<1>3. ~IsPosted(agenda, InstrEvt(t)) /\ \A x \in Entries(agenda) : x.ev # InstrEvt(t)
  <2>1. ~IsPosted(agenda, InstrEvt(t))
    BY <1>2 DEF Of, JobKinds, InstrEvt
  <2> QED
    BY <2>1, PostedEntries
<1>4. /\ cost \in [Tasks -> Nat \cup {Undrawn}] /\ done[t] \in Nat
      /\ lastTime \in [Tasks -> Nat] /\ Len(Program[t]) \in Nat
  BY Programs DEF KernelInv, Typed
<1>5. /\ cost[t] = Undrawn => done[t] = 0
      /\ cost[t] # Undrawn => cost[t] = w /\ done[t] <= w
  BY <1>2 DEF Costed
<1> HIDE DEF w
<1>6. /\ cost' = [cost EXCEPT ![t] = w]
      /\ agenda' = Post(agenda, InstrEvt(t), now + (w - done[t]))
      /\ lastTime' = [lastTime EXCEPT ![t] = now]
      /\ UNCHANGED <<actInstr, dl, done>>
  <2>1. PICK c \in IF cost[t] = Undrawn THEN Instr(t).costs ELSE {cost[t]} :
           /\ cost' = [cost EXCEPT ![t] = c]
           /\ agenda' = Post(agenda, InstrEvt(t),
                             now + IF c > done[t] THEN c - done[t] ELSE 0)
    BY <1>1 DEF ScheduleExec
  <2>2. c = w
    BY <1>1, <1>5, <2>1
  <2>3. (IF w > done[t] THEN w - done[t] ELSE 0) = w - done[t]
    BY <1>1, <1>4, <1>5
  <2> QED
    BY <1>1, <2>1, <2>2, <2>3 DEF ScheduleExec, jobVars
<1>7. /\ cost'[t] = w /\ lastTime'[t] = now /\ actInstr'[t] = actInstr[t]
      /\ state'[t] = "EXEC" /\ dl'[t] = dl[t] /\ done'[t] = done[t]
      /\ w # Undrawn /\ done[t] <= w
  <2>1. w # Undrawn
    BY <1>1 DEF Undrawn
  <2>2. done[t] <= w
    BY <1>1, <1>4, <1>5
  <2> QED
    BY <1>1, <1>2, <1>4, <1>6, <2>1, <2>2
<1>8. \A x \in Entries(agenda') : x.ev = InstrEvt(t) => x.at = now + (w - done[t])
  <2>1. PICK at \in Nat : at = now + (w - done[t])
    BY <1>1, <1>2, <1>4, <1>7
  <2>2. InstrEvt(t) \in Events
    BY EventsAreEvents DEF Kinds, InstrEvt
  <2>3. PICK y \in EventEntry : /\ y = Entry(InstrEvt(t), at, Priority(InstrEvt(t)))
                                /\ y.at = at
    BY <2>1, <2>2, EntriesHaveTimes, EntryParts, Priorities
  <2>4. Entries(agenda') \subseteq Entries(agenda) \cup {y}
    BY <1>2, <1>6, <2>1, <2>3, PostsAreFew DEF Post
  <2> QED
    BY <1>3, <2>1, <2>3, <2>4
<1>9. Costed(t)'
  <2>1. Instr(t)' = Instr(t)
    BY <1>7 DEF Instr
  <2>2. WCET(Instr(t))' = w
    BY <2>1 DEF w, WCET
  <2>3. actInstr'[t] <= Len(Program[t])
    BY <1>1, <1>4, <1>7
  <2> QED
    BY <1>7, <1>8, <2>2, <2>3 DEF Costed
<1>10. Rank(t)' = Rank(t)
  BY <1>1, <1>7 DEF Rank
<1> DEFINE left == w - done[t]
<1>11. left \in Int /\ Remains(t) = left
  BY <1>1, <1>3, <1>4, <1>5 DEF Remains, w
<1>12. left = IF cost'[t] = Undrawn THEN WCET(Program[t][actInstr'[t]])
              ELSE cost'[t] - done'[t]
                   - IF IsPosted(agenda', InstrEvt(t)) THEN now' - lastTime'[t] ELSE 0
  BY <1>1, <1>2, <1>4, <1>7
<1> HIDE DEF left
<1>13. actInstr[t] <= Len(Program[t])
  BY <1>1, <1>4
<1>14. Worked(t)
  BY <1>2, <1>7, <1>10, <1>11, <1>12, <1>13, WorkMoves
<1> QED
  BY <1>9, <1>14

(* A step that leaves the job of u alone. *)
SameJob(u) ==
    /\ call' # u /\ policy' = policy
    /\ state'[u] = state[u] /\ actInstr'[u] = actInstr[u] /\ dl'[u] = dl[u]
    /\ cost'[u] = cost[u] /\ done'[u] = done[u] /\ lastTime'[u] = lastTime[u]

LEMMA OthersAreLeft ==
    ASSUME KernelInv, KernelInv', FixedWork, NEW t \in Tasks, NEW u \in Tasks, u # t,
           \/ OnArrival(t) \/ OnFakeArrival(t) \/ OnEndInstance(t)
           \/ OnDeadline(t) \/ OnSched(t) \/ OnDesched(t) \/ OnInstrEnd(t)
           \/ Schedule(t)
    PROVE  SameJob(u)
<1>1. /\ state \in [Tasks -> {"IDLE", "READY", "EXEC"}]
      /\ actInstr \in [Tasks -> Nat] /\ dl \in [Tasks -> Nat]
      /\ cost \in [Tasks -> Nat \cup {Undrawn}]
      /\ done \in [Tasks -> Nat] /\ lastTime \in [Tasks -> Nat]
      /\ exc' = "none" /\ None \notin Tasks
  BY TaskAssumption, NothingIsThrown DEF KernelInv, Typed
<1>2. \A e : Enters(e) => call = None /\ policy' = policy
  BY TimePasses
<1>3. CASE OnArrival(t)
  <2>1. call' = None /\ policy' = policy
    BY <1>2, <1>3 DEF OnArrival, Handles, Goes
  <2>2. CASE state[t] = "IDLE"
    BY <1>1, <1>3, <2>1, <2>2 DEF OnArrival, JobStarts, SameJob
  <2>3. CASE state[t] # "IDLE"
    BY <1>1, <1>3, <2>1, <2>3 DEF OnArrival, SameJob, instrVars
  <2> QED
    BY <2>2, <2>3
<1>4. CASE OnFakeArrival(t)
  <2>1. arrQueue[t] # <<>> /\ state[t] = "IDLE"
    BY <1>1, <1>4 DEF OnFakeArrival, Throw
  <2>2. call' = None /\ policy' = policy
    BY <1>2, <1>4, <2>1 DEF OnFakeArrival, Handles
  <2> QED
    BY <1>1, <1>4, <2>1, <2>2 DEF OnFakeArrival, JobStarts, SameJob
<1>5. CASE OnEndInstance(t)
  <2>1. state[t] # "IDLE" /\ state[t] # "READY"
    BY <1>1, <1>5 DEF OnEndInstance, Throw
  <2>2. call' = None /\ policy' = policy
    BY <1>2, <1>5, <2>1 DEF OnEndInstance, Handles, Goes
  <2> QED
    BY <1>1, <1>5, <2>1, <2>2 DEF OnEndInstance, JobEnds, SameJob, instrVars
<1>6. CASE OnDeadline(t)
  <2>1. call' = None /\ policy' = policy
    BY <1>2, <1>6 DEF OnDeadline, Handles
  <2> QED
    BY <1>1, <1>6, <2>1 DEF OnDeadline, SameJob, jobVars, instrVars
<1>7. CASE OnSched(t)
  <2>1. state[t] # "IDLE" /\ state[t] # "EXEC" /\ ~(actInstr[t] > Len(Program[t]))
    BY <1>1, <1>7 DEF OnSched, Throw
  <2>2. call' = t /\ policy' = policy
    BY <1>2, <1>7, <2>1 DEF OnSched, Handles
  <2> QED
    BY <1>1, <1>7, <2>1, <2>2 DEF OnSched, SameJob, jobVars, instrVars
<1>8. CASE OnDesched(t)
  <2>1. state[t] # "IDLE" /\ state[t] # "READY" /\ ~(actInstr[t] > Len(Program[t]))
    BY <1>1, <1>8 DEF OnDesched, Throw
  <2>2. call' = None /\ policy' = policy
    BY <1>2, <1>8, <2>1 DEF OnDesched, Handles, Goes
  <2> QED
    BY <1>1, <1>8, <2>1, <2>2 DEF OnDesched, Stop, SameJob, jobVars
<1>9. CASE OnInstrEnd(t)
  <2>1. state[t] # "IDLE" /\ InstrEnds(t, Rest)
    BY <1>1, <1>9 DEF OnInstrEnd, InstrEnds, Throw
  <2>2. call' \in {None, t} /\ policy' = policy
    BY <1>2, <1>9, <2>1 DEF OnInstrEnd, Handles, InstrEnds
  <2> QED
    BY <1>1, <1>9, <2>1, <2>2 DEF OnInstrEnd, InstrEnds, SameJob
<1>10. CASE Schedule(t)
  <2>1. ScheduleExec(t) /\ UNCHANGED <<policy, state>>
    BY <1>10, OnlyExecution
  <2> QED
    BY <1>1, <2>1 DEF ScheduleExec, SameJob, jobVars
<1> QED
  BY <1>3, <1>4, <1>5, <1>6, <1>7, <1>8, <1>9, <1>10

(* The handlers of the dispatcher. *)
LEMMA DispatchWorks ==
    ASSUME KernelInv, KernelInv', FixedWork, NEW u \in Tasks, Costed(u),
           OnBeginDispatch \/ OnEndDispatch \/ OnRound
    PROVE  Passes /\ Costed(u)' /\ Worked(u)
<1>1. Passes /\ call = None /\ policy' = policy
  BY TimePasses DEF OnBeginDispatch, OnEndDispatch, OnRound, Handles
<1>2. call' = call /\ UNCHANGED <<state, jobVars, instrVars>>
  BY DEF OnBeginDispatch, OnEndDispatch, OnRound, Throw, Goes
<1>3. First' \in Tasks \cup {None}
  <2>1. Typed'
    BY DEF KernelInv
  <2>2. FirstIsAhead'
    BY <2>1, FirstOfQueue, PTL
  <2> QED
    BY <2>1, <2>2 DEF FirstIsAhead, Typed
<1>4. NothingNew(agenda', agenda, Begin)
  BY <1>3, DispatchPostsNothingNew
<1>5. Begin # InstrEvt(u) /\ call # u /\ call' # u
  BY <1>1, <1>2, EventParts, TaskAssumption DEF Begin, InstrEvt
<1> QED
  BY <1>1, <1>2, <1>4, <1>5, WorkGoesOn DEF jobVars, instrVars

(* Nobody is killed. *)
LEMMA NobodyIsKilled ==
    ASSUME KernelInv, FixedWork, NEW t \in Tasks
    PROVE  ~OnKill(t)
<1>1. SUFFICES ASSUME Comes(Kill(t)) PROVE FALSE
  BY DEF OnKill
<1>2. "kill" \in Of(agenda, t)
  BY <1>1, Entering DEF Entered, Of, JobKinds, Kill
<1> QED
  BY <1>2, WorkersAreServed DEF AtItsWork

(* What a step of t posts concerns nobody else's execution. *)
LEMMA OthersWork ==
    ASSUME KernelInv, KernelInv', FixedWork, Passes, NEW t \in Tasks,
           NEW u \in Tasks, Costed(u), u # t,
           \/ OnArrival(t) \/ OnFakeArrival(t) \/ OnEndInstance(t)
           \/ OnDeadline(t) \/ OnSched(t) \/ OnDesched(t) \/ OnInstrEnd(t)
           \/ Schedule(t)
    PROVE  Costed(u)' /\ Worked(u)
<1>1. SameJob(u)
  BY OthersAreLeft
<1>2. call # u
  <2>1. call = None \/ call = t
    BY TimePasses
       DEF OnArrival, OnFakeArrival, OnEndInstance, OnDeadline, OnSched,
           OnDesched, OnInstrEnd, Handles
  <2> QED
    BY <2>1, TaskAssumption
<1>3. PICK f : f # InstrEvt(u) /\ NothingNew(agenda', agenda, f)
  <2>1. FakeArr(t) # InstrEvt(u) /\ Arr(t) # InstrEvt(u) /\ InstrEvt(t) # InstrEvt(u)
    BY EventParts DEF FakeArr, Arr, InstrEvt
  <2>2. \E f \in {FakeArr(t), Arr(t), InstrEvt(t)} : NothingNew(agenda', agenda, f)
    BY TaskPostsNothingNew, JobPostsNothingNew, ArrivalPostsItsNext,
       SchedulePostsNothingNew
  <2> QED
    BY <2>1, <2>2
<1> QED
  BY <1>1, <1>2, <1>3, WorkGoesOn DEF SameJob

(* The task the step is about. *)
LEMMA OwnWork ==
    ASSUME KernelInv, KernelInv', FixedWork, Passes, NEW t \in Tasks, Costed(t),
           \/ OnArrival(t) \/ OnFakeArrival(t) \/ OnEndInstance(t)
           \/ OnDeadline(t) \/ OnSched(t) \/ OnDesched(t) \/ OnInstrEnd(t)
           \/ Schedule(t)
    PROVE  Costed(t)' /\ Worked(t)
<1>1. /\ state \in [Tasks -> {"IDLE", "READY", "EXEC"}]
      /\ actInstr \in [Tasks -> Nat] /\ dl \in [Tasks -> Nat]
      /\ cost \in [Tasks -> Nat \cup {Undrawn}]
      /\ done \in [Tasks -> Nat] /\ lastTime \in [Tasks -> Nat]
      /\ exc' = "none" /\ None \notin Tasks
  BY TaskAssumption, NothingIsThrown DEF KernelInv, Typed
<1>2. \A e : Enters(e) => call = None /\ policy' = policy
  BY TimePasses
<1>3. Begin # InstrEvt(t) /\ Arr(t) # InstrEvt(t)
  BY EventParts DEF Begin, Arr, InstrEvt
<1>4. CASE OnArrival(t)
  <2>1. CASE state[t] = "IDLE"
    <3>1. state'[t] = "READY" /\ cost'[t] = Undrawn /\ done'[t] = 0
      BY <1>1, <1>4, <2>1 DEF OnArrival, JobStarts
    <3> QED
      BY <2>1, <3>1, WorkBegins
  <2>2. CASE state[t] # "IDLE"
    <3>1. call # t /\ call' # t /\ policy' = policy
      BY <1>1, <1>2, <1>4, <2>2 DEF OnArrival, Handles, Goes
    <3>2. UNCHANGED <<state, actInstr, dl, cost, done, lastTime>>
      BY <1>4, <2>2 DEF OnArrival, instrVars
    <3>3. NothingNew(agenda', agenda, Arr(t))
      BY <1>4, ArrivalPostsItsNext
    <3> QED
      BY <1>3, <3>1, <3>2, <3>3, WorkGoesOn
  <2> QED
    BY <2>1, <2>2
<1>5. CASE OnFakeArrival(t)
  <2>1. arrQueue[t] # <<>> /\ state[t] = "IDLE"
    BY <1>1, <1>5 DEF OnFakeArrival, Throw
  <2>2. state'[t] = "READY" /\ cost'[t] = Undrawn /\ done'[t] = 0
    BY <1>1, <1>5, <2>1 DEF OnFakeArrival, JobStarts
  <2> QED
    BY <2>1, <2>2, WorkBegins
<1>6. CASE OnEndInstance(t)
  <2>1. state[t] # "IDLE" /\ state[t] # "READY"
    BY <1>1, <1>6 DEF OnEndInstance, Throw
  <2>2. state'[t] = "IDLE"
    BY <1>1, <1>6, <2>1 DEF OnEndInstance, JobEnds
  <2>3. "end" \in Of(agenda, t)
    BY <1>6, Entering DEF OnEndInstance, Handles, Entered, Of, JobKinds, EndEvt
  <2>4. actInstr[t] > Len(Program[t])
    BY <2>3, WorkersAreServed DEF AtItsWork
  <2> QED
    BY <2>2, <2>4, WorkBegins
<1>7. CASE OnDeadline(t)
  <2>1. call # t /\ call' # t /\ policy' = policy
    BY <1>1, <1>2, <1>7 DEF OnDeadline, Handles
  <2>2. UNCHANGED <<state, actInstr, dl, cost, done, lastTime>>
    BY <1>7 DEF OnDeadline, jobVars, instrVars
  <2>3. NothingNew(agenda', agenda, FakeArr(t)) /\ FakeArr(t) # InstrEvt(t)
    BY <1>7, TaskPostsNothingNew, ArrivalsDiffer
  <2> QED
    BY <1>3, <2>1, <2>2, <2>3, WorkGoesOn
<1>8. CASE OnSched(t)
  <2>1. state[t] # "IDLE" /\ state[t] # "EXEC" /\ ~(actInstr[t] > Len(Program[t]))
    BY <1>1, <1>8 DEF OnSched, Throw
  <2>2. call' = t /\ policy' = policy /\ state[t] = "READY" /\ state'[t] = "EXEC"
    BY <1>1, <1>2, <1>8, <2>1 DEF OnSched, Handles
  <2>3. UNCHANGED <<actInstr, dl, cost, done, lastTime>>
    BY <1>8, <2>1 DEF OnSched, jobVars, instrVars
  <2> QED
    BY <2>2, <2>3, WorkIsResumed
<1> QED
  BY <1>4, <1>5, <1>6, <1>7, <1>8, WorkStops, WorkIsDone, WorkIsScheduled

(* Every step does the work of the time that passes. *)
LEMMA StepWorks ==
    ASSUME KernelInv, KernelInv', FixedWork, Steps, \A u \in Tasks : Costed(u)
    PROVE  /\ Passes /\ (call = None \/ now' = now)
           /\ \A u \in Tasks : Costed(u)' /\ Worked(u)
<1>1. ~NewRun
  <2>1. Runs = 1 /\ run \in 1..Runs
    BY DEF FixedWork, KernelInv, Typed
  <2>2. ~(run < Runs)
    BY <2>1
  <2> QED
    BY <2>2 DEF NewRun
<1>2. CASE OnBeginDispatch \/ OnEndDispatch \/ OnRound
  <2>1. Passes /\ call = None
    BY <1>2, TimePasses DEF OnBeginDispatch, OnEndDispatch, OnRound, Handles
  <2> QED
    BY <1>2, <2>1, DispatchWorks
<1>3. ASSUME NEW t \in Tasks,
             \/ OnArrival(t) \/ OnFakeArrival(t) \/ OnEndInstance(t)
             \/ OnDeadline(t) \/ OnSched(t) \/ OnDesched(t) \/ OnInstrEnd(t)
             \/ Schedule(t)
      PROVE  /\ Passes /\ (call = None \/ now' = now)
             /\ \A u \in Tasks : Costed(u)' /\ Worked(u)
  <2>1. Passes /\ (call = None \/ now' = now)
    BY <1>3, TimePasses
       DEF OnArrival, OnFakeArrival, OnEndInstance, OnDeadline, OnSched,
           OnDesched, OnInstrEnd, Handles
  <2>2. ASSUME NEW u \in Tasks PROVE Costed(u)' /\ Worked(u)
    <3>1. CASE u = t
      BY <1>3, <2>1, <3>1, OwnWork
    <3>2. CASE u # t
      BY <1>3, <2>1, <3>2, OthersWork
    <3> QED
      BY <3>1, <3>2
  <2> QED
    BY <2>1, <2>2
<1>4. FixedWork => NoSuspension
  BY FixedWorkIsSound
<1> QED
  BY <1>1, <1>2, <1>3, <1>4, NobodySuspends, NobodyIsKilled DEF Steps

(* When time passes, the first task of the queue is served. *)
LEMMA FirstIsServed ==
    ASSUME KernelInv, FirstInv, FixedWork, Passes, call = None, now' > now,
           \A u \in Tasks : Costed(u)
    PROVE  /\ \A t \in Tasks : Spent(t) = IF t = currExe THEN now' - now ELSE 0
           /\ CPU!MayRun(currExe)
<1>1. /\ now \in Nat /\ now' \in Nat /\ None \notin Tasks /\ queue \subseteq Tasks
      /\ currExe \in Tasks \cup {None}
  BY TaskAssumption DEF KernelInv, Typed, Passes
<1>2. \A x \in Entries(agenda) :
         x.ev[1] \notin {"sched", "desched", "end", "beginDispatch", "endDispatch"}
  <2> SUFFICES ASSUME NEW x \in Entries(agenda),
                      x.ev[1] \in {"sched", "desched", "end", "beginDispatch",
                                   "endDispatch"}
               PROVE  FALSE
    OBVIOUS
  <2>1. x.at \in Nat /\ x.at >= now'
    BY DEF Passes
  <2>2. Timed(x, now)
    BY DEF KernelInv, GoodAgenda
  <2>3. x.at = now
    BY <2>2 DEF Timed
  <2> QED
    BY <1>1, <2>1, <2>3
<1>3. /\ ~IsPosted(agenda, Begin) /\ ~IsPosted(agenda, EndDisp)
      /\ \A t : /\ "sched" \notin Of(agenda, t) /\ "desched" \notin Of(agenda, t)
                /\ "end" \notin Of(agenda, t)
  BY <1>2, PostedEntries, EventParts DEF Begin, EndDisp, Of
<1>4. currExe = First /\ FirstIsAhead
  BY <1>3, FirstOfQueue DEF FirstInv, KernelInv
<1>5. ASSUME NEW t \in Tasks
      PROVE  /\ state[t] # "IDLE" <=> t \in queue
             /\ ~(actInstr[t] > Len(Program[t]))
             /\ IsPosted(agenda, InstrEvt(t)) <=> t = currExe
             /\ Rank(t) \in Nat
  <2>1. AtItsWork(t) /\ state[t] \in {"IDLE", "READY", "EXEC"}
    BY WorkersAreServed DEF KernelInv, Typed
  <2>2. ~(actInstr[t] > Len(Program[t]))
    BY <1>3, <2>1 DEF AtItsWork
  <2>3. actInstr[t] <= Len(Program[t])
    <3>1. actInstr[t] \in Nat /\ Len(Program[t]) \in Nat
      BY Programs DEF KernelInv, Typed
    <3> QED
      BY <2>2, <3>1
  <2>4. t = currExe => t \in queue
    BY <1>1, <1>4 DEF FirstIsAhead
  <2>5. state[t] = "EXEC" <=> t = currExe
    BY <1>3, <2>1, <2>4 DEF AtItsWork
  <2>6. IsPosted(agenda, InstrEvt(t)) <=> t = currExe
    BY <1>1, <2>1, <2>3, <2>5 DEF AtItsWork
  <2>7. Rank(t) \in Nat
    BY Ranks DEF KernelInv
  <2> QED
    BY <2>1, <2>2, <2>6, <2>7 DEF AtItsWork
<1>6. \A t \in Tasks : Spent(t) = IF t = currExe THEN now' - now ELSE 0
  BY <1>5 DEF Spent
<1>7. \A t \in Tasks : ~(Work(t) > 0) \/ t \in queue
  BY <1>5, WorkLeft
<1>8. CASE queue = {}
  <2>1. currExe = None
    BY <1>4, <1>8 DEF FirstIsAhead
  <2>2. CPU!Pending = {}
    BY <1>7, <1>8 DEF CPU!Pending
  <2> QED
    BY <1>6, <2>1, <2>2 DEF CPU!MayRun
<1>9. CASE queue # {}
  <2>1. /\ currExe \in Tasks /\ currExe \in queue
        /\ \A u \in queue \ {currExe} : Ahead(currExe, u)
    BY <1>1, <1>4, <1>9 DEF FirstIsAhead
  <2>2. Work(currExe) > 0
    <3>1. Costed(currExe) /\ ~(state[currExe] = "IDLE"
                               \/ actInstr[currExe] > Len(Program[currExe]))
      BY <1>5, <2>1
    <3> DEFINE f == ToCome(currExe, actInstr[currExe] + 1)
    <3>2. /\ Remains(currExe) \in Nat /\ f \in Nat
          /\ Work(currExe) \in Int /\ Spent(currExe) \in Int
          /\ Work(currExe) - Spent(currExe) = Remains(currExe) + f
      BY <2>1, <3>1, WorkBefore
    <3> HIDE DEF f
    <3>3. Spent(currExe) = now' - now
      BY <1>6, <2>1
    <3> QED
      BY <1>1, <3>2, <3>3
  <2>3. \A u \in queue : Rank(currExe) <= Rank(u)
    <3>1. \A u \in queue : Rank(u) \in Nat
      BY <1>1, <1>5
    <3>2. \A u \in queue \ {currExe} :
             Rank(currExe) < Rank(u) \/ Rank(currExe) = Rank(u)
      BY <2>1 DEF Ahead
    <3> QED
      BY <2>1, <3>1, <3>2
  <2>4. /\ currExe \in CPU!Pending
        /\ \A u \in CPU!Pending : u \in Tasks /\ u \in queue
    BY <1>7, <2>1, <2>2 DEF CPU!Pending
  <2>5. CPU!MayRun(currExe)
    BY <2>1, <2>3, <2>4 DEF CPU!MayRun
  <2> QED
    BY <1>6, <2>5
<1> QED
  BY <1>8, <1>9

(* The steps of FluidCPU: the task that has the CPU is served, nobody while *)
(* no time passes.                                                          *)
LEMMA StepServes ==
    ASSUME KernelInv, FirstInv, FixedWork, Passes, call = None \/ now' = now,
           \A u \in Tasks : Costed(u) /\ Worked(u)
    PROVE  CPU!Next
<1>1. /\ now \in Nat /\ now' \in Nat /\ now' >= now /\ None \notin Tasks
      /\ currExe \in Tasks \cup {None}
      /\ ~(now' > now) => now' = now
  <2>1. now \in Nat /\ now' \in Nat /\ now' >= now
    BY DEF KernelInv, Typed, Passes
  <2>2. ~(now' > now) => now' = now
    BY <2>1
  <2> QED
    BY <2>1, <2>2, TaskAssumption DEF KernelInv, Typed
<1> DEFINE r == IF now' > now THEN currExe ELSE None
           w == [t \in Tasks |-> Work(t)]
           k == [t \in Tasks |-> Rank(t)]
<1>2. \A t \in Tasks : Spent(t) = IF t = r THEN now' - now ELSE 0
  <2>1. CASE now' > now
    <3>1. call = None
      BY <1>1, <2>1
    <3> QED
      BY <2>1, <3>1, FirstIsServed
  <2>2. CASE ~(now' > now)
    <3>1. now' - now = 0
      BY <1>1, <2>2
    <3> QED
      BY <1>1, <2>2, <3>1 DEF Spent
  <2> QED
    BY <2>1, <2>2
<1>3. r \in Tasks \cup {None} /\ (now' > now => CPU!MayRun(r))
  <2>1. CASE now' > now
    <3>1. call = None
      BY <1>1, <2>1
    <3> QED
      BY <1>1, <2>1, <3>1, FirstIsServed
  <2>2. CASE ~(now' > now)
    BY <2>2
  <2> QED
    BY <2>1, <2>2
<1> HIDE DEF r
<1>4. \A t \in Tasks : CPU!Left(r)[t] = Work(t) - Spent(t)
  <2> SUFFICES ASSUME NEW t \in Tasks PROVE CPU!Left(r)[t] = Work(t) - Spent(t)
    OBVIOUS
  <2>1. CPU!Left(r)[t] = IF t = r THEN Work(t) - (now' - now) ELSE Work(t)
    BY DEF CPU!Left
  <2>2. Work(t) \in Int
    BY DEF Worked
  <2> QED
    BY <1>1, <1>2, <2>1, <2>2
<1>5. \A t \in Tasks : w'[t] = Work(t)' /\ k'[t] = Rank(t)' /\ k[t] = Rank(t)
  OBVIOUS
<1>6. \A t \in Tasks : /\ CPU!Left(r)[t] >= 0
                       /\ w'[t] # CPU!Left(r)[t] \/ k'[t] # k[t] => CPU!Left(r)[t] = 0
  <2> SUFFICES ASSUME NEW t \in Tasks
               PROVE  /\ CPU!Left(r)[t] >= 0
                      /\ w'[t] # CPU!Left(r)[t] \/ k'[t] # k[t] => CPU!Left(r)[t] = 0
    OBVIOUS
  <2>1. Worked(t)
    OBVIOUS
  <2>2. CPU!Left(r)[t] \in Nat
    BY <1>4, <2>1 DEF Worked
  <2>3. \/ w'[t] = CPU!Left(r)[t] /\ k'[t] = k[t]
        \/ CPU!Left(r)[t] = 0
    BY <1>4, <1>5, <2>1 DEF Worked
  <2> QED
    BY <2>2, <2>3
<1> QED
  BY <1>1, <1>3, <1>6 DEF CPU!Next

(* While programs only execute, for costs known in advance, and nobody is   *)
(* killed, the kernel serves jobs as FluidCPU does: each gets exactly its   *)
(* execution time, by rank, however often it is preempted, and the CPU is   *)
(* never idle while there is work.                                          *)
THEOREM KernelServesByRank ==
    ASSUME FixedWork
    PROVE  Spec => ServesByRank
<1> DEFINE AllCosted == \A u \in Tasks : Costed(u)
<1>1. Sound /\ NoSuspension
  BY FixedWorkIsSound
<1>2. ASSUME Init PROVE AllCosted /\ CPU!Init
  <2>1. \A t \in Tasks : ~IsPosted(agenda, InstrEvt(t)) /\ state[t] = "IDLE"
    <3>1. KernelInv
      BY <1>2, InitIsGood
    <3>2. \A t \in Tasks : state[t] = "IDLE"
      BY <1>2 DEF Init
    <3> QED
      BY <3>1, <3>2, WorkersAreServed DEF AtItsWork
  <2>2. AllCosted
    BY <2>1, PostedEntries DEF Costed
  <2>3. CPU!Init
    <3>1. Typed
      BY <1>2, InitIsGood DEF KernelInv
    <3>2. [t \in Tasks |-> Rank(t)] \in [Tasks -> Int]
      BY <3>1, Ranks
    <3>3. [t \in Tasks |-> Work(t)] = [t \in Tasks |-> 0]
      BY <2>1, WorkLeft
    <3> QED
      BY <1>2, <3>2, <3>3 DEF Init, CPU!Init
  <2> QED
    BY <2>2, <2>3
<1>3. KernelInv /\ KernelInv' /\ FirstInv /\ AllCosted /\ [Next]_vars
         => AllCosted' /\ [CPU!Next]_(CPU!vars)
  <2> SUFFICES ASSUME KernelInv, KernelInv', FirstInv, AllCosted, [Next]_vars
               PROVE  AllCosted' /\ [CPU!Next]_(CPU!vars)
    OBVIOUS
  <2>1. CASE Steps
    <3>1. /\ Passes /\ (call = None \/ now' = now)
          /\ \A u \in Tasks : Costed(u)' /\ Worked(u)
      BY <2>1, StepWorks
    <3>2. CPU!Next
      BY <3>1, StepServes
    <3> QED
      BY <3>1, <3>2
  <2>2. CASE UNCHANGED vars
    <3>1. UNCHANGED <<now, agenda, policy, state, actInstr, dl, cost, done, lastTime>>
      BY <2>2 DEF vars, jobVars, instrVars, rrVars
    <3>2. \A t \in Tasks : Instr(t)' = Instr(t) /\ Rank(t)' = Rank(t)
      BY <3>1 DEF Instr, Rank
    <3>3. \A t \in Tasks : Work(t)' = Work(t)
      BY <3>1, <3>2 DEF Work, LeftOfInstr
    <3>4. AllCosted'
      BY <3>1, <3>2 DEF Costed
    <3> QED
      BY <3>1, <3>2, <3>3, <3>4 DEF CPU!vars
  <2> QED
    BY <2>1, <2>2 DEF Next, Over
<1> HIDE DEF AllCosted
<1>4. Spec => []KernelInv
  BY <1>1, KernelInvariant
<1>5. Spec => []FirstInv
  BY <1>1, FirstInvariant
<1> QED
  BY <1>2, <1>3, <1>4, <1>5, PTL DEF Spec, ServesByRank, CPU!Spec
================================================================================
