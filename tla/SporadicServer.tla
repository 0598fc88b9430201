--------------------------- MODULE SporadicServer ---------------------------
(***************************************************************************)
(* The sporadic server: what it executes comes back one period after it    *)
(* became ready to execute it.                                             *)
(***************************************************************************)
EXTENDS ServerWorld, Functions

(* A replenishment, at its time; the amount is not known at first. *)
Replenishment(at, amount) == [at |-> at, amount |-> amount]

PrepareReplenishment(w, s, t) ==
    [w EXCEPT !.sv[s].repl = Append(@, Replenishment(t + P[s], 0))]

Least(x, y) == IF x < y THEN x ELSE y
Most(x, y)  == IF x < y THEN y ELSE x

(* The amounts of the first k of a list. *)
SumAmounts(b, k) == SumFunctionOnSet([i \in 1..k |-> b[i].amount], 1..k)

(* SporadicServer::check_repl *)
CheckRepl(w, s) ==
    IF IsPosted(w.q, Repl(s)) \/ w.sv[s].repl = <<>> THEN w
    ELSE Post(w, Repl(s), w.sv[s].repl[1].at)

IdleReady(w, s) ==
    IF w.sv[s].status # "IDLE" THEN Throw(w, "NotIdle")
    ELSE PrepareReplenishment(
             SetVTime([w EXCEPT !.sv[s].status = "READY",
                                !.sv[s].cap = w.sv[s].q], s), s, w.now)

ReleasingReady(w, s) ==
    Drop(PrepareReplenishment(SetStatus(w, s, "READY"), s, w.now), Idle(s))

ReadyExecuting(w, s) ==
    LET w1 == SetStatus([w EXCEPT !.sv[s].last = w.now], s, "EXECUTING")
    IN  Post(StartVTime(w1, s, VRate(w.sv[s], s)), BandEx(s),
             w.now + w.sv[s].cap)

(* What was executed since `last' goes from the capacity to the latest      *)
(* replenishment; the variant does not bring it back.                       *)
SpentForGood(w, s) ==
    [w EXCEPT !.sv[s].cap = @ - (w.now - w.sv[s].last)]

Spent(w, s) ==
    LET used == w.now - w.sv[s].last
        last == Len(w.sv[s].repl)
    IN  IF last = 0 THEN Throw(w, "EmptyList")
        ELSE [w EXCEPT !.sv[s].cap = @ - used,
                       !.sv[s].repl[last].amount = @ + used]

ExecutingReady(w, s) ==
    StopVTime(Drop(SetStatus(Spent(w, s), s, "READY"), BandEx(s)), s)

ExecutingReleasing(w, s) ==
    LET w1 == IF w.sv[s].status = "EXECUTING"
              THEN StopVTime(CheckRepl(Drop(Spent(w, s), BandEx(s)), s), s)
              ELSE w
    IN  IF VTime(w1, s) <= w.now * VUnit
        THEN SetStatus(w1, s, "IDLE")
        ELSE SetStatus(Post(w1, Idle(s), Ceil(VTime(w1, s))), s, "RELEASING")

ReleasingIdle(w, s) == SetStatus(w, s, "IDLE")

(* The capacity that came back in the meantime, if any, is used next. *)
ExecutingRecharging(w, s) ==
    LET w1 == StopVTime(CheckRepl(Spent(Drop(w, BandEx(s)), s), s), s)
        c  == w1.sv[s].ready
    IN  IF c = <<>>
        THEN SetStatus(w1, s, "RECHARGING")
        ELSE PrepareReplenishment(
                 [w1 EXCEPT !.sv[s].status = "READY",
                            !.sv[s].cap = @ + c[1].amount,
                            !.sv[s].ready = Tail(c),
                            !.sv[s].last = w.now], s, c[1].at)

RechargingReady(w, s) ==
    PrepareReplenishment(SetStatus(w, s, "READY"), s, w.now)

(* The first replenishment is taken off its queue; w is the world without   *)
(* it and r the replenishment.                                              *)
ReplenishedInactive(w, s, r) ==
    LET w1 == CheckRepl([w EXCEPT !.sv[s].cap = @ + r.amount], s)
    IN  IF First(w, s) # None THEN KernelOnArrival(RechargingReady(w1, s), s)
        ELSE IF w.sv[s].status = "IDLE" THEN w1
        ELSE SetExe(SetStatus(w1, s, "RELEASING"), s, None)

ReplenishedActive(w, s, r) ==
    LET w1 == [w EXCEPT !.sv[s].ready = Append(@, r)]
    IN  IF Len(w1.sv[s].repl) > 1 THEN CheckRepl(w1, s) ELSE w1

(* SporadicServer::onReplenishment *)
OnReplenishment(w, s) ==
    LET b  == w.sv[s].repl
        w1 == [w EXCEPT !.sv[s].repl = Tail(b)]
    IN  IF b = <<>> THEN Throw(w, "EmptyList")
        ELSE IF w.sv[s].status \in {"RECHARGING", "RELEASING", "IDLE"}
        THEN ReplenishedInactive(w1, s, b[1])
        ELSE ReplenishedActive(w1, s, b[1])

(* SporadicServer::onIdle *)
OnIdle(w, s) == ReleasingIdle(w, s)

-----------------------------------------------------------------------------
(* SporadicServer::changeBudget                                              *)

(* A list of replenishments of which d in all is taken, the first first.    *)
Reduced(b, d) ==
    [i \in DOMAIN b |->
        LET before == SumAmounts(b, i - 1)
            x == Least(b[i].amount, Most(d - before, 0))
        IN  [b[i] EXCEPT !.amount = @ - x]]

(* The list without the empty ones at its front. *)
SkipEmpty(b) ==
    LET k == Cardinality({i \in DOMAIN b : SumAmounts(b, i) = 0})
    IN  SubSeq(b, k + 1, Len(b))

(* The account of a server that executes is closed and opened again.        *)
Closed(w, s) ==
    IF w.sv[s].status # "EXECUTING" THEN w
    ELSE [StopVTime(Drop(Spent(w, s), BandEx(s)), s) EXCEPT
              !.sv[s].last = w.now]

Opened(w, s) ==
    IF w.sv[s].status # "EXECUTING" THEN w
    ELSE Post(StartVTime(w, s, VRate(w.sv[s], s)), BandEx(s),
              w.now + w.sv[s].cap)

Increase(w, s, n) ==
    Opened(Closed([w EXCEPT !.sv[s].cap = @ + n - w.sv[s].q,
                            !.sv[s].q = n], s), s)

(* What the capacity cannot give comes from what is ready to be used, and   *)
(* then from what is to come back.  The event is posted for each front that *)
(* repl has in turn; when nothing is left, for the end of the list: a throw *)
(* here.  (The code also reads the time of the front, perhaps of an empty   *)
(* list, for its result, which only the supervisors left out here use.)     *)
Decrease(w, s, n) ==
    LET w1 == Closed(w, s)
        v  == w1.sv[s]
        d1 == (v.q - n) - Least(v.q - n, v.cap)
        d2 == Most(d1 - SumAmounts(v.ready, Len(v.ready)), 0)
        b  == SkipEmpty(Reduced(v.repl, d2))
        w2 == [w1 EXCEPT !.sv[s].cap = @ - Least(v.q - n, v.cap),
                         !.sv[s].q = n,
                         !.sv[s].ready = SkipEmpty(Reduced(@, d1)),
                         !.sv[s].repl = b]
        w3 == IF ~IsPosted(w.q, Repl(s)) \/ Len(b) = Len(v.repl) THEN w2
              ELSE IF \E i \in 2..(Len(v.repl) - Len(b)) : v.repl[i].at < w.now
              THEN Throw(w2, "PostedInThePast")
              ELSE IF b = <<>> THEN Throw(w2, "EmptyList")
              ELSE Post(Drop(w2, Repl(s)), Repl(s), b[1].at)
    IN  IF d2 > SumAmounts(v.repl, Len(v.repl))
        THEN Throw(w, "BudgetIsNotThere") ELSE Opened(w3, s)

ChangeBudget(w, s, n) ==
    CASE n <= 0 \/ n = w.sv[s].q -> w
      [] n > w.sv[s].q            -> Increase(w, s, n)
      [] OTHER                    -> Decrease(w, s, n)
=============================================================================
