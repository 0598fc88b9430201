------------------------------ MODULE CBServer ------------------------------
(***************************************************************************)
(* The constant bandwidth server: hard (a spent budget comes back at the   *)
(* deadline), soft (it comes back at once, with a later deadline), and     *)
(* hard with the policy REUSE_DLINE for the end of an idle time.  _killed  *)
(* and _yielding, which only energyMRTKernel.cpp reads, are left out.      *)
(***************************************************************************)
EXTENDS ServerWorld

Hard(v) == v.kind \in {"hardCBS", "reuseCBS"}

(* A budget that is refilled while the deadline stays where it was. *)
RefilledInPlace(v, dl) == [v EXCEPT !.cap = v.q]

(* The record of a server with its budget refilled and its deadline moved.  *)
Refilled(v, dl) == [v EXCEPT !.cap = v.q, !.dl = dl]

(* The budget that fits in what is left until the deadline (REUSE_DLINE).   *)
Reusable(w, s) ==
    LET v == w.sv[s]
    IN  IF v.kind = "reuseCBS" /\ w.now < v.dl
        THEN ((v.dl - w.now) * v.q) \div P[s] ELSE 0

IdleReady(w, s) ==
    LET v == w.sv[s]
        c == Reusable(w, s)
        u == IF c = 0 THEN Refilled(v, w.now + P[s]) ELSE [v EXCEPT !.cap = c]
    IN  IF v.status # "IDLE" THEN Throw(w, "NotIdle")
        ELSE SetVTime(SetStatus([w EXCEPT !.sv[s] = u], s, "READY"), s)

ReleasingReady(w, s) == Drop(SetStatus(w, s, "READY"), CBSIdle(s))

ReadyExecuting(w, s) ==
    LET w1 == SetStatus([w EXCEPT !.sv[s].last = w.now], s, "EXECUTING")
    IN  Post(StartVTime(w1, s, VRate(w.sv[s], s)), BandEx(s),
             w.now + w.sv[s].cap)

(* An execution that costs nothing. *)
Uncharged(w, s) == w

(* The execution since `last' is charged to the budget. *)
Charged(w, s) ==
    [w EXCEPT !.sv[s].cap = @ - (w.now - w.sv[s].last)]

StopsExecuting(w, s) == Drop(StopVTime(Charged(w, s), s), BandEx(s))

ExecutingReady(w, s) == SetStatus(StopsExecuting(w, s), s, "READY")

(* A server that goes idle as soon as it has no work. *)
ReleaseNow(w, s, at) == SetStatus(w, s, "IDLE")

(* The server keeps its bandwidth until its virtual time; `at' is the tick  *)
(* at which it gives it up.                                                 *)
ReleaseUntil(w, s, at) ==
    IF VTime(w, s) <= w.now * VUnit
    THEN SetStatus(w, s, "IDLE")
    ELSE SetStatus(Post(w, CBSIdle(s), at), s, "RELEASING")

ExecutingReleasing(w, s) ==
    LET w1 == IF w.sv[s].status = "EXECUTING" THEN StopsExecuting(w, s) ELSE w
    IN  ReleaseUntil(w1, s, Trunc(VTime(w1, s)))

ReleasingIdle(w, s) == SetStatus(w, s, "IDLE")

ExecutingRecharging(w, s) ==
    LET w1 == StopVTime(Drop(w, BandEx(s)), s)
        v  == w1.sv[s]
    IN  IF Hard(v)
        THEN SetStatus([Post(w1, Repl(s), v.dl) EXCEPT
                            !.sv[s].cap = 0, !.sv[s].dl = v.dl + P[s]],
                       s, "RECHARGING")
        ELSE Post(SetStatus([w1 EXCEPT !.sv[s] = Refilled(v, v.dl + P[s])],
                            s, "READY"),
                  Repl(s), w.now)

RechargingReady(w, s) == SetStatus(w, s, "READY")

(* A replenishment that does not look at the queue. *)
ReplenishedAsleep(w, s) ==
    [w EXCEPT !.sv[s].cap = w.sv[s].q, !.sv[s].status = "IDLE"]

(* CBServer::onReplenishment *)
OnReplenishment(w, s) ==
    LET w1 == [w EXCEPT !.sv[s].cap = w.sv[s].q]
    IN  IF w.sv[s].status \notin {"RECHARGING", "RELEASING", "IDLE"} THEN w
        ELSE IF First(w, s) # None
        THEN KernelOnArrival(RechargingReady(w1, s), s)
        ELSE IF w.sv[s].status = "IDLE" THEN w1
        ELSE SetExe(ReleaseUntil(w1, s, Ceil(VTime(w1, s))), s, None)

(* CBServer::onIdle *)
OnIdle(w, s) == ReleasingIdle(w, s)

(* CBServer::changeBudget; the capacity does not change, because Q already  *)
(* has when n - Q is computed.                                              *)
ChangeBudget(w, s, n) ==
    LET w1 == [w EXCEPT !.sv[s].q = n]
        w2 == StopVTime(Drop(Charged(w1, s), BandEx(s)), s)
        w3 == Post([w2 EXCEPT !.sv[s].last = w.now], BandEx(s),
                   w.now + w2.sv[s].cap)
    IN  IF n <= 0 \/ n = w.sv[s].q THEN w
        ELSE IF w.sv[s].status # "EXECUTING" THEN w1
        ELSE StartVTime(w3, s, VRate(w3.sv[s], s))
=============================================================================
