---------------------------- MODULE PollingServer ----------------------------
(***************************************************************************)
(* The polling server: it has its budget once a period, and loses what is  *)
(* left of it when it has no work.                                         *)
(***************************************************************************)
EXTENDS ServerWorld

(* The budget is full, and comes back after a period. *)
Recharged(w, s) ==
    LET at == w.now + P[s]
    IN  Post(Post([w EXCEPT !.sv[s].cap = w.sv[s].q, !.sv[s].status = "READY"],
                  Recharge(s), at), DlineMiss(s), at)

IdleReady(w, s) ==
    IF w.sv[s].status # "IDLE" THEN Throw(w, "NotIdle") ELSE Recharged(w, s)

ReleasingReady(w, s) == Throw(w, "ShouldNotBeHere")

ReadyExecuting(w, s) ==
    Post(SetStatus([w EXCEPT !.sv[s].last = w.now], s, "EXECUTING"),
         BandEx(s), w.now + w.sv[s].cap)

ExecutingReady(w, s) ==
    Drop([w EXCEPT !.sv[s].status = "READY",
                   !.sv[s].cap = @ - (w.now - w.sv[s].last)], BandEx(s))

(* A server that stays ready without work or budget. *)
StaysReady(w, s) == Drop(SetStatus(w, s, "READY"), BandEx(s))

(* No work, or no budget: wait for the next period. *)
WaitsForPeriod(w, s) ==
    Drop([w EXCEPT !.sv[s].status = "RECHARGING", !.sv[s].cap = 0], BandEx(s))

ExecutingReleasing(w, s) == WaitsForPeriod(w, s)
(* A server that has its budget again as soon as it is spent. *)
RefilledAtOnce(w, s) ==
    Drop([w EXCEPT !.sv[s].status = "READY", !.sv[s].cap = w.sv[s].q],
         BandEx(s))

ExecutingRecharging(w, s) == WaitsForPeriod(w, s)

ReleasingIdle(w, s) == Throw(w, "ShouldNotBeHere")

RechargingReady(w, s) == Recharged(Drop(w, DlineMiss(s)), s)

RechargingIdle(w, s) == Drop(SetStatus(w, s, "IDLE"), DlineMiss(s))

(* PollingServer::changeBudget *)
ChangeBudget(w, s, n) == IF n <= 0 THEN w ELSE [w EXCEPT !.sv[s].q = n]
=============================================================================
