-------------------------------- MODULE Grub --------------------------------
(***************************************************************************)
(* The GRUB server and its supervisor: budgets are consumed at the rate of *)
(* the bandwidth that is in use, so that what idle servers leave is        *)
(* reclaimed.  Utilisations and capacities are integers of 1/UUnit.        *)
(***************************************************************************)
EXTENDS ServerWorld

(* Grub::getUtil; the program computes it once, from the initial budget.    *)
Util(s) == (Q[s] * UUnit) \div P[s]

(* Grub::updateBudget: the accounts of a server that executes are closed ... *)
UpdateBudget(w, s) ==
    IF w.sv[s].status # "EXECUTING" THEN w
    ELSE Drop([StopVTime(w, s) EXCEPT !.sv[s].capacity = Stopped(@, w.now)],
              BandEx(s))

(* ... and opened again, at the rates of the present. *)
StartAccounting(w, s) ==
    LET a  == w.sup.active
        c  == Started(w.sv[s].capacity, -a, w.now)
        w1 == StartVTime([w EXCEPT !.sv[s].capacity = c], s,
                         (a * VUnit) \div Util(s))
        left == InterceptOfZero(c, w.now)
    IN  IF w.sv[s].status # "EXECUTING" THEN w
        ELSE IF a = 0 \/ left < 0 THEN Throw(w1, "CapacityIsNegative")
        ELSE Post(w1, BandEx(s), w.now + left)

(* A call for each server of the supervisor, the first created first.       *)
OfAllServers(F(_, _), w) ==
    LET Done[i \in 0..Len(EntitySeq)] ==
            IF i = 0 THEN w
            ELSE LET x == EntitySeq[i]
                 IN  IF x \in Servers /\ w.sv[x].kind = "grub"
                     THEN F(Done[i - 1], x) ELSE Done[i - 1]
    IN  Done[Len(EntitySeq)]

(* GrubSupervisor::set_active and set_idle: the bandwidth in use changes by *)
(* d; the variant leaves the accounts as they are.                          *)
ChangeActiveOnly(w, d) == [w EXCEPT !.sup.active = @ + d]

ChangeActive(w, d) ==
    LET w1 == OfAllServers(UpdateBudget, w)
    IN  OfAllServers(StartAccounting, [w1 EXCEPT !.sup.active = @ + d])

IdleReady(w, s) ==
    LET dl == w.now + P[s]
        v  == [w.sv[s] EXCEPT !.status = "READY", !.dl = dl,
                  !.capacity = SetValue(@, w.sv[s].q * UUnit)]
    IN  IF w.sv[s].status # "IDLE" THEN Throw(w, "NotIdle")
        ELSE ChangeActive(SetVTime([w EXCEPT !.sv[s] = v], s), Util(s))

ReleasingReady(w, s) == Drop(SetStatus(w, s, "READY"), Idle(s))

(* GrubSupervisor::get_capacity: what was left over goes to this server.    *)
ReadyExecuting(w, s) ==
    LET c == w.sv[s].capacity
    IN  StartAccounting(
            [w EXCEPT !.sv[s].status = "EXECUTING",
                      !.sv[s].capacity =
                          SetValue(c, c.value + w.sup.residual * UUnit),
                      !.sup.residual = 0], s)

ExecutingReady(w, s) == SetStatus(UpdateBudget(w, s), s, "READY")

ExecutingReleasing(w, s) ==
    LET w1 == UpdateBudget(w, s)
        at == Trunc(VTime(w1, s))
    IN  Post(SetStatus(w1, s, "RELEASING"), Idle(s),
             IF w.now < at THEN at ELSE w.now)

(* A server that goes idle and stays in the account. *)
ReleasingIdleOnly(w, s) == SetStatus(w, s, "IDLE")

(* The bandwidth of a server is no longer in use; the time it is late for,  *)
(* if any, is for others.                                                   *)
ReleasingIdle(w, s) ==
    LET late == w.now * VUnit - VTime(w, s)
        w1 == IF late > 0
              THEN [w EXCEPT !.sup.residual = (Util(s) * late) \div (UUnit * VUnit)]
              ELSE w
    IN  ChangeActive(SetStatus(w1, s, "IDLE"), -Util(s))

ExecutingRecharging(w, s) ==
    LET w1 == SetStatus(UpdateBudget(w, s), s, "RECHARGING")
        dl == w.sv[s].dl
    IN  Post(w1, Recharge(s), IF dl < w.now THEN w.now ELSE dl)

RechargingReady(w, s) ==
    LET v == [w.sv[s] EXCEPT !.status = "READY", !.dl = w.now + P[s],
                 !.capacity = SetValue(@, w.sv[s].q * UUnit)]
    IN  SetVTime([w EXCEPT !.sv[s] = v], s)

RechargingIdle(w, s) == ReleasingIdle(w, s)

(* Grub::onIdle *)
OnIdle(w, s) ==
    IF w.sv[s].status # "RELEASING" THEN Throw(w, "NotReleasing")
    ELSE ReleasingIdle(w, s)
=============================================================================
