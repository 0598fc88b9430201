-------------------------- MODULE Reservation_proofs --------------------------
(***************************************************************************)
(* What the promises of Reservation are worth: however the budgets are     *)
(* used, given up, spent and renewed, there is a share of the processor    *)
(* that no reservation gets more of.  With exact virtual times it is Q / P.*)
(* With rounded ones it is what Q / P becomes when the period is rounded   *)
(* down to a multiple of the budget: the same if it is one already.  The   *)
(* history variable `given' counts what each reservation has got since the *)
(* start.                                                                  *)
(***************************************************************************)
EXTENDS Reservation, TLAPS

VARIABLE given

hvars == <<clock, used, dl, hard, given>>

HInit == Init /\ given = [s \in Servers |-> 0]

HNext ==
    \E r \in Servers \cup {None} :
        /\ Step(r)
        /\ given' = [s \in Servers |-> given[s] + Until(r, s) - used[s]]

HSpec == HInit /\ [][HNext]_hvars

(* The period to which the budget Q[s] is spread at the least. *)
Pace(s) == IF Rounded THEN Q[s] * (P[s] \div Q[s]) ELSE P[s]

(* What was given is at most the share until the virtual time ... *)
WithinShare ==
    \A s \in Servers : given[s] * Pace(s) <= Share(s, dl[s], used[s])

(* ... and this is at most a period ahead of the clock, for a hard one.     *)
NotAhead == \A s \in hard : dl[s] <= clock + P[s]

(* A hard reservation never has more than the share Q / Pace of the time    *)
(* until now and one period.  This is its bandwidth Q / P unless rounding   *)
(* brings its virtual time forward.                                         *)
Bandwidth ==
    \A s \in hard :
        /\ given[s] * Pace(s) <= Q[s] * clock + Q[s] * P[s]
        /\ ~Rounded \/ P[s] % Q[s] = 0 =>
              given[s] * P[s] <= Q[s] * clock + Q[s] * P[s]

HTypeOK ==
    /\ clock \in Nat
    /\ used \in [Servers -> Int]
    /\ dl \in [Servers -> Int]
    /\ hard \in SUBSET Servers
    /\ given \in [Servers -> Int]
    /\ \A s \in Servers : used[s] <= Q[s]

HInv == HTypeOK /\ WithinShare /\ NotAhead

-----------------------------------------------------------------------------
(* Arithmetic of shares: what a tick of service and a period are worth.     *)

(* n units of service are worth n periods of virtual time per budget. *)
LEMMA ShareOfTicks ==
    ASSUME NEW q \in Int, NEW p \in Int, NEW d \in Int, NEW u \in Int,
           NEW n \in Int
    PROVE  d * q - (q - (u + n)) * p = (d * q - (q - u) * p) + n * p
OBVIOUS

(* A period of virtual time is worth one budget. *)
LEMMA ShareOfPeriod ==
    ASSUME NEW q \in Int, NEW p \in Int, NEW d \in Int
    PROVE  /\ d * q - (q - q) * p = d * q
           /\ (d + p) * q - (q - 0) * p = d * q
BY Z3

(* What was given, after n more units of service. *)
LEMMA Served ==
    ASSUME NEW g \in Int, NEW n \in Int, NEW p \in Int
    PROVE  (g + n) * p = g * p + n * p
OBVIOUS

(* Rounding takes less than a budget from the period, and nothing from a    *)
(* multiple of the budget.                                                  *)
LEMMA RoundedDown ==
    ASSUME NEW q \in Nat \ {0}, NEW p \in Nat
    PROVE  /\ p \div q \in Nat /\ q * (p \div q) \in Nat
           /\ q * (p \div q) <= p
           /\ p % q = 0 => q * (p \div q) = p
<1>1. p = q * (p \div q) + (p % q) /\ p % q \in 0..(q - 1) /\ p \div q \in Int
  BY Z3
<1>2. p \div q \in Nat
  BY Z3
<1>3. q * (p \div q) \in Nat
  BY <1>2, Z3
<1> QED
  BY <1>1, <1>2, <1>3

LEMMA PaceFacts ==
    ASSUME ReservationAssumption, NEW s \in Servers
    PROVE  /\ Pace(s) \in Nat /\ Pace(s) <= P[s]
           /\ ~Rounded \/ P[s] % Q[s] = 0 => Pace(s) = P[s]
<1>1. Q[s] \in Nat \ {0} /\ P[s] \in Nat
  BY DEF ReservationAssumption
<1> QED
  BY <1>1, RoundedDown DEF Pace

(* A factor may be left out on both sides. *)
LEMMA LeaveOut ==
    ASSUME NEW q \in Int, q > 0, NEW a \in Int, NEW b \in Int, a * q < b * q
    PROVE  a < b
BY Z3

(* A service is worth no less to a longer period. *)
LEMMA LongerPeriod ==
    ASSUME NEW n \in Nat, NEW a \in Int, NEW b \in Int, a <= b
    PROVE  n * a <= n * b
BY Z3

(* When the virtual time, rounded or not, is past, what was given is at     *)
(* most the share of the time until now.                                    *)
LEMMA PastBoundsGiven ==
    ASSUME ReservationAssumption, NEW s \in Servers, NEW u \in Int,
           NEW g \in Int, clock' \in Int, dl[s] \in Int,
           g * Pace(s) <= Share(s, dl[s], u), IsPast(s, u)
    PROVE  g * Pace(s) <= clock' * Q[s]
<1>1. Q[s] \in Nat \ {0} /\ P[s] \in Nat /\ Pace(s) \in Int
  BY PaceFacts DEF ReservationAssumption
<1>2. /\ g * Pace(s) \in Int /\ Share(s, dl[s], u) \in Int
      /\ clock' * Q[s] \in Int /\ (clock' + 1) * Q[s] \in Int
  BY <1>1 DEF Share
<1>3. CASE ~Rounded
  BY <1>2, <1>3 DEF IsPast
<1>4. CASE Rounded
  <2> DEFINE a == g * (P[s] \div Q[s])
  <2>1. P[s] \div Q[s] \in Int
    BY <1>1, RoundedDown
  <2>2. a \in Int /\ g * Pace(s) = a * Q[s]
    <3> DEFINE m == P[s] \div Q[s]
    <3>1. Pace(s) = Q[s] * m
      BY <1>4 DEF Pace
    <3>2. m \in Int /\ Q[s] \in Int /\ a = g * m
      BY <1>1, <2>1
    <3> HIDE DEF m, a
    <3>3. a \in Int
      BY <3>2
    <3>4. g * (Q[s] * m) = (g * m) * Q[s]
      BY <3>2, Z3
    <3> QED
      BY <3>1, <3>2, <3>3, <3>4
  <2> HIDE DEF a
  <2>3. a * Q[s] < (clock' + 1) * Q[s]
    BY <1>2, <1>4, <2>2 DEF IsPast
  <2>4. a < clock' + 1
    <3> DEFINE b == clock' + 1
    <3>1. b \in Int /\ Q[s] \in Int /\ Q[s] > 0
      BY <1>1
    <3>2. a * Q[s] < b * Q[s]
      BY <2>3
    <3> HIDE DEF b
    <3>3. a < b
      BY <2>2, <3>1, <3>2, LeaveOut
    <3> QED
      BY <3>3 DEF b
  <2>5. a <= clock'
    BY <2>2, <2>4
  <2>6. Q[s] * a <= Q[s] * clock'
    BY <1>1, <2>2, <2>5, LongerPeriod
  <2> QED
    BY <1>1, <2>2, <2>6
<1> QED
  BY <1>3, <1>4

-----------------------------------------------------------------------------
(* The invariant.                                                            *)

(* At the start nothing was given and no deadline lies ahead. *)
LEMMA InvInit == ASSUME ReservationAssumption PROVE HInit => HInv
<1> SUFFICES ASSUME ReservationAssumption, HInit PROVE HInv
  OBVIOUS
<1> USE DEF ReservationAssumption, HInit, Init
<1>1. HTypeOK
  BY DEF HTypeOK
<1>2. WithinShare
  <2> SUFFICES ASSUME NEW s \in Servers
               PROVE  given[s] * Pace(s) <= Share(s, dl[s], used[s])
    BY DEF WithinShare
  <2>1. Q[s] \in Int /\ P[s] \in Int /\ Pace(s) \in Int
    BY PaceFacts
  <2>2. given[s] * Pace(s) = 0
    BY <2>1
  <2>3. P[s] * Q[s] - (Q[s] - 0) * P[s] = 0
    BY <2>1, Z3
  <2> QED
    BY <2>2, <2>3 DEF Share
<1>3. NotAhead
  <2> SUFFICES ASSUME NEW s \in hard PROVE dl[s] <= clock + P[s]
    BY DEF NotAhead
  <2>1. s \in Servers
    OBVIOUS
  <2>2. P[s] \in Int /\ clock = 0 /\ dl[s] = P[s]
    BY <2>1
  <2> QED
    BY <2>2
<1> QED
  BY <1>1, <1>2, <1>3 DEF HInv

(* Service until clock' is paid for by the virtual time, and every way to   *)
(* get a new budget leaves what was given within the share.                 *)
LEMMA StepKeepsShare ==
    ASSUME ReservationAssumption, HInv, NEW r \in Servers \cup {None}, Step(r),
           given' = [s \in Servers |-> given[s] + Until(r, s) - used[s]],
           NEW s \in Servers
    PROVE  /\ given'[s] * Pace(s) <= Share(s, dl'[s], used'[s])
           /\ used'[s] <= Q[s]
           /\ s \in hard' => dl'[s] <= clock' + P[s]
<1> DEFINE u == Until(r, s)
<1>1. /\ Q[s] \in Int /\ P[s] \in Int /\ Q[s] > 0 /\ P[s] > 0
      /\ dl[s] \in Int /\ used[s] \in Int /\ given[s] \in Int
      /\ clock \in Int /\ clock' \in Int /\ clock <= clock'
      /\ Pace(s) \in Int /\ Pace(s) <= P[s]
  BY PaceFacts DEF ReservationAssumption, HInv, HTypeOK, Step
<1>2. u \in Int /\ used[s] <= u /\ u <= Q[s]
  BY <1>1 DEF Until, Step
<1>3. given'[s] = given[s] + (u - used[s])
  BY <1>1, <1>2
<1>4. given'[s] * Pace(s) <= Share(s, dl[s], u)
  <2> DEFINE n == u - used[s]
  <2>1. n \in Nat /\ used[s] + n = u /\ given'[s] = given[s] + n
    BY <1>1, <1>2, <1>3
  <2> HIDE DEF n, u
  <2>2. (given[s] + n) * Pace(s) = given[s] * Pace(s) + n * Pace(s)
    BY <1>1, <2>1, Served
  <2>3. Share(s, dl[s], used[s] + n) = Share(s, dl[s], used[s]) + n * P[s]
    BY <1>1, <2>1, ShareOfTicks DEF Share
  <2>4. given[s] * Pace(s) <= Share(s, dl[s], used[s])
    BY DEF HInv, WithinShare
  <2>5. n * Pace(s) <= n * P[s]
    BY <1>1, <2>1, LongerPeriod
  <2>6. /\ given[s] * Pace(s) \in Int /\ n * Pace(s) \in Int
        /\ n * P[s] \in Int /\ Share(s, dl[s], used[s]) \in Int
    BY <1>1, <2>1 DEF Share
  <2> QED
    BY <2>1, <2>2, <2>3, <2>4, <2>5, <2>6
<1>5. s \in hard' => dl[s] <= clock + P[s]
  BY DEF HInv, NotAhead, Step
<1>6. \/ Keeps(s, u) \/ Postpones(s, u) \/ Renews(s, u) \/ Reuses(s, u)
  BY DEF Step
<1>7. CASE Keeps(s, u)
  BY <1>1, <1>2, <1>4, <1>5, <1>7 DEF Keeps
<1>8. CASE Postpones(s, u)
  <2>1. Share(s, dl[s], u) = dl[s] * Q[s]
    BY <1>1, <1>8, ShareOfPeriod DEF Share, Postpones
  <2>2. Share(s, dl'[s], used'[s]) = dl[s] * Q[s]
    BY <1>1, <1>8, ShareOfPeriod DEF Share, Postpones
  <2>3. s \in hard' => dl'[s] <= clock' + P[s]
    BY <1>1, <1>8 DEF Postpones, Step
  <2> QED
    BY <1>1, <1>4, <1>8, <2>1, <2>2, <2>3 DEF Postpones
<1>9. CASE Renews(s, u)
  <2>1. Share(s, dl'[s], used'[s]) = clock' * Q[s]
    BY <1>1, <1>9, ShareOfPeriod DEF Share, Renews
  <2>2. given'[s] * Pace(s) <= clock' * Q[s]
    BY <1>1, <1>2, <1>3, <1>4, <1>9, PastBoundsGiven DEF Renews
  <2> QED
    BY <1>1, <1>9, <2>1, <2>2 DEF Renews
<1>10. CASE Reuses(s, u)
  <2>1. /\ given'[s] * Pace(s) \in Int
        /\ clock' * Q[s] \in Int /\ Share(s, dl'[s], used'[s]) \in Int
    BY <1>1, <1>2, <1>3, <1>10 DEF Share, Reuses
  <2>2. given'[s] * Pace(s) <= clock' * Q[s]
    BY <1>1, <1>2, <1>3, <1>4, <1>10, PastBoundsGiven DEF Reuses
  <2>3. given'[s] * Pace(s) <= Share(s, dl'[s], used'[s])
    BY <1>10, <2>1, <2>2 DEF Reuses
  <2> QED
    BY <1>1, <1>5, <1>10, <2>3 DEF Reuses
<1> QED
  BY <1>6, <1>7, <1>8, <1>9, <1>10

(* Every service, postponement, renewal and reuse keeps the invariant. *)
LEMMA InvStep ==
    ASSUME ReservationAssumption PROVE HInv /\ [HNext]_hvars => HInv'
<1> SUFFICES ASSUME ReservationAssumption, HInv, [HNext]_hvars PROVE HInv'
  OBVIOUS
<1>1. CASE HNext
  <2>1. PICK r \in Servers \cup {None} :
           /\ Step(r)
           /\ given' = [s \in Servers |-> given[s] + Until(r, s) - used[s]]
    BY <1>1 DEF HNext
  <2>2. \A s \in Servers :
           /\ given'[s] * Pace(s) <= Share(s, dl'[s], used'[s])
           /\ used'[s] <= Q[s]
           /\ s \in hard' => dl'[s] <= clock' + P[s]
    BY <2>1, StepKeepsShare
  <2>3. given' \in [Servers -> Int]
    BY <2>1 DEF HInv, HTypeOK, Step, Until
  <2>4. HTypeOK'
    BY <2>1, <2>2, <2>3 DEF HInv, HTypeOK, Step
  <2>5. WithinShare'
    BY <2>2 DEF WithinShare, Share, Pace
  <2>6. NotAhead'
    BY <2>2, <2>4 DEF NotAhead, HTypeOK
  <2> QED
    BY <2>4, <2>5, <2>6 DEF HInv
<1>2. CASE UNCHANGED hvars
  BY <1>2 DEF hvars, HInv, HTypeOK, WithinShare, NotAhead, Share, Pace
<1> QED
  BY <1>1, <1>2

(* Up to their virtual times no reservation, hard or soft, has been given   *)
(* more than the share Q / Pace of the processor.                           *)
THEOREM ServedWithinShare ==
    ASSUME ReservationAssumption PROVE HSpec => []WithinShare
<1>1. HInit => HInv
  BY InvInit
<1>2. HInv /\ [HNext]_hvars => HInv'
  BY InvStep
<1>3. HInv => WithinShare
  BY DEF HInv
<1> QED
  BY <1>1, <1>2, <1>3, PTL DEF HSpec

(* At no time has a hard reservation had more than the share Q / Pace of    *)
(* the time since the start and one period: all that CBServer can promise   *)
(* with HR set, for its idle event comes at the tick its virtual time       *)
(* falls in.  With a period that is a multiple of the budget, and with      *)
(* exact virtual times, it is the share Q / P and one budget.               *)
THEOREM HardBandwidth ==
    ASSUME ReservationAssumption PROVE HSpec => []Bandwidth
<1>1. HInit => HInv
  BY InvInit
<1>2. HInv /\ [HNext]_hvars => HInv'
  BY InvStep
<1>3. HInv => Bandwidth
  <2> SUFFICES ASSUME HInv, NEW s \in hard
               PROVE  /\ given[s] * Pace(s) <= Q[s] * clock + Q[s] * P[s]
                      /\ ~Rounded \/ P[s] % Q[s] = 0 =>
                            given[s] * P[s] <= Q[s] * clock + Q[s] * P[s]
    BY DEF Bandwidth
  <2>1. /\ s \in Servers
        /\ Q[s] \in Int /\ P[s] \in Int /\ Q[s] > 0 /\ P[s] > 0
        /\ dl[s] \in Int /\ used[s] \in Int /\ used[s] <= Q[s]
        /\ given[s] \in Int /\ clock \in Int /\ dl[s] <= clock + P[s]
    BY DEF ReservationAssumption, HInv, HTypeOK, NotAhead
  <2>2. given[s] * Pace(s) <= dl[s] * Q[s] - (Q[s] - used[s]) * P[s]
    BY <2>1 DEF HInv, WithinShare, Share
  <2>3. (Q[s] - used[s]) * P[s] >= 0
    BY <2>1, Z3
  <2>4. dl[s] * Q[s] <= Q[s] * clock + Q[s] * P[s]
    BY <2>1, Z3
  <2>5. /\ Pace(s) \in Int
        /\ ~Rounded \/ P[s] % Q[s] = 0 => Pace(s) = P[s]
    BY <2>1, PaceFacts
  <2>6. /\ given[s] * Pace(s) \in Int /\ dl[s] * Q[s] \in Int
        /\ (Q[s] - used[s]) * P[s] \in Int
        /\ Q[s] * clock + Q[s] * P[s] \in Int
    BY <2>1, <2>5
  <2>7. given[s] * Pace(s) <= Q[s] * clock + Q[s] * P[s]
    BY <2>2, <2>3, <2>4, <2>6
  <2> QED
    BY <2>5, <2>7
<1> QED
  BY <1>1, <1>2, <1>3, PTL DEF HSpec
=============================================================================
