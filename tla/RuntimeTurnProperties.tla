------------------------ MODULE RuntimeTurnProperties ------------------------
(***************************************************************************)
(* What the turn store promises a franchise and its wallet.                *)
(***************************************************************************)
EXTENDS RuntimeTurns

JobsTyped ==
    \A j \in DOMAIN job : job[j] \in JobRows /\ j \in Paths /\ j[1] \in Causes

MoneyTyped ==
    /\ DOMAIN resv \subseteq Paths \X Nat
    /\ \A t \in DOMAIN resv :
          resv[t] \in Reservations /\ t[1] \in DOMAIN job /\ t[2] \in 1..job[t[1]].fence
    /\ spent \in [Agents -> Int] /\ reserved \in [Agents -> Int]
    /\ enabled \in [Agents -> BOOLEAN]
    /\ DOMAIN incurred \subseteq DOMAIN resv
    /\ \A t \in DOMAIN incurred : incurred[t] \in 0..(MaxCost + 1)

WorkersTyped ==
    /\ pc \in [Workers -> InTurn \cup {"idle"}]
    /\ turn \in [Workers -> (Paths \cup {<<>>}) \X Nat]
    /\ \A w \in Workers :
          pc[w] # "idle" => turn[w][1] \in DOMAIN job /\ turn[w][2] \in 1..job[turn[w][1]].fence
    /\ holds \in [Workers -> BOOLEAN] /\ error \in [Workers -> Errors]
    /\ lost \in [Workers -> BOOLEAN] /\ aborted \in [Workers -> BOOLEAN]

(* The shape of every variable; a turn that was invoked has a reservation, *)
(* a reservation and a worker have a job, and no job is tried more often   *)
(* than max_attempts.                                                      *)
TypeOK == JobsTyped /\ MoneyTyped /\ WorkersTyped /\ faults \in Nat

-----------------------------------------------------------------------------
(* Exclusion and finality.                                                 *)

(* One leased turn per franchise: no interleaving of claims, expiries and  *)
(* retries gives it two live turns, and no two workers hold valid claims   *)
(* on its work.                                                            *)
OneLiveTurn ==
    /\ \A j, k \in DOMAIN job :
          /\ AgentOf(j) = AgentOf(k)
          /\ job[j].status = "running" /\ job[j].live
          /\ job[k].status = "running" /\ job[k].live
          => j = k
    /\ \A v, w \in Workers :
          /\ pc[v] # "idle" /\ pc[w] # "idle"
          /\ ValidClaim(v) /\ ValidClaim(w)
          /\ AgentOf(turn[v][1]) = AgentOf(turn[w][1])
          => v = w

(* A job that is completed, dead or cancelled never changes again, whoever *)
(* still works on it.                                                      *)
TerminalIsFinal ==
    [][\A j \in DOMAIN job : job[j].status \in Terminal => job'[j] = job[j]]_vars

(* A completed job was completed by its last turn: a superseded worker's   *)
(* decision takes no effect, and no other turn of the job is still held as *)
(* reserved.                                                               *)
CompletedByItsLastTurn ==
    \A j \in DOMAIN job : job[j].status = "completed" =>
        /\ <<j, job[j].fence>> \in DOMAIN resv
        /\ resv[<<j, job[j].fence>>].status = "settled"
        /\ \A t \in DOMAIN resv : t[1] = j => resv[t].status # "reserved"

-----------------------------------------------------------------------------
(* Money.                                                                  *)

TurnsOf(a) == {t \in DOMAIN resv : AgentOf(t[1]) = a}
Held(a) == {t \in TurnsOf(a) : resv[t].status \in {"reserved", "uncertain"}}
Paid(a) == {t \in TurnsOf(a) : resv[t].status = "settled"}

(* A cost unit by unit: turns are charged with disjoint sets of units, and *)
(* the sum of their costs is the number of units.                          *)
Units(t, cost) == {t} \X (1..cost)

WithinReserve(cost) == IF cost > MaxCost THEN MaxCost ELSE cost

PaidUnits(a) == UNION {Units(t, resv[t].actual) : t \in Paid(a)}
ReservePaid(a) == UNION {Units(t, WithinReserve(resv[t].actual)) : t \in Paid(a)}

(* The two totals on the agent row are the sums over its reservations:     *)
(* every path that ends a turn books it once and releases its hold once.   *)
BooksBalance ==
    \A a \in Agents :
        /\ reserved[a] = MaxCost * Cardinality(Held(a))
        /\ spent[a] = Cardinality(PaidUnits(a))

(* Money that is spent, reserved or in doubt never exceeds the budget by   *)
(* more than what single turns cost above their reservation.               *)
BudgetHolds ==
    \A a \in Agents :
        MaxCost * Cardinality(Held(a)) + Cardinality(ReservePaid(a)) <= Budget

(* No charge is lost: what a settled turn is booked at is what the         *)
(* provider charged, and a released turn cost nothing, although its worker *)
(* may have been cancelled, fenced off or have died in between.            *)
ChargesBooked ==
    \A t \in DOMAIN resv :
        /\ resv[t].status = "settled" => t \in DOMAIN incurred /\ resv[t].actual = incurred[t]
        /\ resv[t].status = "released" /\ t \in DOMAIN incurred => incurred[t] = 0

(* Every path that ends a turn books it once, releases its hold once, and  *)
(* books what the provider charged.                                        *)
WalletIsTrue == BooksBalance /\ ChargesBooked

(* Held money can be resolved: it is in doubt, where the operator's        *)
(* reconciliation accepts it, or it belongs to the running turn of its job.*)
HeldMoneyIsResolvable ==
    \A t \in DOMAIN resv : resv[t].status = "reserved" =>
        job[t[1]].status = "running" /\ job[t[1]].fence = t[2]

(* A frozen franchise has no live turn, whose result could then neither be *)
(* accepted nor charged: no freeze overtakes a turn that is under way.     *)
FrozenIsIdle == \A a \in Agents : ~enabled[a] => LiveTurns(a) = {}

-----------------------------------------------------------------------------
(* Staff.                                                                  *)

Overran(j) ==
    LET t == <<j, job[j].fence>>
    IN  t \in DOMAIN resv /\ resv[t].status = "settled" /\ resv[t].actual > MaxCost

(* A staff job is answered exactly once, and truly: a report event if and  *)
(* only if it completed; a failure event only if it died, and always then, *)
(* unless its turn overran its reservation.                                *)
StaffAnswered ==
    \A j \in DOMAIN job : job[j].kind = "staff" =>
        /\ Append(j, "completed") \in DOMAIN job <=> job[j].status = "completed"
        /\ Append(j, "failed") \in DOMAIN job => job[j].status = "dead"
        /\ job[j].status = "dead" => Append(j, "failed") \in DOMAIN job \/ Overran(j)

(* A terminally failed staff job wakes its owner.                          *)
FailedStaffWakesOwner ==
    \A j \in DOMAIN job :
        job[j].kind = "staff" /\ job[j].status = "dead" => Append(j, "failed") \in DOMAIN job

-----------------------------------------------------------------------------
(* Progress.                                                               *)

(* A job of a franchise that is not frozen comes to an end, through        *)
(* crashes, stalls, cancelled turns and provider failures.                 *)
JobsEnd ==
    \A c \in Causes :
        (<<c>> \in DOMAIN job) ~>
            ((<<c>> \in DOMAIN job /\ job[<<c>>].status \in Terminal) \/ ~enabled[OwnerOf[c]])
=============================================================================
