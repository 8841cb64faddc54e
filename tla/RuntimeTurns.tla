----------------------------- MODULE RuntimeTurns -----------------------------
(***************************************************************************)
(* The durable turn store (RuntimeStore) and the disposable workers that   *)
(* run its jobs (runOne).                                                  *)
(*                                                                         *)
(*   runtime_jobs          job                                             *)
(*   runtime_reservations  resv, keyed by the turn <<job, fence>>          *)
(*   runtime_agents        spent, reserved, enabled                        *)
(*                                                                         *)
(* Every method of the store is one transaction that locks the agent row,  *)
(* hence one step.  runOne is a sequence of such steps around a model call *)
(* that may take longer than the worker's lease; `pc' says where it is:    *)
(*                                                                         *)
(*   claimed    before reserve           returned   before observeCost     *)
(*   reserved   before driver.run        overrun    before settleOverrun   *)
(*   running    driver.run under way     deciding   before complete        *)
(*                                       failing    before fail            *)
(*                                                                         *)
(* attempts and fence are always incremented together and are one field.   *)
(* Every turn of a worker reserves the same amount, maxCostMicros.         *)
(* Job ids are paths: <<c>> came from outside under causal id c, and a     *)
(* turn of job j creates its staff jobs and staff answers as Append(j, _). *)
(***************************************************************************)
EXTENDS Integers, Sequences, FiniteSets

CONSTANTS
    Agents,
    Causes,       \* causal ids used from outside: events and appointments
    OwnerOf,      \* the franchise each of them belongs to
    StaffTags,    \* causal ids of delegations within a turn
    Workers,
    Budget,       \* budget_micros
    MaxCost,      \* maxCostMicros, what a turn reserves
    MaxAttempts,  \* max_attempts
    StaffLimit,   \* unfinished staff jobs per franchise
    LostAcks,     \* may the acknowledgement of reserve's commit get lost?
    MaxDepth,     \* bound on chains of delegation
    MaxFaults     \* bound on crashes, stalls, aborts and lost answers

VARIABLES
    job,       \* id -> row
    resv,      \* turn -> reservation
    spent, reserved, enabled,   \* per franchise
    incurred,  \* turn -> what the provider charged for it (not known to the store)
    pc, turn, \* per worker: where it is, and its claim <<job, fence>>
    holds,     \* per worker: does it know a reservation id?
    error,     \* per worker: class of the error being handled
    lost,      \* per worker: has a heartbeat failed?
    aborted,   \* per worker: has the caller cancelled the turn?
    faults

wallet == <<spent, reserved, enabled>>
store == <<job, resv, wallet>>
worker == <<pc, turn, holds, error, lost, aborted>>
vars == <<job, resv, wallet, incurred, worker, faults>>

-----------------------------------------------------------------------------
Terminal == {"completed", "dead", "cancelled"}
Kinds == {"event", "appointment", "staff"}
Answers == {"completed", "failed"}   \* tags of staff-result and staff-failed events
Paths == Seq(Causes \cup StaffTags \cup Answers) \ {<<>>}
Unknown == -1                        \* SQL NULL in a money column
NoTurn == << <<>>, 0>>
Errors == {"none", "knownZero", "retryable", "other"}
InTurn == {"claimed", "reserved", "running", "returned", "overrun", "deciding", "failing"}

JobRows == [kind : Kinds, status : {"pending", "running"} \cup Terminal,
            fence : 0..MaxAttempts, live : BOOLEAN]

Reservations == [status : {"reserved", "settled", "released", "uncertain"},
                 actual : Nat \cup {Unknown}, observed : Nat \cup {Unknown}]

ASSUME OwnersAssumption == OwnerOf \in [Causes -> Agents]
ASSUME NumbersAssumption ==
    /\ Budget \in Nat /\ MaxCost \in Nat /\ MaxAttempts \in Nat \ {0}
    /\ StaffLimit \in Nat /\ MaxDepth \in Nat /\ MaxFaults \in Nat
ASSUME TagsAssumption == StaffTags \cap Answers = {} /\ IsFiniteSet(StaffTags)
ASSUME LostAcksAssumption == LostAcks \in BOOLEAN

AgentOf(j) == OwnerOf[j[1]]
JobsOf(a) == {j \in DOMAIN job : AgentOf(j) = a}
StaffOf(a) == {j \in JobsOf(a) : job[j].kind = "staff" /\ job[j].status \in {"pending", "running"}}
LiveTurns(a) == {j \in JobsOf(a) : job[j].status = "running" /\ job[j].live}

Fault == faults < MaxFaults /\ faults' = faults + 1

-----------------------------------------------------------------------------
(* Rows.                                                                   *)

NewJob(kind) == [kind |-> kind, status |-> "pending", fence |-> 0, live |-> FALSE]

\* enqueue: a causal id that is known already keeps its row.
Enqueued(table, new, kind) ==
    [j \in DOMAIN table \cup new |-> IF j \in DOMAIN table THEN table[j] ELSE NewJob(kind)]

\* Mutant: only a staff report wakes the owner.
AnswerReportsOnly(table, j, how) ==
    IF table[j].kind = "staff" /\ how = "completed"
    THEN Enqueued(table, {Append(j, how)}, "event") ELSE table

\* The job ends; a staff job leaves an event for its owner.
Answer(table, j, how) ==
    IF table[j].kind = "staff" THEN Enqueued(table, {Append(j, how)}, "event") ELSE table

Ended(j, status) == [job EXCEPT ![j].status = status, ![j].live = FALSE]

\* Mutant: a lease that ran out leaves its money reserved.
StillReserved(t) == resv

\* Money whose fate is unknown stays held, in doubt.
InDoubt(t) ==
    [r \in DOMAIN resv |->
        IF r = t /\ resv[r].status = "reserved"
        THEN [resv[r] EXCEPT !.status = "uncertain"] ELSE resv[r]]

Settled(t, cost) == [resv EXCEPT ![t].status = "settled", ![t].actual = cost]

\* spent and reserved after a reservation of this franchise is settled.
Charge(a, cost) ==
    /\ spent' = [spent EXCEPT ![a] = @ + cost]
    /\ reserved' = [reserved EXCEPT ![a] = @ - MaxCost]

\* Mutant: the fence is not compared.
ValidClaimAnyFence(w) ==
    LET j == turn[w][1] IN job[j].status = "running" /\ job[j].live

\* The caller still holds the lease, and it has not run out. (worker_id is
\* compared too; it adds nothing to the fence. A frozen franchise is refused
\* as well, and never has a live turn: FrozenIsIdle.)
ValidClaim(w) ==
    LET j == turn[w][1]
    IN  job[j].status = "running" /\ job[j].live /\ job[j].fence = turn[w][2]

\* The reservation a settlement names must still be reserved.
Unsettled(w) == resv[turn[w]].status = "reserved"

-----------------------------------------------------------------------------
(* From outside: adapters, owners, the operator.                           *)

IngestEvent(c) ==
    /\ <<c>> \notin DOMAIN job
    /\ job' = Enqueued(job, {<<c>>}, "event")
    /\ UNCHANGED <<resv, wallet, incurred, worker, faults>>

ScheduleSelf(c) ==
    /\ enabled[OwnerOf[c]]
    /\ <<c>> \notin DOMAIN job
    /\ job' = Enqueued(job, {<<c>>}, "appointment")
    /\ UNCHANGED <<resv, wallet, incurred, worker, faults>>

\* Mutant: an appointment is cancelled whatever has become of it.
CancellableAnyway(c) == <<c>> \in DOMAIN job /\ job[<<c>>].kind = "appointment"

Cancellable(c) ==
    /\ <<c>> \in DOMAIN job
    /\ job[<<c>>].kind = "appointment"
    /\ job[<<c>>].status = "pending"

CancelSelf(c) ==
    /\ enabled[OwnerOf[c]]
    /\ Cancellable(c)
    /\ job' = Ended(<<c>>, "cancelled")
    /\ UNCHANGED <<resv, wallet, incurred, worker, faults>>

\* Mutant: an uncertain charge is settled while a turn is under way.
ReconcilableAnytime(t) == resv[t].status = "uncertain" /\ t \in DOMAIN incurred

\* The provider's own records prove the charge, and no turn is under way.
Reconcilable(t) ==
    /\ resv[t].status = "uncertain"
    /\ t \in DOMAIN incurred
    /\ \A j \in JobsOf(AgentOf(t[1])) : job[j].status # "running"

\* More than was reserved freezes the franchise.
ReconcileReservation(t) ==
    LET a == AgentOf(t[1])
    IN  /\ Reconcilable(t)
        /\ resv' = Settled(t, incurred[t])
        /\ Charge(a, incurred[t])
        /\ enabled' = [enabled EXCEPT ![a] = @ /\ incurred[t] <= MaxCost]
        /\ UNCHANGED <<job, incurred, worker, faults>>

-----------------------------------------------------------------------------
(* runOne.                                                                 *)

Goto(w, where) == pc' = [pc EXCEPT ![w] = where]

\* runOne returns: completed, failed, or stale.
Done(w) ==
    /\ Goto(w, "idle")
    /\ turn' = [turn EXCEPT ![w] = NoTurn]
    /\ holds' = [holds EXCEPT ![w] = FALSE]
    /\ error' = [error EXCEPT ![w] = "none"]
    /\ lost' = [lost EXCEPT ![w] = FALSE]
    /\ aborted' = [aborted EXCEPT ![w] = FALSE]

Throw(w, err) == Goto(w, "failing") /\ error' = [error EXCEPT ![w] = err]

\* Mutant: a second turn of the franchise may start while one is live.
ClaimableBesideAnother(j) ==
    /\ enabled[AgentOf(j)]
    /\ job[j].status = "pending" \/ (job[j].status = "running" /\ ~job[j].live)

\* Mutant: an expired turn is never taken up again.
ClaimablePending(j) ==
    /\ enabled[AgentOf(j)]
    /\ LiveTurns(AgentOf(j)) = {}
    /\ job[j].status = "pending"

\* Due work of an enabled franchise without a live turn; priority and due time
\* only order the choice.
ClaimableJob(j) ==
    /\ enabled[AgentOf(j)]
    /\ LiveTurns(AgentOf(j)) = {}
    /\ job[j].status = "pending" \/ (job[j].status = "running" /\ ~job[j].live)

\* Mutant: nobody counts the attempts.
TriesNotCounted(j) == TRUE

TriesLeft(j) == job[j].fence < MaxAttempts

Expired(j) ==
    IF job[j].status = "running" THEN resv' = InDoubt(<<j, job[j].fence>>) ELSE UNCHANGED resv

Claim(w, j) ==
    /\ pc[w] = "idle"
    /\ ClaimableJob(j) /\ TriesLeft(j)
    /\ Expired(j)
    /\ job' = [job EXCEPT ![j].status = "running", ![j].fence = @ + 1, ![j].live = TRUE]
    /\ Goto(w, "claimed")
    /\ turn' = [turn EXCEPT ![w] = <<j, job[j].fence + 1>>]
    /\ UNCHANGED <<wallet, incurred, holds, error, lost, aborted, faults>>

\* A claim that finds the attempts used up buries the job instead.
Bury(j) ==
    /\ \E w \in Workers : pc[w] = "idle"
    /\ ClaimableJob(j) /\ ~TriesLeft(j)
    /\ Expired(j)
    /\ job' = Answer(Ended(j, "dead"), j, "failed")
    /\ UNCHANGED <<wallet, incurred, worker, faults>>

\* Mutant: money in doubt is spent again.
AffordableForgettingDoubt(a) == Budget - spent[a] >= MaxCost

Affordable(a) == Budget - spent[a] - reserved[a] >= MaxCost

Reserved(w) ==
    LET t == turn[w]
        a == AgentOf(t[1])
    IN  /\ pc[w] = "claimed" /\ ~aborted[w]
        /\ ValidClaim(w) /\ Affordable(a)
        /\ resv' = [r \in DOMAIN resv \cup {t} |-> IF r \in DOMAIN resv THEN resv[r]
                      ELSE [status |-> "reserved", actual |-> Unknown, observed |-> Unknown]]
        /\ reserved' = [reserved EXCEPT ![a] = @ + MaxCost]
        /\ UNCHANGED <<job, spent, enabled, incurred>>

Reserve(w) ==
    /\ Reserved(w)
    /\ Goto(w, "reserved")
    /\ holds' = [holds EXCEPT ![w] = TRUE]
    /\ UNCHANGED <<turn, error, lost, aborted, faults>>

\* The reservation is made, and the worker never learns its id.
ReserveUnacknowledged(w) ==
    /\ LostAcks /\ Fault
    /\ Reserved(w)
    /\ Throw(w, "other")
    /\ UNCHANGED <<turn, holds, lost, aborted>>

\* BUDGET_EXHAUSTED, or the caller's signal before the reservation.
ReserveRefused(w) ==
    /\ pc[w] = "claimed"
    /\ aborted[w] \/ (ValidClaim(w) /\ ~Affordable(AgentOf(turn[w][1])))
    /\ Throw(w, "other")
    /\ UNCHANGED <<store, incurred, turn, holds, lost, aborted, faults>>

\* STALE_CLAIM from any call made under the claim ends the run.
Stale(w) ==
    /\ \/ pc[w] \in {"overrun", "failing"}
       \/ pc[w] \in {"claimed", "deciding"} /\ ~aborted[w]
    /\ ~ValidClaim(w)
    /\ Done(w)
    /\ UNCHANGED <<store, incurred, faults>>

\* The model call begins; what it will cost is decided by the provider.
Invoke(w, cost) ==
    /\ pc[w] = "reserved" /\ ~aborted[w]
    /\ incurred' = [t \in DOMAIN incurred \cup {turn[w]} |->
                      IF t = turn[w] THEN cost ELSE incurred[t]]
    /\ Goto(w, "running")
    /\ UNCHANGED <<store, turn, holds, error, lost, aborted, faults>>

NotInvoked(w) ==
    /\ pc[w] = "reserved" /\ aborted[w]
    /\ Throw(w, "other")
    /\ UNCHANGED <<store, incurred, turn, holds, lost, aborted, faults>>

\* driver.run returns a decision, valid or not, or throws ObservedCostError:
\* the charge is known either way.
Return(w) ==
    /\ pc[w] = "running"
    /\ Goto(w, "returned")
    /\ \E err \in {"none", "other"} : error' = [error EXCEPT ![w] = err]
    /\ UNCHANGED <<store, incurred, turn, holds, lost, aborted, faults>>

\* driver.run throws without a verified charge. KnownZeroCostError is thrown
\* only for requests that cannot have been charged.
DriverThrows(w, err) ==
    /\ pc[w] = "running"
    /\ err = "knownZero" => incurred[turn[w]] = 0
    /\ Throw(w, err)
    /\ UNCHANGED <<store, incurred, turn, holds, lost, aborted, faults>>

\* observeCost needs no lease: late charges are recorded too.
ObserveCost(w) ==
    LET cost == incurred[turn[w]]
    IN  /\ pc[w] = "returned"
        /\ resv' = [resv EXCEPT ![turn[w]].observed = cost]
        /\ IF cost > MaxCost THEN Goto(w, "overrun")
           ELSE Goto(w, IF error[w] = "none" THEN "deciding" ELSE "failing")
        /\ UNCHANGED <<job, wallet, incurred, turn, holds, error, lost, aborted, faults>>

\* The charge is booked, the franchise frozen and the job buried: no output of
\* this turn takes effect.
SettleOverrun(w) ==
    LET t == turn[w]
        a == AgentOf(t[1])
    IN  /\ pc[w] = "overrun" /\ ValidClaim(w) /\ Unsettled(w)
        /\ resv' = Settled(t, incurred[t])
        /\ Charge(a, incurred[t])
        /\ enabled' = [enabled EXCEPT ![a] = FALSE]
        /\ job' = Ended(t[1], "dead")
        /\ Done(w)
        /\ UNCHANGED <<incurred, faults>>

StaffFits(a, tags) == Cardinality(StaffOf(a)) + Cardinality(tags) <= StaffLimit

\* The actions of one decision that create or cancel jobs of its franchise.
\* Staff may not delegate, schedule or cancel.
Permitted(j, delegate, schedule, cancel) ==
    /\ job[j].kind = "staff" => delegate \cup schedule \cup cancel = {}
    /\ StaffFits(AgentOf(j), delegate)
    /\ delegate # {} => Len(j) < MaxDepth
    /\ \A c \in schedule \cup cancel : OwnerOf[c] = AgentOf(j)
    /\ \A c \in schedule : <<c>> \notin DOMAIN job
    /\ \A c \in cancel : Cancellable(c)

\* complete: every action, the settlement and the end of the job in one
\* transaction.
Complete(w, delegate, schedule, cancel) ==
    LET t == turn[w]
        j == t[1]
        staffed == Enqueued(Ended(j, "completed"), {Append(j, g) : g \in delegate}, "staff")
        planned == Enqueued(staffed, {<<c>> : c \in schedule}, "appointment")
    IN  /\ pc[w] = "deciding" /\ ~lost[w] /\ ~aborted[w]
        /\ ValidClaim(w) /\ Unsettled(w)
        /\ Permitted(j, delegate, schedule, cancel)
        /\ job' = Answer([i \in DOMAIN planned |->
                            IF i \in {<<c>> : c \in cancel}
                            THEN [planned[i] EXCEPT !.status = "cancelled"]
                            ELSE planned[i]], j, "completed")
        /\ resv' = Settled(t, incurred[t])
        /\ Charge(AgentOf(j), incurred[t])
        /\ Done(w)
        /\ UNCHANGED <<enabled, incurred, faults>>

\* An action of the batch is refused and everything is rolled back, or the turn
\* was cancelled before complete.
DecisionRefused(w) ==
    /\ pc[w] = "deciding"
    /\ lost[w] \/ aborted[w] \/ ValidClaim(w)
    /\ Throw(w, "other")
    /\ UNCHANGED <<store, incurred, turn, holds, lost, aborted, faults>>

\* Mutant: every failed call is taken for free.
FreeWheneverUnobserved(w) == TRUE

\* chargeKnownZero: the driver never ran, or says so itself.
KnownFree(w) ==
    \/ turn[w] \notin DOMAIN incurred
    \/ error[w] = "knownZero" /\ ~aborted[w]

CostObserved(w) == resv[turn[w]].observed # Unknown

\* What fail does to the reservation the worker knows of.
Release(w) ==
    LET t == turn[w]
        a == AgentOf(t[1])
    IN  IF ~holds[w] THEN UNCHANGED <<resv, spent, reserved>>
        ELSE IF CostObserved(w)
        THEN resv' = Settled(t, resv[t].observed) /\ Charge(a, resv[t].observed)
        ELSE IF KnownFree(w)
        THEN /\ resv' = [resv EXCEPT ![t].status = "released"]
             /\ reserved' = [reserved EXCEPT ![a] = @ - MaxCost]
             /\ UNCHANGED spent
        ELSE resv' = InDoubt(t) /\ UNCHANGED <<spent, reserved>>

Retryable(w) ==
    /\ error[w] \in {"knownZero", "retryable"}
    /\ ~aborted[w]
    /\ turn[w][2] < MaxAttempts

FinalFailure(w) == Answer(Ended(turn[w][1], "dead"), turn[w][1], "failed")

Fail(w) ==
    /\ pc[w] = "failing" /\ ~lost[w]
    /\ ValidClaim(w)
    /\ holds[w] => Unsettled(w)
    /\ Release(w)
    /\ job' = IF Retryable(w) THEN Ended(turn[w][1], "pending") ELSE FinalFailure(w)
    /\ Done(w)
    /\ UNCHANGED <<enabled, incurred, faults>>

\* A worker that believes its lease lost writes nothing more.
GiveUp(w) ==
    /\ pc[w] = "failing" /\ lost[w]
    /\ Done(w)
    /\ UNCHANGED <<store, incurred, faults>>

-----------------------------------------------------------------------------
(* Time, cancellation and death.                                           *)

Abandoned(j) == \A w \in Workers : turn[w] # <<j, job[j].fence>>

LeaseExpires(j) ==
    /\ job[j].status = "running" /\ job[j].live
    /\ job' = [job EXCEPT ![j].live = FALSE]
    /\ UNCHANGED <<resv, wallet, incurred, worker>>

\* Nobody renews the lease.
AbandonedLeaseExpires(j) == Abandoned(j) /\ LeaseExpires(j) /\ UNCHANGED faults

\* Its worker is alive, and late.
StalledLeaseExpires(j) == ~Abandoned(j) /\ Fault /\ LeaseExpires(j)

\* The heartbeat of a running turn fails, because the claim is stale or the
\* database could not be reached: both cancel the turn.
HeartbeatFails(w) ==
    /\ pc[w] \in {"running", "returned", "overrun", "deciding", "failing"}
    /\ turn[w] \in DOMAIN incurred /\ ~lost[w]
    /\ IF ValidClaim(w) THEN Fault ELSE UNCHANGED faults
    /\ lost' = [lost EXCEPT ![w] = TRUE]
    /\ aborted' = [aborted EXCEPT ![w] = TRUE]
    /\ UNCHANGED <<store, incurred, pc, turn, holds, error>>

\* The caller's signal.
Abort(w) ==
    /\ pc[w] # "idle" /\ ~aborted[w]
    /\ Fault
    /\ aborted' = [aborted EXCEPT ![w] = TRUE]
    /\ UNCHANGED <<store, incurred, pc, turn, holds, error, lost>>

Crash(w) ==
    /\ pc[w] # "idle"
    /\ Fault
    /\ Done(w)
    /\ UNCHANGED <<store, incurred>>

-----------------------------------------------------------------------------
Init ==
    /\ job = [j \in {} |-> {}]
    /\ resv = [t \in {} |-> {}]
    /\ spent = [a \in Agents |-> 0]
    /\ reserved = [a \in Agents |-> 0]
    /\ enabled = [a \in Agents |-> TRUE]
    /\ incurred = [t \in {} |-> 0]
    /\ pc = [w \in Workers |-> "idle"]
    /\ turn = [w \in Workers |-> NoTurn]
    /\ holds = [w \in Workers |-> FALSE]
    /\ error = [w \in Workers |-> "none"]
    /\ lost = [w \in Workers |-> FALSE]
    /\ aborted = [w \in Workers |-> FALSE]
    /\ faults = 0

\* The steps a worker that is not interfered with takes on its own.
Progress(w) ==
    \/ \E j \in DOMAIN job : Claim(w, j)
    \/ Reserve(w) \/ ReserveRefused(w) \/ Stale(w) \/ NotInvoked(w)
    \/ \E cost \in 0..(MaxCost + 1) : Invoke(w, cost)
    \/ Return(w)
    \/ \E err \in {"knownZero", "retryable", "other"} : DriverThrows(w, err)
    \/ ObserveCost(w) \/ SettleOverrun(w)
    \/ \E D \in SUBSET StaffTags, S, C \in SUBSET Causes : Complete(w, D, S, C)
    \/ DecisionRefused(w) \/ Fail(w) \/ GiveUp(w)

Disturb(w) ==
    ReserveUnacknowledged(w) \/ HeartbeatFails(w) \/ Abort(w) \/ Crash(w)

Next ==
    \/ \E c \in Causes : IngestEvent(c) \/ ScheduleSelf(c) \/ CancelSelf(c)
    \/ \E t \in DOMAIN resv : ReconcileReservation(t)
    \/ \E j \in DOMAIN job : Bury(j) \/ AbandonedLeaseExpires(j) \/ StalledLeaseExpires(j)
    \/ \E w \in Workers : Progress(w) \/ Disturb(w)

Spec == Init /\ [][Next]_vars
=============================================================================
