--------------------------- MODULE RuntimeTurnProofs ---------------------------
(***************************************************************************)
(* Proofs about the turn store and its workers, for any franchises,        *)
(* workers, budgets, limits and number of faults: first that claims are    *)
(* fenced, leases apart and ended jobs final, then that the wallet of a    *)
(* franchise is true, its budget holds and a staff job is answered once.   *)
(***************************************************************************)
EXTENDS RuntimeTurnProperties, FiniteSetTheorems, SequenceTheorems, TLAPS

-----------------------------------------------------------------------------
(* The inductive invariant.                                                *)

IsLive(row) == row.status = "running" /\ row.live

LiveExclusive ==
    \A j, k \in DOMAIN job :
        AgentOf(j) = AgentOf(k) /\ IsLive(job[j]) /\ IsLive(job[k]) => j = k

\* Every claim has a fence of its own, so two workers never share a turn.
UniqueTurns ==
    \A v, w \in Workers : pc[v] # "idle" /\ pc[w] # "idle" /\ turn[v] = turn[w] => v = w

\* What a worker at each point of runOne may rely on, whatever has become of
\* its lease.
PointsOf(w) ==
    /\ pc[w] \in {"reserved", "running", "returned", "overrun", "deciding"} \/ holds[w]
          => turn[w] \in DOMAIN resv
    /\ pc[w] \in {"running", "returned", "overrun", "deciding"} => turn[w] \in DOMAIN incurred
    /\ pc[w] = "idle" => ~holds[w]

\* A worker that does not know of its own reservation is on its way to bury
\* the job: it will not retry.
UnacknowledgedOf(w) ==
    pc[w] # "idle" /\ turn[w] \in DOMAIN resv /\ ~holds[w] /\ resv[turn[w]].status = "reserved"
        => pc[w] = "failing" /\ error[w] = "other" /\ LostAcks

Points == \A w \in Workers : PointsOf(w)
Unacknowledged == \A w \in Workers : UnacknowledgedOf(w)

\* A reservation is held by the last turn of its job, which is under way unless
\* the worker buried it without knowing of the reservation.
HeldByLastTurn ==
    \A t \in DOMAIN resv : resv[t].status = "reserved" =>
        /\ job[t[1]].fence = t[2]
        /\ job[t[1]].status = "running" \/ (LostAcks /\ job[t[1]].status = "dead")

CompletedIsSettled ==
    \A j \in DOMAIN job : job[j].status = "completed" =>
        <<j, job[j].fence>> \in DOMAIN resv /\ resv[<<j, job[j].fence>>].status = "settled"

IInv ==
    /\ TypeOK
    /\ LiveExclusive /\ UniqueTurns /\ FrozenIsIdle
    /\ Points /\ Unacknowledged
    /\ HeldByLastTurn /\ CompletedIsSettled

-----------------------------------------------------------------------------
(* What a step other than a claim may do to each table.                    *)

\* From job to this table: jobs in E may end; no other running job stops
\* running, no job comes alive, and new ones are pending.
JobsTo(E, table) ==
    /\ DOMAIN job \subseteq DOMAIN table
    /\ \A j \in DOMAIN table : table[j] \in JobRows /\ j \in Paths /\ j[1] \in Causes
    /\ \A j \in DOMAIN job :
          /\ table[j].fence = job[j].fence
          /\ IsLive(table[j]) => IsLive(job[j])
          /\ job[j].status \in Terminal => table[j] = job[j]
          /\ table[j].status = "completed" => job[j].status = "completed" \/ j \in E
          /\ job[j].status = "running" => table[j].status = "running" \/ j \in E
    /\ \A j \in DOMAIN table \ DOMAIN job : table[j].status = "pending"

JobsStep(E) == JobsTo(E, job')

\* Ids a job may have.
Rooted(ids) == \A j \in ids : j \in Paths /\ j[1] \in Causes

\* Reservations of the turns in N may be new; settled ones stay so, and none
\* becomes reserved again.
ResvStep(N) ==
    /\ DOMAIN resv' = DOMAIN resv \cup N
    /\ \A t \in DOMAIN resv' : resv'[t] \in Reservations
    /\ \A t \in DOMAIN resv :
          /\ resv[t].status = "settled" => resv'[t].status = "settled"
          /\ resv'[t].status = "reserved" => resv[t].status = "reserved"

\* The charges, and the totals.
MoneyStep ==
    /\ DOMAIN incurred \subseteq DOMAIN incurred' /\ DOMAIN incurred' \subseteq DOMAIN resv'
    /\ \A t \in DOMAIN incurred' : incurred'[t] \in 0..(MaxCost + 1)
    /\ spent' \in [Agents -> Int] /\ reserved' \in [Agents -> Int]
    /\ enabled' \in [Agents -> BOOLEAN]

\* Only the workers in M move, and they keep their turn or end it.
WorkersStep(M) ==
    /\ pc' \in [Workers -> InTurn \cup {"idle"}]
    /\ turn' \in [Workers -> (Paths \cup {<<>>}) \X Nat]
    /\ holds' \in [Workers -> BOOLEAN] /\ error' \in [Workers -> Errors]
    /\ lost' \in [Workers -> BOOLEAN] /\ aborted' \in [Workers -> BOOLEAN]
    /\ \A v \in Workers \ M :
          pc'[v] = pc[v] /\ turn'[v] = turn[v] /\ holds'[v] = holds[v] /\ error'[v] = error[v]
    /\ \A w \in M : pc[w] # "idle" /\ (pc'[w] # "idle" => turn'[w] = turn[w])

-----------------------------------------------------------------------------
(* Each part of the invariant is kept by such steps.                       *)

LEMMA JobsKept ==
    ASSUME JobsTyped, LiveExclusive, NEW E, JobsStep(E)
    PROVE  JobsTyped' /\ LiveExclusive'
<1>1. JobsTyped'
  BY DEF JobsTyped, JobsStep, JobsTo
<1>2. \A j \in DOMAIN job' : IsLive(job'[j]) => j \in DOMAIN job /\ IsLive(job[j])
  BY DEF JobsStep, JobsTo, IsLive
<1>3. LiveExclusive'
  BY <1>2 DEF LiveExclusive, IsLive, AgentOf
<1>. QED  BY <1>1, <1>3

\* A franchise that freezes has no live turn left.
LEMMA FrozenKept ==
    ASSUME FrozenIsIdle, NEW E, JobsStep(E),
           \A a \in Agents : ~enabled'[a] =>
               ~enabled[a] \/ \A j \in DOMAIN job : AgentOf(j) = a => ~IsLive(job'[j])
    PROVE  FrozenIsIdle'
<1>1. \A j \in DOMAIN job' : IsLive(job'[j]) => j \in DOMAIN job /\ IsLive(job[j])
  BY DEF JobsStep, JobsTo, IsLive
<1>. SUFFICES ASSUME NEW a \in Agents, ~enabled'[a],
                     NEW j \in DOMAIN job', AgentOf(j) = a, IsLive(job'[j])
              PROVE  FALSE
  BY DEF FrozenIsIdle, LiveTurns, JobsOf, AgentOf, IsLive
<1>. QED  BY <1>1 DEF FrozenIsIdle, LiveTurns, JobsOf, AgentOf, IsLive

LEMMA WorkersKept ==
    ASSUME WorkersTyped, UniqueTurns, NEW E, JobsStep(E), NEW M \in SUBSET Workers, WorkersStep(M)
    PROVE  WorkersTyped' /\ UniqueTurns'
<1>1. \A v \in Workers : pc'[v] # "idle" => pc[v] # "idle" /\ turn'[v] = turn[v]
  BY DEF WorkersStep
<1>2. \A v \in Workers : pc'[v] # "idle" =>
         turn'[v][1] \in DOMAIN job' /\ turn'[v][2] \in 1..job'[turn'[v][1]].fence
  BY <1>1 DEF WorkersTyped, JobsStep, JobsTo
<1>3. WorkersTyped'
  BY <1>2 DEF WorkersTyped, WorkersStep
<1>4. UniqueTurns'
  BY <1>1 DEF UniqueTurns
<1>. QED  BY <1>3, <1>4

LEMMA MoneyKept ==
    ASSUME MoneyTyped, NEW E, JobsStep(E), NEW N, ResvStep(N), MoneyStep,
           N \subseteq Paths \X Nat,
           \A t \in N : t[1] \in DOMAIN job /\ t[2] \in 1..job[t[1]].fence
    PROVE  MoneyTyped'
<1>1. DOMAIN resv' \subseteq Paths \X Nat
  BY DEF MoneyTyped, ResvStep
<1>2. \A t \in DOMAIN resv' : t[1] \in DOMAIN job' /\ t[2] \in 1..job'[t[1]].fence
  BY DEF MoneyTyped, ResvStep, JobsStep, JobsTo
<1>3. \A t \in DOMAIN resv' : resv'[t] \in Reservations
  BY DEF ResvStep
<1>. QED  BY <1>1, <1>2, <1>3 DEF MoneyTyped, MoneyStep

\* A turn that is newly reserved is under way; one that ends keeps no hold.
LEMMA HeldKept ==
    ASSUME MoneyTyped, HeldByLastTurn, NEW E, JobsStep(E), NEW N, ResvStep(N),
           \A t \in N : t[1] \in DOMAIN job /\ job'[t[1]].fence = t[2] /\ job'[t[1]].status = "running",
           \A t \in DOMAIN resv : t[1] \in E /\ resv'[t].status = "reserved" =>
               LostAcks /\ job'[t[1]].status = "dead"
    PROVE  HeldByLastTurn'
<1>. SUFFICES ASSUME NEW t \in DOMAIN resv', resv'[t].status = "reserved", t \notin N
              PROVE  /\ job'[t[1]].fence = t[2]
                     /\ job'[t[1]].status = "running" \/ (LostAcks /\ job'[t[1]].status = "dead")
  BY DEF HeldByLastTurn
<1>1. t \in DOMAIN resv /\ resv[t].status = "reserved" /\ t[1] \in DOMAIN job
  BY DEF ResvStep, MoneyTyped
<1>2. /\ job[t[1]].fence = t[2]
      /\ job[t[1]].status = "running" \/ (LostAcks /\ job[t[1]].status = "dead")
  BY <1>1 DEF HeldByLastTurn
<1>3. job'[t[1]].fence = t[2]
  BY <1>1, <1>2 DEF JobsStep, JobsTo
<1>4. CASE t[1] \in E
  BY <1>1, <1>3, <1>4
<1>5. CASE t[1] \notin E
  BY <1>1, <1>2, <1>3, <1>5 DEF JobsStep, JobsTo, Terminal
<1>. QED  BY <1>4, <1>5

LEMMA CompletedKept ==
    ASSUME CompletedIsSettled, NEW E, JobsStep(E), NEW N, ResvStep(N),
           \A j \in E \cap DOMAIN job : job'[j].status = "completed" =>
               \/ job[j].status = "completed"
               \/ <<j, job[j].fence>> \in DOMAIN resv /\ resv'[<<j, job[j].fence>>].status = "settled"
    PROVE  CompletedIsSettled'
<1>. SUFFICES ASSUME NEW j \in DOMAIN job', job'[j].status = "completed"
              PROVE  /\ <<j, job'[j].fence>> \in DOMAIN resv'
                     /\ resv'[<<j, job'[j].fence>>].status = "settled"
  BY DEF CompletedIsSettled
<1>1. j \in DOMAIN job /\ job'[j].fence = job[j].fence
  BY DEF JobsStep, JobsTo
<1>2. CASE job[j].status = "completed"
  BY <1>1, <1>2 DEF CompletedIsSettled, ResvStep
<1>3. CASE job[j].status # "completed"
  BY <1>1, <1>3 DEF JobsStep, JobsTo, ResvStep
<1>. QED  BY <1>2, <1>3

\* The workers that do not move keep what they rely on, unless it is their own
\* turn that is newly reserved.
LEMMA PointsKept ==
    ASSUME Points, Unacknowledged, NEW N, ResvStep(N), MoneyStep,
           NEW M \in SUBSET Workers, WorkersStep(M),
           \A v \in Workers \ M : pc[v] # "idle" => turn[v] \notin N \ DOMAIN resv,
           \A w \in M : PointsOf(w)' /\ UnacknowledgedOf(w)'
    PROVE  Points' /\ Unacknowledged'
<1>. SUFFICES ASSUME NEW v \in Workers \ M
              PROVE  PointsOf(v)' /\ UnacknowledgedOf(v)'
  BY DEF Points, Unacknowledged
<1>1. pc'[v] = pc[v] /\ turn'[v] = turn[v] /\ holds'[v] = holds[v] /\ error'[v] = error[v]
  BY DEF WorkersStep
<1>2. PointsOf(v) /\ UnacknowledgedOf(v)
  BY DEF Points, Unacknowledged
<1>3. PointsOf(v)'
  BY <1>1, <1>2 DEF PointsOf, ResvStep, MoneyStep
<1>4. UnacknowledgedOf(v)'
  BY <1>1, <1>2 DEF UnacknowledgedOf, ResvStep
<1>. QED  BY <1>3, <1>4

LEMMA StepKeeps ==
    ASSUME IInv, faults' \in Nat,
           NEW E, JobsStep(E), NEW N, ResvStep(N), MoneyStep,
           NEW M \in SUBSET Workers, WorkersStep(M),
           N \subseteq {turn[w] : w \in M},
           \A t \in N : job'[t[1]].fence = t[2] /\ job'[t[1]].status = "running",
           \A a \in Agents : ~enabled'[a] =>
               ~enabled[a] \/ \A j \in DOMAIN job : AgentOf(j) = a => ~IsLive(job'[j]),
           \A t \in DOMAIN resv : t[1] \in E /\ resv'[t].status = "reserved" =>
               LostAcks /\ job'[t[1]].status = "dead",
           \A j \in E \cap DOMAIN job : job'[j].status = "completed" =>
               \/ job[j].status = "completed"
               \/ <<j, job[j].fence>> \in DOMAIN resv /\ resv'[<<j, job[j].fence>>].status = "settled",
           \A w \in M : PointsOf(w)' /\ UnacknowledgedOf(w)'
    PROVE  IInv'
<1>1. \A w \in M : pc[w] # "idle"
  BY DEF WorkersStep
<1>2. \A t \in N : t[1] \in DOMAIN job /\ t[2] \in 1..job[t[1]].fence
  BY <1>1 DEF IInv, TypeOK, WorkersTyped
<1>3. N \subseteq Paths \X Nat
  <2>1. \A t \in N : t \in (Paths \cup {<<>>}) \X Nat
    BY DEF IInv, TypeOK, WorkersTyped
  <2>. QED  BY <1>2, <2>1 DEF IInv, TypeOK, JobsTyped
<1>4. \A v \in Workers \ M : pc[v] # "idle" => turn[v] \notin N
  BY <1>1 DEF IInv, UniqueTurns
<1>5. JobsTyped' /\ LiveExclusive'
  BY JobsKept DEF IInv, TypeOK
<1>6. FrozenIsIdle'
  BY FrozenKept DEF IInv
<1>7. WorkersTyped' /\ UniqueTurns'
  BY WorkersKept DEF IInv, TypeOK
<1>8. MoneyTyped'
  BY <1>2, <1>3, MoneyKept DEF IInv, TypeOK
<1>9. HeldByLastTurn'
  BY <1>2, HeldKept DEF IInv, TypeOK
<1>10. CompletedIsSettled'
  BY CompletedKept DEF IInv
<1>11. Points' /\ Unacknowledged'
  BY <1>4, PointsKept DEF IInv
<1>. QED  BY <1>5, <1>6, <1>7, <1>8, <1>9, <1>10, <1>11 DEF IInv, TypeOK

-----------------------------------------------------------------------------
(* Changes of the job table.                                               *)

LEMMA SameTable ==
    ASSUME JobsTyped
    PROVE  JobsTo({}, job)
BY DEF JobsTyped, JobsTo

\* A path grown by a tag belongs to the same franchise.
LEMMA AppendPath ==
    ASSUME NEW j \in Paths, NEW g \in StaffTags \cup Answers
    PROVE  Append(j, g) \in Paths /\ Append(j, g)[1] = j[1]
<1>. DEFINE S == Causes \cup StaffTags \cup Answers
<1>1. j \in Seq(S) /\ Len(j) \in Nat /\ Len(j) >= 1
  BY DEF Paths
<1>2. g \in S
  OBVIOUS
<1>. HIDE DEF S
<1>3. Append(j, g) \in Seq(S) /\ Append(j, g) # <<>>
  BY <1>1, <1>2, AppendProperties
<1>4. \A i \in 1..Len(j) : Append(j, g)[i] = j[i]
  BY <1>1, <1>2, AppendProperties
<1>5. Append(j, g)[1] = j[1]
  BY <1>1, <1>4
<1>6. Append(j, g) \in Seq(Causes \cup StaffTags \cup Answers) \ {<<>>}
  BY <1>3 DEF S
<1>. QED  BY <1>5, <1>6 DEF Paths

LEMMA CausePath ==
    ASSUME NEW c \in Causes
    PROVE  <<c>> \in Paths /\ <<c>>[1] \in Causes
<1>. DEFINE S == Causes \cup StaffTags \cup Answers
<1>1. c \in S
  OBVIOUS
<1>. HIDE DEF S
<1>2. <<c>> \in Seq(S) /\ <<c>> # <<>> /\ <<c>>[1] = c
  BY <1>1
<1>. QED  BY <1>2 DEF Paths, S

LEMMA NewJobTyped ==
    ASSUME NEW kind \in Kinds
    PROVE  NewJob(kind) \in JobRows
BY NumbersAssumption DEF NewJob, JobRows

LEMMA EnqueuedTable ==
    ASSUME NEW E, NEW table, JobsTo(E, table), NEW kind \in Kinds,
           NEW new, Rooted(new)
    PROVE  /\ JobsTo(E, Enqueued(table, new, kind))
           /\ DOMAIN Enqueued(table, new, kind) = DOMAIN table \cup new
           /\ \A j \in DOMAIN table : Enqueued(table, new, kind)[j] = table[j]
<1>. DEFINE next == Enqueued(table, new, kind)
<1>1. DOMAIN next = DOMAIN table \cup new
  BY DEF Enqueued
<1>2. \A j \in DOMAIN table : next[j] = table[j]
  BY DEF Enqueued
<1>3. \A j \in new \ DOMAIN table : next[j] = NewJob(kind)
  BY DEF Enqueued
<1>4. NewJob(kind) \in JobRows /\ NewJob(kind).status = "pending"
  BY NewJobTyped DEF NewJob
<1>. HIDE DEF next
<1>5. JobsTo(E, next)
  BY <1>1, <1>2, <1>3, <1>4 DEF JobsTo, Rooted
<1>. QED  BY <1>1, <1>2, <1>5 DEF next

LEMMA AnsweredTable ==
    ASSUME NEW E, NEW table, JobsTo(E, table), NEW j \in DOMAIN table, NEW how \in Answers
    PROVE  /\ JobsTo(E, Answer(table, j, how))
           /\ DOMAIN table \subseteq DOMAIN Answer(table, j, how)
           /\ \A i \in DOMAIN table : Answer(table, j, how)[i] = table[i]
<1>1. j \in Paths /\ j[1] \in Causes
  BY DEF JobsTo
<1>2. "event" \in Kinds
  BY DEF Kinds
<1>. DEFINE new == {Append(j, how)}
<1>3. Append(j, how) \in Paths /\ Append(j, how)[1] = j[1]
  BY <1>1, AppendPath
<1>4. Rooted(new)
  BY <1>1, <1>3, Zenon DEF Rooted
<1>5. Answer(table, j, how) = IF table[j].kind = "staff" THEN Enqueued(table, new, "event") ELSE table
  BY DEF Answer
<1>. HIDE DEF new
<1>6. /\ JobsTo(E, Enqueued(table, new, "event"))
      /\ DOMAIN Enqueued(table, new, "event") = DOMAIN table \cup new
      /\ \A i \in DOMAIN table : Enqueued(table, new, "event")[i] = table[i]
  BY <1>2, <1>4, EnqueuedTable
<1>7. CASE table[j].kind = "staff"
  BY <1>5, <1>6, <1>7
<1>8. CASE table[j].kind # "staff"
  BY <1>5, <1>8
<1>. QED  BY <1>7, <1>8

\* A row that changes from pending or running, never into a live one.
LEMMA OneRowTable ==
    ASSUME JobsTyped, NEW j \in DOMAIN job, job[j].status \notin Terminal, NEW row \in JobRows,
           row.fence = job[j].fence, IsLive(row) => IsLive(job[j])
    PROVE  /\ JobsTo({j}, [job EXCEPT ![j] = row])
           /\ [job EXCEPT ![j] = row][j] = row
           /\ job[j].status # "running" \/ row.status = "running" =>
                 (row.status # "completed" => JobsTo({}, [job EXCEPT ![j] = row]))
<1>. DEFINE table == [job EXCEPT ![j] = row]
<1>1. DOMAIN table = DOMAIN job
  OBVIOUS
<1>2. \A i \in DOMAIN job : table[i] = IF i = j THEN row ELSE job[i]
  OBVIOUS
<1>. HIDE DEF table
<1>3. JobsTo({j}, table)
  BY <1>1, <1>2 DEF JobsTyped, JobsTo
<1>4. job[j].status # "running" \/ row.status = "running" =>
         (row.status # "completed" => JobsTo({}, table))
  BY <1>1, <1>2 DEF JobsTyped, JobsTo
<1>. QED  BY <1>2, <1>3, <1>4 DEF table

LEMMA EndedTable ==
    ASSUME JobsTyped, NEW j \in DOMAIN job, job[j].status \notin Terminal,
           NEW status \in {"pending"} \cup Terminal
    PROVE  /\ JobsTo({j}, Ended(j, status))
           /\ DOMAIN Ended(j, status) = DOMAIN job
           /\ Ended(j, status)[j].status = status /\ ~IsLive(Ended(j, status)[j])
           /\ Ended(j, status)[j].fence = job[j].fence
           /\ \A i \in DOMAIN job \ {j} : Ended(j, status)[i] = job[i]
           /\ job[j].status # "running" /\ status # "completed" => JobsTo({}, Ended(j, status))
<1>. DEFINE row == [job[j] EXCEPT !.status = status, !.live = FALSE]
<1>1. job[j] \in JobRows
  BY DEF JobsTyped
<1>2. Ended(j, status) = [job EXCEPT ![j] = row]
  BY <1>1 DEF Ended, JobRows
<1>3. /\ row \in JobRows /\ row.status = status /\ row.fence = job[j].fence
      /\ row.live = FALSE
  BY <1>1 DEF JobRows, Terminal
<1>4. ~IsLive(row)
  BY <1>3 DEF IsLive
<1>. HIDE DEF row
<1>. QED  BY <1>2, <1>3, <1>4, OneRowTable

-----------------------------------------------------------------------------
(* Changes of the reservations and the totals.                             *)

LEMMA SameResv ==
    ASSUME MoneyTyped, UNCHANGED resv
    PROVE  ResvStep({})
BY DEF MoneyTyped, ResvStep

LEMMA InDoubtResv ==
    ASSUME MoneyTyped, NEW t, resv' = InDoubt(t)
    PROVE  ResvStep({}) /\ (t \in DOMAIN resv => resv'[t].status # "reserved")
<1>1. DOMAIN resv' = DOMAIN resv
  BY DEF InDoubt
<1>2. \A r \in DOMAIN resv : resv[r] \in Reservations
  BY DEF MoneyTyped
<1>3. \A r \in DOMAIN resv :
         /\ resv'[r] \in Reservations
         /\ resv'[r].status = IF r = t /\ resv[r].status = "reserved" THEN "uncertain" ELSE resv[r].status
  BY <1>2 DEF InDoubt, Reservations
<1>. QED  BY <1>1, <1>3 DEF ResvStep

LEMMA SettledResv ==
    ASSUME MoneyTyped, NEW t \in DOMAIN resv, NEW cost \in Nat, resv' = Settled(t, cost)
    PROVE  ResvStep({}) /\ resv'[t].status = "settled"
<1>1. DOMAIN resv' = DOMAIN resv
  BY DEF Settled
<1>2. \A r \in DOMAIN resv : resv[r] \in Reservations
  BY DEF MoneyTyped
<1>3. \A r \in DOMAIN resv :
         /\ resv'[r] \in Reservations
         /\ resv'[r].status = IF r = t THEN "settled" ELSE resv[r].status
  BY <1>2 DEF Settled, Reservations
<1>. QED  BY <1>1, <1>3 DEF ResvStep

LEMMA ObservedResv ==
    ASSUME MoneyTyped, NEW t \in DOMAIN resv, NEW cost \in Nat,
           resv' = [resv EXCEPT ![t].observed = cost]
    PROVE  ResvStep({}) /\ \A r \in DOMAIN resv : resv'[r].status = resv[r].status
<1>1. DOMAIN resv' = DOMAIN resv
  OBVIOUS
<1>2. \A r \in DOMAIN resv : resv[r] \in Reservations
  BY DEF MoneyTyped
<1>3. \A r \in DOMAIN resv : resv'[r] \in Reservations /\ resv'[r].status = resv[r].status
  BY <1>2 DEF Reservations
<1>. QED  BY <1>1, <1>3 DEF ResvStep

LEMMA ReleasedResv ==
    ASSUME MoneyTyped, NEW t \in DOMAIN resv, resv[t].status = "reserved",
           resv' = [resv EXCEPT ![t].status = "released"]
    PROVE  ResvStep({}) /\ resv'[t].status = "released"
<1>1. DOMAIN resv' = DOMAIN resv
  OBVIOUS
<1>2. \A r \in DOMAIN resv : resv[r] \in Reservations
  BY DEF MoneyTyped
<1>3. \A r \in DOMAIN resv :
         /\ resv'[r] \in Reservations
         /\ resv'[r].status = IF r = t THEN "released" ELSE resv[r].status
  BY <1>2 DEF Reservations
<1>. QED  BY <1>1, <1>3 DEF ResvStep

LEMMA SameMoney ==
    ASSUME MoneyTyped, NEW N, ResvStep(N), UNCHANGED <<wallet, incurred>>
    PROVE  MoneyStep
BY DEF MoneyTyped, MoneyStep, ResvStep, wallet

LEMMA ChargedMoney ==
    ASSUME MoneyTyped, NEW N, ResvStep(N), NEW a \in Agents, NEW cost \in Int, Charge(a, cost),
           enabled' \in [Agents -> BOOLEAN], UNCHANGED incurred
    PROVE  MoneyStep
<1>1. spent' \in [Agents -> Int]
  BY DEF Charge, MoneyTyped
<1>2. reserved' \in [Agents -> Int]
  BY NumbersAssumption DEF Charge, MoneyTyped
<1>. QED  BY <1>1, <1>2 DEF MoneyTyped, MoneyStep, ResvStep

\* What a claim's worker has in the tables.
LEMMA TurnFacts ==
    ASSUME IInv, NEW w \in Workers, pc[w] # "idle"
    PROVE  /\ turn[w][1] \in DOMAIN job /\ turn[w][1] \in Paths /\ AgentOf(turn[w][1]) \in Agents
           /\ turn[w] \in Paths \X Nat /\ turn[w] = <<turn[w][1], turn[w][2]>>
           /\ turn[w][2] \in 1..job[turn[w][1]].fence
<1>1. turn[w][1] \in DOMAIN job /\ turn[w][2] \in 1..job[turn[w][1]].fence
  BY DEF IInv, TypeOK, WorkersTyped
<1>2. turn[w][1] \in Paths /\ turn[w][1][1] \in Causes
  BY <1>1 DEF IInv, TypeOK, JobsTyped
<1>3. turn[w] \in (Paths \cup {<<>>}) \X Nat
  BY DEF IInv, TypeOK, WorkersTyped
<1>. QED  BY <1>1, <1>2, <1>3, OwnersAssumption DEF AgentOf

-----------------------------------------------------------------------------
(* Moves of a worker.                                                      *)

LEMMA StillWorkers ==
    ASSUME WorkersTyped, UNCHANGED worker
    PROVE  WorkersStep({})
BY DEF WorkersTyped, WorkersStep, worker

LEMMA DoneWorkers ==
    ASSUME WorkersTyped, NEW w \in Workers, pc[w] # "idle", Done(w)
    PROVE  WorkersStep({w}) /\ PointsOf(w)' /\ UnacknowledgedOf(w)'
<1>1. NoTurn \in (Paths \cup {<<>>}) \X Nat
  BY DEF NoTurn
<1>2. "none" \in Errors
  BY DEF Errors
<1>3. /\ pc'[w] = "idle" /\ holds'[w] = FALSE
  BY DEF WorkersTyped, Done, Goto
<1>4. PointsOf(w)' /\ UnacknowledgedOf(w)'
  BY <1>3 DEF PointsOf, UnacknowledgedOf
<1>. HIDE DEF NoTurn
<1>5. WorkersStep({w})
  BY <1>1, <1>2, <1>3 DEF WorkersTyped, WorkersStep, Done, Goto
<1>. QED  BY <1>4, <1>5

LEMMA MovedWorkers ==
    ASSUME WorkersTyped, NEW w \in Workers, pc[w] # "idle",
           NEW where \in InTurn, Goto(w, where), UNCHANGED <<turn, lost, aborted>>,
           holds' = holds \/ holds' = [holds EXCEPT ![w] = TRUE],
           error' = error \/ \E err \in Errors : error' = [error EXCEPT ![w] = err]
    PROVE  WorkersStep({w}) /\ pc'[w] = where /\ turn'[w] = turn[w]
<1>1. holds' \in [Workers -> BOOLEAN] /\ \A v \in Workers \ {w} : holds'[v] = holds[v]
  BY DEF WorkersTyped
<1>2. error' \in [Workers -> Errors] /\ \A v \in Workers \ {w} : error'[v] = error[v]
  BY DEF WorkersTyped
<1>3. pc' \in [Workers -> InTurn \cup {"idle"}] /\ \A v \in Workers \ {w} : pc'[v] = pc[v]
  BY DEF WorkersTyped, Goto
<1>4. pc'[w] = where
  BY DEF WorkersTyped, Goto
<1>. QED  BY <1>1, <1>2, <1>3, <1>4 DEF WorkersTyped, WorkersStep

-----------------------------------------------------------------------------
(* Steps that leave the tables alone, and steps that leave workers alone.  *)

LEMMA FaultCount ==
    ASSUME faults \in Nat, Fault \/ UNCHANGED faults
    PROVE  faults' \in Nat
BY DEF Fault

LEMMA CalmStep ==
    ASSUME IInv, NEW w \in Workers, UNCHANGED <<store, incurred>>, Fault \/ UNCHANGED faults,
           WorkersStep({w}), PointsOf(w)' /\ UnacknowledgedOf(w)'
    PROVE  IInv' /\ JobsStep({})
<1>1. JobsStep({})
  BY SameTable DEF JobsStep, IInv, TypeOK, store
<1>2. ResvStep({})
  BY SameResv DEF IInv, TypeOK, store
<1>3. MoneyStep
  BY <1>2, SameMoney DEF IInv, TypeOK, store
<1>4. faults' \in Nat
  BY FaultCount DEF IInv, TypeOK
<1>5. \A a \in Agents : ~enabled'[a] => ~enabled[a]
  BY DEF store, wallet
<1>. QED  BY <1>1, <1>2, <1>3, <1>4, <1>5, StepKeeps

\* A worker that moves on without touching a table.
LEMMA CalmMove ==
    ASSUME IInv, NEW w \in Workers, pc[w] # "idle",
           NEW where \in {"failing", "returned"}, Goto(w, where),
           where = "returned" => pc[w] = "running",
           pc[w] # "failing",
           UNCHANGED <<store, incurred, turn, holds, lost, aborted, faults>>,
           \E err \in Errors : error' = [error EXCEPT ![w] = err]
    PROVE  IInv' /\ JobsStep({})
<1>1. where \in InTurn
  BY DEF InTurn
<1>2. WorkersStep({w}) /\ pc'[w] = where /\ turn'[w] = turn[w]
  BY <1>1, MovedWorkers DEF IInv, TypeOK
<1>3. PointsOf(w) /\ UnacknowledgedOf(w)
  BY DEF IInv, Points, Unacknowledged
<1>4. PointsOf(w)'
  BY <1>2, <1>3 DEF PointsOf, store
<1>5. UnacknowledgedOf(w)'
  BY <1>2, <1>3 DEF UnacknowledgedOf, store
<1>. QED  BY <1>2, <1>4, <1>5, CalmStep

\* A worker that ends its run without touching a table.
LEMMA CalmEnd ==
    ASSUME IInv, NEW w \in Workers, pc[w] # "idle", Done(w),
           UNCHANGED <<store, incurred>>, Fault \/ UNCHANGED faults
    PROVE  IInv' /\ JobsStep({})
BY DoneWorkers, CalmStep DEF IInv, TypeOK

\* Jobs come in, are cancelled or lose their lease; nothing else changes.
LEMMA JobsOnlyStep ==
    ASSUME IInv, JobsStep({}), UNCHANGED <<resv, wallet, incurred, worker>>,
           Fault \/ UNCHANGED faults
    PROVE  IInv'
<1>1. ResvStep({})
  BY SameResv DEF IInv, TypeOK
<1>2. MoneyStep
  BY <1>1, SameMoney DEF IInv, TypeOK
<1>3. faults' \in Nat
  BY FaultCount DEF IInv, TypeOK
<1>4. WorkersStep({})
  BY StillWorkers DEF IInv, TypeOK
<1>5. \A a \in Agents : ~enabled'[a] => ~enabled[a]
  BY DEF wallet
<1>. QED  BY <1>1, <1>2, <1>3, <1>4, <1>5, StepKeeps

-----------------------------------------------------------------------------
(* From outside.                                                           *)

LEMMA IncomingStep ==
    ASSUME IInv, NEW c \in Causes, IngestEvent(c) \/ ScheduleSelf(c)
    PROVE  IInv' /\ JobsStep({})
<1>1. Rooted({<<c>>})
  BY CausePath DEF Rooted
<1>2. JobsTo({}, job)
  BY SameTable DEF IInv, TypeOK
<1>3. PICK kind \in Kinds : job' = Enqueued(job, {<<c>>}, kind)
  BY DEF IngestEvent, ScheduleSelf, Kinds
<1>4. JobsStep({})
  BY <1>1, <1>2, <1>3, EnqueuedTable DEF JobsStep
<1>. QED  BY <1>4, JobsOnlyStep DEF IngestEvent, ScheduleSelf

LEMMA CancelSelfStep ==
    ASSUME IInv, NEW c \in Causes, CancelSelf(c)
    PROVE  IInv' /\ JobsStep({})
<1>1. <<c>> \in DOMAIN job /\ job[<<c>>].status = "pending" /\ job' = Ended(<<c>>, "cancelled")
  BY DEF CancelSelf, Cancellable
<1>2. "cancelled" \in {"pending"} \cup Terminal /\ "pending" \notin Terminal
  BY DEF Terminal
<1>3. JobsStep({})
  BY <1>1, <1>2, EndedTable DEF JobsStep, IInv, TypeOK
<1>. QED  BY <1>3, JobsOnlyStep DEF CancelSelf

LEMMA ReconcileStep ==
    ASSUME IInv, NEW t \in DOMAIN resv, ReconcileReservation(t)
    PROVE  IInv' /\ JobsStep({})
<1>. DEFINE a == AgentOf(t[1])
<1>1. /\ Reconcilable(t) /\ resv' = Settled(t, incurred[t]) /\ Charge(a, incurred[t])
      /\ enabled' = [enabled EXCEPT ![a] = @ /\ incurred[t] <= MaxCost]
      /\ UNCHANGED <<job, incurred, worker, faults>>
  BY DEF ReconcileReservation
<1>2. a \in Agents
  BY OwnersAssumption DEF AgentOf, IInv, TypeOK, MoneyTyped, JobsTyped
<1>3. incurred[t] \in Nat
  BY <1>1, NumbersAssumption DEF Reconcilable, IInv, TypeOK, MoneyTyped
<1>4. JobsStep({})
  BY <1>1, SameTable DEF JobsStep, IInv, TypeOK
<1>5. ResvStep({})
  BY <1>1, <1>3, SettledResv DEF IInv, TypeOK
<1>6. enabled' \in [Agents -> BOOLEAN]
  <2>1. enabled \in [Agents -> BOOLEAN]
    BY DEF IInv, TypeOK, MoneyTyped
  <2>. QED  BY <1>1, <2>1, Zenon
<1>7. MoneyStep
  BY <1>1, <1>2, <1>3, <1>5, <1>6, ChargedMoney DEF IInv, TypeOK
<1>8. WorkersStep({})
  BY <1>1, StillWorkers DEF IInv, TypeOK
<1>9. faults' \in Nat
  BY <1>1 DEF IInv, TypeOK
<1>10. \A b \in Agents : ~enabled'[b] =>
         ~enabled[b] \/ \A j \in DOMAIN job : AgentOf(j) = b => ~IsLive(job'[j])
  <2>1. \A j \in DOMAIN job : AgentOf(j) = a => ~IsLive(job'[j])
    BY <1>1 DEF Reconcilable, JobsOf, IsLive
  <2>2. \A b \in Agents \ {a} : enabled'[b] = enabled[b]
    BY <1>1 DEF IInv, TypeOK, MoneyTyped
  <2>. QED  BY <2>1, <2>2
<1>. HIDE DEF a
<1>. QED  BY <1>4, <1>5, <1>7, <1>8, <1>9, <1>10, StepKeeps

-----------------------------------------------------------------------------
(* Leases run out, and jobs whose attempts are used up are buried.         *)

LEMMA LeaseStep ==
    ASSUME IInv, NEW j \in DOMAIN job, AbandonedLeaseExpires(j) \/ StalledLeaseExpires(j)
    PROVE  IInv' /\ JobsStep({})
<1>1. LeaseExpires(j) /\ (Fault \/ UNCHANGED faults)
  BY DEF AbandonedLeaseExpires, StalledLeaseExpires
<1>. DEFINE row == [job[j] EXCEPT !.live = FALSE]
<1>2. job[j] \in JobRows
  BY DEF IInv, TypeOK, JobsTyped
<1>3. job' = [job EXCEPT ![j] = row] /\ job[j].status = "running"
  BY <1>1 DEF LeaseExpires
<1>4. row \in JobRows /\ row.fence = job[j].fence /\ row.status = "running" /\ ~IsLive(row)
  BY <1>2, <1>3 DEF JobRows, IsLive
<1>. HIDE DEF row
<1>5. job[j].status \notin Terminal /\ row.status # "completed"
  BY <1>3, <1>4 DEF Terminal
<1>6. JobsStep({})
  BY <1>3, <1>4, <1>5, OneRowTable DEF JobsStep, IInv, TypeOK
<1>. QED  BY <1>1, <1>6, JobsOnlyStep DEF LeaseExpires

\* Taking up or burying an expired job leaves nothing reserved for it.
LEMMA ExpiredResv ==
    ASSUME IInv, NEW j \in DOMAIN job, ClaimableJob(j), Expired(j)
    PROVE  /\ ResvStep({})
           /\ \A t \in DOMAIN resv : t[1] = j => resv'[t].status # "reserved"
<1>1. ResvStep({})
  BY SameResv, InDoubtResv DEF Expired, IInv, TypeOK
<1>. SUFFICES ASSUME NEW t \in DOMAIN resv, t[1] = j, resv'[t].status = "reserved"
              PROVE  FALSE
  BY <1>1
<1>2. resv[t].status = "reserved"
  BY <1>1 DEF ResvStep
<1>3. t[2] = job[j].fence /\ job[j].status \in {"running", "dead"}
  BY <1>2 DEF IInv, HeldByLastTurn
<1>4. job[j].status = "running"
  BY <1>3 DEF ClaimableJob
<1>5. t = <<j, job[j].fence>>
  BY <1>3 DEF IInv, TypeOK, MoneyTyped
<1>6. resv' = InDoubt(t)
  BY <1>4, <1>5 DEF Expired
<1>. QED  BY <1>6, InDoubtResv DEF IInv, TypeOK

LEMMA BuryStep ==
    ASSUME IInv, NEW j \in DOMAIN job, Bury(j)
    PROVE  IInv' /\ JobsStep({j})
<1>1. /\ ClaimableJob(j) /\ Expired(j)
      /\ job' = Answer(Ended(j, "dead"), j, "failed")
      /\ UNCHANGED <<wallet, incurred, worker, faults>>
  BY DEF Bury
<1>2. job[j].status \notin Terminal /\ "dead" \in {"pending"} \cup Terminal
  BY <1>1 DEF ClaimableJob, Terminal
<1>. DEFINE table == Ended(j, "dead")
<1>3. /\ JobsTo({j}, table) /\ j \in DOMAIN table /\ table[j].status = "dead"
  BY <1>2, EndedTable DEF IInv, TypeOK
<1>4. job' = Answer(table, j, "failed")
  BY <1>1
<1>. HIDE DEF table
<1>5. JobsStep({j}) /\ job'[j] = table[j]
  BY <1>3, <1>4, AnsweredTable DEF JobsStep, Answers
<1>6. ResvStep({}) /\ \A t \in DOMAIN resv : t[1] = j => resv'[t].status # "reserved"
  BY <1>1, ExpiredResv
<1>7. MoneyStep
  BY <1>1, <1>6, SameMoney DEF IInv, TypeOK
<1>8. WorkersStep({})
  BY <1>1, StillWorkers DEF IInv, TypeOK
<1>9. faults' \in Nat
  BY <1>1 DEF IInv, TypeOK
<1>10. \A a \in Agents : ~enabled'[a] => ~enabled[a]
  BY <1>1 DEF wallet
<1>11. job'[j].status # "completed"
  BY <1>3, <1>5
<1>. QED  BY <1>5, <1>6, <1>7, <1>8, <1>9, <1>10, <1>11, StepKeeps

-----------------------------------------------------------------------------
(* A claim starts a new turn.                                              *)

LEMMA ClaimStep ==
    ASSUME IInv, NEW w \in Workers, NEW j \in DOMAIN job, Claim(w, j)
    PROVE  /\ IInv'
           /\ \A i \in DOMAIN job : job[i].status \in Terminal => job'[i] = job[i]
<1>. DEFINE row == [job[j] EXCEPT !.status = "running", !.fence = @ + 1, !.live = TRUE]
            t == <<j, job[j].fence + 1>>
<1>1. /\ pc[w] = "idle" /\ ClaimableJob(j) /\ TriesLeft(j) /\ Expired(j)
      /\ pc' = [pc EXCEPT ![w] = "claimed"] /\ turn' = [turn EXCEPT ![w] = t]
      /\ UNCHANGED <<wallet, incurred, holds, error, lost, aborted, faults>>
  BY DEF Claim, Goto
<1>2. job[j] \in JobRows /\ j \in Paths /\ j[1] \in Causes
  BY DEF IInv, TypeOK, JobsTyped
<1>3. job' = [job EXCEPT ![j] = row]
  BY DEF Claim
<1>4. /\ row \in JobRows /\ row.status = "running"
      /\ row.fence = job[j].fence + 1
  <2>1. job[j].fence \in 0..MaxAttempts /\ job[j].fence < MaxAttempts
    BY <1>1, <1>2 DEF JobRows, TriesLeft
  <2>2. job[j].fence + 1 \in 0..MaxAttempts
    BY <2>1, NumbersAssumption
  <2>. QED  BY <1>2, <2>2 DEF JobRows
<1>5. job[j].status \in {"pending", "running"} /\ job[j].fence \in Nat
  BY <1>1, <1>2 DEF ClaimableJob, JobRows
<1>. HIDE DEF row
<1>6. /\ DOMAIN job' = DOMAIN job
      /\ \A i \in DOMAIN job : job'[i] = IF i = j THEN row ELSE job[i]
  BY <1>3
<1>7. \A i \in DOMAIN job : job[i].status \in Terminal => job'[i] = job[i]
  BY <1>5, <1>6 DEF Terminal
<1>8. ResvStep({}) /\ \A r \in DOMAIN resv : r[1] = j => resv'[r].status # "reserved"
  BY <1>1, ExpiredResv
<1>9. DOMAIN resv' = DOMAIN resv
  BY <1>8 DEF ResvStep
<1>10. JobsTyped'
  BY <1>4, <1>6 DEF IInv, TypeOK, JobsTyped
<1>11. MoneyTyped'
  <2>1. \A r \in DOMAIN resv' : r[1] \in DOMAIN job' /\ r[2] \in 1..job'[r[1]].fence
    BY <1>4, <1>5, <1>6, <1>9 DEF IInv, TypeOK, MoneyTyped
  <2>. QED  BY <1>1, <1>8, <1>9, <2>1 DEF IInv, TypeOK, MoneyTyped, ResvStep, wallet
<1>12. turn'[w] = t /\ pc'[w] = "claimed" /\ t \in Paths \X Nat
       /\ \A v \in Workers \ {w} : turn'[v] = turn[v] /\ pc'[v] = pc[v]
  BY <1>1, <1>2, <1>5 DEF IInv, TypeOK, WorkersTyped
<1>13. WorkersTyped'
  <2>1. turn' \in [Workers -> (Paths \cup {<<>>}) \X Nat]
    BY <1>1, <1>12 DEF IInv, TypeOK, WorkersTyped
  <2>2. \A v \in Workers : pc'[v] # "idle" =>
           turn'[v][1] \in DOMAIN job' /\ turn'[v][2] \in 1..job'[turn'[v][1]].fence
    <3>1. turn'[w][1] = j /\ turn'[w][2] = job[j].fence + 1 /\ job'[j].fence = job[j].fence + 1
      BY <1>4, <1>6, <1>12
    <3>2. \A v \in Workers \ {w} : pc[v] # "idle" =>
             turn[v][1] \in DOMAIN job /\ turn[v][2] \in 1..job[turn[v][1]].fence
      BY DEF IInv, TypeOK, WorkersTyped
    <3>3. \A i \in DOMAIN job : job[i].fence \in Nat
      BY NumbersAssumption DEF IInv, TypeOK, JobsTyped, JobRows
    <3>4. \A i \in DOMAIN job : job'[i].fence \in {job[i].fence, job[i].fence + 1}
      BY <1>4, <1>6
    <3>. QED  BY <1>5, <1>6, <1>12, <3>1, <3>2, <3>3, <3>4
  <2>. QED  BY <1>1, <2>1, <2>2 DEF IInv, TypeOK, WorkersTyped, InTurn
<1>14. LiveExclusive'
  <2>1. \A i \in DOMAIN job : IsLive(job[i]) => AgentOf(i) # AgentOf(j)
    BY <1>1 DEF ClaimableJob, LiveTurns, JobsOf, IsLive
  <2>. QED  BY <1>6, <2>1 DEF IInv, LiveExclusive, AgentOf
<1>15. UniqueTurns'
  <2>1. \A v \in Workers \ {w} : pc[v] # "idle" => turn[v] # t
    BY <1>5 DEF IInv, TypeOK, WorkersTyped
  <2>. QED  BY <1>12, <2>1 DEF IInv, UniqueTurns
<1>16. FrozenIsIdle'
  <2>. SUFFICES ASSUME NEW a \in Agents, ~enabled[a], NEW i \in DOMAIN job, AgentOf(i) = a
                PROVE  ~IsLive(job'[i])
    BY <1>1, <1>6 DEF FrozenIsIdle, LiveTurns, JobsOf, AgentOf, IsLive, wallet
  <2>1. i # j
    BY <1>1 DEF ClaimableJob
  <2>2. ~IsLive(job[i])
    BY DEF IInv, FrozenIsIdle, LiveTurns, JobsOf, IsLive
  <2>. QED  BY <1>6, <2>1, <2>2
<1>17. t \notin DOMAIN resv
  BY <1>5 DEF IInv, TypeOK, MoneyTyped
<1>18. Points'
  <2>. SUFFICES ASSUME NEW v \in Workers
                PROVE  PointsOf(v)'
    BY DEF Points
  <2>1. CASE v = w
    BY <1>1, <1>12, <2>1 DEF IInv, Points, PointsOf
  <2>2. CASE v # w
    BY <1>1, <1>9, <1>12, <2>2 DEF IInv, Points, PointsOf
  <2>. QED  BY <2>1, <2>2
<1>19. Unacknowledged'
  <2>. SUFFICES ASSUME NEW v \in Workers
                PROVE  UnacknowledgedOf(v)'
    BY DEF Unacknowledged
  <2>1. CASE v = w
    BY <1>9, <1>12, <1>17, <2>1 DEF UnacknowledgedOf
  <2>2. CASE v # w
    BY <1>1, <1>8, <1>12, <2>2 DEF IInv, Unacknowledged, UnacknowledgedOf, ResvStep
  <2>. QED  BY <2>1, <2>2
<1>20. HeldByLastTurn'
  BY <1>6, <1>8, <1>9 DEF IInv, HeldByLastTurn, ResvStep, TypeOK, MoneyTyped
<1>21. CompletedIsSettled'
  BY <1>4, <1>6, <1>8, <1>9 DEF IInv, CompletedIsSettled, ResvStep
<1>. HIDE DEF t
<1>22. TypeOK'
  BY <1>1, <1>10, <1>11, <1>13 DEF IInv, TypeOK
<1>. QED
  BY <1>7, <1>14, <1>15, <1>16, <1>18, <1>19, <1>20, <1>21, <1>22 DEF IInv

-----------------------------------------------------------------------------
(* The steps of runOne.                                                    *)

LEMMA ReservedStep ==
    ASSUME IInv, NEW w \in Workers, Reserve(w) \/ ReserveUnacknowledged(w)
    PROVE  IInv' /\ JobsStep({})
<1>. DEFINE t == turn[w]
            new == [status |-> "reserved", actual |-> Unknown, observed |-> Unknown]
<1>1. Reserved(w) /\ (Fault \/ UNCHANGED faults)
  BY DEF Reserve, ReserveUnacknowledged
<1>2. pc[w] = "claimed" /\ ValidClaim(w)
  BY <1>1 DEF Reserved
<1>3. UNCHANGED <<job, spent, enabled, incurred>>
  BY <1>1 DEF Reserved
<1>4. /\ DOMAIN resv' = DOMAIN resv \cup {t}
      /\ \A r \in DOMAIN resv' : resv'[r] = IF r \in DOMAIN resv THEN resv[r] ELSE new
  BY <1>1 DEF Reserved
<1>5. new \in Reservations
  BY DEF Reservations, Unknown
<1>. HIDE DEF new
<1>6. ResvStep({t})
  BY <1>4, <1>5 DEF ResvStep, IInv, TypeOK, MoneyTyped
<1>7. AgentOf(t[1]) \in Agents
  BY <1>2, TurnFacts
<1>8. MoneyStep
  <2>1. reserved' = [reserved EXCEPT ![AgentOf(t[1])] = @ + MaxCost]
    BY <1>1 DEF Reserved
  <2>2. reserved' \in [Agents -> Int]
    BY <1>7, <2>1, NumbersAssumption DEF IInv, TypeOK, MoneyTyped
  <2>. QED  BY <1>3, <1>4, <2>2 DEF IInv, TypeOK, MoneyTyped, MoneyStep
<1>9. JobsStep({})
  BY <1>3, SameTable DEF JobsStep, IInv, TypeOK
<1>10. faults' \in Nat
  BY <1>1, FaultCount DEF IInv, TypeOK
<1>11. WorkersStep({w}) /\ PointsOf(w)' /\ UnacknowledgedOf(w)'
  <2>1. CASE Reserve(w)
    <3>1. /\ Goto(w, "reserved") /\ holds' = [holds EXCEPT ![w] = TRUE]
          /\ UNCHANGED <<turn, error, lost, aborted>>
      BY <2>1 DEF Reserve
    <3>2. WorkersStep({w}) /\ pc'[w] = "reserved" /\ turn'[w] = t
      BY <1>2, <3>1, MovedWorkers DEF IInv, TypeOK, InTurn
    <3>3. holds'[w] = TRUE
      BY <3>1 DEF IInv, TypeOK, WorkersTyped
    <3>. QED  BY <1>4, <3>2, <3>3 DEF PointsOf, UnacknowledgedOf
  <2>2. CASE ReserveUnacknowledged(w)
    <3>1. /\ Goto(w, "failing") /\ error' = [error EXCEPT ![w] = "other"]
          /\ UNCHANGED <<turn, holds, lost, aborted>> /\ LostAcks
      BY <2>2 DEF ReserveUnacknowledged, Throw
    <3>2. "other" \in Errors /\ "failing" \in InTurn
      BY DEF Errors, InTurn
    <3>3. WorkersStep({w}) /\ pc'[w] = "failing" /\ turn'[w] = t
      BY <1>2, <3>1, <3>2, MovedWorkers DEF IInv, TypeOK
    <3>4. error'[w] = "other"
      BY <3>1 DEF IInv, TypeOK, WorkersTyped
    <3>. QED  BY <1>4, <3>1, <3>3, <3>4 DEF PointsOf, UnacknowledgedOf
  <2>. QED  BY <1>1, <2>1, <2>2
<1>12. \A r \in {t} : job'[r[1]].fence = r[2] /\ job'[r[1]].status = "running"
  BY <1>2, <1>3 DEF ValidClaim
<1>13. \A a \in Agents : ~enabled'[a] => ~enabled[a]
  BY <1>3
<1>. QED  BY <1>6, <1>8, <1>9, <1>10, <1>11, <1>12, <1>13, StepKeeps

LEMMA InvokeStep ==
    ASSUME IInv, NEW w \in Workers, NEW cost \in 0..(MaxCost + 1), Invoke(w, cost)
    PROVE  IInv' /\ JobsStep({})
<1>1. /\ pc[w] = "reserved" /\ Goto(w, "running")
      /\ UNCHANGED <<store, turn, holds, error, lost, aborted, faults>>
      /\ DOMAIN incurred' = DOMAIN incurred \cup {turn[w]}
      /\ \A t \in DOMAIN incurred' : incurred'[t] = IF t = turn[w] THEN cost ELSE incurred[t]
  BY DEF Invoke
<1>2. PointsOf(w)
  BY DEF IInv, Points
<1>3. JobsStep({})
  BY <1>1, SameTable DEF JobsStep, IInv, TypeOK, store
<1>4. ResvStep({}) /\ resv' = resv
  BY <1>1, SameResv DEF IInv, TypeOK, store
<1>5. MoneyStep
  BY <1>1, <1>2, <1>4 DEF MoneyStep, IInv, TypeOK, MoneyTyped, PointsOf, store, wallet
<1>6. WorkersStep({w}) /\ pc'[w] = "running" /\ turn'[w] = turn[w]
  BY <1>1, MovedWorkers DEF IInv, TypeOK, InTurn
<1>7. PointsOf(w)'
  BY <1>1, <1>2, <1>4, <1>6 DEF PointsOf
<1>8. UnacknowledgedOf(w)'
  BY <1>1, <1>4, <1>6 DEF UnacknowledgedOf, IInv, Unacknowledged
<1>9. faults' \in Nat
  BY <1>1 DEF IInv, TypeOK
<1>10. \A a \in Agents : ~enabled'[a] => ~enabled[a]
  BY <1>1 DEF store, wallet
<1>. QED  BY <1>3, <1>4, <1>5, <1>6, <1>7, <1>8, <1>9, <1>10, StepKeeps

LEMMA ObserveStep ==
    ASSUME IInv, NEW w \in Workers, ObserveCost(w)
    PROVE  IInv' /\ JobsStep({})
<1>1. /\ pc[w] = "returned" /\ resv' = [resv EXCEPT ![turn[w]].observed = incurred[turn[w]]]
      /\ UNCHANGED <<job, wallet, incurred, turn, holds, error, lost, aborted, faults>>
  BY DEF ObserveCost
<1>2. PICK where \in {"overrun", "deciding", "failing"} : Goto(w, where)
  BY DEF ObserveCost
<1>3. PointsOf(w) /\ UnacknowledgedOf(w)
  BY DEF IInv, Points, Unacknowledged
<1>4. turn[w] \in DOMAIN resv /\ turn[w] \in DOMAIN incurred
  BY <1>1, <1>3 DEF PointsOf
<1>5. incurred[turn[w]] \in Nat
  BY <1>4, NumbersAssumption DEF IInv, TypeOK, MoneyTyped
<1>6. ResvStep({}) /\ \A r \in DOMAIN resv : resv'[r].status = resv[r].status
  BY <1>1, <1>4, <1>5, ObservedResv DEF IInv, TypeOK
<1>7. JobsStep({})
  BY <1>1, SameTable DEF JobsStep, IInv, TypeOK
<1>8. MoneyStep
  BY <1>1, <1>6, SameMoney DEF IInv, TypeOK
<1>9. WorkersStep({w}) /\ pc'[w] = where /\ turn'[w] = turn[w]
  BY <1>1, <1>2, MovedWorkers DEF IInv, TypeOK, InTurn
<1>10. PointsOf(w)'
  BY <1>1, <1>3, <1>4, <1>6, <1>9 DEF PointsOf, ResvStep
<1>11. UnacknowledgedOf(w)'
  BY <1>1, <1>3, <1>4, <1>6, <1>9 DEF UnacknowledgedOf
<1>12. faults' \in Nat
  BY <1>1 DEF IInv, TypeOK
<1>13. \A a \in Agents : ~enabled'[a] => ~enabled[a]
  BY <1>1 DEF wallet
<1>. QED  BY <1>6, <1>7, <1>8, <1>9, <1>10, <1>11, <1>12, <1>13, StepKeeps

\* The claim is valid and its reservation is settled: nothing else is reserved
\* for the job.
LEMMA LastHold ==
    ASSUME IInv, NEW w \in Workers, pc[w] # "idle", ValidClaim(w), ResvStep({}),
           turn[w] \in DOMAIN resv => resv'[turn[w]].status # "reserved"
    PROVE  \A t \in DOMAIN resv : t[1] = turn[w][1] => resv'[t].status # "reserved"
<1>. SUFFICES ASSUME NEW t \in DOMAIN resv, t[1] = turn[w][1], resv'[t].status = "reserved"
              PROVE  FALSE
  OBVIOUS
<1>1. resv[t].status = "reserved"
  BY DEF ResvStep
<1>2. t[2] = turn[w][2]
  BY <1>1 DEF IInv, HeldByLastTurn, ValidClaim
<1>3. t = turn[w]
  <2>1. t = <<t[1], t[2]>>
    BY DEF IInv, TypeOK, MoneyTyped
  <2>. QED  BY <1>2, <2>1, TurnFacts
<1>. QED  BY <1>3

LEMMA OverrunStep ==
    ASSUME IInv, NEW w \in Workers, SettleOverrun(w)
    PROVE  IInv' /\ \E E : JobsStep(E)
<1>. DEFINE t == turn[w]
            j == t[1]
            a == AgentOf(j)
<1>1. /\ pc[w] = "overrun" /\ ValidClaim(w)
      /\ resv' = Settled(t, incurred[t]) /\ Charge(a, incurred[t])
      /\ enabled' = [enabled EXCEPT ![a] = FALSE]
      /\ job' = Ended(j, "dead") /\ Done(w) /\ UNCHANGED <<incurred, faults>>
  BY DEF SettleOverrun
<1>2. j \in DOMAIN job /\ a \in Agents
  BY <1>1, TurnFacts
<1>3. t \in DOMAIN resv /\ t \in DOMAIN incurred
  BY <1>1 DEF IInv, Points, PointsOf
<1>4. incurred[t] \in Nat
  BY <1>3, NumbersAssumption DEF IInv, TypeOK, MoneyTyped
<1>5. IsLive(job[j]) /\ job[j].status \notin Terminal /\ "dead" \in {"pending"} \cup Terminal
  BY <1>1 DEF ValidClaim, IsLive, Terminal
<1>6. /\ JobsStep({j}) /\ job'[j].status = "dead" /\ ~IsLive(job'[j])
      /\ \A i \in DOMAIN job \ {j} : job'[i] = job[i]
  <2>1. JobsTyped /\ job' = Ended(j, "dead")
    BY <1>1 DEF IInv, TypeOK
  <2>. HIDE DEF j
  <2>. QED  BY <1>2, <1>5, <2>1, EndedTable DEF JobsStep
<1>7. ResvStep({}) /\ resv'[t].status = "settled"
  BY <1>1, <1>3, <1>4, SettledResv DEF IInv, TypeOK
<1>8. enabled' \in [Agents -> BOOLEAN]
  BY <1>1 DEF IInv, TypeOK, MoneyTyped
<1>9. MoneyStep
  BY <1>1, <1>2, <1>4, <1>7, <1>8, ChargedMoney DEF IInv, TypeOK
<1>10. WorkersStep({w}) /\ PointsOf(w)' /\ UnacknowledgedOf(w)'
  BY <1>1, DoneWorkers DEF IInv, TypeOK
<1>11. \A r \in DOMAIN resv : r[1] = j => resv'[r].status # "reserved"
  BY <1>1, <1>7, LastHold
<1>12. \A b \in Agents : ~enabled'[b] =>
          ~enabled[b] \/ \A i \in DOMAIN job : AgentOf(i) = b => ~IsLive(job'[i])
  <2>1. \A b \in Agents \ {a} : enabled'[b] = enabled[b]
    BY <1>1 DEF IInv, TypeOK, MoneyTyped
  <2>2. \A i \in DOMAIN job : AgentOf(i) = a => ~IsLive(job'[i])
    BY <1>2, <1>5, <1>6 DEF IInv, LiveExclusive
  <2>. QED  BY <2>1, <2>2
<1>13. faults' \in Nat
  BY <1>1 DEF IInv, TypeOK
<1>. HIDE DEF t, j, a
<1>. QED  BY <1>6, <1>7, <1>9, <1>10, <1>11, <1>12, <1>13, StepKeeps

\* Jobs that are created are pending, whatever their table.
LEMMA EnqueuedTwice ==
    ASSUME NEW E, NEW table, JobsTo(E, table), NEW i \in DOMAIN table,
           NEW staff, Rooted(staff), NEW appointments, Rooted(appointments)
    PROVE  LET planned == Enqueued(Enqueued(table, staff, "staff"), appointments, "appointment")
           IN  JobsTo(E, planned) /\ i \in DOMAIN planned
               /\ \A k \in DOMAIN table : k \in DOMAIN planned /\ planned[k] = table[k]
<1>1. "staff" \in Kinds /\ "appointment" \in Kinds
  BY DEF Kinds
<1>2. PICK staffed : staffed = Enqueued(table, staff, "staff")
  OBVIOUS
<1>3. /\ JobsTo(E, staffed) /\ DOMAIN staffed = DOMAIN table \cup staff
      /\ \A k \in DOMAIN table : staffed[k] = table[k]
  BY <1>1, <1>2, EnqueuedTable
<1>4. PICK planned : planned = Enqueued(staffed, appointments, "appointment")
  OBVIOUS
<1>5. /\ JobsTo(E, planned) /\ DOMAIN planned = DOMAIN staffed \cup appointments
      /\ \A k \in DOMAIN staffed : planned[k] = staffed[k]
  BY <1>1, <1>3, <1>4, EnqueuedTable
<1>6. JobsTo(E, planned) /\ i \in DOMAIN planned
      /\ \A k \in DOMAIN table : k \in DOMAIN planned /\ planned[k] = table[k]
  BY <1>3, <1>5
<1>. QED  BY <1>2, <1>4, <1>6

\* Jobs that are cancelled were pending.
LEMMA CancelledTable ==
    ASSUME NEW E, NEW planned, JobsTo(E, planned),
           NEW cancelled,
           \A i \in cancelled : i \in DOMAIN job /\ job[i].status = "pending" /\ planned[i] = job[i],
           NEW table,
           table = [i \in DOMAIN planned |->
                       IF i \in cancelled THEN [planned[i] EXCEPT !.status = "cancelled"]
                       ELSE planned[i]]
    PROVE  JobsTo(E, table)
<1>1. DOMAIN table = DOMAIN planned /\ \A i \in DOMAIN planned \ cancelled : table[i] = planned[i]
  OBVIOUS
<1>2. \A i \in cancelled : i \in DOMAIN planned /\ planned[i] \in JobRows
  BY DEF JobsTo
<1>3. \A i \in cancelled :
         /\ table[i] \in JobRows /\ table[i].status = "cancelled"
         /\ table[i].fence = job[i].fence
  <2>. SUFFICES ASSUME NEW i \in cancelled
                PROVE  /\ table[i] \in JobRows /\ table[i].status = "cancelled"
                       /\ table[i].fence = job[i].fence
    OBVIOUS
  <2>1. planned[i] \in JobRows /\ planned[i] = job[i]
    BY <1>2
  <2>2. table[i] = [planned[i] EXCEPT !.status = "cancelled"]
    BY <1>2
  <2>. QED  BY <2>1, <2>2 DEF JobRows, Terminal
<1>4. \A i \in DOMAIN table : table[i] \in JobRows /\ i \in Paths /\ i[1] \in Causes
  BY <1>1, <1>3 DEF JobsTo
<1>5. \A i \in cancelled : ~IsLive(table[i]) /\ job[i].status \notin Terminal
  BY <1>3 DEF IsLive, Terminal
<1>6. \A i \in DOMAIN job :
         /\ table[i].fence = job[i].fence
         /\ IsLive(table[i]) => IsLive(job[i])
         /\ job[i].status \in Terminal => table[i] = job[i]
         /\ table[i].status = "completed" => job[i].status = "completed" \/ i \in E
         /\ job[i].status = "running" => table[i].status = "running" \/ i \in E
  <2>. SUFFICES ASSUME NEW i \in DOMAIN job
                PROVE  /\ table[i].fence = job[i].fence
                       /\ IsLive(table[i]) => IsLive(job[i])
                       /\ job[i].status \in Terminal => table[i] = job[i]
                       /\ table[i].status = "completed" => job[i].status = "completed" \/ i \in E
                       /\ job[i].status = "running" => table[i].status = "running" \/ i \in E
    OBVIOUS
  <2>1. CASE i \in cancelled
    BY <1>3, <1>5, <2>1
  <2>2. CASE i \notin cancelled
    BY <1>1, <2>2 DEF JobsTo
  <2>. QED  BY <2>1, <2>2
<1>7. DOMAIN job \subseteq DOMAIN table /\ \A i \in DOMAIN table \ DOMAIN job : table[i].status = "pending"
  BY <1>1 DEF JobsTo
<1>. QED  BY <1>4, <1>6, <1>7 DEF JobsTo

\* The jobs that a decision creates and cancels.
LEMMA DecidedTable ==
    ASSUME JobsTyped, NEW j \in DOMAIN job, job[j].status = "running",
           NEW D \in SUBSET StaffTags, NEW S \in SUBSET Causes, NEW C \in SUBSET Causes,
           \A c \in C : Cancellable(c)
    PROVE  LET planned == Enqueued(Enqueued(Ended(j, "completed"), {Append(j, g) : g \in D}, "staff"),
                                   {<<c>> : c \in S}, "appointment")
               table == [i \in DOMAIN planned |->
                            IF i \in {<<c>> : c \in C}
                            THEN [planned[i] EXCEPT !.status = "cancelled"] ELSE planned[i]]
           IN  JobsTo({j}, table) /\ j \in DOMAIN table
<1>. DEFINE ended == Ended(j, "completed")
            staff == {Append(j, g) : g \in D}
            appointments == {<<c>> : c \in S}
            cancelled == {<<c>> : c \in C}
            planned == Enqueued(Enqueued(ended, staff, "staff"), appointments, "appointment")
            table == [i \in DOMAIN planned |->
                         IF i \in cancelled
                         THEN [planned[i] EXCEPT !.status = "cancelled"] ELSE planned[i]]
<1>1. /\ JobsTo({j}, ended) /\ DOMAIN ended = DOMAIN job
      /\ \A i \in DOMAIN job \ {j} : ended[i] = job[i]
  BY EndedTable DEF Terminal
<1>2. Rooted(staff)
  <2>. SUFFICES ASSUME NEW g \in D
                PROVE  Append(j, g) \in Paths /\ Append(j, g)[1] \in Causes
    BY Zenon DEF Rooted
  <2>1. j \in Paths /\ j[1] \in Causes
    BY DEF JobsTyped
  <2>2. Append(j, g) \in Paths /\ Append(j, g)[1] = j[1]
    BY <2>1, AppendPath
  <2>. QED  BY <2>1, <2>2, Zenon
<1>3. Rooted(appointments)
  BY CausePath DEF Rooted
<1>4. \A i \in cancelled : i \in DOMAIN job \ {j} /\ job[i].status = "pending"
  BY DEF Cancellable
<1>. HIDE DEF ended, staff, appointments, cancelled
<1>5. /\ JobsTo({j}, planned) /\ j \in DOMAIN planned
      /\ \A k \in DOMAIN ended : k \in DOMAIN planned /\ planned[k] = ended[k]
  BY <1>1, <1>2, <1>3, EnqueuedTwice
<1>. HIDE DEF planned
<1>6. \A i \in cancelled : i \in DOMAIN job /\ job[i].status = "pending" /\ planned[i] = job[i]
  BY <1>1, <1>4, <1>5
<1>7. JobsTo({j}, table) /\ j \in DOMAIN table
  BY <1>5, <1>6, CancelledTable
<1>. QED  BY <1>7 DEF table, planned, ended, staff, appointments, cancelled

LEMMA CompleteStep ==
    ASSUME IInv, NEW w \in Workers,
           NEW D \in SUBSET StaffTags, NEW S \in SUBSET Causes, NEW C \in SUBSET Causes,
           Complete(w, D, S, C)
    PROVE  IInv' /\ \E E : JobsStep(E)
<1>. DEFINE t == turn[w]
            j == t[1]
            planned == Enqueued(Enqueued(Ended(j, "completed"), {Append(j, g) : g \in D}, "staff"),
                                {<<c>> : c \in S}, "appointment")
            table == [i \in DOMAIN planned |->
                         IF i \in {<<c>> : c \in C}
                         THEN [planned[i] EXCEPT !.status = "cancelled"] ELSE planned[i]]
<1>1. /\ pc[w] = "deciding" /\ ValidClaim(w) /\ Permitted(j, D, S, C)
      /\ job' = Answer(table, j, "completed")
      /\ resv' = Settled(t, incurred[t]) /\ Charge(AgentOf(j), incurred[t])
      /\ Done(w) /\ UNCHANGED <<enabled, incurred, faults>>
  BY DEF Complete
<1>2. j \in DOMAIN job /\ AgentOf(j) \in Agents /\ t = <<j, t[2]>>
  BY <1>1, TurnFacts
<1>3. t \in DOMAIN resv /\ t \in DOMAIN incurred
  BY <1>1 DEF IInv, Points, PointsOf
<1>4. incurred[t] \in Nat
  BY <1>3, NumbersAssumption DEF IInv, TypeOK, MoneyTyped
<1>5. job[j].status = "running" /\ job[j].fence = t[2]
  BY <1>1 DEF ValidClaim
<1>6. \A c \in C : Cancellable(c)
  BY <1>1 DEF Permitted
<1>7. JobsTo({j}, table) /\ j \in DOMAIN table
  <2>. HIDE DEF j
  <2>. QED  BY <1>2, <1>5, <1>6, DecidedTable DEF IInv, TypeOK
<1>. HIDE DEF table
<1>8. JobsStep({j})
  BY <1>1, <1>7, AnsweredTable DEF JobsStep, Answers
<1>9. ResvStep({}) /\ resv'[t].status = "settled"
  BY <1>1, <1>3, <1>4, SettledResv DEF IInv, TypeOK
<1>10. MoneyStep
  BY <1>1, <1>2, <1>4, <1>9, ChargedMoney DEF IInv, TypeOK, MoneyTyped
<1>11. WorkersStep({w}) /\ PointsOf(w)' /\ UnacknowledgedOf(w)'
  BY <1>1, DoneWorkers DEF IInv, TypeOK
<1>12. \A r \in DOMAIN resv : r[1] = j => resv'[r].status # "reserved"
  BY <1>1, <1>9, LastHold
<1>13. <<j, job[j].fence>> \in DOMAIN resv /\ resv'[<<j, job[j].fence>>].status = "settled"
  BY <1>2, <1>3, <1>5, <1>9
<1>14. faults' \in Nat
  BY <1>1 DEF IInv, TypeOK
<1>15. \A a \in Agents : ~enabled'[a] => ~enabled[a]
  BY <1>1
<1>. HIDE DEF t, j
<1>. QED  BY <1>8, <1>9, <1>10, <1>11, <1>12, <1>13, <1>14, <1>15, StepKeeps

\* What fail does to the money: the reservation the worker knows of ends.
LEMMA ReleaseMoney ==
    ASSUME IInv, NEW w \in Workers, pc[w] = "failing", holds[w] => Unsettled(w),
           Release(w), UNCHANGED <<enabled, incurred>>
    PROVE  /\ ResvStep({}) /\ MoneyStep
           /\ IF holds[w] THEN turn[w] \in DOMAIN resv /\ resv'[turn[w]].status # "reserved"
              ELSE resv' = resv
<1>. DEFINE t == turn[w]
            a == AgentOf(t[1])
<1>1. a \in Agents
  BY TurnFacts
<1>2. MoneyTyped /\ enabled' \in [Agents -> BOOLEAN]
  BY DEF IInv, TypeOK, MoneyTyped
<1>3. holds[w] => t \in DOMAIN resv /\ resv[t].status = "reserved"
  BY DEF IInv, Points, PointsOf, Unsettled
<1>4. CASE ~holds[w]
  <2>1. UNCHANGED <<resv, spent, reserved>>
    BY <1>4 DEF Release
  <2>2. ResvStep({})
    BY <1>2, <2>1, SameResv
  <2>. QED  BY <1>2, <1>4, <2>1, <2>2, SameMoney DEF wallet
<1>5. CASE holds[w] /\ CostObserved(w)
  <2>1. resv' = Settled(t, resv[t].observed) /\ Charge(a, resv[t].observed)
    BY <1>5 DEF Release
  <2>2. resv[t].observed \in Nat
    BY <1>2, <1>3, <1>5 DEF CostObserved, MoneyTyped, Reservations
  <2>3. ResvStep({}) /\ resv'[t].status = "settled"
    BY <1>2, <1>3, <1>5, <2>1, <2>2, SettledResv
  <2>4. MoneyStep
    BY <1>1, <1>2, <2>1, <2>2, <2>3, ChargedMoney
  <2>. QED  BY <1>3, <1>5, <2>3, <2>4
<1>6. CASE holds[w] /\ ~CostObserved(w) /\ KnownFree(w)
  <2>1. /\ resv' = [resv EXCEPT ![t].status = "released"]
        /\ reserved' = [reserved EXCEPT ![a] = @ - MaxCost] /\ UNCHANGED spent
    BY <1>6 DEF Release
  <2>2. ResvStep({}) /\ resv'[t].status = "released"
    BY <1>2, <1>3, <1>6, <2>1, ReleasedResv
  <2>3. reserved' \in [Agents -> Int]
    BY <1>1, <2>1, NumbersAssumption DEF IInv, TypeOK, MoneyTyped
  <2>4. MoneyStep
    BY <1>2, <2>1, <2>2, <2>3 DEF MoneyStep, MoneyTyped, ResvStep
  <2>. QED  BY <1>3, <1>6, <2>2, <2>4
<1>7. CASE holds[w] /\ ~CostObserved(w) /\ ~KnownFree(w)
  <2>1. resv' = InDoubt(t) /\ UNCHANGED <<spent, reserved>>
    BY <1>7 DEF Release
  <2>2. ResvStep({}) /\ resv'[t].status # "reserved"
    BY <1>2, <1>3, <1>7, <2>1, InDoubtResv
  <2>3. MoneyStep
    BY <1>2, <2>1, <2>2, SameMoney DEF wallet
  <2>. QED  BY <1>3, <1>7, <2>2, <2>3
<1>. QED  BY <1>4, <1>5, <1>6, <1>7

LEMMA FailStep ==
    ASSUME IInv, NEW w \in Workers, Fail(w)
    PROVE  IInv' /\ \E E : JobsStep(E)
<1>. DEFINE t == turn[w]
            j == t[1]
<1>1. /\ pc[w] = "failing" /\ ValidClaim(w) /\ (holds[w] => Unsettled(w)) /\ Release(w)
      /\ job' = IF Retryable(w) THEN Ended(j, "pending") ELSE Answer(Ended(j, "dead"), j, "failed")
      /\ Done(w) /\ UNCHANGED <<enabled, incurred, faults>>
  BY DEF Fail, FinalFailure
<1>2. j \in DOMAIN job
  BY <1>1, TurnFacts
<1>3. job[j].status \notin Terminal
  BY <1>1 DEF ValidClaim, Terminal
<1>4. /\ JobsStep({j}) /\ job'[j].status # "completed"
      /\ ~Retryable(w) => job'[j].status = "dead"
  <2>1. JobsTyped
    BY DEF IInv, TypeOK
  <2>2. CASE Retryable(w)
    <3>1. job' = Ended(j, "pending")
      BY <1>1, <2>2
    <3>. HIDE DEF j
    <3>. QED  BY <1>2, <1>3, <2>1, <2>2, <3>1, EndedTable DEF JobsStep
  <2>3. CASE ~Retryable(w)
    <3>1. PICK table : table = Ended(j, "dead")
      OBVIOUS
    <3>2. job' = Answer(table, j, "failed")
      BY <1>1, <2>3, <3>1
    <3>. HIDE DEF j
    <3>3. JobsTo({j}, table) /\ j \in DOMAIN table /\ table[j].status = "dead"
      BY <1>2, <1>3, <2>1, <3>1, EndedTable DEF Terminal
    <3>. QED  BY <2>3, <3>2, <3>3, AnsweredTable DEF JobsStep, Answers
  <2>. QED  BY <2>2, <2>3
<1>5. /\ ResvStep({}) /\ MoneyStep
      /\ IF holds[w] THEN t \in DOMAIN resv /\ resv'[t].status # "reserved" ELSE resv' = resv
  BY <1>1, ReleaseMoney
<1>6. ASSUME NEW r \in DOMAIN resv, r[1] = j, resv'[r].status = "reserved"
      PROVE  LostAcks /\ job'[r[1]].status = "dead"
  <2>1. ~holds[w]
    BY <1>1, <1>5, <1>6, LastHold
  <2>2. resv[r].status = "reserved"
    BY <1>5, <1>6, <2>1
  <2>3. r = t
    <3>1. r[2] = t[2]
      BY <1>1, <1>6, <2>2 DEF IInv, HeldByLastTurn, ValidClaim
    <3>2. r = <<r[1], r[2]>>
      BY DEF IInv, TypeOK, MoneyTyped
    <3>3. t = <<j, t[2]>>
      BY <1>1, TurnFacts
    <3>. HIDE DEF t, j
    <3>. QED  BY <1>6, <3>1, <3>2, <3>3
  <2>4. error[w] = "other" /\ LostAcks
    BY <1>1, <2>1, <2>2, <2>3 DEF IInv, Unacknowledged, UnacknowledgedOf
  <2>5. ~Retryable(w)
    BY <2>4 DEF Retryable
  <2>. QED  BY <1>4, <1>6, <2>4, <2>5
<1>7. WorkersStep({w}) /\ PointsOf(w)' /\ UnacknowledgedOf(w)'
  BY <1>1, DoneWorkers DEF IInv, TypeOK
<1>8. faults' \in Nat
  BY <1>1 DEF IInv, TypeOK
<1>9. \A a \in Agents : ~enabled'[a] => ~enabled[a]
  BY <1>1
<1>. HIDE DEF t, j
<1>. QED  BY <1>4, <1>5, <1>6, <1>7, <1>8, <1>9, StepKeeps

\* Refusals, errors and returns only move the worker.
LEMMA TurnStep ==
    ASSUME IInv, NEW w \in Workers,
           \/ ReserveRefused(w) \/ NotInvoked(w) \/ Return(w) \/ DecisionRefused(w)
           \/ \E err \in {"knownZero", "retryable", "other"} : DriverThrows(w, err)
    PROVE  IInv' /\ JobsStep({})
<1>1. {"none", "knownZero", "retryable", "other"} \subseteq Errors
  BY DEF Errors
<1>2. CASE ReserveRefused(w)
  BY <1>1, <1>2, CalmMove DEF ReserveRefused, Throw
<1>3. CASE NotInvoked(w)
  BY <1>1, <1>3, CalmMove DEF NotInvoked, Throw
<1>4. CASE Return(w)
  BY <1>1, <1>4, CalmMove DEF Return
<1>5. CASE DecisionRefused(w)
  BY <1>1, <1>5, CalmMove DEF DecisionRefused, Throw
<1>6. CASE \E err \in {"knownZero", "retryable", "other"} : DriverThrows(w, err)
  BY <1>1, <1>6, CalmMove DEF DriverThrows, Throw
<1>. QED  BY <1>2, <1>3, <1>4, <1>5, <1>6

\* A worker that finds its claim stale, gives up or dies.
LEMMA EndStep ==
    ASSUME IInv, NEW w \in Workers, Stale(w) \/ GiveUp(w) \/ Crash(w)
    PROVE  IInv' /\ JobsStep({})
<1>1. pc[w] # "idle" /\ Done(w) /\ UNCHANGED <<store, incurred>> /\ (Fault \/ UNCHANGED faults)
  BY DEF Stale, GiveUp, Crash
<1>. QED  BY <1>1, CalmEnd

\* A turn that is cancelled stays where it is.
LEMMA CancelledTurnStep ==
    ASSUME IInv, NEW w \in Workers, HeartbeatFails(w) \/ Abort(w)
    PROVE  IInv' /\ JobsStep({})
<1>1. /\ pc[w] # "idle" /\ UNCHANGED <<store, incurred, pc, turn, holds, error>>
      /\ Fault \/ UNCHANGED faults
      /\ aborted' = [aborted EXCEPT ![w] = TRUE]
      /\ lost' = lost \/ lost' = [lost EXCEPT ![w] = TRUE]
  BY DEF HeartbeatFails, Abort
<1>2. WorkersStep({w})
  BY <1>1 DEF IInv, TypeOK, WorkersTyped, WorkersStep
<1>3. PointsOf(w)' /\ UnacknowledgedOf(w)'
  BY <1>1 DEF IInv, Points, Unacknowledged, PointsOf, UnacknowledgedOf, store
<1>. QED  BY <1>1, <1>2, <1>3, CalmStep

-----------------------------------------------------------------------------
(* Every step.                                                             *)

EndedRowsKept == \A j \in DOMAIN job : job[j].status \in Terminal => job'[j] = job[j]

LEMMA ProgressStep ==
    ASSUME IInv, NEW w \in Workers, Progress(w)
    PROVE  IInv' /\ EndedRowsKept
<1>1. CASE \E j \in DOMAIN job : Claim(w, j)
  BY <1>1, ClaimStep DEF EndedRowsKept
<1>2. ASSUME IInv', NEW E, JobsStep(E)
      PROVE  IInv' /\ EndedRowsKept
  BY <1>2 DEF JobsStep, JobsTo, EndedRowsKept
<1>3. CASE Reserve(w)
  BY <1>2, <1>3, ReservedStep
<1>4. CASE \E cost \in 0..(MaxCost + 1) : Invoke(w, cost)
  BY <1>2, <1>4, InvokeStep
<1>5. CASE ObserveCost(w)
  BY <1>2, <1>5, ObserveStep
<1>6. CASE SettleOverrun(w)
  BY <1>2, <1>6, OverrunStep
<1>7. CASE \E D \in SUBSET StaffTags, S, C \in SUBSET Causes : Complete(w, D, S, C)
  BY <1>2, <1>7, CompleteStep
<1>8. CASE Fail(w)
  BY <1>2, <1>8, FailStep
<1>9. CASE \/ ReserveRefused(w) \/ NotInvoked(w) \/ Return(w) \/ DecisionRefused(w)
           \/ \E err \in {"knownZero", "retryable", "other"} : DriverThrows(w, err)
  BY <1>2, <1>9, TurnStep
<1>10. CASE Stale(w) \/ GiveUp(w)
  BY <1>2, <1>10, EndStep
<1>. QED
  BY <1>1, <1>3, <1>4, <1>5, <1>6, <1>7, <1>8, <1>9, <1>10 DEF Progress

LEMMA NextStep ==
    ASSUME IInv, [Next]_vars
    PROVE  IInv' /\ EndedRowsKept
<1>1. ASSUME IInv', NEW E, JobsStep(E)
      PROVE  IInv' /\ EndedRowsKept
  BY <1>1 DEF JobsStep, JobsTo, EndedRowsKept
<1>2. CASE \E c \in Causes : IngestEvent(c) \/ ScheduleSelf(c) \/ CancelSelf(c)
  BY <1>1, <1>2, IncomingStep, CancelSelfStep
<1>3. CASE \E t \in DOMAIN resv : ReconcileReservation(t)
  BY <1>1, <1>3, ReconcileStep
<1>4. CASE \E j \in DOMAIN job : Bury(j) \/ AbandonedLeaseExpires(j) \/ StalledLeaseExpires(j)
  BY <1>1, <1>4, BuryStep, LeaseStep
<1>5. CASE \E w \in Workers : Progress(w)
  BY <1>5, ProgressStep
<1>6. CASE \E w \in Workers : Disturb(w)
  BY <1>1, <1>6, ReservedStep, EndStep, CancelledTurnStep DEF Disturb
<1>7. CASE UNCHANGED vars
  <2>1. UNCHANGED <<job, resv, wallet, incurred, worker, faults>>
    BY <1>7 DEF vars
  <2>2. JobsStep({})
    BY <2>1, SameTable DEF JobsStep, IInv, TypeOK
  <2>. QED  BY <1>1, <2>1, <2>2, JobsOnlyStep
<1>. QED  BY <1>2, <1>3, <1>4, <1>5, <1>6, <1>7 DEF Next

LEMMA InitIInv == Init => IInv
<1>. SUFFICES ASSUME Init PROVE IInv
  OBVIOUS
<1>1. TypeOK
  <2>1. JobsTyped /\ MoneyTyped
    BY DEF Init, JobsTyped, MoneyTyped
  <2>2. NoTurn \in (Paths \cup {<<>>}) \X Nat /\ "none" \in Errors
    BY DEF NoTurn, Errors
  <2>3. WorkersTyped
    <3>. HIDE DEF NoTurn
    <3>. QED  BY <2>2 DEF Init, WorkersTyped
  <2>. QED  BY <2>1, <2>3 DEF TypeOK, Init
<1>2. LiveExclusive /\ UniqueTurns /\ FrozenIsIdle
  BY DEF Init, LiveExclusive, UniqueTurns, FrozenIsIdle
<1>3. Points /\ Unacknowledged
  BY DEF Init, Points, PointsOf, Unacknowledged, UnacknowledgedOf
<1>4. HeldByLastTurn /\ CompletedIsSettled
  BY DEF Init, HeldByLastTurn, CompletedIsSettled
<1>. QED  BY <1>1, <1>2, <1>3, <1>4 DEF IInv

-----------------------------------------------------------------------------
(* The theorems.                                                           *)

(* The inductive invariant holds in every state of every behaviour of the  *)
(* turn store: how claims, reservations and the workers' knowledge of them *)
(* hang together.                                                          *)
THEOREM TurnsInductive == Spec => []IInv
<1>1. IInv /\ [Next]_vars => IInv'
  BY NextStep
<1>. QED  BY InitIInv, <1>1, PTL DEF Spec

(* Every variable of the turn store keeps its shape and every reference    *)
(* its target, and no job is claimed more often than max_attempts.         *)
THEOREM TurnsTyped == Spec => []TypeOK
<1>1. IInv => TypeOK
  BY DEF IInv
<1>. QED  BY TurnsInductive, <1>1, PTL

(* claim, expiry and retry never give a franchise two live turns or two    *)
(* valid claims.                                                           *)
THEOREM OneTurnPerFranchise == Spec => []OneLiveTurn
<1>1. IInv => OneLiveTurn
  <2>. SUFFICES ASSUME IInv PROVE OneLiveTurn
    OBVIOUS
  <2>1. \A j, k \in DOMAIN job :
           AgentOf(j) = AgentOf(k) /\ IsLive(job[j]) /\ IsLive(job[k]) => j = k
    BY DEF IInv, LiveExclusive
  <2>2. ASSUME NEW v \in Workers, NEW w \in Workers, pc[v] # "idle", pc[w] # "idle",
               ValidClaim(v), ValidClaim(w), AgentOf(turn[v][1]) = AgentOf(turn[w][1])
        PROVE  v = w
    <3>1. turn[v][1] \in DOMAIN job /\ turn[w][1] \in DOMAIN job
      BY <2>2, TurnFacts
    <3>2. turn[v][1] = turn[w][1]
      BY <2>1, <2>2, <3>1 DEF ValidClaim, IsLive
    <3>3. turn[v][2] = turn[w][2]
      BY <2>2, <3>2 DEF ValidClaim
    <3>4. turn[v] = turn[w]
      <4>1. turn[v] = <<turn[v][1], turn[v][2]>> /\ turn[w] = <<turn[w][1], turn[w][2]>>
        BY <2>2, TurnFacts
      <4>. QED  BY <3>2, <3>3, <4>1
    <3>. QED  BY <2>2, <3>4 DEF IInv, UniqueTurns
  <2>. QED  BY <2>1, <2>2 DEF OneLiveTurn, IsLive
<1>. QED  BY TurnsInductive, <1>1, PTL

(* A frozen franchise never has a live turn, so a freeze by settleOverrun  *)
(* or by the operator's reconciliation overtakes no turn under way.        *)
THEOREM NoFreezeMidTurn == Spec => []FrozenIsIdle
<1>1. IInv => FrozenIsIdle
  BY DEF IInv
<1>. QED  BY TurnsInductive, <1>1, PTL

(* A completed job was completed by its last turn, and no turn of it is    *)
(* still held as reserved: a fenced-off worker's decision has no effect.   *)
THEOREM CompletedOnce == Spec => []CompletedByItsLastTurn
<1>1. IInv => CompletedByItsLastTurn
  BY DEF IInv, CompletedIsSettled, HeldByLastTurn, CompletedByItsLastTurn, TypeOK, MoneyTyped
<1>. QED  BY TurnsInductive, <1>1, PTL

(* When the acknowledgement of reserve's commit cannot get lost, money     *)
(* that is held as reserved belongs to a running turn; all other holds are *)
(* in doubt, where reconcileReservation accepts them.                      *)
THEOREM HeldMoneyResolvable ==
    ASSUME LostAcks = FALSE
    PROVE  Spec => []HeldMoneyIsResolvable
<1>1. IInv => HeldMoneyIsResolvable
  BY DEF IInv, HeldByLastTurn, HeldMoneyIsResolvable
<1>. QED  BY TurnsInductive, <1>1, PTL

(* No step of a claim, a late worker, a cancellation or the operator       *)
(* changes a job that has ended.                                           *)
THEOREM EndedStaysEnded == Spec => TerminalIsFinal
<1>1. IInv /\ [Next]_vars =>
         [\A j \in DOMAIN job : job[j].status \in Terminal => job'[j] = job[j]]_vars
  BY NextStep DEF EndedRowsKept
<1>. QED  BY TurnsInductive, <1>1, PTL DEF Spec, TerminalIsFinal

-----------------------------------------------------------------------------
(* What is known of charges.                                               *)

\* The provider charges a turn once; what the store records of it is that.
PriceOf(t) ==
    /\ resv[t].observed # Unknown => t \in DOMAIN incurred /\ resv[t].observed = incurred[t]
    /\ resv[t].status = "settled" => t \in DOMAIN incurred /\ resv[t].actual = incurred[t]
    /\ resv[t].status = "released" /\ t \in DOMAIN incurred => incurred[t] = 0

\* Before its model call a turn has cost nothing, its reservation is not
\* released under it, and what the worker believes of the charge is so.
BillOf(w) ==
    /\ pc[w] = "claimed" => turn[w] \notin DOMAIN resv
    /\ pc[w] = "reserved" => turn[w] \notin DOMAIN incurred
    /\ pc[w] # "idle" /\ turn[w] \in DOMAIN resv => resv[turn[w]].status # "released"
    /\ error[w] = "knownZero" =>
          pc[w] = "failing" /\ turn[w] \in DOMAIN incurred /\ incurred[turn[w]] = 0
    /\ pc[w] = "overrun" => incurred[turn[w]] > MaxCost

Prices == \A t \in DOMAIN resv : PriceOf(t)
Bills == \A w \in Workers : BillOf(w)

-----------------------------------------------------------------------------
(* What a step may do to reservations and charges.                         *)

\* Rows that change still tell the price; only turns in T are new or are
\* released.
PricedStep(T) ==
    /\ DOMAIN resv \subseteq DOMAIN resv' /\ DOMAIN resv' \subseteq DOMAIN resv \cup T
    /\ \A t \in DOMAIN resv' :
          \/ t \in DOMAIN resv /\ resv'[t] = resv[t]
          \/ PriceOf(t)' /\ (resv'[t].status = "released" => t \in T)

\* A charge is never revised; only turns in T are charged.
ChargedStep(T) ==
    /\ DOMAIN incurred \subseteq DOMAIN incurred' /\ DOMAIN incurred' \subseteq DOMAIN incurred \cup T
    /\ \A t \in DOMAIN incurred : incurred'[t] = incurred[t]

LEMMA ChargesKept ==
    ASSUME IInv, Prices, Bills, NEW M \in SUBSET Workers,
           \A v \in Workers \ M : pc'[v] = pc[v] /\ turn'[v] = turn[v] /\ error'[v] = error[v],
           NEW T, \A t \in T : \E w \in M : pc[w] # "idle" /\ t = turn[w],
           NEW C, \A t \in C : t \in T /\ \E w \in M : pc[w] = "reserved" /\ t = turn[w],
           PricedStep(T), ChargedStep(C),
           \A w \in M : BillOf(w)'
    PROVE  Prices' /\ Bills'
<1>1. Prices'
  <2>. SUFFICES ASSUME NEW t \in DOMAIN resv', t \in DOMAIN resv, resv'[t] = resv[t]
                PROVE  PriceOf(t)'
    BY DEF Prices, PricedStep
  <2>1. PriceOf(t)
    BY DEF Prices
  <2>2. CASE t \in DOMAIN incurred
    BY <2>1, <2>2 DEF PriceOf, ChargedStep
  <2>3. CASE t \notin DOMAIN incurred'
    BY <2>1, <2>3 DEF PriceOf, ChargedStep
  <2>4. CASE t \in C /\ t \notin DOMAIN incurred
    <3>1. PICK w \in M : pc[w] = "reserved" /\ t = turn[w]
      BY <2>4
    <3>2. resv[t].status # "released"
      BY <3>1 DEF Bills, BillOf
    <3>. QED  BY <2>1, <2>4, <3>2 DEF PriceOf
  <2>. QED  BY <2>2, <2>3, <2>4 DEF ChargedStep
<1>2. ASSUME NEW v \in Workers \ M
      PROVE  BillOf(v)'
  <2>1. pc'[v] = pc[v] /\ turn'[v] = turn[v] /\ error'[v] = error[v] /\ BillOf(v)
    BY DEF Bills
  <2>2. CASE pc[v] = "idle"
    BY <2>1, <2>2 DEF BillOf
  <2>3. CASE pc[v] # "idle"
    <3>1. turn[v] \notin T /\ turn[v] \notin C
      BY <2>3 DEF IInv, UniqueTurns
    <3>2. turn[v] \in DOMAIN resv' => turn[v] \in DOMAIN resv
      BY <3>1 DEF PricedStep
    <3>3. turn[v] \in DOMAIN incurred' => turn[v] \in DOMAIN incurred
      BY <3>1 DEF ChargedStep
    <3>4. turn[v] \in DOMAIN resv' => resv'[turn[v]].status # "released"
      BY <2>1, <2>3, <3>1, <3>2 DEF PricedStep, BillOf
    <3>5. turn[v] \in DOMAIN incurred =>
             turn[v] \in DOMAIN incurred' /\ incurred'[turn[v]] = incurred[turn[v]]
      BY DEF ChargedStep
    <3>6. pc[v] = "overrun" => turn[v] \in DOMAIN incurred
      BY DEF IInv, Points, PointsOf
    <3>. QED  BY <2>1, <2>3, <3>2, <3>3, <3>4, <3>5, <3>6 DEF BillOf
  <2>. QED  BY <2>2, <2>3
<1>. QED  BY <1>1, <1>2 DEF Bills

LEMMA SamePrices ==
    ASSUME UNCHANGED resv, NEW T
    PROVE  PricedStep(T)
BY DEF PricedStep

LEMMA SameCharges ==
    ASSUME UNCHANGED incurred, NEW T
    PROVE  ChargedStep(T)
BY DEF ChargedStep

\* A settlement at what the provider charged.
LEMMA SettledPrices ==
    ASSUME MoneyTyped, Prices, NEW t \in DOMAIN resv, t \in DOMAIN incurred,
           resv' = Settled(t, incurred[t]), UNCHANGED incurred
    PROVE  PricedStep({}) /\ resv'[t].status = "settled" /\ resv'[t].actual = incurred[t]
<1>1. DOMAIN resv' = DOMAIN resv /\ \A r \in DOMAIN resv \ {t} : resv'[r] = resv[r]
  BY DEF Settled
<1>2. resv[t] \in Reservations
  BY DEF MoneyTyped
<1>3. /\ resv'[t].status = "settled" /\ resv'[t].actual = incurred[t]
      /\ resv'[t].observed = resv[t].observed
  BY <1>2 DEF Settled, Reservations
<1>4. PriceOf(t)'
  BY <1>3 DEF Prices, PriceOf
<1>. QED  BY <1>1, <1>3, <1>4 DEF PricedStep

LEMMA InDoubtPrices ==
    ASSUME MoneyTyped, Prices, NEW t, resv' = InDoubt(t), UNCHANGED incurred
    PROVE  PricedStep({})
<1>1. DOMAIN resv' = DOMAIN resv
  BY DEF InDoubt
<1>2. ASSUME NEW r \in DOMAIN resv, resv'[r] # resv[r]
      PROVE  PriceOf(r)' /\ resv'[r].status # "released"
  <2>1. resv[r] \in Reservations
    BY DEF MoneyTyped
  <2>2. resv'[r] = [resv[r] EXCEPT !.status = "uncertain"]
    BY <1>2 DEF InDoubt
  <2>3. resv'[r].status = "uncertain" /\ resv'[r].observed = resv[r].observed
    BY <2>1, <2>2 DEF Reservations
  <2>. QED  BY <2>3 DEF Prices, PriceOf
<1>. QED  BY <1>1, <1>2 DEF PricedStep

\* A turn is released only if it cost nothing.
LEMMA ReleasedPrices ==
    ASSUME MoneyTyped, Prices, NEW t \in DOMAIN resv, t \in DOMAIN incurred => incurred[t] = 0,
           resv[t].status = "reserved",
           resv' = [resv EXCEPT ![t].status = "released"], UNCHANGED incurred
    PROVE  PricedStep({t})
<1>1. resv[t] \in Reservations /\ PriceOf(t)
  BY DEF MoneyTyped, Prices
<1>2. /\ DOMAIN resv' = DOMAIN resv /\ \A r \in DOMAIN resv \ {t} : resv'[r] = resv[r]
      /\ resv'[t] = [resv[t] EXCEPT !.status = "released"]
  OBVIOUS
<1>3. resv'[t].status = "released" /\ resv'[t].observed = resv[t].observed
  BY <1>1, <1>2 DEF Reservations
<1>4. PriceOf(t)'
  BY <1>1, <1>3 DEF PriceOf
<1>. QED  BY <1>2, <1>4 DEF PricedStep

LEMMA DoneBill ==
    ASSUME WorkersTyped, NEW w \in Workers, Done(w)
    PROVE  /\ BillOf(w)'
           /\ \A v \in Workers \ {w} : pc'[v] = pc[v] /\ turn'[v] = turn[v] /\ error'[v] = error[v]
<1>1. pc'[w] = "idle" /\ error'[w] = "none"
  BY DEF WorkersTyped, Done, Goto
<1>2. \A v \in Workers \ {w} : pc'[v] = pc[v] /\ turn'[v] = turn[v] /\ error'[v] = error[v]
  BY DEF WorkersTyped, Done, Goto
<1>. QED  BY <1>1, <1>2 DEF BillOf

\* A worker that moves on with its turn.
LEMMA MovedBill ==
    ASSUME WorkersTyped, NEW w \in Workers, NEW where, Goto(w, where), UNCHANGED turn,
           NEW err \in Errors, error' = [error EXCEPT ![w] = err]
    PROVE  /\ pc'[w] = where /\ turn'[w] = turn[w] /\ error'[w] = err
           /\ \A v \in Workers \ {w} : pc'[v] = pc[v] /\ turn'[v] = turn[v] /\ error'[v] = error[v]
BY DEF WorkersTyped, Goto

-----------------------------------------------------------------------------
(* Every step keeps prices and bills.                                      *)

Charges == Prices /\ Bills

\* The tables of money and the workers are left alone.
LEMMA CalmCharges ==
    ASSUME IInv, Charges, UNCHANGED <<resv, incurred, worker>>
    PROVE  Charges'
<1>1. PricedStep({}) /\ ChargedStep({})
  BY SamePrices, SameCharges
<1>2. \A v \in Workers : pc'[v] = pc[v] /\ turn'[v] = turn[v] /\ error'[v] = error[v]
  BY DEF worker
<1>. QED  BY <1>1, <1>2, ChargesKept DEF Charges

\* Only one worker moves, and only its turn changes.
LEMMA WorkerCharges ==
    ASSUME IInv, Charges, NEW w \in Workers,
           \A v \in Workers \ {w} : pc'[v] = pc[v] /\ turn'[v] = turn[v] /\ error'[v] = error[v],
           PricedStep({}) \/ (pc[w] # "idle" /\ PricedStep({turn[w]})),
           ChargedStep({}) \/ (pc[w] = "reserved" /\ ChargedStep({turn[w]})),
           BillOf(w)'
    PROVE  Charges'
<1>. DEFINE T == IF pc[w] = "idle" THEN {} ELSE {turn[w]}
            C == IF pc[w] = "reserved" THEN {turn[w]} ELSE {}
<1>1. PricedStep(T)
  BY DEF PricedStep
<1>2. ChargedStep(C)
  BY DEF ChargedStep
<1>3. \A t \in T : \E v \in {w} : pc[v] # "idle" /\ t = turn[v]
  OBVIOUS
<1>4. \A t \in C : t \in T /\ \E v \in {w} : pc[v] = "reserved" /\ t = turn[v]
  OBVIOUS
<1>5. \A v \in {w} : BillOf(v)'
  OBVIOUS
<1>6. {w} \in SUBSET Workers /\ Prices /\ Bills
  BY DEF Charges
<1>. HIDE DEF T, C
<1>7. Prices' /\ Bills'
  BY <1>1, <1>2, <1>3, <1>4, <1>5, <1>6, ChargesKept
<1>. QED  BY <1>7 DEF Charges

\* A worker ends its turn; what it knew of is settled or stays.
LEMMA EndedCharges ==
    ASSUME IInv, Charges, NEW w \in Workers, pc[w] # "idle", Done(w),
           PricedStep({turn[w]}), UNCHANGED incurred
    PROVE  Charges'
<1>1. ChargedStep({})
  BY SameCharges
<1>2. /\ BillOf(w)'
      /\ \A v \in Workers \ {w} : pc'[v] = pc[v] /\ turn'[v] = turn[v] /\ error'[v] = error[v]
  BY DoneBill DEF IInv, TypeOK
<1>. QED  BY <1>1, <1>2, WorkerCharges

LEMMA MorePriced ==
    ASSUME NEW T, PricedStep({})
    PROVE  PricedStep(T)
BY DEF PricedStep

\* A worker moves on without touching the money.
LEMMA MovedCharges ==
    ASSUME IInv, Charges, NEW w \in Workers, pc[w] # "idle",
           UNCHANGED <<resv, incurred, turn>>,
           NEW where \in {"failing", "returned"}, Goto(w, where),
           NEW err \in Errors, error' = [error EXCEPT ![w] = err],
           err = "knownZero" =>
               where = "failing" /\ turn[w] \in DOMAIN incurred /\ incurred[turn[w]] = 0
    PROVE  Charges'
<1>1. PricedStep({}) /\ ChargedStep({})
  BY SamePrices, SameCharges
<1>2. /\ pc'[w] = where /\ turn'[w] = turn[w] /\ error'[w] = err
      /\ \A v \in Workers \ {w} : pc'[v] = pc[v] /\ turn'[v] = turn[v] /\ error'[v] = error[v]
  BY MovedBill DEF IInv, TypeOK
<1>3. BillOf(w)'
  BY <1>2 DEF Charges, Bills, BillOf
<1>. QED  BY <1>1, <1>2, <1>3, WorkerCharges

LEMMA ExpiredPrices ==
    ASSUME IInv, Charges, NEW j, Expired(j), UNCHANGED incurred
    PROVE  PricedStep({})
BY SamePrices, InDoubtPrices DEF Expired, IInv, TypeOK, Charges

LEMMA ClaimCharges ==
    ASSUME IInv, Charges, NEW w \in Workers, NEW j \in DOMAIN job, Claim(w, j)
    PROVE  Charges'
<1>. DEFINE t == <<j, job[j].fence + 1>>
<1>1. /\ pc[w] = "idle" /\ Expired(j) /\ UNCHANGED <<incurred, error>>
      /\ pc' = [pc EXCEPT ![w] = "claimed"] /\ turn' = [turn EXCEPT ![w] = t]
  BY DEF Claim, Goto
<1>2. PricedStep({}) /\ ChargedStep({})
  BY <1>1, ExpiredPrices, SameCharges
<1>3. /\ pc'[w] = "claimed" /\ turn'[w] = t /\ error'[w] = error[w]
      /\ \A v \in Workers \ {w} : pc'[v] = pc[v] /\ turn'[v] = turn[v] /\ error'[v] = error[v]
  BY <1>1 DEF IInv, TypeOK, WorkersTyped
<1>4. t \notin DOMAIN resv
  <2>1. job[j].fence \in Nat
    BY NumbersAssumption DEF IInv, TypeOK, JobsTyped, JobRows
  <2>. QED  BY <2>1 DEF IInv, TypeOK, MoneyTyped
<1>5. t \notin DOMAIN resv'
  BY <1>2, <1>4 DEF PricedStep
<1>6. error[w] # "knownZero"
  BY <1>1 DEF Charges, Bills, BillOf
<1>. HIDE DEF t
<1>7. BillOf(w)'
  BY <1>3, <1>5, <1>6 DEF BillOf
<1>. QED  BY <1>2, <1>3, <1>7, WorkerCharges

LEMMA ReservedCharges ==
    ASSUME IInv, Charges, NEW w \in Workers, Reserve(w) \/ ReserveUnacknowledged(w)
    PROVE  Charges'
<1>. DEFINE t == turn[w]
            new == [status |-> "reserved", actual |-> Unknown, observed |-> Unknown]
<1>1. /\ pc[w] = "claimed" /\ UNCHANGED incurred
      /\ resv' = [r \in DOMAIN resv \cup {t} |-> IF r \in DOMAIN resv THEN resv[r] ELSE new]
  BY DEF Reserve, ReserveUnacknowledged, Reserved
<1>2. t \notin DOMAIN resv /\ error[w] # "knownZero"
  BY <1>1 DEF Charges, Bills, BillOf
<1>3. t \notin DOMAIN incurred
  BY <1>2 DEF IInv, TypeOK, MoneyTyped
<1>4. /\ new.status = "reserved" /\ new.observed = Unknown
  OBVIOUS
<1>. HIDE DEF new
<1>5. /\ DOMAIN resv' = DOMAIN resv \cup {t} /\ resv'[t] = new
      /\ \A r \in DOMAIN resv : resv'[r] = resv[r]
  BY <1>1, <1>2
<1>6. PricedStep({t}) /\ ChargedStep({})
  BY <1>1, <1>4, <1>5, SameCharges DEF PricedStep, PriceOf
<1>7. \E where \in {"reserved", "failing"}, err \in Errors \ {"knownZero"} :
         /\ Goto(w, where) /\ UNCHANGED turn /\ error' = [error EXCEPT ![w] = err]
  <2>1. error = [error EXCEPT ![w] = error[w]] /\ error[w] \in Errors
    BY DEF IInv, TypeOK, WorkersTyped
  <2>2. "other" \in Errors \ {"knownZero"}
    BY DEF Errors
  <2>3. CASE Reserve(w)
    BY <1>2, <2>1, <2>3 DEF Reserve
  <2>4. CASE ReserveUnacknowledged(w)
    BY <2>2, <2>4 DEF ReserveUnacknowledged, Throw
  <2>. QED  BY <2>3, <2>4
<1>8. PICK where \in {"reserved", "failing"}, err \in Errors \ {"knownZero"} :
         /\ Goto(w, where) /\ UNCHANGED turn /\ error' = [error EXCEPT ![w] = err]
  BY <1>7
<1>9. /\ pc'[w] = where /\ turn'[w] = turn[w] /\ error'[w] = err
      /\ \A v \in Workers \ {w} : pc'[v] = pc[v] /\ turn'[v] = turn[v] /\ error'[v] = error[v]
  BY <1>8, MovedBill DEF IInv, TypeOK
<1>10. BillOf(w)'
  BY <1>1, <1>3, <1>4, <1>5, <1>9 DEF BillOf
<1>. QED  BY <1>1, <1>6, <1>9, <1>10, WorkerCharges

LEMMA InvokeCharges ==
    ASSUME IInv, Charges, NEW w \in Workers, NEW cost \in 0..(MaxCost + 1), Invoke(w, cost)
    PROVE  Charges'
<1>. DEFINE t == turn[w]
<1>1. /\ pc[w] = "reserved" /\ Goto(w, "running") /\ UNCHANGED <<resv, turn, error>>
      /\ incurred' = [r \in DOMAIN incurred \cup {t} |-> IF r = t THEN cost ELSE incurred[r]]
  BY DEF Invoke, store
<1>2. t \notin DOMAIN incurred /\ error[w] # "knownZero"
  BY <1>1 DEF Charges, Bills, BillOf
<1>3. PricedStep({t}) /\ ChargedStep({t})
  BY <1>1, <1>2, SamePrices DEF ChargedStep
<1>4. error = [error EXCEPT ![w] = error[w]] /\ error[w] \in Errors
  BY DEF IInv, TypeOK, WorkersTyped
<1>5. /\ pc'[w] = "running" /\ turn'[w] = turn[w] /\ error'[w] = error[w]
      /\ \A v \in Workers \ {w} : pc'[v] = pc[v] /\ turn'[v] = turn[v] /\ error'[v] = error[v]
  BY <1>1, <1>4, MovedBill DEF IInv, TypeOK
<1>6. BillOf(w)'
  BY <1>1, <1>2, <1>5 DEF Charges, Bills, BillOf
<1>. QED  BY <1>1, <1>3, <1>5, <1>6, WorkerCharges

LEMMA ObserveCharges ==
    ASSUME IInv, Charges, NEW w \in Workers, ObserveCost(w)
    PROVE  Charges'
<1>. DEFINE t == turn[w]
<1>1. /\ pc[w] = "returned" /\ UNCHANGED <<incurred, turn, error>>
      /\ resv' = [resv EXCEPT ![t].observed = incurred[t]]
  BY DEF ObserveCost
<1>2. PICK where \in {"overrun", "deciding", "failing"} :
         Goto(w, where) /\ (where = "overrun" => incurred[t] > MaxCost)
  BY DEF ObserveCost
<1>3. t \in DOMAIN resv /\ t \in DOMAIN incurred
  BY <1>1 DEF IInv, Points, PointsOf
<1>4. resv[t] \in Reservations /\ PriceOf(t) /\ BillOf(w)
  BY <1>3 DEF Charges, Prices, Bills, IInv, TypeOK, MoneyTyped
<1>5. /\ DOMAIN resv' = DOMAIN resv /\ \A r \in DOMAIN resv \ {t} : resv'[r] = resv[r]
      /\ resv'[t] = [resv[t] EXCEPT !.observed = incurred[t]]
  BY <1>1, <1>3
<1>6. /\ resv'[t].status = resv[t].status /\ resv'[t].actual = resv[t].actual
      /\ resv'[t].observed = incurred[t]
  BY <1>4, <1>5 DEF Reservations
<1>7. PriceOf(t)'
  BY <1>1, <1>3, <1>4, <1>6 DEF PriceOf
<1>8. PricedStep({t}) /\ ChargedStep({})
  BY <1>1, <1>5, <1>7, SameCharges DEF PricedStep
<1>9. error = [error EXCEPT ![w] = error[w]] /\ error[w] \in Errors
  BY DEF IInv, TypeOK, WorkersTyped
<1>10. /\ pc'[w] = where /\ turn'[w] = turn[w] /\ error'[w] = error[w]
       /\ \A v \in Workers \ {w} : pc'[v] = pc[v] /\ turn'[v] = turn[v] /\ error'[v] = error[v]
  BY <1>1, <1>2, <1>9, MovedBill DEF IInv, TypeOK
<1>11. BillOf(w)'
  BY <1>1, <1>2, <1>4, <1>5, <1>6, <1>10 DEF BillOf
<1>. QED  BY <1>1, <1>8, <1>10, <1>11, WorkerCharges

\* What fail does to the reservation is true to the charge.
LEMMA ReleaseCharges ==
    ASSUME IInv, Charges, NEW w \in Workers, pc[w] = "failing", holds[w] => Unsettled(w),
           Release(w), UNCHANGED incurred
    PROVE  PricedStep({turn[w]})
<1>. DEFINE t == turn[w]
<1>1. CASE ~holds[w]
  BY <1>1, SamePrices DEF Release
<1>2. ASSUME holds[w]
      PROVE  t \in DOMAIN resv /\ resv[t].status = "reserved" /\ resv[t] \in Reservations /\ PriceOf(t)
  BY <1>2 DEF IInv, Points, PointsOf, Unsettled, TypeOK, MoneyTyped, Charges, Prices
<1>3. CASE holds[w] /\ CostObserved(w)
  <2>1. t \in DOMAIN incurred /\ resv' = Settled(t, incurred[t])
    BY <1>2, <1>3 DEF Release, CostObserved, PriceOf
  <2>. QED  BY <1>2, <1>3, <2>1, SettledPrices, MorePriced DEF IInv, TypeOK, Charges
<1>4. CASE holds[w] /\ ~CostObserved(w) /\ KnownFree(w)
  <2>1. resv' = [resv EXCEPT ![t].status = "released"]
    BY <1>4 DEF Release
  <2>2. t \in DOMAIN incurred => incurred[t] = 0
    BY <1>4 DEF KnownFree, Charges, Bills, BillOf
  <2>. QED  BY <1>2, <1>4, <2>1, <2>2, ReleasedPrices DEF IInv, TypeOK, Charges
<1>5. CASE holds[w] /\ ~CostObserved(w) /\ ~KnownFree(w)
  <2>1. resv' = InDoubt(t)
    BY <1>5 DEF Release
  <2>. QED  BY <2>1, InDoubtPrices, MorePriced DEF IInv, TypeOK, Charges
<1>. QED  BY <1>1, <1>3, <1>4, <1>5

\* A turn that reports its cost is settled at it.
LEMMA SettledCharges ==
    ASSUME IInv, Charges, NEW w \in Workers, pc[w] \in {"overrun", "deciding"},
           resv' = Settled(turn[w], incurred[turn[w]]), Done(w), UNCHANGED incurred
    PROVE  Charges'
<1>1. turn[w] \in DOMAIN resv /\ turn[w] \in DOMAIN incurred
  BY DEF IInv, Points, PointsOf
<1>2. PricedStep({turn[w]})
  BY <1>1, SettledPrices, MorePriced DEF IInv, TypeOK, Charges
<1>. QED  BY <1>2, EndedCharges

LEMMA ProgressCharges ==
    ASSUME IInv, Charges, NEW w \in Workers, Progress(w)
    PROVE  Charges'
<1>1. CASE \E j \in DOMAIN job : Claim(w, j)
  BY <1>1, ClaimCharges
<1>2. CASE Reserve(w)
  BY <1>2, ReservedCharges
<1>3. CASE \E cost \in 0..(MaxCost + 1) : Invoke(w, cost)
  BY <1>3, InvokeCharges
<1>4. CASE ObserveCost(w)
  BY <1>4, ObserveCharges
<1>5. CASE SettleOverrun(w)
  <2>1. /\ pc[w] = "overrun" /\ resv' = Settled(turn[w], incurred[turn[w]])
        /\ Done(w) /\ UNCHANGED incurred
    BY <1>5 DEF SettleOverrun
  <2>. QED  BY <2>1, SettledCharges
<1>6. CASE \E D \in SUBSET StaffTags, S, C \in SUBSET Causes : Complete(w, D, S, C)
  <2>1. /\ pc[w] = "deciding" /\ resv' = Settled(turn[w], incurred[turn[w]])
        /\ Done(w) /\ UNCHANGED incurred
    BY <1>6 DEF Complete
  <2>. QED  BY <2>1, SettledCharges
<1>7. CASE Fail(w)
  <2>1. /\ pc[w] = "failing" /\ (holds[w] => Unsettled(w)) /\ Release(w)
        /\ Done(w) /\ UNCHANGED incurred
    BY <1>7 DEF Fail
  <2>2. PricedStep({turn[w]})
    BY <2>1, ReleaseCharges
  <2>. QED  BY <2>1, <2>2, EndedCharges
<1>8. CASE ReserveRefused(w) \/ NotInvoked(w) \/ DecisionRefused(w)
  <2>1. /\ pc[w] # "idle" /\ Goto(w, "failing") /\ error' = [error EXCEPT ![w] = "other"]
        /\ UNCHANGED <<resv, incurred, turn>>
    BY <1>8 DEF ReserveRefused, NotInvoked, DecisionRefused, Throw, store
  <2>2. "other" \in Errors
    BY DEF Errors
  <2>. QED  BY <2>1, <2>2, MovedCharges
<1>9. CASE Return(w)
  <2>1. PICK err \in {"none", "other"} :
           /\ pc[w] # "idle" /\ Goto(w, "returned") /\ error' = [error EXCEPT ![w] = err]
           /\ UNCHANGED <<resv, incurred, turn>>
    BY <1>9 DEF Return, store
  <2>2. err \in Errors /\ err # "knownZero"
    BY DEF Errors
  <2>. QED  BY <2>1, <2>2, MovedCharges
<1>10. CASE \E err \in {"knownZero", "retryable", "other"} : DriverThrows(w, err)
  <2>1. PICK err \in {"knownZero", "retryable", "other"} :
           /\ pc[w] = "running" /\ Goto(w, "failing") /\ error' = [error EXCEPT ![w] = err]
           /\ UNCHANGED <<resv, incurred, turn>>
           /\ err = "knownZero" => incurred[turn[w]] = 0
    BY <1>10 DEF DriverThrows, Throw, store
  <2>2. err \in Errors
    BY DEF Errors
  <2>3. turn[w] \in DOMAIN incurred
    BY <2>1 DEF IInv, Points, PointsOf
  <2>. QED  BY <2>1, <2>2, <2>3, MovedCharges
<1>11. CASE Stale(w) \/ GiveUp(w)
  <2>1. pc[w] # "idle" /\ Done(w) /\ UNCHANGED <<resv, incurred>>
    BY <1>11 DEF Stale, GiveUp, store
  <2>. QED  BY <2>1, SamePrices, EndedCharges
<1>. QED
  BY <1>1, <1>2, <1>3, <1>4, <1>5, <1>6, <1>7, <1>8, <1>9, <1>10, <1>11 DEF Progress

LEMMA DisturbCharges ==
    ASSUME IInv, Charges, NEW w \in Workers, Disturb(w)
    PROVE  Charges'
<1>1. CASE ReserveUnacknowledged(w)
  BY <1>1, ReservedCharges
<1>2. CASE HeartbeatFails(w) \/ Abort(w)
  <2>1. UNCHANGED <<resv, incurred, pc, turn, error>>
    BY <1>2 DEF HeartbeatFails, Abort, store
  <2>2. BillOf(w)'
    BY <2>1 DEF Charges, Bills, BillOf
  <2>. QED  BY <2>1, <2>2, SamePrices, SameCharges, WorkerCharges
<1>3. CASE Crash(w)
  <2>1. pc[w] # "idle" /\ Done(w) /\ UNCHANGED <<resv, incurred>>
    BY <1>3 DEF Crash, store
  <2>. QED  BY <2>1, SamePrices, EndedCharges
<1>. QED  BY <1>1, <1>2, <1>3 DEF Disturb

LEMMA ChargesStep ==
    ASSUME IInv, Charges, [Next]_vars
    PROVE  Charges'
<1>1. ASSUME PricedStep({}), UNCHANGED <<incurred, worker>>
      PROVE  Charges'
  <2>1. \A v \in Workers : pc'[v] = pc[v] /\ turn'[v] = turn[v] /\ error'[v] = error[v]
    BY <1>1 DEF worker
  <2>. QED  BY <1>1, <2>1, SameCharges, ChargesKept DEF Charges
<1>2. CASE \E c \in Causes : IngestEvent(c) \/ ScheduleSelf(c) \/ CancelSelf(c)
  BY <1>2, CalmCharges DEF IngestEvent, ScheduleSelf, CancelSelf
<1>3. CASE \E t \in DOMAIN resv : ReconcileReservation(t)
  <2>1. PICK t \in DOMAIN resv : ReconcileReservation(t)
    BY <1>3
  <2>2. /\ t \in DOMAIN incurred /\ resv' = Settled(t, incurred[t])
        /\ UNCHANGED <<incurred, worker>>
    BY <2>1 DEF ReconcileReservation, Reconcilable
  <2>. QED  BY <1>1, <2>2, SettledPrices DEF IInv, TypeOK, Charges
<1>4. CASE \E j \in DOMAIN job : Bury(j)
  BY <1>1, <1>4, ExpiredPrices DEF Bury
<1>5. CASE \E j \in DOMAIN job : AbandonedLeaseExpires(j) \/ StalledLeaseExpires(j)
  BY <1>5, CalmCharges DEF AbandonedLeaseExpires, StalledLeaseExpires, LeaseExpires
<1>6. CASE \E w \in Workers : Progress(w) \/ Disturb(w)
  BY <1>6, ProgressCharges, DisturbCharges
<1>7. CASE UNCHANGED vars
  BY <1>7, CalmCharges DEF vars
<1>. QED  BY <1>2, <1>3, <1>4, <1>5, <1>6, <1>7 DEF Next

LEMMA InitCharges == Init => Charges
BY DEF Init, Charges, Prices, Bills, BillOf

(* What the store books is what the provider charged. *)
THEOREM ChargesTrue == Spec => []Charges
<1>1. IInv /\ Charges /\ [Next]_vars => Charges'
  BY ChargesStep
<1>. QED  BY InitCharges, <1>1, TurnsInductive, PTL DEF Spec

-----------------------------------------------------------------------------
(* The books.                                                              *)

Countable == \A a \in Agents : IsFiniteSet(Held(a)) /\ IsFiniteSet(PaidUnits(a))

Books == BooksBalance /\ BudgetHolds /\ Countable

\* Only turn t is new, or is no longer what it was.
OnlyTurn(t) ==
    /\ \A r : r # t => (r \in DOMAIN resv <=> r \in DOMAIN resv')
    /\ \A r \in DOMAIN resv :
          r # t => resv'[r].status = resv[r].status /\ resv'[r].actual = resv[r].actual

LEMMA TimesNext ==
    ASSUME NEW k \in Int
    PROVE  MaxCost * (k + 1) = MaxCost * k + MaxCost /\ MaxCost * (k - 1) = MaxCost * k - MaxCost
BY NumbersAssumption

LEMMA UnitsCount ==
    ASSUME NEW t, NEW cost \in Nat
    PROVE  IsFiniteSet(Units(t, cost)) /\ Cardinality(Units(t, cost)) = cost
<1>. DEFINE T == {t}
            C == 1..cost
<1>1. IsFiniteSet(T) /\ Cardinality(T) = 1
  BY FS_Singleton
<1>2. IsFiniteSet(C) /\ Cardinality(C) = cost
  BY FS_Interval
<1>3. Units(t, cost) = T \X C
  BY DEF Units
<1>. HIDE DEF T, C
<1>4. IsFiniteSet(T \X C) /\ Cardinality(T \X C) = 1 * cost
  BY <1>1, <1>2, FS_Product
<1>. QED  BY <1>3, <1>4

LEMMA AddedUnits ==
    ASSUME NEW P, IsFiniteSet(P), NEW t, NEW cost \in Nat, P \cap Units(t, cost) = {}
    PROVE  /\ IsFiniteSet(P \cup Units(t, cost))
           /\ Cardinality(P \cup Units(t, cost)) = Cardinality(P) + cost
           /\ Cardinality(P) \in Nat
<1>. DEFINE U == Units(t, cost)
<1>1. IsFiniteSet(U) /\ Cardinality(U) = cost
  BY UnitsCount
<1>2. Cardinality(P) \in Nat /\ Cardinality({}) = 0
  BY FS_CardinalityType, FS_EmptySet
<1>3. P \cap U = {}
  OBVIOUS
<1>. HIDE DEF U
<1>4. /\ IsFiniteSet(P \cup U)
      /\ Cardinality(P \cup U) = Cardinality(P) + Cardinality(U) - Cardinality(P \cap U)
  BY <1>1, FS_Union
<1>5. Cardinality(P \cap U) = 0
  BY <1>2, <1>3
<1>6. Cardinality(P \cup U) = Cardinality(P) + cost
  BY <1>1, <1>2, <1>4, <1>5
<1>. QED  BY <1>2, <1>4, <1>6 DEF U

\* What is known of a unit.
LEMMA UnitsOf ==
    ASSUME NEW a, NEW u
    PROVE  /\ u \in PaidUnits(a) <=> \E t \in Paid(a) : u \in Units(t, resv[t].actual)
           /\ u \in ReservePaid(a) <=> \E t \in Paid(a) : u \in Units(t, WithinReserve(resv[t].actual))
<1>1. u \in PaidUnits(a) <=> \E t \in Paid(a) : u \in Units(t, resv[t].actual)
  BY Zenon DEF PaidUnits
<1>2. u \in ReservePaid(a) <=> \E t \in Paid(a) : u \in Units(t, WithinReserve(resv[t].actual))
  BY Zenon DEF ReservePaid
<1>. QED  BY <1>1, <1>2

LEMMA UnitsNameTurns ==
    ASSUME NEW t, NEW u, NEW m, NEW n, NEW r, u \in Units(t, m), u \in Units(r, n)
    PROVE  t = r
BY DEF Units

LEMMA ReservePaidWithin ==
    ASSUME MoneyTyped, NEW a
    PROVE  ReservePaid(a) \subseteq PaidUnits(a)
<1>. SUFFICES ASSUME NEW u \in ReservePaid(a)
              PROVE  u \in PaidUnits(a)
  OBVIOUS
<1>1. PICK t \in Paid(a) : u \in Units(t, WithinReserve(resv[t].actual))
  BY UnitsOf
<1>2. resv[t].actual \in Int /\ MaxCost \in Int
  BY NumbersAssumption DEF Paid, TurnsOf, MoneyTyped, Reservations, Unknown
<1>3. Units(t, WithinReserve(resv[t].actual)) \subseteq Units(t, resv[t].actual)
  BY <1>2 DEF Units, WithinReserve
<1>. QED  BY <1>1, <1>3, UnitsOf

\* Franchises that do not own t keep their books.
LEMMA OtherBooks ==
    ASSUME NEW t, OnlyTurn(t), NEW a, AgentOf(t[1]) # a \/ (t \notin Held(a)' \cup Paid(a)' \cup Held(a) \cup Paid(a))
    PROVE  Held(a)' = Held(a) /\ PaidUnits(a)' = PaidUnits(a) /\ ReservePaid(a)' = ReservePaid(a)
<1>1. \A r : r \in Held(a)' <=> r \in Held(a)
  BY DEF Held, TurnsOf, OnlyTurn, AgentOf
<1>2. \A r : r \in Paid(a)' <=> r \in Paid(a)
  BY DEF Paid, TurnsOf, OnlyTurn, AgentOf
<1>3. Held(a)' = Held(a) /\ Paid(a)' = Paid(a)
  <2>1. \A H, I : (\A r : r \in H <=> r \in I) => H = I
    BY Zenon
  <2>. QED  BY <1>1, <1>2, <2>1
<1>4. t \notin Paid(a)
  BY DEF Paid, TurnsOf
<1>5. \A r \in Paid(a) : resv'[r].actual = resv[r].actual
  BY <1>4 DEF Paid, TurnsOf, OnlyTurn
<1>6. PaidUnits(a)' = PaidUnits(a)
  BY <1>3, <1>5 DEF PaidUnits
<1>7. ReservePaid(a)' = ReservePaid(a)
  BY <1>3, <1>5 DEF ReservePaid
<1>. QED  BY <1>3, <1>6, <1>7

\* A new hold.
LEMMA HoldBooks ==
    ASSUME MoneyTyped, Books, NEW t, OnlyTurn(t), AgentOf(t[1]) \in Agents,
           t \notin DOMAIN resv, t \in DOMAIN resv', resv'[t].status = "reserved",
           Affordable(AgentOf(t[1])), UNCHANGED spent,
           reserved' = [reserved EXCEPT ![AgentOf(t[1])] = @ + MaxCost]
    PROVE  Books'
<1>. SUFFICES ASSUME NEW b \in Agents
              PROVE  /\ reserved'[b] = MaxCost * Cardinality(Held(b)')
                     /\ spent'[b] = Cardinality(PaidUnits(b)')
                     /\ MaxCost * Cardinality(Held(b)') + Cardinality(ReservePaid(b)') <= Budget
                     /\ IsFiniteSet(Held(b)') /\ IsFiniteSet(PaidUnits(b)')
  BY DEF Books, BooksBalance, BudgetHolds, Countable
<1>1. /\ reserved[b] = MaxCost * Cardinality(Held(b)) /\ spent[b] = Cardinality(PaidUnits(b))
      /\ MaxCost * Cardinality(Held(b)) + Cardinality(ReservePaid(b)) <= Budget
      /\ IsFiniteSet(Held(b)) /\ IsFiniteSet(PaidUnits(b))
  BY DEF Books, BooksBalance, BudgetHolds, Countable
<1>2. CASE AgentOf(t[1]) # b
  <2>1. Held(b)' = Held(b) /\ PaidUnits(b)' = PaidUnits(b) /\ ReservePaid(b)' = ReservePaid(b)
    BY <1>2, OtherBooks
  <2>2. reserved'[b] = reserved[b] /\ spent'[b] = spent[b]
    BY <1>2 DEF MoneyTyped
  <2>. QED  BY <1>1, <2>1, <2>2
<1>3. CASE AgentOf(t[1]) = b
  <2>1. t \notin Held(b) /\ t \notin Paid(b) /\ t \notin Paid(b)' /\ t \in Held(b)'
    BY <1>3 DEF Held, Paid, TurnsOf, AgentOf
  <2>2. \A r : r # t => (r \in Held(b)' <=> r \in Held(b)) /\ (r \in Paid(b)' <=> r \in Paid(b))
    BY DEF Held, Paid, TurnsOf, OnlyTurn, AgentOf
  <2>3. Held(b)' = Held(b) \cup {t} /\ Paid(b)' = Paid(b)
    <3>1. \A r : r \in Held(b)' <=> r \in Held(b) \cup {t}
      BY <2>1, <2>2
    <3>2. \A r : r \in Paid(b)' <=> r \in Paid(b)
      BY <2>1, <2>2
    <3>3. \A S, T : (\A r : r \in S <=> r \in T) => S = T
      BY Zenon
    <3>. QED  BY <3>1, <3>2, <3>3
  <2>4. \A r \in Paid(b) : resv'[r].actual = resv[r].actual
    BY <2>1 DEF Paid, TurnsOf, OnlyTurn
  <2>5. PaidUnits(b)' = PaidUnits(b) /\ ReservePaid(b)' = ReservePaid(b)
    BY <2>3, <2>4 DEF PaidUnits, ReservePaid
  <2>6. IsFiniteSet(Held(b)') /\ Cardinality(Held(b)') = Cardinality(Held(b)) + 1
    BY <1>1, <2>1, <2>3, FS_AddElement
  <2>7. Cardinality(Held(b)) \in Nat /\ Cardinality(PaidUnits(b)) \in Nat
    BY <1>1, FS_CardinalityType
  <2>8. MaxCost * Cardinality(Held(b)') = MaxCost * Cardinality(Held(b)) + MaxCost
    BY <2>6, <2>7, TimesNext
  <2>9. reserved'[b] = reserved[b] + MaxCost /\ spent'[b] = spent[b]
    BY <1>3 DEF MoneyTyped
  <2>10. IsFiniteSet(ReservePaid(b)) /\ Cardinality(ReservePaid(b)) <= Cardinality(PaidUnits(b))
    BY <1>1, ReservePaidWithin, FS_Subset
  <2>11. Cardinality(ReservePaid(b)) \in Nat
    BY <2>10, FS_CardinalityType
  <2>12. Budget - spent[b] - reserved[b] >= MaxCost
    BY <1>3 DEF Affordable
  <2>13. reserved[b] \in Int /\ spent[b] \in Int /\ Budget \in Int /\ MaxCost \in Int
    BY NumbersAssumption DEF MoneyTyped
  <2>. DEFINE held == MaxCost * Cardinality(Held(b))
  <2>14. MaxCost * Cardinality(Held(b)') + Cardinality(ReservePaid(b)) <= Budget
    <3>1. held = reserved[b] /\ MaxCost * Cardinality(Held(b)') = held + MaxCost
      BY <1>1, <2>8
    <3>. HIDE DEF held
    <3>. QED  BY <1>1, <2>7, <2>10, <2>11, <2>12, <2>13, <3>1
  <2>. QED  BY <1>1, <2>5, <2>6, <2>8, <2>9, <2>14
<1>. QED  BY <1>2, <1>3

\* A hold ends, paid with what the turn cost, or with nothing.
LEMMA EndBooks ==
    ASSUME MoneyTyped, Books, NEW t \in DOMAIN resv, OnlyTurn(t), AgentOf(t[1]) \in Agents,
           resv[t].status \in {"reserved", "uncertain"}, t \in DOMAIN resv',
           NEW cost \in Nat, Charge(AgentOf(t[1]), cost),
           \/ resv'[t].status = "settled" /\ resv'[t].actual = cost
           \/ resv'[t].status = "released" /\ cost = 0
    PROVE  Books'
<1>. SUFFICES ASSUME NEW b \in Agents
              PROVE  /\ reserved'[b] = MaxCost * Cardinality(Held(b)')
                     /\ spent'[b] = Cardinality(PaidUnits(b)')
                     /\ MaxCost * Cardinality(Held(b)') + Cardinality(ReservePaid(b)') <= Budget
                     /\ IsFiniteSet(Held(b)') /\ IsFiniteSet(PaidUnits(b)')
  BY DEF Books, BooksBalance, BudgetHolds, Countable
<1>1. /\ reserved[b] = MaxCost * Cardinality(Held(b)) /\ spent[b] = Cardinality(PaidUnits(b))
      /\ MaxCost * Cardinality(Held(b)) + Cardinality(ReservePaid(b)) <= Budget
      /\ IsFiniteSet(Held(b)) /\ IsFiniteSet(PaidUnits(b))
  BY DEF Books, BooksBalance, BudgetHolds, Countable
<1>2. CASE AgentOf(t[1]) # b
  <2>1. Held(b)' = Held(b) /\ PaidUnits(b)' = PaidUnits(b) /\ ReservePaid(b)' = ReservePaid(b)
    BY <1>2, OtherBooks
  <2>2. reserved'[b] = reserved[b] /\ spent'[b] = spent[b]
    BY <1>2 DEF MoneyTyped, Charge
  <2>. QED  BY <1>1, <2>1, <2>2
<1>3. CASE AgentOf(t[1]) = b
  <2>1. t \in Held(b) /\ t \notin Held(b)' /\ t \notin Paid(b)
    BY <1>3 DEF Held, Paid, TurnsOf, AgentOf
  <2>2. \A r : r # t => (r \in Held(b)' <=> r \in Held(b)) /\ (r \in Paid(b)' <=> r \in Paid(b))
    BY DEF Held, Paid, TurnsOf, OnlyTurn, AgentOf
  <2>3. Held(b)' = Held(b) \ {t}
    <3>1. \A r : r \in Held(b)' <=> r \in Held(b) \ {t}
      BY <2>1, <2>2
    <3>. QED  BY <3>1, Zenon
  <2>4. IsFiniteSet(Held(b)') /\ Cardinality(Held(b)') = Cardinality(Held(b)) - 1
    BY <1>1, <2>1, <2>3, FS_RemoveElement
  <2>5. Cardinality(Held(b)) \in Nat /\ Cardinality(PaidUnits(b)) \in Nat
    BY <1>1, FS_CardinalityType
  <2>6. MaxCost * Cardinality(Held(b)') = MaxCost * Cardinality(Held(b)) - MaxCost
    BY <2>4, <2>5, TimesNext
  <2>7. reserved'[b] = reserved[b] - MaxCost /\ spent'[b] = spent[b] + cost
    BY <1>3 DEF MoneyTyped, Charge
  <2>8. MaxCost \in Nat /\ Budget \in Nat
    BY NumbersAssumption
  <2>9. WithinReserve(cost) \in Nat /\ WithinReserve(cost) <= MaxCost
    BY <2>8 DEF WithinReserve
  <2>10. \A r \in Paid(b) : resv'[r].actual = resv[r].actual
    BY <2>1 DEF Paid, TurnsOf, OnlyTurn
  <2>11. IsFiniteSet(ReservePaid(b))
    BY <1>1, ReservePaidWithin, FS_Subset
  <2>12. Cardinality(ReservePaid(b)) \in Nat
    BY <2>11, FS_CardinalityType
  <2>13. /\ IsFiniteSet(PaidUnits(b)')
         /\ Cardinality(PaidUnits(b)') = Cardinality(PaidUnits(b)) + cost
         /\ Cardinality(ReservePaid(b)') <= Cardinality(ReservePaid(b)) + MaxCost
         /\ Cardinality(ReservePaid(b)') \in Nat
    <3>1. CASE resv'[t].status = "settled"
      <4>1. resv'[t].actual = cost
        BY <3>1
      <4>2. \A r : r \in Paid(b)' <=> r \in Paid(b) \cup {t}
        BY <1>3, <2>2, <3>1 DEF Paid, TurnsOf, AgentOf
      <4>3. Paid(b)' = Paid(b) \cup {t}
        BY <4>2, Zenon
      <4>4. PaidUnits(b)' = PaidUnits(b) \cup Units(t, cost)
        BY <2>10, <4>1, <4>3 DEF PaidUnits
      <4>5. ReservePaid(b)' = ReservePaid(b) \cup Units(t, WithinReserve(cost))
        BY <2>10, <4>1, <4>3 DEF ReservePaid
      <4>6. PaidUnits(b) \cap Units(t, cost) = {}
        BY <2>1, UnitsOf, UnitsNameTurns
      <4>7. ReservePaid(b) \cap Units(t, WithinReserve(cost)) = {}
        BY <2>1, UnitsOf, UnitsNameTurns
      <4>8. /\ IsFiniteSet(PaidUnits(b) \cup Units(t, cost))
            /\ Cardinality(PaidUnits(b) \cup Units(t, cost)) = Cardinality(PaidUnits(b)) + cost
        BY <1>1, <4>6, AddedUnits
      <4>9. Cardinality(ReservePaid(b) \cup Units(t, WithinReserve(cost)))
               = Cardinality(ReservePaid(b)) + WithinReserve(cost)
        BY <2>9, <2>11, <4>7, AddedUnits
      <4>. QED
        BY <4>8, <4>9, <2>8, <2>9, <2>12, <4>4, <4>5
    <3>2. CASE resv'[t].status = "released" /\ cost = 0
      <4>1. \A r : r \in Paid(b)' <=> r \in Paid(b)
        BY <2>1, <2>2, <3>2 DEF Paid, TurnsOf
      <4>2. Paid(b)' = Paid(b)
        BY <4>1, Zenon
      <4>3. PaidUnits(b)' = PaidUnits(b) /\ ReservePaid(b)' = ReservePaid(b)
        BY <2>10, <4>2 DEF PaidUnits, ReservePaid
      <4>. QED  BY <1>1, <2>5, <2>8, <2>12, <3>2, <4>3
    <3>. QED  BY <3>1, <3>2
  <2>. DEFINE held == MaxCost * Cardinality(Held(b))
  <2>14. MaxCost * Cardinality(Held(b)') + Cardinality(ReservePaid(b)') <= Budget
    <3>1. /\ MaxCost * Cardinality(Held(b)') = held - MaxCost
          /\ held = reserved[b] /\ held + Cardinality(ReservePaid(b)) <= Budget
      BY <1>1, <2>6
    <3>2. reserved[b] \in Int
      BY DEF MoneyTyped
    <3>. HIDE DEF held
    <3>. QED  BY <2>8, <2>12, <2>13, <3>1, <3>2
  <2>. QED  BY <1>1, <2>4, <2>6, <2>7, <2>13, <2>14
<1>. QED  BY <1>2, <1>3

\* A step that leaves every hold a hold and every payment what it was.
LEMMA SameBooks ==
    ASSUME Books, UNCHANGED <<spent, reserved>>, DOMAIN resv' = DOMAIN resv,
           \A r \in DOMAIN resv :
              /\ resv'[r].actual = resv[r].actual
              /\ resv'[r].status = "settled" <=> resv[r].status = "settled"
              /\ resv'[r].status \in {"reserved", "uncertain"} <=> resv[r].status \in {"reserved", "uncertain"}
    PROVE  Books'
<1>. SUFFICES ASSUME NEW a \in Agents
              PROVE  Held(a)' = Held(a) /\ PaidUnits(a)' = PaidUnits(a) /\ ReservePaid(a)' = ReservePaid(a)
  BY DEF Books, BooksBalance, BudgetHolds, Countable
<1>1. \A r : (r \in Held(a)' <=> r \in Held(a)) /\ (r \in Paid(a)' <=> r \in Paid(a))
  BY DEF Held, Paid, TurnsOf, AgentOf
<1>2. Held(a)' = Held(a) /\ Paid(a)' = Paid(a)
  <2>1. \A S, T : (\A r : r \in S <=> r \in T) => S = T
    BY Zenon
  <2>. QED  BY <1>1, <2>1
<1>3. \A r \in Paid(a) : resv'[r].actual = resv[r].actual
  BY DEF Paid, TurnsOf
<1>. QED  BY <1>2, <1>3 DEF PaidUnits, ReservePaid

LEMMA InDoubtBooks ==
    ASSUME MoneyTyped, Books, NEW t, resv' = InDoubt(t), UNCHANGED <<spent, reserved>>
    PROVE  Books'
<1>1. DOMAIN resv' = DOMAIN resv
  BY DEF InDoubt
<1>2. ASSUME NEW r \in DOMAIN resv
      PROVE  /\ resv'[r].actual = resv[r].actual
             /\ resv'[r].status = IF r = t /\ resv[r].status = "reserved" THEN "uncertain" ELSE resv[r].status
  <2>1. resv[r] \in Reservations
    BY DEF MoneyTyped
  <2>2. resv'[r] = IF r = t /\ resv[r].status = "reserved"
                   THEN [resv[r] EXCEPT !.status = "uncertain"] ELSE resv[r]
    BY DEF InDoubt
  <2>. QED  BY <2>1, <2>2 DEF Reservations
<1>. QED  BY <1>1, <1>2, SameBooks

LEMMA ExpiredBooks ==
    ASSUME IInv, Books, NEW j, Expired(j), UNCHANGED <<spent, reserved>>
    PROVE  Books'
<1>1. CASE UNCHANGED resv
  BY <1>1, SameBooks
<1>2. CASE resv' = InDoubt(<<j, job[j].fence>>)
  BY <1>2, InDoubtBooks DEF IInv, TypeOK
<1>. QED  BY <1>1, <1>2 DEF Expired

\* A hold is settled.
LEMMA SettledBooks ==
    ASSUME IInv, Books, NEW t \in DOMAIN resv, resv[t].status \in {"reserved", "uncertain"},
           NEW cost \in Nat, resv' = Settled(t, cost), Charge(AgentOf(t[1]), cost)
    PROVE  Books'
<1>1. resv[t] \in Reservations /\ t[1] \in DOMAIN job
  BY DEF IInv, TypeOK, MoneyTyped
<1>2. AgentOf(t[1]) \in Agents
  BY <1>1, OwnersAssumption DEF AgentOf, IInv, TypeOK, JobsTyped
<1>3. /\ DOMAIN resv' = DOMAIN resv /\ \A r \in DOMAIN resv \ {t} : resv'[r] = resv[r]
      /\ resv'[t] = [[resv[t] EXCEPT !.status = "settled"] EXCEPT !.actual = cost]
  BY DEF Settled
<1>4. resv'[t].status = "settled" /\ resv'[t].actual = cost
  BY <1>1, <1>3 DEF Reservations
<1>5. OnlyTurn(t)
  BY <1>3 DEF OnlyTurn
<1>. QED  BY <1>2, <1>3, <1>4, <1>5, EndBooks DEF IInv, TypeOK

LEMMA ReservedBooks ==
    ASSUME IInv, Charges, Books, NEW w \in Workers, Reserved(w)
    PROVE  Books'
<1>. DEFINE t == turn[w]
<1>1. /\ pc[w] = "claimed" /\ Affordable(AgentOf(t[1])) /\ UNCHANGED spent
      /\ resv' = [r \in DOMAIN resv \cup {t} |-> IF r \in DOMAIN resv THEN resv[r]
                    ELSE [status |-> "reserved", actual |-> Unknown, observed |-> Unknown]]
      /\ reserved' = [reserved EXCEPT ![AgentOf(t[1])] = @ + MaxCost]
  BY DEF Reserved
<1>2. t \notin DOMAIN resv
  BY <1>1 DEF Charges, Bills, BillOf
<1>3. AgentOf(t[1]) \in Agents
  BY <1>1, TurnFacts
<1>4. t \in DOMAIN resv' /\ resv'[t].status = "reserved" /\ OnlyTurn(t)
  BY <1>1, <1>2 DEF OnlyTurn
<1>. HIDE DEF t
<1>. QED  BY <1>1, <1>2, <1>3, <1>4, HoldBooks DEF IInv, TypeOK

LEMMA ReleaseBooks ==
    ASSUME IInv, Charges, Books, NEW w \in Workers, pc[w] = "failing",
           holds[w] => Unsettled(w), Release(w)
    PROVE  Books'
<1>. DEFINE t == turn[w]
<1>1. CASE ~holds[w]
  BY <1>1, SameBooks DEF Release
<1>2. ASSUME holds[w]
      PROVE  /\ t \in DOMAIN resv /\ resv[t].status = "reserved" /\ resv[t] \in Reservations
             /\ AgentOf(t[1]) \in Agents
  BY <1>2, TurnFacts DEF IInv, Points, PointsOf, Unsettled, TypeOK, MoneyTyped
<1>3. CASE holds[w] /\ CostObserved(w)
  <2>1. resv[t].observed \in Nat
    BY <1>2, <1>3 DEF CostObserved, Reservations
  <2>2. resv' = Settled(t, resv[t].observed) /\ Charge(AgentOf(t[1]), resv[t].observed)
    BY <1>3 DEF Release
  <2>. HIDE DEF t
  <2>. QED  BY <1>2, <1>3, <2>1, <2>2, SettledBooks
<1>4. CASE holds[w] /\ ~CostObserved(w) /\ KnownFree(w)
  <2>1. /\ resv' = [resv EXCEPT ![t].status = "released"] /\ UNCHANGED spent
        /\ reserved' = [reserved EXCEPT ![AgentOf(t[1])] = @ - MaxCost]
    BY <1>4 DEF Release
  <2>2. Charge(AgentOf(t[1]), 0)
    <3>1. spent \in [Agents -> Int]
      BY DEF IInv, TypeOK, MoneyTyped
    <3>2. spent = [spent EXCEPT ![AgentOf(t[1])] = @ + 0]
      BY <3>1
    <3>. QED  BY <2>1, <3>2 DEF Charge
  <2>3. /\ DOMAIN resv' = DOMAIN resv /\ \A r \in DOMAIN resv \ {t} : resv'[r] = resv[r]
        /\ resv'[t] = [resv[t] EXCEPT !.status = "released"]
    BY <1>2, <1>4, <2>1
  <2>4. resv'[t].status = "released"
    BY <1>2, <1>4, <2>3 DEF Reservations
  <2>5. OnlyTurn(t)
    BY <2>3 DEF OnlyTurn
  <2>6. 0 \in Nat
    OBVIOUS
  <2>. HIDE DEF t
  <2>. QED  BY <1>2, <1>4, <2>2, <2>3, <2>4, <2>5, <2>6, EndBooks DEF IInv, TypeOK
<1>5. CASE holds[w] /\ ~CostObserved(w) /\ ~KnownFree(w)
  <2>1. resv' = InDoubt(t) /\ UNCHANGED <<spent, reserved>>
    BY <1>5 DEF Release
  <2>. QED  BY <2>1, InDoubtBooks DEF IInv, TypeOK
<1>. QED  BY <1>1, <1>3, <1>4, <1>5

LEMMA TurnSettledBooks ==
    ASSUME IInv, Books, NEW w \in Workers, pc[w] \in {"overrun", "deciding"}, Unsettled(w),
           resv' = Settled(turn[w], incurred[turn[w]]),
           Charge(AgentOf(turn[w][1]), incurred[turn[w]])
    PROVE  Books'
<1>1. turn[w] \in DOMAIN resv /\ turn[w] \in DOMAIN incurred /\ resv[turn[w]].status = "reserved"
  BY DEF IInv, Points, PointsOf, Unsettled
<1>2. incurred[turn[w]] \in Nat
  BY <1>1, NumbersAssumption DEF IInv, TypeOK, MoneyTyped
<1>. QED  BY <1>1, <1>2, SettledBooks

LEMMA ObserveBooks ==
    ASSUME IInv, Books, NEW w \in Workers, ObserveCost(w)
    PROVE  Books'
<1>1. /\ pc[w] = "returned" /\ UNCHANGED <<spent, reserved>>
      /\ resv' = [resv EXCEPT ![turn[w]].observed = incurred[turn[w]]]
  BY DEF ObserveCost, wallet
<1>2. DOMAIN resv' = DOMAIN resv
  BY <1>1
<1>3. \A r \in DOMAIN resv : resv'[r].status = resv[r].status /\ resv'[r].actual = resv[r].actual
  BY <1>1 DEF IInv, TypeOK, MoneyTyped, Reservations
<1>. QED  BY <1>1, <1>2, <1>3, SameBooks

LEMMA BooksStep ==
    ASSUME IInv, Charges, Books, [Next]_vars
    PROVE  Books'
<1>1. ASSUME UNCHANGED <<resv, spent, reserved>>
      PROVE  Books'
  BY <1>1, SameBooks
<1>2. CASE \E c \in Causes : IngestEvent(c) \/ ScheduleSelf(c) \/ CancelSelf(c)
  BY <1>1, <1>2 DEF IngestEvent, ScheduleSelf, CancelSelf, wallet
<1>3. CASE \E t \in DOMAIN resv : ReconcileReservation(t)
  <2>1. PICK t \in DOMAIN resv : ReconcileReservation(t)
    BY <1>3
  <2>2. /\ t \in DOMAIN incurred /\ resv[t].status = "uncertain"
        /\ resv' = Settled(t, incurred[t]) /\ Charge(AgentOf(t[1]), incurred[t])
    BY <2>1 DEF ReconcileReservation, Reconcilable
  <2>3. incurred[t] \in Nat
    BY <2>2, NumbersAssumption DEF IInv, TypeOK, MoneyTyped
  <2>. QED  BY <2>2, <2>3, SettledBooks
<1>4. CASE \E j \in DOMAIN job : Bury(j)
  BY <1>4, ExpiredBooks DEF Bury, wallet
<1>5. CASE \E j \in DOMAIN job : AbandonedLeaseExpires(j) \/ StalledLeaseExpires(j)
  BY <1>1, <1>5 DEF AbandonedLeaseExpires, StalledLeaseExpires, LeaseExpires, wallet
<1>6. ASSUME NEW w \in Workers, Progress(w)
      PROVE  Books'
  <2>1. CASE \E j \in DOMAIN job : Claim(w, j)
    BY <2>1, ExpiredBooks DEF Claim, wallet
  <2>2. CASE Reserve(w)
    BY <2>2, ReservedBooks DEF Reserve
  <2>3. CASE ObserveCost(w)
    BY <2>3, ObserveBooks
  <2>4. CASE SettleOverrun(w)
    BY <2>4, TurnSettledBooks DEF SettleOverrun
  <2>5. CASE \E D \in SUBSET StaffTags, S, C \in SUBSET Causes : Complete(w, D, S, C)
    <3>1. /\ pc[w] = "deciding" /\ Unsettled(w) /\ resv' = Settled(turn[w], incurred[turn[w]])
          /\ Charge(AgentOf(turn[w][1]), incurred[turn[w]])
      BY <2>5 DEF Complete
    <3>. QED  BY <3>1, TurnSettledBooks
  <2>6. CASE Fail(w)
    BY <2>6, ReleaseBooks DEF Fail
  <2>7. CASE ReserveRefused(w) \/ Stale(w) \/ NotInvoked(w) \/ Return(w) \/ DecisionRefused(w) \/ GiveUp(w)
    BY <1>1, <2>7 DEF ReserveRefused, Stale, NotInvoked, Return, DecisionRefused, GiveUp, store, wallet
  <2>8. CASE \E cost \in 0..(MaxCost + 1) : Invoke(w, cost)
    BY <1>1, <2>8 DEF Invoke, store, wallet
  <2>9. CASE \E err \in {"knownZero", "retryable", "other"} : DriverThrows(w, err)
    BY <1>1, <2>9 DEF DriverThrows, store, wallet
  <2>. QED  BY <1>6, <2>1, <2>2, <2>3, <2>4, <2>5, <2>6, <2>7, <2>8, <2>9 DEF Progress
<1>7. ASSUME NEW w \in Workers, Disturb(w)
      PROVE  Books'
  <2>1. CASE ReserveUnacknowledged(w)
    BY <2>1, ReservedBooks DEF ReserveUnacknowledged
  <2>2. CASE HeartbeatFails(w) \/ Abort(w) \/ Crash(w)
    BY <1>1, <2>2 DEF HeartbeatFails, Abort, Crash, store, wallet
  <2>. QED  BY <1>7, <2>1, <2>2 DEF Disturb
<1>8. CASE UNCHANGED vars
  BY <1>1, <1>8 DEF vars, wallet
<1>. QED  BY <1>2, <1>3, <1>4, <1>5, <1>6, <1>7, <1>8 DEF Next

LEMMA InitBooks == Init => Books
<1>. SUFFICES ASSUME Init
              PROVE  \A a \in Agents :
                        /\ reserved[a] = MaxCost * Cardinality(Held(a)) /\ spent[a] = Cardinality(PaidUnits(a))
                        /\ MaxCost * Cardinality(Held(a)) + Cardinality(ReservePaid(a)) <= Budget
                        /\ IsFiniteSet(Held(a)) /\ IsFiniteSet(PaidUnits(a))
  BY DEF Books, BooksBalance, BudgetHolds, Countable
<1>. TAKE a \in Agents
<1>1. Held(a) = {} /\ Paid(a) = {}
  BY DEF Init, Held, Paid, TurnsOf
<1>2. PaidUnits(a) = {} /\ ReservePaid(a) = {}
  BY <1>1 DEF PaidUnits, ReservePaid
<1>3. reserved[a] = 0 /\ spent[a] = 0 /\ MaxCost * 0 = 0 /\ Budget \in Nat
  BY NumbersAssumption DEF Init
<1>. QED  BY <1>1, <1>2, <1>3, FS_EmptySet

-----------------------------------------------------------------------------
(* The theorems about money.                                               *)

LEMMA BooksTrue == Spec => []Books
<1>1. IInv /\ Charges /\ Books /\ [Next]_vars => Books'
  BY BooksStep
<1>. QED  BY InitBooks, <1>1, TurnsInductive, ChargesTrue, PTL DEF Spec

(* The totals on the agent row are the sums over its reservations, what is *)
(* booked is what the provider charged, and what is released cost nothing, *)
(* whatever became of the worker and its lease.                            *)
THEOREM WalletAlwaysTrue == Spec => []WalletIsTrue
<1>1. Charges /\ Books => WalletIsTrue
  BY DEF Charges, Prices, PriceOf, Books, WalletIsTrue, ChargesBooked
<1>. QED  BY <1>1, BooksTrue, ChargesTrue, PTL

(* What is held and what was paid, up to a reservation per turn, stays     *)
(* within the budget.                                                      *)
THEOREM BudgetAlwaysHolds == Spec => []BudgetHolds
<1>1. Books => BudgetHolds
  BY DEF Books
<1>. QED  BY <1>1, BooksTrue, PTL

-----------------------------------------------------------------------------
(* Staff and their answers.                                                *)

Tags == StaffTags \cup Answers

\* A job that grew from another has it in the table.
Parented == \A i \in Paths, x \in Tags : Append(i, x) \in DOMAIN job => i \in DOMAIN job

AnsweredOf(j) ==
    /\ Append(j, "completed") \in DOMAIN job <=> job[j].status = "completed"
    /\ Append(j, "failed") \in DOMAIN job => job[j].status = "dead"
    /\ job[j].status = "dead" => Append(j, "failed") \in DOMAIN job \/ Overran(j)

\* How a new job may come about in a step that ends the jobs in E.
Born(E, i) ==
    \/ \E c \in Causes : i = <<c>>
    \/ \E p \in DOMAIN job, g \in StaffTags : i = Append(p, g)
    \/ \E p \in E, x \in Answers : i = Append(p, x)

\* From job to this table: the jobs in E may end, the others neither complete
\* nor die, and new ones are pending.
GrowTo(E, table) ==
    /\ DOMAIN job \subseteq DOMAIN table
    /\ \A j \in DOMAIN job :
          /\ table[j].kind = job[j].kind
          /\ j \notin E => \A status \in {"completed", "dead"} :
                              table[j].status = status <=> job[j].status = status
    /\ \A i \in DOMAIN table \ DOMAIN job : table[i].status = "pending" /\ Born(E, i)

\* A settled charge is never revised.
SettledStays ==
    \A t \in DOMAIN resv : resv[t].status = "settled" =>
        t \in DOMAIN resv' /\ resv'[t].status = "settled" /\ resv'[t].actual = resv[t].actual

LEMMA PathsOneToOne ==
    ASSUME NEW i \in Paths, NEW k \in Paths, NEW x \in Tags, NEW y \in Tags, Append(i, x) = Append(k, y)
    PROVE  i = k /\ x = y
<1>. DEFINE S == Causes \cup StaffTags \cup Answers
<1>1. i \in Seq(S) /\ k \in Seq(S) /\ x \in S /\ y \in S
  BY DEF Paths, Tags
<1>. HIDE DEF S
<1>. QED  BY <1>1, AppendInjective

LEMMA GrownIsNotCause ==
    ASSUME NEW i \in Paths, NEW x \in Tags, NEW c
    PROVE  Append(i, x) # <<c>>
<1>. DEFINE S == Causes \cup StaffTags \cup Answers
<1>1. i \in Seq(S) /\ i # <<>> /\ x \in S
  BY DEF Paths, Tags
<1>. HIDE DEF S
<1>2. Len(Append(i, x)) = Len(i) + 1 /\ Len(i) \in Nat /\ Len(i) # 0
  BY <1>1, AppendProperties
<1>3. Len(<<c>>) = 1
  OBVIOUS
<1>. QED  BY <1>2, <1>3

LEMMA BornOf ==
    ASSUME JobsTyped, NEW E, E \subseteq DOMAIN job, NEW i \in Paths, NEW x \in Tags,
           Born(E, Append(i, x))
    PROVE  i \in DOMAIN job /\ (x \in Answers => i \in E)
<1>1. \A c \in Causes : Append(i, x) # <<c>>
  BY GrownIsNotCause
<1>2. ASSUME NEW p \in DOMAIN job, NEW g \in Tags, Append(i, x) = Append(p, g)
      PROVE  i = p /\ x = g
  BY <1>2, PathsOneToOne DEF JobsTyped
<1>3. \A y : ~(y \in StaffTags /\ y \in Answers)
  BY TagsAssumption
<1>. QED  BY <1>1, <1>2, <1>3 DEF Born, Tags

LEMMA StaffKept ==
    ASSUME JobsTyped, JobsTyped', StaffAnswered, Parented, NEW E, E \subseteq DOMAIN job,
           GrowTo(E, job'), EndedRowsKept, SettledStays,
           \A j \in E : job[j].kind = "staff" => AnsweredOf(j)'
    PROVE  StaffAnswered' /\ Parented'
<1>1. Parented'
  <2>. SUFFICES ASSUME NEW i \in Paths, NEW x \in Tags, Append(i, x) \in DOMAIN job'
                PROVE  i \in DOMAIN job'
    BY Zenon DEF Parented
  <2>1. i \in DOMAIN job
    BY BornOf DEF GrowTo, Parented
  <2>. QED  BY <2>1 DEF GrowTo
<1>2. {"completed", "failed"} \subseteq Tags /\ {"completed", "failed"} \subseteq Answers
  BY DEF Tags, Answers
<1>3. ASSUME NEW j \in DOMAIN job', job'[j].kind = "staff"
      PROVE  AnsweredOf(j)'
  <2>1. j \in Paths
    BY DEF JobsTyped
  <2>2. CASE j \in E
    BY <1>3, <2>2 DEF GrowTo
  <2>3. CASE j \in DOMAIN job /\ j \notin E
    <3>1. job[j].kind = "staff" /\ AnsweredOf(j)
      BY <1>3, <2>3 DEF GrowTo, StaffAnswered, AnsweredOf
    <3>2. \A x \in Answers : Append(j, x) \in DOMAIN job' => Append(j, x) \in DOMAIN job
      BY <2>1, <2>3, BornOf DEF GrowTo, Tags
    <3>3. \A x \in Answers : Append(j, x) \in DOMAIN job => Append(j, x) \in DOMAIN job'
      BY DEF GrowTo
    <3>4. \A status \in {"completed", "dead"} : job'[j].status = status <=> job[j].status = status
      BY <2>3 DEF GrowTo
    <3>5. job[j].status = "dead" => job'[j] = job[j]
      BY <2>3 DEF EndedRowsKept, Terminal
    <3>6. job[j].status = "dead" /\ Overran(j) => Overran(j)'
      BY <3>5 DEF Overran, SettledStays
    <3>. QED  BY <1>2, <3>1, <3>2, <3>3, <3>4, <3>6 DEF AnsweredOf
  <2>4. CASE j \notin DOMAIN job
    <3>1. job'[j].status = "pending"
      BY <2>4 DEF GrowTo
    <3>2. \A x \in Answers : Append(j, x) \notin DOMAIN job
      BY <2>1, <2>4 DEF Parented, Tags
    <3>3. \A x \in Answers : Append(j, x) \notin DOMAIN job'
      BY <2>1, <2>4, <3>2, BornOf DEF GrowTo, Tags
    <3>. QED  BY <1>2, <3>1, <3>3 DEF AnsweredOf
  <2>. QED  BY <2>2, <2>3, <2>4
<1>4. StaffAnswered'
  BY <1>3 DEF StaffAnswered, AnsweredOf
<1>. QED  BY <1>1, <1>4

-----------------------------------------------------------------------------
(* What the operations on the job table do to staff.                       *)

LEMMA GrowSame ==
    ASSUME NEW E
    PROVE  GrowTo(E, job)
BY DEF GrowTo

LEMMA GrowEnded ==
    ASSUME JobsTyped, NEW j \in DOMAIN job, NEW status
    PROVE  /\ GrowTo({j}, Ended(j, status)) /\ DOMAIN Ended(j, status) = DOMAIN job
           /\ Ended(j, status)[j].status = status
           /\ \A i \in DOMAIN job \ {j} : Ended(j, status)[i] = job[i]
           /\ job[j].status \notin {"completed", "dead"} /\ status \notin {"completed", "dead"}
                 => GrowTo({}, Ended(j, status))
<1>1. job[j] \in JobRows
  BY DEF JobsTyped
<1>2. /\ DOMAIN Ended(j, status) = DOMAIN job
      /\ \A i \in DOMAIN job \ {j} : Ended(j, status)[i] = job[i]
      /\ Ended(j, status)[j] = [[job[j] EXCEPT !.status = status] EXCEPT !.live = FALSE]
  BY DEF Ended
<1>3. Ended(j, status)[j].status = status /\ Ended(j, status)[j].kind = job[j].kind
  BY <1>1, <1>2 DEF JobRows
<1>. QED  BY <1>2, <1>3 DEF GrowTo

LEMMA GrowEnqueued ==
    ASSUME NEW E, NEW table, GrowTo(E, table), NEW kind \in Kinds,
           NEW new, \A i \in new : Born(E, i)
    PROVE  /\ GrowTo(E, Enqueued(table, new, kind))
           /\ DOMAIN Enqueued(table, new, kind) = DOMAIN table \cup new
           /\ \A i \in DOMAIN table : Enqueued(table, new, kind)[i] = table[i]
<1>. DEFINE next == Enqueued(table, new, kind)
<1>1. /\ DOMAIN next = DOMAIN table \cup new
      /\ \A i \in DOMAIN table : next[i] = table[i]
      /\ \A i \in new \ DOMAIN table : next[i].status = "pending"
  BY DEF Enqueued, NewJob
<1>. HIDE DEF next
<1>2. GrowTo(E, next)
  BY <1>1 DEF GrowTo
<1>. QED  BY <1>1, <1>2 DEF next

LEMMA GrowAnswer ==
    ASSUME NEW E, NEW table, GrowTo(E, table), NEW j \in E, NEW how \in Answers
    PROVE  GrowTo(E, Answer(table, j, how))
<1>. DEFINE new == {Append(j, how)}
<1>1. \A i \in new : Born(E, i)
  BY DEF Born
<1>2. Answer(table, j, how) = IF table[j].kind = "staff" THEN Enqueued(table, new, "event") ELSE table
  BY DEF Answer
<1>. HIDE DEF new
<1>3. GrowTo(E, Enqueued(table, new, "event"))
  <2>1. "event" \in Kinds
    BY DEF Kinds
  <2>. QED  BY <1>1, <2>1, GrowEnqueued
<1>4. CASE table[j].kind = "staff"
  BY <1>2, <1>3, <1>4
<1>5. CASE table[j].kind # "staff"
  BY <1>2, <1>5
<1>. QED  BY <1>4, <1>5

\* A job that fails for good.
LEMMA FailureAnswered ==
    ASSUME JobsTyped, StaffAnswered, NEW j \in DOMAIN job, job[j].status \notin Terminal,
           job' = Answer(Ended(j, "dead"), j, "failed")
    PROVE  GrowTo({j}, job') /\ (job[j].kind = "staff" => AnsweredOf(j)')
<1>1. PICK table : table = Ended(j, "dead")
  OBVIOUS
<1>2. /\ GrowTo({j}, table) /\ DOMAIN table = DOMAIN job /\ table[j].status = "dead"
  BY <1>1, GrowEnded
<1>3. table[j].kind = job[j].kind
  BY <1>2 DEF GrowTo
<1>4. job' = Answer(table, j, "failed") /\ "failed" \in Answers
  BY <1>1 DEF Answers
<1>5. /\ GrowTo({j}, job')
      /\ job[j].kind = "staff" => DOMAIN job' = DOMAIN job \cup {Append(j, "failed")}
      /\ job'[j].status = "dead"
  <2>1. j \in DOMAIN table
    BY <1>2
  <2>2. GrowTo({j}, job')
    BY <1>2, <1>4, GrowAnswer
  <2>3. /\ table[j].kind = "staff" => DOMAIN job' = DOMAIN table \cup {Append(j, "failed")}
        /\ \A i \in DOMAIN table : i \in DOMAIN job' /\ job'[i] = table[i]
    BY <1>4, <2>1 DEF Answer, Enqueued
  <2>. QED  BY <1>2, <1>3, <2>1, <2>2, <2>3
<1>6. ASSUME job[j].kind = "staff"
      PROVE  AnsweredOf(j)'
  <2>1. Append(j, "completed") \notin DOMAIN job
    BY <1>6 DEF StaffAnswered, Terminal
  <2>2. Append(j, "completed") # Append(j, "failed")
    <3>1. "completed" \in Tags /\ "failed" \in Tags /\ "completed" # "failed" /\ j \in Paths
      BY DEF Tags, Answers, JobsTyped
    <3>. QED  BY <3>1, PathsOneToOne
  <2>. QED  BY <1>5, <1>6, <2>1, <2>2 DEF AnsweredOf
<1>. QED  BY <1>5, <1>6

LEMMA GrowCancelled ==
    ASSUME NEW E, NEW planned, GrowTo(E, planned),
           NEW cancelled,
           \A i \in cancelled : i \in DOMAIN job /\ job[i].status = "pending" /\ job[i] \in JobRows
                                /\ planned[i] = job[i],
           NEW table,
           table = [i \in DOMAIN planned |->
                       IF i \in cancelled THEN [planned[i] EXCEPT !.status = "cancelled"]
                       ELSE planned[i]]
    PROVE  /\ GrowTo(E, table) /\ DOMAIN table = DOMAIN planned
           /\ \A i \in DOMAIN planned \ cancelled : table[i] = planned[i]
<1>1. DOMAIN table = DOMAIN planned /\ \A i \in DOMAIN planned \ cancelled : table[i] = planned[i]
  OBVIOUS
<1>2. \A i \in cancelled : i \in DOMAIN planned
  BY DEF GrowTo
<1>3. ASSUME NEW i \in cancelled
      PROVE  table[i].status = "cancelled" /\ table[i].kind = job[i].kind
  <2>1. job[i] \in JobRows /\ planned[i] = job[i]
    OBVIOUS
  <2>2. table[i] = [planned[i] EXCEPT !.status = "cancelled"]
    BY <1>2
  <2>. QED  BY <2>1, <2>2 DEF JobRows
<1>4. ASSUME NEW i \in DOMAIN job
      PROVE  /\ table[i].kind = job[i].kind
             /\ i \notin E => \A status \in {"completed", "dead"} :
                                 table[i].status = status <=> job[i].status = status
  <2>1. CASE i \in cancelled
    BY <1>3, <2>1
  <2>2. CASE i \notin cancelled
    BY <1>1, <2>2 DEF GrowTo
  <2>. QED  BY <2>1, <2>2
<1>5. \A i \in DOMAIN table \ DOMAIN job : table[i].status = "pending" /\ Born(E, i)
  BY <1>1 DEF GrowTo
<1>6. DOMAIN job \subseteq DOMAIN table
  BY <1>1 DEF GrowTo
<1>. QED  BY <1>1, <1>4, <1>5, <1>6 DEF GrowTo

\* The jobs that a decision creates and cancels.
LEMMA GrowDecided ==
    ASSUME JobsTyped, NEW j \in DOMAIN job, job[j].status = "running",
           NEW D \in SUBSET StaffTags, NEW S \in SUBSET Causes, NEW C \in SUBSET Causes,
           \A c \in C : Cancellable(c)
    PROVE  LET planned == Enqueued(Enqueued(Ended(j, "completed"), {Append(j, g) : g \in D}, "staff"),
                                   {<<c>> : c \in S}, "appointment")
               table == [i \in DOMAIN planned |->
                            IF i \in {<<c>> : c \in C}
                            THEN [planned[i] EXCEPT !.status = "cancelled"] ELSE planned[i]]
           IN  /\ GrowTo({j}, table) /\ j \in DOMAIN table /\ table[j].status = "completed"
               /\ \A x \in Answers : Append(j, x) \in DOMAIN table => Append(j, x) \in DOMAIN job
<1>. DEFINE E == {j}
            ended == Ended(j, "completed")
            staff == {Append(j, g) : g \in D}
            appointments == {<<c>> : c \in S}
            cancelled == {<<c>> : c \in C}
            planned == Enqueued(Enqueued(ended, staff, "staff"), appointments, "appointment")
            table == [i \in DOMAIN planned |->
                         IF i \in cancelled
                         THEN [planned[i] EXCEPT !.status = "cancelled"] ELSE planned[i]]
<1>1. /\ GrowTo(E, ended) /\ DOMAIN ended = DOMAIN job /\ ended[j].status = "completed"
      /\ \A i \in DOMAIN job \ {j} : ended[i] = job[i]
  BY GrowEnded
<1>2. (\A i \in staff : Born(E, i)) /\ (\A i \in appointments : Born(E, i))
  BY DEF Born
<1>3. \A i \in cancelled : i \in DOMAIN job \ {j} /\ job[i].status = "pending" /\ job[i] \in JobRows
  BY DEF Cancellable, JobsTyped
<1>4. ASSUME NEW x \in Answers
      PROVE  Append(j, x) \notin staff /\ Append(j, x) \notin appointments
  <2>1. j \in Paths /\ x \in Tags
    BY DEF JobsTyped, Tags
  <2>2. Append(j, x) \notin appointments
    BY <2>1, GrownIsNotCause
  <2>3. Append(j, x) \notin staff
    <3>. SUFFICES ASSUME NEW g \in D, Append(j, x) = Append(j, g)
                  PROVE  FALSE
      OBVIOUS
    <3>1. g \in Tags /\ g \in StaffTags
      BY DEF Tags
    <3>2. x = g
      BY <2>1, <3>1, PathsOneToOne
    <3>. QED  BY <3>1, <3>2, TagsAssumption
  <2>. QED  BY <2>2, <2>3
<1>. HIDE DEF E, ended, staff, appointments, cancelled
<1>5. /\ GrowTo(E, planned) /\ DOMAIN planned = DOMAIN ended \cup staff \cup appointments
      /\ \A i \in DOMAIN ended : planned[i] = ended[i]
  <2>. DEFINE staffed == Enqueued(ended, staff, "staff")
  <2>1. "staff" \in Kinds /\ "appointment" \in Kinds
    BY DEF Kinds
  <2>. HIDE DEF table
  <2>2. /\ GrowTo(E, staffed) /\ DOMAIN staffed = DOMAIN ended \cup staff
        /\ \A i \in DOMAIN ended : staffed[i] = ended[i]
    <3>1. GrowTo(E, ended) /\ \A i \in staff : Born(E, i)
      BY <1>1, <1>2
    <3>. QED  BY <2>1, <3>1, GrowEnqueued
  <2>. HIDE DEF staffed
  <2>3. /\ GrowTo(E, planned) /\ DOMAIN planned = DOMAIN staffed \cup appointments
        /\ \A i \in DOMAIN staffed : planned[i] = staffed[i]
    <3>1. GrowTo(E, staffed) /\ \A i \in appointments : Born(E, i)
      BY <1>2, <2>2
    <3>2. planned = Enqueued(staffed, appointments, "appointment")
      BY DEF staffed
    <3>. HIDE DEF planned
    <3>. QED  BY <2>1, <3>1, <3>2, GrowEnqueued
  <2>. QED  BY <2>2, <2>3
<1>. HIDE DEF planned
<1>6. \A i \in cancelled : i \in DOMAIN job /\ job[i].status = "pending" /\ job[i] \in JobRows
                            /\ planned[i] = job[i]
  BY <1>1, <1>3, <1>5
<1>7. /\ GrowTo(E, table) /\ DOMAIN table = DOMAIN planned
      /\ \A i \in DOMAIN planned \ cancelled : table[i] = planned[i]
  BY <1>5, <1>6, GrowCancelled
<1>. HIDE DEF table
<1>8. j \in DOMAIN table /\ table[j].status = "completed"
  BY <1>1, <1>3, <1>5, <1>7
<1>9. \A x \in Answers : Append(j, x) \in DOMAIN table => Append(j, x) \in DOMAIN job
  BY <1>1, <1>4, <1>5, <1>7
<1>. QED  BY <1>7, <1>8, <1>9 DEF E, table, planned, ended, staff, appointments, cancelled

LEMMA ReportAnswered ==
    ASSUME JobsTyped, StaffAnswered, NEW j \in DOMAIN job, job[j].status = "running",
           NEW table, GrowTo({j}, table), j \in DOMAIN table, table[j].status = "completed",
           \A x \in Answers : Append(j, x) \in DOMAIN table => Append(j, x) \in DOMAIN job,
           job' = Answer(table, j, "completed")
    PROVE  GrowTo({j}, job') /\ (job[j].kind = "staff" => AnsweredOf(j)')
<1>1. "completed" \in Answers /\ "failed" \in Answers
  BY DEF Answers
<1>2. GrowTo({j}, job')
  BY <1>1, GrowAnswer
<1>3. table[j].kind = job[j].kind
  BY DEF GrowTo
<1>4. /\ table[j].kind = "staff" => DOMAIN job' = DOMAIN table \cup {Append(j, "completed")}
      /\ \A i \in DOMAIN table : i \in DOMAIN job' /\ job'[i] = table[i]
  BY DEF Answer, Enqueued
<1>5. ASSUME job[j].kind = "staff"
      PROVE  AnsweredOf(j)'
  <2>1. Append(j, "failed") \notin DOMAIN job
    BY <1>5 DEF StaffAnswered
  <2>2. Append(j, "completed") # Append(j, "failed")
    <3>1. "completed" \in Tags /\ "failed" \in Tags /\ "completed" # "failed" /\ j \in Paths
      BY DEF Tags, Answers, JobsTyped
    <3>. QED  BY <3>1, PathsOneToOne
  <2>3. Append(j, "failed") \notin DOMAIN job' /\ Append(j, "completed") \in DOMAIN job'
    BY <1>1, <1>3, <1>4, <1>5, <2>1, <2>2
  <2>4. job'[j].status = "completed"
    BY <1>4
  <2>. QED  BY <2>3, <2>4 DEF AnsweredOf
<1>. QED  BY <1>2, <1>5

\* A turn that overran its reservation buries its job without an answer.
LEMMA OverrunAnswered ==
    ASSUME JobsTyped, StaffAnswered, NEW j \in DOMAIN job, job[j].status = "running",
           job' = Ended(j, "dead"), NEW t, t = <<j, job[j].fence>>, t \in DOMAIN resv',
           resv'[t].status = "settled", resv'[t].actual > MaxCost
    PROVE  GrowTo({j}, job') /\ (job[j].kind = "staff" => AnsweredOf(j)')
<1>1. /\ GrowTo({j}, job') /\ DOMAIN job' = DOMAIN job /\ job'[j].status = "dead"
  BY GrowEnded
<1>2. job'[j].fence = job[j].fence
  BY DEF Ended, JobsTyped, JobRows
<1>3. ASSUME job[j].kind = "staff"
      PROVE  AnsweredOf(j)'
  BY <1>1, <1>2, <1>3 DEF AnsweredOf, StaffAnswered, Overran
<1>. QED  BY <1>1, <1>3

-----------------------------------------------------------------------------
(* A settled charge is final, whatever the step.                           *)

LEMMA StaysUnless ==
    ASSUME NEW T, \A t \in T : t \in DOMAIN resv => resv[t].status # "settled",
           DOMAIN resv \subseteq DOMAIN resv',
           \A r \in DOMAIN resv \ T : resv'[r].status = resv[r].status /\ resv'[r].actual = resv[r].actual
    PROVE  SettledStays
BY DEF SettledStays

LEMMA StaysSame == UNCHANGED resv => SettledStays
BY DEF SettledStays

LEMMA StaysSettled ==
    ASSUME NEW t \in DOMAIN resv, resv[t].status # "settled", NEW cost, resv' = Settled(t, cost)
    PROVE  SettledStays
<1>1. DOMAIN resv' = DOMAIN resv /\ \A r \in DOMAIN resv \ {t} : resv'[r] = resv[r]
  BY DEF Settled
<1>. QED  BY <1>1 DEF SettledStays

LEMMA StaysInDoubt ==
    ASSUME NEW t, resv' = InDoubt(t)
    PROVE  SettledStays
<1>1. /\ DOMAIN resv' = DOMAIN resv
      /\ \A r \in DOMAIN resv : resv[r].status = "settled" => resv'[r] = resv[r]
  BY DEF InDoubt
<1>. QED  BY <1>1 DEF SettledStays

LEMMA StaysReserved ==
    ASSUME IInv, NEW w \in Workers, Reserved(w)
    PROVE  SettledStays
<1>1. /\ DOMAIN resv \subseteq DOMAIN resv'
      /\ \A r \in DOMAIN resv : resv'[r] = resv[r]
  BY DEF Reserved
<1>. QED  BY <1>1 DEF SettledStays

LEMMA StaysReleased ==
    ASSUME IInv, NEW w \in Workers, pc[w] # "idle", holds[w] => Unsettled(w), Release(w)
    PROVE  SettledStays
<1>1. CASE ~holds[w]
  BY <1>1, StaysSame DEF Release
<1>2. CASE holds[w]
  <2>. DEFINE t == turn[w]
  <2>1. t \in DOMAIN resv /\ resv[t].status = "reserved"
    BY <1>2 DEF IInv, Points, PointsOf, Unsettled
  <2>2. CASE resv' = Settled(t, resv[t].observed)
    BY <2>1, <2>2, StaysSettled
  <2>3. CASE resv' = [resv EXCEPT ![t].status = "released"]
    <3>1. DOMAIN resv' = DOMAIN resv /\ \A r \in DOMAIN resv \ {t} : resv'[r] = resv[r]
      BY <2>3
    <3>. QED  BY <2>1, <3>1 DEF SettledStays
  <2>4. CASE resv' = InDoubt(t)
    BY <2>4, StaysInDoubt
  <2>. QED  BY <1>2, <2>2, <2>3, <2>4 DEF Release
<1>. QED  BY <1>1, <1>2

LEMMA StaysSettledTurn ==
    ASSUME IInv, NEW w \in Workers, pc[w] \in {"overrun", "deciding"}, Unsettled(w),
           resv' = Settled(turn[w], incurred[turn[w]])
    PROVE  SettledStays
<1>1. turn[w] \in DOMAIN resv /\ resv[turn[w]].status = "reserved"
  BY DEF IInv, Points, PointsOf, Unsettled
<1>. QED  BY <1>1, StaysSettled

LEMMA StaysExpired == \A j : Expired(j) => SettledStays
BY StaysSame, StaysInDoubt DEF Expired

LEMMA StaysObserved ==
    ASSUME IInv, NEW w \in Workers, ObserveCost(w)
    PROVE  SettledStays
<1>1. resv' = [resv EXCEPT ![turn[w]].observed = incurred[turn[w]]]
  BY DEF ObserveCost
<1>2. \A r \in DOMAIN resv : resv'[r].status = resv[r].status /\ resv'[r].actual = resv[r].actual
  BY <1>1 DEF IInv, TypeOK, MoneyTyped, Reservations
<1>. QED  BY <1>1, <1>2 DEF SettledStays

LEMMA StaysStep ==
    ASSUME IInv, [Next]_vars
    PROVE  SettledStays
<1>1. CASE \E c \in Causes : IngestEvent(c) \/ ScheduleSelf(c) \/ CancelSelf(c)
  BY <1>1, StaysSame DEF IngestEvent, ScheduleSelf, CancelSelf
<1>2. CASE \E t \in DOMAIN resv : ReconcileReservation(t)
  BY <1>2, StaysSettled DEF ReconcileReservation, Reconcilable
<1>3. CASE \E j \in DOMAIN job : Bury(j)
  BY <1>3, StaysExpired DEF Bury
<1>4. CASE \E j \in DOMAIN job : AbandonedLeaseExpires(j) \/ StalledLeaseExpires(j)
  BY <1>4, StaysSame DEF AbandonedLeaseExpires, StalledLeaseExpires, LeaseExpires
<1>5. ASSUME NEW w \in Workers, Progress(w)
      PROVE  SettledStays
  <2>1. CASE \E j \in DOMAIN job : Claim(w, j)
    BY <2>1, StaysExpired DEF Claim
  <2>2. CASE Reserve(w)
    BY <2>2, StaysReserved DEF Reserve
  <2>3. CASE ObserveCost(w)
    BY <2>3, StaysObserved
  <2>4. CASE SettleOverrun(w) \/ \E D \in SUBSET StaffTags, S, C \in SUBSET Causes : Complete(w, D, S, C)
    <3>1. /\ pc[w] \in {"overrun", "deciding"} /\ Unsettled(w)
          /\ resv' = Settled(turn[w], incurred[turn[w]])
      BY <2>4 DEF SettleOverrun, Complete
    <3>. QED  BY <3>1, StaysSettledTurn
  <2>5. CASE Fail(w)
    BY <2>5, StaysReleased DEF Fail
  <2>6. CASE ReserveRefused(w) \/ Stale(w) \/ NotInvoked(w) \/ Return(w) \/ DecisionRefused(w) \/ GiveUp(w)
    BY <2>6, StaysSame DEF ReserveRefused, Stale, NotInvoked, Return, DecisionRefused, GiveUp, store
  <2>7. CASE \E cost \in 0..(MaxCost + 1) : Invoke(w, cost)
    BY <2>7, StaysSame DEF Invoke, store
  <2>8. CASE \E err \in {"knownZero", "retryable", "other"} : DriverThrows(w, err)
    BY <2>8, StaysSame DEF DriverThrows, store
  <2>. QED  BY <1>5, <2>1, <2>2, <2>3, <2>4, <2>5, <2>6, <2>7, <2>8 DEF Progress
<1>6. ASSUME NEW w \in Workers, Disturb(w)
      PROVE  SettledStays
  BY <1>6, StaysSame, StaysReserved DEF Disturb, ReserveUnacknowledged, HeartbeatFails, Abort, Crash, store
<1>7. CASE UNCHANGED vars
  BY <1>7, StaysSame DEF vars
<1>. QED  BY <1>1, <1>2, <1>3, <1>4, <1>5, <1>6, <1>7 DEF Next

-----------------------------------------------------------------------------
(* Every step keeps staff answered.                                        *)

StaffTrue == StaffAnswered /\ Parented

\* What is known of every step.
StaffStepKnown ==
    /\ JobsTyped /\ JobsTyped' /\ StaffAnswered /\ Parented
    /\ EndedRowsKept /\ SettledStays

LEMMA StaffCalm ==
    ASSUME StaffStepKnown, GrowTo({}, job')
    PROVE  StaffTrue'
BY StaffKept DEF StaffStepKnown, StaffTrue

LEMMA StaffSame ==
    ASSUME StaffStepKnown, job' = job
    PROVE  StaffTrue'
BY StaffCalm, GrowSame

LEMMA StaffEnds ==
    ASSUME StaffStepKnown, NEW j \in DOMAIN job, GrowTo({j}, job'),
           job[j].kind = "staff" => AnsweredOf(j)'
    PROVE  StaffTrue'
<1>. DEFINE E == {j}
<1>1. E \subseteq DOMAIN job /\ GrowTo(E, job') /\ \A i \in E : job[i].kind = "staff" => AnsweredOf(i)'
  BY Zenon
<1>. HIDE DEF E
<1>. QED  BY <1>1, StaffKept DEF StaffStepKnown, StaffTrue

\* A row whose kind stays and that neither completes nor dies.
LEMMA StaffRow ==
    ASSUME StaffStepKnown, NEW j \in DOMAIN job, job[j].status \in {"pending", "running"},
           DOMAIN job' = DOMAIN job, \A i \in DOMAIN job \ {j} : job'[i] = job[i],
           job'[j].kind = job[j].kind, job'[j].status \notin {"completed", "dead"}
    PROVE  StaffTrue'
<1>1. GrowTo({}, job')
  BY DEF GrowTo
<1>. QED  BY <1>1, StaffCalm

LEMMA StaffIncoming ==
    ASSUME StaffStepKnown, NEW c \in Causes, IngestEvent(c) \/ ScheduleSelf(c)
    PROVE  StaffTrue'
<1>. DEFINE new == {<<c>>}
            E == {}
<1>1. \A i \in new : Born(E, i)
  BY DEF Born
<1>2. PICK kind \in Kinds : job' = Enqueued(job, new, kind)
  BY DEF IngestEvent, ScheduleSelf, Kinds
<1>3. GrowTo(E, job)
  BY GrowSame
<1>. HIDE DEF new, E
<1>4. GrowTo(E, job')
  BY <1>1, <1>2, <1>3, GrowEnqueued
<1>. QED  BY <1>4, StaffCalm DEF E

LEMMA StaffLate ==
    ASSUME StaffStepKnown, NEW j \in DOMAIN job, LeaseExpires(j)
    PROVE  StaffTrue'
<1>1. /\ job[j].status = "running" /\ job[j] \in JobRows
      /\ job' = [job EXCEPT ![j].live = FALSE]
  BY DEF LeaseExpires, StaffStepKnown, JobsTyped
<1>2. DOMAIN job' = DOMAIN job /\ \A i \in DOMAIN job \ {j} : job'[i] = job[i]
  BY <1>1
<1>3. job'[j].kind = job[j].kind /\ job'[j].status = job[j].status
  BY <1>1 DEF JobRows
<1>. QED  BY <1>1, <1>2, <1>3, StaffRow

LEMMA StaffClaimed ==
    ASSUME StaffStepKnown, NEW w \in Workers, NEW j \in DOMAIN job, Claim(w, j)
    PROVE  StaffTrue'
<1>1. /\ job[j].status \in {"pending", "running"} /\ job[j] \in JobRows
      /\ job' = [job EXCEPT ![j].status = "running", ![j].fence = @ + 1, ![j].live = TRUE]
  BY DEF Claim, ClaimableJob, StaffStepKnown, JobsTyped
<1>2. DOMAIN job' = DOMAIN job /\ \A i \in DOMAIN job \ {j} : job'[i] = job[i]
  BY <1>1
<1>3. job'[j].kind = job[j].kind /\ job'[j].status = "running"
  BY <1>1 DEF JobRows
<1>. QED  BY <1>1, <1>2, <1>3, StaffRow

LEMMA StaffBuried ==
    ASSUME StaffStepKnown, NEW j \in DOMAIN job, job[j].status \notin Terminal,
           job' = Answer(Ended(j, "dead"), j, "failed")
    PROVE  StaffTrue'
<1>1. GrowTo({j}, job') /\ (job[j].kind = "staff" => AnsweredOf(j)')
  BY FailureAnswered DEF StaffStepKnown
<1>. QED  BY <1>1, StaffEnds

\* Back to pending, or cancelled before it ran.
LEMMA StaffPutBack ==
    ASSUME StaffStepKnown, NEW j \in DOMAIN job, job[j].status \in {"pending", "running"},
           NEW status \in {"pending", "cancelled"}, job' = Ended(j, status)
    PROVE  StaffTrue'
<1>1. /\ DOMAIN job' = DOMAIN job /\ job'[j].status = status /\ GrowTo({j}, job')
      /\ \A i \in DOMAIN job \ {j} : job'[i] = job[i]
  BY GrowEnded DEF StaffStepKnown
<1>2. job'[j].kind = job[j].kind
  BY <1>1 DEF GrowTo
<1>. QED  BY <1>1, <1>2, StaffRow

LEMMA StaffFailed ==
    ASSUME StaffStepKnown, IInv, NEW w \in Workers, Fail(w)
    PROVE  StaffTrue'
<1>1. PICK j : j = turn[w][1]
  OBVIOUS
<1>2. j \in DOMAIN job /\ job[j].status = "running"
  BY <1>1, TurnFacts DEF Fail, ValidClaim
<1>3. job' = Ended(j, "pending") \/ job' = Answer(Ended(j, "dead"), j, "failed")
  BY <1>1 DEF Fail, FinalFailure
<1>4. job[j].status \notin Terminal
  BY <1>2 DEF Terminal
<1>. QED  BY <1>2, <1>3, <1>4, StaffPutBack, StaffBuried

LEMMA StaffOverran ==
    ASSUME StaffStepKnown, IInv, Charges, NEW w \in Workers, SettleOverrun(w)
    PROVE  StaffTrue'
<1>1. PICK t : t = turn[w]
  OBVIOUS
<1>2. PICK j : j = t[1]
  OBVIOUS
<1>3. /\ pc[w] = "overrun" /\ job[j].status = "running" /\ job[j].fence = t[2]
      /\ resv' = Settled(t, incurred[t]) /\ job' = Ended(j, "dead")
  BY <1>1, <1>2 DEF SettleOverrun, ValidClaim
<1>4. /\ j \in DOMAIN job /\ t = <<j, job[j].fence>>
      /\ t \in DOMAIN resv /\ incurred[t] > MaxCost
  <2>1. j \in DOMAIN job /\ t = <<t[1], t[2]>>
    BY <1>1, <1>2, <1>3, TurnFacts
  <2>2. t \in DOMAIN resv /\ incurred[t] > MaxCost
    BY <1>1, <1>3 DEF IInv, Points, PointsOf, Charges, Bills, BillOf
  <2>. QED  BY <1>2, <1>3, <2>1, <2>2
<1>5. resv[t] \in Reservations
  BY <1>4 DEF IInv, TypeOK, MoneyTyped
<1>6. t \in DOMAIN resv' /\ resv'[t].status = "settled" /\ resv'[t].actual = incurred[t]
  BY <1>3, <1>4, <1>5 DEF Settled, Reservations
<1>7. resv'[t].actual > MaxCost
  BY <1>4, <1>6
<1>8. GrowTo({j}, job') /\ (job[j].kind = "staff" => AnsweredOf(j)')
  BY <1>3, <1>4, <1>6, <1>7, OverrunAnswered DEF StaffStepKnown
<1>. QED  BY <1>4, <1>8, StaffEnds

LEMMA StaffReported ==
    ASSUME StaffStepKnown, IInv, NEW w \in Workers,
           NEW D \in SUBSET StaffTags, NEW S \in SUBSET Causes, NEW C \in SUBSET Causes,
           Complete(w, D, S, C)
    PROVE  StaffTrue'
<1>1. PICK j : j = turn[w][1]
  OBVIOUS
<1>2. j \in DOMAIN job /\ job[j].status = "running"
  BY <1>1, TurnFacts DEF Complete, ValidClaim
<1>. DEFINE planned == Enqueued(Enqueued(Ended(j, "completed"), {Append(j, g) : g \in D}, "staff"),
                                {<<c>> : c \in S}, "appointment")
            table == [i \in DOMAIN planned |->
                         IF i \in {<<c>> : c \in C}
                         THEN [planned[i] EXCEPT !.status = "cancelled"] ELSE planned[i]]
<1>3. job' = Answer(table, j, "completed") /\ \A c \in C : Cancellable(c)
  BY <1>1, Zenon DEF Complete, Permitted
<1>4. /\ GrowTo({j}, table) /\ j \in DOMAIN table /\ table[j].status = "completed"
      /\ \A x \in Answers : Append(j, x) \in DOMAIN table => Append(j, x) \in DOMAIN job
  BY <1>2, <1>3, GrowDecided DEF StaffStepKnown
<1>. HIDE DEF planned, table
<1>5. GrowTo({j}, job') /\ (job[j].kind = "staff" => AnsweredOf(j)')
  BY <1>2, <1>3, <1>4, ReportAnswered DEF StaffStepKnown
<1>. QED  BY <1>2, <1>5, StaffEnds

LEMMA StaffStep ==
    ASSUME IInv, Charges, StaffTrue, [Next]_vars
    PROVE  StaffTrue'
<1>1. StaffStepKnown
  <2>1. IInv' /\ EndedRowsKept
    BY NextStep
  <2>2. SettledStays
    BY StaysStep
  <2>3. JobsTyped /\ JobsTyped'
    BY <2>1 DEF IInv, TypeOK
  <2>. QED  BY <2>1, <2>2, <2>3 DEF StaffStepKnown, StaffTrue
<1>2. CASE \E c \in Causes : IngestEvent(c) \/ ScheduleSelf(c)
  BY <1>1, <1>2, StaffIncoming
<1>3. CASE \E c \in Causes : CancelSelf(c)
  BY <1>1, <1>3, StaffPutBack DEF CancelSelf, Cancellable
<1>4. CASE \E t \in DOMAIN resv : ReconcileReservation(t)
  BY <1>1, <1>4, StaffSame DEF ReconcileReservation
<1>5. CASE \E j \in DOMAIN job : Bury(j)
  BY <1>1, <1>5, StaffBuried DEF Bury, ClaimableJob, Terminal
<1>6. CASE \E j \in DOMAIN job : AbandonedLeaseExpires(j) \/ StalledLeaseExpires(j)
  BY <1>1, <1>6, StaffLate DEF AbandonedLeaseExpires, StalledLeaseExpires
<1>7. ASSUME NEW w \in Workers, Progress(w)
      PROVE  StaffTrue'
  <2>1. CASE \E j \in DOMAIN job : Claim(w, j)
    BY <1>1, <2>1, StaffClaimed
  <2>2. CASE Fail(w)
    BY <1>1, <2>2, StaffFailed
  <2>3. CASE SettleOverrun(w)
    BY <1>1, <2>3, StaffOverran
  <2>4. CASE \E D \in SUBSET StaffTags, S, C \in SUBSET Causes : Complete(w, D, S, C)
    BY <1>1, <2>4, StaffReported
  <2>5. CASE ReserveRefused(w) \/ Stale(w) \/ NotInvoked(w) \/ Return(w) \/ DecisionRefused(w) \/ GiveUp(w)
    BY <1>1, <2>5, StaffSame DEF ReserveRefused, Stale, NotInvoked, Return, DecisionRefused, GiveUp, store
  <2>6. CASE Reserve(w) \/ ObserveCost(w)
    BY <1>1, <2>6, StaffSame DEF Reserve, Reserved, ObserveCost
  <2>7. CASE \E cost \in 0..(MaxCost + 1) : Invoke(w, cost)
    BY <1>1, <2>7, StaffSame DEF Invoke, store
  <2>8. CASE \E err \in {"knownZero", "retryable", "other"} : DriverThrows(w, err)
    BY <1>1, <2>8, StaffSame DEF DriverThrows, store
  <2>. QED  BY <1>7, <2>1, <2>2, <2>3, <2>4, <2>5, <2>6, <2>7, <2>8 DEF Progress
<1>8. ASSUME NEW w \in Workers, Disturb(w)
      PROVE  StaffTrue'
  BY <1>1, <1>8, StaffSame
     DEF Disturb, ReserveUnacknowledged, Reserved, HeartbeatFails, Abort, Crash, store
<1>9. CASE UNCHANGED vars
  BY <1>1, <1>9, StaffSame DEF vars
<1>. QED  BY <1>2, <1>3, <1>4, <1>5, <1>6, <1>7, <1>8, <1>9 DEF Next

(* A staff job is answered exactly once, and truly, through retries,       *)
(* expired leases, crashes and turns that overrun.                         *)
THEOREM StaffAlwaysAnswered == Spec => []StaffAnswered
<1>1. Init => StaffTrue
  BY DEF Init, StaffTrue, StaffAnswered, Parented
<1>2. IInv /\ Charges /\ StaffTrue /\ [Next]_vars => StaffTrue'
  BY StaffStep
<1>3. StaffTrue => StaffAnswered
  BY DEF StaffTrue
<1>. QED  BY <1>1, <1>2, <1>3, TurnsInductive, ChargesTrue, PTL DEF Spec
=============================================================================
