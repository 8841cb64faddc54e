--------------------------- MODULE FootballOutbox ---------------------------
(* The football actions of owners' turns, carried to the league's own engine *)
(* or to MFL by dispatchers that stall, crash and are replaced, with the     *)
(* journal of writes to MFL and the operator's read-only reconciliation      *)
(* (football-outbox.ts, mfl/adapter.ts, mfl/journal.ts, mfl/draft-queue.ts). *)
EXTENDS FootballHost

CONSTANTS Workers,      \* dispatchers, and the operator's recovery
          Tries,        \* 5 in the code
          Affects,      \* turn -> franchises its action concerns
          Reissued,     \* whether the operator writes the MFL deployment file anew for changed owners
          OutliveCheck, \* whether a dispatcher may outlive its lease between context and engine
          MaxClaims,    \* bound on the claims of a row, the operator's included
          MaxFaults     \* bound on stalls, crashes and lost answers

VARIABLES journal,   \* <<scope of the adapter, turn>> -> latest receipt of its write
          wire,      \* writes sent to MFL whose answer nobody waits for any more
          acted,     \* turn -> hosts on which its action took effect, in order
          disp,      \* worker -> where it is in dispatchOne or reconcileHeld
          faults

outboxVars == <<journal, wire, acted, disp, faults>>

NoWrite == [state |-> "none", accepted |-> FALSE, rejected |-> FALSE]
Idle == [at |-> "idle", row |-> 0, fence |-> 0, host |-> NoHost, holders |-> FirstHolders,
         outcome |-> "none", repair |-> FALSE]
Unresolved == {"prepared", "submitted", "unknown"}

\* MflAdapter.scope: a hash of the MFL league and of the owners of all its franchises.
Scopes == MflLeagues \X Holdings

OutboxInit ==
    /\ journal = [m \in Scopes \X Jobs |-> NoWrite]
    /\ wire = {}
    /\ acted = [j \in Jobs |-> <<>>]
    /\ disp = [w \in Workers |-> Idle]
    /\ faults = 0

\* check(): the claim is still this worker's.
Holds(w) == LET j == disp[w].row
            IN  rows[j].status = "running" /\ rows[j].live /\ rows[j].fence = disp[w].fence

Goes(w, at) == disp' = [disp EXCEPT ![w].at = at]
Goes2(w, at, outcome) == disp' = [disp EXCEPT ![w].at = at, ![w].outcome = outcome]
Rests(w) == disp' = [disp EXCEPT ![w] = Idle]

hostOnly == <<host, switches, epochs, jobs, enabled, holder>>
writes == <<journal, wire, acted>>

\* A worker here holds the journal's advisory lock 7066 for its scope, with its connection.
InWrite == {"prepared", "submitted", "answered", "noted"}

\* withDraftAdmission: the league's lock 7044 is held around the writing of a draft pick.
LeagueFree == ~\E w \in Workers : disp[w].at \in InWrite /\ Command[disp[w].row] = "draft"

-----------------------------------------------------------------------------
(* claim *)

Claimable(j) == /\ Admitted(j) /\ LeagueFree
                /\ \/ rows[j].status = "pending"
                   \/ rows[j].status = "running" /\ ~rows[j].live

\* A row that was tried too often is put away: held for MFL writes, dead otherwise.
Bury(j) ==
    /\ Claimable(j)
    /\ rows[j].attempts >= Tries
    /\ rows' = [rows EXCEPT ![j].status = IF Native(j) THEN "held" ELSE "dead", ![j].live = FALSE]
    /\ UNCHANGED <<hostOnly, outboxVars>>

Claim(w, j) ==
    /\ disp[w] = Idle
    /\ Claimable(j)
    /\ rows[j].attempts < Tries
    /\ rows' = [rows EXCEPT ![j].status = "running", ![j].live = TRUE,
                            ![j].attempts = @ + 1, ![j].fence = @ + 1]
    /\ disp' = [disp EXCEPT ![w] = [Idle EXCEPT !.at = "claimed", !.row = j,
                                                !.fence = rows[j].fence + 1]]
    /\ UNCHANGED <<hostOnly, writes, faults>>

\* reconcileHeld: the operator takes a held MFL write.
ClaimHeld(w, j) ==
    /\ disp[w] = Idle
    /\ rows[j].status = "held" /\ Native(j)
    /\ rows[j].fence < MaxClaims
    /\ LeagueFree
    /\ rows' = [rows EXCEPT ![j].status = "running", ![j].live = TRUE, ![j].fence = @ + 1]
    /\ disp' = [disp EXCEPT ![w] = [Idle EXCEPT !.at = "claimed", !.row = j,
                                                !.fence = rows[j].fence + 1, !.repair = TRUE]]
    /\ UNCHANGED <<hostOnly, writes, faults>>

-----------------------------------------------------------------------------
(* context *)

\* assertRehearsalReconciliation lets a stopped epoch read, never write.
RepairAllowed(j) == IF jobs[j].epoch = 0 THEN Open = {}
                    ELSE epochs[jobs[j].epoch].status \in {"armed", "stopped"} /\ Undrifted(j)

Authorized(w) ==
    LET j == disp[w].row
    IN  /\ IF disp[w].repair THEN RepairAllowed(j) ELSE Allowed(j)
        /\ host = rows[j].host
        /\ OwnerOf[j] \in enabled \/ (disp[w].repair /\ jobs[j].epoch # 0)
        /\ holder[OwnerOf[j]] = rows[j].holder

\* A refusal of the claim is not the row's failure: the worker walks away.
Stale(w) ==
    /\ disp[w].at \in {"claimed", "returned", "failing"}
    /\ ~Holds(w)
    /\ Rests(w)
    /\ UNCHANGED <<hostOnly, rows, writes, faults>>

\* Errors of the runtime or of MFL: an MFL write is held, anything else has failed for good.
Refusal(w) == IF Native(disp[w].row) THEN "held" ELSE "dead"

Context(w) ==
    /\ disp[w].at = "claimed"
    /\ Holds(w)
    /\ IF Authorized(w) THEN Goes(w, "checked") ELSE Goes2(w, "failing", Refusal(w))
    /\ UNCHANGED <<hostOnly, rows, writes, faults>>

\* The operator's deployment file names the owners of this moment.
Deployed == host.kind = "mfl" /\ (holder = FirstHolders \/ Reissued)

\* loadMflAdapter: the adapter is built for the host and the owners of this moment, for an
\* owner among them; or the file is missing, invalid or of others.
Load(w) ==
    /\ disp[w].at = "checked"
    /\ Native(disp[w].row)
    /\ \/ /\ Deployed
          /\ holder[OwnerOf[disp[w].row]] = rows[disp[w].row].holder
          /\ disp' = [disp EXCEPT ![w].at = IF disp[w].repair THEN "reading" ELSE "loaded",
                                  ![w].host = host, ![w].holders = holder]
       \/ Goes2(w, "failing", "held")
    /\ UNCHANGED <<hostOnly, rows, writes, faults>>

-----------------------------------------------------------------------------
(* The own engine and the local draft queue: one transaction under one key. *)

TakesEffect(j, h) == acted' = [acted EXCEPT ![j] = Append(@, h)]

\* The receipt of an earlier attempt answers for it; the queue's holds for one host.
ExecuteAgain(w) ==
    LET j == disp[w].row IN
    /\ disp[w].at = "checked" /\ ~Native(j)
    /\ acted[j] # <<>>
    /\ IF Matches(j) /\ (Command[j] = "queue" => acted[j][1] = host)
       THEN Goes2(w, "returned", "verified")
       ELSE Goes2(w, "failing", "dead")
    /\ UNCHANGED <<hostOnly, rows, writes, faults>>

Execute(w) ==
    LET j == disp[w].row
    IN  /\ disp[w].at = "checked" /\ ~Native(j)
        /\ acted[j] = <<>>
        /\ Matches(j)
        /\ TakesEffect(j, host)
        /\ \/ Goes2(w, "returned", "verified") /\ UNCHANGED faults
           \/ /\ faults < MaxFaults /\ faults' = faults + 1    \* committed, but the answer is lost
              /\ Goes2(w, "failing", "retry")
        /\ UNCHANGED <<hostOnly, rows, journal, wire>>

\* The rules refuse it, the host is another one, or the database is away.
ExecuteFails(w) ==
    LET j == disp[w].row
    IN  /\ disp[w].at = "checked" /\ ~Native(j)
        /\ \/ acted[j] = <<>> /\ Goes2(w, "failing", "dead") /\ UNCHANGED faults
           \/ /\ faults < MaxFaults /\ faults' = faults + 1
              /\ Goes2(w, "failing", "retry")
        /\ UNCHANGED <<hostOnly, rows, writes>>

-----------------------------------------------------------------------------
(* The MFL adapter's execute, under the journal's lock for its scope. *)

Scope(w) == <<disp[w].host.league, disp[w].holders>>
Entry(w) == <<Scope(w), disp[w].row>>
LockFree(scope) == ~\E w \in Workers : disp[w].at \in InWrite /\ Scope(w) = scope
Writes(w, receipt) == journal' = [journal EXCEPT ![Entry(w)] = receipt]
Sent(w) == <<disp[w].host, disp[w].row>>

\* Mutant: any team may write while an earlier write is unresolved.
BlockedNever(scope, j) == FALSE

\* unresolved(): an open write of a team concerned blocks further ones of the same scope.
Blocked(scope, j) == \E k \in Jobs \ {j} : /\ journal[<<scope, k>>].state \in Unresolved
                                            /\ Affects[k] \cap Affects[j] # {}

\* A journaled write is answered from the journal and never sent again.
Replayed(receipt) == receipt.state # "none"

Verdict(receipt) == IF receipt.state \in {"verified", "rejected"} THEN receipt.state ELSE "unknown"

Begin(w) ==
    /\ disp[w].at = "loaded"
    /\ LockFree(Scope(w))
    /\ IF Replayed(journal[Entry(w)])
       THEN Goes2(w, "returned", Verdict(journal[Entry(w)])) /\ UNCHANGED journal
       ELSE IF Blocked(Scope(w), disp[w].row)
            THEN Goes2(w, "failing", "held") /\ UNCHANGED journal
            ELSE Writes(w, [NoWrite EXCEPT !.state = "prepared"]) /\ Goes(w, "prepared")
    /\ UNCHANGED <<hostOnly, rows, wire, acted, faults>>

Preflight(w) ==
    /\ disp[w].at = "prepared"
    /\ \/ Writes(w, [NoWrite EXCEPT !.state = "rejected"]) /\ Goes2(w, "returned", "rejected")
       \/ Writes(w, [NoWrite EXCEPT !.state = "submitted"]) /\ Goes(w, "submitted")
    /\ UNCHANGED <<hostOnly, rows, wire, acted, faults>>

\* The POST: accepted with effect, refused without, or no answer and either or neither yet.
Post(w) ==
    /\ disp[w].at = "submitted"
    /\ \/ TakesEffect(disp[w].row, disp[w].host)
          /\ Goes2(w, "answered", "accepted") /\ UNCHANGED <<wire, faults>>
       \/ Goes2(w, "answered", "refused") /\ UNCHANGED <<acted, wire, faults>>
       \/ /\ faults < MaxFaults /\ faults' = faults + 1
          /\ Goes2(w, "answered", "lost")
          /\ \/ TakesEffect(disp[w].row, disp[w].host) /\ UNCHANGED wire
             \/ wire' = wire \cup {Sent(w)} /\ UNCHANGED acted
             \/ UNCHANGED <<acted, wire>>
    /\ UNCHANGED <<hostOnly, rows, journal>>

\* A request nobody waits for is processed late, or never.
Land(m) ==
    /\ m \in wire
    /\ wire' = wire \ {m}
    /\ TakesEffect(m[2], m[1])
    /\ UNCHANGED <<hostOnly, rows, journal, disp, faults>>

Note(w) ==
    /\ disp[w].at = "answered"
    /\ Writes(w, [state |-> "unknown", accepted |-> disp[w].outcome = "accepted",
                  rejected |-> disp[w].outcome = "refused"])
    /\ IF disp[w].outcome = "lost"
       THEN Goes2(w, "returned", "unknown")
       ELSE Goes(w, "noted")
    /\ UNCHANGED <<hostOnly, rows, wire, acted, faults>>

\* What a read of the league shows of the action.
Seen(league, j) == \E i \in DOMAIN acted[j] : acted[j][i].league = league

\* verify and unchangedAfterRejection: what the league shows now.  A trade is only
\* recognised when its acceptance was received.
Proven(league, j, r) ==
    IF r.rejected THEN IF Seen(league, j) THEN "unknown" ELSE "rejected"
    ELSE IF Seen(league, j) /\ (Command[j] = "trade" => r.accepted) THEN "verified"
    ELSE "unknown"

\* The read-back: what it proves, or nothing when the read fails.
ReadBack(w) ==
    LET r == journal[Entry(w)]
    IN  /\ disp[w].at = "noted"
        /\ \E s \in {Proven(disp[w].host.league, disp[w].row, r), "unknown"} :
              /\ Writes(w, [r EXCEPT !.state = s])
              /\ Goes2(w, "returned", s)
        /\ UNCHANGED <<hostOnly, rows, wire, acted, faults>>

-----------------------------------------------------------------------------
(* Reconciliation by the operator: reads upstream, never writes. *)

Reconcile(w) ==
    LET r == journal[Entry(w)]
    IN  /\ disp[w].at = "reading"
        /\ LockFree(Scope(w))
        /\ IF r.state = "none"
           THEN Goes2(w, "failing", "held") /\ UNCHANGED journal
           ELSE \E s \in CASE r.state \in {"verified", "rejected"} -> {r.state}
                           [] r.state = "prepared" -> {"rejected"}
                           [] OTHER -> {Proven(disp[w].host.league, disp[w].row, r), "unknown"} :
                   /\ Writes(w, [r EXCEPT !.state = s])
                   /\ Goes2(w, "returned", s)
        /\ UNCHANGED <<hostOnly, rows, wire, acted, faults>>

-----------------------------------------------------------------------------
(* acknowledge, fail and hold *)

\* acknowledge: the authority's own receipt is read again before the row is delivered.
Acknowledge(w) ==
    LET j == disp[w].row
    IN  /\ disp[w].at = "returned" /\ disp[w].outcome = "verified"
        /\ Holds(w)
        /\ IF /\ Authorized(w)
              /\ IF Native(j)
                 THEN Deployed /\ journal[<<<<host.league, holder>>, j>>].state = "verified"
                 ELSE acted[j] # <<>>
           THEN /\ rows' = [rows EXCEPT ![j].status = "delivered", ![j].live = FALSE]
                /\ Rests(w)
           ELSE Goes2(w, "failing", Refusal(w)) /\ UNCHANGED rows
        /\ UNCHANGED <<hostOnly, writes, faults>>

\* The deployment file or the database is away.
AcknowledgeFails(w) ==
    /\ disp[w].at = "returned" /\ disp[w].outcome = "verified"
    /\ Holds(w)
    /\ faults < MaxFaults /\ faults' = faults + 1
    /\ Goes2(w, "failing", IF Native(disp[w].row) THEN "held" ELSE "retry")
    /\ UNCHANGED <<hostOnly, rows, writes>>

\* Mutant: an MFL write that could not be confirmed is reported as failed.
SettledAsFailed(w) == IF disp[w].outcome \in {"rejected", "unknown"} THEN "dead" ELSE disp[w].outcome

\* A proven rejection is final; an unproven outcome waits for the operator.
Settled(w) == CASE disp[w].outcome = "rejected" -> "dead"
                [] disp[w].outcome = "unknown" -> "held"
                [] OTHER -> disp[w].outcome

\* fail and hold: only the holder of the claim may put the row away.
Settle(w) ==
    LET j == disp[w].row
        s == Settled(w)
        status == IF s # "retry" THEN s ELSE IF rows[j].attempts < Tries THEN "pending" ELSE "dead"
    IN  /\ disp[w].at = "failing" \/ (disp[w].at = "returned" /\ disp[w].outcome # "verified")
        /\ Holds(w)
        /\ rows' = [rows EXCEPT ![j].status = status, ![j].live = FALSE]
        /\ Rests(w)
        /\ UNCHANGED <<hostOnly, writes, faults>>

-----------------------------------------------------------------------------
(* Faults *)

\* A lease runs out: its worker died, or it is slower than its lease.
LeaseExpires(j) ==
    /\ rows[j].status = "running" /\ rows[j].live
    /\ \/ /\ ~\E w \in Workers : disp[w].row = j /\ disp[w].fence = rows[j].fence
          /\ UNCHANGED faults
       \/ /\ faults < MaxFaults /\ faults' = faults + 1
          /\ OutliveCheck \/ ~\E w \in Workers : /\ disp[w].row = j
                                                   /\ disp[w].at \in {"checked", "loaded"}
    /\ rows' = [rows EXCEPT ![j].live = FALSE]
    /\ UNCHANGED <<hostOnly, writes, disp>>

\* A worker dies; its connection, and with it the journal's lock, is gone, but a request
\* that was being sent may still arrive.
Crash(w) ==
    /\ disp[w] # Idle
    /\ faults < MaxFaults /\ faults' = faults + 1
    /\ Rests(w)
    /\ wire' \in {wire} \cup (IF disp[w].at = "submitted" THEN {wire \cup {Sent(w)}} ELSE {})
    /\ UNCHANGED <<hostOnly, rows, journal, acted>>

DispatchStep(w) ==
    \/ \E j \in Jobs : Claim(w, j)
    \/ Stale(w) \/ Context(w) \/ Load(w) \/ ExecuteAgain(w) \/ Execute(w) \/ ExecuteFails(w)
    \/ Begin(w) \/ Preflight(w) \/ Post(w) \/ Note(w) \/ ReadBack(w)
    \/ Acknowledge(w) \/ AcknowledgeFails(w) \/ Settle(w)

OutboxNext ==
    \/ \E w \in Workers : \/ DispatchStep(w) \/ Crash(w) \/ Reconcile(w)
                          \/ \E j \in Jobs : ClaimHeld(w, j)
    \/ \E j \in Jobs : Bury(j) \/ LeaseExpires(j)
    \/ \E m \in wire : Land(m)

TurnNext ==
    /\ LeagueFree
    /\ \E j \in Jobs : Wake(j) \/ StartTurn(j) \/ Enqueue(j) \/ EndTurn(j)
    /\ UNCHANGED outboxVars
=============================================================================
