---------------------------- MODULE FootballHost ----------------------------
(* Which engine is authoritative for a league, and what depends on it: the   *)
(* host binding and its receipts, the owners' turns, the football actions    *)
(* their turns queued, and the rehearsal epochs that gate both (host.ts, and *)
(* the gates of rehearsal.ts).  FootballOutbox dispatches the actions,       *)
(* Rehearsal opens and closes the epochs.                                    *)
EXTENDS Integers, Sequences, FiniteSets

CONSTANTS Owners, Jobs,
          OwnerOf,       \* [Jobs -> Owners]
          Command,       \* what a turn asks for: "league" (own engine), "draft", "trade" (MFL), "queue"
          Epochs,        \* rehearsal epochs, numbered from 1
          Selectable,    \* hosts the commissioner may select by hand: <<kind, league>>
          Switchable,    \* owners whose workers are switched on and off
          Sellable,      \* owners whose franchise may change hands, once
          MaxSwitches    \* bound on host bindings

VARIABLES host,      \* [kind, league, version]
          switches,  \* receipts of host selections, oldest first
          epochs,    \* rehearsal epoch -> status, original and trial host, pinned holders
          jobs,      \* owner turn -> status and the epoch it is tagged with (0: none)
          rows,      \* owner turn -> the football action it queued
          enabled,   \* owners whose workers are on
          holder     \* owner id of each franchise, as a version

hostVars == <<host, switches, epochs, jobs, rows, enabled, holder>>

NoHost == [kind |-> "none", league |-> "none", version |-> 0]
NoRow == [status |-> "none", attempts |-> 0, fence |-> 0, live |-> FALSE,
          host |-> NoHost, holder |-> 0]
NoEpoch == [status |-> "none", original |-> NoHost, trial |-> NoHost, pins |-> {}, born |-> {}]

MflLeagues == {"prod", "trial"}

\* The epoch of the league that is not yet restored, if any: production stands still meanwhile.
Open == {e \in Epochs : epochs[e].status \notin {"none", "restored"}}

\* Mutant: only a rehearsal's own turns are gated.
AdmittedUntagged(j) == IF jobs[j].epoch = 0 THEN TRUE ELSE epochs[jobs[j].epoch].status = "armed"

\* rehearsalClaimPredicate: turns of an armed epoch, and nothing else while one is open.
Admitted(j) == IF jobs[j].epoch = 0 THEN Open = {} ELSE epochs[jobs[j].epoch].status = "armed"

\* The franchise is still held by the owner the epoch pinned, on the host it was armed for.
Undrifted(j) == LET e == epochs[jobs[j].epoch]
                IN  /\ host = e.trial
                    /\ <<OwnerOf[j], holder[OwnerOf[j]]>> \in e.pins

\* assertRehearsalClaim
Allowed(j) == Admitted(j) /\ (jobs[j].epoch # 0 => Undrifted(j))

Native(j) == Command[j] \in {"draft", "trade"}

\* An action is queued for the kind of host that understands it.
Matches(j) == (host.kind = "mfl") <=> (Command[j] # "league")

RunningJobs == {j \in Jobs : jobs[j].status = "running"}
RunningRows == {j \in Jobs : rows[j].status = "running"}

-----------------------------------------------------------------------------
\* Who holds the franchises, and who may come to hold them.
FirstHolders == [o \in Owners |-> 0]
Holdings == {h \in [Owners -> {0, 1}] : \A o \in Owners : h[o] = 1 => o \in Sellable}

HostInit(first) ==
    /\ host = first
    /\ switches = <<>>
    /\ epochs = [e \in Epochs |-> NoEpoch]
    /\ jobs = [j \in Jobs |-> [status |-> "none", epoch |-> 0]]
    /\ rows = [j \in Jobs |-> NoRow]
    /\ enabled = Owners
    /\ holder = FirstHolders

\* bindHost: nothing may be in flight, and queued intent is held, never reinterpreted.
Bindable(version) ==
    /\ host.version = version
    /\ RunningRows = {}
    /\ RunningJobs = {}

HeldByBinding == {j \in Jobs : rows[j].status = "pending"}

Bound(key, new) ==
    /\ host' = new
    /\ switches' = Append(switches, [key |-> key, from |-> host, to |-> new])
    /\ rows' = [j \in Jobs |-> IF j \in HeldByBinding THEN [rows[j] EXCEPT !.status = "held"]
                               ELSE rows[j]]

\* The commissioner selects a host outside of any rehearsal's own steps.
SelectHost(kind, league) ==
    /\ Len(switches) < MaxSwitches
    /\ Bindable(host.version)
    /\ Bound(<<0, "manual">>, [kind |-> kind, league |-> league, version |-> host.version + 1])
    /\ UNCHANGED <<epochs, jobs, enabled, holder>>

\* ingestEvent: an owner is woken; the wake belongs to no rehearsal unless it is tagged.
Wake(j) ==
    /\ jobs[j].status = "none"
    /\ jobs' = [jobs EXCEPT ![j].status = "pending"]
    /\ UNCHANGED <<host, switches, epochs, rows, enabled, holder>>

\* claim: one live turn per enabled owner, behind the rehearsal's gate.
StartTurn(j) ==
    /\ jobs[j].status = "pending"
    /\ OwnerOf[j] \in enabled
    /\ Admitted(j)
    /\ \A k \in RunningJobs : OwnerOf[k] # OwnerOf[j]
    /\ jobs' = [jobs EXCEPT ![j].status = "running"]
    /\ UNCHANGED <<host, switches, epochs, rows, enabled, holder>>

\* complete: a rehearsal's turn may only draft or set its queue (assertRehearsalCommit).
Committable(j) == Allowed(j) /\ (jobs[j].epoch # 0 => Command[j] \in {"draft", "queue"})

\* enqueueFootball, inside complete: the action is pinned to the host of this moment.
Enqueue(j) ==
    /\ jobs[j].status = "running"
    /\ Committable(j)
    /\ Matches(j)
    /\ jobs' = [jobs EXCEPT ![j].status = "done"]
    /\ rows' = [rows EXCEPT ![j] = [NoRow EXCEPT !.status = "pending", !.host = host,
                                                 !.holder = holder[OwnerOf[j]]]]
    /\ UNCHANGED <<host, switches, epochs, enabled, holder>>

\* The turn ends without an accepted action.
EndTurn(j) ==
    /\ jobs[j].status = "running"
    /\ jobs' = [jobs EXCEPT ![j].status = "dead"]
    /\ UNCHANGED <<host, switches, epochs, rows, enabled, holder>>

\* Operators switch workers, and franchises change hands.
SwitchWorker(o) ==
    /\ o \in Switchable
    /\ enabled' = IF o \in enabled THEN enabled \ {o} ELSE enabled \cup {o}
    /\ UNCHANGED <<host, switches, epochs, jobs, rows, holder>>

HandOver(o) ==
    /\ o \in Sellable /\ holder[o] = 0
    /\ holder' = [holder EXCEPT ![o] = 1]
    /\ UNCHANGED <<host, switches, epochs, jobs, rows, enabled>>
=============================================================================
