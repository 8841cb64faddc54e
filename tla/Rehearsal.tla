------------------------------ MODULE Rehearsal -----------------------------
(* Trial epochs (rehearsal.ts): the league is switched to a disposable MFL   *)
(* league, only the epoch's own turns run, and production is restored once   *)
(* no outcome of the trial is open.  Arming and restoring take three         *)
(* transactions each; every one is found again by its receipts, so a crash   *)
(* between them is a repetition of the command.                              *)
EXTENDS FootballOutbox

VARIABLE retired    \* turns whose uncertain trial write was quarantined

trialVars == <<hostVars, outboxVars, retired>>

Quiescent == RunningJobs = {} /\ RunningRows = {}
Pinned(e) == {p[1] : p \in epochs[e].pins}
TurnsOf(e) == {j \in Jobs : jobs[j].epoch = e}

\* Writes whose latest receipt is neither verified nor rejected.
OpenWrites == {m \in Scopes \X Jobs : journal[m].state \in Unresolved}

\* A receipt of an earlier call under this key; bindHost answers with it.
Receipts(key) == {i \in DOMAIN switches : switches[i].key = key}
BindOnce(key, version, league) ==
    /\ Receipts(key) = {}
    /\ Bindable(version)
    /\ Bound(key, [kind |-> "mfl", league |-> league, version |-> host.version + 1])

-----------------------------------------------------------------------------
(* arm *)

Arm(e) ==
    /\ LeagueFree
    /\ epochs[e].status = "none"
    /\ Open = {}
    /\ Quiescent
    /\ host.kind = "mfl" /\ host.league = "prod"
    /\ enabled = {}
    /\ epochs' = [epochs EXCEPT ![e] = [status |-> "arming", original |-> host, trial |-> NoHost,
                                        pins |-> {<<o, holder[o]>> : o \in Owners},
                                        born |-> OpenWrites]]
    /\ UNCHANGED <<host, switches, jobs, rows, enabled, holder, outboxVars, retired>>

ArmHost(e) ==
    /\ LeagueFree
    /\ epochs[e].status = "arming"
    /\ BindOnce(<<e, "arm">>, epochs[e].original.version, "trial")
    /\ UNCHANGED <<epochs, jobs, enabled, holder, outboxVars, retired>>

Armed(e) ==
    /\ LeagueFree
    /\ epochs[e].status = "arming"
    /\ \E i \in Receipts(<<e, "arm">>) :
          /\ host = switches[i].to
          /\ epochs' = [epochs EXCEPT ![e].status = "armed", ![e].trial = host]
    /\ UNCHANGED <<host, switches, jobs, rows, enabled, holder, outboxVars, retired>>

-----------------------------------------------------------------------------
(* turns of the epoch *)

\* wakeOwner, and the observer's and outbox's wakes: fresh wakes are tagged with the armed epoch.
WakeForTrial(j, e) ==
    /\ LeagueFree
    /\ epochs[e].status = "armed"
    /\ OwnerOf[j] \in Pinned(e)
    /\ jobs[j].status = "none"
    /\ jobs' = [jobs EXCEPT ![j] = [status |-> "pending", epoch |-> e]]
    /\ UNCHANGED <<host, switches, epochs, rows, enabled, holder, outboxVars, retired>>

\* Actions of the epoch that no dispatcher ever took.
Unsent(e) == {j \in TurnsOf(e) : rows[j].status = "pending" /\ rows[j].attempts = 0}

Stop(e) ==
    /\ LeagueFree
    /\ epochs[e].status = "armed"
    /\ Quiescent
    /\ enabled' = enabled \ Pinned(e)
    /\ jobs' = [j \in Jobs |-> IF j \in TurnsOf(e) /\ jobs[j].status = "pending"
                               THEN [jobs[j] EXCEPT !.status = "cancelled"] ELSE jobs[j]]
    /\ rows' = [j \in Jobs |-> IF j \in Unsent(e) THEN [rows[j] EXCEPT !.status = "dead"]
                               ELSE rows[j]]
    /\ epochs' = [epochs EXCEPT ![e].status = "stopped"]
    /\ UNCHANGED <<host, switches, holder, outboxVars, retired>>

\* quarantineRetiredTrialIntent: a fresh read shows no effect of a pick whose outcome is unknown
\* (were it written under several scopes, the code would take the newest write).
Quarantine(e, j) ==
    /\ LeagueFree
    /\ epochs[e].status = "stopped"
    /\ Quiescent
    /\ enabled = {}
    /\ host = epochs[e].trial
    /\ j \in TurnsOf(e)
    /\ rows[j].status = "held" /\ rows[j].attempts > 0 /\ rows[j].host = epochs[e].trial
    /\ Command[j] = "draft"
    /\ \E s \in Scopes : s[1] = "trial" /\ journal[<<s, j>>].state = "unknown"
    /\ ~Seen("trial", j)
    /\ rows' = [rows EXCEPT ![j].status = "dead", ![j].fence = @ + 1, ![j].live = FALSE]
    /\ retired' = retired \cup {j}
    /\ UNCHANGED <<host, switches, epochs, jobs, enabled, holder, outboxVars>>

-----------------------------------------------------------------------------
(* restore *)

\* Mutant: only what is waiting or being sent blocks the return.
TerminalOrHeld(e) == \A j \in TurnsOf(e) : rows[j].status \in {"none", "delivered", "dead", "held"}

Terminal(e) == \A j \in TurnsOf(e) : rows[j].status \in {"none", "delivered", "dead"}

\* unresolvedNative: writes since the arming that are neither settled nor quarantined.
InDoubt(e) == {m \in OpenWrites : m \notin epochs[e].born /\ m[2] \notin retired}

Restore(e) ==
    /\ LeagueFree
    /\ epochs[e].status \in {"stopped", "restoring"}
    /\ Quiescent
    /\ enabled = {}
    /\ Terminal(e)
    /\ InDoubt(e) = {}
    /\ epochs[e].status = "stopped" => host = epochs[e].trial
    /\ epochs' = [epochs EXCEPT ![e].status = "restoring"]
    /\ UNCHANGED <<host, switches, jobs, rows, enabled, holder, outboxVars, retired>>

RestoreHost(e) ==
    /\ LeagueFree
    /\ epochs[e].status = "restoring"
    /\ BindOnce(<<e, "restore">>, epochs[e].trial.version, "prod")
    /\ UNCHANGED <<epochs, jobs, enabled, holder, outboxVars, retired>>

Restored(e) ==
    /\ LeagueFree
    /\ epochs[e].status = "restoring"
    /\ \E i \in Receipts(<<e, "restore">>) : host = switches[i].to
    /\ epochs' = [epochs EXCEPT ![e].status = "restored"]
    /\ UNCHANGED <<host, switches, jobs, rows, enabled, holder, outboxVars, retired>>

EpochNext ==
    \E e \in Epochs : \/ Arm(e) \/ ArmHost(e) \/ Armed(e) \/ Stop(e)
                      \/ Restore(e) \/ RestoreHost(e) \/ Restored(e)
                      \/ \E j \in Jobs : WakeForTrial(j, e) \/ Quarantine(e, j)

\* Operators: hosts, workers and franchises.
OperatorNext ==
    /\ LeagueFree
    /\ \/ \E b \in Selectable : SelectHost(b[1], b[2])
       \/ \E o \in Owners : SwitchWorker(o) \/ HandOver(o)
    /\ UNCHANGED <<outboxVars, retired>>

TrialInit(first) == HostInit(first) /\ OutboxInit /\ retired = {}

TrialNext ==
    \/ EpochNext \/ OperatorNext
    \/ TurnNext /\ UNCHANGED retired
    \/ OutboxNext /\ UNCHANGED retired

-----------------------------------------------------------------------------
(* An action takes effect only on the host its owner formed it for, a trial's *)
(* on the trial and any other's never there, whatever is switched            *)
(* in between (host.ts: "Never reinterpret it on the new host").             *)
ActsWhereMeant ==
    \A j \in Jobs :
       /\ \A i \in DOMAIN acted[j] : acted[j][i] = rows[j].host
       /\ acted[j] # <<>> /\ Native(j) =>
             IF jobs[j].epoch = 0 THEN rows[j].host.league # "trial"
             ELSE rows[j].host = epochs[jobs[j].epoch].trial

(* While the outcome of a write is open, no other write to its MFL league    *)
(* concerning one of its franchises has been sent after it, and it was not   *)
(* sent again (MFL_UNRESOLVED_OPERATION_HOLD; "replay never blindly repeats  *)
(* an external POST").                                                       *)
NoWriteOverDoubt ==
    \A m, n \in OpenWrites :
       m # n /\ m[1][1] = n[1][1] => Affects[m[2]] \cap Affects[n[2]] = {}

LeftNothing(e) ==
    /\ \A j \in TurnsOf(e) :
          /\ rows[j].status \in {"none", "delivered", "dead"}
          /\ jobs[j].status \notin {"pending", "running"}
          /\ rows[j].status = "dead" /\ Len(acted[j]) > 0 => j \in retired \/ ~Native(j)
    /\ \A m \in OpenWrites : m[2] \in TurnsOf(e) => m[2] \in retired

BackInTwo(e) ==
    \E i \in Receipts(<<e, "restore">>) :
       /\ switches[i].to.version = epochs[e].original.version + 2
       /\ switches[i].to.league = epochs[e].original.league

(* When production is back, the trial left nothing behind: every action of   *)
(* it is delivered or given up, no turn of it waits, every write has a known *)
(* outcome or was quarantined, and the host came back in exactly two steps.  *)
ReturnedClean ==
    \A e \in Epochs : epochs[e].status = "restored" => LeftNothing(e) /\ BackInTwo(e)
=============================================================================
