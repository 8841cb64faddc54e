------------------------------ MODULE MflReturn ------------------------------
(* Carrying a constitution voted on MFL across a trial (governance/mfl.ts):  *)
(* an anchor is prepared before the epoch is armed; once production is back  *)
(* the old decision, or one voted in the trial itself, is revalidated for    *)
(* the restored host, and approved there.  Every one of these reads all of   *)
(* its evidence again.                                                       *)
EXTENDS Rehearsal

CONSTANTS Threshold,   \* eight of the twelve
          MaxPolls     \* bound on the meetings

VARIABLES polls,      \* host version -> "open" or "closed", for versions with a proposal on the ballot
          ballots,    \* votes: [on: host version, owner, by: who held the franchise, yes]
          decided,    \* host version -> yes votes of the prepared decision
          anchors,    \* receipts mfl-return-anchor
          returns,    \* receipts mfl-decision-revalidated
          approvals   \* [on, from]: approved on a host version, voted on another or the same

Known(f, v) == v \in DOMAIN f
Extended(f, v, x) == [u \in DOMAIN f \cup {v} |-> IF u = v THEN x ELSE f[u]]

MeetingInit ==
    /\ polls = [v \in {} |-> "open"] /\ decided = [v \in {} |-> 0]
    /\ ballots = {} /\ anchors = {} /\ returns = {} /\ approvals = {}

-----------------------------------------------------------------------------
(* The ballot of a host version *)

Ballots(v) == {b \in ballots : b.on = v}
Yes(v) == {b \in Ballots(v) : b.yes /\ holder[b.owner] = b.by}

Frozen == \E a \in approvals : a.on = host.version
InSession == LeagueFree /\ host.kind = "mfl" /\ ~Frozen

OpenPoll ==
    /\ InSession
    /\ ~Known(polls, host.version) /\ Cardinality(DOMAIN polls) < MaxPolls
    /\ polls' = Extended(polls, host.version, "open")
    /\ UNCHANGED <<ballots, decided, anchors, returns, approvals>>

CastVote(o) ==
    /\ InSession
    /\ Known(polls, host.version) /\ polls[host.version] = "open"
    /\ \A b \in Ballots(host.version) : b.owner # o
    /\ \E choice \in BOOLEAN :
          ballots' = ballots \cup {[on |-> host.version, owner |-> o, by |-> holder[o], yes |-> choice]}
    /\ UNCHANGED <<polls, decided, anchors, returns, approvals>>

\* The vote deadline passes, on whatever host the league is by then.
ClosePoll(v) ==
    /\ polls[v] = "open"
    /\ polls' = Extended(polls, v, "closed")
    /\ UNCHANGED <<ballots, decided, anchors, returns, approvals>>

Quorum(v) == Known(polls, v) /\ polls[v] = "closed" /\ Cardinality(Yes(v)) >= Threshold

PrepareRatification ==
    /\ InSession
    /\ Quorum(host.version)
    /\ ~Known(decided, host.version)
    /\ decided' = Extended(decided, host.version, Cardinality(Yes(host.version)))
    /\ UNCHANGED <<polls, ballots, anchors, returns, approvals>>

-----------------------------------------------------------------------------
(* Evidence *)

ReturnQuiescence ==
    /\ Quiescent
    /\ enabled = {}
    /\ \A j \in Jobs : rows[j].status # "pending"
    /\ Open = {}

OnProduction == host.kind = "mfl" /\ host.league = "prod"

\* candidateEvidence: the decision still has its quorum, and all who voted still hold their franchise.
Supported(v) ==
    /\ Known(decided, v)
    /\ Quorum(v)
    /\ decided[v] = Cardinality(Yes(v))
    /\ \A b \in Ballots(v) : holder[b.owner] = b.by

Evidence(v) == [from |-> v, votes |-> Ballots(v), members |-> holder]

\* The receipts of the host from one version to another.
Between(low, high) == {i \in DOMAIN switches : switches[i].to.version \in (low + 1)..high}

\* Mutant: any restored epoch of the anchor's league will do.
AnyRestored(a, e) == epochs[e].status = "restored" /\ epochs[e].original = a.original

\* validateReturnLineage: production, the trial and production again, in two contiguous steps
\* of one epoch that was armed after the anchor and pinned the same owners.
Lineage(a, e) ==
    LET first == a.original.version
        Step(i) == \E j \in Between(first, host.version) : switches[j].key = <<e, i>>
    IN  /\ epochs[e].status = "restored"
        /\ epochs[e].original = a.original
        /\ epochs[e].trial.version = first + 1
        /\ host.version = first + 2 /\ host.league = a.original.league
        /\ Cardinality(Between(first, host.version)) = 2
        /\ Step("arm") /\ Step("restore")
        /\ e \notin a.before
        /\ \A p \in epochs[e].pins : a.evidence.members[p[1]] = p[2]

-----------------------------------------------------------------------------
PrepareAnchor ==
    /\ LeagueFree
    /\ ReturnQuiescence
    /\ OnProduction
    /\ Supported(host.version)
    /\ \A a \in anchors : a.original.version # host.version
    /\ anchors' = anchors \cup {[original |-> host, evidence |-> Evidence(host.version),
                                 before |-> {e \in Epochs : epochs[e].status # "none"}]}
    /\ UNCHANGED <<polls, ballots, decided, returns, approvals>>

Returned(a, e, v) ==
    /\ LeagueFree
    /\ ReturnQuiescence
    /\ OnProduction
    /\ Lineage(a, e)
    /\ Supported(v)
    /\ \A r \in returns : ~(r.on = host.version /\ r.evidence.from = v)
    /\ returns' = returns \cup {[on |-> host.version, anchor |-> a, epoch |-> e, evidence |-> Evidence(v)]}
    /\ UNCHANGED <<polls, ballots, decided, anchors, approvals>>

\* revalidateMflReturn: the anchored decision itself, unchanged to the last vote and owner.
RevalidateReturn(a, e) ==
    /\ Evidence(a.original.version) = a.evidence
    /\ Returned(a, e, a.original.version)

\* revalidateMflTrialDecision: what the trial itself voted; the anchor only proves the way back.
RevalidateTrialDecision(a, e) == Returned(a, e, epochs[e].trial.version)

Approved(v) ==
    /\ Quorum(v) /\ Known(decided, v)
    /\ approvals' = approvals \cup {[on |-> host.version, from |-> v]}
    /\ UNCHANGED <<polls, ballots, decided, anchors, returns>>

ApproveHere == InSession /\ Approved(host.version)

\* validateReturnReceipt
ApproveReturned(r) ==
    /\ InSession
    /\ ReturnQuiescence
    /\ r.on = host.version
    /\ Lineage(r.anchor, r.epoch)
    /\ OnProduction
    /\ Supported(r.evidence.from)
    /\ Evidence(r.evidence.from) = r.evidence
    /\ Approved(r.evidence.from)

ReturnNext ==
    \/ OpenPoll \/ PrepareRatification \/ PrepareAnchor \/ ApproveHere
    \/ \E o \in Owners : CastVote(o)
    \/ \E v \in DOMAIN polls : ClosePoll(v)
    \/ \E a \in anchors, e \in Epochs : RevalidateReturn(a, e) \/ RevalidateTrialDecision(a, e)
    \/ \E r \in returns : ApproveReturned(r)

-----------------------------------------------------------------------------
(* A constitution approved on a host was voted on that host, or on the two   *)
(* before it when these are one trial and the production it left, with every *)
(* voter of the former still the owner the trial pinned.                     *)
ApprovalsHaveLineage ==
    \A a \in approvals : a.from = a.on \/
       \E e \in Epochs :
          /\ epochs[e].status = "restored"
          /\ a.on = epochs[e].original.version + 2
          /\ a.from \in {a.on - 2, a.on - 1}
          /\ \A i \in Between(a.on - 2, a.on) : switches[i].key \in {<<e, "arm">>, <<e, "restore">>}
          /\ a.from = a.on - 2 =>
                \A b \in Ballots(a.from) : <<b.owner, b.by>> \in epochs[e].pins
=============================================================================
