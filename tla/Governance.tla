------------------------------ MODULE Governance ------------------------------
(***************************************************************************)
(* Constitutional meetings of a league on its own engine                   *)
(* (GovernanceService), and the ratification in LeagueService that uses    *)
(* their outcome.                                                          *)
(*                                                                         *)
(*   governance_meetings    meeting    governance_votes      cast          *)
(*   governance_proposals   proposal   governance_decisions  decision      *)
(*   leagues.constitution_version      ratified                            *)
(*                                                                         *)
(* Commands hold the league's lock, one step each; a snapshot is a         *)
(* read-only transaction and matters by what an owner learns from it.      *)
(***************************************************************************)
EXTENDS Integers, FiniteSets

CONSTANTS
    Owners, Threshold,
    Meetings,     \* id -> [propose, vote], the deadlines it may be opened with
    MaxTime

VARIABLES
    now, meeting, proposal, cast, decision, ratified,
    sellers,  \* teams that changed hands after the vote
    seen      \* history: owner -> proposals of others it has been shown

governanceVars == <<now, meeting, proposal, cast, decision, ratified, sellers, seen>>

-----------------------------------------------------------------------------
GovernanceInit ==
    /\ now = 0
    /\ meeting = {} /\ proposal = {} /\ cast = {} /\ decision = {}
    /\ ratified = {}
    /\ sellers = {}
    /\ seen = [o \in Owners |-> {}]

\* RULES_FROZEN: governance ends with the constitution's ratification.
Founding == ratified = {}

OpenMeeting(m) ==
    /\ Founding /\ m \notin meeting
    /\ now < Meetings[m].propose /\ Meetings[m].propose < Meetings[m].vote
    /\ \A n \in meeting : Meetings[n].vote <= now
    /\ meeting' = meeting \cup {m}
    /\ UNCHANGED <<now, proposal, cast, decision, ratified, sellers, seen>>

\* submitProposal: one of each owner in a meeting; proposals are immutable.
SubmitProposal(o, m) ==
    /\ Founding /\ m \in meeting /\ now < Meetings[m].propose
    /\ [author |-> o, meeting |-> m] \notin proposal
    /\ proposal' = proposal \cup {[author |-> o, meeting |-> m]}
    /\ UNCHANGED <<now, meeting, cast, decision, ratified, sellers, seen>>

\* castVote: in the published window, once for each proposal.
CastVote(o, p, choice) ==
    /\ Founding
    /\ Meetings[p.meeting].propose <= now /\ now < Meetings[p.meeting].vote
    /\ \A c \in {"yes", "no"} : <<o, p, c>> \notin cast
    /\ cast' = cast \cup {<<o, p, choice>>}
    /\ UNCHANGED <<now, meeting, proposal, decision, ratified, sellers, seen>>

\* A franchise changes hands; its vote no longer counts.
Sell(o) ==
    /\ sellers' = sellers \cup {o}
    /\ UNCHANGED <<now, meeting, proposal, cast, decision, ratified, seen>>

\* quorum: enough votes of present owners, after the window.
YesVotes(p) == {o \in Owners \ sellers : <<o, p, "yes">> \in cast}
Quorum(p) == Meetings[p.meeting].vote <= now /\ Cardinality(YesVotes(p)) >= Threshold

PrepareRatification(p) ==
    /\ Founding /\ Quorum(p)
    /\ decision' = decision \cup {p}
    /\ UNCHANGED <<now, meeting, proposal, cast, ratified, sellers, seen>>

\* ratifyConstitution: validateDecision counts again.
RatifyConstitution(p) ==
    /\ Founding /\ p \in decision /\ Quorum(p)
    /\ ratified' = {p}
    /\ UNCHANGED <<now, meeting, proposal, cast, decision, sellers, seen>>

\* Mutant: the meeting is open to its owners from the start.
VisibleAlways(m) == {p \in proposal : p.meeting = m}

\* snapshot: the proposals of others once the proposal window has closed.
Visible(m) == {p \in proposal : p.meeting = m /\ now >= Meetings[m].propose}

Snapshot(o, m) ==
    /\ m \in meeting
    /\ seen' = [seen EXCEPT ![o] = @ \cup {p \in Visible(m) : p.author # o}]
    /\ UNCHANGED <<now, meeting, proposal, cast, decision, ratified, sellers>>

TimePasses ==
    /\ now < MaxTime /\ now' = now + 1
    /\ UNCHANGED <<meeting, proposal, cast, decision, ratified, sellers, seen>>

GovernanceNext ==
    \/ TimePasses
    \/ \E m \in DOMAIN Meetings :
          OpenMeeting(m) \/ \E o \in Owners : SubmitProposal(o, m) \/ Snapshot(o, m)
    \/ \E o \in Owners, p \in proposal, c \in {"yes", "no"} : CastVote(o, p, c)
    \/ \E o \in Owners : Sell(o)
    \/ \E p \in proposal : PrepareRatification(p) \/ RatifyConstitution(p)

-----------------------------------------------------------------------------
\* No owner writes a proposal having seen another's of the same meeting, and what
\* was voted on is settled: after a decision no further vote on it is cast.
SealedAndSettled ==
    [][/\ \A p \in proposal' \ proposal : \A q \in seen[p.author] : q.meeting # p.meeting
       /\ \A v \in cast' \ cast : v[2] \notin decision]_governanceVars
=============================================================================
