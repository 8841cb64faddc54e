----------------------------- MODULE MflConvention -----------------------------
(***************************************************************************)
(* A constitutional meeting of a league hosted by MFL: the governance      *)
(* commands (executeMflGovernance), the managed convention that wakes the  *)
(* owners in waves (ConventionRuntime), and the operator's pause and       *)
(* resumption, which move every deadline (ConventionControlService).       *)
(*                                                                         *)
(*   mfl_governance_meetings     meet     runtime_conventions      running *)
(*   mfl_governance_proposals    ballot   runtime_convention_waves wave    *)
(*   mfl_governance_votes        votes    runtime_convention_turns turns   *)
(*   mfl_governance_decisions    decided  runtime_convention_pauses pause  *)
(*   mfl_governance_approvals and _applications               outcome      *)
(*                                                                         *)
(* Every command holds the league's lock: one step.  `enabled' and `busy'  *)
(* are what ConventionControlService.quiet asks of the owners' workers.    *)
(***************************************************************************)
EXTENDS Integers, Sequences, FiniteSets

CONSTANTS
    Owners,        \* one per franchise, each with a worker
    Proposers,     \* those that may submit proposals in this instance
    Voters,        \* those that may vote
    Threshold,     \* eight of the twelve
    Windows,       \* [discuss, propose, vote] of the meeting
    MaxTurns,      \* phase -> turns of an owner
    MaxSpend,      \* reservations an owner may have kept
    Extensions,    \* proposal extensions an operator may grant
    MaxPauses, MaxTime

VARIABLES now, meet, ballot, votes, decided, outcome,
          running, wave, turns, kept, enabled, busy, pause, recovered,
          given   \* history: unpaused time up to the proposals' end, and of the voting

governance == <<meet, ballot, votes, decided, outcome>>
convention == <<running, wave, turns, kept, enabled, busy>>
control == <<pause, recovered>>
conventionVars == <<now, governance, convention, control, given>>

-----------------------------------------------------------------------------
Phases == {"proposals", "voting", "closed"}
WaveNames == {"proposals", "discussion", "consolidation", "voting-open", "voting-review",
              "closed", "voting-recovery"}

Phase(m, t) == IF t < m.propose THEN "proposals" ELSE IF t < m.vote THEN "voting" ELSE "closed"
Unset == [discuss |-> 0, propose |-> 0, vote |-> 0]
Open == meet # Unset
Paused == pause.at # -1
Latest(o) == {p \in ballot : p.owner = o /\ \A q \in ballot : q.owner = o => q.revision <= p.revision}
Yes(p) == {o \in Owners : <<o, p, "yes">> \in votes}

ConventionInit ==
    /\ now = 0 /\ meet = Unset
    /\ ballot = {} /\ votes = {} /\ decided = {}
    /\ outcome = [approved |-> {}, applied |-> FALSE]
    /\ running = FALSE
    /\ wave = [w \in {} |-> 0]
    /\ turns = [o \in Owners |-> [p \in Phases |-> 0]]
    /\ kept = [o \in Owners |-> 0]
    /\ enabled = TRUE /\ busy = {}
    /\ pause = [at |-> -1, count |-> 0] /\ recovered = {}
    /\ given = [proposals |-> 0, voting |-> 0]

TimePasses ==
    /\ now < MaxTime /\ now' = now + 1
    /\ given' = IF Open /\ ~Paused /\ Phase(meet, now) # "closed"
                THEN [given EXCEPT ![Phase(meet, now)] = @ + 1] ELSE given
    /\ UNCHANGED <<governance, convention, control>>

-----------------------------------------------------------------------------
(* Governance.  An approved constitution ends it, a pause suspends it.     *)

Approved == outcome.approved # {}
InSession == ~Paused /\ ~Approved

OpenMeeting ==
    /\ InSession /\ ~Open
    /\ now < Windows.discuss /\ Windows.discuss <= Windows.propose /\ Windows.propose < Windows.vote
    /\ meet' = Windows
    /\ given' = [given EXCEPT !.proposals = now]
    /\ UNCHANGED <<now, ballot, votes, decided, outcome, convention, control>>

\* submitMflProposal: the first is sealed, a revision waits for the discussion.
SubmitProposal(o) ==
    LET n == Cardinality({p \in ballot : p.owner = o}) IN
    /\ InSession /\ Open /\ now < meet.propose
    /\ n < 3
    /\ n > 0 => now >= meet.discuss
    /\ ballot' = ballot \cup {[owner |-> o, revision |-> n + 1]}
    /\ UNCHANGED <<now, meet, votes, decided, outcome, convention, control, given>>

\* castVote: on the newest version only, once for each proposal.
CastVote(o, p, choice) ==
    /\ InSession /\ Open /\ p \in Latest(p.owner)
    /\ meet.propose <= now /\ now < meet.vote
    /\ \A c \in {"yes", "no"} : <<o, p, c>> \notin votes
    /\ votes' = votes \cup {<<o, p, choice>>}
    /\ UNCHANGED <<now, meet, ballot, decided, outcome, convention, control, given>>

Quorum(p) == /\ p \in Latest(p.owner) /\ now >= meet.vote
             /\ Cardinality(Yes(p)) >= Threshold

PrepareRatification(p) ==
    /\ InSession /\ Open /\ Quorum(p)
    /\ decided' = decided \cup {p}
    /\ UNCHANGED <<now, meet, ballot, votes, outcome, convention, control, given>>

ApproveConstitution(p) ==
    /\ InSession /\ p \in decided /\ Quorum(p)
    /\ outcome' = [outcome EXCEPT !.approved = {p}]
    /\ UNCHANGED <<now, meet, ballot, votes, decided, convention, control, given>>

\* recordMflApplication: the read-back of every section, once.
RecordApplication ==
    /\ ~Paused /\ Approved /\ ~outcome.applied /\ \A p \in outcome.approved : Quorum(p)
    /\ outcome' = [outcome EXCEPT !.applied = TRUE]
    /\ UNCHANGED <<now, meet, ballot, votes, decided, convention, control, given>>

-----------------------------------------------------------------------------
(* The managed convention.                                                 *)

Wave(phase, due, expires) == [phase |-> phase, due |-> due, expires |-> expires, status |-> "pending"]

Agenda(m) ==
    LET half == (m.discuss + m.propose) \div 2
        mid == (m.propose + m.vote) \div 2
    IN [w \in WaveNames \ {"voting-recovery"} |->
          CASE w = "proposals"     -> Wave("proposals", now, m.discuss)
            [] w = "discussion"    -> Wave("proposals", m.discuss, half)
            [] w = "consolidation" -> Wave("proposals", half, m.propose)
            [] w = "voting-open"   -> Wave("voting", m.propose, mid)
            [] w = "voting-review" -> Wave("voting", mid, m.vote)
            [] w = "closed"        -> Wave("closed", m.vote, m.vote + 1)]

StartConvention ==
    /\ Open /\ ~running
    /\ now < meet.discuss /\ meet.discuss < meet.propose /\ meet.propose < meet.vote
    /\ MaxTurns["proposals"] >= 3 /\ MaxTurns["voting"] >= 2
    /\ enabled /\ busy = {}
    /\ running' = TRUE
    /\ wave' = Agenda(meet)
    /\ UNCHANGED <<now, governance, turns, kept, enabled, busy, control, given>>

\* tick takes every due wave: woken, or skipped when its time is over.
Due == {w \in DOMAIN wave : wave[w].status = "pending" /\ wave[w].due <= now}

\* Mutant: an expired wave is sent all the same.
LateWave(w) == "dispatched"

Fate(w) == IF now >= wave[w].expires THEN "skipped" ELSE "dispatched"

Tick ==
    /\ running /\ ~Paused /\ Due # {}
    /\ wave' = [w \in DOMAIN wave |->
                   IF w \in Due THEN [wave[w] EXCEPT !.status = Fate(w)] ELSE wave[w]]
    /\ UNCHANGED <<now, governance, running, turns, kept, enabled, busy, control, given>>

\* reserveConventionTurn: a turn is kept back for every wave still to come.
Future(p) == {w \in DOMAIN wave : wave[w].phase = p /\ wave[w].status = "pending" /\ wave[w].due > now}

TurnLeft(o, p) == turns[o][p] + Cardinality(Future(p)) < MaxTurns[p]

ReserveTurn(o) ==
    LET p == Phase(meet, now) IN
    /\ enabled /\ o \notin busy
    /\ running /\ ~Paused
    /\ TurnLeft(o, p)
    /\ kept[o] < MaxSpend
    /\ turns' = [turns EXCEPT ![o][p] = @ + 1]
    /\ kept' = [kept EXCEPT ![o] = @ + 1]
    /\ busy' = busy \cup {o}
    /\ UNCHANGED <<now, governance, running, wave, enabled, control, given>>

\* The one turn beyond the limit that a voting recovery grants.
ReserveRecovery(o) ==
    /\ enabled /\ o \notin busy
    /\ running /\ ~Paused /\ Phase(meet, now) = "voting"
    /\ "voting-recovery" \in DOMAIN wave /\ wave["voting-recovery"].status = "dispatched"
    /\ now < wave["voting-recovery"].expires
    /\ o \notin recovered
    /\ kept[o] < MaxSpend
    /\ turns' = [turns EXCEPT ![o]["voting"] = @ + 1]
    /\ kept' = [kept EXCEPT ![o] = @ + 1]
    /\ busy' = busy \cup {o}
    /\ recovered' = recovered \cup {o}
    /\ UNCHANGED <<now, governance, running, wave, enabled, pause, given>>

\* A turn ends; a released reservation does not count.
TurnEnds(o, released) ==
    /\ o \in busy
    /\ busy' = busy \ {o}
    /\ kept' = IF released THEN [kept EXCEPT ![o] = @ - 1] ELSE kept
    /\ turns' = turns
    /\ UNCHANGED <<now, governance, running, wave, enabled, control, given>>

-----------------------------------------------------------------------------
(* The operator.                                                           *)

SwitchWorkers ==
    /\ enabled' = ~enabled
    /\ UNCHANGED <<now, governance, running, wave, turns, kept, busy, control, given>>

Quiet == ~enabled /\ busy = {}

PauseConvention ==
    /\ Quiet /\ running /\ ~Paused /\ pause.count < MaxPauses
    /\ now < meet.vote /\ ~Approved
    /\ pause' = [at |-> now, count |-> pause.count + 1]
    /\ UNCHANGED <<now, governance, convention, recovered, given>>

\* Mutant: the vote's deadline stays where it was.
ShiftedButVote(m, length, ext) ==
    [discuss |-> IF m.discuss > pause.at THEN m.discuss + length ELSE m.discuss,
     propose |-> IF m.propose > pause.at THEN m.propose + length + ext ELSE m.propose,
     vote    |-> IF m.vote > pause.at + length THEN m.vote + ext ELSE m.vote + length + ext]

\* Deadlines still ahead at the pause move by its length and the extension.
Shifted(m, length, ext) ==
    [discuss |-> IF m.discuss > pause.at THEN m.discuss + length ELSE m.discuss,
     propose |-> IF m.propose > pause.at THEN m.propose + length + ext ELSE m.propose,
     vote    |-> IF m.vote > pause.at THEN m.vote + length + ext ELSE m.vote]

Later(t, length, ext) == t + length + (IF t >= meet.propose THEN ext ELSE 0)

ShiftedWaves(length, ext) ==
    [w \in DOMAIN wave |->
        IF wave[w].status = "pending"
        THEN [wave[w] EXCEPT !.due = Later(@, length, ext), !.expires = Later(@, length, ext)]
        ELSE wave[w]]

Resumable == Paused /\ Quiet
Unpaused == [pause EXCEPT !.at = -1]

Resume(ext) ==
    LET length == now - pause.at IN
    /\ Resumable
    /\ ext = 0 \/ (pause.at < meet.propose /\ votes = {})
    /\ meet' = Shifted(meet, length, ext)
    /\ wave' = ShiftedWaves(length, ext)
    /\ pause' = Unpaused
    /\ UNCHANGED <<now, ballot, votes, decided, outcome, running, turns, kept, enabled, busy,
                   recovered, given>>

\* resumeVotingRecovery: once, at least ten minutes (one unit) to vote, and one
\* more wave with a turn of its own.
ResumeRecovery ==
    LET length == now - pause.at
        m == Shifted(meet, length, 0)
        ext == IF now + 1 > m.vote THEN now + 1 - m.vote ELSE 0
        moved == ShiftedWaves(length, 0)
    IN
    /\ Resumable
    /\ meet.propose <= pause.at /\ pause.at < meet.vote
    /\ "voting-recovery" \notin DOMAIN wave
    /\ \A w \in DOMAIN wave : wave[w].phase = "voting" => wave[w].status # "pending"
    /\ meet' = [m EXCEPT !.vote = @ + ext]
    /\ wave' = [w \in DOMAIN moved \cup {"voting-recovery"} |->
                   IF w = "voting-recovery" THEN Wave("voting", now, m.vote + ext)
                   ELSE IF moved[w].status = "pending" /\ moved[w].phase = "closed"
                   THEN [moved[w] EXCEPT !.due = @ + ext, !.expires = @ + ext] ELSE moved[w]]
    /\ pause' = Unpaused
    /\ UNCHANGED <<now, ballot, votes, decided, outcome, running, turns, kept, enabled, busy,
                   recovered, given>>

ConventionNext ==
    \/ TimePasses \/ OpenMeeting \/ StartConvention \/ Tick
    \/ \E o \in Proposers : SubmitProposal(o)
    \/ \E o \in Voters, p \in ballot, c \in {"yes", "no"} : CastVote(o, p, c)
    \/ \E p \in ballot : PrepareRatification(p) \/ ApproveConstitution(p)
    \/ RecordApplication
    \/ \E o \in Owners : ReserveTurn(o) \/ ReserveRecovery(o) \/ \E r \in BOOLEAN : TurnEnds(o, r)
    \/ SwitchWorkers \/ PauseConvention \/ ResumeRecovery
    \/ \E e \in Extensions : Resume(e)

-----------------------------------------------------------------------------
\* The meeting never closes before the owners have had their whole proposal and
\* voting time outside pauses, wherever the pauses fell.
WindowsKept ==
    Open /\ ~Paused =>
        /\ now >= meet.propose => given.proposals >= Windows.propose
        /\ now >= meet.vote => given.voting >= Windows.vote - Windows.propose

\* Once somebody has voted, the candidates stay as they are: no pause or
\* extension opens the proposals again.
BallotIsFixed == [][votes # {} => ballot' = ballot]_conventionVars

\* A wave wakes the owners in the phase its message speaks of, also after the
\* deadlines and the waves have been moved separately.
WavesInPhase ==
    [][\A w \in DOMAIN wave :
          wave[w].status = "pending" /\ wave'[w].status = "dispatched"
              => wave[w].phase = Phase(meet, now)]_conventionVars

\* Early chatter never takes the turn of a wave that is still to come, also when
\* a pause moves the waves; a voting recovery adds one turn.  A meeting may allow no turn
\* after the vote: then its last wave finds none, and nobody else takes any either.
TurnsForWaves ==
    \A o \in Owners, p \in Phases :
        \/ MaxTurns[p] = 0 /\ turns[o][p] = 0
        \/ turns[o][p] + Cardinality(Future(p))
               <= MaxTurns[p] + (IF p = "voting" /\ o \in recovered THEN 1 ELSE 0)
=============================================================================
