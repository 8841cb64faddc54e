----------------------------- MODULE LeagueDraft -----------------------------
(***************************************************************************)
(* The league's own draft: LeagueService's draft commands and the clock    *)
(* (LeagueClock.tick) that makes overdue picks from the owners' queues.    *)
(*                                                                         *)
(*   leagues               draft: status, next pick, epoch, pause, clock   *)
(*   league_draft_picks    picks; the rosters of this phase are the picks  *)
(*   league_draft_queues   queue                                           *)
(*                                                                         *)
(* A command is one transaction under the league's lock, hence one step; a *)
(* refused command changes nothing and is no step.  A tick reads the due   *)
(* pick in one step and executes it in a later one: `due' holds what the   *)
(* clock workers have read and not yet executed.  The deadline is kept as  *)
(* the time `left' until it (0 when it has passed), which is also what a   *)
(* pause saves and a resume restores.                                      *)
(***************************************************************************)
EXTENDS Integers, Sequences, FiniteSets, SequencesExt, Totals

CONSTANTS
    Teams,       \* the franchises in draft order, a sequence
    Players,
    RosterSize,
    Snake,       \* draftOrder: snake or linear
    PickTime,    \* draftPickSeconds
    Queues,      \* the queues an owner may set
    MaxEpoch     \* bound on resumptions

VARIABLES draft, picks, queue, due,
    had          \* history: time the pick has been on the running clock, since it came up
                 \* or since it was resumed with its time used up

draftVars == <<draft, picks, queue, due, had>>

-----------------------------------------------------------------------------
None == "none"
N == Len(Teams)
AllPicks == N * RosterSize

\* draftPosition; picks are counted from 0, positions of Teams from 1.
Position(i) ==
    IF Snake /\ (i \div N) % 2 = 1 THEN N - (i % N) ELSE 1 + (i % N)

TeamOnClock == Teams[Position(draft.next)]
Drafted == {picks[i].player : i \in DOMAIN picks}
RosterOf(t) == {picks[i].player : i \in {k \in DOMAIN picks : picks[k].team = t}}
Running == draft.status = "drafting" /\ ~draft.paused

DraftInit ==
    /\ draft = [status |-> "setup", next |-> 0, epoch |-> 0, paused |-> FALSE, left |-> 0]
    /\ picks = <<>>
    /\ queue = [t \in Range(Teams) |-> <<>>]
    /\ due = {}
    /\ had = 0

-----------------------------------------------------------------------------
\* startDraft; the constitution's ratification is Governance's.
StartDraft ==
    /\ draft.status = "setup"
    /\ Cardinality(Players) >= AllPicks
    /\ draft' = [draft EXCEPT !.status = "drafting", !.left = PickTime]
    /\ had' = 0
    /\ UNCHANGED <<picks, queue, due>>

\* setDraftQueue: an ordered list of known players, taken or not.
SetDraftQueue(t, q) ==
    /\ draft.status # "active"
    /\ queue' = [queue EXCEPT ![t] = q]
    /\ UNCHANGED <<draft, picks, due, had>>

\* pause: what is left of the pick's time is kept.
PausedDraft == [draft EXCEPT !.paused = TRUE]

PauseDraft ==
    /\ Running
    /\ draft' = PausedDraft
    /\ UNCHANGED <<picks, queue, due, had>>

\* resumeDraft: a pick that had run out of time starts again.
Remaining == IF draft.left = 0 THEN PickTime ELSE draft.left

ResumeDraft ==
    /\ draft.status = "drafting" /\ draft.paused /\ draft.epoch < MaxEpoch
    /\ draft' = [draft EXCEPT !.paused = FALSE, !.epoch = @ + 1, !.left = Remaining]
    /\ had' = IF draft.left = 0 THEN 0 ELSE had
    /\ UNCHANGED <<picks, queue, due>>

\* The end of draftPick and autoDraftPick: next pick, or the season.
Taken(p, automatic) ==
    /\ p \in Players \ Drafted
    /\ Cardinality(RosterOf(TeamOnClock)) < RosterSize
    /\ picks' = Append(picks, [team |-> TeamOnClock, player |-> p, automatic |-> automatic])
    /\ draft' = IF draft.next + 1 = AllPicks
                THEN [draft EXCEPT !.next = @ + 1, !.status = "active", !.left = 0]
                ELSE [draft EXCEPT !.next = @ + 1, !.left = PickTime]
    /\ had' = 0

\* draftPick: only before the deadline.  The pick and epoch the owner expects
\* are the current ones, or the command is refused.
DraftPick(p) ==
    /\ Running /\ draft.left > 0
    /\ Taken(p, FALSE)
    /\ UNCHANGED <<queue, due>>

-----------------------------------------------------------------------------
(* The clock.                                                              *)

\* tick reads the pick that is due.
ReadDue ==
    /\ Running /\ draft.left = 0
    /\ due' = due \cup {[pick |-> draft.next, epoch |-> draft.epoch]}
    /\ UNCHANGED <<draft, picks, queue, had>>

\* Mutant: a queue is read without the picks already made.
FirstQueued(t) == IF queue[t] = <<>> THEN None ELSE queue[t][1]

FirstAvailable(t) ==
    LET open == SelectSeq(queue[t], LAMBDA p : p \notin Drafted)
    IN IF open = <<>> THEN None ELSE open[1]

\* Mutant: the clock trusts what it read.
RefusedIfOver(w) == ~Running

\* autoDraftPick is refused: the draft has moved on, stands still or is not due.
Refused(w) ==
    \/ ~Running \/ draft.left > 0
    \/ w.epoch # draft.epoch \/ w.pick # draft.next

\* Without an available queued player the draft pauses itself.
AutoDraftPick(w) ==
    LET p == FirstAvailable(TeamOnClock) IN
    /\ w \in due /\ ~Refused(w)
    /\ IF p = None
       THEN draft' = PausedDraft /\ UNCHANGED <<picks, had>>
       ELSE Taken(p, TRUE)
    /\ due' = due \ {w}
    /\ UNCHANGED queue

SkipDue(w) ==
    /\ w \in due /\ Refused(w)
    /\ due' = due \ {w}
    /\ UNCHANGED <<draft, picks, queue, had>>

ClockRuns ==
    /\ Running /\ draft.left > 0
    /\ draft' = [draft EXCEPT !.left = @ - 1]
    /\ had' = had + 1
    /\ UNCHANGED <<picks, queue, due>>

DraftNext ==
    \/ StartDraft
    \/ \E t \in Range(Teams), q \in Queues : SetDraftQueue(t, q)
    \/ PauseDraft
    \/ ResumeDraft
    \/ \E p \in Players : DraftPick(p)
    \/ ReadDue
    \/ \E w \in due : AutoDraftPick(w) \/ SkipDue(w)
    \/ ClockRuns

DraftSpec == DraftInit /\ [][DraftNext]_draftVars

-----------------------------------------------------------------------------
\* Nobody is picked for before having had the whole pick time on the running
\* clock, however ticks, pauses and resumptions fall: a tick that read an
\* earlier pick never cuts a later owner's time short.
FullClock ==
    [][Len(picks') > Len(picks) /\ Last(picks').automatic => had >= PickTime]_draftVars

Rounds == Len(picks) \div N
SumOfPicks(t) == Total([i \in {k \in DOMAIN picks : picks[k].team = t} |-> i])

\* A franchise picks once in each round, after an even number of snake rounds
\* every franchise has had equally good places, and the draft ends with full
\* rosters of different players.
FairDraft ==
    /\ \A r \in 0..Rounds - 1 : {picks[r * N + k].team : k \in 1..N} = Range(Teams)
    /\ Snake /\ Rounds % 2 = 0 /\ Len(picks) % N = 0 =>
           \A t, u \in Range(Teams) : SumOfPicks(t) = SumOfPicks(u)
    /\ Cardinality(Drafted) = Len(picks)
    /\ draft.status = "active" =>
           \A t \in Range(Teams) : Cardinality(RosterOf(t)) = RosterSize

\* A pick on the running clock is made, or the draft waits for the commissioner:
\* the clock never leaves a pick hanging.
DraftGoesOn ==
    \A n \in 0..AllPicks - 1 :
        (Running /\ draft.next = n) ~> (draft.next > n \/ draft.paused)
=============================================================================
