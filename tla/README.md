# Verification of black4-fantasy-football

TLA+ models of the parts of this repository that have to be right although
processes crash, messages are lost and several programs work on the same
tables. Paths below are relative to the repository root; `src/src/...` in
PROJECT.json is the file `src/...` of the repository.

- `tlc -workers 2 -config X.cfg M` repeats a run (the table in section 4 names
  X and M). `tlapm M.tla` repeats the proofs of NativeScheduleProofs,
  RuntimeTurnProofs, RehearsalProofs, FranchiseProofs, PublicationProofs,
  BuzzRelayProofs, LeagueProofs and LeagueMarketProofs.
- PROJECT.json maps every definition to the lines it models, and lists runs,
  mutants, findings, hazards and theorems.

## 1. The system

A fantasy football league whose franchises are run by language models. State
is in PostgreSQL; programs are loops that may be killed at any time and are
restarted by a supervisor. Transactions take a small set of locks: an agent row
(wallet and queue of a franchise), advisory locks per league (7044), per
schedule command (7045, 7046), per owner lane (7047) and per scope of the MFL adapter (7066).

| Component | State | Operations | What is hard |
|---|---|---|---|
| Season scheduler (`src/runtime/native-schedules.ts`) | appointments, occurrences, calendar and league events | owner create, update, cancel, acknowledge; record events; materialize due work; operator recovery | redefinition while work is in flight, postponement, downtime |
| Season dispatcher (`scripts/native-season-dispatcher.ts`, `native-schedules.ts` dispatchOne, `native-schedule-buzz.ts`) | lane lock, delivery receipts, two inboxes per owner | inspect, reconcile, claim, send | sends whose outcome is unknown, overlapping dispatchers, one appointment at a time |
| Appointment feeds (`native-schedule-feeds.ts`) | cursors | poll MFL, record events | bounded windows, interrupted polls, moved dates |
| Draft observer and notices (`mfl-draft-observer.ts`, `native-draft-notifications.ts`) | the board last observed, epochs, notices | configure, pause, resume, poll, deliver | a board read outside of a transaction, a notice in doubt |
| Turn store (`src/runtime/index.ts`) | jobs, reservations, agent rows, messages, memory | ingest, schedule, cancel, claim, reserve, complete, fail, settle, reconcile | leases, fences, money in doubt |
| Worker (`src/runtime/worker.ts`) | none that survives | runOne | a model call that outlasts its lease |
| Host selection and football outbox (`src/league/host.ts`, `src/runtime/football-outbox.ts`) | host binding with its version, outbox rows | bind; claim, execute, acknowledge, hold, fail, reconcile | exactly once across two systems, a host that changes under queued work |
| MFL adapter and journal (`src/mfl`) | journal of operations, draft queues | execute, reconcile | an external site without transactions |
| Rehearsals (`src/runtime/rehearsal.ts`) | epochs | arm, gate, stop, quarantine, restore | nothing of a trial may reach production |
| League (`src/league/index.ts`, `clock.ts`) | draft, rosters, lineups, trades, waivers, windows | commands under one lock; deadlines | order of waiver claims, stale trades, draft clock |
| League events (`src/league/dispatcher.ts`) | deliveries | dispatchOnce | one wake per event, starvation |
| Governance (`src/governance`) | meetings, proposals, votes, decisions | propose, vote, close, ratify; the return of a decision taken in a trial | quorum, sealed ballots, lineage of an approval |
| Conventions and conversations (`src/runtime/convention*.ts`, `conversation.ts`) | waves, turns, pauses; sessions | dispatch, pause, resume; open, admit, close | deadlines that shift, allowances, suspension of everything else |
| Owner stages (`src/runtime/owner-stage*.ts`, `owner-followup.ts`, paid searches of `src/research/firecrawl.ts`) | stage, reviews, allowances, dispositions | configure, ration, review, retest, close | evidence that changes after its review |
| Franchise services (`src/franchise`) | outbox, drafts, batches, expenses | draft, approve, publish, reserve, settle | approval of what was reviewed, one wallet |
| Publication (`src/publication`) | scheduled items | claim, check, post | a post that may have been made |
| Buzz (`src/buzz`) | outbound messages, receipts, archive cursors | mirror, send, reconcile, poll | uncertain sends, echoes of one's own messages |
| Providers, harnesses (`src/providers`, `src/harnesses`) | call records, manifests | call, reconcile costs | evidence |
| Data and scoring (`src/data`, `src/scoring`) | feeds, statistics | ingest, score | arithmetic |
| API, CLI, MCP, web (`src/api.ts`, ...) | none | parse, authenticate, route | nothing of their own |

How they interact. The feeds, the league dispatcher and the outboxes wake a
franchise by inserting a job (or a scheduler event); a worker turns a job into
a decision; `complete` writes the decision's effects in one transaction: jobs,
messages, outbox rows. The outboxes carry those to the league, to MFL, to Buzz
and to publication, and their results come back as jobs. The season scheduler
is a second way of waking owners that run in their own Buzz process: it sends
them a private message and waits for their acknowledgement.

What makes each component correct:

- scheduler: no due instant lost, none delivered twice, no burst, cancelled
  work never sent, one appointment at a time per owner, calendar changes
  followed, private events private;
- feeds: whatever MFL shows is told once or the gap is owned up to; observer:
  every pick and turn told, none twice, none stale;
- turn store: one live turn per franchise, superseded turns without effect,
  every charge booked once, the budget kept, staff answered once, jobs end;
- outboxes, mirror and publisher: each action takes effect at most once and its
  owner learns the truth; nothing is retried while its outcome is unknown;
  nothing takes effect elsewhere than where it was meant;
- league: a player is on one roster, rosters within their size, FAAB never
  negative, waivers in the published order, one pick per turn of the draft;
- governance: a decision is backed by the votes of the required quorum on the
  document that is ratified, no ballot is read before it counts, no pause costs
  an owner time to speak or vote;
- sessions and stages: within their allowance, nothing outside of them, and what
  was reviewed stays as it was reviewed;
- services and publication: only what was approved is published or paid, once.

## 2. The plan and what is left of it

Written, with proofs: the season scheduler and its dispatcher, the turn store and
worker, the league's draft, market and governance, the MFL convention and the return of
its decisions, the football outbox with the MFL journal under rehearsals, the franchise
outbox, the Buzz mirror and archive, the X publisher, the expenses, sessions of
conversation, the owner stage, the draft observer and the season's feeds. Written and
model-checked only: the delivery of the league's events, whose property is a liveness one.

Left, in this order:

1. cost reconciliation from provider evidence (`src/providers/reconcile.ts`), of
   which RuntimeTurns has the outcome only, and manifest activation;
2. pure algorithms against reference definitions: weekly times across clock
   changes (`native-schedule-time`), round-robin schedules, scoring;
3. managed ACP processes (`src/buzz/managed-acp.ts`).

## 3. The models

### NativeSchedules and NativeScheduleDispatch

`sched`, `occ` and `events` are the three tables of migration 042; `now` is
the database clock. Each command, feed and operator transaction is one action
of the same name as its function: Define (create and update), Cancel,
Acknowledge, RecordCalendarEvent, RecordLeagueEvent, MaterializeDue,
FailOccurrence, RecordExecution (which has no production caller and is kept
because it is exported). One command is two actions, ReadAnchor and
CommitAnchor, because it reads the calendar event outside the lock that guards
it. A stored command receipt that is replayed changes nothing and is a
stutter.

`dispatchOne` is not a transaction. NativeScheduleDispatch gives it a program
counter per dispatcher and an action per statement or network call: Visit (the
lane lock), CheckOutstanding, Select, Reconcile*, Inspect*, Claim, Send,
Receipt and NoReceipt, with Crash at any of them. `wire` holds messages the relay
has not shown yet and `inbox` what the owner sees. The transport's three
answers to a reconciliation are found, unknown and absent; `AbsenceProvable`
says whether it can give the last. The shipped Buzz transport cannot.

AppointmentInbox is what an owner may rely on: one appointment at a time, each
at most once in the mail, none after it was closed. `ImplementsInbox` checks
the refinement.

Abstractions. Weekly times are a grid, as interval times are (the wall-clock
arithmetic is in the plan as an algorithm of its own). Of a team's rows one in doubt
comes first, then the earliest scheduled, and of those scheduled for the same instant
the one with the first id, which is a hash: any of them, but the same at every
reading (`FirstOf`). Teams are visited in turn. `failOccurrence` reads its evidence as given by the operator. Channel
and membership checks are one answer, ready or not.

### RuntimeTurns

`job` is runtime_jobs, `resv` runtime_reservations, `spent`, `reserved` and
`enabled` the agent row. `attempts` and `fence` are incremented together and
are one field. Every store method locks the agent row and is one action; the
worker's `runOne` is a program counter over them: Claim, Reserve, Invoke,
Return or DriverThrows, ObserveCost, SettleOverrun, Complete, Fail. `incurred`
is what the provider charged, which the store learns only through the worker
or the operator. Leases are booleans: AbandonedLeaseExpires for nobody's
lease, StalledLeaseExpires (a fault) for a lease whose worker is late. A
worker whose turn was cancelled, fenced off or refused goes through the same
paths as in the code, and knows only what it learned (`holds`, `lost`,
`aborted`).

Abstractions. Every turn reserves the same amount. A turn makes one model
call. A decision's actions that create or cancel jobs are modelled; those that
write outbox rows and messages begin in the modules of the outboxes, and memory is
not modelled. `recordExecution` writes a
receipt only. Priorities and due times do not restrict which job is claimed.
The gates of rehearsals, conversations, conventions and owner stages on a claim
are in the modules of those components, which have an abstract turn of their own
each. Freezing a franchise for other reasons than cost is not modelled; no code
path of the store re-enables a franchise.

### LeagueDraft, LeagueMarket, LeagueEvents (the own engine)

A league command is one transaction under the league's lock and so one action;
a refused one is no step, and a repeated one is answered from its receipt.
LeagueDraft has the draft commands and the clock, which reads a due pick in one
step (ReadDue) and executes it in a later one (AutoDraftPick or SkipDue), so
that the owner, a pause or a resumption can come in between; the deadline is
kept as the time left. LeagueMarket has schedule imports, week changes,
lineups, trades, waiver periods, claims, free-agent windows and the holds on
dropped players; a lineup's slots are not told apart. LeagueEvents reads a
batch of undelivered pairs, the oldest first and no more than Limit, and delivers
each in a transaction of its own. A delivery that throws (the owner was switched off
meanwhile, the payload does not fit into a job, the transaction failed) is counted
and caught, the batch goes on, and the pair is read again at the head of the next
batch. An event whose payload does not fit is never delivered, so that Limit
of them leave no place for a later event.

Two things the market model shows and no document denies: trades and drops ask
whether a player is locked in the current week only, and clear him from later
weeks' lineups too, so a week that is advanced late unlocks a player who plays
in the next one (LockedSpotsStay is therefore about spots as setLineup locks
them, not about a week nobody has advanced to); and a waiver period is settled
by whichever of clock and commissioner comes first, not at its deadline.

### Governance, MflConvention, MflReturn

Governance is the constitutional meeting on the own engine and the ratification
in LeagueService that uses its outcome; `seen` is what snapshots have shown an
owner. MflConvention is the same meeting on MFL, with the managed convention
that wakes owners in waves and the operator's pause, which stops all workers and
on resumption shifts every deadline; `given` keeps how much unpaused time owners
really had. MflReturn takes a decision across a rehearsal: an anchor before it,
revalidation after it, approval on the restored host, each of which reads all
its evidence again.

Left out: the proposals' content and the convention's menu (registerMflMenu and
its validation), the two kinds of members (ten model-run and two human owners,
of which thresholds of eleven and one are asked in places), the mapping of
franchises and the manifests. What the convention model shows: a wave that is due
and not yet dispatched does not count as a future one, so early chatter may take
the turn docs/CONVENTION_RUNTIME.md keeps for "future" waves, for the short time
until the next tick; a dispatched recovery wave of the voting is not shifted by a
second pause; on MFL the first proposals are accepted once discussion has opened.

### FootballHost, FootballOutbox, Rehearsal

FootballHost is the binding of a league to an engine: its version pins every
queued action, and the predicates of a rehearsal gate turns and rows.
FootballOutbox gives dispatchers a program counter over `dispatchOne` and the
adapter's `execute` (Claim, Context, Load, Begin, Preflight, Post, ReadBack,
Acknowledge, Settle), with the journal's lock 7066, receipts per write, and the
operator's read-only reconciliation (ClaimHeld, Reconcile). An acknowledgement that
throws after the action was carried out is AcknowledgeFails (here and in
FranchiseOutbox). Lock and receipts belong to the adapter's scope, a hash of the MFL
league and of the owners of all its franchises: `Scopes` are pairs of the two, an
adapter keeps the scope it was loaded with, and an open write blocks further ones of
its own scope only (`Blocked`). Franchises are sold outside of this code (HandOver);
after a sale no adapter is loaded unless the operator writes the deployment file anew
(`Deployed`), which `Reissued` says whether he does. The lock is not a variable: a
worker holds it while its write is under way (`InWrite`). `wire` holds writes
MFL may still carry out after everyone stopped waiting. Rehearsal arms an epoch
in three transactions, gates, stops, quarantines and restores in three; a crash
between two of them is a repetition of the command, which finds its receipts.

### FranchiseOutbox, BuzzRelay, Publication, Expenses

FranchiseOutbox: actions of the league's own services, which are one transaction
under their own lock, and channel messages, whose send is journaled by a receipt
under lock 142 of the channel. BuzzRelay: the mirror of private messages under
lock 200 of the pair, its receipts, late sends, and the pollers of both owners
with cursors and pages; an event that may be the echo of a send in doubt is held
until the doubt is resolved. The row is settled on a connection of its own before the
transaction that locks the conversation commits; if that commit fails, which
`CommitFails` permits, the row is unknown, or blocked once more. Publication: drafts, batches, approvals and the
publisher's tick under lock 7131. Expenses: requests, reservations and invoices
on the wallet the owner's turns are paid from, and those turns as far as the
wallet is concerned.

Left out: opening a new conversation, the policy of broadcasts and recipients,
edits, deletions and their quarantine, events the relay shows more than the
120 seconds of overlap late, the check of the X account's identity (one of the
reasons a post is rejected), brands, the name ballot, the cutover between
transports.

### Conversations, OwnerStage

Conversations: sessions that open over a held trial, what they admit, their
allowances, expiry, drift of what they pinned, and close. OwnerStage: one owner
from the configuration of the stage (which puts earlier work aside) to its close,
with rationed turns and paid searches, the follow-up appointment with its retest
and the replacement of a retest, dispositions of an introduction in doubt, the
commissioner's review of the evidence and the close on it.

Left out of OwnerStage: deadlines and their extension, the probe of private
memory, brand, packet, needs and exchanges among the evidence, attestLegacyFollowup,
retries of a job (one attempt each), pauses, checkpoints. The sums of a session, of a
stage and of the wallet are `Total` of module Totals, which counts units. One owner stands for each
of the ten: nothing but the close relates them, and the close asks the same of all.

### OwnerActions, the abstract promise of everything that goes out

An action takes effect at most once; "done" is said only of what took effect,
"failed" only of what did not and never will; the rest is unproven. MCOperations
shows that the football outbox, the franchise outbox, the mirror and the
publisher each implement it, with the state of their rows mapped to a verdict
(`Verdict`) and the external system's state to effects (`Effects`); section 5 names
the theorem that proves it of each. Two verdicts
are mapped to "unproven" although the owner reads "failed": an action of the own
engine, of the draft queue or of local services that was buried, which may have taken
effect before (section 6), and a trial pick the operator put away. So KeepsPromise says
of those actions that they take effect at most once, and not that a buried one had none.
Where a commit after a mirrored send may fail (scene torn, `MirrorKeepsPromise`) the
receipts of the sends are the verdict, as the rows may be thrown back.

### DraftObserver, ScheduleFeeds

DraftObserver: MFL's draft board, the epoch the commissioner configures, polls in
three steps (ClaimPoll under lock 7044, ReadBoard outside of it, CommitPoll under
it and under the fence), holds, the manual pause, and the delivery of notices: the
attempt is committed before the message goes out, under a lock of the session. In
`runtime` mode the observer wakes the owner itself, by a job that belongs to
RuntimeTurns. A changed binding or adapter is one with a changed host. Left out:
franchises without a mapping, time stamps of the source, a current pick that is
already filled (a board that contradicts itself).

ScheduleFeeds: one poller, the transactions of which it sees the last Window, a
franchise's offers, and the dates of one recurring event. What it records are the
inputs RecordCalendarEvent and RecordLeagueEvent of NativeSchedules. A
transaction is known by its number where the code takes a digest of its content,
so that a row MFL revises is not told again in the model. Left out: the choice of
the week and of the page to read, the expansion of a recurrence into dates, the
health report.

## 4. The runs

| Run | Module, configuration | Shows |
|---|---|---|
| sched_race | MCNativeSchedules, SchedRace | two overlapping dispatchers, edits, an operator and a fault: one occurrence handed off, withdrawn work unsent, only current definitions claimed, an appointment retired only by its own work, closed and recovered work final, consecutive messages in different inboxes |
| sched_retry | MCNativeSchedules, SchedRetry | crashes, losses, late arrivals and proven absence: no duplicates, true receipts, and the refinement of AppointmentInbox |
| sched_stale_anchor | MCNativeSchedules, SchedStaleAnchor | finding: a calendar change is lost for a command in progress |
| turn_job | MCRuntimeTurns, TurnJob | two workers race for one job, with overruns and lost acknowledgements: superseded turns have no effect, the wallet is true, the budget holds, and the job ends |
| turn_staff | MCRuntimeTurns, TurnStaff | two jobs of a franchise, or one that delegates, stalled, abandoned, retried and buried: one live turn, no freeze under it, held money can be resolved, closed jobs stay closed, and the owner of the staff job is answered once and truly |
| turn_overrun_staff | MCRuntimeTurns, TurnOverrunStaff | finding: an overrun staff job wakes nobody |
| live | MCLive, Live | what must happen: due appointments are carried through, the draft goes on fairly, events reach their owners past deliveries that fail |
| league | MCLeague, League | the market, meetings, conventions, appointments of all timings, the draft's observer and the feeds |
| league_overlap | MCLeague, LeagueOverlap | finding: a window opens over an unresolved waiver period |
| operations | MCOperations, Operations | everything that goes out: football on every engine, rehearsals, decisions brought back, messages, posts, paid services, sessions and stages |
| outlived_check | MCOperations, OutlivedCheck | finding: a dispatcher that outlives its lease acts on the wrong host |
| resold_scope | MCOperations, ResoldScope | finding: a write to MFL is sent twice around the sale of a franchise |

Scenes. The runs live, league and operations play several small instances, one
per behaviour: the variable `scene` is chosen in the initial state and never
changes, the scene's module moves and the variables of the others stand still.
In MCOperations the modules without football use the variables of the football
ones under other names (the WITH of each instance says which), which keeps the
states small. A property of such a run names the scenes it is about.

| Run | Scenes |
|---|---|
| live | season (one appointment, two dispatchers, two faults), draft (two owners, two snake rounds, four players), delivery (three events for two owners, deliverable or not, two dispatchers that take two deliveries at a time, workers switched off and on) |
| league | trades (kickoffs between two weeks' lineups), waivers (two periods and a window), assembly (two owners, a meeting and the next), debate, waves, turns and unheard (MflConvention: quorum and deadlines; two pauses; the ration of turns, with one or none after the vote), downtime, moves and alerts (NativeSchedules: late services, redefinition, private offers), epochs and board (DraftObserver: two epochs and hosts over one pick; two picks), ledger and calendar (ScheduleFeeds: transactions outrunning a window of two; dates and offers) |
| operations | writes (two MFL writes over one franchise), sold (the same around the sale of the other franchise), commands (own engine and queue around a change of host), trial (an epoch), return (two epochs or changes of host), bought (one, while the franchise is sold), echo and mixed (channel messages in the same words; a message and a local action), relay (two mirrored messages and a foreign one), torn (the same with commits that fail and one listener), desk (two batches, a draft revised after its own was approved), batch (one batch of two drafts), services (two services, two turns), talk (two sessions), onboarding (a stage after a convention whose turn may still run, money short), welcome (the stage's own wake beside the convention's), retesting (six turns: follow-ups that fail and are retested) |

Bounds. One or two franchises, appointments, jobs, actions or messages, and two
dispatchers or workers: every lock and fence in these components is per franchise,
channel, pair or league, so a second one matters only where privacy or
independence is the question. The two dispatchers, clerks and publishers of operations
are told apart by nothing, which its SYMMETRY declares. Faults (MaxFaults, MaxSlips, MaxFailures,
MaxLapses: crashes, losses, stalls, failed reads) are one where a single fault in
the right place is the hazard, two or three where a recovery may itself be
disturbed. Tries is 2 instead of 5, OrderTries 2 instead of 5, MaxAttempts 2 or
3 instead of 3; MaxClaims and MaxTakes end a row's claims (the operator's
included) one after the tries are used up; in writes, which has two faults, and in
trial, which has an epoch, with the tries themselves. MaxVersion and MaxVersions allow each
definition or draft to be replaced while an older one is in flight; MaxTime covers
the deadlines of the instance and the time after them. MaxDepth cuts chains of
delegation, which the code bounds by forbidding staff to delegate; StaffLimit is
1 instead of 4, so that the limit is reached; MaxCost is 0 where money is not the
question and 1 otherwise, and the provider may charge one more than that, which
is all an overrun needs. `OneThingAtATime`, a constraint of turn_staff, keeps
two events that compete apart from delegation and retries, which are checked one
at a time. MaxPolls is two meetings, MaxSwitches the bindings a scene needs;
PageSize is 3 instead of 200 and Window 2 instead of 200, so that a page fills and a
window passes by; MaxRows 5 is two windows and one; MaxPauses, MaxEpoch,
MaxEpochs, MaxResumes and MaxHosts end repetitions after the first or second,
MaxFence the polls of an observer. Count of OwnerStage is three jobs, which
onboarding needs for an introduction, a follow-up and an interruption, and six in
retesting, which is what a retest and its replacement take; Earlier, Searchers
and Doubtful name the jobs that may stand before the stage, search, and be lost;
Kinds and Acts what an instance's turns are woken for and do; one event waits at a
time. Budget, Cap, TurnHold and SpendEach are a few units, so that money runs short.
The mutants of PROJECT.json show for each property that its run reaches the case
it is about.

Assumptions of the runs.

- `OutliveCheck = FALSE` in operations: no dispatcher, clerk or publisher is
  stopped, between its last check and the call that check is for, for longer than
  its lease (two minutes for a post). Without it the football outbox is wrong
  (outlived_check), and so is the publisher (section 6).
- `Rescoped = FALSE` (`Reissued` where a franchise of an MFL league is sold): the deployment file is
  not written anew for the new owner, and MFL actions wait. Otherwise a write may be
  repeated (resold_scope).
- `CommitFails = FALSE` in relay: with such commits (scene torn) an echo may wake
  its recipient again (section 6), and ReadOnce is replaced by EchoesWait there.
- `AbsenceProvable = FALSE` in sched_race, as the shipped transport answers.
- `LostAcks = FALSE` in turn_staff: HeldMoneyIsResolvable is false with lost
  commit acknowledgements (section 6).
- One process polls the feeds of a league.
- NothingMissed says nothing of a feed whose first read found no transaction of
  interest (the field `blind` of its cursor; section 6).

Fairness. The dispatcher's main loop catches the error of a cycle and runs
again, and workers, clocks and dispatchers run under a supervisor, so each is
weakly fair in the steps it takes by itself, and a claim that buries an exhausted
job is one of the workers' claims. A lease nobody renews runs out by the clock. A
message on the wire arrives unless a fault loses it, and an owner's process
finishes a turn it was given (native owners must acknowledge; without that
nothing follows, by design). Owners' other commands, the calendar, the
commissioner and crashes are not fair. DueIsHonoured assumes a transport that can
prove absence; JobsEnd excepts frozen franchises; EventsReachOwners
excepts owners whose worker is switched off meanwhile, events whose own payload does
not fit, and events behind a whole batch of older ones that do not (`Crowded`), which
starve for good; the deliverable ones among fewer failures all arrive. The safety runs state no fairness.

Deadlock is not checked: all the bounds can be used up, and a franchise with
nothing due rests.

## 5. The proofs

Each theorem holds for every value of the constants, with the assumptions named
here and the named assumptions of the modules only. The properties are
first checked with TLC on the instances of section 4. In every module there is a lemma per action and
conjunct it can disturb, and the theorems combine them by PTL.

### The season scheduler: NativeScheduleProofs

- `TypeCorrect`: TypeOK, with its references between tables;
- `NeverTwoHandedOff`: one occurrence handed off per franchise;
- `ClosureIsFinal` (ClosedIsFinal): no step reopens or relabels a closed occurrence,
  recovery included;
- `LanesTakeTurns` (LanesAlternate): consecutive messages in different inboxes;
- `ReceiptsNameMessages`, `WithdrawnWorkIsNeverSent`: rows and messages agree;
- `OnlyOwnWorkRetires`, `OnlyCurrentWorkIsClaimed`: redefinition;
- `DispatcherImplementsInbox`: AppointmentInbox, step by step;
- `EventsWakeOnce` (OneWakePerEvent) and `PrivateEventsStayPrivate`;
- `EveryStrikeIsWorkedOff` (NoStrikeLost) and `DowntimeLeavesNoBurst` (NoBurst).

Typing is not enough for the second. A dispatcher reads that nothing is
outstanding several statements before it claims, and what it read stays true
only because the lane lock is held in between and because whatever else may
hand work off needs that lock. The inductive invariant (`Inductive`) therefore
says: the lane lock of a franchise is held by the dispatcher that visits it and
by no other; a dispatcher past its check knows that nothing else of its
franchise is in doubt or running, and in particular what its target is; a
command between its read and its write excludes another of the same
franchise; a recovered row is failed and was never started.

The theorems about messages add `MailInv`: a message that still travels has
a row in doubt and no copy in an inbox, an arrived one a row that never says it
was not sent, and a dispatcher about to send has sent nothing for its target.
`OwnMail` relates a dispatcher's message to the row and the definition it was
claimed for, which the simulation of the inbox needs. `OnlyCurrentWorkIsClaimed`
(with `CurrentInv`: waiting rows are of the current definition) assumes
AbsenceProvable = FALSE, which is what the Buzz transport answers
(`native-schedule-buzz.ts:304`): a row put back to pending after proven absence may
be of a definition replaced meanwhile.

The lanes (`LanesInv`, also for AbsenceProvable = FALSE): every message of an inbox but
the last is recorded at its place, the stamps order the rows as the inbox does, and a row
in doubt that has not arrived was given the other lane than the last message. A transport
that proves absence puts such a row back with its lane, and then the statement is false.

Events and time. `AudienceInv`: an event is recorded once and keeps its audience, and
every occurrence of one, every appointment on one and every command about to commit one
is of a franchise that knows it; rows of an event are made only when it is recorded.
`CalendarInv` says of each appointment that the rows of its definition are for
instants before the next due one, and that from its first strike to that instant
no strike is outside of their spans: a span may grow when the work is coalesced, and the
next due instant skips only what a span took in. The bursts need `CurrentInv` as well,
and so AbsenceProvable = FALSE: that a waiting row is of the definition in force is how
MaterializeDue finds it and adds none beside it. Event ids are no instants
(`EventIdsAssumption`), which is how an occurrence's key tells its kind.

### The turn store: RuntimeTurnProofs

- `TurnsTyped`: TypeOK;
- `OneTurnPerFranchise` (OneLiveTurn) and `NoFreezeMidTurn` (FrozenIsIdle);
- `CompletedOnce` (CompletedByItsLastTurn) and `EndedStaysEnded`
  (TerminalIsFinal);
- `HeldMoneyResolvable` (HeldMoneyIsResolvable), under the assumption that
  LostAcks is FALSE: section 6 says what a lost acknowledgement does;
- `ChargesTrue`: what the store records of a charge is what the provider charged;
- `WalletAlwaysTrue` (WalletIsTrue) and `BudgetAlwaysHolds` (BudgetHolds);
- `StaffAlwaysAnswered` (StaffAnswered).

The inductive invariant (`TurnsInductive`) adds to these what workers know. No
two workers share a turn, as each claim has a fence of its own; a worker beyond
reserve has its reservation, and one beyond the model call its charge; a worker
that does not know of its own reservation is about to bury the job, so it can
never send the job back to pending with money held; and a reservation is held
only by the last turn of its job. The last part is why a completed job has
nothing held: the turn that completes is the last one, and it settles. Every
step but claim changes the tables in one of a few ways (JobsStep, ResvStep,
MoneyStep, WorkersStep); StepKeeps proves once that such steps keep the
invariant, and each action has a lemma that it is such a step. Claim has a
proof of its own.

Money. A sum over all reservations written as a recursion would need an induction over
data. RuntimeTurnProperties states the books by counting instead: `reserved` is MaxCost times the number of turns held, as every turn reserves the same, and `spent`
is the number of units paid, a unit being a pair of a turn and a number, to which the
library's theorems about finite sets apply. `Books` is that statement with the budget; `Charges`
says what makes a step of the books exact: the store's price of a turn is the
provider's, nothing is charged before the model call, and a worker that believes a call
cost nothing is right. `StaffTrue` adds to StaffAnswered that every staff job's parent
exists.

### Football, rehearsals and the decisions they return: RehearsalProofs

For any owners, jobs, leagues, epochs, dispatchers, and any number of crashes,
lost answers, changes of host and operator's commands:

- `DoubtHoldsScope`: no write over an open one of the same scope, whatever the operator
  does to the deployment file; and `DoubtHoldsWrites` (NoWriteOverDoubt): none over an
  open one that concerns the same franchise on MFL, if he does not write it anew after a sale;
- `ActionsStayWhereMeant` (ActsWhereMeant) and `TrialsReturnClean`
  (ReturnedClean);
- `OutboxKeepsPromise`: the football outbox implements OwnerActions;
- `ReturnsHaveLineage` (ApprovalsHaveLineage), of MflReturn's meetings and the
  trials together (`LeagueAndMeetings`).

The invariant has four parts. `WriteInv`: of the dispatchers of one scope at most one is
between preparation and outcome of a write, and the journal's state
is the one of its program counter; open writes of one scope concern different franchises.
As long as no deployment file is written anew, all adapters are of the first owners'
scope of their league (`Home`). `DeedInv`: no two dispatchers hold a row with the
same fence; a claim whose fence is current saw the row as it is; an
action has taken effect at most once, on the host its row is pinned to, and the
journal says of it what MFL did. `MeantInv`: rows of a trial's turns are pinned to
the trial, and without an open epoch the trial's league is not selected.
`CleanInv`: what each state of an epoch has already ruled out, and that its two
bindings have consecutive versions.

The lineage needs `WriteInv` and `LineageInv`: receipts of hosts carry no version
above the current one, an epoch that was ever armed pins every owner, and a receipt
of a return is the anchored decision itself or the trial's. Two receipts lie
between the anchor's host and the returned one, and two are known to be the
epoch's, so a host bound meanwhile by anyone else leaves no room for them; and
because the evidence is read again, the members of the anchor, the holders of today
and the owners pinned are the same.

Assumptions. `Arranged`: epochs are numbered from 1, owners and hosts are of their
kinds, nobody is a dispatcher, and the commissioner selects no disposable league by
hand, and no other league on MFL than the production one. All but DoubtHoldsScope and
ReturnsHaveLineage assume that the deployment file is not written anew after a sale
(`Reissued` FALSE); without it DoubtHoldsWrites and OutboxKeepsPromise are false, as the run
resold_scope shows. ActionsStayWhereMeant, TrialsReturnClean and OutboxKeepsPromise also
assume that no dispatcher outlives its lease between context and engine (`OutliveCheck`
FALSE); without it ActsWhereMeant is false, which the run outlived_check shows. ActionsStayWhereMeant
and TrialsReturnClean start with a league that is not a trial.

### The other outboxes and the franchises: FranchiseProofs, PublicationProofs, BuzzRelayProofs

Each proves that its component implements OwnerActions, with `Told` as what the owner
reads (the same cases as `Verdict` in MCOperations), and the safety property of the
component; FranchiseProofs also has the wallet of Expenses, Conversations,
OwnerStage and Governance:

- `WordsAreSaidOnce` (NeverSaidTwice) and `OrdersKeepPromise`, from `OutboxInv`: the
  channel's lock is held by the clerk that sends and by no other, a clerk knows what
  became of its order (nothing was sent before it sends, and an answer is true until it
  is booked), and receipts and rows agree with what was said. The value that stands
  for a free lock is no clerk (`Staffed`).
- `WalletSharedRight` (WalletAgrees), of Expenses, from `BooksInv`: only what is settled
  was charged, and the units of both sums are finite in number, so that each booking
  moves a sum by the one cost it changes (`TotalMoves`). Costs are counted in
  units (`Counted`).
- `SessionsAreOnlyTalk` (OnlyTalk) and `SessionsAreRationed` (TalkIsRationed), of
  Conversations, from `TalkInv`: an order that was looked at again before it acts belongs
  to the session that is open then, as none opens or closes while one is checked; a job
  without a turn cost nothing, and what a failed turn adds to the bill of its session is
  its excess.
- `StageSpeaksInTime` (SaidInTheStage), `StageIsRationed` (WithinAllowance) and
  `ReviewEndsTheStage` (ReviewIsFinal), of OwnerStage, from `StageInv`. `JobSound`: only a
  completed turn asked for anything, a turn of the stage runs no more once the owner is
  reviewed, and of a closed stage nothing is under way. `Followups`: but for the one that
  was forgiven, one appointment at most is alive or kept. So the last one, which the review
  found kept, is the only one, and no turn is left that could plan another.
- `ProposalsStaySealed` (SealedAndSettled), of Governance, from `SealedInv`: what an owner
  has seen of others, no proposal of that meeting can follow; what was decided, no vote.
  Deadlines are instants (`Dated`); the allowances above are natural numbers.
- `OnlyApprovedIsPosted` (PostsAsApproved) and `PublisherKeepsPromise`, from
  `PressInv`: a row is claimed once, so a publisher is alone with its item; what a recovery
  read of an abandoned item stays true until it acts; an item is in turn when those before it in its
  batch are out. OutliveCheck is FALSE: section 6 says what an item recovered under a
  sleeping publisher does.
- `EchoesAreHeld` (EchoesWait), `EventsAreReadOnce` (ReadOnce), `OneSendInDoubt`
  (PairHeld) and `MirrorKeepsPromise`, for relays whose commits may fail, except
  EventsAreReadOnce, which assumes that they do not (`CommitFails` FALSE). `SendInv`: the
  conversation is locked while its one message in doubt is being sent, receipt and relay
  follow that send, the row says accepted or rejected only as the receipt does, and a
  message is on the relay at most once. `ReadInv`: what lies behind a cursor woke its
  recipient or is ours, an archived event is held, delivered or ours, and a page that was
  read starts at or before the cursor. That an event of ours never wakes anybody needs
  both: it is in doubt, and then everything is held, or accepted, and then recognised -
  unless a failed commit threw the accepted row back. What is left then is that it wakes
  nobody before its receipt says accepted (EchoesWait), and that the receipts keep the promise,
  which is how MirrorKeepsPromise reads a verdict. Events of others are none of ours (`Distinct`).

The theorems of these modules and of RehearsalProofs are about the components' own
specifications; MCOperations checks the same definitions on the scenes it
instantiates them in. The assumptions hold of every instance there, except for those
of the violation runs, and of torn, where CommitFails is TRUE.

### Feeds, draft observer, conventions and the draft: LeagueProofs

- `NothingIsMissed` (NothingMissed) and `CalendarIsAsRead` (CalendarStands), for any
  number of rows and any reading window (`Window \in Nat`). `FeedsInv`: what a poll has
  read but not yet recorded is known of each row: a row of interest after the base is
  told, about to be told, or newer than all the cursor has seen. The last case is what a
  window can slide over, and a nonempty cursor is how the next read sees that it did.
- `NoticesGoInTurn` (NoticesInTurn), `NoticesStayCurrent` (NoticesAreCurrent) and
  `BoardIsTold` (EverythingIsTold), without assumptions. `ObserverInv`: who sends does so
  alone, as it holds the league's lock, and what it relies on (mode, epoch, host, last
  board) changes only while nobody sends; how often a notice appeared agrees with its row,
  and one that may still appear is in doubt; the notices of an epoch are those of the
  board seen last, and a board that does not continue it is never taken up.
- `OwnersKeepTheirTime` (WindowsKept), `CandidatesStay` (BallotIsFixed) and
  `WavesStayInPhase` (WavesInPhase). `ConventionInv` reads all deadlines by a clock that
  stands still while the convention is paused: the time the owners have had and the time
  still ahead make up what they were promised, and a wave to come lies in the phase it is
  about or has expired. A resumption moves that clock and everything ahead of it by
  the same length, an extension the voting's two ends by the same. They assume
  `Timely`: deadlines are instants and extensions only add time.
- `WavesHaveTheirTurns` (TurnsForWaves), also from `TurnsSound`: no step makes a wave
  come again. The limits are any natural numbers (`Limited`). The code accepts a limit of
  0 for the time after the vote (`convention.ts:17`: closedTurns from 0 to 3) and still
  plans the closing wave: then nobody has a turn there, and the wave finds none (`Barred`;
  the scene unheard checks such a meeting). For proposals and voting it refuses such
  limits itself.
- `NobodyIsRushed` (FullClock) and `DraftStaysFair` (FairDraft), of LeagueDraft, for any
  number of franchises, rounds and players. `ClockInv`: the time a pick has had and the
  time left make up at least the pick time, whatever paused it; the clock picks only with
  nothing left, and a tick that read another pick or epoch is refused. `PicksInTurn`: the
  i-th pick is of the franchise in the i-th place, and no player is picked twice. The
  rest is arithmetic of the snake: the picks of a franchise are one per round, and two
  rounds are worth the same at every place, which as a statement about sums is a bijection
  between the units of one sum and of another (`TwoByTwo`). `Chartered` is what the
  constitution's schema accepts: at least one franchise and one roster place, all
  franchises different, finitely many players.

MCLeague and MCLive check the same definitions on the scenes they instantiate the
modules in.

### The market: LeagueMarketProofs

For any franchises, rosters, weeks, calendars, feeds, trades, claims and windows:

- `LineupsStayOwned`: a spot of this week's lineup or a later one is held by a player of
  that franchise;
- `BooksAndRostersHold`: no roster above its size, no franchise above its budget;
- `ClaimsSettledInOrder` (ClaimsInOrder): a claim won was not due to an earlier one;
- `LockedSpotsHold` (LockedSpotsStay): once his game has begun a player
  neither enters nor leaves that week's lineup, nor is unlocked.

`MarketInv`, which `MarketInductive` proves, says more of the books than that they are not
overdrawn: what is left is the budget less the bids won (`Paid`, a Total of module
Totals). `PeriodsApart`: one waiver period at a time is open and no window touches the
time its claims are made in; a window may touch its deadline, which is the finding
of league_overlap. `ClaimsSound`: until the deadline a claimed player is free and one
offered for him is on a roster, as no window is open and trades leave nobody free;
hence no pending claim waits for a player that another one gives up, and the settlement
cannot free a player whom a claim judged before would have had.

The settlement of a period is a recursive function of the turn, each claim judged by
what those before it left. `Settling` is what holds after every turn: budgets, rosters and
lineups as above, the claims still to come untouched (`ClaimsKept`), and none of those
settled out of order (`SettledInOrder`). An induction cannot be instantiated for the
prover (the library's theorems take an operator as a parameter), so that the function is
defined and `Settling` holds of each turn is proved by the least turn for which it would
not (`LeastNatural`), and that there is a first claim by a least set of claims ahead of
one (`LeastSet`); both follow from the library's well-foundedness of finite subsets.

`Ruled` is what the constitution, the feed and the commands' schemas guarantee: finitely
many players, rosters that fit when the draft ends, bids that are natural numbers, and
trades between two franchises.

### Only model-checked

Liveness, as fairness and ENABLED are out of the prover's reach: what MCLive checks of
appointments, the draft's clock (DraftGoesOn) and the league's events
(EventsReachOwners), and that jobs end (JobsEnd). LeagueEvents has no theorem for
that reason. The theorems on modules that MCLeague, MCLive and MCOperations instantiate
are about the modules' own specifications; that a scene of those is one of its module's
behaviours is plain from its definition and is not itself proved.

## 6. Findings and limits

Findings, each with a run that reaches it:

- **Stale anchor** (`native-schedules.ts:475`): a calendar change that commits
  between an anchored command's read and its commit is lost for it.
- **Overrun staff** (`src/runtime/index.ts:1224`): src/runtime/README.md:64
  promises that a terminally failed staff job wakes its owner; settleOverrun
  enqueues nothing.
- **Overlapping window** (`src/league/index.ts:988`): src/league/README.md:29
  excludes a first-come window over an unresolved waiver period; one that begins at
  the deadline is open until the clock resolves the period.
- **Outlived check** (`src/runtime/football-outbox.ts:354`): a dispatcher that
  outlives its lease saves a queue on a host the action was not formed for.
- **Resold scope** (`src/mfl/adapter.ts:106`): src/runtime/football-outbox.ts:350 says that
  a replay never blindly repeats an external POST. Receipts and open writes are found by
  the adapter's scope, which takes in the owners of all franchises: around a sale, with
  the deployment file written anew for it, a write that was sent and not yet answered for is
  sent again, by an adapter whose scope has no receipt of it. The sale and the file are the
  operator's; nothing in src/ reassigns a franchise. The adapter's preflight, whose refusals
  are a free choice in the model, would recognise a second draft pick, add or answer to a
  trade, but not a second trade offer.

Limits the models show, of which no document promises the contrary.

Turns and appointments: with a transport that can prove a message absent, a retry keeps
its first lane (`native-schedules.ts:883`) although another message may have used that
inbox meanwhile, so that two in a row share it; a message lost under the Buzz transport leaves its
occurrence uncertain, and its franchise blocked, for ever; a turn that expired
before another turn's overrun froze the franchise stays running, and its money
reserved, for ever, as claim refuses the one and reconciliation the other; a
reservation whose commit acknowledgement was lost stays reserved on a dead job.

What goes out: a football or franchise row buried after its tries may have taken
effect, and its owner reads that it failed (a row buried by claim leaves its owner no
receipt and no wake at all); a row held by
MFL_UNRESOLVED_OPERATION_HOLD without a journal entry, or a queue row waiting for
a retry when the trial is stopped, blocks the restoration; a host bound by hand
while an epoch is arming or armed makes the epoch unresumable. An item of X that is recovered
while its publisher sleeps between check and mark may be posted after its
recovery. If the commit of an accepted mirrored message fails, the row is thrown back, its
echo is not recognised and wakes the recipient again (scene torn); if messaging throws before its receipt, the message stays
unknown and the pair held. A reconciliation that overlaps an abort can turn a
rejected message back to unknown. A full page stops a listener's cursor for good.

Sessions and stages: messages archived while a session has expired or drifted
wake nobody, also after its close. Once a review exists, evidence that changes (a
late search, a reconciled cost) lets neither the review be repeated nor the stage
close; ordinary intents the stage holds keep it open; an owner who cancels his one
retest cannot be followed up any more. Several commands of the stage take the
two-number form of lock 7044 and others the one-number form, which do not exclude
each other, and configure takes lock and rows in the opposite order to claim.

League: a delivery that cannot succeed (a payload over 16000 bytes, `runtime/index.ts:148`) is
read again at the head of every batch, so a batch full of them starves all later events of
the league (`dispatcher.ts:57`), which is why EventsReachOwners excepts such events.

Observer and feeds: one notice in doubt silences all later ones of the league,
and no code resolves it; a manual pause over a hold for review replaces its
reason, so that it can be resumed without one (the next poll finds the correction
again, if it can still be seen). A gap between two reads of the transactions is
sticky until somebody reconciles it, and nothing in the code does; and a gap after
an empty read is not seen at all, because the test asks for a non-empty memory
(`native-schedule-feeds.ts:225`): the transactions in it are lost in silence.

Not modelled: what section 3 names as left out, and the components PROJECT.json
lists as not modelled, with their reasons: managed ACP processes, model providers
and their evidence, harnesses, data feeds and scoring, read-only projections, the
API, the web interface and deployment are input and output around the components
above, or arithmetic the plan has for later.
