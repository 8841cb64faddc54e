------------------------------- MODULE MCLeague -------------------------------
(* Small scenes of a league: each behaviour plays one component's instance,  *)
(* chosen at the start, and leaves the others' variables alone.              *)
EXTENDS Integers, Sequences, FiniteSets, TLC

CONSTANTS Scenes,           \* the scenes a run plays
          ann, bob,         \* owners
          p1, p2, p3, p4,   \* players
          s1, s2, d1, kickoff, offer, NoTime   \* appointments, a dispatcher, what they are about

VARIABLES scene, now,
          week, roster, lineup, game, trade, period, claims, window, faab, hold,
          meeting, proposal, cast, decision, ratified, sellers, seen,
          meet, ballot, votes, decided, outcome, running, wave, turns, kept, enabled, busy,
          pause, recovered, given,
          sched, occ, events, open, pc, team, target, todo, lane7047, wire, inbox, stamps, faults,
          board, host, observer, pollers, notices, posters, channel, posted, first, lapses,
          rows, pending, agenda, clock, poll, cursors, status, told, planned, baseline, agreed

None == "none"
Four == {p1, p2, p3, p4}

-----------------------------------------------------------------------------
(* Market, trades: a kickoff between two weeks' lineups.                   *)

Kick(t, s) == [kick |-> t, status |-> s]

Trades == INSTANCE LeagueMarket WITH
    Teams <- <<ann, bob>>, Players <- {p1, p2, p3}, Weeks <- {1, 2}, RosterSize <- 2,
    FirstRosters <- (p1 :> ann @@ p2 :> bob @@ p3 :> bob),
    FirstGames <- (p1 :> <<Kick(2, "scheduled"), Kick(3, "scheduled")>> @@
                   p2 :> <<Kick(2, "scheduled"), Kick(3, "scheduled")>> @@
                   p3 :> <<Kick(0, "bye"), Kick(0, "unknown")>>),
    Feed <- {[player |-> p, week |-> 1, kick |-> 2, status |-> "final"] : p \in {p1, p2}} \cup
            {[player |-> p1, week |-> 1, kick |-> 3, status |-> "scheduled"],
             [player |-> p3, week |-> 2, kick |-> 0, status |-> "bye"]},
    Lineups <- {{}, {p1}, {p2}},
    Offers <- {[from |-> ann, to |-> bob, give |-> {p1}, receive |-> {p2}, expires |-> 3],
               [from |-> ann, to |-> bob, give |-> {}, receive |-> {p2}, expires |-> 1],
               [from |-> bob, to |-> ann, give |-> {p3}, receive |-> {p1}, expires |-> 3]},
    TradeDeadline <- 3, Periods <- <<>>, ClaimForms <- {}, Windows <- {},
    Budget <- 0, HoldTime <- 0, MaxTime <- 3

-----------------------------------------------------------------------------
(* Market, waivers and free agency: two periods and a window.              *)

Claim(t, a, d, b, n) == [team |-> t, add |-> a, drop |-> d, bid |-> b, priority |-> n]
Soon == [p \in Four |-> <<Kick(4, "scheduled")>>]

Waivers == INSTANCE LeagueMarket WITH
    Teams <- <<ann, bob>>, Players <- Four, Weeks <- {1}, RosterSize <- 1,
    FirstRosters <- (p1 :> ann @@ p2 :> bob @@ p3 :> None @@ p4 :> None),
    FirstGames <- Soon, Feed <- {}, Lineups <- {{p1}},
    Offers <- {}, TradeDeadline <- 0,
    Periods <- <<1, 3>>,
    ClaimForms <- {Claim(ann, p3, p1, 2, 1), Claim(ann, p4, p1, 1, 2), Claim(bob, p3, p2, 2, 1),
                   Claim(bob, p4, p2, 2, 2), Claim(bob, p1, None, 0, 3)},
    Windows <- {[opens |-> 1, closes |-> 2]},
    Budget <- 2, HoldTime <- 1, MaxTime <- 3

-----------------------------------------------------------------------------
(* Governance: two owners; a meeting and the start of the next.            *)

Assembly == INSTANCE Governance WITH
    Owners <- {ann, bob}, Threshold <- 2,
    Meetings <- <<[propose |-> 1, vote |-> 2], [propose |-> 3, vote |-> 4]>>, MaxTime <- 2

-----------------------------------------------------------------------------
(* Conventions: the debate in one scene, the owners' waves in the other.   *)

Agenda == [discuss |-> 1, propose |-> 2, vote |-> 3]
LongAgenda == [discuss |-> 1, propose |-> 3, vote |-> 5]
Turns == [proposals |-> 3, voting |-> 2, closed |-> 1]

Debate == INSTANCE MflConvention WITH
    Owners <- {ann, bob}, Proposers <- {ann}, Voters <- {ann, bob}, Threshold <- 2,
    Windows <- Agenda, MaxTurns <- Turns, MaxSpend <- 0, Extensions <- {0, 1},
    MaxPauses <- 1, MaxTime <- 4

Waves == INSTANCE MflConvention WITH
    Owners <- {ann}, Proposers <- {}, Voters <- {}, Threshold <- 1,
    Windows <- LongAgenda, MaxTurns <- Turns, MaxSpend <- 0, Extensions <- {0, 1},
    MaxPauses <- 2, MaxTime <- 8

\* With a turn after the vote, or none.
OwnTurns(last) == INSTANCE MflConvention WITH
    Owners <- {ann}, Proposers <- {}, Voters <- {}, Threshold <- 1,
    Windows <- LongAgenda, MaxTurns <- [Turns EXCEPT !.closed = last], MaxSpend <- 4, Extensions <- {0},
    MaxPauses <- 1, MaxTime <- 5

-----------------------------------------------------------------------------
(* Appointments: recurring ones through downtime, redefined ones, and offers. *)

Once(t) == [kind |-> "once", at |-> t]
Every(n) == [kind |-> "interval", at |-> 0, every |-> n]
Weekly(n) == [kind |-> "weekly", at |-> 0, every |-> n]
AtEvent(e) == [kind |-> "event", event |-> e, offset |-> 0]

Downtime == INSTANCE NativeScheduleProperties WITH
    Teams <- {1}, Schedules <- {s1}, TeamOf <- (s1 :> 1),
    Timings <- {Once(1), Every(1), Weekly(2), AtEvent(kickoff)},
    CalendarEvents <- {kickoff}, LeagueEvents <- {},
    MaxTime <- 3, MaxVersion <- 1, Dispatchers <- {d1}, AbsenceProvable <- FALSE, MaxFaults <- 0

Moves == INSTANCE NativeScheduleProperties WITH
    Teams <- {1}, Schedules <- {s1}, TeamOf <- (s1 :> 1),
    Timings <- {Once(1), Every(1), Weekly(2), AtEvent(kickoff)},
    CalendarEvents <- {kickoff}, LeagueEvents <- {},
    MaxTime <- 1, MaxVersion <- 2, Dispatchers <- {d1}, AbsenceProvable <- FALSE, MaxFaults <- 0

Alerts == INSTANCE NativeScheduleProperties WITH
    Teams <- {1, 2}, Schedules <- {s1, s2}, TeamOf <- (s1 :> 1 @@ s2 :> 2),
    Timings <- {[kind |-> "subscription", eventKind |-> "trade-offer"], AtEvent(offer)},
    CalendarEvents <- {},
    LeagueEvents <- {[id |-> offer, kind |-> "trade-offer", audience |-> {1}]},
    MaxTime <- 1, MaxVersion <- 2, Dispatchers <- {d1}, AbsenceProvable <- FALSE, MaxFaults <- 0

-----------------------------------------------------------------------------
(* The draft's observer: two epochs under two hosts, and a longer board.      *)

Epochs == INSTANCE DraftObserver WITH
    Slots <- 1, Selected <- {p1, p2}, Modes <- {"native-buzz", "runtime"}, wire <- channel,
    Pollers <- {1, 2}, Posters <- {d1},
    MaxEpochs <- 2, MaxResumes <- 1, MaxFence <- 3, MaxHosts <- 2, MaxFaults <- 1

Board == INSTANCE DraftObserver WITH
    Slots <- 2, Selected <- {p1}, Modes <- {"native-buzz"}, wire <- channel,
    Pollers <- {1, 2}, Posters <- {d1},
    MaxEpochs <- 1, MaxResumes <- 1, MaxFence <- 4, MaxHosts <- 1, MaxFaults <- 1

-----------------------------------------------------------------------------
(* The feeds: transactions running ahead of a window of two, and the calendar *)
(* with a franchise's offers.                                                 *)

Ledger == INSTANCE ScheduleFeeds WITH
    MaxRows <- 5, Window <- 2, Offers <- {}, Dates <- {}, MaxClock <- 0, MaxLapses <- 1,
    mishaps <- lapses

Calendar == INSTANCE ScheduleFeeds WITH
    MaxRows <- 0, Window <- 1, Offers <- {offer}, Dates <- {1, 2}, MaxClock <- 1, MaxLapses <- 1,
    mishaps <- lapses

-----------------------------------------------------------------------------
Init ==
    /\ scene \in Scenes
    /\ Assembly!GovernanceInit
    /\ IF scene = "trades" THEN Trades!MarketInit ELSE Waivers!MarketInit
    /\ IF scene = "debate" THEN Debate!ConventionInit ELSE Waves!ConventionInit
    /\ IF scene = "alerts" THEN Alerts!Init ELSE Moves!Init
    /\ Board!ObserverInit
    /\ IF scene = "calendar" THEN Calendar!FeedsInit ELSE Ledger!FeedsInit

marketVars == <<week, roster, lineup, game, trade, period, claims, window, faab, hold>>
assemblyVars == <<meeting, proposal, cast, decision, ratified, sellers, seen>>
conventionVars == <<meet, ballot, votes, decided, outcome, running, wave, turns, kept, enabled,
                    busy, pause, recovered, given>>

scheduleVars == <<sched, occ, events, open, pc, team, target, todo, lane7047, wire, inbox,
                  stamps, faults>>
observerVars == <<board, host, observer, pollers, notices, posters, channel, posted, first>>
feedVars == <<rows, pending, agenda, clock, poll, cursors, status, told, planned, baseline, agreed>>
watchVars == <<observerVars, feedVars, lapses>>

vars == <<scene, now, marketVars, assemblyVars, conventionVars, scheduleVars, watchVars>>

InMarket(s) ==
    scene = s /\ UNCHANGED <<scene, assemblyVars, conventionVars, scheduleVars, watchVars>>
InAssembly ==
    scene = "assembly" /\ UNCHANGED <<scene, marketVars, conventionVars, scheduleVars, watchVars>>
InConvention(s) ==
    scene = s /\ UNCHANGED <<scene, marketVars, assemblyVars, scheduleVars, watchVars>>
InSchedules(s) ==
    scene = s /\ UNCHANGED <<scene, marketVars, assemblyVars, conventionVars, watchVars>>
InObserver(s) ==
    scene = s /\ UNCHANGED <<scene, now, marketVars, assemblyVars, conventionVars, scheduleVars, feedVars>>
InFeeds(s) ==
    scene = s /\ UNCHANGED <<scene, now, marketVars, assemblyVars, conventionVars, scheduleVars, observerVars>>

Next ==
    \/ InMarket("trades") /\ Trades!MarketNext
    \/ InMarket("waivers") /\ Waivers!MarketNext
    \/ InAssembly /\ Assembly!GovernanceNext
    \/ InConvention("debate") /\ Debate!ConventionNext
    \/ InConvention("waves") /\ Waves!ConventionNext
    \/ InConvention("turns") /\ OwnTurns(1)!ConventionNext
    \/ InConvention("unheard") /\ OwnTurns(0)!ConventionNext
    \/ InSchedules("downtime") /\ Downtime!Next
    \/ InSchedules("moves") /\ Moves!Next
    \/ InSchedules("alerts") /\ Alerts!Next
    \/ InObserver("epochs") /\ Epochs!ObserverNext
    \/ InObserver("board") /\ Board!ObserverNext
    \/ InFeeds("ledger") /\ Ledger!FeedsNext
    \/ InFeeds("calendar") /\ Calendar!FeedsNext

Spec == Init /\ [][Next]_vars

-----------------------------------------------------------------------------
\* LeagueMarket: rosters within their size, budgets less the bids that won, and
\* every spot of a lineup to come held by a player of the franchise.
BooksAndRosters ==
    CASE scene = "trades"  -> Trades!LineupsOwned /\ Trades!BooksAndRosters
      [] scene = "waivers" -> Waivers!LineupsOwned /\ Waivers!BooksAndRosters
      [] OTHER             -> TRUE

\* LeagueMarket: waiver claims are settled in the published order.
ClaimsInOrder == Waivers!ClaimsInOrder

\* LeagueMarket: a player whose game has begun stays where he is in a lineup.
LockedSpotsStay == Trades!LockedSpotsStay

\* LeagueMarket: no first-come window is open before waivers are resolved.
WindowsAwaitWaivers == Waivers!WindowsAwaitWaivers

\* Governance: proposals are sealed and decisions final.  MflConvention: no proposal
\* changes after the first vote.
BallotsAreSealed == Assembly!SealedAndSettled /\ Debate!BallotIsFixed

\* MflConvention: no pause costs the owners proposal or voting time, and every wave
\* to come has a turn of every owner kept for it.
OwnersHaveTheirTime ==
    /\ IF scene = "debate" THEN Debate!WindowsKept ELSE Waves!WindowsKept
    /\ scene = "turns" => OwnTurns(1)!TurnsForWaves
    /\ scene = "unheard" => OwnTurns(0)!TurnsForWaves

\* MflConvention: waves are sent in the phase they are about.
WavesInPhase == Waves!WavesInPhase

\* NativeSchedules: every instant that falls due is worked off or accounted for, and
\* downtime leaves at most one occurrence to catch up on.  ScheduleFeeds: no transaction
\* is lost in silence, and a completed read leaves the calendar as it showed it.
\* DraftObserver: of the board last observed everything is told.
NoStrikeLostNoBurst ==
    CASE scene = "downtime" -> Downtime!NoStrikeLost /\ Downtime!NoBurst
      [] scene = "moves"    -> Moves!NoStrikeLost /\ Moves!NoBurst
      [] scene = "ledger"   -> Ledger!NothingMissed
      [] scene = "calendar" -> Calendar!NothingMissed /\ Calendar!CalendarStands
      [] scene = "epochs"   -> Epochs!EverythingIsTold
      [] scene = "board"    -> Board!EverythingIsTold
      [] OTHER              -> TRUE

\* NativeSchedules: an offer wakes a subscriber once, and nobody it is not addressed to.
\* DraftObserver: a notice appears at most once, one at a time, and is of the turn the
\* observer stands for when it goes out.
OffersReachTheirAudience ==
    CASE scene = "alerts" -> Alerts!OneWakePerEvent /\ Alerts!PrivateStaysPrivate
      [] scene = "epochs" -> Epochs!NoticesInTurn /\ Epochs!NoticesAreCurrent
      [] scene = "board"  -> Board!NoticesInTurn /\ Board!NoticesAreCurrent
      [] OTHER            -> TRUE
=============================================================================
