----------------------------- MODULE LeagueMarket -----------------------------
(***************************************************************************)
(* The season of a league on its own engine: LeagueService's lineups,      *)
(* trades, waivers, free agency, schedule imports and week changes.        *)
(*                                                                         *)
(*   leagues.current_week   week       league_player_holds   hold          *)
(*   league_rosters         roster     league_trades         trade         *)
(*   league_lineups         lineup     league_waiver_periods period        *)
(*   league_player_games    game       league_waiver_claims  claims        *)
(*   league_teams.faab      faab       league_free_agent_windows window    *)
(*                                                                         *)
(* A command is one transaction under the league's lock: one step, or none *)
(* when it is refused.  A retried command is answered from its receipt and *)
(* is no step either.  The slots of a lineup are not told apart.           *)
(***************************************************************************)
EXTENDS Integers, Sequences, FiniteSets, Functions, Totals

CONSTANTS
    Teams,          \* in draft order, a sequence
    Players,
    Weeks,
    RosterSize,
    FirstRosters,   \* player -> team or None, when the draft ends
    FirstGames,     \* player -> week -> game row
    Feed,           \* rows a schedule import may bring
    Lineups,        \* sets of players an owner may field
    Offers,         \* trades an owner may propose
    TradeDeadline,  \* tradeDeadlineAt
    Periods,        \* id -> deadline of a waiver period
    ClaimForms,     \* claims an owner may submit
    Windows,        \* first-come windows the commissioner may open
    Budget,         \* faabBudget
    HoldTime,       \* droppedPlayerHoldHours
    MaxTime

VARIABLES now, week, roster, lineup, game, trade, period, claims, window, faab, hold

marketVars == <<now, week, roster, lineup, game, trade, period, claims, window, faab, hold>>
waiverVars == <<period, claims, window, faab, hold>>

-----------------------------------------------------------------------------
None == "none"
Franchises == Range(Teams)
RosterOf(r, t) == {p \in Players : r[p] = t}

MarketInit ==
    /\ now = 0 /\ week = 1
    /\ roster = FirstRosters
    /\ lineup = [t \in Franchises |-> [w \in Weeks |-> {}]]
    /\ game = FirstGames
    /\ trade = [o \in {} |-> None]
    /\ period = [i \in {} |-> None]
    /\ claims = <<>>
    /\ window = {}
    /\ faab = [t \in Franchises |-> Budget]
    /\ hold = [p \in Players |-> 0]

\* Mutant: a finished game no longer locks.
MovableWhenFinal(ps, w) ==
    \A p \in ps : \/ game[p][w].status \in {"bye", "cancelled", "final"}
                  \/ game[p][w].status = "scheduled" /\ game[p][w].kick > now

\* movable: a known bye, or a game that certainly has not begun.
Movable(ps, w) ==
    \A p \in ps : \/ game[p][w].status \in {"bye", "cancelled"}
                  \/ game[p][w].status = "scheduled" /\ game[p][w].kick > now

\* capacity
Fits(r, t, delta) == Cardinality(RosterOf(r, t)) + delta <= RosterSize

\* clearFutureLineups: whoever leaves a roster leaves every lineup still to come.
Cleared(l, ps) ==
    [t \in Franchises |-> [w \in Weeks |-> IF w >= week THEN l[t][w] \ ps ELSE l[t][w]]]

\* acquisitionAllowed
Acquirable(h, p, at) == h[p] <= at

\* holdDropped
Held(h, p) == IF HoldTime = 0 THEN h ELSE [h EXCEPT ![p] = now + HoldTime]

-----------------------------------------------------------------------------
(* Schedule and weeks.                                                     *)

Locked(p, w) ==
    \/ game[p][w].status = "final"
    \/ game[p][w].status = "scheduled" /\ game[p][w].kick <= now

\* importSchedule: a locked game stays locked.
ImportSchedule(g) ==
    /\ Locked(g.player, g.week) => g.kick <= now /\ g.status \in {"scheduled", "final"}
    /\ game' = [game EXCEPT ![g.player][g.week] = [kick |-> g.kick, status |-> g.status]]
    /\ UNCHANGED <<now, week, roster, lineup, trade, waiverVars>>

\* advanceWeek: every rostered player's game of this week is known and over.
AdvanceWeek ==
    /\ week + 1 \in Weeks
    /\ \A p \in Players : roster[p] # None => game[p][week].status # "unknown"
    /\ \A p \in Players : game[p][week].status \in {"final", "cancelled", "bye", "unknown"}
    /\ \E p \in Players : game[p][week].status # "unknown"
    /\ week' = week + 1
    /\ UNCHANGED <<now, roster, lineup, game, trade, waiverVars>>

TimePasses ==
    /\ now < MaxTime /\ now' = now + 1
    /\ UNCHANGED <<week, roster, lineup, game, trade, waiverVars>>

\* setLineup: the spots that change must be movable in that week.
Changed(old, new) == (old \ new) \cup (new \ old)

SetLineup(t, w, ps) ==
    /\ w >= week
    /\ ps \subseteq RosterOf(roster, t)
    /\ Movable(Changed(lineup[t][w], ps), w)
    /\ lineup' = [lineup EXCEPT ![t][w] = ps]
    /\ UNCHANGED <<now, week, roster, game, trade, waiverVars>>

-----------------------------------------------------------------------------
(* Trades.                                                                 *)

TradeOpen == now < TradeDeadline

BothOwned(o) ==
    /\ o.give \subseteq RosterOf(roster, o.from)
    /\ o.receive \subseteq RosterOf(roster, o.to)

ProposeTrade(o) ==
    /\ TradeOpen /\ now < o.expires
    /\ o \notin DOMAIN trade
    /\ BothOwned(o) /\ Movable(o.give \cup o.receive, week)
    /\ trade' = [x \in DOMAIN trade \cup {o} |-> IF x = o THEN "proposed" ELSE trade[x]]
    /\ UNCHANGED <<now, week, roster, lineup, game, waiverVars>>

\* acceptTrade: judged again, on the rosters of that moment.
AcceptTrade(o) ==
    /\ o \in DOMAIN trade /\ trade[o] = "proposed"
    /\ TradeOpen /\ now < o.expires
    /\ BothOwned(o) /\ Movable(o.give \cup o.receive, week)
    /\ Fits(roster, o.from, Cardinality(o.receive) - Cardinality(o.give))
    /\ Fits(roster, o.to, Cardinality(o.give) - Cardinality(o.receive))
    /\ roster' = [p \in Players |-> IF p \in o.give THEN o.to
                                    ELSE IF p \in o.receive THEN o.from ELSE roster[p]]
    /\ lineup' = Cleared(lineup, o.give \cup o.receive)
    /\ trade' = [trade EXCEPT ![o] = "accepted"]
    /\ UNCHANGED <<now, week, game, waiverVars>>

\* cancelTrade by the proposer, rejectTrade by the other side.
CloseTrade(o, status) ==
    /\ o \in DOMAIN trade /\ trade[o] = "proposed"
    /\ trade' = [trade EXCEPT ![o] = status]
    /\ UNCHANGED <<now, week, roster, lineup, game, waiverVars>>

-----------------------------------------------------------------------------
(* Waivers.                                                                *)

OpenPeriods == {i \in DOMAIN period : period[i].status = "open"}

OpenWaivers(i) ==
    /\ i \notin DOMAIN period
    /\ Periods[i] > now
    /\ OpenPeriods = {}
    /\ ~ \E v \in window : v.closes > now /\ v.opens < Periods[i]
    /\ period' = [x \in DOMAIN period \cup {i} |->
                     IF x = i THEN [closes |-> Periods[i], status |-> "open"] ELSE period[x]]
    /\ UNCHANGED <<now, week, roster, lineup, game, trade, claims, window, faab, hold>>

Dropped(c) == IF c.drop = None THEN {} ELSE {c.drop}

SubmitClaim(i, c) ==
    /\ i \in OpenPeriods /\ period[i].closes > now
    /\ Acquirable(hold, c.add, period[i].closes)
    /\ roster[c.add] = None
    /\ Dropped(c) \subseteq RosterOf(roster, c.team)
    /\ Movable({c.add} \cup Dropped(c), week)
    /\ c.bid <= faab[c.team]
    /\ \A k \in DOMAIN claims : claims[k].form # c
    /\ claims' = Append(claims, [form |-> c, period |-> i, status |-> "pending", reason |-> None])
    /\ UNCHANGED <<now, week, roster, lineup, game, trade, period, window, faab, hold>>

CancelClaim(k) ==
    /\ claims[k].status = "pending"
    /\ period[claims[k].period].status = "open" /\ period[claims[k].period].closes > now
    /\ claims' = [claims EXCEPT ![k].status = "cancelled"]
    /\ UNCHANGED <<now, week, roster, lineup, game, trade, period, window, faab, hold>>

\* The published order: bid, reverse draft order, the owner's own priority, time.
WaiverPriority(t) == -(CHOOSE n \in DOMAIN Teams : Teams[n] = t)

Before(k, l) ==
    LET a == claims[k].form  b == claims[l].form
        pa == WaiverPriority(a.team)  pb == WaiverPriority(b.team)
    IN \/ a.bid > b.bid
       \/ a.bid = b.bid /\ pa < pb
       \/ a.bid = b.bid /\ pa = pb /\ a.priority < b.priority
       \/ a.bid = b.bid /\ pa = pb /\ a.priority = b.priority /\ k < l

\* Mutant: first come, first served.
FirstByTime(left) == CHOOSE k \in left : \A l \in left \ {k} : k < l

First(left) == CHOOSE k \in left : \A l \in left \ {k} : Before(k, l)

\* Mutant: each claim is judged on the budgets of the deadline.
ObjectionAtDeadline(x, c) ==
    CASE x.roster[c.add] # None                         -> "unavailable"
      [] ~(Dropped(c) \subseteq RosterOf(x.roster, c.team)) -> "notOwned"
      [] c.bid > faab[c.team]                           -> "faab"
      [] OTHER                                          -> None

\* Why a claim is lost, on the league x that the claims before it have left.
Objection(x, c) ==
    CASE x.roster[c.add] # None                         -> "unavailable"
      [] ~(Dropped(c) \subseteq RosterOf(x.roster, c.team)) -> "notOwned"
      [] c.bid > x.faab[c.team]                         -> "faab"
      [] ~Acquirable(x.hold, c.add, now)                -> "onHold"
      [] ~Fits(x.roster, c.team, 1 - Cardinality(Dropped(c))) -> "rosterFull"
      [] ~Movable({c.add} \cup Dropped(c), week)        -> "locked"
      [] OTHER                                          -> None

Swapped(r, add, drop, t) ==
    [p \in Players |-> IF p = add THEN t ELSE IF p = drop THEN None ELSE r[p]]

Settle(x, k) ==
    LET c == x.claims[k].form
        why == Objection(x, c)
    IN IF why # None
       THEN [x EXCEPT !.claims[k].status = "lost", !.claims[k].reason = why]
       ELSE [claims |-> [x.claims EXCEPT ![k].status = "won"],
             roster |-> Swapped(x.roster, c.add, c.drop, c.team),
             lineup |-> Cleared(x.lineup, Dropped(c)),
             hold |-> IF c.drop = None THEN x.hold ELSE Held(x.hold, c.drop),
             faab |-> [x.faab EXCEPT ![c.team] = @ - c.bid]]

\* resolve: all pending claims of the period, one after the other.
Pending(i) == {k \in DOMAIN claims : claims[k].period = i /\ claims[k].status = "pending"}

Settled(mine) ==
    LET start == [claims |-> claims, roster |-> roster, lineup |-> lineup,
                  hold |-> hold, faab |-> faab]
        turn[n \in 0..Cardinality(mine)] ==
            IF n = 0 THEN [league |-> start, left |-> mine]
            ELSE LET x == turn[n - 1]
                     k == First(x.left)
                 IN [league |-> Settle(x.league, k), left |-> x.left \ {k}]
    IN turn[Cardinality(mine)].league

ResolveWaivers(i) ==
    LET done == Settled(Pending(i))
    IN /\ i \in OpenPeriods /\ period[i].closes <= now
       /\ claims' = done.claims /\ roster' = done.roster /\ lineup' = done.lineup
       /\ hold' = done.hold /\ faab' = done.faab
       /\ period' = [period EXCEPT ![i].status = "resolved"]
       /\ UNCHANGED <<now, week, game, trade, window>>

-----------------------------------------------------------------------------
(* First-come windows.                                                     *)

OpenFreeAgency(v) ==
    /\ v.closes > now /\ v.closes > v.opens
    /\ OpenPeriods = {}
    /\ ~ \E o \in window : o.opens < v.closes /\ o.closes > v.opens
    /\ window' = window \cup {v}
    /\ UNCHANGED <<now, week, roster, lineup, game, trade, period, claims, faab, hold>>

AddFreeAgent(v, t, add, drop) ==
    LET out == IF drop = None THEN {} ELSE {drop} IN
    /\ v \in window /\ v.opens <= now /\ now < v.closes
    /\ add # drop /\ Acquirable(hold, add, now)
    /\ roster[add] = None
    /\ out \subseteq RosterOf(roster, t)
    /\ Fits(roster, t, 1 - Cardinality(out))
    /\ Movable({add} \cup out, week)
    /\ roster' = Swapped(roster, add, drop, t)
    /\ lineup' = Cleared(lineup, out)
    /\ hold' = IF drop = None THEN hold ELSE Held(hold, drop)
    /\ UNCHANGED <<now, week, game, trade, period, claims, window, faab>>

MarketNext ==
    \/ TimePasses
    \/ \E g \in Feed : ImportSchedule(g)
    \/ AdvanceWeek
    \/ \E t \in Franchises, w \in Weeks, ps \in Lineups : SetLineup(t, w, ps)
    \/ \E o \in Offers :
          ProposeTrade(o) \/ AcceptTrade(o) \/ \E s \in {"cancelled", "rejected"} : CloseTrade(o, s)
    \/ \E i \in DOMAIN Periods :
          \/ OpenWaivers(i) \/ ResolveWaivers(i)
          \/ \E c \in ClaimForms : SubmitClaim(i, c)
    \/ \E k \in DOMAIN claims : CancelClaim(k)
    \/ \E v \in Windows :
          \/ OpenFreeAgency(v)
          \/ \E t \in Franchises, add \in Players, drop \in Players \cup {None} :
                AddFreeAgent(v, t, add, drop)

MarketSpec == MarketInit /\ [][MarketNext]_marketVars

-----------------------------------------------------------------------------
\* Every spot of a lineup still to come is held by a player of that franchise,
\* whichever way players change hands.
LineupsOwned ==
    \A t \in Franchises, w \in Weeks :
        w >= week => lineup[t][w] \subseteq RosterOf(roster, t)

\* Once a player's game has begun, he neither enters nor leaves a lineup of that
\* week, by his owner's hand, by a trade or a drop, or by a correction of the feed.
LockedSpotsStay ==
    [][\A t \in Franchises, w \in Weeks, p \in Players :
          w <= week /\ Locked(p, w) => /\ p \in lineup[t][w] <=> p \in lineup'[t][w]
                                       /\ Locked(p, w)']_marketVars

Bids(t) ==
    [k \in {j \in DOMAIN claims : claims[j].status = "won" /\ claims[j].form.team = t} |->
        claims[k].form.bid]

\* Rosters never exceed the constitution's size, and a franchise has paid for
\* exactly the claims it won, out of its budget.
BooksAndRosters ==
    \A t \in Franchises :
        /\ Cardinality(RosterOf(roster, t)) <= RosterSize
        /\ faab[t] = Budget - Total(Bids(t)) /\ faab[t] >= 0

\* When two claims of a period want the same player, the later in the published
\* order gets him only where the earlier failed for reasons of its own.
ClaimsInOrder ==
    \A k, l \in DOMAIN claims :
        /\ claims[k].period = claims[l].period
        /\ claims[k].form.add = claims[l].form.add /\ Before(k, l)
        /\ claims[l].status = "won"
        => claims[k].status \in {"cancelled", "lost"} /\ claims[k].reason # "unavailable"

\* The league's README: first-come windows and unresolved waiver periods cannot
\* overlap.
WindowsAwaitWaivers ==
    ~ \E v \in window : v.opens <= now /\ now < v.closes /\ OpenPeriods # {}
=============================================================================
