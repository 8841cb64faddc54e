---------------------------- MODULE ScheduleFeeds ----------------------------
(* The season's feeds (runtime/native-schedule-feeds.ts): one poller reads a  *)
(* bounded window of completed transactions, a franchise's pending trades and *)
(* the calendar of MFL, and turns what is new into the league and calendar    *)
(* events that NativeSchedules wakes its subscribers with.                    *)
EXTENDS Integers, Sequences, FiniteSets

CONSTANTS MaxRows,       \* bound on transactions, numbered as they are completed
          Window,        \* rows a read returns: 200
          Offers,        \* trade offers
          Dates,         \* dates a recurring event of the calendar may fall on
          MaxClock,      \* bound on time
          MaxLapses      \* bound on failed and interrupted polls

VARIABLES rows,      \* completed transactions: TRUE if of interest
          pending,   \* offers that stand
          agenda,    \* dates of the recurring event
          clock,
          poll,      \* the poll under way: [of, now, seen, fresh]
          cursors,   \* source -> [init, seen, base, blind]: base and blind are of the first read
          status,    \* source -> "none", "healthy", "unknown", "failed"
          told,      \* league events: transactions and offers
          planned,   \* calendar events: date -> "none", "planned", "cancelled"
          baseline,  \* offers of the first read
          agreed,    \* what the last completed read of the calendar showed, while nothing was read since
          mishaps

feedVars == <<rows, pending, agenda, clock, poll, cursors, status, told, planned, baseline, agreed, mishaps>>

NoPoll == [of |-> "none", now |-> 0, seen |-> {}, fresh |-> {}]
NoCursor == [init |-> FALSE, seen |-> {}, base |-> 0, blind |-> FALSE]
Sources == {"transactions", "trades"}

FeedsInit ==
    /\ rows = <<>> /\ pending = {} /\ agenda \in SUBSET Dates /\ clock = 0
    /\ poll = NoPoll
    /\ cursors = [s \in Sources |-> NoCursor]
    /\ status = [s \in Sources |-> "none"]
    /\ told = {} /\ planned = [d \in Dates |-> "none"]
    /\ baseline = {} /\ agreed = NoPoll /\ mishaps = 0

InWindow == {i \in DOMAIN rows : i > Len(rows) - Window}
Shown == {i \in InWindow : rows[i]}

\* MFL, apart from the poller.
SiteMoves ==
    /\ \/ /\ Len(rows) < MaxRows
          /\ \E interest \in BOOLEAN : rows' = Append(rows, interest)
          /\ UNCHANGED <<pending, agenda, clock>>
       \/ /\ \E o \in Offers : pending' = IF o \in pending THEN pending \ {o} ELSE pending \cup {o}
          /\ UNCHANGED <<rows, agenda, clock>>
       \/ /\ \E d \in Dates : agenda' = IF d \in agenda THEN agenda \ {d} ELSE agenda \cup {d}
          /\ UNCHANGED <<rows, pending, clock>>
       \/ /\ clock < MaxClock /\ clock' = clock + 1
          /\ UNCHANGED <<rows, pending, agenda>>
    /\ UNCHANGED <<poll, cursors, status, told, planned, baseline, agreed, mishaps>>

\* Mutant: a full window is taken for a complete one.
NoGap == FALSE

\* The window the cursor was taken from has passed by; what lay between is not known.
Gap == LET c == cursors["transactions"]
       IN  c.init /\ c.seen # {} /\ Len(rows) >= Window /\ Shown \cap c.seen = {}

ReadTransactions ==
    LET c == cursors["transactions"]
    IN  /\ poll = NoPoll
        /\ IF Gap
           THEN status' = [status EXCEPT !["transactions"] = "unknown"] /\ UNCHANGED poll
           ELSE /\ poll' = [of |-> "transactions", now |-> Len(rows), seen |-> Shown,
                            fresh |-> IF c.init THEN {i \in Shown \ c.seen : i > c.base} ELSE {}]
                /\ UNCHANGED status
        /\ UNCHANGED <<rows, pending, agenda, clock, cursors, told, planned, baseline, agreed, mishaps>>

\* Offers of the first read stand in the owner's own view and wake nobody.
ReadTrades ==
    LET c == cursors["trades"]
    IN  /\ poll = NoPoll
        /\ poll' = [of |-> "trades", now |-> 0, seen |-> pending,
                    fresh |-> IF c.init THEN pending \ c.seen ELSE {}]
        /\ UNCHANGED <<rows, pending, agenda, clock, cursors, status, told, planned, baseline, agreed, mishaps>>

\* One event, in a transaction of its own; recorded before, it is left as it is.
RecordEvent ==
    /\ poll.of \in Sources
    /\ \E e \in poll.fresh : /\ told' = told \cup {<<poll.of, e>>}
                             /\ poll' = [poll EXCEPT !.fresh = @ \ {e}]
    /\ UNCHANGED <<rows, pending, agenda, clock, cursors, status, planned, baseline, agreed, mishaps>>

\* The cursor moves only when everything new is on record.
SaveCursor ==
    LET c == cursors[poll.of]
    IN  /\ poll.of \in Sources /\ poll.fresh = {}
        /\ cursors' = [cursors EXCEPT ![poll.of] =
                           [init |-> TRUE, seen |-> poll.seen,
                            base |-> IF c.init THEN c.base ELSE poll.now,
                            blind |-> IF c.init THEN c.blind ELSE poll.seen = {}]]
        /\ status' = [status EXCEPT ![poll.of] = "healthy"]
        /\ baseline' = IF poll.of = "trades" /\ ~c.init THEN poll.seen ELSE baseline
        /\ poll' = NoPoll
        /\ UNCHANGED <<rows, pending, agenda, clock, told, planned, agreed, mishaps>>

\* The calendar as it stands is recorded date by date, then what it no longer holds of the
\* event's dates still to come is cancelled; without any date left nothing is inferred.
ReadCalendar ==
    /\ poll = NoPoll
    /\ poll' = [of |-> "calendar", now |-> clock, seen |-> agenda, fresh |-> agenda]
    /\ agreed' = NoPoll
    /\ UNCHANGED <<rows, pending, agenda, clock, cursors, status, told, planned, baseline, mishaps>>

RecordDate ==
    /\ poll.of = "calendar"
    /\ \E d \in poll.fresh : /\ planned' = [planned EXCEPT ![d] = "planned"]
                             /\ poll' = [poll EXCEPT !.fresh = @ \ {d}]
    /\ UNCHANGED <<rows, pending, agenda, clock, cursors, status, told, baseline, agreed, mishaps>>

Outdated == {d \in Dates \ poll.seen : d > poll.now /\ planned[d] = "planned"}

RetractDate ==
    /\ poll.of = "calendar" /\ poll.fresh = {} /\ poll.seen # {}
    /\ \E d \in Outdated : planned' = [planned EXCEPT ![d] = "cancelled"]
    /\ UNCHANGED <<rows, pending, agenda, clock, poll, cursors, status, told, baseline, agreed, mishaps>>

EndCalendar ==
    /\ poll.of = "calendar" /\ poll.fresh = {}
    /\ poll.seen = {} \/ Outdated = {}
    /\ agreed' = IF poll.seen = {} THEN NoPoll ELSE poll
    /\ poll' = NoPoll
    /\ UNCHANGED <<rows, pending, agenda, clock, cursors, status, told, planned, baseline, mishaps>>

\* A source refuses, an event does not go on record, or the poller dies.
PollFails ==
    /\ mishaps < MaxLapses /\ mishaps' = mishaps + 1
    /\ poll # NoPoll
    /\ poll' = NoPoll
    /\ status' \in {status} \cup {[status EXCEPT ![s] = "failed"] : s \in Sources \cap {poll.of}}
    /\ UNCHANGED <<rows, pending, agenda, clock, cursors, told, planned, baseline, agreed>>

FeedsNext ==
    \/ SiteMoves
    \/ ReadTransactions \/ ReadTrades \/ RecordEvent \/ SaveCursor
    \/ ReadCalendar \/ RecordDate \/ RetractDate \/ EndCalendar
    \/ PollFails

-----------------------------------------------------------------------------
\* No transaction is lost in silence, unless the first read found none of interest: whatever
\* was completed after it is on record, or still in view, or the gap is plain to the next read;
\* nothing older and no offer of the first read is announced, and no offer a cursor has passed
\* is left out.
NothingMissed ==
    LET t == cursors["transactions"]
    IN  /\ t.init /\ ~t.blind =>
              \A i \in DOMAIN rows : rows[i] /\ i > t.base => \/ <<"transactions", i>> \in told
                                                              \/ i \in Shown \ t.seen
                                                              \/ Gap
        /\ \A e \in told : e[1] = "transactions" => t.init /\ e[2] > t.base
        /\ cursors["trades"].init =>
              \A o \in cursors["trades"].seen \ baseline : <<"trades", o>> \in told

\* A completed read of the calendar leaves exactly its dates planned among those to come,
\* whatever interrupted reads had put down before.
CalendarStands ==
    agreed # NoPoll => \A d \in Dates : d > agreed.now => (planned[d] = "planned") = (d \in agreed.seen)
=============================================================================
