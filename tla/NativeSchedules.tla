--------------------------- MODULE NativeSchedules ---------------------------
(***************************************************************************)
(* The durable appointment tables of the season scheduler, and every       *)
(* database transaction that changes them:                                 *)
(*                                                                         *)
(*   runtime_native_schedules             sched                            *)
(*   runtime_native_schedule_occurrences  occ                              *)
(*   runtime_native_schedule_events       events                           *)
(*                                                                         *)
(* A transaction is one step, with one exception: a create or update that  *)
(* anchors an appointment to a calendar event reads the event without the  *)
(* league lock (7046) and writes the appointment afterwards, so it is the  *)
(* pair ReadAnchor / CommitAnchor, and `open' holds the command in between.*)
(* The dispatcher is in NativeScheduleDispatch.                            *)
(*                                                                         *)
(* A schedule id stands for the idempotency key that creates it: a create  *)
(* succeeds once per key, and a replay returns the stored result.          *)
(***************************************************************************)
EXTENDS Integers

CONSTANTS
    Teams,           \* franchises, numbered: candidates are visited in this order
    Schedules,       \* appointment ids, one per create command
    TeamOf,          \* the franchise of each appointment
    Timings,         \* timing records an owner may ask for
    CalendarEvents,  \* ids of calendar entries
    LeagueEvents,    \* occurred events: records [id, kind, audience]
    NoTime,          \* SQL NULL in a timestamp column
    MaxTime,         \* bound on the clock
    MaxVersion       \* bound on an appointment's version

VARIABLES
    now,      \* clock_timestamp()
    sched,    \* appointment id -> row
    occ,      \* occurrence id -> row
    events,   \* event id -> row
    open      \* anchored create/update commands between their read and their write

storeVars == <<now, sched, occ, events, open>>

-----------------------------------------------------------------------------
(* Column domains. Of execution_evidence only one thing is ever tested:    *)
(* whether its source is operator recovery (recovered).                    *)

Waiting  == {"queued", "blocked"}
InDoubt  == {"sending", "uncertain"}
Running  == {"delivered", "started"}
HandedOff == InDoubt \cup Running
Closed   == {"completed", "failed", "cancelled"}
AckStates == {"started", "completed", "failed"}

NoLane == -1
NoEvent == 0    \* event ids are positions in the franchise's inbox, from 1

Times == Int \cup {NoTime}
EventIds == CalendarEvents \cup {e.id : e \in LeagueEvents}

\* An occurrence id is the hash of (appointment, version, due time or event).
OccurrenceIds == [sched : Schedules, version : Nat, key : Int \cup EventIds]

ScheduleRows == [status : {"active", "cancelled", "completed"},
                 version : Nat, timing : Timings, due : Times]

OccurrenceRows == [status : Waiting \cup HandedOff \cup Closed,
                   event : Nat, lane : {NoLane, 0, 1}, deliveredAt : Nat,
                   started : BOOLEAN, recovered : BOOLEAN,
                   scheduledFor : Int, missedThrough : Int]

EventRows == [at : Int, cancelled : BOOLEAN, audience : SUBSET Teams]

TimingKinds == {"once", "interval", "weekly", "event", "subscription"}

ASSUME TeamsAssumption == Teams \subseteq Nat
ASSUME TeamOfAssumption == TeamOf \in [Schedules -> Teams]
ASSUME NoTimeAssumption == NoTime \notin Int
ASSUME BoundsAssumption == MaxTime \in Nat /\ MaxVersion \in Nat
ASSUME TimingsAssumption ==
    \A tm \in Timings :
        /\ tm.kind \in TimingKinds
        /\ tm.kind \in {"once", "interval", "weekly"} => tm.at \in Int
        /\ tm.kind \in {"interval", "weekly"} => tm.every \in Nat \ {0}
        /\ tm.kind = "event" => tm.event \in EventIds /\ tm.offset \in Int
ASSUME EventIdsAssumption == EventIds \cap Int = {}
ASSUME LeagueEventsAssumption ==
    \A e \in LeagueEvents : e.audience \subseteq Teams

-----------------------------------------------------------------------------
(* When an appointment is due.                                             *)

\* Strictly after `after'. An interval runs on the grid start + k * step; the
\* wall-clock slots of a weekly appointment are such a grid as well.
NextTime(tm, after) ==
    CASE tm.kind = "once" -> IF tm.at > after THEN tm.at ELSE NoTime
      [] tm.kind \in {"interval", "weekly"} ->
            LET k == ((after - tm.at) \div tm.every) + 1
            IN  tm.at + (IF k > 0 THEN k ELSE 0) * tm.every
      [] OTHER -> NoTime

\* Mutant: past starts are silently dropped.
InitialDueDropsPast(tm) ==
    CASE tm.kind = "event" -> events[tm.event].at + tm.offset
      [] OTHER -> NextTime(tm, now)

\* The first due time of a fresh definition. A past one-shot or interval start
\* is kept: it becomes a catch-up occurrence.
InitialDue(tm) ==
    CASE tm.kind \in {"once", "interval"} -> tm.at
      [] tm.kind = "weekly" -> NextTime(tm, now)
      [] tm.kind = "event" -> events[tm.event].at + tm.offset
      [] OTHER -> NoTime

\* Only a known event, visible to this franchise and not cancelled, can anchor.
Anchorable(t, e) ==
    /\ e \in DOMAIN events
    /\ t \in events[e].audience
    /\ ~events[e].cancelled

-----------------------------------------------------------------------------
(* Row helpers.                                                            *)

TeamOfOcc(o) == TeamOf[o.sched]

OccsOf(s) == {o \in DOMAIN occ : o.sched = s}

\* Mutant: a send in doubt is withdrawn as if it had not left.
WaitingOrInDoubt(s) == {o \in OccsOf(s) : occ[o].status \in Waiting \cup InDoubt}

WaitingOf(s) == {o \in OccsOf(s) : occ[o].status \in Waiting}

TeamOccs(t) == {o \in DOMAIN occ : TeamOfOcc(o) = t}

NewRow(due) == [status |-> "queued", event |-> NoEvent, lane |-> NoLane,
                deliveredAt |-> 0, started |-> FALSE, recovered |-> FALSE,
                scheduledFor |-> due, missedThrough |-> now]

\* The rows of O set to cancelled, every other row as it is.
Withdraw(O) ==
    [o \in DOMAIN occ |->
        IF o \in O THEN [occ[o] EXCEPT !.status = "cancelled"] ELSE occ[o]]

\* sched with the row of s replaced, or inserted.
PutSchedule(s, row) ==
    [x \in DOMAIN sched \cup {s} |-> IF x = s THEN row ELSE sched[x]]

\* The per-franchise command lock (7045): an open command holds it.
CommandLockFree(t) == \A c \in open : TeamOf[c.sched] # t

\* The appointment row locks held by open updates.
RowFree(s) == \A c \in open : c.sched # s

-----------------------------------------------------------------------------
(* Owner commands.                                                         *)

Redefine(s, tm, due, withdrawn) ==
    /\ occ' = Withdraw(withdrawn)
    /\ sched' = PutSchedule(s,
           [status |-> "active", timing |-> tm, due |-> due,
            version |-> IF s \in DOMAIN sched THEN sched[s].version + 1 ELSE 1])

\* An update must find the row not cancelled (expectedVersion is the current one).
Definable(s) ==
    /\ CommandLockFree(TeamOf[s])
    /\ s \in DOMAIN sched =>
          sched[s].status # "cancelled" /\ sched[s].version < MaxVersion

\* create / update with a timing that needs no calendar read.
Define(s, tm) ==
    /\ tm.kind # "event"
    /\ Definable(s)
    /\ Redefine(s, tm, InitialDue(tm), WaitingOf(s))
    /\ UNCHANGED <<now, events, open>>

\* create / update anchored to a calendar event: its time is read first.
ReadAnchor(s, tm) ==
    /\ tm.kind = "event"
    /\ Definable(s)
    /\ Anchorable(TeamOf[s], tm.event)
    /\ open' = open \cup {[sched |-> s, timing |-> tm, due |-> InitialDue(tm),
                           withdrawn |-> WaitingOf(s)]}
    /\ UNCHANGED <<now, sched, occ, events>>

\* ... and the appointment is written, and the command lock released, later.
CommitAnchor(c) ==
    /\ c \in open
    /\ Redefine(c.sched, c.timing, c.due, c.withdrawn)
    /\ open' = open \ {c}
    /\ UNCHANGED <<now, events>>

\* Work already handed to the transport is not withdrawn.
Cancel(s) ==
    /\ s \in DOMAIN sched
    /\ Definable(s)
    /\ occ' = Withdraw(WaitingOf(s))
    /\ sched' = [sched EXCEPT ![s].status = "cancelled", ![s].due = NoTime,
                              ![s].version = @ + 1]
    /\ UNCHANGED <<now, events, open>>

\* Mutant: completed work of an older definition retires the newer one.
RetiresAnyVersion(o) ==
    LET row == sched[o.sched]
    IN  /\ row.due = NoTime
        /\ row.timing.kind \in {"once", "event"}
        /\ row.status = "active"

\* A finished one-shot or event appointment retires, unless it was redefined.
Retires(o) ==
    LET row == sched[o.sched]
    IN  /\ row.version = o.version
        /\ row.due = NoTime
        /\ row.timing.kind \in {"once", "event"}
        /\ row.status = "active"

CloseOut(o, st) ==
    sched' = IF st = "completed" /\ Retires(o)
             THEN [sched EXCEPT ![o.sched].status = "completed"]
             ELSE sched

\* The row after owner or runtime evidence of execution replaces what it held.
Executed(row, st) ==
    [row EXCEPT !.status = st, !.recovered = FALSE, !.started = @ \/ st = "started"]

\* Mutant: an owner may acknowledge a send whose delivery is not recorded yet.
AcknowledgeableEarly(o, st) ==
    /\ occ[o].status = st \/ occ[o].status \in Running \cup InDoubt
    /\ ~occ[o].recovered

\* Mutant: an owner's late "failed" replaces the operator's evidence.
AcknowledgeableAfterRecovery(o, st) == occ[o].status = st \/ occ[o].status \in Running

\* Only delivered work, or a repetition of its outcome that replaces no
\* operator evidence.
Acknowledgeable(o, st) ==
    /\ occ[o].status = st \/ occ[o].status \in Running
    /\ ~occ[o].recovered

\* acknowledge: any occurrence of the franchise may be named, in any state.
Acknowledge(o, st) ==
    /\ CommandLockFree(TeamOfOcc(o))
    /\ Acknowledgeable(o, st)
    /\ occ' = [occ EXCEPT ![o] = Executed(@, st)]
    /\ CloseOut(o, st)
    /\ UNCHANGED <<now, events, open>>

-----------------------------------------------------------------------------
(* Infrastructure: calendar, occurred events, materialization, recovery.   *)

AnchoredTo(e) ==
    {s \in DOMAIN sched : /\ sched[s].status = "active"
                          /\ sched[s].timing.kind = "event"
                          /\ sched[s].timing.event = e}

PutEvent(e, row) ==
    [x \in DOMAIN events \cup {e} |-> IF x = e THEN row ELSE events[x]]

\* recordCalendarEvent: a new, moved, cancelled or reinstated calendar entry
\* redates every active appointment anchored to it.
RecordCalendarEvent(e, at, gone) ==
    LET row == [at |-> at, cancelled |-> gone,
                audience |-> IF e \in DOMAIN events THEN events[e].audience ELSE Teams]
        hit == AnchoredTo(e)
    IN  /\ e \in DOMAIN events => events[e] # row
        /\ \A s \in hit : RowFree(s) /\ sched[s].version < MaxVersion
        /\ events' = PutEvent(e, row)
        /\ occ' = Withdraw(UNION {WaitingOf(s) : s \in hit})
        /\ sched' = [s \in DOMAIN sched |->
              IF s \in hit
              THEN [sched[s] EXCEPT !.version = @ + 1,
                        !.due = IF gone THEN NoTime ELSE at + sched[s].timing.offset]
              ELSE sched[s]]
        /\ UNCHANGED <<now, open>>

\* Mutant: a private event wakes every subscriber.
SubscribedToIgnoringAudience(e) ==
    {s \in DOMAIN sched : /\ sched[s].status = "active"
                          /\ sched[s].timing.kind = "subscription"
                          /\ sched[s].timing.eventKind = e.kind}

SubscribedTo(e) ==
    {s \in DOMAIN sched : /\ sched[s].status = "active"
                          /\ sched[s].timing.kind = "subscription"
                          /\ sched[s].timing.eventKind = e.kind
                          /\ TeamOf[s] \in e.audience}

IdOf(s, key) == [sched |-> s, version |-> sched[s].version, key |-> key]

\* The event id is not known yet; a replay of a known event changes nothing.
Unrecorded(e) == e.id \notin DOMAIN events

\* recordLeagueEvent: one occurrence per matching subscription, once per event.
RecordLeagueEvent(e, at) ==
    LET hit == SubscribedTo(e)
        new == {IdOf(s, e.id) : s \in hit}
    IN  /\ at <= now
        /\ Unrecorded(e)
        /\ \A s \in hit : RowFree(s)
        /\ events' = PutEvent(e.id, [at |-> at, cancelled |-> FALSE,
                                     audience |-> e.audience])
        /\ occ' = [o \in DOMAIN occ \cup new |->
                      IF o \in DOMAIN occ THEN occ[o] ELSE NewRow(at)]
        /\ UNCHANGED <<now, sched, open>>

DueNow == {s \in DOMAIN sched : /\ sched[s].status = "active"
                                /\ sched[s].due # NoTime
                                /\ sched[s].due <= now}

\* The waiting occurrence of the current version that absorbs a further due time.
Coalesced(s) == {o \in WaitingOf(s) :
                    /\ o.version = sched[s].version
                    /\ \A p \in WaitingOf(s) : p.version = o.version =>
                          occ[o].scheduledFor <= occ[p].scheduledFor}

\* materializeDue: one catch-up per due appointment, then straight past now.
MaterializeDue ==
    LET due == DueNow
        new == {IdOf(s, sched[s].due) : s \in {x \in due : Coalesced(x) = {}}}
        absorbing == UNION {Coalesced(s) : s \in due}
    IN  /\ due # {}
        /\ \A s \in due : RowFree(s)
        /\ occ' = [o \in DOMAIN occ \cup new |->
              IF o \notin DOMAIN occ THEN NewRow(o.key)
              ELSE IF o \in absorbing THEN [occ[o] EXCEPT !.missedThrough = now]
              ELSE occ[o]]
        /\ sched' = [s \in DOMAIN sched |->
              IF s \in due THEN [sched[s] EXCEPT !.due = NextTime(sched[s].timing, now)]
              ELSE sched[s]]
        /\ UNCHANGED <<now, events, open>>

\* failOccurrence: a reviewed occurrence that never started is closed by the
\* commissioner. The franchise's lane lock (7047) is the caller's guard.
FailOccurrence(o) ==
    /\ CommandLockFree(TeamOfOcc(o))
    /\ occ[o].status \in Waiting \cup {"delivered"}
    /\ occ[o].status = "delivered" => occ[o].event # NoEvent
    /\ ~occ[o].started
    /\ occ' = [occ EXCEPT ![o] = [@ EXCEPT !.status = "failed", !.recovered = TRUE]]
    /\ UNCHANGED <<now, sched, events, open>>

\* recordExecution: an execution receipt naming the delivered event.
RecordExecution(o, st) ==
    /\ occ[o].event # NoEvent
    /\ occ[o].status \in Running \ {st}
    /\ st = "completed" => RowFree(o.sched)
    /\ occ' = [occ EXCEPT ![o] = Executed(@, st)]
    /\ CloseOut(o, st)
    /\ UNCHANGED <<now, events, open>>

Tick == /\ now < MaxTime
        /\ now' = now + 1
        /\ UNCHANGED <<sched, occ, events, open>>

-----------------------------------------------------------------------------
StoreInit == /\ now = 0
             /\ sched = [s \in {} |-> {}]
             /\ occ = [o \in {} |-> {}]
             /\ events = [e \in {} |-> {}]
             /\ open = {}

OwnerCommand ==
    \/ \E s \in Schedules, tm \in Timings : Define(s, tm) \/ ReadAnchor(s, tm)
    \/ \E c \in open : CommitAnchor(c)
    \/ \E s \in Schedules : Cancel(s)
    \/ \E o \in DOMAIN occ, st \in AckStates : Acknowledge(o, st)

Infrastructure ==
    \/ \E e \in CalendarEvents, at \in 0..MaxTime, gone \in BOOLEAN :
          RecordCalendarEvent(e, at, gone)
    \/ \E e \in LeagueEvents, at \in 0..now : RecordLeagueEvent(e, at)
    \/ MaterializeDue
    \/ \E o \in DOMAIN occ, st \in AckStates : RecordExecution(o, st)
    \/ Tick
=============================================================================
