------------------------- MODULE NativeScheduleProofs -------------------------
(***************************************************************************)
(* Proofs about the season scheduler, for any franchises, appointments,    *)
(* dispatchers, clock bounds and number of faults: who owns the work in    *)
(* hand and what stays closed; that the rows and the messages agree, only  *)
(* current definitions are claimed and only their own work retires them,   *)
(* and tables, dispatchers and transport together implement                *)
(* AppointmentInbox; and that the calendar loses nothing, bursts over      *)
(* nobody and tells nobody but an event's audience.                        *)
(***************************************************************************)
EXTENDS NativeScheduleProperties, SequenceTheorems, TLAPS

-----------------------------------------------------------------------------
(* What a transaction on the tables may do to an occurrence.               *)

RowStep(r, q) ==
    \/ q = r
    \/ r.status \in Waiting /\ q = [r EXCEPT !.status = "cancelled"]
    \/ r.status \in Waiting /\ q = [r EXCEPT !.missedThrough = now]
    \/ \E st \in AckStates :
          /\ r.status \in Running \/ (r.status = st /\ ~r.recovered)
          /\ q = Executed(r, st)
    \/ /\ r.status \in Waiting \cup {"delivered"}
       /\ ~r.started
       /\ q = [r EXCEPT !.status = "failed", !.recovered = TRUE]

RowsStep ==
    /\ DOMAIN occ \subseteq DOMAIN occ'
    /\ \A o \in DOMAIN occ : RowStep(occ[o], occ'[o])
    /\ \A o \in DOMAIN occ' \ DOMAIN occ :
          occ'[o].scheduledFor \in Int /\ occ'[o] = NewRow(occ'[o].scheduledFor)

(* An open command holds its franchise's command lock, so the occurrences  *)
(* it read and is going to withdraw are still waiting.                     *)
OpenCommands ==
    /\ \A c \in open : c.withdrawn \subseteq WaitingOf(c.sched)
    /\ \A c, e \in open : TeamOf[c.sched] = TeamOf[e.sched] => c = e

\* A dispatcher at work holds the lane of the franchise it visits.
LaneHeld(d) ==
    pc[d] \in Holding => team[d] \in Teams /\ lane7047[team[d]] = d

\* What a dispatcher knows of the rows of its franchise at each point.
Knows(d) ==
    LET mine == TeamOccs(team[d])
        row == occ[target[d]]
    IN  /\ pc[d] \in {"select", "reconcile", "inspect", "claim"} =>
              \A o \in mine : occ[o].status \notin Running
        /\ pc[d] \in {"reconcile", "inspect", "claim", "send", "sent"} => target[d] \in mine
        /\ pc[d] = "reconcile" => row.status \in InDoubt
        /\ pc[d] \in {"inspect", "claim"} => \A o \in mine : occ[o].status \notin HandedOff
        /\ pc[d] \in {"send", "sent"} => row.status = "sending" /\ row.lane \in {0, 1}

Coordination == OpenCommands /\ \A d \in Dispatchers : LaneHeld(d) /\ Knows(d)

\* Operator evidence is found only on closed work that never started.
RecoveredRows ==
    \A o \in DOMAIN occ : occ[o].recovered => occ[o].status = "failed" /\ ~occ[o].started

IInv == TypeOK /\ Coordination /\ RecoveredRows /\ OneHandedOff

-----------------------------------------------------------------------------
(* Due times.                                                              *)

(* nextNativeScheduleTime yields a time or none. *)
LEMMA NextTimeType ==
    ASSUME NEW tm \in Timings, NEW after \in Int
    PROVE  NextTime(tm, after) \in Times
<1>1. CASE tm.kind = "once"
  BY <1>1, TimingsAssumption DEF NextTime, Times
<1>2. CASE tm.kind \in {"interval", "weekly"}
  <2>1. tm.at \in Int /\ tm.every \in Nat \ {0}
    BY <1>2, TimingsAssumption
  <2>2. (after - tm.at) \div tm.every \in Int
    BY <2>1
  <2>. DEFINE k == ((after - tm.at) \div tm.every) + 1
              n == IF k > 0 THEN k ELSE 0
  <2>3. n \in Int
    BY <2>2
  <2>4. tm.at + n * tm.every \in Int
    <3>. HIDE DEF n
    <3>. QED  BY <2>1, <2>3
  <2>5. NextTime(tm, after) = tm.at + n * tm.every
    BY <1>2 DEF NextTime
  <2>. QED  BY <2>4, <2>5 DEF Times
<1>3. CASE tm.kind \in {"event", "subscription"}
  BY <1>3 DEF NextTime, Times
<1>. QED  BY <1>1, <1>2, <1>3, TimingsAssumption DEF TimingKinds

(* initialDue of an anchorable or unanchored timing is a time or none. *)
LEMMA InitialDueType ==
    ASSUME StoreTypeOK, NEW tm \in Timings, tm.kind = "event" => tm.event \in DOMAIN events
    PROVE  InitialDue(tm) \in Times
<1>1. now \in Int
  BY DEF StoreTypeOK
<1>2. NextTime(tm, now) \in Times
  BY <1>1, NextTimeType
<1>3. tm.kind \in {"once", "interval"} => tm.at \in Int
  BY TimingsAssumption
<1>4. tm.kind = "event" => events[tm.event].at + tm.offset \in Int
  <2>1. tm.kind = "event" => tm.offset \in Int
    BY TimingsAssumption
  <2>2. tm.kind = "event" => events[tm.event].at \in Int
    BY DEF StoreTypeOK, EventsTyped, EventRows
  <2>. QED  BY <2>1, <2>2
<1>. QED  BY <1>2, <1>3, <1>4, TimingsAssumption DEF InitialDue, Times, TimingKinds

-----------------------------------------------------------------------------
(* Transactions on the tables.                                             *)

(* Withdrawing waiting rows is a row step. *)
LEMMA WithdrawRows ==
    ASSUME NEW W, \A o \in W \cap DOMAIN occ : occ[o].status \in Waiting, occ' = Withdraw(W)
    PROVE  RowsStep /\ DOMAIN occ' = DOMAIN occ
BY DEF Withdraw, RowsStep, RowStep

(* Acknowledging, closing or recovering one row is a row step. *)
LEMMA OneRow ==
    ASSUME NEW o \in DOMAIN occ, NEW q, RowStep(occ[o], q), occ' = [occ EXCEPT ![o] = q]
    PROVE  RowsStep /\ DOMAIN occ' = DOMAIN occ
BY DEF RowsStep, RowStep

(* Inserting fresh rows is a row step. *)
LEMMA DefineRows ==
    ASSUME NEW s \in Schedules, NEW tm \in Timings, Define(s, tm)
    PROVE  RowsStep /\ DOMAIN occ' = DOMAIN occ
BY WithdrawRows DEF Define, Redefine, WaitingOf, OccsOf

LEMMA CommitRows ==
    ASSUME OpenCommands, NEW c \in open, CommitAnchor(c)
    PROVE  RowsStep /\ DOMAIN occ' = DOMAIN occ
BY WithdrawRows DEF CommitAnchor, Redefine, WaitingOf, OccsOf, OpenCommands

LEMMA CancelRows ==
    ASSUME NEW s \in Schedules, Cancel(s)
    PROVE  RowsStep /\ DOMAIN occ' = DOMAIN occ
BY WithdrawRows DEF Cancel, WaitingOf, OccsOf

LEMMA AcknowledgeRows ==
    ASSUME NEW o \in DOMAIN occ, NEW st \in AckStates, Acknowledge(o, st)
    PROVE  RowsStep /\ DOMAIN occ' = DOMAIN occ
<1>1. RowStep(occ[o], Executed(occ[o], st))
  BY DEF RowStep, Acknowledge, Acknowledgeable
<1>. QED  BY <1>1, OneRow DEF Acknowledge

LEMMA RecordExecutionRows ==
    ASSUME NEW o \in DOMAIN occ, NEW st \in AckStates, RecordExecution(o, st)
    PROVE  RowsStep /\ DOMAIN occ' = DOMAIN occ
<1>1. RowStep(occ[o], Executed(occ[o], st))
  BY DEF RowStep, RecordExecution
<1>. QED  BY <1>1, OneRow DEF RecordExecution

LEMMA FailOccurrenceRows ==
    ASSUME NEW o \in DOMAIN occ, FailOccurrence(o)
    PROVE  RowsStep /\ DOMAIN occ' = DOMAIN occ
<1>1. RowStep(occ[o], [occ[o] EXCEPT !.status = "failed", !.recovered = TRUE])
  BY DEF RowStep, FailOccurrence
<1>. QED  BY <1>1, OneRow DEF FailOccurrence

LEMMA RecordCalendarEventRows ==
    ASSUME NEW e, NEW at, NEW gone, RecordCalendarEvent(e, at, gone)
    PROVE  RowsStep /\ DOMAIN occ' = DOMAIN occ
<1>1. occ' = Withdraw(UNION {WaitingOf(s) : s \in AnchoredTo(e)})
  BY DEF RecordCalendarEvent
<1>. QED  BY <1>1, WithdrawRows DEF WaitingOf, OccsOf

LEMMA RecordLeagueEventRows ==
    ASSUME NEW e, NEW at \in Int, RecordLeagueEvent(e, at)
    PROVE  RowsStep
BY DEF RecordLeagueEvent, RowsStep, RowStep, NewRow

LEMMA MaterializeDueRows ==
    ASSUME StoreTypeOK, MaterializeDue
    PROVE  RowsStep
<1>. DEFINE new == {IdOf(s, sched[s].due) : s \in {x \in DueNow : Coalesced(x) = {}}}
            absorbing == UNION {Coalesced(s) : s \in DueNow}
<1>1. occ' = [o \in DOMAIN occ \cup new |->
              IF o \notin DOMAIN occ THEN NewRow(o.key)
              ELSE IF o \in absorbing THEN [occ[o] EXCEPT !.missedThrough = now]
              ELSE occ[o]]
  BY DEF MaterializeDue
<1>2. ASSUME NEW o \in DOMAIN occ  PROVE RowStep(occ[o], occ'[o])
  <2>1. o \in absorbing => occ[o].status \in Waiting
    BY DEF Coalesced, WaitingOf
  <2>. QED  BY <1>1, <2>1 DEF RowStep
<1>3. ASSUME NEW o \in DOMAIN occ' \ DOMAIN occ
      PROVE  occ'[o].scheduledFor \in Int /\ occ'[o] = NewRow(occ'[o].scheduledFor)
  <2>1. o.key \in Int
    BY <1>1 DEF IdOf, DueNow, StoreTypeOK, SchedulesTyped, ScheduleRows, Times
  <2>2. occ'[o] = NewRow(o.key)
    BY <1>1
  <2>. QED  BY <2>1, <2>2 DEF NewRow
<1>4. DOMAIN occ \subseteq DOMAIN occ'
  BY <1>1
<1>. QED  BY <1>2, <1>3, <1>4 DEF RowsStep

(* Every transaction moves rows as RowStep says. *)
LEMMA StoreRows ==
    ASSUME StoreTypeOK, OpenCommands,
           OwnerCommand \/ Infrastructure \/ \E o \in DOMAIN occ : FailOccurrence(o)
    PROVE  RowsStep
<1>1. UNCHANGED occ => RowsStep
  BY DEF RowsStep, RowStep
<1>2. CASE OwnerCommand
  BY <1>1, <1>2, DefineRows, CommitRows, CancelRows, AcknowledgeRows DEF OwnerCommand, ReadAnchor
<1>3. CASE Infrastructure
  <2>1. ASSUME NEW e \in LeagueEvents, NEW at \in 0..now, RecordLeagueEvent(e, at)
        PROVE  RowsStep
    <3>1. at \in Int
      OBVIOUS
    <3>. QED  BY <2>1, <3>1, RecordLeagueEventRows
  <2>. QED  BY <1>1, <1>3, <2>1, RecordCalendarEventRows, MaterializeDueRows, RecordExecutionRows
            DEF Infrastructure, Tick
<1>4. CASE \E o \in DOMAIN occ : FailOccurrence(o)
  BY <1>4, FailOccurrenceRows
<1>. QED  BY <1>2, <1>3, <1>4

-----------------------------------------------------------------------------
(* Types.                                                                  *)

(* A row step keeps the columns in their domains. *)
LEMMA RowStepType ==
    ASSUME NEW r \in OccurrenceRows, NEW q, now \in Nat, RowStep(r, q)
    PROVE  q \in OccurrenceRows
<1>. USE DEF OccurrenceRows, Waiting, HandedOff, InDoubt, Running, Closed
<1>1. CASE q = r
  BY <1>1
<1>2. CASE q = [r EXCEPT !.status = "cancelled"]
  BY <1>2
<1>3. CASE q = [r EXCEPT !.missedThrough = now]
  BY <1>3
<1>4. ASSUME NEW st \in AckStates, q = Executed(r, st)
      PROVE  q \in OccurrenceRows
  <2>1. (r.started \/ st = "started") \in BOOLEAN
    OBVIOUS
  <2>. QED  BY <1>4, <2>1 DEF Executed, AckStates
<1>5. CASE q = [r EXCEPT !.status = "failed", !.recovered = TRUE]
  BY <1>5
<1>. QED  BY <1>1, <1>2, <1>3, <1>4, <1>5 DEF RowStep

LEMMA RowTypes ==
    ASSUME StoreTypeOK, RowsStep
    PROVE  \A o \in DOMAIN occ' : occ'[o] \in OccurrenceRows
<1>1. \A o \in DOMAIN occ : occ'[o] \in OccurrenceRows
  BY RowStepType DEF RowsStep, StoreTypeOK, OccurrencesTyped
<1>2. \A due \in Int : NewRow(due) \in OccurrenceRows
  BY DEF NewRow, OccurrenceRows, StoreTypeOK, Waiting, NoEvent, NoLane
<1>. QED  BY <1>1, <1>2 DEF RowsStep
(* The occurrence rows keep their types when every new row belongs to an   *)
(* existing appointment.                                                   *)
LEMMA OccurrencesTypedStep ==
    ASSUME StoreTypeOK, RowsStep, DOMAIN sched \subseteq DOMAIN sched',
           NEW new, new \subseteq OccurrenceIds, \A o \in new : o.sched \in DOMAIN sched,
           DOMAIN occ' \subseteq DOMAIN occ \cup new
    PROVE  OccurrencesTyped'
<1>1. \A o \in DOMAIN occ' : occ'[o] \in OccurrenceRows
  BY RowTypes
<1>2. \A o \in DOMAIN occ' : o \in OccurrenceIds /\ o.sched \in DOMAIN sched'
  BY DEF StoreTypeOK, OccurrencesTyped
<1>. QED  BY <1>1, <1>2 DEF OccurrencesTyped

LEMMA SameOccurrencesTyped ==
    ASSUME StoreTypeOK, RowsStep, DOMAIN sched \subseteq DOMAIN sched', DOMAIN occ' = DOMAIN occ
    PROVE  OccurrencesTyped'
<1>1. \A o \in DOMAIN occ' : occ'[o] \in OccurrenceRows
  BY RowTypes
<1>. QED  BY <1>1 DEF StoreTypeOK, OccurrencesTyped

(* (Re)defining an appointment with a typed row. *)
LEMMA RedefineType ==
    ASSUME StoreTypeOK, RowsStep, NEW s \in Schedules, NEW tm \in Timings, NEW due \in Times, NEW W,
           Redefine(s, tm, due, W), tm.kind = "event" => tm.event \in DOMAIN events,
           UNCHANGED <<now, events>>, open' \subseteq open
    PROVE  StoreTypeOK'
<1>1. DOMAIN sched' = DOMAIN sched \cup {s}
  BY DEF Redefine, PutSchedule
<1>2. DOMAIN occ' = DOMAIN occ
  BY DEF Redefine, Withdraw
<1>3. sched'[s] \in ScheduleRows /\ sched'[s].timing = tm
  BY DEF Redefine, PutSchedule, ScheduleRows, StoreTypeOK, SchedulesTyped
<1>4. \A x \in DOMAIN sched' : x # s => sched'[x] = sched[x] /\ x \in DOMAIN sched
  BY DEF Redefine, PutSchedule
<1>5. SchedulesTyped' /\ AnchorsKnown'
  BY <1>1, <1>3, <1>4 DEF StoreTypeOK, SchedulesTyped, AnchorsKnown
<1>6. OccurrencesTyped'
  BY <1>1, <1>2, SameOccurrencesTyped
<1>7. now' \in Nat /\ EventsTyped' /\ OpenTyped'
  BY DEF StoreTypeOK, EventsTyped, OpenTyped
<1>. QED  BY <1>5, <1>6, <1>7 DEF StoreTypeOK

(* A transaction that leaves open commands alone, and changes only the     *)
(* status, version and due time of appointments.                           *)
LEMMA RescheduleType ==
    ASSUME StoreTypeOK, RowsStep, DOMAIN occ' = DOMAIN occ, DOMAIN sched' = DOMAIN sched,
           \A s \in DOMAIN sched : sched'[s] \in ScheduleRows /\ sched'[s].timing = sched[s].timing,
           DOMAIN events \subseteq DOMAIN events', EventsTyped', UNCHANGED <<now, open>>
    PROVE  StoreTypeOK'
<1>1. SchedulesTyped' /\ AnchorsKnown' /\ OpenTyped'
  BY DEF StoreTypeOK, SchedulesTyped, AnchorsKnown, OpenTyped
<1>2. OccurrencesTyped'
  BY SameOccurrencesTyped
<1>. QED  BY <1>1, <1>2 DEF StoreTypeOK

LEMMA OwnerCommandType ==
    ASSUME StoreTypeOK, OpenCommands, OwnerCommand
    PROVE  StoreTypeOK'
<1>1. RowsStep
  BY StoreRows
<1>2. ASSUME NEW s \in Schedules, NEW tm \in Timings, Define(s, tm)
      PROVE  StoreTypeOK'
  <2>1. InitialDue(tm) \in Times
    BY <1>2, InitialDueType DEF Define
  <2>. QED  BY <1>1, <1>2, <2>1, RedefineType DEF Define
<1>3. ASSUME NEW s \in Schedules, NEW tm \in Timings, ReadAnchor(s, tm)
      PROVE  StoreTypeOK'
  <2>1. tm.event \in DOMAIN events /\ tm.kind = "event"
    BY <1>3 DEF ReadAnchor, Anchorable
  <2>2. InitialDue(tm) \in Times
    BY <2>1, InitialDueType
  <2>3. OpenTyped'
    BY <1>3, <2>1, <2>2 DEF ReadAnchor, StoreTypeOK, OpenTyped
  <2>. QED  BY <1>3, <2>3
            DEF ReadAnchor, StoreTypeOK, SchedulesTyped, OccurrencesTyped, EventsTyped, AnchorsKnown
<1>4. ASSUME NEW c \in open, CommitAnchor(c)
      PROVE  StoreTypeOK'
  <2>1. c.sched \in Schedules /\ c.timing \in Timings /\ c.due \in Times
        /\ c.timing.event \in DOMAIN events
    BY DEF StoreTypeOK, OpenTyped
  <2>. QED  BY <1>1, <1>4, <2>1, RedefineType DEF CommitAnchor
<1>5. ASSUME NEW s \in Schedules, Cancel(s)
      PROVE  StoreTypeOK'
  <2>1. \A x \in DOMAIN sched : sched'[x] \in ScheduleRows /\ sched'[x].timing = sched[x].timing
    BY <1>5 DEF Cancel, StoreTypeOK, SchedulesTyped, ScheduleRows, Times
  <2>2. EventsTyped' /\ DOMAIN events' = DOMAIN events /\ DOMAIN sched' = DOMAIN sched
    BY <1>5 DEF Cancel, StoreTypeOK, EventsTyped
  <2>. QED  BY <1>1, <1>5, <2>1, <2>2, CancelRows, RescheduleType DEF Cancel
<1>6. ASSUME NEW o \in DOMAIN occ, NEW st \in AckStates, Acknowledge(o, st)
      PROVE  StoreTypeOK'
  <2>1. \A x \in DOMAIN sched : sched'[x] \in ScheduleRows /\ sched'[x].timing = sched[x].timing
    BY <1>6 DEF Acknowledge, CloseOut, StoreTypeOK, SchedulesTyped, ScheduleRows
  <2>2. EventsTyped' /\ DOMAIN events' = DOMAIN events /\ DOMAIN sched' = DOMAIN sched
    BY <1>6 DEF Acknowledge, CloseOut, StoreTypeOK, EventsTyped
  <2>. QED  BY <1>1, <1>6, <2>1, <2>2, AcknowledgeRows, RescheduleType DEF Acknowledge
<1>. QED  BY <1>2, <1>3, <1>4, <1>5, <1>6 DEF OwnerCommand

LEMMA RecordCalendarEventType ==
    ASSUME StoreTypeOK, NEW e \in CalendarEvents, NEW at \in 0..MaxTime, NEW gone \in BOOLEAN,
           RecordCalendarEvent(e, at, gone)
    PROVE  StoreTypeOK'
<1>. DEFINE hit == AnchoredTo(e)
            row == [at |-> at, cancelled |-> gone,
                    audience |-> IF e \in DOMAIN events THEN events[e].audience ELSE Teams]
<1>1. row \in EventRows
  BY DEF StoreTypeOK, EventsTyped, EventRows
<1>2. events' = PutEvent(e, row)
  BY DEF RecordCalendarEvent
<1>3. EventsTyped' /\ DOMAIN events \subseteq DOMAIN events'
  <2>. HIDE DEF row
  <2>1. e \in EventIds
    BY DEF EventIds
  <2>. QED  BY <1>1, <1>2, <2>1 DEF PutEvent, StoreTypeOK, EventsTyped
<1>4. \A s \in hit : sched[s].timing.offset \in Int
  BY TimingsAssumption DEF AnchoredTo, StoreTypeOK, SchedulesTyped, ScheduleRows
<1>5. ASSUME NEW s \in DOMAIN sched
      PROVE  sched'[s] \in ScheduleRows /\ sched'[s].timing = sched[s].timing
  <2>1. sched[s] \in ScheduleRows
    BY DEF StoreTypeOK, SchedulesTyped
  <2>2. CASE s \notin hit
    BY <2>1, <2>2 DEF RecordCalendarEvent
  <2>3. CASE s \in hit
    <3>1. (IF gone THEN NoTime ELSE at + sched[s].timing.offset) \in Times
      BY <1>4, <2>3 DEF Times
    <3>2. PICK t \in Times : sched'[s] = [sched[s] EXCEPT !.version = @ + 1, !.due = t]
      BY <2>3, <3>1 DEF RecordCalendarEvent
    <3>3. sched[s].version + 1 \in Nat
      BY <2>1 DEF ScheduleRows
    <3>4. sched'[s] \in ScheduleRows
      BY <2>1, <3>2, <3>3 DEF ScheduleRows
    <3>5. sched'[s].timing = sched[s].timing
      BY <2>1, <3>2 DEF ScheduleRows
    <3>. QED  BY <3>4, <3>5
  <2>. QED  BY <2>2, <2>3
<1>6. DOMAIN sched' = DOMAIN sched /\ UNCHANGED <<now, open>>
  BY DEF RecordCalendarEvent
<1>. QED  BY <1>3, <1>5, <1>6, RecordCalendarEventRows, RescheduleType

LEMMA RecordLeagueEventType ==
    ASSUME StoreTypeOK, NEW e \in LeagueEvents, NEW at \in 0..now, RecordLeagueEvent(e, at)
    PROVE  StoreTypeOK'
<1>. DEFINE new == {IdOf(s, e.id) : s \in SubscribedTo(e)}
<1>1. at \in Int
  OBVIOUS
<1>2. e.id \in EventIds /\ e.audience \subseteq Teams
  BY LeagueEventsAssumption DEF EventIds
<1>3. EventsTyped' /\ DOMAIN events \subseteq DOMAIN events'
  BY <1>1, <1>2 DEF RecordLeagueEvent, PutEvent, StoreTypeOK, EventsTyped, EventRows
<1>4. \A o \in new : o \in OccurrenceIds /\ o.sched \in DOMAIN sched
  BY <1>2 DEF IdOf, SubscribedTo, OccurrenceIds, StoreTypeOK, SchedulesTyped, ScheduleRows
<1>5. DOMAIN occ' \subseteq DOMAIN occ \cup new
  BY DEF RecordLeagueEvent
<1>6. OccurrencesTyped'
  <2>. HIDE DEF new
  <2>1. UNCHANGED sched
    BY DEF RecordLeagueEvent
  <2>. QED  BY <1>1, <1>4, <1>5, <2>1, RecordLeagueEventRows, OccurrencesTypedStep
<1>. QED  BY <1>3, <1>6
          DEF RecordLeagueEvent, StoreTypeOK, SchedulesTyped, AnchorsKnown, OpenTyped

LEMMA MaterializeDueType ==
    ASSUME StoreTypeOK, MaterializeDue
    PROVE  StoreTypeOK'
<1>. DEFINE new == {IdOf(s, sched[s].due) : s \in {x \in DueNow : Coalesced(x) = {}}}
<1>1. \A o \in new : o \in OccurrenceIds /\ o.sched \in DOMAIN sched
  BY DEF IdOf, DueNow, OccurrenceIds, StoreTypeOK, SchedulesTyped, ScheduleRows, Times
<1>2. DOMAIN occ' \subseteq DOMAIN occ \cup new
  BY DEF MaterializeDue
<1>3. ASSUME NEW s \in DOMAIN sched
      PROVE  sched'[s] \in ScheduleRows /\ sched'[s].timing = sched[s].timing
  <2>1. sched[s] \in ScheduleRows /\ now \in Int
    BY DEF StoreTypeOK, SchedulesTyped
  <2>2. NextTime(sched[s].timing, now) \in Times
    BY <2>1, NextTimeType DEF ScheduleRows
  <2>. QED  BY <2>1, <2>2 DEF MaterializeDue, ScheduleRows
<1>4. DOMAIN sched' = DOMAIN sched
  BY DEF MaterializeDue
<1>5. SchedulesTyped' /\ AnchorsKnown'
  BY <1>3, <1>4 DEF MaterializeDue, StoreTypeOK, SchedulesTyped, AnchorsKnown
<1>6. OccurrencesTyped'
  <2>. HIDE DEF new
  <2>. QED  BY <1>1, <1>2, <1>4, MaterializeDueRows, OccurrencesTypedStep
<1>. QED  BY <1>5, <1>6 DEF MaterializeDue, StoreTypeOK, EventsTyped, OpenTyped

LEMMA RecordExecutionType ==
    ASSUME StoreTypeOK, NEW o \in DOMAIN occ, NEW st \in AckStates, RecordExecution(o, st)
    PROVE  StoreTypeOK'
<1>1. \A x \in DOMAIN sched : sched'[x] \in ScheduleRows /\ sched'[x].timing = sched[x].timing
  BY DEF RecordExecution, CloseOut, StoreTypeOK, SchedulesTyped, ScheduleRows
<1>2. EventsTyped' /\ DOMAIN events' = DOMAIN events /\ DOMAIN sched' = DOMAIN sched
  BY DEF RecordExecution, CloseOut, StoreTypeOK, EventsTyped
<1>. QED  BY <1>1, <1>2, RecordExecutionRows, RescheduleType DEF RecordExecution

LEMMA FailOccurrenceType ==
    ASSUME StoreTypeOK, NEW o \in DOMAIN occ, FailOccurrence(o)
    PROVE  StoreTypeOK'
<1>1. EventsTyped' /\ SchedulesTyped
  BY DEF FailOccurrence, StoreTypeOK, EventsTyped
<1>. QED  BY <1>1, FailOccurrenceRows, RescheduleType DEF FailOccurrence, SchedulesTyped

(* Every transaction keeps the tables typed. *)
LEMMA StoreType ==
    ASSUME StoreTypeOK, OpenCommands,
           OwnerCommand \/ Infrastructure \/ \E o \in DOMAIN occ : FailOccurrence(o)
    PROVE  StoreTypeOK'
<1>1. ASSUME Tick
      PROVE  StoreTypeOK'
  BY <1>1 DEF Tick, StoreTypeOK, SchedulesTyped, OccurrencesTyped, EventsTyped, AnchorsKnown, OpenTyped
<1>2. CASE OwnerCommand
  BY <1>2, OwnerCommandType
<1>3. CASE Infrastructure
  BY <1>1, <1>3, RecordCalendarEventType, RecordLeagueEventType, MaterializeDueType,
     RecordExecutionType DEF Infrastructure
<1>4. CASE \E o \in DOMAIN occ : FailOccurrence(o)
  BY <1>4, FailOccurrenceType
<1>. QED  BY <1>2, <1>3, <1>4

-----------------------------------------------------------------------------
(* Open commands.                                                          *)

(* It is enough that a step keeps waiting what open commands will withdraw. *)
LEMMA OpenStays ==
    ASSUME OpenCommands, open' \subseteq open,
           \A c \in open' : \A o \in c.withdrawn :
               o \in DOMAIN occ' /\ occ'[o].status \in Waiting
    PROVE  OpenCommands'
BY DEF OpenCommands, WaitingOf, OccsOf

(* A step that withdraws rows of appointments without an open command. *)
LEMMA OpenStaysOnWithdraw ==
    ASSUME OpenCommands, open' \subseteq open, NEW W, occ' = Withdraw(W),
           \A o \in W : \A c \in open' : c.sched # o.sched
    PROVE  OpenCommands'
<1>1. \A c \in open' : \A o \in c.withdrawn : o \in DOMAIN occ /\ occ[o].status \in Waiting /\ o \notin W
  BY DEF OpenCommands, WaitingOf, OccsOf
<1>. QED  BY <1>1, OpenStays DEF Withdraw

LEMMA OwnerCommandOpen ==
    ASSUME OpenCommands, OwnerCommand
    PROVE  OpenCommands'
<1>1. ASSUME NEW s \in Schedules, NEW tm \in Timings, Define(s, tm)
      PROVE  OpenCommands'
  <2>1. \A o \in WaitingOf(s) : \A c \in open' : c.sched # o.sched
    BY <1>1 DEF Define, Definable, CommandLockFree, WaitingOf, OccsOf
  <2>. QED  BY <1>1, <2>1, OpenStaysOnWithdraw DEF Define, Redefine
<1>2. ASSUME NEW s \in Schedules, NEW tm \in Timings, ReadAnchor(s, tm)
      PROVE  OpenCommands'
  <2>. DEFINE new == [sched |-> s, timing |-> tm, due |-> InitialDue(tm), withdrawn |-> WaitingOf(s)]
  <2>1. open' = open \cup {new} /\ occ' = occ
    BY <1>2 DEF ReadAnchor
  <2>2. \A c \in open : TeamOf[c.sched] # TeamOf[new.sched]
    BY <1>2 DEF ReadAnchor, Definable, CommandLockFree
  <2>3. new.withdrawn = WaitingOf(new.sched)
    OBVIOUS
  <2>. QED
    <3>. HIDE DEF new
    <3>. QED  BY <2>1, <2>2, <2>3 DEF OpenCommands, WaitingOf, OccsOf
<1>3. ASSUME NEW c \in open, CommitAnchor(c)
      PROVE  OpenCommands'
  <2>1. open' = open \ {c} /\ occ' = Withdraw(c.withdrawn)
    BY <1>3 DEF CommitAnchor, Redefine
  <2>2. \A o \in c.withdrawn : \A e \in open' : e.sched # o.sched
    BY <2>1 DEF OpenCommands, WaitingOf, OccsOf
  <2>. QED  BY <2>1, <2>2, OpenStaysOnWithdraw
<1>4. ASSUME NEW s \in Schedules, Cancel(s)
      PROVE  OpenCommands'
  <2>1. \A o \in WaitingOf(s) : \A c \in open' : c.sched # o.sched
    BY <1>4 DEF Cancel, Definable, CommandLockFree, WaitingOf, OccsOf
  <2>. QED  BY <1>4, <2>1, OpenStaysOnWithdraw DEF Cancel
<1>5. ASSUME NEW o \in DOMAIN occ, NEW st \in AckStates, Acknowledge(o, st)
      PROVE  OpenCommands'
  <2>1. \A c \in open : c.sched # o.sched
    BY <1>5 DEF Acknowledge, CommandLockFree, TeamOfOcc
  <2>2. \A c \in open : \A p \in c.withdrawn : p \in DOMAIN occ /\ occ[p].status \in Waiting /\ p # o
    BY <2>1 DEF OpenCommands, WaitingOf, OccsOf
  <2>. QED  BY <1>5, <2>2, OpenStays DEF Acknowledge
<1>. QED  BY <1>1, <1>2, <1>3, <1>4, <1>5 DEF OwnerCommand

LEMMA InfrastructureOpen ==
    ASSUME OpenCommands, Infrastructure
    PROVE  OpenCommands'
<1>. DEFINE Kept == \A c \in open : \A o \in c.withdrawn : o \in DOMAIN occ /\ occ[o].status \in Waiting
<1>1. Kept
  BY DEF OpenCommands, WaitingOf, OccsOf
<1>2. ASSUME NEW e \in CalendarEvents, NEW at \in 0..MaxTime, NEW gone \in BOOLEAN,
             RecordCalendarEvent(e, at, gone)
      PROVE  OpenCommands'
  <2>. DEFINE W == UNION {WaitingOf(s) : s \in AnchoredTo(e)}
  <2>1. \A o \in W : \A c \in open' : c.sched # o.sched
    BY <1>2 DEF RecordCalendarEvent, RowFree, WaitingOf, OccsOf
  <2>2. occ' = Withdraw(W) /\ open' = open
    BY <1>2 DEF RecordCalendarEvent
  <2>. QED
    <3>. HIDE DEF W
    <3>. QED  BY <2>1, <2>2, OpenStaysOnWithdraw
<1>3. ASSUME NEW e \in LeagueEvents, NEW at \in 0..now, RecordLeagueEvent(e, at)
      PROVE  OpenCommands'
  BY <1>1, <1>3, OpenStays DEF RecordLeagueEvent
<1>4. ASSUME MaterializeDue
      PROVE  OpenCommands'
  <2>1. \A o \in DOMAIN occ : o \in DOMAIN occ' /\ occ'[o].status = occ[o].status
    BY <1>4 DEF MaterializeDue
  <2>2. open' = open
    BY <1>4 DEF MaterializeDue
  <2>. QED  BY <1>1, <2>1, <2>2, OpenStays
<1>5. ASSUME NEW o \in DOMAIN occ, NEW st \in AckStates, RecordExecution(o, st)
      PROVE  OpenCommands'
  <2>1. occ[o].status \notin Waiting
    BY <1>5 DEF RecordExecution, Running, Waiting
  <2>. QED  BY <1>1, <1>5, <2>1, OpenStays DEF RecordExecution
<1>6. ASSUME Tick
      PROVE  OpenCommands'
  BY <1>1, <1>6, OpenStays DEF Tick
<1>. QED  BY <1>2, <1>3, <1>4, <1>5, <1>6 DEF Infrastructure

LEMMA FailOccurrenceOpen ==
    ASSUME OpenCommands, NEW o \in DOMAIN occ, FailOccurrence(o)
    PROVE  OpenCommands'
<1>1. \A c \in open : c.sched # o.sched
  BY DEF FailOccurrence, CommandLockFree, TeamOfOcc
<1>2. \A c \in open : \A p \in c.withdrawn : p \in DOMAIN occ /\ occ[p].status \in Waiting /\ p # o
  BY <1>1 DEF OpenCommands, WaitingOf, OccsOf
<1>. QED  BY <1>2, OpenStays DEF FailOccurrence

-----------------------------------------------------------------------------
(* Transactions on the tables leave the dispatchers' knowledge valid.      *)

RowRecovered(r) == r.recovered => r.status = "failed" /\ ~r.started

LEMMA RowStepFacts ==
    ASSUME NEW r \in OccurrenceRows, NEW q, RowStep(r, q)
    PROVE  /\ q.status \in Running => r.status \in Running
           /\ q.status \in HandedOff => r.status \in HandedOff
           /\ r.status \in InDoubt => q = r
           /\ RowRecovered(r) => RowRecovered(q)
<1>. USE DEF OccurrenceRows, Waiting, HandedOff, InDoubt, Running, RowRecovered
<1>1. CASE q = r
  BY <1>1
<1>2. CASE r.status \in Waiting /\ q = [r EXCEPT !.status = "cancelled"]
  BY <1>2
<1>3. CASE r.status \in Waiting /\ q = [r EXCEPT !.missedThrough = now]
  BY <1>3
<1>4. ASSUME NEW st \in AckStates, r.status \in Running \/ (r.status = st /\ ~r.recovered),
             q = Executed(r, st)
      PROVE  /\ q.status \in Running => r.status \in Running
             /\ q.status \in HandedOff => r.status \in HandedOff
             /\ r.status \in InDoubt => q = r
             /\ RowRecovered(r) => RowRecovered(q)
  <2>1. q.status = st /\ q.recovered = FALSE
    BY <1>4 DEF Executed
  <2>. QED  BY <1>4, <2>1 DEF AckStates
<1>5. CASE /\ r.status \in Waiting \cup {"delivered"}
           /\ ~r.started
           /\ q = [r EXCEPT !.status = "failed", !.recovered = TRUE]
  BY <1>5
<1>. QED  BY <1>1, <1>2, <1>3, <1>4, <1>5 DEF RowStep

(* The same for all rows of a step; new rows are waiting. *)
LEMMA RowsStepFacts ==
    ASSUME StoreTypeOK, RowsStep, NEW o \in DOMAIN occ'
    PROVE  /\ occ'[o].status \in Running => o \in DOMAIN occ /\ occ[o].status \in Running
           /\ occ'[o].status \in HandedOff => o \in DOMAIN occ /\ occ[o].status \in HandedOff
           /\ o \in DOMAIN occ /\ occ[o].status \in InDoubt => occ'[o] = occ[o]
           /\ o \in DOMAIN occ /\ RowRecovered(occ[o]) => RowRecovered(occ'[o])
           /\ o \notin DOMAIN occ => RowRecovered(occ'[o])
<1>1. CASE o \in DOMAIN occ
  BY <1>1, RowStepFacts DEF StoreTypeOK, OccurrencesTyped, RowsStep
<1>2. CASE o \notin DOMAIN occ
  <2>1. occ'[o].status = "queued" /\ occ'[o].recovered = FALSE
    BY <1>2 DEF RowsStep, NewRow
  <2>. QED  BY <1>2, <2>1 DEF HandedOff, Running, InDoubt, RowRecovered
<1>. QED  BY <1>1, <1>2

LEMMA StoreKnows ==
    ASSUME StoreTypeOK, RowsStep, UNCHANGED <<pc, team, target>>,
           NEW d \in Dispatchers, Knows(d)
    PROVE  Knows(d)'
<1>1. DOMAIN occ \subseteq DOMAIN occ'
  BY DEF RowsStep
<1>2. \A o \in TeamOccs(team[d])' : o \in DOMAIN occ => o \in TeamOccs(team[d])
  BY DEF TeamOccs, TeamOfOcc
<1>3. ASSUME target[d] \in TeamOccs(team[d]), occ[target[d]].status \in InDoubt
      PROVE  occ'[target[d]] = occ[target[d]]
  BY <1>1, <1>3, RowsStepFacts DEF TeamOccs
<1>4. pc[d] \in {"reconcile", "inspect", "claim", "send", "sent"} =>
         target[d] \in TeamOccs(team[d]) /\ (target[d] \in TeamOccs(team[d]))'
  BY <1>1 DEF Knows, TeamOccs, TeamOfOcc
<1>5. pc[d] \in {"select", "reconcile", "inspect", "claim"} =>
         \A o \in TeamOccs(team[d])' : occ'[o].status \notin Running
  BY <1>2, RowsStepFacts DEF Knows, TeamOccs
<1>6. pc[d] \in {"inspect", "claim"} =>
         \A o \in TeamOccs(team[d])' : occ'[o].status \notin HandedOff
  BY <1>2, RowsStepFacts DEF Knows, TeamOccs
<1>7. pc[d] = "reconcile" => occ'[target[d]].status \in InDoubt
  BY <1>3, <1>4 DEF Knows
<1>8. pc[d] \in {"send", "sent"} =>
         occ'[target[d]].status = "sending" /\ occ'[target[d]].lane \in {0, 1}
  BY <1>3, <1>4 DEF Knows, InDoubt
<1>. QED  BY <1>4, <1>5, <1>6, <1>7, <1>8 DEF Knows

LEMMA StoreCoordination ==
    ASSUME StoreTypeOK, Coordination, OneHandedOff, RecoveredRows,
           OwnerCommand \/ Infrastructure \/ \E o \in DOMAIN occ : FailOccurrence(o),
           UNCHANGED <<dispatcherVars, transportVars, faults>>
    PROVE  Coordination' /\ OneHandedOff' /\ RecoveredRows'
<1>1. RowsStep
  BY StoreRows DEF Coordination
<1>2. OpenCommands'
  BY OwnerCommandOpen, InfrastructureOpen, FailOccurrenceOpen DEF Coordination
<1>3. \A d \in Dispatchers : Knows(d)'
  BY <1>1, StoreKnows DEF Coordination, dispatcherVars
<1>4. \A d \in Dispatchers : LaneHeld(d)'
  BY DEF Coordination, LaneHeld, dispatcherVars
<1>5. OneHandedOff'
  BY <1>1, RowsStepFacts DEF OneHandedOff, TeamOfOcc
<1>6. RecoveredRows'
  BY <1>1, RowsStepFacts DEF RecoveredRows, RowRecovered
<1>. QED  BY <1>2, <1>3, <1>4, <1>5, <1>6 DEF Coordination

-----------------------------------------------------------------------------
(* Steps of a dispatcher.                                                  *)

(* What a step of d leaves alone: the other dispatchers, the lanes they    *)
(* hold, and every row but those of the franchise d holds.                 *)
Local(d) ==
    /\ \A e \in Dispatchers \ {d} :
          pc'[e] = pc[e] /\ team'[e] = team[e] /\ target'[e] = target[e]
    /\ \A t \in Teams : lane7047[t] \notin {d, Nobody} => lane7047'[t] = lane7047[t]
    /\ DOMAIN occ' = DOMAIN occ
    /\ \A o \in DOMAIN occ : occ'[o] # occ[o] => pc[d] \in Holding /\ TeamOfOcc(o) = team[d]

(* The lane lock makes the others' knowledge stable. *)
LEMMA OthersUndisturbed ==
    ASSUME Coordination, NEW d \in Dispatchers, NEW e \in Dispatchers \ {d}, Local(d)
    PROVE  LaneHeld(e)' /\ Knows(e)'
<1>1. pc'[e] = pc[e] /\ team'[e] = team[e] /\ target'[e] = target[e]
  BY DEF Local
<1>2. LaneHeld(d) /\ LaneHeld(e) /\ Knows(e)
  BY DEF Coordination
<1>3. LaneHeld(e)'
  BY <1>1, <1>2, DispatchersAssumption DEF LaneHeld, Local
<1>4. pc[e] \in Holding => \A o \in DOMAIN occ : TeamOfOcc(o) = team[e] => occ'[o] = occ[o]
  BY <1>2 DEF LaneHeld, Local
<1>5. TeamOccs(team[e])' = TeamOccs(team[e])
  BY <1>1 DEF Local, TeamOccs, TeamOfOcc
<1>6. Knows(e)'
  <2>1. pc[e] \in Holding => \A o \in TeamOccs(team[e]) : occ'[o] = occ[o]
    BY <1>4 DEF TeamOccs
  <2>. QED  BY <1>1, <1>2, <1>5, <2>1 DEF Knows, Holding
<1>. QED  BY <1>3, <1>6

(* Hence a step of d keeps the coordination if it keeps its own part.      *)
LEMMA LocalCoordination ==
    ASSUME Coordination, NEW d \in Dispatchers, Local(d), LaneHeld(d)', Knows(d)',
           OpenCommands'
    PROVE  Coordination'
BY OthersUndisturbed DEF Coordination

(* A dispatcher that has let go knows nothing and holds nothing. *)
LEMMA Released ==
    ASSUME NEW d \in Dispatchers, pc'[d] \in {"idle", "visit"}
    PROVE  LaneHeld(d)' /\ Knows(d)'
BY DEF LaneHeld, Knows, Holding

(* One row of the held franchise is rewritten. *)
LEMMA OneRowChanged ==
    ASSUME NEW o \in DOMAIN occ, NEW q, occ' = [occ EXCEPT ![o] = q]
    PROVE  /\ DOMAIN occ' = DOMAIN occ
           /\ occ'[o] = q
           /\ \A p \in DOMAIN occ : p # o => occ'[p] = occ[p]
OBVIOUS

LEMMA OneRowKeeps ==
    ASSUME OneHandedOff, RecoveredRows, NEW o \in DOMAIN occ, NEW q,
           occ' = [occ EXCEPT ![o] = q],
           q.recovered = occ[o].recovered, occ[o].status # "failed",
           \/ occ[o].status \in HandedOff
           \/ q.status \notin HandedOff
           \/ \A p \in TeamOccs(TeamOfOcc(o)) : occ[p].status \notin HandedOff
    PROVE  OneHandedOff' /\ RecoveredRows'
<1>1. /\ DOMAIN occ' = DOMAIN occ
      /\ occ'[o] = q
      /\ \A p \in DOMAIN occ : p # o => occ'[p] = occ[p]
  BY OneRowChanged
<1>2. OneHandedOff'
  BY <1>1 DEF OneHandedOff, TeamOccs, TeamOfOcc
<1>3. RecoveredRows'
  BY <1>1 DEF RecoveredRows
<1>. QED  BY <1>2, <1>3

(* Waiting rows that open commands will withdraw are not touched when the  *)
(* changed row was not waiting, stays waiting, or is guarded by 7045.      *)
LEMMA OneRowOpen ==
    ASSUME OpenCommands, UNCHANGED open, NEW o \in DOMAIN occ, NEW q,
           occ' = [occ EXCEPT ![o] = q],
           \/ occ[o].status \notin Waiting
           \/ q.status \in Waiting
           \/ CommandLockFree(TeamOfOcc(o))
    PROVE  OpenCommands'
<1>1. /\ DOMAIN occ' = DOMAIN occ
      /\ occ'[o] = q
      /\ \A p \in DOMAIN occ : p # o => occ'[p] = occ[p]
  BY OneRowChanged
<1>2. ASSUME NEW c \in open, NEW p \in c.withdrawn
      PROVE  p \in DOMAIN occ' /\ occ'[p].status \in Waiting
  <2>1. p \in DOMAIN occ /\ p.sched = c.sched /\ occ[p].status \in Waiting
    BY DEF OpenCommands, WaitingOf, OccsOf
  <2>. QED  BY <1>1, <2>1 DEF CommandLockFree, TeamOfOcc
<1>. QED  BY <1>2, OpenStays

(* continue and return: the lane is released, nothing else changes hands.  *)
LEMMA EndsTurn ==
    ASSUME DispatchersTyped, Coordination, NEW d \in Dispatchers, pc[d] \in Holding,
           NextCandidate(d) \/ Finish(d), DOMAIN occ' = DOMAIN occ,
           \A o \in DOMAIN occ : occ'[o] # occ[o] => TeamOfOcc(o) = team[d]
    PROVE  Local(d) /\ LaneHeld(d)' /\ Knows(d)' /\ DispatchersTyped'
<1>. USE DEF NextCandidate, Finish, LetGo, Unlock, Goto
<1>1. team[d] \in Teams /\ lane7047[team[d]] = d
  BY DEF Coordination, LaneHeld
<1>2. Local(d)
  BY <1>1 DEF Local, DispatchersTyped
<1>3. pc'[d] \in {"idle", "visit"}
  BY DEF DispatchersTyped
<1>4. LaneHeld(d)' /\ Knows(d)'
  BY <1>3, Released
<1>5. DispatchersTyped'
  BY <1>1 DEF DispatchersTyped, PcStates, Holding
<1>. QED  BY <1>2, <1>4, <1>5

(* A step that goes on with the franchise it holds.                        *)
LEMMA GoesOn ==
    ASSUME DispatchersTyped, Coordination, NEW d \in Dispatchers, pc[d] \in Holding,
           NEW where \in Holding, Goto(d, where), UNCHANGED <<team, target, todo, lane7047>>,
           DOMAIN occ' = DOMAIN occ,
           \A o \in DOMAIN occ : occ'[o] # occ[o] => TeamOfOcc(o) = team[d]
    PROVE  Local(d) /\ LaneHeld(d)' /\ DispatchersTyped' /\ pc'[d] = where
<1>1. pc'[d] = where
  BY DEF DispatchersTyped, Goto
<1>2. Local(d)
  BY DEF Local, DispatchersTyped, Goto
<1>3. LaneHeld(d)'
  BY DEF Coordination, LaneHeld
<1>4. DispatchersTyped'
  BY DEF DispatchersTyped, PcStates, Goto
<1>. QED  BY <1>1, <1>2, <1>3, <1>4

(* Steps of a dispatcher keep the tables typed if the rows they write are. *)
LEMMA DispatchStoreType ==
    ASSUME StoreTypeOK, UNCHANGED <<now, sched, events, open>>, DOMAIN occ' = DOMAIN occ,
           \A o \in DOMAIN occ : occ'[o] = occ[o] \/ occ'[o] \in OccurrenceRows
    PROVE  StoreTypeOK'
BY DEF StoreTypeOK, SchedulesTyped, OccurrencesTyped, EventsTyped, AnchorsKnown, OpenTyped

(* Messages keep their types while the occurrences they name exist. *)
LEMMA SameMessages ==
    ASSUME MessagesTyped, UNCHANGED transportVars, DOMAIN occ \subseteq DOMAIN occ'
    PROVE  MessagesTyped'
<1>1. Message \subseteq Message'
  BY DEF Message
<1>2. \A s \in Seq(Message) : s \in Seq(Message')
  BY <1>1, SeqMonotonic
<1>. QED  BY <1>1, <1>2 DEF MessagesTyped, transportVars

(* An occurrence's franchise is one of the league's. *)
LEMMA TeamOfOccType ==
    ASSUME StoreTypeOK
    PROVE  \A o \in DOMAIN occ : TeamOfOcc(o) \in Teams
BY TeamOfAssumption DEF StoreTypeOK, OccurrencesTyped, OccurrenceIds, TeamOfOcc

(* A step of d that writes no row. *)
LEMMA ReadOnlyStep ==
    ASSUME IInv, NEW d \in Dispatchers, UNCHANGED <<storeVars, transportVars, stamps>>,
           faults' \in Nat, Local(d), LaneHeld(d)', Knows(d)', DispatchersTyped'
    PROVE  IInv'
<1>. USE DEF IInv, TypeOK, storeVars
<1>1. StoreTypeOK'
  BY DispatchStoreType
<1>2. MessagesTyped'
  BY SameMessages DEF DispatchTypeOK
<1>3. OpenCommands'
  BY DEF Coordination, OpenCommands, WaitingOf, OccsOf
<1>4. OneHandedOff' /\ RecoveredRows'
  BY DEF OneHandedOff, RecoveredRows
<1>5. Coordination'
  BY <1>3, LocalCoordination
<1>. QED  BY <1>1, <1>2, <1>4, <1>5 DEF DispatchTypeOK

(* A step of d that writes one row. *)
LEMMA WriteStep ==
    ASSUME IInv, NEW d \in Dispatchers, UNCHANGED <<now, sched, events, open, transportVars>>,
           stamps' \in [Teams -> Nat], faults' \in Nat,
           NEW o \in DOMAIN occ, NEW q \in OccurrenceRows, occ' = [occ EXCEPT ![o] = q],
           q.recovered = occ[o].recovered, occ[o].status # "failed",
           \/ occ[o].status \in HandedOff
           \/ q.status \notin HandedOff
           \/ \A p \in TeamOccs(TeamOfOcc(o)) : occ[p].status \notin HandedOff,
           \/ occ[o].status \notin Waiting
           \/ q.status \in Waiting
           \/ CommandLockFree(TeamOfOcc(o)),
           Local(d), LaneHeld(d)', Knows(d)', DispatchersTyped'
    PROVE  IInv'
<1>1. /\ DOMAIN occ' = DOMAIN occ
      /\ occ'[o] = q
      /\ \A p \in DOMAIN occ : p # o => occ'[p] = occ[p]
  BY OneRowChanged
<1>2. StoreTypeOK'
  BY <1>1, DispatchStoreType DEF IInv, TypeOK
<1>3. MessagesTyped'
  BY <1>1, SameMessages DEF IInv, TypeOK, DispatchTypeOK
<1>4. OpenCommands'
  BY OneRowOpen DEF IInv, Coordination
<1>5. OneHandedOff' /\ RecoveredRows'
  BY OneRowKeeps DEF IInv
<1>6. Coordination'
  BY <1>4, LocalCoordination DEF IInv
<1>. QED  BY <1>2, <1>3, <1>5, <1>6 DEF IInv, TypeOK, DispatchTypeOK

LEMMA ListStep ==
    ASSUME IInv, NEW d \in Dispatchers, List(d)
    PROVE  IInv'
<1>1. \A o \in DOMAIN occ : TeamOfOcc(o) \in Teams
  BY TeamOfOccType DEF IInv, TypeOK
<1>2. DispatchersTyped' /\ pc'[d] = "visit"
  BY <1>1 DEF IInv, TypeOK, DispatchTypeOK, DispatchersTyped, List, Goto, Candidates, PcStates, storeVars
<1>3. Local(d)
  BY DEF List, Local, Goto, storeVars, IInv, TypeOK, DispatchTypeOK, DispatchersTyped
<1>4. LaneHeld(d)' /\ Knows(d)'
  BY <1>2, Released
<1>. QED  BY <1>2, <1>3, <1>4, ReadOnlyStep
          DEF List, IInv, TypeOK, DispatchTypeOK

LEMMA VisitStep ==
    ASSUME IInv, NEW d \in Dispatchers, Visit(d)
    PROVE  IInv'
<1>. USE DEF IInv, TypeOK, DispatchTypeOK
<1>1. PICK t \in todo[d] :
          /\ todo' = [todo EXCEPT ![d] = @ \ {t}]
          /\ IF LaneFree(t)
             THEN /\ Goto(d, "locked")
                  /\ team' = [team EXCEPT ![d] = t]
                  /\ lane7047' = [lane7047 EXCEPT ![t] = d]
             ELSE UNCHANGED <<pc, team, lane7047>>
  BY DEF Visit
<1>2. t \in Teams
  BY DEF DispatchersTyped
<1>3. UNCHANGED <<stamps, storeVars, target, transportVars, faults>> /\ pc[d] = "visit"
  BY DEF Visit
<1>4. DispatchersTyped'
  BY <1>1, <1>2, <1>3 DEF DispatchersTyped, Goto, PcStates, Holding, storeVars
<1>5. Local(d)
  BY <1>1, <1>2, <1>3 DEF DispatchersTyped, Goto, Local, LaneFree, storeVars
<1>6. LaneHeld(d)' /\ Knows(d)'
  <2>1. CASE LaneFree(t)
    <3>1. pc'[d] = "locked" /\ team'[d] = t /\ lane7047'[t] = d
      BY <1>1, <1>2, <2>1 DEF DispatchersTyped, Goto
    <3>. QED  BY <1>2, <3>1 DEF LaneHeld, Knows
  <2>2. CASE ~LaneFree(t)
    <3>1. pc'[d] = "visit"
      BY <1>1, <1>3, <2>2
    <3>. QED  BY <3>1, Released
  <2>. QED  BY <2>1, <2>2
<1>. QED  BY <1>3, <1>4, <1>5, <1>6, ReadOnlyStep

LEMMA ExhaustedStep ==
    ASSUME IInv, NEW d \in Dispatchers, Exhausted(d)
    PROVE  IInv'
<1>. USE DEF IInv, TypeOK, DispatchTypeOK
<1>1. DispatchersTyped' /\ pc'[d] = "idle"
  BY DEF DispatchersTyped, Exhausted, Goto, PcStates, storeVars
<1>2. Local(d)
  BY DEF Exhausted, Local, Goto, storeVars, DispatchersTyped
<1>3. LaneHeld(d)' /\ Knows(d)'
  BY <1>1, Released
<1>. QED  BY <1>1, <1>2, <1>3, ReadOnlyStep DEF Exhausted

LEMMA CheckOutstandingStep ==
    ASSUME IInv, NEW d \in Dispatchers, CheckOutstanding(d)
    PROVE  IInv'
<1>. USE DEF IInv, TypeOK, DispatchTypeOK
<1>1. pc[d] \in Holding /\ UNCHANGED <<stamps, storeVars, transportVars, faults>>
  BY DEF CheckOutstanding, Holding
<1>2. CASE Outstanding(team[d])
  BY <1>1, <1>2, EndsTurn, ReadOnlyStep DEF CheckOutstanding, storeVars
<1>3. CASE ~Outstanding(team[d])
  <2>1. Goto(d, "select") /\ UNCHANGED <<team, target, todo, lane7047>>
    BY <1>3 DEF CheckOutstanding
  <2>2. Local(d) /\ LaneHeld(d)' /\ DispatchersTyped' /\ pc'[d] = "select"
    BY <1>1, <2>1, GoesOn DEF Holding, storeVars
  <2>3. Knows(d)'
    BY <1>1, <1>3, <2>1, <2>2 DEF Knows, Outstanding, TeamOccs, storeVars
  <2>. QED  BY <1>1, <2>2, <2>3, ReadOnlyStep
<1>. QED  BY <1>2, <1>3

LEMMA SelectStep ==
    ASSUME IInv, NEW d \in Dispatchers, Select(d)
    PROVE  IInv'
<1>. USE DEF IInv, TypeOK, DispatchTypeOK
<1>1. pc[d] = "select" /\ pc[d] \in Holding /\ UNCHANGED <<stamps, storeVars, transportVars, faults>>
  BY DEF Select, Holding
<1>2. CASE Firsts(team[d]) = {}
  BY <1>1, <1>2, EndsTurn, ReadOnlyStep DEF Select, storeVars
<1>3. CASE Firsts(team[d]) # {}
  <2>0. FirstOf(team[d]) \in Firsts(team[d])
    BY <1>3 DEF FirstOf
  <2>1. PICK o \in Eligible(team[d]) :
            /\ \A p \in Eligible(team[d]) : Before(o, p)
            /\ target' = [target EXCEPT ![d] = o]
            /\ Goto(d, IF occ[o].status \in InDoubt THEN "reconcile" ELSE "inspect")
            /\ UNCHANGED <<team, todo, lane7047>>
    BY <1>3, <2>0 DEF Select, Firsts
  <2>2. o \in TeamOccs(team[d]) /\ o \in DOMAIN occ
    BY DEF Eligible, TeamOccs
  <2>3. /\ target'[d] = o /\ team' = team /\ occ' = occ
        /\ pc'[d] = IF occ[o].status \in InDoubt THEN "reconcile" ELSE "inspect"
    BY <1>1, <2>1 DEF DispatchersTyped, Goto, storeVars
  <2>4. DispatchersTyped'
    BY <1>1, <2>1, <2>2 DEF DispatchersTyped, Goto, PcStates, Holding, storeVars
  <2>5. Local(d)
    BY <1>1, <2>1 DEF DispatchersTyped, Goto, Local, storeVars
  <2>6. LaneHeld(d)'
    BY <1>1, <2>1 DEF Coordination, LaneHeld
  <2>7. \A p \in TeamOccs(team[d]) : occ[p].status \notin Running
    BY <1>1 DEF Coordination, Knows
  <2>8. occ[o].status \notin InDoubt => \A p \in TeamOccs(team[d]) : occ[p].status \notin HandedOff
    <3>1. \A p \in TeamOccs(team[d]) : occ[p].status \in InDoubt => p \in Eligible(team[d])
      BY DEF Eligible
    <3>2. \A p \in Eligible(team[d]) : occ[p].status \in InDoubt => occ[o].status \in InDoubt
      BY <2>1 DEF Before, Waiting, InDoubt
    <3>. QED  BY <2>7, <3>1, <3>2 DEF HandedOff
  <2>9. (TeamOccs(team[d]))' = TeamOccs(team[d])
    BY <2>3 DEF TeamOccs, TeamOfOcc
  <2>10. Knows(d)'
    BY <2>2, <2>3, <2>7, <2>8, <2>9 DEF Knows
  <2>. QED  BY <1>1, <2>4, <2>5, <2>6, <2>10, ReadOnlyStep
<1>. QED  BY <1>2, <1>3

LEMMA InspectReadyStep ==
    ASSUME IInv, NEW d \in Dispatchers, InspectReady(d)
    PROVE  IInv'
<1>. USE DEF IInv, TypeOK, DispatchTypeOK
<1>1. /\ pc[d] = "inspect" /\ pc[d] \in Holding
      /\ UNCHANGED <<stamps, storeVars, team, target, todo, lane7047, transportVars, faults>>
      /\ Goto(d, "claim")
  BY DEF InspectReady, Holding
<1>2. Local(d) /\ LaneHeld(d)' /\ DispatchersTyped' /\ pc'[d] = "claim"
  BY <1>1, GoesOn DEF Holding, storeVars
<1>3. Knows(d)
  BY DEF Coordination
<1>4. Knows(d)'
  BY <1>1, <1>2, <1>3 DEF Knows, TeamOccs, TeamOfOcc, storeVars
<1>. QED  BY <1>1, <1>2, <1>4, ReadOnlyStep

(* What a dispatcher with a target knows of it. *)
LEMMA TargetKnown ==
    ASSUME IInv, NEW d \in Dispatchers,
           pc[d] \in {"reconcile", "inspect", "claim", "send", "sent"}
    PROVE  /\ target[d] \in DOMAIN occ /\ TeamOfOcc(target[d]) = team[d]
           /\ occ[target[d]] \in OccurrenceRows
           /\ team[d] \in Teams /\ pc[d] \in Holding
           /\ inbox[team[d]] \in Seq(Message) /\ stamps[team[d]] \in Nat
           /\ pc[d] = "reconcile" => occ[target[d]].status \in InDoubt
           /\ pc[d] \in {"inspect", "claim"} =>
                 \A p \in TeamOccs(team[d]) : occ[p].status \notin HandedOff
           /\ pc[d] \in {"send", "sent"} =>
                 occ[target[d]].status = "sending" /\ occ[target[d]].lane \in {0, 1}
<1>. USE DEF IInv, TypeOK, DispatchTypeOK
<1>1. Knows(d) /\ LaneHeld(d) /\ pc[d] \in Holding
  BY DEF Coordination, Holding
<1>2. target[d] \in DOMAIN occ /\ TeamOfOcc(target[d]) = team[d]
  BY <1>1 DEF Knows, TeamOccs
<1>3. occ[target[d]] \in OccurrenceRows
  BY <1>2 DEF StoreTypeOK, OccurrencesTyped
<1>4. team[d] \in Teams
  BY <1>1 DEF LaneHeld
<1>. QED  BY <1>1, <1>2, <1>3, <1>4 DEF Knows, MessagesTyped

(* A step that writes the target's row and lets the franchise go. *)
LEMMA WriteAndEnd ==
    ASSUME IInv, NEW d \in Dispatchers, UNCHANGED <<now, sched, events, open, transportVars>>,
           pc[d] \in {"reconcile", "inspect", "claim", "send", "sent"},
           NextCandidate(d) \/ Finish(d),
           stamps' \in [Teams -> Nat], faults' \in Nat,
           NEW q \in OccurrenceRows, occ' = [occ EXCEPT ![target[d]] = q],
           q.recovered = occ[target[d]].recovered, occ[target[d]].status # "failed",
           occ[target[d]].status \in HandedOff \/ q.status \notin HandedOff,
           occ[target[d]].status \notin Waiting \/ q.status \in Waiting
    PROVE  IInv'
<1>. DEFINE o == target[d]
<1>1. o \in DOMAIN occ /\ TeamOfOcc(o) = team[d] /\ pc[d] \in Holding
  BY TargetKnown
<1>2. /\ DOMAIN occ' = DOMAIN occ
      /\ \A p \in DOMAIN occ : p # o => occ'[p] = occ[p]
  BY <1>1, OneRowChanged
<1>3. Local(d) /\ LaneHeld(d)' /\ Knows(d)' /\ DispatchersTyped'
  BY <1>1, <1>2, EndsTurn DEF IInv, TypeOK, DispatchTypeOK
<1>. QED
  <2>. HIDE DEF o
  <2>. QED  BY <1>1, <1>3, WriteStep DEF o

(* Marking the target delivered: a typed row and a typed count. *)
LEMMA DeliveredRow ==
    ASSUME IInv, NEW d \in Dispatchers, pc[d] \in {"reconcile", "sent"},
           NEW n \in FoundIn(target[d], LaneOf(target[d])), Delivered(target[d], n)
    PROVE  /\ stamps' \in [Teams -> Nat]
           /\ \E q \in OccurrenceRows :
                 /\ occ' = [occ EXCEPT ![target[d]] = q]
                 /\ q.recovered = occ[target[d]].recovered
<1>. DEFINE o == target[d]
            q == [occ[o] EXCEPT !.status = "delivered", !.event = n,
                                !.deliveredAt = stamps[TeamOfOcc(o)] + 1]
<1>1. /\ occ[o] \in OccurrenceRows /\ TeamOfOcc(o) = team[d] /\ team[d] \in Teams
      /\ inbox[team[d]] \in Seq(Message) /\ stamps[team[d]] \in Nat
  BY TargetKnown
<1>2. n \in Nat
  BY <1>1 DEF FoundIn, PostsOf
<1>3. stamps[TeamOfOcc(o)] + 1 \in Nat
  BY <1>1
<1>4. q \in OccurrenceRows /\ q.recovered = occ[o].recovered
  BY <1>1, <1>2, <1>3 DEF OccurrenceRows, HandedOff, Running
<1>5. occ' = [occ EXCEPT ![o] = q]
  BY DEF Delivered, SetRow
<1>6. stamps' \in [Teams -> Nat]
  BY <1>1, <1>3 DEF Delivered, IInv, TypeOK, DispatchTypeOK
<1>. QED  BY <1>4, <1>5, <1>6

LEMMA ReconcileFoundStep ==
    ASSUME IInv, NEW d \in Dispatchers, ReconcileFound(d)
    PROVE  IInv'
<1>1. /\ pc[d] = "reconcile" /\ Finish(d)
      /\ UNCHANGED <<now, sched, events, open, transportVars, faults>>
  BY DEF ReconcileFound
<1>2. PICK n \in FoundIn(target[d], LaneOf(target[d])) : Delivered(target[d], n)
  BY DEF ReconcileFound
<1>3. PICK q \in OccurrenceRows : /\ occ' = [occ EXCEPT ![target[d]] = q]
                                 /\ q.recovered = occ[target[d]].recovered
  BY <1>1, <1>2, DeliveredRow
<1>4. stamps' \in [Teams -> Nat] /\ faults' \in Nat
  BY <1>1, <1>2, DeliveredRow DEF IInv, TypeOK, DispatchTypeOK
<1>5. occ[target[d]].status \in InDoubt
  BY <1>1, TargetKnown
<1>6. /\ occ[target[d]].status \in HandedOff /\ occ[target[d]].status # "failed"
      /\ occ[target[d]].status \notin Waiting
  BY <1>5 DEF HandedOff, InDoubt, Waiting
<1>. QED  BY <1>1, <1>3, <1>4, <1>6, WriteAndEnd

LEMMA ReceiptStep ==
    ASSUME IInv, NEW d \in Dispatchers, Receipt(d)
    PROVE  IInv'
<1>1. /\ pc[d] = "sent" /\ Finish(d)
      /\ UNCHANGED <<now, sched, events, open, transportVars, faults>>
  BY DEF Receipt
<1>2. PICK n \in FoundIn(target[d], LaneOf(target[d])) : Delivered(target[d], n)
  BY DEF Receipt
<1>3. PICK q \in OccurrenceRows : /\ occ' = [occ EXCEPT ![target[d]] = q]
                                 /\ q.recovered = occ[target[d]].recovered
  BY <1>1, <1>2, DeliveredRow
<1>4. stamps' \in [Teams -> Nat] /\ faults' \in Nat
  BY <1>1, <1>2, DeliveredRow DEF IInv, TypeOK, DispatchTypeOK
<1>5. occ[target[d]].status = "sending"
  BY <1>1, TargetKnown
<1>6. /\ occ[target[d]].status \in HandedOff /\ occ[target[d]].status # "failed"
      /\ occ[target[d]].status \notin Waiting
  BY <1>5 DEF HandedOff, InDoubt, Waiting
<1>. QED  BY <1>1, <1>3, <1>4, <1>6, WriteAndEnd

(* Setting the status of a typed row. *)
LEMMA StatusRow ==
    ASSUME NEW r \in OccurrenceRows, NEW st \in Waiting \cup HandedOff
    PROVE  /\ [r EXCEPT !.status = st] \in OccurrenceRows
           /\ [r EXCEPT !.status = st].status = st
           /\ [r EXCEPT !.status = st].recovered = r.recovered
BY DEF OccurrenceRows

LEMMA FaultType ==
    ASSUME faults \in Nat, Fault \/ UNCHANGED faults
    PROVE  faults' \in Nat
BY DEF Fault

LEMMA ReconcileUnknownStep ==
    ASSUME IInv, NEW d \in Dispatchers, ReconcileUnknown(d)
    PROVE  IInv'
<1>. DEFINE q == [occ[target[d]] EXCEPT !.status = "uncertain"]
<1>1. /\ pc[d] = "reconcile" /\ NextCandidate(d) /\ occ' = [occ EXCEPT ![target[d]] = q]
      /\ UNCHANGED <<stamps, now, sched, events, open, transportVars>>
  BY DEF ReconcileUnknown, SetRow
<1>2. stamps' \in [Teams -> Nat] /\ faults' \in Nat
  BY <1>1, FaultType DEF ReconcileUnknown, IInv, TypeOK, DispatchTypeOK
<1>3. occ[target[d]] \in OccurrenceRows /\ occ[target[d]].status \in InDoubt
  BY <1>1, TargetKnown
<1>4. q \in OccurrenceRows /\ q.recovered = occ[target[d]].recovered
  BY <1>3, StatusRow DEF HandedOff, InDoubt
<1>5. /\ occ[target[d]].status \in HandedOff /\ occ[target[d]].status # "failed"
      /\ occ[target[d]].status \notin Waiting
  BY <1>3 DEF HandedOff, InDoubt, Waiting
<1>. QED
  <2>. HIDE DEF q
  <2>. QED  BY <1>1, <1>2, <1>4, <1>5, WriteAndEnd

LEMMA NoReceiptStep ==
    ASSUME IInv, NEW d \in Dispatchers, NoReceipt(d)
    PROVE  IInv'
<1>. DEFINE q == [occ[target[d]] EXCEPT !.status = "uncertain"]
<1>1. /\ pc[d] = "sent" /\ Finish(d) /\ occ' = [occ EXCEPT ![target[d]] = q]
      /\ UNCHANGED <<stamps, now, sched, events, open, transportVars>>
  BY DEF NoReceipt, SetRow, NoReceiptStatus
<1>2. stamps' \in [Teams -> Nat] /\ faults' \in Nat
  BY <1>1, FaultType DEF NoReceipt, IInv, TypeOK, DispatchTypeOK
<1>3. occ[target[d]] \in OccurrenceRows /\ occ[target[d]].status = "sending"
  BY <1>1, TargetKnown
<1>4. q \in OccurrenceRows /\ q.recovered = occ[target[d]].recovered
  BY <1>3, StatusRow DEF HandedOff, InDoubt
<1>5. /\ occ[target[d]].status \in HandedOff /\ occ[target[d]].status # "failed"
      /\ occ[target[d]].status \notin Waiting
  BY <1>3 DEF HandedOff, InDoubt, Waiting
<1>. QED
  <2>. HIDE DEF q
  <2>. QED  BY <1>1, <1>2, <1>4, <1>5, WriteAndEnd

LEMMA InspectNotReadyStep ==
    ASSUME IInv, NEW d \in Dispatchers, NEW st \in Waiting, InspectNotReady(d, st)
    PROVE  IInv'
<1>. DEFINE q == [occ[target[d]] EXCEPT !.status = st]
<1>1. /\ pc[d] = "inspect" /\ NextCandidate(d) /\ Fault
      /\ UNCHANGED <<stamps, now, sched, events, open, transportVars>>
  BY DEF InspectNotReady
<1>2. stamps' \in [Teams -> Nat] /\ faults' \in Nat
  BY <1>1, FaultType DEF IInv, TypeOK, DispatchTypeOK
<1>3. occ[target[d]] \in OccurrenceRows
  BY <1>1, TargetKnown
<1>4. CASE occ[target[d]].status \in Waiting
  <2>1. occ' = [occ EXCEPT ![target[d]] = q]
    BY <1>4 DEF InspectNotReady, SetRow
  <2>2. /\ q \in OccurrenceRows /\ q.recovered = occ[target[d]].recovered
        /\ q.status \in Waiting /\ q.status \notin HandedOff
    BY <1>3, StatusRow DEF Waiting, HandedOff, InDoubt, Running
  <2>3. occ[target[d]].status # "failed"
    BY <1>4 DEF Waiting
  <2>. QED
    <3>. HIDE DEF q
    <3>. QED  BY <1>1, <1>2, <2>1, <2>2, <2>3, WriteAndEnd
<1>5. CASE occ[target[d]].status \notin Waiting
  <2>1. UNCHANGED occ
    BY <1>5 DEF InspectNotReady
  <2>2. Local(d) /\ LaneHeld(d)' /\ Knows(d)' /\ DispatchersTyped'
    BY <1>1, <2>1, EndsTurn DEF IInv, TypeOK, DispatchTypeOK, Holding
  <2>. QED  BY <1>1, <1>2, <2>1, <2>2, ReadOnlyStep DEF storeVars
<1>. QED  BY <1>4, <1>5

(* A step that writes the target's row and goes on. *)
LEMMA WriteAndGoOn ==
    ASSUME IInv, NEW d \in Dispatchers, UNCHANGED <<now, sched, events, open, transportVars, stamps, faults>>,
           pc[d] \in {"reconcile", "inspect", "claim", "send", "sent"},
           NEW where \in Holding, Goto(d, where), UNCHANGED <<team, target, todo, lane7047>>,
           NEW q \in OccurrenceRows, occ' = [occ EXCEPT ![target[d]] = q],
           q.recovered = occ[target[d]].recovered, occ[target[d]].status # "failed",
           \/ occ[target[d]].status \in HandedOff
           \/ q.status \notin HandedOff
           \/ \A p \in TeamOccs(team[d]) : occ[p].status \notin HandedOff,
           \/ occ[target[d]].status \notin Waiting
           \/ q.status \in Waiting
           \/ CommandLockFree(team[d]),
           Knows(d)'
    PROVE  IInv'
<1>. DEFINE o == target[d]
<1>1. o \in DOMAIN occ /\ TeamOfOcc(o) = team[d] /\ pc[d] \in Holding
  BY TargetKnown
<1>2. /\ DOMAIN occ' = DOMAIN occ
      /\ \A p \in DOMAIN occ : p # o => occ'[p] = occ[p]
  BY <1>1, OneRowChanged
<1>3. Local(d) /\ LaneHeld(d)' /\ DispatchersTyped'
  BY <1>1, <1>2, GoesOn DEF IInv, TypeOK, DispatchTypeOK
<1>4. stamps' \in [Teams -> Nat] /\ faults' \in Nat
  BY DEF IInv, TypeOK, DispatchTypeOK
<1>. QED
  <2>. HIDE DEF o
  <2>. QED  BY <1>1, <1>3, <1>4, WriteStep DEF o

LEMMA ReconcileAbsentStep ==
    ASSUME IInv, NEW d \in Dispatchers, ReconcileAbsent(d)
    PROVE  IInv'
<1>. DEFINE o == target[d]
            q == [occ[o] EXCEPT !.status = "queued"]
<1>1. /\ pc[d] = "reconcile" /\ Goto(d, "inspect") /\ occ' = [occ EXCEPT ![o] = q]
      /\ UNCHANGED <<now, sched, events, open, transportVars, stamps, faults>>
      /\ UNCHANGED <<team, target, todo, lane7047>>
  BY DEF ReconcileAbsent, SetRow
<1>2. /\ occ[o] \in OccurrenceRows /\ occ[o].status \in InDoubt /\ o \in DOMAIN occ
      /\ TeamOfOcc(o) = team[d]
  BY <1>1, TargetKnown
<1>3. /\ q \in OccurrenceRows /\ q.recovered = occ[o].recovered
      /\ q.status = "queued" /\ q.status \notin HandedOff
  <2>1. "queued" \in Waiting /\ "queued" \notin HandedOff
    BY DEF Waiting, HandedOff, InDoubt, Running
  <2>. QED  BY <1>2, <2>1, StatusRow
<1>4. /\ occ[o].status \in HandedOff /\ occ[o].status # "failed" /\ occ[o].status \notin Waiting
  BY <1>2 DEF HandedOff, InDoubt, Waiting
<1>5. /\ DOMAIN occ' = DOMAIN occ /\ occ'[o] = q
      /\ \A p \in DOMAIN occ : p # o => occ'[p] = occ[p]
  BY <1>1, <1>2, OneRowChanged
<1>6. pc'[d] = "inspect"
  BY <1>1 DEF Goto, IInv, TypeOK, DispatchTypeOK, DispatchersTyped
<1>7. Knows(d)'
  <2>1. (TeamOccs(team[d]))' = TeamOccs(team[d]) /\ o \in TeamOccs(team[d])
    BY <1>1, <1>2, <1>5 DEF TeamOccs, TeamOfOcc
  <2>2. \A p \in TeamOccs(team[d]) : p # o => occ[p].status \notin HandedOff
    BY <1>2, <1>4 DEF IInv, OneHandedOff, TeamOccs
  <2>3. \A p \in TeamOccs(team[d]) : occ'[p].status \notin HandedOff
    <3>. HIDE DEF o, q
    <3>. QED  BY <1>3, <1>5, <2>2 DEF TeamOccs
  <2>. QED  BY <1>1, <1>6, <2>1, <2>3 DEF Knows, HandedOff
<1>. QED
  <2>. HIDE DEF q
  <2>. QED  BY <1>1, <1>3, <1>4, <1>7, WriteAndGoOn DEF Holding

LEMMA ClaimStep ==
    ASSUME IInv, NEW d \in Dispatchers, Claim(d)
    PROVE  IInv'
<1>. DEFINE o == target[d]
            q == [occ[o] EXCEPT !.status = "sending", !.lane = ClaimedLane(o)]
<1>1. /\ pc[d] = "claim" /\ CommandLockFree(team[d])
      /\ UNCHANGED <<now, sched, events, open, transportVars, stamps, faults>>
  BY DEF Claim
<1>2. /\ occ[o] \in OccurrenceRows /\ o \in DOMAIN occ /\ TeamOfOcc(o) = team[d]
      /\ \A p \in TeamOccs(team[d]) : occ[p].status \notin HandedOff
  BY <1>1, TargetKnown
<1>3. CASE Claimable(o)
  <2>1. /\ occ' = [occ EXCEPT ![o] = q] /\ Goto(d, "send")
        /\ UNCHANGED <<team, target, todo, lane7047>>
    BY <1>3 DEF Claim, SetRow
  <2>2. ClaimedLane(o) \in {0, 1}
    BY <1>2 DEF ClaimedLane, OtherLane, OccurrenceRows
  <2>3. /\ q \in OccurrenceRows /\ q.recovered = occ[o].recovered
        /\ q.status = "sending" /\ q.lane \in {0, 1}
    BY <1>2, <2>2 DEF OccurrenceRows, HandedOff, InDoubt
  <2>4. occ[o].status # "failed"
    BY <1>3 DEF Claimable, Waiting
  <2>5. occ'[o] = q /\ DOMAIN occ' = DOMAIN occ
    BY <1>2, <2>1
  <2>6. pc'[d] = "send"
    BY <2>1 DEF Goto, IInv, TypeOK, DispatchTypeOK, DispatchersTyped
  <2>7. Knows(d)'
    <3>1. o \in (TeamOccs(team[d]))'
      BY <1>2, <2>1, <2>5 DEF TeamOccs, TeamOfOcc
    <3>. QED  BY <2>1, <2>3, <2>5, <2>6, <3>1 DEF Knows
  <2>. QED
    <3>. HIDE DEF q
    <3>. QED  BY <1>1, <1>2, <2>1, <2>3, <2>4, <2>7, WriteAndGoOn DEF Holding
<1>4. CASE ~Claimable(o)
  <2>1. NextCandidate(d) /\ UNCHANGED occ
    BY <1>4 DEF Claim
  <2>2. Local(d) /\ LaneHeld(d)' /\ Knows(d)' /\ DispatchersTyped'
    BY <1>1, <2>1, EndsTurn DEF IInv, TypeOK, DispatchTypeOK, Holding
  <2>3. faults' \in Nat
    BY <1>1 DEF IInv, TypeOK, DispatchTypeOK
  <2>. QED  BY <1>1, <2>1, <2>2, <2>3, ReadOnlyStep DEF storeVars
<1>. QED  BY <1>3, <1>4

(* A message carries the lane persisted with its claim. *)
LEMMA SendStep ==
    ASSUME IInv, NEW d \in Dispatchers, Send(d)
    PROVE  IInv'
<1>. USE DEF IInv, TypeOK, DispatchTypeOK
<1>. DEFINE m == [occ |-> target[d], lane |-> occ[target[d]].lane]
<1>1. /\ pc[d] = "send" /\ pc[d] \in Holding /\ Goto(d, "sent") /\ wire' = wire \cup {m}
      /\ UNCHANGED <<stamps, storeVars, team, target, todo, lane7047, inbox, faults>>
  BY DEF Send, Holding
<1>2. target[d] \in DOMAIN occ /\ occ[target[d]].lane \in {0, 1}
  BY <1>1, TargetKnown
<1>3. m \in Message /\ Message' = Message
  BY <1>1, <1>2 DEF Message, storeVars
<1>4. MessagesTyped'
  BY <1>1, <1>3 DEF MessagesTyped
<1>5. Local(d) /\ LaneHeld(d)' /\ DispatchersTyped' /\ pc'[d] = "sent"
  BY <1>1, GoesOn DEF Holding, storeVars
<1>6. Knows(d)
  BY DEF Coordination
<1>7. Knows(d)'
  BY <1>1, <1>5, <1>6 DEF Knows, TeamOccs, TeamOfOcc, storeVars
<1>8. OpenCommands' /\ OneHandedOff' /\ RecoveredRows'
  BY <1>1 DEF Coordination, OpenCommands, WaitingOf, OccsOf, OneHandedOff, RecoveredRows, storeVars
<1>9. StoreTypeOK'
  BY <1>1, DispatchStoreType DEF storeVars
<1>10. Coordination'
  BY <1>5, <1>7, <1>8, LocalCoordination
<1>. QED  BY <1>1, <1>4, <1>5, <1>8, <1>9, <1>10

(* A dead dispatcher's session lock is released by the server. *)
LEMMA CrashStep ==
    ASSUME IInv, NEW d \in Dispatchers, Crash(d)
    PROVE  IInv'
<1>. USE DEF IInv, TypeOK, DispatchTypeOK
<1>1. pc'[d] = "idle" /\ DispatchersTyped'
  BY DEF Crash, Goto, DispatchersTyped, PcStates, storeVars
<1>2. Local(d)
  BY DEF Crash, Goto, DispatchersTyped, Local, storeVars
<1>3. LaneHeld(d)' /\ Knows(d)'
  BY <1>1, Released
<1>4. faults' \in Nat
  BY FaultType DEF Crash
<1>. QED  BY <1>1, <1>2, <1>3, <1>4, ReadOnlyStep DEF Crash

LEMMA DispatchStep ==
    ASSUME IInv, NEW d \in Dispatchers, Dispatch(d)
    PROVE  IInv'
BY ListStep, VisitStep, ExhaustedStep, CheckOutstandingStep, SelectStep, ReconcileFoundStep,
   ReconcileUnknownStep, ReconcileAbsentStep, InspectReadyStep, InspectNotReadyStep, ClaimStep,
   SendStep, ReceiptStep, NoReceiptStep, CrashStep
   DEF Dispatch, Progress

(* Messages in transit touch neither tables nor dispatchers. *)
LEMMA TransitStep ==
    ASSUME IInv, NEW m \in wire, Arrive(m) \/ Lose(m)
    PROVE  IInv'
<1>. USE DEF IInv, TypeOK, DispatchTypeOK
<1>1. UNCHANGED <<storeVars, dispatcherVars>> /\ wire' \subseteq wire
  BY DEF Arrive, Lose
<1>2. faults' \in Nat
  BY FaultType DEF Arrive, Lose
<1>3. m \in Message /\ Message' = Message
  BY <1>1 DEF MessagesTyped, Message, storeVars
<1>4. inbox' \in [Teams -> Seq(Message)]
  <2>1. CASE Lose(m)
    BY <2>1 DEF Lose, MessagesTyped
  <2>2. CASE Arrive(m)
    <3>1. TeamOfOcc(m.occ) \in Teams
      BY <1>3, TeamOfOccType DEF Message
    <3>2. Append(inbox[TeamOfOcc(m.occ)], m) \in Seq(Message)
      BY <1>3, <3>1, AppendProperties DEF MessagesTyped
    <3>. QED  BY <2>2, <3>1, <3>2 DEF Arrive, MessagesTyped
  <2>. QED  BY <2>1, <2>2
<1>5. MessagesTyped'
  BY <1>1, <1>3, <1>4 DEF MessagesTyped
<1>6. StoreTypeOK'
  BY <1>1, DispatchStoreType DEF storeVars
<1>7. DispatchersTyped' /\ stamps' = stamps
  BY <1>1 DEF DispatchersTyped, dispatcherVars, storeVars
<1>8. Coordination' /\ OneHandedOff' /\ RecoveredRows'
  BY <1>1 DEF Coordination, OpenCommands, WaitingOf, OccsOf, LaneHeld, Knows, TeamOccs, TeamOfOcc,
              OneHandedOff, RecoveredRows, dispatcherVars, storeVars
<1>. QED  BY <1>2, <1>5, <1>6, <1>7, <1>8

(* Transactions on the tables, the operator's included. *)
LEMMA StoreStep ==
    ASSUME IInv, Store \/ \E o \in DOMAIN occ : Recover(o)
    PROVE  IInv'
<1>. USE DEF IInv, TypeOK, DispatchTypeOK
<1>1. /\ OwnerCommand \/ Infrastructure \/ \E o \in DOMAIN occ : FailOccurrence(o)
      /\ UNCHANGED <<dispatcherVars, transportVars, faults>>
  BY DEF Store, Recover
<1>2. StoreTypeOK' /\ RowsStep
  BY <1>1, StoreType, StoreRows DEF Coordination
<1>3. Coordination' /\ OneHandedOff' /\ RecoveredRows'
  BY <1>1, StoreCoordination
<1>4. DOMAIN occ \subseteq DOMAIN occ'
  BY <1>2 DEF RowsStep
<1>5. MessagesTyped'
  BY <1>1, <1>4, SameMessages
<1>6. DispatchersTyped'
  BY <1>1, <1>4 DEF DispatchersTyped, dispatcherVars
<1>. QED  BY <1>1, <1>2, <1>3, <1>5, <1>6 DEF dispatcherVars

LEMMA InitInv == Init => IInv
<1>. SUFFICES ASSUME Init PROVE IInv
  OBVIOUS
<1>. USE DEF Init, StoreInit
<1>1. StoreTypeOK
  BY DEF StoreTypeOK, SchedulesTyped, OccurrencesTyped, EventsTyped, AnchorsKnown, OpenTyped
<1>2. DispatchTypeOK
  BY EmptySeq DEF DispatchTypeOK, DispatchersTyped, MessagesTyped, PcStates
<1>3. Coordination /\ OneHandedOff /\ RecoveredRows
  BY DEF Coordination, OpenCommands, LaneHeld, Knows, Holding, OneHandedOff, RecoveredRows
<1>. QED  BY <1>1, <1>2, <1>3 DEF IInv, TypeOK

LEMMA NextInv == IInv /\ [Next]_vars => IInv'
<1>. SUFFICES ASSUME IInv, [Next]_vars PROVE IInv'
  OBVIOUS
<1>1. CASE Next
  BY <1>1, StoreStep, DispatchStep, TransitStep DEF Next
<1>2. CASE UNCHANGED vars
  <2>1. UNCHANGED <<storeVars, dispatcherVars, transportVars, faults>>
    BY <1>2 DEF vars, storeVars, dispatcherVars, transportVars
  <2>2. StoreTypeOK' /\ MessagesTyped'
    BY <2>1, DispatchStoreType, SameMessages DEF IInv, TypeOK, DispatchTypeOK, storeVars
  <2>. QED  BY <2>1, <2>2
            DEF IInv, TypeOK, DispatchTypeOK, DispatchersTyped, Coordination, OpenCommands, WaitingOf,
                OccsOf, LaneHeld, Knows, TeamOccs, TeamOfOcc, OneHandedOff, RecoveredRows,
                dispatcherVars, storeVars
<1>. QED  BY <1>1, <1>2

-----------------------------------------------------------------------------
(* Theorems.                                                               *)

(* The inductive invariant holds in every reachable state. *)
THEOREM Inductive == Spec => []IInv
BY InitInv, NextInv, PTL DEF Spec

(* Every row, program counter and message keeps its type; in particular a  *)
(* dispatcher works on an existing row of the franchise whose lane it      *)
(* holds, and every message carries the lane persisted before the send.    *)
THEOREM TypeCorrect == Spec => []TypeOK
<1>1. IInv => TypeOK
  BY DEF IInv
<1>. QED  BY <1>1, Inductive, PTL

(* However many dispatchers overlap, crash and time out, a franchise never *)
(* has two occurrences handed off and not yet closed.                      *)
THEOREM NeverTwoHandedOff == Spec => []OneHandedOff
<1>1. IInv => OneHandedOff
  BY DEF IInv
<1>. QED  BY <1>1, Inductive, PTL

-----------------------------------------------------------------------------
(* Closed rows.                                                            *)

(* A dispatcher writes only rows that wait or are in doubt, and no         *)
(* operator evidence.                                                      *)
DispatcherWrites ==
    \A o \in DOMAIN occ :
        \/ occ'[o] = occ[o]
        \/ /\ occ[o].status \in Waiting \cup InDoubt
           /\ occ'[o].recovered = occ[o].recovered

LEMMA WritesTarget ==
    ASSUME NEW o \in DOMAIN occ, NEW q, occ' = [occ EXCEPT ![o] = q],
           occ[o].status \in Waiting \cup InDoubt, q.recovered = occ[o].recovered
    PROVE  DispatcherWrites
BY OneRowChanged DEF DispatcherWrites

LEMMA DispatchWrites ==
    ASSUME IInv, NEW d \in Dispatchers, Dispatch(d)
    PROVE  DispatcherWrites
<1>. DEFINE o == target[d]
<1>1. UNCHANGED occ => DispatcherWrites
  BY DEF DispatcherWrites
<1>2. ASSUME NEW n \in FoundIn(o, LaneOf(o)), pc[d] \in {"reconcile", "sent"}, Delivered(o, n)
      PROVE  DispatcherWrites
  <2>1. PICK q \in OccurrenceRows : occ' = [occ EXCEPT ![o] = q] /\ q.recovered = occ[o].recovered
    BY <1>2, DeliveredRow
  <2>2. o \in DOMAIN occ /\ occ[o].status \in InDoubt
    BY <1>2, TargetKnown DEF InDoubt
  <2>. QED  BY <2>1, <2>2, WritesTarget
<1>3. ASSUME NEW st \in Waiting \cup HandedOff, occ' = [occ EXCEPT ![o] = [occ[o] EXCEPT !.status = st]],
             pc[d] \in {"reconcile", "inspect", "claim", "send", "sent"},
             occ[o].status \in Waiting \cup InDoubt
      PROVE  DispatcherWrites
  <2>1. o \in DOMAIN occ /\ occ[o] \in OccurrenceRows
    BY <1>3, TargetKnown
  <2>2. [occ[o] EXCEPT !.status = st].recovered = occ[o].recovered
    BY <2>1, StatusRow
  <2>. QED  BY <1>3, <2>1, <2>2, WritesTarget
<1>4. ASSUME List(d) \/ Visit(d) \/ Exhausted(d) \/ CheckOutstanding(d) \/ Select(d)
             \/ InspectReady(d) \/ Send(d) \/ Crash(d)
      PROVE  DispatcherWrites
  BY <1>1, <1>4 DEF List, Visit, Exhausted, CheckOutstanding, Select, InspectReady, Send, Crash, storeVars
<1>5. ASSUME ReconcileFound(d) \/ Receipt(d)
      PROVE  DispatcherWrites
  BY <1>2, <1>5 DEF ReconcileFound, Receipt
<1>6. ASSUME ReconcileUnknown(d) \/ ReconcileAbsent(d) \/ NoReceipt(d)
      PROVE  DispatcherWrites
  <2>1. \E st \in {"uncertain", "queued"} : occ' = [occ EXCEPT ![o] = [occ[o] EXCEPT !.status = st]]
    BY <1>6 DEF ReconcileUnknown, ReconcileAbsent, NoReceipt, NoReceiptStatus, SetRow
  <2>2. pc[d] \in {"reconcile", "sent"}
    BY <1>6 DEF ReconcileUnknown, ReconcileAbsent, NoReceipt
  <2>3. occ[o].status \in InDoubt
    BY <2>2, TargetKnown DEF InDoubt
  <2>4. {"uncertain", "queued"} \subseteq Waiting \cup HandedOff
    BY DEF Waiting, HandedOff, InDoubt
  <2>. QED  BY <1>3, <2>1, <2>2, <2>3, <2>4
<1>7. ASSUME NEW st \in Waiting, InspectNotReady(d, st)
      PROVE  DispatcherWrites
  BY <1>1, <1>3, <1>7 DEF InspectNotReady, SetRow
<1>8. ASSUME Claim(d)
      PROVE  DispatcherWrites
  <2>. DEFINE q == [occ[o] EXCEPT !.status = "sending", !.lane = ClaimedLane(o)]
  <2>1. CASE Claimable(o)
    <3>1. occ' = [occ EXCEPT ![o] = q]
      BY <1>8, <2>1 DEF Claim, SetRow
    <3>2. o \in DOMAIN occ /\ occ[o] \in OccurrenceRows
      BY <1>8, TargetKnown DEF Claim
    <3>3. q.recovered = occ[o].recovered
      BY <3>2 DEF OccurrenceRows
    <3>4. occ[o].status \in Waiting
      BY <2>1 DEF Claimable
    <3>. QED
      <4>. HIDE DEF q
      <4>. QED  BY <3>1, <3>2, <3>3, <3>4, WritesTarget
  <2>2. CASE ~Claimable(o)
    BY <1>1, <1>8, <2>2 DEF Claim
  <2>. QED  BY <2>1, <2>2
<1>. QED  BY <1>4, <1>5, <1>6, <1>7, <1>8 DEF Dispatch, Progress

(* Every step either writes as a dispatcher does or as a transaction does. *)
LEMMA RowHistory ==
    ASSUME IInv, [Next]_vars
    PROVE  DispatcherWrites \/ RowsStep
<1>1. UNCHANGED occ => DispatcherWrites
  BY DEF DispatcherWrites
<1>2. CASE Store \/ \E o \in DOMAIN occ : Recover(o)
  <2>1. OwnerCommand \/ Infrastructure \/ \E o \in DOMAIN occ : FailOccurrence(o)
    BY <1>2 DEF Store, Recover
  <2>. QED  BY <2>1, StoreRows DEF IInv, TypeOK, Coordination
<1>3. CASE \E d \in Dispatchers : Dispatch(d)
  BY <1>3, DispatchWrites
<1>4. CASE \E m \in wire : Arrive(m) \/ Lose(m)
  BY <1>1, <1>4 DEF Arrive, Lose, storeVars
<1>5. CASE UNCHANGED vars
  BY <1>1, <1>5 DEF vars
<1>. QED  BY <1>2, <1>3, <1>4, <1>5 DEF Next

LEMMA ClosedRowStays ==
    ASSUME NEW r \in OccurrenceRows, NEW q, RowStep(r, q), r.status \in Closed
    PROVE  q.status = r.status
<1>1. \A st \in AckStates : Executed(r, st).status = st
  BY DEF Executed, OccurrenceRows
<1>. QED  BY <1>1 DEF RowStep, Closed, Waiting, Running

LEMMA RecoveredRowStays ==
    ASSUME NEW r \in OccurrenceRows, NEW q, RowStep(r, q), RowRecovered(r)
    PROVE  /\ r.recovered => q = r
           /\ r.started => ~q.recovered
<1>1. \A st \in AckStates : Executed(r, st).recovered = FALSE
  BY DEF Executed, OccurrenceRows
<1>2. /\ [r EXCEPT !.status = "cancelled"].recovered = r.recovered
      /\ [r EXCEPT !.missedThrough = now].recovered = r.recovered
  BY DEF OccurrenceRows
<1>. QED  BY <1>1, <1>2 DEF RowStep, RowRecovered, Waiting, Running

(* Nothing that was completed, failed or cancelled is ever reopened or     *)
(* closed differently, by any of the concurrent writers of the row.        *)
LEMMA ClosedWorkStaysClosed == Spec => ClosedForGood
<1>1. IInv /\ [Next]_vars =>
         [\A o \in DOMAIN occ : occ[o].status \in Closed => occ'[o].status = occ[o].status]_vars
  <2>. SUFFICES ASSUME IInv, [Next]_vars, NEW o \in DOMAIN occ, occ[o].status \in Closed
                PROVE  occ'[o].status = occ[o].status
    OBVIOUS
  <2>1. CASE DispatcherWrites
    BY <2>1 DEF DispatcherWrites, Closed, Waiting, InDoubt
  <2>2. CASE RowsStep
    BY <2>2, ClosedRowStays DEF RowsStep, IInv, TypeOK, StoreTypeOK, OccurrencesTyped
  <2>. QED  BY <2>1, <2>2, RowHistory
<1>. QED  BY <1>1, Inductive, PTL DEF Spec, ClosedForGood

(* Operator evidence is final, and is never put on work that had started.  *)
LEMMA RecoveryEvidenceIsFinal == Spec => RecoveryIsFinal
<1>1. IInv /\ [Next]_vars =>
         [\A o \in DOMAIN occ :
             /\ occ[o].recovered => occ'[o] = occ[o]
             /\ occ[o].started => ~occ'[o].recovered]_vars
  <2>. SUFFICES ASSUME IInv, [Next]_vars, NEW o \in DOMAIN occ
                PROVE  /\ occ[o].recovered => occ'[o] = occ[o]
                       /\ occ[o].started => ~occ'[o].recovered
    OBVIOUS
  <2>1. RowRecovered(occ[o])
    BY DEF IInv, RecoveredRows, RowRecovered
  <2>2. CASE DispatcherWrites
    BY <2>1, <2>2 DEF DispatcherWrites, RowRecovered, Waiting, InDoubt
  <2>3. CASE RowsStep
    BY <2>1, <2>3, RecoveredRowStays DEF RowsStep, IInv, TypeOK, StoreTypeOK, OccurrencesTyped
  <2>. QED  BY <2>2, <2>3, RowHistory
<1>. QED  BY <1>1, Inductive, PTL DEF Spec, RecoveryIsFinal

(* What is closed stays as it was closed: no command, feed, late answer or *)
(* dispatcher reopens it, nor replaces an operator's evidence.             *)
THEOREM ClosureIsFinal == Spec => ClosedIsFinal
BY ClosedWorkStaysClosed, RecoveryEvidenceIsFinal DEF ClosedIsFinal

-----------------------------------------------------------------------------
(* Messages.                                                               *)

(* What the rows know of the messages. A message carries the lane of its   *)
(* row; while it travels its row is in doubt, and once it arrived the row  *)
(* never says that it was not sent; an event id a row records is the place *)
(* of its own message.                                                     *)
MailFits(o, row) ==
    /\ \A n \in PostsOf(o) : inbox[TeamOfOcc(o)][n].lane = row.lane
    /\ \A m \in wire : m.occ = o => m.lane = row.lane
    /\ OnWire(o) => row.status \in InDoubt /\ PostsOf(o) = {}
    /\ PostsOf(o) # {} => /\ row.status \notin Waiting \cup {"cancelled"}
                          /\ row.status = "failed" => row.event # NoEvent
    /\ row.status \in Running \cup {"completed"} \/ row.event # NoEvent =>
          row.event \in PostsOf(o)

Unsent(o) == PostsOf(o) = {} /\ ~OnWire(o)

MailInv ==
    /\ \A o \in DOMAIN occ : MailFits(o, occ[o])
    /\ \A d \in Dispatchers : pc[d] = "send" => Unsent(target[d])

(* An event id is never NoEvent. *)
LEMMA PostsPositive ==
    ASSUME NEW o
    PROVE  NoEvent \notin PostsOf(o)
BY DEF PostsOf, NoEvent

(* A transaction on the tables: the messages stay where they are. *)
LEMMA SamePosts ==
    ASSUME UNCHANGED transportVars
    PROVE  \A o : PostsOf(o)' = PostsOf(o) /\ OnWire(o)' = OnWire(o)
BY DEF PostsOf, OnWire, transportVars, TeamOfOcc

LEMMA RowStepMail ==
    ASSUME NEW r \in OccurrenceRows, NEW q, RowStep(r, q)
    PROVE  /\ q.lane = r.lane /\ q.event = r.event
           /\ q.status \in Running \cup {"completed"} => r.status \in Running \cup {"completed"}
           /\ q.status \in Waiting \cup {"cancelled"} => r.status \in Waiting \cup {"cancelled"}
           /\ r.status \in InDoubt => q = r
           /\ q.status = "failed" => r.status \in Waiting \cup Running \cup {"failed"}
<1>. USE DEF OccurrenceRows, Waiting, HandedOff, InDoubt, Running
<1>1. CASE q = r
  BY <1>1
<1>2. CASE r.status \in Waiting /\ q = [r EXCEPT !.status = "cancelled"]
  BY <1>2
<1>3. CASE r.status \in Waiting /\ q = [r EXCEPT !.missedThrough = now]
  BY <1>3
<1>4. ASSUME NEW st \in AckStates, r.status \in Running \/ (r.status = st /\ ~r.recovered),
             q = Executed(r, st)
      PROVE  /\ q.lane = r.lane /\ q.event = r.event
             /\ q.status \in Running \cup {"completed"} => r.status \in Running \cup {"completed"}
             /\ q.status \in Waiting \cup {"cancelled"} => r.status \in Waiting \cup {"cancelled"}
             /\ r.status \in InDoubt => q = r
             /\ q.status = "failed" => r.status \in Waiting \cup Running \cup {"failed"}
  <2>1. q.status = st /\ q.lane = r.lane /\ q.event = r.event
    BY <1>4 DEF Executed
  <2>. QED  BY <1>4, <2>1 DEF AckStates
<1>5. CASE /\ r.status \in Waiting \cup {"delivered"}
           /\ ~r.started
           /\ q = [r EXCEPT !.status = "failed", !.recovered = TRUE]
  BY <1>5
<1>. QED  BY <1>1, <1>2, <1>3, <1>4, <1>5 DEF RowStep

LEMMA StoreMail ==
    ASSUME StoreTypeOK, StoreTypeOK', MessagesTyped, MailInv, RowsStep,
           UNCHANGED <<dispatcherVars, transportVars>>
    PROVE  MailInv'
<1>1. \A o : PostsOf(o)' = PostsOf(o) /\ OnWire(o)' = OnWire(o)
  BY SamePosts
<1>2. ASSUME NEW o \in DOMAIN occ
      PROVE  MailFits(o, occ[o])'
  <2>1. occ[o] \in OccurrenceRows /\ RowStep(occ[o], occ'[o]) /\ MailFits(o, occ[o])
    BY DEF StoreTypeOK, OccurrencesTyped, RowsStep, MailInv
  <2>2. /\ occ'[o].lane = occ[o].lane /\ occ'[o].event = occ[o].event
        /\ occ'[o].status \in Running \cup {"completed"} => occ[o].status \in Running \cup {"completed"}
        /\ occ'[o].status \in Waiting \cup {"cancelled"} => occ[o].status \in Waiting \cup {"cancelled"}
        /\ occ[o].status \in InDoubt => occ'[o] = occ[o]
        /\ occ'[o].status = "failed" => occ[o].status \in Waiting \cup Running \cup {"failed"}
    BY <2>1, RowStepMail
  <2>3. NoEvent \notin PostsOf(o)
    BY PostsPositive
  <2>4. inbox' = inbox /\ wire' = wire /\ TeamOfOcc(o)' = TeamOfOcc(o)
    BY DEF transportVars, TeamOfOcc
  <2>. QED  BY <1>1, <2>1, <2>2, <2>3, <2>4 DEF MailFits
<1>3. ASSUME NEW o \in DOMAIN occ' \ DOMAIN occ
      PROVE  MailFits(o, occ[o])'
  <2>1. occ'[o].status = "queued" /\ occ'[o].event = NoEvent
    BY DEF RowsStep, NewRow
  <2>2. \A m \in wire : m.occ # o
    BY DEF MessagesTyped, Message
  <2>3. PostsOf(o) = {}
    <3>1. TeamOfOcc(o) \in Teams
      BY TeamOfAssumption DEF StoreTypeOK, OccurrencesTyped, OccurrenceIds, TeamOfOcc
    <3>2. inbox[TeamOfOcc(o)] \in Seq(Message)
      BY <3>1 DEF MessagesTyped
    <3>3. \A n \in 1..Len(inbox[TeamOfOcc(o)]) : inbox[TeamOfOcc(o)][n] \in Message
      BY <3>2, ElementOfSeq
    <3>4. \A m \in Message : m.occ \in DOMAIN occ
      BY DEF Message
    <3>. QED  BY <3>3, <3>4 DEF PostsOf
  <2>. QED  BY <1>1, <2>1, <2>2, <2>3 DEF MailFits, OnWire, Waiting, Running, InDoubt
<1>4. \A d \in Dispatchers : (pc[d] = "send" => Unsent(target[d]))'
  BY <1>1 DEF MailInv, Unsent, dispatcherVars
<1>. QED  BY <1>2, <1>3, <1>4 DEF MailInv

-----------------------------------------------------------------------------
(* A dispatcher writes one row. *)
LEMMA WriteMail ==
    ASSUME MailInv, UNCHANGED transportVars, NEW o \in DOMAIN occ, NEW q,
           occ' = [occ EXCEPT ![o] = q], MailFits(o, q),
           \A d \in Dispatchers : pc'[d] = "send" => Unsent(target'[d])
    PROVE  MailInv'
<1>1. \A p : PostsOf(p)' = PostsOf(p) /\ OnWire(p)' = OnWire(p)
  BY SamePosts
<1>2. inbox' = inbox /\ wire' = wire
  BY DEF transportVars
<1>3. /\ DOMAIN occ' = DOMAIN occ /\ occ'[o] = q
      /\ \A p \in DOMAIN occ : p # o => occ'[p] = occ[p]
  BY OneRowChanged
<1>4. ASSUME NEW p \in DOMAIN occ
      PROVE  MailFits(p, occ[p])'
  <2>1. MailFits(p, occ'[p])
    BY <1>3 DEF MailInv
  <2>. QED  BY <1>1, <1>2, <2>1 DEF MailFits, TeamOfOcc
<1>5. \A d \in Dispatchers : pc'[d] = "send" => Unsent(target[d])'
  BY <1>1 DEF Unsent
<1>. QED  BY <1>3, <1>4, <1>5 DEF MailInv

(* A dispatcher or the network changes no row. *)
LEMMA ReadMail ==
    ASSUME MailInv, UNCHANGED <<occ, transportVars>>,
           \A d \in Dispatchers : pc'[d] = "send" => Unsent(target'[d])
    PROVE  MailInv'
<1>1. \A p : PostsOf(p)' = PostsOf(p) /\ OnWire(p)' = OnWire(p)
  BY SamePosts
<1>2. inbox' = inbox /\ wire' = wire
  BY DEF transportVars
<1>3. ASSUME NEW p \in DOMAIN occ
      PROVE  MailFits(p, occ[p])'
  BY <1>1, <1>2 DEF MailFits, TeamOfOcc, MailInv
<1>4. \A d \in Dispatchers : pc'[d] = "send" => Unsent(target[d])'
  BY <1>1 DEF Unsent
<1>. QED  BY <1>3, <1>4 DEF MailInv

(* Who is about to send was about to send the same before. *)
SendersStay ==
    \A d \in Dispatchers : pc'[d] = "send" => pc[d] = "send" /\ target'[d] = target[d]

LEMMA NoNewSender ==
    ASSUME DispatchersTyped, NEW d \in Dispatchers, NEW where, where # "send", Goto(d, where),
           \A e \in Dispatchers : e # d => target'[e] = target[e]
    PROVE  SendersStay
BY DEF DispatchersTyped, Goto, SendersStay

LEMMA ReaderMail ==
    ASSUME IInv, MailInv, NEW d \in Dispatchers,
           List(d) \/ Visit(d) \/ Exhausted(d) \/ CheckOutstanding(d) \/ Select(d)
           \/ InspectReady(d) \/ Crash(d)
    PROVE  MailInv'
<1>. USE DEF IInv, TypeOK, DispatchTypeOK
<1>1. UNCHANGED <<occ, transportVars>>
  BY DEF List, Visit, Exhausted, CheckOutstanding, Select, InspectReady, Crash, storeVars
<1>2. SendersStay
  <2>1. CASE List(d) \/ Exhausted(d) \/ InspectReady(d) \/ Crash(d)
    BY <2>1, NoNewSender DEF List, Exhausted, InspectReady, Crash, DispatchersTyped
  <2>2. CASE Visit(d)
    BY <2>2 DEF Visit, Goto, DispatchersTyped, SendersStay
  <2>3. CASE CheckOutstanding(d)
    BY <2>3, NoNewSender DEF CheckOutstanding, NextCandidate, LetGo, DispatchersTyped
  <2>4. CASE Select(d)
    BY <2>4, NoNewSender DEF Select, NextCandidate, LetGo, DispatchersTyped
  <2>. QED  BY <2>1, <2>2, <2>3, <2>4
<1>. QED  BY <1>1, <1>2, ReadMail DEF SendersStay, MailInv

(* The row of a dispatcher's target and what its messages say of it. *)
LEMMA TargetMail ==
    ASSUME IInv, MailInv, NEW d \in Dispatchers,
           pc[d] \in {"reconcile", "inspect", "claim", "send", "sent"}
    PROVE  target[d] \in DOMAIN occ /\ MailFits(target[d], occ[target[d]])
BY TargetKnown DEF MailInv

(* The steps that end a visit leave no one new about to send. *)
LEMMA EndSendsNothing ==
    ASSUME DispatchersTyped, NEW d \in Dispatchers, NextCandidate(d) \/ Finish(d)
    PROVE  SendersStay
BY NoNewSender DEF NextCandidate, Finish, LetGo, DispatchersTyped

LEMMA DeliveredMail ==
    ASSUME IInv, MailInv, NEW d \in Dispatchers, pc[d] \in {"reconcile", "sent"},
           NEW n \in FoundIn(target[d], LaneOf(target[d])), Delivered(target[d], n),
           Finish(d), UNCHANGED transportVars
    PROVE  MailInv'
<1>. DEFINE o == target[d]
            q == [occ[o] EXCEPT !.status = "delivered", !.event = n,
                                !.deliveredAt = stamps[TeamOfOcc(o)] + 1]
<1>1. o \in DOMAIN occ /\ MailFits(o, occ[o]) /\ occ[o] \in OccurrenceRows
  BY TargetMail, TargetKnown
<1>2. occ' = [occ EXCEPT ![o] = q]
  BY DEF Delivered, SetRow
<1>3. q.status = "delivered" /\ q.event = n /\ q.lane = occ[o].lane
  BY <1>1 DEF OccurrenceRows
<1>4. n \in PostsOf(o)
  BY DEF FoundIn
<1>5. MailFits(o, q)
  <2>. HIDE DEF o, q
  <2>. QED  BY <1>1, <1>3, <1>4 DEF MailFits, Waiting, Running
<1>6. SendersStay
  BY EndSendsNothing DEF IInv, TypeOK, DispatchTypeOK
<1>. QED
  <2>. HIDE DEF o, q
  <2>. QED  BY <1>1, <1>2, <1>5, <1>6, WriteMail DEF SendersStay, MailInv

(* Rewriting the status of the target. *)
LEMMA StatusMail ==
    ASSUME IInv, MailInv, NEW d \in Dispatchers,
           pc[d] \in {"reconcile", "inspect", "claim", "send", "sent"},
           NEW st \in Waiting \cup InDoubt,
           occ' = [occ EXCEPT ![target[d]] = [occ[target[d]] EXCEPT !.status = st]],
           UNCHANGED transportVars, SendersStay,
           \/ occ[target[d]].status \in InDoubt /\ st \in InDoubt
           \/ Unsent(target[d])
    PROVE  MailInv'
<1>. DEFINE o == target[d]
            q == [occ[o] EXCEPT !.status = st]
<1>1. o \in DOMAIN occ /\ MailFits(o, occ[o]) /\ occ[o] \in OccurrenceRows
  BY TargetMail, TargetKnown
<1>2. q.status = st /\ q.event = occ[o].event /\ q.lane = occ[o].lane
  BY <1>1 DEF OccurrenceRows
<1>3. st \notin Running \cup {"completed"} /\ (st \in InDoubt => st \notin Waiting \cup {"cancelled", "failed"})
  BY DEF Waiting, InDoubt, Running
<1>4. MailFits(o, q)
  <2>. HIDE DEF o, q
  <2>. QED  BY <1>1, <1>2, <1>3 DEF o, MailFits, Unsent
<1>. QED
  <2>. HIDE DEF q
  <2>. QED  BY <1>1, <1>4, WriteMail DEF q, SendersStay, MailInv

(* A message in no lane of its inbox and not on its way was never sent. *)
LEMMA AbsentIsUnsent ==
    ASSUME IInv, MailInv, NEW o \in DOMAIN occ, FoundIn(o, LaneOf(o)) = {}, ~OnWire(o)
    PROVE  Unsent(o)
<1>. USE DEF IInv, TypeOK, DispatchTypeOK
<1>1. SUFFICES ASSUME NEW n \in PostsOf(o) PROVE FALSE
  BY DEF Unsent
<1>2. TeamOfOcc(o) \in Teams
  BY TeamOfOccType
<1>3. inbox[TeamOfOcc(o)] \in Seq(Message) /\ n \in 1..Len(inbox[TeamOfOcc(o)])
  BY <1>2 DEF MessagesTyped, PostsOf
<1>4. inbox[TeamOfOcc(o)][n] \in Message
  BY <1>3, ElementOfSeq
<1>5. inbox[TeamOfOcc(o)][n].lane \in {0, 1}
  BY <1>4 DEF Message
<1>6. inbox[TeamOfOcc(o)][n].lane = occ[o].lane
  BY DEF MailInv, MailFits
<1>7. n \in FoundIn(o, LaneOf(o))
  BY <1>5, <1>6 DEF FoundIn, LaneOf, NoLane
<1>. QED  BY <1>7

LEMMA WriterMail ==
    ASSUME IInv, MailInv, NEW d \in Dispatchers,
           \/ ReconcileFound(d) \/ ReconcileUnknown(d) \/ ReconcileAbsent(d)
           \/ (\E st \in Waiting : InspectNotReady(d, st)) \/ Receipt(d) \/ NoReceipt(d)
    PROVE  MailInv'
<1>. USE DEF IInv, TypeOK, DispatchTypeOK
<1>. DEFINE o == target[d]
<1>1. ASSUME ReconcileFound(d) \/ Receipt(d)
      PROVE  MailInv'
  BY <1>1, DeliveredMail DEF ReconcileFound, Receipt
<1>2. ASSUME ReconcileUnknown(d) \/ NoReceipt(d)
      PROVE  MailInv'
  <2>1. SendersStay /\ UNCHANGED transportVars
    BY <1>2, EndSendsNothing DEF ReconcileUnknown, NoReceipt
  <2>2. pc[d] \in {"reconcile", "sent"} /\ occ' = [occ EXCEPT ![o] = [occ[o] EXCEPT !.status = "uncertain"]]
    BY <1>2 DEF ReconcileUnknown, NoReceipt, NoReceiptStatus, SetRow
  <2>3. occ[o].status \in InDoubt /\ "uncertain" \in InDoubt
    BY <2>2, TargetKnown DEF InDoubt
  <2>. QED  BY <2>1, <2>2, <2>3, StatusMail
<1>3. ASSUME ReconcileAbsent(d)
      PROVE  MailInv'
  <2>1. /\ pc[d] = "reconcile" /\ Goto(d, "inspect") /\ UNCHANGED <<target, transportVars>>
        /\ occ' = [occ EXCEPT ![o] = [occ[o] EXCEPT !.status = "queued"]]
        /\ FoundIn(o, LaneOf(o)) = {} /\ ~OnWire(o)
    BY <1>3 DEF ReconcileAbsent, SetRow
  <2>2. Unsent(o)
    BY <2>1, AbsentIsUnsent, TargetKnown
  <2>3. SendersStay
    BY <2>1, NoNewSender
  <2>. QED  BY <2>1, <2>2, <2>3, StatusMail DEF Waiting
<1>4. ASSUME NEW st \in Waiting, InspectNotReady(d, st)
      PROVE  MailInv'
  <2>1. SendersStay /\ UNCHANGED transportVars /\ pc[d] = "inspect"
    BY <1>4, EndSendsNothing DEF InspectNotReady
  <2>2. CASE occ[o].status \in Waiting
    <3>1. Unsent(o)
      BY <2>1, <2>2, TargetMail DEF MailFits, Unsent, Waiting, InDoubt
    <3>2. occ' = [occ EXCEPT ![o] = [occ[o] EXCEPT !.status = st]]
      BY <1>4, <2>2 DEF InspectNotReady, SetRow
    <3>. QED  BY <2>1, <3>1, <3>2, StatusMail
  <2>3. CASE occ[o].status \notin Waiting
    <3>1. UNCHANGED occ
      BY <1>4, <2>3 DEF InspectNotReady
    <3>. QED  BY <2>1, <3>1, ReadMail DEF SendersStay, MailInv
  <2>. QED  BY <2>2, <2>3
<1>. QED  BY <1>1, <1>2, <1>3, <1>4

LEMMA ClaimMail ==
    ASSUME IInv, MailInv, NEW d \in Dispatchers, Claim(d)
    PROVE  MailInv'
<1>. USE DEF IInv, TypeOK, DispatchTypeOK
<1>. DEFINE o == target[d]
            q == [occ[o] EXCEPT !.status = "sending", !.lane = ClaimedLane(o)]
<1>1. pc[d] = "claim" /\ UNCHANGED transportVars
  BY DEF Claim
<1>2. CASE Claimable(o)
  <2>1. /\ occ' = [occ EXCEPT ![o] = q] /\ Goto(d, "send") /\ UNCHANGED <<team, target>>
    BY <1>2 DEF Claim, SetRow
  <2>2. o \in DOMAIN occ /\ MailFits(o, occ[o]) /\ occ[o] \in OccurrenceRows
    BY <1>1, TargetMail, TargetKnown
  <2>3. Unsent(o)
    BY <1>2, <2>2 DEF Claimable, MailFits, Unsent, Waiting, InDoubt
  <2>4. q.status = "sending" /\ q.event = occ[o].event
    BY <2>2 DEF OccurrenceRows
  <2>5. MailFits(o, q)
    <3>. HIDE DEF o, q
    <3>. QED  BY <2>2, <2>3, <2>4 DEF MailFits, Unsent, InDoubt, Running, OnWire
  <2>6. \A e \in Dispatchers : pc'[e] = "send" => Unsent(target'[e])
    BY <2>1, <2>3 DEF Goto, MailInv, DispatchersTyped
  <2>. QED
    <3>. HIDE DEF q
    <3>. QED  BY <1>1, <2>1, <2>2, <2>5, <2>6, WriteMail
<1>3. CASE ~Claimable(o)
  BY <1>1, <1>3, EndSendsNothing, ReadMail DEF Claim, SendersStay, MailInv
<1>. QED  BY <1>2, <1>3

(* The message leaves with the lane its row holds; nobody else was about   *)
(* to send the same work.                                                  *)
LEMMA SendMail ==
    ASSUME IInv, MailInv, NEW d \in Dispatchers, Send(d)
    PROVE  MailInv'
<1>. USE DEF IInv, TypeOK, DispatchTypeOK
<1>. DEFINE o == target[d]
            msg == [occ |-> o, lane |-> occ[o].lane]
<1>1. pc[d] = "send" /\ wire' = wire \cup {msg} /\ Goto(d, "sent") /\ UNCHANGED <<occ, team, target, inbox>>
  BY DEF Send, storeVars
<1>2. o \in DOMAIN occ /\ occ[o].status = "sending" /\ TeamOfOcc(o) = team[d] /\ Unsent(o)
  BY <1>1, TargetKnown DEF MailInv
<1>3. \A p : PostsOf(p)' = PostsOf(p) /\ TeamOfOcc(p)' = TeamOfOcc(p)
  BY <1>1 DEF PostsOf, TeamOfOcc
<1>4. ASSUME NEW p  PROVE OnWire(p)' <=> OnWire(p) \/ p = o
  <2>1. msg.occ = o
    OBVIOUS
  <2>. QED
    <3>. HIDE DEF o, msg
    <3>. QED  BY <1>1, <2>1 DEF OnWire
<1>5. ASSUME NEW p \in DOMAIN occ
      PROVE  MailFits(p, occ[p])'
  <2>1. CASE p # o
    <3>1. \A m \in wire' : m.occ = p => m \in wire
      BY <1>1, <2>1
    <3>2. MailFits(p, occ[p])
      BY DEF MailInv
    <3>. QED  BY <1>1, <1>3, <1>4, <2>1, <3>1, <3>2 DEF MailFits
  <2>2. CASE p = o
    <3>1. MailFits(o, occ[o])
      BY <1>2 DEF MailInv
    <3>2. \A m \in wire' : m.occ = o => m.lane = occ[o].lane
      BY <1>1, <3>1 DEF MailFits
    <3>. QED  BY <1>1, <1>2, <1>3, <1>4, <2>2, <3>1, <3>2 DEF MailFits, Unsent, InDoubt, Running
  <2>. QED  BY <2>1, <2>2
<1>6. ASSUME NEW e \in Dispatchers, pc'[e] = "send"
      PROVE  Unsent(target[e])'
  <2>1. e # d /\ pc[e] = "send"
    BY <1>1, <1>6 DEF Goto, DispatchersTyped
  <2>2. TeamOfOcc(target[e]) = team[e] /\ Unsent(target[e])
    BY <2>1, TargetKnown DEF MailInv
  <2>3. team[e] # team[d]
    BY <1>1, <2>1 DEF Coordination, LaneHeld, Holding
  <2>4. target[e] # o
    BY <1>2, <2>2, <2>3
  <2>. QED  BY <1>1, <1>3, <1>4, <2>2, <2>4 DEF Unsent
<1>. QED  BY <1>1, <1>5, <1>6 DEF MailInv

(* What arriving adds to the inboxes. *)
LEMMA ArrivePosts ==
    ASSUME IInv, NEW m \in wire, Arrive(m)
    PROVE  \A o \in DOMAIN occ :
              /\ o # m.occ => PostsOf(o)' = PostsOf(o)
              /\ o = m.occ => PostsOf(o)' = PostsOf(o) \cup {Len(inbox[TeamOfOcc(o)]) + 1}
              /\ \A n \in PostsOf(o) : inbox'[TeamOfOcc(o)][n] = inbox[TeamOfOcc(o)][n]
              /\ o = m.occ => inbox'[TeamOfOcc(o)][Len(inbox[TeamOfOcc(o)]) + 1] = m
<1>. USE DEF IInv, TypeOK, DispatchTypeOK
<1>. DEFINE t == TeamOfOcc(m.occ)
<1>1. m \in Message /\ m.occ \in DOMAIN occ
  BY DEF MessagesTyped, Message
<1>2. t \in Teams /\ inbox[t] \in Seq(Message)
  BY <1>1, TeamOfOccType DEF MessagesTyped
<1>3. inbox' = [inbox EXCEPT ![t] = Append(@, m)]
  BY DEF Arrive
<1>4. /\ Len(Append(inbox[t], m)) = Len(inbox[t]) + 1
      /\ \A i \in 1..Len(inbox[t]) : Append(inbox[t], m)[i] = inbox[t][i]
      /\ Append(inbox[t], m)[Len(inbox[t]) + 1] = m
  BY <1>1, <1>2, AppendProperties
<1>5. inbox'[t] = Append(inbox[t], m) /\ \A u \in Teams \ {t} : inbox'[u] = inbox[u]
  BY <1>2, <1>3 DEF MessagesTyped
<1>6. Len(inbox[t]) \in Nat
  BY <1>2
<1>. SUFFICES ASSUME NEW o \in DOMAIN occ
              PROVE  /\ o # m.occ => PostsOf(o)' = PostsOf(o)
                     /\ o = m.occ => PostsOf(o)' = PostsOf(o) \cup {Len(inbox[TeamOfOcc(o)]) + 1}
                     /\ \A n \in PostsOf(o) : inbox'[TeamOfOcc(o)][n] = inbox[TeamOfOcc(o)][n]
                     /\ o = m.occ => inbox'[TeamOfOcc(o)][Len(inbox[TeamOfOcc(o)]) + 1] = m
  OBVIOUS
<1>7. TeamOfOcc(o) \in Teams /\ TeamOfOcc(o)' = TeamOfOcc(o)
  BY TeamOfOccType DEF TeamOfOcc
<1>8. PostsOf(o)' = {n \in 1..Len(inbox'[TeamOfOcc(o)]) : inbox'[TeamOfOcc(o)][n].occ = o}
  BY <1>7 DEF PostsOf
<1>9. CASE TeamOfOcc(o) # t
  BY <1>5, <1>7, <1>8, <1>9 DEF PostsOf
<1>10. CASE TeamOfOcc(o) = t
  <2>1. 1..(Len(inbox[t]) + 1) = (1..Len(inbox[t])) \cup {Len(inbox[t]) + 1}
    BY <1>6
  <2>2. PostsOf(o)' = {n \in 1..(Len(inbox[t]) + 1) : Append(inbox[t], m)[n].occ = o}
    BY <1>4, <1>5, <1>8, <1>10
  <2>3. PostsOf(o) = {n \in 1..Len(inbox[t]) : inbox[t][n].occ = o}
    BY <1>10 DEF PostsOf
  <2>4. o # m.occ => PostsOf(o)' = PostsOf(o)
    BY <1>4, <2>1, <2>2, <2>3
  <2>5. o = m.occ => PostsOf(o)' = PostsOf(o) \cup {Len(inbox[t]) + 1}
    BY <1>4, <2>1, <2>2, <2>3
  <2>. QED  BY <1>4, <1>5, <1>10, <2>3, <2>4, <2>5
<1>. QED  BY <1>9, <1>10

LEMMA ArriveMail ==
    ASSUME IInv, MailInv, NEW m \in wire, Arrive(m)
    PROVE  MailInv'
<1>. USE DEF IInv, TypeOK, DispatchTypeOK
<1>1. /\ wire' = wire \ {m} /\ UNCHANGED <<occ, pc, target>>
      /\ m.occ \in DOMAIN occ
  BY DEF Arrive, storeVars, dispatcherVars, MessagesTyped, Message
<1>2. \A o \in DOMAIN occ :
         /\ o # m.occ => PostsOf(o)' = PostsOf(o)
         /\ o = m.occ => PostsOf(o)' = PostsOf(o) \cup {Len(inbox[TeamOfOcc(o)]) + 1}
         /\ \A n \in PostsOf(o) : inbox'[TeamOfOcc(o)][n] = inbox[TeamOfOcc(o)][n]
         /\ o = m.occ => inbox'[TeamOfOcc(o)][Len(inbox[TeamOfOcc(o)]) + 1] = m
  BY ArrivePosts
<1>3. \A p : OnWire(p)' => OnWire(p)
  BY <1>1 DEF OnWire
<1>4. ASSUME NEW o \in DOMAIN occ
      PROVE  MailFits(o, occ[o])'
  <2>1. MailFits(o, occ[o]) /\ TeamOfOcc(o)' = TeamOfOcc(o)
    BY DEF MailInv, TeamOfOcc
  <2>2. CASE o # m.occ
    BY <1>1, <1>2, <1>3, <2>1, <2>2 DEF MailFits
  <2>3. CASE o = m.occ
    <3>1. OnWire(o) /\ occ[o].status \in InDoubt /\ PostsOf(o) = {} /\ m.lane = occ[o].lane
      BY <2>1, <2>3 DEF OnWire, MailFits
    <3>2. ~OnWire(o)'
      <4>1. \A k \in wire : k.occ = o => k.lane = m.lane
        BY <2>1, <3>1 DEF MailFits
      <4>2. \A k \in wire : k.occ = o => k = m
        BY <2>3, <4>1 DEF MessagesTyped, Message
      <4>. QED  BY <1>1, <4>2 DEF OnWire
    <3>3. PostsOf(o)' = {Len(inbox[TeamOfOcc(o)]) + 1} /\ inbox'[TeamOfOcc(o)][Len(inbox[TeamOfOcc(o)]) + 1] = m
      BY <1>2, <2>3, <3>1
    <3>4. occ[o].event = NoEvent
      BY <2>1, <3>1 DEF MailFits
    <3>. QED  BY <1>1, <2>1, <3>1, <3>2, <3>3, <3>4 DEF MailFits, InDoubt, Waiting, Running
  <2>. QED  BY <2>2, <2>3
<1>5. ASSUME NEW d \in Dispatchers, pc'[d] = "send"
      PROVE  Unsent(target[d])'
  <2>1. target[d] \in DOMAIN occ /\ Unsent(target[d])
    BY <1>1, <1>5, TargetKnown DEF MailInv
  <2>2. target[d] # m.occ
    BY <2>1 DEF Unsent, OnWire
  <2>. QED  BY <1>1, <1>2, <1>3, <2>1, <2>2 DEF Unsent
<1>. QED  BY <1>1, <1>4, <1>5 DEF MailInv

LEMMA LoseMail ==
    ASSUME MailInv, NEW m \in wire, Lose(m)
    PROVE  MailInv'
<1>1. wire' = wire \ {m} /\ UNCHANGED <<occ, pc, target, inbox>>
  BY DEF Lose, storeVars, dispatcherVars
<1>2. \A p : PostsOf(p)' = PostsOf(p) /\ TeamOfOcc(p)' = TeamOfOcc(p) /\ (OnWire(p)' => OnWire(p))
  BY <1>1 DEF PostsOf, OnWire, TeamOfOcc
<1>. QED  BY <1>1, <1>2 DEF MailInv, MailFits, Unsent

LEMMA NextMail == IInv /\ IInv' /\ MailInv /\ [Next]_vars => MailInv'
<1>. SUFFICES ASSUME IInv, IInv', MailInv, [Next]_vars PROVE MailInv'
  OBVIOUS
<1>. USE DEF IInv, TypeOK, DispatchTypeOK
<1>1. CASE Store \/ \E o \in DOMAIN occ : Recover(o)
  <2>1. /\ OwnerCommand \/ Infrastructure \/ \E o \in DOMAIN occ : FailOccurrence(o)
        /\ UNCHANGED <<dispatcherVars, transportVars>>
    BY <1>1 DEF Store, Recover
  <2>. QED  BY <2>1, StoreRows, StoreMail DEF Coordination
<1>2. CASE \E d \in Dispatchers : Dispatch(d)
  BY <1>2, ReaderMail, WriterMail, ClaimMail, SendMail DEF Dispatch, Progress
<1>3. CASE \E m \in wire : Arrive(m) \/ Lose(m)
  BY <1>3, ArriveMail, LoseMail
<1>4. CASE UNCHANGED vars
  <2>1. UNCHANGED <<occ, pc, target, transportVars>>
    BY <1>4 DEF vars, transportVars
  <2>. QED  BY <2>1, ReadMail DEF MailInv
<1>. QED  BY <1>1, <1>2, <1>3, <1>4 DEF Next

LEMMA InitMail == Init => MailInv
BY DEF Init, StoreInit, MailInv

(* The rows and the messages agree in every reachable state. *)
LEMMA MailHolds == Spec => []MailInv
BY InitMail, NextMail, Inductive, PTL DEF Spec

(* What the tables call delivered, started or completed, or give an event  *)
(* id, is in the inbox, in the lane and at the place the row records.      *)
THEOREM ReceiptsNameMessages == Spec => []ReceiptsAreReal
<1>1. MailInv => ReceiptsAreReal
  BY DEF MailInv, MailFits, ReceiptsAreReal, FoundIn
<1>. QED  BY <1>1, MailHolds, PTL

(* What was withdrawn, or closed unsent by the commissioner, was not sent, *)
(* is not being sent and, being closed, never will be.                     *)
THEOREM WithdrawnWorkIsNeverSent == Spec => []WithdrawnIsNeverSent
<1>1. MailInv => WithdrawnIsNeverSent
  BY DEF MailInv, MailFits, WithdrawnIsNeverSent, InDoubt
<1>. QED  BY <1>1, MailHolds, PTL

-----------------------------------------------------------------------------
(* Retirement.                                                             *)

(* An appointment found completed was so before, in the same version, or   *)
(* has just been completed by an occurrence of its version.                *)
RetiresStep ==
    \A s \in DOMAIN sched' : sched'[s].status = "completed" =>
        \/ /\ s \in DOMAIN sched /\ sched[s].status = "completed"
           /\ sched'[s].version = sched[s].version
        \/ \E o \in DOMAIN occ' : /\ o.sched = s /\ o.version = sched'[s].version
                                  /\ occ'[o].status = "completed"

LEMMA CloseOutRetires ==
    ASSUME StoreTypeOK, NEW o \in DOMAIN occ, NEW st \in AckStates,
           CloseOut(o, st), occ' = [occ EXCEPT ![o] = Executed(@, st)]
    PROVE  RetiresStep
<1>1. o.sched \in DOMAIN sched /\ occ[o] \in OccurrenceRows
  BY DEF StoreTypeOK, OccurrencesTyped
<1>2. \A s \in DOMAIN sched : sched[s] \in ScheduleRows
  BY DEF StoreTypeOK, SchedulesTyped
<1>3. CASE st = "completed" /\ Retires(o)
  <2>1. sched' = [sched EXCEPT ![o.sched].status = "completed"] /\ sched[o.sched].version = o.version
    BY <1>3 DEF CloseOut, Retires
  <2>2. occ'[o].status = "completed"
    BY <1>1, <1>3 DEF Executed, OccurrenceRows
  <2>. QED  BY <1>1, <1>2, <2>1, <2>2 DEF RetiresStep, ScheduleRows
<1>4. CASE ~(st = "completed" /\ Retires(o))
  BY <1>4 DEF CloseOut, RetiresStep
<1>. QED  BY <1>3, <1>4

(* What a calendar event does to the appointments. *)
LEMMA RedatedRows ==
    ASSUME StoreTypeOK, NEW e \in CalendarEvents, NEW at \in 0..MaxTime, NEW gone \in BOOLEAN,
           RecordCalendarEvent(e, at, gone)
    PROVE  /\ DOMAIN sched' = DOMAIN sched
           /\ \A s \in DOMAIN sched \ AnchoredTo(e) : sched'[s] = sched[s]
           /\ \A s \in AnchoredTo(e) :
                 /\ sched'[s].status = "active" /\ sched[s].status = "active"
                 /\ sched'[s].timing = sched[s].timing
                 /\ sched'[s].version = sched[s].version + 1
<1>1. DOMAIN sched' = DOMAIN sched
  BY DEF RecordCalendarEvent
<1>2. \A s \in DOMAIN sched : sched[s] \in ScheduleRows
  BY DEF StoreTypeOK, SchedulesTyped
<1>3. \A s \in AnchoredTo(e) : s \in DOMAIN sched /\ sched[s].timing.offset \in Int
  BY TimingsAssumption DEF AnchoredTo, StoreTypeOK, SchedulesTyped, ScheduleRows
<1>4. ASSUME NEW s \in DOMAIN sched \ AnchoredTo(e)
      PROVE  sched'[s] = sched[s]
  BY DEF RecordCalendarEvent
<1>5. ASSUME NEW s \in AnchoredTo(e)
      PROVE  /\ sched'[s].status = "active" /\ sched[s].status = "active"
             /\ sched'[s].timing = sched[s].timing
             /\ sched'[s].version = sched[s].version + 1
  <2>1. (IF gone THEN NoTime ELSE at + sched[s].timing.offset) \in Times
    BY <1>3 DEF Times
  <2>2. PICK t \in Times : sched'[s] = [sched[s] EXCEPT !.version = @ + 1, !.due = t]
    BY <1>3, <2>1 DEF RecordCalendarEvent
  <2>3. sched[s].status = "active"
    BY DEF AnchoredTo
  <2>. QED  BY <1>2, <1>3, <2>2, <2>3 DEF ScheduleRows
<1>. QED  BY <1>1, <1>4, <1>5

LEMMA StoreRetires ==
    ASSUME StoreTypeOK, OwnerCommand \/ Infrastructure \/ \E o \in DOMAIN occ : FailOccurrence(o)
    PROVE  RetiresStep
<1>. DEFINE Kept == \A s \in DOMAIN sched' : sched'[s].status = "completed" =>
                       /\ s \in DOMAIN sched /\ sched[s].status = "completed"
                       /\ sched'[s].version = sched[s].version
<1>1. Kept => RetiresStep
  BY DEF RetiresStep
<1>2. UNCHANGED sched => Kept
  OBVIOUS
<1>3. \A s \in DOMAIN sched : sched[s] \in ScheduleRows
  BY DEF StoreTypeOK, SchedulesTyped
<1>4. ASSUME NEW s, NEW tm, NEW due, NEW W, Redefine(s, tm, due, W)
      PROVE  Kept
  BY <1>4 DEF Redefine, PutSchedule
<1>5. ASSUME NEW s \in Schedules, Cancel(s)
      PROVE  Kept
  BY <1>3, <1>5 DEF Cancel, ScheduleRows
<1>6. ASSUME NEW e \in CalendarEvents, NEW at \in 0..MaxTime, NEW gone \in BOOLEAN,
             RecordCalendarEvent(e, at, gone)
      PROVE  Kept
  BY <1>6, RedatedRows
<1>7. ASSUME MaterializeDue
      PROVE  Kept
  BY <1>3, <1>7 DEF MaterializeDue, ScheduleRows
<1>8. CASE OwnerCommand
  <2>1. ASSUME NEW o \in DOMAIN occ, NEW st \in AckStates, Acknowledge(o, st)
        PROVE  RetiresStep
    BY <2>1, CloseOutRetires DEF Acknowledge
  <2>. QED
    <3>. HIDE DEF Kept
    <3>. QED  BY <1>1, <1>2, <1>4, <1>5, <1>8, <2>1 DEF OwnerCommand, Define, ReadAnchor, CommitAnchor
<1>9. CASE Infrastructure
  <2>1. ASSUME NEW o \in DOMAIN occ, NEW st \in AckStates, RecordExecution(o, st)
        PROVE  RetiresStep
    BY <2>1, CloseOutRetires DEF RecordExecution
  <2>. QED
    <3>. HIDE DEF Kept
    <3>. QED  BY <1>1, <1>2, <1>6, <1>7, <1>9, <2>1 DEF Infrastructure, RecordLeagueEvent, Tick
<1>10. CASE \E o \in DOMAIN occ : FailOccurrence(o)
  <2>1. PICK o \in DOMAIN occ : FailOccurrence(o)
    BY <1>10
  <2>2. UNCHANGED sched
    BY <2>1 DEF FailOccurrence
  <2>. QED  BY <1>1, <1>2, <2>2
<1>. QED  BY <1>8, <1>9, <1>10

(* A dispatcher leaves the appointments alone, and rewrites rows in place. *)
LEMMA DispatchLeavesTables ==
    ASSUME NEW d \in Dispatchers, Dispatch(d)
    PROVE  UNCHANGED <<now, sched, events, open>> /\ DOMAIN occ' = DOMAIN occ
<1>1. CASE List(d) \/ Visit(d) \/ Exhausted(d) \/ CheckOutstanding(d) \/ Select(d) \/ InspectReady(d)
  BY <1>1 DEF List, Visit, Exhausted, CheckOutstanding, Select, InspectReady, storeVars
<1>2. CASE Send(d) \/ Crash(d)
  BY <1>2 DEF Send, Crash, storeVars
<1>3. CASE ReconcileFound(d) \/ Receipt(d)
  <2>1. PICK n : Delivered(target[d], n)
    BY <1>3 DEF ReconcileFound, Receipt
  <2>2. DOMAIN occ' = DOMAIN occ
    BY <2>1 DEF Delivered, SetRow
  <2>. QED  BY <1>3, <2>2 DEF ReconcileFound, Receipt
<1>4. CASE ReconcileUnknown(d) \/ ReconcileAbsent(d) \/ NoReceipt(d)
  BY <1>4 DEF ReconcileUnknown, ReconcileAbsent, NoReceipt, SetRow
<1>5. ASSUME NEW st \in Waiting, InspectNotReady(d, st)
      PROVE  UNCHANGED <<now, sched, events, open>> /\ DOMAIN occ' = DOMAIN occ
  BY <1>5 DEF InspectNotReady, SetRow
<1>6. CASE Claim(d)
  BY <1>6 DEF Claim, SetRow
<1>. QED  BY <1>1, <1>2, <1>3, <1>4, <1>5, <1>6 DEF Dispatch, Progress

(* So do the messages. *)
LEMMA TransitLeavesTables ==
    ASSUME (\E m \in wire : Arrive(m) \/ Lose(m)) \/ UNCHANGED vars
    PROVE  UNCHANGED <<now, sched, occ, events, open, pc, team, target>>
<1>1. ASSUME NEW m \in wire, Arrive(m) \/ Lose(m)
      PROVE  UNCHANGED <<now, sched, occ, events, open, pc, team, target>>
  BY <1>1 DEF Arrive, Lose, storeVars, dispatcherVars
<1>. QED  BY <1>1 DEF vars

LEMMA NextRetires ==
    ASSUME IInv, [Next]_vars
    PROVE  RetiresStep
<1>1. UNCHANGED sched => RetiresStep
  BY DEF RetiresStep
<1>2. CASE Store \/ \E o \in DOMAIN occ : Recover(o)
  BY <1>2, StoreRetires DEF Store, Recover, IInv, TypeOK
<1>3. CASE (\E d \in Dispatchers : Dispatch(d)) \/ (\E m \in wire : Arrive(m) \/ Lose(m)) \/ UNCHANGED vars
  BY <1>1, <1>3, DispatchLeavesTables, TransitLeavesTables
<1>. QED  BY <1>2, <1>3 DEF Next

(* Rows never disappear. *)
LEMMA RowsRemain ==
    ASSUME IInv, [Next]_vars
    PROVE  DOMAIN occ \subseteq DOMAIN occ'
<1>1. CASE Store \/ \E o \in DOMAIN occ : Recover(o)
  <2>1. OwnerCommand \/ Infrastructure \/ \E o \in DOMAIN occ : FailOccurrence(o)
    BY <1>1 DEF Store, Recover
  <2>. QED  BY <2>1, StoreRows DEF IInv, TypeOK, Coordination, RowsStep
<1>2. CASE \E d \in Dispatchers : Dispatch(d)
  BY <1>2, DispatchLeavesTables
<1>3. CASE (\E m \in wire : Arrive(m) \/ Lose(m)) \/ UNCHANGED vars
  BY <1>3, TransitLeavesTables
<1>. QED  BY <1>1, <1>2, <1>3 DEF Next

(* Rows never disappear, and what is closed stays closed. *)
LEMMA ClosedStays ==
    ASSUME IInv, [Next]_vars, NEW o \in DOMAIN occ, occ[o].status \in Closed
    PROVE  o \in DOMAIN occ' /\ occ'[o].status = occ[o].status
<1>1. CASE DispatcherWrites /\ DOMAIN occ \subseteq DOMAIN occ'
  BY <1>1 DEF DispatcherWrites, Closed, Waiting, InDoubt
<1>2. CASE RowsStep
  BY <1>2, ClosedRowStays DEF RowsStep, IInv, TypeOK, StoreTypeOK, OccurrencesTyped
<1>. QED  BY <1>1, <1>2, RowHistory, RowsRemain

(* An appointment is retired only by completed work of its own definition: *)
(* a late completion of replaced work retires nothing.                     *)
THEOREM OnlyOwnWorkRetires == Spec => []RetiredByItsOwnWork
<1>1. Init => RetiredByItsOwnWork
  BY DEF Init, StoreInit, RetiredByItsOwnWork
<1>2. IInv /\ IInv' /\ RetiredByItsOwnWork /\ [Next]_vars => RetiredByItsOwnWork'
  <2>. SUFFICES ASSUME IInv, IInv', RetiredByItsOwnWork, [Next]_vars,
                       NEW s \in DOMAIN sched', sched'[s].status = "completed"
                PROVE  \E o \in DOMAIN occ' : /\ o.sched = s /\ o.version = sched'[s].version
                                              /\ occ'[o].status = "completed"
    BY DEF RetiredByItsOwnWork, OccsOf
  <2>1. CASE /\ s \in DOMAIN sched /\ sched[s].status = "completed"
             /\ sched'[s].version = sched[s].version
    <3>1. PICK o \in OccsOf(s) : o.version = sched[s].version /\ occ[o].status = "completed"
      BY <2>1 DEF RetiredByItsOwnWork
    <3>2. o \in DOMAIN occ' /\ occ'[o].status = "completed"
      BY <3>1, ClosedStays DEF OccsOf, Closed
    <3>. QED  BY <2>1, <3>1, <3>2 DEF OccsOf
  <2>. QED  BY <2>1, NextRetires DEF RetiresStep
<1>. QED  BY <1>1, <1>2, Inductive, PTL DEF Spec

-----------------------------------------------------------------------------
(* Current definitions.                                                    *)

(* Work that waits belongs to the current definition of a live appointment. *)
CurrentRows ==
    \A o \in DOMAIN occ :
        /\ o.version <= sched[o.sched].version
        /\ occ[o].status \in Waiting =>
              sched[o.sched].status = "active" /\ sched[o.sched].version = o.version

(* An open command read all the waiting work it is going to withdraw: the  *)
(* row lock it holds keeps new work away.                                  *)
OpenReads == \A c \in open : WaitingOf(c.sched) \subseteq c.withdrawn

(* A definition that comes due once has no occurrence before, and one after. *)
OneOff(s) ==
    sched[s].timing.kind \in {"once", "event"} =>
        /\ sched[s].timing.kind = "once" => sched[s].due \in {sched[s].timing.at, NoTime}
        /\ sched[s].due # NoTime => \A o \in OccsOf(s) : o.version # sched[s].version
        /\ \A o, p \in OccsOf(s) :
              o.version = sched[s].version /\ p.version = sched[s].version => o = p

CurrentInv == CurrentRows /\ OpenReads /\ \A s \in DOMAIN sched : OneOff(s)

\* No row starts to wait, and none is added or removed.
NoNewWork ==
    /\ DOMAIN occ' = DOMAIN occ
    /\ \A o \in DOMAIN occ : occ'[o].status \in Waiting => occ[o].status \in Waiting

LEMMA WithdrawnWork ==
    ASSUME NEW W, \A o \in DOMAIN occ : occ[o] \in OccurrenceRows, occ' = Withdraw(W)
    PROVE  NoNewWork /\ \A o \in W \cap DOMAIN occ : occ'[o].status \notin Waiting
BY DEF Withdraw, NoNewWork, OccurrenceRows, Waiting

LEMMA ExecutedWork ==
    ASSUME NEW o \in DOMAIN occ, occ[o] \in OccurrenceRows, NEW st \in AckStates,
           occ' = [occ EXCEPT ![o] = Executed(@, st)]
    PROVE  NoNewWork /\ occ'[o].status = st
<1>1. occ'[o].status = st /\ DOMAIN occ' = DOMAIN occ
  BY DEF Executed, OccurrenceRows
<1>2. \A p \in DOMAIN occ : p # o => occ'[p] = occ[p]
  OBVIOUS
<1>. QED  BY <1>1, <1>2 DEF NoNewWork, Waiting, AckStates

(* Rows that only leave the queue disturb nothing. *)
LEMMA QuietCurrent ==
    ASSUME StoreTypeOK, CurrentInv, NoNewWork, UNCHANGED <<sched, open>>
    PROVE  CurrentInv'
<1>1. CurrentRows'
  BY DEF CurrentInv, CurrentRows, NoNewWork
<1>2. OpenReads'
  BY DEF CurrentInv, OpenReads, NoNewWork, WaitingOf, OccsOf
<1>3. ASSUME NEW s \in DOMAIN sched
      PROVE  OneOff(s)'
  BY DEF CurrentInv, OneOff, NoNewWork, OccsOf
<1>. QED  BY <1>1, <1>2, <1>3 DEF CurrentInv

(* A definition replaced or cancelled, all its waiting work withdrawn.     *)
LEMMA ReplacedCurrent ==
    ASSUME StoreTypeOK, CurrentInv, NoNewWork, NEW s,
           \A o \in WaitingOf(s) : occ'[o].status \notin Waiting,
           DOMAIN sched' = DOMAIN sched \cup {s},
           \A x \in DOMAIN sched \ {s} : sched'[x] = sched[x],
           s \in DOMAIN sched => sched'[s].version = sched[s].version + 1,
           sched'[s].timing.kind = "once" => sched'[s].due \in {sched'[s].timing.at, NoTime},
           open' \subseteq open
    PROVE  CurrentInv'
<1>1. \A o \in DOMAIN occ : o.sched \in DOMAIN sched /\ sched[o.sched].version \in Nat /\ o.version \in Nat
  BY DEF StoreTypeOK, OccurrencesTyped, SchedulesTyped, OccurrenceIds, ScheduleRows
<1>2. \A o \in DOMAIN occ : o.sched = s => o.version < sched'[s].version
  BY <1>1 DEF CurrentInv, CurrentRows
<1>3. CurrentRows'
  <2>. SUFFICES ASSUME NEW o \in DOMAIN occ
                PROVE  /\ o.version <= sched'[o.sched].version
                       /\ occ'[o].status \in Waiting =>
                            sched'[o.sched].status = "active" /\ sched'[o.sched].version = o.version
    BY DEF CurrentRows, NoNewWork
  <2>1. CASE o.sched = s
    <3>1. occ'[o].status \notin Waiting
      BY <2>1 DEF NoNewWork, WaitingOf, OccsOf
    <3>2. sched'[s].version \in Nat
      BY <1>1, <2>1
    <3>. QED  BY <1>1, <1>2, <2>1, <3>1, <3>2
  <2>2. CASE o.sched # s
    BY <1>1, <2>2 DEF CurrentInv, CurrentRows, NoNewWork
  <2>. QED  BY <2>1, <2>2
<1>4. OpenReads'
  BY DEF CurrentInv, OpenReads, NoNewWork, WaitingOf, OccsOf
<1>5. OneOff(s)'
  <2>1. \A o \in OccsOf(s)' : o.version # sched'[s].version
    BY <1>1, <1>2 DEF NoNewWork, OccsOf
  <2>. QED  BY <2>1 DEF OneOff
<1>6. ASSUME NEW x \in DOMAIN sched \ {s}
      PROVE  OneOff(x)'
  BY DEF CurrentInv, OneOff, NoNewWork, OccsOf
<1>. QED  BY <1>3, <1>4, <1>5, <1>6 DEF CurrentInv

LEMMA RedefineCurrent ==
    ASSUME StoreTypeOK, CurrentInv, NEW s, NEW tm, NEW due, NEW W, Redefine(s, tm, due, W),
           WaitingOf(s) \subseteq W, open' \subseteq open,
           tm.kind = "once" => due \in {tm.at, NoTime}
    PROVE  CurrentInv'
<1>1. NoNewWork /\ \A o \in WaitingOf(s) : occ'[o].status \notin Waiting
  BY WithdrawnWork DEF Redefine, StoreTypeOK, OccurrencesTyped, WaitingOf, OccsOf
<1>2. /\ DOMAIN sched' = DOMAIN sched \cup {s}
      /\ \A x \in DOMAIN sched \ {s} : sched'[x] = sched[x]
      /\ s \in DOMAIN sched => sched'[s].version = sched[s].version + 1
      /\ sched'[s].timing = tm /\ sched'[s].due = due
  BY DEF Redefine, PutSchedule
<1>. QED  BY <1>1, <1>2, ReplacedCurrent

LEMMA OwnerDefinesCurrent ==
    ASSUME StoreTypeOK, OpenCommands, CurrentInv,
           \/ \E s \in Schedules, tm \in Timings : Define(s, tm)
           \/ \E c \in open : CommitAnchor(c)
           \/ \E s \in Schedules : Cancel(s)
    PROVE  CurrentInv'
<1>1. ASSUME NEW s \in Schedules, NEW tm \in Timings, Define(s, tm)
      PROVE  CurrentInv'
  <2>1. tm.kind = "once" => InitialDue(tm) \in {tm.at, NoTime}
    BY DEF InitialDue
  <2>. QED  BY <1>1, <2>1, RedefineCurrent DEF Define
<1>2. ASSUME NEW c \in open, CommitAnchor(c)
      PROVE  CurrentInv'
  <2>1. c.timing.kind # "once" /\ WaitingOf(c.sched) \subseteq c.withdrawn
    BY DEF StoreTypeOK, OpenTyped, CurrentInv, OpenReads
  <2>. QED  BY <1>2, <2>1, RedefineCurrent DEF CommitAnchor
<1>3. ASSUME NEW s \in Schedules, Cancel(s)
      PROVE  CurrentInv'
  <2>1. NoNewWork /\ \A o \in WaitingOf(s) : occ'[o].status \notin Waiting
    BY <1>3, WithdrawnWork DEF Cancel, StoreTypeOK, OccurrencesTyped, WaitingOf, OccsOf
  <2>2. s \in DOMAIN sched /\ sched[s] \in ScheduleRows
    BY <1>3 DEF Cancel, StoreTypeOK, SchedulesTyped
  <2>3. sched' = [sched EXCEPT ![s].status = "cancelled", ![s].due = NoTime, ![s].version = @ + 1]
    BY <1>3 DEF Cancel
  <2>4. /\ DOMAIN sched' = DOMAIN sched \cup {s}
        /\ \A x \in DOMAIN sched \ {s} : sched'[x] = sched[x]
        /\ sched'[s].version = sched[s].version + 1
        /\ sched'[s].due = NoTime
    BY <2>2, <2>3 DEF ScheduleRows
  <2>. QED  BY <1>3, <2>1, <2>4, ReplacedCurrent DEF Cancel
<1>. QED  BY <1>1, <1>2, <1>3

(* A read under the command lock sees all the waiting work. *)
LEMMA ReadAnchorCurrent ==
    ASSUME CurrentInv, NEW s, NEW tm, ReadAnchor(s, tm)
    PROVE  CurrentInv'
<1>1. UNCHANGED <<sched, occ>>
      /\ \A c \in open' : c \in open \/ (c.sched = s /\ c.withdrawn = WaitingOf(s))
  BY DEF ReadAnchor
<1>2. OpenReads'
  BY <1>1 DEF CurrentInv, OpenReads, WaitingOf, OccsOf
<1>. QED  BY <1>1, <1>2 DEF CurrentInv, CurrentRows, OneOff, OccsOf

(* Completed work retires its definition, which has no other occurrence.   *)
LEMMA CloseOutCurrent ==
    ASSUME StoreTypeOK, CurrentInv, NEW o \in DOMAIN occ, NEW st \in AckStates,
           occ' = [occ EXCEPT ![o] = Executed(@, st)], CloseOut(o, st), UNCHANGED open
    PROVE  CurrentInv'
<1>1. NoNewWork /\ occ'[o].status = st
  BY ExecutedWork DEF StoreTypeOK, OccurrencesTyped
<1>2. CASE ~(st = "completed" /\ Retires(o))
  BY <1>1, <1>2, QuietCurrent DEF CloseOut
<1>3. CASE st = "completed" /\ Retires(o)
  <2>. DEFINE s == o.sched
  <2>1. s \in DOMAIN sched /\ sched[s] \in ScheduleRows
    BY DEF StoreTypeOK, OccurrencesTyped, SchedulesTyped
  <2>2. sched' = [sched EXCEPT ![s].status = "completed"]
    BY <1>3 DEF CloseOut
  <2>3. /\ DOMAIN sched' = DOMAIN sched
        /\ \A x \in DOMAIN sched \ {s} : sched'[x] = sched[x]
        /\ sched'[s].version = sched[s].version
        /\ sched'[s].timing = sched[s].timing /\ sched'[s].due = sched[s].due
    BY <2>1, <2>2 DEF ScheduleRows
  <2>4. \A p \in OccsOf(s) : p.version = sched[s].version => p = o
    BY <1>3, <2>1 DEF CurrentInv, OneOff, Retires, OccsOf
  <2>5. \A p \in DOMAIN occ : p.sched = s => occ'[p].status \notin Waiting
    BY <1>1, <1>3, <2>4 DEF CurrentInv, CurrentRows, NoNewWork, OccsOf, Waiting
  <2>6. CurrentRows'
    <3>. HIDE DEF s
    <3>1. ASSUME NEW p \in DOMAIN occ
          PROVE  /\ p.version <= sched'[p.sched].version
                 /\ occ'[p].status \in Waiting =>
                      sched'[p.sched].status = "active" /\ sched'[p.sched].version = p.version
      <4>1. p.sched \in DOMAIN sched
        BY DEF StoreTypeOK, OccurrencesTyped
      <4>. QED  BY <1>1, <2>3, <2>5, <4>1 DEF CurrentInv, CurrentRows, NoNewWork
    <3>. QED  BY <1>1, <3>1 DEF CurrentRows, NoNewWork
  <2>7. OpenReads'
    BY <1>1 DEF CurrentInv, OpenReads, NoNewWork, WaitingOf, OccsOf
  <2>8. ASSUME NEW x \in DOMAIN sched
        PROVE  OneOff(x)'
    <3>. HIDE DEF s
    <3>1. OccsOf(x)' = OccsOf(x)
      BY <1>1 DEF NoNewWork, OccsOf
    <3>2. sched'[x].version = sched[x].version /\ sched'[x].timing = sched[x].timing
          /\ sched'[x].due = sched[x].due
      BY <2>3
    <3>. QED  BY <3>1, <3>2 DEF CurrentInv, OneOff
  <2>. QED  BY <2>3, <2>6, <2>7, <2>8 DEF CurrentInv
<1>. QED  BY <1>2, <1>3

(* A moved calendar event is a new definition of every appointment on it.  *)
LEMMA CalendarCurrent ==
    ASSUME StoreTypeOK, CurrentInv, NEW e \in CalendarEvents, NEW at \in 0..MaxTime,
           NEW gone \in BOOLEAN, RecordCalendarEvent(e, at, gone)
    PROVE  CurrentInv'
<1>. DEFINE hit == AnchoredTo(e)
<1>1. occ' = Withdraw(UNION {WaitingOf(s) : s \in hit}) /\ UNCHANGED open
  BY DEF RecordCalendarEvent
<1>2. NoNewWork /\ \A s \in hit : \A o \in WaitingOf(s) : occ'[o].status \notin Waiting
  BY <1>1, WithdrawnWork DEF StoreTypeOK, OccurrencesTyped, WaitingOf, OccsOf
<1>3. /\ DOMAIN sched' = DOMAIN sched
      /\ \A s \in DOMAIN sched \ hit : sched'[s] = sched[s]
      /\ \A s \in hit : /\ sched'[s].timing = sched[s].timing
                        /\ sched'[s].version = sched[s].version + 1
  BY RedatedRows
<1>. HIDE DEF hit
<1>4. \A o \in DOMAIN occ : o.sched \in DOMAIN sched /\ sched[o.sched].version \in Nat /\ o.version \in Nat
  BY DEF StoreTypeOK, OccurrencesTyped, SchedulesTyped, OccurrenceIds, ScheduleRows
<1>5. CurrentRows'
  <2>1. ASSUME NEW o \in DOMAIN occ
        PROVE  /\ o.version <= sched'[o.sched].version
               /\ occ'[o].status \in Waiting =>
                    sched'[o.sched].status = "active" /\ sched'[o.sched].version = o.version
    <3>1. CASE o.sched \in hit
      <4>1. occ'[o].status \notin Waiting
        BY <1>2, <3>1 DEF NoNewWork, WaitingOf, OccsOf
      <4>. QED  BY <1>3, <1>4, <3>1, <4>1 DEF CurrentInv, CurrentRows
    <3>2. CASE o.sched \notin hit
      BY <1>2, <1>3, <1>4, <3>2 DEF CurrentInv, CurrentRows, NoNewWork
    <3>. QED  BY <3>1, <3>2
  <2>. QED  BY <1>2, <2>1 DEF CurrentRows, NoNewWork
<1>6. OpenReads'
  BY <1>1, <1>2 DEF CurrentInv, OpenReads, NoNewWork, WaitingOf, OccsOf
<1>7. ASSUME NEW s \in DOMAIN sched
      PROVE  OneOff(s)'
  <2>1. OccsOf(s)' = OccsOf(s)
    BY <1>2 DEF NoNewWork, OccsOf
  <2>2. CASE s \in hit
    <3>1. \A o \in OccsOf(s) : o.version # sched'[s].version
      BY <1>3, <1>4, <2>2 DEF CurrentInv, CurrentRows, OccsOf
    <3>2. sched'[s].timing.kind # "once"
      BY <1>3, <2>2 DEF hit, AnchoredTo
    <3>. QED  BY <2>1, <3>1, <3>2 DEF OneOff
  <2>3. CASE s \notin hit
    BY <1>3, <2>1, <2>3 DEF CurrentInv, OneOff
  <2>. QED  BY <2>2, <2>3
<1>. QED  BY <1>3, <1>5, <1>6, <1>7 DEF CurrentInv

(* New work, of current definitions not locked by a command. *)
LEMMA NewWorkCurrent ==
    ASSUME StoreTypeOK, CurrentInv, UNCHANGED open,
           DOMAIN occ \subseteq DOMAIN occ',
           \A o \in DOMAIN occ : occ'[o].status \in Waiting => occ[o].status \in Waiting,
           \A o \in DOMAIN occ' \ DOMAIN occ :
              /\ o.sched \in DOMAIN sched /\ sched[o.sched].status = "active"
              /\ o.version = sched[o.sched].version /\ RowFree(o.sched),
           DOMAIN sched' = DOMAIN sched,
           \A s \in DOMAIN sched : /\ sched'[s].status = sched[s].status
                                   /\ sched'[s].version = sched[s].version,
           \A s \in DOMAIN sched : OneOff(s)'
    PROVE  CurrentInv'
<1>1. \A o \in DOMAIN occ : o.sched \in DOMAIN sched
  BY DEF StoreTypeOK, OccurrencesTyped
<1>2. \A s \in DOMAIN sched : sched[s].version \in Nat
  BY DEF StoreTypeOK, SchedulesTyped, ScheduleRows
<1>3. CurrentRows'
  BY <1>1, <1>2 DEF CurrentInv, CurrentRows
<1>4. OpenReads'
  BY DEF CurrentInv, OpenReads, WaitingOf, OccsOf, RowFree
<1>. QED  BY <1>3, <1>4 DEF CurrentInv

LEMMA LeagueEventCurrent ==
    ASSUME StoreTypeOK, CurrentInv, NEW e, NEW at \in Int, RecordLeagueEvent(e, at)
    PROVE  CurrentInv'
<1>1. /\ occ' = [o \in DOMAIN occ \cup {IdOf(s, e.id) : s \in SubscribedTo(e)} |->
                    IF o \in DOMAIN occ THEN occ[o] ELSE NewRow(at)]
      /\ \A s \in SubscribedTo(e) : RowFree(s)
      /\ UNCHANGED <<sched, open>>
  BY DEF RecordLeagueEvent
<1>2. \A o \in DOMAIN occ' \ DOMAIN occ : \E s \in SubscribedTo(e) : o = IdOf(s, e.id)
  BY <1>1
<1>3. \A s \in SubscribedTo(e) : /\ s \in DOMAIN sched /\ sched[s].status = "active"
                                 /\ sched[s].timing.kind = "subscription"
  BY DEF SubscribedTo
<1>4. \A o \in DOMAIN occ' \ DOMAIN occ :
         /\ o.sched \in DOMAIN sched /\ sched[o.sched].status = "active"
         /\ o.version = sched[o.sched].version /\ RowFree(o.sched)
         /\ sched[o.sched].timing.kind = "subscription"
  BY <1>1, <1>2, <1>3 DEF IdOf
<1>5. ASSUME NEW s \in DOMAIN sched
      PROVE  OneOff(s)'
  <2>1. sched[s].timing.kind \in {"once", "event"} => OccsOf(s)' = OccsOf(s)
    BY <1>1, <1>4 DEF OccsOf
  <2>. QED  BY <1>1, <2>1 DEF CurrentInv, OneOff
<1>6. \A o \in DOMAIN occ : occ'[o] = occ[o]
  BY <1>1
<1>. QED  BY <1>1, <1>4, <1>5, <1>6, NewWorkCurrent

(* A due time that has passed does not come back. *)
LEMMA SpentOnce ==
    ASSUME NEW tm, NEW after \in Int, tm.kind \in {"once", "event"},
           tm.kind = "once" => tm.at \in Int /\ tm.at <= after
    PROVE  NextTime(tm, after) = NoTime
BY DEF NextTime

LEMMA MaterializeCurrent ==
    ASSUME StoreTypeOK, CurrentInv, MaterializeDue
    PROVE  CurrentInv'
<1>. DEFINE new == {IdOf(s, sched[s].due) : s \in {x \in DueNow : Coalesced(x) = {}}}
            absorbing == UNION {Coalesced(s) : s \in DueNow}
<1>1. /\ occ' = [o \in DOMAIN occ \cup new |->
              IF o \notin DOMAIN occ THEN NewRow(o.key)
              ELSE IF o \in absorbing THEN [occ[o] EXCEPT !.missedThrough = now]
              ELSE occ[o]]
      /\ sched' = [s \in DOMAIN sched |->
              IF s \in DueNow THEN [sched[s] EXCEPT !.due = NextTime(sched[s].timing, now)]
              ELSE sched[s]]
      /\ \A s \in DueNow : RowFree(s)
      /\ UNCHANGED open
  BY DEF MaterializeDue
<1>2. \A o \in new : \E s \in DueNow : o = IdOf(s, sched[s].due)
  OBVIOUS
<1>3. DOMAIN occ' = DOMAIN occ \cup new
  BY <1>1
<1>4. \A o \in DOMAIN occ : occ'[o].status = occ[o].status
  <2>1. \A o \in DOMAIN occ : occ[o] \in OccurrenceRows
    BY DEF StoreTypeOK, OccurrencesTyped
  <2>2. \A o \in DOMAIN occ : occ'[o] = occ[o] \/ occ'[o] = [occ[o] EXCEPT !.missedThrough = now]
    BY <1>1
  <2>. QED  BY <2>1, <2>2 DEF OccurrenceRows
<1>. HIDE DEF new, absorbing
<1>5. \A s \in DueNow : s \in DOMAIN sched /\ sched[s].status = "active" /\ sched[s].due # NoTime
  BY DEF DueNow
<1>6. \A o \in DOMAIN occ' \ DOMAIN occ :
         /\ o.sched \in DOMAIN sched /\ sched[o.sched].status = "active"
         /\ o.version = sched[o.sched].version /\ RowFree(o.sched)
  BY <1>1, <1>2, <1>3, <1>5 DEF IdOf
<1>7. \A s \in DOMAIN sched : sched[s] \in ScheduleRows
  BY DEF StoreTypeOK, SchedulesTyped
<1>8. /\ DOMAIN sched' = DOMAIN sched
      /\ \A s \in DOMAIN sched \ DueNow : sched'[s] = sched[s]
      /\ \A s \in DOMAIN sched : /\ sched'[s].status = sched[s].status
                                 /\ sched'[s].version = sched[s].version
                                 /\ sched'[s].timing = sched[s].timing
      /\ \A s \in DueNow : sched'[s].due = NextTime(sched[s].timing, now)
  BY <1>1, <1>5, <1>7 DEF ScheduleRows
<1>9. ASSUME NEW s \in DOMAIN sched
      PROVE  OneOff(s)'
  <2>1. CASE s \notin DueNow
    <3>1. OccsOf(s)' = OccsOf(s)
      BY <1>2, <1>3, <2>1 DEF OccsOf, IdOf
    <3>. QED  BY <1>8, <2>1, <3>1 DEF CurrentInv, OneOff
  <2>2. CASE s \in DueNow
    <3>1. SUFFICES ASSUME sched[s].timing.kind \in {"once", "event"}
                   PROVE  /\ sched'[s].due = NoTime
                          /\ \A o, p \in OccsOf(s)' :
                                o.version = sched[s].version /\ p.version = sched[s].version => o = p
      BY <1>8 DEF OneOff
    <3>2. sched[s].due \in Int /\ sched[s].due <= now /\ now \in Int
      BY <2>2, <1>7 DEF DueNow, ScheduleRows, Times, StoreTypeOK
    <3>3. sched[s].timing.kind = "once" => sched[s].timing.at \in Int /\ sched[s].timing.at <= now
      BY <3>1, <3>2, <1>5, <2>2 DEF CurrentInv, OneOff
    <3>4. sched'[s].due = NoTime
      BY <1>8, <2>2, <3>1, <3>2, <3>3, SpentOnce
    <3>5. \A o \in OccsOf(s) : o.version # sched[s].version
      BY <1>5, <2>2, <3>1 DEF CurrentInv, OneOff
    <3>6. \A o \in OccsOf(s)' : o \in OccsOf(s) \/ o = IdOf(s, sched[s].due)
      BY <1>2, <1>3 DEF OccsOf, IdOf
    <3>. QED  BY <3>4, <3>5, <3>6
  <2>. QED  BY <2>1, <2>2
<1>. QED  BY <1>1, <1>3, <1>4, <1>6, <1>8, <1>9, NewWorkCurrent

LEMMA StoreCurrent ==
    ASSUME StoreTypeOK, OpenCommands, CurrentInv,
           OwnerCommand \/ Infrastructure \/ \E o \in DOMAIN occ : FailOccurrence(o)
    PROVE  CurrentInv'
<1>1. CASE OwnerCommand
  <2>1. ASSUME NEW o \in DOMAIN occ, NEW st \in AckStates, Acknowledge(o, st)
        PROVE  CurrentInv'
    BY <2>1, CloseOutCurrent DEF Acknowledge
  <2>. QED  BY <1>1, <2>1, OwnerDefinesCurrent, ReadAnchorCurrent DEF OwnerCommand
<1>2. CASE Infrastructure
  <2>1. ASSUME NEW o \in DOMAIN occ, NEW st \in AckStates, RecordExecution(o, st)
        PROVE  CurrentInv'
    BY <2>1, CloseOutCurrent DEF RecordExecution
  <2>2. ASSUME NEW e \in LeagueEvents, NEW at \in 0..now, RecordLeagueEvent(e, at)
        PROVE  CurrentInv'
    <3>1. at \in Int
      OBVIOUS
    <3>. QED  BY <2>2, <3>1, LeagueEventCurrent
  <2>3. ASSUME Tick
        PROVE  CurrentInv'
    BY <2>3, QuietCurrent DEF Tick, NoNewWork
  <2>. QED  BY <1>2, <2>1, <2>2, <2>3, CalendarCurrent, MaterializeCurrent DEF Infrastructure
<1>3. ASSUME NEW o \in DOMAIN occ, FailOccurrence(o)
      PROVE  CurrentInv'
  <2>1. occ' = [occ EXCEPT ![o] = [@ EXCEPT !.status = "failed", !.recovered = TRUE]]
        /\ UNCHANGED <<sched, open>>
    BY <1>3 DEF FailOccurrence
  <2>2. occ[o] \in OccurrenceRows
    BY DEF StoreTypeOK, OccurrencesTyped
  <2>3. NoNewWork
    BY <2>1, <2>2 DEF NoNewWork, OccurrenceRows, Waiting
  <2>. QED  BY <2>1, <2>3, QuietCurrent
<1>. QED  BY <1>1, <1>2, <1>3

\* Only waiting work is claimed.
OnlyWaitingClaimed ==
    \A o \in DOMAIN occ :
        occ[o].status # "sending" /\ occ'[o].status = "sending" => occ[o].status \in Waiting

Takes == NoNewWork /\ OnlyWaitingClaimed

(* A dispatcher whose transport cannot prove absence puts nothing back     *)
(* into the queue, and takes from it only to send or to block.             *)
LEMMA DispatchTakes ==
    ASSUME IInv, AbsenceProvable = FALSE, NEW d \in Dispatchers, Dispatch(d)
    PROVE  Takes
<1>. DEFINE x == target[d]
<1>1. UNCHANGED occ => Takes
  BY DEF NoNewWork, Takes, OnlyWaitingClaimed
<1>2. ASSUME NEW q, x \in DOMAIN occ, occ' = [occ EXCEPT ![x] = q],
             q.status \in Waiting \cup {"sending"} => occ[x].status \in Waiting
      PROVE  Takes
  <2>1. /\ DOMAIN occ' = DOMAIN occ
        /\ occ'[x] = q
        /\ \A p \in DOMAIN occ : p # x => occ'[p] = occ[p]
    BY <1>2, OneRowChanged
  <2>. QED  BY <1>2, <2>1 DEF NoNewWork, Waiting, Takes, OnlyWaitingClaimed
<1>3. CASE List(d) \/ Visit(d) \/ Exhausted(d) \/ CheckOutstanding(d) \/ Select(d)
           \/ InspectReady(d) \/ Send(d) \/ Crash(d)
  <2>1. UNCHANGED occ
    BY <1>3 DEF List, Visit, Exhausted, CheckOutstanding, Select, InspectReady, Send, Crash, storeVars
  <2>. QED  BY <1>1, <2>1
<1>4. CASE ReconcileFound(d) \/ Receipt(d)
  <2>1. PICK n \in FoundIn(x, LaneOf(x)) : Delivered(x, n)
    BY <1>4 DEF ReconcileFound, Receipt
  <2>2. pc[d] \in {"reconcile", "sent"}
    BY <1>4 DEF ReconcileFound, Receipt
  <2>3. x \in DOMAIN occ /\ occ[x] \in OccurrenceRows
    BY <2>2, TargetKnown
  <2>4. occ' = [occ EXCEPT ![x] = [occ[x] EXCEPT !.status = "delivered", !.event = n,
                                       !.deliveredAt = stamps[TeamOfOcc(x)] + 1]]
    BY <2>1 DEF Delivered, SetRow
  <2>5. [occ[x] EXCEPT !.status = "delivered", !.event = n,
                       !.deliveredAt = stamps[TeamOfOcc(x)] + 1].status = "delivered"
    BY <2>3 DEF OccurrenceRows
  <2>. QED  BY <1>2, <2>3, <2>4, <2>5 DEF Waiting
<1>5. CASE ReconcileUnknown(d) \/ NoReceipt(d)
  <2>1. occ' = [occ EXCEPT ![x] = [occ[x] EXCEPT !.status = "uncertain"]]
        /\ pc[d] \in {"reconcile", "sent"}
    BY <1>5 DEF ReconcileUnknown, NoReceipt, NoReceiptStatus, SetRow
  <2>2. x \in DOMAIN occ /\ occ[x] \in OccurrenceRows
    BY <2>1, TargetKnown
  <2>3. [occ[x] EXCEPT !.status = "uncertain"].status = "uncertain"
    BY <2>2 DEF OccurrenceRows
  <2>. QED  BY <1>2, <2>1, <2>2, <2>3 DEF Waiting
<1>6. ASSUME NEW st \in Waiting, InspectNotReady(d, st)
      PROVE  Takes
  <2>1. CASE occ[x].status \in Waiting
    <3>1. occ' = [occ EXCEPT ![x] = [occ[x] EXCEPT !.status = st]] /\ pc[d] = "inspect"
      BY <1>6, <2>1 DEF InspectNotReady, SetRow
    <3>. QED  BY <1>2, <2>1, <3>1, TargetKnown
  <2>2. CASE occ[x].status \notin Waiting
    BY <1>1, <1>6, <2>2 DEF InspectNotReady
  <2>. QED  BY <2>1, <2>2
<1>7. CASE Claim(d)
  <2>1. CASE Claimable(x)
    <3>1. occ' = [occ EXCEPT ![x] = [occ[x] EXCEPT !.status = "sending", !.lane = ClaimedLane(x)]]
          /\ pc[d] = "claim"
      BY <1>7, <2>1 DEF Claim, SetRow
    <3>2. occ[x].status \in Waiting
      BY <2>1 DEF Claimable
    <3>. QED  BY <1>2, <3>1, <3>2, TargetKnown
  <2>2. CASE ~Claimable(x)
    BY <1>1, <1>7, <2>2 DEF Claim
  <2>. QED  BY <2>1, <2>2
<1>8. ~ReconcileAbsent(d)
  BY DEF ReconcileAbsent
<1>. QED  BY <1>3, <1>4, <1>5, <1>6, <1>7, <1>8 DEF Dispatch, Progress

(* A transaction on the tables claims nothing. *)
LEMMA RowStepClaimsNothing ==
    ASSUME NEW r \in OccurrenceRows, NEW q, RowStep(r, q), q.status = "sending"
    PROVE  r.status = "sending"
<1>1. \A st \in AckStates : Executed(r, st).status = st
  BY DEF Executed, OccurrenceRows
<1>. QED  BY <1>1 DEF RowStep, AckStates, OccurrenceRows

LEMMA NextCurrent ==
    ASSUME AbsenceProvable = FALSE, IInv, CurrentInv, [Next]_vars
    PROVE  CurrentInv' /\ OnlyWaitingClaimed
<1>1. CASE Store \/ \E o \in DOMAIN occ : Recover(o)
  <2>1. OwnerCommand \/ Infrastructure \/ \E o \in DOMAIN occ : FailOccurrence(o)
    BY <1>1 DEF Store, Recover
  <2>2. RowsStep
    BY <2>1, StoreRows DEF IInv, TypeOK, Coordination
  <2>3. OnlyWaitingClaimed
    BY <2>2, RowStepClaimsNothing
       DEF RowsStep, IInv, TypeOK, StoreTypeOK, OccurrencesTyped, OnlyWaitingClaimed
  <2>. QED  BY <2>1, <2>3, StoreCurrent DEF IInv, TypeOK, Coordination
<1>2. CASE \E d \in Dispatchers : Dispatch(d)
  <2>1. NoNewWork /\ OnlyWaitingClaimed
    BY <1>2, DispatchTakes DEF Takes
  <2>2. UNCHANGED <<sched, open>>
    BY <1>2, DispatchLeavesTables
  <2>. QED  BY <2>1, <2>2, QuietCurrent DEF IInv, TypeOK
<1>3. CASE (\E m \in wire : Arrive(m) \/ Lose(m)) \/ UNCHANGED vars
  <2>1. UNCHANGED <<sched, occ, open>>
    BY <1>3, TransitLeavesTables
  <2>2. NoNewWork /\ OnlyWaitingClaimed
    BY <2>1 DEF NoNewWork, OnlyWaitingClaimed
  <2>. QED  BY <2>1, <2>2, QuietCurrent DEF IInv, TypeOK
<1>. QED  BY <1>1, <1>2, <1>3 DEF Next

LEMMA InitCurrent == Init => CurrentInv
BY DEF Init, StoreInit, CurrentInv, CurrentRows, OpenReads, OneOff

(* With a transport that cannot prove absence, such as the Buzz one, the   *)
(* work a dispatcher claims, many statements after it was selected, is the *)
(* current definition of a live appointment.                               *)
THEOREM OnlyCurrentWorkIsClaimed ==
    ASSUME AbsenceProvable = FALSE
    PROVE  Spec => ClaimsAreCurrent
<1>1. IInv /\ CurrentInv /\ [Next]_vars => CurrentInv'
  BY NextCurrent
<1>2. IInv /\ CurrentInv /\ [Next]_vars =>
         [\A o \in DOMAIN occ :
             occ[o].status # "sending" /\ occ'[o].status = "sending" =>
                 /\ sched[o.sched].status = "active"
                 /\ sched[o.sched].version = o.version]_vars
  BY NextCurrent DEF CurrentInv, CurrentRows, OnlyWaitingClaimed
<1>. QED  BY <1>1, <1>2, InitCurrent, Inductive, PTL DEF Spec, ClaimsAreCurrent

-----------------------------------------------------------------------------
(* The refinement of AppointmentInbox.                                     *)

(* Messages go to the inboxes of the franchise whose occurrence they carry. *)
OwnMail == \A t \in Teams : \A n \in 1..Len(inbox[t]) : TeamOfOcc(inbox[t][n].occ) = t

LEMMA NextOwnMail ==
    ASSUME IInv, OwnMail, [Next]_vars
    PROVE  OwnMail'
<1>1. UNCHANGED inbox => OwnMail'
  BY DEF OwnMail, TeamOfOcc
<1>2. ASSUME NEW m \in wire, Arrive(m)
      PROVE  OwnMail'
  <2>. DEFINE u == TeamOfOcc(m.occ)
  <2>1. inbox' = [inbox EXCEPT ![u] = Append(inbox[u], m)]
    BY <1>2 DEF Arrive
  <2>2. inbox \in [Teams -> Seq(Message)] /\ u \in Teams /\ m \in Message
    BY TeamOfOccType DEF IInv, TypeOK, DispatchTypeOK, MessagesTyped, Message
  <2>3. ASSUME NEW t \in Teams, NEW n \in 1..Len(inbox'[t])
        PROVE  TeamOfOcc(inbox'[t][n].occ) = t
    <3>. HIDE DEF u
    <3>1. CASE t # u
      BY <2>1, <2>2, <3>1 DEF OwnMail
    <3>2. CASE t = u
      <4>1. /\ inbox'[u] = Append(inbox[u], m) /\ inbox[u] \in Seq(Message)
        BY <2>1, <2>2
      <4>2. CASE n \in 1..Len(inbox[u])
        BY <2>2, <3>2, <4>1, <4>2 DEF OwnMail
      <4>3. CASE n = Len(inbox[u]) + 1
        BY <2>2, <3>2, <4>1, <4>3 DEF u
      <4>. QED  BY <3>2, <4>1, <4>2, <4>3
    <3>. QED  BY <3>1, <3>2
  <2>. QED  BY <2>3 DEF OwnMail, TeamOfOcc
<1>3. ASSUME NEW m \in wire, Lose(m)
      PROVE  UNCHANGED inbox
  BY <1>3 DEF Lose
<1>4. ASSUME NEW d \in Dispatchers, Dispatch(d)
      PROVE  UNCHANGED inbox
  <2>1. CASE List(d) \/ Visit(d) \/ Exhausted(d) \/ CheckOutstanding(d) \/ Select(d) \/ InspectReady(d)
    BY <2>1 DEF List, Visit, Exhausted, CheckOutstanding, Select, InspectReady, transportVars
  <2>2. CASE Send(d) \/ Crash(d) \/ Claim(d)
    BY <2>2 DEF Send, Crash, Claim, transportVars
  <2>3. CASE ReconcileFound(d) \/ Receipt(d) \/ ReconcileUnknown(d) \/ ReconcileAbsent(d) \/ NoReceipt(d)
    BY <2>3 DEF ReconcileFound, Receipt, ReconcileUnknown, ReconcileAbsent, NoReceipt, transportVars
  <2>4. ASSUME NEW st \in Waiting, InspectNotReady(d, st)
        PROVE  UNCHANGED inbox
    BY <2>4 DEF InspectNotReady, transportVars
  <2>. QED  BY <1>4, <2>1, <2>2, <2>3, <2>4 DEF Dispatch, Progress
<1>5. CASE Store \/ (\E o \in DOMAIN occ : Recover(o)) \/ UNCHANGED vars
  <2>1. UNCHANGED inbox
    BY <1>5 DEF Store, Recover, transportVars, vars
  <2>. QED  BY <1>1, <2>1
<1>. QED  BY <1>1, <1>2, <1>3, <1>4, <1>5 DEF Next

LEMMA InitOwnMail == Init => OwnMail
BY DEF Init, OwnMail

-----------------------------------------------------------------------------
(* What the abstract inbox sees of the tables.                             *)

(* The appointment a franchise holds is the one handed off. *)
LEMMA HeldIs ==
    ASSUME OneHandedOff, NEW t, NEW o \in InHand(t)
    PROVE  Held(t) = o
<1>1. \A p \in InHand(t) : p = o
  BY DEF OneHandedOff, InHand, TeamOccs
<1>2. InHand(t) # {} /\ (CHOOSE p \in InHand(t) : TRUE) \in InHand(t)
  OBVIOUS
<1>. QED  BY <1>1, <1>2 DEF Held

LEMMA HeldNothing ==
    ASSUME NEW t, InHand(t) = {}
    PROVE  Held(t) = NoTarget
BY DEF Held

LEMMA LenDomain ==
    ASSUME NEW s, NEW n \in Nat, DOMAIN s = 1..n, s = [i \in 1..n |-> s[i]]
    PROVE  Len(s) = n
OBVIOUS

(* What arrived is what the tables find. *)
LEMMA ArrivedIs ==
    ASSUME IInv, OwnMail, NEW t \in Teams, NEW o \in DOMAIN occ
    PROVE  o \in Inbox!Arrived(t) <=> TeamOfOcc(o) = t /\ PostsOf(o) # {}
<1>1. inbox[t] \in Seq(Message)
  BY DEF IInv, TypeOK, DispatchTypeOK, MessagesTyped
<1>2. Len(Mail(t)) = Len(inbox[t]) /\ \A n \in 1..Len(inbox[t]) : Mail(t)[n] = inbox[t][n].occ
  <2>1. Len(inbox[t]) \in Nat /\ DOMAIN Mail(t) = 1..Len(inbox[t])
        /\ Mail(t) = [i \in 1..Len(inbox[t]) |-> Mail(t)[i]]
    BY <1>1 DEF Mail
  <2>2. Len(Mail(t)) = Len(inbox[t])
    BY <2>1, LenDomain
  <2>. QED  BY <2>2 DEF Mail
<1>3. Inbox!Arrived(t) = {Mail(t)[n] : n \in 1..Len(Mail(t))}
  BY DEF Inbox!Arrived
<1>4. o \in Inbox!Arrived(t) <=> \E n \in 1..Len(inbox[t]) : inbox[t][n].occ = o
  BY <1>2, <1>3
<1>. QED  BY <1>4 DEF OwnMail, PostsOf

LEMMA NoTargetIsNoRow ==
    ASSUME IInv
    PROVE  NoTarget \notin DOMAIN occ
<1>1. \A o \in OccurrenceIds : o # NoTarget
  BY DEF OccurrenceIds, NoTarget
<1>. QED  BY <1>1 DEF IInv, TypeOK, StoreTypeOK, OccurrencesTyped

LEMMA SameMail ==
    ASSUME UNCHANGED inbox
    PROVE  [t \in Teams |-> Mail(t)]' = [t \in Teams |-> Mail(t)]
BY DEF Mail

LEMMA SameHeld ==
    ASSUME NEW t, InHand(t)' = InHand(t)
    PROVE  Held(t)' = Held(t)
BY DEF Held

(* A step that hands nothing over and closes nothing that was handed over. *)
KeepsHands ==
    /\ DOMAIN occ \subseteq DOMAIN occ'
    /\ \A o \in DOMAIN occ' :
          /\ occ'[o].status \in HandedOff <=> o \in DOMAIN occ /\ occ[o].status \in HandedOff
          /\ occ'[o].status \in Closed => o \in DOMAIN occ /\ occ[o].status \in Waiting \cup Closed
    /\ \A o \in DOMAIN occ : occ[o].status \in Closed => occ'[o].status \in Closed

LEMMA WithdrawsUnsent ==
    ASSUME IInv, MailInv, OwnMail, KeepsHands, UNCHANGED inbox
    PROVE  Inbox!CloseUnsent
<1>1. ASSUME NEW t \in Teams
      PROVE  InHand(t)' = InHand(t)
  BY DEF KeepsHands, InHand, TeamOccs, TeamOfOcc
<1>2. [t \in Teams |-> Held(t)]' = [t \in Teams |-> Held(t)]
  BY <1>1, SameHeld
<1>3. Over \subseteq Over'
  BY DEF Over, KeepsHands
<1>4. ASSUME NEW t \in Teams, NEW o \in Over' \ Over
      PROVE  o \notin Inbox!Arrived(t) /\ o # Held(t)
  <2>1. o \in DOMAIN occ /\ occ[o].status \in Waiting
    BY DEF Over, KeepsHands
  <2>2. PostsOf(o) = {}
    BY <2>1 DEF MailInv, MailFits
  <2>3. o # Held(t)
    <3>1. CASE InHand(t) = {}
      BY <2>1, <3>1, HeldNothing, NoTargetIsNoRow
    <3>2. CASE InHand(t) # {}
      <4>1. PICK p \in InHand(t) : Held(t) = p
        BY <3>2, HeldIs DEF IInv
      <4>2. occ[p].status \in HandedOff
        BY DEF InHand
      <4>. QED  BY <2>1, <4>1, <4>2 DEF Waiting, HandedOff, InDoubt, Running
    <3>. QED  BY <3>1, <3>2
  <2>. QED  BY <2>1, <2>2, <2>3, ArrivedIs
<1>5. \A t \in Teams : (Over' \ Over) \cap (Inbox!Arrived(t) \cup {[x \in Teams |-> Held(x)][t]}) = {}
  BY <1>4
<1>. QED  BY <1>2, <1>3, <1>5, SameMail DEF Inbox!CloseUnsent

(* One row changes. *)
LEMMA HandsOfOneRow ==
    ASSUME NEW o \in DOMAIN occ, DOMAIN occ' = DOMAIN occ,
           \A p \in DOMAIN occ : p # o => occ'[p] = occ[p]
    PROVE  /\ \A t \in Teams : t # TeamOfOcc(o) => InHand(t)' = InHand(t)
           /\ InHand(TeamOfOcc(o))' = IF occ'[o].status \in HandedOff
                                      THEN InHand(TeamOfOcc(o)) \cup {o}
                                      ELSE InHand(TeamOfOcc(o)) \ {o}
           /\ Over' = IF occ'[o].status \in Closed THEN Over \cup {o} ELSE Over \ {o}
<1>1. ASSUME NEW t \in Teams, t # TeamOfOcc(o)
      PROVE  InHand(t)' = InHand(t)
  BY <1>1 DEF InHand, TeamOccs, TeamOfOcc
<1>2. InHand(TeamOfOcc(o))' = {p \in DOMAIN occ : TeamOfOcc(p) = TeamOfOcc(o) /\ occ'[p].status \in HandedOff}
  BY DEF InHand, TeamOccs, TeamOfOcc
<1>3. InHand(TeamOfOcc(o)) = {p \in DOMAIN occ : TeamOfOcc(p) = TeamOfOcc(o) /\ occ[p].status \in HandedOff}
  BY DEF InHand, TeamOccs
<1>. QED  BY <1>1, <1>2, <1>3 DEF Over

(* The owner, or the commissioner, closes what the owner was given. *)
LEMMA ClosesHeld ==
    ASSUME IInv, IInv', MailInv, OwnMail, UNCHANGED inbox, NEW o \in DOMAIN occ,
           DOMAIN occ' = DOMAIN occ, \A p \in DOMAIN occ : p # o => occ'[p] = occ[p],
           occ[o].status \in Running, occ'[o].status \in Closed
    PROVE  TeamOfOcc(o) \in Teams /\ Inbox!CloseHeld(TeamOfOcc(o))
<1>. DEFINE t == TeamOfOcc(o)
<1>1. t \in Teams
  BY TeamOfOccType DEF IInv, TypeOK
<1>2. o \in InHand(t)
  BY DEF InHand, TeamOccs, HandedOff
<1>3. \A p \in InHand(t) : p = o
  BY <1>2 DEF IInv, OneHandedOff, InHand, TeamOccs
<1>4. InHand(t)' = {} /\ Over' = Over \cup {o} /\ \A u \in Teams : u # t => InHand(u)' = InHand(u)
  BY <1>3, HandsOfOneRow DEF Closed, HandedOff, InDoubt, Running
<1>5. Held(t) = o /\ Held(t)' = NoTarget
  BY <1>2, <1>4, HeldIs DEF IInv, Held
<1>6. o \in Inbox!Arrived(t)
  <2>1. occ[o].event \in PostsOf(o)
    BY DEF MailInv, MailFits
  <2>. QED  BY <1>1, <2>1, ArrivedIs
<1>. HIDE DEF t
<1>7. [x \in Teams |-> Held(x)]' = [[x \in Teams |-> Held(x)] EXCEPT ![t] = NoTarget]
  BY <1>1, <1>4, <1>5, SameHeld
<1>8. Inbox!CloseHeld(t)
  BY <1>1, <1>4, <1>5, <1>6, <1>7, SameMail DEF Inbox!CloseHeld
<1>. QED  BY <1>1, <1>8 DEF t

(* A claim hands its occurrence over. *)
LEMMA HandsOver ==
    ASSUME IInv, IInv', MailInv, OwnMail, UNCHANGED inbox, NEW o \in DOMAIN occ,
           DOMAIN occ' = DOMAIN occ, \A p \in DOMAIN occ : p # o => occ'[p] = occ[p],
           occ[o].status \in Waiting, occ'[o].status \in HandedOff,
           \A p \in TeamOccs(TeamOfOcc(o)) : occ[p].status \notin HandedOff
    PROVE  TeamOfOcc(o) \in Teams /\ Inbox!HandOver(TeamOfOcc(o))
<1>. DEFINE t == TeamOfOcc(o)
<1>1. t \in Teams
  BY TeamOfOccType DEF IInv, TypeOK
<1>2. InHand(t) = {}
  BY DEF InHand
<1>3. /\ InHand(t)' = {o} /\ Over' = Over \ {o} /\ o \notin Over
      /\ \A u \in Teams : u # t => InHand(u)' = InHand(u)
  BY <1>2, HandsOfOneRow DEF Closed, HandedOff, InDoubt, Running, Waiting, Over
<1>4. Held(t) = NoTarget
  BY <1>2, HeldNothing
<1>5. Held(t)' = o
  BY <1>3 DEF Held
<1>6. o \notin Inbox!Arrived(t) /\ o # NoTarget
  <2>1. PostsOf(o) = {}
    BY DEF MailInv, MailFits
  <2>. QED  BY <1>1, <2>1, ArrivedIs, NoTargetIsNoRow
<1>. HIDE DEF t
<1>7. [x \in Teams |-> Held(x)]' = [[x \in Teams |-> Held(x)] EXCEPT ![t] = o]
  BY <1>1, <1>3, <1>5, SameHeld
<1>8. [x \in Teams |-> Held(x)]'[t] = o /\ [x \in Teams |-> Held(x)][t] = NoTarget
  BY <1>1, <1>4, <1>5
<1>9. Over' = Over
  BY <1>3
<1>10. Inbox!HandOver(t)
  BY <1>3, <1>6, <1>7, <1>8, <1>9, SameMail DEF Inbox!HandOver
<1>. QED  BY <1>1, <1>10 DEF t

(* Proven absence takes back what never arrived. *)
LEMMA TakesBack ==
    ASSUME IInv, IInv', MailInv, OwnMail, UNCHANGED inbox, NEW o \in DOMAIN occ,
           DOMAIN occ' = DOMAIN occ, \A p \in DOMAIN occ : p # o => occ'[p] = occ[p],
           occ[o].status \in HandedOff, occ'[o].status \in Waiting, PostsOf(o) = {}
    PROVE  TeamOfOcc(o) \in Teams /\ Inbox!TakeBack(TeamOfOcc(o))
<1>. DEFINE t == TeamOfOcc(o)
<1>1. t \in Teams
  BY TeamOfOccType DEF IInv, TypeOK
<1>2. o \in InHand(t)
  BY DEF InHand, TeamOccs
<1>3. \A p \in InHand(t) : p = o
  BY <1>2 DEF IInv, OneHandedOff, InHand, TeamOccs
<1>4. /\ InHand(t)' = {} /\ Over' = Over \ {o} /\ o \notin Over
      /\ \A u \in Teams : u # t => InHand(u)' = InHand(u)
  BY <1>3, HandsOfOneRow DEF Closed, HandedOff, InDoubt, Running, Waiting, Over
<1>5. Held(t) = o /\ Held(t)' = NoTarget
  BY <1>2, <1>4, HeldIs DEF IInv, Held
<1>6. o \notin Inbox!Arrived(t) /\ o # NoTarget
  BY <1>1, ArrivedIs, NoTargetIsNoRow
<1>. HIDE DEF t
<1>7. [x \in Teams |-> Held(x)]' = [[x \in Teams |-> Held(x)] EXCEPT ![t] = NoTarget]
  BY <1>1, <1>4, <1>5, SameHeld
<1>8. Over' = Over
  BY <1>4
<1>9. Inbox!TakeBack(t)
  BY <1>1, <1>5, <1>6, <1>7, <1>8, SameMail DEF Inbox!TakeBack
<1>. QED  BY <1>1, <1>9 DEF t

(* A message arrives while its occurrence is in hand, and for the first time. *)
LEMMA MessageReaches ==
    ASSUME IInv, MailInv, OwnMail, NEW m \in wire, Arrive(m)
    PROVE  TeamOfOcc(m.occ) \in Teams /\ Inbox!MessageArrives(TeamOfOcc(m.occ))
<1>. DEFINE t == TeamOfOcc(m.occ)
            o == m.occ
<1>1. o \in DOMAIN occ /\ t \in Teams /\ m \in Message /\ inbox \in [Teams -> Seq(Message)]
  BY TeamOfOccType DEF IInv, TypeOK, DispatchTypeOK, MessagesTyped, Message
<1>2. UNCHANGED occ /\ inbox' = [inbox EXCEPT ![t] = Append(inbox[t], m)]
  BY DEF Arrive, storeVars
<1>3. occ[o].status \in InDoubt /\ PostsOf(o) = {}
  BY <1>1 DEF MailInv, MailFits, OnWire
<1>4. Held(t) = o
  <2>1. o \in InHand(t)
    BY <1>1, <1>3 DEF InHand, TeamOccs, HandedOff
  <2>. QED  BY <2>1, HeldIs DEF IInv
<1>5. o \notin Inbox!Arrived(t) /\ o # NoTarget
  BY <1>1, <1>3, ArrivedIs, NoTargetIsNoRow
<1>6. [x \in Teams |-> Held(x)]' = [x \in Teams |-> Held(x)] /\ Over' = Over
  <2>1. \A x \in Teams : InHand(x)' = InHand(x)
    BY <1>2 DEF InHand, TeamOccs, TeamOfOcc
  <2>. QED  BY <1>2, <2>1, SameHeld DEF Over
<1>7. Mail(t)' = Append(Mail(t), o)
  <2>1. inbox[t] \in Seq(Message) /\ inbox'[t] = Append(inbox[t], m)
    BY <1>1, <1>2
  <2>2. /\ Len(inbox[t]) \in Nat /\ Len(inbox'[t]) = Len(inbox[t]) + 1
        /\ \A n \in 1..Len(inbox[t]) : inbox'[t][n] = inbox[t][n]
        /\ inbox'[t][Len(inbox[t]) + 1] = m
    BY <1>1, <2>1
  <2>3. Mail(t)' = [n \in 1..(Len(inbox[t]) + 1) |-> inbox'[t][n].occ]
    BY <2>2 DEF Mail
  <2>4. Len(Mail(t)) = Len(inbox[t])
    <3>1. DOMAIN Mail(t) = 1..Len(inbox[t]) /\ Mail(t) = [i \in 1..Len(inbox[t]) |-> Mail(t)[i]]
      BY DEF Mail
    <3>. QED  BY <2>2, <3>1, LenDomain
  <2>5. Append(Mail(t), o) = [n \in 1..(Len(Mail(t)) + 1) |-> IF n = Len(Mail(t)) + 1 THEN o ELSE Mail(t)[n]]
    OBVIOUS
  <2>6. \A n \in 1..Len(inbox[t]) : Mail(t)[n] = inbox[t][n].occ
    BY DEF Mail
  <2>7. \A n \in 1..(Len(inbox[t]) + 1) :
           inbox'[t][n].occ = IF n = Len(inbox[t]) + 1 THEN o ELSE Mail(t)[n]
    BY <2>2, <2>6
  <2>. QED  BY <2>3, <2>4, <2>5, <2>7
<1>8. \A x \in Teams : x # t => Mail(x)' = Mail(x)
  <2>1. \A x \in Teams : x # t => inbox'[x] = inbox[x]
    BY <1>1, <1>2
  <2>. QED  BY <2>1 DEF Mail
<1>. HIDE DEF t, o
<1>9. [x \in Teams |-> Mail(x)]' = [[x \in Teams |-> Mail(x)] EXCEPT ![t] = Append(Mail(t), o)]
  BY <1>1, <1>7, <1>8
<1>10. Inbox!MessageArrives(t)
  BY <1>1, <1>4, <1>5, <1>6, <1>9 DEF Inbox!MessageArrives
<1>. QED  BY <1>1, <1>10 DEF t

-----------------------------------------------------------------------------
(* Steps of the tables.                                                    *)

(* What a transaction does to a row's place in the owner's hands. *)
LEMMA RowStepHands ==
    ASSUME NEW r \in OccurrenceRows, NEW q, RowStep(r, q)
    PROVE  /\ r.status \in Closed => q.status \in Closed
           /\ \/ /\ q.status \in HandedOff <=> r.status \in HandedOff
                 /\ q.status \in Closed => r.status \in Waiting \cup Closed
              \/ r.status \in Running /\ q.status \in Closed
<1>. USE DEF OccurrenceRows, Waiting, HandedOff, InDoubt, Running, Closed
<1>1. CASE q = r
  BY <1>1
<1>2. CASE r.status \in Waiting /\ q = [r EXCEPT !.status = "cancelled"]
  BY <1>2
<1>3. CASE r.status \in Waiting /\ q = [r EXCEPT !.missedThrough = now]
  BY <1>3
<1>4. ASSUME NEW st \in AckStates, r.status \in Running \/ (r.status = st /\ ~r.recovered),
             q.status = st
      PROVE  /\ r.status \in Closed => q.status \in Closed
             /\ \/ /\ q.status \in HandedOff <=> r.status \in HandedOff
                   /\ q.status \in Closed => r.status \in Waiting \cup Closed
                \/ r.status \in Running /\ q.status \in Closed
  BY <1>4 DEF AckStates
<1>5. CASE /\ r.status \in Waiting \cup {"delivered"}
           /\ ~r.started
           /\ q = [r EXCEPT !.status = "failed", !.recovered = TRUE]
  BY <1>5
<1>6. \A st \in AckStates : Executed(r, st).status = st
  BY DEF Executed
<1>. QED  BY <1>1, <1>2, <1>3, <1>4, <1>5, <1>6 DEF RowStep

(* o is the only row that changes, and it is closed while in hand. *)
OnlyCloses(o) ==
    /\ DOMAIN occ' = DOMAIN occ
    /\ \A p \in DOMAIN occ : p # o => occ'[p] = occ[p]
    /\ occ[o].status \in Running /\ occ'[o].status \in Closed

NoneInHandCloses ==
    \A o \in DOMAIN occ : ~(occ[o].status \in Running /\ occ'[o].status \in Closed)

LEMMA WithdrawClosesNoneInHand ==
    ASSUME NEW W, \A o \in W \cap DOMAIN occ : occ[o].status \in Waiting, occ' = Withdraw(W)
    PROVE  NoneInHandCloses
BY DEF Withdraw, NoneInHandCloses, Waiting, Running, Closed

LEMMA OneRowCloses ==
    ASSUME NEW o \in DOMAIN occ, NEW q, occ' = [occ EXCEPT ![o] = q]
    PROVE  NoneInHandCloses \/ OnlyCloses(o)
BY OneRowChanged DEF NoneInHandCloses, OnlyCloses, Running, Closed

(* A transaction closes at most one occurrence that was handed over. *)
LEMMA StoreCloses ==
    ASSUME StoreTypeOK, OpenCommands,
           OwnerCommand \/ Infrastructure \/ \E o \in DOMAIN occ : FailOccurrence(o)
    PROVE  NoneInHandCloses \/ \E o \in DOMAIN occ : OnlyCloses(o)
<1>1. UNCHANGED occ => NoneInHandCloses
  BY DEF NoneInHandCloses, Running, Closed
<1>2. CASE OwnerCommand
  <2>1. ASSUME NEW s \in Schedules, NEW tm \in Timings, Define(s, tm)
        PROVE  NoneInHandCloses
    BY <2>1, WithdrawClosesNoneInHand DEF Define, Redefine, WaitingOf, OccsOf
  <2>2. ASSUME NEW c \in open, CommitAnchor(c)
        PROVE  NoneInHandCloses
    BY <2>2, WithdrawClosesNoneInHand DEF CommitAnchor, Redefine, OpenCommands, WaitingOf, OccsOf
  <2>3. ASSUME NEW s \in Schedules, Cancel(s)
        PROVE  NoneInHandCloses
    BY <2>3, WithdrawClosesNoneInHand DEF Cancel, WaitingOf, OccsOf
  <2>4. ASSUME NEW o \in DOMAIN occ, NEW st \in AckStates, Acknowledge(o, st)
        PROVE  NoneInHandCloses \/ OnlyCloses(o)
    BY <2>4, OneRowCloses DEF Acknowledge
  <2>. QED  BY <1>1, <1>2, <2>1, <2>2, <2>3, <2>4 DEF OwnerCommand, ReadAnchor
<1>3. CASE Infrastructure
  <2>1. ASSUME NEW e, NEW at, NEW gone, RecordCalendarEvent(e, at, gone)
        PROVE  NoneInHandCloses
    <3>1. occ' = Withdraw(UNION {WaitingOf(s) : s \in AnchoredTo(e)})
      BY <2>1 DEF RecordCalendarEvent
    <3>. QED  BY <3>1, WithdrawClosesNoneInHand DEF WaitingOf, OccsOf
  <2>2. ASSUME NEW e, NEW at, RecordLeagueEvent(e, at)
        PROVE  NoneInHandCloses
    BY <2>2 DEF RecordLeagueEvent, NoneInHandCloses, Running, Closed
  <2>3. ASSUME MaterializeDue
        PROVE  NoneInHandCloses
    <3>1. \A o \in DOMAIN occ : occ'[o] = occ[o] \/ occ'[o] = [occ[o] EXCEPT !.missedThrough = now]
      BY <2>3 DEF MaterializeDue
    <3>2. \A o \in DOMAIN occ : occ[o] \in OccurrenceRows
      BY DEF StoreTypeOK, OccurrencesTyped
    <3>3. \A o \in DOMAIN occ : occ'[o].status = occ[o].status
      BY <3>1, <3>2 DEF OccurrenceRows
    <3>. QED  BY <3>3 DEF NoneInHandCloses, Running, Closed
  <2>4. ASSUME NEW o \in DOMAIN occ, NEW st \in AckStates, RecordExecution(o, st)
        PROVE  NoneInHandCloses \/ OnlyCloses(o)
    BY <2>4, OneRowCloses DEF RecordExecution
  <2>. QED  BY <1>1, <1>3, <2>1, <2>2, <2>3, <2>4 DEF Infrastructure, Tick
<1>4. ASSUME NEW o \in DOMAIN occ, FailOccurrence(o)
      PROVE  NoneInHandCloses \/ OnlyCloses(o)
  BY <1>4, OneRowCloses DEF FailOccurrence
<1>. QED  BY <1>2, <1>3, <1>4

LEMMA StoreRefines ==
    ASSUME IInv, IInv', MailInv, OwnMail, UNCHANGED inbox,
           OwnerCommand \/ Infrastructure \/ \E o \in DOMAIN occ : FailOccurrence(o)
    PROVE  Inbox!InboxNext
<1>1. RowsStep
  BY StoreRows DEF IInv, TypeOK, Coordination
<1>2. CASE NoneInHandCloses
  <2>1. ASSUME NEW o \in DOMAIN occ
        PROVE  /\ occ[o].status \in Closed => occ'[o].status \in Closed
               /\ occ'[o].status \in HandedOff <=> occ[o].status \in HandedOff
               /\ occ'[o].status \in Closed => occ[o].status \in Waiting \cup Closed
    <3>1. RowStep(occ[o], occ'[o]) /\ occ[o] \in OccurrenceRows
      BY <1>1 DEF RowsStep, IInv, TypeOK, StoreTypeOK, OccurrencesTyped
    <3>. QED  BY <1>2, <3>1, RowStepHands DEF NoneInHandCloses
  <2>2. \A o \in DOMAIN occ' \ DOMAIN occ : occ'[o].status = "queued"
    BY <1>1 DEF RowsStep, NewRow
  <2>3. KeepsHands
    BY <1>1, <2>1, <2>2 DEF RowsStep, KeepsHands, HandedOff, InDoubt, Running, Closed
  <2>. QED  BY <2>3, WithdrawsUnsent DEF Inbox!InboxNext
<1>3. ASSUME NEW o \in DOMAIN occ, OnlyCloses(o)
      PROVE  Inbox!InboxNext
  BY <1>3, ClosesHeld DEF OnlyCloses, Inbox!InboxNext
<1>. QED  BY <1>2, <1>3, StoreCloses DEF IInv, TypeOK, Coordination

-----------------------------------------------------------------------------
(* Steps of a dispatcher.                                                  *)

(* A row rewritten on the same side of the owner's hands. *)
LEMMA SameHands ==
    ASSUME IInv, MailInv, OwnMail, UNCHANGED inbox, NEW o \in DOMAIN occ, NEW q,
           occ' = [occ EXCEPT ![o] = q],
           \/ occ[o].status \in HandedOff /\ q.status \in HandedOff
           \/ occ[o].status \in Waiting /\ q.status \in Waiting
    PROVE  Inbox!InboxNext
<1>1. /\ DOMAIN occ' = DOMAIN occ
      /\ occ'[o] = q
      /\ \A p \in DOMAIN occ : p # o => occ'[p] = occ[p]
  BY OneRowChanged
<1>2. KeepsHands
  BY <1>1 DEF KeepsHands, HandedOff, InDoubt, Running, Waiting, Closed
<1>. QED  BY <1>2, WithdrawsUnsent DEF Inbox!InboxNext

LEMMA SameRowsRefine ==
    ASSUME IInv, MailInv, OwnMail, UNCHANGED <<occ, inbox>>
    PROVE  Inbox!InboxNext
<1>1. KeepsHands
  BY DEF KeepsHands, HandedOff, InDoubt, Running, Closed
<1>. QED  BY <1>1, WithdrawsUnsent DEF Inbox!InboxNext

LEMMA DispatchRefines ==
    ASSUME IInv, IInv', MailInv, OwnMail, NEW d \in Dispatchers, Dispatch(d)
    PROVE  Inbox!InboxNext
<1>. DEFINE o == target[d]
<1>1. CASE List(d) \/ Visit(d) \/ Exhausted(d) \/ CheckOutstanding(d) \/ Select(d)
           \/ InspectReady(d) \/ Send(d) \/ Crash(d)
  <2>1. UNCHANGED <<occ, inbox>>
    BY <1>1 DEF List, Visit, Exhausted, CheckOutstanding, Select, InspectReady, Send, Crash,
                storeVars, transportVars
  <2>. QED  BY <2>1, SameRowsRefine
<1>2. CASE ReconcileFound(d) \/ Receipt(d)
  <2>1. PICK n \in FoundIn(o, LaneOf(o)) : Delivered(o, n)
    BY <1>2 DEF ReconcileFound, Receipt
  <2>2. pc[d] \in {"reconcile", "sent"} /\ UNCHANGED inbox
    BY <1>2 DEF ReconcileFound, Receipt, transportVars
  <2>3. o \in DOMAIN occ /\ occ[o] \in OccurrenceRows /\ occ[o].status \in HandedOff
    BY <2>2, TargetKnown DEF HandedOff, InDoubt
  <2>4. occ' = [occ EXCEPT ![o] = [occ[o] EXCEPT !.status = "delivered", !.event = n,
                                       !.deliveredAt = stamps[TeamOfOcc(o)] + 1]]
    BY <2>1 DEF Delivered, SetRow
  <2>5. [occ[o] EXCEPT !.status = "delivered", !.event = n,
                       !.deliveredAt = stamps[TeamOfOcc(o)] + 1].status = "delivered"
    BY <2>3 DEF OccurrenceRows
  <2>. QED  BY <2>2, <2>3, <2>4, <2>5, SameHands DEF HandedOff, Running
<1>3. CASE ReconcileUnknown(d) \/ NoReceipt(d)
  <2>1. occ' = [occ EXCEPT ![o] = [occ[o] EXCEPT !.status = "uncertain"]]
        /\ pc[d] \in {"reconcile", "sent"} /\ UNCHANGED inbox
    BY <1>3 DEF ReconcileUnknown, NoReceipt, NoReceiptStatus, SetRow, transportVars
  <2>2. o \in DOMAIN occ /\ occ[o] \in OccurrenceRows /\ occ[o].status \in HandedOff
    BY <2>1, TargetKnown DEF HandedOff, InDoubt
  <2>3. [occ[o] EXCEPT !.status = "uncertain"].status = "uncertain"
    BY <2>2 DEF OccurrenceRows
  <2>. QED  BY <2>1, <2>2, <2>3, SameHands DEF HandedOff, InDoubt
<1>4. ASSUME NEW st \in Waiting, InspectNotReady(d, st)
      PROVE  Inbox!InboxNext
  <2>1. pc[d] = "inspect" /\ UNCHANGED inbox
    BY <1>4 DEF InspectNotReady, transportVars
  <2>2. CASE occ[o].status \in Waiting
    <3>1. occ' = [occ EXCEPT ![o] = [occ[o] EXCEPT !.status = st]]
      BY <1>4, <2>2 DEF InspectNotReady, SetRow
    <3>2. o \in DOMAIN occ /\ occ[o] \in OccurrenceRows
      BY <2>1, TargetKnown
    <3>3. [occ[o] EXCEPT !.status = st].status = st
      BY <3>2 DEF OccurrenceRows
    <3>. QED  BY <2>1, <2>2, <3>1, <3>2, <3>3, SameHands
  <2>3. CASE occ[o].status \notin Waiting
    BY <1>4, <2>1, <2>3, SameRowsRefine DEF InspectNotReady
  <2>. QED  BY <2>2, <2>3
<1>5. CASE Claim(d)
  <2>1. pc[d] = "claim" /\ UNCHANGED inbox
    BY <1>5 DEF Claim, transportVars
  <2>2. CASE Claimable(o)
    <3>. DEFINE q == [occ[o] EXCEPT !.status = "sending", !.lane = ClaimedLane(o)]
    <3>1. occ' = [occ EXCEPT ![o] = q] /\ occ[o].status \in Waiting
      BY <1>5, <2>2 DEF Claim, SetRow, Claimable
    <3>2. o \in DOMAIN occ /\ occ[o] \in OccurrenceRows
      BY <2>1, TargetKnown
    <3>3. q.status = "sending"
      BY <3>2 DEF OccurrenceRows
    <3>4. \A p \in TeamOccs(TeamOfOcc(o)) : occ[p].status \notin HandedOff
      BY <2>1 DEF IInv, Coordination, Knows, TeamOccs, TeamOfOcc
    <3>5. /\ DOMAIN occ' = DOMAIN occ
          /\ occ'[o] = q
          /\ \A p \in DOMAIN occ : p # o => occ'[p] = occ[p]
      BY <3>1, <3>2, OneRowChanged
    <3>. QED
      <4>. HIDE DEF q
      <4>. QED  BY <2>1, <3>1, <3>2, <3>3, <3>4, <3>5, HandsOver DEF HandedOff, InDoubt, Inbox!InboxNext
  <2>3. CASE ~Claimable(o)
    BY <1>5, <2>1, <2>3, SameRowsRefine DEF Claim
  <2>. QED  BY <2>2, <2>3
<1>6. CASE ReconcileAbsent(d)
  <2>1. /\ pc[d] = "reconcile" /\ UNCHANGED inbox
        /\ FoundIn(o, LaneOf(o)) = {} /\ ~OnWire(o)
        /\ occ' = [occ EXCEPT ![o] = [occ[o] EXCEPT !.status = "queued"]]
    BY <1>6 DEF ReconcileAbsent, SetRow, transportVars
  <2>2. o \in DOMAIN occ /\ occ[o] \in OccurrenceRows /\ occ[o].status \in HandedOff
    BY <2>1, TargetKnown DEF HandedOff, InDoubt
  <2>3. [occ[o] EXCEPT !.status = "queued"].status = "queued"
    BY <2>2 DEF OccurrenceRows
  <2>4. /\ DOMAIN occ' = DOMAIN occ
        /\ occ'[o].status = "queued"
        /\ \A p \in DOMAIN occ : p # o => occ'[p] = occ[p]
    BY <2>1, <2>2, <2>3, OneRowChanged
  <2>5. PostsOf(o) = {}
    BY <2>1, <2>2, AbsentIsUnsent DEF Unsent
  <2>. QED  BY <2>1, <2>2, <2>4, <2>5, TakesBack DEF Waiting, Inbox!InboxNext
<1>. QED  BY <1>1, <1>2, <1>3, <1>4, <1>5, <1>6 DEF Dispatch, Progress

-----------------------------------------------------------------------------
LEMMA InitRefines == Init => Inbox!InboxInit
<1>. SUFFICES ASSUME Init PROVE Inbox!InboxInit
  OBVIOUS
<1>1. DOMAIN occ = {}
  BY DEF Init, StoreInit
<1>2. \A t \in Teams : Held(t) = NoTarget
  BY <1>1 DEF Held, InHand, TeamOccs
<1>3. \A t \in Teams : Mail(t) = <<>>
  <2>. SUFFICES ASSUME NEW t \in Teams PROVE Mail(t) = <<>>
    OBVIOUS
  <2>1. inbox[t] = <<>>
    BY DEF Init
  <2>. QED  BY <2>1 DEF Mail
<1>4. Over = {}
  BY <1>1 DEF Over
<1>. QED  BY <1>2, <1>3, <1>4 DEF Inbox!InboxInit

LEMMA NextRefines ==
    ASSUME IInv, IInv', MailInv, OwnMail, [Next]_vars
    PROVE  Inbox!InboxNext
<1>1. CASE Store \/ \E o \in DOMAIN occ : Recover(o)
  <2>1. /\ OwnerCommand \/ Infrastructure \/ \E o \in DOMAIN occ : FailOccurrence(o)
        /\ UNCHANGED inbox
    BY <1>1 DEF Store, Recover, transportVars
  <2>. QED  BY <2>1, StoreRefines
<1>2. CASE \E d \in Dispatchers : Dispatch(d)
  BY <1>2, DispatchRefines
<1>3. ASSUME NEW m \in wire, Arrive(m)
      PROVE  Inbox!InboxNext
  BY <1>3, MessageReaches DEF Inbox!InboxNext
<1>4. CASE (\E m \in wire : Lose(m)) \/ UNCHANGED vars
  <2>1. UNCHANGED <<occ, inbox>>
    BY <1>4 DEF Lose, storeVars, vars
  <2>. QED  BY <2>1, SameRowsRefine
<1>. QED  BY <1>1, <1>2, <1>3, <1>4 DEF Next

(* The tables, dispatchers and transport implement an inbox that gives the *)
(* owner one appointment at a time, delivers its message once and while it *)
(* is in hand, and never brings back what was closed.                      *)
THEOREM DispatcherImplementsInbox == Spec => ImplementsInbox
<1>1. IInv /\ OwnMail /\ [Next]_vars => OwnMail'
  BY NextOwnMail
<1>2. IInv /\ IInv' /\ MailInv /\ OwnMail /\ [Next]_vars => [Inbox!InboxNext]_(Inbox!inboxVars)
  BY NextRefines
<1>. QED
  BY <1>1, <1>2, InitOwnMail, InitRefines, Inductive, MailHolds, PTL
     DEF Spec, ImplementsInbox, Inbox!InboxSpec

-----------------------------------------------------------------------------
(* Lanes, with a transport that cannot prove absence.                      *)

\* A row that waits was never claimed, and one in doubt was never told delivered.
Fresh ==
    \A o \in DOMAIN occ :
        /\ occ[o].status \in Waiting => occ[o].lane = NoLane
        /\ occ[o].status \in Waiting \cup InDoubt => occ[o].event = NoEvent

\* A message is recorded at its place, but for a last one whose row is in doubt.
Recorded ==
    \A t \in Teams : \A n \in 1..Len(inbox[t]) :
        \/ occ[inbox[t][n].occ].event = n
        \/ n = Len(inbox[t]) /\ occ[inbox[t][n].occ].status \in InDoubt

\* The stamps tell the order of the inbox.
Stamped ==
    \A o \in DOMAIN occ : occ[o].event # NoEvent =>
        /\ occ[o].deliveredAt <= stamps[TeamOfOcc(o)]
        /\ \A p \in DOMAIN occ :
              TeamOfOcc(p) = TeamOfOcc(o) /\ occ[p].event # NoEvent /\ occ[p].event < occ[o].event
                  => occ[p].deliveredAt < occ[o].deliveredAt

\* Work in doubt that has not arrived is for the other inbox than the last message.
OtherInbox ==
    \A o \in DOMAIN occ :
        occ[o].status \in InDoubt /\ PostsOf(o) = {} /\ Len(inbox[TeamOfOcc(o)]) # 0 =>
            inbox[TeamOfOcc(o)][Len(inbox[TeamOfOcc(o)])].lane # occ[o].lane

LanesInv == Fresh /\ Recorded /\ Stamped /\ OtherInbox /\ LanesAlternate

\* What a message of an inbox is about.
LEMMA MessageKnown ==
    ASSUME IInv, NEW t \in Teams, NEW n \in 1..Len(inbox[t])
    PROVE  /\ inbox[t] \in Seq(Message) /\ Len(inbox[t]) \in Nat /\ n \in Nat
           /\ inbox[t][n].occ \in DOMAIN occ /\ inbox[t][n].lane \in {0, 1}
<1>1. inbox[t] \in Seq(Message)
  BY DEF IInv, TypeOK, DispatchTypeOK, MessagesTyped
<1>2. inbox[t][n] \in Message
  BY <1>1, ElementOfSeq
<1>. QED  BY <1>1, <1>2 DEF Message

(* Steps that give no row another lane, event or doubt. *)
QuietRows ==
    /\ DOMAIN occ \subseteq DOMAIN occ'
    /\ \A o \in DOMAIN occ :
          /\ occ'[o].lane = occ[o].lane /\ occ'[o].event = occ[o].event
          /\ occ'[o].deliveredAt = occ[o].deliveredAt
          /\ occ'[o].status \in InDoubt <=> occ[o].status \in InDoubt
          /\ occ'[o].status \in Waiting => occ[o].status \in Waiting
    /\ \A o \in DOMAIN occ' \ DOMAIN occ :
          occ'[o].status = "queued" /\ occ'[o].lane = NoLane /\ occ'[o].event = NoEvent

LEMMA QuietLanes ==
    ASSUME IInv, LanesInv, QuietRows, UNCHANGED <<inbox, stamps>>
    PROVE  LanesInv'
<1>. USE DEF LanesInv, QuietRows
<1>1. Fresh'
  BY DEF Fresh, Waiting, InDoubt
<1>2. Recorded'
  <2>1. SUFFICES ASSUME NEW t \in Teams, NEW n \in 1..Len(inbox[t])
                 PROVE  \/ occ'[inbox[t][n].occ].event = n
                        \/ n = Len(inbox[t]) /\ occ'[inbox[t][n].occ].status \in InDoubt
    BY DEF Recorded
  <2>2. inbox[t][n].occ \in DOMAIN occ
    BY MessageKnown
  <2>. QED  BY <2>2 DEF Recorded
<1>3. Stamped'
  BY DEF Stamped, TeamOfOcc
<1>4. OtherInbox'
  <2>1. \A o : PostsOf(o)' = PostsOf(o) /\ TeamOfOcc(o)' = TeamOfOcc(o)
    BY DEF PostsOf, TeamOfOcc
  <2>. QED  BY <2>1 DEF OtherInbox, InDoubt
<1>5. LanesAlternate'
  BY DEF LanesAlternate
<1>. QED  BY <1>1, <1>2, <1>3, <1>4, <1>5

LEMMA QuietRowStep ==
    ASSUME NEW r \in OccurrenceRows, NEW q, RowStep(r, q)
    PROVE  /\ q.lane = r.lane /\ q.event = r.event /\ q.deliveredAt = r.deliveredAt
           /\ q.status \in InDoubt <=> r.status \in InDoubt
           /\ q.status \in Waiting => r.status \in Waiting
<1>. USE DEF OccurrenceRows, Waiting, HandedOff, InDoubt, Running
<1>1. CASE \/ q = r
           \/ r.status \in Waiting /\ q = [r EXCEPT !.status = "cancelled"]
           \/ r.status \in Waiting /\ q = [r EXCEPT !.missedThrough = now]
  BY <1>1
<1>2. ASSUME NEW st \in AckStates, r.status \in Running \/ (r.status = st /\ ~r.recovered),
             q = Executed(r, st)
      PROVE  /\ q.lane = r.lane /\ q.event = r.event /\ q.deliveredAt = r.deliveredAt
             /\ q.status \in InDoubt <=> r.status \in InDoubt
             /\ q.status \in Waiting => r.status \in Waiting
  <2>1. q.status = st /\ q.lane = r.lane /\ q.event = r.event /\ q.deliveredAt = r.deliveredAt
    BY <1>2 DEF Executed
  <2>. QED  BY <1>2, <2>1 DEF AckStates
<1>3. CASE /\ r.status \in Waiting \cup {"delivered"}
           /\ ~r.started
           /\ q = [r EXCEPT !.status = "failed", !.recovered = TRUE]
  BY <1>3
<1>. QED  BY <1>1, <1>2, <1>3 DEF RowStep

LEMMA StoreLanes ==
    ASSUME IInv, LanesInv, RowsStep, UNCHANGED <<dispatcherVars, transportVars>>
    PROVE  LanesInv'
<1>1. \A o \in DOMAIN occ : occ[o] \in OccurrenceRows
  BY DEF IInv, TypeOK, StoreTypeOK, OccurrencesTyped
<1>2. QuietRows
  BY <1>1, QuietRowStep DEF RowsStep, QuietRows, NewRow
<1>. QED  BY <1>2, QuietLanes DEF dispatcherVars, transportVars

LEMMA WriterLanes ==
    ASSUME IInv, LanesInv, AbsenceProvable = FALSE, NEW d \in Dispatchers,
           \/ List(d) \/ Visit(d) \/ Exhausted(d) \/ CheckOutstanding(d) \/ Select(d)
           \/ InspectReady(d) \/ Send(d) \/ Crash(d)
           \/ ReconcileUnknown(d) \/ ReconcileAbsent(d) \/ NoReceipt(d)
           \/ (\E st \in Waiting : InspectNotReady(d, st))
           \/ Claim(d) /\ ~Claimable(target[d])
    PROVE  LanesInv'
<1>. DEFINE x == target[d]
<1>1. UNCHANGED occ => QuietRows
  BY DEF QuietRows
<1>2. UNCHANGED <<inbox, stamps>>
  BY DEF List, Visit, Exhausted, CheckOutstanding, Select, InspectReady, Send, Crash,
         ReconcileUnknown, ReconcileAbsent, NoReceipt, InspectNotReady, Claim, transportVars
<1>3. ASSUME NEW st, x \in DOMAIN occ, occ[x] \in OccurrenceRows,
             occ' = [occ EXCEPT ![x] = [occ[x] EXCEPT !.status = st]],
             \/ occ[x].status \in InDoubt /\ st \in InDoubt
             \/ occ[x].status \in Waiting /\ st \in Waiting
      PROVE  QuietRows
  <2>. DEFINE q == [occ[x] EXCEPT !.status = st]
  <2>1. q.status = st /\ q.lane = occ[x].lane /\ q.event = occ[x].event /\ q.deliveredAt = occ[x].deliveredAt
    BY <1>3 DEF OccurrenceRows
  <2>2. DOMAIN occ' = DOMAIN occ /\ occ'[x] = q /\ \A p \in DOMAIN occ : p # x => occ'[p] = occ[p]
    BY <1>3
  <2>. QED
    <3>. HIDE DEF x, q
    <3>. QED  BY <1>3, <2>1, <2>2 DEF QuietRows, Waiting, InDoubt
<1>4. CASE List(d) \/ Visit(d) \/ Exhausted(d) \/ CheckOutstanding(d) \/ Select(d)
           \/ InspectReady(d) \/ Send(d) \/ Crash(d) \/ (Claim(d) /\ ~Claimable(target[d]))
  <2>1. UNCHANGED occ
    BY <1>4 DEF List, Visit, Exhausted, CheckOutstanding, Select, InspectReady, Send, Crash, Claim, storeVars
  <2>. QED  BY <1>1, <1>2, <2>1, QuietLanes
<1>5. CASE ReconcileUnknown(d) \/ NoReceipt(d)
  <2>1. occ' = [occ EXCEPT ![x] = [occ[x] EXCEPT !.status = "uncertain"]]
        /\ pc[d] \in {"reconcile", "sent"}
    BY <1>5 DEF ReconcileUnknown, NoReceipt, NoReceiptStatus, SetRow
  <2>2. x \in DOMAIN occ /\ occ[x] \in OccurrenceRows /\ occ[x].status \in InDoubt
    BY <2>1, TargetKnown DEF InDoubt
  <2>3. "uncertain" \in InDoubt
    BY DEF InDoubt
  <2>. QED  BY <1>2, <1>3, <2>1, <2>2, <2>3, QuietLanes
<1>6. ASSUME NEW st \in Waiting, InspectNotReady(d, st)
      PROVE  LanesInv'
  <2>1. CASE occ[x].status \in Waiting
    <3>1. occ' = [occ EXCEPT ![x] = [occ[x] EXCEPT !.status = st]] /\ pc[d] = "inspect"
      BY <1>6, <2>1 DEF InspectNotReady, SetRow
    <3>. QED  BY <1>2, <1>3, <2>1, <3>1, TargetKnown, QuietLanes
  <2>2. CASE occ[x].status \notin Waiting
    BY <1>1, <1>2, <1>6, <2>2, QuietLanes DEF InspectNotReady
  <2>. QED  BY <2>1, <2>2
<1>7. ~ReconcileAbsent(d)
  BY DEF ReconcileAbsent
<1>. QED  BY <1>4, <1>5, <1>6, <1>7

(* The last message of an inbox whose franchise has nothing in hand is the *)
(* last delivery, so that OtherLane names the other inbox.                 *)
LEMMA OtherLaneDiffers ==
    ASSUME IInv, MailInv, OwnMail, LanesInv, NEW t \in Teams, Len(inbox[t]) # 0,
           \A p \in TeamOccs(t) : occ[p].status \notin HandedOff
    PROVE  OtherLane(t) # inbox[t][Len(inbox[t])].lane
<1>. DEFINE k == Len(inbox[t])
            x == inbox[t][k].occ
<1>1. k \in Nat /\ k \in 1..k
  BY DEF IInv, TypeOK, DispatchTypeOK, MessagesTyped
<1>2. x \in DOMAIN occ /\ inbox[t][k].lane \in {0, 1} /\ TeamOfOcc(x) = t
  BY <1>1, MessageKnown DEF OwnMail
<1>3. x \in TeamOccs(t) /\ occ[x].event = k
  BY <1>1, <1>2 DEF LanesInv, Recorded, TeamOccs, HandedOff
<1>4. k \in PostsOf(x) /\ occ[x].lane = inbox[t][k].lane
  BY <1>1, <1>2 DEF PostsOf, MailInv, MailFits
<1>5. ASSUME NEW p \in TeamOccs(t), occ[p].event # NoEvent, p # x
      PROVE  occ[p].deliveredAt < occ[x].deliveredAt
  <2>1. p \in DOMAIN occ /\ TeamOfOcc(p) = t /\ occ[p].event \in PostsOf(p)
    BY <1>5 DEF TeamOccs, MailInv, MailFits
  <2>2. occ[p].event \in 1..k /\ inbox[t][occ[p].event].occ = p
    BY <2>1 DEF PostsOf
  <2>3. occ[p].event < k
    BY <1>1, <1>5, <2>2
  <2>4. occ[x].event # NoEvent
    BY <1>1, <1>3 DEF NoEvent
  <2>5. TeamOfOcc(p) = TeamOfOcc(x) /\ occ[p].event < occ[x].event
    BY <1>2, <1>3, <2>1, <2>3
  <2>. QED
    <3>. HIDE DEF x, k
    <3>. QED  BY <1>2, <1>5, <2>1, <2>4, <2>5 DEF LanesInv, Stamped
<1>6. \A p \in DOMAIN occ : occ[p].deliveredAt \in Nat
  BY DEF IInv, TypeOK, StoreTypeOK, OccurrencesTyped, OccurrenceRows
<1>7. occ[x].event # NoEvent
  BY <1>1, <1>3 DEF NoEvent
<1>8. LastDelivered(t) = {x}
  <2>1. \A p \in TeamOccs(t) : p \in DOMAIN occ
    BY DEF TeamOccs
  <2>2. \A p \in TeamOccs(t) : occ[p].event # NoEvent => occ[p].deliveredAt <= occ[x].deliveredAt
    BY <1>2, <1>5, <1>6, <2>1
  <2>3. ASSUME NEW p \in LastDelivered(t)  PROVE p = x
    <3>1. p \in TeamOccs(t) /\ occ[p].event # NoEvent /\ occ[x].deliveredAt <= occ[p].deliveredAt
      BY <1>3, <1>7 DEF LastDelivered
    <3>2. occ[p].deliveredAt \in Nat /\ occ[x].deliveredAt \in Nat
      BY <1>2, <1>6, <2>1, <3>1
    <3>. QED
      <4>. HIDE DEF x
      <4>. QED  BY <1>5, <3>1, <3>2
  <2>. QED
    <3>. HIDE DEF x
    <3>. QED  BY <1>3, <1>7, <2>2, <2>3 DEF LastDelivered
<1>9. OtherLane(t) = IF occ[x].lane # 1 THEN 1 ELSE 0
  <2>. HIDE DEF x
  <2>. QED  BY <1>8 DEF OtherLane
<1>. QED  BY <1>2, <1>4, <1>9

(* The lane of a claim is the other one. *)
LEMMA ClaimLanes ==
    ASSUME IInv, MailInv, OwnMail, LanesInv, NEW d \in Dispatchers, Claim(d), Claimable(target[d])
    PROVE  LanesInv'
<1>. DEFINE x == target[d]
            t == team[d]
            lane == ClaimedLane(x)
            q == [occ[x] EXCEPT !.status = "sending", !.lane = lane]
<1>1. pc[d] = "claim" /\ UNCHANGED <<inbox, stamps>> /\ occ' = [occ EXCEPT ![x] = q]
  BY DEF Claim, SetRow, transportVars
<1>2. /\ x \in DOMAIN occ /\ TeamOfOcc(x) = t /\ t \in Teams /\ occ[x] \in OccurrenceRows
      /\ \A p \in TeamOccs(t) : occ[p].status \notin HandedOff
  BY <1>1, TargetKnown
<1>3. q.status = "sending" /\ q.lane = lane /\ q.event = occ[x].event /\ q.deliveredAt = occ[x].deliveredAt
  BY <1>2 DEF OccurrenceRows
<1>4. /\ DOMAIN occ' = DOMAIN occ /\ occ'[x] = q
      /\ \A p \in DOMAIN occ : p # x => occ'[p] = occ[p]
  BY <1>1, <1>2
<1>5. occ[x].status \in Waiting /\ occ[x].lane = NoLane /\ occ[x].event = NoEvent
  BY <1>2 DEF Claimable, LanesInv, Fresh
<1>6. lane = OtherLane(t)
  BY <1>2, <1>5 DEF ClaimedLane
<1>7. PostsOf(x) = {}
  BY <1>2, <1>5 DEF MailInv, MailFits
<1>8. \A p : PostsOf(p)' = PostsOf(p) /\ TeamOfOcc(p)' = TeamOfOcc(p)
  BY <1>1 DEF PostsOf, TeamOfOcc
<1>. HIDE DEF q, lane, x, t
<1>9. Fresh'
  BY <1>3, <1>4, <1>5 DEF LanesInv, Fresh, Waiting
<1>10. Recorded'
  <2>1. SUFFICES ASSUME NEW u \in Teams, NEW n \in 1..Len(inbox[u])
                 PROVE  \/ occ'[inbox[u][n].occ].event = n
                        \/ n = Len(inbox[u]) /\ occ'[inbox[u][n].occ].status \in InDoubt
    BY <1>1 DEF Recorded
  <2>2. inbox[u][n].occ \in DOMAIN occ /\ TeamOfOcc(inbox[u][n].occ) = u
    BY MessageKnown DEF OwnMail
  <2>3. inbox[u][n].occ # x
    BY <1>7, <2>2 DEF PostsOf
  <2>. QED  BY <1>4, <2>2, <2>3 DEF LanesInv, Recorded
<1>11. Stamped'
  BY <1>1, <1>3, <1>4, <1>5, <1>8 DEF LanesInv, Stamped
<1>12. OtherInbox'
  <2>1. SUFFICES ASSUME NEW o \in DOMAIN occ, occ'[o].status \in InDoubt, PostsOf(o) = {},
                        Len(inbox[TeamOfOcc(o)]) # 0
                 PROVE  inbox[TeamOfOcc(o)][Len(inbox[TeamOfOcc(o)])].lane # occ'[o].lane
    BY <1>1, <1>4, <1>8 DEF OtherInbox
  <2>2. CASE o = x
    BY <1>2, <1>3, <1>4, <1>6, <2>1, <2>2, OtherLaneDiffers
  <2>3. CASE o # x
    BY <1>4, <2>1, <2>3 DEF LanesInv, OtherInbox
  <2>. QED  BY <2>2, <2>3
<1>13. LanesAlternate'
  BY <1>1 DEF LanesInv, LanesAlternate
<1>. QED  BY <1>9, <1>10, <1>11, <1>12, <1>13 DEF LanesInv

(* A delivery is told of the last message of the inbox. *)
LEMMA DeliveredLanes ==
    ASSUME IInv, MailInv, OwnMail, LanesInv, NEW d \in Dispatchers, pc[d] \in {"reconcile", "sent"},
           NEW n \in FoundIn(target[d], LaneOf(target[d])), Delivered(target[d], n),
           UNCHANGED inbox
    PROVE  LanesInv'
<1>. DEFINE x == target[d]
            t == team[d]
            q == [occ[x] EXCEPT !.status = "delivered", !.event = n, !.deliveredAt = stamps[t] + 1]
<1>1. /\ x \in DOMAIN occ /\ TeamOfOcc(x) = t /\ t \in Teams /\ occ[x] \in OccurrenceRows
      /\ inbox[t] \in Seq(Message) /\ stamps[t] \in Nat /\ occ[x].status \in InDoubt
  BY TargetKnown DEF InDoubt
<1>2. occ' = [occ EXCEPT ![x] = q] /\ stamps' = [stamps EXCEPT ![t] = stamps[t] + 1]
  BY <1>1 DEF Delivered, SetRow
<1>3. q.status = "delivered" /\ q.lane = occ[x].lane /\ q.event = n /\ q.deliveredAt = stamps[t] + 1
  BY <1>1 DEF OccurrenceRows
<1>4. /\ DOMAIN occ' = DOMAIN occ /\ occ'[x] = q
      /\ \A p \in DOMAIN occ : p # x => occ'[p] = occ[p]
  BY <1>1, <1>2
<1>5. n \in 1..Len(inbox[t]) /\ inbox[t][n].occ = x /\ Len(inbox[t]) \in Nat /\ n \in Nat /\ n # NoEvent
  BY <1>1 DEF FoundIn, PostsOf, NoEvent
<1>6. occ[x].event = NoEvent
  BY <1>1 DEF LanesInv, Fresh
<1>7. n = Len(inbox[t])
  BY <1>1, <1>5, <1>6 DEF LanesInv, Recorded
<1>8. \A p : PostsOf(p)' = PostsOf(p) /\ TeamOfOcc(p)' = TeamOfOcc(p)
  BY DEF PostsOf, TeamOfOcc
<1>9. stamps \in [Teams -> Nat] /\ \A p \in DOMAIN occ : TeamOfOcc(p) \in Teams /\ occ[p] \in OccurrenceRows
  BY TeamOfOccType DEF IInv, TypeOK, StoreTypeOK, OccurrencesTyped, DispatchTypeOK
<1>. HIDE DEF q, x, t
<1>10. Fresh'
  BY <1>3, <1>4 DEF LanesInv, Fresh, Waiting, InDoubt
<1>11. Recorded'
  <2>1. SUFFICES ASSUME NEW u \in Teams, NEW i \in 1..Len(inbox[u])
                 PROVE  \/ occ'[inbox[u][i].occ].event = i
                        \/ i = Len(inbox[u]) /\ occ'[inbox[u][i].occ].status \in InDoubt
    BY DEF Recorded
  <2>2. inbox[u][i].occ \in DOMAIN occ /\ TeamOfOcc(inbox[u][i].occ) = u
    BY MessageKnown DEF OwnMail
  <2>3. CASE inbox[u][i].occ = x
    <3>1. u = t
      BY <1>1, <2>2, <2>3
    <3>2. i = n
      BY <1>6, <1>7, <2>3, <3>1, <1>5 DEF LanesInv, Recorded, NoEvent
    <3>. QED  BY <1>3, <1>4, <2>3, <3>2
  <2>4. CASE inbox[u][i].occ # x
    BY <1>4, <2>2, <2>4 DEF LanesInv, Recorded
  <2>. QED  BY <2>3, <2>4
<1>12. Stamped'
  <2>1. \A p \in DOMAIN occ : TeamOfOcc(p) = t /\ p # x /\ occ[p].event # NoEvent =>
           occ[p].event < n /\ occ[p].deliveredAt < stamps[t] + 1
    <3>1. SUFFICES ASSUME NEW p \in DOMAIN occ, TeamOfOcc(p) = t, p # x, occ[p].event # NoEvent
                   PROVE  occ[p].event < n /\ occ[p].deliveredAt < stamps[t] + 1
      OBVIOUS
    <3>2. occ[p].event \in PostsOf(p)
      BY <3>1 DEF MailInv, MailFits
    <3>3. occ[p].event \in 1..Len(inbox[t]) /\ inbox[t][occ[p].event].occ = p
      BY <3>1, <3>2 DEF PostsOf
    <3>4. occ[p].deliveredAt <= stamps[t] /\ occ[p].deliveredAt \in Nat
      BY <1>9, <3>1 DEF LanesInv, Stamped, OccurrenceRows
    <3>. QED  BY <1>1, <1>5, <1>7, <3>1, <3>3, <3>4
  <2>2. SUFFICES ASSUME NEW o \in DOMAIN occ, occ'[o].event # NoEvent
                 PROVE  /\ occ'[o].deliveredAt <= stamps'[TeamOfOcc(o)]
                        /\ \A p \in DOMAIN occ :
                              TeamOfOcc(p) = TeamOfOcc(o) /\ occ'[p].event # NoEvent /\ occ'[p].event < occ'[o].event
                                  => occ'[p].deliveredAt < occ'[o].deliveredAt
    BY <1>4, <1>8 DEF Stamped
  <2>3. stamps'[t] = stamps[t] + 1 /\ \A u \in Teams : u # t => stamps'[u] = stamps[u]
    BY <1>1, <1>2, <1>9
  <2>4. CASE o = x
    <3>1. occ'[o].deliveredAt = stamps[t] + 1 /\ occ'[o].event = n /\ TeamOfOcc(o) = t
      BY <1>1, <1>3, <1>4, <2>4
    <3>2. occ'[o].deliveredAt <= stamps'[TeamOfOcc(o)]
      BY <1>1, <2>3, <3>1
    <3>3. ASSUME NEW p \in DOMAIN occ, TeamOfOcc(p) = TeamOfOcc(o), occ'[p].event # NoEvent,
                 occ'[p].event < occ'[o].event
          PROVE  occ'[p].deliveredAt < occ'[o].deliveredAt
      <4>1. p # x
        BY <1>3, <1>4, <1>5, <3>1, <3>3
      <4>. QED  BY <1>4, <2>1, <3>1, <3>3, <4>1
    <3>. QED  BY <3>2, <3>3
  <2>5. CASE o # x
    <3>1. occ'[o] = occ[o] /\ occ[o].event # NoEvent
      BY <1>4, <2>2, <2>5
    <3>2. occ[o].deliveredAt <= stamps[TeamOfOcc(o)] /\ occ[o].deliveredAt \in Nat /\ occ[o].event \in Nat
      BY <1>9, <3>1 DEF LanesInv, Stamped, OccurrenceRows
    <3>3. occ[o].deliveredAt <= stamps'[TeamOfOcc(o)]
      BY <1>1, <1>9, <2>3, <3>2
    <3>4. ASSUME NEW p \in DOMAIN occ, TeamOfOcc(p) = TeamOfOcc(o), occ'[p].event # NoEvent,
                 occ'[p].event < occ'[o].event
          PROVE  occ'[p].deliveredAt < occ'[o].deliveredAt
      <4>1. CASE p = x
        <5>1. occ[o].event < n
          BY <1>1, <2>1, <2>5, <3>1, <3>4, <4>1
        <5>2. occ'[p].event = n
          BY <1>3, <1>4, <4>1
        <5>. QED  BY <1>5, <3>1, <3>2, <3>4, <5>1, <5>2
      <4>2. CASE p # x
        BY <1>4, <3>1, <3>4, <4>2 DEF LanesInv, Stamped
      <4>. QED  BY <4>1, <4>2
    <3>. QED  BY <3>1, <3>3, <3>4
  <2>. QED  BY <2>4, <2>5
<1>13. OtherInbox'
  BY <1>3, <1>4, <1>8 DEF LanesInv, OtherInbox, InDoubt
<1>14. LanesAlternate'
  BY DEF LanesInv, LanesAlternate
<1>. QED  BY <1>10, <1>11, <1>12, <1>13, <1>14 DEF LanesInv

(* What arrives is in doubt, so it goes to the other inbox than the last. *)
LEMMA ArriveLanes ==
    ASSUME IInv, MailInv, OwnMail, LanesInv, NEW m \in wire, Arrive(m)
    PROVE  LanesInv'
<1>. DEFINE x == m.occ
            t == TeamOfOcc(x)
            k == Len(inbox[t])
<1>1. UNCHANGED <<occ, stamps>> /\ inbox' = [inbox EXCEPT ![t] = Append(@, m)]
  BY DEF Arrive, storeVars, dispatcherVars
<1>2. m \in Message /\ x \in DOMAIN occ
  BY DEF IInv, TypeOK, DispatchTypeOK, MessagesTyped, Message
<1>3. t \in Teams /\ inbox[t] \in Seq(Message) /\ inbox \in [Teams -> Seq(Message)] /\ k \in Nat
  BY <1>2, TeamOfOccType DEF IInv, TypeOK, DispatchTypeOK, MessagesTyped
<1>4. /\ Len(inbox'[t]) = k + 1 /\ inbox'[t][k + 1] = m
      /\ \A i \in 1..k : inbox'[t][i] = inbox[t][i]
      /\ \A u \in Teams : u # t => inbox'[u] = inbox[u]
  <2>1. inbox'[t] = Append(inbox[t], m) /\ \A u \in Teams : u # t => inbox'[u] = inbox[u]
    BY <1>1, <1>3
  <2>. QED  BY <1>2, <1>3, <2>1, AppendProperties
<1>5. OnWire(x) /\ occ[x].status \in InDoubt /\ PostsOf(x) = {} /\ m.lane = occ[x].lane
  BY <1>2 DEF OnWire, MailInv, MailFits
<1>6. \A p \in DOMAIN occ : TeamOfOcc(p) = t /\ occ[p].status \in InDoubt => p = x
  BY <1>2, <1>5 DEF IInv, OneHandedOff, HandedOff
<1>7. k # 0 => inbox[t][k].lane # m.lane
  BY <1>2, <1>5 DEF LanesInv, OtherInbox
<1>8. \A p \in DOMAIN occ : (p # x => PostsOf(p)' = PostsOf(p)) /\ TeamOfOcc(p)' = TeamOfOcc(p)
  BY ArrivePosts DEF TeamOfOcc
<1>9. (k + 1) \in PostsOf(x)'
  BY <1>1, <1>3, <1>4 DEF PostsOf, TeamOfOcc
<1>. HIDE DEF x, t, k
<1>10. Fresh'
  BY <1>1 DEF LanesInv, Fresh
<1>11. Recorded'
  <2>1. SUFFICES ASSUME NEW u \in Teams, NEW n \in 1..Len(inbox'[u])
                 PROVE  \/ occ[inbox'[u][n].occ].event = n
                        \/ n = Len(inbox'[u]) /\ occ[inbox'[u][n].occ].status \in InDoubt
    BY <1>1 DEF Recorded
  <2>2. CASE u # t
    BY <1>4, <2>1, <2>2 DEF LanesInv, Recorded
  <2>3. CASE u = t /\ n = k + 1
    BY <1>4, <1>5, <2>3 DEF x
  <2>4. CASE u = t /\ n \in 1..k
    <3>1. inbox[t][n].occ \in DOMAIN occ /\ TeamOfOcc(inbox[t][n].occ) = t
      BY <1>3, <2>4, MessageKnown DEF OwnMail, k
    <3>2. inbox[t][n].occ # x
      BY <1>5, <2>4, <3>1 DEF PostsOf, k
    <3>3. occ[inbox[t][n].occ].status \notin InDoubt
      BY <1>6, <3>1, <3>2
    <3>. QED  BY <1>3, <1>4, <2>4, <3>3 DEF LanesInv, Recorded, k
  <2>5. u = t => n = k + 1 \/ n \in 1..k
    BY <1>3, <1>4, <2>1
  <2>. QED  BY <2>2, <2>3, <2>4, <2>5
<1>12. Stamped'
  BY <1>1 DEF LanesInv, Stamped, TeamOfOcc
<1>13. OtherInbox'
  <2>1. SUFFICES ASSUME NEW o \in DOMAIN occ, occ[o].status \in InDoubt, PostsOf(o)' = {},
                        Len(inbox'[TeamOfOcc(o)]) # 0
                 PROVE  inbox'[TeamOfOcc(o)][Len(inbox'[TeamOfOcc(o)])].lane # occ[o].lane
    BY <1>1, <1>8 DEF OtherInbox
  <2>2. o # x
    BY <1>9, <2>1
  <2>3. TeamOfOcc(o) # t /\ TeamOfOcc(o) \in Teams
    BY <1>6, <2>1, <2>2, TeamOfOccType DEF IInv, TypeOK
  <2>. QED  BY <1>4, <1>8, <2>1, <2>2, <2>3 DEF LanesInv, OtherInbox
<1>14. LanesAlternate'
  <2>1. SUFFICES ASSUME NEW u \in Teams, NEW i \in 1..(Len(inbox'[u]) - 1)
                 PROVE  inbox'[u][i].lane # inbox'[u][i + 1].lane
    BY DEF LanesAlternate
  <2>2. CASE u # t
    BY <1>4, <2>1, <2>2 DEF LanesInv, LanesAlternate
  <2>3. CASE u = t
    <3>1. i \in 1..k
      BY <1>3, <1>4, <2>1, <2>3
    <3>2. CASE i = k
      BY <1>3, <1>4, <1>7, <2>3, <3>1, <3>2
    <3>3. CASE i # k
      <4>1. i \in 1..(k - 1) /\ i + 1 \in 1..k
        BY <1>3, <3>1, <3>3
      <4>2. inbox[t][i].lane # inbox[t][i + 1].lane
        BY <1>3, <4>1 DEF LanesInv, LanesAlternate, k
      <4>. QED  BY <1>4, <2>3, <3>1, <4>1, <4>2
    <3>. QED  BY <3>2, <3>3
  <2>. QED  BY <2>2, <2>3
<1>. QED  BY <1>10, <1>11, <1>12, <1>13, <1>14 DEF LanesInv

LEMMA NextLanes ==
    ASSUME AbsenceProvable = FALSE, IInv, MailInv, OwnMail, LanesInv, [Next]_vars
    PROVE  LanesInv'
<1>1. CASE Store \/ \E o \in DOMAIN occ : Recover(o)
  <2>1. /\ OwnerCommand \/ Infrastructure \/ \E o \in DOMAIN occ : FailOccurrence(o)
        /\ UNCHANGED <<dispatcherVars, transportVars>>
    BY <1>1 DEF Store, Recover
  <2>. QED  BY <2>1, StoreRows, StoreLanes DEF IInv, TypeOK, Coordination
<1>2. ASSUME NEW d \in Dispatchers, Dispatch(d)
      PROVE  LanesInv'
  <2>1. CASE ReconcileFound(d) \/ Receipt(d)
    BY <2>1, DeliveredLanes DEF ReconcileFound, Receipt, transportVars
  <2>2. CASE Claim(d)
    BY <2>2, ClaimLanes, WriterLanes
  <2>. QED  BY <1>2, <2>1, <2>2, WriterLanes DEF Dispatch, Progress
<1>3. ASSUME NEW m \in wire, Lose(m)
      PROVE  LanesInv'
  <2>1. QuietRows /\ UNCHANGED <<inbox, stamps>>
    BY <1>3 DEF Lose, QuietRows, storeVars, dispatcherVars
  <2>. QED  BY <2>1, QuietLanes
<1>4. CASE UNCHANGED vars
  <2>1. QuietRows /\ UNCHANGED <<inbox, stamps>>
    BY <1>4 DEF vars, QuietRows
  <2>. QED  BY <2>1, QuietLanes
<1>. QED  BY <1>1, <1>2, <1>3, <1>4, ArriveLanes DEF Next

LEMMA InitLanes == Init => LanesInv
BY DEF Init, StoreInit, LanesInv, Fresh, Recorded, Stamped, OtherInbox, LanesAlternate

(* With a transport that cannot prove absence, such as the Buzz one, two   *)
(* consecutive messages of a franchise never share an inbox, whatever is   *)
(* lost, late, acknowledged early or closed by an operator in between.     *)
THEOREM LanesTakeTurns ==
    ASSUME AbsenceProvable = FALSE
    PROVE  Spec => []LanesAlternate
<1>1. IInv /\ OwnMail /\ [Next]_vars => OwnMail'
  BY NextOwnMail
<1>2. IInv /\ MailInv /\ OwnMail /\ LanesInv /\ [Next]_vars => LanesInv'
  BY NextLanes
<1>3. LanesInv => LanesAlternate
  BY DEF LanesInv
<1>. QED  BY <1>1, <1>2, <1>3, InitOwnMail, InitLanes, Inductive, MailHolds, PTL DEF Spec

-----------------------------------------------------------------------------
(* Events and their audience.                                              *)

(* An occurrence of a league event and an appointment on a calendar event, *)
(* written or about to be written, belong to a franchise that may know of  *)
(* the event.                                                              *)
EventsReach ==
    /\ \A o \in DOMAIN occ : o.key \in EventIds =>
          o.key \in DOMAIN events /\ TeamOfOcc(o) \in events[o.key].audience
    /\ \A s \in DOMAIN sched : sched[s].timing.kind = "event" =>
          TeamOf[s] \in events[sched[s].timing.event].audience
    /\ \A c \in open : TeamOf[c.sched] \in events[c.timing.event].audience

AudienceInv == EventsReach /\ OneWakePerEvent

\* Events stay known, to the same franchises.
EventsStay ==
    /\ DOMAIN events \subseteq DOMAIN events'
    /\ \A e \in DOMAIN events : events'[e].audience = events[e].audience

\* New rows are of a due time, or of an event not known before, in its audience.
NewRowsKnown ==
    \A o \in DOMAIN occ' \ DOMAIN occ :
        \/ o.key \notin EventIds
        \/ /\ o.key \in DOMAIN events' \ DOMAIN events
           /\ TeamOfOcc(o) \in events'[o.key].audience
           /\ o.version = sched[o.sched].version

\* An appointment is on the event it was on, or on one its franchise knows.
AnchorsSeen ==
    \A s \in DOMAIN sched' :
        \/ s \in DOMAIN sched /\ sched'[s].timing = sched[s].timing
        \/ sched'[s].timing.kind # "event"
        \/ /\ sched'[s].timing.event \in DOMAIN events
           /\ TeamOf[s] \in events[sched'[s].timing.event].audience

CommandsSeen ==
    \A c \in open' : \/ c \in open
                     \/ /\ c.timing.event \in DOMAIN events
                        /\ TeamOf[c.sched] \in events[c.timing.event].audience

EventStep == EventsStay /\ NewRowsKnown /\ AnchorsSeen /\ CommandsSeen

LEMMA EventStepReaches ==
    ASSUME StoreTypeOK, StoreTypeOK', DOMAIN occ \subseteq DOMAIN occ', AudienceInv, EventStep
    PROVE  AudienceInv'
<1>. USE DEF AudienceInv, EventStep
<1>1. ASSUME NEW o \in DOMAIN occ', o.key \in EventIds
      PROVE  o.key \in DOMAIN events' /\ TeamOfOcc(o) \in events'[o.key].audience
  BY <1>1 DEF EventsReach, NewRowsKnown, EventsStay
<1>2. ASSUME NEW s \in DOMAIN sched', sched'[s].timing.kind = "event"
      PROVE  TeamOf[s] \in events'[sched'[s].timing.event].audience
  <2>1. s \in DOMAIN sched /\ sched[s].timing.kind = "event"
            => sched[s].timing.event \in DOMAIN events
    BY DEF StoreTypeOK, AnchorsKnown
  <2>. QED  BY <1>2, <2>1 DEF EventsReach, AnchorsSeen, EventsStay
<1>3. ASSUME NEW c \in open'
      PROVE  TeamOf[c.sched] \in events'[c.timing.event].audience
  <2>1. c \in open => c.timing.event \in DOMAIN events
    BY DEF StoreTypeOK, OpenTyped
  <2>. QED  BY <1>3, <2>1 DEF EventsReach, CommandsSeen, EventsStay
<1>4. ASSUME NEW o \in DOMAIN occ', NEW p \in DOMAIN occ',
             o.sched = p.sched, o.key = p.key, o.key \in EventIds
      PROVE  o = p
  <2>1. CASE o \in DOMAIN occ /\ p \in DOMAIN occ
    BY <1>4, <2>1 DEF OneWakePerEvent
  <2>2. \A q \in DOMAIN occ : q.key \in EventIds => q.key \in DOMAIN events
    BY DEF EventsReach
  <2>3. \A q \in DOMAIN occ' \ DOMAIN occ : q.key \in EventIds => 
           q.key \notin DOMAIN events /\ q.version = sched[q.sched].version
    BY DEF NewRowsKnown
  <2>4. CASE o \notin DOMAIN occ /\ p \notin DOMAIN occ
    <3>1. o.version = p.version
      BY <1>4, <2>3, <2>4
    <3>2. o \in OccurrenceIds /\ p \in OccurrenceIds
      BY DEF StoreTypeOK, OccurrencesTyped
    <3>. QED  BY <1>4, <3>1, <3>2 DEF OccurrenceIds
  <2>. QED  BY <1>4, <2>1, <2>2, <2>3, <2>4
<1>. QED  BY <1>1, <1>2, <1>3, <1>4 DEF EventsReach, OneWakePerEvent

LEMMA CloseOutAnchors ==
    ASSUME StoreTypeOK, NEW o \in DOMAIN occ, NEW st, CloseOut(o, st)
    PROVE  AnchorsSeen
<1>1. \A x \in DOMAIN sched : sched[x] \in ScheduleRows
  BY DEF StoreTypeOK, SchedulesTyped
<1>. QED  BY <1>1 DEF CloseOut, AnchorsSeen, ScheduleRows

LEMMA OwnerCommandEvents ==
    ASSUME StoreTypeOK, AudienceInv, OpenCommands, OwnerCommand
    PROVE  EventStep
<1>. USE DEF AudienceInv
<1>1. UNCHANGED <<events, open>> => EventsStay /\ CommandsSeen
  BY DEF EventsStay, CommandsSeen
<1>2. DOMAIN occ' = DOMAIN occ => NewRowsKnown
  BY DEF NewRowsKnown
<1>3. ASSUME NEW s \in Schedules, NEW tm \in Timings, Define(s, tm)
      PROVE  EventStep
  <2>1. AnchorsSeen
    BY <1>3 DEF AnchorsSeen, Define, Redefine, PutSchedule
  <2>2. DOMAIN occ' = DOMAIN occ /\ UNCHANGED <<events, open>>
    BY <1>3 DEF Define, Redefine, Withdraw
  <2>. QED  BY <1>1, <1>2, <2>1, <2>2 DEF EventStep
<1>4. ASSUME NEW s \in Schedules, NEW tm \in Timings, ReadAnchor(s, tm)
      PROVE  EventStep
  BY <1>4 DEF ReadAnchor, Anchorable, EventStep, EventsStay, NewRowsKnown, AnchorsSeen, CommandsSeen
<1>5. ASSUME NEW c \in open, CommitAnchor(c)
      PROVE  EventStep
  <2>1. c.timing.event \in DOMAIN events /\ TeamOf[c.sched] \in events[c.timing.event].audience
    BY DEF StoreTypeOK, OpenTyped, EventsReach
  <2>2. AnchorsSeen
    BY <1>5, <2>1 DEF AnchorsSeen, CommitAnchor, Redefine, PutSchedule
  <2>3. DOMAIN occ' = DOMAIN occ /\ UNCHANGED events /\ open' \subseteq open
    BY <1>5 DEF CommitAnchor, Redefine, Withdraw
  <2>. QED  BY <1>2, <2>2, <2>3 DEF EventStep, EventsStay, CommandsSeen
<1>6. ASSUME NEW s \in Schedules, Cancel(s)
      PROVE  EventStep
  <2>1. \A x \in DOMAIN sched : sched[x] \in ScheduleRows
    BY DEF StoreTypeOK, SchedulesTyped
  <2>2. AnchorsSeen
    BY <1>6, <2>1 DEF AnchorsSeen, Cancel, ScheduleRows
  <2>3. DOMAIN occ' = DOMAIN occ /\ UNCHANGED <<events, open>>
    BY <1>6 DEF Cancel, Withdraw
  <2>. QED  BY <1>1, <1>2, <2>2, <2>3 DEF EventStep
<1>7. ASSUME NEW o \in DOMAIN occ, NEW st \in AckStates, Acknowledge(o, st)
      PROVE  EventStep
  <2>1. AnchorsSeen
    BY <1>7, CloseOutAnchors DEF Acknowledge
  <2>2. DOMAIN occ' = DOMAIN occ /\ UNCHANGED <<events, open>>
    BY <1>7 DEF Acknowledge
  <2>. QED  BY <1>1, <1>2, <2>1, <2>2 DEF EventStep
<1>. QED  BY <1>3, <1>4, <1>5, <1>6, <1>7 DEF OwnerCommand

LEMMA InfrastructureEvents ==
    ASSUME StoreTypeOK, AudienceInv, Infrastructure
    PROVE  EventStep
<1>. USE DEF AudienceInv
<1>1. UNCHANGED <<events, open>> => EventsStay /\ CommandsSeen
  BY DEF EventsStay, CommandsSeen
<1>2. DOMAIN occ' = DOMAIN occ => NewRowsKnown
  BY DEF NewRowsKnown
<1>3. \A x \in DOMAIN sched : sched[x] \in ScheduleRows
  BY DEF StoreTypeOK, SchedulesTyped
<1>4. ASSUME NEW e \in CalendarEvents, NEW at \in 0..MaxTime, NEW gone \in BOOLEAN,
             RecordCalendarEvent(e, at, gone)
      PROVE  EventStep
  <2>1. AnchorsSeen
    BY <1>4, RedatedRows DEF AnchorsSeen
  <2>2. DOMAIN occ' = DOMAIN occ /\ UNCHANGED open
    BY <1>4 DEF RecordCalendarEvent, Withdraw
  <2>3. EventsStay
    <3>1. events' = PutEvent(e, [at |-> at, cancelled |-> gone,
                audience |-> IF e \in DOMAIN events THEN events[e].audience ELSE Teams])
      BY <1>4 DEF RecordCalendarEvent
    <3>. QED  BY <3>1 DEF EventsStay, PutEvent
  <2>. QED  BY <1>2, <2>1, <2>2, <2>3 DEF EventStep, CommandsSeen
<1>5. ASSUME NEW e \in LeagueEvents, NEW at \in 0..now, RecordLeagueEvent(e, at)
      PROVE  EventStep
  <2>1. /\ events' = PutEvent(e.id, [at |-> at, cancelled |-> FALSE, audience |-> e.audience])
        /\ occ' = [o \in DOMAIN occ \cup {IdOf(s, e.id) : s \in SubscribedTo(e)} |->
                      IF o \in DOMAIN occ THEN occ[o] ELSE NewRow(at)]
        /\ e.id \notin DOMAIN events
        /\ UNCHANGED <<sched, open>>
    BY <1>5 DEF RecordLeagueEvent, Unrecorded
  <2>2. EventsStay
    BY <2>1 DEF EventsStay, PutEvent
  <2>3. NewRowsKnown
    <3>. SUFFICES ASSUME NEW o \in DOMAIN occ' \ DOMAIN occ
                  PROVE  /\ o.key \in DOMAIN events' \ DOMAIN events
                         /\ TeamOfOcc(o) \in events'[o.key].audience
                         /\ o.version = sched[o.sched].version
      BY DEF NewRowsKnown
    <3>1. PICK s \in SubscribedTo(e) : o = IdOf(s, e.id)
      BY <2>1
    <3>2. o.key = e.id /\ o.version = sched[s].version /\ o.sched = s
      BY <3>1 DEF IdOf
    <3>3. TeamOf[s] \in e.audience
      BY DEF SubscribedTo
    <3>. QED  BY <2>1, <3>2, <3>3 DEF PutEvent, TeamOfOcc
  <2>. QED  BY <2>1, <2>2, <2>3 DEF EventStep, AnchorsSeen, CommandsSeen
<1>6. ASSUME MaterializeDue
      PROVE  EventStep
  <2>1. NewRowsKnown
    <3>. SUFFICES ASSUME NEW o \in DOMAIN occ' \ DOMAIN occ
                  PROVE  o.key \notin EventIds
      BY DEF NewRowsKnown
    <3>1. PICK s \in DueNow : o = IdOf(s, sched[s].due)
      BY <1>6 DEF MaterializeDue
    <3>2. sched[s].due \in Int
      BY <1>3 DEF DueNow, ScheduleRows, Times
    <3>. QED  BY <3>1, <3>2, EventIdsAssumption DEF IdOf
  <2>2. AnchorsSeen
    BY <1>3, <1>6 DEF AnchorsSeen, MaterializeDue, ScheduleRows
  <2>3. UNCHANGED <<events, open>>
    BY <1>6 DEF MaterializeDue
  <2>. QED  BY <1>1, <2>1, <2>2, <2>3 DEF EventStep
<1>7. ASSUME NEW o \in DOMAIN occ, NEW st \in AckStates, RecordExecution(o, st)
      PROVE  EventStep
  <2>1. AnchorsSeen
    BY <1>7, CloseOutAnchors DEF RecordExecution
  <2>2. DOMAIN occ' = DOMAIN occ /\ UNCHANGED <<events, open>>
    BY <1>7 DEF RecordExecution
  <2>. QED  BY <1>1, <1>2, <2>1, <2>2 DEF EventStep
<1>8. ASSUME UNCHANGED <<sched, events, open>>, DOMAIN occ' = DOMAIN occ
      PROVE  EventStep
  BY <1>1, <1>2, <1>8 DEF EventStep, AnchorsSeen
<1>9. Tick => EventStep
  BY <1>8 DEF Tick
<1>. QED  BY <1>4, <1>5, <1>6, <1>7, <1>9 DEF Infrastructure

LEMMA NextEvents ==
    ASSUME IInv, IInv', AudienceInv, [Next]_vars
    PROVE  AudienceInv'
<1>. SUFFICES EventStep
  BY RowsRemain, EventStepReaches DEF IInv, TypeOK
<1>1. UNCHANGED <<sched, events, open>> /\ DOMAIN occ' = DOMAIN occ => EventStep
  BY DEF EventStep, EventsStay, NewRowsKnown, AnchorsSeen, CommandsSeen
<1>2. CASE Store
  BY <1>2, OwnerCommandEvents, InfrastructureEvents DEF Store, IInv, TypeOK, Coordination
<1>3. CASE \E o \in DOMAIN occ : Recover(o)
  <2>1. UNCHANGED <<sched, events, open>> /\ DOMAIN occ' = DOMAIN occ
    BY <1>3 DEF Recover, FailOccurrence
  <2>. QED  BY <1>1, <2>1
<1>4. CASE (\E d \in Dispatchers : Dispatch(d)) \/ (\E m \in wire : Arrive(m) \/ Lose(m)) \/ UNCHANGED vars
  BY <1>1, <1>4, DispatchLeavesTables, TransitLeavesTables
<1>. QED  BY <1>2, <1>3, <1>4 DEF Next

LEMMA InitEvents == Init => AudienceInv
BY DEF Init, StoreInit, AudienceInv, EventsReach, OneWakePerEvent

LEMMA AudienceHolds == Spec => []AudienceInv
<1>1. IInv /\ IInv' /\ AudienceInv /\ [Next]_vars => AudienceInv'
  BY NextEvents
<1>. QED  BY <1>1, InitEvents, Inductive, PTL DEF Spec

(* However often a league event is reported and however often an owner     *)
(* redefines the subscription, the event wakes the subscription once.      *)
THEOREM EventsWakeOnce == Spec => []OneWakePerEvent
BY AudienceHolds, PTL DEF AudienceInv

(* No franchise outside the audience of an event gets an occurrence of it  *)
(* or has an appointment on it.                                            *)
THEOREM PrivateEventsStayPrivate == Spec => []PrivateStaysPrivate
<1>1. IInv /\ AudienceInv => PrivateStaysPrivate
  BY DEF IInv, TypeOK, StoreTypeOK, EventsTyped, AudienceInv, EventsReach, PrivateStaysPrivate
<1>. QED  BY <1>1, AudienceHolds, Inductive, PTL

-----------------------------------------------------------------------------
(* Strikes.                                                                *)

\* NoStrikeLost of one appointment.
Strikes(s) ==
    LET row == sched[s]
        mine == {o \in OccsOf(s) : o.version = row.version}
    IN  row.status = "active" =>
        /\ row.timing.kind = "interval" =>
              \A x \in row.timing.at..(row.due - 1) :
                  (x - row.timing.at) % row.timing.every = 0 =>
                      \E o \in mine : x \in occ[o].scheduledFor..occ[o].missedThrough
        /\ row.timing.kind \in {"once", "event"} /\ row.due = NoTime =>
              \/ mine # {}
              \/ row.timing.kind = "event" /\ events[row.timing.event].cancelled

(* The work of the current definition was due before the time it is due    *)
(* next; an interval is always due again, a subscription never, and only a *)
(* subscription has the work of events.                                    *)
OnTime(s) ==
    /\ \A o \in OccsOf(s) : o.version = sched[s].version =>
          (o.key \in EventIds <=> sched[s].timing.kind = "subscription")
    /\ \A o \in OccsOf(s) : o.version = sched[s].version /\ sched[s].due # NoTime =>
          o.key \in Int /\ o.key = occ[o].scheduledFor /\ o.key < sched[s].due
    /\ sched[s].timing.kind = "subscription" => sched[s].due = NoTime
    /\ sched[s].timing.kind = "interval" /\ sched[s].status = "active" => sched[s].due # NoTime
    /\ Strikes(s)

CalendarInv ==
    /\ \A o \in DOMAIN occ : o.version <= sched[o.sched].version /\ occ[o].missedThrough <= now
    /\ \A c \in open : c.due # NoTime
    /\ \A s \in DOMAIN sched : OnTime(s)

\* A row keeps the time it is for; what it covers grows to the present at most.
SpansGrow ==
    /\ DOMAIN occ \subseteq DOMAIN occ'
    /\ \A o \in DOMAIN occ : /\ occ'[o].scheduledFor = occ[o].scheduledFor
                             /\ occ'[o].missedThrough \in {occ[o].missedThrough, now}
    /\ \A o \in DOMAIN occ' \ DOMAIN occ : occ'[o].missedThrough = now

LEMMA RowStepSpan ==
    ASSUME NEW r \in OccurrenceRows, NEW q, RowStep(r, q)
    PROVE  q.scheduledFor = r.scheduledFor /\ q.missedThrough \in {r.missedThrough, now}
<1>1. \A st \in AckStates : /\ Executed(r, st).scheduledFor = r.scheduledFor
                            /\ Executed(r, st).missedThrough = r.missedThrough
  BY DEF Executed, OccurrenceRows
<1>. QED  BY <1>1 DEF RowStep, OccurrenceRows

LEMMA RowsStepSpans ==
    ASSUME StoreTypeOK, RowsStep
    PROVE  SpansGrow
<1>1. \A o \in DOMAIN occ : occ[o] \in OccurrenceRows
  BY DEF StoreTypeOK, OccurrencesTyped
<1>2. \A o \in DOMAIN occ' \ DOMAIN occ : occ'[o].missedThrough = now
  BY DEF RowsStep, NewRow
<1>. QED  BY <1>1, <1>2, RowStepSpan DEF RowsStep, SpansGrow

(* A dispatcher does not touch what a row is about. *)
LEMMA DispatchSpans ==
    ASSUME IInv, NEW d \in Dispatchers, Dispatch(d)
    PROVE  SpansGrow
<1>. DEFINE x == target[d]
<1>1. UNCHANGED occ => SpansGrow
  BY DEF SpansGrow
<1>2. ASSUME NEW q, x \in DOMAIN occ, occ' = [occ EXCEPT ![x] = q],
             q.scheduledFor = occ[x].scheduledFor, q.missedThrough = occ[x].missedThrough
      PROVE  SpansGrow
  <2>1. /\ DOMAIN occ' = DOMAIN occ
        /\ occ'[x] = q
        /\ \A p \in DOMAIN occ : p # x => occ'[p] = occ[p]
    BY <1>2, OneRowChanged
  <2>. QED  BY <1>2, <2>1 DEF SpansGrow
<1>3. ASSUME NEW st, x \in DOMAIN occ, occ[x] \in OccurrenceRows,
             occ' = [occ EXCEPT ![x] = [occ[x] EXCEPT !.status = st]]
      PROVE  SpansGrow
  <2>. DEFINE q == [occ[x] EXCEPT !.status = st]
  <2>1. q.scheduledFor = occ[x].scheduledFor /\ q.missedThrough = occ[x].missedThrough
    BY <1>3 DEF OccurrenceRows
  <2>. HIDE DEF x
  <2>. QED  BY <1>2, <1>3, <2>1
<1>4. CASE List(d) \/ Visit(d) \/ Exhausted(d) \/ CheckOutstanding(d) \/ Select(d)
           \/ InspectReady(d) \/ Send(d) \/ Crash(d)
  <2>1. UNCHANGED occ
    BY <1>4 DEF List, Visit, Exhausted, CheckOutstanding, Select, InspectReady, Send, Crash, storeVars
  <2>. QED  BY <1>1, <2>1
<1>5. CASE ReconcileFound(d) \/ Receipt(d)
  <2>1. PICK n \in FoundIn(x, LaneOf(x)) : Delivered(x, n)
    BY <1>5 DEF ReconcileFound, Receipt
  <2>2. x \in DOMAIN occ /\ occ[x] \in OccurrenceRows
    BY <1>5, TargetKnown DEF ReconcileFound, Receipt
  <2>. DEFINE q == [occ[x] EXCEPT !.status = "delivered", !.event = n,
                                  !.deliveredAt = stamps[TeamOfOcc(x)] + 1]
  <2>3. occ' = [occ EXCEPT ![x] = q]
    BY <2>1 DEF Delivered, SetRow
  <2>4. q.scheduledFor = occ[x].scheduledFor /\ q.missedThrough = occ[x].missedThrough
    BY <2>2 DEF OccurrenceRows
  <2>. HIDE DEF q
  <2>. QED  BY <1>2, <2>2, <2>3, <2>4
<1>6. CASE ReconcileUnknown(d) \/ NoReceipt(d) \/ ReconcileAbsent(d)
  <2>1. /\ pc[d] \in {"reconcile", "sent"}
        /\ \E st : occ' = [occ EXCEPT ![x] = [occ[x] EXCEPT !.status = st]]
    BY <1>6 DEF ReconcileUnknown, NoReceipt, ReconcileAbsent, SetRow
  <2>2. x \in DOMAIN occ /\ occ[x] \in OccurrenceRows
    BY <2>1, TargetKnown
  <2>. QED  BY <1>3, <2>1, <2>2
<1>7. ASSUME NEW st \in Waiting, InspectNotReady(d, st)
      PROVE  SpansGrow
  <2>1. CASE occ[x].status \in Waiting
    <3>1. occ' = [occ EXCEPT ![x] = [occ[x] EXCEPT !.status = st]] /\ pc[d] = "inspect"
      BY <1>7, <2>1 DEF InspectNotReady, SetRow
    <3>2. x \in DOMAIN occ /\ occ[x] \in OccurrenceRows
      BY <3>1, TargetKnown
    <3>. QED  BY <1>3, <3>1, <3>2
  <2>2. CASE occ[x].status \notin Waiting
    BY <1>1, <1>7, <2>2 DEF InspectNotReady
  <2>. QED  BY <2>1, <2>2
<1>8. CASE Claim(d)
  <2>1. CASE Claimable(x)
    <3>. DEFINE q == [occ[x] EXCEPT !.status = "sending", !.lane = ClaimedLane(x)]
    <3>1. occ' = [occ EXCEPT ![x] = q] /\ pc[d] = "claim"
      BY <1>8, <2>1 DEF Claim, SetRow
    <3>2. x \in DOMAIN occ /\ occ[x] \in OccurrenceRows
      BY <3>1, TargetKnown
    <3>3. q.scheduledFor = occ[x].scheduledFor /\ q.missedThrough = occ[x].missedThrough
      BY <3>2 DEF OccurrenceRows
    <3>. HIDE DEF q
    <3>. QED  BY <1>2, <3>1, <3>2, <3>3
  <2>2. CASE ~Claimable(x)
    BY <1>1, <1>8, <2>2 DEF Claim
  <2>. QED  BY <2>1, <2>2
<1>. QED  BY <1>4, <1>5, <1>6, <1>7, <1>8 DEF Dispatch, Progress

-----------------------------------------------------------------------------
(* The grid of an interval.                                                *)

LEMMA Multiples ==
    ASSUME NEW n \in Nat \ {0}, NEW i \in Int, NEW j \in Int, i * n < j * n
    PROVE  i < j
<1>. SUFFICES ASSUME j <= i PROVE FALSE
  OBVIOUS
<1>1. PICK k \in Nat : i = j + k
  <2>1. i - j \in Nat /\ i = j + (i - j)
    OBVIOUS
  <2>. QED  BY <2>1
<1>2. i * n = j * n + k * n /\ k * n >= 0 /\ i * n \in Int /\ j * n \in Int
  BY <1>1
<1>. QED  BY <1>2

(* nextNativeScheduleTime is past the instant asked about, and no instant  *)
(* of the grid lies between the two.                                       *)
LEMMA NextStrike ==
    ASSUME NEW tm \in Timings, tm.kind \in {"interval", "weekly"}, NEW after \in Int
    PROVE  /\ NextTime(tm, after) \in Int /\ NextTime(tm, after) > after
           /\ \A x \in Int : /\ x >= tm.at /\ x < NextTime(tm, after)
                             /\ (x - tm.at) % tm.every = 0
                             => x <= after
<1>1. tm.at \in Int /\ tm.every \in Nat \ {0}
  BY TimingsAssumption
<1>. DEFINE q == (after - tm.at) \div tm.every
            r == (after - tm.at) % tm.every
            k == IF q + 1 > 0 THEN q + 1 ELSE 0
<1>2. q \in Int /\ r \in 0..(tm.every - 1) /\ after - tm.at = tm.every * q + r
  BY <1>1
<1>3. NextTime(tm, after) = tm.at + k * tm.every
  BY DEF NextTime
<1>. HIDE DEF q, r
<1>4. k \in Int /\ k * tm.every \in Int /\ tm.every * q = q * tm.every /\ q * tm.every \in Int
  BY <1>1, <1>2
<1>5. (q + 1) * tm.every = q * tm.every + tm.every
  BY <1>1, <1>2
<1>6. after < tm.at + (q + 1) * tm.every
  BY <1>1, <1>2, <1>4, <1>5
<1>7. CASE q + 1 > 0
  <2>1. k = q + 1
    BY <1>7
  <2>2. ASSUME NEW x \in Int, x >= tm.at, x < NextTime(tm, after), (x - tm.at) % tm.every = 0
        PROVE  x <= after
    <3>. DEFINE j == (x - tm.at) \div tm.every
    <3>1. j \in Int /\ x - tm.at = tm.every * j
      BY <1>1, <2>2
    <3>. HIDE DEF j
    <3>2. j * tm.every = tm.every * j /\ j * tm.every < (q + 1) * tm.every
      BY <1>1, <1>2, <1>3, <1>4, <2>1, <2>2, <3>1
    <3>3. j < q + 1
      BY <1>1, <1>2, <3>1, <3>2, Multiples
    <3>4. q - j \in Nat
      BY <1>2, <3>1, <3>3
    <3>5. q * tm.every = j * tm.every + (q - j) * tm.every /\ (q - j) * tm.every >= 0
      BY <1>1, <1>2, <3>1, <3>4
    <3>6. x - tm.at = j * tm.every /\ j * tm.every \in Int /\ (q - j) * tm.every \in Int
      BY <1>1, <1>2, <3>1, <3>2
    <3>7. j * tm.every <= q * tm.every
      BY <1>4, <3>5, <3>6
    <3>8. after - tm.at = q * tm.every + r
      BY <1>2, <1>4
    <3>. QED  BY <1>1, <1>2, <1>4, <3>6, <3>7, <3>8
  <2>. QED  BY <1>1, <1>3, <1>4, <1>6, <2>1, <2>2
<1>8. CASE ~(q + 1 > 0)
  <2>1. k = 0 /\ k * tm.every = 0
    BY <1>1, <1>8
  <2>2. NextTime(tm, after) = tm.at
    BY <1>1, <1>3, <2>1
  <2>3. (q + 1) * tm.every <= 0
    <3>1. -(q + 1) \in Nat
      BY <1>2, <1>8
    <3>2. (-(q + 1)) * tm.every >= 0
      BY <1>1, <3>1
    <3>. QED  BY <1>1, <1>2, <3>2
  <2>. QED  BY <1>1, <1>4, <1>5, <1>6, <2>2, <2>3
<1>. QED  BY <1>7, <1>8

(* An appointment left as it is, however its work goes on. *)
LEMMA KeptOnTime ==
    ASSUME StoreTypeOK, StoreTypeOK', SpansGrow, \A o \in DOMAIN occ : occ[o].missedThrough <= now,
           NEW s \in DOMAIN sched, s \in DOMAIN sched', OnTime(s),
           sched'[s].version = sched[s].version, sched'[s].timing = sched[s].timing,
           sched'[s].due = sched[s].due, sched'[s].status = "active" => sched[s].status = "active",
           \A o \in DOMAIN occ' \ DOMAIN occ : o.sched = s =>
              sched[s].due = NoTime /\ sched[s].timing.kind = "subscription" /\ o.key \in EventIds,
           (/\ sched'[s].status = "active" /\ sched[s].timing.kind = "event"
            /\ events[sched[s].timing.event].cancelled)
              => events'[sched[s].timing.event].cancelled
    PROVE  OnTime(s)'
<1>1. OccsOf(s) \subseteq OccsOf(s)' /\ (sched[s].due # NoTime => OccsOf(s)' = OccsOf(s))
  BY DEF SpansGrow, OccsOf
<1>2. \A o \in OccsOf(s) : /\ occ'[o].scheduledFor = occ[o].scheduledFor
                           /\ occ'[o].missedThrough >= occ[o].missedThrough
                           /\ occ[o].scheduledFor \in Int /\ occ[o].missedThrough \in Int
                           /\ occ'[o].missedThrough \in Int
  BY DEF SpansGrow, OccsOf, StoreTypeOK, OccurrencesTyped, OccurrenceRows
<1>3. \A o \in OccsOf(s)' : (o.version = sched[s].version /\ sched[s].due # NoTime) =>
          o.key \in Int /\ o.key = occ'[o].scheduledFor /\ o.key < sched[s].due
  BY <1>1, <1>2 DEF OnTime
<1>3a. \A o \in OccsOf(s)' : o.version = sched[s].version =>
          (o.key \in EventIds <=> sched[s].timing.kind = "subscription")
  BY DEF OnTime, OccsOf
<1>4. Strikes(s)'
  <2>. SUFFICES ASSUME sched'[s].status = "active"
                PROVE  Strikes(s)'
    BY DEF Strikes
  <2>0. Strikes(s) /\ sched[s].status = "active"
    BY DEF OnTime
  <2>1. ASSUME sched[s].timing.kind = "interval",
               NEW x \in sched[s].timing.at..(sched[s].due - 1),
               (x - sched[s].timing.at) % sched[s].timing.every = 0
        PROVE  \E o \in OccsOf(s)' : /\ o.version = sched[s].version
                                     /\ x \in occ'[o].scheduledFor..occ'[o].missedThrough
    <3>1. PICK o \in OccsOf(s) : o.version = sched[s].version
                                 /\ x \in occ[o].scheduledFor..occ[o].missedThrough
      BY <2>0, <2>1 DEF Strikes
    <3>. QED  BY <1>1, <1>2, <3>1
  <2>2. ASSUME sched[s].timing.kind \in {"once", "event"}, sched[s].due = NoTime
        PROVE  \/ \E o \in OccsOf(s)' : o.version = sched[s].version
               \/ sched[s].timing.kind = "event" /\ events'[sched[s].timing.event].cancelled
    BY <1>1, <2>0, <2>2 DEF Strikes
  <2>. QED  BY <2>1, <2>2 DEF Strikes
<1>. QED  BY <1>3, <1>3a, <1>4 DEF OnTime

(* A definition that has no work yet. *)
LEMMA FreshOnTime ==
    ASSUME NEW s, \A o \in OccsOf(s)' : o.version # sched'[s].version,
           sched'[s].timing.kind = "subscription" => sched'[s].due = NoTime,
           sched'[s].status = "active" =>
              /\ sched'[s].timing.kind = "interval" =>
                    sched'[s].due = sched'[s].timing.at /\ sched'[s].due \in Int
              /\ sched'[s].timing.kind \in {"once", "event"} =>
                    \/ sched'[s].due # NoTime
                    \/ sched'[s].timing.kind = "event" /\ events'[sched'[s].timing.event].cancelled
    PROVE  OnTime(s)'
<1>1. sched'[s].status = "active" /\ sched'[s].timing.kind = "interval" =>
         sched'[s].due # NoTime /\ sched'[s].timing.at..(sched'[s].due - 1) = {}
  BY NoTimeAssumption
<1>2. Strikes(s)'
  BY <1>1 DEF Strikes
<1>. QED  BY <1>1, <1>2 DEF OnTime

LEMMA CalendarStep ==
    ASSUME StoreTypeOK, StoreTypeOK', CalendarInv, SpansGrow, now <= now',
           \A c \in open' : c \in open \/ c.due # NoTime,
           \A s \in DOMAIN sched : s \in DOMAIN sched' /\ sched[s].version <= sched'[s].version,
           \A o \in DOMAIN occ' \ DOMAIN occ : o.version <= sched'[o.sched].version,
           \A s \in DOMAIN sched' : OnTime(s)'
    PROVE  CalendarInv'
<1>1. now \in Int /\ now' \in Int
  BY DEF StoreTypeOK
<1>2. ASSUME NEW o \in DOMAIN occ'
      PROVE  occ'[o].missedThrough <= now'
  <2>1. occ'[o].missedThrough \in Int /\ (o \in DOMAIN occ => occ[o].missedThrough \in Int)
    BY DEF StoreTypeOK, OccurrencesTyped, OccurrenceRows
  <2>. QED  BY <1>1, <2>1 DEF SpansGrow, CalendarInv
<1>3. ASSUME NEW o \in DOMAIN occ'
      PROVE  o.version <= sched'[o.sched].version
  <2>1. o \in DOMAIN occ => /\ o.sched \in DOMAIN sched /\ o.version <= sched[o.sched].version
                            /\ o.version \in Nat
    BY DEF StoreTypeOK, OccurrencesTyped, CalendarInv, OccurrenceIds
  <2>2. \A s \in DOMAIN sched : sched[s].version \in Nat /\ sched'[s].version \in Nat
    BY DEF StoreTypeOK, SchedulesTyped, ScheduleRows
  <2>. QED  BY <2>1, <2>2
<1>. QED  BY <1>2, <1>3 DEF CalendarInv

(* Work proceeds, appointments stay or are retired. *)
LEMMA QuietCalendar ==
    ASSUME StoreTypeOK, StoreTypeOK', CalendarInv, SpansGrow, now <= now', DOMAIN occ' = DOMAIN occ,
           \A c \in open' : c \in open \/ c.due # NoTime, UNCHANGED events, DOMAIN sched' = DOMAIN sched,
           \A s \in DOMAIN sched :
              /\ sched'[s].version = sched[s].version /\ sched'[s].timing = sched[s].timing
              /\ sched'[s].due = sched[s].due /\ (sched'[s].status = "active" => sched[s].status = "active")
    PROVE  CalendarInv'
<1>1. ASSUME NEW s \in DOMAIN sched
      PROVE  OnTime(s)'
  <2>1. OnTime(s) /\ \A o \in DOMAIN occ : occ[o].missedThrough <= now
    BY DEF CalendarInv
  <2>. QED  BY <2>1, KeptOnTime
<1>2. \A s \in DOMAIN sched : sched[s].version <= sched'[s].version
  BY DEF StoreTypeOK, SchedulesTyped, ScheduleRows
<1>. QED  BY <1>1, <1>2, CalendarStep

LEMMA CloseOutCalendar ==
    ASSUME StoreTypeOK, StoreTypeOK', CalendarInv, SpansGrow, NEW o \in DOMAIN occ, NEW st, CloseOut(o, st),
           DOMAIN occ' = DOMAIN occ, UNCHANGED <<now, events, open>>
    PROVE  CalendarInv'
<1>1. \A x \in DOMAIN sched : sched[x] \in ScheduleRows
  BY DEF StoreTypeOK, SchedulesTyped
<1>2. DOMAIN sched' = DOMAIN sched
      /\ \A s \in DOMAIN sched :
              /\ sched'[s].version = sched[s].version /\ sched'[s].timing = sched[s].timing
              /\ sched'[s].due = sched[s].due /\ (sched'[s].status = "active" => sched[s].status = "active")
  BY <1>1 DEF CloseOut, ScheduleRows
<1>3. now <= now' /\ \A c \in open' : c \in open
  BY DEF StoreTypeOK
<1>. QED  BY <1>2, <1>3, QuietCalendar

(* One appointment is defined anew or cancelled, the others stay. *)
LEMMA ReplacedCalendar ==
    ASSUME StoreTypeOK, StoreTypeOK', CalendarInv, SpansGrow, DOMAIN occ' = DOMAIN occ, NEW s,
           UNCHANGED <<now, events>>, open' \subseteq open,
           DOMAIN sched' = DOMAIN sched \cup {s},
           \A x \in DOMAIN sched \ {s} : sched'[x] = sched[x],
           s \in DOMAIN sched => sched'[s].version = sched[s].version + 1,
           sched'[s].timing.kind = "subscription" => sched'[s].due = NoTime,
           sched'[s].status = "active" =>
              /\ sched'[s].timing.kind = "interval" =>
                    sched'[s].due = sched'[s].timing.at /\ sched'[s].due \in Int
              /\ sched'[s].timing.kind \in {"once", "event"} => sched'[s].due # NoTime
    PROVE  CalendarInv'
<1>1. \A o \in DOMAIN occ : o.sched \in DOMAIN sched /\ sched[o.sched].version \in Nat /\ o.version \in Nat
  BY DEF StoreTypeOK, OccurrencesTyped, SchedulesTyped, OccurrenceIds, ScheduleRows
<1>2. OnTime(s)'
  <2>1. \A o \in OccsOf(s)' : o.version # sched'[s].version
    BY <1>1 DEF CalendarInv, OccsOf
  <2>. QED  BY <2>1, FreshOnTime
<1>3. ASSUME NEW x \in DOMAIN sched \ {s}
      PROVE  OnTime(x)'
  <2>1. OnTime(x) /\ \A o \in DOMAIN occ : occ[o].missedThrough <= now
    BY DEF CalendarInv
  <2>. QED  BY <2>1, KeptOnTime
<1>4. \A x \in DOMAIN sched : x \in DOMAIN sched' /\ sched[x].version <= sched'[x].version
  BY DEF StoreTypeOK, SchedulesTyped, ScheduleRows
<1>5. now <= now'
  BY DEF StoreTypeOK
<1>. QED  BY <1>2, <1>3, <1>4, <1>5, CalendarStep

LEMMA OwnerCommandCalendar ==
    ASSUME StoreTypeOK, StoreTypeOK', OpenCommands, CalendarInv, OwnerCommand
    PROVE  CalendarInv'
<1>1. RowsStep /\ SpansGrow
  BY StoreRows, RowsStepSpans
<1>2. \A x \in DOMAIN sched : sched[x] \in ScheduleRows
  BY DEF StoreTypeOK, SchedulesTyped
<1>3. ASSUME NEW s \in Schedules, NEW tm \in Timings, Define(s, tm)
      PROVE  CalendarInv'
  <2>1. tm.kind # "event" /\ Redefine(s, tm, InitialDue(tm), WaitingOf(s)) /\ UNCHANGED <<now, events, open>>
    BY <1>3 DEF Define
  <2>2. /\ tm.kind = "subscription" => InitialDue(tm) = NoTime
        /\ tm.kind = "interval" => InitialDue(tm) = tm.at /\ tm.at \in Int
        /\ tm.kind = "once" => InitialDue(tm) # NoTime
    BY TimingsAssumption, NoTimeAssumption DEF InitialDue
  <2>3. /\ DOMAIN occ' = DOMAIN occ
        /\ DOMAIN sched' = DOMAIN sched \cup {s}
        /\ \A x \in DOMAIN sched \ {s} : sched'[x] = sched[x]
        /\ s \in DOMAIN sched => sched'[s].version = sched[s].version + 1
        /\ sched'[s].timing = tm /\ sched'[s].due = InitialDue(tm)
    BY <2>1 DEF Redefine, PutSchedule, Withdraw
  <2>. QED  BY <1>1, <2>1, <2>2, <2>3, ReplacedCalendar
<1>4. ASSUME NEW s \in Schedules, NEW tm \in Timings, ReadAnchor(s, tm)
      PROVE  CalendarInv'
  <2>1. InitialDue(tm) = events[tm.event].at + tm.offset /\ tm.event \in DOMAIN events /\ tm.offset \in Int
    BY <1>4, TimingsAssumption DEF ReadAnchor, Anchorable, InitialDue
  <2>2. events[tm.event].at \in Int
    BY <2>1 DEF StoreTypeOK, EventsTyped, EventRows
  <2>3. InitialDue(tm) # NoTime
    BY <2>1, <2>2, NoTimeAssumption
  <2>4. UNCHANGED <<now, sched, occ, events>> /\ now <= now'
    BY <1>4 DEF ReadAnchor, StoreTypeOK
  <2>5. \A c \in open' : c \in open \/ c.due # NoTime
    BY <1>4, <2>3 DEF ReadAnchor
  <2>. QED  BY <1>1, <2>4, <2>5, QuietCalendar
<1>5. ASSUME NEW c \in open, CommitAnchor(c)
      PROVE  CalendarInv'
  <2>1. c.timing.kind = "event" /\ c.due # NoTime
    BY DEF StoreTypeOK, OpenTyped, CalendarInv
  <2>2. Redefine(c.sched, c.timing, c.due, c.withdrawn) /\ UNCHANGED <<now, events>> /\ open' \subseteq open
    BY <1>5 DEF CommitAnchor
  <2>. DEFINE s == c.sched
  <2>3. /\ DOMAIN occ' = DOMAIN occ
        /\ DOMAIN sched' = DOMAIN sched \cup {s}
        /\ \A x \in DOMAIN sched \ {s} : sched'[x] = sched[x]
        /\ s \in DOMAIN sched => sched'[s].version = sched[s].version + 1
        /\ sched'[s].timing = c.timing /\ sched'[s].due = c.due
    BY <2>2 DEF Redefine, PutSchedule, Withdraw
  <2>. HIDE DEF s
  <2>. QED  BY <1>1, <2>1, <2>2, <2>3, ReplacedCalendar
<1>6. ASSUME NEW s \in Schedules, Cancel(s)
      PROVE  CalendarInv'
  <2>1. s \in DOMAIN sched /\ UNCHANGED <<now, events, open>> /\ DOMAIN occ' = DOMAIN occ
    BY <1>6 DEF Cancel, Withdraw
  <2>2. sched' = [sched EXCEPT ![s].status = "cancelled", ![s].due = NoTime, ![s].version = @ + 1]
    BY <1>6 DEF Cancel
  <2>3. /\ DOMAIN sched' = DOMAIN sched \cup {s}
        /\ \A x \in DOMAIN sched \ {s} : sched'[x] = sched[x]
        /\ sched'[s].version = sched[s].version + 1
        /\ sched'[s].due = NoTime /\ sched'[s].status = "cancelled"
    BY <1>2, <2>1, <2>2 DEF ScheduleRows
  <2>. QED  BY <1>1, <2>1, <2>3, ReplacedCalendar
<1>7. ASSUME NEW o \in DOMAIN occ, NEW st \in AckStates, Acknowledge(o, st)
      PROVE  CalendarInv'
  BY <1>1, <1>7, CloseOutCalendar DEF Acknowledge
<1>. QED  BY <1>3, <1>4, <1>5, <1>6, <1>7 DEF OwnerCommand

LEMMA CalendarEventCalendar ==
    ASSUME StoreTypeOK, StoreTypeOK', CalendarInv, SpansGrow, NEW e \in CalendarEvents,
           NEW at \in 0..MaxTime, NEW gone \in BOOLEAN, RecordCalendarEvent(e, at, gone)
    PROVE  CalendarInv'
<1>. DEFINE hit == AnchoredTo(e)
<1>1. /\ DOMAIN occ' = DOMAIN occ /\ UNCHANGED <<now, open>>
      /\ events' = PutEvent(e, [at |-> at, cancelled |-> gone,
                audience |-> IF e \in DOMAIN events THEN events[e].audience ELSE Teams])
  BY DEF RecordCalendarEvent, Withdraw
<1>2. \A x \in DOMAIN sched : sched[x] \in ScheduleRows
  BY DEF StoreTypeOK, SchedulesTyped
<1>3. /\ DOMAIN sched' = DOMAIN sched
      /\ \A s \in DOMAIN sched \ hit : sched'[s] = sched[s]
      /\ \A s \in hit : /\ sched'[s].timing = sched[s].timing
                        /\ sched'[s].version = sched[s].version + 1
  BY RedatedRows
<1>4. \A o \in DOMAIN occ : o.sched \in DOMAIN sched /\ sched[o.sched].version \in Nat /\ o.version \in Nat
  BY DEF StoreTypeOK, OccurrencesTyped, SchedulesTyped, OccurrenceIds, ScheduleRows
<1>5. events'[e].cancelled = gone /\ \A x \in DOMAIN events : x # e => events'[x] = events[x]
  BY <1>1 DEF PutEvent
<1>6. ASSUME NEW s \in hit
      PROVE  OnTime(s)'
  <2>1. \A o \in OccsOf(s)' : o.version # sched'[s].version
    BY <1>1, <1>3, <1>4 DEF CalendarInv, OccsOf
  <2>2. s \in DOMAIN sched /\ sched'[s].timing.kind = "event" /\ sched'[s].timing.event = e
    BY <1>3 DEF hit, AnchoredTo
  <2>3. sched'[s].due # NoTime \/ gone
    <3>1. sched[s].timing.offset \in Int
      BY <1>2, <1>3, <2>2, TimingsAssumption DEF ScheduleRows
    <3>2. ~gone => sched'[s].due = at + sched[s].timing.offset
      BY <1>2, <2>2 DEF RecordCalendarEvent, ScheduleRows, hit
    <3>. QED  BY <3>1, <3>2, NoTimeAssumption
  <2>. QED  BY <1>5, <2>1, <2>2, <2>3, FreshOnTime
<1>7. ASSUME NEW s \in DOMAIN sched \ hit
      PROVE  OnTime(s)'
  <2>1. OnTime(s) /\ \A o \in DOMAIN occ : occ[o].missedThrough <= now
    BY DEF CalendarInv
  <2>2. sched[s].status = "active" /\ sched[s].timing.kind = "event" =>
           sched[s].timing.event # e /\ sched[s].timing.event \in DOMAIN events
    BY DEF hit, AnchoredTo, StoreTypeOK, AnchorsKnown
  <2>3. sched'[s].status = "active" /\ sched[s].timing.kind = "event" =>
           events'[sched[s].timing.event] = events[sched[s].timing.event]
    BY <1>3, <1>5, <2>2
  <2>. HIDE DEF hit
  <2>4. s \in DOMAIN sched' /\ sched'[s] = sched[s]
    BY <1>3
  <2>. QED  BY <1>1, <2>1, <2>3, <2>4, KeptOnTime
<1>8. \A s \in DOMAIN sched : s \in DOMAIN sched' /\ sched[s].version <= sched'[s].version
  BY <1>2, <1>3 DEF ScheduleRows
<1>9. now <= now'
  BY <1>1 DEF StoreTypeOK
<1>. HIDE DEF hit
<1>10. \A s \in DOMAIN sched' : OnTime(s)'
  BY <1>3, <1>6, <1>7
<1>. QED  BY <1>1, <1>8, <1>9, <1>10, CalendarStep

LEMMA LeagueEventCalendar ==
    ASSUME StoreTypeOK, StoreTypeOK', CalendarInv, SpansGrow, NEW e \in LeagueEvents, NEW at,
           RecordLeagueEvent(e, at)
    PROVE  CalendarInv'
<1>0. e.id \in EventIds
  BY DEF EventIds
<1>1. /\ events' = PutEvent(e.id, [at |-> at, cancelled |-> FALSE, audience |-> e.audience])
      /\ e.id \notin DOMAIN events
      /\ DOMAIN occ' = DOMAIN occ \cup {IdOf(s, e.id) : s \in SubscribedTo(e)}
      /\ UNCHANGED <<now, sched, open>>
  BY DEF RecordLeagueEvent, Unrecorded
<1>2. \A x \in DOMAIN events : events'[x] = events[x]
  BY <1>1 DEF PutEvent
<1>3. \A o \in DOMAIN occ' \ DOMAIN occ :
         /\ o.sched \in DOMAIN sched /\ o.version = sched[o.sched].version
         /\ sched[o.sched].timing.kind = "subscription" /\ o.key = e.id
  BY <1>1 DEF IdOf, SubscribedTo
<1>4. ASSUME NEW s \in DOMAIN sched
      PROVE  OnTime(s)'
  <2>1. OnTime(s) /\ \A o \in DOMAIN occ : occ[o].missedThrough <= now
    BY DEF CalendarInv
  <2>2. \A o \in DOMAIN occ' \ DOMAIN occ : o.sched = s =>
           sched[s].due = NoTime /\ sched[s].timing.kind = "subscription" /\ o.key \in EventIds
    BY <1>0, <1>3, <2>1 DEF OnTime
  <2>3. sched[s].timing.kind = "event" =>
           events'[sched[s].timing.event] = events[sched[s].timing.event]
    BY <1>2 DEF StoreTypeOK, AnchorsKnown
  <2>. QED  BY <1>1, <2>1, <2>2, <2>3, KeptOnTime
<1>5. \A s \in DOMAIN sched : s \in DOMAIN sched' /\ sched[s].version <= sched'[s].version
  BY <1>1 DEF StoreTypeOK, SchedulesTyped, ScheduleRows
<1>6. \A o \in DOMAIN occ' \ DOMAIN occ : o.version <= sched'[o.sched].version
  BY <1>1, <1>3 DEF StoreTypeOK, SchedulesTyped, ScheduleRows
<1>7. now <= now'
  BY <1>1 DEF StoreTypeOK
<1>. QED  BY <1>1, <1>4, <1>5, <1>6, <1>7, CalendarStep

(* What is due is put on record once, or absorbed by what waits already,   *)
(* up to the present; the next due time follows the present.               *)
LEMMA MaterializeOnTime ==
    ASSUME StoreTypeOK, StoreTypeOK', CalendarInv, SpansGrow, MaterializeDue, NEW s \in DueNow
    PROVE  OnTime(s)'
<1>. DEFINE new == {IdOf(x, sched[x].due) : x \in {y \in DueNow : Coalesced(y) = {}}}
            absorbing == UNION {Coalesced(x) : x \in DueNow}
            row == sched[s]
            mine == {o \in OccsOf(s) : o.version = row.version}
<1>1. /\ occ' = [o \in DOMAIN occ \cup new |->
              IF o \notin DOMAIN occ THEN NewRow(o.key)
              ELSE IF o \in absorbing THEN [occ[o] EXCEPT !.missedThrough = now]
              ELSE occ[o]]
      /\ sched' = [x \in DOMAIN sched |->
              IF x \in DueNow THEN [sched[x] EXCEPT !.due = NextTime(sched[x].timing, now)]
              ELSE sched[x]]
      /\ UNCHANGED <<now, events>>
  BY DEF MaterializeDue
<1>2. /\ s \in DOMAIN sched /\ row \in ScheduleRows /\ row.status = "active"
      /\ row.due \in Int /\ row.due <= now /\ row.due # NoTime /\ now \in Int
  BY NoTimeAssumption DEF DueNow, StoreTypeOK, SchedulesTyped, ScheduleRows, Times
<1>3. /\ sched'[s].status = "active" /\ sched'[s].version = row.version
      /\ sched'[s].timing = row.timing /\ sched'[s].due = NextTime(row.timing, now)
  BY <1>1, <1>2 DEF ScheduleRows
<1>4. OnTime(s)
  BY <1>2 DEF CalendarInv
<1>5. \A o \in mine : /\ o.key = occ[o].scheduledFor /\ o.key \in Int /\ o.key < row.due
                      /\ o \in DOMAIN occ' /\ occ'[o].scheduledFor = occ[o].scheduledFor
                      /\ occ[o].missedThrough <= now
                      /\ occ[o].missedThrough \in Int
                      /\ occ'[o].missedThrough \in {occ[o].missedThrough, now}
  BY <1>2, <1>4 DEF OnTime, SpansGrow, CalendarInv, OccsOf, StoreTypeOK, OccurrencesTyped, OccurrenceRows
<1>6. \A o \in OccsOf(s)' : o.version = row.version =>
         o \in mine \/ (o = IdOf(s, row.due) /\ occ'[o] = NewRow(row.due))
  BY <1>1 DEF OccsOf, IdOf
<1>7. \E o \in OccsOf(s)' : /\ o.version = row.version
                            /\ occ'[o].scheduledFor <= row.due /\ occ'[o].missedThrough = now
  <2>1. CASE Coalesced(s) = {}
    <3>. DEFINE n == IdOf(s, row.due)
    <3>1. n \in DOMAIN occ' /\ n.sched = s /\ n.version = row.version /\ n.key = row.due
      BY <1>1, <2>1 DEF IdOf
    <3>2. n \notin DOMAIN occ
      BY <1>5, <3>1 DEF OccsOf
    <3>3. occ'[n] = NewRow(row.due)
      BY <1>1, <3>1, <3>2
    <3>. HIDE DEF n
    <3>. QED  BY <1>2, <3>1, <3>3 DEF OccsOf, NewRow
  <2>2. CASE Coalesced(s) # {}
    <3>1. PICK o \in Coalesced(s) : TRUE
      BY <2>2
    <3>2. o \in mine /\ o \in absorbing /\ o \in DOMAIN occ
      BY <3>1 DEF Coalesced, WaitingOf, OccsOf
    <3>3. occ'[o] = [occ[o] EXCEPT !.missedThrough = now] /\ occ[o] \in OccurrenceRows
      BY <1>1, <3>2 DEF StoreTypeOK, OccurrencesTyped
    <3>4. occ'[o].missedThrough = now
      BY <3>3 DEF OccurrenceRows
    <3>. QED  BY <1>2, <1>5, <3>2, <3>4 DEF OccsOf
  <2>. QED  BY <2>1, <2>2
<1>8. NextTime(row.timing, now) # NoTime => NextTime(row.timing, now) \in Int /\ NextTime(row.timing, now) > now
  <2>1. CASE row.timing.kind \in {"interval", "weekly"}
    BY <1>2, <2>1, NextStrike DEF ScheduleRows
  <2>2. CASE row.timing.kind \notin {"interval", "weekly"}
    BY <1>2, <2>2, TimingsAssumption DEF NextTime, ScheduleRows
  <2>. QED  BY <2>1, <2>2
<1>9. \A o \in OccsOf(s)' : o.version = sched'[s].version /\ sched'[s].due # NoTime =>
          o.key \in Int /\ o.key = occ'[o].scheduledFor /\ o.key < sched'[s].due
  <2>1. ASSUME NEW o \in mine, sched'[s].due # NoTime
        PROVE  o.key \in Int /\ o.key = occ'[o].scheduledFor /\ o.key < sched'[s].due
    BY <1>2, <1>3, <1>5, <1>8, <2>1
  <2>2. ASSUME NEW o, o = IdOf(s, row.due), occ'[o] = NewRow(row.due), sched'[s].due # NoTime
        PROVE  o.key \in Int /\ o.key = occ'[o].scheduledFor /\ o.key < sched'[s].due
    BY <1>2, <1>3, <1>8, <2>2 DEF IdOf, NewRow
  <2>. QED  BY <1>3, <1>6, <2>1, <2>2
<1>10. row.timing.kind # "subscription"
  BY <1>2, <1>4 DEF OnTime
<1>10a. \A o \in OccsOf(s)' : o.version = row.version => o.key \notin EventIds
  <2>1. \A o \in mine : o.key \notin EventIds
    BY <1>4, <1>10 DEF OnTime
  <2>2. IdOf(s, row.due).key \notin EventIds
    BY <1>2, EventIdsAssumption DEF IdOf
  <2>. QED  BY <1>6, <2>1, <2>2
<1>11. row.timing.kind = "interval" => sched'[s].due \in Int /\ sched'[s].due # NoTime
  BY <1>2, <1>3, NextStrike, NoTimeAssumption DEF ScheduleRows
<1>12. Strikes(s)'
  <2>1. ASSUME row.timing.kind = "interval",
               NEW x \in row.timing.at..(sched'[s].due - 1),
               (x - row.timing.at) % row.timing.every = 0
        PROVE  \E o \in OccsOf(s)' : /\ o.version = row.version
                                     /\ x \in occ'[o].scheduledFor..occ'[o].missedThrough
    <3>0. row.timing.at \in Int
      BY <1>2, <2>1, TimingsAssumption DEF ScheduleRows
    <3>1. x \in Int /\ x >= row.timing.at /\ x < sched'[s].due
      BY <1>11, <2>1, <3>0
    <3>2. x <= now
      BY <1>2, <1>3, <2>1, <3>1, NextStrike DEF ScheduleRows
    <3>3. CASE x >= row.due
      <4>1. PICK o \in OccsOf(s)' : /\ o.version = row.version
                                    /\ occ'[o].scheduledFor <= row.due /\ occ'[o].missedThrough = now
        BY <1>7
      <4>2. occ'[o].scheduledFor \in Int
        BY <4>1 DEF StoreTypeOK, OccurrencesTyped, OccurrenceRows, OccsOf
      <4>. QED  BY <1>2, <3>1, <3>2, <3>3, <4>1, <4>2
    <3>4. CASE x < row.due
      <4>1. x \in row.timing.at..(row.due - 1)
        BY <1>2, <3>0, <3>1, <3>4
      <4>2. PICK o \in mine : x \in occ[o].scheduledFor..occ[o].missedThrough
        BY <1>2, <1>4, <2>1, <4>1 DEF OnTime, Strikes
      <4>3. o \in OccsOf(s)' /\ occ'[o].missedThrough >= occ[o].missedThrough
            /\ occ'[o].missedThrough \in Int /\ occ'[o].scheduledFor \in Int
        BY <1>2, <1>5, <4>2 DEF OccsOf
      <4>. QED  BY <1>5, <4>2, <4>3
    <3>. QED  BY <1>2, <3>1, <3>3, <3>4
  <2>2. \E o \in OccsOf(s)' : o.version = row.version
    BY <1>7
  <2>. QED  BY <1>3, <2>1, <2>2 DEF Strikes
<1>. QED  BY <1>3, <1>9, <1>10, <1>10a, <1>11, <1>12 DEF OnTime

LEMMA MaterializeCalendar ==
    ASSUME StoreTypeOK, StoreTypeOK', CalendarInv, SpansGrow, MaterializeDue
    PROVE  CalendarInv'
<1>1. \A x \in DOMAIN sched : sched[x] \in ScheduleRows
  BY DEF StoreTypeOK, SchedulesTyped
<1>2. /\ DOMAIN sched' = DOMAIN sched /\ UNCHANGED <<now, events, open>> /\ now <= now'
      /\ \A s \in DOMAIN sched : sched'[s].version = sched[s].version
      /\ \A s \in DOMAIN sched \ DueNow : sched'[s] = sched[s]
  BY <1>1 DEF MaterializeDue, ScheduleRows, StoreTypeOK
<1>3. \A o \in DOMAIN occ' \ DOMAIN occ : \E s \in DueNow : o = IdOf(s, sched[s].due)
  BY DEF MaterializeDue
<1>4. \A o \in DOMAIN occ' \ DOMAIN occ :
         o.sched \in DueNow /\ o.sched \in DOMAIN sched /\ o.version = sched[o.sched].version
  BY <1>3 DEF IdOf, DueNow
<1>5. ASSUME NEW s \in DOMAIN sched \ DueNow
      PROVE  OnTime(s)'
  <2>1. OnTime(s) /\ \A o \in DOMAIN occ : occ[o].missedThrough <= now
    BY DEF CalendarInv
  <2>2. \A o \in DOMAIN occ' \ DOMAIN occ : o.sched # s
    BY <1>4
  <2>. QED  BY <1>2, <2>1, <2>2, KeptOnTime
<1>6. \A s \in DOMAIN sched : s \in DOMAIN sched' /\ sched[s].version <= sched'[s].version
  BY <1>1, <1>2 DEF ScheduleRows
<1>7. \A o \in DOMAIN occ' \ DOMAIN occ : o.version <= sched'[o.sched].version
  BY <1>1, <1>2, <1>4 DEF ScheduleRows
<1>8. \A s \in DOMAIN sched' : OnTime(s)'
  BY <1>2, <1>5, MaterializeOnTime
<1>. QED  BY <1>2, <1>6, <1>7, <1>8, CalendarStep

LEMMA StoreCalendar ==
    ASSUME StoreTypeOK, StoreTypeOK', OpenCommands, CalendarInv,
           OwnerCommand \/ Infrastructure \/ \E o \in DOMAIN occ : FailOccurrence(o)
    PROVE  CalendarInv'
<1>1. SpansGrow
  BY StoreRows, RowsStepSpans
<1>2. CASE Infrastructure
  <2>1. ASSUME NEW o \in DOMAIN occ, NEW st \in AckStates, RecordExecution(o, st)
        PROVE  CalendarInv'
    BY <1>1, <2>1, CloseOutCalendar DEF RecordExecution
  <2>2. ASSUME NEW e \in LeagueEvents, NEW at \in 0..now, RecordLeagueEvent(e, at)
        PROVE  CalendarInv'
    BY <1>1, <2>2, LeagueEventCalendar
  <2>3. ASSUME Tick
        PROVE  CalendarInv'
    <3>1. now <= now' /\ UNCHANGED <<sched, occ, events, open>>
      BY <2>3 DEF Tick, StoreTypeOK
    <3>. QED  BY <1>1, <3>1, QuietCalendar
  <2>. QED  BY <1>1, <1>2, <2>1, <2>2, <2>3, CalendarEventCalendar, MaterializeCalendar DEF Infrastructure
<1>3. ASSUME NEW o \in DOMAIN occ, FailOccurrence(o)
      PROVE  CalendarInv'
  <2>0. DOMAIN occ' = DOMAIN occ /\ UNCHANGED <<now, sched, events, open>>
    BY <1>3 DEF FailOccurrence
  <2>1. now <= now'
    BY <2>0 DEF StoreTypeOK
  <2>. QED  BY <1>1, <2>0, <2>1, QuietCalendar
<1>. QED  BY <1>2, <1>3, OwnerCommandCalendar

LEMMA NextCalendar ==
    ASSUME IInv, IInv', CalendarInv, [Next]_vars
    PROVE  CalendarInv'
<1>1. CASE Store \/ \E o \in DOMAIN occ : Recover(o)
  <2>1. OwnerCommand \/ Infrastructure \/ \E o \in DOMAIN occ : FailOccurrence(o)
    BY <1>1 DEF Store, Recover
  <2>. QED  BY <2>1, StoreCalendar DEF IInv, TypeOK, Coordination
<1>2. ASSUME SpansGrow, UNCHANGED <<now, sched, events, open>>, DOMAIN occ' = DOMAIN occ
      PROVE  CalendarInv'
  <2>1. now <= now'
    BY <1>2 DEF IInv, TypeOK, StoreTypeOK
  <2>. QED  BY <1>2, <2>1, QuietCalendar DEF IInv, TypeOK
<1>3. CASE \E d \in Dispatchers : Dispatch(d)
  BY <1>2, <1>3, DispatchLeavesTables, DispatchSpans
<1>4. CASE (\E m \in wire : Arrive(m) \/ Lose(m)) \/ UNCHANGED vars
  <2>1. UNCHANGED <<now, sched, occ, events, open>>
    BY <1>4, TransitLeavesTables
  <2>2. SpansGrow
    BY <2>1 DEF SpansGrow
  <2>. QED  BY <1>2, <2>1, <2>2
<1>. QED  BY <1>1, <1>3, <1>4 DEF Next

LEMMA InitCalendar == Init => CalendarInv
BY DEF Init, StoreInit, CalendarInv

LEMMA CalendarHolds == Spec => []CalendarInv
<1>1. IInv /\ IInv' /\ CalendarInv /\ [Next]_vars => CalendarInv'
  BY NextCalendar
<1>. QED  BY <1>1, InitCalendar, Inductive, PTL DEF Spec

(* However long nobody looks at the clock, every instant at which an       *)
(* appointment struck lies in the span of an occurrence of the same        *)
(* definition.                                                             *)
THEOREM EveryStrikeIsWorkedOff == Spec => []NoStrikeLost
<1>1. CalendarInv => NoStrikeLost
  BY DEF CalendarInv, OnTime, Strikes, NoStrikeLost
<1>. QED  BY <1>1, CalendarHolds, PTL

-----------------------------------------------------------------------------
(* Bursts.                                                                 *)

(* A second occurrence is never put on record beside one that waits.       *)
LEMMA MaterializeNoBurst ==
    ASSUME StoreTypeOK, StoreTypeOK', CurrentInv, CalendarInv, NoBurst, MaterializeDue
    PROVE  NoBurst'
<1>. DEFINE new == {IdOf(x, sched[x].due) : x \in {y \in DueNow : Coalesced(y) = {}}}
<1>1. /\ DOMAIN occ' = DOMAIN occ \cup new
      /\ \A o \in DOMAIN occ : occ'[o] = occ[o] \/ occ'[o] = [occ[o] EXCEPT !.missedThrough = now]
  BY DEF MaterializeDue
<1>2. \A o \in DOMAIN occ : occ'[o].status = occ[o].status
  BY <1>1 DEF StoreTypeOK, OccurrencesTyped, OccurrenceRows
<1>3. \A s \in DueNow : s \in DOMAIN sched /\ sched[s].due # NoTime /\ sched[s].due \in Int
  BY NoTimeAssumption DEF DueNow, StoreTypeOK, SchedulesTyped, ScheduleRows, Times
<1>4. ASSUME NEW o \in DOMAIN occ, NEW s \in DueNow, o.sched = s, o.version = sched[s].version,
             occ[o].status \in Waiting
      PROVE  Coalesced(s) # {}
  <2>0. OnTime(s)
    BY <1>3 DEF CalendarInv
  <2>1. \A p \in WaitingOf(s) : p.version = o.version => p.key \notin EventIds
    BY <1>3, <1>4, <2>0 DEF OnTime, WaitingOf, OccsOf
  <2>2. \A p \in WaitingOf(s) : p.version = o.version => p = o
    BY <1>4, <2>1 DEF NoBurst, WaitingOf, OccsOf
  <2>3. occ[o].scheduledFor \in Int
    BY DEF StoreTypeOK, OccurrencesTyped, OccurrenceRows
  <2>4. o \in Coalesced(s)
    BY <1>4, <2>2, <2>3 DEF Coalesced, WaitingOf, OccsOf
  <2>. QED  BY <2>4
<1>. SUFFICES ASSUME NEW o \in DOMAIN occ', NEW p \in DOMAIN occ', o.sched = p.sched,
                     o.version = p.version, o.key \notin EventIds,
                     occ'[o].status \in Waiting, occ'[p].status \in Waiting
              PROVE  o = p
  BY DEF NoBurst
<1>5. CASE o \in DOMAIN occ /\ p \in DOMAIN occ
  BY <1>2, <1>5 DEF NoBurst
<1>6. \A q \in new : \E s \in DueNow : Coalesced(s) = {} /\ q = IdOf(s, sched[s].due)
  OBVIOUS
<1>. HIDE DEF new
<1>7. ASSUME NEW q \in new, NEW r \in DOMAIN occ, q.sched = r.sched, q.version = r.version,
             occ[r].status \in Waiting
      PROVE  FALSE
  BY <1>4, <1>6, <1>7 DEF IdOf
<1>8. CASE o \in new /\ p \in new
  BY <1>6, <1>8 DEF IdOf
<1>. QED  BY <1>1, <1>2, <1>5, <1>7, <1>8

LEMMA QuietNoBurst ==
    ASSUME NoBurst, NoNewWork
    PROVE  NoBurst'
BY DEF NoBurst, NoNewWork

LEMMA StoreNoBurst ==
    ASSUME StoreTypeOK, StoreTypeOK', OpenCommands, CurrentInv, CalendarInv, NoBurst,
           OwnerCommand \/ Infrastructure \/ \E o \in DOMAIN occ : FailOccurrence(o)
    PROVE  NoBurst'
<1>1. \A o \in DOMAIN occ : occ'[o].status \in Waiting => occ[o].status \in Waiting
  <2>1. RowsStep /\ \A o \in DOMAIN occ : occ[o] \in OccurrenceRows
    BY StoreRows DEF StoreTypeOK, OccurrencesTyped
  <2>2. ASSUME NEW r \in OccurrenceRows, NEW q, RowStep(r, q), q.status \in Waiting
        PROVE  r.status \in Waiting
    <3>1. \A st \in AckStates : Executed(r, st).status = st
      BY DEF Executed, OccurrenceRows
    <3>. QED  BY <2>2, <3>1 DEF RowStep, AckStates, OccurrenceRows, Waiting
  <2>. QED  BY <2>1, <2>2 DEF RowsStep
<1>2. DOMAIN occ' = DOMAIN occ => NoBurst'
  BY <1>1, QuietNoBurst DEF NoNewWork
<1>3. CASE OwnerCommand
  <2>1. DOMAIN occ' = DOMAIN occ
    BY <1>3, DefineRows, CommitRows, CancelRows, AcknowledgeRows DEF OwnerCommand, ReadAnchor
  <2>. QED  BY <1>2, <2>1
<1>4. ASSUME NEW e \in LeagueEvents, NEW at \in 0..now, RecordLeagueEvent(e, at)
      PROVE  NoBurst'
  <2>1. \A o \in DOMAIN occ' \ DOMAIN occ : o.key \in EventIds /\ o.version = sched[o.sched].version
           /\ sched[o.sched].timing.kind = "subscription" /\ o.sched \in DOMAIN sched
    BY <1>4 DEF RecordLeagueEvent, IdOf, SubscribedTo, EventIds
  <2>2. ASSUME NEW o \in DOMAIN occ', NEW p \in DOMAIN occ', o.sched = p.sched,
               o.version = p.version, o.key \notin EventIds,
               occ'[o].status \in Waiting, occ'[p].status \in Waiting
        PROVE  o = p
    <3>1. o \in DOMAIN occ
      BY <2>1, <2>2
    <3>2. p \in DOMAIN occ
      <4>. SUFFICES ASSUME p \notin DOMAIN occ  PROVE FALSE
        OBVIOUS
      <4>1. p.sched \in DOMAIN sched /\ p.version = sched[p.sched].version
            /\ sched[p.sched].timing.kind = "subscription"
        BY <2>1
      <4>. QED  BY <2>2, <3>1, <4>1 DEF CalendarInv, OnTime, OccsOf
    <3>. QED  BY <1>1, <2>2, <3>1, <3>2 DEF NoBurst
  <2>. QED  BY <2>2 DEF NoBurst
<1>5. CASE Infrastructure
  <2>1. (\E o \in DOMAIN occ, st \in AckStates : RecordExecution(o, st)) \/ Tick => DOMAIN occ' = DOMAIN occ
    BY DEF RecordExecution, Tick
  <2>. QED  BY <1>2, <1>4, <1>5, <2>1, RecordCalendarEventRows, MaterializeNoBurst DEF Infrastructure
<1>6. CASE \E o \in DOMAIN occ : FailOccurrence(o)
  BY <1>2, <1>6, FailOccurrenceRows
<1>. QED  BY <1>3, <1>5, <1>6

LEMMA NextNoBurst ==
    ASSUME AbsenceProvable = FALSE, IInv, IInv', CurrentInv, CalendarInv, NoBurst, [Next]_vars
    PROVE  NoBurst'
<1>1. CASE Store \/ \E o \in DOMAIN occ : Recover(o)
  <2>1. OwnerCommand \/ Infrastructure \/ \E o \in DOMAIN occ : FailOccurrence(o)
    BY <1>1 DEF Store, Recover
  <2>. QED  BY <2>1, StoreNoBurst DEF IInv, TypeOK, Coordination
<1>2. CASE \E d \in Dispatchers : Dispatch(d)
  BY <1>2, DispatchTakes, QuietNoBurst DEF Takes
<1>3. CASE (\E m \in wire : Arrive(m) \/ Lose(m)) \/ UNCHANGED vars
  BY <1>3, TransitLeavesTables, QuietNoBurst DEF NoNewWork
<1>. QED  BY <1>1, <1>2, <1>3 DEF Next

(* With a transport that cannot prove absence, such as the Buzz one, one   *)
(* definition of a clock appointment has at most one waiting occurrence,   *)
(* however long its owner cannot run.                                      *)
THEOREM DowntimeLeavesNoBurst ==
    ASSUME AbsenceProvable = FALSE
    PROVE  Spec => []NoBurst
<1>1. IInv /\ IInv' /\ CurrentInv /\ CalendarInv /\ NoBurst /\ [Next]_vars => NoBurst'
  BY NextNoBurst
<1>2. IInv /\ CurrentInv /\ [Next]_vars => CurrentInv'
  BY NextCurrent
<1>3. Init => NoBurst
  BY DEF Init, StoreInit, NoBurst
<1>. QED  BY <1>1, <1>2, <1>3, InitCurrent, Inductive, CalendarHolds, PTL DEF Spec
=============================================================================
