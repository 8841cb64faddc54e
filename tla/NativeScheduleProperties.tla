----------------------- MODULE NativeScheduleProperties -----------------------
(***************************************************************************)
(* What the season scheduler promises, over the composed specification of  *)
(* NativeScheduleDispatch.                                                 *)
(***************************************************************************)
EXTENDS NativeScheduleDispatch

SchedulesTyped ==
    /\ DOMAIN sched \subseteq Schedules
    /\ \A s \in DOMAIN sched : sched[s] \in ScheduleRows

OccurrencesTyped ==
    /\ DOMAIN occ \subseteq OccurrenceIds
    /\ \A o \in DOMAIN occ : occ[o] \in OccurrenceRows /\ o.sched \in DOMAIN sched

EventsTyped ==
    /\ DOMAIN events \subseteq EventIds
    /\ \A e \in DOMAIN events : events[e] \in EventRows

AnchorsKnown ==
    \A s \in DOMAIN sched :
        sched[s].timing.kind = "event" => sched[s].timing.event \in DOMAIN events

OpenTyped ==
    \A c \in open : /\ c.sched \in Schedules /\ c.timing \in Timings /\ c.due \in Times
                    /\ c.timing.kind = "event" /\ c.timing.event \in DOMAIN events

StoreTypeOK ==
    now \in Nat /\ SchedulesTyped /\ OccurrencesTyped /\ EventsTyped /\ AnchorsKnown /\ OpenTyped

DispatchersTyped ==
    /\ pc \in [Dispatchers -> PcStates]
    /\ team \in [Dispatchers -> Teams \cup {NoTeam}]
    /\ target \in [Dispatchers -> DOMAIN occ \cup {NoTarget}]
    /\ todo \in [Dispatchers -> SUBSET Teams]
    /\ lane7047 \in [Teams -> Dispatchers \cup {Nobody}]

MessagesTyped ==
    /\ wire \subseteq Message
    /\ inbox \in [Teams -> Seq(Message)]

DispatchTypeOK ==
    DispatchersTyped /\ MessagesTyped /\ stamps \in [Teams -> Nat] /\ faults \in Nat

(* The shape of every variable. It is not shallow for the references: an   *)
(* occurrence belongs to an existing appointment, a dispatcher works on an *)
(* existing row, an anchor names a known event, and every message carries  *)
(* the lane that was persisted before it was sent.                         *)
TypeOK == StoreTypeOK /\ DispatchTypeOK

-----------------------------------------------------------------------------
(* Delivery.                                                               *)

(* A franchise has at most one occurrence handed off and not yet closed:   *)
(* sending, in doubt, delivered or started. dispatchOne reads this before  *)
(* it claims, in separate statements; the lane lock must make it hold.     *)
OneHandedOff ==
    \A o, p \in DOMAIN occ :
        /\ TeamOfOcc(o) = TeamOfOcc(p)
        /\ occ[o].status \in HandedOff
        /\ occ[p].status \in HandedOff
        => o = p

(* An occurrence the tables call delivered, started or completed has its   *)
(* own message in the inbox its row names, under the event id it records.  *)
ReceiptsAreReal ==
    \A o \in DOMAIN occ :
        occ[o].status \in Running \cup {"completed"} \/ occ[o].event # NoEvent =>
            occ[o].event \in FoundIn(o, occ[o].lane)

(* Work withdrawn by its owner or the calendar, or closed unsent by the    *)
(* commissioner, never reaches the owner, before or after.                 *)
WithdrawnIsNeverSent ==
    \A o \in DOMAIN occ :
        \/ occ[o].status = "cancelled"
        \/ occ[o].status = "failed" /\ occ[o].event = NoEvent
        => PostsOf(o) = {} /\ ~OnWire(o)

(* Consecutive messages use different inboxes, so that an appointment      *)
(* queues behind no unfinished response of the one before it. A retry      *)
(* keeps its lane, so this is for a transport that cannot prove absence:   *)
(* then nothing else is sent while a send is in doubt.                     *)
LanesAlternate ==
    \A t \in Teams : \A i \in 1..(Len(inbox[t]) - 1) :
        inbox[t][i].lane # inbox[t][i + 1].lane

(* What is claimed for sending is the current definition of a live         *)
(* appointment, although the row was selected many statements earlier.     *)
ClaimsAreCurrent ==
    [][\A o \in DOMAIN occ :
          occ[o].status # "sending" /\ occ'[o].status = "sending" =>
              /\ sched[o.sched].status = "active"
              /\ sched[o.sched].version = o.version]_vars

-----------------------------------------------------------------------------
(* The dispatcher implements AppointmentInbox.                             *)

InHand(t) == {o \in TeamOccs(t) : occ[o].status \in HandedOff}

Held(t) == IF InHand(t) = {} THEN NoTarget ELSE CHOOSE o \in InHand(t) : TRUE

Mail(t) == [i \in 1..Len(inbox[t]) |-> inbox[t][i].occ]

Over == {o \in DOMAIN occ : occ[o].status \in Closed}

Inbox == INSTANCE AppointmentInbox WITH
    Owners <- Teams,
    Nothing <- NoTarget,
    held <- [t \in Teams |-> Held(t)],
    mail <- [t \in Teams |-> Mail(t)],
    closed <- Over

(* Every step of tables, dispatchers and transport is a step of the        *)
(* one-appointment-at-a-time inbox, or changes nothing an owner can see.   *)
ImplementsInbox == Inbox!InboxSpec

-----------------------------------------------------------------------------
(* Appointments.                                                           *)

(* No due instant is lost: every strike of an interval before its next due *)
(* time lies in the span of some occurrence of the same definition, and a  *)
(* one-shot or event appointment with nothing left due has an occurrence,  *)
(* unless its calendar event is cancelled.                                 *)
NoStrikeLost ==
    \A s \in DOMAIN sched :
        LET row == sched[s]
            mine == {o \in OccsOf(s) : o.version = row.version}
        IN  row.status = "active" =>
            /\ row.timing.kind = "interval" =>
                  \A x \in row.timing.at..(row.due - 1) :
                      (x - row.timing.at) % row.timing.every = 0 =>
                          \E o \in mine : x \in occ[o].scheduledFor..occ[o].missedThrough
            /\ row.timing.kind \in {"once", "event"} /\ row.due = NoTime =>
                  \/ mine # {}
                  \/ row.timing.kind = "event" /\ events[row.timing.event].cancelled

(* However long an owner cannot run, one definition of a clock appointment *)
(* has at most one waiting occurrence: no burst after downtime.            *)
NoBurst ==
    \A o, p \in DOMAIN occ :
        /\ o.sched = p.sched /\ o.version = p.version
        /\ o.key \notin EventIds
        /\ occ[o].status \in Waiting /\ occ[p].status \in Waiting
        => o = p

(* An appointment is retired only by completed work of its own current     *)
(* definition: finishing work of an older version retires nothing.         *)
RetiredByItsOwnWork ==
    \A s \in DOMAIN sched : sched[s].status = "completed" =>
        \E o \in OccsOf(s) : o.version = sched[s].version /\ occ[o].status = "completed"

(* An occurrence that is closed stays closed in the same way.              *)
ClosedForGood ==
    [][\A o \in DOMAIN occ : occ[o].status \in Closed => occ'[o].status = occ[o].status]_vars

(* Recovery evidence is final and never covers work the owner had begun:   *)
(* it says that no execution was verified.                                 *)
RecoveryIsFinal ==
    [][\A o \in DOMAIN occ :
          /\ occ[o].recovered => occ'[o] = occ[o]
          /\ occ[o].started => ~occ'[o].recovered]_vars

(* Closed work is done with, whatever comes late.                          *)
ClosedIsFinal == ClosedForGood /\ RecoveryIsFinal

(* A private league event reaches only its audience: no other franchise    *)
(* gets an occurrence of it or anchors an appointment to it.               *)
PrivateStaysPrivate ==
    /\ \A o \in DOMAIN occ : o.key \in DOMAIN events =>
          TeamOfOcc(o) \in events[o.key].audience
    /\ \A s \in DOMAIN sched : sched[s].timing.kind = "event" =>
          TeamOf[s] \in events[sched[s].timing.event].audience

(* A league event wakes a subscription once, however often the event is    *)
(* reported and however often the subscription is redefined.               *)
OneWakePerEvent ==
    \A o, p \in DOMAIN occ :
        o.sched = p.sched /\ o.key = p.key /\ o.key \in EventIds => o = p

(* An appointment anchored to a calendar event is due at the event's       *)
(* current time plus its offset, and not at all while it is cancelled,     *)
(* until it is materialized.                                               *)
AnchorsFollowCalendar ==
    \A s \in DOMAIN sched :
        LET row == sched[s]
            event == events[row.timing.event]
        IN  /\ row.status = "active" /\ row.timing.kind = "event"
            /\ row.due # NoTime
            => ~event.cancelled /\ row.due = event.at + row.timing.offset

-----------------------------------------------------------------------------
(* Progress.                                                               *)

(* The dispatcher loops for ever and catches every cycle's error; the      *)
(* owner's process finishes work it was given; messages on the network     *)
(* arrive unless a fault loses them. Owners' other commands, the calendar  *)
(* and the commissioner owe nothing.                                       *)
OwnerFinishes(o) ==
    /\ o \in DOMAIN occ
    /\ occ[o].status \in Running
    /\ \E st \in {"completed", "failed"} : Acknowledge(o, st)
    /\ UNCHANGED <<dispatcherVars, transportVars, faults>>

(* An appointment that comes due is carried through: its definition gets a *)
(* closed occurrence, unless the owner replaces or cancels it first.       *)
DueIsHonoured ==
    \A s \in Schedules, v \in 1..MaxVersion :
        LET current == s \in DOMAIN sched /\ sched[s].version = v
        IN  (current /\ sched[s].status = "active" /\ sched[s].due # NoTime /\ sched[s].due <= now)
            ~> (~current \/ \E o \in OccsOf(s) : o.version = v /\ occ[o].status \in Closed)

(* Every occurrence is eventually closed: completed, failed or withdrawn.  *)
WorkCloses ==
    \A s \in Schedules, v \in 1..MaxVersion, k \in 0..MaxTime :
        LET o == [sched |-> s, version |-> v, key |-> k]
        IN  (o \in DOMAIN occ) ~> (o \in DOMAIN occ /\ occ[o].status \in Closed)
=============================================================================
