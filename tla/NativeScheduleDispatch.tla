------------------------ MODULE NativeScheduleDispatch ------------------------
(***************************************************************************)
(* The season dispatcher at work on the appointment tables: dispatchOne,   *)
(* run in a loop by scripts/native-season-dispatcher.ts, and the private   *)
(* inbox transport it drives.                                              *)
(*                                                                         *)
(* dispatchOne is not a transaction.  It visits the franchises that have   *)
(* open work, holds the session lock 7047 of one franchise at a time, and  *)
(* makes network calls (reconcile, inspectOwner, send) between statements  *)
(* that each commit on their own.  Its program counter:                    *)
(*                                                                         *)
(*   idle      between calls                                               *)
(*   visit     at the head of the candidate loop, todo still to visit      *)
(*   locked    7047 held, before the outstanding-delivery query            *)
(*   select    before the query that picks an occurrence                   *)
(*   reconcile before transport.reconcile of a send in doubt               *)
(*   inspect   before transport.inspectOwner                               *)
(*   claim     before the transaction that marks the occurrence sending    *)
(*   send      claimed, before transport.send                              *)
(*   sent      transport.send under way                                    *)
(*                                                                         *)
(* Several dispatchers may run (a restart that overlaps its predecessor, a *)
(* --once invocation), and each may die at any point: the server releases  *)
(* a dead session's lock, and the message it was sending may still arrive. *)
(***************************************************************************)
EXTENDS NativeSchedules, Sequences

CONSTANTS
    Dispatchers,
    AbsenceProvable,  \* can this transport answer "absent"?  The Buzz one cannot
    MaxFaults         \* bound on crashes, lost or doubtful answers, unready owners

VARIABLES
    pc,      \* program counter of each dispatcher
    team,    \* franchise being visited
    target,  \* occurrence being processed
    todo,    \* candidate franchises not visited yet
    lane7047,\* franchise -> dispatcher holding its session lock, or Nobody
    wire,    \* messages a send has put on the network, [occ, lane]
    inbox,   \* franchise -> messages accepted by its inboxes, in order
    stamps,  \* franchise -> number of delivered_at stamps given so far
    faults   \* faults so far

dispatcherVars == <<pc, team, target, todo, lane7047, stamps>>
transportVars == <<wire, inbox>>
vars == <<now, sched, occ, events, open, pc, team, target, todo, lane7047,
          wire, inbox, stamps, faults>>

Nobody == "nobody"
NoTarget == [sched |-> "none"]
NoTeam == -1
Holding == {"locked", "select", "reconcile", "inspect", "claim", "send", "sent"}
PcStates == {"idle", "visit"} \cup Holding

Message == [occ : DOMAIN occ, lane : {0, 1}]

ASSUME DispatchersAssumption == Nobody \notin Dispatchers
ASSUME AbsenceAssumption == AbsenceProvable \in BOOLEAN /\ MaxFaults \in Nat

Fault == faults < MaxFaults /\ faults' = faults + 1

-----------------------------------------------------------------------------
(* Transport.                                                              *)

\* The message of an occurrence, if its inbox has it, and its event id.
PostsOf(o) == {n \in 1..Len(inbox[TeamOfOcc(o)]) : inbox[TeamOfOcc(o)][n].occ = o}

FoundIn(o, lane) == {n \in PostsOf(o) : inbox[TeamOfOcc(o)][n].lane = lane}

OnWire(o) == \E m \in wire : m.occ = o

\* The relay accepts a message, possibly after its sender timed out or died.
Arrive(m) ==
    /\ m \in wire
    /\ wire' = wire \ {m}
    /\ inbox' = [inbox EXCEPT ![TeamOfOcc(m.occ)] = Append(@, m)]
    /\ UNCHANGED <<storeVars, dispatcherVars, faults>>

Lose(m) ==
    /\ m \in wire
    /\ Fault
    /\ wire' = wire \ {m}
    /\ UNCHANGED <<storeVars, dispatcherVars, inbox>>

-----------------------------------------------------------------------------
(* dispatchOne.                                                            *)

Goto(d, where) == pc' = [pc EXCEPT ![d] = where]

Unlock(d) == lane7047' = [lane7047 EXCEPT ![team[d]] = Nobody]

\* The finally block: the lane is released and the row forgotten.
LetGo(d) ==
    /\ Unlock(d)
    /\ team' = [team EXCEPT ![d] = NoTeam]
    /\ target' = [target EXCEPT ![d] = NoTarget]

\* `continue': go on with the next candidate.
NextCandidate(d) ==
    /\ Goto(d, "visit")
    /\ LetGo(d)
    /\ UNCHANGED todo

\* `return': end the call.
Finish(d) ==
    /\ Goto(d, "idle")
    /\ LetGo(d)
    /\ todo' = [todo EXCEPT ![d] = {}]

SetRow(o, row) == occ' = [occ EXCEPT ![o] = row]

\* Mutant: a franchise with nothing but a send in doubt is not visited.
CandidatesWaiting == {TeamOfOcc(o) : o \in {x \in DOMAIN occ : occ[x].status \in Waiting}}

Candidates == {TeamOfOcc(o) : o \in {x \in DOMAIN occ : occ[x].status \in Waiting \cup InDoubt}}

List(d) ==
    /\ pc[d] = "idle"
    /\ Candidates # {}
    /\ todo' = [todo EXCEPT ![d] = Candidates]
    /\ Goto(d, "visit")
    /\ UNCHANGED <<stamps, storeVars, team, target, lane7047, transportVars, faults>>

\* Mutant: the lane lock is not respected.
LaneFreeAlways(t) == TRUE

LaneFree(t) == lane7047[t] = Nobody

\* The session lock is only tried: a franchise someone else holds is skipped.
Visit(d) ==
    /\ pc[d] = "visit"
    /\ todo[d] # {}
    /\ \E t \in todo[d] :
          /\ \A u \in todo[d] : t <= u
          /\ todo' = [todo EXCEPT ![d] = @ \ {t}]
          /\ IF LaneFree(t)
             THEN /\ Goto(d, "locked")
                  /\ team' = [team EXCEPT ![d] = t]
                  /\ lane7047' = [lane7047 EXCEPT ![t] = d]
             ELSE UNCHANGED <<pc, team, lane7047>>
    /\ UNCHANGED <<stamps, storeVars, target, transportVars, faults>>

Exhausted(d) ==
    /\ pc[d] = "visit"
    /\ todo[d] = {}
    /\ Goto(d, "idle")
    /\ UNCHANGED <<stamps, storeVars, team, target, todo, lane7047, transportVars, faults>>

Outstanding(t) == \E o \in TeamOccs(t) : occ[o].status \in Running

\* A delivery still awaiting execution keeps the lane.
CheckOutstanding(d) ==
    /\ pc[d] = "locked"
    /\ IF Outstanding(team[d])
       THEN NextCandidate(d)
       ELSE Goto(d, "select") /\ UNCHANGED <<team, target, todo, lane7047>>
    /\ UNCHANGED <<stamps, storeVars, transportVars, faults>>

\* A send in doubt comes first, then the earliest scheduled work.
Before(o, p) ==
    \/ occ[o].status \in InDoubt /\ occ[p].status \in Waiting
    \/ /\ (occ[o].status \in InDoubt) <=> (occ[p].status \in InDoubt)
       /\ occ[o].scheduledFor <= occ[p].scheduledFor

Eligible(t) == {o \in TeamOccs(t) : occ[o].status \in Waiting \cup InDoubt}

Firsts(t) == {o \in Eligible(t) : \A p \in Eligible(t) : Before(o, p)}

\* Ties are broken by the id, a hash: any of them, but the same at every reading.
FirstOf(t) == CHOOSE o \in Firsts(t) : TRUE

Select(d) ==
    /\ pc[d] = "select"
    /\ IF Firsts(team[d]) = {}
       THEN NextCandidate(d)
       ELSE LET o == FirstOf(team[d]) IN
              /\ target' = [target EXCEPT ![d] = o]
              /\ Goto(d, IF occ[o].status \in InDoubt THEN "reconcile" ELSE "inspect")
              /\ UNCHANGED <<team, todo, lane7047>>
    /\ UNCHANGED <<stamps, storeVars, transportVars, faults>>

LaneOf(o) == IF occ[o].lane = NoLane THEN 0 ELSE occ[o].lane

\* delivered_at only orders deliveries: a stamp is their count.
Delivered(o, n) ==
    /\ stamps' = [stamps EXCEPT ![TeamOfOcc(o)] = @ + 1]
    /\ SetRow(o, [occ[o] EXCEPT !.status = "delivered", !.event = n,
                                !.deliveredAt = stamps[TeamOfOcc(o)] + 1])

ReconcileFound(d) ==
    LET o == target[d]
    IN  /\ pc[d] = "reconcile"
        /\ \E n \in FoundIn(o, LaneOf(o)) : Delivered(o, n)
        /\ Finish(d)
        /\ UNCHANGED <<now, sched, events, open, transportVars, faults>>

\* The readback missed the message, failed, or cannot prove that there is none.
ReconcileUnknown(d) ==
    LET o == target[d]
    IN  /\ pc[d] = "reconcile"
        /\ IF AbsenceProvable \/ FoundIn(o, LaneOf(o)) # {}
           THEN Fault ELSE UNCHANGED faults
        /\ SetRow(o, [occ[o] EXCEPT !.status = "uncertain"])
        /\ NextCandidate(d)
        /\ UNCHANGED <<stamps, now, sched, events, open, transportVars>>

\* "absent" is definitive: the message is not there and will never arrive.
ReconcileAbsent(d) ==
    LET o == target[d]
    IN  /\ pc[d] = "reconcile"
        /\ AbsenceProvable
        /\ FoundIn(o, LaneOf(o)) = {} /\ ~OnWire(o)
        /\ SetRow(o, [occ[o] EXCEPT !.status = "queued"])
        /\ Goto(d, "inspect")
        /\ UNCHANGED <<stamps, now, sched, events, open, team, target, todo, lane7047,
                       transportVars, faults>>

InspectReady(d) ==
    /\ pc[d] = "inspect"
    /\ Goto(d, "claim")
    /\ UNCHANGED <<stamps, storeVars, team, target, todo, lane7047, transportVars, faults>>

\* busy leaves the work queued; stopped or unavailable blocks it.
InspectNotReady(d, st) ==
    LET o == target[d]
    IN  /\ pc[d] = "inspect"
        /\ Fault
        /\ IF occ[o].status \in Waiting
           THEN SetRow(o, [occ[o] EXCEPT !.status = st]) ELSE UNCHANGED occ
        /\ NextCandidate(d)
        /\ UNCHANGED <<stamps, now, sched, events, open, transportVars>>

\* Mutant: the last by its due time, which is not the last that was delivered.
LastScheduled(t) ==
    {o \in TeamOccs(t) : /\ occ[o].event # NoEvent
                         /\ \A p \in TeamOccs(t) : occ[p].event # NoEvent =>
                               occ[p].scheduledFor <= occ[o].scheduledFor}

\* The last accepted delivery, by delivered_at.
LastDelivered(t) ==
    {o \in TeamOccs(t) : /\ occ[o].event # NoEvent
                         /\ \A p \in TeamOccs(t) : occ[p].event # NoEvent =>
                               occ[p].deliveredAt <= occ[o].deliveredAt}

OtherLane(t) == IF \E o \in LastDelivered(t) : occ[o].lane # 1 THEN 1 ELSE 0

\* Mutant: the chosen lane is not persisted.
ClaimedLaneForgotten(o) == occ[o].lane

\* COALESCE(delivery_lane, other lane): a retry keeps its lane.
ClaimedLane(o) == IF occ[o].lane = NoLane THEN OtherLane(TeamOfOcc(o)) ELSE occ[o].lane

\* Mutant: the row is claimed as it was selected, whatever happened since.
ClaimableAsSelected(o) == TRUE

\* The claim's WHERE clause: a withdrawn occurrence is not claimed.
Claimable(o) == occ[o].status \in Waiting

\* One transaction under 7045, so that it cannot race a cancellation.
Claim(d) ==
    LET o == target[d]
    IN  /\ pc[d] = "claim"
        /\ CommandLockFree(team[d])
        /\ IF Claimable(o)
           THEN /\ SetRow(o, [occ[o] EXCEPT !.status = "sending", !.lane = ClaimedLane(o)])
                /\ Goto(d, "send")
                /\ UNCHANGED <<team, target, todo, lane7047>>
           ELSE NextCandidate(d) /\ UNCHANGED occ
        /\ UNCHANGED <<stamps, now, sched, events, open, transportVars, faults>>

Send(d) ==
    /\ pc[d] = "send"
    /\ wire' = wire \cup {[occ |-> target[d], lane |-> occ[target[d]].lane]}
    /\ Goto(d, "sent")
    /\ UNCHANGED <<stamps, storeVars, team, target, todo, lane7047, inbox, faults>>

\* The relay's receipt, recorded as the delivery.
Receipt(d) ==
    LET o == target[d]
    IN  /\ pc[d] = "sent"
        /\ \E n \in FoundIn(o, LaneOf(o)) : Delivered(o, n)
        /\ Finish(d)
        /\ UNCHANGED <<now, sched, events, open, transportVars, faults>>

\* Mutant: an attempt without a receipt is put back for a blind resend.
BlindRetry == "queued"

NoReceiptStatus == "uncertain"

\* No usable receipt: a timeout, a process error, or a failed UPDATE.
NoReceipt(d) ==
    LET o == target[d]
    IN  /\ pc[d] = "sent"
        /\ IF OnWire(o) \/ PostsOf(o) # {} THEN Fault ELSE UNCHANGED faults
        /\ SetRow(o, [occ[o] EXCEPT !.status = NoReceiptStatus])
        /\ Finish(d)
        /\ UNCHANGED <<stamps, now, sched, events, open, transportVars>>

\* Process death or a lost session: the server frees the lane; the row stays.
Crash(d) ==
    /\ pc[d] # "idle"
    /\ Fault
    /\ Goto(d, "idle")
    /\ lane7047' = [t \in Teams |-> IF lane7047[t] = d THEN Nobody ELSE lane7047[t]]
    /\ team' = [team EXCEPT ![d] = NoTeam]
    /\ target' = [target EXCEPT ![d] = NoTarget]
    /\ todo' = [todo EXCEPT ![d] = {}]
    /\ UNCHANGED <<stamps, storeVars, transportVars>>

-----------------------------------------------------------------------------
(* failOccurrence waits for the lane before anything else.                 *)
Recover(o) ==
    /\ LaneFree(TeamOfOcc(o))
    /\ FailOccurrence(o)
    /\ UNCHANGED <<dispatcherVars, transportVars, faults>>

Store == /\ OwnerCommand \/ Infrastructure
         /\ UNCHANGED <<dispatcherVars, transportVars, faults>>

Progress(d) ==
    \/ List(d) \/ Visit(d) \/ Exhausted(d) \/ CheckOutstanding(d) \/ Select(d)
    \/ ReconcileFound(d) \/ ReconcileUnknown(d) \/ ReconcileAbsent(d)
    \/ InspectReady(d) \/ Claim(d) \/ Send(d) \/ Receipt(d) \/ NoReceipt(d)

Dispatch(d) ==
    \/ Progress(d)
    \/ \E st \in Waiting : InspectNotReady(d, st)
    \/ Crash(d)

Init == /\ StoreInit
        /\ pc = [d \in Dispatchers |-> "idle"]
        /\ team = [d \in Dispatchers |-> NoTeam]
        /\ target = [d \in Dispatchers |-> NoTarget]
        /\ todo = [d \in Dispatchers |-> {}]
        /\ lane7047 = [t \in Teams |-> Nobody]
        /\ wire = {}
        /\ inbox = [t \in Teams |-> <<>>]
        /\ stamps = [t \in Teams |-> 0]
        /\ faults = 0

Next == \/ Store
        \/ \E o \in DOMAIN occ : Recover(o)
        \/ \E d \in Dispatchers : Dispatch(d)
        \/ \E m \in wire : Arrive(m) \/ Lose(m)

Spec == Init /\ [][Next]_vars
=============================================================================
