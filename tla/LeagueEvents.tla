----------------------------- MODULE LeagueEvents -----------------------------
(***************************************************************************)
(* LeagueEventDispatcher: committed league events become wakes of the      *)
(* owners they concern.                                                    *)
(*                                                                         *)
(*   league_events             events, in the order of their ids: whom one *)
(*                             concerns, and whether its payload fits into *)
(*                             a job (RuntimeStore's payload: 16000 bytes) *)
(*   league_event_deliveries   sent: pairs <<event, agent>>                *)
(*   runtime_agents.enabled    awake                                       *)
(*                                                                         *)
(* dispatchOnce reads a bounded batch of undelivered pairs and delivers    *)
(* each in a transaction of its own, which enqueues the wake and records   *)
(* the delivery together (RuntimeTurns models the job it enqueues).  One   *)
(* that throws is counted, stays undelivered, and is read again with the   *)
(* oldest of the next batch.                                               *)
(***************************************************************************)
EXTENDS Integers, Sequences, FiniteSets

CONSTANTS
    Agents,       \* the ids of the bound agents, one per franchise: numbers for their order
    EventKinds,   \* the sets of agents an event may concern
    Limit,        \* events taken at a time
    Dispatchers,
    MaxEvents, MaxSwitches

VARIABLES events, sent, awake, batch, switches

eventVars == <<events, sent, awake, batch, switches>>

EventsInit ==
    /\ events = <<>>
    /\ sent = {}
    /\ awake = [a \in Agents |-> TRUE]
    /\ batch = [d \in Dispatchers |-> {}]
    /\ switches = 0

\* execute: a command leaves one event, public or for its participants.
Commit(recipients, fits) ==
    /\ Len(events) < MaxEvents
    /\ events' = Append(events, [for |-> recipients, fits |-> fits])
    /\ UNCHANGED <<sent, awake, batch, switches>>

\* An operator enables or disables an agent.
Switch(a) ==
    /\ switches < MaxSwitches /\ switches' = switches + 1
    /\ awake' = [awake EXCEPT ![a] = ~@]
    /\ UNCHANGED <<events, sent, batch>>

Pending == {x \in (DOMAIN events) \X Agents :
               x \notin sent /\ awake[x[2]] /\ x[2] \in events[x[1]].for}

\* ORDER BY event, agent LIMIT.
Older(x, y) == x[1] < y[1] \/ (x[1] = y[1] /\ x[2] < y[2])

Batch == {x \in Pending : Cardinality({y \in Pending : Older(y, x)}) < Limit}

ReadPending(d) ==
    /\ batch[d] = {} /\ Pending # {}
    /\ batch' = [batch EXCEPT ![d] = Batch]
    /\ UNCHANGED <<events, sent, awake, switches>>

\* What is left of a batch is taken in its order.
IsNext(d, x) == x \in batch[d] /\ \A y \in batch[d] \ {x} : Older(x, y)

\* Mutant: a delivery that throws ends the batch.
NothingAfter(d, x) == {}

\* A delivery that throws is caught: the batch goes on with the next.
AfterFailure(d, x) == batch[d] \ {x}

\* Recorded already, or enqueued and recorded together; an owner disabled meanwhile
\* (RECIPIENT_UNAVAILABLE) and a payload too long (INVALID_PAYLOAD) throw.
DeliverNext(d) ==
    /\ \E x \in batch[d] :
          /\ IsNext(d, x)
          /\ IF x \in sent \/ (awake[x[2]] /\ events[x[1]].fits)
             THEN sent' = sent \cup {x} /\ batch' = [batch EXCEPT ![d] = @ \ {x}]
             ELSE UNCHANGED sent /\ batch' = [batch EXCEPT ![d] = AfterFailure(d, x)]
    /\ UNCHANGED <<events, awake, switches>>

\* The delivery's transaction fails this time: a lock, the connection.
DeliveryFails(d) ==
    /\ switches < MaxSwitches /\ switches' = switches + 1
    /\ \E x \in batch[d] : IsNext(d, x) /\ batch' = [batch EXCEPT ![d] = AfterFailure(d, x)]
    /\ UNCHANGED <<events, sent, awake>>

\* The dispatcher's process dies; what it read is forgotten.
DispatcherDies(d) ==
    /\ batch[d] # {} /\ switches < MaxSwitches /\ switches' = switches + 1
    /\ batch' = [batch EXCEPT ![d] = {}]
    /\ UNCHANGED <<events, sent, awake>>

EventsNext ==
    \/ \E r \in EventKinds, fits \in BOOLEAN : Commit(r, fits)
    \/ \E a \in Agents : Switch(a)
    \/ \E d \in Dispatchers : ReadPending(d) \/ DeliverNext(d) \/ DeliveryFails(d) \/ DispatcherDies(d)

Dispatch(d) == ReadPending(d) \/ DeliverNext(d)

-----------------------------------------------------------------------------
\* As many deliveries that must throw, of older events, as a batch takes.
Crowded(e) ==
    Cardinality({x \in Pending : x[1] < e /\ ~events[x[1]].fits}) >= Limit

\* An event whose wake can be written reaches every owner it concerns, unless that
\* owner is disabled or a whole batch of undeliverable older ones is in front of it:
\* fewer of them, and failures that pass, hold nothing up.
EventsReachOwners ==
    \A e \in 1..MaxEvents, a \in Agents :
        (e \in DOMAIN events /\ a \in events[e].for /\ events[e].fits)
            ~> (<<e, a>> \in sent \/ ~awake[a] \/ Crowded(e))
=============================================================================
