-------------------------- MODULE FranchiseOutbox --------------------------
(* The franchise actions of owners' turns (franchise/outbox.ts): brands,     *)
(* drafts, requests and votes for the league's own services, and messages to *)
(* a Buzz channel, whose sends are journaled by receipts and serialized per  *)
(* channel (buzz/channel.ts, BuzzReceiptService of buzz/index.ts).           *)
EXTENDS Integers, FiniteSets

CONSTANTS Orders,      \* actions asked for by turns
          Said,        \* order -> what is said in the channel, or Local
          Clerks,      \* dispatchers
          OrderTries,  \* 5 in the code
          Local,       \* an action of the league's own services
          MaxTakes,    \* bound on the claims of an order
          MaxSlips     \* bound on stalls, crashes and lost answers

VARIABLES orders,     \* order -> [status, live, attempts, fence]
          receipts,   \* channel order -> status of the receipt of its send
          door,       \* who holds the channel's advisory lock 142
          clerks,     \* dispatcher -> where it is
          underway,   \* sends nobody waits for any more
          said,       \* order -> how often it took effect
          standing,   \* whether the owner still holds the franchise
          lapses

franchiseVars == <<orders, receipts, door, clerks, underway, said, standing, lapses>>

NoOrder == [status |-> "none", live |-> FALSE, attempts |-> 0, fence |-> 0]
Free == [at |-> "idle", order |-> NoOrder, fence |-> 0, outcome |-> "none"]
InDoubt == {"prepared", "unknown"}
Channel(a) == Said[a] # Local

FranchiseInit ==
    /\ orders = [a \in Orders |-> NoOrder]
    /\ receipts = [a \in Orders |-> "none"]
    /\ door = "nobody"
    /\ clerks = [c \in Clerks |-> Free]
    /\ underway = {}
    /\ said = [a \in Orders |-> 0]
    /\ standing = TRUE
    /\ lapses = 0

HoldsOrder(c) == LET o == orders[clerks[c].order]
                 IN  o.status = "running" /\ o.live /\ o.fence = clerks[c].fence

Moves(c, at) == clerks' = [clerks EXCEPT ![c].at = at]
Moves2(c, at, outcome) == clerks' = [clerks EXCEPT ![c].at = at, ![c].outcome = outcome]
Leaves(c) == clerks' = [clerks EXCEPT ![c] = Free]
Slip == lapses < MaxSlips /\ lapses' = lapses + 1

-----------------------------------------------------------------------------
EnqueueFranchise(a) ==
    /\ orders[a].status = "none" /\ standing
    /\ orders' = [orders EXCEPT ![a].status = "pending"]
    /\ UNCHANGED <<receipts, door, clerks, underway, said, standing, lapses>>

Takeable(a) == orders[a].status = "pending" \/ (orders[a].status = "running" /\ ~orders[a].live)

\* Tried too often: a channel message may have gone out and waits for the operator.
BuryOrder(a) ==
    /\ Takeable(a) /\ orders[a].attempts >= OrderTries
    /\ orders' = [orders EXCEPT ![a].status = IF Channel(a) THEN "held" ELSE "dead", ![a].live = FALSE]
    /\ UNCHANGED <<receipts, door, clerks, underway, said, standing, lapses>>

Take(c, a) ==
    /\ clerks[c] = Free
    /\ Takeable(a) /\ orders[a].attempts < OrderTries
    /\ orders[a].fence < MaxTakes
    /\ orders' = [orders EXCEPT ![a].status = "running", ![a].live = TRUE,
                                ![a].attempts = @ + 1, ![a].fence = @ + 1]
    /\ clerks' = [clerks EXCEPT ![c] = [Free EXCEPT !.at = "claimed", !.order = a, !.fence = orders[a].fence + 1]]
    /\ UNCHANGED <<receipts, door, underway, said, standing, lapses>>

Outdated(c) ==
    /\ clerks[c].at \in {"claimed", "returned", "failing"} /\ ~HoldsOrder(c)
    /\ Leaves(c)
    /\ UNCHANGED <<orders, receipts, door, underway, said, standing, lapses>>

\* A channel message that fails before or while it is sent is held, anything else is dead.
Turned(a) == IF Channel(a) THEN "held" ELSE "dead"

\* The owner's authority is read again; an owner stage may also refuse, which holds the order.
ReadAuthority(c) ==
    /\ clerks[c].at = "claimed" /\ HoldsOrder(c)
    /\ \/ standing /\ Moves(c, "checked")
       \/ ~standing /\ Moves2(c, "failing", Turned(clerks[c].order))
       \/ standing /\ Moves2(c, "failing", "held")
    /\ UNCHANGED <<orders, receipts, door, underway, said, standing, lapses>>

-----------------------------------------------------------------------------
(* The league's own services: one transaction under one key. *)

Serve(c) ==
    LET a == clerks[c].order
    IN  /\ clerks[c].at = "checked" /\ ~Channel(a)
        /\ \/ /\ said[a] = 0 \/ said[a] = 1
              /\ said' = [said EXCEPT ![a] = 1]
              /\ \/ Moves2(c, "returned", "accepted") /\ UNCHANGED lapses
                 \/ Moves2(c, "failing", "retry") /\ Slip       \* committed, the answer is lost
           \/ said[a] = 0 /\ Moves2(c, "failing", "dead") /\ UNCHANGED <<said, lapses>>
           \/ Moves2(c, "failing", "retry") /\ Slip /\ UNCHANGED said
        /\ UNCHANGED <<orders, receipts, door, underway, standing>>

-----------------------------------------------------------------------------
(* A message to the channel. *)

\* The same words of the same owner wait while an earlier send of them is in doubt.
Doubted(a) == \E b \in Orders \ {a} : Said[b] = Said[a] /\ receipts[b] \in InDoubt

\* A send that has a receipt is answered from it and not repeated.
OpenDoor(c) ==
    LET a == clerks[c].order
    IN  /\ clerks[c].at = "checked" /\ Channel(a)
        /\ door = "nobody"
        /\ \/ Moves2(c, "failing", "held") /\ UNCHANGED <<receipts, door>>  \* membership, transport
           \/ /\ Doubted(a)
              /\ Moves2(c, "failing", "held") /\ UNCHANGED <<receipts, door>>
           \/ /\ ~Doubted(a) /\ receipts[a] # "none"
              /\ Moves2(c, "returned", receipts[a]) /\ UNCHANGED <<receipts, door>>
           \/ /\ ~Doubted(a) /\ receipts[a] = "none"
              /\ receipts' = [receipts EXCEPT ![a] = "prepared"]
              /\ door' = c
              /\ Moves(c, "sending")
        /\ UNCHANGED <<orders, underway, said, standing, lapses>>

Utter(c) ==
    LET a == clerks[c].order
        Uttered == said' = [said EXCEPT ![a] = @ + 1]
    IN  /\ clerks[c].at = "sending"
        /\ \/ Moves2(c, "answered", "accepted") /\ Uttered /\ UNCHANGED <<underway, lapses>>
           \/ Moves2(c, "answered", "rejected") /\ UNCHANGED <<said, underway, lapses>>
           \/ /\ Moves2(c, "answered", "unknown") /\ Slip
              /\ \/ Uttered /\ UNCHANGED underway
                 \/ underway' = underway \cup {a} /\ UNCHANGED said
                 \/ UNCHANGED <<underway, said>>
        /\ UNCHANGED <<orders, receipts, door, standing>>

BookReceipt(c) ==
    /\ clerks[c].at = "answered"
    /\ receipts' = [receipts EXCEPT ![clerks[c].order] = clerks[c].outcome]
    /\ door' = "nobody"
    /\ Moves(c, "returned")
    /\ UNCHANGED <<orders, underway, said, standing, lapses>>

UtteredLate(a) ==
    /\ a \in underway
    /\ underway' = underway \ {a}
    /\ said' = [said EXCEPT ![a] = @ + 1]
    /\ UNCHANGED <<orders, receipts, door, clerks, standing, lapses>>

-----------------------------------------------------------------------------
(* acknowledge, fail, holdChannel *)

\* acknowledge reads the service's own receipt again.
AcknowledgeOrder(c) ==
    LET a == clerks[c].order
    IN  /\ clerks[c].at = "returned" /\ clerks[c].outcome = "accepted"
        /\ HoldsOrder(c)
        /\ IF Channel(a) THEN receipts[a] = "accepted" ELSE said[a] = 1
        /\ orders' = [orders EXCEPT ![a].status = "delivered", ![a].live = FALSE]
        /\ Leaves(c)
        /\ UNCHANGED <<receipts, door, underway, said, standing, lapses>>

\* The acknowledgement of an accepted action fails: its database, a mention no longer bound,
\* a result too large for an event.  A channel message is held, another action tried again.
AcknowledgeFails(c) ==
    /\ clerks[c].at = "returned" /\ clerks[c].outcome = "accepted"
    /\ Moves2(c, "failing", IF Channel(clerks[c].order) THEN "held" ELSE "retry")
    /\ UNCHANGED <<orders, receipts, door, underway, said, standing, lapses>>

Put(c) == CASE clerks[c].outcome = "rejected" -> "dead"
            [] clerks[c].outcome \in InDoubt -> "held"
            [] OTHER -> clerks[c].outcome

PutAway(c) ==
    LET a == clerks[c].order
        status == IF Put(c) # "retry" THEN Put(c) ELSE IF orders[a].attempts < OrderTries THEN "pending" ELSE "dead"
    IN  /\ clerks[c].at = "failing" \/ (clerks[c].at = "returned" /\ clerks[c].outcome # "accepted")
        /\ HoldsOrder(c)
        /\ orders' = [orders EXCEPT ![a].status = status, ![a].live = FALSE]
        /\ Leaves(c)
        /\ UNCHANGED <<receipts, door, underway, said, standing, lapses>>

-----------------------------------------------------------------------------
OrderLapses(a) ==
    /\ orders[a].status = "running" /\ orders[a].live
    /\ \/ /\ ~\E c \in Clerks : clerks[c].order = a /\ clerks[c].fence = orders[a].fence
          /\ UNCHANGED lapses
       \/ Slip
    /\ orders' = [orders EXCEPT ![a].live = FALSE]
    /\ UNCHANGED <<receipts, door, clerks, underway, said, standing>>

ClerkCrash(c) ==
    /\ clerks[c] # Free
    /\ Slip
    /\ Leaves(c)
    /\ door' = IF door = c THEN "nobody" ELSE door
    /\ underway' \in {underway} \cup (IF clerks[c].at = "sending" THEN {underway \cup {clerks[c].order}} ELSE {})
    /\ UNCHANGED <<orders, receipts, said, standing>>

LoseFranchise ==
    /\ standing /\ standing' = FALSE
    /\ UNCHANGED <<orders, receipts, door, clerks, underway, said, lapses>>

ClerkStep(c) ==
    \/ \E a \in Orders : Take(c, a)
    \/ Outdated(c) \/ ReadAuthority(c) \/ Serve(c) \/ OpenDoor(c) \/ Utter(c) \/ BookReceipt(c)
    \/ AcknowledgeOrder(c) \/ AcknowledgeFails(c) \/ PutAway(c)

FranchiseNext ==
    \/ \E a \in Orders : EnqueueFranchise(a) \/ BuryOrder(a) \/ OrderLapses(a) \/ UtteredLate(a)
    \/ \E c \in Clerks : ClerkStep(c) \/ ClerkCrash(c)
    \/ LoseFranchise

-----------------------------------------------------------------------------
(* A doubtful message is never said again under another name: no send of the *)
(* same words starts, or is under way, while another one's outcome is open.  *)
NeverSaidTwice ==
    \A a, b \in Orders : a # b /\ Channel(a) /\ Said[a] = Said[b]
                            => ~(receipts[a] \in InDoubt /\ receipts[b] \in InDoubt)
=============================================================================
