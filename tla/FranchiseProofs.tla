---------------------------- MODULE FranchiseProofs ----------------------------
(***************************************************************************)
(* Proofs about what franchises do outside of football, one component after *)
(* the other: the franchise outbox, for any orders, words and clerks and any *)
(* number of stalls, crashes and lost answers; the wallet of services and    *)
(* turns; sessions of talk; owner stages; and the meetings of the league.    *)
(***************************************************************************)
EXTENDS FranchiseOutbox, Expenses, Conversations, OwnerStage, Governance, FiniteSetTheorems, TLAPS

-----------------------------------------------------------------------------
(* The shape of the state.                                                 *)

Places == {"claimed", "checked", "sending", "answered", "returned", "failing"}
Results == {"none", "prepared", "unknown", "accepted", "rejected"}
OrderRows == [status : {"none", "pending", "running", "held", "dead", "delivered"},
              live : BOOLEAN, attempts : Nat, fence : Nat]
Busy == [at : Places, order : Orders, fence : Nat, outcome : Results \cup {"held", "dead", "retry"}]

Typed ==
    /\ orders \in [Orders -> OrderRows]
    /\ receipts \in [Orders -> Results]
    /\ door \in Clerks \cup {"nobody"}
    /\ clerks \in [Clerks -> Busy \cup {Free}]
    /\ underway \subseteq Orders
    /\ said \in [Orders -> Nat]

\* The value of a lock nobody holds is no clerk.
Staffed == "nobody" \notin Clerks

-----------------------------------------------------------------------------
(* The inductive invariant: the lock of the channel is held by the clerk   *)
(* that sends and by no other; a clerk at work on an order knows what has  *)
(* become of it; and what took effect agrees with receipt and row.         *)

AtDoor == {"sending", "answered"}
DoorKept == \A c \in Clerks : door = c <=> clerks[c].at \in AtDoor

\* What a clerk knows of the order it works on: nothing was sent before it sends, and an
\* answer is true until it is booked.
Knows(c, a) ==
    /\ orders[a].status # "none"
    /\ clerks[c].at \in AtDoor => Channel(a) /\ receipts[a] = "prepared"
    /\ clerks[c].at = "sending" => said[a] = 0 /\ a \notin underway
    /\ clerks[c].at = "answered" =>
          /\ clerks[c].outcome \in {"accepted", "rejected", "unknown"}
          /\ clerks[c].outcome = "accepted" => said[a] = 1 /\ a \notin underway
          /\ clerks[c].outcome = "rejected" => said[a] = 0 /\ a \notin underway
    /\ clerks[c].at = "returned" =>
          /\ clerks[c].outcome \in Results \ {"none"}
          /\ clerks[c].outcome = "rejected" => receipts[a] = "rejected"
          /\ ~Channel(a) => clerks[c].outcome = "accepted"
    /\ clerks[c].at = "failing" =>
          /\ clerks[c].outcome \in {"held", "dead", "retry"}
          /\ Channel(a) => clerks[c].outcome = "held"
ClerksKnow == \A c \in Clerks : clerks[c].at # "idle" => Knows(c, clerks[c].order)

\* A message took effect at most once, as its receipt says once it is out of doubt; its row
\* is closed only by such a receipt.  An action of the league is done in one transaction.
SentOnce(a) ==
    /\ said[a] \in {0, 1}
    /\ a \in underway => said[a] = 0
    /\ receipts[a] \in {"none", "rejected"} => said[a] = 0 /\ a \notin underway
    /\ receipts[a] = "accepted" => said[a] = 1 /\ a \notin underway
    /\ receipts[a] # "none" => orders[a].status # "none"
    /\ orders[a].status = "delivered" => receipts[a] = "accepted"
    /\ orders[a].status = "dead" => receipts[a] = "rejected"
ServedOnce(a) ==
    /\ receipts[a] = "none" /\ a \notin underway
    /\ said[a] \in {0, 1}
    /\ orders[a].status = "delivered" => said[a] = 1
DeedsTrue == \A a \in Orders : IF Channel(a) THEN SentOnce(a) ELSE ServedOnce(a)

OutboxInv == Typed /\ DoorKept /\ ClerksKnow /\ DeedsTrue /\ NeverSaidTwice

-----------------------------------------------------------------------------
(* Steps of clerks.                                                        *)

\* A clerk that left is not at the door.
LEMMA FreeIs ==
    /\ Free.at = "idle" /\ Free.fence = 0 /\ Free.outcome = "none"
    /\ \A b \in Busy : b # Free /\ b.at # "idle"
  BY DEF Free, Busy, Places

\* A clerk at work is not idle.
LEMMA ClerkTyped ==
    ASSUME Typed, NEW c \in Clerks
    PROVE  \/ clerks[c] = Free /\ clerks[c].at = "idle"
           \/ clerks[c] \in Busy /\ clerks[c].at # "idle" /\ clerks[c].order \in Orders
  BY FreeIs DEF Typed, Busy

\* The clerk c moves to the record b, the others stay.
Goes(c, b) == clerks' = [clerks EXCEPT ![c] = b]

LEMMA GoesIs ==
    ASSUME Typed, NEW c \in Clerks, NEW b \in Busy \cup {Free}, Goes(c, b)
    PROVE  /\ clerks' \in [Clerks -> Busy \cup {Free}]
           /\ clerks'[c] = b
           /\ \A d \in Clerks \ {c} : clerks'[d] = clerks[d]
  BY DEF Typed, Goes

\* Moving within an order.
LEMMA MovesGoes ==
    ASSUME Typed, NEW c \in Clerks, clerks[c].at # "idle"
    PROVE  /\ \A at \in Places : Moves(c, at) =>
                 \E b \in Busy : /\ Goes(c, b)
                                 /\ b.at = at /\ b.order = clerks[c].order
                                 /\ b.fence = clerks[c].fence /\ b.outcome = clerks[c].outcome
           /\ \A at \in Places, outcome \in Results \cup {"held", "dead", "retry"} : Moves2(c, at, outcome) =>
                 \E b \in Busy : /\ Goes(c, b)
                                 /\ b.at = at /\ b.order = clerks[c].order
                                 /\ b.fence = clerks[c].fence /\ b.outcome = outcome
           /\ Leaves(c) => Goes(c, Free)
<1>1. clerks[c] \in Busy
  BY ClerkTyped
<1>2. ASSUME NEW at \in Places, Moves(c, at)
      PROVE  \E b \in Busy : /\ Goes(c, b)
                             /\ b.at = at /\ b.order = clerks[c].order
                             /\ b.fence = clerks[c].fence /\ b.outcome = clerks[c].outcome
  <2>1. PICK b : b = [clerks[c] EXCEPT !.at = at]
    OBVIOUS
  <2>2. b \in Busy /\ b.at = at /\ b.order = clerks[c].order /\ b.fence = clerks[c].fence /\ b.outcome = clerks[c].outcome
    BY <1>1, <2>1 DEF Busy
  <2>3. Goes(c, b)
    BY <1>2, <2>1 DEF Moves, Goes, Typed
  <2>. QED  BY <2>2, <2>3
<1>3. ASSUME NEW at \in Places, NEW outcome \in Results \cup {"held", "dead", "retry"}, Moves2(c, at, outcome)
      PROVE  \E b \in Busy : /\ Goes(c, b)
                             /\ b.at = at /\ b.order = clerks[c].order
                             /\ b.fence = clerks[c].fence /\ b.outcome = outcome
  <2>1. PICK b : b = [clerks[c] EXCEPT !.at = at, !.outcome = outcome]
    OBVIOUS
  <2>2. b \in Busy /\ b.at = at /\ b.order = clerks[c].order /\ b.fence = clerks[c].fence /\ b.outcome = outcome
    BY <1>1, <2>1 DEF Busy
  <2>3. Goes(c, b)
    BY <1>3, <2>1 DEF Moves2, Goes, Typed
  <2>. QED  BY <2>2, <2>3
<1>. QED  BY <1>2, <1>3 DEF Leaves, Goes

\* Rows never go back to none, a receipt in use changes only under the lock, and what took
\* effect changes under the lock, in the league's services or with a late message.
Gently(c) ==
    \A a \in Orders :
       /\ orders[a].status # "none" => orders'[a].status # "none"
       /\ \/ receipts'[a] = receipts[a]
          \/ receipts[a] \notin {"prepared", "rejected"}
          \/ door = c /\ receipts[a] = "prepared"
       /\ \/ said'[a] = said[a] /\ (a \in underway') = (a \in underway)
          \/ door = c \/ ~Channel(a) \/ a \in underway

\* What the others know stays true.
LEMMA OthersKnow ==
    ASSUME OutboxInv, NEW c, Gently(c),
           NEW d \in Clerks \ {c}, clerks'[d] = clerks[d],
           NEW a \in Orders, a = clerks[d].order, clerks[d].at # "idle"
    PROVE  Knows(d, a)'
<1>2. Knows(d, a)
  BY DEF OutboxInv, ClerksKnow
<1>3. clerks[d].at \in AtDoor => door = d /\ door # c
  BY DEF OutboxInv, DoorKept
<1>4. clerks[d].at \in AtDoor => receipts'[a] = "prepared" /\ Channel(a)
  BY <1>2, <1>3 DEF Gently, Knows
<1>5. clerks[d].at \in AtDoor /\ a \notin underway =>
         said'[a] = said[a] /\ a \notin underway'
  BY <1>2, <1>3 DEF Gently, Knows
<1>6. clerks[d].at = "returned" /\ clerks[d].outcome = "rejected" => receipts'[a] = "rejected"
  BY <1>2 DEF Gently, Knows
<1>7. orders'[a].status # "none"
  BY <1>2 DEF Gently, Knows
<1>. QED  BY <1>2, <1>4, <1>5, <1>6, <1>7 DEF Knows, AtDoor, Channel

\* A step of c in which it knows what it should.
LEMMA AllKnow ==
    ASSUME OutboxInv, NEW c \in Clerks, NEW b \in Busy \cup {Free}, Goes(c, b), Gently(c),
           b.at # "idle" => \E a \in Orders : a = b.order /\ Knows(c, a)'
    PROVE  ClerksKnow'
<1>1. clerks'[c] = b /\ \A d \in Clerks \ {c} : clerks'[d] = clerks[d]
  BY GoesIs DEF OutboxInv
<1>2. ASSUME NEW d \in Clerks, clerks'[d].at # "idle"
      PROVE  \E a \in Orders : a = clerks'[d].order /\ Knows(d, a)'
  <2>1. CASE d = c
    BY <1>1, <1>2, <2>1
  <2>2. CASE d # c
    <3>1. PICK a \in Orders : a = clerks[d].order
      BY <1>1, <1>2, <2>2, ClerkTyped DEF OutboxInv
    <3>. QED  BY <1>1, <1>2, <2>2, <3>1, OthersKnow
  <2>. QED  BY <2>1, <2>2
<1>. QED  BY <1>2 DEF ClerksKnow

\* The lock is with those at the door when c keeps it, takes it free, or lets it go.
LEMMA DoorStays ==
    ASSUME OutboxInv, Staffed, NEW c \in Clerks, NEW b \in Busy \cup {Free}, Goes(c, b),
           \/ door' = door /\ (b.at \in AtDoor <=> clerks[c].at \in AtDoor)
           \/ door = "nobody" /\ door' = c /\ b.at \in AtDoor
           \/ door = c /\ door' = "nobody" /\ b.at \notin AtDoor
    PROVE  DoorKept'
<1>1. clerks'[c] = b /\ \A d \in Clerks \ {c} : clerks'[d] = clerks[d]
  BY GoesIs DEF OutboxInv
<1>. QED  BY <1>1 DEF OutboxInv, DoorKept, Staffed

\* A step that sends nothing and only closes or moves rows.
RowsMove ==
    /\ orders' \in [Orders -> OrderRows]
    /\ \A a \in Orders :
          /\ orders[a].status # "none" => orders'[a].status # "none"
          /\ orders'[a].status = "delivered" =>
                orders[a].status = "delivered" \/ (IF Channel(a) THEN receipts[a] = "accepted" ELSE said[a] = 1)
          /\ orders'[a].status = "dead" => orders[a].status = "dead" \/ ~Channel(a) \/ receipts[a] = "rejected"

LEMMA RowsKeep ==
    ASSUME OutboxInv, RowsMove, UNCHANGED <<receipts, said, underway>>
    PROVE  DeedsTrue' /\ NeverSaidTwice'
<1>1. NeverSaidTwice'
  BY DEF NeverSaidTwice, Channel, OutboxInv
<1>2. ASSUME NEW a \in Orders, Channel(a)
      PROVE  SentOnce(a)'
  BY <1>2 DEF SentOnce, RowsMove, OutboxInv, DeedsTrue
<1>3. ASSUME NEW a \in Orders, ~Channel(a)
      PROVE  ServedOnce(a)'
  BY <1>3 DEF ServedOnce, RowsMove, OutboxInv, DeedsTrue
<1>. QED  BY <1>1, <1>2, <1>3 DEF DeedsTrue, Channel

\* Such a step of the tables alone.
LEMMA TablesKeep ==
    ASSUME OutboxInv, Staffed, RowsMove, UNCHANGED <<receipts, said, underway, door, clerks>>
    PROVE  OutboxInv'
<1>1. Gently("nobody")
  BY DEF Gently, RowsMove
<1>2. ASSUME NEW d \in Clerks, clerks'[d].at # "idle"
      PROVE  \E a \in Orders : a = clerks'[d].order /\ Knows(d, a)'
  <2>1. PICK a \in Orders : a = clerks[d].order
    BY <1>2, ClerkTyped DEF OutboxInv
  <2>. QED  BY <1>1, <1>2, <2>1, OthersKnow DEF Staffed
<1>3. Typed' /\ DoorKept'
  BY DEF OutboxInv, Typed, RowsMove, DoorKept
<1>4. ClerksKnow'
  BY <1>2 DEF ClerksKnow
<1>. QED  BY <1>3, <1>4, RowsKeep DEF OutboxInv

\* And such a step of a clerk that keeps away from the door.
LEMMA ClerkKeeps ==
    ASSUME OutboxInv, Staffed, NEW c \in Clerks, NEW b \in Busy \cup {Free}, Goes(c, b),
           RowsMove, UNCHANGED <<receipts, said, underway, door>>,
           clerks[c].at \notin AtDoor, b.at \notin AtDoor,
           b.at # "idle" => \E a \in Orders : a = b.order /\ Knows(c, a)'
    PROVE  OutboxInv'
<1>1. Gently(c)
  BY DEF Gently, RowsMove
<1>2. Typed'
  BY GoesIs DEF OutboxInv, Typed, RowsMove
<1>. QED  BY <1>1, <1>2, AllKnow, DoorStays, RowsKeep DEF OutboxInv

-----------------------------------------------------------------------------
(* The actions.                                                            *)

\* One row gets a new status.
LEMMA RowMoves ==
    ASSUME OutboxInv, NEW a \in Orders, NEW row \in OrderRows, orders' = [orders EXCEPT ![a] = row],
           row.status # "none",
           row.status = "delivered" => (IF Channel(a) THEN receipts[a] = "accepted" ELSE said[a] = 1),
           row.status = "dead" => ~Channel(a) \/ receipts[a] = "rejected"
    PROVE  RowsMove
  BY DEF RowsMove, OutboxInv, Typed

LEMMA EnqueueKeeps ==
    ASSUME OutboxInv, Staffed, NEW a \in Orders, EnqueueFranchise(a)
    PROVE  OutboxInv'
<1>1. PICK row : row = [orders[a] EXCEPT !.status = "pending"]
  OBVIOUS
<1>2. row \in OrderRows /\ row.status = "pending"
  BY <1>1 DEF OrderRows, OutboxInv, Typed
<1>3. orders' = [orders EXCEPT ![a] = row]
  BY <1>1 DEF EnqueueFranchise, OutboxInv, Typed
<1>. QED  BY <1>2, <1>3, RowMoves, TablesKeep DEF EnqueueFranchise

LEMMA BuryKeeps ==
    ASSUME OutboxInv, Staffed, NEW a \in Orders, BuryOrder(a)
    PROVE  OutboxInv'
<1>1. PICK status \in {"held", "dead"} : status = IF Channel(a) THEN "held" ELSE "dead"
  OBVIOUS
<1>2. PICK row : row = [orders[a] EXCEPT !.status = status, !.live = FALSE]
  OBVIOUS
<1>3. row \in OrderRows /\ row.status = status
  BY <1>2 DEF OrderRows, OutboxInv, Typed
<1>4. orders' = [orders EXCEPT ![a] = row]
  BY <1>1, <1>2 DEF BuryOrder, OutboxInv, Typed
<1>. QED  BY <1>1, <1>3, <1>4, RowMoves, TablesKeep DEF BuryOrder

LEMMA LapseKeeps ==
    ASSUME OutboxInv, Staffed, NEW a \in Orders, OrderLapses(a)
    PROVE  OutboxInv'
<1>1. PICK row : row = [orders[a] EXCEPT !.live = FALSE]
  OBVIOUS
<1>2. row \in OrderRows /\ row.status = "running"
  BY <1>1 DEF OrderLapses, OrderRows, OutboxInv, Typed
<1>3. orders' = [orders EXCEPT ![a] = row]
  BY <1>1 DEF OrderLapses, OutboxInv, Typed
<1>. QED  BY <1>2, <1>3, RowMoves, TablesKeep DEF OrderLapses

LEMMA NothingMoves ==
    ASSUME OutboxInv, UNCHANGED orders
    PROVE  RowsMove
  BY DEF RowsMove, OutboxInv, Typed

LEMMA TakeKeeps ==
    ASSUME OutboxInv, Staffed, NEW c \in Clerks, NEW a \in Orders, Take(c, a)
    PROVE  OutboxInv'
<1>0. PICK o \in OrderRows : o = orders[a]
  BY DEF OutboxInv, Typed
<1>1. PICK n \in Nat, m \in Nat : n = o.attempts + 1 /\ m = o.fence + 1
  BY DEF OrderRows
<1>2. PICK row : row = [o EXCEPT !.status = "running", !.live = TRUE, !.attempts = n, !.fence = m]
  OBVIOUS
<1>3. /\ row \in OrderRows /\ row.status = "running"
      /\ orders' = [orders EXCEPT ![a] = row]
  BY <1>0, <1>1, <1>2 DEF Take, OrderRows, OutboxInv, Typed
<1>4. PICK b : b = [Free EXCEPT !.at = "claimed", !.order = a, !.fence = orders[a].fence + 1]
  OBVIOUS
<1>5. b \in Busy /\ b.at = "claimed" /\ b.order = a
  <2>1. b = [at |-> "claimed", order |-> a, fence |-> m, outcome |-> "none"]
    BY <1>0, <1>1, <1>4 DEF Free
  <2>. QED  BY <2>1 DEF Busy, Places, Results
<1>6. Goes(c, b) /\ clerks[c].at = "idle"
  BY <1>4, FreeIs DEF Take, Goes
<1>7. Knows(c, a)'
  <2>1. clerks'[c].at = "claimed" /\ orders'[a].status = "running"
    BY <1>3, <1>5, <1>6, GoesIs DEF OutboxInv, Typed
  <2>. QED  BY <2>1 DEF Knows, AtDoor
<1>8. RowsMove
  BY <1>3, RowMoves
<1>9. UNCHANGED <<receipts, said, underway, door>>
  BY DEF Take
<1>. QED  BY <1>5, <1>6, <1>7, <1>8, <1>9, ClerkKeeps DEF AtDoor

LEMMA LeavingKeeps ==
    ASSUME OutboxInv, Staffed, NEW c \in Clerks, Leaves(c), clerks[c].at \notin AtDoor,
           RowsMove, UNCHANGED <<receipts, said, underway, door>>
    PROVE  OutboxInv'
<1>1. Goes(c, Free) /\ Free.at = "idle"
  BY FreeIs DEF Leaves, Goes
<1>. QED  BY <1>1, ClerkKeeps DEF AtDoor

\* A clerk away from the door learns something and goes on.
LEMMA LearningKeeps ==
    ASSUME OutboxInv, Staffed, NEW c \in Clerks, clerks[c].at \notin AtDoor \cup {"idle"},
           NEW a \in Orders, a = clerks[c].order,
           NEW at \in {"checked", "returned", "failing"}, NEW outcome \in Results \cup {"held", "dead", "retry"},
           Moves2(c, at, outcome),
           at = "returned" => /\ outcome \in Results \ {"none"}
                              /\ outcome = "rejected" => receipts[a] = "rejected"
                              /\ ~Channel(a) => outcome = "accepted",
           at = "failing" => /\ outcome \in {"held", "dead", "retry"}
                             /\ Channel(a) => outcome = "held",
           UNCHANGED <<orders, receipts, said, underway, door>>
    PROVE  OutboxInv'
<1>1. PICK b \in Busy : /\ Goes(c, b)
                        /\ b.at = at /\ b.order = a /\ b.outcome = outcome
  BY MovesGoes DEF OutboxInv, Places
<1>2. clerks'[c] = b
  BY <1>1, GoesIs DEF OutboxInv
<1>3. Knows(c, a)
  BY DEF OutboxInv, ClerksKnow
<1>4. Knows(c, a)'
  BY <1>1, <1>2, <1>3 DEF Knows, AtDoor, Channel
<1>. QED  BY <1>1, <1>4, NothingMoves, ClerkKeeps DEF AtDoor

LEMMA ReadAuthorityKeeps ==
    ASSUME OutboxInv, Staffed, NEW c \in Clerks, ReadAuthority(c)
    PROVE  OutboxInv'
<1>1. PICK a \in Orders : a = clerks[c].order
  BY ClerkTyped, FreeIs DEF ReadAuthority, OutboxInv
<1>2. CASE Moves(c, "checked")
  <2>1. PICK b \in Busy : Goes(c, b) /\ b.at = "checked" /\ b.order = a
    BY <1>1, <1>2, MovesGoes DEF ReadAuthority, OutboxInv, Places
  <2>2. Knows(c, a) /\ clerks'[c] = b
    BY <1>1, <2>1, GoesIs DEF OutboxInv, ClerksKnow, ReadAuthority
  <2>3. Knows(c, a)'
    BY <2>1, <2>2 DEF Knows, AtDoor, ReadAuthority
  <2>. QED  BY <2>1, <2>3, NothingMoves, ClerkKeeps DEF AtDoor, ReadAuthority
<1>3. CASE Moves2(c, "failing", "held")
  BY <1>1, <1>3, LearningKeeps DEF ReadAuthority, AtDoor
<1>4. CASE Moves2(c, "failing", Turned(clerks[c].order))
  BY <1>1, <1>4, LearningKeeps DEF ReadAuthority, AtDoor, Turned
<1>. QED  BY <1>2, <1>3, <1>4 DEF ReadAuthority

LEMMA AcknowledgeKeeps ==
    ASSUME OutboxInv, Staffed, NEW c \in Clerks, AcknowledgeOrder(c)
    PROVE  OutboxInv' /\ RowsMove
<1>1. PICK a \in Orders : a = clerks[c].order
  BY ClerkTyped, FreeIs DEF AcknowledgeOrder, OutboxInv
<1>2. PICK row : row = [orders[a] EXCEPT !.status = "delivered", !.live = FALSE]
  OBVIOUS
<1>3. row \in OrderRows /\ row.status = "delivered"
  BY <1>2 DEF OrderRows, OutboxInv, Typed
<1>4. orders' = [orders EXCEPT ![a] = row]
  BY <1>1, <1>2 DEF AcknowledgeOrder, OutboxInv, Typed
<1>5. RowsMove
  BY <1>1, <1>3, <1>4, RowMoves DEF AcknowledgeOrder
<1>. QED  BY <1>5, LeavingKeeps DEF AcknowledgeOrder, AtDoor

LEMMA AcknowledgeFailsKeeps ==
    ASSUME OutboxInv, Staffed, NEW c \in Clerks, AcknowledgeFails(c)
    PROVE  OutboxInv'
<1>1. PICK a \in Orders : a = clerks[c].order
  BY ClerkTyped, FreeIs DEF AcknowledgeFails, OutboxInv
<1>2. CASE Channel(a)
  <2>1. Moves2(c, "failing", "held") /\ clerks[c].at = "returned"
    BY <1>1, <1>2 DEF AcknowledgeFails
  <2>. QED  BY <1>1, <2>1, LearningKeeps DEF AcknowledgeFails, AtDoor
<1>3. CASE ~Channel(a)
  <2>1. Moves2(c, "failing", "retry") /\ clerks[c].at = "returned"
    BY <1>1, <1>3 DEF AcknowledgeFails
  <2>. QED  BY <1>1, <1>3, <2>1, LearningKeeps DEF AcknowledgeFails, AtDoor
<1>. QED  BY <1>2, <1>3

LEMMA PutAwayKeeps ==
    ASSUME OutboxInv, Staffed, NEW c \in Clerks, PutAway(c)
    PROVE  OutboxInv' /\ RowsMove
<1>1. PICK a \in Orders : a = clerks[c].order
  BY ClerkTyped, FreeIs DEF PutAway, OutboxInv
<1>2. PICK status : status = IF Put(c) # "retry" THEN Put(c) ELSE IF orders[a].attempts < OrderTries THEN "pending" ELSE "dead"
  OBVIOUS
<1>3. Knows(c, a)
  BY <1>1 DEF PutAway, OutboxInv, ClerksKnow
<1>4. /\ status \in {"dead", "held", "pending"}
      /\ status = "dead" => ~Channel(a) \/ receipts[a] = "rejected"
  BY <1>2, <1>3 DEF Knows, Put, PutAway, InDoubt, Results
<1>5. PICK row : row = [orders[a] EXCEPT !.status = status, !.live = FALSE]
  OBVIOUS
<1>6. row \in OrderRows /\ row.status = status
  BY <1>4, <1>5 DEF OrderRows, OutboxInv, Typed
<1>7. orders' = [orders EXCEPT ![a] = row]
  BY <1>1, <1>2, <1>5 DEF PutAway, OutboxInv, Typed
<1>8. RowsMove
  BY <1>4, <1>6, <1>7, RowMoves
<1>. QED  BY <1>8, LeavingKeeps DEF PutAway, AtDoor

LEMMA OutdatedKeeps ==
    ASSUME OutboxInv, Staffed, NEW c \in Clerks, Outdated(c)
    PROVE  OutboxInv'
  BY NothingMoves, LeavingKeeps DEF Outdated, AtDoor

\* What the league's services did is done once, whatever the clerk hears of it.
LEMMA ServeKeeps ==
    ASSUME OutboxInv, Staffed, NEW c \in Clerks, Serve(c)
    PROVE  OutboxInv'
<1>1. PICK a \in Orders : a = clerks[c].order
  BY ClerkTyped, FreeIs DEF Serve, OutboxInv
<1>2. /\ clerks[c].at = "checked" /\ ~Channel(a)
      /\ UNCHANGED <<orders, receipts, door, underway>>
      /\ said' = said \/ (said[a] \in {0, 1} /\ said' = [said EXCEPT ![a] = 1])
      /\ \E at \in {"returned", "failing"}, outcome \in {"accepted", "dead", "retry"} :
            /\ Moves2(c, at, outcome)
            /\ at = "returned" <=> outcome = "accepted"
  BY <1>1 DEF Serve
<1>3. PICK at \in {"returned", "failing"}, outcome \in {"accepted", "dead", "retry"} :
            /\ Moves2(c, at, outcome)
            /\ at = "returned" <=> outcome = "accepted"
  BY <1>2
<1>4. PICK b \in Busy : Goes(c, b) /\ b.at = at /\ b.order = a /\ b.outcome = outcome
  BY <1>1, <1>2, <1>3, MovesGoes DEF OutboxInv, Places, Results
<1>5. clerks'[c] = b /\ Knows(c, a)
  BY <1>1, <1>2, <1>4, GoesIs DEF OutboxInv, ClerksKnow
<1>6. Knows(c, a)'
  BY <1>2, <1>3, <1>4, <1>5 DEF Knows, AtDoor, Channel, Results
<1>7. /\ said' \in [Orders -> Nat]
      /\ \A d \in Orders \ {a} : said'[d] = said[d]
      /\ said'[a] = said[a] \/ (said[a] \in {0, 1} /\ said'[a] = 1)
  BY <1>2 DEF OutboxInv, Typed
<1>8. Gently(c)
  BY <1>2, <1>7 DEF Gently
<1>9. Typed' /\ NeverSaidTwice'
  BY <1>2, <1>4, <1>7, GoesIs DEF OutboxInv, Typed, NeverSaidTwice, Channel
<1>10. DeedsTrue'
  <2>1. ASSUME NEW d \in Orders, Channel(d)
        PROVE  SentOnce(d)'
    BY <1>2, <1>7, <2>1 DEF SentOnce, OutboxInv, DeedsTrue
  <2>2. ASSUME NEW d \in Orders, ~Channel(d)
        PROVE  ServedOnce(d)'
    BY <1>2, <1>7, <2>2 DEF ServedOnce, OutboxInv, DeedsTrue
  <2>. QED  BY <2>1, <2>2 DEF DeedsTrue, Channel
<1>. QED  BY <1>2, <1>3, <1>4, <1>6, <1>8, <1>9, <1>10, AllKnow, DoorStays DEF OutboxInv, AtDoor

\* A send begins only where no send of the same words is in doubt.
LEMMA OpenDoorKeeps ==
    ASSUME OutboxInv, Staffed, NEW c \in Clerks, OpenDoor(c)
    PROVE  OutboxInv'
<1>1. PICK a \in Orders : a = clerks[c].order
  BY ClerkTyped, FreeIs DEF OpenDoor, OutboxInv
<1>2. /\ clerks[c].at = "checked" /\ Channel(a) /\ door = "nobody"
      /\ UNCHANGED <<orders, underway, said>>
  BY <1>1 DEF OpenDoor
<1>3. CASE Moves2(c, "failing", "held") /\ UNCHANGED <<receipts, door>>
  BY <1>1, <1>2, <1>3, LearningKeeps DEF AtDoor
<1>4. CASE receipts[a] # "none" /\ Moves2(c, "returned", receipts[a]) /\ UNCHANGED <<receipts, door>>
  <2>1. receipts[a] \in Results
    BY DEF OutboxInv, Typed
  <2>. QED  BY <1>1, <1>2, <1>4, <2>1, LearningKeeps DEF AtDoor
<1>5. CASE /\ ~Doubted(a) /\ receipts[a] = "none"
           /\ receipts' = [receipts EXCEPT ![a] = "prepared"]
           /\ door' = c
           /\ Moves(c, "sending")
  <2>1. PICK b \in Busy : Goes(c, b) /\ b.at = "sending" /\ b.order = a
    BY <1>1, <1>2, <1>5, MovesGoes DEF OutboxInv, Places
  <2>2. clerks'[c] = b /\ Knows(c, a)
    BY <1>1, <1>2, <2>1, GoesIs DEF OutboxInv, ClerksKnow
  <2>3. /\ receipts' \in [Orders -> Results] /\ receipts'[a] = "prepared"
        /\ \A d \in Orders \ {a} : receipts'[d] = receipts[d]
    BY <1>5 DEF OutboxInv, Typed, Results
  <2>4. said[a] = 0 /\ a \notin underway /\ orders[a].status # "none"
    BY <1>2, <1>5, <2>2 DEF OutboxInv, DeedsTrue, SentOnce, Knows
  <2>5. Knows(c, a)'
    BY <1>2, <2>1, <2>2, <2>3, <2>4 DEF Knows, AtDoor, Channel
  <2>6. Gently(c)
    BY <1>2, <1>5, <2>3 DEF Gently
  <2>7. Typed'
    BY <1>2, <1>5, <2>1, <2>3, GoesIs DEF OutboxInv, Typed
  <2>8. NeverSaidTwice'
    BY <1>5, <2>3 DEF OutboxInv, NeverSaidTwice, Doubted, Channel
  <2>9. DeedsTrue'
    <3>1. ASSUME NEW d \in Orders, Channel(d)
          PROVE  SentOnce(d)'
      BY <1>2, <1>5, <2>3, <2>4, <3>1 DEF SentOnce, OutboxInv, DeedsTrue
    <3>2. ASSUME NEW d \in Orders, ~Channel(d)
          PROVE  ServedOnce(d)'
      BY <1>2, <2>3, <3>2 DEF ServedOnce, OutboxInv, DeedsTrue
    <3>. QED  BY <3>1, <3>2 DEF DeedsTrue, Channel
  <2>. QED  BY <1>2, <1>5, <2>1, <2>5, <2>6, <2>7, <2>8, <2>9, AllKnow, DoorStays DEF OutboxInv, AtDoor
<1>. QED  BY <1>1, <1>3, <1>4, <1>5 DEF OpenDoor

\* What happens to the message of the clerk at the door: it is said, it goes under way, or neither.
LEMMA UtterKeeps ==
    ASSUME OutboxInv, Staffed, NEW c \in Clerks, Utter(c)
    PROVE  OutboxInv'
<1>1. PICK a \in Orders : a = clerks[c].order
  BY ClerkTyped, FreeIs DEF Utter, OutboxInv
<1>2. /\ clerks[c].at = "sending"
      /\ UNCHANGED <<orders, receipts, door>>
      /\ \E outcome \in {"accepted", "rejected", "unknown"} :
            /\ Moves2(c, "answered", outcome)
            /\ \/ said' = [said EXCEPT ![a] = @ + 1] /\ underway' = underway /\ outcome # "rejected"
               \/ underway' = underway \cup {a} /\ said' = said /\ outcome = "unknown"
               \/ said' = said /\ underway' = underway /\ outcome # "accepted"
  BY <1>1 DEF Utter
<1>3. PICK outcome \in {"accepted", "rejected", "unknown"} :
            /\ Moves2(c, "answered", outcome)
            /\ \/ said' = [said EXCEPT ![a] = @ + 1] /\ underway' = underway /\ outcome # "rejected"
               \/ underway' = underway \cup {a} /\ said' = said /\ outcome = "unknown"
               \/ said' = said /\ underway' = underway /\ outcome # "accepted"
  BY <1>2
<1>4. PICK b \in Busy : Goes(c, b) /\ b.at = "answered" /\ b.order = a /\ b.outcome = outcome
  BY <1>1, <1>2, <1>3, MovesGoes DEF OutboxInv, Places, Results
<1>5. clerks'[c] = b /\ Knows(c, a) /\ door = c
  BY <1>1, <1>2, <1>4, GoesIs DEF OutboxInv, ClerksKnow, DoorKept, AtDoor
<1>6. said[a] = 0 /\ a \notin underway /\ Channel(a) /\ receipts[a] = "prepared" /\ orders[a].status # "none"
  BY <1>2, <1>5 DEF Knows, AtDoor
<1>7. /\ said' \in [Orders -> Nat] /\ underway' \subseteq Orders
      /\ \A d \in Orders \ {a} : said'[d] = said[d] /\ (d \in underway' <=> d \in underway)
      /\ said'[a] \in {0, 1} /\ (a \in underway' => said'[a] = 0)
      /\ outcome = "accepted" => said'[a] = 1 /\ a \notin underway'
      /\ outcome = "rejected" => said'[a] = 0 /\ a \notin underway'
  BY <1>3, <1>6 DEF OutboxInv, Typed
<1>8. Knows(c, a)'
  BY <1>2, <1>4, <1>5, <1>6, <1>7 DEF Knows, AtDoor, Channel
<1>9. Gently(c)
  BY <1>2, <1>5 DEF Gently
<1>10. Typed' /\ NeverSaidTwice'
  BY <1>2, <1>4, <1>7, GoesIs DEF OutboxInv, Typed, NeverSaidTwice, Channel
<1>11. DeedsTrue'
  <2>1. ASSUME NEW d \in Orders, Channel(d)
        PROVE  SentOnce(d)'
    BY <1>2, <1>6, <1>7, <2>1 DEF SentOnce, OutboxInv, DeedsTrue
  <2>2. ASSUME NEW d \in Orders, ~Channel(d)
        PROVE  ServedOnce(d)'
    BY <1>2, <1>6, <1>7, <2>2 DEF ServedOnce, OutboxInv, DeedsTrue
  <2>. QED  BY <2>1, <2>2 DEF DeedsTrue, Channel
<1>. QED  BY <1>2, <1>4, <1>8, <1>9, <1>10, <1>11, AllKnow, DoorStays DEF OutboxInv, AtDoor

LEMMA BookReceiptKeeps ==
    ASSUME OutboxInv, Staffed, NEW c \in Clerks, BookReceipt(c)
    PROVE  OutboxInv'
<1>1. PICK a \in Orders : a = clerks[c].order
  BY ClerkTyped, FreeIs DEF BookReceipt, OutboxInv
<1>2. PICK outcome : outcome = clerks[c].outcome
  OBVIOUS
<1>3. /\ clerks[c].at = "answered" /\ door' = "nobody"
      /\ UNCHANGED <<orders, said, underway>>
      /\ receipts' = [receipts EXCEPT ![a] = outcome]
  BY <1>1, <1>2 DEF BookReceipt
<1>4. PICK b \in Busy : Goes(c, b) /\ b.at = "returned" /\ b.order = a /\ b.outcome = outcome
  BY <1>1, <1>2, <1>3, MovesGoes DEF BookReceipt, OutboxInv, Places
<1>5. clerks'[c] = b /\ Knows(c, a) /\ door = c
  BY <1>1, <1>3, <1>4, GoesIs DEF OutboxInv, ClerksKnow, DoorKept, AtDoor
<1>6. /\ Channel(a) /\ receipts[a] = "prepared" /\ orders[a].status # "none"
      /\ outcome \in {"accepted", "rejected", "unknown"}
      /\ outcome = "accepted" => said[a] = 1 /\ a \notin underway
      /\ outcome = "rejected" => said[a] = 0 /\ a \notin underway
  BY <1>2, <1>3, <1>5 DEF Knows, AtDoor
<1>7. /\ receipts' \in [Orders -> Results] /\ receipts'[a] = outcome
      /\ \A d \in Orders \ {a} : receipts'[d] = receipts[d]
  BY <1>3, <1>6 DEF OutboxInv, Typed, Results
<1>8. Knows(c, a)'
  BY <1>3, <1>4, <1>5, <1>6, <1>7 DEF Knows, AtDoor, Channel, Results
<1>9. Gently(c)
  BY <1>3, <1>5, <1>6, <1>7 DEF Gently
<1>10. Typed'
  BY <1>3, <1>4, <1>7, GoesIs DEF OutboxInv, Typed
<1>11. NeverSaidTwice'
  BY <1>6, <1>7 DEF OutboxInv, NeverSaidTwice, InDoubt, Channel
<1>12. DeedsTrue'
  <2>1. ASSUME NEW d \in Orders, Channel(d)
        PROVE  SentOnce(d)'
    BY <1>3, <1>6, <1>7, <2>1 DEF SentOnce, OutboxInv, DeedsTrue
  <2>2. ASSUME NEW d \in Orders, ~Channel(d)
        PROVE  ServedOnce(d)'
    BY <1>3, <1>6, <1>7, <2>2 DEF ServedOnce, OutboxInv, DeedsTrue
  <2>. QED  BY <2>1, <2>2 DEF DeedsTrue, Channel
<1>. QED  BY <1>3, <1>4, <1>5, <1>8, <1>9, <1>10, <1>11, <1>12, AllKnow, DoorStays DEF OutboxInv, AtDoor

LEMMA LateKeeps ==
    ASSUME OutboxInv, Staffed, NEW a \in Orders, UtteredLate(a)
    PROVE  OutboxInv'
<1>1. /\ a \in underway /\ underway' = underway \ {a}
      /\ said' = [said EXCEPT ![a] = @ + 1]
      /\ UNCHANGED <<orders, receipts, door, clerks>>
  BY DEF UtteredLate
<1>2. Channel(a) /\ said[a] = 0 /\ receipts[a] \notin {"none", "accepted", "rejected"}
  BY <1>1 DEF OutboxInv, DeedsTrue, SentOnce, ServedOnce
<1>3. /\ said' \in [Orders -> Nat] /\ said'[a] = 1
      /\ \A d \in Orders \ {a} : said'[d] = said[d] /\ (d \in underway' <=> d \in underway)
  BY <1>1, <1>2 DEF OutboxInv, Typed
<1>4. Gently("nobody")
  BY <1>1, <1>3 DEF Gently
<1>5. ClerksKnow'
  <2>1. ASSUME NEW d \in Clerks, clerks'[d].at # "idle"
        PROVE  \E b \in Orders : b = clerks'[d].order /\ Knows(d, b)'
    <3>1. PICK b \in Orders : b = clerks[d].order
      BY <1>1, <2>1, ClerkTyped DEF OutboxInv
    <3>. QED  BY <1>1, <1>4, <2>1, <3>1, OthersKnow DEF Staffed
  <2>. QED  BY <2>1 DEF ClerksKnow
<1>6. Typed' /\ DoorKept' /\ NeverSaidTwice'
  BY <1>1, <1>3 DEF OutboxInv, Typed, DoorKept, NeverSaidTwice, Channel
<1>7. DeedsTrue'
  <2>1. ASSUME NEW d \in Orders, Channel(d)
        PROVE  SentOnce(d)'
    BY <1>1, <1>2, <1>3, <2>1 DEF SentOnce, OutboxInv, DeedsTrue
  <2>2. ASSUME NEW d \in Orders, ~Channel(d)
        PROVE  ServedOnce(d)'
    BY <1>1, <1>2, <1>3, <2>2 DEF ServedOnce, OutboxInv, DeedsTrue
  <2>. QED  BY <2>1, <2>2 DEF DeedsTrue, Channel
<1>. QED  BY <1>5, <1>6, <1>7 DEF OutboxInv

\* A clerk that crashes while it sends leaves the receipt in doubt, and perhaps the message under way.
LEMMA CrashKeeps ==
    ASSUME OutboxInv, Staffed, NEW c \in Clerks, ClerkCrash(c)
    PROVE  OutboxInv'
<1>1. PICK a \in Orders : a = clerks[c].order
  BY ClerkTyped DEF ClerkCrash, OutboxInv
<1>2. Goes(c, Free) /\ Free.at = "idle" /\ clerks'[c] = Free
  BY FreeIs, GoesIs DEF ClerkCrash, Leaves, Goes, OutboxInv
<1>3. Knows(c, a)
  BY <1>1, ClerkTyped DEF ClerkCrash, OutboxInv, ClerksKnow
<1>4. /\ UNCHANGED <<orders, receipts, said>>
      /\ door' = IF door = c THEN "nobody" ELSE door
      /\ \/ underway' = underway
         \/ underway' = underway \cup {a} /\ clerks[c].at = "sending"
  BY <1>1 DEF ClerkCrash
<1>5. underway' # underway =>
         /\ underway' = underway \cup {a} /\ said[a] = 0 /\ door = c
         /\ Channel(a) /\ receipts[a] = "prepared"
  BY <1>3, <1>4 DEF Knows, AtDoor, OutboxInv, DoorKept
<1>6. Gently(c)
  BY <1>4, <1>5 DEF Gently
<1>7. Typed' /\ NeverSaidTwice'
  BY <1>2, <1>4, GoesIs DEF OutboxInv, Typed, NeverSaidTwice, Channel
<1>8. DoorKept'
  BY <1>2, <1>4, DoorStays DEF OutboxInv, DoorKept, AtDoor
<1>9. DeedsTrue'
  <2>1. ASSUME NEW d \in Orders, Channel(d)
        PROVE  SentOnce(d)'
    BY <1>4, <1>5, <2>1 DEF SentOnce, OutboxInv, DeedsTrue
  <2>2. ASSUME NEW d \in Orders, ~Channel(d)
        PROVE  ServedOnce(d)'
    BY <1>4, <1>5, <2>2 DEF ServedOnce, OutboxInv, DeedsTrue
  <2>. QED  BY <2>1, <2>2 DEF DeedsTrue, Channel
<1>. QED  BY <1>2, <1>6, <1>7, <1>8, <1>9, AllKnow DEF OutboxInv

-----------------------------------------------------------------------------
LEMMA FranchiseStarts ==
    ASSUME Staffed, FranchiseInit
    PROVE  OutboxInv
<1>1. Typed
  BY DEF FranchiseInit, Typed, NoOrder, OrderRows, Results
<1>2. \A c \in Clerks : clerks[c].at = "idle" /\ door # c
  BY DEF FranchiseInit, Free, Staffed
<1>3. \A a \in Orders : orders[a].status = "none"
  BY DEF FranchiseInit, NoOrder
<1>4. DeedsTrue
  BY <1>3 DEF FranchiseInit, DeedsTrue, SentOnce, ServedOnce
<1>5. NeverSaidTwice
  BY DEF FranchiseInit, NeverSaidTwice, InDoubt
<1>. QED  BY <1>1, <1>2, <1>4, <1>5 DEF OutboxInv, DoorKept, ClerksKnow, AtDoor

LEMMA FranchiseKeeps ==
    ASSUME OutboxInv, Staffed, [FranchiseNext]_franchiseVars
    PROVE  OutboxInv'
<1>1. CASE UNCHANGED franchiseVars
  BY <1>1, NothingMoves, TablesKeep DEF franchiseVars
<1>2. CASE LoseFranchise
  BY <1>2, NothingMoves, TablesKeep DEF LoseFranchise
<1>3. ASSUME NEW a \in Orders, EnqueueFranchise(a) \/ BuryOrder(a) \/ OrderLapses(a) \/ UtteredLate(a)
      PROVE  OutboxInv'
  BY <1>3, EnqueueKeeps, BuryKeeps, LapseKeeps, LateKeeps
<1>4. ASSUME NEW c \in Clerks, ClerkStep(c) \/ ClerkCrash(c)
      PROVE  OutboxInv'
  BY <1>4, TakeKeeps, OutdatedKeeps, ReadAuthorityKeeps, ServeKeeps, OpenDoorKeeps, UtterKeeps,
     BookReceiptKeeps, AcknowledgeKeeps, AcknowledgeFailsKeeps, PutAwayKeeps, CrashKeeps DEF ClerkStep
<1>. QED  BY <1>1, <1>2, <1>3, <1>4 DEF FranchiseNext

(* No message is said again under another name while an earlier send of the  *)
(* same words is in doubt (franchise/outbox.ts and buzz/channel.ts, under    *)
(* lock 142): however many orders, clerks, crashes and lost answers there    *)
(* are.                                                                      *)
THEOREM WordsAreSaidOnce ==
    ASSUME Staffed
    PROVE  FranchiseInit /\ [][FranchiseNext]_franchiseVars => []NeverSaidTwice
<1>1. OutboxInv => NeverSaidTwice
  BY DEF OutboxInv
<1>. QED  BY <1>1, FranchiseStarts, FranchiseKeeps, PTL

-----------------------------------------------------------------------------
(* What the owner is told.  An action of the league that fails may have     *)
(* been done, its answer lost: its failure comes without proof.             *)

Told(a) == CASE orders[a].status = "none" -> "none"
             [] orders[a].status = "delivered" -> "done"
             [] orders[a].status = "dead" -> IF Channel(a) THEN "failed" ELSE "unproven"
             [] OTHER -> "open"

Owner == INSTANCE OwnerActions WITH
    Actions <- Orders, effects <- said, verdict <- [a \in Orders |-> Told(a)]

LEMMA OwnerAsks ==
    ASSUME FranchiseInit
    PROVE  Owner!ActionsInit
<1>1. \A a \in Orders : Told(a) = "none"
  BY DEF FranchiseInit, NoOrder, Told
<1>. QED  BY <1>1 DEF Owner!ActionsInit, FranchiseInit

\* Rows are queued, moved on or closed, and nothing takes effect.
LEMMA OwnerIsTold ==
    ASSUME OutboxInv, OutboxInv', said' = said,
           \A a \in Orders :
              \/ orders'[a].status = orders[a].status
              \/ orders[a].status \in {"none", "pending", "running"}
                 /\ (orders'[a].status = "none" => orders[a].status = "none")
                 /\ (orders[a].status = "none" => orders'[a].status = "pending")
    PROVE  Owner!AskOrReport
<1>1. ASSUME NEW a \in Orders
      PROVE  \/ Told(a)' = Told(a)
             \/ Told(a) = "none" /\ Told(a)' = "open"
             \/ /\ Told(a) = "open" /\ Told(a)' \in {"done", "failed", "unproven"}
                /\ Told(a)' = "done" => said[a] = 1
                /\ Told(a)' = "failed" => said[a] = 0
  <2>1. CASE orders'[a].status = orders[a].status
    BY <2>1 DEF Told, Channel
  <2>2. CASE orders[a].status = "none" /\ orders'[a].status = "pending"
    BY <2>2 DEF Told
  <2>3. CASE orders[a].status \in {"pending", "running"} /\ orders'[a].status # "none"
    <3>1. Told(a) = "open" /\ Told(a)' \in {"open", "done", "failed", "unproven"}
      BY <2>3 DEF Told
    <3>2. orders'[a].status = "delivered" => said'[a] = 1
      BY DEF OutboxInv, DeedsTrue, SentOnce, ServedOnce
    <3>3. orders'[a].status = "dead" /\ Channel(a) => said'[a] = 0
      BY DEF OutboxInv, DeedsTrue, SentOnce, Channel
    <3>. QED  BY <3>1, <3>2, <3>3 DEF Told, Channel
  <2>. QED  BY <2>1, <2>2, <2>3
<1>. QED  BY <1>1 DEF Owner!AskOrReport, Owner!MayReport

\* One action takes effect while its row is not closed as done or failed.
LEMMA OwnerIsServed ==
    ASSUME OutboxInv, UNCHANGED orders, NEW a \in Orders, said[a] = 0,
           said' = [said EXCEPT ![a] = 1],
           orders[a].status # "none", orders[a].status # "delivered",
           Channel(a) => orders[a].status # "dead"
    PROVE  Owner!TakeEffect(a)
<1>1. Told(a) \in {"open", "unproven"}
  BY DEF Told
<1>2. \A b \in Orders : Told(b)' = Told(b)
  BY DEF Told, Channel
<1>. QED  BY <1>1, <1>2 DEF Owner!TakeEffect

LEMMA ClerkPromises ==
    ASSUME OutboxInv, OutboxInv', Staffed, NEW c \in Clerks, ClerkStep(c) \/ ClerkCrash(c)
    PROVE  [Owner!ActionsNext]_(Owner!actionVars)
<1>1. ASSUME UNCHANGED <<orders, said>>
      PROVE  UNCHANGED Owner!actionVars
  BY <1>1 DEF Owner!actionVars, Told, Channel
<1>2. CASE \E a \in Orders : Take(c, a)
  BY <1>2, OwnerIsTold DEF Take, Takeable, Owner!ActionsNext, OutboxInv, Typed
<1>3. CASE Outdated(c) \/ ReadAuthority(c) \/ OpenDoor(c) \/ BookReceipt(c) \/ AcknowledgeFails(c) \/ ClerkCrash(c)
  BY <1>1, <1>3 DEF Outdated, ReadAuthority, OpenDoor, BookReceipt, AcknowledgeFails, ClerkCrash
<1>4. CASE AcknowledgeOrder(c) \/ PutAway(c)
  <2>1. PICK a \in Orders : a = clerks[c].order
    BY <1>4, ClerkTyped, FreeIs DEF AcknowledgeOrder, PutAway, OutboxInv
  <2>2. orders[a].status = "running" /\ said' = said
    BY <1>4, <2>1 DEF AcknowledgeOrder, PutAway, HoldsOrder
  <2>3. \A b \in Orders \ {a} : orders'[b] = orders[b]
    BY <1>4, <2>1 DEF AcknowledgeOrder, PutAway, OutboxInv, Typed
  <2>4. orders'[a].status # "none"
    BY <1>4, <2>2, AcknowledgeKeeps, PutAwayKeeps DEF RowsMove
  <2>. QED  BY <2>2, <2>3, <2>4, OwnerIsTold DEF Owner!ActionsNext
<1>5. CASE Serve(c)
  <2>1. PICK a \in Orders : a = clerks[c].order
    BY <1>5, ClerkTyped, FreeIs DEF Serve, OutboxInv
  <2>2. /\ clerks[c].at = "checked" /\ ~Channel(a) /\ UNCHANGED orders
        /\ said' = said \/ (said[a] \in {0, 1} /\ said' = [said EXCEPT ![a] = 1])
    BY <1>5, <2>1 DEF Serve
  <2>3. CASE said' = said
    BY <1>1, <2>2, <2>3
  <2>4. CASE said[a] = 0 /\ said' = [said EXCEPT ![a] = 1]
    <3>1. orders[a].status # "none" /\ orders[a].status # "delivered"
      BY <2>1, <2>2, <2>4 DEF OutboxInv, ClerksKnow, Knows, DeedsTrue, ServedOnce
    <3>. QED  BY <2>2, <2>4, <3>1, OwnerIsServed DEF Owner!ActionsNext
  <2>5. CASE said[a] = 1 /\ said' = [said EXCEPT ![a] = 1]
    BY <1>1, <2>2, <2>5 DEF OutboxInv, Typed
  <2>. QED  BY <2>2, <2>3, <2>4, <2>5
<1>6. CASE Utter(c)
  <2>1. PICK a \in Orders : a = clerks[c].order
    BY <1>6, ClerkTyped, FreeIs DEF Utter, OutboxInv
  <2>2. /\ clerks[c].at = "sending" /\ UNCHANGED orders
        /\ said' = said \/ said' = [said EXCEPT ![a] = @ + 1]
    BY <1>6, <2>1 DEF Utter
  <2>3. CASE said' = said
    BY <1>1, <2>2, <2>3
  <2>4. CASE said' = [said EXCEPT ![a] = @ + 1]
    <3>1. said[a] = 0 /\ Channel(a) /\ receipts[a] = "prepared" /\ orders[a].status # "none"
      BY <2>1, <2>2 DEF OutboxInv, ClerksKnow, Knows, AtDoor
    <3>2. orders[a].status # "delivered" /\ orders[a].status # "dead"
      BY <3>1 DEF OutboxInv, DeedsTrue, SentOnce
    <3>3. said' = [said EXCEPT ![a] = 1]
      BY <2>4, <3>1 DEF OutboxInv, Typed
    <3>. QED  BY <2>2, <3>1, <3>2, <3>3, OwnerIsServed DEF Owner!ActionsNext
  <2>. QED  BY <2>2, <2>3, <2>4
<1>. QED  BY <1>2, <1>3, <1>4, <1>5, <1>6 DEF ClerkStep

LEMMA OrdersPromise ==
    ASSUME OutboxInv, OutboxInv', Staffed, [FranchiseNext]_franchiseVars
    PROVE  [Owner!ActionsNext]_(Owner!actionVars)
<1>1. CASE UNCHANGED franchiseVars \/ LoseFranchise
  BY <1>1 DEF franchiseVars, LoseFranchise, Owner!actionVars, Told, Channel
<1>2. ASSUME NEW a \in Orders, EnqueueFranchise(a) \/ BuryOrder(a) \/ OrderLapses(a)
      PROVE  Owner!ActionsNext
  <2>1. said' = said /\ orders[a].status \in {"none", "pending", "running"}
    BY <1>2 DEF EnqueueFranchise, BuryOrder, OrderLapses, Takeable
  <2>2. \A b \in Orders \ {a} : orders'[b] = orders[b]
    BY <1>2 DEF EnqueueFranchise, BuryOrder, OrderLapses, OutboxInv, Typed
  <2>3. CASE EnqueueFranchise(a)
    <3>1. orders[a].status = "none" /\ orders'[a].status = "pending"
      BY <2>3 DEF EnqueueFranchise, OutboxInv, Typed, OrderRows
    <3>. QED  BY <2>1, <2>2, <3>1, OwnerIsTold DEF Owner!ActionsNext
  <2>4. CASE BuryOrder(a) \/ OrderLapses(a)
    <3>1. orders[a].status \in {"pending", "running"} /\ orders'[a].status # "none"
      BY <2>4 DEF BuryOrder, OrderLapses, Takeable, OutboxInv, Typed, OrderRows
    <3>. QED  BY <2>1, <2>2, <3>1, OwnerIsTold DEF Owner!ActionsNext
  <2>. QED  BY <1>2, <2>3, <2>4
<1>3. ASSUME NEW a \in Orders, UtteredLate(a)
      PROVE  Owner!ActionsNext
  <2>1. Channel(a) /\ said[a] = 0 /\ receipts[a] \notin {"none", "accepted", "rejected"}
    BY <1>3 DEF UtteredLate, OutboxInv, DeedsTrue, SentOnce, ServedOnce
  <2>2. orders[a].status \notin {"none", "delivered", "dead"}
    BY <2>1 DEF OutboxInv, DeedsTrue, SentOnce
  <2>3. said' = [said EXCEPT ![a] = 1] /\ UNCHANGED orders
    BY <1>3, <2>1 DEF UtteredLate, OutboxInv, Typed
  <2>. QED  BY <2>1, <2>2, <2>3, OwnerIsServed DEF Owner!ActionsNext
<1>. QED  BY <1>1, <1>2, <1>3, ClerkPromises DEF FranchiseNext

(* A message or an action asked for of the league takes effect at most once, *)
(* is reported done only if it did, and a message is reported as failed only *)
(* if it was not sent and never will be (franchise/outbox.ts, the receipts   *)
(* of buzz/index.ts): the franchise outbox implements OwnerActions.          *)
THEOREM OrdersKeepPromise ==
    ASSUME Staffed
    PROVE  FranchiseInit /\ [][FranchiseNext]_franchiseVars => Owner!Promise
<1>1. FranchiseInit => OutboxInv /\ Owner!ActionsInit
  BY FranchiseStarts, OwnerAsks
<1>2. OutboxInv /\ [FranchiseNext]_franchiseVars => OutboxInv'
  BY FranchiseKeeps
<1>3. OutboxInv /\ OutboxInv' /\ [FranchiseNext]_franchiseVars => [Owner!ActionsNext]_(Owner!actionVars)
  BY OrdersPromise
<1>. QED  BY <1>1, <1>2, <1>3, PTL DEF Owner!Promise

-----------------------------------------------------------------------------
(* The wallet that services and turns share.                                 *)

\* What is reserved, invoiced and budgeted is counted in units.
Counted == Budget \in Nat /\ Amounts \subseteq Nat

Services == [status : {"none", "reserved", "uncertain", "settled", "cancelled"},
             reserved : Nat, actual : Nat, invoice : Invoices \cup {"none"}]

BooksTyped ==
    /\ requests \in [Requests -> [status : {"none", "requested", "approved", "declined"}, limit : Nat]]
    /\ expenses \in [Requests -> Services]
    /\ wallet \in [spent : Nat, reserved : Nat, enabled : BOOLEAN]
    /\ turns \in [hold : Nat, paid : Nat, count : Nat]
    /\ overruns \in Nat

\* Only what is settled was charged, and the units of both sums can be counted.
BooksInv ==
    /\ BooksTyped /\ WalletAgrees
    /\ \A r \in Requests : expenses[r].status # "settled" => expenses[r].actual = 0
    /\ IsFiniteSet(Units(HeldBack)) /\ IsFiniteSet(Units(Invoiced))

LEMMA UnitsCounted ==
    ASSUME NEW r, NEW cost \in Nat
    PROVE  IsFiniteSet({r} \X (1..cost)) /\ Cardinality({r} \X (1..cost)) = cost
<1>. DEFINE R == {r}
            C == 1..cost
<1>1. IsFiniteSet(R) /\ Cardinality(R) = 1
  BY FS_Singleton
<1>2. IsFiniteSet(C) /\ Cardinality(C) = cost
  BY FS_Interval
<1>. HIDE DEF R, C
<1>3. IsFiniteSet(R \X C) /\ Cardinality(R \X C) = 1 * cost
  BY <1>1, <1>2, FS_Product
<1>4. IsFiniteSet(R \X C) /\ Cardinality(R \X C) = cost
  BY <1>3
<1>. QED  BY <1>4 DEF R, C

\* A set that is apart from the units of one cost.
LEMMA UnitsAdded ==
    ASSUME NEW P, NEW U, IsFiniteSet(P), IsFiniteSet(U), P \cap U = {}
    PROVE  /\ IsFiniteSet(P \cup U)
           /\ Cardinality(P \cup U) = Cardinality(P) + Cardinality(U)
           /\ Cardinality(P) \in Nat
<1>1. Cardinality(P) \in Nat /\ Cardinality(U) \in Nat /\ Cardinality({}) = 0
  BY FS_CardinalityType, FS_EmptySet
<1>2. IsFiniteSet(P \cup U) /\ Cardinality(P \cup U) = Cardinality(P) + Cardinality(U) - Cardinality(P \cap U)
  BY FS_Union
<1>3. Cardinality(P \cap U) = 0
  BY <1>1
<1>. QED  BY <1>1, <1>2, <1>3

LEMMA UnitsWithout ==
    ASSUME NEW f, NEW r \in DOMAIN f
    PROVE  LET U == {r} \X (1..f[r])
               P == UNION {{q} \X (1..f[q]) : q \in DOMAIN f \ {r}}
           IN  Units(f) = P \cup U /\ P \cap U = {}
<1>. DEFINE U == {r} \X (1..f[r])
            P == UNION {{q} \X (1..f[q]) : q \in DOMAIN f \ {r}}
<1>1. Units(f) = P \cup U
  BY DEF Units
<1>2. ASSUME NEW u \in P, u \in U
      PROVE  FALSE
  <2>1. PICK q \in DOMAIN f \ {r} : u \in {q} \X (1..f[q])
    OBVIOUS
  <2>2. u[1] = q
    BY <2>1
  <2>3. u[1] = r
    BY <1>2
  <2>. QED  BY <2>1, <2>2, <2>3
<1>3. P \cap U = {}
  BY <1>2
<1>. QED  BY <1>1, <1>3

\* When one cost changes, the sum changes by it.
LEMMA TotalMoves ==
    ASSUME NEW S, NEW f \in [S -> Nat], NEW g \in [S -> Nat], NEW r \in S,
           \A q \in S \ {r} : g[q] = f[q], IsFiniteSet(Units(f))
    PROVE  /\ IsFiniteSet(Units(g)) /\ Total(f) \in Nat
           /\ f[r] <= Total(f) /\ Total(g) = Total(f) - f[r] + g[r]
<1>. DEFINE P == UNION {{q} \X (1..f[q]) : q \in S \ {r}}
            U == {r} \X (1..f[r])
            V == {r} \X (1..g[r])
<1>1. Units(f) = P \cup U /\ P \cap U = {}
  <2>1. DOMAIN f = S
    OBVIOUS
  <2>. QED  BY <2>1, UnitsWithout
<1>2. Units(g) = P \cup V /\ P \cap V = {}
  <2>1. DOMAIN g = S /\ P = UNION {{q} \X (1..g[q]) : q \in S \ {r}}
    OBVIOUS
  <2>. QED  BY <2>1, UnitsWithout
<1>3. /\ IsFiniteSet(U) /\ Cardinality(U) = f[r] /\ f[r] \in Nat
      /\ IsFiniteSet(V) /\ Cardinality(V) = g[r] /\ g[r] \in Nat
  BY UnitsCounted
<1>. HIDE DEF P, U, V
<1>4. IsFiniteSet(P)
  <2>1. P \in SUBSET Units(f)
    BY <1>1
  <2>. QED  BY <2>1, FS_Subset
<1>5. Cardinality(P \cup U) = Cardinality(P) + f[r] /\ Cardinality(P) \in Nat
  BY <1>1, <1>3, <1>4, UnitsAdded
<1>6. IsFiniteSet(P \cup V) /\ Cardinality(P \cup V) = Cardinality(P) + g[r]
  BY <1>2, <1>3, <1>4, UnitsAdded
<1>7. Total(f) = Cardinality(P) + f[r] /\ Total(g) = Cardinality(P) + g[r] /\ IsFiniteSet(Units(g))
  BY <1>1, <1>2, <1>5, <1>6 DEF Total
<1>. QED  BY <1>3, <1>5, <1>7

LEMMA BooksCounted ==
    ASSUME BooksInv
    PROVE  /\ HeldBack \in [Requests -> Nat] /\ Invoiced \in [Requests -> Nat]
           /\ Total(HeldBack) \in Nat /\ Total(Invoiced) \in Nat
<1>1. HeldBack \in [Requests -> Nat] /\ Invoiced \in [Requests -> Nat]
  BY DEF BooksInv, BooksTyped, Services, HeldBack, Invoiced
<1>. QED  BY <1>1, FS_CardinalityType DEF BooksInv, Total

LEMMA BooksInit ==
    ASSUME Counted, ExpensesInit
    PROVE  BooksInv
<1>1. BooksTyped /\ \A r \in Requests : expenses[r].status # "settled" => expenses[r].actual = 0
  BY DEF ExpensesInit, BooksTyped, NoExpense, Services
<1>2. ASSUME NEW f \in [Requests -> {0}]
      PROVE  Units(f) = {}
  <2>1. \A r \in DOMAIN f : 1..f[r] = {}
    OBVIOUS
  <2>. QED  BY <2>1 DEF Units
<1>3. HeldBack \in [Requests -> {0}] /\ Invoiced \in [Requests -> {0}]
  BY DEF ExpensesInit, NoExpense, HeldBack, Invoiced, Unsettled
<1>4. Units(HeldBack) = {} /\ Units(Invoiced) = {}
  BY <1>2, <1>3
<1>5. IsFiniteSet({}) /\ Cardinality({}) = 0
  BY FS_EmptySet
<1>6. Total(HeldBack) = 0 /\ Total(Invoiced) = 0
  BY <1>4, <1>5 DEF Total
<1>7. WalletAgrees
  BY <1>6 DEF WalletAgrees, ExpensesInit, Counted
<1>. QED  BY <1>1, <1>4, <1>5, <1>7 DEF BooksInv

\* One service changes its row, and the wallet and the turns follow.
BookedAs(r, status, reserved, actual) ==
    /\ expenses' \in [Requests -> Services]
    /\ \A q \in Requests \ {r} : expenses'[q] = expenses[q]
    /\ expenses'[r].status = status /\ expenses'[r].reserved = reserved /\ expenses'[r].actual = actual

LEMMA ServiceMoves ==
    ASSUME BooksInv, NEW r \in Requests, NEW status, NEW reserved, NEW actual,
           BookedAs(r, status, reserved, actual), status # "settled" => actual = 0
    PROVE  LET before == IF expenses[r].status \in Unsettled THEN expenses[r].reserved ELSE 0
               after == IF status \in Unsettled THEN reserved ELSE 0
           IN  /\ IsFiniteSet(Units(HeldBack)') /\ IsFiniteSet(Units(Invoiced)')
               /\ before <= Total(HeldBack) /\ expenses[r].actual <= Total(Invoiced)
               /\ Total(HeldBack)' = Total(HeldBack) - before + after
               /\ Total(Invoiced)' = Total(Invoiced) - expenses[r].actual + actual
               /\ \A q \in Requests : expenses'[q].status # "settled" => expenses'[q].actual = 0
<1>1. HeldBack \in [Requests -> Nat] /\ Invoiced \in [Requests -> Nat]
  BY BooksCounted
<1>2. HeldBack' \in [Requests -> Nat] /\ Invoiced' \in [Requests -> Nat]
  BY DEF BookedAs, Services, HeldBack, Invoiced
<1>3. (\A q \in Requests \ {r} : HeldBack'[q] = HeldBack[q]) /\ \A q \in Requests \ {r} : Invoiced'[q] = Invoiced[q]
  BY DEF BookedAs, HeldBack, Invoiced
<1>4. /\ HeldBack[r] = IF expenses[r].status \in Unsettled THEN expenses[r].reserved ELSE 0
      /\ Invoiced[r] = expenses[r].actual
  BY DEF HeldBack, Invoiced
<1>5. /\ HeldBack'[r] = IF status \in Unsettled THEN reserved ELSE 0
      /\ Invoiced'[r] = actual
  BY DEF BookedAs, HeldBack, Invoiced
<1>6. /\ IsFiniteSet(Units(HeldBack)') /\ HeldBack[r] <= Total(HeldBack)
      /\ Total(HeldBack)' = Total(HeldBack) - HeldBack[r] + HeldBack'[r]
  <2>1. PICK f : f = HeldBack'
    OBVIOUS
  <2>2. Units(f) = Units(HeldBack)' /\ Total(f) = Total(HeldBack)'
    BY <2>1 DEF Total, Units
  <2>. QED  BY <1>1, <1>2, <1>3, <2>1, <2>2, TotalMoves DEF BooksInv
<1>7. /\ IsFiniteSet(Units(Invoiced)') /\ Invoiced[r] <= Total(Invoiced)
      /\ Total(Invoiced)' = Total(Invoiced) - Invoiced[r] + Invoiced'[r]
  <2>1. PICK f : f = Invoiced'
    OBVIOUS
  <2>2. Units(f) = Units(Invoiced)' /\ Total(f) = Total(Invoiced)'
    BY <2>1 DEF Total, Units
  <2>. QED  BY <1>1, <1>2, <1>3, <2>1, <2>2, TotalMoves DEF BooksInv
<1>8. ASSUME NEW q \in Requests
      PROVE  expenses'[q].status # "settled" => expenses'[q].actual = 0
  BY DEF BookedAs, BooksInv
<1>. QED  BY <1>4, <1>5, <1>6, <1>7, <1>8

LEMMA ServicesStill ==
    ASSUME BooksInv, expenses' = expenses
    PROVE  /\ Total(HeldBack)' = Total(HeldBack) /\ Total(Invoiced)' = Total(Invoiced)
           /\ IsFiniteSet(Units(HeldBack)') /\ IsFiniteSet(Units(Invoiced)')
<1>1. HeldBack' = HeldBack /\ Invoiced' = Invoiced
  BY DEF HeldBack, Invoiced
<1>2. Units(HeldBack)' = Units(HeldBack) /\ Units(Invoiced)' = Units(Invoiced)
  BY <1>1 DEF Units
<1>. QED  BY <1>2 DEF Total, BooksInv

LEMMA RequestBooks ==
    ASSUME Counted, BooksInv, NEW r \in Requests, RequestService(r) \/ ReviewService(r)
    PROVE  BooksInv'
<1>1. UNCHANGED <<expenses, wallet, turns, overruns>>
  BY DEF RequestService, ReviewService
<1>2. requests' \in [Requests -> [status : {"none", "requested", "approved", "declined"}, limit : Nat]]
  <2>1. CASE RequestService(r)
    <3>1. PICK limit \in Nat : requests' = [requests EXCEPT ![r] = [status |-> "requested", limit |-> limit]]
      BY <2>1 DEF RequestService, Counted
    <3>. QED  BY <3>1 DEF BooksInv, BooksTyped
  <2>2. CASE ReviewService(r)
    <3>1. PICK verdict \in {"approved", "declined"} : requests' = [requests EXCEPT ![r].status = verdict]
      BY <2>2 DEF ReviewService
    <3>. QED  BY <3>1 DEF BooksInv, BooksTyped
  <2>. QED  BY <2>1, <2>2
<1>. QED  BY <1>1, <1>2, ServicesStill DEF BooksInv, BooksTyped, WalletAgrees

LEMMA BeginBooks ==
    ASSUME Counted, BooksInv, NEW r \in Requests, NEW a \in Amounts, BeginExpense(r, a)
    PROVE  BooksInv'
<1>1. a \in Nat /\ expenses[r].status = "none" /\ expenses[r].actual = 0
  BY DEF Counted, BeginExpense, NoExpense
<1>2. BookedAs(r, "reserved", a, 0)
  <2>1. PICK row : row = [NoExpense EXCEPT !.status = "reserved", !.reserved = a]
    OBVIOUS
  <2>2. row \in Services /\ row.status = "reserved" /\ row.reserved = a /\ row.actual = 0
    BY <1>1, <2>1 DEF NoExpense, Services
  <2>3. expenses' = [expenses EXCEPT ![r] = row]
    BY <2>1 DEF BeginExpense
  <2>. QED  BY <2>2, <2>3 DEF BooksInv, BooksTyped, BookedAs
<1>3. /\ IsFiniteSet(Units(HeldBack)') /\ IsFiniteSet(Units(Invoiced)')
      /\ Total(HeldBack)' = Total(HeldBack) + a /\ Total(Invoiced)' = Total(Invoiced)
      /\ \A q \in Requests : expenses'[q].status # "settled" => expenses'[q].actual = 0
  BY <1>1, <1>2, BooksCounted, ServiceMoves DEF Unsettled
<1>4. /\ wallet'.spent = wallet.spent /\ wallet'.reserved = wallet.reserved + a
      /\ wallet' \in [spent : Nat, reserved : Nat, enabled : BOOLEAN]
  BY <1>1 DEF BeginExpense, BooksInv, BooksTyped
<1>5. wallet.spent + wallet.reserved + a <= Budget
  BY <1>1 DEF BeginExpense, Available, Counted, BooksInv, BooksTyped
<1>6. UNCHANGED <<requests, turns, overruns>>
  BY DEF BeginExpense
<1>7. WalletAgrees'
  <2>1. /\ wallet.reserved = turns.hold + Total(HeldBack)
        /\ wallet.spent = turns.paid + Total(Invoiced)
        /\ turns.hold \in Nat /\ turns.paid \in Nat /\ wallet.spent \in Nat /\ overruns \in Nat
    BY DEF BooksInv, BooksTyped, WalletAgrees
  <2>2. wallet'.reserved = turns.hold + Total(HeldBack)'
    BY <1>1, <1>3, <1>4, <2>1, BooksCounted
  <2>3. wallet'.spent + wallet'.reserved <= Budget + overruns
    BY <1>1, <1>4, <1>5, <2>1, BooksCounted DEF Counted
  <2>. QED  BY <1>3, <1>4, <1>6, <2>1, <2>2, <2>3 DEF WalletAgrees
<1>. QED  BY <1>2, <1>3, <1>4, <1>6, <1>7 DEF BookedAs, BooksInv, BooksTyped

LEMMA ChargedWallet ==
    ASSUME BooksTyped, NEW held \in Nat, NEW cost \in Nat, held <= wallet.reserved, wallet' = Charged(held, cost)
    PROVE  /\ wallet' \in [spent : Nat, reserved : Nat, enabled : BOOLEAN]
           /\ wallet'.spent = wallet.spent + cost /\ wallet'.reserved = wallet.reserved - held
           /\ Beyond(held, cost) \in Nat /\ cost <= held + Beyond(held, cost)
<1>1. Beyond(held, cost) \in Nat /\ cost <= held + Beyond(held, cost)
  BY DEF Beyond
<1>2. wallet.spent \in Nat /\ wallet.reserved \in Nat /\ wallet.enabled \in BOOLEAN
  BY DEF BooksTyped
<1>3. wallet.spent + cost \in Nat /\ wallet.reserved - held \in Nat
  BY <1>2
<1>4. (wallet.enabled /\ Beyond(held, cost) = 0) \in BOOLEAN
  OBVIOUS
<1>. QED  BY <1>1, <1>3, <1>4 DEF Charged

LEMMA SettleBooks ==
    ASSUME Counted, BooksInv, NEW r \in Requests, NEW a \in Amounts \cup {0}, NEW i \in Invoices, SettleExpense(r, a, i)
    PROVE  BooksInv'
<1>. DEFINE held == expenses[r].reserved
<1>1. a \in Nat /\ held \in Nat /\ expenses[r] \in Services
  BY DEF Counted, BooksInv, BooksTyped, Services
<1>2. expenses[r].status \in Unsettled /\ expenses[r].actual = 0 /\ held <= wallet.reserved
  BY <1>1 DEF SettleExpense, Existing, BooksInv, BooksTyped, Unsettled
<1>3. BookedAs(r, "settled", held, a)
  BY <1>1 DEF SettleExpense, BooksInv, BooksTyped, Services, BookedAs
<1>4. /\ IsFiniteSet(Units(HeldBack)') /\ IsFiniteSet(Units(Invoiced)')
      /\ held <= Total(HeldBack)
      /\ Total(HeldBack)' = Total(HeldBack) - held /\ Total(Invoiced)' = Total(Invoiced) + a
      /\ \A q \in Requests : expenses'[q].status # "settled" => expenses'[q].actual = 0
  BY <1>1, <1>2, <1>3, BooksCounted, ServiceMoves DEF Unsettled
<1>5. /\ wallet' \in [spent : Nat, reserved : Nat, enabled : BOOLEAN]
      /\ wallet'.spent = wallet.spent + a /\ wallet'.reserved = wallet.reserved - held
      /\ Beyond(held, a) \in Nat /\ a <= held + Beyond(held, a)
  BY <1>1, <1>2, ChargedWallet DEF SettleExpense, BooksInv
<1>6. overruns' = overruns + Beyond(held, a) /\ UNCHANGED <<requests, turns>>
  BY DEF SettleExpense
<1>7. WalletAgrees'
  <2>1. /\ wallet.reserved = turns.hold + Total(HeldBack)
        /\ wallet.spent = turns.paid + Total(Invoiced)
        /\ wallet.spent + wallet.reserved <= Budget + overruns
        /\ turns.hold \in Nat /\ turns.paid \in Nat
        /\ wallet.spent \in Nat /\ wallet.reserved \in Nat /\ overruns \in Nat
    BY DEF BooksInv, BooksTyped, WalletAgrees
  <2>2. wallet'.reserved = turns.hold + Total(HeldBack)' /\ wallet'.spent = turns.paid + Total(Invoiced)'
    BY <1>1, <1>4, <1>5, <2>1, BooksCounted
  <2>3. wallet'.spent + wallet'.reserved <= Budget + overruns'
    BY <1>1, <1>5, <1>6, <2>1 DEF Counted
  <2>. QED  BY <1>6, <2>2, <2>3 DEF WalletAgrees
<1>8. overruns' \in Nat
  BY <1>5, <1>6 DEF BooksInv, BooksTyped
<1>. QED  BY <1>3, <1>4, <1>5, <1>6, <1>7, <1>8 DEF BookedAs, BooksInv, BooksTyped

LEMMA DoubtBooks ==
    ASSUME Counted, BooksInv, NEW r \in Requests, MarkUncertain(r) \/ CancelExpense(r)
    PROVE  BooksInv'
<1>. DEFINE held == expenses[r].reserved
<1>1. held \in Nat /\ expenses[r] \in Services
  BY DEF BooksInv, BooksTyped, Services
<1>2. expenses[r].status \in Unsettled /\ expenses[r].actual = 0 /\ held <= wallet.reserved
  BY <1>1 DEF MarkUncertain, CancelExpense, Existing, BooksInv, BooksTyped, Unsettled
<1>3. UNCHANGED <<requests, turns, overruns>>
  BY DEF MarkUncertain, CancelExpense
<1>4. /\ wallet.reserved = turns.hold + Total(HeldBack)
      /\ wallet.spent = turns.paid + Total(Invoiced)
      /\ wallet.spent + wallet.reserved <= Budget + overruns
      /\ turns.hold \in Nat /\ turns.paid \in Nat
      /\ wallet.spent \in Nat /\ wallet.reserved \in Nat /\ overruns \in Nat
  BY DEF BooksInv, BooksTyped, WalletAgrees
<1>5. CASE MarkUncertain(r)
  <2>1. BookedAs(r, "uncertain", held, 0) /\ wallet' = wallet
    BY <1>1, <1>2, <1>5 DEF MarkUncertain, BooksInv, BooksTyped, Services, BookedAs
  <2>2. /\ IsFiniteSet(Units(HeldBack)') /\ IsFiniteSet(Units(Invoiced)')
        /\ Total(HeldBack)' = Total(HeldBack) /\ Total(Invoiced)' = Total(Invoiced)
        /\ \A q \in Requests : expenses'[q].status # "settled" => expenses'[q].actual = 0
    BY <1>1, <1>2, <2>1, BooksCounted, ServiceMoves DEF Unsettled
  <2>3. WalletAgrees'
    BY <1>3, <1>4, <2>1, <2>2 DEF WalletAgrees
  <2>. QED  BY <1>3, <2>1, <2>2, <2>3 DEF BookedAs, BooksInv, BooksTyped
<1>6. CASE CancelExpense(r)
  <2>1. BookedAs(r, "cancelled", held, 0)
    BY <1>1, <1>2, <1>6 DEF CancelExpense, BooksInv, BooksTyped, Services, BookedAs
  <2>2. /\ wallet'.spent = wallet.spent /\ wallet'.reserved = wallet.reserved - held
        /\ wallet' \in [spent : Nat, reserved : Nat, enabled : BOOLEAN]
    BY <1>1, <1>2, <1>6 DEF CancelExpense, BooksInv, BooksTyped
  <2>3. /\ IsFiniteSet(Units(HeldBack)') /\ IsFiniteSet(Units(Invoiced)')
        /\ Total(HeldBack)' = Total(HeldBack) - held /\ Total(Invoiced)' = Total(Invoiced)
        /\ \A q \in Requests : expenses'[q].status # "settled" => expenses'[q].actual = 0
    BY <1>1, <1>2, <2>1, BooksCounted, ServiceMoves DEF Unsettled
  <2>4. wallet'.reserved = turns.hold + Total(HeldBack)'
    BY <1>1, <1>4, <2>2, <2>3, BooksCounted
  <2>5. wallet'.spent + wallet'.reserved <= Budget + overruns
    BY <1>1, <1>2, <1>4, <2>2 DEF Counted
  <2>6. WalletAgrees'
    BY <1>3, <1>4, <2>2, <2>3, <2>4, <2>5 DEF WalletAgrees
  <2>. QED  BY <1>3, <2>1, <2>2, <2>3, <2>6 DEF BookedAs, BooksInv, BooksTyped
<1>. QED  BY <1>5, <1>6

LEMMA TurnRow ==
    ASSUME BooksTyped, NEW hold \in Nat, NEW paid \in Nat, NEW count \in Nat,
           turns' = [turns EXCEPT !.hold = hold, !.paid = paid, !.count = count]
    PROVE  turns' \in [hold : Nat, paid : Nat, count : Nat] /\ turns'.hold = hold /\ turns'.paid = paid
BY DEF BooksTyped

LEMMA TurnBooks ==
    ASSUME Counted, BooksInv, NEW a \in Amounts \cup {0}, (ReserveForTurn(a) /\ a \in Amounts) \/ SettleTurn(a) \/ Thaw
    PROVE  BooksInv'
<1>1. a \in Nat
  BY DEF Counted
<1>2. UNCHANGED <<requests, expenses>>
  BY DEF ReserveForTurn, SettleTurn, Thaw
<1>3. /\ wallet.reserved = turns.hold + Total(HeldBack)
      /\ wallet.spent = turns.paid + Total(Invoiced)
      /\ wallet.spent + wallet.reserved <= Budget + overruns
      /\ turns.hold \in Nat /\ turns.paid \in Nat /\ turns.count \in Nat
      /\ wallet.spent \in Nat /\ wallet.reserved \in Nat /\ overruns \in Nat
      /\ Total(HeldBack) \in Nat /\ Total(Invoiced) \in Nat
  BY BooksCounted DEF BooksInv, BooksTyped, WalletAgrees
<1>4. ASSUME wallet' \in [spent : Nat, reserved : Nat, enabled : BOOLEAN],
             turns' \in [hold : Nat, paid : Nat, count : Nat], overruns' \in Nat,
             wallet'.reserved = turns'.hold + Total(HeldBack), wallet'.spent = turns'.paid + Total(Invoiced),
             wallet'.spent + wallet'.reserved <= Budget + overruns'
      PROVE  BooksInv'
  <2>1. WalletAgrees'
    BY <1>2, <1>4, ServicesStill DEF WalletAgrees
  <2>. QED  BY <1>2, <1>4, <2>1, ServicesStill DEF BooksInv, BooksTyped
<1>5. CASE ReserveForTurn(a)
  <2>1. turns.hold = 0 /\ turns' = [turns EXCEPT !.hold = a, !.count = @ + 1] /\ overruns' = overruns
    BY <1>5 DEF ReserveForTurn
  <2>2. turns' \in [hold : Nat, paid : Nat, count : Nat] /\ turns'.hold = a /\ turns'.paid = turns.paid
    <3>1. PICK count \in Nat : count = turns.count + 1
      BY <1>3
    <3>2. PICK paid \in Nat : paid = turns.paid
      BY <1>3
    <3>3. turns' = [turns EXCEPT !.hold = a, !.paid = paid, !.count = count]
      BY <2>1, <3>1, <3>2 DEF BooksInv, BooksTyped
    <3>4. BooksTyped
      BY DEF BooksInv
    <3>. QED  BY <1>1, <3>2, <3>3, <3>4, TurnRow
  <2>3. /\ wallet' \in [spent : Nat, reserved : Nat, enabled : BOOLEAN]
        /\ wallet'.reserved = wallet.reserved + a /\ wallet'.spent = wallet.spent
    BY <1>1, <1>5 DEF ReserveForTurn, BooksInv, BooksTyped
  <2>4. wallet.spent + wallet.reserved + a <= Budget
    BY <1>1, <1>3, <1>5 DEF ReserveForTurn, Available, Counted
  <2>5. wallet'.reserved = turns'.hold + Total(HeldBack) /\ wallet'.spent = turns'.paid + Total(Invoiced)
    BY <1>1, <1>3, <2>1, <2>2, <2>3
  <2>6. wallet'.spent + wallet'.reserved <= Budget + overruns'
    BY <1>1, <1>3, <2>1, <2>3, <2>4 DEF Counted
  <2>. QED  BY <1>3, <1>4, <2>1, <2>2, <2>3, <2>5, <2>6
<1>6. CASE SettleTurn(a)
  <2>1. /\ turns' = [turns EXCEPT !.hold = 0, !.paid = @ + a]
        /\ overruns' = overruns + Beyond(turns.hold, a) /\ wallet' = Charged(turns.hold, a)
    BY <1>6 DEF SettleTurn
  <2>2. turns' \in [hold : Nat, paid : Nat, count : Nat] /\ turns'.hold = 0 /\ turns'.paid = turns.paid + a
    <3>1. PICK paid \in Nat : paid = turns.paid + a
      BY <1>1, <1>3
    <3>2. PICK count \in Nat : count = turns.count
      BY <1>3
    <3>3. turns' = [turns EXCEPT !.hold = 0, !.paid = paid, !.count = count]
      BY <2>1, <3>1, <3>2 DEF BooksInv, BooksTyped
    <3>4. BooksTyped
      BY DEF BooksInv
    <3>. QED  BY <3>1, <3>3, <3>4, TurnRow
  <2>3. turns.hold <= wallet.reserved
    BY <1>3
  <2>4. /\ wallet' \in [spent : Nat, reserved : Nat, enabled : BOOLEAN]
        /\ wallet'.spent = wallet.spent + a /\ wallet'.reserved = wallet.reserved - turns.hold
        /\ Beyond(turns.hold, a) \in Nat /\ a <= turns.hold + Beyond(turns.hold, a)
    BY <1>1, <1>3, <2>1, <2>3, ChargedWallet DEF BooksInv
  <2>5. wallet'.reserved = turns'.hold + Total(HeldBack) /\ wallet'.spent = turns'.paid + Total(Invoiced)
    BY <1>1, <1>3, <2>2, <2>4
  <2>6. wallet'.spent + wallet'.reserved <= Budget + overruns' /\ overruns' \in Nat
    BY <1>1, <1>3, <2>1, <2>4 DEF Counted
  <2>. QED  BY <1>4, <2>2, <2>4, <2>5, <2>6
<1>7. CASE Thaw
  <2>1. /\ wallet' \in [spent : Nat, reserved : Nat, enabled : BOOLEAN]
        /\ wallet'.spent = wallet.spent /\ wallet'.reserved = wallet.reserved /\ UNCHANGED <<turns, overruns>>
    BY <1>7 DEF Thaw, BooksInv, BooksTyped
  <2>2. turns' \in [hold : Nat, paid : Nat, count : Nat]
    BY <2>1 DEF BooksInv, BooksTyped
  <2>. QED  BY <1>3, <1>4, <2>1, <2>2
<1>. QED  BY <1>5, <1>6, <1>7

(* What the wallet holds back and has spent is what both its users booked,   *)
(* and goes beyond the budget only by what came in above its reservation     *)
(* (franchise/expenses.ts settle and begin, with the turns of the runtime).  *)
THEOREM WalletSharedRight ==
    ASSUME Counted
    PROVE  ExpensesInit /\ [][ExpensesNext]_expenseVars => []WalletAgrees
<1>1. ExpensesInit => BooksInv
  BY BooksInit
<1>2. BooksInv /\ [ExpensesNext]_expenseVars => BooksInv'
  <2>1. ASSUME BooksInv, ExpensesNext
        PROVE  BooksInv'
    <3>1. Thaw => BooksInv'
      <4>1. 0 \in Amounts \cup {0}
        OBVIOUS
      <4>. QED  BY <2>1, <4>1, TurnBooks
    <3>. QED  BY <2>1, <3>1, RequestBooks, BeginBooks, SettleBooks, DoubtBooks, TurnBooks DEF ExpensesNext
  <2>2. ASSUME BooksInv, UNCHANGED expenseVars
        PROVE  BooksInv'
    <3>1. UNCHANGED <<requests, expenses, wallet, turns, overruns>>
      BY <2>2 DEF expenseVars
    <3>. QED  BY <2>2, <3>1, ServicesStill DEF BooksInv, BooksTyped, WalletAgrees
  <2>. QED  BY <2>1, <2>2
<1>3. BooksInv => WalletAgrees
  BY DEF BooksInv
<1>. QED  BY <1>1, <1>2, <1>3, PTL

-----------------------------------------------------------------------------
(* Conversations: a session is only talk, and within its allowance.        *)

Allowances == Talks \in Nat /\ Sessions \in Nat /\ TurnsEach \in Nat /\ SpendEach \in Nat /\ TalkHold \in Nat

TalkTyped ==
    /\ session \in [id : 0..Sessions, active : BOOLEAN, live : BOOLEAN, pinned : BOOLEAN]
    /\ talks \in [AllTalks -> [status : {"none", "pending", "unheard", "running", "completed", "dead"},
                               session : 0..Sessions]]
    /\ charges \in [AllTalks -> [status : {"none", "reserved", "settled", "uncertain"}, hold : Nat]]
    /\ asked \in [AllTalks -> [status : {"none", "pending", "running", "checked", "held", "dead", "delivered"},
                               kind : {"say", "play"}]]
    /\ excess \in [0..Sessions -> Nat]
    /\ session.active => session.id # 0

\* A job that has had no turn cost nothing and asked for nothing, its session is that of its
\* arrival; and between the second look and the act no session opens or closes.
TalkSound(j) ==
    /\ talks[j].status \in {"none", "pending", "unheard"} => charges[j].status = "none"
    /\ talks[j].status = "none" => talks[j].session = 0
    /\ charges[j].status = "none" => charges[j].hold = 0
    /\ charges[j].status = "reserved" => charges[j].hold = TalkHold
    /\ talks[j].status # "completed" => asked[j].status = "none"
    /\ asked[j].status = "none" => asked[j].kind = "say"
    /\ Spoken(j) => asked[j].kind = "say"
    /\ asked[j].status = "checked" => talks[j].session = Now

TalkCounted(s) ==
    /\ IsFiniteSet(Units(Bills(s)))
    /\ TurnsIn(s) <= TurnsEach /\ SpentIn(s) <= SpendEach + excess[s]

Heard == \A u \in uttered :
    /\ u.job \in AllTalks /\ talks[u.job].status # "none"
    /\ talks[u.job].session = u.during
    /\ u.during # 0 => u.kind = "say"

TalkInv ==
    /\ TalkTyped /\ Heard
    /\ \A j \in AllTalks : TalkSound(j)
    /\ \A s \in 1..Sessions : TalkCounted(s)

\* Nothing was billed to another session than before.
LEMMA BillsStay ==
    ASSUME TalkTyped, TalkTyped', UNCHANGED <<charges, excess>>,
           \A j \in AllTalks : talks'[j].session = talks[j].session
                               \/ (charges[j].status = "none" /\ charges[j].hold = 0),
           NEW s \in 1..Sessions, TalkCounted(s)
    PROVE  TalkCounted(s)'
<1>1. {j \in AllTalks : talks'[j].session = s /\ charges'[j].status # "none"}
         = {j \in AllTalks : talks[j].session = s /\ charges[j].status # "none"}
  OBVIOUS
<1>2. \A j \in AllTalks : (IF talks'[j].session = s THEN charges'[j].hold ELSE 0)
                            = (IF talks[j].session = s THEN charges[j].hold ELSE 0)
  OBVIOUS
<1>3. Bills(s)' = Bills(s)
  <2>1. Bills(s)' = [j \in AllTalks |-> IF talks'[j].session = s THEN charges'[j].hold ELSE 0]
    BY DEF Bills, AllTalks
  <2>. QED  BY <1>2, <2>1 DEF Bills
<1>4. Units(Bills(s))' = Units(Bills(s)) /\ SpentIn(s)' = SpentIn(s)
  <2>1. PICK f : f = Bills(s)'
    OBVIOUS
  <2>2. Units(f) = Units(Bills(s))' /\ Total(f) = SpentIn(s)'
    BY <2>1 DEF Total, Units, SpentIn
  <2>. QED  BY <1>3, <2>1, <2>2 DEF SpentIn
<1>5. TurnsIn(s)' = TurnsIn(s)
  BY <1>1 DEF TurnsIn, AllTalks
<1>. QED  BY <1>4, <1>5 DEF TalkCounted

\* A turn of j is booked: the session of j pays for it, and no other.
LEMMA BillsMove ==
    ASSUME TalkTyped, TalkTyped', NEW j \in AllTalks,
           \A i \in AllTalks : talks'[i].session = talks[i].session,
           \A i \in AllTalks \ {j} : charges'[i] = charges[i],
           NEW s \in 1..Sessions, IsFiniteSet(Units(Bills(s)))
    PROVE  /\ IsFiniteSet(Units(Bills(s)))' /\ SpentIn(s) \in Nat
           /\ talks[j].session # s => SpentIn(s)' = SpentIn(s)
           /\ talks[j].session = s => SpentIn(s)' = SpentIn(s) - charges[j].hold + charges'[j].hold
<1>1. PICK g : g = Bills(s)'
  OBVIOUS
<1>2. Units(g) = Units(Bills(s))' /\ Total(g) = SpentIn(s)'
  BY <1>1 DEF Total, Units, SpentIn
<1>3. g = [i \in AllTalks |-> IF talks'[i].session = s THEN charges'[i].hold ELSE 0]
  BY <1>1 DEF Bills, AllTalks
<1>4. \A i \in AllTalks : charges[i].hold \in Nat /\ charges'[i].hold \in Nat
  BY DEF TalkTyped, AllTalks
<1>5. Bills(s) \in [AllTalks -> Nat] /\ g \in [AllTalks -> Nat]
  BY <1>3, <1>4 DEF Bills
<1>6. \A i \in AllTalks \ {j} : g[i] = Bills(s)[i]
  BY <1>3 DEF Bills
<1>7. /\ IsFiniteSet(Units(g)) /\ Total(Bills(s)) \in Nat
      /\ Total(g) = Total(Bills(s)) - Bills(s)[j] + g[j]
  BY <1>5, <1>6, TotalMoves
<1>8. /\ talks[j].session # s => g[j] = 0 /\ Bills(s)[j] = 0
      /\ talks[j].session = s => g[j] = charges'[j].hold /\ Bills(s)[j] = charges[j].hold
  BY <1>3 DEF Bills
<1>. QED  BY <1>2, <1>4, <1>7, <1>8 DEF SpentIn

LEMMA TalksAreFinite ==
    ASSUME Allowances
    PROVE  IsFiniteSet(AllTalks)
BY FS_Interval DEF AllTalks, Allowances

LEMMA TurnsCounted ==
    ASSUME Allowances, NEW s
    PROVE  TurnsIn(s) \in Nat
<1>. DEFINE T == {j \in AllTalks : talks[j].session = s /\ charges[j].status # "none"}
<1>1. IsFiniteSet(AllTalks) /\ T \in SUBSET AllTalks
  BY TalksAreFinite
<1>. HIDE DEF T
<1>2. Cardinality(T) \in Nat
  BY <1>1, FS_Subset, FS_CardinalityType
<1>. QED  BY <1>2 DEF T, TurnsIn

\* The turns of a session are as many as before, but for a first turn of j.
LEMMA TurnsMove ==
    ASSUME Allowances, NEW j \in AllTalks,
           \A i \in AllTalks : talks'[i].session = talks[i].session,
           \A i \in AllTalks \ {j} : charges'[i] = charges[i], charges'[j].status # "none",
           NEW s \in 1..Sessions
    PROVE  /\ TurnsIn(s) \in Nat
           /\ charges[j].status # "none" \/ talks[j].session # s => TurnsIn(s)' = TurnsIn(s)
           /\ charges[j].status = "none" /\ talks[j].session = s => TurnsIn(s)' = TurnsIn(s) + 1
<1>. DEFINE T == {i \in AllTalks : talks[i].session = s /\ charges[i].status # "none"}
            U == {i \in AllTalks : talks'[i].session = s /\ charges'[i].status # "none"}
<1>1. IsFiniteSet(AllTalks)
  BY TalksAreFinite
<1>2. T \in SUBSET AllTalks
  OBVIOUS
<1>3. IsFiniteSet(T) /\ Cardinality(T) \in Nat
  <2>. HIDE DEF T
  <2>. QED  BY <1>1, <1>2, FS_Subset, FS_CardinalityType
<1>4. TurnsIn(s) = Cardinality(T) /\ TurnsIn(s)' = Cardinality(U)
  BY DEF TurnsIn, AllTalks
<1>5. charges[j].status # "none" \/ talks[j].session # s => U = T
  OBVIOUS
<1>6. ASSUME charges[j].status = "none", talks[j].session = s
      PROVE  Cardinality(U) = Cardinality(T) + 1
  <2>1. U = T \cup {j} /\ j \notin T
    BY <1>6
  <2>. HIDE DEF T, U
  <2>. QED  BY <1>3, <2>1, FS_AddElement
<1>. QED  BY <1>3, <1>4, <1>5, <1>6

\* The job j is told from the others.
TalkGoes(j) ==
    /\ \A i \in AllTalks \ {j} : talks'[i] = talks[i] /\ charges'[i] = charges[i] /\ asked'[i] = asked[i]
    /\ UNCHANGED <<session, uttered>>

LEMMA OthersSound ==
    ASSUME NEW j \in AllTalks, TalkGoes(j), \A i \in AllTalks : TalkSound(i), TalkSound(j)'
    PROVE  \A i \in AllTalks : TalkSound(i)'
<1>1. ASSUME NEW i \in AllTalks \ {j}
      PROVE  TalkSound(i)'
  BY <1>1 DEF TalkGoes, TalkSound, Spoken, Now
<1>. QED  BY <1>1

LEMMA HeardStays ==
    ASSUME Heard, UNCHANGED uttered,
           \A i \in AllTalks : talks[i].status # "none" => talks'[i].status # "none" /\ talks'[i].session = talks[i].session
    PROVE  Heard'
BY DEF Heard, AllTalks

LEMMA ArriveTalk ==
    ASSUME Allowances, TalkInv, NEW j \in AllTalks, Arrive(j)
    PROVE  TalkInv'
<1>1. talks[j].status = "none" /\ TalkSound(j)
  BY DEF Arrive, TalkInv
<1>2. PICK status \in {"pending", "unheard"}, s \in 0..Sessions : talks' = [talks EXCEPT ![j] = [status |-> status, session |-> s]]
  <2>1. talks[j] = [status |-> "none", session |-> 0]
    BY <1>1 DEF TalkInv, TalkTyped, TalkSound
  <2>2. 0 \in 0..Sessions /\ Now \in 0..Sessions
    BY DEF Allowances, TalkInv, TalkTyped, Now
  <2>3. [talks EXCEPT ![j].status = "pending"] = [talks EXCEPT ![j] = [status |-> "pending", session |-> 0]]
    <3>1. [talks[j] EXCEPT !.status = "pending"] = [status |-> "pending", session |-> 0]
      BY <2>1
    <3>. QED  BY <3>1
  <2>4. [talks EXCEPT ![j].status = "unheard"] = [talks EXCEPT ![j] = [status |-> "unheard", session |-> 0]]
    <3>1. [talks[j] EXCEPT !.status = "unheard"] = [status |-> "unheard", session |-> 0]
      BY <2>1
    <3>. QED  BY <3>1
  <2>. QED  BY <2>2, <2>3, <2>4 DEF Arrive
<1>3. /\ talks'[j].status = status /\ talks'[j].session = s
      /\ \A i \in AllTalks \ {j} : talks'[i] = talks[i]
      /\ UNCHANGED <<session, charges, asked, uttered, excess>>
  BY <1>2 DEF Arrive, TalkInv, TalkTyped
<1>4. TalkTyped'
  BY <1>2, <1>3 DEF TalkInv, TalkTyped, AllTalks
<1>5. TalkSound(j)'
  BY <1>1, <1>3 DEF TalkSound, Spoken, Now
<1>6. \A i \in AllTalks : TalkSound(i)'
  BY <1>3, <1>5, OthersSound DEF TalkGoes, TalkInv
<1>7. Heard'
  BY <1>1, <1>3, HeardStays DEF TalkInv
<1>8. \A i \in 1..Sessions : TalkCounted(i)'
  BY <1>1, <1>3, <1>4, BillsStay DEF TalkInv, TalkSound
<1>. QED  BY <1>4, <1>6, <1>7, <1>8 DEF TalkInv, AllTalks

LEMMA ClaimKeepsTalk ==
    ASSUME Allowances, TalkInv, NEW j \in AllTalks, ClaimTalk(j)
    PROVE  TalkInv'
<1>1. talks[j].status = "pending" /\ TalkSound(j)
  BY DEF ClaimTalk, TalkInv
<1>2. /\ talks'[j].status = "running" /\ talks'[j].session = talks[j].session
      /\ \A i \in AllTalks \ {j} : talks'[i] = talks[i]
      /\ UNCHANGED <<session, charges, asked, uttered, excess>>
  BY DEF ClaimTalk, TalkInv, TalkTyped
<1>3. TalkTyped'
  BY <1>2 DEF ClaimTalk, TalkInv, TalkTyped, AllTalks
<1>4. TalkSound(j)'
  BY <1>1, <1>2 DEF TalkSound, Spoken, Now
<1>5. \A i \in AllTalks : TalkSound(i)'
  BY <1>2, <1>4, OthersSound DEF TalkGoes, TalkInv
<1>6. Heard'
  BY <1>2, HeardStays DEF TalkInv
<1>7. \A s \in 1..Sessions : TalkCounted(s)'
  BY <1>2, <1>3, BillsStay DEF TalkInv
<1>. QED  BY <1>3, <1>5, <1>6, <1>7 DEF TalkInv, AllTalks

LEMMA ReserveKeepsTalk ==
    ASSUME Allowances, TalkInv, NEW j \in AllTalks, ReserveTalk(j)
    PROVE  TalkInv'
<1>1. talks[j].status = "running" /\ charges[j].status = "none" /\ TalkSound(j)
  BY DEF ReserveTalk, RunningTalks, TalkInv
<1>2. /\ charges'[j].status = "reserved" /\ charges'[j].hold = TalkHold
      /\ \A i \in AllTalks \ {j} : charges'[i] = charges[i]
      /\ UNCHANGED <<session, talks, asked, uttered, excess>>
  BY DEF ReserveTalk, TalkInv, TalkTyped
<1>3. TalkTyped'
  BY <1>2 DEF ReserveTalk, TalkInv, TalkTyped, AllTalks, Allowances
<1>4. TalkSound(j)'
  BY <1>1, <1>2 DEF TalkSound, Spoken, Now
<1>5. \A i \in AllTalks : TalkSound(i)'
  BY <1>2, <1>4, OthersSound DEF TalkGoes, TalkInv
<1>6. Heard'
  BY <1>2, HeardStays DEF TalkInv
<1>7. ASSUME NEW s \in 1..Sessions
      PROVE  TalkCounted(s)'
  <2>1. TalkCounted(s) /\ excess[s] \in Nat /\ excess'[s] = excess[s]
    BY <1>2 DEF TalkInv, TalkTyped
  <2>2. /\ IsFiniteSet(Units(Bills(s)))' /\ SpentIn(s) \in Nat
        /\ talks[j].session # s => SpentIn(s)' = SpentIn(s)
        /\ talks[j].session = s => SpentIn(s)' = SpentIn(s) - charges[j].hold + charges'[j].hold
    BY <1>2, <1>3, <2>1, BillsMove DEF TalkInv, TalkCounted
  <2>3. /\ TurnsIn(s) \in Nat
        /\ talks[j].session # s => TurnsIn(s)' = TurnsIn(s)
        /\ talks[j].session = s => TurnsIn(s)' = TurnsIn(s) + 1
    BY <1>1, <1>2, TurnsMove
  <2>4. talks[j].session = s => TurnsIn(s) < TurnsEach /\ SpentIn(s) + TalkHold <= SpendEach
    BY DEF ReserveTalk, MayWork, Authorized, InSession, Spoken
  <2>. QED  BY <1>1, <1>2, <2>1, <2>2, <2>3, <2>4 DEF TalkCounted, TalkSound, Allowances
<1>. QED  BY <1>3, <1>5, <1>6, <1>7 DEF TalkInv, AllTalks

LEMMA CompleteKeepsTalk ==
    ASSUME Allowances, TalkInv, NEW j \in AllTalks, NEW kind, CompleteTalk(j, kind)
    PROVE  TalkInv'
<1>1. talks[j].status = "running" /\ charges[j].status = "reserved" /\ TalkSound(j)
  BY DEF CompleteTalk, RunningTalks, TalkInv
<1>2. PICK actual \in 0..TalkHold : charges' = [charges EXCEPT ![j] = [status |-> "settled", hold |-> actual]]
  BY DEF CompleteTalk
<1>3. /\ charges'[j].status = "settled" /\ charges'[j].hold = actual
      /\ talks'[j].status = "completed" /\ \A i \in AllTalks : talks'[i].session = talks[i].session
      /\ \A i \in AllTalks \ {j} : charges'[i] = charges[i] /\ talks'[i] = talks[i]
      /\ UNCHANGED <<session, uttered, excess>>
  BY <1>2 DEF CompleteTalk, TalkInv, TalkTyped
<1>4. /\ \A i \in AllTalks \ {j} : asked'[i] = asked[i]
      /\ asked'[j] = asked[j] \/ (asked'[j].status = "pending" /\ asked'[j].kind = kind)
      /\ Spoken(j) => kind # "play"
      /\ kind \in {"nothing", "say", "play"}
      /\ kind = "nothing" => asked'[j] = asked[j]
  BY DEF CompleteTalk, TalkInv, TalkTyped
<1>5. actual \in Nat
  BY DEF Allowances
<1>6. TalkTyped'
  <2>1. asked' \in [AllTalks -> [status : {"none", "pending", "running", "checked", "held", "dead", "delivered"},
                                 kind : {"say", "play"}]]
    BY <1>4 DEF CompleteTalk, TalkInv, TalkTyped
  <2>2. charges' \in [AllTalks -> [status : {"none", "reserved", "settled", "uncertain"}, hold : Nat]]
    BY <1>2, <1>5 DEF TalkInv, TalkTyped
  <2>3. talks' \in [AllTalks -> [status : {"none", "pending", "unheard", "running", "completed", "dead"},
                                 session : 0..Sessions]]
    <3>1. PICK row : row = [talks[j] EXCEPT !.status = "completed"]
      OBVIOUS
    <3>2. talks' = [talks EXCEPT ![j] = row]
      BY <3>1 DEF CompleteTalk
    <3>3. talks[j] \in [status : {"none", "pending", "unheard", "running", "completed", "dead"}, session : 0..Sessions]
      BY DEF TalkInv, TalkTyped
    <3>4. row \in [status : {"none", "pending", "unheard", "running", "completed", "dead"}, session : 0..Sessions]
      BY <3>1, <3>3
    <3>. QED  BY <3>2, <3>4 DEF TalkInv, TalkTyped
  <2>. QED  BY <1>3, <2>1, <2>2, <2>3 DEF TalkInv, TalkTyped, AllTalks
<1>7. TalkSound(j)'
  <2>1. asked[j].status = "none"
    BY <1>1 DEF TalkSound
  <2>2. asked'[j].status \in {"none", "pending"}
    BY <1>4, <2>1
  <2>3. Spoken(j) => asked'[j].kind = "say"
    BY <1>1, <1>4 DEF TalkSound
  <2>4. asked'[j].status = "none" => asked'[j].kind = "say"
    BY <1>1, <1>4, <2>1 DEF TalkSound
  <2>. QED  BY <1>3, <2>2, <2>3, <2>4 DEF TalkSound, Spoken
<1>8. \A i \in AllTalks : TalkSound(i)'
  BY <1>3, <1>4, <1>7, OthersSound DEF TalkGoes, TalkInv
<1>9. Heard'
  BY <1>3, HeardStays DEF TalkInv
<1>10. ASSUME NEW s \in 1..Sessions
       PROVE  TalkCounted(s)'
  <2>1. TalkCounted(s) /\ excess[s] \in Nat /\ excess'[s] = excess[s]
    BY <1>3 DEF TalkInv, TalkTyped
  <2>2. /\ IsFiniteSet(Units(Bills(s)))' /\ SpentIn(s) \in Nat
        /\ talks[j].session # s => SpentIn(s)' = SpentIn(s)
        /\ talks[j].session = s => SpentIn(s)' = SpentIn(s) - charges[j].hold + charges'[j].hold
    BY <1>3, <1>6, <2>1, BillsMove DEF TalkInv, TalkCounted
  <2>3. TurnsIn(s) \in Nat /\ TurnsIn(s)' = TurnsIn(s)
    BY <1>1, <1>3, TurnsMove
  <2>4. charges[j].hold = TalkHold
    BY <1>1 DEF TalkSound
  <2>. QED  BY <1>3, <1>5, <2>1, <2>2, <2>3, <2>4 DEF TalkCounted, Allowances
<1>. QED  BY <1>6, <1>8, <1>9, <1>10 DEF TalkInv, AllTalks

LEMMA FailKeepsTalk ==
    ASSUME Allowances, TalkInv, NEW j \in AllTalks, FailTalk(j)
    PROVE  TalkInv'
<1>1. talks[j].status = "running" /\ TalkSound(j) /\ talks[j].session \in 0..Sessions /\ charges[j].hold \in Nat
  BY DEF FailTalk, RunningTalks, TalkInv, TalkTyped
<1>2. /\ talks'[j].status = "dead" /\ \A i \in AllTalks : talks'[i].session = talks[i].session
      /\ \A i \in AllTalks \ {j} : talks'[i] = talks[i]
      /\ UNCHANGED <<session, asked, uttered>>
  BY DEF FailTalk, TalkInv, TalkTyped
<1>3. PICK status \in {"none", "settled", "uncertain"}, hold \in Nat, over \in {0, 1} :
         /\ charges' = [charges EXCEPT ![j] = [status |-> status, hold |-> hold]]
         /\ excess' = [excess EXCEPT ![talks[j].session] = @ + over]
         /\ hold = charges[j].hold + over
         /\ status = "none" <=> charges[j].status = "none"
         /\ status = "none" => hold = 0
  <2>1. CASE charges[j].status = "none" /\ UNCHANGED <<charges, excess>>
    <3>1. charges[j] = [status |-> "none", hold |-> 0]
      BY <1>1, <2>1 DEF TalkSound, TalkInv, TalkTyped
    <3>2. charges' = [charges EXCEPT ![j] = [status |-> "none", hold |-> 0]]
      BY <2>1, <3>1 DEF TalkInv, TalkTyped
    <3>3. excess' = [excess EXCEPT ![talks[j].session] = @ + 0]
      BY <1>1, <2>1 DEF TalkInv, TalkTyped
    <3>4. charges[j].hold = 0 /\ 0 = charges[j].hold + 0 /\ 0 \in Nat
      BY <3>1
    <3>. QED  BY <2>1, <3>2, <3>3, <3>4
  <2>2. CASE charges[j].status = "reserved" /\ charges' = [charges EXCEPT ![j].status = "uncertain"] /\ UNCHANGED excess
    <3>0. charges[j] = [status |-> "reserved", hold |-> charges[j].hold]
      BY <2>2 DEF TalkInv, TalkTyped
    <3>1. charges' = [charges EXCEPT ![j] = [status |-> "uncertain", hold |-> charges[j].hold]]
      <4>1. [charges[j] EXCEPT !.status = "uncertain"] = [status |-> "uncertain", hold |-> charges[j].hold]
        BY <3>0
      <4>. QED  BY <2>2, <4>1
    <3>2. excess' = [excess EXCEPT ![talks[j].session] = @ + 0]
      BY <1>1, <2>2 DEF TalkInv, TalkTyped
    <3>3. charges[j].hold = charges[j].hold + 0
      BY <1>1
    <3>. QED  BY <1>1, <2>2, <3>1, <3>2, <3>3
  <2>3. CASE /\ charges[j].status = "reserved"
             /\ charges' = [charges EXCEPT ![j] = [status |-> "settled", hold |-> TalkHold + 1]]
             /\ excess' = [excess EXCEPT ![talks[j].session] = @ + 1]
    <3>1. charges[j].hold = TalkHold /\ TalkHold + 1 \in Nat
      BY <1>1, <2>3 DEF TalkSound
    <3>. QED  BY <2>3, <3>1
  <2>. QED  BY <2>1, <2>2, <2>3 DEF FailTalk
<1>4. /\ charges'[j].status = status /\ charges'[j].hold = hold
      /\ \A i \in AllTalks \ {j} : charges'[i] = charges[i]
  BY <1>3 DEF TalkInv, TalkTyped
<1>5. TalkTyped'
  <2>1. excess' \in [0..Sessions -> Nat]
    BY <1>3 DEF TalkInv, TalkTyped
  <2>2. charges' \in [AllTalks -> [status : {"none", "reserved", "settled", "uncertain"}, hold : Nat]]
    BY <1>3 DEF TalkInv, TalkTyped
  <2>3. talks' \in [AllTalks -> [status : {"none", "pending", "unheard", "running", "completed", "dead"},
                                 session : 0..Sessions]]
    BY DEF FailTalk, TalkInv, TalkTyped
  <2>. QED  BY <1>2, <2>1, <2>2, <2>3 DEF TalkInv, TalkTyped, AllTalks
<1>6. TalkSound(j)'
  BY <1>1, <1>2, <1>3, <1>4 DEF TalkSound, Spoken, Now
<1>7. \A i \in AllTalks : TalkSound(i)'
  BY <1>2, <1>4, <1>6, OthersSound DEF TalkGoes, TalkInv
<1>8. Heard'
  BY <1>2, HeardStays DEF TalkInv
<1>9. ASSUME NEW s \in 1..Sessions
      PROVE  TalkCounted(s)'
  <2>1. /\ TalkCounted(s) /\ excess[s] \in Nat
        /\ talks[j].session # s => excess'[s] = excess[s]
        /\ talks[j].session = s => excess'[s] = excess[s] + over
    BY <1>3 DEF TalkInv, TalkTyped
  <2>2. /\ IsFiniteSet(Units(Bills(s)))' /\ SpentIn(s) \in Nat
        /\ talks[j].session # s => SpentIn(s)' = SpentIn(s)
        /\ talks[j].session = s => SpentIn(s)' = SpentIn(s) - charges[j].hold + charges'[j].hold
    BY <1>2, <1>4, <1>5, <2>1, BillsMove DEF TalkInv, TalkCounted
  <2>3. TurnsIn(s)' = TurnsIn(s) /\ TurnsIn(s) \in Nat
    <3>1. CASE status # "none"
      BY <1>2, <1>3, <1>4, <3>1, TurnsMove
    <3>2. CASE status = "none"
      <4>1. \A i \in AllTalks : charges'[i].status = charges[i].status
        BY <1>3, <1>4, <3>2
      <4>2. {i \in AllTalks : talks'[i].session = s /\ charges'[i].status # "none"}
              = {i \in AllTalks : talks[i].session = s /\ charges[i].status # "none"}
        BY <1>2, <4>1
      <4>3. TurnsIn(s)' = TurnsIn(s)
        BY <4>2 DEF TurnsIn, AllTalks
      <4>. QED  BY <4>3, TurnsCounted
    <3>. QED  BY <3>1, <3>2
  <2>. QED  BY <1>1, <1>3, <1>4, <2>1, <2>2, <2>3 DEF TalkCounted, Allowances
<1>. QED  BY <1>5, <1>7, <1>8, <1>9 DEF TalkInv, AllTalks

\* Steps of orders and of the commissioner, which book nothing.
LEMMA QuietKeepsTalk ==
    ASSUME TalkInv, UNCHANGED <<talks, charges, excess>>, TalkTyped', Heard',
           \A i \in AllTalks : TalkSound(i)'
    PROVE  TalkInv'
<1>1. \A s \in 1..Sessions : TalkCounted(s)'
  BY BillsStay DEF TalkInv
<1>. QED  BY <1>1 DEF TalkInv, AllTalks

LEMMA OrderKeepsTalk ==
    ASSUME Allowances, TalkInv, NEW j \in AllTalks, TakeOrder(j) \/ CheckOrder(j) \/ ActOnOrder(j)
    PROVE  TalkInv'
<1>1. UNCHANGED <<session, talks, charges, excess>>
  BY DEF TakeOrder, CheckOrder, ActOnOrder
<1>2. PICK status \in {"running", "checked", "held", "dead", "delivered"} :
         /\ asked' = [asked EXCEPT ![j].status = status]
         /\ status = "checked" => MayWork(j)
  BY DEF TakeOrder, CheckOrder, ActOnOrder
<1>3. /\ asked'[j].status = status /\ asked'[j].kind = asked[j].kind
      /\ \A i \in AllTalks \ {j} : asked'[i] = asked[i]
      /\ asked[j].status # "none" /\ TalkSound(j)
  BY <1>2 DEF TalkInv, TalkTyped, TakeOrder, CheckOrder, ActOnOrder
<1>4. TalkTyped'
  BY <1>1, <1>2 DEF TalkInv, TalkTyped, AllTalks
<1>5. TalkSound(j)'
  <2>1. status = "checked" => talks[j].session = Now
    BY <1>2 DEF MayWork, Authorized, InSession, Spoken
  <2>2. talks[j].status = "completed"
    BY <1>3 DEF TalkSound
  <2>. QED  BY <1>1, <1>3, <2>1, <2>2 DEF TalkSound, Spoken, Now
<1>6. \A i \in AllTalks : TalkSound(i)'
  <2>1. ASSUME NEW i \in AllTalks \ {j}
        PROVE  TalkSound(i)'
    BY <1>1, <1>3, <2>1 DEF TalkInv, TalkSound, Spoken, Now
  <2>. QED  BY <1>5, <2>1
<1>7. Heard'
  <2>1. CASE UNCHANGED uttered
    BY <1>1, <2>1 DEF TalkInv, Heard, AllTalks
  <2>2. CASE ActOnOrder(j)
    <3>1. asked[j].status = "checked" /\ talks[j].session = Now /\ talks[j].status = "completed"
      BY <1>3, <2>2 DEF ActOnOrder, TalkSound
    <3>2. Now # 0 => asked[j].kind = "say"
      BY <1>3, <3>1 DEF TalkSound, Spoken
    <3>3. \A u \in uttered' : u \in uttered \/ (u.job = j /\ u.kind = asked[j].kind /\ u.during = Now)
      BY <2>2 DEF ActOnOrder
    <3>. QED  BY <1>1, <3>1, <3>2, <3>3 DEF TalkInv, Heard, AllTalks
  <2>. QED  BY <2>1, <2>2 DEF TakeOrder, CheckOrder
<1>. QED  BY <1>1, <1>4, <1>6, <1>7, QuietKeepsTalk

LEMMA SessionKeepsTalk ==
    ASSUME Allowances, TalkInv,
           OpenSession \/ SessionExpires \/ Drifts \/ CloseSession \/ HoldTrial \/ ResumeTrial
    PROVE  TalkInv'
<1>1. UNCHANGED <<talks, charges, asked, uttered, excess>>
  BY DEF OpenSession, SessionExpires, Drifts, CloseSession, HoldTrial, ResumeTrial
<1>2. /\ session' \in [id : 0..Sessions, active : BOOLEAN, live : BOOLEAN, pinned : BOOLEAN]
      /\ session'.active => session'.id # 0
      /\ Now' = Now \/ Quiet
  <2>1. CASE OpenSession
    <3>1. session.id \in 0..Sessions /\ session.id + 1 \in 0..Sessions /\ session.id + 1 # 0
      BY <2>1 DEF OpenSession, TalkInv, TalkTyped, Allowances
    <3>. QED  BY <2>1, <3>1 DEF OpenSession
  <2>2. CASE SessionExpires \/ Drifts
    BY <2>2 DEF SessionExpires, Drifts, TalkInv, TalkTyped, Now
  <2>3. CASE CloseSession
    BY <2>3 DEF CloseSession, TalkInv, TalkTyped
  <2>4. CASE HoldTrial \/ ResumeTrial
    BY <2>4 DEF HoldTrial, ResumeTrial, TalkInv, TalkTyped, Now
  <2>. QED  BY <2>1, <2>2, <2>3, <2>4
<1>3. TalkTyped'
  BY <1>1, <1>2 DEF TalkInv, TalkTyped, AllTalks
<1>4. \A i \in AllTalks : TalkSound(i)'
  <2>1. ASSUME NEW i \in AllTalks, asked[i].status = "checked"
        PROVE  Now' = Now
    BY <1>2, <2>1 DEF Quiet
  <2>. QED  BY <1>1, <2>1 DEF TalkInv, TalkSound, Spoken
<1>5. Heard'
  BY <1>1 DEF TalkInv, Heard, AllTalks
<1>. QED  BY <1>1, <1>3, <1>4, <1>5, QuietKeepsTalk

LEMMA TalkStarts ==
    ASSUME Allowances, ConversationInit
    PROVE  TalkInv
<1>0. 0 \in 0..Sessions
  BY DEF Allowances
<1>1. TalkTyped /\ Heard
  BY <1>0 DEF ConversationInit, TalkTyped, Heard
<1>2. \A j \in AllTalks : TalkSound(j)
  BY DEF ConversationInit, TalkSound, Spoken
<1>3. ASSUME NEW s \in 1..Sessions
      PROVE  TalkCounted(s)
  <2>1. \A j \in AllTalks : Bills(s)[j] = 0
    BY DEF ConversationInit, Bills
  <2>2. Units(Bills(s)) = {}
    <3>1. DOMAIN Bills(s) = AllTalks /\ \A j \in AllTalks : 1..Bills(s)[j] = {}
      BY <2>1 DEF Bills
    <3>. QED  BY <3>1 DEF Units
  <2>3. {j \in AllTalks : talks[j].session = s /\ charges[j].status # "none"} = {}
    BY DEF ConversationInit
  <2>4. IsFiniteSet({}) /\ Cardinality({}) = 0
    BY FS_EmptySet
  <2>5. TurnsIn(s) = 0 /\ SpentIn(s) = 0 /\ IsFiniteSet(Units(Bills(s)))
    BY <2>2, <2>3, <2>4 DEF TurnsIn, SpentIn, Total
  <2>6. excess[s] = 0
    BY DEF ConversationInit
  <2>. QED  BY <2>5, <2>6 DEF TalkCounted, Allowances
<1>. QED  BY <1>1, <1>2, <1>3 DEF TalkInv

LEMMA TalkKeeps ==
    ASSUME Allowances, TalkInv, [ConversationNext]_conversationVars
    PROVE  TalkInv'
<1>1. CASE UNCHANGED conversationVars
  <2>1. UNCHANGED <<session, talks, charges, asked, uttered, excess>>
    BY <1>1 DEF conversationVars
  <2>2. TalkTyped' /\ Heard' /\ \A i \in AllTalks : TalkSound(i)'
    BY <2>1 DEF TalkInv, TalkTyped, Heard, TalkSound, Spoken, Now, AllTalks
  <2>. QED  BY <2>1, <2>2, QuietKeepsTalk
<1>2. CASE ConversationNext
  BY <1>2, ArriveTalk, ClaimKeepsTalk, ReserveKeepsTalk, CompleteKeepsTalk, FailKeepsTalk,
     OrderKeepsTalk, SessionKeepsTalk
  DEF ConversationNext
<1>. QED  BY <1>1, <1>2

(* While a session is open nothing takes effect but what its own turns said, *)
(* and what they said never goes out afterwards                              *)
(* (runtime/conversation.ts conversationClaimPredicate and                   *)
(* assertConversationJob, franchise/outbox.ts execute).                      *)
THEOREM SessionsAreOnlyTalk ==
    ASSUME Allowances
    PROVE  ConversationInit /\ [][ConversationNext]_conversationVars => []OnlyTalk
<1>1. TalkInv => OnlyTalk
  BY DEF TalkInv, Heard, OnlyTalk
<1>. QED  BY <1>1, TalkStarts, TalkKeeps, PTL

(* Turns and money of a session stay within its allowance, but for what a    *)
(* turn cost above its reservation (runtime/conversation.ts                  *)
(* reserveConversationTurn).                                                 *)
THEOREM SessionsAreRationed ==
    ASSUME Allowances
    PROVE  ConversationInit /\ [][ConversationNext]_conversationVars => []TalkIsRationed
<1>1. TalkInv => TalkIsRationed
  BY DEF TalkInv, TalkCounted, TalkIsRationed
<1>. QED  BY <1>1, TalkStarts, TalkKeeps, PTL

-----------------------------------------------------------------------------
(* Owner stages: what goes out, what it costs and what its review settles. *)

Allotments == Count \in Nat /\ Cap \in Nat /\ TurnHold \in Nat /\ SearchHold \in Nat /\ FirstLimit \in Nat

JobRows == [status : {"none", "pending", "running", "completed", "dead", "cancelled"},
            kind : Kinds \cup {"turn", "followup"}, staged : BOOLEAN, note : BOOLEAN]
CostRows == [status : {"none", "reserved", "settled", "released", "uncertain"}, hold : Nat, reviewed : BOOLEAN]
SearchRows == [status : {"none", "dispatched", "completed", "unknown"}, hold : Nat]
IntentRows == [status : {"none", "pending", "running", "delivered", "dead", "held"},
               says : {"intro", "again", "reply"}]

StageTyped ==
    /\ stage \in [status : {"none", "active", "reviewed"}, limit : Nat]
    /\ work \in [Jobs -> JobRows]
    /\ costs \in [Jobs -> CostRows]
    /\ searches \in [Jobs -> SearchRows]
    /\ intents \in [Jobs -> IntentRows]
    /\ authored \in Seq([job : Jobs, retest : BOOLEAN])
    /\ pardon \in [retest : Jobs \cup {0}, again : Jobs \cup {0}]
    /\ disposed \in Jobs \cup {0}
    /\ beyond \in Nat

\* Of one job: what waits or never ran cost nothing, only a completed turn asked for anything,
\* and the stage, once reviewed and once closed, has nothing of it under way.
JobSound(j) ==
    /\ work[j].status \in {"none", "pending", "cancelled"} => costs[j].status = "none"
    /\ costs[j].status = "none" => ~work[j].staged /\ costs[j].hold = 0 /\ searches[j].status = "none"
    /\ searches[j].status = "none" => searches[j].hold = 0
    /\ searches[j].status = "dispatched" => searches[j].hold = SearchHold
    /\ work[j].status # "completed" => intents[j].status = "none"
    /\ work[j].staged => stage.status # "none"
    /\ work[j].staged /\ Reviewed => ~Runs(j)
    /\ work[j].staged /\ stage.status = "reviewed" =>
          /\ intents[j].status \notin {"pending", "running"}
          /\ intents[j].status = "held" => j = disposed

StageSettled ==
    /\ Reviewed => stage.status # "none"
    /\ stage.status = "reviewed" => Reviewed
    /\ disposed # 0 => intents[disposed].status = "held"
    /\ \A s \in sent : /\ s.job \in Jobs /\ intents[s.job].status # "none"
                       /\ (s.during = "active") = work[s.job].staged

\* Of the appointments: but for one that was forgiven, one is alive or kept.
Alive(k) == work[k].status \in {"pending", "running", "completed"}
Ahead(k) == work[k].status \in {"pending", "running"}
Followups ==
    /\ \A k \in Scheduled : work[k].status # "none"
    /\ \A k, l \in Scheduled \ {pardon.retest} : Alive(k) /\ Alive(l) => k = l
    /\ pardon.retest # 0 => work[pardon.retest].status = "completed"
    /\ Reviewed => /\ Cardinality(Staged) = review.turns /\ LastFollowup = review.followup
                   /\ \A k \in Scheduled : ~Ahead(k)

StageBooked == IsFiniteSet(Units(Ration)) /\ WithinAllowance

StageInv ==
    /\ StageTyped /\ StageSettled /\ Followups /\ StageBooked
    /\ \A j \in Jobs : JobSound(j)

\* What a job costs the stage.
CostOf(j) == IF work[j].staged THEN costs[j].hold + searches[j].hold ELSE 0

LEMMA CostsCounted ==
    ASSUME StageTyped
    PROVE  /\ Ration \in [Jobs -> Nat] /\ \A j \in Jobs : Ration[j] = CostOf(j) /\ CostOf(j) \in Nat
           /\ IsFiniteSet(Units(Ration)) => Committed \in Nat
<1>1. \A j \in Jobs : CostOf(j) \in Nat
  BY DEF StageTyped, CostRows, SearchRows, CostOf
<1>2. Ration = [j \in Jobs |-> CostOf(j)]
  BY DEF Ration, CostOf
<1>. QED  BY <1>1, <1>2, FS_CardinalityType DEF Committed, Total

\* One job costs more or less than before.
LEMMA RationMoves ==
    ASSUME StageTyped, StageTyped', NEW j \in Jobs, IsFiniteSet(Units(Ration)),
           \A i \in Jobs \ {j} : CostOf(i)' = CostOf(i)
    PROVE  /\ IsFiniteSet(Units(Ration))' /\ Committed \in Nat /\ Committed' \in Nat
           /\ CostOf(j) \in Nat /\ CostOf(j)' \in Nat
           /\ Committed' = Committed - CostOf(j) + CostOf(j)'
<1>1. PICK g : g = Ration'
  OBVIOUS
<1>2. Units(g) = Units(Ration)' /\ Total(g) = Committed'
  BY <1>1 DEF Total, Units, Committed
<1>3. g = [i \in Jobs |-> CostOf(i)']
  BY <1>1 DEF Ration, CostOf, Jobs
<1>4. \A i \in Jobs : CostOf(i)' \in Nat
  BY DEF StageTyped, CostRows, SearchRows, CostOf, Jobs
<1>5. g \in [Jobs -> Nat] /\ \A i \in Jobs : g[i] = CostOf(i)'
  BY <1>3, <1>4
<1>6. Ration \in [Jobs -> Nat] /\ \A i \in Jobs : Ration[i] = CostOf(i) /\ CostOf(i) \in Nat
  BY CostsCounted
<1>7. \A i \in Jobs \ {j} : g[i] = Ration[i]
  BY <1>5, <1>6
<1>8. /\ IsFiniteSet(Units(g)) /\ Total(Ration) \in Nat /\ Ration[j] <= Total(Ration)
      /\ Total(g) = Total(Ration) - Ration[j] + g[j]
  BY <1>5, <1>6, <1>7, TotalMoves
<1>. QED  BY <1>2, <1>5, <1>6, <1>8 DEF Committed

LEMMA RationStays ==
    ASSUME StageTyped, StageTyped', StageBooked, \A i \in Jobs : CostOf(i)' = CostOf(i), beyond' = beyond
    PROVE  StageBooked' /\ Committed' = Committed
<1>1. PICK g : g = Ration'
  OBVIOUS
<1>2. Units(g) = Units(Ration)' /\ Total(g) = Committed'
  BY <1>1 DEF Total, Units, Committed
<1>3. g = [i \in Jobs |-> CostOf(i)']
  BY <1>1 DEF Ration, CostOf, Jobs
<1>4. Ration = [i \in Jobs |-> CostOf(i)]
  BY DEF Ration, CostOf
<1>5. g = Ration
  BY <1>3, <1>4
<1>. QED  BY <1>2, <1>5 DEF StageBooked, WithinAllowance, Committed

\* No job begins again, and none that was scheduled comes back to life.
WorkGoesOn ==
    \A k \in Jobs :
       /\ work[k].status # "none" => /\ work'[k].status # "none"
                                     /\ Alive(k)' => Alive(k)
                                     /\ Ahead(k)' => Ahead(k)
       /\ work[k].status = "completed" => work'[k].status = "completed"

LEMMA ScheduledJobs ==
    ASSUME StageTyped
    PROVE  /\ Scheduled \subseteq Jobs
           /\ authored # <<>> => LastFollowup \in Scheduled
<1>. DEFINE Entries == [job : Jobs, retest : BOOLEAN]
<1>1. authored \in Seq(Entries)
  BY DEF StageTyped
<1>2. DOMAIN authored = 1..Len(authored) /\ \A i \in 1..Len(authored) : authored[i].job \in Jobs
  <2>1. \A e \in Entries : e.job \in Jobs
    OBVIOUS
  <2>. HIDE DEF Entries
  <2>2. DOMAIN authored = 1..Len(authored) /\ \A i \in 1..Len(authored) : authored[i] \in Entries
    BY <1>1
  <2>. QED  BY <2>1, <2>2
<1>3. Scheduled \subseteq Jobs
  BY <1>2 DEF Scheduled
<1>4. ASSUME authored # <<>>
      PROVE  LastFollowup \in Scheduled
  <2>1. Len(authored) \in 1..Len(authored)
    BY <1>1, <1>4
  <2>. QED  BY <1>2, <1>4, <2>1 DEF Scheduled, LastFollowup
<1>. QED  BY <1>3, <1>4

LEMMA FollowupsStay ==
    ASSUME StageTyped, Followups, WorkGoesOn, UNCHANGED <<authored, pardon, review>>, Reviewed => Staged' = Staged
    PROVE  Followups'
<1>1. Scheduled' = Scheduled /\ LastFollowup' = LastFollowup /\ Scheduled \subseteq Jobs /\ (Reviewed' <=> Reviewed)
  BY ScheduledJobs DEF Scheduled, LastFollowup, Reviewed, NoReview
<1>2. \A k \in Scheduled : work'[k].status # "none"
  BY <1>1 DEF Followups, WorkGoesOn
<1>3. \A k, l \in Scheduled \ {pardon.retest} : Alive(k)' /\ Alive(l)' => k = l
  BY <1>1 DEF Followups, WorkGoesOn
<1>4. pardon.retest # 0 => work'[pardon.retest].status = "completed"
  BY DEF Followups, WorkGoesOn, StageTyped
<1>5. Reviewed => /\ Cardinality(Staged)' = review.turns /\ LastFollowup = review.followup
                  /\ \A k \in Scheduled : ~Ahead(k)'
  BY <1>1 DEF Followups, WorkGoesOn
<1>. QED  BY <1>1, <1>2, <1>3, <1>4, <1>5 DEF Followups, Alive, Ahead

LEMMA SoundFrame ==
    ASSUME NEW i \in Jobs, JobSound(i), UNCHANGED <<disposed, review>>, stage'.status = stage.status,
           work'[i] = work[i], costs'[i] = costs[i], searches'[i] = searches[i], intents'[i] = intents[i]
    PROVE  JobSound(i)'
BY DEF JobSound, Reviewed, NoReview, Runs

\* A step of the job j, its turn and its search.
LEMMA TurnKeepsStage ==
    ASSUME StageInv, NEW j \in Jobs,
           UNCHANGED <<stage, intents, sent, authored, pardon, disposed, review>>,
           \A i \in Jobs \ {j} : work'[i] = work[i] /\ costs'[i] = costs[i] /\ searches'[i] = searches[i],
           StageTyped', JobSound(j)', StageBooked', WorkGoesOn,
           work'[j].staged = work[j].staged \/ (intents[j].status = "none" /\ ~Reviewed)
    PROVE  StageInv'
<1>1. \A i \in Jobs : JobSound(i)'
  BY SoundFrame DEF StageInv
<1>2. Reviewed => Staged' = Staged
  <2>1. ASSUME Reviewed
        PROVE  \A i \in Jobs : work'[i].staged = work[i].staged
    BY <2>1
  <2>. QED  BY <2>1 DEF Staged, Jobs
<1>3. Followups'
  BY <1>2, FollowupsStay DEF StageInv
<1>4. StageSettled'
  BY DEF StageInv, StageSettled, Reviewed, NoReview, Jobs
<1>. QED  BY <1>1, <1>3, <1>4 DEF StageInv, Jobs

LEMMA CostsStay ==
    ASSUME StageTyped, StageTyped', StageBooked, beyond' = beyond,
           \A i \in Jobs : /\ work'[i].staged = work[i].staged
                           /\ costs'[i].hold = costs[i].hold /\ searches'[i].hold = searches[i].hold
    PROVE  StageBooked' /\ Committed' = Committed
<1>1. \A i \in Jobs : CostOf(i)' = CostOf(i)
  BY DEF CostOf, Jobs
<1>. QED  BY <1>1, RationStays

LEMMA WakeKeepsStage ==
    ASSUME StageInv, NEW j \in Jobs, NEW kind \in Kinds, Wake(j, kind)
    PROVE  StageInv'
<1>1. PICK row : row = [work[j] EXCEPT !.status = "pending", !.kind = kind]
  OBVIOUS
<1>2. work[j] \in JobRows /\ work[j].status = "none" /\ JobSound(j)
  BY DEF Wake, Fresh, StageInv, StageTyped
<1>3. row \in JobRows /\ row.status = "pending" /\ row.staged = work[j].staged
  BY <1>1, <1>2 DEF JobRows
<1>4. /\ work' = [work EXCEPT ![j] = row]
      /\ UNCHANGED <<stage, costs, searches, intents, sent, authored, pardon, disposed, review, beyond>>
  BY <1>1 DEF Wake, StageInv, StageTyped
<1>5. work'[j] = row /\ \A i \in Jobs \ {j} : work'[i] = work[i]
  BY <1>4 DEF StageInv, StageTyped
<1>6. StageTyped'
  BY <1>3, <1>4 DEF StageInv, StageTyped, Jobs
<1>7. StageBooked'
  BY <1>3, <1>4, <1>5, <1>6, CostsStay DEF StageInv
<1>8. JobSound(j)'
  BY <1>2, <1>3, <1>4, <1>5 DEF JobSound, Reviewed, NoReview, Runs
<1>9. WorkGoesOn
  BY <1>2, <1>5 DEF WorkGoesOn, Alive, Ahead
<1>. QED  BY <1>3, <1>4, <1>5, <1>6, <1>7, <1>8, <1>9, TurnKeepsStage

LEMMA ClaimKeepsStage ==
    ASSUME StageInv, NEW j \in Jobs, ClaimJob(j)
    PROVE  StageInv'
<1>1. PICK row : row = [work[j] EXCEPT !.status = "running"]
  OBVIOUS
<1>2. work[j] \in JobRows /\ work[j].status = "pending" /\ JobSound(j)
  BY DEF ClaimJob, StageInv, StageTyped
<1>3. row \in JobRows /\ row.status = "running" /\ row.staged = work[j].staged
  BY <1>1, <1>2 DEF JobRows
<1>4. /\ work' = [work EXCEPT ![j] = row]
      /\ UNCHANGED <<stage, costs, searches, intents, sent, authored, pardon, disposed, review, beyond>>
  BY <1>1 DEF ClaimJob, StageInv, StageTyped
<1>5. work'[j] = row /\ \A i \in Jobs \ {j} : work'[i] = work[i]
  BY <1>4 DEF StageInv, StageTyped
<1>6. StageTyped'
  BY <1>3, <1>4 DEF StageInv, StageTyped, Jobs
<1>7. StageBooked'
  BY <1>3, <1>4, <1>5, <1>6, CostsStay DEF StageInv
<1>8. JobSound(j)'
  BY <1>2, <1>3, <1>4, <1>5 DEF JobSound, Reviewed, NoReview, Runs
<1>9. WorkGoesOn
  BY <1>2, <1>3, <1>5 DEF WorkGoesOn, Alive, Ahead
<1>. QED  BY <1>3, <1>4, <1>5, <1>6, <1>7, <1>8, <1>9, TurnKeepsStage

LEMMA ReserveKeepsStage ==
    ASSUME Allotments, StageInv, NEW j \in Jobs, ReserveTurn(j)
    PROVE  StageInv'
<1>1. PICK hold \in Nat : hold = IF Open THEN TurnHold ELSE 0
  BY DEF Allotments
<1>2. PICK row, bill : /\ row = [work[j] EXCEPT !.staged = Open]
                       /\ bill = [costs[j] EXCEPT !.status = "reserved", !.hold = hold]
  OBVIOUS
<1>3. /\ work[j] \in JobRows /\ work[j].status = "running" /\ JobSound(j)
      /\ costs[j] \in CostRows /\ costs[j].status = "none"
  BY DEF ReserveTurn, Runs, StageInv, StageTyped
<1>4. /\ row \in JobRows /\ row.status = "running" /\ row.staged = Open
      /\ bill \in CostRows /\ bill.status = "reserved" /\ bill.hold = hold
  <2>1. Open \in BOOLEAN
    BY DEF Open
  <2>. QED  BY <1>2, <1>3, <2>1 DEF JobRows, CostRows
<1>5. /\ work' = [work EXCEPT ![j] = row] /\ costs' = [costs EXCEPT ![j] = bill]
      /\ UNCHANGED <<stage, searches, intents, sent, authored, pardon, disposed, review, beyond>>
  BY <1>1, <1>2 DEF ReserveTurn, StageInv, StageTyped
<1>6. /\ work'[j] = row /\ \A i \in Jobs \ {j} : work'[i] = work[i]
      /\ costs'[j] = bill /\ \A i \in Jobs \ {j} : costs'[i] = costs[i]
  BY <1>5 DEF StageInv, StageTyped
<1>7. StageTyped'
  BY <1>4, <1>5 DEF StageInv, StageTyped, Jobs
<1>8. StageBooked'
  <2>1. \A i \in Jobs \ {j} : CostOf(i)' = CostOf(i)
    BY <1>5, <1>6 DEF CostOf, Jobs
  <2>2. CostOf(j) = 0 /\ CostOf(j)' = hold
    <3>1. searches[j].hold = 0 /\ ~work[j].staged
      BY <1>3 DEF JobSound
    <3>2. CostOf(j)' = IF Open THEN hold + 0 ELSE 0
      BY <1>4, <1>5, <1>6, <3>1 DEF CostOf
    <3>. QED  BY <1>1, <3>1, <3>2 DEF CostOf
  <2>3. IsFiniteSet(Units(Ration))' /\ Committed' = Committed + hold /\ Committed \in Nat
    BY <1>7, <2>1, <2>2, RationMoves DEF StageInv, StageBooked
  <2>4. Open => Committed + hold <= Cap
    BY <1>1 DEF ReserveTurn, MayTurn, Rationed
  <2>5. beyond \in Nat /\ beyond' = beyond /\ Committed <= Cap + beyond
    BY <1>5 DEF StageInv, StageTyped, StageBooked, WithinAllowance
  <2>6. ~Open => hold = 0
    BY <1>1
  <2>. QED  BY <2>3, <2>4, <2>5, <2>6 DEF StageBooked, WithinAllowance, Allotments
<1>9. Open => ~Reviewed
  BY DEF ReserveTurn, MayTurn, Rationed
<1>10. JobSound(j)'
  BY <1>3, <1>4, <1>5, <1>6, <1>9 DEF JobSound, Reviewed, NoReview, Runs, Open
<1>11. WorkGoesOn
  BY <1>3, <1>4, <1>6 DEF WorkGoesOn, Alive, Ahead
<1>12. work'[j].staged = work[j].staged \/ (intents[j].status = "none" /\ ~Reviewed)
  BY <1>3, <1>4, <1>6, <1>9 DEF JobSound, StageInv, StageTyped, JobRows
<1>. QED  BY <1>5, <1>6, <1>7, <1>8, <1>10, <1>11, <1>12, TurnKeepsStage

LEMMA SearchKeepsStage ==
    ASSUME Allotments, StageInv, NEW j \in Jobs, BeginSearch(j) \/ EndSearch(j)
    PROVE  StageInv'
<1>1. PICK status \in {"dispatched", "completed", "unknown"}, hold \in Nat :
         /\ searches' = [searches EXCEPT ![j] = [status |-> status, hold |-> hold]]
         /\ status = "dispatched" => BeginSearch(j) /\ hold = SearchHold
         /\ status # "dispatched" => EndSearch(j) /\ hold <= searches[j].hold
  <2>1. CASE BeginSearch(j)
    BY <2>1 DEF BeginSearch, Allotments
  <2>2. CASE EndSearch(j)
    <3>1. searches[j] \in SearchRows /\ searches[j].status = "dispatched" /\ searches[j].hold = SearchHold
      BY <2>2 DEF EndSearch, StageInv, StageTyped, JobSound
    <3>2. ASSUME searches' = [searches EXCEPT ![j].status = "unknown"]
          PROVE  searches' = [searches EXCEPT ![j] = [status |-> "unknown", hold |-> SearchHold]]
      <4>1. [searches[j] EXCEPT !.status = "unknown"] = [status |-> "unknown", hold |-> SearchHold]
        BY <3>1 DEF SearchRows
      <4>. QED  BY <3>2, <4>1
    <3>3. CASE searches' = [searches EXCEPT ![j].status = "unknown"]
      <4>1. SearchHold \in Nat /\ SearchHold <= searches[j].hold
        BY <3>1 DEF Allotments
      <4>. QED  BY <2>2, <3>2, <3>3, <4>1
    <3>4. ASSUME NEW actual \in 0..SearchHold, searches' = [searches EXCEPT ![j] = [status |-> "completed", hold |-> actual]]
          PROVE  actual \in Nat /\ actual <= searches[j].hold
      BY <3>1, <3>4 DEF Allotments
    <3>. QED  BY <2>2, <3>3, <3>4 DEF EndSearch
  <2>. QED  BY <2>1, <2>2
<1>2. UNCHANGED <<stage, work, costs, intents, sent, authored, pardon, disposed, review, beyond>>
  BY DEF BeginSearch, EndSearch
<1>3. /\ searches'[j].status = status /\ searches'[j].hold = hold
      /\ \A i \in Jobs \ {j} : searches'[i] = searches[i]
      /\ JobSound(j) /\ costs[j] \in CostRows /\ searches[j] \in SearchRows
  BY <1>1 DEF StageInv, StageTyped
<1>4. StageTyped'
  BY <1>1, <1>2 DEF StageInv, StageTyped, Jobs, SearchRows
<1>5. StageBooked'
  <2>1. \A i \in Jobs \ {j} : CostOf(i)' = CostOf(i)
    BY <1>2, <1>3 DEF CostOf, Jobs
  <2>2. /\ IsFiniteSet(Units(Ration))' /\ Committed \in Nat /\ Committed' \in Nat
        /\ CostOf(j) \in Nat /\ CostOf(j)' \in Nat
        /\ Committed' = Committed - CostOf(j) + CostOf(j)'
    BY <1>4, <2>1, RationMoves DEF StageInv, StageBooked
  <2>3. beyond \in Nat /\ beyond' = beyond /\ Committed <= Cap + beyond
    BY <1>2 DEF StageInv, StageTyped, StageBooked, WithinAllowance
  <2>4. ~work[j].staged => CostOf(j)' = 0 /\ CostOf(j) = 0
    BY <1>2 DEF CostOf
  <2>5. work[j].staged => /\ CostOf(j) = costs[j].hold + searches[j].hold
                          /\ CostOf(j)' = costs[j].hold + hold
    BY <1>2, <1>3 DEF CostOf
  <2>6. CASE ~work[j].staged
    BY <2>2, <2>3, <2>4, <2>6 DEF StageBooked, WithinAllowance, Allotments
  <2>7. CASE work[j].staged /\ status = "dispatched"
    <3>1. Open
      BY <1>1, <1>3, <2>7 DEF BeginSearch, JobSound, Open, StageInv, StageTyped, StageSettled
    <3>2. Committed + SearchHold <= Cap
      BY <1>1, <2>7, <3>1 DEF BeginSearch, Rationed
    <3>3. searches[j].hold = 0 /\ hold = SearchHold
      BY <1>1, <1>3, <2>7 DEF BeginSearch, JobSound
    <3>4. Committed' = Committed + SearchHold
      BY <1>3, <2>2, <2>5, <2>7, <3>3 DEF CostRows, Allotments
    <3>. QED  BY <2>2, <2>3, <3>2, <3>4 DEF StageBooked, WithinAllowance, Allotments
  <2>8. CASE work[j].staged /\ status # "dispatched"
    <3>1. hold <= searches[j].hold /\ searches[j].hold \in Nat /\ costs[j].hold \in Nat
      BY <1>1, <1>3, <2>8 DEF CostRows, SearchRows
    <3>2. Committed' <= Committed
      BY <2>2, <2>5, <2>8, <3>1
    <3>. QED  BY <2>2, <2>3, <3>2 DEF StageBooked, WithinAllowance, Allotments
  <2>. QED  BY <2>6, <2>7, <2>8
<1>6. JobSound(j)'
  <2>1. costs[j].status # "none"
    BY <1>1, <1>3 DEF BeginSearch, EndSearch, JobSound
  <2>. QED  BY <1>1, <1>2, <1>3, <2>1 DEF JobSound, Reviewed, NoReview, Runs
<1>7. WorkGoesOn
  BY <1>2 DEF WorkGoesOn, Alive, Ahead
<1>. QED  BY <1>2, <1>3, <1>4, <1>5, <1>6, <1>7, TurnKeepsStage

\* A turn is over, or its cost is known: the job and its reservation alone.
LEMMA BillKeepsStage ==
    ASSUME Allotments, StageInv, NEW j \in Jobs, NEW row \in JobRows, NEW bill \in CostRows, NEW over \in Nat,
           work' = [work EXCEPT ![j] = row], costs' = [costs EXCEPT ![j] = bill], beyond' = beyond + over,
           UNCHANGED <<stage, searches, intents, sent, authored, pardon, disposed, review>>,
           row.staged = work[j].staged, row.status = work[j].status \/ (Runs(j) /\ row.status = "dead"),
           bill.hold <= costs[j].hold + over,
           bill.status = "none" => costs[j].status = "none" /\ bill.hold = 0,
           costs[j].status = "none" => bill.status = "none"
    PROVE  StageInv'
<1>1. /\ work'[j] = row /\ \A i \in Jobs \ {j} : work'[i] = work[i]
      /\ costs'[j] = bill /\ \A i \in Jobs \ {j} : costs'[i] = costs[i]
      /\ JobSound(j) /\ costs[j] \in CostRows /\ searches[j] \in SearchRows
  BY DEF StageInv, StageTyped
<1>2. StageTyped'
  BY DEF StageInv, StageTyped, Jobs
<1>3. StageBooked'
  <2>1. \A i \in Jobs \ {j} : CostOf(i)' = CostOf(i)
    BY <1>1 DEF CostOf, Jobs
  <2>2. /\ IsFiniteSet(Units(Ration))' /\ Committed \in Nat /\ Committed' \in Nat
        /\ CostOf(j) \in Nat /\ CostOf(j)' \in Nat
        /\ Committed' = Committed - CostOf(j) + CostOf(j)'
    BY <1>2, <2>1, RationMoves DEF StageInv, StageBooked
  <2>3. beyond \in Nat /\ Committed <= Cap + beyond
    BY DEF StageInv, StageTyped, StageBooked, WithinAllowance
  <2>4. CostOf(j)' <= CostOf(j) + over
    BY <1>1 DEF CostOf, CostRows, SearchRows
  <2>5. Committed' <= Cap + beyond'
    BY <2>2, <2>3, <2>4 DEF Allotments
  <2>. QED  BY <2>2, <2>5 DEF StageBooked, WithinAllowance
<1>4. JobSound(j)'
  BY <1>1 DEF JobSound, Reviewed, NoReview, Runs
<1>5. WorkGoesOn
  BY <1>1 DEF WorkGoesOn, Alive, Ahead, Runs
<1>. QED  BY <1>1, <1>2, <1>3, <1>4, <1>5, TurnKeepsStage

LEMMA FailKeepsStage ==
    ASSUME Allotments, StageInv, NEW j \in Jobs, FailTurn(j)
    PROVE  StageInv'
<1>1. PICK row : row = [work[j] EXCEPT !.status = "dead"]
  OBVIOUS
<1>2. /\ work[j] \in JobRows /\ Runs(j) /\ JobSound(j) /\ costs[j] \in CostRows
      /\ work' = [work EXCEPT ![j] = row] /\ beyond \in Nat
      /\ UNCHANGED <<stage, searches, intents, sent, authored, pardon, disposed, review>>
  BY <1>1 DEF FailTurn, StageInv, StageTyped
<1>3. row \in JobRows /\ row.status = "dead" /\ row.staged = work[j].staged
  BY <1>1, <1>2 DEF JobRows
<1>4. PICK bill \in CostRows, over \in Nat :
         /\ costs' = [costs EXCEPT ![j] = bill] /\ beyond' = beyond + over
         /\ bill.hold <= costs[j].hold + over
         /\ bill.status = "none" => costs[j].status = "none" /\ bill.hold = 0
         /\ costs[j].status = "none" => bill.status = "none"
  <2>0. costs[j].hold \in Nat
    BY <1>2 DEF CostRows
  <2>1. CASE costs[j].status = "none" /\ UNCHANGED <<costs, beyond>>
    <3>1. costs' = [costs EXCEPT ![j] = costs[j]] /\ beyond' = beyond + 0
      BY <1>2, <2>1 DEF StageInv, StageTyped
    <3>2. costs[j].hold = 0 /\ costs[j].hold <= costs[j].hold + 0 /\ 0 \in Nat
      BY <1>2, <2>1 DEF JobSound
    <3>. QED  BY <1>2, <2>1, <3>1, <3>2
  <2>2. ASSUME NEW status \in {"settled", "released", "uncertain"}, NEW hold \in Nat, NEW over \in Nat,
               costs[j].status = "reserved",
               costs' = [costs EXCEPT ![j] = [costs[j] EXCEPT !.status = status, !.hold = hold]],
               beyond' = beyond + over, hold <= costs[j].hold + over
        PROVE  \E bill \in CostRows, more \in Nat :
                  /\ costs' = [costs EXCEPT ![j] = bill] /\ beyond' = beyond + more
                  /\ bill.hold <= costs[j].hold + more
                  /\ bill.status = "none" => costs[j].status = "none" /\ bill.hold = 0
                  /\ costs[j].status = "none" => bill.status = "none"
    <3>1. PICK bill : bill = [costs[j] EXCEPT !.status = status, !.hold = hold]
      OBVIOUS
    <3>2. bill \in CostRows /\ bill.status = status /\ bill.hold = hold
      BY <1>2, <3>1 DEF CostRows
    <3>. QED  BY <2>2, <3>1, <3>2
  <2>3. CASE costs[j].status = "reserved" /\ costs' = [costs EXCEPT ![j].status = "settled"] /\ UNCHANGED beyond
    <3>1. [costs[j] EXCEPT !.status = "settled"] = [costs[j] EXCEPT !.status = "settled", !.hold = costs[j].hold]
      BY <1>2 DEF CostRows
    <3>2. costs' = [costs EXCEPT ![j] = [costs[j] EXCEPT !.status = "settled", !.hold = costs[j].hold]]
      BY <2>3, <3>1
    <3>3. beyond' = beyond + 0 /\ 0 \in Nat /\ costs[j].hold <= costs[j].hold + 0
      BY <1>2, <2>0, <2>3
    <3>. QED  BY <2>0, <2>2, <2>3, <3>2, <3>3
  <2>4. CASE costs[j].status = "reserved" /\ costs' = [costs EXCEPT ![j].status = "released", ![j].hold = 0] /\ UNCHANGED beyond
    <3>1. costs' = [costs EXCEPT ![j] = [costs[j] EXCEPT !.status = "released", !.hold = 0]]
      BY <2>4 DEF StageInv, StageTyped
    <3>2. beyond' = beyond + 0 /\ 0 \in Nat /\ 0 <= costs[j].hold + 0
      BY <1>2, <2>0, <2>4
    <3>. QED  BY <2>2, <2>4, <3>1, <3>2
  <2>5. ASSUME NEW more \in {0, 1}, costs[j].status = "reserved",
               costs' = [costs EXCEPT ![j].status = "uncertain", ![j].hold = @ + more], beyond' = beyond + more
        PROVE  \E bill \in CostRows, over \in Nat :
                  /\ costs' = [costs EXCEPT ![j] = bill] /\ beyond' = beyond + over
                  /\ bill.hold <= costs[j].hold + over
                  /\ bill.status = "none" => costs[j].status = "none" /\ bill.hold = 0
                  /\ costs[j].status = "none" => bill.status = "none"
    <3>1. PICK hold \in Nat : hold = costs[j].hold + more
      BY <2>0
    <3>2. costs' = [costs EXCEPT ![j] = [costs[j] EXCEPT !.status = "uncertain", !.hold = hold]]
      BY <2>5, <3>1 DEF StageInv, StageTyped
    <3>3. more \in Nat /\ hold <= costs[j].hold + more
      BY <2>0, <3>1
    <3>. QED  BY <2>2, <2>5, <3>2, <3>3
  <2>. QED  BY <2>1, <2>3, <2>4, <2>5 DEF FailTurn
<1>. QED  BY <1>2, <1>3, <1>4, BillKeepsStage

LEMMA BooksKeepStage ==
    ASSUME Allotments, StageInv, NEW j \in Jobs, ReconcileTurn(j) \/ ReviewCostHold(j)
    PROVE  StageInv'
<1>1. /\ work[j] \in JobRows /\ costs[j] \in CostRows /\ costs[j].status = "uncertain"
      /\ costs[j].hold \in Nat /\ beyond \in Nat
      /\ UNCHANGED <<stage, work, searches, intents, sent, authored, pardon, disposed, review, beyond>>
  BY DEF ReconcileTurn, ReviewCostHold, StageInv, StageTyped, CostRows
<1>2. PICK bill \in CostRows :
         /\ costs' = [costs EXCEPT ![j] = bill]
         /\ bill.status # "none" /\ bill.hold <= costs[j].hold
  <2>1. ASSUME NEW actual \in {0, costs[j].hold}, costs' = [costs EXCEPT ![j].status = "settled", ![j].hold = actual]
        PROVE  \E bill \in CostRows : /\ costs' = [costs EXCEPT ![j] = bill]
                                      /\ bill.status # "none" /\ bill.hold <= costs[j].hold
    <3>1. PICK bill : bill = [costs[j] EXCEPT !.status = "settled", !.hold = actual]
      OBVIOUS
    <3>2. actual \in Nat /\ actual <= costs[j].hold
      BY <1>1
    <3>3. bill \in CostRows /\ bill.status = "settled" /\ bill.hold = actual
      BY <1>1, <3>1, <3>2 DEF CostRows
    <3>4. costs' = [costs EXCEPT ![j] = bill]
      BY <2>1, <3>1 DEF StageInv, StageTyped
    <3>. QED  BY <3>2, <3>3, <3>4
  <2>2. CASE ReviewCostHold(j)
    <3>1. PICK bill : bill = [costs[j] EXCEPT !.reviewed = TRUE]
      OBVIOUS
    <3>2. bill \in CostRows /\ bill.status = "uncertain" /\ bill.hold = costs[j].hold
      BY <1>1, <3>1 DEF CostRows
    <3>3. costs' = [costs EXCEPT ![j] = bill]
      BY <2>2, <3>1 DEF ReviewCostHold
    <3>4. bill.status # "none" /\ bill.hold <= costs[j].hold
      BY <1>1, <3>2
    <3>. QED  BY <3>2, <3>3, <3>4
  <2>. QED  BY <2>1, <2>2 DEF ReconcileTurn
<1>3. /\ work' = [work EXCEPT ![j] = work[j]]
      /\ beyond' = beyond + 0 /\ 0 \in Nat /\ bill.hold <= costs[j].hold + 0
  BY <1>1, <1>2 DEF StageInv, StageTyped
<1>. QED  BY <1>1, <1>2, <1>3, BillKeepsStage

-----------------------------------------------------------------------------
(* Messages of the stage, and the end of a turn.                           *)

LEMMA IntentKeepsStage ==
    ASSUME StageInv, NEW j \in Jobs, TakeIntent(j) \/ SendIntent(j)
    PROVE  StageInv'
<1>1. /\ UNCHANGED <<stage, work, costs, searches, authored, pardon, disposed, review, beyond>>
      /\ intents[j].status \in {"pending", "running"}
      /\ JobSound(j) /\ intents[j] \in IntentRows
  BY DEF TakeIntent, SendIntent, StageInv, StageTyped
<1>2. PICK status \in {"running", "delivered", "held", "dead"} :
         /\ intents' = [intents EXCEPT ![j].status = status]
         /\ intents[j].status = "pending" <=> status = "running"
  BY DEF TakeIntent, SendIntent
<1>3. PICK row : row = [intents[j] EXCEPT !.status = status]
  OBVIOUS
<1>4. row \in IntentRows /\ row.status = status /\ intents' = [intents EXCEPT ![j] = row]
  BY <1>1, <1>2, <1>3 DEF IntentRows
<1>5. intents'[j].status = status /\ \A i \in Jobs \ {j} : intents'[i] = intents[i]
  BY <1>4 DEF StageInv, StageTyped
<1>6. StageTyped'
  BY <1>1, <1>4 DEF StageInv, StageTyped, Jobs
<1>7. StageBooked'
  BY <1>1, <1>6, CostsStay DEF StageInv
<1>8. Followups'
  <2>1. WorkGoesOn
    BY <1>1 DEF WorkGoesOn, Alive, Ahead
  <2>2. Staged' = Staged
    BY <1>1 DEF Staged, Jobs
  <2>. QED  BY <1>1, <2>1, <2>2, FollowupsStay DEF StageInv
<1>9. work[j].staged => stage.status = "active"
  BY <1>1 DEF JobSound, StageInv, StageTyped
<1>10. JobSound(j)'
  <2>1. work[j].status = "completed"
    BY <1>1 DEF JobSound
  <2>. QED  BY <1>1, <1>5, <1>9, <2>1 DEF JobSound, Reviewed, NoReview, Runs
<1>11. \A i \in Jobs : JobSound(i)'
  BY <1>1, <1>5, <1>10, SoundFrame DEF StageInv
<1>12. StageSettled'
  <2>1. disposed # j
    BY <1>1 DEF StageInv, StageSettled, Jobs
  <2>2. ASSUME NEW s \in sent'
        PROVE  /\ s.job \in Jobs /\ intents'[s.job].status # "none"
               /\ (s.during = "active") = work[s.job].staged
    <3>1. CASE s \in sent
      BY <1>2, <1>5, <3>1 DEF StageInv, StageSettled
    <3>2. CASE s \notin sent
      <4>1. s = [job |-> j, during |-> stage.status] /\ (Open => work[j].staged)
        BY <2>2, <3>2 DEF TakeIntent, SendIntent
      <4>2. (stage.status = "active") = work[j].staged
        BY <1>9, <4>1 DEF Open, StageInv, StageTyped, JobRows
      <4>. QED  BY <1>5, <4>1, <4>2
    <3>. QED  BY <3>1, <3>2
  <2>3. disposed # 0 => intents'[disposed].status = "held"
    BY <1>5, <2>1 DEF StageInv, StageTyped, StageSettled
  <2>. QED  BY <1>1, <2>2, <2>3 DEF StageInv, StageSettled, Reviewed, NoReview, Jobs
<1>. QED  BY <1>6, <1>7, <1>8, <1>11, <1>12 DEF StageInv, Jobs

\* What the end of the turn of j does to the jobs: j is completed, appointments that wait may
\* be cancelled, and a fresh job may be one.
LEMMA CompleteTurnJobs ==
    ASSUME StageInv, NEW j \in Jobs, NEW did, NEW says, CompleteTurn(j, did, says)
    PROVE  /\ work' \in [Jobs -> JobRows]
           /\ work[j].status = "running" /\ work'[j].status = "completed"
           /\ \A i \in Jobs : work'[i].staged = work[i].staged
           /\ \A i \in Jobs \ {j} : \/ work'[i] = work[i]
                                    \/ work[i].status = "pending" /\ work'[i].status = "cancelled"
                                    \/ work[i].status = "none" /\ work'[i].status = "pending" /\ "plan" \in did
           /\ \A i \in Jobs : "plan" \in did /\ Fresh(i) => work'[i].status = "pending"
<1>. DEFINE Cancelled == {k \in Scheduled : "cancel" \in did /\ work[k].status = "pending"}
            Planned == {k \in Jobs : "plan" \in did /\ Fresh(k)}
            Done == [work[j] EXCEPT !.status = "completed", !.note = "note" \in did]
            Off(k) == [work[k] EXCEPT !.status = "cancelled"]
            Due(k) == [work[k] EXCEPT !.status = "pending", !.kind = "followup"]
<1>1. /\ work' = [k \in Jobs |-> IF k = j THEN [work[k] EXCEPT !.status = "completed", !.note = "note" \in did]
                                 ELSE IF k \in Cancelled THEN Off(k)
                                 ELSE IF k \in Planned THEN Due(k)
                                 ELSE work[k]]
      /\ work[j].status = "running"
  BY DEF CompleteTurn, Runs
<1>2. work \in [Jobs -> JobRows]
  BY DEF StageInv, StageTyped
<1>3. Done \in JobRows /\ Done.status = "completed" /\ Done.staged = work[j].staged
  <2>1. ("note" \in did) \in BOOLEAN
    OBVIOUS
  <2>. QED  BY <1>2, <2>1 DEF JobRows
<1>4. \A k \in Jobs : Off(k) \in JobRows /\ Off(k).status = "cancelled" /\ Off(k).staged = work[k].staged
  BY <1>2 DEF JobRows
<1>5. \A k \in Jobs : Due(k) \in JobRows /\ Due(k).status = "pending" /\ Due(k).staged = work[k].staged
  BY <1>2 DEF JobRows
<1>6. /\ \A k \in Cancelled : work[k].status = "pending"
      /\ \A k \in Planned : work[k].status = "none" /\ "plan" \in did
  BY DEF Fresh
<1>7. work'[j] = Done
  BY <1>1
<1>8. \A k \in Jobs \ {j} : \/ work'[k] = work[k]
                            \/ work'[k] = Off(k) /\ k \in Cancelled
                            \/ work'[k] = Due(k) /\ k \in Planned
  BY <1>1
<1>10. \A k \in Planned : k # j /\ k \notin Cancelled /\ work'[k] = Due(k)
  BY <1>1, <1>6
<1>11. \A i \in Jobs : "plan" \in did /\ Fresh(i) => i \in Planned
  OBVIOUS
<1>. HIDE DEF Cancelled, Planned, Done, Off, Due
<1>9. work' \in [Jobs -> JobRows]
  <2>1. DOMAIN work' = Jobs /\ work' = [k \in Jobs |-> work'[k]]
    BY <1>1
  <2>2. \A k \in Jobs : work'[k] \in JobRows
    BY <1>2, <1>3, <1>4, <1>5, <1>7, <1>8
  <2>. QED  BY <2>1, <2>2
<1>. QED  BY <1>1, <1>3, <1>4, <1>5, <1>6, <1>7, <1>8, <1>9, <1>10, <1>11

\* Only one appointment at a time may be planned, and none but in the open stage.
LEMMA PlansAre ==
    ASSUME StageInv, NEW j \in Jobs, NEW did, NEW says, CompleteTurn(j, did, says)
    PROVE  \/ authored' = authored /\ "plan" \notin did
           \/ /\ "plan" \in did /\ Open /\ work[j].staged
              /\ \A k \in Scheduled : k # pardon.retest => ~Alive(k)
              /\ \E k \in Jobs, retest \in BOOLEAN :
                    /\ work'[k].status # "none" /\ authored' = Append(authored, [job |-> k, retest |-> retest])
<1>. DEFINE Planned == {k \in Jobs : "plan" \in did /\ Fresh(k)}
<1>1. CASE "plan" \notin did
  BY <1>1 DEF CompleteTurn
<1>2. CASE "plan" \in did
  <2>1. /\ Planned # {} /\ MayPlan
        /\ authored' = Append(authored, [job |-> CHOOSE k \in Planned : TRUE, retest |-> pardon.retest # 0])
        /\ did \subseteq IF Open THEN Acts ELSE Acts \cap {"say"}
        /\ Open /\ did # {} => work[j].staged
    BY <1>2 DEF CompleteTurn
  <2>2. Open /\ work[j].staged
    BY <1>2, <2>1
  <2>3. PICK k \in Planned : k = CHOOSE i \in Planned : TRUE
    BY <2>1
  <2>4. k \in Jobs /\ work'[k].status # "none"
    BY <1>2, <2>3, CompleteTurnJobs
  <2>5. PICK retest \in BOOLEAN : retest = (pardon.retest # 0)
    OBVIOUS
  <2>6. \A i \in Scheduled : i # pardon.retest => ~Alive(i)
    BY <2>1 DEF MayPlan, Alive
  <2>. QED  BY <1>2, <2>1, <2>2, <2>3, <2>4, <2>5, <2>6
<1>. QED  BY <1>1, <1>2

LEMMA AppendScheduled ==
    ASSUME StageTyped, NEW k \in Jobs, NEW retest \in BOOLEAN, authored' = Append(authored, [job |-> k, retest |-> retest])
    PROVE  /\ authored' \in Seq([job : Jobs, retest : BOOLEAN])
           /\ Scheduled' = Scheduled \cup {k}
<1>. DEFINE Entries == [job : Jobs, retest : BOOLEAN]
            e == [job |-> k, retest |-> retest]
<1>1. authored \in Seq(Entries) /\ e \in Entries /\ e.job = k
  BY DEF StageTyped
<1>. HIDE DEF Entries, e
<1>2. /\ Append(authored, e) \in Seq(Entries)
      /\ Len(Append(authored, e)) = Len(authored) + 1 /\ Len(authored) \in Nat
      /\ \A i \in 1..Len(authored) : Append(authored, e)[i] = authored[i]
      /\ Append(authored, e)[Len(authored) + 1] = e
  BY <1>1
<1>3. /\ DOMAIN authored = 1..Len(authored)
      /\ DOMAIN Append(authored, e) = 1..(Len(authored) + 1)
  BY <1>1, <1>2
<1>4. PICK n \in Nat : n = Len(authored)
  BY <1>2
<1>5. 1..(n + 1) = (1..n) \cup {n + 1}
  BY <1>4
<1>6. PICK q : q = Append(authored, e)
  OBVIOUS
<1>7. DOMAIN q = (1..n) \cup {n + 1} /\ \A i \in 1..n : q[i] = authored[i]
  BY <1>2, <1>3, <1>4, <1>5, <1>6
<1>8. q[n + 1].job = k
  BY <1>1, <1>2, <1>4, <1>6
<1>9. {q[i].job : i \in DOMAIN q} = {authored[i].job : i \in 1..n} \cup {k}
  BY <1>7, <1>8
<1>10. authored' = q
  BY <1>6 DEF e
<1>. QED  BY <1>2, <1>3, <1>4, <1>6, <1>9, <1>10 DEF Scheduled, Entries

LEMMA CompleteKeepsStage ==
    ASSUME Allotments, StageInv, NEW j \in Jobs, NEW did, NEW says \in {"intro", "again", "reply"}, CompleteTurn(j, did, says)
    PROVE  StageInv'
<1>1. /\ work' \in [Jobs -> JobRows]
      /\ work[j].status = "running" /\ work'[j].status = "completed"
      /\ \A i \in Jobs : work'[i].staged = work[i].staged
      /\ \A i \in Jobs \ {j} : \/ work'[i] = work[i]
                               \/ work[i].status = "pending" /\ work'[i].status = "cancelled"
                               \/ work[i].status = "none" /\ work'[i].status = "pending" /\ "plan" \in did
  BY CompleteTurnJobs
<1>2. /\ UNCHANGED <<stage, searches, sent, pardon, disposed, review, beyond>>
      /\ costs[j].status = "reserved" /\ searches[j].status # "dispatched"
      /\ costs' = [costs EXCEPT ![j].status = "settled"]
      /\ intents' = IF "say" \in did THEN [intents EXCEPT ![j] = [status |-> "pending", says |-> says]] ELSE intents
  BY DEF CompleteTurn
<1>3. PICK bill : bill = [costs[j] EXCEPT !.status = "settled"]
  OBVIOUS
<1>4. /\ bill \in CostRows /\ bill.status = "settled" /\ bill.hold = costs[j].hold
      /\ costs' = [costs EXCEPT ![j] = bill]
  <2>1. costs[j] \in CostRows
    BY DEF StageInv, StageTyped
  <2>. QED  BY <1>2, <1>3, <2>1 DEF CostRows
<1>5. /\ costs'[j] = bill /\ \A i \in Jobs \ {j} : costs'[i] = costs[i]
      /\ \A i \in Jobs \ {j} : intents'[i] = intents[i]
      /\ intents'[j] = intents[j] \/ intents'[j].status = "pending"
      /\ JobSound(j)
  BY <1>2, <1>4 DEF StageInv, StageTyped
<1>6. authored' \in Seq([job : Jobs, retest : BOOLEAN])
  BY PlansAre, AppendScheduled DEF StageInv, StageTyped
<1>7. StageTyped'
  <2>1. intents' \in [Jobs -> IntentRows]
    <3>1. [status |-> "pending", says |-> says] \in IntentRows
      BY DEF IntentRows
    <3>. QED  BY <1>2, <3>1 DEF StageInv, StageTyped
  <2>2. costs' \in [Jobs -> CostRows]
    BY <1>4 DEF StageInv, StageTyped
  <2>. QED  BY <1>1, <1>2, <1>6, <2>1, <2>2 DEF StageInv, StageTyped, Jobs
<1>8. StageBooked'
  <2>1. \A i \in Jobs : costs'[i].hold = costs[i].hold
    BY <1>4, <1>5
  <2>. QED  BY <1>1, <1>2, <1>7, <2>1, CostsStay DEF StageInv
<1>9. ~(work[j].staged /\ Reviewed) /\ (stage.status = "reviewed" => ~work[j].staged)
  BY <1>1, <1>5 DEF JobSound, Runs, StageInv, StageSettled
<1>10. \A i \in Jobs : JobSound(i)'
  <2>1. ASSUME NEW i \in Jobs \ {j}
        PROVE  JobSound(i)'
    <3>1. JobSound(i) /\ costs'[i] = costs[i] /\ intents'[i] = intents[i] /\ work'[i].staged = work[i].staged
      BY <1>1, <1>5 DEF StageInv
    <3>2. /\ work'[i].status \in {"none", "pending", "cancelled"} => work[i].status \in {"none", "pending", "cancelled"}
          /\ work'[i].status # "completed" => work[i].status # "completed"
          /\ work'[i].status = "running" => work[i].status = "running"
      BY <1>1
    <3>. QED  BY <1>2, <3>1, <3>2 DEF JobSound, Reviewed, NoReview, Runs
  <2>2. JobSound(j)'
    <3>1. intents[j].status = "none"
      BY <1>1, <1>5 DEF JobSound
    <3>2. work[j].staged => stage.status # "none" /\ stage.status # "reviewed"
      BY <1>5, <1>9 DEF JobSound
    <3>3. work'[j].staged = work[j].staged
      BY <1>1
    <3>4. searches[j].status = "none" => searches[j].hold = 0
      BY <1>5 DEF JobSound
    <3>5. searches[j].status # "dispatched"
      BY <1>2
    <3>. QED  BY <1>1, <1>2, <1>4, <1>5, <3>1, <3>2, <3>3, <3>4, <3>5 DEF JobSound, Reviewed, NoReview, Runs
  <2>. QED  BY <2>1, <2>2
<1>11. StageSettled'
  <2>1. intents[j].status = "none"
    BY <1>1, <1>5 DEF JobSound
  <2>2. disposed # 0 => disposed # j
    BY <2>1 DEF StageInv, StageSettled
  <2>3. disposed # 0 => intents'[disposed].status = "held"
    BY <1>5, <2>2 DEF StageInv, StageTyped, StageSettled
  <2>4. \A s \in sent : /\ s.job \in Jobs /\ s.job # j /\ intents'[s.job].status # "none"
                        /\ (s.during = "active") = work'[s.job].staged
    BY <1>1, <1>5, <2>1 DEF StageInv, StageSettled
  <2>. QED  BY <1>2, <2>3, <2>4 DEF StageInv, StageSettled, Reviewed, NoReview, Jobs
<1>12. WorkGoesOn
  BY <1>1 DEF WorkGoesOn, Alive, Ahead
<1>13. Followups'
  <2>1. CASE authored' = authored
    <3>1. Staged' = Staged
      BY <1>1 DEF Staged, Jobs
    <3>. QED  BY <1>2, <1>12, <2>1, <3>1, FollowupsStay DEF StageInv
  <2>2. CASE authored' # authored
    <3>1. /\ work[j].staged
          /\ \A k \in Scheduled : k # pardon.retest => ~Alive(k)
      BY <2>2, PlansAre
    <3>2. PICK k \in Jobs, retest \in BOOLEAN :
             /\ work'[k].status # "none" /\ authored' = Append(authored, [job |-> k, retest |-> retest])
      BY <2>2, PlansAre
    <3>3. Scheduled' = Scheduled \cup {k} /\ Scheduled \subseteq Jobs
      BY <3>2, AppendScheduled, ScheduledJobs DEF StageInv
    <3>4. \A i \in Scheduled' : work'[i].status # "none"
      BY <1>12, <3>2, <3>3 DEF WorkGoesOn, StageInv, Followups
    <3>5. \A i \in Scheduled \ {pardon.retest} : ~Alive(i)'
      BY <1>12, <3>1, <3>3 DEF WorkGoesOn, StageInv, Followups
    <3>6. pardon.retest # 0 => work'[pardon.retest].status = "completed"
      BY <1>12 DEF WorkGoesOn, StageInv, StageTyped, Followups
    <3>7. ~Reviewed'
      BY <1>2, <1>9, <3>1 DEF Reviewed, NoReview
    <3>. QED  BY <1>2, <3>3, <3>4, <3>5, <3>6, <3>7 DEF Followups
  <2>. QED  BY <2>1, <2>2
<1>. QED  BY <1>7, <1>8, <1>10, <1>11, <1>13 DEF StageInv, Jobs

-----------------------------------------------------------------------------
(* The commissioner.                                                       *)

\* Steps that leave jobs, money and messages as they are.
LEMMA PapersKeepStage ==
    ASSUME StageInv, UNCHANGED <<work, costs, searches, intents, sent, beyond>>, StageTyped',
           Followups', StageSettled', \A i \in Jobs : JobSound(i)'
    PROVE  StageInv'
<1>1. StageBooked'
  BY CostsStay DEF StageInv
<1>. QED  BY <1>1 DEF StageInv, Jobs

LEMMA SameFollowups ==
    ASSUME StageInv, UNCHANGED <<work, authored, pardon, review>>
    PROVE  Followups'
<1>1. WorkGoesOn /\ Staged' = Staged
  BY DEF WorkGoesOn, Alive, Ahead, Staged, Jobs
<1>. QED  BY <1>1, FollowupsStay DEF StageInv

LEMMA AmendKeepsStage ==
    ASSUME StageInv, AmendAllowance
    PROVE  StageInv'
<1>1. UNCHANGED <<work, costs, searches, intents, sent, authored, pardon, disposed, review, beyond>>
  BY DEF AmendAllowance
<1>2. /\ stage' \in [status : {"none", "active", "reviewed"}, limit : Nat] /\ stage'.status = stage.status
  <2>1. PICK limit \in Nat : limit = stage.limit + 1
    BY DEF StageInv, StageTyped
  <2>2. stage' = [stage EXCEPT !.limit = limit]
    BY <2>1 DEF AmendAllowance
  <2>. QED  BY <2>2 DEF StageInv, StageTyped
<1>3. StageTyped'
  BY <1>1, <1>2 DEF StageInv, StageTyped, Jobs
<1>4. \A i \in Jobs : JobSound(i)'
  BY <1>1, <1>2, SoundFrame DEF StageInv
<1>5. StageSettled'
  BY <1>1, <1>2 DEF StageInv, StageSettled, Reviewed, NoReview, Jobs
<1>. QED  BY <1>1, <1>3, <1>4, <1>5, SameFollowups, PapersKeepStage

LEMMA ReplaceKeepsStage ==
    ASSUME StageInv, NEW j \in Jobs, AuthorizeReplacementIntro(j)
    PROVE  StageInv'
<1>1. /\ UNCHANGED <<stage, work, costs, searches, intents, sent, authored, pardon, review, beyond>>
      /\ disposed' = j /\ intents[j].status = "held" /\ stage.status = "active"
  BY DEF AuthorizeReplacementIntro, Quiescent, Open
<1>2. StageTyped'
  BY <1>1 DEF StageInv, StageTyped, Jobs
<1>3. \A i \in Jobs : JobSound(i)'
  BY <1>1 DEF StageInv, JobSound, Reviewed, NoReview, Runs
<1>4. StageSettled'
  BY <1>1 DEF StageInv, StageSettled, Reviewed, NoReview, Jobs
<1>. QED  BY <1>1, <1>2, <1>3, <1>4, SameFollowups, PapersKeepStage

LEMMA RetestKeepsStage ==
    ASSUME StageInv, NEW j \in Jobs, AuthorizeFollowupRetest(j) \/ AuthorizeRetestReplacement(j)
    PROVE  StageInv'
<1>1. UNCHANGED <<stage, work, costs, searches, intents, sent, authored, disposed, review, beyond>>
  BY DEF AuthorizeFollowupRetest, AuthorizeRetestReplacement
<1>2. /\ pardon' \in [retest : Jobs \cup {0}, again : Jobs \cup {0}]
      /\ \/ pardon'.retest = pardon.retest
         \/ pardon.retest = 0 /\ pardon'.retest = j /\ work[j].status = "completed"
  BY DEF AuthorizeFollowupRetest, AuthorizeRetestReplacement, StageInv, StageTyped
<1>3. StageTyped'
  BY <1>1, <1>2 DEF StageInv, StageTyped, Jobs
<1>4. \A i \in Jobs : JobSound(i)'
  BY <1>1, SoundFrame DEF StageInv
<1>5. StageSettled'
  BY <1>1 DEF StageInv, StageSettled, Reviewed, NoReview, Jobs
<1>6. Followups'
  <2>1. Scheduled' = Scheduled /\ LastFollowup' = LastFollowup /\ Staged' = Staged /\ (Reviewed' <=> Reviewed)
    BY <1>1 DEF Scheduled, LastFollowup, Staged, Jobs, Reviewed, NoReview
  <2>2. Scheduled \ {pardon'.retest} \subseteq Scheduled \ {pardon.retest}
    <3>1. 0 \notin Scheduled
      BY ScheduledJobs DEF StageInv, Jobs
    <3>. QED  BY <1>2, <3>1
  <2>3. \A k, l \in Scheduled \ {pardon'.retest} : Alive(k) /\ Alive(l) => k = l
    BY <2>2 DEF StageInv, Followups
  <2>4. pardon'.retest # 0 => work[pardon'.retest].status = "completed"
    BY <1>2 DEF StageInv, Followups
  <2>. QED  BY <1>1, <2>1, <2>3, <2>4 DEF StageInv, Followups, Alive, Ahead
<1>. QED  BY <1>1, <1>3, <1>4, <1>5, <1>6, PapersKeepStage

\* When the owner is reviewed its last appointment is kept, so that no other is ahead.
LEMMA ReviewKeepsStage ==
    ASSUME StageInv, ReviewOwner
    PROVE  StageInv'
<1>1. /\ UNCHANGED <<stage, work, costs, searches, intents, sent, authored, pardon, disposed, beyond>>
      /\ stage.status = "active" /\ Running = {} /\ FollowedUp
      /\ review' = Evidence
  BY DEF ReviewOwner, Quiescent, Open, Complete
<1>2. review'.turns = Cardinality(Staged) /\ review'.followup = LastFollowup
  BY <1>1 DEF Evidence
<1>3. StageTyped'
  BY <1>1 DEF StageInv, StageTyped, Jobs
<1>4. \A i \in Jobs : JobSound(i)'
  <2>1. \A i \in Jobs : ~Runs(i)
    BY <1>1 DEF Running
  <2>. QED  BY <1>1, <2>1 DEF StageInv, JobSound, Runs
<1>5. StageSettled'
  BY <1>1 DEF StageInv, StageSettled, Jobs
<1>6. Followups'
  <2>1. Scheduled' = Scheduled /\ LastFollowup' = LastFollowup /\ Staged' = Staged
    BY <1>1 DEF Scheduled, LastFollowup, Staged, Jobs
  <2>2. /\ LastFollowup \in Scheduled \ {pardon.retest} /\ work[LastFollowup].status = "completed"
    BY <1>1, ScheduledJobs DEF FollowedUp, StageInv
  <2>3. \A k \in Scheduled : ~Ahead(k)
    <3>1. ASSUME NEW k \in Scheduled, Ahead(k)
          PROVE  FALSE
      <4>1. k # 0
        BY <3>1, ScheduledJobs DEF StageInv, Jobs
      <4>2. k # pardon.retest
        BY <3>1, <4>1 DEF StageInv, Followups, Ahead
      <4>3. Alive(k) /\ Alive(LastFollowup)
        BY <2>2, <3>1 DEF Alive, Ahead
      <4>4. k = LastFollowup
        BY <2>2, <3>1, <4>2, <4>3 DEF StageInv, Followups
      <4>. QED  BY <2>2, <3>1, <4>4 DEF Ahead
    <3>. QED  BY <3>1
  <2>. QED  BY <1>1, <1>2, <2>1, <2>3 DEF StageInv, Followups, Alive, Ahead
<1>. QED  BY <1>1, <1>3, <1>4, <1>5, <1>6, PapersKeepStage

\* Jobs that wait are put aside.
LEMMA PutAside ==
    ASSUME StageInv, NEW W \in SUBSET Jobs, \A k \in W : work[k].status = "pending",
           work' = [k \in Jobs |-> IF k \in W THEN [work[k] EXCEPT !.status = "cancelled"] ELSE work[k]]
    PROVE  /\ work' \in [Jobs -> JobRows]
           /\ WorkGoesOn /\ Staged' = Staged
           /\ \A k \in Jobs : /\ work'[k].staged = work[k].staged
                              /\ work'[k] = work[k] \/ (work[k].status = "pending" /\ work'[k].status = "cancelled")
<1>1. work \in [Jobs -> JobRows]
  BY DEF StageInv, StageTyped
<1>. DEFINE Off(k) == [work[k] EXCEPT !.status = "cancelled"]
<1>2. \A k \in Jobs : Off(k) \in JobRows /\ Off(k).status = "cancelled" /\ Off(k).staged = work[k].staged
  BY <1>1 DEF JobRows
<1>3. /\ DOMAIN work' = Jobs /\ work' = [k \in Jobs |-> work'[k]]
      /\ \A k \in Jobs : work'[k] = IF k \in W THEN Off(k) ELSE work[k]
  OBVIOUS
<1>. HIDE DEF Off
<1>4. work' \in [Jobs -> JobRows]
  BY <1>1, <1>2, <1>3
<1>5. \A k \in Jobs : /\ work'[k].staged = work[k].staged
                      /\ work'[k] = work[k] \/ (work[k].status = "pending" /\ work'[k].status = "cancelled")
  BY <1>2, <1>3
<1>6. WorkGoesOn
  BY <1>5 DEF WorkGoesOn, Alive, Ahead
<1>7. Staged' = Staged
  BY <1>5 DEF Staged, Jobs
<1>. QED  BY <1>4, <1>5, <1>6, <1>7

LEMMA ConfigureKeepsStage ==
    ASSUME StageInv, Configure
    PROVE  StageInv'
<1>. DEFINE W == {k \in Jobs : work[k].status = "pending"}
            Held(k) == [intents[k] EXCEPT !.status = "held"]
<1>1. /\ UNCHANGED <<costs, searches, sent, authored, pardon, disposed, review, beyond>>
      /\ stage.status = "none" /\ \A i \in Jobs : intents[i].status # "running"
      /\ stage' = [stage EXCEPT !.status = "active"]
      /\ work' = [k \in Jobs |-> IF work[k].status = "pending" THEN [work[k] EXCEPT !.status = "cancelled"] ELSE work[k]]
      /\ intents' = [k \in Jobs |-> IF intents[k].status = "pending" THEN Held(k) ELSE intents[k]]
  BY DEF Configure
<1>2. work' = [k \in Jobs |-> IF k \in W THEN [work[k] EXCEPT !.status = "cancelled"] ELSE work[k]]
  BY <1>1
<1>3. /\ work' \in [Jobs -> JobRows]
      /\ WorkGoesOn /\ Staged' = Staged
      /\ \A k \in Jobs : /\ work'[k].staged = work[k].staged
                         /\ work'[k] = work[k] \/ (work[k].status = "pending" /\ work'[k].status = "cancelled")
  BY <1>2, PutAside
<1>4. \A k \in Jobs : Held(k) \in IntentRows /\ Held(k).status = "held"
  BY DEF StageInv, StageTyped, IntentRows
<1>5. /\ DOMAIN intents' = Jobs /\ intents' = [k \in Jobs |-> intents'[k]]
      /\ \A k \in Jobs : intents'[k] = IF intents[k].status = "pending" THEN Held(k) ELSE intents[k]
  BY <1>1
<1>. HIDE DEF Held
<1>6. intents' \in [Jobs -> IntentRows]
  BY <1>4, <1>5 DEF StageInv, StageTyped
<1>7. \A k \in Jobs : \/ intents'[k] = intents[k]
                      \/ intents[k].status = "pending" /\ intents'[k].status = "held"
  BY <1>4, <1>5
<1>8. stage' \in [status : {"none", "active", "reviewed"}, limit : Nat] /\ stage'.status = "active"
  BY <1>1 DEF StageInv, StageTyped
<1>9. StageTyped'
  BY <1>1, <1>3, <1>6, <1>8 DEF StageInv, StageTyped, Jobs
<1>10. StageBooked'
  BY <1>1, <1>3, <1>9, CostsStay DEF StageInv
<1>11. Followups'
  BY <1>1, <1>3, FollowupsStay DEF StageInv
<1>12. ~Reviewed /\ \A k \in Jobs : ~work[k].staged
  BY <1>1 DEF StageInv, StageSettled, JobSound
<1>13. \A k \in Jobs : JobSound(k)'
  <2>1. ASSUME NEW k \in Jobs
        PROVE  JobSound(k)'
    <3>1. /\ work'[k].status \in {"none", "pending", "cancelled"} => work[k].status \in {"none", "pending", "cancelled"}
          /\ work'[k].status # "completed" => work[k].status # "completed"
      BY <1>3
    <3>2. JobSound(k)
      BY DEF StageInv
    <3>. QED  BY <1>1, <1>3, <1>7, <1>12, <3>1, <3>2 DEF JobSound
  <2>. QED  BY <2>1
<1>14. StageSettled'
  <2>1. disposed # 0 => intents'[disposed].status = "held"
    BY <1>7 DEF StageInv, StageTyped, StageSettled
  <2>2. \A s \in sent : /\ s.job \in Jobs /\ intents'[s.job].status # "none"
                        /\ (s.during = "active") = work'[s.job].staged
    BY <1>3, <1>7 DEF StageInv, StageSettled
  <2>3. ~Reviewed'
    BY <1>1, <1>12 DEF Reviewed, NoReview
  <2>. QED  BY <1>1, <1>8, <2>1, <2>2, <2>3 DEF StageSettled, Jobs
<1>. QED  BY <1>9, <1>10, <1>11, <1>13, <1>14 DEF StageInv, Jobs

LEMMA CloseKeepsStage ==
    ASSUME StageInv, CloseReviewed
    PROVE  StageInv'
<1>. DEFINE W == {k \in Jobs : work[k].status = "pending" /\ work[k].kind \in {"onboarding", "followup"}}
<1>1. /\ UNCHANGED <<costs, searches, intents, sent, authored, pardon, disposed, review, beyond>>
      /\ stage.status = "active" /\ Running = {} /\ Reviewed
      /\ \A j \in Jobs \ {disposed} :
            /\ intents[j].status \notin {"pending", "running"}
            /\ intents[j].status = "held" => ~work[j].staged
      /\ stage' = [stage EXCEPT !.status = "reviewed"]
      /\ work' = [k \in Jobs |-> IF work[k].status = "pending" /\ work[k].kind \in {"onboarding", "followup"}
                                 THEN [work[k] EXCEPT !.status = "cancelled"] ELSE work[k]]
  BY DEF CloseReviewed, Open
<1>2. work' = [k \in Jobs |-> IF k \in W THEN [work[k] EXCEPT !.status = "cancelled"] ELSE work[k]]
  BY <1>1
<1>3. /\ work' \in [Jobs -> JobRows]
      /\ WorkGoesOn /\ Staged' = Staged
      /\ \A k \in Jobs : /\ work'[k].staged = work[k].staged
                         /\ work'[k] = work[k] \/ (work[k].status = "pending" /\ work'[k].status = "cancelled")
  BY <1>2, PutAside
<1>4. stage' \in [status : {"none", "active", "reviewed"}, limit : Nat] /\ stage'.status = "reviewed"
  BY <1>1 DEF StageInv, StageTyped
<1>5. StageTyped'
  BY <1>1, <1>3, <1>4 DEF StageInv, StageTyped, Jobs
<1>6. StageBooked'
  BY <1>1, <1>3, <1>5, CostsStay DEF StageInv
<1>7. Followups'
  BY <1>1, <1>3, FollowupsStay DEF StageInv
<1>8. Reviewed'
  BY <1>1 DEF Reviewed, NoReview
<1>9. \A k \in Jobs : JobSound(k)'
  <2>1. ASSUME NEW k \in Jobs
        PROVE  JobSound(k)'
    <3>1. /\ work'[k].status \in {"none", "pending", "cancelled"} => work[k].status \in {"none", "pending", "cancelled"}
          /\ work'[k].status # "completed" => work[k].status # "completed"
          /\ work'[k].status # "running"
      BY <1>1, <1>3 DEF Running, Runs
    <3>2. JobSound(k)
      BY DEF StageInv
    <3>3. work[k].staged => /\ intents[k].status \notin {"pending", "running"}
                            /\ intents[k].status = "held" => k = disposed
      BY <1>1 DEF StageInv, StageSettled, Jobs
    <3>. QED  BY <1>1, <1>3, <1>4, <3>1, <3>2, <3>3 DEF JobSound, Runs
  <2>. QED  BY <2>1
<1>10. StageSettled'
  BY <1>1, <1>3, <1>4, <1>8 DEF StageInv, StageSettled, Jobs
<1>. QED  BY <1>5, <1>6, <1>7, <1>9, <1>10 DEF StageInv, Jobs

LEMMA StageStarts ==
    ASSUME Allotments, StageInit
    PROVE  StageInv
<1>1. StageTyped
  <2>1. [status |-> "none", kind |-> "turn", staged |-> FALSE, note |-> FALSE] \in JobRows
    BY DEF JobRows
  <2>2. /\ [status |-> "none", hold |-> 0, reviewed |-> FALSE] \in CostRows
        /\ [status |-> "none", hold |-> 0] \in SearchRows
        /\ [status |-> "none", says |-> "reply"] \in IntentRows
    BY DEF CostRows, SearchRows, IntentRows
  <2>3. authored \in Seq([job : Jobs, retest : BOOLEAN])
    BY DEF StageInit
  <2>. QED  BY <2>1, <2>2, <2>3 DEF StageInit, StageTyped, Allotments
<1>2. ~Reviewed /\ Scheduled = {}
  BY DEF StageInit, Reviewed, Scheduled
<1>3. StageSettled /\ Followups
  BY <1>2 DEF StageInit, StageSettled, Followups
<1>4. \A j \in Jobs : JobSound(j)
  BY <1>2 DEF StageInit, JobSound
<1>5. StageBooked
  <2>1. \A j \in DOMAIN Ration : 1..Ration[j] = {}
    BY DEF StageInit, Ration
  <2>2. Units(Ration) = {}
    BY <2>1 DEF Units
  <2>3. IsFiniteSet({}) /\ Cardinality({}) = 0
    BY FS_EmptySet
  <2>4. Committed = 0 /\ beyond = 0
    BY <2>2, <2>3 DEF Committed, Total, StageInit
  <2>. QED  BY <2>2, <2>3, <2>4 DEF StageBooked, WithinAllowance, Allotments
<1>. QED  BY <1>1, <1>3, <1>4, <1>5 DEF StageInv

LEMMA StageKeeps ==
    ASSUME Allotments, StageInv, [StageNext]_stageVars
    PROVE  StageInv'
<1>1. CASE UNCHANGED stageVars
  <2>1. UNCHANGED <<stage, work, costs, searches, intents, sent, authored, pardon, disposed, review, beyond>>
    BY <1>1 DEF stageVars
  <2>2. StageTyped' /\ StageSettled'
    BY <2>1 DEF StageInv, StageTyped, StageSettled, Reviewed, NoReview, Jobs
  <2>3. \A i \in Jobs : JobSound(i)'
    BY <2>1, SoundFrame DEF StageInv
  <2>. QED  BY <2>1, <2>2, <2>3, SameFollowups, PapersKeepStage
<1>2. CASE StageNext
  BY <1>2, WakeKeepsStage, ClaimKeepsStage, ReserveKeepsStage, SearchKeepsStage, FailKeepsStage, BooksKeepStage,
     CompleteKeepsStage, IntentKeepsStage, ReplaceKeepsStage, RetestKeepsStage,
     ConfigureKeepsStage, AmendKeepsStage, ReviewKeepsStage, CloseKeepsStage
  DEF StageNext
<1>. QED  BY <1>1, <1>2

(* What a turn of the stage asked for goes out while the stage is open, and  *)
(* nothing older does (runtime/owner-stage.ts assertOwnerStageAction,        *)
(* configureOwnerStage and closeReviewedOwnerStage).                         *)
THEOREM StageSpeaksInTime ==
    ASSUME Allotments
    PROVE  StageInit /\ [][StageNext]_stageVars => []SaidInTheStage
<1>1. StageInv => SaidInTheStage
  BY DEF StageInv, StageSettled, SaidInTheStage
<1>. QED  BY <1>1, StageStarts, StageKeeps, PTL

(* What is committed stays within the allowance of the stage, but for what a *)
(* turn cost above its reservation (runtime/owner-stage.ts                   *)
(* reserveOwnerStageTurn, research/firecrawl.ts).                            *)
THEOREM StageIsRationed ==
    ASSUME Allotments
    PROVE  StageInit /\ [][StageNext]_stageVars => []WithinAllowance
<1>1. StageInv => WithinAllowance
  BY DEF StageInv, StageBooked
<1>. QED  BY <1>1, StageStarts, StageKeeps, PTL

\* At most one of a set, at most two with another.
LEMMA AtMostOne ==
    ASSUME NEW S, \A k, l \in S : k = l
    PROVE  Cardinality(S) <= 1 /\ IsFiniteSet(S)
<1>1. CASE S = {}
  BY <1>1, FS_EmptySet
<1>2. CASE S # {}
  <2>1. PICK k : S = {k}
    BY <1>2
  <2>. QED  BY <2>1, FS_Singleton
<1>. QED  BY <1>1, <1>2

LEMMA AtMostTwo ==
    ASSUME NEW S, NEW r, \A k, l \in S \ {r} : k = l
    PROVE  Cardinality(S) <= 2
<1>1. Cardinality(S \ {r}) <= 1 /\ IsFiniteSet(S \ {r})
  BY AtMostOne
<1>2. Cardinality(S \ {r}) \in Nat
  BY <1>1, FS_CardinalityType
<1>3. CASE r \in S
  <2>1. S = (S \ {r}) \cup {r}
    BY <1>3
  <2>2. Cardinality((S \ {r}) \cup {r}) = Cardinality(S \ {r}) + 1
    BY <1>1, FS_AddElement
  <2>. QED  BY <1>1, <1>2, <2>1, <2>2
<1>4. CASE r \notin S
  <2>1. S = S \ {r}
    BY <1>4
  <2>. QED  BY <1>1, <1>2, <2>1
<1>. QED  BY <1>3, <1>4

(* One follow-up at a time, and no more kept ones than were forgiven and one *)
(* more; what was reviewed is the end of the owner's work, and a closed      *)
(* stage left nothing of its turns open (runtime/owner-followup.ts           *)
(* recordOwnerStageSchedule, runtime/owner-stage.ts reviewOwner and          *)
(* closeReviewedOwnerStage).                                                 *)
THEOREM ReviewEndsTheStage ==
    ASSUME Allotments
    PROVE  StageInit /\ [][StageNext]_stageVars => []ReviewIsFinal
<1>1. StageInv => ReviewIsFinal
  <2>1. ASSUME StageInv
        PROVE  ReviewIsFinal
    <3>. DEFINE A == {k \in Scheduled : work[k].status \in {"pending", "running"}}
                B == {k \in Scheduled : work[k].status \in {"pending", "running", "completed"}}
    <3>1. \A k, l \in B \ {pardon.retest} : k = l
      BY <2>1 DEF StageInv, Followups, Alive
    <3>2. A \subseteq B \ {pardon.retest}
      <4>1. 0 \notin Scheduled
        BY <2>1, ScheduledJobs DEF StageInv, Jobs
      <4>. QED  BY <2>1, <4>1 DEF StageInv, Followups
    <3>3. Cardinality(A) <= 1
      <4>1. \A k, l \in A : k = l
        BY <3>1, <3>2
      <4>. HIDE DEF A
      <4>. QED  BY <4>1, AtMostOne
    <3>4. Cardinality(B) <= IF pardon.retest = 0 THEN 1 ELSE 2
      <4>1. pardon.retest = 0 => \A k, l \in B : k = l
        <5>1. 0 \notin Scheduled
          BY <2>1, ScheduledJobs DEF StageInv, Jobs
        <5>. QED  BY <3>1, <5>1
      <4>. HIDE DEF B
      <4>. QED  BY <3>1, <4>1, AtMostOne, AtMostTwo
    <3>5. Reviewed => /\ Cardinality(Staged) = review.turns /\ LastFollowup = review.followup /\ A = {}
      BY <2>1 DEF StageInv, Followups, Ahead
    <3>6. stage.status = "reviewed" => Reviewed /\ Outstanding \cap Staged = {}
      <4>1. ASSUME stage.status = "reviewed", NEW k \in Outstanding, k \in Staged
            PROVE  FALSE
        <5>1. /\ k \in Jobs /\ k # disposed /\ work[k].staged /\ intents[k].status \in {"pending", "running", "held"}
          BY <4>1 DEF Outstanding, Staged
        <5>. QED  BY <2>1, <4>1, <5>1 DEF StageInv, JobSound
      <4>. QED  BY <2>1, <4>1 DEF StageInv, StageSettled
    <3>. QED  BY <3>3, <3>4, <3>5, <3>6 DEF ReviewIsFinal
  <2>. QED  BY <2>1
<1>. QED  BY <1>1, StageStarts, StageKeeps, PTL

-----------------------------------------------------------------------------
(* Governance: what is sealed, and what is settled.                        *)

\* Deadlines are instants.
Dated == Meetings \in [DOMAIN Meetings -> [propose : Nat, vote : Nat]]

\* An owner has seen only what no proposal of the meeting can follow any more, and decisions
\* are about votes that are over.
SealedInv ==
    /\ now \in Nat
    /\ meeting \subseteq DOMAIN Meetings
    /\ \A p \in proposal : p.author \in Owners /\ p.meeting \in DOMAIN Meetings
    /\ DOMAIN seen = Owners
    /\ \A o \in Owners : \A q \in seen[o] : q \in proposal /\ Meetings[q.meeting].propose <= now
    /\ decision \subseteq proposal
    /\ \A p \in decision : Meetings[p.meeting].vote <= now

\* A step that only adds proposals in open windows, decisions after the vote, and what the
\* owner of a closed window sees.
LEMMA SealedStep ==
    ASSUME Dated, SealedInv, GovernanceNext
    PROVE  SealedInv'
<1>0. \A m \in DOMAIN Meetings : Meetings[m].propose \in Nat /\ Meetings[m].vote \in Nat
  BY DEF Dated
<1>1. ASSUME now < MaxTime, now' = now + 1, UNCHANGED <<meeting, proposal, cast, decision, ratified, sellers, seen>>
      PROVE  SealedInv'
  <2>1. now' \in Nat /\ \A d \in Nat : d <= now => d <= now'
    BY <1>1 DEF SealedInv
  <2>2. \A o \in Owners : \A q \in seen[o] : Meetings[q.meeting].propose <= now'
    BY <1>0, <2>1 DEF SealedInv
  <2>3. \A p \in decision : Meetings[p.meeting].vote <= now'
    BY <1>0, <2>1 DEF SealedInv
  <2>. QED  BY <1>1, <2>1, <2>2, <2>3 DEF SealedInv
<1>2. ASSUME NEW m \in DOMAIN Meetings, OpenMeeting(m)
      PROVE  SealedInv'
  BY <1>2 DEF OpenMeeting, SealedInv
<1>3. ASSUME NEW o \in Owners, NEW m \in DOMAIN Meetings, SubmitProposal(o, m)
      PROVE  SealedInv'
  <2>1. \A p \in proposal' : p.author \in Owners /\ p.meeting \in DOMAIN Meetings
    BY <1>3 DEF SubmitProposal, SealedInv
  <2>. QED  BY <1>3, <2>1 DEF SubmitProposal, SealedInv
<1>4. ASSUME NEW o \in Owners, NEW m \in DOMAIN Meetings, Snapshot(o, m)
      PROVE  SealedInv'
  <2>1. /\ DOMAIN seen' = Owners
        /\ \A d \in Owners : \A q \in seen'[d] : q \in seen[d] \/ q \in Visible(m)
    BY <1>4 DEF Snapshot, SealedInv
  <2>2. \A q \in Visible(m) : q \in proposal /\ Meetings[q.meeting].propose <= now
    BY <1>0 DEF Visible, SealedInv
  <2>3. \A d \in Owners : \A q \in seen'[d] : q \in proposal /\ Meetings[q.meeting].propose <= now
    BY <2>1, <2>2 DEF SealedInv
  <2>. QED  BY <1>4, <2>1, <2>3 DEF Snapshot, SealedInv
<1>5. ASSUME NEW o, NEW p, NEW c, CastVote(o, p, c)
      PROVE  SealedInv'
  BY <1>5 DEF CastVote, SealedInv
<1>6. ASSUME NEW o, Sell(o)
      PROVE  SealedInv'
  BY <1>6 DEF Sell, SealedInv
<1>7. ASSUME NEW p \in proposal, PrepareRatification(p) \/ RatifyConstitution(p)
      PROVE  SealedInv'
  BY <1>7 DEF PrepareRatification, RatifyConstitution, Quorum, SealedInv
<1>. QED  BY <1>1, <1>2, <1>3, <1>4, <1>5, <1>6, <1>7 DEF GovernanceNext, TimePasses

\* What a step adds to the proposals and the votes.
LEMMA SealedActs ==
    ASSUME Dated, SealedInv, GovernanceNext
    PROVE  /\ \A p \in proposal' \ proposal : \A q \in seen[p.author] : q.meeting # p.meeting
           /\ \A v \in cast' \ cast : v[2] \notin decision
<1>0. \A m \in DOMAIN Meetings : Meetings[m].propose \in Nat /\ Meetings[m].vote \in Nat
  BY DEF Dated
<1>1. CASE UNCHANGED <<proposal, cast>>
  BY <1>1
<1>2. ASSUME NEW o \in Owners, NEW m \in DOMAIN Meetings, SubmitProposal(o, m)
      PROVE  /\ \A p \in proposal' \ proposal : \A q \in seen[p.author] : q.meeting # p.meeting
             /\ cast' = cast
  <2>1. \A p \in proposal' \ proposal : p.author = o /\ p.meeting = m
    BY <1>2 DEF SubmitProposal
  <2>2. now < Meetings[m].propose /\ cast' = cast
    BY <1>2 DEF SubmitProposal
  <2>3. \A q \in seen[o] : q.meeting # m
    BY <1>0, <2>2 DEF SealedInv
  <2>. QED  BY <2>1, <2>2, <2>3
<1>3. ASSUME NEW o, NEW p \in proposal, NEW c, CastVote(o, p, c)
      PROVE  /\ \A v \in cast' \ cast : v[2] \notin decision
             /\ proposal' = proposal
  <2>1. \A v \in cast' \ cast : v = <<o, p, c>>
    BY <1>3 DEF CastVote
  <2>2. p \notin decision
    BY <1>0, <1>3 DEF CastVote, SealedInv
  <2>. QED  BY <1>3, <2>1, <2>2 DEF CastVote
<1>. QED
  BY <1>1, <1>2, <1>3
  DEF GovernanceNext, TimePasses, OpenMeeting, Snapshot, Sell, PrepareRatification, RatifyConstitution

(* No owner proposes knowing another's proposal of the same meeting, and no  *)
(* vote is cast on what has been decided                                     *)
(* (league/governance.ts submitProposal, snapshot, castVote).                *)
THEOREM ProposalsStaySealed ==
    ASSUME Dated
    PROVE  GovernanceInit /\ [][GovernanceNext]_governanceVars => SealedAndSettled
<1>1. GovernanceInit => SealedInv
  BY DEF GovernanceInit, SealedInv
<1>2. SealedInv /\ [GovernanceNext]_governanceVars => SealedInv'
  <2>1. ASSUME SealedInv, UNCHANGED governanceVars
        PROVE  SealedInv'
    BY <2>1 DEF SealedInv, governanceVars
  <2>. QED  BY <2>1, SealedStep
<1>3. SealedInv /\ [GovernanceNext]_governanceVars =>
         [/\ \A p \in proposal' \ proposal : \A q \in seen[p.author] : q.meeting # p.meeting
          /\ \A v \in cast' \ cast : v[2] \notin decision]_governanceVars
  BY SealedActs
<1>. QED  BY <1>1, <1>2, <1>3, PTL DEF SealedAndSettled
=============================================================================
