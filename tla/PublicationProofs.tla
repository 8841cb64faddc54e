--------------------------- MODULE PublicationProofs ---------------------------
(***************************************************************************)
(* Proofs about the batches and the publisher, for any drafts, contents    *)
(* and publishers and any number of crashes and lost answers.              *)
(***************************************************************************)
EXTENDS Publication, TLAPS

-----------------------------------------------------------------------------
(* The shape of the state.                                                 *)

Statuses == {"none", "pending"} \cup Claimed \cup Final
Places == {"idle", "recovering", "claimed", "checked", "marked", "posting", "decided"}
AtItem == Places \ {"idle", "recovering"}
Ticks == [at : Places, item : Items \cup {NoItem}, seen : SUBSET (Items \X Claimed), outcome : {"none"} \cup Final]

Typed ==
    /\ version \in [Drafts -> Nat]
    /\ batches \in [Contents -> {"none", "prepared", "approved", "revoked"}]
    /\ posts \in [Items -> Statuses]
    /\ lapsed \subseteq Items /\ wire \subseteq Items
    /\ press \in [Publishers -> Ticks]
    /\ posted \in [Items -> Nat]
    /\ told \in [Items -> {"none"} \cup Final]
    /\ \A p \in Publishers : press[p].at \in AtItem => press[p].item \in Items

-----------------------------------------------------------------------------
(* The inductive invariant.  A row is claimed once, so a publisher is alone *)
(* with its item and knows how far it is; what a recovery has read of an    *)
(* item that was only being checked is still true when it acts on it,       *)
(* because nobody is left to go on with it; and what X carries agrees with  *)
(* the row.                                                                 *)

Holds(p, i) == press[p].at \in AtItem /\ press[p].item = i

AloneWithIt == \A p, q \in Publishers : \A i \in Items : Holds(p, i) /\ Holds(q, i) => p = q

Unsent(i) == posted[i] = 0 /\ i \notin wire
MayBeOut(i) == posted[i] \in {0, 1} /\ (i \in wire => posted[i] = 0)

Knows(p, i) ==
    /\ InTurn(i)
    /\ press[p].at \in {"claimed", "checked"} => posts[i] = "checking"
    /\ press[p].at \in {"marked", "decided"} => posts[i] \in {"sending", "uncertain"}
    /\ press[p].at = "posting" => posts[i] = "sending" /\ Approved(Batch(i))
    /\ press[p].at # "decided" => Unsent(i)
    /\ press[p].at = "decided" =>
          /\ press[p].outcome \in Final
          /\ press[p].outcome = "published" => posted[i] = 1 /\ i \notin wire
          /\ press[p].outcome \in {"rejected", "cancelled"} => Unsent(i)
PressKnows == \A p \in Publishers : \A i \in Items : Holds(p, i) => Knows(p, i)

Abandoned(i) == posts[i] \in {"checking"} \cup Final /\ ~\E p \in Publishers : Holds(p, i)
Started(i) == posts[i] \in {"sending"} \cup Final
SeenTrue == \A p \in Publishers : \A s \in press[p].seen :
               IF s[2] = "checking" THEN Abandoned(s[1]) ELSE Started(s[1])
LapsedTrue == \A i \in lapsed : Abandoned(i) \/ Started(i)

DeedOf(i) ==
    /\ MayBeOut(i)
    /\ posts[i] \in {"none", "pending", "checking", "rejected", "cancelled"} => Unsent(i)
    /\ posts[i] = "published" => posted[i] = 1 /\ i \notin wire
    /\ told[i] # "none" => told[i] = posts[i] /\ posts[i] \in Final
DeedsTrue == \A i \in Items : DeedOf(i)

PressInv == Typed /\ AloneWithIt /\ PressKnows /\ SeenTrue /\ LapsedTrue /\ DeedsTrue

-----------------------------------------------------------------------------
(* What steps may do.                                                      *)

\* A row only goes forward, is sent only by its holder, and a holder is new only where a
\* row was pending.
Forward(i) ==
    \/ posts'[i] = posts[i]
    \/ posts[i] = "none" /\ posts'[i] = "pending"
    \/ posts[i] = "pending" /\ posts'[i] = "checking"
    \/ posts[i] = "checking" /\ posts'[i] = "sending" /\ \E p \in Publishers : Holds(p, i)
    \/ posts[i] \in Claimed /\ posts'[i] \in Final
NewHolder(i) == \A p \in Publishers : Holds(p, i)' => Holds(p, i) \/ posts[i] = "pending"
Onward == \A i \in Items : Forward(i) /\ NewHolder(i)

LEMMA StatusesAre ==
    /\ Claimed = {"checking", "sending"} /\ Final = {"published", "rejected", "cancelled", "uncertain"}
    /\ Statuses = {"none", "pending", "checking", "sending", "published", "rejected", "cancelled", "uncertain"}
    /\ AtItem = {"claimed", "checked", "marked", "posting", "decided"}
  BY DEF Claimed, Final, Statuses, AtItem, Places

LEMMA AbandonedStays ==
    ASSUME Typed, NEW i \in Items, Forward(i), NewHolder(i), Abandoned(i)
    PROVE  Abandoned(i)'
<1>1. posts[i] \notin {"none", "pending", "sending"}
  BY StatusesAre DEF Abandoned
<1>2. ~\E p \in Publishers : Holds(p, i)'
  BY <1>1 DEF NewHolder, Abandoned
<1>3. posts'[i] \in {"checking"} \cup Final
  BY <1>1 DEF Forward, Abandoned
<1>. QED  BY <1>2, <1>3 DEF Abandoned

LEMMA StartedStays ==
    ASSUME Typed, NEW i \in Items, Forward(i), Started(i)
    PROVE  Started(i)'
  BY StatusesAre DEF Started, Forward

\* What recoveries have read, and which rows are overdue, stays true.
LEMMA SightStays ==
    ASSUME PressInv, Typed', Onward, lapsed' = lapsed,
           \A p \in Publishers : \A s \in press'[p].seen : s \in press[p].seen
    PROVE  SeenTrue' /\ LapsedTrue'
<1>1. ASSUME NEW p \in Publishers, NEW s \in press'[p].seen
      PROVE  (IF s[2] = "checking" THEN Abandoned(s[1]) ELSE Started(s[1]))'
  <2>1. PICK i \in Items : i = s[1]
    BY <1>1 DEF Typed, Ticks
  <2>2. IF s[2] = "checking" THEN Abandoned(i) ELSE Started(i)
    BY <1>1, <2>1 DEF PressInv, SeenTrue
  <2>3. IF s[2] = "checking" THEN Abandoned(i)' ELSE Started(i)'
    BY <2>2, AbandonedStays, StartedStays DEF Onward, PressInv
  <2>. QED  BY <2>1, <2>3
<1>2. ASSUME NEW i \in lapsed
      PROVE  Abandoned(i)' \/ Started(i)'
  <2>1. i \in Items /\ (Abandoned(i) \/ Started(i))
    BY DEF PressInv, Typed, LapsedTrue
  <2>. QED  BY <2>1, AbandonedStays, StartedStays DEF Onward, PressInv
<1>. QED  BY <1>1, <1>2 DEF SeenTrue, LapsedTrue

-----------------------------------------------------------------------------
(* One publisher moves, or none.                                           *)

Goes(p, b) == press' = [press EXCEPT ![p] = b]

LEMMA GoesIs ==
    ASSUME Typed, NEW p \in Publishers, NEW b \in Ticks, Goes(p, b), b.at \in AtItem => b.item \in Items
    PROVE  /\ press' \in [Publishers -> Ticks]
           /\ press'[p] = b
           /\ \A q \in Publishers \ {p} : press'[q] = press[q]
           /\ \A q \in Publishers : press'[q].at \in AtItem => press'[q].item \in Items
  BY DEF Typed, Goes

\* A post in flight sees nothing change; an item in the hands of a publisher can be put away as
\* uncertain while it is not in flight, and a post nobody waits for may come out.
Gently(q, i) ==
    /\ \A k \in Items : posts[k] = "published" => posts'[k] = "published"
    /\ UNCHANGED <<version, batches>> \/ DeskFree
    /\ \/ posts'[i] = posts[i]
       \/ posts[i] = "sending" /\ posts'[i] = "uncertain" /\ press[q].at # "posting"
    /\ \/ posted'[i] = posted[i] /\ (i \in wire' <=> i \in wire)
       \/ i \in wire

LEMMA InTurnStays ==
    ASSUME NEW i \in Items, \A k \in Items : posts[k] = "published" => posts'[k] = "published", InTurn(i)
    PROVE  InTurn(i)'
<1>1. ASSUME NEW d \in Drafts, d < i[2], Contains(Batch(i), d)
      PROVE  posts'[<<Batch(i), d>>] = "published"
  <2>1. posts[<<Batch(i), d>>] = "published"
    BY <1>1 DEF InTurn
  <2>2. <<Batch(i), d>> \in Items
    BY <1>1 DEF Items, Batch, Contains
  <2>. QED  BY <2>1, <2>2
<1>. QED  BY <1>1 DEF InTurn, Batch, Contains

LEMMA OthersKnow ==
    ASSUME PressInv, NEW q \in Publishers, NEW i \in Items, Holds(q, i), press'[q] = press[q], Gently(q, i)
    PROVE  Holds(q, i)' /\ Knows(q, i)'
<1>1. Knows(q, i) /\ Holds(q, i)'
  BY DEF PressInv, PressKnows, Holds
<1>2. InTurn(i)'
  BY <1>1, InTurnStays DEF Gently, Knows
<1>3. press[q].at = "posting" => posts'[i] = "sending" /\ Approved(Batch(i))'
  <2>1. press[q].at = "posting" => ~DeskFree
    BY DEF DeskFree
  <2>. QED  BY <1>1, <2>1 DEF Gently, Knows, Approved, Batch, Latest, Contains
<1>4. /\ press[q].at \in {"claimed", "checked"} => posts'[i] = "checking"
      /\ press[q].at \in {"marked", "decided"} => posts'[i] \in {"sending", "uncertain"}
  BY <1>1 DEF Gently, Knows
<1>5. /\ press[q].at # "decided" => Unsent(i)'
      /\ press[q].at = "decided" /\ press[q].outcome = "published" => posted'[i] = 1 /\ i \notin wire'
      /\ press[q].at = "decided" /\ press[q].outcome \in {"rejected", "cancelled"} => Unsent(i)'
  BY <1>1 DEF Gently, Knows, Unsent
<1>. QED  BY <1>1, <1>2, <1>3, <1>4, <1>5 DEF Knows

\* A step in which nobody moves at the desk.
LEMMA DeskStands ==
    ASSUME PressInv, Typed', press' = press,
           \A q \in Publishers : \A i \in Items : Holds(q, i) => Gently(q, i)
    PROVE  AloneWithIt' /\ PressKnows'
<1>1. ASSUME NEW q \in Publishers, NEW i \in Items, Holds(q, i)'
      PROVE  Knows(q, i)'
  BY <1>1, OthersKnow DEF Holds
<1>. QED  BY <1>1 DEF PressInv, AloneWithIt, PressKnows, Holds

\* A step of one publisher, with the item it had, with a new one nobody has, or with none.
LEMMA DeskMoves ==
    ASSUME PressInv, Typed', NEW p \in Publishers, NEW b \in Ticks, Goes(p, b),
           b.at \in AtItem => /\ b.item \in Items
                              /\ Holds(p, b.item) \/ posts[b.item] = "pending"
                              /\ \E i \in Items : i = b.item /\ Knows(p, i)',
           \A q \in Publishers \ {p} : \A i \in Items : Holds(q, i) => Gently(q, i)
    PROVE  AloneWithIt' /\ PressKnows' /\ \A i \in Items : NewHolder(i)
<1>1. press'[p] = b /\ \A q \in Publishers \ {p} : press'[q] = press[q]
  BY GoesIs DEF PressInv
<1>2. \A q \in Publishers \ {p} : \A i \in Items : Holds(q, i)' <=> Holds(q, i)
  BY <1>1 DEF Holds
<1>3. \A i \in Items : Holds(p, i)' => b.at \in AtItem /\ b.item = i /\ (Holds(p, i) \/ posts[i] = "pending")
  BY <1>1 DEF Holds
<1>4. \A q \in Publishers : \A i \in Items : Holds(q, i) => posts[i] # "pending"
  BY StatusesAre DEF PressInv, PressKnows, Knows, Holds
<1>5. AloneWithIt'
  <2>1. ASSUME NEW r \in Publishers, NEW q \in Publishers, NEW i \in Items, Holds(r, i)', Holds(q, i)'
        PROVE  r = q
    BY <1>2, <1>3, <1>4, <2>1 DEF PressInv, AloneWithIt
  <2>. QED  BY <2>1 DEF AloneWithIt
<1>6. PressKnows'
  <2>1. ASSUME NEW q \in Publishers, NEW i \in Items, Holds(q, i)'
        PROVE  Knows(q, i)'
    <3>1. CASE q = p
      BY <1>3, <2>1, <3>1
    <3>2. CASE q # p
      BY <1>1, <1>2, <2>1, <3>2, OthersKnow
    <3>. QED  BY <3>1, <3>2
  <2>. QED  BY <2>1 DEF PressKnows
<1>. QED  BY <1>2, <1>3, <1>5, <1>6 DEF NewHolder

-----------------------------------------------------------------------------
(* Steps of the newsroom, and of one publisher with one row.               *)

LEMMA RowGoes ==
    ASSUME Typed, NEW i \in Items, NEW s \in Statuses, posts' = [posts EXCEPT ![i] = s]
    PROVE  /\ posts' \in [Items -> Statuses] /\ posts'[i] = s
           /\ \A k \in Items \ {i} : posts'[k] = posts[k]
  BY DEF Typed

\* Nothing changes that publishers, recoveries or X know of.
LEMMA NewsroomKeeps ==
    ASSUME PressInv, Typed', DeskFree \/ UNCHANGED <<version, batches>>,
           UNCHANGED <<posts, lapsed, press, wire, posted, told>>
    PROVE  PressInv'
<1>1. \A q \in Publishers : \A i \in Items : Gently(q, i)
  BY DEF Gently
<1>2. Onward
  BY DEF Onward, Forward, NewHolder, Holds
<1>3. DeedsTrue'
  BY DEF PressInv, DeedsTrue, DeedOf, MayBeOut, Unsent
<1>. QED  BY <1>1, <1>2, <1>3, DeskStands, SightStays DEF PressInv

\* A publisher stops, starts or crashes, and no row changes.
LEMMA RestKeeps ==
    ASSUME PressInv, NEW p \in Publishers, NEW b \in Ticks, Goes(p, b), b.at \notin AtItem,
           b.seen \subseteq press[p].seen,
           UNCHANGED <<version, batches, posts, lapsed, told, posted, wire>>
    PROVE  PressInv'
<1>1. \A q \in Publishers : \A i \in Items : Gently(q, i)
  BY DEF Gently
<1>2. Typed'
  BY GoesIs DEF PressInv, Typed
<1>3. AloneWithIt' /\ PressKnows' /\ \A i \in Items : NewHolder(i)
  BY <1>1, <1>2, DeskMoves
<1>4. Onward
  BY <1>3 DEF Onward, Forward
<1>5. \A q \in Publishers : \A s \in press'[q].seen : s \in press[q].seen
  BY GoesIs DEF PressInv
<1>6. DeedsTrue'
  BY DEF PressInv, DeedsTrue, DeedOf, MayBeOut, Unsent
<1>. QED  BY <1>2, <1>3, <1>4, <1>5, <1>6, SightStays DEF PressInv

LEMMA TickKeeps ==
    ASSUME PressInv, NEW p \in Publishers, NEW b \in Ticks, Goes(p, b), b.seen \subseteq press[p].seen,
           NEW i \in Items, NEW s \in Statuses, posts' = [posts EXCEPT ![i] = s],
           UNCHANGED <<version, batches, lapsed, told>>,
           posted' \in [Items -> Nat], wire' \subseteq Items,
           \A k \in Items \ {i} : posted'[k] = posted[k] /\ (k \in wire' <=> k \in wire),
           b.at \in AtItem => b.item = i /\ (Holds(p, i) \/ posts[i] = "pending") /\ Knows(p, i)',
           Forward(i), DeedOf(i)',
           \A q \in Publishers \ {p} : Holds(q, i) => Gently(q, i)
    PROVE  PressInv'
<1>1. /\ posts' \in [Items -> Statuses] /\ posts'[i] = s
      /\ \A k \in Items \ {i} : posts'[k] = posts[k]
  BY RowGoes DEF PressInv
<1>2. \A k \in Items : Forward(k)
  BY <1>1 DEF Forward
<1>3. \A k \in Items : posts[k] = "published" => posts'[k] = "published"
  BY <1>2, StatusesAre DEF Forward
<1>4. \A q \in Publishers \ {p} : \A k \in Items : Holds(q, k) => Gently(q, k)
  BY <1>1, <1>3 DEF Gently
<1>5. Typed'
  BY <1>1, GoesIs DEF PressInv, Typed
<1>6. AloneWithIt' /\ PressKnows' /\ \A k \in Items : NewHolder(k)
  BY <1>4, <1>5, DeskMoves
<1>7. Onward
  BY <1>2, <1>6 DEF Onward
<1>8. \A q \in Publishers : \A r \in press'[q].seen : r \in press[q].seen
  BY GoesIs DEF PressInv
<1>9. DeedsTrue'
  <2>1. ASSUME NEW k \in Items, k # i
        PROVE  DeedOf(k)'
    BY <1>1, <2>1 DEF PressInv, DeedsTrue, DeedOf, MayBeOut, Unsent
  <2>. QED  BY <2>1 DEF DeedsTrue
<1>. QED  BY <1>5, <1>6, <1>7, <1>8, <1>9, SightStays DEF PressInv

-----------------------------------------------------------------------------
(* The actions.                                                            *)

LEMMA SaveKeeps ==
    ASSUME PressInv, NEW d \in Drafts, SaveDraft(d)
    PROVE  PressInv'
<1>1. version' \in [Drafts -> Nat]
  BY DEF SaveDraft, PressInv, Typed
<1>2. batches' \in [Contents -> {"none", "prepared", "approved", "revoked"}]
  BY DEF SaveDraft, PressInv, Typed
<1>3. Typed'
  BY <1>1, <1>2 DEF SaveDraft, PressInv, Typed
<1>. QED  BY <1>3, NewsroomKeeps DEF SaveDraft

LEMMA BatchKeeps ==
    ASSUME PressInv, NEW c \in Contents, PrepareBatch(c) \/ ApproveBatch(c) \/ RevokeBatch(c)
    PROVE  PressInv'
<1>1. Typed'
  BY DEF PrepareBatch, ApproveBatch, RevokeBatch, PressInv, Typed
<1>. QED  BY <1>1, NewsroomKeeps DEF PrepareBatch, ApproveBatch, RevokeBatch

LEMMA EnqueueKeeps ==
    ASSUME PressInv, NEW c \in Contents, EnqueueX(c)
    PROVE  PressInv'
<1>1. \A i \in Items : Batch(i) = c => posts[i] = "none"
  <2>1. ASSUME NEW i \in Items, Batch(i) = c
        PROVE  posts[i] = "none"
    <3>1. i[2] \in Drafts /\ Contains(c, i[2]) /\ i = <<c, i[2]>>
      BY <2>1 DEF Items, Batch, Contains
    <3>. QED  BY <3>1 DEF EnqueueX
  <2>. QED  BY <2>1
<1>2. \A i \in Items : posts'[i] = IF Batch(i) = c THEN "pending" ELSE posts[i]
  BY DEF EnqueueX
<1>3. Typed'
  BY StatusesAre DEF EnqueueX, PressInv, Typed
<1>4. Onward
  BY <1>1, <1>2 DEF EnqueueX, Onward, Forward, NewHolder, Holds
<1>5. \A q \in Publishers : \A i \in Items : Holds(q, i) => Gently(q, i)
  <2>1. ASSUME NEW q \in Publishers, NEW i \in Items, Holds(q, i)
        PROVE  posts[i] # "none"
    BY <2>1, StatusesAre DEF PressInv, PressKnows, Knows, Holds
  <2>. QED  BY <1>1, <1>2, <2>1 DEF Gently, EnqueueX
<1>6. DeedsTrue'
  <2>1. ASSUME NEW i \in Items
        PROVE  DeedOf(i)'
    BY <1>1, <1>2, StatusesAre DEF EnqueueX, PressInv, DeedsTrue, DeedOf, MayBeOut, Unsent
  <2>. QED  BY <2>1 DEF DeedsTrue
<1>. QED  BY <1>3, <1>4, <1>5, <1>6, DeskStands, SightStays DEF EnqueueX, PressInv

\* What a recovery reads as being checked has nobody left who would go on with it.
LEMMA RecoverReadKeeps ==
    ASSUME PressInv, NEW p \in Publishers, RecoverRead(p)
    PROVE  PressInv'
<1>1. PICK seen : seen = {<<i, posts[i]>> : i \in {j \in lapsed : posts[j] \in Claimed}}
  OBVIOUS
<1>2. seen \in SUBSET (Items \X Claimed)
  BY <1>1 DEF PressInv, Typed
<1>3. PICK b : b = [press[p] EXCEPT !.at = "recovering", !.seen = seen]
  OBVIOUS
<1>4. b \in Ticks /\ b.at = "recovering" /\ b.seen = seen
  BY <1>2, <1>3 DEF PressInv, Typed, Ticks, Places
<1>5. Goes(p, b) /\ b.at \notin AtItem
  <2>1. press' = [press EXCEPT ![p].at = "recovering", ![p].seen = seen]
    BY <1>1 DEF RecoverRead
  <2>2. Goes(p, b)
    BY <1>3, <2>1 DEF Goes, PressInv, Typed
  <2>. QED  BY <1>4, <2>2, StatusesAre
<1>6. UNCHANGED <<version, batches, posts, lapsed, wire, posted, told>>
  BY DEF RecoverRead, newsroom
<1>7. press'[p] = b /\ \A q \in Publishers \ {p} : press'[q] = press[q]
  BY <1>4, <1>5, GoesIs DEF PressInv
<1>8. Typed'
  BY <1>4, <1>5, <1>6, GoesIs DEF PressInv, Typed
<1>9. AloneWithIt' /\ PressKnows' /\ \A i \in Items : NewHolder(i)
  <2>1. \A q \in Publishers : \A i \in Items : Gently(q, i)
    BY <1>6 DEF Gently
  <2>. QED  BY <1>4, <1>5, <1>8, <2>1, DeskMoves
<1>10. \A i \in Items : (Abandoned(i) => Abandoned(i)') /\ (Started(i) => Started(i)')
  BY <1>6, <1>9, AbandonedStays, StartedStays DEF Forward, PressInv
<1>11. SeenTrue'
  <2>1. ASSUME NEW q \in Publishers, NEW s \in press'[q].seen
        PROVE  (IF s[2] = "checking" THEN Abandoned(s[1]) ELSE Started(s[1]))'
    <3>1. CASE q # p
      <4>1. PICK i \in Items : i = s[1]
        BY <1>8, <2>1 DEF Typed, Ticks
      <4>2. IF s[2] = "checking" THEN Abandoned(i) ELSE Started(i)
        BY <1>7, <2>1, <3>1, <4>1 DEF PressInv, SeenTrue
      <4>. QED  BY <1>10, <4>1, <4>2
    <3>2. CASE q = p
      <4>1. PICK i \in lapsed : s = <<i, posts[i]>> /\ posts[i] \in Claimed
        BY <1>1, <1>4, <1>7, <2>1, <3>2
      <4>2. i \in Items /\ (Abandoned(i) \/ Started(i))
        BY DEF PressInv, Typed, LapsedTrue
      <4>3. IF s[2] = "checking" THEN Abandoned(i) ELSE Started(i)
        BY <4>1, <4>2, StatusesAre DEF Abandoned, Started
      <4>. QED  BY <1>10, <4>1, <4>2, <4>3
    <3>. QED  BY <3>1, <3>2
  <2>. QED  BY <2>1 DEF SeenTrue
<1>12. LapsedTrue'
  BY <1>6, <1>10 DEF PressInv, Typed, LapsedTrue
<1>13. DeedsTrue'
  BY <1>6 DEF PressInv, DeedsTrue, DeedOf, MayBeOut, Unsent
<1>. QED  BY <1>8, <1>9, <1>11, <1>12, <1>13 DEF PressInv

LEMMA PrefixIs ==
    ASSUME PressInv, NEW p \in Publishers, press[p].at \in AtItem
    PROVE  \E i \in Items : /\ i = press[p].item /\ Holds(p, i) /\ Knows(p, i)
                            /\ \A q \in Publishers \ {p} : ~Holds(q, i)
  BY DEF PressInv, Typed, Holds, AloneWithIt, PressKnows

LEMMA RestIs == AtRest \in Ticks /\ AtRest.at = "idle" /\ AtRest.seen = {} /\ AtRest.at \notin AtItem
  BY DEF AtRest, Ticks, Places, AtItem, NoItem, Final

LEMMA TurnsTo ==
    ASSUME Typed, NEW p \in Publishers, NEW at \in Places, Turns(p, at)
    PROVE  \E b \in Ticks : /\ Goes(p, b) /\ b.seen = press[p].seen
                            /\ b.at = at /\ b.item = press[p].item
<1>1. PICK b : b = [press[p] EXCEPT !.at = at]
  OBVIOUS
<1>2. b \in Ticks /\ b.seen = press[p].seen /\ b.at = at /\ b.item = press[p].item
  BY <1>1 DEF Typed, Ticks
<1>3. Goes(p, b)
  BY <1>1 DEF Turns, Goes, Typed
<1>. QED  BY <1>2, <1>3

Decided(p, outcome) == press' = [press EXCEPT ![p].at = "decided", ![p].outcome = outcome]

LEMMA DecidedIs ==
    ASSUME Typed, NEW p \in Publishers, NEW outcome \in Final, Decided(p, outcome)
    PROVE  \E b \in Ticks : /\ Goes(p, b) /\ b.seen = press[p].seen
                            /\ b.at = "decided" /\ b.item = press[p].item /\ b.outcome = outcome
<1>1. PICK b : b = [press[p] EXCEPT !.at = "decided", !.outcome = outcome]
  OBVIOUS
<1>2. /\ b \in Ticks /\ b.seen = press[p].seen /\ b.at = "decided" /\ b.item = press[p].item
      /\ b.outcome = outcome
  BY <1>1 DEF Typed, Ticks, Places
<1>3. Goes(p, b)
  BY <1>1 DEF Decided, Goes, Typed
<1>. QED  BY <1>2, <1>3

\* A row put away is no longer to be told of, and nobody has told of it.
LEMMA Untold ==
    ASSUME PressInv, NEW i \in Items, posts[i] \notin Final
    PROVE  told[i] = "none" /\ MayBeOut(i)
  BY DEF PressInv, DeedsTrue, DeedOf

\* An interrupted check is put away as not sent: nobody goes on with it.
LEMMA RecoverOneKeeps ==
    ASSUME PressInv, NEW p \in Publishers, RecoverOne(p)
    PROVE  PressInv'
<1>1. PICK s \in press[p].seen :
         /\ press[p].at = "recovering"
         /\ RowFree(s[1])
         /\ Finishes(s[1], IF s[2] = "sending" THEN "uncertain" ELSE "rejected")
         /\ press' = [press EXCEPT ![p].seen = @ \ {s}]
         /\ UNCHANGED <<version, batches, lapsed, wire, posted, told>>
  BY DEF RecoverOne, newsroom
<1>2. PICK i \in Items : i = s[1]
  BY DEF PressInv, Typed, Ticks
<1>3. PICK b : b = [press[p] EXCEPT !.seen = @ \ {s}]
  OBVIOUS
<1>4. b \in Ticks /\ b.at = "recovering" /\ b.seen \subseteq press[p].seen
  BY <1>1, <1>3 DEF PressInv, Typed, Ticks
<1>5. Goes(p, b) /\ b.at \notin AtItem
  BY <1>1, <1>3, <1>4, StatusesAre DEF Goes, PressInv, Typed
<1>6. CASE posts[i] \notin Claimed
  BY <1>1, <1>2, <1>4, <1>5, <1>6, RestKeeps DEF Finishes
<1>7. CASE posts[i] \in Claimed /\ s[2] = "checking"
  <2>1. posts[i] = "checking" /\ \A q \in Publishers : ~Holds(q, i)
    BY <1>2, <1>7, StatusesAre DEF PressInv, SeenTrue, Abandoned
  <2>2. posts' = [posts EXCEPT ![i] = "rejected"]
    BY <1>1, <1>2, <1>7 DEF Finishes
  <2>3. posts'[i] = "rejected" /\ Forward(i)
    BY <1>7, <2>2, RowGoes, StatusesAre DEF Forward, PressInv
  <2>4. DeedOf(i)'
    BY <1>1, <2>1, <2>3, Untold, StatusesAre DEF PressInv, DeedsTrue, DeedOf, MayBeOut, Unsent
  <2>5. posted' \in [Items -> Nat] /\ wire' \subseteq Items
    BY <1>1 DEF PressInv, Typed
  <2>. QED  BY <1>1, <1>4, <1>5, <2>1, <2>2, <2>3, <2>4, <2>5, TickKeeps, StatusesAre
<1>8. CASE posts[i] \in Claimed /\ s[2] # "checking"
  <2>1. s[2] = "sending" /\ posts[i] = "sending"
    BY <1>2, <1>8, StatusesAre DEF PressInv, SeenTrue, Started, Typed, Ticks
  <2>2. posts' = [posts EXCEPT ![i] = "uncertain"]
    BY <1>1, <1>2, <1>8, <2>1 DEF Finishes
  <2>3. posts'[i] = "uncertain" /\ Forward(i)
    BY <1>8, <2>2, RowGoes, StatusesAre DEF Forward, PressInv
  <2>4. DeedOf(i)'
    BY <1>1, <2>1, <2>3, Untold, StatusesAre DEF PressInv, DeedsTrue, DeedOf, MayBeOut, Unsent
  <2>5. posted' \in [Items -> Nat] /\ wire' \subseteq Items
    BY <1>1 DEF PressInv, Typed
  <2>6. \A q \in Publishers \ {p} : Holds(q, i) => Gently(q, i)
    <3>1. \A k \in Items : posts[k] = "published" => posts'[k] = "published"
      BY <2>1, <2>2 DEF PressInv, Typed
    <3>. QED  BY <1>1, <1>2, <2>1, <2>3, <3>1 DEF Gently, RowFree, Holds
  <2>. QED  BY <1>1, <1>4, <1>5, <2>2, <2>3, <2>4, <2>5, <2>6, TickKeeps, StatusesAre
<1>. QED  BY <1>6, <1>7, <1>8

\* An item is claimed when it is pending, so by one publisher, and in its turn.
LEMMA ClaimKeeps ==
    ASSUME PressInv, NEW p \in Publishers, ClaimItem(p)
    PROVE  PressInv'
<1>1. UNCHANGED <<version, batches, lapsed, wire, posted, told>> /\ press[p].seen = {}
  BY DEF ClaimItem, newsroom
<1>2. CASE Ends(p) /\ UNCHANGED posts
  BY <1>1, <1>2, RestIs, RestKeeps DEF Ends, Goes
<1>3. CASE \E i \in Items : /\ posts[i] = "pending" /\ InTurn(i)
                            /\ posts' = [posts EXCEPT ![i] = "checking"]
                            /\ press' = [press EXCEPT ![p].at = "claimed", ![p].item = i]
  <2>1. PICK i \in Items : /\ posts[i] = "pending" /\ InTurn(i)
                           /\ posts' = [posts EXCEPT ![i] = "checking"]
                           /\ press' = [press EXCEPT ![p].at = "claimed", ![p].item = i]
    BY <1>3
  <2>2. PICK b : b = [press[p] EXCEPT !.at = "claimed", !.item = i]
    OBVIOUS
  <2>3. b \in Ticks /\ b.at = "claimed" /\ b.item = i /\ b.seen = press[p].seen
    BY <2>2 DEF PressInv, Typed, Ticks, Places
  <2>4. Goes(p, b)
    BY <2>1, <2>2 DEF Goes, PressInv, Typed
  <2>5. /\ posts'[i] = "checking" /\ Forward(i) /\ press'[p] = b
        /\ \A k \in Items : posts[k] = "published" => posts'[k] = "published"
    BY <2>1, <2>3, <2>4, RowGoes, GoesIs, StatusesAre DEF Forward, PressInv
  <2>6. Unsent(i)
    BY <2>1 DEF PressInv, DeedsTrue, DeedOf
  <2>7. Knows(p, i)'
    BY <1>1, <2>1, <2>3, <2>5, <2>6, InTurnStays DEF Knows, Unsent
  <2>8. DeedOf(i)'
    BY <1>1, <2>1, <2>5, <2>6, Untold, StatusesAre DEF DeedOf, MayBeOut, Unsent
  <2>9. \A q \in Publishers : ~Holds(q, i)
    BY <2>1, StatusesAre DEF PressInv, PressKnows, Knows, Holds
  <2>10. posted' \in [Items -> Nat] /\ wire' \subseteq Items
    BY <1>1 DEF PressInv, Typed
  <2>. QED  BY <1>1, <2>1, <2>3, <2>4, <2>5, <2>7, <2>8, <2>9, <2>10, TickKeeps, StatusesAre
<1>. QED  BY <1>2, <1>3 DEF ClaimItem

\* A publisher goes on with its item, or puts it away and rests; X is not touched.
LEMMA HolderKeeps ==
    ASSUME PressInv, NEW p \in Publishers, NEW i \in Items, Holds(p, i),
           NEW b \in Ticks, Goes(p, b), b.seen \subseteq press[p].seen,
           NEW s \in Statuses, posts' = [posts EXCEPT ![i] = s],
           UNCHANGED <<version, batches, lapsed, told, posted, wire>>,
           b.at \in AtItem => b.item = i /\ Knows(p, i)',
           s = posts[i] \/ (posts[i] \in Claimed /\ s \in Final) \/ (posts[i] = "checking" /\ s = "sending"),
           s \in {"rejected", "cancelled"} => Unsent(i),
           s = "published" => posted[i] = 1 /\ i \notin wire
    PROVE  PressInv'
<1>1. posts'[i] = s /\ Forward(i)
  BY RowGoes DEF Forward, PressInv
<1>2. DeedOf(i)'
  BY <1>1, Untold, StatusesAre DEF PressInv, DeedsTrue, DeedOf, MayBeOut, Unsent
<1>3. \A q \in Publishers \ {p} : ~Holds(q, i)
  BY DEF PressInv, AloneWithIt
<1>4. posted' \in [Items -> Nat] /\ wire' \subseteq Items
  BY DEF PressInv, Typed
<1>. QED  BY <1>1, <1>2, <1>3, <1>4, TickKeeps

LEMMA CheckKeeps ==
    ASSUME PressInv, NEW p \in Publishers, CheckItem(p)
    PROVE  PressInv'
<1>1. press[p].at = "claimed" /\ UNCHANGED <<version, batches, lapsed, wire, posted, told>>
  BY DEF CheckItem, newsroom
<1>2. PICK i \in Items : i = press[p].item /\ Holds(p, i) /\ Knows(p, i)
  BY <1>1, PrefixIs, StatusesAre
<1>3. posts[i] = "checking" /\ Unsent(i) /\ InTurn(i)
  BY <1>1, <1>2 DEF Knows
<1>4. CASE Turns(p, "checked") /\ UNCHANGED posts
  <2>1. PICK b \in Ticks : Goes(p, b) /\ b.seen = press[p].seen /\ b.at = "checked" /\ b.item = i
    BY <1>2, <1>4, TurnsTo DEF PressInv, Places
  <2>2. press'[p] = b
    BY <2>1, GoesIs DEF PressInv
  <2>3. Knows(p, i)'
    BY <1>1, <1>3, <1>4, <2>1, <2>2 DEF Knows, Unsent, InTurn, Batch, Contains
  <2>4. posts' = [posts EXCEPT ![i] = posts[i]]
    BY <1>4 DEF PressInv, Typed
  <2>. QED  BY <1>1, <1>2, <1>3, <2>1, <2>3, <2>4, HolderKeeps, StatusesAre
<1>5. ASSUME NEW s \in {"cancelled", "rejected"}, Finishes(i, s), Ends(p)
      PROVE  PressInv'
  <2>1. posts' = [posts EXCEPT ![i] = s]
    BY <1>3, <1>5, StatusesAre DEF Finishes
  <2>. QED  BY <1>1, <1>2, <1>3, <1>5, <2>1, RestIs, HolderKeeps, StatusesAre DEF Ends, Goes
<1>. QED  BY <1>2, <1>4, <1>5 DEF CheckItem

LEMMA MarkKeeps ==
    ASSUME PressInv, NEW p \in Publishers, MarkSending(p)
    PROVE  PressInv'
<1>1. press[p].at = "checked" /\ Turns(p, "marked") /\ UNCHANGED <<version, batches, lapsed, wire, posted, told>>
  BY DEF MarkSending, newsroom
<1>2. PICK i \in Items : i = press[p].item /\ Holds(p, i) /\ Knows(p, i)
  BY <1>1, PrefixIs, StatusesAre
<1>3. posts[i] = "checking" /\ Unsent(i) /\ InTurn(i)
  BY <1>1, <1>2 DEF Knows
<1>4. posts' = [posts EXCEPT ![i] = "sending"]
  BY <1>2, <1>3 DEF MarkSending
<1>5. PICK b \in Ticks : Goes(p, b) /\ b.seen = press[p].seen /\ b.at = "marked" /\ b.item = i
  BY <1>1, <1>2, TurnsTo DEF PressInv, Places
<1>6. /\ press'[p] = b /\ posts'[i] = "sending"
      /\ \A k \in Items : posts[k] = "published" => posts'[k] = "published"
  <2>1. press'[p] = b
    BY <1>2, <1>5, GoesIs DEF PressInv
  <2>2. posts'[i] = "sending" /\ \A k \in Items \ {i} : posts'[k] = posts[k]
    BY <1>4 DEF PressInv, Typed
  <2>. QED  BY <1>3, <2>1, <2>2
<1>7. Knows(p, i)'
  BY <1>1, <1>3, <1>5, <1>6, InTurnStays DEF Knows, Unsent
<1>. QED  BY <1>1, <1>2, <1>3, <1>4, <1>5, <1>7, HolderKeeps, StatusesAre

\* A post begins only when the row is still sending and its batch approved.
LEMMA BeginKeeps ==
    ASSUME PressInv, NEW p \in Publishers, BeginPost(p)
    PROVE  PressInv'
<1>1. press[p].at = "marked" /\ UNCHANGED <<version, batches, posts, lapsed, wire, posted, told>>
  BY DEF BeginPost, newsroom
<1>2. PICK i \in Items : i = press[p].item /\ Holds(p, i) /\ Knows(p, i)
  BY <1>1, PrefixIs, StatusesAre
<1>3. posts[i] \in {"sending", "uncertain"} /\ Unsent(i) /\ InTurn(i) /\ InTurn(i)'
  BY <1>1, <1>2, InTurnStays DEF Knows
<1>4. posts' = [posts EXCEPT ![i] = posts[i]]
  BY <1>1 DEF PressInv, Typed
<1>5. PICK b \in Ticks : /\ Goes(p, b) /\ b.seen = press[p].seen /\ b.item = i
                         /\ \/ Ready(i) /\ b.at = "posting"
                            \/ b.at = "decided" /\ b.outcome = "cancelled"
  <2>1. CASE Ready(i)
    <3>1. Turns(p, "posting")
      BY <1>2, <2>1 DEF BeginPost, Turns
    <3>. QED  BY <1>2, <2>1, <3>1, TurnsTo DEF PressInv, Places
  <2>2. CASE ~Ready(i)
    <3>1. Decided(p, "cancelled") /\ "cancelled" \in Final
      BY <1>2, <2>2, StatusesAre DEF BeginPost, Decided
    <3>. QED  BY <1>2, <2>2, <3>1, DecidedIs DEF PressInv
  <2>. QED  BY <2>1, <2>2
<1>6. press'[p] = b
  BY <1>2, <1>5, GoesIs DEF PressInv
<1>7. Knows(p, i)'
  <2>1. Ready(i) => posts'[i] = "sending" /\ Approved(Batch(i))'
    BY <1>1 DEF Ready, Approved, Batch, Latest, Contains
  <2>. QED  BY <1>1, <1>3, <1>5, <1>6, <2>1, StatusesAre DEF Knows, Unsent
<1>. QED  BY <1>1, <1>2, <1>3, <1>4, <1>5, <1>7, HolderKeeps, StatusesAre

\* The post: carried, refused, or without an answer, under way perhaps.
LEMMA PostKeeps ==
    ASSUME PressInv, NEW p \in Publishers, PostItem(p)
    PROVE  PressInv'
<1>1. press[p].at = "posting" /\ UNCHANGED <<version, batches, posts, lapsed, told>>
  BY DEF PostItem, newsroom
<1>2. PICK i \in Items : /\ i = press[p].item /\ Holds(p, i) /\ Knows(p, i)
                         /\ \A q \in Publishers \ {p} : ~Holds(q, i)
  BY <1>1, PrefixIs, StatusesAre
<1>3. posts[i] = "sending" /\ Unsent(i) /\ InTurn(i) /\ InTurn(i)'
  BY <1>1, <1>2, InTurnStays DEF Knows
<1>4. PICK outcome \in {"published", "rejected", "uncertain"} :
         /\ Decided(p, outcome)
         /\ \/ posted' = [posted EXCEPT ![i] = @ + 1] /\ wire' = wire /\ outcome # "rejected"
            \/ posted' = posted /\ wire' = wire \cup {i} /\ outcome = "uncertain"
            \/ posted' = posted /\ wire' = wire /\ outcome # "published"
  BY <1>2 DEF PostItem, Decided
<1>5. PICK b \in Ticks : Goes(p, b) /\ b.seen = press[p].seen /\ b.item = i /\ b.at = "decided" /\ b.outcome = outcome
  BY <1>2, <1>4, DecidedIs, StatusesAre DEF PressInv
<1>6. press'[p] = b
  BY <1>2, <1>5, GoesIs DEF PressInv
<1>7. /\ posted' \in [Items -> Nat] /\ wire' \subseteq Items
      /\ \A k \in Items \ {i} : posted'[k] = posted[k] /\ (k \in wire' <=> k \in wire)
      /\ posted'[i] \in {0, 1} /\ (i \in wire' => posted'[i] = 0)
      /\ outcome = "published" => posted'[i] = 1 /\ i \notin wire'
      /\ outcome = "rejected" => posted'[i] = 0 /\ i \notin wire'
  BY <1>3, <1>4 DEF PressInv, Typed, Unsent
<1>8. Knows(p, i)'
  BY <1>1, <1>3, <1>5, <1>6, <1>7, StatusesAre DEF Knows, Unsent
<1>9. DeedOf(i)'
  BY <1>1, <1>3, <1>7, Untold, StatusesAre DEF DeedOf, MayBeOut, Unsent
<1>10. posts' = [posts EXCEPT ![i] = posts[i]] /\ posts[i] \in Statuses /\ Forward(i)
  BY <1>1 DEF PressInv, Typed, Forward
<1>. QED  BY <1>1, <1>2, <1>5, <1>7, <1>8, <1>9, <1>10, TickKeeps

LEMMA FinishKeeps ==
    ASSUME PressInv, NEW p \in Publishers, Finish(p)
    PROVE  PressInv'
<1>1. press[p].at = "decided" /\ Ends(p) /\ UNCHANGED <<version, batches, lapsed, wire, posted, told>>
  BY DEF Finish, newsroom
<1>2. PICK i \in Items : i = press[p].item /\ Holds(p, i) /\ Knows(p, i)
  BY <1>1, PrefixIs, StatusesAre
<1>3. PICK outcome \in Final : outcome = press[p].outcome
  BY <1>1, <1>2 DEF Knows
<1>4. /\ posts[i] \in {"sending", "uncertain"} /\ posts[i] \in Statuses
      /\ outcome = "published" => posted[i] = 1 /\ i \notin wire
      /\ outcome \in {"rejected", "cancelled"} => Unsent(i)
  BY <1>1, <1>2, <1>3 DEF Knows, PressInv, Typed
<1>5. PICK s \in Statuses : /\ s = IF posts[i] \in Claimed THEN outcome ELSE posts[i]
                            /\ s \in Final
  BY <1>3, <1>4, StatusesAre
<1>6. posts' = [posts EXCEPT ![i] = s]
  BY <1>2, <1>3, <1>5 DEF Finish, Finishes, PressInv, Typed
<1>7. Goes(p, AtRest) /\ AtRest \in Ticks /\ AtRest.seen \subseteq press[p].seen /\ AtRest.at \notin AtItem
  BY <1>1, RestIs DEF Ends, Goes
<1>. QED  BY <1>1, <1>2, <1>4, <1>5, <1>6, <1>7, HolderKeeps, StatusesAre

LEMMA ReceiptKeeps ==
    ASSUME PressInv, NEW i \in Items, DeliverReceipt(i)
    PROVE  PressInv'
<1>1. /\ posts[i] \in Final /\ told' = [told EXCEPT ![i] = posts[i]]
      /\ UNCHANGED <<version, batches, posts, lapsed, press, wire, posted>>
  BY DEF DeliverReceipt, newsroom
<1>2. Typed'
  BY <1>1 DEF PressInv, Typed
<1>3. \A q \in Publishers : \A k \in Items : Gently(q, k)
  BY <1>1 DEF Gently
<1>4. Onward
  BY <1>1 DEF Onward, Forward, NewHolder, Holds
<1>5. DeedsTrue'
  <2>1. ASSUME NEW k \in Items
        PROVE  DeedOf(k)'
    BY <1>1 DEF PressInv, Typed, DeedsTrue, DeedOf, MayBeOut, Unsent
  <2>. QED  BY <2>1 DEF DeedsTrue
<1>. QED  BY <1>1, <1>2, <1>3, <1>4, <1>5, DeskStands, SightStays DEF PressInv

\* A post nobody waits for comes out: it was in doubt, and it comes out once.
LEMMA LateKeeps ==
    ASSUME PressInv, NEW i \in Items, LateCarried(i)
    PROVE  PressInv'
<1>1. /\ i \in wire /\ wire' = wire \ {i} /\ posted' = [posted EXCEPT ![i] = @ + 1]
      /\ UNCHANGED <<version, batches, posts, lapsed, press, told>>
  BY DEF LateCarried, newsroom
<1>2. posted[i] = 0 /\ posts[i] \notin {"none", "pending", "checking", "rejected", "cancelled", "published"}
  BY <1>1 DEF PressInv, DeedsTrue, DeedOf, MayBeOut, Unsent
<1>3. /\ posted' \in [Items -> Nat] /\ posted'[i] = 1
      /\ \A k \in Items \ {i} : posted'[k] = posted[k] /\ (k \in wire' <=> k \in wire)
  BY <1>1, <1>2 DEF PressInv, Typed
<1>4. Typed'
  BY <1>1, <1>3 DEF PressInv, Typed
<1>5. \A q \in Publishers : \A k \in Items : Gently(q, k)
  BY <1>1, <1>3 DEF Gently
<1>6. Onward
  BY <1>1 DEF Onward, Forward, NewHolder, Holds
<1>7. DeedsTrue'
  <2>1. ASSUME NEW k \in Items
        PROVE  DeedOf(k)'
    BY <1>1, <1>2, <1>3 DEF PressInv, DeedsTrue, DeedOf, MayBeOut, Unsent
  <2>. QED  BY <2>1 DEF DeedsTrue
<1>. QED  BY <1>1, <1>4, <1>5, <1>6, <1>7, DeskStands, SightStays DEF PressInv

\* A row grows old while it is being sent, or when nobody works on it.
LEMMA LapseKeeps ==
    ASSUME PressInv, ~OutliveCheck, NEW i \in Items, Lapse(i)
    PROVE  PressInv'
<1>1. /\ posts[i] \in Claimed /\ lapsed' = lapsed \cup {i}
      /\ posts[i] = "sending" \/ ~\E p \in Publishers : press[p].item = i
      /\ UNCHANGED <<version, batches, posts, press, wire, posted, told>>
  BY DEF Lapse, newsroom
<1>2. Abandoned(i) \/ Started(i)
  BY <1>1, StatusesAre DEF Abandoned, Started, Holds
<1>3. \A k \in Items : (Abandoned(k)' <=> Abandoned(k)) /\ (Started(k)' <=> Started(k))
  BY <1>1 DEF Abandoned, Started, Holds
<1>4. LapsedTrue'
  BY <1>1, <1>2, <1>3 DEF PressInv, Typed, LapsedTrue
<1>5. Typed'
  BY <1>1 DEF PressInv, Typed
<1>6. \A q \in Publishers : \A k \in Items : Gently(q, k)
  BY <1>1 DEF Gently
<1>7. SeenTrue'
  <2>1. ASSUME NEW p \in Publishers, NEW s \in press'[p].seen
        PROVE  (IF s[2] = "checking" THEN Abandoned(s[1]) ELSE Started(s[1]))'
    <3>1. PICK k \in Items : k = s[1]
      BY <1>5, <2>1 DEF Typed, Ticks
    <3>2. IF s[2] = "checking" THEN Abandoned(k) ELSE Started(k)
      BY <1>1, <2>1, <3>1 DEF PressInv, SeenTrue
    <3>. QED  BY <1>3, <3>1, <3>2
  <2>. QED  BY <2>1 DEF SeenTrue
<1>8. DeedsTrue'
  BY <1>1 DEF PressInv, DeedsTrue, DeedOf, MayBeOut, Unsent
<1>. QED  BY <1>1, <1>4, <1>5, <1>6, <1>7, <1>8, DeskStands DEF PressInv

\* A publisher that crashes as it posts leaves its row in doubt, and perhaps the post under way.
LEMMA CrashKeeps ==
    ASSUME PressInv, NEW p \in Publishers, PublisherCrash(p)
    PROVE  PressInv'
<1>1. /\ Goes(p, AtRest) /\ UNCHANGED <<version, batches, posts, lapsed, posted, told>>
      /\ wire' = wire \/ (press[p].at = "posting" /\ wire' = wire \cup {press[p].item})
  BY DEF PublisherCrash, newsroom, Ends, Goes
<1>2. CASE wire' = wire
  BY <1>1, <1>2, RestIs, RestKeeps
<1>3. CASE press[p].at = "posting" /\ wire' = wire \cup {press[p].item}
  <2>1. PICK i \in Items : /\ i = press[p].item /\ Holds(p, i) /\ Knows(p, i)
                           /\ \A q \in Publishers \ {p} : ~Holds(q, i)
    BY <1>3, PrefixIs, StatusesAre
  <2>2. posts[i] = "sending" /\ Unsent(i)
    BY <1>3, <2>1 DEF Knows
  <2>3. /\ wire' \subseteq Items /\ posted' \in [Items -> Nat]
        /\ \A k \in Items \ {i} : posted'[k] = posted[k] /\ (k \in wire' <=> k \in wire)
    BY <1>1, <1>3, <2>1 DEF PressInv, Typed
  <2>4. posts' = [posts EXCEPT ![i] = posts[i]] /\ posts[i] \in Statuses /\ Forward(i)
    BY <1>1 DEF PressInv, Typed, Forward
  <2>5. DeedOf(i)'
    BY <1>1, <2>2, Untold, StatusesAre DEF DeedOf, MayBeOut, Unsent
  <2>. QED  BY <1>1, <2>1, <2>3, <2>4, <2>5, RestIs, TickKeeps
<1>. QED  BY <1>1, <1>2, <1>3

-----------------------------------------------------------------------------
LEMMA PublicationStarts ==
    ASSUME PublicationInit
    PROVE  PressInv
<1>1. Typed
  BY RestIs, StatusesAre DEF PublicationInit, Typed
<1>2. \A p \in Publishers : press[p].at \notin AtItem /\ press[p].seen = {}
  BY RestIs DEF PublicationInit
<1>3. DeedsTrue
  BY DEF PublicationInit, DeedsTrue, DeedOf, MayBeOut, Unsent
<1>4. AloneWithIt /\ PressKnows /\ SeenTrue /\ LapsedTrue
  BY <1>2 DEF PublicationInit, AloneWithIt, PressKnows, SeenTrue, LapsedTrue, Holds
<1>. QED  BY <1>1, <1>3, <1>4 DEF PressInv

LEMMA PublicationKeeps ==
    ASSUME PressInv, ~OutliveCheck, [PublicationNext]_pubVars
    PROVE  PressInv'
<1>1. CASE UNCHANGED pubVars
  <2>1. Typed'
    BY <1>1 DEF pubVars, PressInv, Typed
  <2>. QED  BY <1>1, <2>1, NewsroomKeeps DEF pubVars
<1>2. ASSUME NEW c \in Contents, PrepareBatch(c) \/ ApproveBatch(c) \/ RevokeBatch(c) \/ EnqueueX(c)
      PROVE  PressInv'
  BY <1>2, BatchKeeps, EnqueueKeeps
<1>3. ASSUME NEW p \in Publishers, Tick(p) \/ PublisherCrash(p)
      PROVE  PressInv'
  BY <1>3, RecoverReadKeeps, RecoverOneKeeps, ClaimKeeps, CheckKeeps, MarkKeeps, BeginKeeps, PostKeeps,
     FinishKeeps, CrashKeeps DEF Tick
<1>4. ASSUME NEW i \in Items, DeliverReceipt(i) \/ LateCarried(i) \/ Lapse(i)
      PROVE  PressInv'
  BY <1>4, ReceiptKeeps, LateKeeps, LapseKeeps
<1>. QED  BY <1>1, <1>2, <1>3, <1>4, SaveKeeps DEF PublicationNext

(* Whatever is being posted on X is what the commissioner approved, in its   *)
(* latest version, after every earlier item of its batch has come out once   *)
(* (publication/x-publisher.ts, under lock 7131), provided that no tick      *)
(* pauses for two minutes before it marks its row as sending.                *)
THEOREM OnlyApprovedIsPosted ==
    ASSUME ~OutliveCheck
    PROVE  PublicationInit /\ [][PublicationNext]_pubVars => []PostsAsApproved
<1>1. PressInv => PostsAsApproved
  <2>1. ASSUME PressInv, NEW p \in Publishers, press[p].at = "posting",
               NEW i \in Items, i = press[p].item, Knows(p, i)
        PROVE  /\ batches[Batch(i)] = "approved" /\ i[1][i[2]] = version[i[2]]
               /\ \A d \in Drafts : d < i[2] /\ Contains(Batch(i), d) => posted[<<Batch(i), d>>] = 1
    <3>1. Approved(Batch(i)) /\ InTurn(i)
      BY <2>1 DEF Knows
    <3>2. i[2] \in Drafts /\ Contains(Batch(i), i[2])
      BY DEF Items, Batch, Contains
    <3>3. ASSUME NEW d \in Drafts, d < i[2], Contains(Batch(i), d)
          PROVE  posted[<<Batch(i), d>>] = 1
      <4>1. <<Batch(i), d>> \in Items
        BY <3>3 DEF Items, Batch, Contains
      <4>2. posts[<<Batch(i), d>>] = "published"
        BY <3>1, <3>3 DEF InTurn
      <4>. QED  BY <2>1, <4>1, <4>2 DEF PressInv, DeedsTrue, DeedOf
    <3>. QED  BY <3>1, <3>2, <3>3 DEF Approved, Latest, Batch
  <2>. QED  BY <2>1, PrefixIs, StatusesAre DEF PostsAsApproved
<1>. QED  BY <1>1, PublicationStarts, PublicationKeeps, PTL

-----------------------------------------------------------------------------
(* What the owner is told.                                                  *)

Told(i) == CASE told[i] \in {"rejected", "cancelled"} -> "failed"
             [] told[i] = "published" -> "done"
             [] told[i] = "uncertain" -> "unproven"
             [] OTHER -> IF posts[i] = "none" THEN "none" ELSE "open"

Owner == INSTANCE OwnerActions WITH
    Actions <- Items, effects <- posted, verdict <- [i \in Items |-> Told(i)]

LEMMA OwnerAsks ==
    ASSUME PublicationInit
    PROVE  Owner!ActionsInit
<1>1. \A i \in Items : Told(i) = "none"
  BY DEF PublicationInit, Told
<1>. QED  BY <1>1 DEF Owner!ActionsInit, PublicationInit

\* Rows are scheduled or go on, and the owner hears nothing.
LEMMA OwnerWaits ==
    ASSUME PressInv, posted' = posted, told' = told,
           \A i \in Items : posts'[i] = "none" => posts[i] = "none"
    PROVE  Owner!AskOrReport
<1>1. \A i \in Items : told[i] # "none" => posts[i] # "none" /\ posts'[i] # "none"
  BY StatusesAre DEF PressInv, DeedsTrue, DeedOf
<1>2. \A i \in Items : Told(i)' = Told(i) \/ (Told(i) = "none" /\ Told(i)' = "open")
  BY <1>1 DEF Told
<1>. QED  BY <1>2 DEF Owner!AskOrReport

LEMMA OwnerHears ==
    ASSUME PressInv, NEW i \in Items, DeliverReceipt(i)
    PROVE  Owner!AskOrReport
<1>1. /\ posts[i] \in Final /\ told[i] = "none" /\ UNCHANGED <<posts, posted>>
      /\ told'[i] = posts[i] /\ \A k \in Items \ {i} : told'[k] = told[k]
  BY DEF DeliverReceipt, PressInv, Typed
<1>2. Told(i) = "open"
  BY <1>1, StatusesAre DEF Told
<1>3. /\ Told(i)' \in {"done", "failed", "unproven"}
      /\ Told(i)' = "done" => posted[i] = 1
      /\ Told(i)' = "failed" => posted[i] = 0
  BY <1>1, StatusesAre DEF Told, PressInv, DeedsTrue, DeedOf, Unsent
<1>4. \A k \in Items \ {i} : Told(k)' = Told(k)
  BY <1>1 DEF Told
<1>. QED  BY <1>1, <1>2, <1>3, <1>4 DEF Owner!AskOrReport, Owner!MayReport

\* One post comes out while its row is in doubt.
LEMMA OwnerIsServed ==
    ASSUME PressInv, UNCHANGED <<posts, told>>, NEW i \in Items, posted[i] = 0,
           posted' = [posted EXCEPT ![i] = 1], posts[i] \in {"sending", "uncertain"}
    PROVE  Owner!TakeEffect(i)
<1>1. Told(i) \in {"open", "unproven"}
  BY StatusesAre DEF Told, PressInv, DeedsTrue, DeedOf
<1>2. \A k \in Items : Told(k)' = Told(k)
  BY DEF Told
<1>. QED  BY <1>1, <1>2 DEF Owner!TakeEffect

\* No step of the newsroom, of a recovery or of a tick before the post is seen by the owner.
LEMMA RowsAre ==
    ASSUME PressInv, NEW i \in Items, NEW s \in Statuses \ {"none"},
           \/ posts' = posts
           \/ posts' = [posts EXCEPT ![i] = s]
    PROVE  \A k \in Items : posts'[k] = "none" => posts[k] = "none"
  BY DEF PressInv, Typed

LEMMA TickPromises ==
    ASSUME PressInv, NEW p \in Publishers, Tick(p) \/ PublisherCrash(p)
    PROVE  [Owner!ActionsNext]_(Owner!actionVars)
<1>1. ASSUME UNCHANGED <<posts, told, posted>>
      PROVE  UNCHANGED Owner!actionVars
  BY <1>1 DEF Owner!actionVars, Told
<1>2. CASE RecoverRead(p) \/ BeginPost(p) \/ PublisherCrash(p)
  BY <1>1, <1>2 DEF RecoverRead, BeginPost, PublisherCrash
<1>3. CASE RecoverOne(p)
  <2>1. PICK s \in press[p].seen : /\ Finishes(s[1], IF s[2] = "sending" THEN "uncertain" ELSE "rejected")
                                   /\ UNCHANGED <<told, posted>>
    BY <1>3 DEF RecoverOne
  <2>2. PICK i \in Items : i = s[1]
    BY DEF PressInv, Typed, Ticks
  <2>3. \A k \in Items : posts'[k] = "none" => posts[k] = "none"
    BY <2>1, <2>2, RowsAre, StatusesAre DEF Finishes
  <2>. QED  BY <2>1, <2>3, OwnerWaits DEF Owner!ActionsNext
<1>4. CASE ClaimItem(p)
  <2>1. UNCHANGED <<told, posted>> /\ \A k \in Items : posts'[k] = "none" => posts[k] = "none"
    BY <1>4, RowsAre, StatusesAre DEF ClaimItem
  <2>. QED  BY <2>1, OwnerWaits DEF Owner!ActionsNext
<1>5. CASE CheckItem(p) \/ MarkSending(p) \/ Finish(p)
  <2>1. PICK i \in Items : i = press[p].item /\ Knows(p, i)
    BY <1>5, PrefixIs, StatusesAre DEF CheckItem, MarkSending, Finish
  <2>2. press[p].at = "decided" => press[p].outcome \in Final
    BY <2>1 DEF Knows
  <2>3. UNCHANGED <<told, posted>> /\ \E s \in Statuses \ {"none"} : posts' = posts \/ posts' = [posts EXCEPT ![i] = s]
    BY <1>5, <2>1, <2>2, StatusesAre DEF CheckItem, MarkSending, Finish, Finishes
  <2>4. \A k \in Items : posts'[k] = "none" => posts[k] = "none"
    BY <2>3, RowsAre
  <2>. QED  BY <2>3, <2>4, OwnerWaits DEF Owner!ActionsNext
<1>6. CASE PostItem(p)
  <2>1. PICK i \in Items : i = press[p].item /\ Knows(p, i)
    BY <1>6, PrefixIs, StatusesAre DEF PostItem
  <2>2. posts[i] = "sending" /\ posted[i] = 0 /\ UNCHANGED <<posts, told>>
    BY <1>6, <2>1 DEF PostItem, Knows, Unsent
  <2>3. posted' = posted \/ posted' = [posted EXCEPT ![i] = 1]
    BY <1>6, <2>1, <2>2 DEF PostItem, PressInv, Typed
  <2>. QED  BY <1>1, <2>2, <2>3, OwnerIsServed DEF Owner!ActionsNext
<1>. QED  BY <1>2, <1>3, <1>4, <1>5, <1>6 DEF Tick

LEMMA PublisherPromises ==
    ASSUME PressInv, [PublicationNext]_pubVars
    PROVE  [Owner!ActionsNext]_(Owner!actionVars)
<1>1. ASSUME UNCHANGED <<posts, told, posted>>
      PROVE  UNCHANGED Owner!actionVars
  BY <1>1 DEF Owner!actionVars, Told
<1>2. CASE UNCHANGED pubVars
  BY <1>1, <1>2 DEF pubVars
<1>3. ASSUME NEW d \in Drafts, SaveDraft(d)
      PROVE  UNCHANGED Owner!actionVars
  BY <1>1, <1>3 DEF SaveDraft
<1>4. ASSUME NEW c \in Contents, PrepareBatch(c) \/ ApproveBatch(c) \/ RevokeBatch(c)
      PROVE  UNCHANGED Owner!actionVars
  BY <1>1, <1>4 DEF PrepareBatch, ApproveBatch, RevokeBatch
<1>5. ASSUME NEW c \in Contents, EnqueueX(c)
      PROVE  Owner!ActionsNext
  <2>1. UNCHANGED <<told, posted>> /\ \A i \in Items : posts'[i] = "none" => posts[i] = "none"
    BY <1>5 DEF EnqueueX
  <2>. QED  BY <2>1, OwnerWaits DEF Owner!ActionsNext
<1>6. ASSUME NEW i \in Items, LateCarried(i)
      PROVE  Owner!ActionsNext
  <2>1. posted[i] = 0 /\ posts[i] \in {"sending", "uncertain"}
    BY <1>6, StatusesAre DEF LateCarried, PressInv, Typed, DeedsTrue, DeedOf, MayBeOut, Unsent
  <2>2. posted' = [posted EXCEPT ![i] = 1] /\ UNCHANGED <<posts, told>>
    BY <1>6, <2>1 DEF LateCarried, PressInv, Typed
  <2>. QED  BY <2>1, <2>2, OwnerIsServed DEF Owner!ActionsNext
<1>7. ASSUME NEW i \in Items, Lapse(i)
      PROVE  UNCHANGED Owner!actionVars
  BY <1>1, <1>7 DEF Lapse
<1>. QED  BY <1>2, <1>3, <1>4, <1>5, <1>6, <1>7, OwnerHears, TickPromises DEF PublicationNext, Owner!ActionsNext

(* A post comes out at most once, its owner reads that it was published only *)
(* if it was, and that it was rejected or cancelled only if it was not and   *)
(* never will be (publication/x-publisher.ts: marked before the post, an     *)
(* interrupted post uncertain, an interrupted check not sent): the publisher *)
(* implements OwnerActions.                                                  *)
THEOREM PublisherKeepsPromise ==
    ASSUME ~OutliveCheck
    PROVE  PublicationInit /\ [][PublicationNext]_pubVars => Owner!Promise
<1>1. PublicationInit => PressInv /\ Owner!ActionsInit
  BY PublicationStarts, OwnerAsks
<1>2. PressInv /\ [PublicationNext]_pubVars => PressInv'
  BY PublicationKeeps
<1>3. PressInv /\ [PublicationNext]_pubVars => [Owner!ActionsNext]_(Owner!actionVars)
  BY PublisherPromises
<1>. QED  BY <1>1, <1>2, <1>3, PTL DEF Owner!Promise
=============================================================================
