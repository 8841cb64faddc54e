----------------------------- MODULE LeagueProofs -----------------------------
(***************************************************************************)
(* Proofs about the league's own draft, and about the modules that stand   *)
(* between a league hosted by MFL and its owners: the feeds of appointed   *)
(* work, the observer that tells of the draft, and the constitutional      *)
(* convention, for any league, reading window, processes, faults, pauses   *)
(* and deadlines.                                                          *)
(***************************************************************************)
EXTENDS ScheduleFeeds, DraftObserver, MflConvention, LeagueDraft, FiniteSetTheorems, FunctionTheorems,
        SequenceTheorems, TLAPS

-----------------------------------------------------------------------------
(* ScheduleFeeds: what a cursor may rely on.                               *)

Keys == Nat \cup Offers
Cursors == [init : BOOLEAN, seen : SUBSET Keys, base : Nat, blind : BOOLEAN]
Polls == [of : Sources \cup {"calendar", "none"}, now : Nat,
          seen : SUBSET (Keys \cup Dates), fresh : SUBSET (Keys \cup Dates)]

FeedsTyped ==
    /\ rows \in Seq(BOOLEAN) /\ pending \subseteq Offers /\ agenda \subseteq Dates /\ clock \in Nat
    /\ cursors \in [Sources -> Cursors]
    /\ poll \in Polls
    /\ poll.of \in Sources => poll.seen \cup poll.fresh \subseteq Keys
    /\ told \subseteq Sources \X Keys
    /\ planned \in [Dates -> {"none", "planned", "cancelled"}]

Interesting == {i \in DOMAIN rows : rows[i]}
Told(i) == <<"transactions", i>> \in told

\* What came after the first read and is not on record is newer than all the cursor has seen.
LedgerSound(c) ==
    /\ c.seen \subseteq Interesting
    /\ c.init => c.base <= Len(rows)
    /\ c.init /\ ~c.blind =>
          /\ c.seen # {}
          /\ \A i \in Interesting : i > c.base => Told(i) \/ \A s \in c.seen : i > s

\* A read that found no gap knows all there was at its time.
LedgerPoll(c) ==
    poll.of = "transactions" =>
        /\ poll.now <= Len(rows)
        /\ poll.seen \subseteq {i \in Interesting : i <= poll.now}
        /\ poll.fresh \subseteq poll.seen
        /\ c.init => \A i \in poll.fresh : i > c.base
        /\ ~c.init => poll.fresh = {}
        /\ c.init /\ ~c.blind =>
              /\ poll.seen # {}
              /\ \A i \in Interesting : c.base < i /\ i <= poll.now => Told(i) \/ i \in poll.fresh

NothingOld(c) == \A i : Told(i) => c.init /\ i > c.base

OffersSound(c) ==
    /\ c.init => \A o \in c.seen \ baseline : <<"trades", o>> \in told
    /\ poll.of = "trades" =>
          /\ ~c.init => poll.fresh = {}
          /\ c.init => \A o \in poll.seen \ baseline : <<"trades", o>> \in told \/ o \in poll.fresh

CalendarSound ==
    /\ poll.of = "calendar" =>
          /\ agreed = NoPoll
          /\ poll.fresh \subseteq poll.seen /\ poll.seen \subseteq Dates
          /\ \A d \in poll.seen \ poll.fresh : planned[d] = "planned"
    /\ CalendarStands

FeedsInv ==
    /\ FeedsTyped
    /\ LedgerSound(cursors["transactions"])
    /\ LedgerPoll(cursors["transactions"])
    /\ NothingOld(cursors["transactions"])
    /\ OffersSound(cursors["trades"])
    /\ CalendarSound

LEMMA FeedsBegin == FeedsInit => FeedsInv
<1> SUFFICES ASSUME FeedsInit PROVE FeedsInv
  OBVIOUS
<1>1. FeedsTyped
  BY DEF FeedsInit, FeedsTyped, NoPoll, NoCursor, Cursors, Polls, Sources, Keys
<1>2. LedgerSound(cursors["transactions"]) /\ LedgerPoll(cursors["transactions"])
  BY DEF FeedsInit, LedgerSound, LedgerPoll, NoPoll, NoCursor, Sources
<1>3. NothingOld(cursors["transactions"]) /\ OffersSound(cursors["trades"])
  BY DEF FeedsInit, NothingOld, Told, OffersSound, NoPoll, NoCursor, Sources
<1>4. CalendarSound
  BY DEF FeedsInit, CalendarSound, CalendarStands, NoPoll
<1>. QED  BY <1>1, <1>2, <1>3, <1>4 DEF FeedsInv

\* MFL moves on: one row more is newer than all that was seen.
LEMMA SiteKeepsFeeds ==
    ASSUME FeedsInv, SiteMoves
    PROVE  FeedsInv'
<1>1. /\ rows' \in Seq(BOOLEAN) /\ Len(rows) \in Nat /\ Len(rows') >= Len(rows)
      /\ DOMAIN rows = 1..Len(rows) /\ DOMAIN rows' = 1..Len(rows')
      /\ \A i \in DOMAIN rows : rows'[i] = rows[i]
  <2>0. rows \in Seq(BOOLEAN)
    BY DEF FeedsInv, FeedsTyped
  <2>1. CASE UNCHANGED rows
    BY <2>0, <2>1
  <2>2. CASE \E interest \in BOOLEAN : rows' = Append(rows, interest)
    BY <2>0, <2>2
  <2>. QED  BY <2>1, <2>2 DEF SiteMoves
<1>2. Interesting \subseteq Interesting' /\ \A i \in Interesting' \ Interesting : i > Len(rows) /\ i \in Nat
  <2>1. \A i \in Interesting' \ Interesting : i \in 1..Len(rows') /\ i \notin 1..Len(rows)
    BY <1>1 DEF Interesting
  <2>2. Interesting \subseteq Interesting'
    BY <1>1 DEF Interesting
  <2>. QED  BY <1>1, <2>1, <2>2
<1>4. UNCHANGED <<poll, cursors, told, planned, baseline, agreed>>
  BY DEF SiteMoves
<1>3. FeedsTyped'
  <2>1. pending' \subseteq Offers /\ agenda' \subseteq Dates /\ clock' \in Nat
    BY DEF SiteMoves, FeedsInv, FeedsTyped
  <2>. QED  BY <1>1, <1>4, <2>1 DEF FeedsInv, FeedsTyped
<1>5. ASSUME NEW c \in Cursors, LedgerSound(c)
      PROVE  LedgerSound(c)'
  <2>1. \A s \in c.seen : s \in 1..Len(rows)
    BY <1>1, <1>5 DEF LedgerSound, Interesting
  <2>2. c.init => c.base <= Len(rows')
    BY <1>1, <1>5 DEF LedgerSound, Cursors
  <2>3. ASSUME c.init, ~c.blind, NEW i \in Interesting', i > c.base
        PROVE  Told(i) \/ \A s \in c.seen : i > s
    <3>1. CASE i \in Interesting
      BY <1>5, <2>3, <3>1 DEF LedgerSound
    <3>2. CASE i \notin Interesting
      BY <1>1, <1>2, <2>1, <3>2
    <3>. QED  BY <3>1, <3>2
  <2>. QED  BY <1>2, <1>4, <1>5, <2>2, <2>3 DEF LedgerSound, Told
<1>6. ASSUME NEW c \in Cursors, LedgerPoll(c)
      PROVE  LedgerPoll(c)'
  <2>1. poll.now \in Nat
    BY DEF FeedsInv, FeedsTyped, Polls
  <2>2. ASSUME poll.now <= Len(rows), NEW i \in Interesting', i <= poll.now
        PROVE  i \in Interesting
    BY <1>1, <1>2, <2>1, <2>2
  <2>3. poll.now <= Len(rows) => poll.now <= Len(rows')
    BY <1>1, <2>1
  <2>. QED  BY <1>2, <1>4, <1>6, <2>2, <2>3 DEF LedgerPoll, Told
<1>7. cursors["transactions"] \in Cursors
  BY DEF FeedsInv, FeedsTyped, Sources
<1>8. LedgerSound(cursors["transactions"])' /\ LedgerPoll(cursors["transactions"])'
  BY <1>4, <1>5, <1>6, <1>7 DEF FeedsInv, LedgerSound, LedgerPoll
<1>9. NothingOld(cursors["transactions"])' /\ OffersSound(cursors["trades"])' /\ CalendarSound'
  BY <1>4 DEF FeedsInv, NothingOld, Told, OffersSound, CalendarSound, CalendarStands
<1>. QED  BY <1>3, <1>8, <1>9 DEF FeedsInv

\* A cursor whose window has not passed by sees all that is newer than it.
LEMMA WindowSuffices ==
    ASSUME Window \in Nat, FeedsTyped, NEW c, c = cursors["transactions"], LedgerSound(c),
           ~Gap, c.init, ~c.blind, NEW i \in Interesting, i > c.base, ~Told(i)
    PROVE  i \in Shown \ c.seen
<1>1. Len(rows) \in Nat /\ DOMAIN rows = 1..Len(rows)
  BY DEF FeedsTyped
<1>2. \A s \in c.seen : i > s
  BY DEF LedgerSound
<1>3. i \in 1..Len(rows) /\ \A s \in c.seen : s \in 1..Len(rows)
  BY <1>1 DEF LedgerSound, Interesting
<1>4. i \notin c.seen
  BY <1>2, <1>3
<1>5. CASE Len(rows) < Window
  BY <1>1, <1>3, <1>4, <1>5 DEF Shown, InWindow, Interesting
<1>6. CASE Shown \cap c.seen # {}
  BY <1>1, <1>2, <1>3, <1>4, <1>6 DEF Shown, InWindow, Interesting
<1>7. c.seen # {}
  BY DEF LedgerSound
<1>. QED  BY <1>1, <1>5, <1>6, <1>7 DEF Gap

LEMMA ReadingTransactions ==
    ASSUME Window \in Nat, FeedsInv, ReadTransactions
    PROVE  FeedsInv'
<1>. DEFINE c == cursors["transactions"]
<1>0. UNCHANGED <<rows, pending, agenda, clock, cursors, told, planned, baseline, agreed>> /\ poll = NoPoll
  BY DEF ReadTransactions
<1>1. CASE Gap
  BY <1>0, <1>1 DEF ReadTransactions, FeedsInv, FeedsTyped, LedgerSound, LedgerPoll, NothingOld, Told,
        Interesting, OffersSound, CalendarSound, CalendarStands
<1>2. CASE ~Gap
  <2>1. /\ c \in Cursors /\ LedgerSound(c) /\ FeedsTyped
        /\ Len(rows) \in Nat /\ DOMAIN rows = 1..Len(rows)
    BY DEF FeedsInv, FeedsTyped, Sources
  <2>2. PICK p : p = poll' /\ p = [of |-> "transactions", now |-> Len(rows), seen |-> Shown,
                         fresh |-> IF c.init THEN {i \in Shown \ c.seen : i > c.base} ELSE {}]
    BY <1>2 DEF ReadTransactions
  <2>3. Shown \subseteq Interesting /\ Interesting \subseteq 1..Len(rows)
    BY <2>1 DEF Shown, InWindow, Interesting
  <2>4. p \in Polls /\ p.of = "transactions" /\ p.seen \cup p.fresh \subseteq Keys
    <3>1. Shown \subseteq Keys
      BY <2>1, <2>3 DEF Keys
    <3>. QED  BY <2>1, <2>2, <3>1 DEF Polls, Sources
  <2>5. FeedsTyped'
    BY <1>0, <2>1, <2>2, <2>4 DEF FeedsTyped
  <2>6. c.init /\ ~c.blind => Shown # {}
    <3>. SUFFICES ASSUME c.init, ~c.blind PROVE Shown # {}
      OBVIOUS
    <3>1. c.seen # {} /\ c.seen \subseteq Interesting
      BY <2>1 DEF LedgerSound
    <3>2. CASE Len(rows) < Window
      BY <2>1, <2>3, <3>1, <3>2 DEF Shown, InWindow, Interesting
    <3>. QED  BY <1>2, <2>1, <3>1, <3>2 DEF Gap
  <2>7. ASSUME c.init, ~c.blind, NEW i \in Interesting, c.base < i
        PROVE  Told(i) \/ i \in p.fresh
    <3>1. i \in Nat /\ c.base \in Nat
      BY <2>1, <2>3 DEF Cursors
    <3>2. CASE ~Told(i)
      BY <1>2, <2>1, <2>2, <2>7, <3>1, <3>2, WindowSuffices
    <3>. QED  BY <3>2
  <2>8. LedgerPoll(c)'
    BY <1>0, <2>1, <2>2, <2>3, <2>6, <2>7 DEF LedgerPoll, Interesting, Told
  <2>9. LedgerSound(c)' /\ NothingOld(c)'
    BY <1>0 DEF FeedsInv, LedgerSound, NothingOld, Told, Interesting
  <2>10. OffersSound(cursors["trades"])' /\ CalendarSound'
    BY <1>0, <2>2 DEF FeedsInv, OffersSound, CalendarSound, CalendarStands
  <2>. QED  BY <2>5, <2>8, <2>9, <2>10 DEF FeedsInv
<1>. QED  BY <1>1, <1>2

LEMMA ReadingTrades ==
    ASSUME FeedsInv, ReadTrades
    PROVE  FeedsInv'
<1>. DEFINE c == cursors["trades"]
<1>0. UNCHANGED <<rows, pending, agenda, clock, cursors, told, planned, baseline, agreed>> /\ poll = NoPoll
  BY DEF ReadTrades
<1>1. PICK p : p = poll' /\ p = [of |-> "trades", now |-> 0, seen |-> pending,
                                 fresh |-> IF c.init THEN pending \ c.seen ELSE {}]
  BY DEF ReadTrades
<1>2. p \in Polls /\ p.seen \cup p.fresh \subseteq Keys
  BY <1>1 DEF FeedsInv, FeedsTyped, Polls, Sources, Keys
<1>3. FeedsTyped'
  BY <1>0, <1>1, <1>2 DEF FeedsInv, FeedsTyped
<1>4. OffersSound(c)'
  BY <1>0, <1>1 DEF FeedsInv, OffersSound
<1>5. LedgerSound(cursors["transactions"])' /\ NothingOld(cursors["transactions"])'
  BY <1>0 DEF FeedsInv, LedgerSound, NothingOld, Told, Interesting
<1>6. LedgerPoll(cursors["transactions"])' /\ CalendarSound'
  BY <1>0, <1>1 DEF FeedsInv, LedgerPoll, CalendarSound, CalendarStands
<1>. QED  BY <1>3, <1>4, <1>5, <1>6 DEF FeedsInv

\* An event on record leaves what is still to record one smaller.
LEMMA RecordingEvents ==
    ASSUME FeedsInv, RecordEvent
    PROVE  FeedsInv'
<1>0. UNCHANGED <<rows, pending, agenda, clock, cursors, planned, baseline, agreed>>
  BY DEF RecordEvent
<1>1. PICK e \in poll.fresh : told' = told \cup {<<poll.of, e>>} /\ poll' = [poll EXCEPT !.fresh = @ \ {e}]
  BY DEF RecordEvent
<1>2. poll \in Polls
  BY DEF FeedsInv, FeedsTyped
<1>3. PICK p : p = poll' /\ p \in Polls /\ p.of = poll.of /\ p.now = poll.now /\ p.seen = poll.seen
               /\ p.fresh = poll.fresh \ {e}
  BY <1>1, <1>2 DEF Polls
<1>4. FeedsTyped'
  <2>1. e \in Keys /\ poll.of \in Sources
    BY DEF FeedsInv, FeedsTyped, RecordEvent
  <2>2. told' \subseteq Sources \X Keys
    BY <1>1, <2>1 DEF FeedsInv, FeedsTyped
  <2>. QED  BY <1>0, <1>3, <2>2 DEF FeedsInv, FeedsTyped
<1>5. CASE poll.of = "transactions"
  <2>. DEFINE c == cursors["transactions"]
  <2>1. \A i : Told(i)' <=> Told(i) \/ i = e
    BY <1>1, <1>5 DEF Told
  <2>2. LedgerPoll(c)'
    BY <1>0, <1>3, <1>5, <2>1 DEF FeedsInv, LedgerPoll, Interesting
  <2>3. LedgerSound(c)'
    BY <1>0, <2>1 DEF FeedsInv, LedgerSound, Interesting
  <2>4. NothingOld(c)'
    BY <1>0, <1>5, <2>1 DEF FeedsInv, LedgerPoll, NothingOld
  <2>5. OffersSound(cursors["trades"])' /\ CalendarSound'
    BY <1>0, <1>1, <1>3, <1>5 DEF FeedsInv, OffersSound, CalendarSound, CalendarStands
  <2>. QED  BY <1>4, <2>2, <2>3, <2>4, <2>5 DEF FeedsInv
<1>6. CASE poll.of = "trades"
  <2>1. \A i : Told(i)' <=> Told(i)
    BY <1>1, <1>6 DEF Told
  <2>2. LedgerPoll(cursors["transactions"])' /\ CalendarSound'
    BY <1>0, <1>3, <1>6 DEF FeedsInv, LedgerPoll, CalendarSound, CalendarStands
  <2>3. LedgerSound(cursors["transactions"])' /\ NothingOld(cursors["transactions"])'
    BY <1>0, <2>1 DEF FeedsInv, LedgerSound, NothingOld, Interesting
  <2>4. OffersSound(cursors["trades"])'
    BY <1>0, <1>1, <1>3, <1>6 DEF FeedsInv, OffersSound
  <2>. QED  BY <1>4, <2>2, <2>3, <2>4 DEF FeedsInv
<1>. QED  BY <1>5, <1>6 DEF RecordEvent, Sources

LEMMA SavingCursors ==
    ASSUME FeedsInv, SaveCursor
    PROVE  FeedsInv'
<1>0. /\ UNCHANGED <<rows, pending, agenda, clock, told, planned, agreed>>
      /\ poll' = NoPoll /\ poll.of \in Sources /\ poll.fresh = {} /\ poll \in Polls
      /\ cursors \in [Sources -> Cursors]
  BY DEF SaveCursor, FeedsInv, FeedsTyped
<1>1. PICK c \in Cursors : c = cursors[poll.of]
  BY <1>0
<1>2. PICK n : /\ n = [init |-> TRUE, seen |-> poll.seen,
                       base |-> IF c.init THEN c.base ELSE poll.now,
                       blind |-> IF c.init THEN c.blind ELSE poll.seen = {}]
               /\ cursors' = [cursors EXCEPT ![poll.of] = n]
  BY <1>1 DEF SaveCursor
<1>3. /\ n.init /\ n.seen = poll.seen
      /\ n.base = (IF c.init THEN c.base ELSE poll.now)
      /\ n.blind = (IF c.init THEN c.blind ELSE poll.seen = {})
      /\ n.base \in Nat
  BY <1>0, <1>1, <1>2 DEF Polls, Cursors
<1>4. FeedsInv /\ NoPoll \in Polls /\ NoPoll.of = "none"
  BY DEF NoPoll, Polls
<1>5. CASE poll.of = "transactions"
  <2>1. poll.seen \subseteq Interesting /\ Interesting \subseteq Nat
    BY <1>4, <1>5 DEF FeedsInv, FeedsTyped, LedgerPoll, Interesting
  <2>2. n \in Cursors
    BY <1>1, <1>2, <1>3, <2>1 DEF Cursors, Keys
  <2>3. FeedsTyped' /\ cursors'["transactions"] = n /\ cursors'["trades"] = cursors["trades"]
        /\ UNCHANGED baseline
    <3>1. UNCHANGED baseline
      BY <1>5 DEF SaveCursor
    <3>2. cursors' \in [Sources -> Cursors]
      BY <1>0, <1>2, <2>2
    <3>3. cursors'["transactions"] = n /\ cursors'["trades"] = cursors["trades"]
      BY <1>0, <1>2, <1>5 DEF Sources
    <3>. QED  BY <1>0, <1>4, <3>1, <3>2, <3>3 DEF FeedsInv, FeedsTyped, Sources
  <2>4. poll.now \in Nat /\ c.base \in Nat /\ poll.now <= Len(rows) /\ Len(rows) \in Nat
    BY <1>0, <1>4, <1>5 DEF FeedsInv, FeedsTyped, Polls, Cursors, LedgerPoll
  <2>5. LedgerSound(n)
    <3>1. n.base <= Len(rows)
      BY <1>1, <1>3, <1>4, <1>5, <2>4 DEF FeedsInv, LedgerSound
    <3>2. ~n.blind => n.seen # {}
      BY <1>0, <1>1, <1>3, <1>4, <1>5 DEF FeedsInv, LedgerPoll
    <3>3. ASSUME ~n.blind, NEW i \in Interesting, i > n.base
          PROVE  Told(i) \/ \A s \in n.seen : i > s
      <4>1. \A s \in n.seen : s \in Nat /\ s <= poll.now
        BY <1>3, <1>4, <1>5, <2>1 DEF FeedsInv, LedgerPoll
      <4>2. CASE i > poll.now
        BY <2>1, <2>4, <4>1, <4>2
      <4>3. CASE i <= poll.now
        <5>1. c.init /\ ~c.blind /\ c.base < i
          BY <1>3, <2>1, <2>4, <3>3, <4>3
        <5>. QED  BY <1>0, <1>1, <1>4, <1>5, <4>3, <5>1 DEF FeedsInv, LedgerPoll
      <4>. QED  BY <2>1, <2>4, <4>2, <4>3
    <3>. QED  BY <1>3, <2>1, <3>1, <3>2, <3>3 DEF LedgerSound
  <2>6. LedgerSound(cursors["transactions"])'
    BY <1>0, <2>3, <2>5 DEF LedgerSound, Interesting, Told
  <2>7. NothingOld(cursors["transactions"])'
    BY <1>0, <1>1, <1>3, <1>4, <1>5, <2>3 DEF FeedsInv, NothingOld, Told
  <2>8. LedgerPoll(cursors["transactions"])' /\ OffersSound(cursors["trades"])' /\ CalendarSound'
    BY <1>0, <1>4, <2>3 DEF FeedsInv, LedgerPoll, OffersSound, CalendarSound, CalendarStands
  <2>. QED  BY <2>3, <2>6, <2>7, <2>8 DEF FeedsInv
<1>6. CASE poll.of = "trades"
  <2>0. poll.seen \subseteq Keys
    BY <1>0 DEF FeedsInv, FeedsTyped
  <2>2. n \in Cursors
    BY <1>1, <1>2, <1>3, <2>0 DEF Cursors
  <2>3. FeedsTyped' /\ cursors'["trades"] = n /\ cursors'["transactions"] = cursors["transactions"]
    <3>2. cursors' \in [Sources -> Cursors]
      BY <1>0, <1>2, <2>2
    <3>3. cursors'["trades"] = n /\ cursors'["transactions"] = cursors["transactions"]
      BY <1>0, <1>2, <1>6 DEF Sources
    <3>. QED  BY <1>0, <1>4, <3>2, <3>3 DEF FeedsInv, FeedsTyped, Sources
  <2>4. baseline' = IF c.init THEN baseline ELSE poll.seen
    BY <1>1, <1>6 DEF SaveCursor
  <2>5. OffersSound(cursors["trades"])'
    BY <1>0, <1>1, <1>3, <1>4, <1>6, <2>3, <2>4 DEF FeedsInv, OffersSound
  <2>6. LedgerSound(cursors["transactions"])' /\ NothingOld(cursors["transactions"])'
    BY <1>0, <1>4, <2>3 DEF FeedsInv, LedgerSound, NothingOld, Told, Interesting
  <2>7. LedgerPoll(cursors["transactions"])' /\ CalendarSound'
    BY <1>0, <1>4 DEF FeedsInv, LedgerPoll, CalendarSound, CalendarStands
  <2>. QED  BY <2>3, <2>5, <2>6, <2>7 DEF FeedsInv
<1>. QED  BY <1>0, <1>5, <1>6 DEF Sources

\* What the calendar's own steps and a failure leave alone.
LEMMA LedgersAside ==
    ASSUME FeedsInv, UNCHANGED <<rows, cursors, told, baseline>>, poll'.of \notin Sources
    PROVE  /\ LedgerSound(cursors["transactions"])' /\ LedgerPoll(cursors["transactions"])'
           /\ NothingOld(cursors["transactions"])' /\ OffersSound(cursors["trades"])'
BY DEF FeedsInv, LedgerSound, LedgerPoll, NothingOld, Told, Interesting, OffersSound, Sources

LEMMA TheCalendar ==
    ASSUME FeedsInv, ReadCalendar \/ RecordDate \/ RetractDate \/ EndCalendar
    PROVE  FeedsInv'
<1>0. UNCHANGED <<rows, pending, agenda, clock, cursors, told, baseline>>
  BY DEF ReadCalendar, RecordDate, RetractDate, EndCalendar
<1>1. poll \in Polls /\ planned \in [Dates -> {"none", "planned", "cancelled"}] /\ agenda \subseteq Dates
      /\ clock \in Nat /\ CalendarSound /\ FeedsTyped
  BY DEF FeedsInv, FeedsTyped
<1>2. CASE ReadCalendar
  <2>1. PICK p : p = poll' /\ p = [of |-> "calendar", now |-> clock, seen |-> agenda, fresh |-> agenda]
    BY <1>2 DEF ReadCalendar
  <2>2. p \in Polls /\ UNCHANGED planned /\ agreed' = NoPoll
    BY <1>1, <1>2, <2>1 DEF Polls, ReadCalendar
  <2>3. FeedsTyped'
    BY <1>0, <1>1, <2>1, <2>2 DEF FeedsTyped, Sources
  <2>4. CalendarSound'
    BY <1>0, <1>1, <2>1, <2>2 DEF CalendarSound, CalendarStands
  <2>. QED  BY <1>0, <2>1, <2>3, <2>4, LedgersAside DEF FeedsInv, Sources
<1>3. CASE RecordDate
  <2>1. PICK d \in poll.fresh : planned' = [planned EXCEPT ![d] = "planned"]
                                /\ poll' = [poll EXCEPT !.fresh = @ \ {d}]
    BY <1>3 DEF RecordDate
  <2>2. PICK p : p = poll' /\ p \in Polls /\ p.of = "calendar" /\ p.seen = poll.seen
                 /\ p.fresh = poll.fresh \ {d}
    BY <1>1, <1>3, <2>1 DEF Polls, RecordDate
  <2>3. poll.of = "calendar" /\ UNCHANGED agreed /\ agreed = NoPoll /\ d \in Dates
        /\ planned' \in [Dates -> {"none", "planned", "cancelled"}]
    BY <1>1, <1>3, <2>1 DEF RecordDate, CalendarSound
  <2>4. FeedsTyped'
    BY <1>0, <1>1, <2>2, <2>3 DEF FeedsTyped
  <2>5. CalendarSound'
    BY <1>1, <2>1, <2>2, <2>3 DEF CalendarSound, CalendarStands
  <2>. QED  BY <1>0, <2>2, <2>4, <2>5, LedgersAside DEF FeedsInv, Sources
<1>4. CASE RetractDate
  <2>1. PICK d \in Outdated : planned' = [planned EXCEPT ![d] = "cancelled"]
    BY <1>4 DEF RetractDate
  <2>2. poll.of = "calendar" /\ UNCHANGED <<poll, agreed>> /\ agreed = NoPoll
        /\ d \in Dates \ poll.seen /\ planned' \in [Dates -> {"none", "planned", "cancelled"}]
    BY <1>1, <1>4, <2>1 DEF RetractDate, CalendarSound, Outdated
  <2>3. FeedsTyped'
    BY <1>0, <1>1, <2>2 DEF FeedsTyped
  <2>4. CalendarSound'
    BY <1>1, <2>1, <2>2 DEF CalendarSound, CalendarStands
  <2>. QED  BY <1>0, <2>2, <2>3, <2>4, LedgersAside DEF FeedsInv, Sources
<1>5. CASE EndCalendar
  <2>1. poll.of = "calendar" /\ poll.fresh = {} /\ poll' = NoPoll /\ UNCHANGED planned
        /\ NoPoll \in Polls /\ NoPoll.of = "none"
    BY <1>5 DEF EndCalendar, NoPoll, Polls
  <2>2. FeedsTyped'
    BY <1>0, <1>1, <2>1 DEF FeedsTyped, Sources
  <2>5. CalendarSound'
    <3>1. CASE poll.seen = {}
      BY <1>1, <1>5, <2>1, <3>1 DEF EndCalendar, CalendarSound, CalendarStands
    <3>2. CASE poll.seen # {}
      <4>1. agreed' = poll /\ Outdated = {}
        BY <1>5, <3>2 DEF EndCalendar
      <4>2. \A d \in Dates : d > poll.now => ((planned[d] = "planned") <=> (d \in poll.seen))
        BY <1>1, <2>1, <4>1 DEF Outdated, CalendarSound
      <4>. QED  BY <2>1, <4>1, <4>2 DEF CalendarSound, CalendarStands
    <3>. QED  BY <3>1, <3>2
  <2>. QED  BY <1>0, <2>1, <2>2, <2>5, LedgersAside DEF FeedsInv, Sources
<1>. QED  BY <1>2, <1>3, <1>4, <1>5

LEMMA FailingPolls ==
    ASSUME FeedsInv, PollFails
    PROVE  FeedsInv'
<1>1. UNCHANGED <<rows, pending, agenda, clock, cursors, told, planned, baseline, agreed>>
      /\ poll' = NoPoll /\ NoPoll \in Polls /\ NoPoll.of = "none"
  BY DEF PollFails, NoPoll, Polls
<1>2. FeedsTyped' /\ CalendarSound'
  BY <1>1 DEF FeedsInv, FeedsTyped, Sources, CalendarSound, CalendarStands
<1>. QED  BY <1>1, <1>2, LedgersAside DEF FeedsInv, Sources

LEMMA FeedsStep ==
    ASSUME Window \in Nat, FeedsInv, [FeedsNext]_feedVars
    PROVE  FeedsInv'
<1>1. CASE FeedsNext
  BY <1>1, SiteKeepsFeeds, ReadingTransactions, ReadingTrades, RecordingEvents, SavingCursors,
     TheCalendar, FailingPolls DEF FeedsNext
<1>2. CASE UNCHANGED feedVars
  BY <1>2 DEF feedVars, FeedsInv, FeedsTyped, LedgerSound, LedgerPoll, NothingOld, Told, Interesting,
        OffersSound, CalendarSound, CalendarStands
<1>. QED  BY <1>1, <1>2

\* What is neither on record nor in view is behind the window, and so is all the cursor saw.
LEMMA FeedsMissNothing ==
    ASSUME Window \in Nat, FeedsInv
    PROVE  NothingMissed
<1>. DEFINE t == cursors["transactions"]
<1>1. ASSUME t.init, ~t.blind, NEW i \in DOMAIN rows, rows[i], i > t.base
      PROVE  <<"transactions", i>> \in told \/ i \in Shown \ t.seen \/ Gap
  <2>1. i \in Interesting
    BY <1>1 DEF Interesting
  <2>. QED  BY <1>1, <2>1, WindowSuffices DEF FeedsInv, Told
<1>2. ASSUME NEW e \in told, e[1] = "transactions"
      PROVE  t.init /\ e[2] > t.base
  <2>1. e = <<"transactions", e[2]>>
    BY <1>2 DEF FeedsInv, FeedsTyped
  <2>2. Told(e[2])
    BY <2>1 DEF Told
  <2>. QED  BY <2>2 DEF FeedsInv, NothingOld
<1>3. ASSUME cursors["trades"].init, NEW o \in cursors["trades"].seen \ baseline
      PROVE  <<"trades", o>> \in told
  BY <1>3 DEF FeedsInv, OffersSound
<1>. QED  BY <1>1, <1>2, <1>3 DEF NothingMissed
\* No transaction is lost in silence, whatever failed in between: what was completed after the
\* first read is on record, in view, or the gap is plain; nothing old is announced.
THEOREM NothingIsMissed ==
    ASSUME Window \in Nat
    PROVE  FeedsInit /\ [][FeedsNext]_feedVars => []NothingMissed
<1>1. FeedsInv /\ [FeedsNext]_feedVars => FeedsInv'
  BY FeedsStep
<1>2. FeedsInv => NothingMissed
  BY FeedsMissNothing
<1>. QED  BY <1>1, <1>2, FeedsBegin, PTL

\* A completed read leaves exactly its dates planned among those to come, whatever reads were
\* interrupted before.
THEOREM CalendarIsAsRead ==
    ASSUME Window \in Nat
    PROVE  FeedsInit /\ [][FeedsNext]_feedVars => []CalendarStands
<1>1. FeedsInv /\ [FeedsNext]_feedVars => FeedsInv'
  BY FeedsStep
<1>2. FeedsInv => CalendarStands
  BY DEF FeedsInv, CalendarSound
<1>. QED  BY <1>1, <1>2, FeedsBegin, PTL

-----------------------------------------------------------------------------
(* DraftObserver: what is known of boards, notices and deliverers.         *)

Boards == [made : Seq(Selected), paused : BOOLEAN, none : BOOLEAN]
Observers == [status : {"none", "active", "held"}, manual : BOOLEAN, epoch : Nat,
              mode : Modes \cup {"runtime"}, host : Nat, fence : Nat, live : BOOLEAN,
              last : Boards, fresh : BOOLEAN, resume : Nat]
Readers == [at : {"idle", "claimed", "read"}, fence : Nat, seen : Boards]
States == {"woken", "pending", "sending", "sent", "uncertain", "superseded"}

ObserverTyped ==
    /\ board \in [made : Seq(Selected), paused : BOOLEAN]
    /\ host \in Nat
    /\ observer \in Observers
    /\ pollers \in [Pollers -> Readers]
    /\ \A p \in Pollers : pollers[p].at = "read" => ~pollers[p].seen.none
    /\ DOMAIN posters = Posters
    /\ first \in Nat

\* How often a notice appeared agrees with what its row says; one in doubt may still appear.
NoticeSound(n) ==
    /\ notices[n] \in States /\ posted[n] \in {0, 1}
    /\ notices[n] = "sent" => posted[n] = 1
    /\ notices[n] \in {"pending", "superseded", "woken"} => posted[n] = 0
NoticesSound ==
    /\ DOMAIN posted = DOMAIN notices
    /\ \A n \in DOMAIN notices : NoticeSound(n)
    /\ \A m, n \in Doubtful : m = n
    /\ \A n \in wire : n \in Doubtful /\ posted[n] = 0

\* Whoever sends, sends alone, what nobody has sent and what the observer stands for.
PosterSound(d) ==
    /\ posters[d] \in DOMAIN notices \ wire
    /\ notices[posters[d]] = "sending" /\ posted[posters[d]] = 0
    /\ Delivering /\ Current(posters[d])
PostersSound ==
    /\ \A d \in Posters : posters[d] # NoNotice => PosterSound(d)
    /\ \A d, e \in Posters : posters[d] # NoNotice /\ posters[e] # NoNotice => d = e

\* What the epoch has told of picks, and of the turn it saw last.
TheirPicks == {n \in DOMAIN notices : n.kind = "pick-confirmed" /\ n.epoch = observer.epoch}
PicksTold ==
    IF observer.last.none THEN {}
    ELSE {Picked(observer.last, i) : i \in (first + 1)..Len(observer.last.made)}
TurnOf(o) == [kind |-> "on-clock", epoch |-> o.epoch, slot |-> Len(o.last.made) + 1,
              resume |-> o.resume]
BoardTold ==
    /\ \A n \in DOMAIN notices : n.epoch \in 0..observer.epoch
    /\ ~observer.last.none => first <= Len(observer.last.made)
    /\ observer.fresh => ~observer.last.none
    /\ observer.mode = "native-buzz" => TheirPicks = PicksTold
    /\ observer.fresh /\ OnClock(observer.last) => TurnOf(observer) \in DOMAIN notices

ObserverInv == ObserverTyped /\ NoticesSound /\ PostersSound /\ BoardTold

LEMMA ObserverBegins == ObserverInit => ObserverInv
<1> SUFFICES ASSUME ObserverInit PROVE ObserverInv
  OBVIOUS
<1>1. PICK o : o = observer /\ o = [status |-> "none", manual |-> FALSE, epoch |-> 0, mode |-> "runtime",
                   host |-> 0, fence |-> 0, live |-> FALSE,
                   last |-> NoBoard, fresh |-> FALSE, resume |-> 0]
  BY DEF ObserverInit
<1>2. NoBoard \in Boards /\ NoBoard.none
  BY DEF NoBoard, Boards
<1>3. o \in Observers
  BY <1>1, <1>2 DEF Observers
<1>4. [made |-> <<>>, paused |-> FALSE] \in [made : Seq(Selected), paused : BOOLEAN]
  OBVIOUS
<1>5. Idle \in Readers /\ Idle.at = "idle"
  BY <1>2 DEF Idle, Readers
<1>6. ObserverTyped
  BY <1>1, <1>3, <1>4, <1>5 DEF ObserverInit, ObserverTyped
<1>7. DOMAIN notices = {} /\ DOMAIN posted = {} /\ wire = {}
  BY DEF ObserverInit
<1>8. NoticesSound
  BY <1>7 DEF NoticesSound, Doubtful
<1>9. PostersSound
  BY DEF ObserverInit, PostersSound
<1>10. BoardTold
  BY <1>1, <1>2, <1>7 DEF BoardTold, TheirPicks, PicksTold
<1>. QED  BY <1>6, <1>8, <1>9, <1>10 DEF ObserverInv

\* While nobody sends, or where what a sender relies on stays, nothing is disturbed.
SameStand ==
    /\ observer'.mode = observer.mode /\ observer'.status = observer.status
    /\ observer'.fresh = observer.fresh /\ observer'.last = observer.last
    /\ observer'.epoch = observer.epoch /\ observer'.resume = observer.resume
    /\ observer'.host = observer.host /\ host' = host

LEMMA SendersUndisturbed ==
    ASSUME NoticesSound, PostersSound, UNCHANGED <<notices, posted, wire, posters>>,
           LeagueFree \/ SameStand
    PROVE  NoticesSound' /\ PostersSound'
<1>1. NoticesSound'
  BY DEF NoticesSound, NoticeSound, Doubtful
<1>2. CASE LeagueFree
  <2>1. \A d \in Posters : posters'[d] = NoNotice
    BY <1>2 DEF LeagueFree
  <2>. QED  BY <1>1, <2>1 DEF PostersSound
<1>3. CASE SameStand
  <2>1. ASSUME NEW d \in Posters, posters[d] # NoNotice
        PROVE  PosterSound(d)'
    <3>1. PosterSound(d)
      BY <2>1 DEF PostersSound
    <3>. QED  BY <1>3, <3>1 DEF PosterSound, SameStand, Delivering, Current
  <2>. QED  BY <1>1, <2>1 DEF PostersSound
<1>. QED  BY <1>2, <1>3

\* Nothing new is told and nothing new was seen.
LEMMA NothingTold ==
    ASSUME BoardTold, DOMAIN notices' = DOMAIN notices, first' = first,
           observer'.epoch = observer.epoch, observer'.last = observer.last,
           observer'.mode = observer.mode,
           (observer'.fresh = observer.fresh /\ observer'.resume = observer.resume) \/ observer'.fresh = FALSE
    PROVE  BoardTold'
<1>1. TheirPicks' = TheirPicks /\ PicksTold' = PicksTold
  BY DEF TheirPicks, PicksTold, Picked
<1>2. OnClock(observer.last)' <=> OnClock(observer.last)
  BY DEF OnClock
<1>3. observer'.fresh => TurnOf(observer)' = TurnOf(observer)
  BY DEF TurnOf
<1>. QED  BY <1>1, <1>2, <1>3 DEF BoardTold

LEMMA TheSiteAndItsHost ==
    ASSUME ObserverInv, PickMade \/ PauseOrGoOn \/ Correct \/ HostReplaced
    PROVE  ObserverInv'
<1>1. UNCHANGED <<observer, pollers, notices, posters, wire, posted, first>>
  BY DEF PickMade, PauseOrGoOn, Correct, HostReplaced
<1>2. board' \in [made : Seq(Selected), paused : BOOLEAN] /\ host' \in Nat
  <2>0. PICK m \in Seq(Selected), q \in BOOLEAN : board = [made |-> m, paused |-> q] /\ host \in Nat
    BY DEF ObserverInv, ObserverTyped
  <2>1. CASE PickMade
    <3>1. PICK x \in Selected : board' = [board EXCEPT !.made = Append(@, x)] /\ UNCHANGED host
      BY <2>1 DEF PickMade
    <3>2. board' = [made |-> Append(m, x), paused |-> q]
      BY <2>0, <3>1
    <3>3. Append(m, x) \in Seq(Selected)
      OBVIOUS
    <3>. QED  BY <2>0, <3>1, <3>2, <3>3
  <2>2. CASE PauseOrGoOn
    <3>1. board' = [made |-> m, paused |-> ~q] /\ UNCHANGED host
      BY <2>0, <2>2 DEF PauseOrGoOn
    <3>. QED  BY <2>0, <3>1
  <2>3. CASE Correct
    <3>1. PICK rest \in {<<>>} \cup {<<x>> : x \in Selected} :
              board' = [board EXCEPT !.made = Front(@) \o rest] /\ UNCHANGED host
      BY <2>3 DEF Correct
    <3>2. board' = [made |-> Front(m) \o rest, paused |-> q]
      BY <2>0, <3>1
    <3>3. rest \in Seq(Selected)
      <4>1. \A x \in Selected : <<x>> \in Seq(Selected)
        OBVIOUS
      <4>2. <<>> \in Seq(Selected)
        OBVIOUS
      <4>3. rest = <<>> \/ \E x \in Selected : rest = <<x>>
        OBVIOUS
      <4>. QED  BY <4>1, <4>2, <4>3
    <3>4. Front(m) \in Seq(Selected)
      <4>1. m # <<>> /\ Len(m) \in Nat /\ \A i \in 1..(Len(m) - 1) : m[i] \in Selected
        BY <2>0, <2>3 DEF Correct
      <4>. QED  BY <4>1, SubSeqProperties DEF Front
    <3>5. Front(m) \o rest \in Seq(Selected)
      BY <3>3, <3>4
    <3>. QED  BY <2>0, <3>1, <3>2, <3>5
  <2>4. CASE HostReplaced
    BY <2>0, <2>4 DEF HostReplaced
  <2>. QED  BY <2>1, <2>2, <2>3, <2>4
<1>3. ObserverTyped'
  BY <1>1, <1>2 DEF ObserverInv, ObserverTyped
<1>4. LeagueFree \/ SameStand
  BY <1>1 DEF PickMade, PauseOrGoOn, Correct, HostReplaced, SameStand
<1>. QED  BY <1>1, <1>3, <1>4, SendersUndisturbed, NothingTold DEF ObserverInv

\* What the commissioner does, and the end of a lease.
LEMMA HoldingIt ==
    ASSUME ObserverInv, NEW manual \in BOOLEAN
    PROVE  /\ Held(manual) \in Observers /\ Held(manual).epoch = observer.epoch
           /\ Held(manual).last = observer.last /\ Held(manual).mode = observer.mode
           /\ Held(manual).fresh = observer.fresh /\ Held(manual).resume = observer.resume
<1>1. observer \in Observers
  BY DEF ObserverInv, ObserverTyped
<1>. QED  BY <1>1 DEF Held, Observers

LEMMA TheCommissioner ==
    ASSUME ObserverInv,
           PauseObserver \/ ResumeObserver \/ LeaseRunsOut
    PROVE  ObserverInv'
<1>1. UNCHANGED <<board, host, pollers, notices, posters, wire, posted, first>> /\ observer \in Observers
  BY DEF PauseObserver, ResumeObserver, LeaseRunsOut, ObserverInv, ObserverTyped
<1>2. /\ observer' \in Observers /\ observer'.epoch = observer.epoch
      /\ observer'.last = observer.last /\ observer'.mode = observer.mode
      /\ (observer'.fresh = observer.fresh /\ observer'.resume = observer.resume) \/ observer'.fresh = FALSE
  <2>1. CASE PauseObserver
    BY <2>1, HoldingIt DEF PauseObserver
  <2>2. CASE ResumeObserver
    <3>1. observer.resume + 1 \in Nat /\ observer.fence + 1 \in Nat
      BY <1>1 DEF Observers
    <3>2. PICK a \in Nat, b \in Nat :
              observer' = [observer EXCEPT !.status = "active", !.manual = FALSE, !.resume = a,
                                           !.fresh = FALSE, !.live = FALSE, !.fence = b]
      BY <2>2, <3>1 DEF ResumeObserver, Resumed
    <3>. QED  BY <1>1, <3>2 DEF Observers
  <2>3. CASE LeaseRunsOut
    BY <1>1, <2>3 DEF LeaseRunsOut, Observers
  <2>. QED  BY <2>1, <2>2, <2>3
<1>3. LeagueFree \/ SameStand
  <2>1. CASE LeaseRunsOut
    BY <1>1, <2>1 DEF LeaseRunsOut, Observers, SameStand
  <2>. QED  BY <2>1 DEF PauseObserver, ResumeObserver
<1>4. ObserverTyped'
  BY <1>1, <1>2 DEF ObserverInv, ObserverTyped
<1>. QED  BY <1>1, <1>2, <1>3, <1>4, SendersUndisturbed, NothingTold DEF ObserverInv

\* Nothing has been told of an epoch that begins.
LEMMA ConfiguringIt ==
    ASSUME ObserverInv, NEW mode \in Modes, Configure(mode)
    PROVE  ObserverInv'
<1>1. UNCHANGED <<board, host, pollers, notices, posters, wire, posted, first>> /\ LeagueFree
      /\ observer \in Observers /\ host \in Nat
  BY DEF Configure, ObserverInv, ObserverTyped
<1>2. PICK o : o = observer' /\ o = [status |-> "active", manual |-> FALSE, epoch |-> observer.epoch + 1,
                    mode |-> mode, host |-> host, fence |-> observer.fence + 1, live |-> FALSE,
                    last |-> NoBoard, fresh |-> FALSE, resume |-> 0]
  BY DEF Configure
<1>3. NoBoard \in Boards /\ NoBoard.none
  BY DEF NoBoard, Boards
<1>4. o \in Observers /\ observer.epoch \in Nat /\ o.epoch = observer.epoch + 1 /\ o.last.none /\ ~o.fresh
  BY <1>1, <1>2, <1>3 DEF Observers
<1>5. ObserverTyped'
  BY <1>1, <1>2, <1>4 DEF ObserverInv, ObserverTyped
<1>6. \A n \in DOMAIN notices : n.epoch \in 0..observer.epoch
  BY DEF ObserverInv, BoardTold
<1>7. ASSUME NEW n \in DOMAIN notices
      PROVE  n.epoch \in 0..o.epoch /\ n.epoch # o.epoch
  BY <1>4, <1>6
<1>8. TheirPicks' = {} /\ PicksTold' = {}
  BY <1>1, <1>2, <1>4, <1>7 DEF TheirPicks, PicksTold
<1>9. BoardTold'
  BY <1>1, <1>2, <1>4, <1>7, <1>8 DEF BoardTold
<1>. QED  BY <1>1, <1>5, <1>9, SendersUndisturbed DEF ObserverInv

\* A poll that is claimed, read or abandoned tells nothing.
LEMMA PollsUnread ==
    ASSUME ObserverInv, NEW p \in Pollers, ClaimPoll(p) \/ ReadBoard(p) \/ FailPoll(p)
    PROVE  ObserverInv'
<1>1. /\ UNCHANGED <<board, host, notices, posters, wire, posted, first>>
      /\ observer \in Observers /\ pollers \in [Pollers -> Readers] /\ board \in [made : Seq(Selected), paused : BOOLEAN]
      /\ \A q \in Pollers : pollers[q].at = "read" => ~pollers[q].seen.none
  BY DEF ClaimPoll, ReadBoard, FailPoll, ObserverInv, ObserverTyped
<1>2. NoBoard \in Boards /\ Idle \in Readers /\ Idle.at = "idle"
  BY DEF NoBoard, Boards, Idle, Readers
<1>3. /\ observer' \in Observers /\ observer'.epoch = observer.epoch
      /\ observer'.last = observer.last /\ observer'.mode = observer.mode
      /\ observer'.fresh = observer.fresh /\ observer'.resume = observer.resume
  <2>1. CASE observer' = Held(FALSE)
    BY <2>1, HoldingIt
  <2>2. CASE observer' = observer
    BY <1>1, <2>2
  <2>3. CASE observer' = [observer EXCEPT !.live = FALSE]
    BY <1>1, <2>3 DEF Observers
  <2>4. CASE observer' = [observer EXCEPT !.fence = @ + 1, !.live = TRUE]
    <3>0. observer.fence + 1 \in Nat
      BY <1>1 DEF Observers
    <3>1. PICK f \in Nat : observer' = [observer EXCEPT !.fence = f, !.live = TRUE]
      BY <2>4, <3>0
    <3>. QED  BY <1>1, <3>1 DEF Observers
  <2>. QED  BY <2>1, <2>2, <2>3, <2>4 DEF ClaimPoll, ReadBoard, FailPoll
<1>4. /\ pollers' \in [Pollers -> Readers]
      /\ \A q \in Pollers : pollers'[q].at = "read" => ~pollers'[q].seen.none
  <2>1. PICK r : r \in Readers /\ (r.at = "read" => ~r.seen.none)
                 /\ (pollers' = [pollers EXCEPT ![p] = r] \/ pollers' = pollers)
    <3>1. CASE FailPoll(p)
      BY <1>2, <3>1 DEF FailPoll
    <3>2. CASE ClaimPoll(p)
      <4>1. PICK r : r = [at |-> "claimed", fence |-> observer.fence + 1, seen |-> NoBoard]
        OBVIOUS
      <4>2. r \in Readers /\ r.at = "claimed"
        BY <1>1, <1>2, <4>1 DEF Readers, Observers
      <4>. QED  BY <3>2, <4>1, <4>2 DEF ClaimPoll
    <3>3. CASE ReadBoard(p)
      <4>1. PICK s : s = [made |-> board.made, paused |-> board.paused, none |-> FALSE]
        OBVIOUS
      <4>2. s \in Boards /\ ~s.none
        BY <1>1, <4>1 DEF Boards
      <4>3. PICK r : r = [pollers[p] EXCEPT !.at = "read", !.seen = s]
        OBVIOUS
      <4>4. r \in Readers /\ r.seen = s
        BY <1>1, <4>2, <4>3 DEF Readers
      <4>5. pollers' = [pollers EXCEPT ![p] = r]
        BY <1>1, <3>3, <4>1, <4>3 DEF ReadBoard
      <4>. QED  BY <4>2, <4>4, <4>5
    <3>. QED  BY <3>1, <3>2, <3>3
  <2>. QED  BY <1>1, <2>1
<1>5. LeagueFree \/ SameStand
  <2>1. CASE observer' = observer
    BY <1>1, <2>1 DEF SameStand
  <2>2. CASE observer' = [observer EXCEPT !.live = FALSE]
    BY <1>1, <2>2 DEF SameStand, Observers
  <2>. QED  BY <2>1, <2>2 DEF ClaimPoll, ReadBoard, FailPoll
<1>6. ObserverTyped'
  BY <1>1, <1>3, <1>4 DEF ObserverInv, ObserverTyped
<1>. QED  BY <1>1, <1>3, <1>5, <1>6, SendersUndisturbed, NothingTold DEF ObserverInv

\* New notices have not appeared and are not in doubt.
LEMMA NewNotices ==
    ASSUME ObserverInv, LeagueFree, NEW New, New \cap DOMAIN notices = {}, NEW st \in {"woken", "pending"},
           notices' = With(notices, New, st), posted' = With(posted, New, 0),
           UNCHANGED <<posters, wire>>
    PROVE  NoticesSound' /\ PostersSound' /\ DOMAIN notices' = DOMAIN notices \cup New
<1>1. /\ DOMAIN notices' = DOMAIN notices \cup New /\ DOMAIN posted' = DOMAIN posted \cup New
      /\ \A n \in New : notices'[n] = st /\ posted'[n] = 0
      /\ \A n \in DOMAIN notices \ New : notices'[n] = notices[n]
      /\ \A n \in DOMAIN posted \ New : posted'[n] = posted[n]
  BY DEF With
<1>2. NoticesSound
  BY DEF ObserverInv
<1>3. \A n \in DOMAIN notices : notices'[n] = notices[n] /\ posted'[n] = posted[n]
  BY <1>1, <1>2 DEF NoticesSound
<1>4. Doubtful' = Doubtful
  BY <1>1, <1>3 DEF Doubtful
<1>5. \A n \in DOMAIN notices' : NoticeSound(n)'
  <2>1. ASSUME NEW n \in New
        PROVE  NoticeSound(n)'
    BY <1>1, <2>1 DEF NoticeSound, States
  <2>2. ASSUME NEW n \in DOMAIN notices
        PROVE  NoticeSound(n)'
    BY <1>2, <1>3, <2>2 DEF NoticesSound, NoticeSound
  <2>. QED  BY <1>1, <2>1, <2>2
<1>6. NoticesSound'
  BY <1>1, <1>2, <1>3, <1>4, <1>5 DEF NoticesSound, Doubtful
<1>7. PostersSound'
  BY DEF LeagueFree, PostersSound
<1>. QED  BY <1>1, <1>6, <1>7

LEMMA PrefixOf ==
    ASSUME NEW s \in Seq(Selected), NEW t \in Seq(Selected), IsPrefix(s, t)
    PROVE  /\ Len(s) \in Nat /\ Len(t) \in Nat /\ Len(s) <= Len(t)
           /\ \A i \in 1..Len(s) : s[i] = t[i]
<1>1. Len(s) \in Nat /\ Len(t) \in Nat /\ Len(s) <= Len(t)
  BY DEF IsPrefix
<1>2. SubSeq(s, 1, Len(s)) = SubSeq(t, 1, Len(s))
  BY DEF IsPrefix
<1>3. ASSUME NEW i \in 1..Len(s)
      PROVE  s[i] = SubSeq(s, 1, Len(s))[i] /\ t[i] = SubSeq(t, 1, Len(s))[i]
  BY <1>1
<1>. QED  BY <1>1, <1>2, <1>3

\* What an observation that goes on from the last one tells.
LEMMA Telling ==
    ASSUME ObserverInv, NEW s \in Boards, ~s.none,
           IsPrefix(observer.last.made, s.made),
           DOMAIN notices' = DOMAIN notices \cup News(s),
           NEW o \in Observers, observer' = o, o.epoch = observer.epoch, o.mode = observer.mode,
           o.last = s, o.resume = ResumeAfter(s),
           first' = IF observer.last.none THEN Len(s.made) ELSE first
    PROVE  BoardTold'
<1>. DEFINE l == observer.last
<1>1. /\ observer \in Observers /\ l \in Boards /\ l.made \in Seq(Selected) /\ s.made \in Seq(Selected)
      /\ observer.epoch \in Nat /\ first \in Nat /\ BoardTold
  BY DEF ObserverInv, ObserverTyped, Observers, Boards
<1>2. /\ Len(l.made) \in Nat /\ Len(s.made) \in Nat /\ Len(l.made) <= Len(s.made)
      /\ \A i \in 1..Len(l.made) : l.made[i] = s.made[i]
  BY <1>1, PrefixOf
<1>. DEFINE Onward == IF observer.mode = "runtime" \/ l.none THEN {}
                     ELSE {Picked(s, i) : i \in (Len(l.made) + 1)..Len(s.made)}
<1>3. \A n \in News(s) : n.epoch = observer.epoch
  BY DEF News, Clock, Picked
<1>4. \A n \in News(s) : n.kind = "pick-confirmed" <=> n \in Onward
  <2>1. Clock(s).kind # "pick-confirmed"
    BY DEF Clock
  <2>2. \A i : Picked(s, i).kind = "pick-confirmed"
    BY DEF Picked
  <2>3. \A n \in Onward : n.kind = "pick-confirmed"
    BY <2>2
  <2>. QED  BY <2>1, <2>3 DEF News
<1>5. Onward \subseteq News(s)
  BY DEF News
<1>6. \A n \in DOMAIN notices' : n.epoch \in 0..o.epoch
  BY <1>1, <1>3 DEF BoardTold
<1>7. first' <= Len(s.made) /\ first' \in Nat
  <2>1. ~l.none => first <= Len(l.made)
    BY <1>1 DEF BoardTold
  <2>. QED  BY <1>1, <1>2, <2>1
<1>8. TheirPicks' = TheirPicks \cup Onward
  <2>1. TheirPicks' = {n \in DOMAIN notices \cup News(s) : n.kind = "pick-confirmed" /\ n.epoch = observer.epoch}
    BY DEF TheirPicks
  <2>2. \A n : n \in TheirPicks' <=> n \in TheirPicks \/ (n \in News(s) /\ n.kind = "pick-confirmed")
    BY <1>3, <2>1 DEF TheirPicks
  <2>. QED  BY <1>4, <1>5, <2>2
<1>9. PicksTold' = {Picked(s, i) : i \in (first' + 1)..Len(s.made)}
  BY DEF PicksTold, Picked
<1>10. ASSUME observer.mode = "native-buzz"
       PROVE  TheirPicks' = PicksTold'
  <2>1. TheirPicks = PicksTold
    BY <1>1, <1>10 DEF BoardTold
  <2>2. CASE l.none
    <3>1. (first' + 1)..Len(s.made) = {}
      BY <1>2, <2>2
    <3>2. PicksTold = {} /\ Onward = {}
      BY <2>2 DEF PicksTold
    <3>. QED  BY <1>8, <1>9, <2>1, <3>1, <3>2
  <2>3. CASE ~l.none
    <3>1. first' = first /\ first <= Len(l.made)
      BY <1>1, <2>3 DEF BoardTold
    <3>2. \A i \in (first + 1)..Len(l.made) : Picked(l, i) = Picked(s, i)
      BY <1>1, <1>2 DEF Picked
    <3>3. PicksTold = {Picked(s, i) : i \in (first + 1)..Len(l.made)}
      BY <2>3, <3>2 DEF PicksTold
    <3>4. (first + 1)..Len(s.made) = ((first + 1)..Len(l.made)) \cup ((Len(l.made) + 1)..Len(s.made))
      BY <1>1, <1>2, <3>1
    <3>5. Onward = {Picked(s, i) : i \in (Len(l.made) + 1)..Len(s.made)}
      BY <1>10, <2>3
    <3>. HIDE DEF Onward, l
    <3>. QED  BY <1>8, <1>9, <2>1, <3>1, <3>3, <3>4, <3>5
  <2>. QED  BY <2>2, <2>3
<1>11. TurnOf(observer)' = Clock(s)
  BY DEF TurnOf, Clock
<1>12. OnClock(observer.last)' => TurnOf(observer)' \in DOMAIN notices'
  <2>1. OnClock(observer.last)' <=> OnClock(s)
    BY DEF OnClock
  <2>. QED  BY <1>11, <2>1 DEF News
<1>. QED  BY <1>6, <1>7, <1>10, <1>12 DEF BoardTold

LEMMA CommittingPolls ==
    ASSUME ObserverInv, NEW p \in Pollers, CommitPoll(p)
    PROVE  ObserverInv'
<1>. DEFINE s == pollers[p].seen
            New == News(s) \ DOMAIN notices
<1>1. /\ UNCHANGED <<board, host, posters, wire>> /\ LeagueFree
      /\ observer \in Observers /\ pollers' = [pollers EXCEPT ![p] = Idle]
      /\ ObserverTyped /\ s \in Boards /\ ~s.none
  BY DEF CommitPoll, ObserverInv, ObserverTyped, Readers
<1>2. Idle \in Readers /\ Idle.at = "idle"
  BY DEF NoBoard, Boards, Idle, Readers
<1>3. /\ pollers' \in [Pollers -> Readers]
      /\ \A q \in Pollers : pollers'[q].at = "read" => ~pollers'[q].seen.none
  BY <1>1, <1>2 DEF ObserverTyped
<1>4. CASE UNCHANGED <<notices, posted, first>> /\ (observer' = observer \/ observer' = Held(FALSE))
  <2>1. /\ observer' \in Observers /\ observer'.epoch = observer.epoch
        /\ observer'.last = observer.last /\ observer'.mode = observer.mode
        /\ observer'.fresh = observer.fresh /\ observer'.resume = observer.resume
    BY <1>1, <1>4, HoldingIt
  <2>2. ObserverTyped'
    BY <1>1, <1>3, <1>4, <2>1 DEF ObserverTyped
  <2>. QED  BY <1>1, <1>4, <2>1, <2>2, SendersUndisturbed, NothingTold DEF ObserverInv
<1>5. CASE /\ IsPrefix(observer.last.made, s.made)
           /\ notices' = With(notices, New, IF observer.mode = "runtime" THEN "woken" ELSE "pending")
           /\ posted' = With(posted, New, 0)
           /\ observer' = [observer EXCEPT !.last = s, !.fresh = TRUE, !.live = FALSE,
                                           !.resume = ResumeAfter(s)]
           /\ first' = IF observer.last.none THEN Len(s.made) ELSE first
  <2>1. PICK st \in {"woken", "pending"} : notices' = With(notices, New, st)
    BY <1>5
  <2>2. New \cap DOMAIN notices = {} /\ DOMAIN notices \cup New = DOMAIN notices \cup News(s)
    OBVIOUS
  <2>. HIDE DEF New
  <2>3. NoticesSound' /\ PostersSound' /\ DOMAIN notices' = DOMAIN notices \cup News(s)
    BY <1>1, <1>5, <2>1, <2>2, NewNotices
  <2>4. ResumeAfter(s) \in Nat
    BY <1>1 DEF ResumeAfter, Observers
  <2>5. PICK o : o = observer' /\ o \in Observers /\ o.epoch = observer.epoch /\ o.mode = observer.mode
                 /\ o.last = s /\ o.resume = ResumeAfter(s)
    <3>1. PICK a \in Nat : a = ResumeAfter(s)
      BY <2>4
    <3>2. PICK t \in Boards : t = s
      BY <1>1
    <3>3. observer' = [observer EXCEPT !.last = t, !.fresh = TRUE, !.live = FALSE, !.resume = a]
      BY <1>5, <3>1, <3>2
    <3>4. /\ observer' \in Observers /\ observer'.epoch = observer.epoch
          /\ observer'.mode = observer.mode /\ observer'.last = t /\ observer'.resume = a
      BY <1>1, <3>3 DEF Observers
    <3>. HIDE DEF s
    <3>. QED  BY <3>1, <3>2, <3>4
  <2>6. BoardTold'
    <3>. HIDE DEF s
    <3>. QED  BY <1>1, <1>5, <2>3, <2>5, Telling
  <2>7. ObserverTyped'
    <3>1. first' \in Nat
      BY <1>1, <1>5 DEF ObserverTyped, Boards
    <3>. QED  BY <1>1, <1>3, <2>5, <3>1 DEF ObserverTyped
  <2>. QED  BY <2>3, <2>6, <2>7 DEF ObserverInv
<1>. QED  BY <1>4, <1>5 DEF CommitPoll

\* What is sent was not in doubt, and nothing else is.
LEMMA Delivery ==
    ASSUME ObserverInv, NEW d \in Posters, Deliver(d)
    PROVE  ObserverInv'
<1>1. /\ UNCHANGED <<board, host, observer, pollers, wire, posted, first>>
      /\ LeagueFree /\ Delivering /\ Doubtful = {}
      /\ ObserverTyped /\ NoticesSound /\ BoardTold /\ DOMAIN posters = Posters
  BY DEF Deliver, ObserverInv, ObserverTyped
<1>2. PICK n \in Waiting :
          /\ notices' = [notices EXCEPT ![n] = IF Current(n) THEN "sending" ELSE "superseded"]
          /\ posters' = IF Current(n) THEN [posters EXCEPT ![d] = n] ELSE posters
  BY DEF Deliver
<1>3. n \in DOMAIN notices /\ notices[n] = "pending" /\ posted[n] = 0 /\ wire = {}
  BY <1>1 DEF Waiting, NoticesSound, NoticeSound
<1>4. /\ DOMAIN notices' = DOMAIN notices
      /\ notices'[n] = IF Current(n) THEN "sending" ELSE "superseded"
      /\ \A m \in DOMAIN notices : m # n => notices'[m] = notices[m]
  BY <1>2, <1>3
<1>5. Doubtful' \subseteq {n}
  BY <1>1, <1>4 DEF Doubtful
<1>6. NoticesSound'
  <2>1. \A m \in DOMAIN notices' : NoticeSound(m)'
    BY <1>1, <1>3, <1>4 DEF NoticesSound, NoticeSound, States
  <2>. QED  BY <1>1, <1>3, <1>4, <1>5, <2>1 DEF NoticesSound
<1>7. PostersSound'
  <2>1. CASE Current(n)
    <3>1. \A e \in Posters \ {d} : posters'[e] = NoNotice
      BY <1>1, <1>2, <2>1 DEF LeagueFree
    <3>2. posters'[d] = n
      BY <1>1, <1>2, <2>1
    <3>3. Delivering' /\ Current(n)'
      BY <1>1, <2>1 DEF Delivering, Current
    <3>4. PosterSound(d)'
      BY <1>1, <1>3, <1>4, <2>1, <3>2, <3>3 DEF PosterSound, Current
    <3>. QED  BY <3>1, <3>4 DEF PostersSound
  <2>2. CASE ~Current(n)
    BY <1>1, <1>2, <2>2 DEF LeagueFree, PostersSound
  <2>. QED  BY <2>1, <2>2
<1>8. ObserverTyped'
  BY <1>1, <1>2 DEF ObserverTyped
<1>9. BoardTold'
  BY <1>1, <1>4, NothingTold
<1>. QED  BY <1>6, <1>7, <1>8, <1>9 DEF ObserverInv

\* The end of an attempt, known or not: nobody sends, and what may still appear is in doubt.
LEMMA Attempts ==
    ASSUME ObserverInv, NEW d \in Posters, Post(d) \/ PosterDies(d)
    PROVE  ObserverInv'
<1>. DEFINE n == posters[d]
<1>1. /\ UNCHANGED <<board, host, observer, pollers, first>> /\ n # NoNotice
      /\ posters' = [posters EXCEPT ![d] = NoNotice] /\ DOMAIN posters = Posters
      /\ ObserverTyped /\ NoticesSound /\ PostersSound /\ BoardTold
  BY DEF Post, PosterDies, ObserverInv, ObserverTyped
<1>2. n \in DOMAIN notices \ wire /\ notices[n] = "sending" /\ posted[n] = 0
  BY <1>1 DEF PostersSound, PosterSound
<1>3. \A e \in Posters : posters'[e] = NoNotice
  BY <1>1 DEF PostersSound
<1>4. PostersSound'
  BY <1>3 DEF PostersSound
<1>5. ObserverTyped'
  BY <1>1 DEF ObserverTyped
<1>6. n \in Doubtful /\ Doubtful = {n} /\ wire \subseteq {n}
  BY <1>1, <1>2 DEF NoticesSound, Doubtful
<1>7. wire = {}
  BY <1>2, <1>6
<1>8. DOMAIN posted = DOMAIN notices
  BY <1>1 DEF NoticesSound
<1>9. CASE PosterDies(d)
  <2>1. UNCHANGED <<notices, posted>> /\ wire' \subseteq {n}
    BY <1>7, <1>9 DEF PosterDies
  <2>2. NoticesSound'
    BY <1>1, <1>2, <1>6, <2>1 DEF NoticesSound, NoticeSound, Doubtful
  <2>3. BoardTold'
    BY <1>1, <2>1, NothingTold
  <2>. QED  BY <1>4, <1>5, <2>2, <2>3 DEF ObserverInv
<1>10. CASE Post(d)
  <2>1. PICK st \in {"sent", "uncertain"}, k \in {0, 1} :
            /\ notices' = [notices EXCEPT ![n] = st]
            /\ posted' = IF k = 1 THEN [posted EXCEPT ![n] = @ + 1] ELSE posted
            /\ st = "sent" => k = 1
            /\ wire' = wire \/ (k = 0 /\ st = "uncertain" /\ wire' = wire \cup {n})
    <3>1. CASE /\ notices' = [notices EXCEPT ![n] = "sent"]
               /\ posted' = [posted EXCEPT ![n] = @ + 1] /\ UNCHANGED wire
      BY <3>1
    <3>2. CASE /\ notices' = [notices EXCEPT ![n] = "uncertain"]
               /\ posted' = [posted EXCEPT ![n] = @ + 1] /\ UNCHANGED wire
      BY <3>2
    <3>3. CASE /\ notices' = [notices EXCEPT ![n] = "uncertain"] /\ UNCHANGED posted
               /\ wire' = wire \/ wire' = wire \cup {n}
      BY <3>3
    <3>. QED  BY <1>10, <3>1, <3>2, <3>3 DEF Post
  <2>2. /\ DOMAIN notices' = DOMAIN notices /\ DOMAIN posted' = DOMAIN posted
        /\ notices'[n] = st /\ posted'[n] = k
        /\ \A m \in DOMAIN notices : m # n => notices'[m] = notices[m] /\ posted'[m] = posted[m]
    BY <1>2, <1>8, <2>1
  <2>3. wire' \subseteq {n} /\ (wire' # {} => st = "uncertain" /\ k = 0)
    BY <1>7, <2>1
  <2>4. Doubtful' \subseteq {n} /\ (st = "uncertain" => n \in Doubtful')
    BY <1>2, <1>6, <2>2 DEF Doubtful
  <2>5. \A m \in DOMAIN notices' : NoticeSound(m)'
    BY <1>1, <2>1, <2>2 DEF NoticesSound, NoticeSound, States
  <2>6. NoticesSound'
    BY <1>8, <2>2, <2>3, <2>4, <2>5 DEF NoticesSound
  <2>7. BoardTold'
    BY <1>1, <2>2, NothingTold
  <2>. QED  BY <1>4, <1>5, <2>6, <2>7 DEF ObserverInv
<1>. QED  BY <1>9, <1>10

LEMMA LatePosts ==
    ASSUME ObserverInv, NEW n \in wire, PostedLate(n)
    PROVE  ObserverInv'
<1>1. /\ UNCHANGED <<board, host, observer, pollers, notices, posters, first>>
      /\ wire' = wire \ {n} /\ posted' = [posted EXCEPT ![n] = @ + 1]
      /\ ObserverTyped /\ NoticesSound /\ PostersSound /\ BoardTold
  BY DEF PostedLate, ObserverInv
<1>2. n \in Doubtful /\ posted[n] = 0 /\ n \in DOMAIN posted /\ DOMAIN posted = DOMAIN notices
      /\ notices[n] \in {"sending", "uncertain"}
  BY <1>1 DEF NoticesSound, Doubtful
<1>3. /\ DOMAIN posted' = DOMAIN posted /\ posted'[n] = 1
      /\ \A m \in DOMAIN posted : m # n => posted'[m] = posted[m]
  BY <1>1, <1>2
<1>4. Doubtful' = Doubtful
  BY <1>1 DEF Doubtful
<1>5. \A m \in DOMAIN notices : NoticeSound(m)'
  BY <1>1, <1>2, <1>3 DEF NoticesSound, NoticeSound
<1>6. NoticesSound'
  BY <1>1, <1>2, <1>3, <1>4, <1>5 DEF NoticesSound
<1>7. PostersSound'
  <2>1. ASSUME NEW d \in Posters, posters[d] # NoNotice
        PROVE  PosterSound(d)'
    <3>1. PosterSound(d) /\ posters[d] # n
      BY <1>1, <2>1 DEF PostersSound, PosterSound
    <3>2. Delivering' /\ Current(posters[d])'
      BY <1>1, <3>1 DEF PosterSound, Delivering, Current
    <3>. QED  BY <1>1, <1>2, <1>3, <3>1, <3>2 DEF PosterSound
  <2>. QED  BY <1>1, <2>1 DEF PostersSound
<1>8. ObserverTyped'
  BY <1>1 DEF ObserverTyped
<1>9. BoardTold'
  BY <1>1, NothingTold
<1>. QED  BY <1>6, <1>7, <1>8, <1>9 DEF ObserverInv

LEMMA ObserverStep ==
    ASSUME ObserverInv, [ObserverNext]_observerVars
    PROVE  ObserverInv'
<1>1. CASE ObserverNext
  BY <1>1, TheSiteAndItsHost, TheCommissioner, ConfiguringIt, PollsUnread, CommittingPolls, Delivery,
     Attempts, LatePosts DEF ObserverNext
<1>2. CASE UNCHANGED observerVars
  <2>1. /\ ObserverTyped' /\ SameStand
        /\ UNCHANGED <<notices, posted, wire, posters, observer, first>>
    BY <1>2 DEF observerVars, ObserverInv, ObserverTyped, SameStand
  <2>. QED  BY <2>1, SendersUndisturbed, NothingTold DEF ObserverInv
<1>. QED  BY <1>1, <1>2

\* A notice appears at most once, one that was put away never, and while one is in doubt no
\* other is under way: for any board, any pollers and deliverers and any number of faults.
THEOREM NoticesGoInTurn == ObserverInit /\ [][ObserverNext]_observerVars => []NoticesInTurn
<1>1. ObserverInv => NoticesInTurn
  <2> SUFFICES ASSUME ObserverInv PROVE NoticesInTurn
    OBVIOUS
  <2>1. NoticesSound
    BY DEF ObserverInv
  <2>2. Cardinality(Doubtful) <= 1
    <3>1. CASE Doubtful = {}
      BY <3>1, FS_EmptySet
    <3>2. CASE Doubtful # {}
      <4>1. PICK n : Doubtful = {n}
        BY <2>1, <3>2 DEF NoticesSound
      <4>. QED  BY <4>1, FS_Singleton
    <3>. QED  BY <3>1, <3>2
  <2>. QED  BY <2>1, <2>2 DEF NoticesInTurn, NoticesSound, NoticeSound
<1>2. ObserverInv /\ [ObserverNext]_observerVars => ObserverInv'
  BY ObserverStep
<1>. QED  BY <1>1, <1>2, ObserverBegins, PTL

\* What is being sent is what the observer stands for at that moment, through holds, pauses,
\* new epochs and a replaced host.
THEOREM NoticesStayCurrent == ObserverInit /\ [][ObserverNext]_observerVars => []NoticesAreCurrent
<1>1. ObserverInv => NoticesAreCurrent
  BY DEF ObserverInv, PostersSound, PosterSound, NoticesAreCurrent
<1>2. ObserverInv /\ [ObserverNext]_observerVars => ObserverInv'
  BY ObserverStep
<1>. QED  BY <1>1, <1>2, ObserverBegins, PTL

\* Of the board as it was last observed everything is told: every pick since the epoch was
\* first observed, no other, and the turn it is on.
THEOREM BoardIsTold == ObserverInit /\ [][ObserverNext]_observerVars => []EverythingIsTold
<1>1. ObserverInv => EverythingIsTold
  <2> SUFFICES ASSUME ObserverInv, observer.fresh PROVE EverythingIsTold
    BY DEF EverythingIsTold
  <2>1. BoardTold /\ ~observer.last.none
    BY DEF ObserverInv, BoardTold
  <2>2. OnClock(observer.last) => TurnOf(observer) \in DOMAIN notices
    BY <2>1 DEF BoardTold
  <2>3. observer.mode = "native-buzz" => TheirPicks = PicksTold
    BY <2>1 DEF BoardTold
  <2>. QED  BY <2>1, <2>2, <2>3 DEF EverythingIsTold, TurnOf, TheirPicks, PicksTold
<1>2. ObserverInv /\ [ObserverNext]_observerVars => ObserverInv'
  BY ObserverStep
<1>. QED  BY <1>1, <1>2, ObserverBegins, PTL

-----------------------------------------------------------------------------
(* MflConvention: the convention's clock stands still while it is paused,  *)
(* and what is ahead of it moves with every resumption.                    *)

Meetings == [discuss : Nat, propose : Nat, vote : Nat]
WaveRows == [phase : Phases, due : Nat, expires : Nat, status : {"pending", "dispatched", "skipped"}]

\* Deadlines are instants, and an extension only adds time.
Timely == Windows \in Meetings /\ Extensions \subseteq Nat

ConventionTyped ==
    /\ now \in Nat
    /\ meet \in Meetings
    /\ pause \in [at : Nat \cup {-1}, count : Nat]
    /\ given \in [proposals : Nat, voting : Nat]
    /\ DOMAIN wave \subseteq WaveNames
    /\ \A w \in DOMAIN wave : wave[w] \in WaveRows
    /\ Paused => pause.at <= now

MeetingClock == IF Paused THEN pause.at ELSE now

MeetingSound ==
    /\ Open => meet.propose < meet.vote
    /\ Paused => Open /\ running /\ pause.at < meet.vote
    /\ running => Open
    /\ ~running => wave = [w \in {} |-> 0]
    /\ votes # {} => Open /\ meet.propose <= MeetingClock

\* A wave to come lies in the phase it is about, or its time is over.
WaveSound(w) ==
    wave[w].status = "pending" =>
        /\ wave[w].phase = "proposals" => wave[w].expires <= meet.propose \/ wave[w].expires <= MeetingClock
        /\ wave[w].phase = "voting" => meet.propose <= wave[w].due /\ wave[w].expires <= meet.vote
        /\ wave[w].phase = "closed" => meet.vote <= wave[w].due
WavesSound == \A w \in DOMAIN wave : WaveSound(w)

\* The time the owners have had and the time still ahead make up what they were promised.
Ahead(t) == IF MeetingClock < t THEN t - MeetingClock ELSE 0
TimeSound ==
    Open =>
        /\ given.proposals + Ahead(meet.propose) >= Windows.propose
        /\ given.voting + (IF MeetingClock < meet.propose THEN meet.vote - meet.propose ELSE Ahead(meet.vote))
               >= Windows.vote - Windows.propose

ConventionInv == ConventionTyped /\ MeetingSound /\ WavesSound /\ TimeSound

\* The waves still to come when the clock stood still.
Coming(p) == {w \in DOMAIN wave : wave[w].phase = p /\ wave[w].status = "pending" /\ wave[w].due > MeetingClock}

\* The limits of a meeting, those that allow no turn after the vote included.
Limited == MaxTurns \in [Phases -> Nat]

Allowed(o, p) == MaxTurns[p] + (IF p = "voting" /\ o \in recovered THEN 1 ELSE 0)
Barred(o, p) == MaxTurns[p] = 0 /\ turns[o][p] = 0
TurnsSound ==
    /\ turns \in [Owners -> [Phases -> Nat]]
    /\ IF running THEN MaxTurns["voting"] >= 2 ELSE \A o \in Owners, p \in Phases : turns[o][p] = 0
    /\ \A o \in Owners, p \in Phases : Barred(o, p) \/ turns[o][p] + Cardinality(Coming(p)) <= Allowed(o, p)

LEMMA MeetingSteps ==
    ASSUME ConventionTyped
    PROVE  /\ now \in Nat /\ MeetingClock \in Nat /\ MeetingClock <= now
           /\ meet.discuss \in Nat /\ meet.propose \in Nat /\ meet.vote \in Nat
           /\ given.proposals \in Nat /\ given.voting \in Nat
           /\ \A w \in DOMAIN wave : wave[w].due \in Nat /\ wave[w].expires \in Nat /\ wave[w].phase \in Phases
           /\ Paused => MeetingClock = pause.at /\ pause.at \in Nat
           /\ ~Paused => MeetingClock = now
<1>1. Paused => pause.at \in Nat
  BY DEF ConventionTyped, Paused
<1>. QED  BY <1>1 DEF ConventionTyped, MeetingClock, Meetings, WaveRows

LEMMA ConventionBegins ==
    ASSUME Timely, ConventionInit
    PROVE  ConventionInv
<1>1. Unset \in Meetings /\ ~Open
  BY DEF ConventionInit, Unset, Meetings, Open
<1>2. ~Paused /\ pause \in [at : Nat \cup {-1}, count : Nat]
  BY DEF ConventionInit, Paused
<1>3. given \in [proposals : Nat, voting : Nat] /\ DOMAIN wave = {} /\ wave = [w \in {} |-> 0] /\ ~running
      /\ now = 0 /\ meet = Unset /\ votes = {}
  BY DEF ConventionInit
<1>4. ConventionTyped
  BY <1>1, <1>2, <1>3 DEF ConventionTyped
<1>. QED  BY <1>1, <1>2, <1>3, <1>4 DEF ConventionInv, MeetingSound, WavesSound, TimeSound

\* What speaks of deadlines, time and votes.
times == <<now, meet, running, wave, pause, given>>

LEMMA TimesAlone ==
    ASSUME ConventionInv, UNCHANGED times,
           votes' = votes \/ (Open /\ meet.propose <= MeetingClock)
    PROVE  ConventionInv'
BY DEF ConventionInv, ConventionTyped, MeetingSound, WavesSound, WaveSound, TimeSound, MeetingClock, Paused,
       Open, Ahead, times

LEMMA TimePassing ==
    ASSUME Timely, ConventionInv, TimePasses
    PROVE  ConventionInv'
<1>1. /\ now' = now + 1 /\ UNCHANGED <<meet, votes, running, wave, pause>>
      /\ now \in Nat /\ MeetingClock \in Nat /\ meet.propose \in Nat /\ meet.vote \in Nat
      /\ given.proposals \in Nat /\ given.voting \in Nat
      /\ ConventionTyped /\ MeetingSound
      /\ Paused => MeetingClock = pause.at /\ pause.at \in Nat
      /\ ~Paused => MeetingClock = now
  BY MeetingSteps DEF TimePasses, governance, convention, control, ConventionInv
<1>2. (Paused' <=> Paused) /\ (Open' <=> Open)
  BY <1>1 DEF Paused, Open
<1>3. MeetingClock' = IF Paused THEN MeetingClock ELSE MeetingClock + 1
  BY <1>1, <1>2 DEF MeetingClock
<1>4. PICK g \in [proposals : Nat, voting : Nat] :
          /\ g = given'
          /\ g = given \/ ~Paused
          /\ g.proposals = IF Open /\ ~Paused /\ now < meet.propose
                           THEN given.proposals + 1 ELSE given.proposals
          /\ g.voting = IF Open /\ ~Paused /\ meet.propose <= now /\ now < meet.vote
                        THEN given.voting + 1 ELSE given.voting
  <2>0. given' = IF Open /\ ~Paused /\ Phase(meet, now) # "closed"
                 THEN [given EXCEPT ![Phase(meet, now)] = @ + 1] ELSE given
    BY DEF TimePasses
  <2>1. given \in [proposals : Nat, voting : Nat]
    BY <1>1 DEF ConventionTyped
  <2>2. PICK a \in Nat, b \in Nat : a = given.proposals + 1 /\ b = given.voting + 1
    BY <1>1
  <2>3. CASE Open /\ ~Paused /\ now < meet.propose
    <3>1. Phase(meet, now) = "proposals"
      BY <2>3 DEF Phase
    <3>2. given' = [given EXCEPT !.proposals = a]
      BY <2>0, <2>2, <2>3, <3>1
    <3>. QED  BY <1>1, <2>1, <2>2, <2>3, <3>2
  <2>4. CASE Open /\ ~Paused /\ ~(now < meet.propose) /\ now < meet.vote
    <3>1. Phase(meet, now) = "voting"
      BY <2>4 DEF Phase
    <3>2. given' = [given EXCEPT !.voting = b]
      BY <2>0, <2>2, <2>4, <3>1
    <3>. QED  BY <1>1, <2>1, <2>2, <2>4, <3>2
  <2>5. CASE ~(Open /\ ~Paused /\ (now < meet.propose \/ now < meet.vote))
    <3>1. given' = given
      BY <2>0, <2>5 DEF Phase
    <3>. QED  BY <1>1, <2>1, <2>5, <3>1
  <2>. QED  BY <2>3, <2>4, <2>5
<1>5. ConventionTyped'
  <2>1. now' \in Nat /\ (Paused' => pause'.at <= now')
    BY <1>1, <1>2 DEF ConventionTyped
  <2>. QED  BY <1>1, <1>4, <2>1 DEF ConventionTyped
<1>6. MeetingSound'
  BY <1>1, <1>2, <1>3 DEF MeetingSound
<1>7. WavesSound'
  <2>1. ASSUME NEW w \in DOMAIN wave
        PROVE  WaveSound(w)'
    <3>1. WaveSound(w) /\ wave[w].expires \in Nat /\ wave[w].due \in Nat
      BY <1>1, MeetingSteps DEF ConventionInv, WavesSound
    <3>. QED  BY <1>1, <1>3, <3>1 DEF WaveSound
  <2>. QED  BY <1>1, <2>1 DEF WavesSound
<1>8. TimeSound'
  <2>1. CASE ~Open
    BY <1>2, <2>1 DEF TimeSound
  <2>2. CASE Paused
    BY <1>1, <1>2, <1>3, <1>4, <2>2 DEF ConventionInv, TimeSound, Ahead
  <2>3. CASE Open /\ ~Paused
    <3>1. /\ given.proposals + Ahead(meet.propose) >= Windows.propose
          /\ given.voting + (IF MeetingClock < meet.propose THEN meet.vote - meet.propose ELSE Ahead(meet.vote))
                 >= Windows.vote - Windows.propose
      BY <2>3 DEF ConventionInv, TimeSound
    <3>2. Windows.propose \in Nat /\ Windows.vote \in Nat /\ meet.propose < meet.vote
      BY <1>1, <2>3 DEF Timely, Meetings, MeetingSound
    <3>3. g.proposals + Ahead(meet.propose)' >= Windows.propose
      BY <1>1, <1>2, <1>3, <1>4, <2>3, <3>1, <3>2 DEF Ahead
    <3>4. g.voting + (IF MeetingClock' < meet.propose THEN meet.vote - meet.propose ELSE Ahead(meet.vote)')
              >= Windows.vote - Windows.propose
      BY <1>1, <1>2, <1>3, <1>4, <2>3, <3>1, <3>2 DEF Ahead
    <3>. QED  BY <1>1, <1>4, <3>3, <3>4 DEF TimeSound, Ahead
  <2>. QED  BY <2>1, <2>2, <2>3
<1>. QED  BY <1>5, <1>6, <1>7, <1>8 DEF ConventionInv

LEMMA MeetingOpens ==
    ASSUME Timely, ConventionInv, OpenMeeting
    PROVE  ConventionInv'
<1>1. /\ UNCHANGED <<now, votes, running, wave, pause>> /\ ~Paused /\ ~Open /\ meet' = Windows
      /\ given' = [given EXCEPT !.proposals = now]
      /\ now < Windows.discuss /\ Windows.discuss <= Windows.propose /\ Windows.propose < Windows.vote
      /\ Windows.discuss \in Nat /\ Windows.propose \in Nat /\ Windows.vote \in Nat /\ Windows \in Meetings
      /\ ConventionTyped /\ MeetingSound /\ now \in Nat
  BY DEF OpenMeeting, InSession, convention, control, Timely, Meetings, ConventionInv, ConventionTyped
<1>2. ~Paused' /\ MeetingClock' = now
  BY <1>1 DEF Paused, MeetingClock
<1>3. votes = {} /\ DOMAIN wave = {} /\ wave = [w \in {} |-> 0] /\ ~running
  BY <1>1 DEF MeetingSound
<1>4. given' \in [proposals : Nat, voting : Nat] /\ given'.proposals = now /\ given'.voting \in Nat
  BY <1>1 DEF ConventionTyped
<1>5. ConventionTyped'
  BY <1>1, <1>2, <1>4 DEF ConventionTyped
<1>6. MeetingSound'
  BY <1>1, <1>2, <1>3 DEF MeetingSound
<1>7. WavesSound'
  BY <1>1, <1>3 DEF WavesSound
<1>8. TimeSound'
  BY <1>1, <1>2, <1>4 DEF TimeSound, Ahead
<1>. QED  BY <1>5, <1>6, <1>7, <1>8 DEF ConventionInv

\* The agenda puts every wave into the phase it is about.
InAgenda(w, x) ==
    /\ x \in WaveRows
    /\ x.phase = "proposals" => w \in {"proposals", "discussion", "consolidation"} /\ x.expires <= meet.propose
    /\ x.phase = "voting" => w \in {"voting-open", "voting-review"} /\ meet.propose <= x.due /\ x.expires <= meet.vote
    /\ x.phase = "closed" => w = "closed" /\ meet.vote <= x.due

LEMMA AgendaSound ==
    ASSUME ConventionTyped,
           now < meet.discuss, meet.discuss < meet.propose, meet.propose < meet.vote
    PROVE  /\ DOMAIN Agenda(meet) = WaveNames \ {"voting-recovery"}
           /\ \A w \in DOMAIN Agenda(meet) : InAgenda(w, Agenda(meet)[w])
           /\ Agenda(meet)["proposals"].due = now
<1>1. now \in Nat /\ meet.discuss \in Nat /\ meet.propose \in Nat /\ meet.vote \in Nat
  BY MeetingSteps
<1>2. DOMAIN Agenda(meet) = WaveNames \ {"voting-recovery"}
  BY DEF Agenda
<1>3. PICK half \in Nat : half = (meet.discuss + meet.propose) \div 2 /\ half <= meet.propose
  BY <1>1
<1>4. PICK mid \in Nat : mid = (meet.propose + meet.vote) \div 2 /\ meet.propose <= mid /\ mid <= meet.vote
  BY <1>1
<1>5. /\ Agenda(meet)["proposals"] = Wave("proposals", now, meet.discuss)
      /\ Agenda(meet)["discussion"] = Wave("proposals", meet.discuss, half)
      /\ Agenda(meet)["consolidation"] = Wave("proposals", half, meet.propose)
      /\ Agenda(meet)["voting-open"] = Wave("voting", meet.propose, mid)
      /\ Agenda(meet)["voting-review"] = Wave("voting", mid, meet.vote)
      /\ Agenda(meet)["closed"] = Wave("closed", meet.vote, meet.vote + 1)
  BY <1>3, <1>4 DEF Agenda, WaveNames
<1>6. ASSUME NEW ph \in Phases, NEW a \in Nat, NEW b \in Nat
      PROVE  /\ Wave(ph, a, b) \in WaveRows /\ Wave(ph, a, b).phase = ph
             /\ Wave(ph, a, b).due = a /\ Wave(ph, a, b).expires = b
  BY DEF Wave, WaveRows
<1>7. "proposals" \in Phases /\ "voting" \in Phases /\ "closed" \in Phases
  BY DEF Phases
<1>8. ASSUME NEW w \in {"proposals", "discussion", "consolidation"}, NEW a \in Nat, NEW b \in Nat, b <= meet.propose
      PROVE  InAgenda(w, Wave("proposals", a, b))
  BY <1>6, <1>7, <1>8 DEF InAgenda
<1>9. ASSUME NEW w \in {"voting-open", "voting-review"}, NEW a \in Nat, NEW b \in Nat, meet.propose <= a, b <= meet.vote
      PROVE  InAgenda(w, Wave("voting", a, b))
  BY <1>6, <1>7, <1>9 DEF InAgenda
<1>10. InAgenda("closed", Wave("closed", meet.vote, meet.vote + 1))
  BY <1>1, <1>6, <1>7 DEF InAgenda
<1>11. ASSUME NEW w \in DOMAIN Agenda(meet)
       PROVE  InAgenda(w, Agenda(meet)[w])
  <2>1. w \in {"proposals", "discussion", "consolidation", "voting-open", "voting-review", "closed"}
    BY <1>2, <1>11 DEF WaveNames
  <2>2. CASE w \in {"proposals", "discussion", "consolidation"}
    <3>1. meet.discuss <= meet.propose /\ meet.propose <= meet.propose
      BY <1>1
    <3>. QED  BY <1>1, <1>3, <1>5, <1>8, <2>2, <3>1
  <2>3. CASE w \in {"voting-open", "voting-review"}
    <3>1. meet.propose <= meet.propose /\ meet.vote <= meet.vote
      BY <1>1
    <3>. QED  BY <1>1, <1>4, <1>5, <1>9, <2>3, <3>1
  <2>4. CASE w = "closed"
    BY <1>5, <1>10, <2>4
  <2>. QED  BY <2>1, <2>2, <2>3, <2>4
<1>. QED  BY <1>1, <1>2, <1>5, <1>6, <1>7, <1>11

LEMMA ConventionStarts ==
    ASSUME ConventionInv, StartConvention
    PROVE  ConventionInv'
<1>1. /\ UNCHANGED <<now, meet, votes, pause, given>> /\ Open /\ ~running /\ running'
      /\ wave' = Agenda(meet)
      /\ now < meet.discuss /\ meet.discuss < meet.propose /\ meet.propose < meet.vote
      /\ ConventionTyped /\ MeetingSound
  BY DEF StartConvention, governance, control, ConventionInv
<1>2. (Paused' <=> Paused) /\ (Open' <=> Open) /\ MeetingClock' = MeetingClock
  BY <1>1 DEF Paused, Open, MeetingClock
<1>3. /\ DOMAIN Agenda(meet) = WaveNames \ {"voting-recovery"}
      /\ \A w \in DOMAIN Agenda(meet) : InAgenda(w, Agenda(meet)[w])
  BY <1>1, AgendaSound
<1>4. ConventionTyped'
  BY <1>1, <1>2, <1>3 DEF ConventionTyped, InAgenda
<1>5. MeetingSound'
  BY <1>1, <1>2 DEF MeetingSound
<1>6. WavesSound'
  BY <1>1, <1>2, <1>3 DEF WavesSound, WaveSound, InAgenda
<1>7. TimeSound'
  BY <1>1, <1>2 DEF ConventionInv, TimeSound, Ahead
<1>. QED  BY <1>4, <1>5, <1>6, <1>7 DEF ConventionInv

LEMMA Ticking ==
    ASSUME ConventionInv, Tick
    PROVE  ConventionInv'
<1>1. /\ UNCHANGED <<now, meet, votes, running, pause, given>> /\ running
      /\ DOMAIN wave' = DOMAIN wave
      /\ \A w \in DOMAIN wave :
            wave'[w] = IF w \in Due THEN [wave[w] EXCEPT !.status = Fate(w)] ELSE wave[w]
      /\ ConventionTyped /\ MeetingSound
  BY DEF Tick, governance, control, ConventionInv
<1>2. (Paused' <=> Paused) /\ (Open' <=> Open) /\ MeetingClock' = MeetingClock
  BY <1>1 DEF Paused, Open, MeetingClock
<1>3. ASSUME NEW w \in DOMAIN wave
      PROVE  wave'[w] \in WaveRows /\ (wave'[w].status = "pending" => wave'[w] = wave[w])
  <2>1. wave[w] \in WaveRows /\ Fate(w) \in {"skipped", "dispatched"}
    BY <1>1 DEF ConventionTyped, Fate
  <2>. QED  BY <1>1, <2>1 DEF WaveRows
<1>4. ConventionTyped'
  BY <1>1, <1>2, <1>3 DEF ConventionTyped
<1>5. MeetingSound'
  BY <1>1, <1>2 DEF MeetingSound
<1>6. WavesSound'
  <2>1. ASSUME NEW w \in DOMAIN wave
        PROVE  WaveSound(w)'
    BY <1>1, <1>2, <1>3 DEF ConventionInv, WavesSound, WaveSound
  <2>. QED  BY <1>1, <2>1 DEF WavesSound
<1>7. TimeSound'
  BY <1>1, <1>2 DEF ConventionInv, TimeSound, Ahead
<1>. QED  BY <1>4, <1>5, <1>6, <1>7 DEF ConventionInv

LEMMA ConventionPauses ==
    ASSUME ConventionInv, PauseConvention
    PROVE  ConventionInv'
<1>1. /\ UNCHANGED <<now, meet, votes, running, wave, given>> /\ running /\ ~Paused /\ now < meet.vote
      /\ pause' = [at |-> now, count |-> pause.count + 1]
      /\ ConventionTyped /\ MeetingSound /\ now \in Nat /\ MeetingClock = now
  BY MeetingSteps DEF PauseConvention, governance, convention, ConventionInv
<1>2. Paused' /\ (Open' <=> Open) /\ MeetingClock' = MeetingClock
  BY <1>1 DEF Paused, Open, MeetingClock
<1>3. pause' \in [at : Nat \cup {-1}, count : Nat] /\ pause'.at = now
  <2>1. pause.count + 1 \in Nat
    BY <1>1 DEF ConventionTyped
  <2>. QED  BY <1>1, <2>1
<1>4. ConventionTyped'
  BY <1>1, <1>2, <1>3 DEF ConventionTyped
<1>5. MeetingSound'
  BY <1>1, <1>2, <1>3 DEF MeetingSound
<1>6. WavesSound'
  BY <1>1, <1>2 DEF ConventionInv, WavesSound, WaveSound
<1>7. TimeSound'
  BY <1>1, <1>2 DEF ConventionInv, TimeSound, Ahead
<1>. QED  BY <1>4, <1>5, <1>6, <1>7 DEF ConventionInv

\* What a resumption does to the deadlines: those ahead move by the length of the pause, and
\* both ends of the voting by the extension, which only a pause before the voting may have.
LEMMA DeadlinesMove ==
    ASSUME ConventionInv, Resumable, NEW ext \in Nat, ext = 0 \/ pause.at < meet.propose,
           NEW length, length = now - pause.at
    PROVE  LET m == Shifted(meet, length, ext) IN
           /\ length \in Nat /\ m \in Meetings
           /\ m.propose = IF meet.propose > pause.at THEN meet.propose + length + ext ELSE meet.propose
           /\ m.vote = meet.vote + length + ext /\ m.propose < m.vote
<1>1. /\ pause.at \in Nat /\ pause.at <= now /\ now \in Nat /\ meet.discuss \in Nat
      /\ meet.propose \in Nat /\ meet.vote \in Nat /\ pause.at < meet.vote /\ meet.propose < meet.vote
  BY MeetingSteps DEF ConventionInv, ConventionTyped, MeetingSound, Resumable
<1>2. length \in Nat
  BY <1>1
<1>0. /\ (IF meet.discuss > pause.at THEN meet.discuss + length ELSE meet.discuss) \in Nat
      /\ (IF meet.propose > pause.at THEN meet.propose + length + ext ELSE meet.propose) \in Nat
      /\ (IF meet.vote > pause.at THEN meet.vote + length + ext ELSE meet.vote) = meet.vote + length + ext
      /\ meet.vote + length + ext \in Nat
  BY <1>1, <1>2
<1>3. PICK d \in Nat, v \in Nat, p \in Nat : Shifted(meet, length, ext) = [discuss |-> d, propose |-> p, vote |-> v]
          /\ p = (IF meet.propose > pause.at THEN meet.propose + length + ext ELSE meet.propose)
          /\ v = meet.vote + length + ext
  BY <1>0 DEF Shifted
<1>4. p < v
  BY <1>1, <1>2, <1>3
<1>. QED  BY <1>2, <1>3, <1>4 DEF Meetings

\* And to the waves to come: each stays in its phase, or its time is over.
MovedWave(x, w, m, length) ==
    /\ x \in WaveRows /\ x.phase = wave[w].phase /\ x.status = wave[w].status
    /\ x.status = "pending" =>
          /\ x.due >= wave[w].due + length
          /\ pause.at >= wave[w].due => x.due = wave[w].due + length
          /\ x.phase = "proposals" => x.expires <= m.propose \/ x.expires <= now
          /\ x.phase = "voting" => m.propose <= x.due /\ x.expires <= m.vote
          /\ x.phase = "closed" => m.vote <= x.due

LEMMA WavesMove ==
    ASSUME ConventionInv, Resumable, NEW ext \in Nat, ext = 0 \/ pause.at < meet.propose,
           NEW length, length = now - pause.at, NEW w \in DOMAIN wave
    PROVE  MovedWave(ShiftedWaves(length, ext)[w], w, Shifted(meet, length, ext), length)
<1>. DEFINE m == Shifted(meet, length, ext)
<1>1. /\ pause.at \in Nat /\ pause.at <= now /\ now \in Nat /\ meet.propose \in Nat /\ meet.vote \in Nat
      /\ pause.at < meet.vote /\ meet.propose < meet.vote /\ MeetingClock = pause.at /\ wave[w] \in WaveRows
      /\ WaveSound(w)
  BY MeetingSteps DEF ConventionInv, ConventionTyped, MeetingSound, Resumable, WavesSound
<1>2. /\ length \in Nat
      /\ m.propose = IF meet.propose > pause.at THEN meet.propose + length + ext ELSE meet.propose
      /\ m.vote = meet.vote + length + ext
  BY DeadlinesMove
<1>3. PICK opens \in Nat, exp \in Nat : opens = wave[w].due /\ exp = wave[w].expires
  BY <1>1 DEF WaveRows
<1>4. CASE wave[w].status # "pending"
  BY <1>1, <1>4 DEF ShiftedWaves, MovedWave
<1>5. CASE wave[w].status = "pending"
  <2>1. PICK a \in Nat, b \in Nat :
            /\ a = opens + length + (IF opens >= meet.propose THEN ext ELSE 0)
            /\ b = exp + length + (IF exp >= meet.propose THEN ext ELSE 0)
    BY <1>2
  <2>2. PICK x : x = ShiftedWaves(length, ext)[w]
    OBVIOUS
  <2>3. x = [wave[w] EXCEPT !.due = a, !.expires = b]
    BY <1>1, <1>3, <1>5, <2>1, <2>2 DEF ShiftedWaves, Later
  <2>4. x \in WaveRows /\ x.phase = wave[w].phase /\ x.status = wave[w].status /\ x.due = a /\ x.expires = b
    BY <1>1, <2>3 DEF WaveRows
  <2>. HIDE DEF m
  <2>5. a >= opens + length /\ (pause.at >= opens => a = opens + length)
    BY <1>1, <1>2, <2>1
  <2>6. wave[w].phase = "proposals" => b <= m.propose \/ b <= now
    <3>1. SUFFICES ASSUME wave[w].phase = "proposals" PROVE b <= m.propose \/ b <= now
      OBVIOUS
    <3>2. exp <= meet.propose \/ exp <= pause.at
      BY <1>1, <1>3, <1>5, <3>1 DEF WaveSound
    <3>3. CASE exp <= pause.at
      BY <1>1, <1>2, <2>1, <3>3
    <3>4. CASE exp > pause.at
      BY <1>1, <1>2, <2>1, <3>2, <3>4
    <3>. QED  BY <1>1, <3>3, <3>4
  <2>7. wave[w].phase = "voting" => m.propose <= a /\ b <= m.vote
    <3>1. SUFFICES ASSUME wave[w].phase = "voting" PROVE m.propose <= a /\ b <= m.vote
      OBVIOUS
    <3>2. meet.propose <= opens /\ exp <= meet.vote
      BY <1>1, <1>3, <1>5, <3>1 DEF WaveSound
    <3>. QED  BY <1>1, <1>2, <2>1, <3>2
  <2>8. wave[w].phase = "closed" => m.vote <= a
    <3>1. SUFFICES ASSUME wave[w].phase = "closed" PROVE m.vote <= a
      OBVIOUS
    <3>2. meet.vote <= opens
      BY <1>1, <1>3, <1>5, <3>1 DEF WaveSound
    <3>. QED  BY <1>1, <1>2, <2>1, <3>2
  <2>. QED  BY <1>3, <2>2, <2>4, <2>5, <2>6, <2>7, <2>8 DEF m, MovedWave
<1>. QED  BY <1>4, <1>5

\* A resumption that moves deadlines and waves so takes nothing from anybody.
LEMMA TimesMove ==
    ASSUME Timely, ConventionInv, Resumable, NEW ext \in Nat, ext = 0 \/ pause.at < meet.propose,
           UNCHANGED <<now, votes, running, given>>, pause' = Unpaused,
           NEW m \in Meetings, meet' = m,
           m.propose = IF meet.propose > pause.at THEN meet.propose + (now - pause.at) + ext ELSE meet.propose,
           m.vote >= meet.vote + (now - pause.at) + ext,
           DOMAIN wave' \subseteq WaveNames,
           \A w \in DOMAIN wave' : wave'[w] \in WaveRows,
           \A w \in DOMAIN wave' : wave'[w].status = "pending" =>
               /\ wave'[w].phase = "proposals" => wave'[w].expires <= m.propose \/ wave'[w].expires <= now
               /\ wave'[w].phase = "voting" => m.propose <= wave'[w].due /\ wave'[w].expires <= m.vote
               /\ wave'[w].phase = "closed" => m.vote <= wave'[w].due
    PROVE  ConventionInv' /\ MeetingClock' = now
<1>1. /\ pause.at \in Nat /\ pause.at <= now /\ now \in Nat /\ meet.propose \in Nat /\ meet.vote \in Nat
      /\ pause.at < meet.vote /\ meet.propose < meet.vote /\ MeetingClock = pause.at /\ Paused /\ Open /\ running
      /\ ConventionTyped /\ MeetingSound /\ m.propose \in Nat /\ m.vote \in Nat
      /\ given.proposals \in Nat /\ given.voting \in Nat
  BY MeetingSteps DEF ConventionInv, MeetingSound, Resumable, Meetings
<1>2. PICK n \in Nat : n = now - pause.at /\ now = pause.at + n
  BY <1>1
<1>3. pause' \in [at : Nat \cup {-1}, count : Nat] /\ ~Paused' /\ MeetingClock' = now
  <2>1. pause' \in [at : Nat \cup {-1}, count : Nat] /\ pause'.at = -1
    BY <1>1 DEF ConventionTyped, Unpaused
  <2>. QED  BY <2>1 DEF Paused, MeetingClock
<1>4. Open' /\ m.propose < m.vote
  BY <1>1, <1>2 DEF Open, Unset
<1>5. ConventionTyped'
  BY <1>1, <1>3 DEF ConventionTyped
<1>6. MeetingSound'
  <2>1. votes # {} => m.propose <= now
    BY <1>1 DEF MeetingSound
  <2>. QED  BY <1>1, <1>3, <1>4, <2>1 DEF MeetingSound
<1>7. WavesSound'
  BY <1>3 DEF WavesSound, WaveSound
<1>8. TimeSound'
  <2>1. /\ given.proposals + Ahead(meet.propose) >= Windows.propose
        /\ given.voting + (IF MeetingClock < meet.propose THEN meet.vote - meet.propose ELSE Ahead(meet.vote))
               >= Windows.vote - Windows.propose
    BY <1>1 DEF ConventionInv, TimeSound
  <2>2. Windows.propose \in Nat /\ Windows.vote \in Nat
    BY DEF Timely, Meetings
  <2>3. CASE pause.at < meet.propose
    <3>1. m.propose = meet.propose + n + ext /\ m.vote - m.propose >= meet.vote - meet.propose /\ now < m.propose
      BY <1>1, <1>2, <2>3
    <3>2. m.propose - now >= meet.propose - pause.at
      BY <1>1, <1>2, <3>1
    <3>. QED  BY <1>1, <1>3, <2>1, <2>2, <2>3, <3>1, <3>2 DEF TimeSound, Ahead
  <2>4. CASE ~(pause.at < meet.propose)
    <3>1. m.propose = meet.propose /\ m.vote - now >= meet.vote - pause.at /\ ~(now < m.propose) /\ now < m.vote
      BY <1>1, <1>2, <2>4
    <3>. QED  BY <1>1, <1>3, <2>1, <2>2, <2>4, <3>1 DEF TimeSound, Ahead
  <2>. QED  BY <2>3, <2>4
<1>. QED  BY <1>3, <1>5, <1>6, <1>7, <1>8 DEF ConventionInv

LEMMA Resumption ==
    ASSUME Timely, ConventionInv, NEW ext \in Extensions, Resume(ext)
    PROVE  ConventionInv' /\ MeetingClock' = now
<1>. DEFINE length == now - pause.at
            m == Shifted(meet, length, ext)
<1>1. /\ Resumable /\ ext \in Nat /\ (ext = 0 \/ pause.at < meet.propose)
      /\ UNCHANGED <<now, votes, running, given>> /\ pause' = Unpaused /\ meet' = m
      /\ wave' = ShiftedWaves(length, ext)
  BY DEF Resume, Timely
<1>2. /\ length \in Nat /\ m \in Meetings
      /\ m.propose = IF meet.propose > pause.at THEN meet.propose + length + ext ELSE meet.propose
      /\ m.vote = meet.vote + length + ext
  BY <1>1, DeadlinesMove
<1>3. DOMAIN wave' = DOMAIN wave /\ DOMAIN wave \subseteq WaveNames
  BY <1>1 DEF ShiftedWaves, ConventionInv, ConventionTyped
<1>4. ASSUME NEW w \in DOMAIN wave'
      PROVE  /\ wave'[w] \in WaveRows
             /\ wave'[w].status = "pending" =>
               /\ wave'[w].phase = "proposals" => wave'[w].expires <= m.propose \/ wave'[w].expires <= now
               /\ wave'[w].phase = "voting" => m.propose <= wave'[w].due /\ wave'[w].expires <= m.vote
               /\ wave'[w].phase = "closed" => m.vote <= wave'[w].due
  <2>1. w \in DOMAIN wave
    BY <1>3
  <2>. HIDE DEF m
  <2>2. MovedWave(wave'[w], w, m, length)
    BY <1>1, <2>1, WavesMove DEF m
  <2>. QED  BY <2>2 DEF MovedWave
<1>5. m.vote >= meet.vote + length + ext
  <2>1. meet.vote \in Nat
    BY MeetingSteps DEF ConventionInv
  <2>. HIDE DEF m
  <2>. QED  BY <1>1, <1>2, <2>1
<1>. HIDE DEF m
<1>. QED  BY <1>1, <1>2, <1>3, <1>4, <1>5, TimesMove

\* A voting recovery adds a wave of its own, and time where the vote's is over.
LEMMA Recovery ==
    ASSUME Timely, ConventionInv, ResumeRecovery
    PROVE  /\ ConventionInv' /\ MeetingClock' = now
           /\ \A w \in DOMAIN wave' :
                 /\ w = "voting-recovery" => wave'[w].due = now
                 /\ w # "voting-recovery" =>
                       /\ w \in DOMAIN wave
                       /\ wave'[w].phase = wave[w].phase /\ wave'[w].status = wave[w].status
                       /\ wave'[w].status = "pending" /\ wave'[w].due > now => wave[w].due > pause.at
<1>. DEFINE length == now - pause.at
            m == Shifted(meet, length, 0)
            ext == IF now + 1 > m.vote THEN now + 1 - m.vote ELSE 0
            moved == ShiftedWaves(length, 0)
            New(w) == IF w = "voting-recovery" THEN Wave("voting", now, m.vote + ext)
                      ELSE IF moved[w].status = "pending" /\ moved[w].phase = "closed"
                      THEN [moved[w] EXCEPT !.due = @ + ext, !.expires = @ + ext] ELSE moved[w]
<1>1. /\ Resumable /\ UNCHANGED <<now, votes, running, given>> /\ pause' = Unpaused
      /\ meet.propose <= pause.at
      /\ \A w \in DOMAIN wave : wave[w].phase = "voting" => wave[w].status # "pending"
      /\ meet' = [m EXCEPT !.vote = @ + ext]
      /\ wave' = [w \in DOMAIN moved \cup {"voting-recovery"} |-> New(w)]
  BY DEF ResumeRecovery
<1>2. /\ length \in Nat /\ m \in Meetings
      /\ m.propose = IF meet.propose > pause.at THEN meet.propose + length + 0 ELSE meet.propose
      /\ m.vote = meet.vote + length + 0
  BY <1>1, DeadlinesMove
<1>3. /\ pause.at \in Nat /\ pause.at <= now /\ now \in Nat /\ meet.propose \in Nat /\ meet.vote \in Nat
      /\ pause.at < meet.vote /\ Paused
  BY <1>1, MeetingSteps DEF ConventionInv, MeetingSound, Resumable
<1>4. DOMAIN moved = DOMAIN wave /\ DOMAIN wave \subseteq WaveNames /\ "voting-recovery" \in WaveNames
  BY DEF ShiftedWaves, ConventionInv, ConventionTyped, WaveNames
<1>5. ASSUME NEW w \in DOMAIN wave
      PROVE  /\ moved[w] \in WaveRows /\ moved[w].phase = wave[w].phase /\ moved[w].status = wave[w].status
             /\ moved[w].status = "pending" =>
                    /\ pause.at >= wave[w].due => moved[w].due = wave[w].due + length
                    /\ moved[w].phase = "proposals" => moved[w].expires <= m.propose \/ moved[w].expires <= now
                    /\ moved[w].phase = "closed" => m.vote <= moved[w].due
                    /\ moved[w].phase # "voting"
             /\ wave[w].due \in Nat
             /\ wave[w].status = "pending" /\ wave[w].phase = "closed" => meet.vote <= wave[w].due
  <2>1. MovedWave(moved[w], w, m, length)
    <3>0. 0 \in Nat /\ (0 = 0 \/ pause.at < meet.propose)
      OBVIOUS
    <3>. QED  BY <1>1, <3>0, WavesMove
  <2>2. WaveSound(w) /\ wave[w].due \in Nat
    BY MeetingSteps DEF ConventionInv, WavesSound
  <2>. HIDE DEF m, moved
  <2>. QED  BY <1>1, <2>1, <2>2 DEF WaveSound, MovedWave
<1>. HIDE DEF m, moved
<1>6. PICK e \in Nat : e = ext
  BY <1>2, <1>3 DEF Meetings
<1>. HIDE DEF ext
<1>7. /\ meet' \in Meetings /\ meet'.propose = m.propose /\ meet'.vote = m.vote + e
      /\ m.vote \in Nat /\ m.propose \in Nat
  <2>1. m.vote \in Nat /\ m.propose \in Nat /\ m.vote + e \in Nat
    BY <1>2, <1>6 DEF Meetings
  <2>2. PICK v \in Nat : v = m.vote + e
    BY <2>1
  <2>3. meet' = [m EXCEPT !.vote = v]
    BY <1>1, <1>6, <2>2
  <2>. QED  BY <1>2, <2>1, <2>2, <2>3 DEF Meetings
<1>8. "voting" \in Phases /\ New("voting-recovery") = Wave("voting", now, m.vote + e)
  BY <1>6 DEF Phases
<1>9. PICK x : /\ x = New("voting-recovery") /\ x \in WaveRows /\ x.phase = "voting" /\ x.due = now
               /\ x.expires = m.vote + e
  <2>1. m.vote + e \in Nat
    BY <1>7
  <2>. QED  BY <1>3, <1>8, <2>1 DEF Wave, WaveRows
<1>10. ASSUME NEW w \in DOMAIN wave, w # "voting-recovery"
       PROVE  /\ New(w) \in WaveRows /\ New(w).phase = wave[w].phase /\ New(w).status = wave[w].status
              /\ New(w).status = "pending" =>
                    /\ New(w).phase = "proposals" => New(w).expires <= m.propose \/ New(w).expires <= now
                    /\ New(w).phase = "closed" => m.vote + e <= New(w).due
                    /\ New(w).phase # "voting"
                    /\ New(w).due > now => wave[w].due > pause.at
  <2>1. CASE ~(moved[w].status = "pending" /\ moved[w].phase = "closed")
    <3>1. New(w) = moved[w]
      BY <1>10, <2>1
    <3>2. PICK y : y = moved[w]
      OBVIOUS
    <3>3. y.status = "pending" /\ y.due > now => wave[w].due > pause.at
      BY <1>2, <1>3, <1>5, <1>10, <3>2
    <3>. QED  BY <1>5, <1>10, <2>1, <3>1, <3>2, <3>3
  <2>2. CASE moved[w].status = "pending" /\ moved[w].phase = "closed"
    <3>1. moved[w] \in WaveRows /\ m.vote <= moved[w].due /\ moved[w].due \in Nat /\ moved[w].expires \in Nat
      BY <1>5, <1>10, <2>2 DEF WaveRows
    <3>2. PICK a \in Nat, b \in Nat : a = moved[w].due + e /\ b = moved[w].expires + e
      <4>1. PICK d \in Nat, x1 \in Nat : d = moved[w].due /\ x1 = moved[w].expires
        BY <3>1
      <4>2. d + e \in Nat /\ x1 + e \in Nat
        OBVIOUS
      <4>. QED  BY ONLY <4>1, <4>2
    <3>3. New(w) = [moved[w] EXCEPT !.due = a, !.expires = b]
      BY <1>6, <1>10, <2>2, <3>2
    <3>4. PICK y : y = New(w) /\ y \in WaveRows /\ y.phase = "closed" /\ y.status = "pending" /\ y.due = a
      BY <2>2, <3>1, <3>3 DEF WaveRows
    <3>5. m.vote + e <= a
      BY <1>7, <3>1, <3>2
    <3>6. wave[w].due > pause.at
      BY <1>3, <1>5, <1>10, <2>2
    <3>. QED  BY <1>5, <1>10, <2>2, <3>4, <3>5, <3>6
  <2>. QED  BY <2>1, <2>2
<1>11. /\ DOMAIN wave' \subseteq WaveNames
       /\ \A w \in DOMAIN wave' : wave'[w] = New(w) /\ (w # "voting-recovery" => w \in DOMAIN wave)
  BY <1>1, <1>4
<1>. HIDE DEF New
<1>12. ASSUME NEW w \in DOMAIN wave'
       PROVE  /\ wave'[w] \in WaveRows
              /\ wave'[w].status = "pending" =>
                   /\ wave'[w].phase = "proposals" => wave'[w].expires <= meet'.propose \/ wave'[w].expires <= now
                   /\ wave'[w].phase = "voting" => meet'.propose <= wave'[w].due /\ wave'[w].expires <= meet'.vote
                   /\ wave'[w].phase = "closed" => meet'.vote <= wave'[w].due
  <2>1. CASE w = "voting-recovery"
    <3>1. m.propose <= now
      BY <1>1, <1>2, <1>3
    <3>. QED  BY <1>7, <1>9, <1>11, <2>1, <3>1
  <2>2. CASE w # "voting-recovery"
    BY <1>7, <1>10, <1>11, <2>2
  <2>. QED  BY <2>1, <2>2
<1>13. meet'.vote >= meet.vote + length + 0
  BY <1>2, <1>3, <1>7
<1>14. ConventionInv' /\ MeetingClock' = now
  <2>1. PICK k \in Meetings : k = meet'
    BY <1>7
  <2>2. /\ 0 \in Nat /\ k.vote >= meet.vote + (now - pause.at) + 0
        /\ k.propose = IF meet.propose > pause.at THEN meet.propose + (now - pause.at) + 0 ELSE meet.propose
    BY <1>2, <1>7, <1>13, <2>1
  <2>3. \A w \in DOMAIN wave' :
            /\ wave'[w] \in WaveRows
            /\ wave'[w].status = "pending" =>
                 /\ wave'[w].phase = "proposals" => wave'[w].expires <= k.propose \/ wave'[w].expires <= now
                 /\ wave'[w].phase = "voting" => k.propose <= wave'[w].due /\ wave'[w].expires <= k.vote
                 /\ wave'[w].phase = "closed" => k.vote <= wave'[w].due
    BY <1>12, <2>1
  <2>4. UNCHANGED <<now, votes, running, given>> /\ pause' = Unpaused /\ Resumable
        /\ DOMAIN wave' \subseteq WaveNames
    BY <1>1, <1>11
  <2>. QED  BY <2>1, <2>2, <2>3, <2>4, TimesMove
<1>15. ASSUME NEW w \in DOMAIN wave'
       PROVE  /\ w = "voting-recovery" => wave'[w].due = now
              /\ w # "voting-recovery" =>
                    /\ w \in DOMAIN wave
                    /\ wave'[w].phase = wave[w].phase /\ wave'[w].status = wave[w].status
                    /\ wave'[w].status = "pending" /\ wave'[w].due > now => wave[w].due > pause.at
  BY <1>9, <1>10, <1>11
<1>. QED  BY <1>14, <1>15

LEMMA ConventionStep ==
    ASSUME Timely, ConventionInv, [ConventionNext]_conventionVars
    PROVE  ConventionInv'
<1>1. CASE UNCHANGED conventionVars
  <2>1. UNCHANGED times /\ (votes' = votes \/ (Open /\ meet.propose <= MeetingClock))
    BY <1>1 DEF conventionVars, governance, convention, control, times
  <2>. QED  BY <2>1, TimesAlone
<1>2. CASE \E o \in Proposers : SubmitProposal(o)
  <2>1. UNCHANGED times /\ (votes' = votes \/ (Open /\ meet.propose <= MeetingClock))
    BY <1>2 DEF SubmitProposal, convention, control, times
  <2>. QED  BY <2>1, TimesAlone
<1>3. CASE \E o \in Voters, p \in ballot, c \in {"yes", "no"} : CastVote(o, p, c)
  <2>1. ~Paused /\ Open /\ meet.propose <= now /\ UNCHANGED times
    BY <1>3 DEF CastVote, InSession, convention, control, times
  <2>2. meet.propose <= MeetingClock
    BY <2>1 DEF MeetingClock
  <2>. QED  BY <2>1, <2>2, TimesAlone
<1>4. CASE RecordApplication \/ \E p \in ballot : PrepareRatification(p) \/ ApproveConstitution(p)
  <2>1. UNCHANGED times /\ (votes' = votes \/ (Open /\ meet.propose <= MeetingClock))
    BY <1>4 DEF RecordApplication, PrepareRatification, ApproveConstitution, convention, control, times
  <2>. QED  BY <2>1, TimesAlone
<1>5. CASE \E o \in Owners : ReserveTurn(o) \/ ReserveRecovery(o) \/ \E r \in BOOLEAN : TurnEnds(o, r)
  <2>1. UNCHANGED times /\ (votes' = votes \/ (Open /\ meet.propose <= MeetingClock))
    BY <1>5 DEF ReserveTurn, ReserveRecovery, TurnEnds, governance, control, times
  <2>. QED  BY <2>1, TimesAlone
<1>6. CASE SwitchWorkers
  <2>1. UNCHANGED times /\ (votes' = votes \/ (Open /\ meet.propose <= MeetingClock))
    BY <1>6 DEF SwitchWorkers, governance, control, times
  <2>. QED  BY <2>1, TimesAlone
<1>7. CASE TimePasses \/ OpenMeeting \/ StartConvention \/ Tick \/ PauseConvention \/ ResumeRecovery
           \/ \E e \in Extensions : Resume(e)
  BY <1>7, TimePassing, MeetingOpens, ConventionStarts, Ticking, ConventionPauses, Recovery, Resumption
<1>. QED  BY <1>1, <1>2, <1>3, <1>4, <1>5, <1>6, <1>7 DEF ConventionNext

\* Wherever the pauses fall, however long they are and whatever is extended, the meeting does
\* not close before the owners have had their whole proposal and voting time.
THEOREM OwnersKeepTheirTime ==
    ASSUME Timely
    PROVE  ConventionInit /\ [][ConventionNext]_conventionVars => []WindowsKept
<1>1. ConventionInv => WindowsKept
  <2> SUFFICES ASSUME ConventionInv, Open, ~Paused PROVE WindowsKept
    BY DEF WindowsKept
  <2>1. /\ given.proposals + Ahead(meet.propose) >= Windows.propose
        /\ given.voting + (IF MeetingClock < meet.propose THEN meet.vote - meet.propose ELSE Ahead(meet.vote))
               >= Windows.vote - Windows.propose
        /\ meet.propose < meet.vote
    BY DEF ConventionInv, TimeSound, MeetingSound
  <2>2. /\ MeetingClock = now /\ now \in Nat /\ meet.propose \in Nat /\ meet.vote \in Nat
        /\ given.proposals \in Nat /\ given.voting \in Nat
        /\ Windows.propose \in Nat /\ Windows.vote \in Nat
    BY MeetingSteps DEF ConventionInv, Timely, Meetings
  <2>3. now >= meet.propose => given.proposals >= Windows.propose
    BY <2>1, <2>2 DEF Ahead
  <2>4. now >= meet.vote => given.voting >= Windows.vote - Windows.propose
    BY <2>1, <2>2 DEF Ahead
  <2>. QED  BY <2>3, <2>4 DEF WindowsKept
<1>2. ConventionInit => ConventionInv
  BY ConventionBegins
<1>3. ConventionInv /\ [ConventionNext]_conventionVars => ConventionInv'
  BY ConventionStep
<1>. QED  BY <1>1, <1>2, <1>3, PTL

\* Once somebody has voted, no pause, extension or recovery opens the proposals again.
THEOREM CandidatesStay ==
    ASSUME Timely
    PROVE  ConventionInit /\ [][ConventionNext]_conventionVars => BallotIsFixed
<1>1. ConventionInv /\ [ConventionNext]_conventionVars => [votes # {} => ballot' = ballot]_conventionVars
  <2> SUFFICES ASSUME ConventionInv, ConventionNext, votes # {} PROVE ballot' = ballot
    OBVIOUS
  <2>1. meet.propose <= MeetingClock /\ meet.propose \in Nat /\ now \in Nat
    BY MeetingSteps DEF ConventionInv, MeetingSound
  <2>2. ASSUME NEW o \in Proposers PROVE ~SubmitProposal(o)
    <3>1. SubmitProposal(o) => ~Paused /\ now < meet.propose
      BY DEF SubmitProposal, InSession
    <3>. QED  BY <2>1, <3>1 DEF MeetingClock
  <2>. QED  BY <2>2 DEF ConventionNext, TimePasses, OpenMeeting, StartConvention, Tick, CastVote,
            PrepareRatification, ApproveConstitution, RecordApplication, ReserveTurn, ReserveRecovery,
            TurnEnds, SwitchWorkers, PauseConvention, ResumeRecovery, Resume, governance
<1>2. ConventionInit => ConventionInv
  BY ConventionBegins
<1>3. ConventionInv /\ [ConventionNext]_conventionVars => ConventionInv'
  BY ConventionStep
<1>. QED  BY <1>1, <1>2, <1>3, PTL DEF BallotIsFixed

\* Waves wake the owners in the phase they are about, also after deadlines and waves have been
\* moved separately.
THEOREM WavesStayInPhase ==
    ASSUME Timely
    PROVE  ConventionInit /\ [][ConventionNext]_conventionVars => WavesInPhase
<1>. DEFINE InPhase == \A w \in DOMAIN wave :
                           wave[w].status = "pending" /\ wave'[w].status = "dispatched"
                               => wave[w].phase = Phase(meet, now)
<1>1. ConventionInv /\ [ConventionNext]_conventionVars => [InPhase]_conventionVars
  <2> SUFFICES ASSUME ConventionInv, ConventionNext,
                      NEW w \in DOMAIN wave, wave[w].status = "pending", wave'[w].status = "dispatched"
               PROVE  wave[w].phase = Phase(meet, now)
    OBVIOUS
  <2>1. CASE Tick
    <3>1. ~Paused /\ wave'[w] = IF w \in Due THEN [wave[w] EXCEPT !.status = Fate(w)] ELSE wave[w]
      BY <2>1 DEF Tick
    <3>2. wave[w] \in WaveRows
      BY DEF ConventionInv, ConventionTyped
    <3>3. w \in Due /\ Fate(w) = "dispatched"
      BY <3>1, <3>2 DEF WaveRows
    <3>4. wave[w].due <= now /\ now < wave[w].expires
      <4>1. wave[w].expires \in Nat /\ now \in Nat
        BY <3>2 DEF WaveRows, ConventionInv, ConventionTyped
      <4>. QED  BY <3>3, <4>1 DEF Due, Fate
    <3>5. /\ MeetingClock = now /\ WaveSound(w) /\ now \in Nat /\ meet.propose \in Nat /\ meet.vote \in Nat
          /\ wave[w].due \in Nat /\ wave[w].expires \in Nat /\ wave[w].phase \in {"proposals", "voting", "closed"}
          /\ meet.propose < meet.vote
      <4>1. Open
        BY <2>1 DEF Tick, ConventionInv, MeetingSound
      <4>. QED  BY <3>1, <4>1, MeetingSteps DEF ConventionInv, WavesSound, MeetingSound, Phases
    <3>6. CASE wave[w].phase = "proposals"
      BY <3>4, <3>5, <3>6 DEF WaveSound, Phase
    <3>7. CASE wave[w].phase = "voting"
      BY <3>4, <3>5, <3>7 DEF WaveSound, Phase
    <3>8. CASE wave[w].phase = "closed"
      BY <3>4, <3>5, <3>8 DEF WaveSound, Phase
    <3>. QED  BY <3>5, <3>6, <3>7, <3>8
  <2>2. CASE StartConvention
    BY <2>2 DEF StartConvention, ConventionInv, MeetingSound
  <2>3. CASE ResumeRecovery
    <3>1. "voting-recovery" \notin DOMAIN wave
      BY <2>3 DEF ResumeRecovery
    <3>2. DOMAIN wave \subseteq DOMAIN wave'
      BY <2>3 DEF ResumeRecovery, ShiftedWaves
    <3>. QED  BY <2>3, <3>1, <3>2, Recovery
  <2>4. CASE \E e \in Extensions : Resume(e)
    <3>1. PICK e \in Extensions : Resume(e)
      BY <2>4
    <3>2. /\ Resumable /\ e \in Nat /\ (e = 0 \/ pause.at < meet.propose)
          /\ wave'[w] = ShiftedWaves(now - pause.at, e)[w]
      BY <3>1 DEF Resume, Timely
    <3>3. MovedWave(wave'[w], w, Shifted(meet, now - pause.at, e), now - pause.at)
      BY <3>2, WavesMove
    <3>. QED  BY <3>3 DEF MovedWave
  <2>5. CASE UNCHANGED wave
    BY <2>5
  <2>. QED  BY <2>1, <2>2, <2>3, <2>4, <2>5 DEF ConventionNext, TimePasses, OpenMeeting, SubmitProposal, CastVote,
            PrepareRatification, ApproveConstitution, RecordApplication, ReserveTurn, ReserveRecovery,
            TurnEnds, SwitchWorkers, PauseConvention, convention
<1>2. ConventionInit => ConventionInv
  BY ConventionBegins
<1>3. ConventionInv /\ [ConventionNext]_conventionVars => ConventionInv'
  BY ConventionStep
<1>. QED  BY <1>1, <1>2, <1>3, PTL DEF WavesInPhase


\* Only so many waves can be to come.
LEMMA WaveSets ==
    ASSUME ConventionTyped, NEW S, S \subseteq DOMAIN wave
    PROVE  IsFiniteSet(S) /\ Cardinality(S) \in Nat
<1>1. IsFiniteSet({"proposals"} \cup {"discussion"} \cup {"consolidation"} \cup {"voting-open"}
                  \cup {"voting-review"} \cup {"closed"} \cup {"voting-recovery"})
  BY FS_Singleton, FS_Union
<1>2. WaveNames = {"proposals"} \cup {"discussion"} \cup {"consolidation"} \cup {"voting-open"}
                  \cup {"voting-review"} \cup {"closed"} \cup {"voting-recovery"}
  BY DEF WaveNames
<1>3. IsFiniteSet(WaveNames) /\ S \subseteq WaveNames
  BY <1>1, <1>2 DEF ConventionTyped
<1>. QED  BY <1>3, FS_Subset, FS_CardinalityType

\* No wave turns back into one that is still to come.
LEMMA ComingShrinks ==
    ASSUME Limited, ConventionTyped, TurnsSound, turns' = turns, running' = running, recovered' = recovered,
           \A p \in Phases : Coming(p)' \subseteq Coming(p)
    PROVE  TurnsSound'
<1>1. ASSUME NEW o \in Owners, NEW p \in Phases
      PROVE  (Barred(o, p) \/ turns[o][p] + Cardinality(Coming(p)) <= Allowed(o, p))'
  <2>1. Coming(p) \subseteq DOMAIN wave /\ Coming(p)' \subseteq Coming(p)
    BY DEF Coming
  <2>2. PICK c \in Nat, d \in Nat : c = Cardinality(Coming(p)) /\ d = Cardinality(Coming(p)') /\ d <= c
    BY <2>1, WaveSets, FS_Subset, FS_CardinalityType
  <2>3. /\ Barred(o, p) \/ turns[o][p] + c <= Allowed(o, p)
        /\ turns[o][p] \in Nat /\ Allowed(o, p) \in Nat
    BY <2>2 DEF TurnsSound, Allowed, Limited
  <2>4. Allowed(o, p)' = Allowed(o, p) /\ (Barred(o, p) => Barred(o, p)')
    BY DEF Allowed, Barred
  <2>. QED  BY <2>2, <2>3, <2>4
<1>. QED  BY <1>1 DEF TurnsSound

LEMMA TurnsBegin ==
    ASSUME Limited, ConventionInit
    PROVE  TurnsSound
<1>1. /\ turns = [o \in Owners |-> [p \in Phases |-> 0]] /\ DOMAIN wave = {}
  BY DEF ConventionInit
<1>2. ASSUME NEW o \in Owners, NEW p \in Phases
      PROVE  turns[o][p] + Cardinality(Coming(p)) <= Allowed(o, p)
  <2>1. Coming(p) = {} /\ turns[o][p] = 0 /\ Allowed(o, p) \in Nat
    BY <1>1 DEF Coming, Allowed, Limited
  <2>. QED  BY <2>1, FS_EmptySet
<1>3. ~running
  BY DEF ConventionInit
<1>. QED  BY <1>1, <1>2, <1>3 DEF TurnsSound

\* The limits leave a turn for every wave of the agenda.
LEMMA AgendaFits ==
    ASSUME Limited, ConventionInv, TurnsSound, StartConvention
    PROVE  TurnsSound'
<1>1. /\ now < meet.discuss /\ meet.discuss < meet.propose /\ meet.propose < meet.vote
      /\ wave' = Agenda(meet) /\ MaxTurns["proposals"] >= 3 /\ MaxTurns["voting"] >= 2
      /\ ~running /\ running' /\ turns' = turns /\ recovered' = recovered /\ ConventionTyped
  BY DEF StartConvention, control, ConventionInv
<1>2. \A w \in DOMAIN wave' : InAgenda(w, wave'[w])
  BY <1>1, AgendaSound
<1>3. ASSUME NEW o \in Owners, NEW p \in Phases
      PROVE  (Barred(o, p) \/ turns[o][p] + Cardinality(Coming(p)) <= Allowed(o, p))'
  <2>1. PICK c : c = Coming(p)' /\ c \subseteq DOMAIN wave'
    BY DEF Coming
  <2>2. \A w \in c : InAgenda(w, wave'[w]) /\ wave'[w].phase = p
    BY <1>2, <2>1 DEF Coming
  <2>3. turns'[o][p] = 0 /\ MaxTurns[p] \in Nat /\ Allowed(o, p)' >= MaxTurns[p] /\ Allowed(o, p)' \in Nat
    BY <1>1 DEF TurnsSound, Allowed, Limited
  <2>4. Cardinality(c) \in Nat /\ (MaxTurns[p] = 0 \/ Cardinality(c) <= MaxTurns[p])
    <3>1. CASE p = "proposals"
      <4>1. c \subseteq {"proposals"} \cup {"discussion"} \cup {"consolidation"}
        BY <2>2, <3>1 DEF InAgenda
      <4>2. IsFiniteSet({"proposals"} \cup {"discussion"}) /\ Cardinality({"proposals"} \cup {"discussion"}) = 2
        <5>1. IsFiniteSet({"proposals"}) /\ Cardinality({"proposals"}) = 1
          BY FS_Singleton
        <5>2. "discussion" \notin {"proposals"}
          OBVIOUS
        <5>. QED  BY ONLY <5>1, <5>2, FS_AddElement
      <4>3. /\ IsFiniteSet({"proposals"} \cup {"discussion"} \cup {"consolidation"})
            /\ Cardinality({"proposals"} \cup {"discussion"} \cup {"consolidation"}) = 3
        BY <4>2, FS_AddElement
      <4>4. Cardinality(c) \in Nat /\ Cardinality(c) <= 3
        BY <4>1, <4>3, FS_Subset, FS_CardinalityType
      <4>. QED  BY <1>1, <2>3, <3>1, <4>4
    <3>2. CASE p = "voting"
      <4>1. c \subseteq {"voting-open"} \cup {"voting-review"}
        BY <2>2, <3>2 DEF InAgenda
      <4>2. /\ IsFiniteSet({"voting-open"} \cup {"voting-review"})
            /\ Cardinality({"voting-open"} \cup {"voting-review"}) = 2
        <5>1. IsFiniteSet({"voting-open"}) /\ Cardinality({"voting-open"}) = 1
          BY FS_Singleton
        <5>2. "voting-review" \notin {"voting-open"}
          OBVIOUS
        <5>. QED  BY ONLY <5>1, <5>2, FS_AddElement
      <4>3. Cardinality(c) \in Nat /\ Cardinality(c) <= 2
        BY <4>1, <4>2, FS_Subset, FS_CardinalityType
      <4>. QED  BY <1>1, <2>3, <3>2, <4>3
    <3>3. CASE p = "closed"
      <4>1. c \subseteq {"closed"}
        BY <2>2, <3>3 DEF InAgenda
      <4>2. Cardinality(c) \in Nat /\ Cardinality(c) <= 1
        <5>1. IsFiniteSet({"closed"}) /\ Cardinality({"closed"}) = 1
          BY FS_Singleton
        <5>. QED  BY <4>1, <5>1, FS_Subset, FS_CardinalityType
      <4>. QED  BY <2>3, <4>2
    <3>. QED  BY <3>1, <3>2, <3>3 DEF Phases
  <2>. QED  BY <2>1, <2>3, <2>4 DEF Barred
<1>. QED  BY <1>1, <1>3 DEF TurnsSound

\* A turn is reserved only while one is left for every wave to come, or as the one a recovery grants.
LEMMA TurnsReserved ==
    ASSUME Limited, ConventionInv, TurnsSound, NEW o \in Owners, ReserveTurn(o) \/ ReserveRecovery(o)
    PROVE  TurnsSound'
<1>1. /\ ~Paused /\ running /\ UNCHANGED <<now, meet, wave, running, pause>> /\ ConventionTyped
      /\ turns \in [Owners -> [Phases -> Nat]] /\ "voting" \in Phases
  BY DEF ReserveTurn, ReserveRecovery, governance, control, ConventionInv, TurnsSound, Phases
<1>2. \A q \in Phases : Coming(q)' = Coming(q) /\ Coming(q) = Future(q)
  BY <1>1 DEF Coming, Future, MeetingClock, Paused
<1>3. \A q \in Phases : Cardinality(Coming(q)) \in Nat
  BY <1>1, WaveSets DEF Coming
<1>4. PICK p \in Phases :
          /\ turns' = [turns EXCEPT ![o][p] = @ + 1]
          /\ \/ recovered' = recovered /\ turns[o][p] + Cardinality(Coming(p)) < MaxTurns[p]
             \/ p = "voting" /\ o \notin recovered /\ recovered' = recovered \cup {o}
  <2>1. CASE ReserveTurn(o)
    <3>1. Phase(meet, now) \in Phases
      BY DEF Phase, Phases
    <3>. QED  BY <1>2, <2>1, <3>1 DEF ReserveTurn, TurnLeft, control
  <2>2. CASE ReserveRecovery(o)
    BY <1>1, <2>2 DEF ReserveRecovery
  <2>. QED  BY <2>1, <2>2
<1>5. PICK n \in Nat : n = turns[o][p] + 1
  BY <1>1
<1>6. turns' = [turns EXCEPT ![o][p] = n]
  BY <1>1, <1>4, <1>5
<1>7. turns' \in [Owners -> [Phases -> Nat]]
  BY <1>1, <1>6
<1>8. ASSUME NEW a \in Owners, NEW q \in Phases
      PROVE  (Barred(a, q) \/ turns[a][q] + Cardinality(Coming(q)) <= Allowed(a, q))'
  <2>1. PICK c \in Nat : c = Cardinality(Coming(q)) /\ c = Cardinality(Coming(q)')
    BY <1>2, <1>3
  <2>2. PICK t \in Nat : t = turns[a][q] /\ (Barred(a, q) \/ t + c <= Allowed(a, q))
    BY <1>1, <2>1 DEF TurnsSound
  <2>3. /\ Allowed(a, q) \in Nat /\ Allowed(a, q)' \in Nat /\ MaxTurns[q] \in Nat
        /\ Allowed(a, q) <= Allowed(a, q)' /\ MaxTurns[q] <= Allowed(a, q)'
    BY <1>4 DEF Allowed, Limited
  <2>4. CASE a = o /\ q = p
    <3>1. turns'[a][q] = t + 1
      BY <1>1, <1>5, <1>6, <2>2, <2>4
    <3>2. CASE recovered' = recovered /\ turns[o][p] + Cardinality(Coming(p)) < MaxTurns[p]
      <4>1. t + c < MaxTurns[q]
        BY <2>1, <2>2, <2>4, <3>2
      <4>2. t + 1 + c <= Allowed(a, q)'
        BY <2>3, <4>1
      <4>. QED  BY <2>1, <3>1, <4>2
    <3>3. CASE p = "voting" /\ o \notin recovered /\ recovered' = recovered \cup {o}
      <4>1. Allowed(a, q)' = Allowed(a, q) + 1
        BY <2>3, <2>4, <3>3 DEF Allowed
      <4>2. t + c <= Allowed(a, q)
        BY <1>1, <2>2, <2>3, <2>4, <3>3 DEF TurnsSound, Barred
      <4>. QED  BY <2>1, <2>2, <2>3, <3>1, <4>1, <4>2
    <3>. QED  BY <1>4, <3>2, <3>3
  <2>5. CASE ~(a = o /\ q = p)
    <3>1. turns'[a][q] = t
      BY <1>1, <1>6, <2>2, <2>5
    <3>2. Barred(a, q) => Barred(a, q)'
      BY <2>2, <3>1 DEF Barred
    <3>. QED  BY <2>1, <2>2, <2>3, <3>1, <3>2
  <2>. QED  BY <2>4, <2>5
<1>. QED  BY <1>1, <1>7, <1>8 DEF TurnsSound

LEMMA TurnsStep ==
    ASSUME Timely, Limited, ConventionInv, TurnsSound, [ConventionNext]_conventionVars
    PROVE  TurnsSound'
<1>0. /\ ConventionTyped /\ now \in Nat /\ MeetingClock \in Nat /\ MeetingClock <= now
      /\ \A w \in DOMAIN wave : wave[w].due \in Nat
  BY MeetingSteps DEF ConventionInv
<1>1. ASSUME turns' = turns, running' = running, recovered' = recovered, wave' = wave,
             MeetingClock' \in Nat, MeetingClock' >= MeetingClock
      PROVE  TurnsSound'
  <2>1. \A p \in Phases : Coming(p)' \subseteq Coming(p)
    BY <1>0, <1>1 DEF Coming
  <2>. QED  BY <1>0, <1>1, <2>1, ComingShrinks
<1>2. CASE UNCHANGED <<turns, running, recovered, wave, now, pause>>
  <2>1. MeetingClock' = MeetingClock
    BY <1>2 DEF MeetingClock, Paused
  <2>. QED  BY <1>0, <1>1, <1>2, <2>1
<1>3. CASE TimePasses
  <2>1. UNCHANGED <<turns, running, recovered, wave, pause>> /\ now' = now + 1
    BY <1>3 DEF TimePasses, convention, control
  <2>2. MeetingClock' \in Nat /\ MeetingClock' >= MeetingClock
    BY <1>0, <2>1 DEF MeetingClock, Paused
  <2>. QED  BY <1>1, <2>1, <2>2
<1>4. CASE PauseConvention
  <2>1. UNCHANGED <<turns, running, recovered, wave, now>> /\ pause'.at = now /\ ~Paused
    BY <1>4 DEF PauseConvention, convention
  <2>2. MeetingClock' = now /\ MeetingClock = now
    BY <2>1 DEF MeetingClock, Paused
  <2>. QED  BY <1>0, <1>1, <2>1, <2>2
<1>5. CASE Tick
  <2>1. /\ UNCHANGED <<turns, running, recovered, now, pause>> /\ DOMAIN wave' = DOMAIN wave
        /\ \A w \in DOMAIN wave :
              wave'[w] = IF w \in Due THEN [wave[w] EXCEPT !.status = Fate(w)] ELSE wave[w]
    BY <1>5 DEF Tick, control
  <2>2. \A w \in DOMAIN wave : wave'[w].status = "pending" => wave'[w] = wave[w]
    <3>1. \A w \in DOMAIN wave : wave[w] \in WaveRows /\ Fate(w) \in {"skipped", "dispatched"}
      BY <1>0 DEF ConventionTyped, Fate
    <3>. QED  BY <2>1, <3>1 DEF WaveRows
  <2>3. MeetingClock' = MeetingClock
    BY <2>1 DEF MeetingClock, Paused
  <2>4. \A p \in Phases : Coming(p)' \subseteq Coming(p)
    BY <2>1, <2>2, <2>3 DEF Coming
  <2>. QED  BY <1>0, <2>1, <2>4, ComingShrinks
<1>6. CASE StartConvention
  BY <1>6, AgendaFits
<1>7. ASSUME NEW e \in Extensions, Resume(e)
      PROVE  TurnsSound'
  <2>1. /\ UNCHANGED <<turns, running, recovered, now>> /\ MeetingClock' = now /\ Resumable
        /\ wave' = ShiftedWaves(now - pause.at, e) /\ DOMAIN wave' = DOMAIN wave /\ e \in Nat
        /\ (e = 0 \/ pause.at < meet.propose)
    BY <1>7, Resumption DEF Resume, ShiftedWaves, Timely
  <2>2. MeetingClock = pause.at /\ pause.at \in Nat
    BY <2>1, MeetingSteps DEF Resumable, ConventionInv
  <2>3. ASSUME NEW w \in DOMAIN wave, wave'[w].status = "pending", wave'[w].due > now
        PROVE  wave'[w].phase = wave[w].phase /\ wave[w].status = "pending" /\ wave[w].due > MeetingClock
    <3>1. MovedWave(wave'[w], w, Shifted(meet, now - pause.at, e), now - pause.at)
      BY <2>1, WavesMove
    <3>. QED  BY <1>0, <2>2, <2>3, <3>1 DEF MovedWave
  <2>4. \A p \in Phases : Coming(p)' \subseteq Coming(p)
    BY <2>1, <2>3 DEF Coming
  <2>. QED  BY <1>0, <2>1, <2>4, ComingShrinks
<1>8. CASE ResumeRecovery
  <2>1. UNCHANGED <<turns, running, recovered, now>> /\ Resumable
    BY <1>8 DEF ResumeRecovery
  <2>2. MeetingClock = pause.at
    BY <2>1 DEF MeetingClock, Resumable
  <2>3. /\ MeetingClock' = now
        /\ \A w \in DOMAIN wave' :
              /\ w = "voting-recovery" => wave'[w].due = now
              /\ w # "voting-recovery" =>
                    /\ w \in DOMAIN wave
                    /\ wave'[w].phase = wave[w].phase /\ wave'[w].status = wave[w].status
                    /\ wave'[w].status = "pending" /\ wave'[w].due > now => wave[w].due > pause.at
    BY <1>8, Recovery
  <2>4. \A p \in Phases : Coming(p)' \subseteq Coming(p)
    BY <1>0, <2>2, <2>3 DEF Coming
  <2>. QED  BY <1>0, <2>1, <2>4, ComingShrinks
<1>9. ASSUME NEW o \in Owners, ReserveTurn(o) \/ ReserveRecovery(o)
      PROVE  TurnsSound'
  BY <1>9, TurnsReserved
<1>10. \/ UNCHANGED <<turns, running, recovered, wave, now, pause>>
       \/ TimePasses \/ PauseConvention \/ Tick \/ StartConvention
       \/ (\E e \in Extensions : Resume(e)) \/ ResumeRecovery
       \/ \E o \in Owners : ReserveTurn(o) \/ ReserveRecovery(o)
  <2>1. ASSUME UNCHANGED conventionVars \/ OpenMeeting \/ RecordApplication \/ SwitchWorkers
        PROVE  UNCHANGED <<turns, running, recovered, wave, now, pause>>
    BY <2>1 DEF conventionVars, OpenMeeting, RecordApplication, SwitchWorkers, convention, control
  <2>2. ASSUME NEW o, SubmitProposal(o) PROVE UNCHANGED <<turns, running, recovered, wave, now, pause>>
    BY <2>2 DEF SubmitProposal, convention, control
  <2>3. ASSUME NEW o, NEW p, NEW c, CastVote(o, p, c)
        PROVE  UNCHANGED <<turns, running, recovered, wave, now, pause>>
    BY <2>3 DEF CastVote, convention, control
  <2>4. ASSUME NEW p, PrepareRatification(p) \/ ApproveConstitution(p)
        PROVE  UNCHANGED <<turns, running, recovered, wave, now, pause>>
    BY <2>4 DEF PrepareRatification, ApproveConstitution, convention, control
  <2>5. ASSUME NEW o, NEW r, TurnEnds(o, r) PROVE UNCHANGED <<turns, running, recovered, wave, now, pause>>
    BY <2>5 DEF TurnEnds, control
  <2>. QED  BY <2>1, <2>2, <2>3, <2>4, <2>5 DEF ConventionNext
<1>. QED  BY <1>2, <1>3, <1>4, <1>5, <1>6, <1>7, <1>8, <1>9, <1>10

\* Early chatter never takes the turn of a wave still to come: not when a pause moves the
\* waves, not when a voting recovery adds one.  A phase whose limit is 0 has no turn at all
\* (runtime/convention.ts: reserveConventionTurn, and limits that may allow none after the vote).
THEOREM WavesHaveTheirTurns ==
    ASSUME Timely, Limited
    PROVE  ConventionInit /\ [][ConventionNext]_conventionVars => []TurnsForWaves
<1>1. ConventionInv /\ TurnsSound => TurnsForWaves
  <2> SUFFICES ASSUME ConventionInv, TurnsSound, NEW o \in Owners, NEW p \in Phases
               PROVE  Barred(o, p) \/ turns[o][p] + Cardinality(Future(p)) <= Allowed(o, p)
    BY DEF TurnsForWaves, Allowed, Barred
  <2>1. /\ now \in Nat /\ MeetingClock \in Nat /\ MeetingClock <= now /\ ConventionTyped
        /\ \A w \in DOMAIN wave : wave[w].due \in Nat
    BY MeetingSteps DEF ConventionInv
  <2>2. Future(p) \subseteq Coming(p) /\ Coming(p) \subseteq DOMAIN wave
    BY <2>1 DEF Future, Coming
  <2>3. PICK c \in Nat, d \in Nat : c = Cardinality(Coming(p)) /\ d = Cardinality(Future(p)) /\ d <= c
    BY <2>1, <2>2, WaveSets, FS_Subset, FS_CardinalityType
  <2>4. /\ Barred(o, p) \/ turns[o][p] + c <= Allowed(o, p)
        /\ turns[o][p] \in Nat /\ Allowed(o, p) \in Nat
    BY <2>3 DEF TurnsSound, Allowed, Limited
  <2>. QED  BY <2>3, <2>4
<1>2. ConventionInit => ConventionInv /\ TurnsSound
  BY ConventionBegins, TurnsBegin
<1>3. ConventionInv /\ TurnsSound /\ [ConventionNext]_conventionVars => (ConventionInv /\ TurnsSound)'
  BY ConventionStep, TurnsStep
<1>. QED  BY <1>1, <1>2, <1>3, PTL

-----------------------------------------------------------------------------
(* LeagueDraft: the clock of a pick.                                       *)

\* A constitution as its schema accepts it, and franchises that are different.
Chartered ==
    /\ Teams \in Seq(Range(Teams)) /\ Len(Teams) > 0
    /\ \A i, j \in DOMAIN Teams : Teams[i] = Teams[j] => i = j
    /\ RosterSize \in Nat \ {0} /\ PickTime \in Nat /\ Snake \in BOOLEAN
    /\ IsFiniteSet(Players)

PickRows == [team : Range(Teams), player : Players, automatic : BOOLEAN]

DraftTyped ==
    /\ draft \in [status : {"setup", "drafting", "active"}, next : Nat, epoch : Nat,
                  paused : BOOLEAN, left : Nat]
    /\ picks \in Seq(PickRows) /\ had \in Nat
    /\ draft.next = Len(picks)
    /\ draft.status = "setup" => draft.next = 0
    /\ draft.status = "drafting" => draft.next < AllPicks
    /\ draft.status = "active" => draft.next = AllPicks

\* What the running clock still gives a pick makes up, with what it has had, its whole time.
ClockInv == draft.status = "drafting" => had + draft.left >= PickTime

\* The pick numbered i, from 1, is of the franchise in that place, and of a player of its own.
PicksInTurn ==
    /\ \A i \in DOMAIN picks : picks[i].team = Teams[Position(i - 1)]
    /\ \A i, j \in DOMAIN picks : picks[i].player = picks[j].player => i = j

DraftInv == DraftTyped /\ ClockInv /\ PicksInTurn

LEMMA Division ==
    ASSUME NEW n \in Nat \ {0}, NEW i \in Nat
    PROVE  /\ i \div n \in Nat /\ i % n \in 0..(n - 1)
           /\ i = (i \div n) * n + (i % n)
OBVIOUS

LEMMA Multiples ==
    ASSUME NEW n \in Nat \ {0}, NEW q \in Int, NEW r \in Int, q < r
    PROVE  q * n + n <= r * n
<1>1. (r - q - 1) * n >= 0
  OBVIOUS
<1>2. (r - q - 1) * n = r * n - q * n - n
  OBVIOUS
<1>. QED  BY <1>1, <1>2

LEMMA OneQuotient ==
    ASSUME NEW n \in Nat \ {0}, NEW q \in Nat, NEW k \in 0..(n - 1)
    PROVE  q * n + k \in Nat /\ (q * n + k) \div n = q /\ (q * n + k) % n = k
<1>1. PICK i \in Nat : i = q * n + k
  OBVIOUS
<1>2. PICK r \in Nat, l \in 0..(n - 1) : r = i \div n /\ l = i % n /\ i = r * n + l
  BY Division
<1>3. q = r
  BY <1>1, <1>2, Multiples
<1>. QED  BY <1>1, <1>2, <1>3

LEMMA Sizes ==
    ASSUME Chartered
    PROVE  N \in Nat \ {0} /\ DOMAIN Teams = 1..N /\ AllPicks \in Nat \ {0}
<1>1. N \in Nat \ {0} /\ DOMAIN Teams = 1..N
  BY DEF Chartered, N
<1>2. RosterSize \in Nat \ {0}
  BY DEF Chartered
<1>3. N * RosterSize \in Nat \ {0}
  BY <1>1, <1>2
<1>. QED  BY <1>1, <1>3 DEF AllPicks

LEMMA PositionInTeams ==
    ASSUME Chartered, NEW i \in Nat
    PROVE  Position(i) \in 1..N
<1>1. N \in Nat \ {0}
  BY Sizes
<1>2. i % N \in 0..(N - 1)
  BY <1>1, Division
<1>. QED  BY <1>1, <1>2 DEF Position

\* A pick, by whichever hand.
LEMMA PickTaken ==
    ASSUME Chartered, DraftInv, draft.status = "drafting", NEW p, NEW automatic \in BOOLEAN, Taken(p, automatic)
    PROVE  DraftInv' /\ picks' # picks /\ Last(picks').automatic = automatic
<1>. DEFINE row == [team |-> TeamOnClock, player |-> p, automatic |-> automatic]
<1>1. /\ p \in Players /\ p \notin Drafted
      /\ picks' = Append(picks, row) /\ had' = 0
      /\ draft' = IF draft.next + 1 = AllPicks
                  THEN [draft EXCEPT !.next = @ + 1, !.status = "active", !.left = 0]
                  ELSE [draft EXCEPT !.next = @ + 1, !.left = PickTime]
  BY DEF Taken
<1>2. /\ picks \in Seq(PickRows) /\ draft.next = Len(picks) /\ draft.next < AllPicks
      /\ AllPicks \in Nat /\ PickTime \in Nat
  BY Sizes DEF DraftInv, DraftTyped, Chartered
<1>3. TeamOnClock = Teams[Position(draft.next)] /\ TeamOnClock \in Range(Teams)
  BY <1>2, PositionInTeams, Sizes DEF TeamOnClock, Range
<1>4. row \in PickRows
  BY <1>1, <1>3 DEF PickRows
<1>5. /\ picks' \in Seq(PickRows) /\ Len(picks') = Len(picks) + 1
      /\ picks'[Len(picks) + 1] = row /\ \A i \in DOMAIN picks : picks'[i] = picks[i]
      /\ DOMAIN picks' = DOMAIN picks \cup {Len(picks) + 1}
  BY <1>1, <1>2, <1>4
<1>6. Last(picks').automatic = automatic
  BY <1>5 DEF Last
<1>7. row.team = TeamOnClock /\ row.player = p
  OBVIOUS
<1>. HIDE DEF row
<1>8. DraftTyped' /\ ClockInv'
  <2>1. CASE draft.next + 1 = AllPicks
    <3>1. /\ draft'.status = "active" /\ draft'.next = draft.next + 1
          /\ draft' \in [status : {"setup", "drafting", "active"}, next : Nat, epoch : Nat,
                         paused : BOOLEAN, left : Nat]
      BY <1>1, <1>2, <2>1 DEF DraftInv, DraftTyped
    <3>. QED  BY <1>1, <1>2, <1>5, <2>1, <3>1 DEF DraftTyped, ClockInv, AllPicks
  <2>2. CASE draft.next + 1 # AllPicks
    <3>0. draft' = [draft EXCEPT !.next = @ + 1, !.left = PickTime]
      BY <1>1, <2>2
    <3>1. /\ draft'.status = "drafting" /\ draft'.next = draft.next + 1 /\ draft'.left = PickTime
          /\ draft' \in [status : {"setup", "drafting", "active"}, next : Nat, epoch : Nat,
                         paused : BOOLEAN, left : Nat]
      <4>1. draft \in [status : {"setup", "drafting", "active"}, next : Nat, epoch : Nat,
                       paused : BOOLEAN, left : Nat]
        BY DEF DraftInv, DraftTyped
      <4>2. PICK n \in Nat : n = draft.next + 1
        BY <4>1
      <4>3. draft' = [draft EXCEPT !.next = n, !.left = PickTime]
        BY <3>0, <4>2
      <4>. QED  BY <1>2, <4>1, <4>2, <4>3
    <3>2. AllPicks' = AllPicks
      BY DEF AllPicks
    <3>. QED  BY <1>1, <1>2, <1>5, <2>2, <3>1, <3>2 DEF DraftTyped, ClockInv
  <2>. QED  BY <2>1, <2>2
<1>9. PicksInTurn'
  <2>2. \A i \in DOMAIN picks : picks[i].player # p
    BY <1>1 DEF Drafted
  <2>3. \A i \in DOMAIN picks' : picks'[i].team = Teams[Position(i - 1)]
    <3>1. picks'[Len(picks) + 1].team = Teams[Position((Len(picks) + 1) - 1)]
      <4>1. (Len(picks) + 1) - 1 = draft.next
        BY <1>2
      <4>. QED  BY <1>3, <1>5, <1>7, <4>1
    <3>2. \A i \in DOMAIN picks : picks'[i].team = Teams[Position(i - 1)]
      BY <1>5 DEF DraftInv, PicksInTurn
    <3>. QED  BY <1>5, <3>1, <3>2
  <2>4. \A i, j \in DOMAIN picks' : picks'[i].player = picks'[j].player => i = j
    BY <1>5, <1>7, <2>2 DEF DraftInv, PicksInTurn
  <2>. QED  BY <2>3, <2>4 DEF PicksInTurn
<1>. QED  BY <1>2, <1>5, <1>6, <1>8, <1>9 DEF DraftInv

LEMMA DraftStep ==
    ASSUME Chartered, DraftInv, [DraftNext]_draftVars
    PROVE  DraftInv' /\ (picks' # picks /\ Last(picks').automatic => had >= PickTime)
<1>. DEFINE Records == [status : {"setup", "drafting", "active"}, next : Nat, epoch : Nat,
                        paused : BOOLEAN, left : Nat]
<1>0. /\ draft \in Records /\ picks \in Seq(PickRows) /\ had \in Nat /\ PickTime \in Nat
      /\ AllPicks \in Nat \ {0} /\ draft.next = Len(picks)
  BY Sizes DEF DraftInv, DraftTyped, Chartered
\* Steps between the picks.
<1>1. ASSUME UNCHANGED picks, draft' \in Records, had' \in Nat, draft'.next = draft.next,
             \/ draft'.status = draft.status
             \/ draft.status = "setup" /\ draft'.status = "drafting",
             draft'.status = "drafting" => had' + draft'.left >= PickTime
      PROVE  DraftInv' /\ (picks' # picks /\ Last(picks').automatic => had >= PickTime)
  <2>1. DraftTyped'
    BY <1>0, <1>1 DEF DraftInv, DraftTyped, AllPicks
  <2>2. ClockInv'
    BY <1>1 DEF ClockInv
  <2>3. PicksInTurn'
    BY <1>1 DEF DraftInv, PicksInTurn
  <2>. QED  BY <1>1, <2>1, <2>2, <2>3 DEF DraftInv
<1>2. CASE StartDraft
  <2>1. draft' = [draft EXCEPT !.status = "drafting", !.left = PickTime] /\ had' = 0 /\ UNCHANGED picks
    BY <1>2 DEF StartDraft
  <2>2. draft' \in Records /\ draft'.next = draft.next /\ draft'.status = "drafting" /\ draft'.left = PickTime
    BY <1>0, <2>1
  <2>. QED  BY <1>0, <1>1, <1>2, <2>1, <2>2 DEF StartDraft
<1>3. CASE \E t \in Range(Teams), q \in Queues : SetDraftQueue(t, q)
  <2>1. UNCHANGED <<draft, picks, had>>
    BY <1>3 DEF SetDraftQueue
  <2>. QED  BY <1>0, <1>1, <2>1 DEF DraftInv, ClockInv
<1>4. ASSUME draft' = PausedDraft, UNCHANGED <<picks, had>>
      PROVE  DraftInv' /\ (picks' # picks /\ Last(picks').automatic => had >= PickTime)
  <2>1. /\ draft' \in Records /\ draft'.next = draft.next /\ draft'.status = draft.status
        /\ draft'.left = draft.left
    BY <1>0, <1>4 DEF PausedDraft
  <2>. QED  BY <1>0, <1>1, <1>4, <2>1 DEF DraftInv, ClockInv
<1>5. CASE PauseDraft
  BY <1>4, <1>5 DEF PauseDraft
<1>6. CASE ResumeDraft
  <2>1. draft' = [draft EXCEPT !.paused = FALSE, !.epoch = @ + 1, !.left = Remaining]
    BY <1>6 DEF ResumeDraft
  <2>2. Remaining \in Nat
    BY <1>0 DEF Remaining
  <2>3. /\ draft' \in Records /\ draft'.next = draft.next /\ draft'.status = draft.status
        /\ draft'.left = Remaining
    <3>1. PICK e \in Nat : e = draft.epoch + 1
      BY <1>0
    <3>2. draft' = [draft EXCEPT !.paused = FALSE, !.epoch = e, !.left = Remaining]
      BY <2>1, <3>1
    <3>. QED  BY <1>0, <2>2, <3>2
  <2>4. /\ UNCHANGED picks /\ draft.status = "drafting"
        /\ had' = IF draft.left = 0 THEN 0 ELSE had
    BY <1>6 DEF ResumeDraft
  <2>5. had' + draft'.left >= PickTime
    BY <1>0, <2>3, <2>4 DEF Remaining, DraftInv, ClockInv
  <2>. QED  BY <1>0, <1>1, <2>3, <2>4, <2>5
<1>7. CASE \E p \in Players : DraftPick(p)
  <2>1. PICK p \in Players : Running /\ Taken(p, FALSE)
    BY <1>7 DEF DraftPick
  <2>2. DraftInv' /\ Last(picks').automatic = FALSE
    BY <2>1, PickTaken DEF Running
  <2>. QED  BY <2>2
<1>8. CASE ReadDue
  <2>1. UNCHANGED <<draft, picks, had>>
    BY <1>8 DEF ReadDue
  <2>. QED  BY <1>0, <1>1, <2>1 DEF DraftInv, ClockInv
<1>9. ASSUME NEW w \in due, AutoDraftPick(w)
      PROVE  DraftInv' /\ (picks' # picks /\ Last(picks').automatic => had >= PickTime)
  <2>1. PICK p : IF p = None THEN draft' = PausedDraft /\ UNCHANGED <<picks, had>> ELSE Taken(p, TRUE)
    BY <1>9 DEF AutoDraftPick
  <2>2. draft.status = "drafting" /\ ~(draft.left > 0)
    BY <1>9 DEF AutoDraftPick, Refused, Running
  <2>3. CASE p = None
    BY <1>4, <2>1, <2>3
  <2>4. CASE p # None
    <3>1. DraftInv'
      BY <2>1, <2>2, <2>4, PickTaken
    <3>2. had >= PickTime
      BY <1>0, <2>2 DEF DraftInv, ClockInv
    <3>. QED  BY <3>1, <3>2
  <2>. QED  BY <2>3, <2>4
<1>10. CASE \E w \in due : SkipDue(w)
  <2>1. UNCHANGED <<draft, picks, had>>
    BY <1>10 DEF SkipDue
  <2>. QED  BY <1>0, <1>1, <2>1 DEF DraftInv, ClockInv
<1>11. CASE ClockRuns
  <2>1. draft' = [draft EXCEPT !.left = @ - 1] /\ had' = had + 1 /\ UNCHANGED picks /\ draft.left > 0
    BY <1>11 DEF ClockRuns
  <2>2. /\ draft' \in Records /\ draft'.next = draft.next /\ draft'.status = draft.status
        /\ draft'.left = draft.left - 1
    BY <1>0, <2>1
  <2>. QED  BY <1>0, <1>1, <2>1, <2>2 DEF DraftInv, ClockInv
<1>12. CASE UNCHANGED draftVars
  <2>1. UNCHANGED <<draft, picks, had>>
    BY <1>12 DEF draftVars
  <2>. QED  BY <1>0, <1>1, <2>1 DEF DraftInv, ClockInv
<1>. QED  BY <1>2, <1>3, <1>5, <1>6, <1>7, <1>8, <1>9, <1>10, <1>11, <1>12 DEF DraftNext

LEMMA DraftBegins ==
    ASSUME Chartered, DraftInit
    PROVE  DraftInv
BY DEF Chartered, DraftInit, DraftInv, DraftTyped, ClockInv, PicksInTurn

\* Nobody is picked for by the clock before having had the whole pick time on it, wherever
\* ticks that read an earlier pick, pauses and resumptions fall (autoDraftPick).
THEOREM NobodyIsRushed ==
    ASSUME Chartered
    PROVE  DraftSpec => FullClock
<1>1. DraftInit => DraftInv
  BY DraftBegins
<1>2. DraftInv /\ [DraftNext]_draftVars => DraftInv'
  BY DraftStep
<1>3. DraftInv /\ [DraftNext]_draftVars =>
          [Len(picks') > Len(picks) /\ Last(picks').automatic => had >= PickTime]_draftVars
  <2>. SUFFICES ASSUME DraftInv, [DraftNext]_draftVars, Len(picks') > Len(picks), Last(picks').automatic
                PROVE  had >= PickTime
    OBVIOUS
  <2>1. picks' # picks
    BY DEF DraftInv, DraftTyped
  <2>. QED  BY <2>1, DraftStep
<1>. QED  BY <1>1, <1>2, <1>3, PTL DEF DraftSpec, FullClock

-----------------------------------------------------------------------------
(* LeagueDraft: who picks when.                                            *)

\* Of a round, the place of the franchise in position k, and the other way about.
Place(r, k) == IF Snake /\ r % 2 = 1 THEN N + 1 - k ELSE k

LEMMA PlaceOf ==
    ASSUME Chartered, NEW r \in Nat, NEW k \in 1..N
    PROVE  /\ Place(r, k) \in 1..N /\ Place(r, Place(r, k)) = k
           /\ Position((r * N + k) - 1) = Place(r, k)
           /\ r * N \in Nat /\ r * N + k \in Nat \ {0}
<1>1. N \in Nat \ {0}
  BY Sizes
<1>2. r * N \in Nat
  BY <1>1
<1>3. /\ r * N + (k - 1) \in Nat /\ (r * N + (k - 1)) \div N = r
      /\ (r * N + (k - 1)) % N = k - 1
  BY <1>1, OneQuotient
<1>4. (r * N + k) - 1 = r * N + (k - 1)
  BY <1>1, <1>2
<1>5. Position((r * N + k) - 1) = IF Snake /\ r % 2 = 1 THEN N - (k - 1) ELSE 1 + (k - 1)
  BY <1>3, <1>4 DEF Position
<1>. QED  BY <1>1, <1>2, <1>5 DEF Place

\* Every number of a pick is one place of one round.
LEMMA PlaceExists ==
    ASSUME NEW n \in Nat \ {0}, NEW i \in Nat \ {0}
    PROVE  \E r \in Nat, k \in 1..n : i = r * n + k
<1>1. /\ (i - 1) \div n \in Nat /\ (i - 1) % n \in 0..(n - 1)
      /\ i - 1 = ((i - 1) \div n) * n + ((i - 1) % n)
  <2>1. i - 1 \in Nat
    OBVIOUS
  <2>. QED  BY <2>1, Division
<1>2. PICK r \in Nat, l \in 0..(n - 1) : i - 1 = r * n + l
  BY <1>1
<1>3. r * n \in Nat /\ l + 1 \in 1..n
  BY <1>2
<1>4. i = r * n + (l + 1)
  BY <1>2, <1>3
<1>. QED  BY <1>3, <1>4

LEMMA OnePlace ==
    ASSUME NEW n \in Nat \ {0}, NEW q \in Nat, NEW r \in Nat, NEW k \in 1..n, NEW l \in 1..n,
           q * n + k = r * n + l
    PROVE  q = r /\ k = l
<1>1. q * n \in Nat /\ r * n \in Nat
  OBVIOUS
<1>2. q * n + (k - 1) = r * n + (l - 1)
  BY <1>1
<1>3. /\ (q * n + (k - 1)) \div n = q /\ (q * n + (k - 1)) % n = k - 1
      /\ (r * n + (l - 1)) \div n = r /\ (r * n + (l - 1)) % n = l - 1
  <2>1. k - 1 \in 0..(n - 1) /\ l - 1 \in 0..(n - 1)
    OBVIOUS
  <2>. QED  BY <2>1, OneQuotient
<1>. QED  BY <1>2, <1>3

\* The picks of a franchise are those of its place in every round.
LEMMA OwnPicks ==
    ASSUME Chartered, DraftInv, NEW p \in 1..N, NEW i \in DOMAIN picks
    PROVE  picks[i].team = Teams[p] <=> \E r \in Nat : i = r * N + Place(r, p)
<1>1. N \in Nat \ {0} /\ DOMAIN Teams = 1..N
  BY Sizes
<1>2. i \in Nat \ {0}
  BY DEF DraftInv, DraftTyped
<1>3. picks[i].team = Teams[Position(i - 1)]
  BY DEF DraftInv, PicksInTurn
<1>4. PICK r \in Nat, k \in 1..N : i = r * N + k
  BY <1>1, <1>2, PlaceExists
<1>5. Place(r, k) \in 1..N /\ Place(r, Place(r, k)) = k /\ Position(i - 1) = Place(r, k)
  BY <1>4, PlaceOf
<1>6. picks[i].team = Teams[p] <=> Place(r, k) = p
  BY <1>1, <1>3, <1>5 DEF Chartered
<1>7. ASSUME NEW q \in Nat, i = q * N + Place(q, p)
      PROVE  Place(r, k) = p
  <2>1. Place(q, p) \in 1..N /\ Place(q, Place(q, p)) = p
    BY PlaceOf
  <2>2. q = r /\ Place(q, p) = k
    BY <1>1, <1>4, <1>7, <2>1, OnePlace
  <2>. QED  BY <2>1, <2>2
<1>. QED  BY <1>4, <1>5, <1>6, <1>7

LEMMA OneToOne ==
    ASSUME NEW S, NEW T, NEW f \in [S -> T], \A a, b \in S : f[a] = f[b] => a = b,
           \A t \in T : \E s \in S : f[s] = t
    PROVE  ExistsBijection(S, T)
<1>1. f \in Bijection(S, T)
  BY Fun_IsBij
<1>. QED  BY <1>1, Fun_ExistsBij

\* A unit is a key with a number of its amount.
LEMMA UnitOf ==
    ASSUME NEW f, NEW u
    PROVE  u \in Units(f) <=> u = <<u[1], u[2]>> /\ u[1] \in DOMAIN f /\ u[2] \in 1..f[u[1]]
<1>1. u \in Units(f) <=> \E k \in DOMAIN f : u \in {k} \X (1..f[k])
  BY DEF Units
<1>2. ASSUME NEW k \in DOMAIN f, u \in {k} \X (1..f[k])
      PROVE  u = <<u[1], u[2]>> /\ u[1] \in DOMAIN f /\ u[2] \in 1..f[u[1]]
  BY <1>2
<1>3. ASSUME u = <<u[1], u[2]>>, u[1] \in DOMAIN f, u[2] \in 1..f[u[1]]
      PROVE  u \in {u[1]} \X (1..f[u[1]])
  BY <1>3
<1>. QED  BY <1>1, <1>2, <1>3

\* Amounts that are added two by two come to the same.
LEMMA TwoByTwo ==
    ASSUME NEW Q, NEW b \in [Q -> Nat], NEW c \in [Q -> Nat],
           \A q, r \in Q : b[q] # c[r] /\ (b[q] = b[r] => q = r) /\ (c[q] = c[r] => q = r),
           NEW f, \A i : i \in DOMAIN f <=> \E q \in Q : i = b[q] \/ i = c[q],
           \A i \in DOMAIN f : f[i] = i,
           NEW h, h = [q \in Q |-> b[q] + c[q]]
    PROVE  ExistsBijection(Units(h), Units(f))
<1>. DEFINE W == Units(h)
            U == Units(f)
            g == [w \in W |-> IF w[2] <= b[w[1]] THEN <<b[w[1]], w[2]>> ELSE <<c[w[1]], w[2] - b[w[1]]>>]
<1>1. ASSUME NEW q \in Q
      PROVE  b[q] \in Nat /\ c[q] \in Nat /\ b[q] \in DOMAIN f /\ c[q] \in DOMAIN f
             /\ f[b[q]] = b[q] /\ f[c[q]] = c[q] /\ h[q] = b[q] + c[q]
  OBVIOUS
<1>2. ASSUME NEW w \in W
      PROVE  \E q \in Q, x \in Nat \ {0} : w = <<q, x>> /\ x <= b[q] + c[q]
  <2>1. w = <<w[1], w[2]>> /\ w[1] \in Q /\ w[2] \in 1..h[w[1]]
    BY UnitOf
  <2>2. PICK q \in Q : q = w[1]
    BY <2>1
  <2>3. PICK x : x = w[2]
    OBVIOUS
  <2>4. x \in 1..(b[q] + c[q]) /\ b[q] \in Nat /\ c[q] \in Nat
    BY <1>1, <2>1, <2>2, <2>3
  <2>5. x \in Nat \ {0} /\ x <= b[q] + c[q]
    BY <2>4
  <2>. QED  BY <2>1, <2>2, <2>3, <2>5
<1>3. ASSUME NEW q \in Q, NEW x \in Nat \ {0}, x <= b[q] + c[q]
      PROVE  <<q, x>> \in W
  <2>1. x \in 1..h[q]
    BY <1>1, <1>3
  <2>. QED  BY <2>1, UnitOf
<1>4. ASSUME NEW i \in DOMAIN f, NEW n \in Nat \ {0}, n <= i, i \in Nat
      PROVE  <<i, n>> \in U
  <2>1. n \in 1..f[i]
    BY <1>4
  <2>. QED  BY <2>1, UnitOf
<1>5. ASSUME NEW u \in U
      PROVE  \E i \in DOMAIN f, n \in Nat \ {0} : u = <<i, n>> /\ n <= i
  <2>1. u = <<u[1], u[2]>> /\ u[1] \in DOMAIN f /\ u[2] \in 1..f[u[1]]
    BY UnitOf
  <2>2. PICK i \in DOMAIN f : i = u[1]
    BY <2>1
  <2>3. i \in Nat /\ f[i] = i
    BY <2>2
  <2>4. PICK n : n = u[2]
    OBVIOUS
  <2>5. n \in 1..i
    BY <2>1, <2>2, <2>3, <2>4
  <2>6. n \in Nat \ {0} /\ n <= i
    BY <2>3, <2>5
  <2>. QED  BY <2>1, <2>2, <2>4, <2>6
<1>6. ASSUME NEW q \in Q, NEW x \in Nat \ {0}, x <= b[q] + c[q]
      PROVE  /\ x <= b[q] => g[<<q, x>>] = <<b[q], x>>
             /\ ~(x <= b[q]) => g[<<q, x>>] = <<c[q], x - b[q]>>
  <2>1. PICK w \in W : w = <<q, x>>
    BY <1>3, <1>6
  <2>2. w[1] = q /\ w[2] = x
    BY <2>1
  <2>3. g[w] = IF w[2] <= b[w[1]] THEN <<b[w[1]], w[2]>> ELSE <<c[w[1]], w[2] - b[w[1]]>>
    OBVIOUS
  <2>. HIDE DEF g
  <2>. QED  BY <2>1, <2>2, <2>3
<1>7. DOMAIN g = W /\ g = [w \in W |-> g[w]]
  OBVIOUS
<1>. HIDE DEF W, U, g
<1>8. g \in [W -> U]
  <2>1. ASSUME NEW w \in W
        PROVE  g[w] \in U
    <3>1. PICK q \in Q, x \in Nat \ {0} : w = <<q, x>> /\ x <= b[q] + c[q]
      BY <1>2
    <3>2. CASE x <= b[q]
      <4>1. <<b[q], x>> \in U
        BY <1>1, <1>4, <3>2
      <4>. QED  BY <1>6, <3>1, <3>2, <4>1
    <3>3. CASE ~(x <= b[q])
      <4>1. PICK n : n = x - b[q]
        OBVIOUS
      <4>2. n \in Nat \ {0} /\ n <= c[q]
        BY <1>1, <3>1, <3>3, <4>1
      <4>3. <<c[q], n>> \in U
        BY <1>1, <1>4, <4>2
      <4>. QED  BY <1>6, <3>1, <3>3, <4>1, <4>3
    <3>. QED  BY <3>2, <3>3
  <2>. QED  BY <1>7, <2>1
<1>9. ASSUME NEW v \in W, NEW w \in W, g[v] = g[w]
      PROVE  v = w
  <2>1. PICK q \in Q, x \in Nat \ {0} : v = <<q, x>> /\ x <= b[q] + c[q]
    BY <1>2
  <2>2. PICK r \in Q, y \in Nat \ {0} : w = <<r, y>> /\ y <= b[r] + c[r]
    BY <1>2
  <2>3. b[q] # c[r] /\ b[r] # c[q] /\ (b[q] = b[r] => q = r) /\ (c[q] = c[r] => q = r)
    OBVIOUS
  <2>4. /\ x <= b[q] => g[v] = <<b[q], x>>
        /\ ~(x <= b[q]) => g[v] = <<c[q], x - b[q]>>
    BY <1>6, <2>1
  <2>5. /\ y <= b[r] => g[w] = <<b[r], y>>
        /\ ~(y <= b[r]) => g[w] = <<c[r], y - b[r]>>
    BY <1>6, <2>2
  <2>6. CASE x <= b[q] /\ y <= b[r]
    <3>1. <<b[q], x>> = <<b[r], y>>
      BY <1>9, <2>4, <2>5, <2>6
    <3>2. b[q] = b[r] /\ x = y
      BY <3>1
    <3>. QED  BY <2>1, <2>2, <2>3, <3>2
  <2>7. CASE ~(x <= b[q]) /\ ~(y <= b[r])
    <3>1. PICK i, j : i = x - b[q] /\ j = y - b[r]
      OBVIOUS
    <3>2. <<c[q], i>> = <<c[r], j>>
      BY <1>9, <2>4, <2>5, <2>7, <3>1
    <3>3. c[q] = c[r] /\ i = j
      BY <3>2
    <3>4. q = r
      BY <2>3, <3>3
    <3>5. x = y
      BY <1>1, <3>1, <3>3, <3>4
    <3>. QED  BY <2>1, <2>2, <3>4, <3>5
  <2>8. CASE x <= b[q] /\ ~(y <= b[r])
    <3>1. PICK j : j = y - b[r]
      OBVIOUS
    <3>2. <<b[q], x>> = <<c[r], j>>
      BY <1>9, <2>4, <2>5, <2>8, <3>1
    <3>. QED  BY <2>3, <3>2
  <2>9. CASE ~(x <= b[q]) /\ y <= b[r]
    <3>1. PICK i : i = x - b[q]
      OBVIOUS
    <3>2. <<c[q], i>> = <<b[r], y>>
      BY <1>9, <2>4, <2>5, <2>9, <3>1
    <3>. QED  BY <2>3, <3>2
  <2>. QED  BY <2>6, <2>7, <2>8, <2>9
<1>10. ASSUME NEW u \in U
      PROVE  \E w \in W : g[w] = u
  <2>1. PICK i \in DOMAIN f, n \in Nat \ {0} : u = <<i, n>> /\ n <= i
    BY <1>5
  <2>2. PICK q \in Q : i = b[q] \/ i = c[q]
    OBVIOUS
  <2>3. CASE i = b[q]
    <3>1. n <= b[q] + c[q]
      BY <1>1, <2>1, <2>3
    <3>. QED  BY <1>3, <1>6, <2>1, <2>3, <3>1
  <2>4. CASE i = c[q]
    <3>1. PICK x : x = n + b[q]
      OBVIOUS
    <3>2. x \in Nat \ {0} /\ x <= b[q] + c[q] /\ ~(x <= b[q]) /\ x - b[q] = n
      BY <1>1, <2>1, <2>4, <3>1
    <3>3. g[<<q, x>>] = <<c[q], n>> /\ <<q, x>> \in W
      BY <1>3, <1>6, <3>2
    <3>. QED  BY <2>1, <2>4, <3>3
  <2>. QED  BY <2>2, <2>3, <2>4
<1>. QED  BY <1>8, <1>9, <1>10, OneToOne DEF W, U

LEMMA DraftedCount ==
    ASSUME DraftInv
    PROVE  Cardinality(Drafted) = Len(picks)
<1>1. picks \in Seq(PickRows) /\ Len(picks) \in Nat /\ DOMAIN picks = 1..Len(picks)
  BY DEF DraftInv, DraftTyped
<1>. DEFINE f == [i \in 1..Len(picks) |-> picks[i].player]
<1>2. f \in [1..Len(picks) -> Drafted] /\ \A t \in Drafted : \E i \in 1..Len(picks) : f[i] = t
  BY <1>1 DEF Drafted
<1>3. \A i, j \in 1..Len(picks) : f[i] = f[j] => i = j
  BY <1>1 DEF DraftInv, PicksInTurn
<1>. HIDE DEF f
<1>4. ExistsBijection(1..Len(picks), Drafted)
  BY <1>2, <1>3, OneToOne
<1>. QED  BY <1>1, <1>4, FS_CountingElements

LEMMA WholeRounds ==
    ASSUME Chartered, DraftInv
    PROVE  Rounds \in Nat /\ Rounds * N <= Len(picks)
<1>1. PICK n \in Nat \ {0}, i \in Nat : n = N /\ i = Len(picks)
  BY Sizes DEF DraftInv, DraftTyped
<1>2. PICK q : q = i \div n
  OBVIOUS
<1>3. q \in Nat /\ i % n \in 0..(n - 1) /\ i = q * n + (i % n)
  BY <1>2, Division
<1>4. q * n \in Nat
  BY <1>3
<1>5. q * n <= i
  BY <1>3, <1>4
<1>. QED  BY <1>1, <1>2, <1>3, <1>5 DEF Rounds

\* In a round everybody picks.
LEMMA RoundIsWhole ==
    ASSUME Chartered, DraftInv, NEW r \in 0..Rounds - 1
    PROVE  {picks[r * N + k].team : k \in 1..N} = Range(Teams)
<1>1. N \in Nat \ {0} /\ DOMAIN Teams = 1..N
  BY Sizes
<1>2. Len(picks) \in Nat /\ DOMAIN picks = 1..Len(picks)
  BY DEF DraftInv, DraftTyped
<1>3. Rounds \in Nat /\ Rounds * N <= Len(picks)
  BY WholeRounds
<1>4. r \in Nat /\ r * N \in Nat /\ r * N + N <= Len(picks)
  <2>1. r \in Nat /\ r < Rounds
    BY <1>3
  <2>2. r * N + N <= Rounds * N
    BY <1>1, <1>3, <2>1, Multiples
  <2>3. r * N \in Nat /\ Rounds * N \in Nat
    BY <1>1, <1>3, <2>1
  <2>. QED  BY <1>1, <1>2, <1>3, <2>1, <2>2, <2>3
<1>5. ASSUME NEW k \in 1..N
      PROVE  picks[r * N + k].team = Teams[Place(r, k)]
  <2>1. r * N + k \in DOMAIN picks
    BY <1>1, <1>2, <1>4
  <2>2. Position((r * N + k) - 1) = Place(r, k)
    BY <1>4, PlaceOf
  <2>. QED  BY <2>1, <2>2 DEF DraftInv, PicksInTurn
<1>6. \A k \in 1..N : Place(r, k) \in 1..N /\ Place(r, Place(r, k)) = k
  BY <1>4, PlaceOf
<1>7. \A k \in 1..N : Teams[Place(r, k)] \in Range(Teams)
  BY <1>1, <1>6 DEF Range
<1>8. ASSUME NEW t \in Range(Teams)
      PROVE  \E k \in 1..N : picks[r * N + k].team = t
  <2>1. PICK p \in 1..N : t = Teams[p]
    BY <1>1 DEF Range
  <2>2. Place(r, p) \in 1..N /\ Place(r, Place(r, p)) = p
    BY <1>6
  <2>. QED  BY <1>5, <2>1, <2>2
<1>. QED  BY <1>5, <1>7, <1>8

\* When the draft is over every franchise has picked once a round.
LEMMA RosterFull ==
    ASSUME Chartered, DraftInv, draft.status = "active", NEW t \in Range(Teams)
    PROVE  Cardinality(RosterOf(t)) = RosterSize
<1>1. N \in Nat \ {0} /\ DOMAIN Teams = 1..N /\ RosterSize \in Nat
  BY Sizes DEF Chartered
<1>2. Len(picks) = N * RosterSize /\ DOMAIN picks = 1..Len(picks) /\ Len(picks) = RosterSize * N
  BY <1>1 DEF DraftInv, DraftTyped, AllPicks
<1>3. PICK p \in 1..N : t = Teams[p]
  BY <1>1 DEF Range
<1>. DEFINE At(r) == (r - 1) * N + Place(r - 1, p)
            f == [r \in 1..RosterSize |-> picks[At(r)].player]
<1>4. ASSUME NEW r \in 1..RosterSize
      PROVE  At(r) \in DOMAIN picks /\ picks[At(r)].team = t
  <2>1. r - 1 \in Nat /\ r - 1 < RosterSize
    BY <1>1
  <2>2. Place(r - 1, p) \in 1..N /\ (r - 1) * N \in Nat
    BY <2>1, PlaceOf
  <2>3. (r - 1) * N + N <= RosterSize * N
    BY <1>1, <2>1, Multiples
  <2>4. At(r) \in DOMAIN picks
    BY <1>1, <1>2, <2>2, <2>3
  <2>. QED  BY <1>3, <2>1, <2>4, OwnPicks
<1>5. ASSUME NEW r \in 1..RosterSize, NEW s \in 1..RosterSize, At(r) = At(s)
      PROVE  r = s
  <2>1. r - 1 \in Nat /\ s - 1 \in Nat
    BY <1>1
  <2>2. Place(r - 1, p) \in 1..N /\ Place(s - 1, p) \in 1..N
    BY <2>1, PlaceOf
  <2>3. r - 1 = s - 1
    BY <1>1, <1>5, <2>1, <2>2, OnePlace
  <2>. QED  BY <2>3
<1>6. ASSUME NEW i \in DOMAIN picks, picks[i].team = t
      PROVE  \E r \in 1..RosterSize : i = At(r)
  <2>1. PICK q \in Nat : i = q * N + Place(q, p)
    BY <1>3, <1>6, OwnPicks
  <2>2. q * N \in Nat /\ Place(q, p) \in 1..N
    BY PlaceOf
  <2>3. q < RosterSize
    <3>1. RosterSize < q => RosterSize * N + N <= q * N
      BY <1>1, Multiples
    <3>2. RosterSize = q => RosterSize * N = q * N
      OBVIOUS
    <3>3. RosterSize * N \in Nat
      BY <1>1
    <3>. QED  BY <1>1, <1>2, <2>1, <2>2, <3>1, <3>2, <3>3
  <2>4. q + 1 \in 1..RosterSize /\ (q + 1) - 1 = q
    BY <1>1, <2>3
  <2>. QED  BY <2>1, <2>4
<1>. HIDE DEF At
<1>7. f \in [1..RosterSize -> RosterOf(t)]
  BY <1>4 DEF RosterOf
<1>8. \A r, s \in 1..RosterSize : f[r] = f[s] => r = s
  BY <1>4, <1>5 DEF DraftInv, PicksInTurn
<1>9. \A x \in RosterOf(t) : \E r \in 1..RosterSize : f[r] = x
  BY <1>6 DEF RosterOf
<1>. HIDE DEF f
<1>10. ExistsBijection(1..RosterSize, RosterOf(t))
  <2>1. PICK S : S = 1..RosterSize
    OBVIOUS
  <2>2. PICK R : R = RosterOf(t)
    OBVIOUS
  <2>3. f \in [S -> R] /\ (\A r, s \in S : f[r] = f[s] => r = s) /\ \A x \in R : \E r \in S : f[r] = x
    BY <1>7, <1>8, <1>9, <2>1, <2>2
  <2>4. ExistsBijection(S, R)
    BY ONLY <2>3, OneToOne
  <2>. QED  BY <2>1, <2>2, <2>4
<1>. QED  BY <1>1, <1>10, FS_CountingElements

\* Two snake rounds give every place as much: the first and the last pick of the pair of
\* rounds q, the second and the last but one.
Pair(q) == q * (2 * N)
Pairs(m) == [q \in 0..m - 1 |-> 2 * Pair(q) + (2 * N + 1)]

LEMMA PairOfRounds ==
    ASSUME Chartered, NEW q \in Nat
    PROVE  /\ Pair(q) \in Nat /\ N \in Nat \ {0}
           /\ (2 * q) * N = Pair(q) /\ (2 * q + 1) * N = Pair(q) + N
           /\ (2 * q) % 2 = 0 /\ (2 * q + 1) % 2 = 1
<1>1. N \in Nat \ {0}
  BY Sizes
<1>2. q * (2 * N) \in Nat /\ (2 * q) * N = q * (2 * N) /\ (2 * q + 1) * N = q * (2 * N) + N
  BY <1>1
<1>3. (2 * q) % 2 = 0 /\ (2 * q + 1) % 2 = 1
  OBVIOUS
<1>. QED  BY <1>1, <1>2, <1>3 DEF Pair

\* The numbers of a franchise's picks in the first m pairs of snake rounds.
LEMMA OwnPairs ==
    ASSUME Chartered, DraftInv, Snake, NEW m \in Nat, Len(picks) = Pair(m), NEW p \in 1..N,
           NEW i
    PROVE  i \in DOMAIN picks /\ picks[i].team = Teams[p] <=>
               \E q \in 0..m - 1 : i = Pair(q) + p \/ i = Pair(q) + (2 * N + 1 - p)
<1>1. N \in Nat \ {0} /\ Pair(m) \in Nat /\ DOMAIN picks = 1..Pair(m)
  BY PairOfRounds DEF DraftInv, DraftTyped
<1>2. ASSUME NEW q \in Nat
      PROVE  /\ (2 * q) * N + Place(2 * q, p) = Pair(q) + p
             /\ (2 * q + 1) * N + Place(2 * q + 1, p) = Pair(q) + (2 * N + 1 - p)
  <2>1. /\ (2 * q) * N = Pair(q) /\ (2 * q + 1) * N = Pair(q) + N /\ Pair(q) \in Nat
        /\ (2 * q) % 2 = 0 /\ (2 * q + 1) % 2 = 1
    BY PairOfRounds
  <2>2. Place(2 * q, p) = p /\ Place(2 * q + 1, p) = N + 1 - p
    BY <2>1 DEF Place
  <2>. QED  BY <1>1, <2>1, <2>2
<1>3. ASSUME NEW q \in 0..m - 1, i = Pair(q) + p \/ i = Pair(q) + (2 * N + 1 - p)
      PROVE  i \in DOMAIN picks /\ picks[i].team = Teams[p]
  <2>1. q \in Nat /\ q < m /\ Pair(q) \in Nat
    <3>1. q \in Nat /\ q < m
      OBVIOUS
    <3>. QED  BY <3>1, PairOfRounds
  <2>2. Pair(q) + 2 * N <= Pair(m)
    BY <1>1, <2>1, Multiples DEF Pair
  <2>3. i \in DOMAIN picks
    BY <1>1, <1>3, <2>1, <2>2
  <2>4. \E r \in Nat : i = r * N + Place(r, p)
    BY <1>2, <1>3, <2>1
  <2>. QED  BY <2>3, <2>4, OwnPicks
<1>4. ASSUME i \in DOMAIN picks, picks[i].team = Teams[p]
      PROVE  \E q \in 0..m - 1 : i = Pair(q) + p \/ i = Pair(q) + (2 * N + 1 - p)
  <2>1. PICK r \in Nat : i = r * N + Place(r, p)
    BY <1>4, OwnPicks
  <2>2. PICK q \in Nat : r = 2 * q \/ r = 2 * q + 1
    <3>1. r \div 2 \in Nat /\ r % 2 \in 0..1 /\ r = (r \div 2) * 2 + (r % 2)
      BY Division
    <3>2. r = 2 * (r \div 2) \/ r = 2 * (r \div 2) + 1
      BY <3>1
    <3>. QED  BY <3>1, <3>2
  <2>3. i = Pair(q) + p \/ i = Pair(q) + (2 * N + 1 - p)
    BY <1>2, <2>1, <2>2
  <2>4. q < m
    <3>1. Pair(q) \in Nat
      BY PairOfRounds
    <3>2. Pair(q) < Pair(m)
      BY <1>1, <1>4, <2>3, <3>1
    <3>3. m < q => Pair(m) + 2 * N <= Pair(q)
      BY <1>1, Multiples DEF Pair
    <3>4. m # q
      BY <3>1, <3>2
    <3>. QED  BY <1>1, <3>1, <3>2, <3>3, <3>4
  <2>. QED  BY <2>3, <2>4
<1>. QED  BY <1>3, <1>4

\* What the numbers of a franchise's picks come to does not depend on the franchise.
LEMMA PairsAreFair ==
    ASSUME Chartered, DraftInv, Snake, NEW m \in Nat, Len(picks) = Pair(m), NEW p \in 1..N
    PROVE  SumOfPicks(Teams[p]) = Total(Pairs(m))
<1>. DEFINE Q == 0..m - 1
            b == [q \in Q |-> Pair(q) + p]
            c == [q \in Q |-> Pair(q) + (2 * N + 1 - p)]
            I == {k \in DOMAIN picks : picks[k].team = Teams[p]}
            f == [i \in I |-> i]
<1>1. N \in Nat \ {0} /\ p \in 1..2 * N /\ 2 * N + 1 - p \in 1..2 * N /\ p # 2 * N + 1 - p
  BY Sizes
<1>2. ASSUME NEW q \in Q
      PROVE  q \in Nat /\ Pair(q) \in Nat
  <2>1. q \in Nat
    OBVIOUS
  <2>. QED  BY <2>1, PairOfRounds
<1>3. b \in [Q -> Nat] /\ c \in [Q -> Nat]
  BY <1>1, <1>2
<1>4. ASSUME NEW q \in Q, NEW r \in Q
      PROVE  b[q] # c[r] /\ (b[q] = b[r] => q = r) /\ (c[q] = c[r] => q = r)
  <2>1. PICK n \in Nat \ {0}, s \in Nat : n = 2 * N /\ s = 2 * N + 1 - p /\ s \in 1..n /\ p \in 1..n /\ p # s
    BY <1>1
  <2>2. PICK k \in Nat, l \in Nat : k = q /\ l = r
    BY <1>2
  <2>3. /\ k * n + p # l * n + s
        /\ k * n + p = l * n + p => k = l
        /\ k * n + s = l * n + s => k = l
    <3>1. p \in 1..n /\ s \in 1..n /\ p # s
      BY <2>1
    <3>2. k * n + p = l * n + s => p = s
      BY ONLY <3>1, n \in Nat \ {0}, k \in Nat, l \in Nat, OnePlace
    <3>3. k * n + p = l * n + p => k = l
      BY ONLY <3>1, n \in Nat \ {0}, k \in Nat, l \in Nat, OnePlace
    <3>4. k * n + s = l * n + s => k = l
      BY ONLY <3>1, n \in Nat \ {0}, k \in Nat, l \in Nat, OnePlace
    <3>. QED  BY <3>1, <3>2, <3>3, <3>4
  <2>. QED  BY <2>1, <2>2, <2>3 DEF Pair
<1>5. \A i : i \in DOMAIN f <=> \E q \in Q : i = b[q] \/ i = c[q]
  <2>1. \A i : i \in I <=> \E q \in Q : i = Pair(q) + p \/ i = Pair(q) + (2 * N + 1 - p)
    BY OwnPairs
  <2>. HIDE DEF I
  <2>. QED  BY <2>1
<1>6. Pairs(m) = [q \in Q |-> b[q] + c[q]]
  <2>1. \A q \in Q : b[q] + c[q] = 2 * Pair(q) + (2 * N + 1)
    BY <1>1, <1>2
  <2>. QED  BY <2>1 DEF Pairs
<1>7. IsFiniteSet(Units(f))
  <2>1. PICK S : S = 1..Len(picks) /\ DOMAIN picks = S
    BY DEF DraftInv, DraftTyped
  <2>2. IsFiniteSet(S)
    BY <2>1, FS_Interval DEF DraftInv, DraftTyped
  <2>3. IsFiniteSet(S \X S)
    BY <2>2, FS_Product
  <2>4. ASSUME NEW u \in Units(f)
        PROVE  u \in S \X S
    <3>1. u = <<u[1], u[2]>> /\ u[1] \in S /\ u[2] \in 1..u[1]
      BY <2>1, UnitOf
    <3>2. u[2] \in S
      BY <2>1, <3>1
    <3>3. <<u[1], u[2]>> \in S \X S
      BY <3>1, <3>2
    <3>. QED  BY <3>1, <3>3
  <2>. HIDE DEF f
  <2>5. Units(f) \in SUBSET (S \X S)
    BY <2>4
  <2>. QED  BY <2>3, <2>5, FS_Subset
<1>8. \A i \in DOMAIN f : f[i] = i
  OBVIOUS
<1>9. SumOfPicks(Teams[p]) = Total(f)
  BY DEF SumOfPicks
<1>. HIDE DEF Q, b, c, f
<1>10. ExistsBijection(Units(Pairs(m)), Units(f))
  <2>1. \A q, r \in Q : b[q] # c[r] /\ (b[q] = b[r] => q = r) /\ (c[q] = c[r] => q = r)
    BY <1>4
  <2>. QED  BY ONLY <1>3, <1>5, <1>6, <1>8, <2>1, TwoByTwo
<1>11. ExistsBijection(Units(f), Units(Pairs(m)))
  BY <1>10, Fun_ExistsBijSymmetric
<1>12. Cardinality(Units(Pairs(m))) = Cardinality(Units(f))
  BY <1>7, <1>11, FS_Bijection
<1>. QED  BY <1>9, <1>12 DEF Total

LEMMA DraftIsFair ==
    ASSUME Chartered, DraftInv
    PROVE  FairDraft
<1>1. ASSUME Snake, Rounds % 2 = 0, Len(picks) % N = 0, NEW t \in Range(Teams), NEW u \in Range(Teams)
      PROVE  SumOfPicks(t) = SumOfPicks(u)
  <2>1. N \in Nat \ {0} /\ DOMAIN Teams = 1..N /\ Len(picks) \in Nat
    BY Sizes DEF DraftInv, DraftTyped
  <2>2. Rounds \in Nat /\ Len(picks) = Rounds * N
    <3>1. PICK n \in Nat \ {0}, i \in Nat : n = N /\ i = Len(picks)
      BY <2>1
    <3>2. i = (i \div n) * n + (i % n) /\ i % n = 0 /\ i \div n \in Nat
      BY <1>1, <3>1, Division
    <3>3. i = (i \div n) * n
      BY <3>2
    <3>. QED  BY <3>1, <3>2, <3>3 DEF Rounds
  <2>3. PICK m \in Nat : Rounds = 2 * m
    BY <1>1, <2>2
  <2>4. Len(picks) = Pair(m)
    BY <2>2, <2>3, PairOfRounds
  <2>5. PICK p \in 1..N, q \in 1..N : t = Teams[p] /\ u = Teams[q]
    BY <2>1 DEF Range
  <2>. QED  BY <1>1, <2>4, <2>5, PairsAreFair
<1>. QED  BY <1>1, RoundIsWhole, DraftedCount, RosterFull DEF FairDraft

\* Whoever makes the picks, owners or the clock: a franchise picks once in each round, an even
\* number of snake rounds gives all the same sum of places, no player is picked twice, and a
\* draft that is over has filled every roster (draftPosition, draftPick).
THEOREM DraftStaysFair ==
    ASSUME Chartered
    PROVE  DraftSpec => []FairDraft
<1>1. DraftInit => DraftInv
  BY DraftBegins
<1>2. DraftInv /\ [DraftNext]_draftVars => DraftInv'
  BY DraftStep
<1>3. DraftInv => FairDraft
  BY DraftIsFair
<1>. QED  BY <1>1, <1>2, <1>3, PTL DEF DraftSpec
=============================================================================
