-------------------------- MODULE LeagueMarketProofs --------------------------
(***************************************************************************)
(* Proofs about the season of a league on its own engine, for any          *)
(* franchises, players, weeks, calendars, trades, claims and windows: the  *)
(* rosters, lineups and budgets through every way players change hands,    *)
(* and the order in which a waiver period is settled.                      *)
(***************************************************************************)
EXTENDS LeagueMarket, FiniteSetTheorems, WellFoundedInduction, SequenceTheorems, TLAPS

-----------------------------------------------------------------------------
(* What the constitution, the feed and the commands' schemas guarantee.    *)

Statuses == {"unknown", "scheduled", "postponed", "cancelled", "final", "bye"}
Games == [kick : Int, status : Statuses]
Forms == [team : Franchises, add : Players, drop : Players \cup {None}, bid : Nat, priority : Int]
Rosters == [Players -> Franchises \cup {None}]
Fielded == [Franchises -> [Weeks -> SUBSET Players]]

RostersFit(r) == \A t \in Franchises : Cardinality(RosterOf(r, t)) <= RosterSize

Ruled ==
    /\ Teams \in Seq(Franchises) /\ None \notin Franchises \cup Players
    /\ IsFiniteSet(Players) /\ 1 \in Weeks /\ Weeks \subseteq Nat
    /\ RosterSize \in Nat /\ Budget \in Nat /\ HoldTime \in Nat
    /\ FirstRosters \in Rosters /\ RostersFit(FirstRosters)
    /\ FirstGames \in [Players -> [Weeks -> Games]]
    /\ Feed \subseteq [player : Players, week : Weeks, kick : Int, status : Statuses]
    /\ \A o \in Offers : o.from \in Franchises /\ o.to \in Franchises /\ o.from # o.to
    /\ ClaimForms \subseteq Forms
    /\ \A i \in DOMAIN Periods : Periods[i] \in Int
    /\ Windows \subseteq [opens : Int, closes : Int]

-----------------------------------------------------------------------------
(* The invariant.                                                          *)

Reasons == {None, "unavailable", "notOwned", "faab", "onHold", "rosterFull", "locked"}
Claims == [form : Forms, period : DOMAIN Periods, reason : Reasons,
           status : {"pending", "cancelled", "won", "lost"}]

MarketTyped ==
    /\ now \in Int /\ week \in Weeks
    /\ roster \in Rosters /\ lineup \in Fielded
    /\ game \in [Players -> [Weeks -> Games]]
    /\ DOMAIN trade \subseteq Offers
    /\ period \in [DOMAIN period -> [closes : Int, status : {"open", "resolved"}]]
    /\ DOMAIN period \subseteq DOMAIN Periods
    /\ claims \in Seq(Claims)
    /\ window \subseteq Windows
    /\ faab \in [Franchises -> Nat] /\ hold \in [Players -> Int]

Owned(r, l) == \A t \in Franchises, w \in Weeks : w >= week => l[t][w] \subseteq RosterOf(r, t)

\* What each franchise has paid of its budget.
BidsIn(c, t) ==
    [k \in {j \in DOMAIN c : c[j].status = "won" /\ c[j].form.team = t} |-> c[k].form.bid]
Paid(c, f) ==
    \A t \in Franchises : IsFiniteSet(Units(BidsIn(c, t))) /\ f[t] = Budget - Total(BidsIn(c, t))

\* One period at a time is open, and no window touches the time its claims are made in.
PeriodsApart ==
    /\ \A i, j \in OpenPeriods : i = j
    /\ \A i \in OpenPeriods, v \in window : v.closes <= now \/ v.opens >= period[i].closes

\* Until the deadline the players claimed are free and those offered for them are not, as
\* nobody changes sides meanwhile: no claim waits for a player another one gives up.
ClaimsSound ==
    /\ \A k \in DOMAIN claims :
          /\ claims[k].period \in DOMAIN period
          /\ claims[k].status = "pending" => period[claims[k].period].status = "open"
          /\ period[claims[k].period].status = "open" => claims[k].status \in {"pending", "cancelled"}
          /\ claims[k].status # "lost" => claims[k].reason = None
          /\ claims[k].status = "pending" /\ now < period[claims[k].period].closes =>
                /\ roster[claims[k].form.add] = None
                /\ claims[k].form.drop # None => roster[claims[k].form.drop] # None
    /\ \A k, l \in DOMAIN claims :
          claims[k].status = "pending" /\ claims[l].status = "pending" =>
              claims[k].form.add # claims[l].form.drop

MarketInv ==
    /\ MarketTyped /\ RostersFit(roster) /\ Owned(roster, lineup) /\ Paid(claims, faab)
    /\ PeriodsApart /\ ClaimsSound /\ ClaimsInOrder

-----------------------------------------------------------------------------
(* The least of a set: what an induction comes to.                         *)

\* Of finite sets, one contains no other.
LEMMA LeastSet ==
    ASSUME NEW A, NEW T, T # {}, \A S \in T : S \in FiniteSubsetsOf(A)
    PROVE  \E S \in T : \A R \in T : R \subseteq S => R = S
<1>. DEFINE O == StrictSubsetOrdering(A)
<1>1. PICK S \in T : \A R \in T : ~(<<R, S>> \in O)
  <2>1. IsWellFoundedOn(O, FiniteSubsetsOf(A))
    BY FS_StrictSubsetOrderingWellFounded
  <2>2. T \subseteq FiniteSubsetsOf(A)
    OBVIOUS
  <2>. HIDE DEF O
  <2>. QED  BY <2>1, <2>2, WFMin
<1>2. ASSUME NEW R \in T, R \subseteq S, R # S
      PROVE  FALSE
  BY <1>1, <1>2 DEF StrictSubsetOrdering, FiniteSubsetsOf
<1>. QED  BY <1>2

LEMMA LeastNatural ==
    ASSUME NEW N \in SUBSET Nat, N # {}
    PROVE  \E m \in N : \A n \in N : m <= n
<1>. DEFINE T == {1..n : n \in N}
<1>1. T # {} /\ \A S \in T : S \in FiniteSubsetsOf(Nat)
  <2>1. \A n \in N : IsFiniteSet(1..n) /\ 1..n \subseteq Nat
    BY FS_Interval
  <2>. QED  BY <2>1 DEF FiniteSubsetsOf
<1>2. PICK S \in T : \A R \in T : R \subseteq S => R = S
  <2>. HIDE DEF T
  <2>. QED  BY <1>1, LeastSet
<1>3. PICK m \in N : S = 1..m
  OBVIOUS
<1>4. ASSUME NEW n \in N, n < m
      PROVE  FALSE
  <2>1. 1..n \in T /\ 1..n \subseteq S
    BY <1>3, <1>4
  <2>2. 1..n = 1..m
    BY <1>2, <1>3, <2>1
  <2>3. m \in 1..m /\ m \notin 1..n
    BY <1>4
  <2>. QED  BY <2>2, <2>3
<1>. QED  BY <1>4

-----------------------------------------------------------------------------
(* Sums of bids.                                                           *)

LEMMA UnitsOfOne ==
    ASSUME NEW k, NEW n \in Nat
    PROVE  IsFiniteSet({k} \X (1..n)) /\ Cardinality({k} \X (1..n)) = n
<1>1. PICK K : K = {k}
  OBVIOUS
<1>2. PICK C : C = 1..n
  OBVIOUS
<1>3. IsFiniteSet(K) /\ Cardinality(K) = 1
  BY <1>1, FS_Singleton
<1>0. IsFiniteSet(C) /\ Cardinality(C) = n
  BY <1>2, FS_Interval
<1>4. IsFiniteSet(K \X C) /\ Cardinality(K \X C) = 1 * n
  BY <1>3, <1>0, FS_Product
<1>. QED  BY <1>1, <1>2, <1>4

\* One more amount adds itself to the sum.
LEMMA TotalGrows ==
    ASSUME NEW f, NEW k, k \notin DOMAIN f, NEW g, g[k] \in Nat, DOMAIN g = DOMAIN f \cup {k},
           \A s \in DOMAIN f : g[s] = f[s], IsFiniteSet(Units(f))
    PROVE  IsFiniteSet(Units(g)) /\ Total(f) \in Nat /\ Total(g) = Total(f) + g[k]
<1>. DEFINE U == {k} \X (1..g[k])
<1>1. Units(g) = Units(f) \cup U
  <2>1. {{s} \X (1..g[s]) : s \in DOMAIN g}
            = {{s} \X (1..f[s]) : s \in DOMAIN f} \cup {{k} \X (1..g[k])}
    OBVIOUS
  <2>. QED  BY <2>1 DEF Units
<1>2. Units(f) \cap U = {}
  <2>1. ASSUME NEW u \in Units(f), u \in U
        PROVE  FALSE
    <3>1. PICK s \in DOMAIN f : u \in {s} \X (1..f[s])
      BY DEF Units
    <3>2. u[1] = s /\ u[1] = k
      BY <2>1, <3>1
    <3>. QED  BY <3>2
  <2>. QED  BY <2>1
<1>3. IsFiniteSet(U) /\ Cardinality(U) = g[k]
  BY UnitsOfOne
<1>4. PICK P : P = Units(f)
  OBVIOUS
<1>. HIDE DEF U
<1>5. Cardinality(P) \in Nat /\ Cardinality(P \cap U) = 0
  BY <1>2, <1>4, FS_CardinalityType, FS_EmptySet
<1>6. IsFiniteSet(P \cup U) /\ Cardinality(P \cup U) = Cardinality(P) + g[k] - 0
  BY <1>3, <1>4, <1>5, FS_Union
<1>. QED  BY <1>1, <1>4, <1>5, <1>6 DEF Total

LEMMA TotalOfNone ==
    ASSUME NEW f, DOMAIN f = {}
    PROVE  IsFiniteSet(Units(f)) /\ Total(f) = 0
<1>1. Units(f) = {}
  BY DEF Units
<1>. QED  BY <1>1, FS_EmptySet DEF Total

\* A franchise pays for the claim it wins.
LEMMA WinnerPays ==
    ASSUME Budget \in Nat, NEW c \in Seq(Claims), NEW d \in Seq(Claims), NEW k \in DOMAIN c, DOMAIN d = DOMAIN c,
           NEW f \in [Franchises -> Nat], NEW g \in [Franchises -> Nat], Paid(c, f),
           c[k].status # "won", d[k].status = "won", d[k].form = c[k].form,
           \A l \in DOMAIN c \ {k} : d[l] = c[l],
           g = [f EXCEPT ![c[k].form.team] = @ - c[k].form.bid]
    PROVE  Paid(d, g)
<1>0. \A j \in DOMAIN c : c[j].form.team \in Franchises /\ c[j].form.bid \in Nat
  <2>1. \A j \in DOMAIN c : c[j] \in Claims
    OBVIOUS
  <2>. QED  BY <2>1 DEF Claims, Forms
<1>1. c[k].form.team \in Franchises /\ c[k].form.bid \in Nat
  BY <1>0
<1>2. ASSUME NEW t \in Franchises
      PROVE  IsFiniteSet(Units(BidsIn(d, t))) /\ g[t] = Budget - Total(BidsIn(d, t))
  <2>1. /\ IsFiniteSet(Units(BidsIn(c, t))) /\ f[t] = Budget - Total(BidsIn(c, t))
        /\ f[t] \in Nat
    BY DEF Paid
  <2>. DEFINE S == {j \in DOMAIN c : c[j].status = "won" /\ c[j].form.team = t}
  <2>2. CASE t # c[k].form.team
    <3>1. {j \in DOMAIN d : d[j].status = "won" /\ d[j].form.team = t} = S
      BY <2>2
    <3>2. BidsIn(d, t) = BidsIn(c, t)
      BY <2>2, <3>1 DEF BidsIn
    <3>3. g[t] = f[t]
      BY <1>1, <2>2
    <3>. QED  BY <2>1, <3>2, <3>3
  <2>3. CASE t = c[k].form.team
    <3>1. {j \in DOMAIN d : d[j].status = "won" /\ d[j].form.team = t} = S \cup {k}
      BY <2>3
    <3>2. PICK a : a = BidsIn(c, t)
      OBVIOUS
    <3>3. PICK b : b = BidsIn(d, t)
      OBVIOUS
    <3>4. DOMAIN a = S /\ k \notin S
      BY <3>2 DEF BidsIn
    <3>5. DOMAIN b = S \cup {k} /\ b[k] = c[k].form.bid /\ \A s \in S : b[s] = a[s]
      <4>1. b = [j \in S \cup {k} |-> d[j].form.bid]
        BY <3>1, <3>3 DEF BidsIn
      <4>2. a = [j \in S |-> c[j].form.bid]
        BY <3>2 DEF BidsIn
      <4>3. \A j \in S \cup {k} : d[j].form = c[j].form
        OBVIOUS
      <4>. QED  BY <4>1, <4>2, <4>3
    <3>6. IsFiniteSet(Units(b)) /\ Total(a) \in Nat /\ Total(b) = Total(a) + c[k].form.bid
      <4>1. /\ k \notin DOMAIN a /\ DOMAIN b = DOMAIN a \cup {k}
            /\ \A s \in DOMAIN a : b[s] = a[s]
        BY <3>4, <3>5
      <4>2. b[k] = c[k].form.bid /\ b[k] \in Nat /\ IsFiniteSet(Units(a))
        BY <1>1, <2>1, <3>2, <3>5
      <4>3. ASSUME NEW j, j = k
            PROVE  IsFiniteSet(Units(b)) /\ Total(a) \in Nat /\ Total(b) = Total(a) + b[j]
        <5>1. /\ j \notin DOMAIN a /\ DOMAIN b = DOMAIN a \cup {j} /\ b[j] \in Nat
              /\ \A s \in DOMAIN a : b[s] = a[s]
          BY <4>1, <4>2, <4>3
        <5>. QED  BY ONLY <4>2, <5>1, TotalGrows
      <4>. QED  BY <4>2, <4>3
    <3>7. g[t] = f[t] - c[k].form.bid
      BY <1>1, <2>3
    <3>. QED  BY <1>1, <2>1, <3>2, <3>3, <3>6, <3>7
  <2>. QED  BY <2>2, <2>3
<1>. QED  BY <1>2 DEF Paid

-----------------------------------------------------------------------------
(* Rosters and lineups when players change hands.                          *)

LEMMA RosterFinite ==
    ASSUME Ruled, NEW r, NEW t
    PROVE  IsFiniteSet(RosterOf(r, t)) /\ Cardinality(RosterOf(r, t)) \in Nat
<1>1. RosterOf(r, t) \in SUBSET Players
  BY DEF RosterOf
<1>2. IsFiniteSet(RosterOf(r, t))
  BY <1>1, FS_Subset DEF Ruled
<1>. QED  BY <1>2, FS_CardinalityType

\* A free player comes for nobody or for a player of the roster.
Exchange(r, add, drop, t) ==
    LET out == IF drop = None THEN {} ELSE {drop} IN
    /\ r \in Rosters /\ RostersFit(r)
    /\ add \in Players /\ drop \in Players \cup {None} /\ t \in Franchises
    /\ r[add] = None /\ out \subseteq RosterOf(r, t)
    /\ Fits(r, t, 1 - Cardinality(out))

LEMMA ExchangeFits ==
    ASSUME Ruled, NEW r, NEW add, NEW drop, NEW t, Exchange(r, add, drop, t)
    PROVE  Swapped(r, add, drop, t) \in Rosters /\ RostersFit(Swapped(r, add, drop, t))
<1>. DEFINE out == IF drop = None THEN {} ELSE {drop}
            q == Swapped(r, add, drop, t)
<1>1. /\ r \in Rosters /\ RostersFit(r)
      /\ add \in Players /\ drop \in Players \cup {None} /\ t \in Franchises
      /\ r[add] = None /\ out \subseteq RosterOf(r, t)
      /\ Cardinality(RosterOf(r, t)) + (1 - Cardinality(out)) <= RosterSize
  BY DEF Exchange, Fits
<1>2. None \notin Franchises /\ None \notin Players /\ RosterSize \in Nat
  BY DEF Ruled
<1>3. q \in Rosters
  BY <1>1 DEF Swapped, Rosters
<1>4. ASSUME NEW u \in Franchises, u # t
      PROVE  Cardinality(RosterOf(q, u)) <= RosterSize
  <2>1. RosterOf(q, u) \in SUBSET RosterOf(r, u)
    BY <1>1, <1>2, <1>4 DEF RosterOf, Swapped
  <2>2. Cardinality(RosterOf(q, u)) <= Cardinality(RosterOf(r, u))
    BY <2>1, RosterFinite, FS_Subset
  <2>. QED  BY <1>1, <1>2, <2>2, RosterFinite DEF RostersFit
<1>5. Cardinality(RosterOf(q, t)) <= RosterSize
  <2>1. PICK R : R = RosterOf(r, t)
    OBVIOUS
  <2>2. IsFiniteSet(R) /\ Cardinality(R) \in Nat /\ add \notin R
    BY <1>1, <1>2, <2>1, RosterFinite DEF RosterOf
  <2>3. CASE drop = None
    <3>1. RosterOf(q, t) = R \cup {add}
      BY <1>1, <1>2, <2>1, <2>3 DEF RosterOf, Swapped
    <3>2. Cardinality(R \cup {add}) = Cardinality(R) + 1
      BY <2>2, FS_AddElement
    <3>3. Cardinality(out) = 0
      BY <2>3, FS_EmptySet
    <3>. QED  BY <1>1, <1>2, <2>1, <2>2, <3>1, <3>2, <3>3
  <2>4. CASE drop # None
    <3>1. RosterOf(q, t) = (R \ {drop}) \cup {add} /\ drop \in R
      BY <1>1, <1>2, <2>1, <2>2, <2>4 DEF RosterOf, Swapped
    <3>2. IsFiniteSet(R \ {drop}) /\ Cardinality(R \ {drop}) = Cardinality(R) - 1
      BY <2>2, <3>1, FS_RemoveElement
    <3>3. Cardinality((R \ {drop}) \cup {add}) = Cardinality(R \ {drop}) + 1
      BY <2>2, <3>2, FS_AddElement
    <3>4. Cardinality(out) = 1
      BY <2>4, FS_Singleton
    <3>. QED  BY <1>1, <1>2, <2>1, <2>2, <3>1, <3>2, <3>3, <3>4
  <2>. QED  BY <2>3, <2>4
<1>. QED  BY <1>3, <1>4, <1>5 DEF RostersFit

LEMMA ExchangeOwned ==
    ASSUME Ruled, NEW r, NEW add, NEW drop, NEW t, Exchange(r, add, drop, t),
           NEW l \in Fielded, Owned(r, l), NEW out, out = IF drop = None THEN {} ELSE {drop}
    PROVE  Cleared(l, out) \in Fielded /\ Owned(Swapped(r, add, drop, t), Cleared(l, out))
<1>1. Cleared(l, out) \in Fielded
  BY DEF Fielded, Cleared
<1>2. ASSUME NEW u \in Franchises, NEW w \in Weeks, w >= week, NEW p \in Cleared(l, out)[u][w]
      PROVE  p \in RosterOf(Swapped(r, add, drop, t), u)
  <2>1. p \in l[u][w] /\ p \notin out
    BY <1>2 DEF Cleared
  <2>2. p \in Players /\ r[p] = u /\ u # None
    BY <1>2, <2>1 DEF Owned, RosterOf, Ruled
  <2>3. p # add /\ p # drop
    BY <2>1, <2>2 DEF Exchange, Ruled
  <2>. QED  BY <2>2, <2>3 DEF RosterOf, Swapped
<1>. QED  BY <1>1, <1>2 DEF Owned

\* What is locked stays in its lineup when movable players leave theirs.
SpotsKept(l, m) ==
    \A t \in Franchises, w \in Weeks, p \in Players :
        w <= week /\ Locked(p, w) => (p \in l[t][w] <=> p \in m[t][w])

LEMMA MovableIsUnlocked ==
    ASSUME MarketTyped, NEW ps, NEW w \in Weeks, Movable(ps, w), NEW p \in ps, p \in Players
    PROVE  ~Locked(p, w)
<1>1. game[p][w].kick \in Int /\ now \in Int
  <2>1. game[p][w] \in Games
    BY DEF MarketTyped
  <2>. QED  BY <2>1 DEF MarketTyped, Games
<1>. QED  BY <1>1 DEF Movable, Locked

LEMMA ClearedSpots ==
    ASSUME Ruled, MarketTyped, NEW l, NEW ps, Movable(ps, week)
    PROVE  SpotsKept(l, Cleared(l, ps))
<1>1. ASSUME NEW t \in Franchises, NEW w \in Weeks, NEW p \in Players, w <= week, Locked(p, w)
      PROVE  p \in l[t][w] <=> p \in Cleared(l, ps)[t][w]
  <2>1. CASE w >= week
    <3>1. w = week
      BY <1>1, <2>1 DEF Ruled, MarketTyped
    <3>2. p \notin ps
      BY <1>1, <3>1, MovableIsUnlocked
    <3>. QED  BY <3>2 DEF Cleared
  <2>2. CASE ~(w >= week)
    BY <2>2 DEF Cleared
  <2>. QED  BY <2>1, <2>2
<1>. QED  BY <1>1 DEF SpotsKept

-----------------------------------------------------------------------------
(* The published order.                                                    *)

LEMMA PriorityIsInt ==
    ASSUME Ruled, NEW t \in Franchises
    PROVE  WaiverPriority(t) \in Int
<1>1. PICK n \in DOMAIN Teams : Teams[n] = t
  BY DEF Franchises, Range
<1>2. (CHOOSE m \in DOMAIN Teams : Teams[m] = t) \in DOMAIN Teams
  BY <1>1
<1>3. DOMAIN Teams \subseteq Nat
  BY DEF Ruled
<1>. QED  BY <1>2, <1>3 DEF WaiverPriority

LEMMA ClaimTyped ==
    ASSUME MarketTyped, NEW k \in DOMAIN claims
    PROVE  claims[k] \in Claims /\ claims[k].form \in Forms /\ k \in Nat
<1>1. claims[k] \in Claims /\ k \in Nat
  BY DEF MarketTyped
<1>. QED  BY <1>1 DEF Claims

LEMMA BeforeOrders ==
    ASSUME Ruled, MarketTyped, NEW k \in DOMAIN claims, NEW l \in DOMAIN claims
    PROVE  /\ ~Before(k, k)
           /\ k # l => Before(k, l) \/ Before(l, k)
           /\ \A m \in DOMAIN claims : Before(k, l) /\ Before(l, m) => Before(k, m)
<1>1. \A m \in DOMAIN claims : /\ m \in Nat /\ claims[m].form.bid \in Nat
                               /\ claims[m].form.priority \in Int
                               /\ WaiverPriority(claims[m].form.team) \in Int
  BY ClaimTyped, PriorityIsInt DEF Forms
<1>. QED  BY <1>1 DEF Before

\* Of claims that are left, one is before all others.
LEMMA FirstIsFirst ==
    ASSUME Ruled, MarketTyped, NEW left \in SUBSET DOMAIN claims, left # {}, IsFiniteSet(left)
    PROVE  First(left) \in left /\ \A l \in left \ {First(left)} : Before(First(left), l)
<1>. DEFINE Ahead(k) == {l \in left : Before(l, k)}
            T == {Ahead(k) : k \in left}
<1>1. T # {} /\ \A S \in T : S \in FiniteSubsetsOf(left)
  <2>1. \A k \in left : Ahead(k) \in SUBSET left
    OBVIOUS
  <2>2. \A S \in SUBSET left : IsFiniteSet(S)
    BY FS_Subset
  <2>. QED  BY <2>1, <2>2 DEF FiniteSubsetsOf
<1>2. PICK S \in T : \A R \in T : R \subseteq S => R = S
  <2>. HIDE DEF T
  <2>. QED  BY <1>1, LeastSet
<1>3. PICK k \in left : S = Ahead(k)
  OBVIOUS
<1>4. ASSUME NEW l \in left, Before(l, k)
      PROVE  FALSE
  <2>1. Ahead(l) \subseteq Ahead(k)
    BY <1>4, BeforeOrders
  <2>2. l \in Ahead(l)
    BY <1>2, <1>3, <1>4, <2>1
  <2>. QED  BY <2>2, BeforeOrders
<1>5. \A l \in left \ {k} : Before(k, l)
  BY <1>4, BeforeOrders
<1>. QED  BY <1>5 DEF First

-----------------------------------------------------------------------------
(* The settlement, turn by turn.                                           *)

Standing == [claims |-> claims, roster |-> roster, lineup |-> lineup, hold |-> hold, faab |-> faab]
Turn(x) == [league |-> Settle(x.league, First(x.left)), left |-> x.left \ {First(x.left)}]
TurnsOf(f, mine, last) ==
    [n \in 0..last |-> IF n = 0 THEN [league |-> Standing, left |-> mine] ELSE Turn(f[n - 1])]

LEMMA TurnsExist ==
    ASSUME NEW mine, NEW last \in Nat
    PROVE  \E f : f = TurnsOf(f, mine, last)
<1>. DEFINE Missing == {n \in Nat : ~ \E f : f = TurnsOf(f, mine, n)}
<1>. SUFFICES ASSUME Missing # {}
              PROVE  FALSE
  OBVIOUS
<1>1. PICK m \in Missing : \A n \in Missing : m <= n
  <2>1. Missing \in SUBSET Nat
    OBVIOUS
  <2>. HIDE DEF Missing
  <2>. QED  BY <2>1, LeastNatural
<1>2. CASE m = 0
  <2>. DEFINE f == [n \in 0..0 |-> [league |-> Standing, left |-> mine]]
  <2>1. f = TurnsOf(f, mine, 0)
    BY DEF TurnsOf
  <2>. HIDE DEF f
  <2>. QED  BY <1>2, <2>1
<1>3. CASE m # 0
  <2>1. m - 1 \in Nat /\ m - 1 \notin Missing
    BY <1>1, <1>3
  <2>2. PICK g : g = TurnsOf(g, mine, m - 1)
    BY <2>1
  <2>. DEFINE f == [n \in 0..m |-> IF n = m THEN Turn(g[m - 1]) ELSE g[n]]
  <2>3. \A n \in 0..m : f[n] = IF n = 0 THEN [league |-> Standing, left |-> mine] ELSE Turn(f[n - 1])
    <3>1. ASSUME NEW n \in 0..m
          PROVE  f[n] = IF n = 0 THEN [league |-> Standing, left |-> mine] ELSE Turn(f[n - 1])
      <4>1. CASE n = m
        BY <1>3, <2>1, <4>1
      <4>2. CASE n # m
        <5>1. n \in 0..(m - 1) /\ f[n] = g[n]
          BY <2>1, <4>2
        <5>2. g[n] = IF n = 0 THEN [league |-> Standing, left |-> mine] ELSE Turn(g[n - 1])
          BY <2>2, <5>1 DEF TurnsOf
        <5>3. n # 0 => f[n - 1] = g[n - 1]
          BY <2>1, <4>2, <5>1
        <5>. QED  BY <5>1, <5>2, <5>3
      <4>. QED  BY <4>1, <4>2
    <3>. QED  BY <3>1
  <2>4. f = TurnsOf(f, mine, m)
    <3>1. DOMAIN f = 0..m /\ f = [n \in 0..m |-> f[n]]
      OBVIOUS
    <3>. HIDE DEF f
    <3>. QED  BY <2>3, <3>1 DEF TurnsOf
  <2>. HIDE DEF f
  <2>. QED  BY <2>4
<1>. QED  BY <1>2, <1>3

LEMMA SettledInTurns ==
    ASSUME NEW mine, Cardinality(mine) \in Nat
    PROVE  \E f : /\ f = TurnsOf(f, mine, Cardinality(mine))
                  /\ Settled(mine) = f[Cardinality(mine)].league
<1>. DEFINE f == CHOOSE f : f = [n \in 0..Cardinality(mine) |->
                     IF n = 0 THEN [league |-> [claims |-> claims, roster |-> roster, lineup |-> lineup,
                                                hold |-> hold, faab |-> faab], left |-> mine]
                     ELSE LET x == f[n - 1]
                              k == First(x.left)
                          IN [league |-> Settle(x.league, k), left |-> x.left \ {k}]]
<1>1. f = TurnsOf(f, mine, Cardinality(mine))
  <2>. DEFINE Body(g) ==
           [n \in 0..Cardinality(mine) |->
               IF n = 0 THEN [league |-> [claims |-> claims, roster |-> roster, lineup |-> lineup,
                                          hold |-> hold, faab |-> faab], left |-> mine]
               ELSE LET x == g[n - 1]
                        k == First(x.left)
                    IN [league |-> Settle(x.league, k), left |-> x.left \ {k}]]
  <2>1. \A g : TurnsOf(g, mine, Cardinality(mine)) = Body(g)
    BY DEF TurnsOf, Turn, Standing
  <2>2. f = CHOOSE g : g = Body(g)
    OBVIOUS
  <2>. HIDE DEF f, Body
  <2>3. \E g : g = Body(g)
    <3>1. PICK n \in Nat : n = Cardinality(mine)
      OBVIOUS
    <3>2. PICK g : g = TurnsOf(g, mine, n)
      BY TurnsExist
    <3>. QED  BY <2>1, <3>1, <3>2
  <2>4. f = Body(f)
    BY <2>2, <2>3
  <2>. QED  BY <2>1, <2>4
<1>2. Settled(mine) = f[Cardinality(mine)].league
  BY DEF Settled
<1>. QED  BY <1>1, <1>2

Leagues == [claims : Seq(Claims), roster : Rosters, lineup : Fielded, hold : [Players -> Int],
            faab : [Franchises -> Nat]]

LEMMA Objections ==
    ASSUME NEW x, NEW c
    PROVE  /\ Objection(x, c) \in Reasons
           /\ Objection(x, c) = "unavailable" => x.roster[c.add] # None
           /\ Objection(x, c) = None =>
                 /\ x.roster[c.add] = None
                 /\ Dropped(c) \subseteq RosterOf(x.roster, c.team)
                 /\ ~(c.bid > x.faab[c.team])
                 /\ Fits(x.roster, c.team, 1 - Cardinality(Dropped(c)))
                 /\ Movable({c.add} \cup Dropped(c), week)
BY DEF Objection, Reasons, None

\* What holds of a league x with the claims `left' still to be settled.
ClaimsKept(x, mine, left) ==
    /\ left \subseteq mine /\ DOMAIN x.claims = DOMAIN claims
    /\ \A k \in DOMAIN claims : /\ x.claims[k].form = claims[k].form
                                /\ x.claims[k].period = claims[k].period
    /\ \A k \in DOMAIN claims \ (mine \ left) : x.claims[k] = claims[k]
    /\ \A k \in mine \ left :
          /\ x.claims[k].status \in {"won", "lost"}
          /\ x.claims[k].status = "won" => x.claims[k].reason = None
          /\ \A l \in left : Before(k, l)

\* What a claim settled too late for finds taken is taken for good.
SettledInOrder(x, mine, left) ==
    /\ \A k \in mine \ left :
          x.claims[k].status = "won" \/ x.claims[k].reason = "unavailable" =>
              x.roster[claims[k].form.add] # None
    /\ \A k, l \in mine \ left :
          claims[k].form.add = claims[l].form.add /\ Before(k, l) /\ x.claims[l].status = "won" =>
              x.claims[k].status = "lost" /\ x.claims[k].reason # "unavailable"

Settling(x, mine, left) ==
    /\ x \in Leagues /\ RostersFit(x.roster) /\ Owned(x.roster, x.lineup) /\ Paid(x.claims, x.faab)
    /\ SpotsKept(lineup, x.lineup)
    /\ ClaimsKept(x, mine, left) /\ SettledInOrder(x, mine, left)

\* The claims settled together.
Together(mine) ==
    /\ mine \subseteq DOMAIN claims
    /\ \A k \in mine : claims[k].status = "pending" /\ claims[k].reason = None
    /\ \A k, l \in mine : claims[k].form.add # claims[l].form.drop

\* The next claim gets its row.
NextRow(x, y, mine, left, k, row) ==
    /\ Together(mine) /\ x.claims \in Seq(Claims) /\ ClaimsKept(x, mine, left)
    /\ k \in left /\ \A l \in left \ {k} : Before(k, l)
    /\ row \in Claims /\ row.form = claims[k].form /\ row.period = claims[k].period
    /\ row.status \in {"won", "lost"} /\ (row.status = "won" => row.reason = None)
    /\ y.claims = [x.claims EXCEPT ![k] = row]

LEMMA RowSettled ==
    ASSUME Ruled, MarketTyped, NEW x, NEW y, NEW mine, NEW left, NEW k, NEW row,
           NextRow(x, y, mine, left, k, row)
    PROVE  y.claims \in Seq(Claims) /\ ClaimsKept(y, mine, left \ {k})
<1>1. /\ mine \subseteq DOMAIN claims /\ k \in mine /\ k \in left /\ left \subseteq mine
      /\ DOMAIN x.claims = DOMAIN claims /\ x.claims \in Seq(Claims) /\ row \in Claims
      /\ y.claims = [x.claims EXCEPT ![k] = row]
  BY DEF NextRow, Together, ClaimsKept
<1>2. DOMAIN x.claims = 1..Len(x.claims)
  BY <1>1
<1>3. y.claims \in Seq(Claims) /\ DOMAIN y.claims = DOMAIN claims
  BY <1>1, <1>2, ExceptSeq
<1>4. y.claims[k] = row /\ \A l \in DOMAIN claims \ {k} : y.claims[l] = x.claims[l]
  BY <1>1
<1>5. left \ {k} \subseteq mine /\ mine \ (left \ {k}) = (mine \ left) \cup {k}
  BY <1>1
<1>6. \A l \in DOMAIN claims : y.claims[l].form = claims[l].form /\ y.claims[l].period = claims[l].period
  BY <1>4 DEF NextRow, ClaimsKept
<1>7. \A l \in DOMAIN claims \ ((mine \ left) \cup {k}) : y.claims[l] = claims[l]
  BY <1>4 DEF NextRow, ClaimsKept
<1>8. \A l \in mine \ left : /\ y.claims[l].status \in {"won", "lost"}
                             /\ y.claims[l].status = "won" => y.claims[l].reason = None
                             /\ \A m \in left : Before(l, m)
  BY <1>1, <1>4 DEF NextRow, ClaimsKept
<1>9. /\ y.claims[k].status \in {"won", "lost"} /\ (y.claims[k].status = "won" => y.claims[k].reason = None)
      /\ \A m \in left \ {k} : Before(k, m)
  BY <1>4 DEF NextRow
<1>. QED  BY <1>3, <1>5, <1>6, <1>7, <1>8, <1>9 DEF ClaimsKept

LEMMA OrderSettled ==
    ASSUME Ruled, MarketTyped, NEW x, NEW y, NEW mine, NEW left, NEW k, NEW row,
           NextRow(x, y, mine, left, k, row), SettledInOrder(x, mine, left),
           row.status = "won" => x.roster[claims[k].form.add] = None,
           row.status = "won" \/ row.reason = "unavailable" => y.roster[claims[k].form.add] # None,
           \A l \in mine : x.roster[claims[l].form.add] # None => y.roster[claims[l].form.add] # None
    PROVE  SettledInOrder(y, mine, left \ {k})
<1>1. k \in left /\ left \subseteq mine /\ mine \subseteq DOMAIN claims
  BY DEF NextRow, Together, ClaimsKept
<1>2. y.claims[k] = row /\ \A l \in mine \ left : y.claims[l] = x.claims[l]
  BY <1>1 DEF NextRow, ClaimsKept
<1>3. \A l \in mine \ left : Before(l, k) /\ ~Before(k, l) /\ ~Before(k, k)
  BY <1>1, BeforeOrders DEF NextRow, ClaimsKept
<1>4. \A l \in mine \ (left \ {k}) : l = k \/ l \in mine \ left
  OBVIOUS
<1>5. ASSUME NEW l \in mine \ (left \ {k}), y.claims[l].status = "won" \/ y.claims[l].reason = "unavailable"
      PROVE  y.roster[claims[l].form.add] # None
  BY <1>2, <1>4, <1>5 DEF SettledInOrder
<1>6. ASSUME NEW l \in mine \ (left \ {k}), NEW m \in mine \ (left \ {k}), Before(l, m),
             claims[l].form.add = claims[m].form.add, y.claims[m].status = "won"
      PROVE  y.claims[l].status = "lost" /\ y.claims[l].reason # "unavailable"
  <2>1. l # k
    <3>1. m = k => ~Before(k, m)
      BY <1>1, BeforeOrders
    <3>2. m # k => ~Before(k, m)
      BY <1>3, <1>4
    <3>. QED  BY <1>6, <3>1, <3>2
  <2>2. l \in mine \ left
    BY <1>4, <2>1
  <2>3. CASE m = k
    <3>1. x.roster[claims[l].form.add] = None
      BY <1>2, <1>6, <2>3
    <3>2. x.claims[l].status \in {"won", "lost"}
      BY <2>2 DEF NextRow, ClaimsKept
    <3>. QED  BY <1>2, <2>2, <3>1, <3>2 DEF SettledInOrder
  <2>4. CASE m # k
    BY <1>2, <1>4, <1>6, <2>2, <2>4 DEF SettledInOrder
  <2>. QED  BY <2>3, <2>4
<1>. QED  BY <1>5, <1>6 DEF SettledInOrder

LEMMA LostKeeps ==
    ASSUME Ruled, MarketTyped, NEW x, NEW mine, NEW left, Together(mine), Settling(x, mine, left),
           NEW k \in left, \A l \in left \ {k} : Before(k, l), Objection(x, x.claims[k].form) # None
    PROVE  Settling(Settle(x, k), mine, left \ {k})
<1>. DEFINE why == Objection(x, x.claims[k].form)
            y == Settle(x, k)
            row == [x.claims[k] EXCEPT !.status = "lost", !.reason = why]
<1>1. /\ k \in DOMAIN claims /\ k \in DOMAIN x.claims /\ x.claims[k] = claims[k]
      /\ claims[k].status = "pending" /\ x.claims \in Seq(Claims)
  BY DEF Together, Settling, ClaimsKept, Leagues
<1>2. y = [x EXCEPT !.claims = [x.claims EXCEPT ![k].status = "lost", ![k].reason = why]]
  BY DEF Settle, Settling, Leagues
<1>3. why \in Reasons /\ (why = "unavailable" => x.roster[claims[k].form.add] # None)
  BY <1>1, Objections
<1>. HIDE DEF why
<1>4. /\ y.roster = x.roster /\ y.lineup = x.lineup /\ y.hold = x.hold /\ y.faab = x.faab
      /\ y.claims = [x.claims EXCEPT ![k] = row]
  BY <1>1, <1>2 DEF Settling, Leagues
<1>5. /\ row \in Claims /\ row.status = "lost" /\ row.reason = why
      /\ row.form = claims[k].form /\ row.period = claims[k].period
  <2>1. x.claims[k] \in Claims
    BY <1>1
  <2>. QED  BY <1>1, <1>3, <2>1 DEF Claims
<1>6. y = [claims |-> y.claims, roster |-> y.roster, lineup |-> y.lineup, hold |-> y.hold, faab |-> y.faab]
  BY <1>2 DEF Settling, Leagues
<1>. HIDE DEF y, row
<1>7. NextRow(x, y, mine, left, k, row)
  BY <1>1, <1>4, <1>5 DEF NextRow, Settling
<1>8. y.claims \in Seq(Claims) /\ ClaimsKept(y, mine, left \ {k}) /\ SettledInOrder(y, mine, left \ {k})
  <2>1. SettledInOrder(x, mine, left) /\ y.roster = x.roster /\ row.status # "won"
    BY <1>4, <1>5 DEF Settling
  <2>2. row.reason = "unavailable" => y.roster[claims[k].form.add] # None
    BY <1>3, <1>5, <2>1
  <2>3. \A l \in mine : x.roster[claims[l].form.add] # None => y.roster[claims[l].form.add] # None
    BY <2>1
  <2>4. y.claims \in Seq(Claims) /\ ClaimsKept(y, mine, left \ {k})
    BY ONLY Ruled, MarketTyped, <1>7, RowSettled
  <2>5. SettledInOrder(y, mine, left \ {k})
    BY ONLY Ruled, MarketTyped, <1>7, <2>1, <2>2, <2>3, OrderSettled
  <2>. QED  BY <2>4, <2>5
<1>9. y \in Leagues
  BY <1>4, <1>6, <1>8 DEF Settling, Leagues
<1>10. Paid(y.claims, y.faab)
  <2>1. \A j \in DOMAIN x.claims : /\ y.claims[j].status = "won" <=> x.claims[j].status = "won"
                                   /\ y.claims[j].form = x.claims[j].form
    BY <1>1, <1>4, <1>5
  <2>2. \A t : BidsIn(y.claims, t) = BidsIn(x.claims, t)
    <3>1. DOMAIN y.claims = DOMAIN x.claims
      BY <1>4
    <3>. QED  BY <2>1, <3>1 DEF BidsIn
  <2>. QED  BY <1>4, <2>2 DEF Settling, Paid
<1>. QED  BY <1>4, <1>8, <1>9, <1>10 DEF Settling, y

LEMMA WonKeeps ==
    ASSUME Ruled, MarketTyped, NEW x, NEW mine, NEW left, Together(mine), Settling(x, mine, left),
           NEW k \in left, \A l \in left \ {k} : Before(k, l), Objection(x, x.claims[k].form) = None
    PROVE  Settling(Settle(x, k), mine, left \ {k})
<1>. DEFINE c == x.claims[k].form
            y == Settle(x, k)
            row == [x.claims[k] EXCEPT !.status = "won"]
<1>1. /\ k \in DOMAIN claims /\ k \in DOMAIN x.claims /\ x.claims[k] = claims[k]
      /\ claims[k].status = "pending" /\ x.claims \in Seq(Claims) /\ k \in mine /\ left \subseteq mine
  BY DEF Together, Settling, ClaimsKept, Leagues
<1>2. /\ c = claims[k].form /\ x.claims[k] \in Claims /\ c \in Forms
      /\ c.team \in Franchises /\ c.add \in Players /\ c.drop \in Players \cup {None} /\ c.bid \in Nat
  <2>1. x.claims[k] \in Claims
    BY <1>1
  <2>2. c \in Forms
    BY <2>1 DEF Claims
  <2>. QED  BY <1>1, <2>1, <2>2 DEF Forms
<1>3. /\ x.roster[c.add] = None /\ Dropped(c) \subseteq RosterOf(x.roster, c.team)
      /\ ~(c.bid > x.faab[c.team])
      /\ Fits(x.roster, c.team, 1 - Cardinality(Dropped(c)))
      /\ Movable({c.add} \cup Dropped(c), week)
  BY Objections
<1>4. y = [claims |-> [x.claims EXCEPT ![k].status = "won"],
           roster |-> Swapped(x.roster, c.add, c.drop, c.team),
           lineup |-> Cleared(x.lineup, Dropped(c)),
           hold |-> IF c.drop = None THEN x.hold ELSE Held(x.hold, c.drop),
           faab |-> [x.faab EXCEPT ![c.team] = @ - c.bid]]
  BY DEF Settle
<1>5. y.claims = [x.claims EXCEPT ![k] = row]
  BY <1>1, <1>4
<1>6. /\ row \in Claims /\ row.status = "won" /\ row.reason = None
      /\ row.form = claims[k].form /\ row.period = claims[k].period
  <2>1. claims[k].reason = None => row.reason = None
    BY <1>1, <1>2 DEF Claims
  <2>. QED  BY <1>1, <1>2, <2>1 DEF Claims, Together
<1>7. Exchange(x.roster, c.add, c.drop, c.team)
  BY <1>2, <1>3 DEF Exchange, Dropped, Settling, Leagues
<1>. HIDE DEF c, row
<1>8. /\ y.roster = Swapped(x.roster, c.add, c.drop, c.team)
      /\ y.lineup = Cleared(x.lineup, Dropped(c))
      /\ y.faab = [x.faab EXCEPT ![c.team] = @ - c.bid]
  BY <1>4
<1>. HIDE DEF y
<1>9. y.roster \in Rosters /\ RostersFit(y.roster)
  BY <1>7, <1>8, ExchangeFits
<1>10. y.lineup \in Fielded /\ Owned(y.roster, y.lineup)
  BY <1>7, <1>8, ExchangeOwned DEF Dropped, Settling, Leagues
<1>11. SpotsKept(lineup, y.lineup)
  <2>1. Movable(Dropped(c), week)
    BY <1>3 DEF Movable
  <2>2. SpotsKept(x.lineup, y.lineup)
    BY <1>8, <2>1, ClearedSpots
  <2>. QED  BY <2>2 DEF SpotsKept, Settling
<1>12. NextRow(x, y, mine, left, k, row)
  BY <1>1, <1>5, <1>6 DEF NextRow, Settling
<1>13. y.claims \in Seq(Claims) /\ ClaimsKept(y, mine, left \ {k})
  BY ONLY Ruled, MarketTyped, <1>12, RowSettled
<1>14. SettledInOrder(y, mine, left \ {k})
  <2>1. y.roster[c.add] # None /\ x.roster[c.add] = None
    BY <1>2, <1>3, <1>8 DEF Swapped, Ruled
  <2>2. ASSUME NEW l \in mine, x.roster[claims[l].form.add] # None
        PROVE  y.roster[claims[l].form.add] # None
    <3>1. claims[l].form.add # c.drop
      BY <1>1, <1>2 DEF Together
    <3>2. claims[l].form.add \in Players
      <4>1. l \in DOMAIN claims
        BY DEF Together
      <4>. QED  BY <4>1, ClaimTyped DEF Forms
    <3>. QED  BY <1>2, <1>8, <2>1, <2>2, <3>1, <3>2 DEF Swapped
  <2>3. /\ SettledInOrder(x, mine, left)
        /\ x.roster[claims[k].form.add] = None /\ y.roster[claims[k].form.add] # None
    BY <1>2, <2>1 DEF Settling
  <2>. QED  BY ONLY Ruled, MarketTyped, <1>12, <2>2, <2>3, OrderSettled
<1>15. y.faab \in [Franchises -> Nat] /\ Paid(y.claims, y.faab)
  <2>1. x.faab \in [Franchises -> Nat] /\ Paid(x.claims, x.faab) /\ Budget \in Nat
    BY DEF Settling, Leagues, Ruled
  <2>2. y.faab \in [Franchises -> Nat]
    BY <1>2, <1>3, <1>8, <2>1
  <2>3. DOMAIN y.claims = DOMAIN x.claims /\ \A l \in DOMAIN x.claims \ {k} : y.claims[l] = x.claims[l]
    BY <1>5
  <2>4. x.claims[k].status # "won" /\ y.claims[k].status = "won" /\ y.claims[k].form = x.claims[k].form
    BY <1>1, <1>5, <1>6
  <2>5. y.faab = [x.faab EXCEPT ![x.claims[k].form.team] = @ - x.claims[k].form.bid]
    BY <1>8 DEF c
  <2>. QED  BY <1>1, <1>13, <2>1, <2>2, <2>3, <2>4, <2>5, WinnerPays
<1>16. y.hold \in [Players -> Int]
  <2>1. x.hold \in [Players -> Int] /\ now \in Int /\ HoldTime \in Nat
    BY DEF Settling, Leagues, MarketTyped, Ruled
  <2>2. y.hold = IF c.drop = None THEN x.hold ELSE Held(x.hold, c.drop)
    BY <1>4
  <2>. QED  BY <1>2, <2>1, <2>2 DEF Held
<1>17. y \in Leagues
  <2>1. y = [claims |-> y.claims, roster |-> y.roster, lineup |-> y.lineup, hold |-> y.hold, faab |-> y.faab]
    BY <1>4
  <2>. QED  BY <1>9, <1>10, <1>13, <1>15, <1>16, <2>1 DEF Leagues
<1>. QED  BY <1>9, <1>10, <1>11, <1>13, <1>14, <1>15, <1>17 DEF Settling, y

\* The whole settlement, by induction over its turns.
LEMMA Settlement ==
    ASSUME Ruled, MarketTyped, RostersFit(roster), Owned(roster, lineup), Paid(claims, faab),
           NEW mine, Together(mine)
    PROVE  Settling(Settled(mine), mine, {})
<1>1. IsFiniteSet(mine) /\ Cardinality(mine) \in Nat
  <2>1. DOMAIN claims = 1..Len(claims) /\ Len(claims) \in Nat
    BY DEF MarketTyped
  <2>2. IsFiniteSet(1..Len(claims)) /\ mine \in SUBSET (1..Len(claims))
    BY <2>1, FS_Interval DEF Together
  <2>3. IsFiniteSet(mine)
    BY <2>2, FS_Subset
  <2>. QED  BY <2>3, FS_CardinalityType
<1>. DEFINE last == Cardinality(mine)
<1>2. PICK f : f = TurnsOf(f, mine, last) /\ Settled(mine) = f[last].league
  BY <1>1, SettledInTurns
<1>. DEFINE Sound(n) ==
        /\ Settling(f[n].league, mine, f[n].left)
        /\ f[n].left \subseteq mine /\ Cardinality(f[n].left) = last - n
     Wrong == {n \in 0..last : ~Sound(n)}
<1>3. Sound(0)
  <2>1. f[0] = [league |-> Standing, left |-> mine]
    BY <1>1, <1>2 DEF TurnsOf
  <2>2. Standing \in Leagues
    BY DEF Standing, Leagues, MarketTyped
  <2>3. Settling(Standing, mine, mine)
    BY <2>2 DEF Settling, Standing, ClaimsKept, SettledInOrder, SpotsKept, Together
  <2>. QED  BY <1>1, <2>1, <2>3
<1>4. ASSUME NEW n \in 0..last, n # last, Sound(n)
      PROVE  Sound(n + 1)
  <2>. DEFINE x == f[n].league
              left == f[n].left
  <2>1. f[n + 1] = Turn(f[n])
    <3>1. n + 1 \in 0..last /\ n + 1 # 0 /\ (n + 1) - 1 = n
      BY <1>1, <1>4
    <3>. QED  BY <1>2, <3>1 DEF TurnsOf
  <2>2. left \in SUBSET mine /\ Settling(x, mine, left) /\ Cardinality(left) = last - n
    BY <1>4
  <2>3. IsFiniteSet(left) /\ left # {}
    BY <1>1, <1>4, <2>2, FS_Subset, FS_EmptySet
  <2>. HIDE DEF x, left
  <2>4. PICK k : k = First(left)
    OBVIOUS
  <2>5. k \in left /\ \A l \in left \ {k} : Before(k, l)
    BY <2>2, <2>3, <2>4, FirstIsFirst DEF Together
  <2>6. Settling(Settle(x, k), mine, left \ {k})
    BY <2>2, <2>5, LostKeeps, WonKeeps
  <2>7. Cardinality(left \ {k}) = last - (n + 1)
    <3>1. Cardinality(left \ {k}) = Cardinality(left) - 1
      BY <2>3, <2>5, FS_RemoveElement
    <3>. QED  BY <1>1, <1>4, <2>2, <3>1
  <2>8. f[n + 1].league = Settle(x, k) /\ f[n + 1].left = left \ {k}
    BY <2>1, <2>4 DEF Turn, x, left
  <2>. QED  BY <2>2, <2>6, <2>7, <2>8
<1>. HIDE DEF Sound
<1>5. Wrong = {}
  <2>. SUFFICES ASSUME Wrong # {}
                PROVE  FALSE
    OBVIOUS
  <2>1. PICK m \in Wrong : \A n \in Wrong : m <= n
    <3>1. Wrong \in SUBSET Nat
      OBVIOUS
    <3>. HIDE DEF Wrong
    <3>. QED  BY <3>1, LeastNatural
  <2>2. m # 0
    BY <1>3
  <2>3. m - 1 \in 0..last /\ m - 1 # last /\ m - 1 \notin Wrong
    BY <1>1, <2>1, <2>2
  <2>. QED  BY <1>4, <2>1, <2>3
<1>6. Sound(last)
  BY <1>1, <1>5
<1>7. f[last].left = {}
  <2>1. f[last].left \in SUBSET mine /\ Cardinality(f[last].left) = 0
    BY <1>1, <1>6 DEF Sound
  <2>. QED  BY <1>1, <2>1, FS_Subset, FS_EmptySet
<1>. QED  BY <1>2, <1>6, <1>7 DEF Sound

-----------------------------------------------------------------------------
(* The commands.                                                           *)

\* Who is locked stays locked, and in or out of the lineup as he was.
LocksKept ==
    \A t \in Franchises, w \in Weeks, p \in Players :
        w <= week /\ Locked(p, w) => (p \in lineup[t][w] <=> p \in lineup'[t][w]) /\ Locked(p, w)'

\* A command after which the same players are free leaves the waivers in order.
LEMMA WaiversStill ==
    ASSUME Ruled, MarketTyped, PeriodsApart, ClaimsSound, ClaimsInOrder,
           UNCHANGED <<period, claims, window>>, now' \in Int, now' >= now,
           \A p \in Players : roster'[p] = None <=> roster[p] = None
    PROVE  PeriodsApart' /\ ClaimsSound' /\ ClaimsInOrder'
<1>. USE DEF OpenPeriods
<1>1. now \in Int /\ \A i \in DOMAIN period : period[i].closes \in Int
  BY DEF MarketTyped
<1>2. PeriodsApart'
  <2>1. \A i \in OpenPeriods, v \in window : v.closes <= now' \/ v.opens >= period[i].closes
    <3>1. \A v \in window : v.closes <= now => v.closes <= now'
      <4>1. \A v \in window : v.closes \in Int
        BY DEF Ruled, MarketTyped
      <4>. QED  BY <1>1, <4>1
    <3>. QED  BY <3>1 DEF PeriodsApart
  <2>. QED  BY <2>1 DEF PeriodsApart
<1>3. ASSUME NEW k \in DOMAIN claims, claims[k].status = "pending", now' < period[claims[k].period].closes
      PROVE  /\ roster'[claims[k].form.add] = None
             /\ claims[k].form.drop # None => roster'[claims[k].form.drop] # None
  <2>1. claims[k].form.add \in Players /\ claims[k].form.drop \in Players \cup {None}
    BY ClaimTyped DEF Forms
  <2>2. now < period[claims[k].period].closes
    BY <1>1, <1>3 DEF ClaimsSound
  <2>. QED  BY <1>3, <2>1, <2>2 DEF ClaimsSound
<1>4. ClaimsSound'
  BY <1>3 DEF ClaimsSound
<1>5. ClaimsInOrder'
  BY DEF ClaimsInOrder, Before
<1>. QED  BY <1>2, <1>4, <1>5

LEMMA InitMarket ==
    ASSUME Ruled, MarketInit
    PROVE  MarketInv
<1>1. MarketTyped
  BY DEF Ruled, MarketInit, MarketTyped, Fielded
<1>2. RostersFit(roster) /\ Owned(roster, lineup)
  BY DEF Ruled, MarketInit, Owned
<1>3. Paid(claims, faab)
  <2>1. \A t \in Franchises : DOMAIN BidsIn(claims, t) = {}
    BY DEF MarketInit, BidsIn
  <2>. QED  BY <2>1, TotalOfNone DEF MarketInit, Ruled, Paid
<1>4. PeriodsApart /\ ClaimsSound /\ ClaimsInOrder
  BY DEF MarketInit, PeriodsApart, OpenPeriods, ClaimsSound, ClaimsInOrder
<1>. QED  BY <1>1, <1>2, <1>3, <1>4 DEF MarketInv

LEMMA TimeMarket ==
    ASSUME Ruled, MarketInv, TimePasses
    PROVE  MarketInv' /\ LocksKept
<1>1. now \in Int /\ now' = now + 1
  BY DEF MarketInv, MarketTyped, TimePasses
<1>2. UNCHANGED <<week, roster, lineup, game, trade, period, claims, window, faab, hold>>
  BY DEF TimePasses, waiverVars
<1>3. MarketTyped'
  BY <1>1, <1>2 DEF MarketInv, MarketTyped
<1>4. PeriodsApart' /\ ClaimsSound' /\ ClaimsInOrder'
  BY <1>1, <1>2, WaiversStill DEF MarketInv
<1>5. RostersFit(roster)' /\ Owned(roster, lineup)' /\ Paid(claims, faab)'
  BY <1>2 DEF MarketInv, Owned
<1>6. LocksKept
  <2>1. \A p \in Players, w \in Weeks : game[p][w].kick \in Int
    BY DEF MarketInv, MarketTyped, Games
  <2>. QED  BY <1>1, <1>2, <2>1 DEF LocksKept, Locked
<1>. QED  BY <1>3, <1>4, <1>5, <1>6 DEF MarketInv

LEMMA ImportMarket ==
    ASSUME Ruled, MarketInv, NEW g \in Feed, ImportSchedule(g)
    PROVE  MarketInv' /\ LocksKept
<1>1. UNCHANGED <<now, week, roster, lineup, trade, period, claims, window, faab, hold>>
  BY DEF ImportSchedule, waiverVars
<1>2. g.player \in Players /\ g.week \in Weeks /\ g.kick \in Int /\ g.status \in Statuses
  BY DEF Ruled
<1>3. game' = [game EXCEPT ![g.player][g.week] = [kick |-> g.kick, status |-> g.status]]
  BY DEF ImportSchedule
<1>4. game' \in [Players -> [Weeks -> Games]]
  BY <1>2, <1>3 DEF MarketInv, MarketTyped, Games
<1>5. MarketTyped'
  BY <1>1, <1>4 DEF MarketInv, MarketTyped
<1>6. PeriodsApart' /\ ClaimsSound' /\ ClaimsInOrder'
  BY <1>1, WaiversStill DEF MarketInv, MarketTyped
<1>7. RostersFit(roster)' /\ Owned(roster, lineup)' /\ Paid(claims, faab)'
  BY <1>1 DEF MarketInv, Owned
<1>8. LocksKept
  <2>1. ASSUME NEW p \in Players, NEW w \in Weeks, Locked(p, w)
        PROVE  Locked(p, w)'
    <3>1. CASE p = g.player /\ w = g.week
      <4>1. g.kick <= now /\ g.status \in {"scheduled", "final"}
        BY <2>1, <3>1 DEF ImportSchedule
      <4>2. game'[p][w] = [kick |-> g.kick, status |-> g.status]
        BY <1>2, <1>3, <3>1 DEF MarketInv, MarketTyped
      <4>. QED  BY <1>1, <4>1, <4>2 DEF Locked
    <3>2. CASE ~(p = g.player /\ w = g.week)
      <4>1. game'[p][w] = game[p][w]
        BY <1>2, <1>3, <3>2 DEF MarketInv, MarketTyped
      <4>. QED  BY <1>1, <2>1, <4>1 DEF Locked
    <3>. QED  BY <3>1, <3>2
  <2>. QED  BY <1>1, <2>1 DEF LocksKept
<1>. QED  BY <1>5, <1>6, <1>7, <1>8 DEF MarketInv

LEMMA AdvanceMarket ==
    ASSUME Ruled, MarketInv, AdvanceWeek
    PROVE  MarketInv' /\ LocksKept
<1>1. UNCHANGED <<now, roster, lineup, game, trade, period, claims, window, faab, hold>>
  BY DEF AdvanceWeek, waiverVars
<1>2. week' = week + 1 /\ week' \in Weeks /\ week \in Nat /\ Weeks \subseteq Nat
  BY DEF AdvanceWeek, Ruled, MarketInv, MarketTyped
<1>3. MarketTyped'
  BY <1>1, <1>2 DEF MarketInv, MarketTyped
<1>4. PeriodsApart' /\ ClaimsSound' /\ ClaimsInOrder'
  BY <1>1, WaiversStill DEF MarketInv, MarketTyped
<1>5. RostersFit(roster)' /\ Paid(claims, faab)'
  BY <1>1 DEF MarketInv
<1>6. Owned(roster, lineup)'
  BY <1>1, <1>2 DEF MarketInv, Owned
<1>7. LocksKept
  BY <1>1 DEF LocksKept, Locked
<1>. QED  BY <1>3, <1>4, <1>5, <1>6, <1>7 DEF MarketInv

LEMMA LineupMarket ==
    ASSUME Ruled, MarketInv, NEW t \in Franchises, NEW w \in Weeks, NEW ps, SetLineup(t, w, ps)
    PROVE  MarketInv' /\ LocksKept
<1>1. UNCHANGED <<now, week, roster, game, trade, period, claims, window, faab, hold>>
  BY DEF SetLineup, waiverVars
<1>2. /\ ps \subseteq RosterOf(roster, t) /\ Movable(Changed(lineup[t][w], ps), w)
      /\ lineup' = [lineup EXCEPT ![t][w] = ps] /\ lineup \in Fielded
  BY DEF SetLineup, MarketInv, MarketTyped
<1>3. lineup' \in Fielded
  BY <1>2 DEF Fielded, RosterOf
<1>4. \A u \in Franchises, v \in Weeks : lineup'[u][v] = IF u = t /\ v = w THEN ps ELSE lineup[u][v]
  BY <1>2 DEF Fielded
<1>5. MarketTyped'
  BY <1>1, <1>3 DEF MarketInv, MarketTyped
<1>6. PeriodsApart' /\ ClaimsSound' /\ ClaimsInOrder'
  BY <1>1, WaiversStill DEF MarketInv, MarketTyped
<1>7. RostersFit(roster)' /\ Paid(claims, faab)'
  BY <1>1 DEF MarketInv
<1>8. Owned(roster, lineup)'
  BY <1>1, <1>2, <1>4 DEF MarketInv, Owned
<1>9. LocksKept
  <2>1. ASSUME NEW p \in Players, Locked(p, w)
        PROVE  p \in lineup[t][w] <=> p \in ps
    <3>1. p \notin Changed(lineup[t][w], ps)
      BY <1>2, <2>1, MovableIsUnlocked DEF MarketInv
    <3>. QED  BY <3>1 DEF Changed
  <2>. QED  BY <1>1, <1>4, <2>1 DEF LocksKept, Locked
<1>. QED  BY <1>5, <1>6, <1>7, <1>8, <1>9 DEF MarketInv

LEMMA ProposeMarket ==
    ASSUME Ruled, MarketInv, NEW o \in Offers, ProposeTrade(o)
    PROVE  MarketInv' /\ LocksKept
<1>1. UNCHANGED <<now, week, roster, lineup, game, period, claims, window, faab, hold>>
  BY DEF ProposeTrade, waiverVars
<1>2. DOMAIN trade' \subseteq Offers
  BY DEF ProposeTrade, MarketInv, MarketTyped
<1>3. MarketTyped'
  BY <1>1, <1>2 DEF MarketInv, MarketTyped
<1>4. PeriodsApart' /\ ClaimsSound' /\ ClaimsInOrder'
  BY <1>1, WaiversStill DEF MarketInv, MarketTyped
<1>5. RostersFit(roster)' /\ Owned(roster, lineup)' /\ Paid(claims, faab)' /\ LocksKept
  BY <1>1 DEF MarketInv, Owned, LocksKept, Locked
<1>. QED  BY <1>3, <1>4, <1>5 DEF MarketInv

LEMMA CloseMarket ==
    ASSUME Ruled, MarketInv, NEW o \in Offers, NEW s, CloseTrade(o, s)
    PROVE  MarketInv' /\ LocksKept
<1>1. UNCHANGED <<now, week, roster, lineup, game, period, claims, window, faab, hold>>
  BY DEF CloseTrade, waiverVars
<1>2. DOMAIN trade' \subseteq Offers
  BY DEF CloseTrade, MarketInv, MarketTyped
<1>3. MarketTyped'
  BY <1>1, <1>2 DEF MarketInv, MarketTyped
<1>4. PeriodsApart' /\ ClaimsSound' /\ ClaimsInOrder'
  BY <1>1, WaiversStill DEF MarketInv, MarketTyped
<1>5. RostersFit(roster)' /\ Owned(roster, lineup)' /\ Paid(claims, faab)' /\ LocksKept
  BY <1>1 DEF MarketInv, Owned, LocksKept, Locked
<1>. QED  BY <1>3, <1>4, <1>5 DEF MarketInv

\* What a roster comes to when some leave it and others join.
LEMMA PlayersTraded ==
    ASSUME NEW R, IsFiniteSet(R), NEW G \in SUBSET R, NEW N, IsFiniteSet(N), N \cap R = {}
    PROVE  Cardinality((R \ G) \cup N) = Cardinality(R) - Cardinality(G) + Cardinality(N)
<1>1. PICK K : K = R \ G
  OBVIOUS
<1>2. IsFiniteSet(K) /\ Cardinality(K) = Cardinality(R) - Cardinality(R \cap G)
  BY <1>1, FS_Difference
<1>3. R \cap G = G /\ K \cap N = {}
  BY <1>1
<1>4. Cardinality(K \cup N) = Cardinality(K) + Cardinality(N) - Cardinality(K \cap N)
  BY <1>2, FS_Union
<1>5. /\ IsFiniteSet(G) /\ Cardinality(G) \in Nat /\ Cardinality(R) \in Nat
      /\ Cardinality(N) \in Nat /\ Cardinality(K \cap N) = 0
  BY <1>3, FS_Subset, FS_CardinalityType, FS_EmptySet
<1>. QED  BY <1>1, <1>2, <1>3, <1>4, <1>5

LEMMA AcceptMarket ==
    ASSUME Ruled, MarketInv, NEW o \in Offers, AcceptTrade(o)
    PROVE  MarketInv' /\ LocksKept
<1>. DEFINE moved == o.give \cup o.receive
<1>1. UNCHANGED <<now, week, game, period, claims, window, faab, hold>>
  BY DEF AcceptTrade, waiverVars
<1>2. /\ o.from \in Franchises /\ o.to \in Franchises /\ o.from # o.to
      /\ None \notin Franchises /\ RosterSize \in Nat
  BY DEF Ruled
<1>3. /\ o.give \subseteq RosterOf(roster, o.from) /\ o.receive \subseteq RosterOf(roster, o.to)
      /\ Movable(moved, week)
      /\ Cardinality(RosterOf(roster, o.from)) + (Cardinality(o.receive) - Cardinality(o.give)) <= RosterSize
      /\ Cardinality(RosterOf(roster, o.to)) + (Cardinality(o.give) - Cardinality(o.receive)) <= RosterSize
  BY DEF AcceptTrade, BothOwned, Fits
<1>4. /\ roster' = [p \in Players |-> IF p \in o.give THEN o.to
                                      ELSE IF p \in o.receive THEN o.from ELSE roster[p]]
      /\ lineup' = Cleared(lineup, moved)
      /\ DOMAIN trade' \subseteq Offers
  BY DEF AcceptTrade, MarketInv, MarketTyped
<1>5. roster' \in Rosters /\ lineup' \in Fielded
  BY <1>2, <1>4 DEF MarketInv, MarketTyped, Rosters, Fielded, Cleared
<1>6. MarketTyped'
  BY <1>1, <1>4, <1>5 DEF MarketInv, MarketTyped
<1>7. PeriodsApart' /\ ClaimsSound' /\ ClaimsInOrder'
  <2>1. \A p \in Players : roster'[p] = None <=> roster[p] = None
    BY <1>2, <1>3, <1>4 DEF RosterOf
  <2>. QED  BY <1>1, <2>1, WaiversStill DEF MarketInv, MarketTyped
<1>8. RostersFit(roster')
  <2>1. PICK A : A = RosterOf(roster, o.from)
    OBVIOUS
  <2>2. PICK B : B = RosterOf(roster, o.to)
    OBVIOUS
  <2>3. /\ IsFiniteSet(A) /\ IsFiniteSet(B) /\ A \cap B = {}
        /\ Cardinality(A) \in Nat /\ Cardinality(B) \in Nat
        /\ o.give \in SUBSET A /\ o.receive \in SUBSET B
    <3>1. IsFiniteSet(A) /\ Cardinality(A) \in Nat /\ IsFiniteSet(B) /\ Cardinality(B) \in Nat
      BY <2>1, <2>2, RosterFinite
    <3>2. A \cap B = {}
      BY <1>2, <2>1, <2>2 DEF RosterOf
    <3>. QED  BY <1>3, <2>1, <2>2, <3>1, <3>2
  <2>4. /\ IsFiniteSet(o.give) /\ Cardinality(o.give) \in Nat
        /\ IsFiniteSet(o.receive) /\ Cardinality(o.receive) \in Nat
        /\ o.give \cap B = {} /\ o.receive \cap A = {}
    BY <2>3, FS_Subset, FS_CardinalityType
  <2>5. RosterOf(roster', o.from) = (A \ o.give) \cup o.receive
    BY <1>2, <1>3, <1>4, <2>1, <2>3, <2>4 DEF RosterOf
  <2>6. RosterOf(roster', o.to) = (B \ o.receive) \cup o.give
    BY <1>2, <1>3, <1>4, <2>2, <2>3, <2>4 DEF RosterOf
  <2>7. Cardinality((A \ o.give) \cup o.receive) = Cardinality(A) - Cardinality(o.give) + Cardinality(o.receive)
    BY <2>3, <2>4, PlayersTraded
  <2>8. Cardinality((B \ o.receive) \cup o.give) = Cardinality(B) - Cardinality(o.receive) + Cardinality(o.give)
    BY <2>3, <2>4, PlayersTraded
  <2>9. ASSUME NEW t \in Franchises, t # o.from, t # o.to
        PROVE  RosterOf(roster', t) = RosterOf(roster, t)
    BY <1>3, <1>4, <2>9 DEF RosterOf
  <2>10. Cardinality(RosterOf(roster', o.from)) <= RosterSize
    BY <1>2, <1>3, <2>1, <2>3, <2>4, <2>5, <2>7
  <2>11. Cardinality(RosterOf(roster', o.to)) <= RosterSize
    BY <1>2, <1>3, <2>2, <2>3, <2>4, <2>6, <2>8
  <2>12. ASSUME NEW t \in Franchises
         PROVE  Cardinality(RosterOf(roster', t)) <= RosterSize
    BY <2>9, <2>10, <2>11 DEF RostersFit, MarketInv
  <2>. QED  BY <2>12 DEF RostersFit
<1>9. Owned(roster, lineup)'
  <2>1. ASSUME NEW t \in Franchises, NEW w \in Weeks, w >= week, NEW p \in lineup'[t][w]
        PROVE  p \in RosterOf(roster', t)
    <3>1. p \in lineup[t][w] /\ p \notin moved
      BY <1>4, <2>1 DEF Cleared
    <3>2. p \in RosterOf(roster, t)
      BY <2>1, <3>1 DEF MarketInv, Owned
    <3>. QED  BY <1>4, <3>1, <3>2 DEF RosterOf
  <2>. QED  BY <1>1, <2>1 DEF Owned
<1>10. LocksKept
  <2>1. SpotsKept(lineup, lineup')
    BY <1>3, <1>4, ClearedSpots DEF MarketInv
  <2>. QED  BY <1>1, <2>1 DEF LocksKept, SpotsKept, Locked
<1>. QED  BY <1>1, <1>6, <1>7, <1>8, <1>9, <1>10 DEF MarketInv

LEMMA OpenWaiversMarket ==
    ASSUME Ruled, MarketInv, NEW i \in DOMAIN Periods, OpenWaivers(i)
    PROVE  MarketInv' /\ LocksKept
<1>1. UNCHANGED <<now, week, roster, lineup, game, trade, claims, window, faab, hold>>
  BY DEF OpenWaivers
<1>2. /\ i \notin DOMAIN period /\ Periods[i] \in Int /\ now < Periods[i] /\ now \in Int
      /\ OpenPeriods = {}
      /\ ~ \E v \in window : v.closes > now /\ v.opens < Periods[i]
      /\ period' = [x \in DOMAIN period \cup {i} |->
                       IF x = i THEN [closes |-> Periods[i], status |-> "open"] ELSE period[x]]
  BY DEF OpenWaivers, Ruled, MarketInv, MarketTyped
<1>3. /\ DOMAIN period' = DOMAIN period \cup {i}
      /\ period'[i] = [closes |-> Periods[i], status |-> "open"]
      /\ \A j \in DOMAIN period : period'[j] = period[j] /\ j # i
  BY <1>2
<1>4. MarketTyped'
  <2>1. period' \in [DOMAIN period' -> [closes : Int, status : {"open", "resolved"}]]
    BY <1>2 DEF MarketInv, MarketTyped
  <2>. QED  BY <1>1, <1>3, <2>1 DEF MarketInv, MarketTyped
<1>5. OpenPeriods' = {i}
  BY <1>2, <1>3 DEF OpenPeriods
<1>6. PeriodsApart'
  <2>1. \A v \in window : v.closes \in Int /\ v.opens \in Int
    BY DEF Ruled, MarketInv, MarketTyped
  <2>. QED  BY <1>1, <1>2, <1>3, <1>5, <2>1 DEF PeriodsApart
<1>7. ClaimsSound' /\ ClaimsInOrder'
  BY <1>1, <1>3 DEF MarketInv, ClaimsSound, ClaimsInOrder, Before
<1>8. RostersFit(roster)' /\ Owned(roster, lineup)' /\ Paid(claims, faab)' /\ LocksKept
  BY <1>1 DEF MarketInv, Owned, LocksKept, Locked
<1>. QED  BY <1>4, <1>6, <1>7, <1>8 DEF MarketInv

LEMMA OpenFreeAgencyMarket ==
    ASSUME Ruled, MarketInv, NEW v \in Windows, OpenFreeAgency(v)
    PROVE  MarketInv' /\ LocksKept
<1>1. UNCHANGED <<now, week, roster, lineup, game, trade, period, claims, faab, hold>>
  BY DEF OpenFreeAgency
<1>2. MarketTyped'
  BY <1>1 DEF OpenFreeAgency, MarketInv, MarketTyped
<1>3. PeriodsApart'
  BY <1>1 DEF OpenFreeAgency, PeriodsApart, OpenPeriods
<1>4. ClaimsSound' /\ ClaimsInOrder'
  BY <1>1 DEF MarketInv, ClaimsSound, ClaimsInOrder, Before
<1>5. RostersFit(roster)' /\ Owned(roster, lineup)' /\ Paid(claims, faab)' /\ LocksKept
  BY <1>1 DEF MarketInv, Owned, LocksKept, Locked
<1>. QED  BY <1>2, <1>3, <1>4, <1>5 DEF MarketInv

LEMMA SubmitMarket ==
    ASSUME Ruled, MarketInv, NEW i \in DOMAIN Periods, NEW c \in ClaimForms, SubmitClaim(i, c)
    PROVE  MarketInv' /\ LocksKept
<1>. DEFINE row == [form |-> c, period |-> i, status |-> "pending", reason |-> None]
            n == Len(claims) + 1
<1>1. UNCHANGED <<now, week, roster, lineup, game, trade, period, window, faab, hold>>
  BY DEF SubmitClaim
<1>2. /\ i \in DOMAIN period /\ period[i].status = "open" /\ now < period[i].closes
      /\ roster[c.add] = None
      /\ Dropped(c) \subseteq RosterOf(roster, c.team)
      /\ now \in Int /\ period[i].closes \in Int
      /\ claims' = Append(claims, row) /\ claims \in Seq(Claims)
  BY DEF SubmitClaim, OpenPeriods, MarketInv, MarketTyped
<1>3. c \in Forms /\ c.team \in Franchises /\ c.add \in Players /\ c.drop \in Players \cup {None}
  <2>1. c \in Forms
    BY DEF Ruled
  <2>. QED  BY <2>1 DEF Forms
<1>4. row \in Claims
  BY <1>3 DEF Claims, Reasons
<1>5. /\ claims' \in Seq(Claims) /\ DOMAIN claims' = DOMAIN claims \cup {n} /\ n \notin DOMAIN claims
      /\ claims'[n] = row /\ \A k \in DOMAIN claims : claims'[k] = claims[k]
  BY <1>2, <1>4
<1>6. c.drop # None => roster[c.drop] # None
  BY <1>2, <1>3 DEF Dropped, RosterOf, Ruled
<1>7. row.form = c /\ row.period = i /\ row.status = "pending" /\ row.reason = None
  OBVIOUS
<1>. HIDE DEF row, n
<1>8. MarketTyped'
  BY <1>1, <1>5 DEF MarketInv, MarketTyped
<1>9. PeriodsApart'
  BY <1>1 DEF MarketInv, PeriodsApart, OpenPeriods
<1>10. ASSUME NEW k \in DOMAIN claims, claims[k].status = "pending"
       PROVE  /\ claims[k].period = i /\ claims[k].form.add # c.drop /\ c.add # claims[k].form.drop
  <2>1. claims[k].period \in OpenPeriods /\ i \in OpenPeriods
    BY <1>2, <1>10 DEF MarketInv, ClaimsSound, OpenPeriods
  <2>2. claims[k].period = i
    BY <2>1 DEF MarketInv, PeriodsApart
  <2>3. /\ roster[claims[k].form.add] = None
        /\ claims[k].form.drop # None => roster[claims[k].form.drop] # None
    BY <1>2, <1>10, <2>2 DEF MarketInv, ClaimsSound
  <2>4. claims[k].form.add \in Players /\ None \notin Players
    BY ClaimTyped DEF Forms, Ruled, MarketInv
  <2>. QED  BY <1>2, <1>3, <1>6, <2>2, <2>3, <2>4
<1>11. ClaimsSound'
  <2>1. ASSUME NEW k \in DOMAIN claims'
        PROVE  /\ claims'[k].period \in DOMAIN period
               /\ claims'[k].status = "pending" => period[claims'[k].period].status = "open"
               /\ period[claims'[k].period].status = "open" => claims'[k].status \in {"pending", "cancelled"}
               /\ claims'[k].status # "lost" => claims'[k].reason = None
               /\ claims'[k].status = "pending" /\ now < period[claims'[k].period].closes =>
                     /\ roster[claims'[k].form.add] = None
                     /\ claims'[k].form.drop # None => roster[claims'[k].form.drop] # None
    <3>1. CASE k \in DOMAIN claims
      BY <1>5, <3>1 DEF MarketInv, ClaimsSound
    <3>2. CASE k = n
      BY <1>2, <1>5, <1>6, <1>7, <3>2
    <3>. QED  BY <1>5, <3>1, <3>2
  <2>2. ASSUME NEW k \in DOMAIN claims', NEW l \in DOMAIN claims',
               claims'[k].status = "pending", claims'[l].status = "pending"
        PROVE  claims'[k].form.add # claims'[l].form.drop
    <3>1. c.add # c.drop
      BY <1>2, <1>3, <1>6 DEF Ruled
    <3>2. CASE k \in DOMAIN claims /\ l \in DOMAIN claims
      BY <1>5, <2>2, <3>2 DEF MarketInv, ClaimsSound
    <3>3. CASE k = n /\ l \in DOMAIN claims
      BY <1>5, <1>7, <1>10, <2>2, <3>3
    <3>4. CASE k \in DOMAIN claims /\ l = n
      BY <1>5, <1>7, <1>10, <2>2, <3>4
    <3>5. CASE k = n /\ l = n
      BY <1>5, <1>7, <3>1, <3>5
    <3>. QED  BY <1>5, <3>2, <3>3, <3>4, <3>5
  <2>. QED  BY <1>1, <2>1, <2>2 DEF ClaimsSound
<1>12. ClaimsInOrder'
  <2>1. ASSUME NEW k \in DOMAIN claims', NEW l \in DOMAIN claims',
               claims'[k].period = claims'[l].period, claims'[l].status = "won"
        PROVE  k \in DOMAIN claims /\ l \in DOMAIN claims
    <3>1. l \in DOMAIN claims
      BY <1>5, <1>7, <2>1
    <3>2. k # n
      <4>1. claims[l].status = "won" => period[claims[l].period].status # "open"
        BY <3>1 DEF MarketInv, ClaimsSound
      <4>. QED  BY <1>2, <1>5, <1>7, <2>1, <3>1, <4>1
    <3>. QED  BY <1>5, <2>1, <3>1, <3>2
  <2>2. \A k, l \in DOMAIN claims : Before(k, l)' <=> Before(k, l)
    BY <1>5 DEF Before
  <2>. QED  BY <1>5, <2>1, <2>2 DEF MarketInv, ClaimsInOrder
<1>13. Paid(claims, faab)'
  <2>1. \A t : BidsIn(claims', t) = BidsIn(claims, t)
    <3>1. ASSUME NEW t
          PROVE  BidsIn(claims', t) = BidsIn(claims, t)
      <4>1. {j \in DOMAIN claims' : claims'[j].status = "won" /\ claims'[j].form.team = t}
                = {j \in DOMAIN claims : claims[j].status = "won" /\ claims[j].form.team = t}
        BY <1>5, <1>7
      <4>. QED  BY <1>5, <4>1 DEF BidsIn
    <3>. QED  BY <3>1
  <2>. QED  BY <1>1, <2>1 DEF MarketInv, Paid
<1>14. RostersFit(roster)' /\ Owned(roster, lineup)' /\ LocksKept
  BY <1>1 DEF MarketInv, Owned, LocksKept, Locked
<1>. QED  BY <1>8, <1>9, <1>11, <1>12, <1>13, <1>14 DEF MarketInv

LEMMA CancelMarket ==
    ASSUME Ruled, MarketInv, NEW k \in DOMAIN claims, CancelClaim(k)
    PROVE  MarketInv' /\ LocksKept
<1>. DEFINE row == [claims[k] EXCEPT !.status = "cancelled"]
<1>1. UNCHANGED <<now, week, roster, lineup, game, trade, period, window, faab, hold>>
  BY DEF CancelClaim
<1>2. /\ claims[k].status = "pending" /\ period[claims[k].period].status = "open"
      /\ claims' = [claims EXCEPT ![k] = row] /\ claims \in Seq(Claims)
  BY DEF CancelClaim, MarketInv, MarketTyped
<1>3. claims[k] \in Claims
  BY <1>2
<1>4. /\ row \in Claims /\ row.form = claims[k].form /\ row.period = claims[k].period
      /\ row.status = "cancelled" /\ row.reason = claims[k].reason
  BY <1>3 DEF Claims
<1>5. DOMAIN claims' = DOMAIN claims /\ claims' \in Seq(Claims)
  BY <1>2, <1>4, ExceptSeq
<1>6. claims'[k] = row /\ \A l \in DOMAIN claims \ {k} : claims'[l] = claims[l]
  BY <1>2
<1>. HIDE DEF row
<1>7. \A l \in DOMAIN claims : /\ claims'[l].form = claims[l].form /\ claims'[l].period = claims[l].period
                               /\ claims'[l].reason = claims[l].reason
                               /\ claims'[l].status = IF l = k THEN "cancelled" ELSE claims[l].status
  BY <1>4, <1>6
<1>8. MarketTyped'
  BY <1>1, <1>5 DEF MarketInv, MarketTyped
<1>9. PeriodsApart'
  BY <1>1 DEF MarketInv, PeriodsApart, OpenPeriods
<1>10. ClaimsSound'
  <2>1. claims[k].reason = None
    BY <1>2 DEF MarketInv, ClaimsSound
  <2>. QED  BY <1>1, <1>2, <1>5, <1>7, <2>1 DEF MarketInv, ClaimsSound
<1>11. ClaimsInOrder'
  <2>1. \A j, l \in DOMAIN claims : Before(j, l)' <=> Before(j, l)
    BY <1>7 DEF Before
  <2>2. claims[k].reason = None
    BY <1>2 DEF MarketInv, ClaimsSound
  <2>. QED  BY <1>2, <1>5, <1>7, <2>1, <2>2 DEF MarketInv, ClaimsInOrder, None
<1>12. Paid(claims, faab)'
  <2>1. ASSUME NEW t
        PROVE  BidsIn(claims', t) = BidsIn(claims, t)
    <3>1. {j \in DOMAIN claims' : claims'[j].status = "won" /\ claims'[j].form.team = t}
              = {j \in DOMAIN claims : claims[j].status = "won" /\ claims[j].form.team = t}
      BY <1>2, <1>5, <1>7
    <3>. QED  BY <1>5, <1>7, <3>1 DEF BidsIn
  <2>. QED  BY <1>1, <2>1 DEF MarketInv, Paid
<1>13. RostersFit(roster)' /\ Owned(roster, lineup)' /\ LocksKept
  BY <1>1 DEF MarketInv, Owned, LocksKept, Locked
<1>. QED  BY <1>8, <1>9, <1>10, <1>11, <1>12, <1>13 DEF MarketInv

LEMMA AddFreeAgentMarket ==
    ASSUME Ruled, MarketInv, NEW v \in Windows, NEW t \in Franchises, NEW add \in Players,
           NEW drop \in Players \cup {None}, AddFreeAgent(v, t, add, drop)
    PROVE  MarketInv' /\ LocksKept
<1>. DEFINE out == IF drop = None THEN {} ELSE {drop}
<1>1. UNCHANGED <<now, week, game, trade, period, claims, window, faab>>
  BY DEF AddFreeAgent
<1>2. /\ v \in window /\ v.opens <= now /\ now < v.closes
      /\ roster' = Swapped(roster, add, drop, t) /\ lineup' = Cleared(lineup, out)
      /\ hold' = IF drop = None THEN hold ELSE Held(hold, drop)
      /\ Movable({add} \cup out, week)
      /\ roster \in Rosters /\ lineup \in Fielded /\ hold \in [Players -> Int] /\ now \in Int
  BY DEF AddFreeAgent, MarketInv, MarketTyped
<1>3. Exchange(roster, add, drop, t)
  BY DEF AddFreeAgent, Exchange, MarketInv, MarketTyped
<1>4. roster' \in Rosters /\ RostersFit(roster')
  BY <1>2, <1>3, ExchangeFits
<1>5. lineup' \in Fielded /\ Owned(roster', lineup')
  BY <1>2, <1>3, ExchangeOwned DEF MarketInv
<1>6. hold' \in [Players -> Int]
  BY <1>2 DEF Held, Ruled
<1>7. MarketTyped'
  BY <1>1, <1>4, <1>5, <1>6 DEF MarketInv, MarketTyped
<1>8. PeriodsApart'
  BY <1>1 DEF MarketInv, PeriodsApart, OpenPeriods
<1>9. \A i \in OpenPeriods : ~(now < period[i].closes)
  <2>1. \A i \in OpenPeriods : period[i].closes \in Int
    BY DEF OpenPeriods, MarketInv, MarketTyped
  <2>2. v.closes \in Int /\ v.opens \in Int
    BY DEF Ruled
  <2>. QED  BY <1>2, <2>1, <2>2 DEF MarketInv, PeriodsApart
<1>10. ClaimsSound'
  <2>1. \A k \in DOMAIN claims : claims[k].status = "pending" => ~(now < period[claims[k].period].closes)
    BY <1>9 DEF OpenPeriods, MarketInv, ClaimsSound
  <2>. QED  BY <1>1, <2>1 DEF MarketInv, ClaimsSound
<1>11. ClaimsInOrder' /\ Paid(claims, faab)'
  BY <1>1 DEF MarketInv, ClaimsInOrder, Before
<1>12. Owned(roster, lineup)'
  BY <1>1, <1>5 DEF Owned
<1>13. LocksKept
  <2>1. Movable(out, week)
    BY <1>2 DEF Movable
  <2>2. SpotsKept(lineup, lineup')
    BY <1>2, <2>1, ClearedSpots DEF MarketInv
  <2>. QED  BY <1>1, <2>2 DEF LocksKept, SpotsKept, Locked
<1>. QED  BY <1>4, <1>7, <1>8, <1>10, <1>11, <1>12, <1>13 DEF MarketInv

LEMMA ResolveMarket ==
    ASSUME Ruled, MarketInv, NEW i \in DOMAIN Periods, ResolveWaivers(i)
    PROVE  MarketInv' /\ LocksKept
<1>. DEFINE mine == Pending(i)
<1>1. UNCHANGED <<now, week, game, trade, window>>
  BY DEF ResolveWaivers
<1>2. PICK x : x = Settled(mine)
  OBVIOUS
<1>3. /\ claims' = x.claims /\ roster' = x.roster /\ lineup' = x.lineup
      /\ hold' = x.hold /\ faab' = x.faab
      /\ period' = [period EXCEPT ![i].status = "resolved"]
      /\ i \in OpenPeriods
  BY <1>2 DEF ResolveWaivers
<1>4. Together(mine)
  BY DEF Together, Pending, MarketInv, ClaimsSound
<1>. HIDE DEF mine
<1>5. Settling(x, mine, {})
  BY <1>2, <1>4, Settlement DEF MarketInv
<1>6. x \in Leagues /\ RostersFit(roster') /\ Owned(roster', lineup') /\ Paid(claims', faab')
  BY <1>3, <1>5 DEF Settling
<1>7. /\ i \in DOMAIN period /\ period[i].status = "open" /\ DOMAIN period' = DOMAIN period
      /\ period'[i].closes = period[i].closes /\ period'[i].status = "resolved"
      /\ \A j \in DOMAIN period : j # i => period'[j] = period[j]
      /\ period' \in [DOMAIN period -> [closes : Int, status : {"open", "resolved"}]]
  BY <1>3 DEF OpenPeriods, MarketInv, MarketTyped
<1>8. MarketTyped'
  <2>1. /\ claims' \in Seq(Claims) /\ roster' \in Rosters /\ lineup' \in Fielded
        /\ hold' \in [Players -> Int] /\ faab' \in [Franchises -> Nat]
    BY <1>3, <1>6 DEF Leagues
  <2>. QED  BY <1>1, <1>7, <2>1 DEF MarketInv, MarketTyped
<1>9. PeriodsApart'
  BY <1>1, <1>7 DEF MarketInv, PeriodsApart, OpenPeriods
\* What has become of the claims.
<1>10. /\ mine \subseteq DOMAIN claims /\ DOMAIN claims' = DOMAIN claims
       /\ \A k \in DOMAIN claims : claims'[k].form = claims[k].form /\ claims'[k].period = claims[k].period
       /\ \A k \in DOMAIN claims \ mine : claims'[k] = claims[k]
       /\ \A k \in mine : /\ claims'[k].status \in {"won", "lost"}
                          /\ claims'[k].status = "won" => claims'[k].reason = None
  BY <1>3, <1>4, <1>5 DEF Settling, ClaimsKept, Together
<1>11. \A k \in DOMAIN claims : k \in mine <=> claims[k].period = i /\ claims[k].status = "pending"
  BY DEF mine, Pending
<1>12. \A k \in DOMAIN claims : claims'[k].status # "pending"
  <2>1. ASSUME NEW k \in DOMAIN claims, claims[k].status = "pending"
        PROVE  k \in mine
    <3>1. claims[k].period \in OpenPeriods
      BY <2>1 DEF OpenPeriods, MarketInv, ClaimsSound
    <3>2. claims[k].period = i
      BY <1>3, <3>1 DEF MarketInv, PeriodsApart
    <3>. QED  BY <1>11, <2>1, <3>2
  <2>. QED  BY <1>10, <2>1
<1>13. ClaimsSound'
  <2>1. ASSUME NEW k \in DOMAIN claims
        PROVE  /\ claims'[k].period \in DOMAIN period'
               /\ period'[claims'[k].period].status = "open" => claims'[k].status \in {"pending", "cancelled"}
               /\ claims'[k].status # "lost" => claims'[k].reason = None
    <3>1. CASE k \in mine
      BY <1>7, <1>10, <1>11, <3>1
    <3>2. CASE k \notin mine
      BY <1>7, <1>10, <3>2 DEF MarketInv, ClaimsSound
    <3>. QED  BY <3>1, <3>2
  <2>. QED  BY <1>10, <1>12, <2>1 DEF ClaimsSound
<1>14. ClaimsInOrder'
  <2>1. \A k, l \in DOMAIN claims : Before(k, l)' <=> Before(k, l)
    BY <1>10 DEF Before
  <2>2. ASSUME NEW k \in DOMAIN claims, NEW l \in DOMAIN claims, claims[k].period = claims[l].period,
               claims[k].form.add = claims[l].form.add, Before(k, l), claims'[l].status = "won"
        PROVE  claims'[k].status \in {"cancelled", "lost"} /\ claims'[k].reason # "unavailable"
    <3>1. CASE k \in mine /\ l \in mine
      BY <1>3, <1>5, <2>2, <3>1 DEF Settling, SettledInOrder
    <3>2. CASE k \notin mine /\ l \in mine
      <4>1. claims[k].status = "cancelled" /\ claims[k].reason = None
        <5>1. claims[k].period = i /\ claims[k].status # "pending"
          BY <1>11, <2>2, <3>2
        <5>2. claims[k].status \in {"pending", "cancelled"}
          BY <1>7, <5>1 DEF MarketInv, ClaimsSound
        <5>. QED  BY <5>1, <5>2 DEF MarketInv, ClaimsSound
      <4>. QED  BY <1>10, <3>2, <4>1 DEF None
    <3>3. CASE l \notin mine
      <4>1. claims[l].status = "won"
        BY <1>10, <2>2, <3>3
      <4>2. claims[l].period # i
        BY <1>7, <4>1 DEF MarketInv, ClaimsSound
      <4>3. k \notin mine
        BY <1>11, <2>2, <4>2
      <4>. QED  BY <1>10, <2>2, <4>1, <4>3 DEF MarketInv, ClaimsInOrder
    <3>. QED  BY <3>1, <3>2, <3>3
  <2>. QED  BY <1>10, <2>1, <2>2 DEF ClaimsInOrder
<1>15. LocksKept
  <2>1. SpotsKept(lineup, lineup')
    BY <1>3, <1>5 DEF Settling
  <2>. QED  BY <1>1, <2>1 DEF LocksKept, SpotsKept, Locked
<1>16. RostersFit(roster)' /\ Owned(roster, lineup)' /\ Paid(claims, faab)'
  BY <1>1, <1>6 DEF Owned
<1>. QED  BY <1>8, <1>9, <1>13, <1>14, <1>15, <1>16 DEF MarketInv

-----------------------------------------------------------------------------
(* The theorems.                                                           *)

LEMMA NextMarket ==
    ASSUME Ruled, MarketInv, [MarketNext]_marketVars
    PROVE  MarketInv' /\ LocksKept
<1>1. CASE TimePasses
  BY <1>1, TimeMarket
<1>2. CASE \E g \in Feed : ImportSchedule(g)
  BY <1>2, ImportMarket
<1>3. CASE AdvanceWeek
  BY <1>3, AdvanceMarket
<1>4. CASE \E t \in Franchises, w \in Weeks, ps \in Lineups : SetLineup(t, w, ps)
  BY <1>4, LineupMarket
<1>5. CASE \E o \in Offers :
              ProposeTrade(o) \/ AcceptTrade(o) \/ \E s \in {"cancelled", "rejected"} : CloseTrade(o, s)
  BY <1>5, ProposeMarket, AcceptMarket, CloseMarket
<1>6. CASE \E i \in DOMAIN Periods :
              \/ OpenWaivers(i) \/ ResolveWaivers(i)
              \/ \E c \in ClaimForms : SubmitClaim(i, c)
  BY <1>6, OpenWaiversMarket, ResolveMarket, SubmitMarket
<1>7. CASE \E k \in DOMAIN claims : CancelClaim(k)
  BY <1>7, CancelMarket
<1>8. CASE \E v \in Windows :
              \/ OpenFreeAgency(v)
              \/ \E t \in Franchises, add \in Players, drop \in Players \cup {None} :
                    AddFreeAgent(v, t, add, drop)
  BY <1>8, OpenFreeAgencyMarket, AddFreeAgentMarket
<1>9. CASE UNCHANGED marketVars
  <2>1. /\ UNCHANGED <<now, week, roster, lineup, game, trade>>
        /\ UNCHANGED <<period, claims, window, faab, hold>>
    BY <1>9 DEF marketVars
  <2>2. MarketTyped'
    BY <2>1 DEF MarketInv, MarketTyped
  <2>3. PeriodsApart' /\ ClaimsSound' /\ ClaimsInOrder'
    BY <2>1, WaiversStill DEF MarketInv, MarketTyped
  <2>4. RostersFit(roster)' /\ Owned(roster, lineup)' /\ Paid(claims, faab)' /\ LocksKept
    BY <2>1 DEF MarketInv, Owned, LocksKept, Locked
  <2>. QED  BY <2>2, <2>3, <2>4 DEF MarketInv
<1>. QED  BY <1>1, <1>2, <1>3, <1>4, <1>5, <1>6, <1>7, <1>8, <1>9 DEF MarketNext

\* The invariant holds throughout the season: the budgets and rosters in their bounds, the
\* open period alone on its time, and claims that none of the others stands in the way of.
THEOREM MarketInductive ==
    ASSUME Ruled
    PROVE  MarketSpec => []MarketInv
<1>1. MarketInit => MarketInv
  BY InitMarket
<1>2. MarketInv /\ [MarketNext]_marketVars => MarketInv'
  BY NextMarket
<1>. QED  BY <1>1, <1>2, PTL DEF MarketSpec

\* Every spot of a lineup of this week or a later one is held by a player of that franchise,
\* whether he came by trade, claim or first-come add (clearFutureLineups).
THEOREM LineupsStayOwned ==
    ASSUME Ruled
    PROVE  MarketSpec => []LineupsOwned
<1>1. MarketInv => LineupsOwned
  BY DEF MarketInv, Owned, LineupsOwned
<1>. QED  BY <1>1, MarketInductive, PTL

\* No roster exceeds the constitution's size and no franchise spends more than its budget:
\* what it has left is the budget less the bids it won, whatever the order of a settlement.
THEOREM BooksAndRostersHold ==
    ASSUME Ruled
    PROVE  MarketSpec => []BooksAndRosters
<1>1. MarketInv => BooksAndRosters
  <2>. SUFFICES ASSUME MarketInv
                PROVE  BooksAndRosters
    OBVIOUS
  <2>1. \A t \in Franchises : faab[t] = Budget - Total(Bids(t)) /\ faab[t] \in Nat
    BY DEF MarketInv, MarketTyped, Paid, BidsIn, Bids
  <2>. QED  BY <2>1 DEF MarketInv, RostersFit, BooksAndRosters
<1>. QED  BY <1>1, MarketInductive, PTL

\* A waiver period is settled in the published order (compareClaims): where two claims want
\* one player, the later gets him only if the earlier was withdrawn or failed for a reason of
\* its own, never because he was taken.
THEOREM ClaimsSettledInOrder ==
    ASSUME Ruled
    PROVE  MarketSpec => []ClaimsInOrder
<1>1. MarketInv => ClaimsInOrder
  BY DEF MarketInv
<1>. QED  BY <1>1, MarketInductive, PTL

\* Once his game has begun a player neither enters nor leaves a lineup of that week, and no
\* correction of the feed unlocks him.
THEOREM LockedSpotsHold ==
    ASSUME Ruled
    PROVE  MarketSpec => LockedSpotsStay
<1>1. MarketInv /\ [MarketNext]_marketVars =>
          [\A t \in Franchises, w \in Weeks, p \in Players :
              w <= week /\ Locked(p, w) => /\ p \in lineup[t][w] <=> p \in lineup'[t][w]
                                           /\ Locked(p, w)']_marketVars
  BY NextMarket DEF LocksKept
<1>. QED  BY <1>1, MarketInductive, PTL DEF MarketSpec, LockedSpotsStay
=============================================================================
