---------------------------- MODULE RehearsalProofs ----------------------------
(***************************************************************************)
(* Proofs about the football outbox, the rehearsals around it and the      *)
(* decisions brought back from them, for any owners, turns, dispatchers,   *)
(* hosts, epochs, meetings and numbers of faults.                          *)
(***************************************************************************)
EXTENDS MflReturn, FiniteSetTheorems, TLAPS

-----------------------------------------------------------------------------
(* What the constants are.                                                 *)

\* A league on MFL is the production league or a disposable one.
Leagues == {"none"} \cup MflLeagues \cup {b[2] : b \in Selectable}
Hosts == {h \in [kind : {"none", "mfl", "custom"}, league : Leagues, version : Nat] :
             h.kind = "mfl" => h.league \in MflLeagues}

\* Epochs are numbered from 1, and the commissioner selects no disposable league by hand.
Arranged ==
    /\ OwnerOf \in [Jobs -> Owners]
    /\ Epochs \subseteq Nat \ {0}
    /\ \A b \in Selectable :
          /\ b \in {"mfl", "custom"} \X Leagues /\ b[2] # "trial"
          /\ b[1] = "mfl" => b[2] = "prod"

-----------------------------------------------------------------------------
(* The shape of the tables.                                                *)

Rows == [status : {"none", "pending", "running", "held", "dead", "delivered"},
         attempts : Nat, fence : Nat, live : BOOLEAN, host : Hosts, holder : {0, 1}]
Turns == [status : {"none", "pending", "running", "done", "dead", "cancelled"},
          epoch : Epochs \cup {0}]
Writings == [state : {"none", "prepared", "submitted", "unknown", "verified", "rejected"},
             accepted : BOOLEAN, rejected : BOOLEAN]
Trials == [status : {"none", "arming", "armed", "stopped", "restoring", "restored"},
           original : Hosts, trial : Hosts,
           pins : SUBSET (Owners \X {0, 1}), born : SUBSET (Scopes \X Jobs)]
Bindings == [key : (Nat \X {"manual", "arm", "restore"}), from : Hosts, to : Hosts]
\* The owners an adapter can be built for: the first ones, unless the operator writes the
\* MFL deployment file anew.
Nameable == IF Reissued THEN Holdings ELSE {FirstHolders}
Places == {"idle", "claimed", "checked", "loaded", "reading", "returned", "failing"} \cup InWrite
Outcomes == {"none", "accepted", "refused", "lost", "verified", "rejected", "unknown",
             "held", "dead", "retry"}
Dispatchers == [at : Places, row : Jobs \cup {0}, fence : Nat, host : Hosts, holders : Nameable,
                outcome : Outcomes, repair : BOOLEAN]

LeagueTyped ==
    /\ host \in Hosts /\ switches \in Seq(Bindings) /\ epochs \in [Epochs -> Trials]
    /\ jobs \in [Jobs -> Turns] /\ rows \in [Jobs -> Rows]
    /\ holder \in [Owners -> {0, 1}] /\ holder \in Holdings

OutboxTyped ==
    /\ journal \in [Scopes \X Jobs -> Writings]
    /\ \A m \in Scopes \X Jobs : m[1][2] \notin Nameable => journal[m] = NoWrite
    /\ wire \subseteq Hosts \X Jobs
    /\ acted \in [Jobs -> Seq(Hosts)]
    /\ disp \in [Workers -> Dispatchers]

TypeOK == LeagueTyped /\ OutboxTyped

-----------------------------------------------------------------------------
(* Writes to MFL, one at a time.                                           *)

\* What the journal says of a write while its dispatcher is still about it.
StateAt(at) == CASE at = "prepared" -> "prepared"
                 [] at \in {"submitted", "answered"} -> "submitted"
                 [] OTHER -> "unknown"

\* While the outcome of a write is open, no other write of its scope concerning one of its
\* franchises is open.
DoubtInScope ==
    \A m, n \in OpenWrites : m # n /\ m[1] = n[1] => Affects[m[2]] \cap Affects[n[2]] = {}

\* The scope of an MFL league under its first owners.
Home(league) == <<league, FirstHolders>>

\* How a call may have ended.
OutcomesAt(at) == CASE at = "failing" -> {"held", "dead", "retry"}
                    [] at = "returned" -> {"verified", "rejected", "unknown"}
                    [] OTHER -> Outcomes

WriterOf(w) ==
    /\ disp[w].at # "idle" => disp[w].row \in Jobs
    /\ disp[w].outcome \in OutcomesAt(disp[w].at)
    /\ disp[w].at \in {"loaded", "reading"} \cup InWrite =>
          disp[w].host.kind = "mfl" /\ Native(disp[w].row)
    /\ disp[w].at \in InWrite => journal[Entry(w)].state = StateAt(disp[w].at)

\* No other dispatcher writes in the scope of w.
Alone(w) == \A v \in Workers \ {w} : disp[v].at \in InWrite => Scope(v) # Scope(w)

OneWriter == \A w \in Workers : WriterOf(w) /\ (disp[w].at \in InWrite => Alone(w))

WriteInv == TypeOK /\ OneWriter /\ DoubtInScope

-----------------------------------------------------------------------------
(* Claims and effects.                                                     *)

\* No effect, and none on its way.
Quiet(j) == acted[j] = <<>> /\ \A m \in wire : m[2] # j

\* The receipt of a turn's write: on the host its row is pinned to.
Receipt(j) == journal[<<Home(rows[j].host.league), j>>]

ClaimOf(w) ==
    LET j == disp[w].row
    IN  disp[w].at # "idle" =>
          /\ rows[j].status # "none" /\ disp[w].fence <= rows[j].fence
          /\ disp[w].repair \/ rows[j].attempts > 0
          /\ disp[w].at \in {"checked", "loaded"} => Holds(w)
          /\ disp[w].at = "checked" => host = rows[j].host
          /\ disp[w].at \in {"loaded"} \cup InWrite => ~disp[w].repair
          /\ disp[w].at \in {"loaded", "reading"} \cup InWrite => disp[w].host = rows[j].host
          /\ disp[w].at = "submitted" => Quiet(j)
          /\ disp[w].at \in {"answered", "noted"} /\ disp[w].outcome = "refused" => Quiet(j)
          /\ disp[w].at \in {"returned", "failing"} =>
                /\ disp[w].outcome = "rejected" => Native(j) /\ Receipt(j).state = "rejected"
                /\ disp[w].outcome \in {"dead", "retry"} => ~Native(j)

OwnFence ==
    \A v, w \in Workers :
        /\ disp[v].at # "idle" /\ disp[w].at # "idle" /\ v # w
        /\ disp[v].row = disp[w].row
        => disp[v].fence # disp[w].fence

DeedOf(j) ==
    /\ acted[j] \in {<<>>, <<rows[j].host>>}
    /\ \A m \in wire : m[2] = j => m[1] = rows[j].host /\ acted[j] = <<>> /\ Native(j)
    /\ ~Quiet(j) /\ Native(j) =>
          Receipt(j).state \in {"submitted", "unknown", "verified"} /\ ~Receipt(j).rejected
    /\ \A l \in MflLeagues :
          /\ journal[<<Home(l), j>>].state # "none" =>
                Native(j) /\ l = rows[j].host.league /\ rows[j].attempts > 0
          /\ journal[<<Home(l), j>>].state = "verified" => acted[j] # <<>>
          /\ journal[<<Home(l), j>>].state \in {"prepared", "submitted"} => ~journal[<<Home(l), j>>].rejected

RowOf(j) ==
    /\ Native(j) /\ rows[j].status # "none" => rows[j].host.kind = "mfl"
    /\ rows[j].status = "none" => rows[j] = NoRow /\ jobs[j].status # "done" /\ Quiet(j)
    /\ rows[j].status # "none" => jobs[j].status = "done"
    /\ rows[j].status = "delivered" => acted[j] # <<>>
    /\ rows[j].status = "dead" /\ Native(j) /\ j \notin retired =>
          Receipt(j).state = "rejected" \/ rows[j].attempts = 0

DeedInv == /\ \A w \in Workers : ClaimOf(w)
           /\ OwnFence
           /\ \A j \in Jobs : DeedOf(j) /\ RowOf(j)

-----------------------------------------------------------------------------
(* Epochs and hosts.                                                       *)

MeantOf(j) ==
    LET e == jobs[j].epoch
    IN  /\ jobs[j].status = "none" => e = 0
        /\ e # 0 => epochs[e].status \notin {"none", "arming"}
        /\ rows[j].status # "none" =>
              IF e = 0 THEN Native(j) => rows[j].host.league # "trial"
              ELSE rows[j].host = epochs[e].trial

HostMeant == /\ Open = {} => host.league # "trial"
             /\ \A i \in DOMAIN switches : switches[i].key[2] = "restore" => switches[i].to.league = "prod"

MeantInv == HostMeant /\ \A j \in Jobs : MeantOf(j)

\* The two bindings of an epoch, by their receipts.
StepsOf(e) ==
    /\ epochs[e].status = "none" => Receipts(<<e, "arm">>) = {}
    /\ Receipts(<<e, "restore">>) # {} => epochs[e].status \in {"restoring", "restored"}
    /\ epochs[e].status = "restored" => Receipts(<<e, "restore">>) # {}
    /\ epochs[e].status # "none" => epochs[e].original.league = "prod"
    /\ \A i \in Receipts(<<e, "arm">>) : switches[i].to.version = epochs[e].original.version + 1
    /\ epochs[e].status \notin {"none", "arming"} =>
          epochs[e].trial.version = epochs[e].original.version + 1
    /\ \A i \in Receipts(<<e, "restore">>) : switches[i].to.version = epochs[e].trial.version + 1

CleanOf(e) ==
    /\ \A m \in epochs[e].born : jobs[m[2]].status = "done" /\ jobs[m[2]].epoch # e
    /\ epochs[e].status \in {"stopped", "restoring", "restored"} =>
          \A j \in TurnsOf(e) : jobs[j].status \notin {"pending", "running"}
    /\ epochs[e].status \in {"restoring", "restored"} =>
          Terminal(e) /\ \A m \in OpenWrites : m[2] \in TurnsOf(e) => m[2] \in retired

CleanInv == \A e \in Epochs : StepsOf(e) /\ CleanOf(e)

IInv == WriteInv /\ DeedInv /\ MeantInv /\ CleanInv
-----------------------------------------------------------------------------
(* Steps of a dispatcher.                                                  *)

\* A dispatcher that is none, for steps that none of them takes.
Nobody == CHOOSE n : n \notin Workers

LEMMA NobodyElse == Nobody \notin Workers
BY NoSetContainsEverything DEF Nobody

\* Dispatcher w alone moves, and is then at this place with this outcome.
Moves(w, at, outcome) ==
    /\ disp' \in [Workers -> Dispatchers]
    /\ \A v \in Workers \ {w} : disp'[v] = disp[v]
    /\ disp'[w].at = at /\ disp'[w].outcome = outcome
    /\ disp'[w].row = disp[w].row /\ disp'[w].fence = disp[w].fence
    /\ disp'[w].host = disp[w].host /\ disp'[w].holders = disp[w].holders
    /\ disp'[w].repair = disp[w].repair

\* Dispatcher w alone moves, and is then idle.
Leaves(w) ==
    /\ disp' \in [Workers -> Dispatchers]
    /\ \A v \in Workers \ {w} : disp'[v] = disp[v]
    /\ disp'[w].at = "idle" /\ disp'[w].row = 0

LEMMA GoesMoves ==
    ASSUME OutboxTyped, NEW w \in Workers, NEW at \in Places, Goes(w, at)
    PROVE  Moves(w, at, disp[w].outcome)
BY DEF OutboxTyped, Goes, Moves, Dispatchers

LEMMA Goes2Moves ==
    ASSUME OutboxTyped, NEW w \in Workers, NEW at \in Places, NEW outcome \in Outcomes,
           Goes2(w, at, outcome)
    PROVE  Moves(w, at, outcome)
BY DEF OutboxTyped, Goes2, Moves, Dispatchers

LEMMA NoHostTyped == NoHost \in Hosts
<1>1. NoHost \in [kind : {"none", "mfl", "custom"}, league : Leagues, version : Nat]
  BY DEF NoHost, Leagues
<1>2. NoHost.kind # "mfl"
  BY DEF NoHost
<1>. QED  BY <1>1, <1>2 DEF Hosts

LEMMA FirstKnown == FirstHolders \in Nameable /\ FirstHolders \in Holdings /\ Nameable \subseteq Holdings
BY DEF FirstHolders, Nameable, Holdings

LEMMA IdleTyped == Idle \in Dispatchers
BY NoHostTyped, FirstKnown DEF Idle, Dispatchers, Places, Outcomes

LEMMA RestsLeaves ==
    ASSUME OutboxTyped, NEW w \in Workers, Rests(w)
    PROVE  Leaves(w)
<1>1. Idle.at = "idle" /\ Idle.row = 0
  BY DEF Idle
<1>. QED  BY <1>1, IdleTyped DEF OutboxTyped, Rests, Leaves

LEMMA WriterKept ==
    ASSUME TypeOK, OneWriter, NEW w \in Workers,
           \A v \in Workers \ {w} :
              /\ disp'[v] = disp[v]
              /\ disp[v].at \in InWrite => journal'[Entry(v)].state = journal[Entry(v)].state,
           WriterOf(w)',
           disp'[w].at \in InWrite =>
              \A v \in Workers \ {w} : disp[v].at \in InWrite => Scope(v) # Scope(w)'
    PROVE  OneWriter'
<1>1. ASSUME NEW v \in Workers \ {w}
      PROVE  WriterOf(v)' /\ Scope(v)' = Scope(v)
  BY <1>1 DEF OneWriter, WriterOf, Entry, Scope
<1>2. ASSUME NEW v \in Workers, disp'[v].at \in InWrite
      PROVE  Alone(v)'
  BY <1>1, <1>2 DEF OneWriter, Alone
<1>. QED  BY <1>1, <1>2 DEF OneWriter

LEMMA DoubtKept ==
    ASSUME DoubtInScope,
           \A m \in Scopes \X Jobs : journal'[m].state \in Unresolved => journal[m].state \in Unresolved
    PROVE  DoubtInScope'
BY DEF DoubtInScope, OpenWrites

\* A dispatcher that is not writing moves outside the journal.
LEMMA CalmWriter ==
    ASSUME Arranged, TypeOK, OneWriter, DoubtInScope, NEW w \in Workers,
           \A v \in Workers \ {w} : disp'[v] = disp[v],
           UNCHANGED journal,
           disp[w].at \notin InWrite, disp'[w].at \notin InWrite,
           disp'[w].at # "idle" => disp'[w].row \in Jobs,
           disp'[w].outcome \in OutcomesAt(disp'[w].at),
           disp'[w].at \in {"loaded", "reading"} =>
              disp'[w].host.kind = "mfl" /\ Native(disp'[w].row)
    PROVE  OneWriter' /\ DoubtInScope'
<1>1. WriterOf(w)'
  BY DEF WriterOf
<1>. QED  BY <1>1, WriterKept, DoubtKept

-----------------------------------------------------------------------------
(* Rows.                                                                   *)

\* Row j alone changes, to this, and stays pinned where it was.
RowTo(j, status, live, attempts, fence) ==
    /\ rows' \in [Jobs -> Rows]
    /\ \A k \in Jobs \ {j} : rows'[k] = rows[k]
    /\ rows'[j].status = status /\ rows'[j].live = live
    /\ rows'[j].attempts = attempts /\ rows'[j].fence = fence
    /\ rows'[j].host = rows[j].host /\ rows'[j].holder = rows[j].holder

Statuses == {"none", "pending", "running", "held", "dead", "delivered"}

LEMMA RowPutAway ==
    ASSUME LeagueTyped, NEW j \in Jobs, NEW status \in Statuses,
           rows' = [rows EXCEPT ![j].status = status, ![j].live = FALSE]
    PROVE  RowTo(j, status, FALSE, rows[j].attempts, rows[j].fence)
BY DEF LeagueTyped, RowTo, Rows, Statuses

LEMMA RowExpired ==
    ASSUME LeagueTyped, NEW j \in Jobs, rows' = [rows EXCEPT ![j].live = FALSE]
    PROVE  RowTo(j, rows[j].status, FALSE, rows[j].attempts, rows[j].fence)
BY DEF LeagueTyped, RowTo, Rows

LEMMA RowClaimed ==
    ASSUME LeagueTyped, NEW j \in Jobs,
           rows' = [rows EXCEPT ![j].status = "running", ![j].live = TRUE,
                                ![j].attempts = @ + 1, ![j].fence = @ + 1]
    PROVE  RowTo(j, "running", TRUE, rows[j].attempts + 1, rows[j].fence + 1)
BY DEF LeagueTyped, RowTo, Rows

LEMMA RowHeldClaimed ==
    ASSUME LeagueTyped, NEW j \in Jobs,
           rows' = [rows EXCEPT ![j].status = "running", ![j].live = TRUE, ![j].fence = @ + 1]
    PROVE  RowTo(j, "running", TRUE, rows[j].attempts, rows[j].fence + 1)
BY DEF LeagueTyped, RowTo, Rows

LEMMA RowRetired ==
    ASSUME LeagueTyped, NEW j \in Jobs,
           rows' = [rows EXCEPT ![j].status = "dead", ![j].fence = @ + 1, ![j].live = FALSE]
    PROVE  RowTo(j, "dead", FALSE, rows[j].attempts, rows[j].fence + 1)
BY DEF LeagueTyped, RowTo, Rows

\* Dispatcher w, idle before, takes row j.
Takes(w, j, repair) ==
    /\ disp' \in [Workers -> Dispatchers]
    /\ \A v \in Workers \ {w} : disp'[v] = disp[v]
    /\ disp[w].at = "idle" /\ disp'[w].at = "claimed"
    /\ disp'[w].row = j /\ disp'[w].fence = rows[j].fence + 1
    /\ disp'[w].outcome = "none" /\ disp'[w].repair = repair

LEMMA TakesRow ==
    ASSUME TypeOK, NEW w \in Workers, NEW j \in Jobs, NEW repair \in BOOLEAN, disp[w] = Idle,
           NEW d, disp' = [disp EXCEPT ![w] = d],
           d \in [at : {"claimed"}, row : {j}, fence : {rows[j].fence + 1}, host : {NoHost},
                  holders : {FirstHolders}, outcome : {"none"}, repair : {repair}]
    PROVE  Takes(w, j, repair)
<1>1. rows[j].fence + 1 \in Nat
  BY DEF TypeOK, LeagueTyped, Rows
<1>2. /\ d.at = "claimed" /\ d.row = j /\ d.fence = rows[j].fence + 1
      /\ d.outcome = "none" /\ d.repair = repair
  OBVIOUS
<1>3. d \in Dispatchers
  BY <1>1, NoHostTyped, FirstKnown DEF Dispatchers, Places, Outcomes
<1>4. Idle.at = "idle"
  BY DEF Idle
<1>. QED  BY <1>2, <1>3, <1>4 DEF Takes, TypeOK, OutboxTyped

LEMMA ClaimTakes ==
    ASSUME TypeOK, NEW w \in Workers, NEW j \in Jobs, Claim(w, j)
    PROVE  Takes(w, j, FALSE) /\ RowTo(j, "running", TRUE, rows[j].attempts + 1, rows[j].fence + 1)
<1>1. RowTo(j, "running", TRUE, rows[j].attempts + 1, rows[j].fence + 1)
  BY RowClaimed DEF Claim, TypeOK
<1>2. PICK fence : fence = rows[j].fence + 1
  OBVIOUS
<1>3. PICK d : d = [Idle EXCEPT !.at = "claimed", !.row = j, !.fence = fence]
  OBVIOUS
<1>4. d \in [at : {"claimed"}, row : {j}, fence : {fence}, host : {NoHost},
             holders : {FirstHolders}, outcome : {"none"}, repair : {FALSE}]
  BY <1>3 DEF Idle
<1>5. disp[w] = Idle /\ disp' = [disp EXCEPT ![w] = d]
  BY <1>2, <1>3 DEF Claim
<1>. QED  BY <1>1, <1>2, <1>4, <1>5, TakesRow

LEMMA ClaimHeldTakes ==
    ASSUME TypeOK, NEW w \in Workers, NEW j \in Jobs, ClaimHeld(w, j)
    PROVE  Takes(w, j, TRUE) /\ RowTo(j, "running", TRUE, rows[j].attempts, rows[j].fence + 1)
<1>1. RowTo(j, "running", TRUE, rows[j].attempts, rows[j].fence + 1)
  BY RowHeldClaimed DEF ClaimHeld, TypeOK
<1>2. PICK fence : fence = rows[j].fence + 1
  OBVIOUS
<1>3. PICK d : d = [Idle EXCEPT !.at = "claimed", !.row = j, !.fence = fence, !.repair = TRUE]
  OBVIOUS
<1>4. d \in [at : {"claimed"}, row : {j}, fence : {fence}, host : {NoHost},
             holders : {FirstHolders}, outcome : {"none"}, repair : {TRUE}]
  BY <1>3 DEF Idle
<1>5. disp[w] = Idle /\ disp' = [disp EXCEPT ![w] = d]
  BY <1>2, <1>3 DEF ClaimHeld
<1>. QED  BY <1>1, <1>2, <1>4, <1>5, TakesRow

\* Load: the adapter's host is the one selected now.
LoadsTo(w, at) ==
    /\ disp' \in [Workers -> Dispatchers]
    /\ \A v \in Workers \ {w} : disp'[v] = disp[v]
    /\ disp'[w].at = at /\ disp'[w].host = host
    /\ disp'[w].row = disp[w].row /\ disp'[w].fence = disp[w].fence
    /\ disp'[w].repair = disp[w].repair

LEMMA LoadLoads ==
    ASSUME Arranged, TypeOK, NEW w \in Workers, Load(w)
    PROVE  \/ host.kind = "mfl" /\ LoadsTo(w, IF disp[w].repair THEN "reading" ELSE "loaded")
           \/ Moves(w, "failing", "held")
<1>1. CASE Deployed /\ ~Goes2(w, "failing", "held")
  <2>1. PICK at \in {"reading", "loaded"} : at = IF disp[w].repair THEN "reading" ELSE "loaded"
    OBVIOUS
  <2>2. /\ disp' = [disp EXCEPT ![w].at = at, ![w].host = host, ![w].holders = holder]
        /\ holder \in Nameable /\ host.kind = "mfl"
    BY <1>1, <2>1 DEF Load, Deployed, Nameable, TypeOK, LeagueTyped
  <2>3. LoadsTo(w, at)
    <3>1. disp[w] \in Dispatchers /\ host \in Hosts /\ at \in Places
      BY DEF TypeOK, LeagueTyped, OutboxTyped, Places
    <3>2. PICK d : d = [disp[w] EXCEPT !.at = at, !.host = host, !.holders = holder]
      OBVIOUS
    <3>3. /\ d \in Dispatchers /\ d.at = at /\ d.host = host /\ d.row = disp[w].row
          /\ d.fence = disp[w].fence /\ d.repair = disp[w].repair
      BY <2>2, <3>1, <3>2 DEF Dispatchers
    <3>4. disp' = [disp EXCEPT ![w] = d]
      BY <2>2, <3>2
    <3>. QED  BY <3>3, <3>4 DEF LoadsTo, TypeOK, OutboxTyped
  <2>. QED  BY <2>1, <2>2, <2>3
<1>2. CASE Goes2(w, "failing", "held")
  <2>1. "failing" \in Places /\ "held" \in Outcomes
    BY DEF Places, Outcomes
  <2>. QED  BY <1>2, <2>1, Goes2Moves DEF TypeOK
<1>. QED  BY <1>1, <1>2 DEF Load

-----------------------------------------------------------------------------
(* The journal.                                                            *)

\* Where a dispatcher has an adapter.
AtMfl == {"loaded", "reading"} \cup InWrite

LEMMA HomeScope == \A league \in MflLeagues : Home(league) \in Scopes /\ Home(league)[2] = FirstHolders
BY DEF Home, Scopes, Holdings, FirstHolders

LEMMA EntryTyped ==
    ASSUME TypeOK, NEW w \in Workers, WriterOf(w), disp[w].at \in AtMfl
    PROVE  /\ Entry(w) \in Scopes \X Jobs /\ Entry(w) = <<Scope(w), disp[w].row>>
           /\ Scope(w) \in Scopes /\ Scope(w)[2] \in Nameable
           /\ ~Reissued => Scope(w) = Home(disp[w].host.league)
           /\ disp[w].row \in Jobs /\ disp[w].host.league \in MflLeagues /\ disp[w].host \in Hosts
<1>1. disp[w].host \in Hosts /\ disp[w].at # "idle"
  BY DEF TypeOK, OutboxTyped, Dispatchers, AtMfl, InWrite
<1>2. disp[w].host.league \in MflLeagues
  BY <1>1 DEF Hosts, WriterOf, AtMfl
<1>3. disp[w].holders \in Nameable /\ disp[w].holders \in Holdings
  BY FirstKnown DEF TypeOK, OutboxTyped, Dispatchers
<1>4. Scope(w) \in Scopes /\ Scope(w)[2] \in Nameable
  BY <1>2, <1>3 DEF Scope, Scopes
<1>5. ~Reissued => Scope(w) = Home(disp[w].host.league)
  BY <1>3 DEF Scope, Home, Nameable
<1>. QED  BY <1>1, <1>2, <1>4, <1>5 DEF WriterOf, Entry

\* One receipt is written, by w, for its row.
Noted(w, receipt) ==
    /\ journal' \in [Scopes \X Jobs -> Writings]
    /\ journal'[Entry(w)] = receipt
    /\ \A m \in (Scopes \X Jobs) \ {Entry(w)} : journal'[m] = journal[m]
    /\ Entry(w)[1][2] \in Nameable

LEMMA WritesNoted ==
    ASSUME TypeOK, NEW w \in Workers, WriterOf(w), disp[w].at \in AtMfl,
           NEW receipt \in Writings, Writes(w, receipt)
    PROVE  Noted(w, receipt)
<1>1. Entry(w) \in Scopes \X Jobs /\ Entry(w)[1][2] \in Nameable
  BY EntryTyped
<1>. QED  BY <1>1 DEF Writes, Noted, TypeOK, OutboxTyped

LEMMA OtherEntry ==
    ASSUME TypeOK, OneWriter, NEW w \in Workers, Alone(w), NEW receipt, Noted(w, receipt)
    PROVE  \A v \in Workers \ {w} : disp[v].at \in InWrite => journal'[Entry(v)] = journal[Entry(v)]
<1>1. ASSUME NEW v \in Workers \ {w}, disp[v].at \in InWrite
      PROVE  journal'[Entry(v)] = journal[Entry(v)]
  <2>1. Scope(v) # Scope(w)
    BY <1>1 DEF Alone
  <2>2. Entry(v) \in Scopes \X Jobs
    BY <1>1, EntryTyped DEF OneWriter, AtMfl
  <2>3. Entry(v) # Entry(w)
    BY <2>1 DEF Entry
  <2>. QED  BY <2>2, <2>3 DEF Noted
<1>. QED  BY <1>1

\* The writer moves on with its write, or is done with it.
LEMMA WriterStep ==
    ASSUME Arranged, TypeOK, OneWriter, DoubtInScope, NEW w \in Workers, disp[w].at \in AtMfl,
           NEW receipt, Noted(w, receipt), NEW at, NEW outcome \in OutcomesAt(at), Moves(w, at, outcome),
           at \notin {"idle", "loaded", "reading"},
           Alone(w), at \in InWrite => receipt.state = StateAt(at),
           receipt.state \in Unresolved => journal[Entry(w)].state \in Unresolved
    PROVE  OneWriter' /\ DoubtInScope'
<1>1. WriterOf(w)
  BY DEF OneWriter
<1>2. Entry(w)' = Entry(w) /\ disp'[w].row = disp[w].row /\ disp'[w].host = disp[w].host
      /\ disp'[w].at = at /\ disp'[w].outcome = outcome /\ Scope(w)' = Scope(w)
  BY DEF Moves, Entry, Scope
<1>3. WriterOf(w)'
  BY <1>1, <1>2 DEF WriterOf, Noted, AtMfl, InWrite
<1>4. ASSUME NEW v \in Workers \ {w}
      PROVE  /\ disp'[v] = disp[v]
             /\ disp[v].at \in InWrite => Scope(v) # Scope(w) /\ journal'[Entry(v)] = journal[Entry(v)]
  <2>1. disp'[v] = disp[v]
    BY DEF Moves
  <2>. QED  BY <2>1, OtherEntry DEF Alone
<1>5. OneWriter'
  BY <1>2, <1>3, <1>4, WriterKept
<1>6. DoubtInScope'
  <2>1. \A m \in Scopes \X Jobs : journal'[m].state \in Unresolved => journal[m].state \in Unresolved
    BY DEF Noted
  <2>. QED  BY <2>1, DoubtKept
<1>. QED  BY <1>5, <1>6

LEMMA BeginDoubt ==
    ASSUME TypeOK, DoubtInScope, NEW w \in Workers, WriterOf(w), disp[w].at = "loaded",
           ~Blocked(Scope(w), disp[w].row), NEW receipt, Noted(w, receipt)
    PROVE  DoubtInScope'
<1>. DEFINE scope == Scope(w)
            j == disp[w].row
<1>1. Entry(w) = <<scope, j>> /\ scope \in Scopes /\ j \in Jobs
  BY EntryTyped DEF AtMfl
<1>2. \A k \in Jobs \ {j} : journal[<<scope, k>>].state \in Unresolved => Affects[k] \cap Affects[j] = {}
  BY DEF Blocked
<1>3. \A m \in OpenWrites' : m \in OpenWrites \/ m = Entry(w)
  BY DEF Noted, OpenWrites
<1>. HIDE DEF scope, j
<1>4. ASSUME NEW m \in OpenWrites, m # Entry(w), m[1] = Entry(w)[1]
      PROVE  Affects[m[2]] \cap Affects[j] = {}
  <2>1. PICK k \in Jobs : m = <<scope, k>> /\ journal[<<scope, k>>].state \in Unresolved
    BY <1>1, <1>4 DEF OpenWrites
  <2>2. k # j
    BY <1>1, <1>4, <2>1
  <2>. QED  BY <1>2, <2>1, <2>2
<1>5. ASSUME NEW m \in OpenWrites', NEW n \in OpenWrites', m # n, m[1] = n[1]
      PROVE  Affects[m[2]] \cap Affects[n[2]] = {}
  <2>1. CASE m \in OpenWrites /\ n \in OpenWrites
    BY <1>5, <2>1 DEF DoubtInScope
  <2>2. CASE m = Entry(w)
    BY <1>1, <1>3, <1>4, <1>5, <2>2
  <2>3. CASE n = Entry(w)
    BY <1>1, <1>3, <1>4, <1>5, <2>3
  <2>. QED  BY <1>3, <2>1, <2>2, <2>3
<1>. QED  BY <1>5 DEF DoubtInScope

LEMMA TakesEffectTyped ==
    ASSUME OutboxTyped, NEW j \in Jobs, NEW h \in Hosts, TakesEffect(j, h)
    PROVE  /\ acted' \in [Jobs -> Seq(Hosts)] /\ acted'[j] = Append(acted[j], h)
           /\ \A k \in Jobs \ {j} : acted'[k] = acted[k]
BY DEF OutboxTyped, TakesEffect

-----------------------------------------------------------------------------
(* Every step of a dispatcher keeps the shape and the exclusion of writes. *)

\* What a dispatcher's own step may find and do.
Walk(w, at) ==
    /\ \E outcome \in OutcomesAt(at) : Moves(w, at, outcome)
    /\ disp[w].at \notin InWrite \cup {"idle"} /\ at \notin InWrite \cup AtMfl \cup {"idle"}

LEMMA WalkWriter ==
    ASSUME Arranged, WriteInv, NEW w \in Workers, NEW at, Walk(w, at), UNCHANGED journal
    PROVE  OneWriter' /\ DoubtInScope'
<1>1. /\ \A v \in Workers \ {w} : disp'[v] = disp[v]
      /\ disp'[w].at = at /\ disp'[w].row = disp[w].row /\ disp'[w].outcome \in OutcomesAt(at)
  BY DEF Walk, Moves
<1>2. disp[w].row \in Jobs
  BY DEF WriteInv, OneWriter, WriterOf, Walk
<1>. QED  BY <1>1, <1>2, CalmWriter DEF Walk, WriteInv, AtMfl

LEMMA LeavesWriter ==
    ASSUME Arranged, WriteInv, NEW w \in Workers, Leaves(w), UNCHANGED journal,
           disp[w].at \notin InWrite
    PROVE  OneWriter' /\ DoubtInScope'
<1>1. /\ \A v \in Workers \ {w} : disp'[v] = disp[v]
      /\ disp'[w].at = "idle" /\ "idle" \notin InWrite
      /\ disp'[w].outcome \in OutcomesAt("idle")
  BY DEF Leaves, InWrite, Dispatchers, OutcomesAt
<1>. QED  BY <1>1, CalmWriter DEF WriteInv

LEMMA TakesWriter ==
    ASSUME Arranged, WriteInv, NEW w \in Workers, NEW j \in Jobs, NEW repair, Takes(w, j, repair),
           UNCHANGED journal
    PROVE  OneWriter' /\ DoubtInScope'
<1>1. /\ \A v \in Workers \ {w} : disp'[v] = disp[v]
      /\ disp'[w].at = "claimed" /\ disp[w].at = "idle" /\ disp'[w].row \in Jobs
      /\ "claimed" \notin InWrite /\ "idle" \notin InWrite
      /\ disp'[w].outcome \in OutcomesAt("claimed")
  BY DEF Takes, InWrite, Dispatchers, OutcomesAt
<1>. QED  BY <1>1, CalmWriter DEF WriteInv

LEMMA LoadsWriter ==
    ASSUME Arranged, WriteInv, NEW w \in Workers, NEW at \in {"reading", "loaded"}, LoadsTo(w, at),
           host.kind = "mfl", disp[w].at = "checked", Native(disp[w].row), UNCHANGED journal
    PROVE  OneWriter' /\ DoubtInScope'
<1>1. /\ \A v \in Workers \ {w} : disp'[v] = disp[v]
      /\ disp'[w].at = at /\ disp'[w].host = host /\ disp'[w].row = disp[w].row
      /\ at \notin InWrite /\ disp[w].at \notin InWrite
      /\ disp'[w].outcome \in OutcomesAt(at)
  BY DEF LoadsTo, InWrite, Dispatchers, OutcomesAt
<1>2. disp[w].row \in Jobs
  BY DEF WriteInv, OneWriter, WriterOf
<1>. QED  BY <1>1, <1>2, CalmWriter DEF WriteInv

\* Nothing of a league changes but rows, and those keep their shape.
LEMMA LeagueSame ==
    ASSUME LeagueTyped, UNCHANGED hostOnly, rows' \in [Jobs -> Rows]
    PROVE  LeagueTyped'
BY DEF LeagueTyped, hostOnly

LEMMA OutboxSame ==
    ASSUME OutboxTyped, disp' \in [Workers -> Dispatchers], UNCHANGED writes
    PROVE  OutboxTyped'
BY DEF OutboxTyped, writes

LEMMA TypesSame ==
    ASSUME TypeOK, UNCHANGED hostOnly, rows' \in [Jobs -> Rows], disp' \in [Workers -> Dispatchers],
           UNCHANGED writes
    PROVE  TypeOK'
BY LeagueSame, OutboxSame DEF TypeOK

LEMMA StaleWrite ==
    ASSUME Arranged, WriteInv, NEW w \in Workers, Stale(w)
    PROVE  WriteInv' /\ Leaves(w)
<1>1. Leaves(w) /\ UNCHANGED <<hostOnly, rows, writes>> /\ disp[w].at \notin InWrite
  BY RestsLeaves DEF Stale, WriteInv, TypeOK, InWrite
<1>2. TypeOK'
  BY <1>1, TypesSame DEF WriteInv, Leaves, TypeOK, LeagueTyped
<1>. QED  BY <1>1, <1>2, LeavesWriter DEF WriteInv, writes

LEMMA ContextWrite ==
    ASSUME Arranged, WriteInv, NEW w \in Workers, Context(w)
    PROVE  /\ WriteInv'
           /\ IF Authorized(w) THEN Moves(w, "checked", disp[w].outcome)
              ELSE Moves(w, "failing", Refusal(w))
<1>1. /\ disp[w].at = "claimed" /\ UNCHANGED <<hostOnly, rows, writes>>
      /\ IF Authorized(w) THEN Goes(w, "checked") ELSE Goes2(w, "failing", Refusal(w))
  BY DEF Context
<1>2. "checked" \in Places /\ "failing" \in Places /\ Refusal(w) \in Outcomes
  BY DEF Places, Outcomes, Refusal
<1>3. IF Authorized(w) THEN Moves(w, "checked", disp[w].outcome) ELSE Moves(w, "failing", Refusal(w))
  BY <1>1, <1>2, GoesMoves, Goes2Moves DEF WriteInv, TypeOK
<1>4. disp[w].outcome \in Outcomes
  BY DEF WriteInv, TypeOK, OutboxTyped, Dispatchers
<1>5. Walk(w, "checked") \/ Walk(w, "failing")
  BY <1>1, <1>2, <1>3, <1>4 DEF Walk, InWrite, AtMfl, OutcomesAt, Refusal
<1>6. TypeOK'
  BY <1>1, <1>3, TypesSame DEF WriteInv, Moves, TypeOK, LeagueTyped
<1>. QED  BY <1>1, <1>3, <1>5, <1>6, WalkWriter DEF WriteInv, writes

LEMMA LoadWrite ==
    ASSUME Arranged, WriteInv, NEW w \in Workers, Load(w)
    PROVE  /\ WriteInv'
           /\ \/ host.kind = "mfl" /\ LoadsTo(w, IF disp[w].repair THEN "reading" ELSE "loaded")
              \/ Moves(w, "failing", "held")
<1>1. /\ disp[w].at = "checked" /\ Native(disp[w].row) /\ UNCHANGED <<hostOnly, rows, writes>>
  BY DEF Load
<1>2. \/ host.kind = "mfl" /\ LoadsTo(w, IF disp[w].repair THEN "reading" ELSE "loaded")
      \/ Moves(w, "failing", "held")
  BY LoadLoads DEF WriteInv
<1>3. OneWriter' /\ DoubtInScope'
  <2>1. CASE Moves(w, "failing", "held")
    <3>1. Walk(w, "failing")
      BY <1>1, <2>1 DEF Walk, InWrite, AtMfl, OutcomesAt
    <3>. QED  BY <1>1, <3>1, WalkWriter DEF writes
  <2>2. CASE host.kind = "mfl" /\ LoadsTo(w, IF disp[w].repair THEN "reading" ELSE "loaded")
    <3>1. PICK at \in {"reading", "loaded"} : at = IF disp[w].repair THEN "reading" ELSE "loaded"
      OBVIOUS
    <3>. QED  BY <1>1, <2>2, <3>1, LoadsWriter DEF writes
  <2>. QED  BY <1>2, <2>1, <2>2
<1>4. TypeOK'
  BY <1>1, <1>2, TypesSame DEF WriteInv, Moves, LoadsTo, TypeOK, LeagueTyped
<1>. QED  BY <1>2, <1>3, <1>4 DEF WriteInv

LEMMA ClaimWrite ==
    ASSUME Arranged, WriteInv, NEW w \in Workers, NEW j \in Jobs, Claim(w, j) \/ ClaimHeld(w, j)
    PROVE  WriteInv'
<1>1. PICK repair : Takes(w, j, repair)
  BY ClaimTakes, ClaimHeldTakes DEF WriteInv
<1>2. rows' \in [Jobs -> Rows]
  BY ClaimTakes, ClaimHeldTakes DEF WriteInv, RowTo
<1>3. UNCHANGED <<hostOnly, writes>>
  BY DEF Claim, ClaimHeld
<1>4. TypeOK'
  BY <1>1, <1>2, <1>3, TypesSame DEF WriteInv, Takes
<1>. QED  BY <1>1, <1>3, <1>4, TakesWriter DEF WriteInv, writes

\* ExecuteAgain, Execute and ExecuteFails: what the own engine answers.
LEMMA ExecuteWrite ==
    ASSUME Arranged, WriteInv, NEW w \in Workers, ExecuteAgain(w) \/ Execute(w) \/ ExecuteFails(w)
    PROVE  /\ WriteInv'
           /\ \/ Moves(w, "returned", "verified")
              \/ Moves(w, "failing", "dead") \/ Moves(w, "failing", "retry")
<1>1. /\ disp[w].at = "checked" /\ UNCHANGED <<hostOnly, rows, journal, wire>>
      /\ UNCHANGED acted \/ TakesEffect(disp[w].row, host)
      /\ \/ Goes2(w, "returned", "verified")
         \/ Goes2(w, "failing", "dead") \/ Goes2(w, "failing", "retry")
  BY DEF ExecuteAgain, Execute, ExecuteFails, writes
<1>2. \/ Moves(w, "returned", "verified")
      \/ Moves(w, "failing", "dead") \/ Moves(w, "failing", "retry")
  BY <1>1, Goes2Moves DEF WriteInv, TypeOK, Places, Outcomes
<1>3. Walk(w, "returned") \/ Walk(w, "failing")
  BY <1>1, <1>2 DEF Walk, InWrite, AtMfl, OutcomesAt
<1>4. acted' \in [Jobs -> Seq(Hosts)]
  <2>1. disp[w].row \in Jobs
    BY <1>1 DEF WriteInv, OneWriter, WriterOf
  <2>. QED  BY <1>1, <2>1, TakesEffectTyped DEF WriteInv, TypeOK, OutboxTyped, LeagueTyped
<1>5. TypeOK'
  <2>1. LeagueTyped'
    BY <1>1, LeagueSame DEF WriteInv, TypeOK, LeagueTyped
  <2>2. OutboxTyped'
    BY <1>1, <1>2, <1>4 DEF WriteInv, TypeOK, OutboxTyped, Moves
  <2>. QED  BY <2>1, <2>2 DEF TypeOK
<1>. QED  BY <1>1, <1>2, <1>3, <1>5, WalkWriter DEF WriteInv

\* The authority's own receipt says so.
Acknowledged(w) ==
    LET j == disp[w].row
    IN  /\ Authorized(w)
        /\ IF Native(j)
           THEN Deployed /\ journal[<<<<host.league, holder>>, j>>].state = "verified"
           ELSE acted[j] # <<>>

LEMMA AcknowledgeWrite ==
    ASSUME Arranged, WriteInv, NEW w \in Workers, Acknowledge(w)
    PROVE  /\ WriteInv'
           /\ \/ /\ Leaves(w) /\ Acknowledged(w)
                 /\ RowTo(disp[w].row, "delivered", FALSE, rows[disp[w].row].attempts, rows[disp[w].row].fence)
              \/ Moves(w, "failing", Refusal(w)) /\ UNCHANGED rows
<1>1. disp[w].at = "returned" /\ UNCHANGED <<hostOnly, writes>> /\ disp[w].row \in Jobs
  BY DEF Acknowledge, WriteInv, OneWriter, WriterOf
<1>2. CASE /\ Acknowledged(w)
           /\ rows' = [rows EXCEPT ![disp[w].row].status = "delivered", ![disp[w].row].live = FALSE]
           /\ Rests(w)
  <2>1. Leaves(w)
    BY <1>2, RestsLeaves DEF WriteInv, TypeOK
  <2>2. RowTo(disp[w].row, "delivered", FALSE, rows[disp[w].row].attempts, rows[disp[w].row].fence)
    BY <1>1, <1>2, RowPutAway DEF WriteInv, TypeOK, Statuses
  <2>3. TypeOK'
    BY <1>1, <2>1, <2>2, TypesSame DEF WriteInv, Leaves, RowTo
  <2>4. disp[w].at \notin InWrite
    BY <1>1 DEF InWrite
  <2>. QED  BY <1>1, <1>2, <2>1, <2>2, <2>3, <2>4, LeavesWriter DEF WriteInv, writes
<1>3. CASE Goes2(w, "failing", Refusal(w)) /\ UNCHANGED rows
  <2>1. Moves(w, "failing", Refusal(w)) /\ Refusal(w) \in Outcomes
    BY <1>3, Goes2Moves DEF WriteInv, TypeOK, Places, Outcomes, Refusal
  <2>2. Walk(w, "failing")
    BY <1>1, <2>1 DEF Walk, InWrite, AtMfl, OutcomesAt, Refusal
  <2>3. TypeOK'
    BY <1>1, <1>3, <2>1, TypesSame DEF WriteInv, Moves, TypeOK, LeagueTyped
  <2>. QED  BY <1>1, <1>3, <2>1, <2>2, <2>3, WalkWriter DEF WriteInv, writes
<1>. QED  BY <1>2, <1>3 DEF Acknowledge, Acknowledged

LEMMA AcknowledgeFailsWrite ==
    ASSUME Arranged, WriteInv, NEW w \in Workers, AcknowledgeFails(w)
    PROVE  /\ WriteInv' /\ disp[w].at = "returned" /\ UNCHANGED <<hostOnly, rows, writes>>
           /\ Moves(w, "failing", IF Native(disp[w].row) THEN "held" ELSE "retry")
<1>1. PICK outcome \in {"held", "retry"} : outcome = IF Native(disp[w].row) THEN "held" ELSE "retry"
  OBVIOUS
<1>2. /\ disp[w].at = "returned" /\ UNCHANGED <<hostOnly, rows, writes>>
      /\ Goes2(w, "failing", outcome)
  BY <1>1 DEF AcknowledgeFails
<1>3. Moves(w, "failing", outcome)
  BY <1>2, Goes2Moves DEF WriteInv, TypeOK, Places, Outcomes
<1>4. Walk(w, "failing")
  BY <1>2, <1>3 DEF Walk, InWrite, AtMfl, OutcomesAt
<1>5. TypeOK'
  BY <1>2, <1>3, TypesSame DEF WriteInv, Moves, TypeOK, LeagueTyped
<1>. QED  BY <1>1, <1>2, <1>3, <1>4, <1>5, WalkWriter DEF WriteInv, writes

LEMMA SettleWrite ==
    ASSUME Arranged, WriteInv, NEW w \in Workers, Settle(w)
    PROVE  /\ WriteInv' /\ Leaves(w) /\ Holds(w) /\ UNCHANGED <<hostOnly, writes>>
           /\ disp[w].row \in Jobs /\ disp[w].at \in {"returned", "failing"}
           /\ \E status \in {"held", "dead", "pending"} :
                 /\ RowTo(disp[w].row, status, FALSE, rows[disp[w].row].attempts, rows[disp[w].row].fence)
                 /\ status = "dead" => disp[w].outcome \in {"rejected", "dead", "retry"}
<1>. DEFINE j == disp[w].row
<1>1. /\ disp[w].at \in {"returned", "failing"} /\ UNCHANGED <<hostOnly, writes>>
      /\ Leaves(w) /\ Holds(w)
      /\ (disp[w].at # "returned" \/ disp[w].outcome # "verified")
  BY RestsLeaves DEF Settle, WriteInv, TypeOK
<1>2. j \in Jobs /\ disp[w].outcome \in OutcomesAt(disp[w].at)
  BY <1>1 DEF WriteInv, OneWriter, WriterOf
<1>3. disp[w].outcome \in {"rejected", "unknown", "held", "dead", "retry"}
  BY <1>1, <1>2 DEF OutcomesAt
<1>4. PICK status :
        /\ rows' = [rows EXCEPT ![j].status = status, ![j].live = FALSE]
        /\ status = IF Settled(w) # "retry" THEN Settled(w)
                    ELSE IF rows[j].attempts < Tries THEN "pending" ELSE "dead"
  BY DEF Settle
<1>5. /\ status \in {"held", "dead", "pending"}
      /\ status = "dead" => disp[w].outcome \in {"rejected", "dead", "retry"}
  BY <1>3, <1>4 DEF Settled
<1>6. RowTo(j, status, FALSE, rows[j].attempts, rows[j].fence)
  BY <1>2, <1>4, <1>5, RowPutAway DEF WriteInv, TypeOK, Statuses
<1>7. TypeOK'
  BY <1>1, <1>6, TypesSame DEF WriteInv, Leaves, RowTo
<1>8. disp[w].at \notin InWrite
  BY <1>1 DEF InWrite
<1>9. OneWriter' /\ DoubtInScope'
  BY <1>1, <1>8, LeavesWriter DEF writes
<1>. QED  BY <1>1, <1>2, <1>5, <1>6, <1>7, <1>9 DEF WriteInv

LEMMA OutboxWritten ==
    ASSUME TypeOK, NEW w \in Workers, NEW receipt, Noted(w, receipt), NEW at, NEW outcome,
           Moves(w, at, outcome), UNCHANGED <<hostOnly, rows, wire, acted>>
    PROVE  TypeOK'
<1>1. LeagueTyped'
  BY LeagueSame DEF TypeOK, LeagueTyped
<1>2. OutboxTyped'
  BY DEF TypeOK, OutboxTyped, Noted, Moves
<1>. QED  BY <1>1, <1>2 DEF TypeOK

\* What a dispatcher's step does to the journal and itself.
Journals(w, receipt, at, outcome) ==
    /\ receipt \in Writings /\ outcome \in OutcomesAt(at)
    /\ Noted(w, receipt) /\ Moves(w, at, outcome)
    /\ UNCHANGED <<hostOnly, rows, wire, acted>>

NewWrite(state) == [NoWrite EXCEPT !.state = state]

LEMMA NewWriteIs ==
    ASSUME NEW state \in {"prepared", "submitted", "rejected"}
    PROVE  /\ NewWrite(state) \in Writings /\ NewWrite(state).state = state
           /\ NewWrite(state).rejected = FALSE
BY DEF NewWrite, NoWrite, Writings

LEMMA BeginWrite ==
    ASSUME Arranged, WriteInv, NEW w \in Workers, Begin(w)
    PROVE  /\ WriteInv' /\ UNCHANGED <<hostOnly, rows, wire, acted>> /\ disp[w].at = "loaded"
           /\ \/ \E outcome \in {"verified", "rejected", "unknown"} :
                    /\ Moves(w, "returned", outcome) /\ UNCHANGED journal
                    /\ outcome = "rejected" => journal[Entry(w)].state = "rejected"
              \/ Moves(w, "failing", "held") /\ UNCHANGED journal
              \/ /\ Journals(w, NewWrite("prepared"), "prepared", disp[w].outcome) /\ Alone(w)
                 /\ journal[Entry(w)].state = "none"
<1>1. disp[w].at = "loaded" /\ Alone(w) /\ UNCHANGED <<hostOnly, rows, wire, acted>>
  BY DEF Begin, LockFree, Alone
<1>2. WriterOf(w) /\ disp[w].at \in AtMfl /\ TypeOK
  BY <1>1 DEF WriteInv, OneWriter, AtMfl
<1>3. Entry(w) \in Scopes \X Jobs /\ disp[w].outcome \in Outcomes /\ journal[Entry(w)] \in Writings
  BY <1>2, EntryTyped DEF TypeOK, OutboxTyped, Dispatchers
<1>4. CASE Replayed(journal[Entry(w)])
  <2>1. PICK outcome : outcome = Verdict(journal[Entry(w)])
    OBVIOUS
  <2>2. /\ outcome \in {"verified", "rejected", "unknown"}
        /\ outcome = "rejected" => journal[Entry(w)].state = "rejected"
    BY <2>1 DEF Verdict
  <2>3. Moves(w, "returned", outcome) /\ UNCHANGED journal
    <3>1. Goes2(w, "returned", outcome) /\ UNCHANGED journal
      BY <1>4, <2>1 DEF Begin
    <3>2. "returned" \in Places /\ outcome \in Outcomes
      BY <2>2 DEF Places, Outcomes
    <3>. QED  BY <1>2, <3>1, <3>2, Goes2Moves DEF TypeOK
  <2>4. Walk(w, "returned")
    BY <1>1, <2>2, <2>3 DEF Walk, InWrite, AtMfl, OutcomesAt
  <2>5. TypeOK'
    BY <1>1, <1>2, <2>3, TypesSame DEF Moves, writes, TypeOK, LeagueTyped
  <2>. QED  BY <1>1, <2>2, <2>3, <2>4, <2>5, WalkWriter DEF WriteInv
<1>5. CASE ~Replayed(journal[Entry(w)]) /\ Blocked(Scope(w), disp[w].row)
  <2>1. Moves(w, "failing", "held") /\ UNCHANGED journal
    <3>1. Goes2(w, "failing", "held") /\ UNCHANGED journal
      BY <1>5 DEF Begin
    <3>. QED  BY <1>2, <3>1, Goes2Moves DEF TypeOK, Places, Outcomes
  <2>2. Walk(w, "failing")
    BY <1>1, <2>1 DEF Walk, InWrite, AtMfl, OutcomesAt
  <2>3. TypeOK'
    BY <1>1, <1>2, <2>1, TypesSame DEF Moves, writes, TypeOK, LeagueTyped
  <2>. QED  BY <1>1, <2>1, <2>2, <2>3, WalkWriter DEF WriteInv
<1>6. CASE ~Replayed(journal[Entry(w)]) /\ ~Blocked(Scope(w), disp[w].row)
  <2>1. /\ Writes(w, NewWrite("prepared")) /\ Goes(w, "prepared")
        /\ journal[Entry(w)].state = "none"
    BY <1>6 DEF Begin, NewWrite, Replayed
  <2>2. /\ NewWrite("prepared") \in Writings /\ NewWrite("prepared").state = "prepared"
        /\ "prepared" \in Places /\ "prepared" \in InWrite
    BY NewWriteIs DEF Places, InWrite
  <2>3. Noted(w, NewWrite("prepared")) /\ Moves(w, "prepared", disp[w].outcome)
    BY <1>2, <2>1, <2>2, WritesNoted, GoesMoves DEF TypeOK
  <2>4. Journals(w, NewWrite("prepared"), "prepared", disp[w].outcome)
    BY <1>1, <1>3, <2>2, <2>3 DEF Journals, OutcomesAt
  <2>5. DoubtInScope'
    BY <1>1, <1>2, <1>6, <2>3, BeginDoubt DEF WriteInv
  <2>6. OneWriter'
    <3>1. /\ \A v \in Workers \ {w} : disp'[v] = disp[v]
          /\ disp'[w].at = "prepared" /\ disp'[w].outcome = disp[w].outcome
          /\ Scope(w)' = Scope(w) /\ Entry(w)' = Entry(w)
          /\ disp'[w].row = disp[w].row /\ disp'[w].host = disp[w].host
      BY <2>3 DEF Moves, Entry, Scope
    <3>2. WriterOf(w)'
      BY <1>2, <1>3, <2>1, <2>2, <2>3, <3>1 DEF WriterOf, Noted, AtMfl, StateAt, OutcomesAt
    <3>3. \A v \in Workers \ {w} : disp[v].at \in InWrite => journal'[Entry(v)] = journal[Entry(v)]
      BY <1>1, <2>3, OtherEntry DEF WriteInv
    <3>. QED  BY <1>1, <1>2, <3>1, <3>2, <3>3, WriterKept DEF WriteInv, Alone
  <2>7. TypeOK'
    BY <1>1, <1>2, <2>1, <2>3, OutboxWritten
  <2>. QED  BY <1>1, <2>1, <2>4, <2>5, <2>6, <2>7 DEF WriteInv
<1>. QED  BY <1>4, <1>5, <1>6

\* The step of a writer, in the terms of the journal.
LEMMA JournalsWrite ==
    ASSUME Arranged, WriteInv, NEW w \in Workers, disp[w].at \in AtMfl,
           NEW receipt, NEW at, NEW outcome, Journals(w, receipt, at, outcome),
           at \notin {"idle", "loaded", "reading"}, Alone(w), at \in InWrite => receipt.state = StateAt(at),
           receipt.state \in Unresolved => journal[Entry(w)].state \in Unresolved
    PROVE  WriteInv'
<1>1. OneWriter' /\ DoubtInScope'
  BY WriterStep DEF WriteInv, Journals
<1>2. TypeOK'
  BY OutboxWritten DEF WriteInv, Journals
<1>. QED  BY <1>1, <1>2 DEF WriteInv

LEMMA PreflightWrite ==
    ASSUME Arranged, WriteInv, NEW w \in Workers, Preflight(w)
    PROVE  /\ WriteInv' /\ disp[w].at = "prepared" /\ Alone(w)
           /\ \/ Journals(w, NewWrite("rejected"), "returned", "rejected")
              \/ Journals(w, NewWrite("submitted"), "submitted", disp[w].outcome)
<1>1. /\ disp[w].at = "prepared" /\ UNCHANGED <<hostOnly, rows, wire, acted>>
      /\ \/ Writes(w, NewWrite("rejected")) /\ Goes2(w, "returned", "rejected")
         \/ Writes(w, NewWrite("submitted")) /\ Goes(w, "submitted")
  BY DEF Preflight, NewWrite
<1>2. /\ WriterOf(w) /\ Alone(w) /\ disp[w].at \in AtMfl /\ disp[w].at \in InWrite /\ TypeOK /\ OutboxTyped
      /\ disp[w].outcome \in Outcomes
  BY <1>1 DEF WriteInv, OneWriter, AtMfl, InWrite, TypeOK, OutboxTyped, Dispatchers
<1>3. journal[Entry(w)].state = "prepared"
  BY <1>1, <1>2 DEF WriterOf, StateAt
<1>4. CASE Writes(w, NewWrite("rejected")) /\ Goes2(w, "returned", "rejected")
  <2>1. Noted(w, NewWrite("rejected")) /\ Moves(w, "returned", "rejected")
    BY <1>2, <1>4, NewWriteIs, WritesNoted, Goes2Moves DEF Places, Outcomes
  <2>2. Journals(w, NewWrite("rejected"), "returned", "rejected")
    BY <1>1, <2>1, NewWriteIs DEF Journals, OutcomesAt
  <2>. QED  BY <1>1, <1>2, <1>4, <2>2, NewWriteIs, JournalsWrite DEF InWrite, Unresolved
<1>5. CASE Writes(w, NewWrite("submitted")) /\ Goes(w, "submitted")
  <2>1. Noted(w, NewWrite("submitted")) /\ Moves(w, "submitted", disp[w].outcome)
    BY <1>2, <1>5, NewWriteIs, WritesNoted, GoesMoves DEF Places, InWrite
  <2>2. Journals(w, NewWrite("submitted"), "submitted", disp[w].outcome)
    BY <1>1, <1>2, <2>1, NewWriteIs DEF Journals, OutcomesAt
  <2>3. NewWrite("submitted").state = StateAt("submitted")
    BY NewWriteIs DEF StateAt
  <2>. QED  BY <1>1, <1>2, <1>3, <1>5, <2>2, <2>3, JournalsWrite DEF InWrite, Unresolved
<1>. QED  BY <1>1, <1>2, <1>4, <1>5

\* What is written when the answer is in.
Answer(w) == [state |-> "unknown", accepted |-> disp[w].outcome = "accepted",
              rejected |-> disp[w].outcome = "refused"]

LEMMA NoteWrite ==
    ASSUME Arranged, WriteInv, NEW w \in Workers, Note(w)
    PROVE  /\ WriteInv' /\ disp[w].at = "answered" /\ Alone(w)
           /\ Answer(w).state = "unknown" /\ Answer(w).rejected = (disp[w].outcome = "refused")
           /\ \/ Journals(w, Answer(w), "returned", "unknown")
              \/ Journals(w, Answer(w), "noted", disp[w].outcome)
<1>1. /\ disp[w].at = "answered" /\ UNCHANGED <<hostOnly, rows, wire, acted>>
      /\ Writes(w, Answer(w))
      /\ Goes2(w, "returned", "unknown") \/ Goes(w, "noted")
  BY DEF Note, Answer
<1>2. /\ WriterOf(w) /\ Alone(w) /\ disp[w].at \in AtMfl /\ disp[w].at \in InWrite /\ TypeOK /\ OutboxTyped
      /\ disp[w].outcome \in Outcomes
  BY <1>1 DEF WriteInv, OneWriter, AtMfl, InWrite, TypeOK, OutboxTyped, Dispatchers
<1>3. journal[Entry(w)].state = "submitted"
  BY <1>1, <1>2 DEF WriterOf, StateAt
<1>4. /\ Answer(w) \in Writings /\ Answer(w).state = "unknown"
      /\ Answer(w).rejected = (disp[w].outcome = "refused")
  BY DEF Answer, Writings
<1>5. Noted(w, Answer(w))
  BY <1>1, <1>2, <1>4, WritesNoted
<1>6. PICK receipt : receipt = Answer(w)
  OBVIOUS
<1>7. CASE Goes2(w, "returned", "unknown")
  <2>1. Moves(w, "returned", "unknown")
    BY <1>2, <1>7, Goes2Moves DEF Places, Outcomes
  <2>2. Journals(w, receipt, "returned", "unknown")
    BY <1>1, <1>4, <1>5, <1>6, <2>1 DEF Journals, OutcomesAt
  <2>3. WriteInv'
    BY <1>1, <1>2, <1>3, <1>7, <2>2, JournalsWrite DEF InWrite, Unresolved
  <2>. QED  BY <1>1, <1>2, <1>4, <1>6, <2>2, <2>3
<1>8. CASE Goes(w, "noted")
  <2>1. Moves(w, "noted", disp[w].outcome)
    BY <1>2, <1>8, GoesMoves DEF Places, InWrite
  <2>2. Journals(w, receipt, "noted", disp[w].outcome)
    BY <1>1, <1>2, <1>4, <1>5, <1>6, <2>1 DEF Journals, OutcomesAt
  <2>3. receipt.state = StateAt("noted")
    BY <1>4, <1>6 DEF StateAt
  <2>4. WriteInv'
    BY <1>1, <1>2, <1>3, <1>8, <2>2, <2>3, JournalsWrite DEF InWrite, Unresolved
  <2>. QED  BY <1>1, <1>2, <1>4, <1>6, <2>2, <2>4
<1>. QED  BY <1>1, <1>7, <1>8

\* What a read of the league may say of a write.
Finding(league, j, r, s) ==
    /\ s \in {"verified", "rejected", "unknown"}
    /\ s = "verified" => Seen(league, j) /\ ~r.rejected
    /\ s = "rejected" => r.rejected /\ ~Seen(league, j)

LEMMA ProvenFinds ==
    ASSUME NEW league, NEW j, NEW r \in Writings, NEW s \in {Proven(league, j, r), "unknown"}
    PROVE  Finding(league, j, r, s)
BY DEF Proven, Finding, Writings

LEMMA Judged ==
    ASSUME NEW r \in Writings, NEW s \in {"verified", "rejected", "unknown"}
    PROVE  LET receipt == [r EXCEPT !.state = s]
           IN  receipt \in Writings /\ receipt.state = s /\ receipt.rejected = r.rejected
BY DEF Writings

LEMMA ReadBackWrite ==
    ASSUME Arranged, WriteInv, NEW w \in Workers, ReadBack(w)
    PROVE  /\ WriteInv' /\ disp[w].at = "noted" /\ Alone(w)
           /\ \E s : /\ Finding(disp[w].host.league, disp[w].row, journal[Entry(w)], s)
                     /\ Journals(w, [journal[Entry(w)] EXCEPT !.state = s], "returned", s)
<1>1. disp[w].at = "noted" /\ UNCHANGED <<hostOnly, rows, wire, acted>>
  BY DEF ReadBack
<1>2. /\ WriterOf(w) /\ Alone(w) /\ disp[w].at \in AtMfl /\ disp[w].at \in InWrite /\ TypeOK /\ OutboxTyped
  BY <1>1 DEF WriteInv, OneWriter, AtMfl, InWrite, TypeOK
<1>3. journal[Entry(w)] \in Writings /\ journal[Entry(w)].state = "unknown"
  BY <1>1, <1>2, EntryTyped DEF WriterOf, StateAt, OutboxTyped
<1>4. PICK r : r = journal[Entry(w)]
  OBVIOUS
<1>5. PICK s \in {Proven(disp[w].host.league, disp[w].row, r), "unknown"} :
         Writes(w, [r EXCEPT !.state = s]) /\ Goes2(w, "returned", s)
  BY <1>4 DEF ReadBack
<1>6. PICK receipt : receipt = [r EXCEPT !.state = s]
  OBVIOUS
<1>7. Finding(disp[w].host.league, disp[w].row, r, s) /\ s \in {"verified", "rejected", "unknown"}
  <2>1. Finding(disp[w].host.league, disp[w].row, r, s)
    BY <1>3, <1>4, <1>5, ProvenFinds
  <2>. QED  BY <2>1 DEF Finding
<1>8. receipt \in Writings /\ receipt.state = s
  <2>1. r \in Writings
    BY <1>3, <1>4
  <2>. QED  BY <1>6, <1>7, <2>1, Judged
<1>9. Noted(w, receipt) /\ Moves(w, "returned", s)
  <2>1. "returned" \in Places /\ s \in Outcomes
    BY <1>7 DEF Places, Outcomes
  <2>. QED  BY <1>2, <1>5, <1>6, <1>8, <2>1, WritesNoted, Goes2Moves
<1>10. Journals(w, receipt, "returned", s)
  BY <1>1, <1>7, <1>8, <1>9 DEF Journals, OutcomesAt
<1>11. WriteInv'
  BY <1>1, <1>2, <1>3, <1>4, <1>8, <1>10, JournalsWrite DEF InWrite, Unresolved
<1>. QED  BY <1>1, <1>2, <1>4, <1>6, <1>7, <1>10, <1>11

\* What a reconciliation may make of a receipt.
Reread(league, j, r, s) ==
    \/ r.state \in {"verified", "rejected"} /\ s = r.state
    \/ r.state = "prepared" /\ s = "rejected"
    \/ r.state \in {"submitted", "unknown"} /\ Finding(league, j, r, s)

LEMMA ReconcileWrite ==
    ASSUME Arranged, WriteInv, NEW w \in Workers, Reconcile(w)
    PROVE  /\ WriteInv' /\ disp[w].at = "reading" /\ Alone(w)
           /\ UNCHANGED <<hostOnly, rows, wire, acted>>
           /\ \/ Moves(w, "failing", "held") /\ UNCHANGED journal
              \/ \E s : /\ Reread(disp[w].host.league, disp[w].row, journal[Entry(w)], s)
                        /\ Journals(w, [journal[Entry(w)] EXCEPT !.state = s], "returned", s)
<1>1. disp[w].at = "reading" /\ Alone(w) /\ UNCHANGED <<hostOnly, rows, wire, acted>>
  BY DEF Reconcile, LockFree, Alone
<1>2. /\ WriterOf(w) /\ disp[w].at \in AtMfl /\ TypeOK /\ OutboxTyped
  BY <1>1 DEF WriteInv, OneWriter, AtMfl, TypeOK
<1>3. journal[Entry(w)] \in Writings
  BY <1>1, <1>2, EntryTyped DEF OutboxTyped
<1>4. PICK r : r = journal[Entry(w)]
  OBVIOUS
<1>5. CASE r.state = "none"
  <2>1. Moves(w, "failing", "held") /\ UNCHANGED journal
    <3>1. Goes2(w, "failing", "held") /\ UNCHANGED journal
      BY <1>4, <1>5 DEF Reconcile
    <3>. QED  BY <1>2, <3>1, Goes2Moves DEF Places, Outcomes
  <2>2. OneWriter' /\ DoubtInScope'
    <3>1. /\ \A v \in Workers \ {w} : disp'[v] = disp[v]
          /\ disp'[w].at = "failing" /\ disp'[w].row = disp[w].row
          /\ disp'[w].outcome \in OutcomesAt("failing")
          /\ "failing" \notin InWrite \cup {"loaded", "reading"} /\ "reading" \notin InWrite
      BY <2>1 DEF Moves, OutcomesAt, InWrite
    <3>2. disp[w].row \in Jobs
      BY <1>2, EntryTyped
    <3>. QED  BY <1>1, <2>1, <3>1, <3>2, CalmWriter DEF WriteInv
  <2>3. TypeOK'
    BY <1>1, <1>2, <2>1, TypesSame DEF Moves, writes, TypeOK, LeagueTyped
  <2>. QED  BY <1>1, <2>1, <2>2, <2>3 DEF WriteInv
<1>6. CASE r.state # "none"
  <2>. DEFINE league == disp[w].host.league
              j == disp[w].row
  <2>1. PICK s \in CASE r.state \in {"verified", "rejected"} -> {r.state}
                     [] r.state = "prepared" -> {"rejected"}
                     [] OTHER -> {Proven(league, j, r), "unknown"} :
           Writes(w, [r EXCEPT !.state = s]) /\ Goes2(w, "returned", s)
    BY <1>4, <1>6 DEF Reconcile
  <2>2. PICK receipt : receipt = [r EXCEPT !.state = s]
    OBVIOUS
  <2>3. Reread(league, j, r, s)
    <3>1. CASE r.state \in {"submitted", "unknown"}
      <4>1. Finding(league, j, r, s)
        BY <1>3, <1>4, <2>1, <3>1, ProvenFinds
      <4>. QED  BY <3>1, <4>1 DEF Reread
    <3>2. CASE r.state = "prepared"
      BY <2>1, <3>2 DEF Reread
    <3>3. CASE r.state \in {"verified", "rejected"}
      BY <2>1, <3>3 DEF Reread
    <3>. QED  BY <1>3, <1>4, <1>6, <3>1, <3>2, <3>3 DEF Writings
  <2>4. s \in {"verified", "rejected", "unknown"} /\ (s \in Unresolved => r.state \in Unresolved)
    BY <2>3 DEF Reread, Finding, Unresolved
  <2>5. receipt \in Writings /\ receipt.state = s
    BY <1>3, <1>4, <2>2, <2>4, Judged
  <2>6. Noted(w, receipt) /\ Moves(w, "returned", s)
    <3>1. "returned" \in Places /\ s \in Outcomes
      BY <2>4 DEF Places, Outcomes
    <3>. QED  BY <1>2, <2>1, <2>2, <2>5, <3>1, WritesNoted, Goes2Moves
  <2>7. Journals(w, receipt, "returned", s)
    BY <1>1, <2>4, <2>5, <2>6 DEF Journals, OutcomesAt
  <2>8. WriteInv'
    BY <1>1, <1>2, <1>4, <2>4, <2>5, <2>7, JournalsWrite DEF InWrite
  <2>. QED  BY <1>1, <1>4, <2>2, <2>3, <2>7, <2>8
<1>. QED  BY <1>5, <1>6

\* A request is sent, and answered or not.
LEMMA PostWrite ==
    ASSUME Arranged, WriteInv, NEW w \in Workers, Post(w)
    PROVE  /\ WriteInv' /\ disp[w].at = "submitted" /\ Alone(w) /\ disp[w].row \in Jobs
           /\ disp[w].host \in Hosts /\ UNCHANGED <<hostOnly, rows, journal>>
           /\ \E outcome \in {"accepted", "refused", "lost"} :
                 /\ Moves(w, "answered", outcome)
                 /\ \/ TakesEffect(disp[w].row, disp[w].host) /\ wire' = wire /\ outcome # "refused"
                    \/ wire' = wire \cup {Sent(w)} /\ acted' = acted /\ outcome = "lost"
                    \/ wire' = wire /\ acted' = acted
<1>. DEFINE j == disp[w].row
            h == disp[w].host
<1>1. /\ disp[w].at = "submitted" /\ UNCHANGED <<hostOnly, rows, journal>>
      /\ \/ TakesEffect(j, h) /\ Goes2(w, "answered", "accepted") /\ wire' = wire
         \/ Goes2(w, "answered", "refused") /\ acted' = acted /\ wire' = wire
         \/ /\ Goes2(w, "answered", "lost")
            /\ \/ TakesEffect(j, h) /\ wire' = wire
               \/ wire' = wire \cup {Sent(w)} /\ acted' = acted
               \/ acted' = acted /\ wire' = wire
  BY DEF Post
<1>2. /\ WriterOf(w) /\ Alone(w) /\ disp[w].at \in AtMfl /\ disp[w].at \in InWrite /\ TypeOK /\ OutboxTyped
  BY <1>1 DEF WriteInv, OneWriter, AtMfl, InWrite, TypeOK
<1>3. j \in Jobs /\ h \in Hosts
  BY <1>2, EntryTyped
<1>4. PICK outcome \in {"accepted", "refused", "lost"} :
         /\ Goes2(w, "answered", outcome)
         /\ \/ TakesEffect(j, h) /\ wire' = wire /\ outcome # "refused"
            \/ wire' = wire \cup {Sent(w)} /\ acted' = acted /\ outcome = "lost"
            \/ wire' = wire /\ acted' = acted
  BY <1>1
<1>5. Moves(w, "answered", outcome)
  BY <1>2, <1>4, Goes2Moves DEF Places, Outcomes, InWrite
<1>6. OneWriter' /\ DoubtInScope'
  <2>1. /\ \A v \in Workers \ {w} : disp'[v] = disp[v]
        /\ disp'[w].at = "answered" /\ disp'[w].outcome = outcome
        /\ Entry(w)' = Entry(w) /\ Scope(w)' = Scope(w)
        /\ disp'[w].row = disp[w].row /\ disp'[w].host = disp[w].host
    BY <1>5 DEF Moves, Entry, Scope
  <2>3. WriterOf(w)'
    BY <1>1, <1>2, <2>1 DEF WriterOf, AtMfl, InWrite, StateAt, OutcomesAt, Outcomes
  <2>4. OneWriter'
    BY <1>1, <1>2, <2>1, <2>3, WriterKept DEF WriteInv, Alone
  <2>. QED  BY <1>1, <2>4, DoubtKept DEF WriteInv
<1>7. LeagueTyped'
  BY <1>1, <1>2, LeagueSame DEF TypeOK, LeagueTyped
<1>8. acted' \in [Jobs -> Seq(Hosts)]
  BY <1>2, <1>3, <1>4, TakesEffectTyped DEF OutboxTyped
<1>9. OutboxTyped'
  BY <1>1, <1>2, <1>3, <1>4, <1>5, <1>8 DEF OutboxTyped, Moves, Sent
<1>. QED  BY <1>1, <1>2, <1>3, <1>4, <1>5, <1>6, <1>7, <1>9 DEF WriteInv, TypeOK

LEMMA DispSame ==
    ASSUME OneWriter, DoubtInScope, disp' = disp, journal' = journal
    PROVE  OneWriter' /\ DoubtInScope'
<1>1. OneWriter'
  BY DEF OneWriter, WriterOf, Alone, Entry, Scope
<1>2. DoubtInScope'
  BY DEF DoubtInScope, OpenWrites
<1>. QED  BY <1>1, <1>2

LEMMA LandWrite ==
    ASSUME Arranged, WriteInv, NEW m \in wire, Land(m)
    PROVE  WriteInv' /\ m \in Hosts \X Jobs
<1>1. /\ m \in Hosts \X Jobs /\ TakesEffect(m[2], m[1]) /\ wire' = wire \ {m}
      /\ UNCHANGED <<hostOnly, rows, journal, disp>>
  BY DEF Land, WriteInv, TypeOK, OutboxTyped
<1>2. acted' \in [Jobs -> Seq(Hosts)]
  BY <1>1, TakesEffectTyped DEF WriteInv, TypeOK
<1>3. TypeOK'
  <2>1. LeagueTyped'
    BY <1>1, LeagueSame DEF WriteInv, TypeOK, LeagueTyped
  <2>2. OutboxTyped'
    BY <1>1, <1>2 DEF WriteInv, TypeOK, OutboxTyped
  <2>. QED  BY <2>1, <2>2 DEF TypeOK
<1>4. OneWriter' /\ DoubtInScope'
  BY <1>1, DispSame DEF WriteInv
<1>. QED  BY <1>1, <1>3, <1>4 DEF WriteInv

\* Rows alone change.
LEMMA RowsWrite ==
    ASSUME Arranged, WriteInv, rows' \in [Jobs -> Rows], UNCHANGED <<hostOnly, writes, disp>>
    PROVE  WriteInv'
<1>1. TypeOK'
  BY TypesSame DEF WriteInv, TypeOK, OutboxTyped
<1>2. OneWriter' /\ DoubtInScope'
  BY DispSame DEF WriteInv, writes
<1>. QED  BY <1>1, <1>2 DEF WriteInv

LEMMA BuryWrite ==
    ASSUME Arranged, WriteInv, NEW j \in Jobs, Bury(j)
    PROVE  /\ WriteInv' /\ UNCHANGED <<hostOnly, writes, disp>>
           /\ \E status \in {"held", "dead"} :
                 /\ RowTo(j, status, FALSE, rows[j].attempts, rows[j].fence)
                 /\ status = "dead" => ~Native(j)
<1>1. PICK status \in {"held", "dead"} :
         /\ rows' = [rows EXCEPT ![j].status = status, ![j].live = FALSE]
         /\ status = "dead" => ~Native(j)
  BY DEF Bury
<1>2. RowTo(j, status, FALSE, rows[j].attempts, rows[j].fence)
  BY <1>1, RowPutAway DEF WriteInv, TypeOK, Statuses
<1>3. UNCHANGED <<hostOnly, writes, disp>>
  BY DEF Bury, writes, outboxVars
<1>. QED  BY <1>1, <1>2, <1>3, RowsWrite DEF RowTo

LEMMA ExpiryWrite ==
    ASSUME Arranged, WriteInv, NEW j \in Jobs, LeaseExpires(j)
    PROVE  /\ WriteInv' /\ UNCHANGED <<hostOnly, writes, disp>>
           /\ RowTo(j, rows[j].status, FALSE, rows[j].attempts, rows[j].fence)
<1>1. RowTo(j, rows[j].status, FALSE, rows[j].attempts, rows[j].fence)
  BY RowExpired DEF LeaseExpires, WriteInv, TypeOK
<1>2. UNCHANGED <<hostOnly, writes, disp>>
  BY DEF LeaseExpires
<1>. QED  BY <1>1, <1>2, RowsWrite DEF RowTo

LEMMA CrashWrite ==
    ASSUME Arranged, WriteInv, NEW w \in Workers, Crash(w)
    PROVE  /\ WriteInv' /\ Leaves(w) /\ UNCHANGED <<hostOnly, rows, journal, acted>>
           /\ \/ wire' = wire
              \/ /\ disp[w].at = "submitted" /\ wire' = wire \cup {Sent(w)}
                 /\ disp[w].row \in Jobs /\ disp[w].host \in Hosts
<1>1. /\ Leaves(w) /\ UNCHANGED <<hostOnly, rows, journal, acted>>
      /\ wire' = wire \/ (disp[w].at = "submitted" /\ wire' = wire \cup {Sent(w)})
  BY RestsLeaves DEF Crash, WriteInv, TypeOK
<1>2. disp[w].at = "submitted" => disp[w].row \in Jobs /\ disp[w].host \in Hosts
  BY EntryTyped DEF WriteInv, OneWriter, AtMfl, InWrite
<1>3. TypeOK'
  <2>1. LeagueTyped'
    BY <1>1, LeagueSame DEF WriteInv, TypeOK, LeagueTyped
  <2>2. wire' \subseteq Hosts \X Jobs
    BY <1>1, <1>2 DEF WriteInv, TypeOK, OutboxTyped, Sent
  <2>3. OutboxTyped'
    BY <1>1, <2>2 DEF WriteInv, TypeOK, OutboxTyped, Leaves
  <2>. QED  BY <2>1, <2>3 DEF TypeOK
<1>4. OneWriter' /\ DoubtInScope'
  <2>1. /\ \A v \in Workers \ {w} : disp'[v] = disp[v]
        /\ disp'[w].at = "idle" /\ "idle" \notin AtMfl /\ "idle" \notin InWrite
        /\ disp'[w].outcome \in OutcomesAt("idle")
    BY <1>1 DEF Leaves, Dispatchers, OutcomesAt, AtMfl, InWrite
  <2>3. WriterOf(w)'
    BY <2>1 DEF WriterOf, AtMfl, InWrite
  <2>4. OneWriter'
    BY <1>1, <2>1, <2>3, WriterKept DEF WriteInv
  <2>. QED  BY <1>1, <2>4, DoubtKept DEF WriteInv
<1>. QED  BY <1>1, <1>2, <1>3, <1>4 DEF WriteInv

-----------------------------------------------------------------------------
(* Steps of the league: turns, hosts and epochs.                           *)

LEMMA LeagueWrite ==
    ASSUME WriteInv, LeagueTyped', UNCHANGED outboxVars
    PROVE  WriteInv'
<1>1. OutboxTyped'
  BY DEF WriteInv, TypeOK, OutboxTyped, outboxVars
<1>2. OneWriter' /\ DoubtInScope'
  BY DispSame DEF WriteInv, outboxVars
<1>. QED  BY <1>1, <1>2 DEF WriteInv, TypeOK

\* Turn j alone changes.
LEMMA TurnSet ==
    ASSUME LeagueTyped, NEW j \in Jobs,
           NEW status \in {"none", "pending", "running", "done", "dead", "cancelled"},
           jobs' = [jobs EXCEPT ![j].status = status]
    PROVE  /\ jobs' \in [Jobs -> Turns]
           /\ jobs'[j].status = status /\ jobs'[j].epoch = jobs[j].epoch
           /\ \A k \in Jobs \ {j} : jobs'[k] = jobs[k]
BY DEF LeagueTyped, Turns

\* The row a turn queues.
NewRow(j, row) ==
    /\ row \in Rows /\ row.status = "pending" /\ row.attempts = 0 /\ row.fence = 0 /\ ~row.live
    /\ row.host = host /\ row.holder = holder[OwnerOf[j]]

LEMMA EnqueueTyped ==
    ASSUME Arranged, LeagueTyped, NEW j \in Jobs, Enqueue(j)
    PROVE  /\ LeagueTyped' /\ \E row : NewRow(j, row) /\ rows' = [rows EXCEPT ![j] = row]
           /\ jobs'[j].status = "done" /\ jobs'[j].epoch = jobs[j].epoch
           /\ \A k \in Jobs \ {j} : jobs'[k] = jobs[k]
<1>1. PICK h : h = host
  OBVIOUS
<1>2. PICK o : o = holder[OwnerOf[j]]
  OBVIOUS
<1>3. PICK row : row = [NoRow EXCEPT !.status = "pending", !.host = h, !.holder = o]
  OBVIOUS
<1>4. h \in Hosts /\ o \in {0, 1}
  BY <1>1, <1>2 DEF LeagueTyped, Arranged
<1>5. NewRow(j, row)
  BY <1>1, <1>2, <1>3, <1>4 DEF NoRow, Rows, NewRow
<1>6. rows' = [rows EXCEPT ![j] = row]
  BY <1>1, <1>2, <1>3 DEF Enqueue
<1>7. rows' \in [Jobs -> Rows]
  BY <1>5, <1>6 DEF LeagueTyped, NewRow
<1>8. jobs' \in [Jobs -> Turns] /\ jobs'[j].status = "done" /\ jobs'[j].epoch = jobs[j].epoch
      /\ \A k \in Jobs \ {j} : jobs'[k] = jobs[k]
  BY TurnSet DEF Enqueue
<1>9. LeagueTyped'
  BY <1>7, <1>8 DEF LeagueTyped, Enqueue
<1>. QED  BY <1>5, <1>6, <1>8, <1>9

LEMMA TurnTyped ==
    ASSUME LeagueTyped, NEW j \in Jobs, Wake(j) \/ StartTurn(j) \/ EndTurn(j)
    PROVE  /\ LeagueTyped' /\ UNCHANGED <<host, switches, epochs, rows, enabled, holder>>
           /\ \E status \in {"pending", "running", "dead"} :
                 jobs' = [jobs EXCEPT ![j].status = status]
<1>1. PICK status \in {"pending", "running", "dead"} : jobs' = [jobs EXCEPT ![j].status = status]
  BY DEF Wake, StartTurn, EndTurn
<1>2. UNCHANGED <<host, switches, epochs, rows, enabled, holder>>
  BY DEF Wake, StartTurn, EndTurn
<1>. QED  BY <1>1, <1>2, TurnSet DEF LeagueTyped

Keys == Nat \X {"manual", "arm", "restore"}

LEMMA BoundTyped ==
    ASSUME LeagueTyped, NEW key \in Keys, NEW new \in Hosts, Bound(key, new),
           UNCHANGED <<epochs, jobs, holder>>
    PROVE  LeagueTyped'
<1>1. rows' \in [Jobs -> Rows]
  BY DEF Bound, LeagueTyped, Rows
<1>2. [key |-> key, from |-> host, to |-> new] \in Bindings
  BY DEF Bindings, LeagueTyped, Keys
<1>3. switches' \in Seq(Bindings)
  BY <1>2 DEF Bound, LeagueTyped
<1>. QED  BY <1>1, <1>3 DEF Bound, LeagueTyped

LEMMA NewHostTyped ==
    ASSUME LeagueTyped, NEW kind, NEW league,
           (kind = "mfl" /\ league \in MflLeagues) \/ (kind = "custom" /\ league \in Leagues)
    PROVE  [kind |-> kind, league |-> league, version |-> host.version + 1] \in Hosts
<1>1. host.version + 1 \in Nat
  BY DEF LeagueTyped, Hosts
<1>. QED  BY <1>1 DEF Hosts, Leagues

LEMMA SelectTyped ==
    ASSUME Arranged, LeagueTyped, NEW b \in Selectable, SelectHost(b[1], b[2])
    PROVE  LeagueTyped'
<1>1. (b[1] = "mfl" /\ b[2] \in MflLeagues) \/ (b[1] = "custom" /\ b[2] \in Leagues)
  BY DEF Arranged, MflLeagues
<1>2. [kind |-> b[1], league |-> b[2], version |-> host.version + 1] \in Hosts
  BY <1>1, NewHostTyped
<1>3. <<0, "manual">> \in Keys
  BY DEF Keys
<1>. QED  BY <1>2, <1>3, BoundTyped DEF SelectHost

LEMMA BindOnceTyped ==
    ASSUME Arranged, LeagueTyped, NEW e \in Epochs, NEW step \in {"arm", "restore"}, NEW version,
           NEW league \in MflLeagues, BindOnce(<<e, step>>, version, league),
           UNCHANGED <<epochs, jobs, holder>>
    PROVE  LeagueTyped'
<1>1. [kind |-> "mfl", league |-> league, version |-> host.version + 1] \in Hosts
  BY NewHostTyped
<1>2. <<e, step>> \in Keys
  BY DEF Keys, Arranged
<1>. QED  BY <1>1, <1>2, BoundTyped DEF BindOnce

\* Epoch e alone moves on; what it was armed with stays.
Advances(e, status, trial) ==
    /\ epochs' \in [Epochs -> Trials]
    /\ \A d \in Epochs \ {e} : epochs'[d] = epochs[d]
    /\ epochs'[e].status = status /\ epochs'[e].trial = trial
    /\ epochs'[e].original = epochs[e].original /\ epochs'[e].pins = epochs[e].pins
    /\ epochs'[e].born = epochs[e].born

LEMMA StatusAdvances ==
    ASSUME LeagueTyped, NEW e \in Epochs, NEW status \in {"stopped", "restoring", "restored"},
           epochs' = [epochs EXCEPT ![e].status = status]
    PROVE  Advances(e, status, epochs[e].trial)
BY DEF LeagueTyped, Trials, Advances

LEMMA ArmTyped ==
    ASSUME Arranged, LeagueTyped, NEW e \in Epochs, Arm(e)
    PROVE  /\ LeagueTyped' /\ epochs'[e].status = "arming" /\ epochs'[e].original = host
           /\ epochs'[e].born = OpenWrites
           /\ \A d \in Epochs \ {e} : epochs'[d] = epochs[d]
<1>1. PICK h : h = host
  OBVIOUS
<1>2. PICK born : born = OpenWrites
  OBVIOUS
<1>3. PICK pins : pins = {<<o, holder[o]>> : o \in Owners}
  OBVIOUS
<1>4. h \in Hosts /\ born \in SUBSET (Scopes \X Jobs) /\ pins \in SUBSET (Owners \X {0, 1})
  BY <1>1, <1>2, <1>3 DEF LeagueTyped, OpenWrites
<1>5. epochs' = [epochs EXCEPT ![e] = [status |-> "arming", original |-> h, trial |-> NoHost,
                                       pins |-> pins, born |-> born]]
  BY <1>1, <1>2, <1>3 DEF Arm
<1>6. [status |-> "arming", original |-> h, trial |-> NoHost, pins |-> pins, born |-> born] \in Trials
  BY <1>4, NoHostTyped DEF Trials
<1>7. epochs' \in [Epochs -> Trials]
  BY <1>5, <1>6 DEF LeagueTyped
<1>8. LeagueTyped'
  BY <1>7 DEF LeagueTyped, Arm
<1>. QED  BY <1>1, <1>2, <1>5, <1>8 DEF LeagueTyped

LEMMA ArmedTyped ==
    ASSUME LeagueTyped, NEW e \in Epochs, Armed(e)
    PROVE  LeagueTyped' /\ Advances(e, "armed", host)
<1>1. PICK h : h = host
  OBVIOUS
<1>2. epochs' = [epochs EXCEPT ![e].status = "armed", ![e].trial = h] /\ h \in Hosts
  BY <1>1 DEF Armed, LeagueTyped
<1>3. Advances(e, "armed", h)
  BY <1>2 DEF LeagueTyped, Trials, Advances
<1>. QED  BY <1>1, <1>3 DEF Armed, LeagueTyped, Advances

LEMMA WakeForTrialTyped ==
    ASSUME LeagueTyped, NEW e \in Epochs, NEW j \in Jobs, WakeForTrial(j, e)
    PROVE  /\ LeagueTyped' /\ jobs'[j].status = "pending" /\ jobs'[j].epoch = e
           /\ \A k \in Jobs \ {j} : jobs'[k] = jobs[k]
<1>1. [status |-> "pending", epoch |-> e] \in Turns
  BY DEF Turns
<1>. QED  BY <1>1 DEF WakeForTrial, LeagueTyped

\* A row changes its status and nothing else.
Restated(j, status) ==
    /\ rows'[j].status = status /\ rows'[j].live = rows[j].live
    /\ rows'[j].attempts = rows[j].attempts /\ rows'[j].fence = rows[j].fence
    /\ rows'[j].host = rows[j].host /\ rows'[j].holder = rows[j].holder

LEMMA StopTyped ==
    ASSUME LeagueTyped, NEW e \in Epochs, Stop(e)
    PROVE  /\ LeagueTyped' /\ Advances(e, "stopped", epochs[e].trial)
           /\ \A j \in Jobs :
                 /\ jobs'[j].epoch = jobs[j].epoch
                 /\ jobs'[j].status = IF j \in TurnsOf(e) /\ jobs[j].status = "pending"
                                      THEN "cancelled" ELSE jobs[j].status
                 /\ Restated(j, IF j \in Unsent(e) THEN "dead" ELSE rows[j].status)
<1>1. Advances(e, "stopped", epochs[e].trial)
  BY StatusAdvances DEF Stop
<1>2. ASSUME NEW j \in Jobs
      PROVE  /\ jobs'[j] \in Turns /\ jobs'[j].epoch = jobs[j].epoch
             /\ jobs'[j].status = IF j \in TurnsOf(e) /\ jobs[j].status = "pending"
                                  THEN "cancelled" ELSE jobs[j].status
  <2>1. jobs[j] \in Turns
    BY DEF LeagueTyped
  <2>2. jobs'[j] = IF j \in TurnsOf(e) /\ jobs[j].status = "pending"
                   THEN [jobs[j] EXCEPT !.status = "cancelled"] ELSE jobs[j]
    BY DEF Stop
  <2>. QED  BY <2>1, <2>2 DEF Turns
<1>3. ASSUME NEW j \in Jobs
      PROVE  rows'[j] \in Rows /\ Restated(j, IF j \in Unsent(e) THEN "dead" ELSE rows[j].status)
  <2>1. rows[j] \in Rows
    BY DEF LeagueTyped
  <2>2. rows'[j] = IF j \in Unsent(e) THEN [rows[j] EXCEPT !.status = "dead"] ELSE rows[j]
    BY DEF Stop
  <2>. QED  BY <2>1, <2>2 DEF Rows, Restated
<1>4. jobs' \in [Jobs -> Turns] /\ rows' \in [Jobs -> Rows]
  <2>1. jobs' = [j \in Jobs |-> jobs'[j]] /\ rows' = [j \in Jobs |-> rows'[j]]
    BY DEF Stop
  <2>. QED  BY <1>2, <1>3, <2>1
<1>5. LeagueTyped'
  BY <1>1, <1>4 DEF Stop, LeagueTyped, Advances
<1>. QED  BY <1>1, <1>2, <1>3, <1>5

LEMMA QuarantineTyped ==
    ASSUME LeagueTyped, NEW e \in Epochs, NEW j \in Jobs, Quarantine(e, j)
    PROVE  LeagueTyped' /\ RowTo(j, "dead", FALSE, rows[j].attempts, rows[j].fence + 1)
<1>1. RowTo(j, "dead", FALSE, rows[j].attempts, rows[j].fence + 1)
  BY RowRetired DEF Quarantine
<1>. QED  BY <1>1 DEF Quarantine, LeagueTyped, RowTo

LEMMA RestoreTyped ==
    ASSUME LeagueTyped, NEW e \in Epochs, Restore(e) \/ Restored(e)
    PROVE  /\ LeagueTyped' /\ UNCHANGED <<host, switches, jobs, rows, enabled, holder>>
           /\ \E status \in {"restoring", "restored"} : Advances(e, status, epochs[e].trial)
<1>1. PICK status \in {"restoring", "restored"} : epochs' = [epochs EXCEPT ![e].status = status]
  BY DEF Restore, Restored
<1>2. Advances(e, status, epochs[e].trial)
  BY <1>1, StatusAdvances
<1>3. UNCHANGED <<host, switches, jobs, rows, enabled, holder>>
  BY DEF Restore, Restored
<1>. QED  BY <1>1, <1>2, <1>3 DEF LeagueTyped, Advances

LEMMA EpochWrite ==
    ASSUME Arranged, WriteInv, EpochNext
    PROVE  WriteInv'
<1>1. LeagueTyped
  BY DEF WriteInv, TypeOK
<1>2. ASSUME NEW e \in Epochs, Arm(e)
      PROVE  WriteInv'
  BY <1>1, <1>2, ArmTyped, LeagueWrite DEF Arm
<1>3. ASSUME NEW e \in Epochs, ArmHost(e)
      PROVE  WriteInv'
  <2>1. LeagueTyped'
    BY <1>1, <1>3, BindOnceTyped DEF ArmHost, MflLeagues
  <2>. QED  BY <1>3, <2>1, LeagueWrite DEF ArmHost
<1>4. ASSUME NEW e \in Epochs, Armed(e)
      PROVE  WriteInv'
  BY <1>1, <1>4, ArmedTyped, LeagueWrite DEF Armed
<1>5. ASSUME NEW e \in Epochs, Stop(e)
      PROVE  WriteInv'
  BY <1>1, <1>5, StopTyped, LeagueWrite DEF Stop
<1>6. ASSUME NEW e \in Epochs, Restore(e) \/ Restored(e)
      PROVE  WriteInv'
  <2>1. UNCHANGED outboxVars
    BY <1>6 DEF Restore, Restored
  <2>. QED  BY <1>1, <1>6, <2>1, RestoreTyped, LeagueWrite
<1>7. ASSUME NEW e \in Epochs, RestoreHost(e)
      PROVE  WriteInv'
  <2>1. LeagueTyped'
    BY <1>1, <1>7, BindOnceTyped DEF RestoreHost, MflLeagues
  <2>. QED  BY <1>7, <2>1, LeagueWrite DEF RestoreHost
<1>8. ASSUME NEW e \in Epochs, NEW j \in Jobs, WakeForTrial(j, e)
      PROVE  WriteInv'
  BY <1>1, <1>8, WakeForTrialTyped, LeagueWrite DEF WakeForTrial
<1>9. ASSUME NEW e \in Epochs, NEW j \in Jobs, Quarantine(e, j)
      PROVE  WriteInv'
  BY <1>1, <1>9, QuarantineTyped, LeagueWrite DEF Quarantine
<1>. QED  BY <1>2, <1>3, <1>4, <1>5, <1>6, <1>7, <1>8, <1>9 DEF EpochNext

LEMMA OperatorWrite ==
    ASSUME Arranged, WriteInv, OperatorNext
    PROVE  WriteInv'
<1>1. LeagueTyped'
  <2>1. ASSUME NEW b \in Selectable, SelectHost(b[1], b[2])
        PROVE  LeagueTyped'
    BY <2>1, SelectTyped DEF WriteInv, TypeOK
  <2>2. ASSUME NEW o \in Owners, SwitchWorker(o) \/ HandOver(o)
        PROVE  LeagueTyped'
    BY <2>2 DEF WriteInv, TypeOK, LeagueTyped, SwitchWorker, HandOver, Holdings
  <2>. QED  BY <2>1, <2>2 DEF OperatorNext
<1>. QED  BY <1>1, LeagueWrite DEF OperatorNext

LEMMA TurnWrite ==
    ASSUME Arranged, WriteInv, TurnNext
    PROVE  WriteInv'
<1>1. PICK j \in Jobs : Wake(j) \/ StartTurn(j) \/ Enqueue(j) \/ EndTurn(j)
  BY DEF TurnNext
<1>2. LeagueTyped'
  BY <1>1, TurnTyped, EnqueueTyped DEF WriteInv, TypeOK
<1>. QED  BY <1>2, LeagueWrite DEF TurnNext

LEMMA OutboxWrite ==
    ASSUME Arranged, WriteInv, OutboxNext
    PROVE  WriteInv'
<1>1. ASSUME NEW w \in Workers, DispatchStep(w)
      PROVE  WriteInv'
  BY <1>1, ClaimWrite, StaleWrite, ContextWrite, LoadWrite, ExecuteWrite, BeginWrite, PreflightWrite,
     PostWrite, NoteWrite, ReadBackWrite, AcknowledgeWrite, AcknowledgeFailsWrite, SettleWrite
  DEF DispatchStep
<1>2. ASSUME NEW w \in Workers, Crash(w)
      PROVE  WriteInv'
  BY <1>2, CrashWrite
<1>3. ASSUME NEW w \in Workers, Reconcile(w)
      PROVE  WriteInv'
  BY <1>3, ReconcileWrite
<1>4. ASSUME NEW w \in Workers, NEW j \in Jobs, ClaimHeld(w, j)
      PROVE  WriteInv'
  BY <1>4, ClaimWrite
<1>5. ASSUME NEW j \in Jobs, Bury(j)
      PROVE  WriteInv'
  BY <1>5, BuryWrite
<1>6. ASSUME NEW j \in Jobs, LeaseExpires(j)
      PROVE  WriteInv'
  BY <1>6, ExpiryWrite
<1>7. ASSUME NEW m \in wire, Land(m)
      PROVE  WriteInv'
  BY <1>7, LandWrite
<1>. QED  BY <1>1, <1>2, <1>3, <1>4, <1>5, <1>6, <1>7 DEF OutboxNext

LEMMA WriteInit ==
    ASSUME Arranged, NEW first \in Hosts, TrialInit(first)
    PROVE  WriteInv
<1>1. NoRow \in Rows
  BY NoHostTyped DEF NoRow, Rows
<1>2. NoEpoch \in Trials
  BY NoHostTyped DEF NoEpoch, Trials
<1>3. NoWrite \in Writings
  BY DEF NoWrite, Writings
<1>4. [status |-> "none", epoch |-> 0] \in Turns
  BY DEF Turns
<1>5. LeagueTyped
  BY <1>1, <1>2, <1>4 DEF TrialInit, HostInit, LeagueTyped, FirstHolders, Holdings
<1>6. OutboxTyped
  BY <1>3, IdleTyped DEF TrialInit, OutboxInit, OutboxTyped
<1>7. OneWriter
  BY DEF TrialInit, OutboxInit, OneWriter, WriterOf, Idle, InWrite, OutcomesAt, Outcomes
<1>8. DoubtInScope
  BY DEF TrialInit, OutboxInit, DoubtInScope, OpenWrites, NoWrite, Unresolved
<1>. QED  BY <1>5, <1>6, <1>7, <1>8 DEF WriteInv, TypeOK

LEMMA WriteNext ==
    ASSUME Arranged, WriteInv, TrialNext
    PROVE  WriteInv'
BY EpochWrite, OperatorWrite, TurnWrite, OutboxWrite DEF TrialNext

LEMMA WriteStutter ==
    ASSUME WriteInv, UNCHANGED trialVars
    PROVE  WriteInv'
<1>1. UNCHANGED outboxVars /\ LeagueTyped'
  BY DEF trialVars, hostVars, WriteInv, TypeOK, LeagueTyped
<1>. QED  BY <1>1, LeagueWrite

(* While the outcome of a write to MFL is open, no other write of its scope, *)
(* that is of its MFL league under the same owners, is sent that concerns    *)
(* one of its franchises (mfl/journal.ts: unresolved,                        *)
(* MFL_UNRESOLVED_OPERATION_HOLD; mfl/adapter.ts: scope), however leases run *)
(* out, dispatchers crash, hosts are switched and franchises are sold.       *)
THEOREM DoubtHoldsScope ==
    ASSUME Arranged, NEW first \in Hosts
    PROVE  TrialInit(first) /\ [][TrialNext]_trialVars => []DoubtInScope
<1>1. TrialInit(first) => WriteInv
  BY WriteInit
<1>2. WriteInv /\ [TrialNext]_trialVars => WriteInv'
  BY WriteNext, WriteStutter
<1>3. WriteInv => DoubtInScope
  BY DEF WriteInv
<1>. QED  BY <1>1, <1>2, <1>3, PTL

\* With one deployment file there is one scope to an MFL league.
LEMMA OneScope ==
    ASSUME ~Reissued, TypeOK, NEW m \in OpenWrites
    PROVE  m[1] = Home(m[1][1]) /\ m[1][1] \in MflLeagues /\ m[2] \in Jobs
<1>1. PICK l \in MflLeagues, h \in Holdings, j \in Jobs : m = <<<<l, h>>, j>>
  BY DEF OpenWrites, Scopes
<1>2. m \in Scopes \X Jobs /\ journal[m] # NoWrite
  BY DEF OpenWrites, Unresolved, NoWrite
<1>3. h = FirstHolders
  BY <1>1, <1>2 DEF TypeOK, OutboxTyped, Nameable
<1>. QED  BY <1>1, <1>3 DEF Home

(* While the outcome of a write to MFL is open, no other write to that MFL   *)
(* league concerning one of its franchises is sent, whoever owns them by     *)
(* then - as long as the operator does not write the MFL deployment file     *)
(* anew after a sale (mfl/adapter.ts: scope hashes the owners; the run       *)
(* resold_scope shows what happens otherwise).                               *)
THEOREM DoubtHoldsWrites ==
    ASSUME Arranged, ~Reissued, NEW first \in Hosts
    PROVE  TrialInit(first) /\ [][TrialNext]_trialVars => []NoWriteOverDoubt
<1>1. TrialInit(first) => WriteInv
  BY WriteInit
<1>2. WriteInv /\ [TrialNext]_trialVars => WriteInv'
  BY WriteNext, WriteStutter
<1>3. WriteInv => NoWriteOverDoubt
  BY OneScope DEF WriteInv, DoubtInScope, NoWriteOverDoubt
<1>. QED  BY <1>1, <1>2, <1>3, PTL

-----------------------------------------------------------------------------
(* What a step leaves of claims and effects.                               *)

\* Row j goes on: it stays where it is pinned, and is not forgotten.
RowOn(j) ==
    /\ rows'[j].host = rows[j].host
    /\ rows[j].status # "none" => rows'[j].status # "none"
    /\ rows[j].attempts <= rows'[j].attempts /\ rows[j].fence <= rows'[j].fence

\* Nothing is done about action j.
Untouched(j) ==
    /\ acted'[j] = acted[j]
    /\ {m \in wire' : m[2] = j} = {m \in wire : m[2] = j}
    /\ \A l \in MflLeagues : journal'[<<Home(l), j>>] = journal[<<Home(l), j>>]

\* Row j goes on as what is known of action j allows.
RowLife(j) ==
    /\ RowOn(j)
    /\ rows[j].status = "none" => rows'[j] = rows[j]
    /\ rows'[j].status = "delivered" => rows[j].status = "delivered" \/ acted[j] # <<>>
    /\ rows'[j].status = "dead" /\ Native(j) =>
          \/ rows[j].status = "dead" /\ rows'[j].attempts = rows[j].attempts
          \/ Receipt(j).state = "rejected" \/ rows'[j].attempts = 0 \/ j \in retired'

DoneSame(j) == (jobs'[j].status = "done") = (jobs[j].status = "done")

LEMMA PinnedLeague ==
    ASSUME TypeOK, NEW j \in Jobs, Native(j), rows[j].status # "none", RowOf(j)
    PROVE  rows[j].host.league \in MflLeagues /\ rows[j].host \in Hosts
BY DEF TypeOK, LeagueTyped, Rows, RowOf, Hosts

LEMMA UntouchedDeed ==
    ASSUME TypeOK, NEW j \in Jobs, DeedOf(j), RowOf(j), Untouched(j), RowLife(j), DoneSame(j),
           TypeOK', retired \subseteq retired'
    PROVE  DeedOf(j)' /\ RowOf(j)' /\ Quiet(j)' = Quiet(j)
<1>1. Quiet(j)' = Quiet(j) /\ acted'[j] = acted[j] /\ rows'[j].host = rows[j].host
  BY DEF Quiet, Untouched, RowLife, RowOn
<1>2. rows[j].attempts \in Nat /\ rows'[j].attempts \in Nat /\ rows[j].attempts <= rows'[j].attempts
  BY DEF RowLife, RowOn, TypeOK, LeagueTyped, Rows
<1>3. Native(j) /\ rows[j].status # "none" => Receipt(j)' = Receipt(j)
  BY <1>1, PinnedLeague DEF Receipt, Untouched
<1>4. rows[j].status = "none" => Quiet(j)
  BY DEF RowOf
<1>5. DeedOf(j)'
  <2>1. acted'[j] \in {<<>>, <<rows'[j].host>>}
    BY <1>1 DEF DeedOf
  <2>2. \A m \in wire' : m[2] = j => m[1] = rows'[j].host /\ acted'[j] = <<>> /\ Native(j)
    BY <1>1 DEF DeedOf, Untouched
  <2>3. ~Quiet(j)' /\ Native(j) =>
          Receipt(j)'.state \in {"submitted", "unknown", "verified"} /\ ~Receipt(j)'.rejected
    BY <1>1, <1>3, <1>4 DEF DeedOf
  <2>4. \A l \in MflLeagues :
          /\ journal'[<<Home(l), j>>].state # "none" =>
                Native(j) /\ l = rows'[j].host.league /\ rows'[j].attempts > 0
          /\ journal'[<<Home(l), j>>].state = "verified" => acted'[j] # <<>>
          /\ journal'[<<Home(l), j>>].state \in {"prepared", "submitted"} => ~journal'[<<Home(l), j>>].rejected
    BY <1>1, <1>2 DEF DeedOf, Untouched
  <2>. QED  BY <2>1, <2>2, <2>3, <2>4 DEF DeedOf
<1>6. RowOf(j)'
  <2>1. CASE rows[j].status = "none"
    BY <1>1, <2>1 DEF RowOf, RowLife, DoneSame
  <2>2. CASE rows[j].status # "none"
    <3>1. rows'[j].status # "none" /\ (Native(j) => Receipt(j)' = Receipt(j))
      BY <1>3, <2>2 DEF RowLife, RowOn
    <3>. QED  BY <1>1, <2>2, <3>1 DEF RowOf, RowLife, DoneSame
  <2>. QED  BY <2>1, <2>2
<1>. QED  BY <1>1, <1>5, <1>6

\* Dispatcher v is still about what it was.
LEMMA ClaimKept ==
    ASSUME TypeOK, TypeOK', NEW v \in Workers, WriterOf(v), ClaimOf(v), disp'[v] = disp[v],
           disp[v].at # "idle" =>
              /\ RowOn(disp[v].row)
              /\ disp[v].at \in {"checked", "loaded"} => Holds(v)'
              /\ disp[v].at = "checked" => host' = host
              /\ disp[v].at \in InWrite => (Quiet(disp[v].row) => Quiet(disp[v].row)')
              /\ Receipt(disp[v].row).state = "rejected" /\ Native(disp[v].row) =>
                    Receipt(disp[v].row)'.state = "rejected"
    PROVE  ClaimOf(v)'
<1>1. CASE disp[v].at = "idle"
  BY <1>1 DEF ClaimOf
<1>2. CASE disp[v].at # "idle"
  <2>1. PICK d : d = disp[v]
    OBVIOUS
  <2>2. PICK j \in Jobs : j = disp[v].row
    BY <1>2 DEF WriterOf
  <2>3. /\ d.fence \in Nat /\ rows[j].fence \in Nat /\ rows'[j].fence \in Nat
        /\ rows[j].attempts \in Nat /\ rows'[j].attempts \in Nat
    BY <2>1 DEF TypeOK, OutboxTyped, LeagueTyped, Rows, Dispatchers
  <2>4. RowOn(j) /\ disp'[v] = d /\ disp'[v].row = j
    BY <1>2, <2>1, <2>2
  <2>. QED  BY <1>2, <2>1, <2>2, <2>3, <2>4 DEF ClaimOf, RowOn, InWrite
<1>. QED  BY <1>1, <1>2

\* Dispatcher w comes by no fence of another's.
Fenced(w) ==
    \/ disp'[w].at = "idle"
    \/ /\ disp[w].at # "idle"
       /\ disp'[w].row = disp[w].row /\ disp'[w].fence = disp[w].fence
    \/ \A v \in Workers \ {w} :
          disp[v].at # "idle" /\ disp[v].row = disp'[w].row => disp[v].fence < disp'[w].fence

LEMMA FenceKept ==
    ASSUME TypeOK, TypeOK', OwnFence, NEW w \in Workers \cup {Nobody},
           \A v \in Workers \ {w} : disp'[v] = disp[v], w \in Workers => Fenced(w)
    PROVE  OwnFence'
<1>1. ASSUME NEW u \in Workers, NEW v \in Workers, disp'[u].at # "idle", disp'[v].at # "idle", u # v,
             disp'[u].row = disp'[v].row
      PROVE  disp'[u].fence # disp'[v].fence
  <2>1. disp[u].fence \in Nat /\ disp[v].fence \in Nat /\ disp'[u].fence \in Nat /\ disp'[v].fence \in Nat
    BY DEF TypeOK, OutboxTyped, Dispatchers
  <2>2. CASE u # w /\ v # w
    BY <1>1, <2>2 DEF OwnFence
  <2>3. CASE u = w
    BY <1>1, <2>1, <2>3 DEF OwnFence, Fenced
  <2>4. CASE v = w
    BY <1>1, <2>1, <2>4 DEF OwnFence, Fenced
  <2>. QED  BY <2>2, <2>3, <2>4
<1>. QED  BY <1>1 DEF OwnFence

\* A step of dispatcher w, or of none, that touches the actions of X.
LEMMA DeedStep ==
    ASSUME WriteInv, WriteInv', DeedInv, NEW w \in Workers \cup {Nobody}, NEW X,
           \A v \in Workers \ {w} : disp'[v] = disp[v],
           w \in Workers => ClaimOf(w)' /\ Fenced(w),
           \A j \in Jobs \ X : Untouched(j) /\ RowLife(j) /\ DoneSame(j),
           \A j \in X : DeedOf(j)' /\ RowOf(j)',
           retired \subseteq retired',
           \A v \in Workers \ {w} : disp[v].at # "idle" =>
              /\ disp[v].at \in {"checked", "loaded"} => Holds(v)'
              /\ disp[v].at = "checked" => host' = host
              /\ disp[v].row \in X =>
                    /\ RowOn(disp[v].row)
                    /\ disp[v].at \in InWrite => (Quiet(disp[v].row) => Quiet(disp[v].row)')
                    /\ Receipt(disp[v].row).state = "rejected" /\ Native(disp[v].row) =>
                          Receipt(disp[v].row)'.state = "rejected"
    PROVE  DeedInv'
<1>1. TypeOK /\ TypeOK' /\ OneWriter
  BY DEF WriteInv
<1>2. \A j \in Jobs \ X : DeedOf(j)' /\ RowOf(j)' /\ Quiet(j)' = Quiet(j)
  BY <1>1, UntouchedDeed DEF DeedInv
<1>3. ASSUME NEW v \in Workers \ {w}
      PROVE  ClaimOf(v)'
  <2>1. WriterOf(v) /\ ClaimOf(v) /\ disp'[v] = disp[v]
    BY <1>1, <1>3 DEF OneWriter, DeedInv
  <2>2. CASE disp[v].at # "idle" /\ disp[v].row \notin X
    <3>1. PICK j \in Jobs \ X : j = disp[v].row
      BY <2>1, <2>2 DEF WriterOf
    <3>2. rows[j].status # "none" /\ RowOn(j) /\ RowOf(j)
      BY <2>1, <2>2, <3>1 DEF ClaimOf, RowLife, DeedInv
    <3>3. Native(j) => Receipt(j)' = Receipt(j)
      BY <1>1, <3>2, PinnedLeague DEF Receipt, RowOn, Untouched
    <3>. QED  BY <1>1, <1>2, <1>3, <2>1, <2>2, <3>1, <3>2, <3>3, ClaimKept
  <2>3. CASE disp[v].at # "idle" /\ disp[v].row \in X
    BY <1>1, <1>3, <2>1, <2>3, ClaimKept
  <2>4. CASE disp[v].at = "idle"
    BY <1>1, <2>1, <2>4, ClaimKept
  <2>. QED  BY <2>2, <2>3, <2>4
<1>4. OwnFence'
  BY <1>1, FenceKept DEF DeedInv
<1>5. \A v \in Workers : ClaimOf(v)'
  BY <1>3
<1>. QED  BY <1>2, <1>4, <1>5 DEF DeedInv

-----------------------------------------------------------------------------
(* Steps of the league.                                                    *)

LEMMA RowSame ==
    ASSUME TypeOK, NEW j \in Jobs, rows'[j] = rows[j], RowOf(j)
    PROVE  RowLife(j)
<1>1. rows[j].attempts \in Nat /\ rows[j].fence \in Nat
  BY DEF TypeOK, LeagueTyped, Rows
<1>. QED  BY <1>1 DEF RowLife, RowOn, RowOf

LEMMA HolderRuns ==
    ASSUME WriteInv, DeedInv, NEW v \in Workers, disp[v].at \in {"checked", "loaded"}
    PROVE  disp[v].row \in RunningRows /\ disp[v].row \in Jobs /\ Holds(v)
BY DEF WriteInv, OneWriter, WriterOf, DeedInv, ClaimOf, Holds, RunningRows

LEMMA LeagueDeed ==
    ASSUME Arranged, ~Reissued, WriteInv, WriteInv', DeedInv, UNCHANGED outboxVars,
           \A j \in Jobs : RowLife(j) /\ DoneSame(j), retired \subseteq retired',
           (rows' = rows /\ host' = host) \/ RunningRows = {}
    PROVE  DeedInv'
<1>1. \A v \in Workers : disp'[v] = disp[v]
  BY DEF outboxVars
<1>2. \A j \in Jobs : Untouched(j)
  BY DEF Untouched, outboxVars
<1>3. ASSUME NEW v \in Workers, disp[v].at \in {"checked", "loaded"}
      PROVE  Holds(v)' /\ host' = host
  <2>1. rows' = rows /\ host' = host /\ Holds(v)
    BY <1>3, HolderRuns
  <2>. QED  BY <1>1, <2>1 DEF Holds
<1>4. PICK w \in Workers \cup {Nobody} : w \notin Workers
  BY NobodyElse
<1>5. PICK X : X = {}
  OBVIOUS
<1>6. \A v \in Workers \ {w} : disp[v].at # "idle" =>
        /\ disp[v].at \in {"checked", "loaded"} => Holds(v)'
        /\ disp[v].at = "checked" => host' = host
        /\ disp[v].row \notin X
  BY <1>3, <1>5
<1>7. \A j \in Jobs \ X : Untouched(j) /\ RowLife(j) /\ DoneSame(j)
  BY <1>2
<1>8. \A j \in X : DeedOf(j)' /\ RowOf(j)'
  BY <1>5
<1>. QED  BY <1>1, <1>4, <1>6, <1>7, <1>8, DeedStep

LEMMA RowsStill ==
    ASSUME TypeOK, DeedInv, rows' = rows
    PROVE  \A j \in Jobs : RowLife(j)
BY RowSame DEF DeedInv

\* Rows are only held, or put away untried.
LEMMA RestatedLife ==
    ASSUME TypeOK, NEW j \in Jobs, RowOf(j), NEW status, Restated(j, status),
           \/ status = rows[j].status
           \/ rows[j].status # "none" /\ status = "held"
           \/ rows[j].status # "none" /\ status = "dead" /\ rows[j].attempts = 0
    PROVE  rows[j].status # "none" => RowLife(j)
<1>1. rows[j].attempts \in Nat /\ rows[j].fence \in Nat
  BY DEF TypeOK, LeagueTyped, Rows
<1>. QED  BY <1>1 DEF RowLife, RowOn, RowOf, Restated

LEMMA BoundLife ==
    ASSUME TypeOK, DeedInv, NEW key, NEW new, Bound(key, new)
    PROVE  \A j \in Jobs : RowLife(j)
<1>1. ASSUME NEW j \in Jobs, rows[j].status = "pending"
      PROVE  RowLife(j)
  <2>1. rows[j] \in Rows
    BY DEF TypeOK, LeagueTyped
  <2>2. rows'[j] = [rows[j] EXCEPT !.status = "held"]
    BY <1>1 DEF Bound, HeldByBinding
  <2>3. Restated(j, "held")
    BY <2>1, <2>2 DEF Rows, Restated
  <2>. QED  BY <1>1, <2>3, RestatedLife DEF DeedInv
<1>2. ASSUME NEW j \in Jobs, rows[j].status # "pending"
      PROVE  RowLife(j)
  <2>1. rows'[j] = rows[j]
    BY <1>2 DEF Bound, HeldByBinding
  <2>. QED  BY <2>1, RowSame DEF DeedInv
<1>. QED  BY <1>1, <1>2

LEMMA SelectDeed ==
    ASSUME Arranged, ~Reissued, WriteInv, WriteInv', DeedInv, NEW key, NEW new, Bound(key, new),
           RunningRows = {}, UNCHANGED <<jobs, outboxVars, retired>>
    PROVE  DeedInv'
<1>1. \A j \in Jobs : RowLife(j) /\ DoneSame(j)
  BY BoundLife DEF DoneSame, WriteInv
<1>. QED  BY <1>1, LeagueDeed

\* Neither rows nor hosts change, and no turn is done.
LEMMA QuietDeed ==
    ASSUME Arranged, ~Reissued, WriteInv, WriteInv', DeedInv, UNCHANGED <<rows, host, outboxVars, retired>>,
           \A j \in Jobs : DoneSame(j)
    PROVE  DeedInv'
<1>1. \A j \in Jobs : RowLife(j)
  BY RowsStill DEF WriteInv
<1>2. retired \subseteq retired'
  OBVIOUS
<1>. QED  BY <1>1, <1>2, LeagueDeed

LEMMA StopDeed ==
    ASSUME Arranged, ~Reissued, WriteInv, WriteInv', DeedInv, NEW e \in Epochs, Stop(e)
    PROVE  DeedInv'
<1>1. RunningRows = {} /\ UNCHANGED <<outboxVars, retired>> /\ retired \subseteq retired'
  BY DEF Stop, Quiescent
<1>2. ASSUME NEW j \in Jobs
      PROVE  RowLife(j) /\ DoneSame(j)
  <2>1. /\ jobs'[j].status = IF j \in TurnsOf(e) /\ jobs[j].status = "pending"
                             THEN "cancelled" ELSE jobs[j].status
        /\ Restated(j, IF j \in Unsent(e) THEN "dead" ELSE rows[j].status)
        /\ RowOf(j) /\ TypeOK
    BY StopTyped DEF WriteInv, TypeOK, DeedInv
  <2>2. DoneSame(j)
    BY <2>1 DEF DoneSame
  <2>3. CASE j \in Unsent(e)
    <3>1. rows[j].status = "pending" /\ rows[j].attempts = 0 /\ Restated(j, "dead")
      BY <2>1, <2>3 DEF Unsent
    <3>. QED  BY <2>1, <2>2, <3>1, RestatedLife
  <2>4. CASE j \notin Unsent(e)
    <3>1. rows'[j] = rows[j]
      BY <2>4 DEF Stop
    <3>. QED  BY <2>1, <2>2, <3>1, RowSame
  <2>. QED  BY <2>3, <2>4
<1>. QED  BY <1>1, <1>2, LeagueDeed

LEMMA QuarantineDeed ==
    ASSUME Arranged, ~Reissued, WriteInv, WriteInv', DeedInv, NEW e \in Epochs, NEW j \in Jobs,
           Quarantine(e, j)
    PROVE  DeedInv'
<1>1. /\ RunningRows = {} /\ UNCHANGED <<jobs, outboxVars>> /\ retired' = retired \cup {j}
      /\ rows[j].status = "held"
  BY DEF Quarantine, Quiescent
<1>2. RowTo(j, "dead", FALSE, rows[j].attempts, rows[j].fence + 1) /\ TypeOK
  BY QuarantineTyped DEF WriteInv, TypeOK
<1>3. rows[j].attempts \in Nat /\ rows[j].fence \in Nat
  BY <1>2 DEF TypeOK, LeagueTyped, Rows
<1>4. RowLife(j)
  BY <1>1, <1>2, <1>3 DEF RowLife, RowOn, RowTo
<1>5. \A k \in Jobs : RowLife(k)
  BY <1>2, <1>4, RowSame DEF DeedInv, RowTo
<1>6. \A k \in Jobs : DoneSame(k)
  BY <1>1 DEF DoneSame
<1>. QED  BY <1>1, <1>5, <1>6, LeagueDeed

LEMMA EnqueueDeed ==
    ASSUME Arranged, ~Reissued, WriteInv, WriteInv', DeedInv, NEW j \in Jobs, Enqueue(j),
           UNCHANGED <<outboxVars, retired>>
    PROVE  DeedInv'
<1>1. PICK row : NewRow(j, row) /\ rows' = [rows EXCEPT ![j] = row]
  BY EnqueueTyped DEF WriteInv, TypeOK
<1>2. /\ jobs'[j].status = "done" /\ \A k \in Jobs \ {j} : jobs'[k] = jobs[k]
      /\ jobs[j].status = "running" /\ Matches(j) /\ host' = host
  BY EnqueueTyped DEF WriteInv, TypeOK, Enqueue
<1>3. rows[j] = NoRow /\ rows[j].status = "none" /\ Quiet(j) /\ DeedOf(j)
  BY <1>2 DEF DeedInv, RowOf, NoRow
<1>4. TypeOK /\ rows'[j] = row /\ \A k \in Jobs \ {j} : rows'[k] = rows[k]
  BY <1>1 DEF WriteInv, TypeOK, LeagueTyped
<1>5. \A l \in MflLeagues : journal[<<Home(l), j>>].state = "none"
  BY <1>3 DEF DeedOf, NoRow
<1>6. \A v \in Workers : disp[v].at # "idle" => disp[v].row # j
  BY <1>3 DEF DeedInv, ClaimOf
<1>7. UNCHANGED <<disp, journal, acted, wire>>
  BY DEF outboxVars
<1>8. Quiet(j)' /\ acted'[j] = <<>>
  BY <1>3, <1>7 DEF Quiet
<1>9. DeedOf(j)'
  BY <1>5, <1>7, <1>8 DEF DeedOf, Quiet
<1>10. RowOf(j)'
  BY <1>1, <1>2, <1>4 DEF RowOf, NewRow, Matches, Native
<1>11. \A k \in Jobs \ {j} : Untouched(k) /\ RowLife(k) /\ DoneSame(k)
  BY <1>2, <1>4, <1>7, RowSame DEF Untouched, DoneSame, DeedInv
<1>12. ASSUME NEW v \in Workers, disp[v].at \in {"checked", "loaded"}
       PROVE  Holds(v)'
  <2>1. disp[v].row \in Jobs \ {j} /\ Holds(v)
    BY <1>6, <1>12, HolderRuns
  <2>. QED  BY <1>4, <1>7, <2>1 DEF Holds
<1>13. PICK w \in Workers \cup {Nobody} : w \notin Workers
  BY NobodyElse
<1>14. PICK X : X = {j}
  OBVIOUS
<1>15. \A v \in Workers \ {w} : disp[v].at # "idle" =>
        /\ disp[v].at \in {"checked", "loaded"} => Holds(v)'
        /\ disp[v].at = "checked" => host' = host
        /\ disp[v].row \notin X
  BY <1>2, <1>6, <1>12, <1>14
<1>16. \A k \in Jobs \ X : Untouched(k) /\ RowLife(k) /\ DoneSame(k)
  BY <1>11, <1>14
<1>17. \A k \in X : DeedOf(k)' /\ RowOf(k)'
  BY <1>9, <1>10, <1>14
<1>18. retired \subseteq retired' /\ \A v \in Workers \ {w} : disp'[v] = disp[v]
  BY <1>7
<1>. QED  BY <1>13, <1>15, <1>16, <1>17, <1>18, DeedStep

LEMMA EpochDeed ==
    ASSUME Arranged, ~Reissued, WriteInv, WriteInv', DeedInv, EpochNext
    PROVE  DeedInv'
<1>1. ASSUME NEW e \in Epochs, Arm(e) \/ Armed(e) \/ Restore(e) \/ Restored(e)
      PROVE  DeedInv'
  <2>1. UNCHANGED <<rows, host, jobs, outboxVars, retired>>
    BY <1>1 DEF Arm, Armed, Restore, Restored
  <2>. QED  BY <2>1, QuietDeed DEF DoneSame
<1>2. ASSUME NEW e \in Epochs, ArmHost(e) \/ RestoreHost(e)
      PROVE  DeedInv'
  <2>1. /\ RunningRows = {} /\ UNCHANGED <<jobs, outboxVars, retired>>
        /\ \E key, new : Bound(key, new)
    BY <1>2 DEF ArmHost, RestoreHost, BindOnce, Bindable
  <2>. QED  BY <2>1, SelectDeed
<1>3. ASSUME NEW e \in Epochs, NEW j \in Jobs, WakeForTrial(j, e)
      PROVE  DeedInv'
  <2>1. UNCHANGED <<rows, host, outboxVars, retired>> /\ jobs[j].status = "none"
    BY <1>3 DEF WakeForTrial
  <2>2. \A k \in Jobs : DoneSame(k)
    BY <1>3, <2>1, WakeForTrialTyped DEF DoneSame, WriteInv, TypeOK
  <2>. QED  BY <2>1, <2>2, QuietDeed
<1>. QED  BY <1>1, <1>2, <1>3, StopDeed, QuarantineDeed DEF EpochNext

LEMMA OperatorDeed ==
    ASSUME Arranged, ~Reissued, WriteInv, WriteInv', DeedInv, OperatorNext
    PROVE  DeedInv'
<1>1. UNCHANGED <<outboxVars, retired>>
  BY DEF OperatorNext
<1>2. ASSUME NEW b \in Selectable, SelectHost(b[1], b[2])
      PROVE  DeedInv'
  <2>1. RunningRows = {} /\ UNCHANGED jobs /\ \E key, new : Bound(key, new)
    BY <1>2 DEF SelectHost, Bindable
  <2>. QED  BY <1>1, <2>1, SelectDeed
<1>3. ASSUME NEW o \in Owners, SwitchWorker(o) \/ HandOver(o)
      PROVE  DeedInv'
  <2>1. UNCHANGED <<rows, host, jobs>>
    BY <1>3 DEF SwitchWorker, HandOver
  <2>. QED  BY <1>1, <2>1, QuietDeed DEF DoneSame
<1>. QED  BY <1>2, <1>3 DEF OperatorNext

LEMMA TurnDeed ==
    ASSUME Arranged, ~Reissued, WriteInv, WriteInv', DeedInv, TurnNext, UNCHANGED retired
    PROVE  DeedInv'
<1>1. PICK j \in Jobs : Wake(j) \/ StartTurn(j) \/ Enqueue(j) \/ EndTurn(j)
  BY DEF TurnNext
<1>2. UNCHANGED <<outboxVars, retired>>
  BY DEF TurnNext
<1>3. CASE Wake(j) \/ StartTurn(j) \/ EndTurn(j)
  <2>1. jobs[j].status # "done" /\ UNCHANGED <<rows, host>>
    BY <1>3 DEF Wake, StartTurn, EndTurn
  <2>2. PICK status \in {"pending", "running", "dead"} : jobs' = [jobs EXCEPT ![j].status = status]
    BY <1>3, TurnTyped DEF WriteInv, TypeOK
  <2>3. jobs'[j].status = status /\ \A k \in Jobs \ {j} : jobs'[k] = jobs[k]
    BY <2>2, TurnSet DEF WriteInv, TypeOK
  <2>. QED  BY <1>2, <2>1, <2>3, QuietDeed DEF DoneSame
<1>. QED  BY <1>1, <1>2, <1>3, EnqueueDeed

-----------------------------------------------------------------------------
(* Steps of a dispatcher that do nothing about an action.                  *)

LEMMA WorkerDeed ==
    ASSUME WriteInv, WriteInv', DeedInv, NEW w \in Workers \cup {Nobody},
           \A v \in Workers \ {w} : disp'[v] = disp[v], w \in Workers => ClaimOf(w)' /\ Fenced(w),
           UNCHANGED <<hostOnly, journal, wire, acted, retired>>,
           NEW j \in Jobs, \A k \in Jobs \ {j} : rows'[k] = rows[k], RowLife(j),
           \A v \in Workers \ {w} :
              disp[v].at \in {"checked", "loaded"} /\ disp[v].row = j => rows'[j] = rows[j]
    PROVE  DeedInv'
<1>1. \A k \in Jobs : Untouched(k) /\ RowLife(k) /\ DoneSame(k)
  BY RowSame DEF Untouched, DoneSame, DeedInv, WriteInv, hostOnly
<1>2. ASSUME NEW v \in Workers \ {w}, disp[v].at \in {"checked", "loaded"}
      PROVE  Holds(v)' /\ host' = host
  <2>1. disp[v].row \in Jobs /\ Holds(v)
    BY <1>2, HolderRuns
  <2>2. rows'[disp[v].row] = rows[disp[v].row]
    BY <1>2, <2>1
  <2>. QED  BY <2>1, <2>2 DEF Holds, hostOnly
<1>3. PICK X : X = {}
  OBVIOUS
<1>4. \A v \in Workers \ {w} : disp[v].at # "idle" =>
        /\ disp[v].at \in {"checked", "loaded"} => Holds(v)'
        /\ disp[v].at = "checked" => host' = host
        /\ disp[v].row \notin X
  BY <1>2, <1>3
<1>5. \A k \in Jobs \ X : Untouched(k) /\ RowLife(k) /\ DoneSame(k)
  BY <1>1
<1>6. \A k \in X : DeedOf(k)' /\ RowOf(k)'
  BY <1>3
<1>. QED  BY <1>4, <1>5, <1>6, DeedStep

\* The dispatcher alone moves.
LEMMA MoveDeed ==
    ASSUME WriteInv, WriteInv', DeedInv, NEW w \in Workers,
           \A v \in Workers \ {w} : disp'[v] = disp[v], ClaimOf(w)', Fenced(w),
           UNCHANGED <<hostOnly, rows, journal, wire, acted, retired>>
    PROVE  DeedInv'
<1>1. \A k \in Jobs : Untouched(k) /\ RowLife(k) /\ DoneSame(k)
  BY RowsStill DEF Untouched, DoneSame, WriteInv, hostOnly
<1>2. ASSUME NEW v \in Workers \ {w}, disp[v].at \in {"checked", "loaded"}
      PROVE  Holds(v)' /\ host' = host
  BY <1>2, HolderRuns DEF Holds, hostOnly
<1>3. PICK X : X = {}
  OBVIOUS
<1>4. \A v \in Workers \ {w} : disp[v].at # "idle" =>
        /\ disp[v].at \in {"checked", "loaded"} => Holds(v)'
        /\ disp[v].at = "checked" => host' = host
        /\ disp[v].row \notin X
  BY <1>2, <1>3
<1>5. \A k \in Jobs \ X : Untouched(k) /\ RowLife(k) /\ DoneSame(k)
  BY <1>1
<1>6. \A k \in X : DeedOf(k)' /\ RowOf(k)'
  BY <1>3
<1>. QED  BY <1>4, <1>5, <1>6, DeedStep

LEMMA LeavesClaim ==
    ASSUME NEW w \in Workers, Leaves(w)
    PROVE  ClaimOf(w)' /\ Fenced(w)
BY DEF Leaves, ClaimOf, Fenced

LEMMA StaleDeed ==
    ASSUME Arranged, ~Reissued, WriteInv, DeedInv, NEW w \in Workers, Stale(w), UNCHANGED retired
    PROVE  DeedInv'
<1>1. WriteInv' /\ Leaves(w) /\ UNCHANGED <<hostOnly, rows, journal, wire, acted, retired>>
  BY StaleWrite DEF Stale, writes
<1>. QED  BY <1>1, LeavesClaim, MoveDeed DEF Leaves

\* A move within a claim, to a place that asks for little.
LEMMA MovesClaim ==
    ASSUME WriteInv, DeedInv, NEW w \in Workers, NEW at, NEW outcome, Moves(w, at, outcome),
           disp[w].at # "idle", at \in {"checked", "returned", "failing"},
           UNCHANGED <<host, rows, journal>>,
           at = "checked" => Holds(w) /\ host = rows[disp[w].row].host,
           at # "checked" /\ outcome = "rejected" =>
              Native(disp[w].row) /\ Receipt(disp[w].row).state = "rejected",
           at # "checked" /\ outcome \in {"dead", "retry"} => ~Native(disp[w].row)
    PROVE  ClaimOf(w)' /\ Fenced(w)
<1>1. ClaimOf(w)
  BY DEF DeedInv
<1>2. /\ disp'[w].at = at /\ disp'[w].outcome = outcome /\ disp'[w].row = disp[w].row
      /\ disp'[w].fence = disp[w].fence /\ disp'[w].repair = disp[w].repair
  BY DEF Moves
<1>3. (at = "checked" => Holds(w)') /\ \A j : Receipt(j)' = Receipt(j)
  BY <1>2 DEF Holds, Receipt
<1>. QED  BY <1>1, <1>2, <1>3 DEF ClaimOf, Fenced, InWrite

LEMMA ContextDeed ==
    ASSUME Arranged, ~Reissued, WriteInv, DeedInv, NEW w \in Workers, Context(w), UNCHANGED retired
    PROVE  DeedInv'
<1>1. /\ WriteInv' /\ UNCHANGED <<hostOnly, rows, journal, wire, acted, retired>>
      /\ disp[w].at = "claimed" /\ Holds(w)
  BY ContextWrite DEF Context, writes
<1>2. PICK outcome : outcome = Refusal(w)
  OBVIOUS
<1>3. outcome \in {"held", "dead"} /\ (outcome = "dead" => ~Native(disp[w].row))
  BY <1>2 DEF Refusal
<1>4. CASE Authorized(w)
  <2>1. Moves(w, "checked", disp[w].outcome) /\ host = rows[disp[w].row].host
    BY <1>4, ContextWrite DEF Authorized
  <2>. QED  BY <1>1, <2>1, MovesClaim, MoveDeed DEF Moves, hostOnly
<1>5. CASE ~Authorized(w)
  <2>1. Moves(w, "failing", outcome)
    BY <1>2, <1>5, ContextWrite
  <2>. QED  BY <1>1, <1>3, <2>1, MovesClaim, MoveDeed DEF Moves, hostOnly
<1>. QED  BY <1>4, <1>5

LEMMA LoadDeed ==
    ASSUME Arranged, ~Reissued, WriteInv, DeedInv, NEW w \in Workers, Load(w), UNCHANGED retired
    PROVE  DeedInv'
<1>1. /\ WriteInv' /\ UNCHANGED <<hostOnly, rows, journal, wire, acted, retired>>
      /\ disp[w].at = "checked" /\ Native(disp[w].row)
  BY LoadWrite DEF Load, writes
<1>2. CASE Moves(w, "failing", "held")
  BY <1>1, <1>2, MovesClaim, MoveDeed DEF Moves, hostOnly
<1>3. CASE LoadsTo(w, IF disp[w].repair THEN "reading" ELSE "loaded")
  <2>1. PICK at : at = IF disp[w].repair THEN "reading" ELSE "loaded"
    OBVIOUS
  <2>2. /\ disp'[w].at = at /\ disp'[w].host = host /\ disp'[w].row = disp[w].row
        /\ disp'[w].fence = disp[w].fence /\ disp'[w].repair = disp[w].repair
        /\ \A v \in Workers \ {w} : disp'[v] = disp[v]
    BY <1>3, <2>1 DEF LoadsTo
  <2>3. ClaimOf(w) /\ Holds(w) /\ host = rows[disp[w].row].host
    BY <1>1 DEF DeedInv, ClaimOf
  <2>4. Holds(w)'
    BY <1>1, <2>2, <2>3 DEF Holds
  <2>5. ClaimOf(w)' /\ Fenced(w)
    BY <1>1, <2>1, <2>2, <2>3, <2>4 DEF ClaimOf, Fenced, InWrite
  <2>. QED  BY <1>1, <2>2, <2>5, MoveDeed
<1>. QED  BY <1>2, <1>3, LoadWrite

\* A row that nobody holds is taken.
LEMMA TakesDeed ==
    ASSUME WriteInv, WriteInv', DeedInv, NEW w \in Workers, NEW j \in Jobs, NEW repair \in BOOLEAN,
           NEW attempts \in Nat, Takes(w, j, repair),
           RowTo(j, "running", TRUE, attempts, rows[j].fence + 1),
           rows[j].attempts <= attempts, repair \/ attempts > 0,
           rows[j].status # "none", rows[j].status # "running" \/ ~rows[j].live,
           UNCHANGED <<hostOnly, journal, wire, acted, retired>>
    PROVE  DeedInv'
<1>1. rows[j].fence \in Nat /\ rows[j].attempts \in Nat
  BY DEF WriteInv, TypeOK, LeagueTyped, Rows
<1>2. RowLife(j)
  BY <1>1 DEF RowTo, RowLife, RowOn
<1>3. /\ disp'[w].at = "claimed" /\ disp'[w].row = j /\ disp'[w].fence = rows[j].fence + 1
      /\ disp'[w].repair = repair /\ \A v \in Workers \ {w} : disp'[v] = disp[v]
  BY DEF Takes
<1>4. ClaimOf(w)'
  BY <1>1, <1>3 DEF ClaimOf, RowTo, InWrite
<1>5. Fenced(w)
  <2>1. ASSUME NEW v \in Workers, disp[v].at # "idle", disp[v].row = j
        PROVE  disp[v].fence < rows[j].fence + 1
    <3>1. disp[v].fence \in Nat
      BY DEF WriteInv, TypeOK, OutboxTyped, Dispatchers
    <3>2. disp[v].fence <= rows[j].fence
      BY <2>1 DEF DeedInv, ClaimOf
    <3>. QED  BY <1>1, <3>1, <3>2
  <2>. QED  BY <1>3, <2>1 DEF Fenced
<1>6. \A v \in Workers : disp[v].at \in {"checked", "loaded"} => disp[v].row # j
  BY HolderRuns DEF Holds
<1>7. \A k \in Jobs \ {j} : rows'[k] = rows[k]
  BY DEF RowTo
<1>. QED  BY <1>2, <1>3, <1>4, <1>5, <1>6, <1>7, WorkerDeed

LEMMA ClaimDeed ==
    ASSUME Arranged, ~Reissued, WriteInv, DeedInv, NEW w \in Workers, NEW j \in Jobs,
           Claim(w, j) \/ ClaimHeld(w, j), UNCHANGED retired
    PROVE  DeedInv'
<1>1. WriteInv' /\ UNCHANGED <<hostOnly, journal, wire, acted, retired>>
  BY ClaimWrite DEF Claim, ClaimHeld, writes
<1>2. rows[j].attempts \in Nat /\ rows[j].attempts + 1 \in Nat
  BY DEF WriteInv, TypeOK, LeagueTyped, Rows
<1>3. CASE Claim(w, j)
  <2>1. PICK attempts \in Nat, repair \in BOOLEAN : attempts = rows[j].attempts + 1 /\ repair = FALSE
    BY <1>2
  <2>2. Takes(w, j, repair) /\ RowTo(j, "running", TRUE, attempts, rows[j].fence + 1)
    BY <1>3, <2>1, ClaimTakes DEF WriteInv
  <2>3. rows[j].status # "none" /\ (rows[j].status # "running" \/ ~rows[j].live)
    BY <1>3 DEF Claim, Claimable
  <2>4. rows[j].attempts <= attempts /\ attempts > 0
    BY <1>2, <2>1
  <2>. QED  BY <1>1, <2>2, <2>3, <2>4, TakesDeed
<1>4. CASE ClaimHeld(w, j)
  <2>1. PICK attempts \in Nat, repair \in BOOLEAN : attempts = rows[j].attempts /\ repair = TRUE
    BY <1>2
  <2>2. Takes(w, j, repair) /\ RowTo(j, "running", TRUE, attempts, rows[j].fence + 1)
    BY <1>4, <2>1, ClaimHeldTakes DEF WriteInv
  <2>3. rows[j].status # "none" /\ (rows[j].status # "running" \/ ~rows[j].live)
    BY <1>4 DEF ClaimHeld
  <2>4. rows[j].attempts <= attempts /\ repair
    BY <1>2, <2>1
  <2>. QED  BY <1>1, <2>2, <2>3, <2>4, TakesDeed
<1>. QED  BY <1>3, <1>4

\* A claim's holder puts its row away and rests.
LEMMA PutsAwayDeed ==
    ASSUME WriteInv, WriteInv', DeedInv, NEW w \in Workers, NEW status,
           Leaves(w), Holds(w), disp[w].at # "idle",
           RowTo(disp[w].row, status, FALSE, rows[disp[w].row].attempts, rows[disp[w].row].fence),
           status # "none",
           status = "delivered" => acted[disp[w].row] # <<>>,
           status = "dead" /\ Native(disp[w].row) => Receipt(disp[w].row).state = "rejected",
           UNCHANGED <<hostOnly, journal, wire, acted, retired>>
    PROVE  DeedInv'
<1>1. PICK j \in Jobs : j = disp[w].row
  BY DEF WriteInv, OneWriter, WriterOf
<1>2. rows[j].fence \in Nat /\ rows[j].attempts \in Nat /\ rows[j].status # "none"
  BY <1>1 DEF WriteInv, TypeOK, LeagueTyped, Rows, Holds
<1>3. RowLife(j)
  BY <1>1, <1>2 DEF RowTo, RowLife, RowOn
<1>4. \A v \in Workers \ {w} : disp[v].at \in {"checked", "loaded"} => disp[v].row # j
  BY <1>1, HolderRuns DEF Holds, DeedInv, OwnFence
<1>5. \A k \in Jobs \ {j} : rows'[k] = rows[k]
  BY <1>1 DEF RowTo
<1>. QED  BY <1>3, <1>4, <1>5, LeavesClaim, WorkerDeed DEF Leaves

LEMMA AcknowledgeDeed ==
    ASSUME Arranged, ~Reissued, WriteInv, DeedInv, NEW w \in Workers, Acknowledge(w), UNCHANGED retired
    PROVE  DeedInv'
<1>. DEFINE j == disp[w].row
<1>1. /\ WriteInv' /\ UNCHANGED <<hostOnly, journal, wire, acted, retired>>
      /\ disp[w].at = "returned" /\ Holds(w) /\ j \in Jobs
  BY AcknowledgeWrite DEF Acknowledge, writes, WriteInv, OneWriter, WriterOf
<1>2. CASE Moves(w, "failing", Refusal(w)) /\ UNCHANGED rows
  <2>1. PICK outcome : outcome = Refusal(w)
    OBVIOUS
  <2>2. outcome \in {"held", "dead"} /\ (outcome = "dead" => ~Native(disp[w].row))
    BY <2>1 DEF Refusal
  <2>3. Moves(w, "failing", outcome) /\ UNCHANGED rows
    BY <1>2, <2>1
  <2>. QED  BY <1>1, <2>2, <2>3, MovesClaim, MoveDeed DEF Moves, hostOnly
<1>3. CASE /\ Leaves(w) /\ Acknowledged(w)
           /\ RowTo(j, "delivered", FALSE, rows[j].attempts, rows[j].fence)
  <2>1. ASSUME Native(j)
        PROVE  acted[j] # <<>>
    <3>1. /\ host = rows[j].host /\ rows[j].status # "none"
          /\ journal[<<Home(host.league), j>>].state = "verified"
      BY <1>1, <1>3, <2>1 DEF Acknowledged, Authorized, Deployed, Home, DeedInv, ClaimOf
    <3>2. host.league \in MflLeagues
      BY <1>1, <2>1, <3>1, PinnedLeague DEF WriteInv, DeedInv
    <3>. QED  BY <1>1, <3>1, <3>2 DEF DeedInv, DeedOf
  <2>2. acted[j] # <<>>
    BY <1>3, <2>1 DEF Acknowledged
  <2>3. PICK status : status = "delivered"
    OBVIOUS
  <2>4. RowTo(j, status, FALSE, rows[j].attempts, rows[j].fence) /\ disp[w].at # "idle"
        /\ status # "none" /\ status # "dead"
    BY <1>1, <1>3, <2>3
  <2>. QED  BY <1>1, <1>3, <2>2, <2>4, PutsAwayDeed
<1>. QED  BY <1>2, <1>3, AcknowledgeWrite

LEMMA AcknowledgeFailsDeed ==
    ASSUME Arranged, ~Reissued, WriteInv, DeedInv, NEW w \in Workers, AcknowledgeFails(w), UNCHANGED retired
    PROVE  DeedInv'
<1>1. PICK outcome : outcome = IF Native(disp[w].row) THEN "held" ELSE "retry"
  OBVIOUS
<1>2. /\ WriteInv' /\ UNCHANGED <<hostOnly, rows, journal, wire, acted, retired>>
      /\ disp[w].at = "returned" /\ Moves(w, "failing", outcome)
  BY <1>1, AcknowledgeFailsWrite DEF writes
<1>3. outcome \in {"held", "retry"} /\ (outcome = "retry" => ~Native(disp[w].row))
  BY <1>1
<1>. QED  BY <1>2, <1>3, MovesClaim, MoveDeed DEF Moves, hostOnly

LEMMA SettleDeed ==
    ASSUME Arranged, ~Reissued, WriteInv, DeedInv, NEW w \in Workers, Settle(w), UNCHANGED retired
    PROVE  DeedInv'
<1>. DEFINE j == disp[w].row
<1>1. /\ WriteInv' /\ Leaves(w) /\ Holds(w) /\ UNCHANGED <<hostOnly, journal, wire, acted, retired>>
      /\ disp[w].at \in {"returned", "failing"}
  BY SettleWrite DEF writes
<1>2. PICK status \in {"held", "dead", "pending"} :
         /\ RowTo(j, status, FALSE, rows[j].attempts, rows[j].fence)
         /\ status = "dead" => disp[w].outcome \in {"rejected", "dead", "retry"}
  BY SettleWrite
<1>3. status = "dead" /\ Native(j) => Receipt(j).state = "rejected"
  BY <1>1, <1>2 DEF DeedInv, ClaimOf
<1>. QED  BY <1>1, <1>2, <1>3, PutsAwayDeed

LEMMA BuryDeed ==
    ASSUME Arranged, ~Reissued, WriteInv, DeedInv, NEW j \in Jobs, Bury(j), UNCHANGED retired
    PROVE  DeedInv'
<1>1. WriteInv' /\ UNCHANGED <<hostOnly, journal, wire, acted, retired, disp>>
  BY BuryWrite DEF writes
<1>2. PICK status \in {"held", "dead"} :
         /\ RowTo(j, status, FALSE, rows[j].attempts, rows[j].fence)
         /\ status = "dead" => ~Native(j)
  BY BuryWrite
<1>3. rows[j].status # "none" /\ (rows[j].status # "running" \/ ~rows[j].live)
  BY DEF Bury, Claimable
<1>4. rows[j].fence \in Nat /\ rows[j].attempts \in Nat
  BY DEF WriteInv, TypeOK, LeagueTyped, Rows
<1>5. RowLife(j) /\ \A k \in Jobs \ {j} : rows'[k] = rows[k]
  BY <1>2, <1>3, <1>4 DEF RowTo, RowLife, RowOn
<1>6. \A v \in Workers : disp[v].at \in {"checked", "loaded"} => disp[v].row # j
  BY <1>3, HolderRuns DEF Holds
<1>7. PICK w \in Workers \cup {Nobody} : w \notin Workers
  BY NobodyElse
<1>. QED  BY <1>1, <1>5, <1>6, <1>7, WorkerDeed

\* The one place where it matters that a dispatcher between context and engine keeps its lease.
LEMMA ExpiryDeed ==
    ASSUME Arranged, ~Reissued, ~OutliveCheck, WriteInv, DeedInv, NEW j \in Jobs, LeaseExpires(j),
           UNCHANGED retired
    PROVE  DeedInv'
<1>1. WriteInv' /\ UNCHANGED <<hostOnly, journal, wire, acted, retired, disp>>
  BY ExpiryWrite DEF writes
<1>2. RowTo(j, rows[j].status, FALSE, rows[j].attempts, rows[j].fence)
  BY ExpiryWrite
<1>3. rows[j].status = "running"
  BY DEF LeaseExpires
<1>4. rows[j].fence \in Nat /\ rows[j].attempts \in Nat
  BY DEF WriteInv, TypeOK, LeagueTyped, Rows
<1>5. RowLife(j) /\ \A k \in Jobs \ {j} : rows'[k] = rows[k]
  BY <1>2, <1>3, <1>4 DEF RowTo, RowLife, RowOn
<1>6. \A v \in Workers : disp[v].at \in {"checked", "loaded"} => disp[v].row # j
  BY HolderRuns DEF Holds, LeaseExpires
<1>7. PICK w \in Workers \cup {Nobody} : w \notin Workers
  BY NobodyElse
<1>. QED  BY <1>1, <1>5, <1>6, <1>7, WorkerDeed

-----------------------------------------------------------------------------
(* Steps of a dispatcher that do something about an action.                *)

LEMMA TouchDeed ==
    ASSUME WriteInv, WriteInv', DeedInv, NEW w \in Workers \cup {Nobody}, NEW j \in Jobs,
           \A v \in Workers \ {w} : disp'[v] = disp[v], w \in Workers => ClaimOf(w)' /\ Fenced(w),
           UNCHANGED <<hostOnly, rows, retired>>, rows[j].status # "none",
           \A k \in Jobs \ {j} : Untouched(k),
           DeedOf(j)', acted[j] # <<>> => acted'[j] # <<>>,
           Receipt(j).state = "rejected" /\ Native(j) => Receipt(j)'.state = "rejected",
           \A v \in Workers \ {w} : disp[v].at \in InWrite /\ disp[v].row = j => (Quiet(j) => Quiet(j)')
    PROVE  DeedInv'
<1>1. \A k \in Jobs : RowLife(k) /\ DoneSame(k)
  BY RowsStill DEF DoneSame, WriteInv, hostOnly
<1>2. RowOf(j)'
  BY DEF RowOf, DeedInv, hostOnly
<1>3. PICK X : X = {j}
  OBVIOUS
<1>4. ASSUME NEW v \in Workers \ {w}, disp[v].at # "idle"
      PROVE  /\ disp[v].at \in {"checked", "loaded"} => Holds(v)'
             /\ disp[v].at = "checked" => host' = host
             /\ disp[v].row \in X =>
                    /\ RowOn(disp[v].row)
                    /\ disp[v].at \in InWrite => (Quiet(disp[v].row) => Quiet(disp[v].row)')
                    /\ Receipt(disp[v].row).state = "rejected" /\ Native(disp[v].row) =>
                          Receipt(disp[v].row)'.state = "rejected"
  <2>1. disp[v].at \in {"checked", "loaded"} => Holds(v)'
    BY <1>4, HolderRuns DEF Holds
  <2>2. host' = host
    BY DEF hostOnly
  <2>3. CASE disp[v].row = j
    BY <1>1, <1>3, <1>4, <2>1, <2>2, <2>3 DEF RowLife
  <2>4. CASE disp[v].row # j
    BY <1>3, <2>1, <2>2, <2>4
  <2>. QED  BY <2>3, <2>4
<1>5. \A k \in Jobs \ X : Untouched(k) /\ RowLife(k) /\ DoneSame(k)
  BY <1>1, <1>3
<1>6. \A k \in X : DeedOf(k)' /\ RowOf(k)'
  BY <1>2, <1>3
<1>. QED  BY <1>4, <1>5, <1>6, DeedStep

LEMMA ExecuteDeed ==
    ASSUME Arranged, ~Reissued, WriteInv, DeedInv, NEW w \in Workers,
           ExecuteAgain(w) \/ Execute(w) \/ ExecuteFails(w), UNCHANGED retired
    PROVE  DeedInv'
<1>1. /\ WriteInv' /\ UNCHANGED <<hostOnly, rows, journal, wire, retired>>
      /\ disp[w].at = "checked" /\ ~Native(disp[w].row)
      /\ acted' = acted \/ (TakesEffect(disp[w].row, host) /\ acted[disp[w].row] = <<>>)
  BY ExecuteWrite DEF ExecuteAgain, Execute, ExecuteFails, writes
<1>2. PICK at \in {"returned", "failing"}, outcome \in {"verified", "dead", "retry"} : Moves(w, at, outcome)
  BY ExecuteWrite
<1>3. ClaimOf(w)' /\ Fenced(w)
  BY <1>1, <1>2, MovesClaim DEF hostOnly
<1>4. \A v \in Workers \ {w} : disp'[v] = disp[v]
  BY <1>2 DEF Moves
<1>5. CASE acted' = acted
  BY <1>1, <1>3, <1>4, <1>5, MoveDeed
<1>6. CASE TakesEffect(disp[w].row, host) /\ acted[disp[w].row] = <<>>
  <2>1. PICK j \in Jobs : j = disp[w].row
    BY <1>1 DEF WriteInv, OneWriter, WriterOf
  <2>2. /\ host \in Hosts /\ host = rows[j].host /\ rows[j].status # "none" /\ DeedOf(j)
    BY <1>1, <2>1 DEF DeedInv, ClaimOf, WriteInv, TypeOK, LeagueTyped
  <2>3. acted'[j] = <<host>> /\ \A k \in Jobs \ {j} : acted'[k] = acted[k]
    BY <1>6, <2>1, <2>2, TakesEffectTyped DEF WriteInv, TypeOK
  <2>4. DeedOf(j)'
    BY <1>1, <2>1, <2>2, <2>3 DEF DeedOf
  <2>5. \A k \in Jobs \ {j} : Untouched(k)
    BY <1>1, <2>3 DEF Untouched
  <2>6. \A v \in Workers : disp[v].at \in InWrite => disp[v].row # j
    BY <1>1, <2>1 DEF WriteInv, OneWriter, WriterOf
  <2>7. Receipt(j)' = Receipt(j) /\ acted'[j] # <<>>
    BY <1>1, <2>3 DEF Receipt
  <2>. QED  BY <1>1, <1>3, <1>4, <2>2, <2>4, <2>5, <2>6, <2>7, TouchDeed
<1>. QED  BY <1>1, <1>5, <1>6

\* A dispatcher with an adapter is about the receipt of its own row.
LEMMA AtEntry ==
    ASSUME ~Reissued, WriteInv, DeedInv, NEW w \in Workers, disp[w].at \in AtMfl
    PROVE  LET j == disp[w].row
           IN  /\ j \in Jobs /\ Native(j) /\ rows[j].status # "none" /\ DeedOf(j)
               /\ disp[w].host = rows[j].host /\ rows[j].host \in Hosts
               /\ rows[j].host.league \in MflLeagues
               /\ Entry(w) = <<Home(rows[j].host.league), j>> /\ Receipt(j) = journal[Entry(w)]
               /\ journal[Entry(w)] \in Writings
               /\ disp[w].at # "reading" \/ journal[Entry(w)].state # "none" => rows[j].attempts > 0
<1>1. PICK j \in Jobs : j = disp[w].row
  BY DEF WriteInv, OneWriter, WriterOf, AtMfl, InWrite
<1>2. Native(j) /\ disp[w].host.league \in MflLeagues /\ disp[w].host \in Hosts
  BY <1>1, EntryTyped DEF WriteInv, OneWriter, WriterOf, AtMfl
<1>3. ClaimOf(w) /\ DeedOf(j)
  BY DEF DeedInv
<1>4. /\ rows[j].status # "none" /\ disp[w].host = rows[j].host
      /\ disp[w].at # "reading" => rows[j].attempts > 0
  BY <1>1, <1>3 DEF ClaimOf, AtMfl, InWrite
<1>5. /\ Entry(w) = <<Home(rows[j].host.league), j>> /\ Receipt(j) = journal[Entry(w)]
      /\ Entry(w) \in Scopes \X Jobs
  BY <1>1, <1>4, EntryTyped DEF Receipt, WriteInv, OneWriter
<1>6. journal[Entry(w)] \in Writings
  BY <1>5 DEF WriteInv, TypeOK, OutboxTyped
<1>7. journal[Entry(w)].state # "none" => rows[j].attempts > 0
  BY <1>2, <1>3, <1>4, <1>5 DEF DeedOf
<1>. QED  BY <1>1, <1>2, <1>3, <1>4, <1>5, <1>6, <1>7

\* What may be written of action j after receipt r.
Writable(j, r, receipt) ==
    /\ receipt.state # "none"
    /\ r.state = "rejected" => receipt.state = "rejected"
    /\ ~Quiet(j) => receipt.state \in {"submitted", "unknown", "verified"} /\ ~receipt.rejected
    /\ receipt.state = "verified" => acted[j] # <<>>
    /\ receipt.state \in {"prepared", "submitted"} => ~receipt.rejected

\* Where the writing of it may leave the dispatcher.
Leading(j, receipt, at, outcome) ==
    /\ at \in {"prepared", "submitted", "noted", "returned"}
    /\ at = "submitted" => Quiet(j)
    /\ at = "noted" /\ outcome = "refused" => Quiet(j)
    /\ at = "returned" => /\ outcome = "rejected" => receipt.state = "rejected"
                          /\ outcome \notin {"dead", "retry"}

LEMMA JournalDeed ==
    ASSUME ~Reissued, WriteInv, WriteInv', DeedInv, NEW w \in Workers, disp[w].at \in AtMfl,
           NEW j, j = disp[w].row,
           NEW receipt, NEW at, NEW outcome, Journals(w, receipt, at, outcome), UNCHANGED retired,
           rows[j].attempts > 0,
           at # "returned" => disp[w].at # "reading",
           Writable(j, journal[Entry(w)], receipt), Leading(j, receipt, at, outcome)
    PROVE  DeedInv'
<1>1. /\ j \in Jobs /\ Native(j) /\ rows[j].status # "none" /\ DeedOf(j)
      /\ disp[w].host = rows[j].host /\ rows[j].host.league \in MflLeagues
      /\ Entry(w) = <<Home(rows[j].host.league), j>> /\ Receipt(j) = journal[Entry(w)]
  BY AtEntry
<1>2. /\ UNCHANGED <<hostOnly, rows, wire, acted>> /\ \A v \in Workers \ {w} : disp'[v] = disp[v]
      /\ disp'[w].at = at /\ disp'[w].outcome = outcome /\ disp'[w].row = j
      /\ disp'[w].fence = disp[w].fence /\ disp'[w].host = disp[w].host /\ disp'[w].repair = disp[w].repair
  BY DEF Journals, Moves
<1>3. Receipt(j)' = receipt
  BY <1>1, <1>2 DEF Journals, Noted, Receipt
<1>4. Quiet(j)' = Quiet(j)
  BY <1>2 DEF Quiet
<1>5. \A l \in MflLeagues : l # rows[j].host.league => journal'[<<Home(l), j>>] = journal[<<Home(l), j>>]
  BY <1>1, HomeScope DEF Journals, Noted, Home
<1>6. journal'[<<Home(rows[j].host.league), j>>] = receipt
  BY <1>2, <1>3 DEF Receipt
<1>7. DeedOf(j)'
  <2>1. \A l \in MflLeagues :
          /\ journal'[<<Home(l), j>>].state # "none" =>
                Native(j) /\ l = rows'[j].host.league /\ rows'[j].attempts > 0
          /\ journal'[<<Home(l), j>>].state = "verified" => acted'[j] # <<>>
          /\ journal'[<<Home(l), j>>].state \in {"prepared", "submitted"} => ~journal'[<<Home(l), j>>].rejected
    BY <1>1, <1>2, <1>5, <1>6 DEF DeedOf, Writable
  <2>2. /\ acted'[j] \in {<<>>, <<rows'[j].host>>}
        /\ \A m \in wire' : m[2] = j => m[1] = rows'[j].host /\ acted'[j] = <<>> /\ Native(j)
    BY <1>1, <1>2 DEF DeedOf
  <2>3. ~Quiet(j)' =>
          Receipt(j)'.state \in {"submitted", "unknown", "verified"} /\ ~Receipt(j)'.rejected
    BY <1>3, <1>4 DEF Writable
  <2>. QED  BY <2>1, <2>2, <2>3 DEF DeedOf
<1>8. \A k \in Jobs \ {j} : Untouched(k)
  BY <1>1, <1>2, HomeScope DEF Journals, Noted, Untouched
<1>9. ClaimOf(w) /\ disp[w].at # "idle"
  BY DEF DeedInv, AtMfl, InWrite
<1>10. ClaimOf(w)' /\ Fenced(w)
  <2>1. at \in InWrite => ~disp[w].repair
    BY <1>9 DEF Leading, ClaimOf, AtMfl, InWrite
  <2>2. disp[w].fence <= rows[j].fence
    BY <1>9 DEF ClaimOf
  <2>. QED  BY <1>1, <1>2, <1>3, <1>4, <1>9, <2>1, <2>2 DEF ClaimOf, Fenced, Leading, InWrite
<1>11. \A v \in Workers \ {w} : disp[v].at \in InWrite /\ disp[v].row = j => (Quiet(j) => Quiet(j)')
  BY <1>4
<1>12. Receipt(j).state = "rejected" => Receipt(j)'.state = "rejected"
  BY <1>1, <1>3 DEF Writable
<1>. QED  BY <1>1, <1>2, <1>7, <1>8, <1>10, <1>11, <1>12, TouchDeed

LEMMA BeginDeed ==
    ASSUME Arranged, ~Reissued, WriteInv, DeedInv, NEW w \in Workers, Begin(w), UNCHANGED retired
    PROVE  DeedInv'
<1>1. /\ WriteInv' /\ UNCHANGED <<hostOnly, rows, wire, acted, retired>> /\ disp[w].at = "loaded"
  BY BeginWrite DEF Begin
<1>2. PICK j : j = disp[w].row
  OBVIOUS
<1>3. /\ disp[w].at \in AtMfl /\ Native(j) /\ Receipt(j) = journal[Entry(w)] /\ rows[j].attempts > 0
      /\ DeedOf(j)
  BY <1>1, <1>2, AtEntry DEF AtMfl
<1>4. CASE \E outcome \in {"verified", "rejected", "unknown"} :
              /\ Moves(w, "returned", outcome) /\ UNCHANGED journal
              /\ outcome = "rejected" => journal[Entry(w)].state = "rejected"
  <2>1. PICK outcome \in {"verified", "rejected", "unknown"} :
           /\ Moves(w, "returned", outcome) /\ UNCHANGED journal
           /\ outcome = "rejected" => journal[Entry(w)].state = "rejected"
    BY <1>4
  <2>2. ClaimOf(w)' /\ Fenced(w)
    BY <1>1, <1>2, <1>3, <2>1, MovesClaim DEF hostOnly
  <2>. QED  BY <1>1, <2>1, <2>2, MoveDeed DEF Moves
<1>5. CASE Moves(w, "failing", "held") /\ UNCHANGED journal
  <2>1. ClaimOf(w)' /\ Fenced(w)
    BY <1>1, <1>5, MovesClaim DEF hostOnly
  <2>. QED  BY <1>1, <1>5, <2>1, MoveDeed DEF Moves
<1>6. CASE /\ Journals(w, NewWrite("prepared"), "prepared", disp[w].outcome)
           /\ journal[Entry(w)].state = "none"
  <2>1. PICK receipt : receipt = NewWrite("prepared")
    OBVIOUS
  <2>2. PICK outcome : outcome = disp[w].outcome
    OBVIOUS
  <2>3. receipt.state = "prepared" /\ receipt.rejected = FALSE
    BY <2>1, NewWriteIs
  <2>4. Quiet(j)
    BY <1>3, <1>6 DEF DeedOf
  <2>5. Writable(j, journal[Entry(w)], receipt) /\ Leading(j, receipt, "prepared", outcome)
    BY <1>6, <2>3, <2>4 DEF Writable, Leading
  <2>6. Journals(w, receipt, "prepared", outcome)
    BY <1>6, <2>1, <2>2
  <2>. QED  BY <1>1, <1>2, <1>3, <2>5, <2>6, JournalDeed
<1>. QED  BY <1>4, <1>5, <1>6, BeginWrite

LEMMA PreflightDeed ==
    ASSUME Arranged, ~Reissued, WriteInv, DeedInv, NEW w \in Workers, Preflight(w), UNCHANGED retired
    PROVE  DeedInv'
<1>1. /\ WriteInv' /\ disp[w].at = "prepared"
      /\ \/ Journals(w, NewWrite("rejected"), "returned", "rejected")
         \/ Journals(w, NewWrite("submitted"), "submitted", disp[w].outcome)
  BY PreflightWrite
<1>2. PICK j : j = disp[w].row
  OBVIOUS
<1>3. journal[Entry(w)].state = "prepared"
  BY <1>1 DEF WriteInv, OneWriter, WriterOf, StateAt, InWrite
<1>4. /\ disp[w].at \in AtMfl /\ Native(j) /\ Receipt(j) = journal[Entry(w)] /\ rows[j].attempts > 0
      /\ DeedOf(j)
  BY <1>1, <1>2, AtEntry DEF AtMfl, InWrite
<1>5. Quiet(j)
  BY <1>3, <1>4 DEF DeedOf
<1>6. PICK state, at, outcome :
        /\ state \in {"rejected", "submitted"}
        /\ Journals(w, NewWrite(state), at, outcome)
        /\ \/ state = "rejected" /\ at = "returned" /\ outcome = "rejected"
           \/ state = "submitted" /\ at = "submitted"
  BY <1>1
<1>7. PICK receipt : receipt = NewWrite(state)
  OBVIOUS
<1>8. receipt.state = state /\ receipt.rejected = FALSE
  BY <1>6, <1>7, NewWriteIs
<1>9. Writable(j, journal[Entry(w)], receipt) /\ Leading(j, receipt, at, outcome)
  BY <1>3, <1>5, <1>6, <1>8 DEF Writable, Leading
<1>10. Journals(w, receipt, at, outcome)
  BY <1>6, <1>7
<1>. QED  BY <1>1, <1>2, <1>4, <1>9, <1>10, JournalDeed

LEMMA NoteDeed ==
    ASSUME Arranged, ~Reissued, WriteInv, DeedInv, NEW w \in Workers, Note(w), UNCHANGED retired
    PROVE  DeedInv'
<1>1. /\ WriteInv' /\ disp[w].at = "answered"
      /\ Answer(w).state = "unknown" /\ Answer(w).rejected = (disp[w].outcome = "refused")
  BY NoteWrite
<1>2. PICK at, outcome :
         /\ Journals(w, Answer(w), at, outcome)
         /\ (at = "returned" /\ outcome = "unknown") \/ (at = "noted" /\ outcome = disp[w].outcome)
  BY NoteWrite
<1>3. PICK j : j = disp[w].row
  OBVIOUS
<1>4. journal[Entry(w)].state = "submitted"
  BY <1>1 DEF WriteInv, OneWriter, WriterOf, StateAt, InWrite
<1>5. /\ disp[w].at \in AtMfl /\ rows[j].attempts > 0
  BY <1>1, <1>3, AtEntry DEF AtMfl, InWrite
<1>6. disp[w].outcome = "refused" => Quiet(j)
  BY <1>1, <1>3 DEF DeedInv, ClaimOf
<1>7. PICK receipt : receipt = Answer(w)
  OBVIOUS
<1>8. Writable(j, journal[Entry(w)], receipt) /\ Leading(j, receipt, at, outcome)
  BY <1>1, <1>2, <1>4, <1>6, <1>7 DEF Writable, Leading
<1>9. Journals(w, receipt, at, outcome)
  BY <1>2, <1>7
<1>. QED  BY <1>1, <1>2, <1>3, <1>5, <1>8, <1>9, JournalDeed

\* A finding is written only of what happened.
LEMMA FindingWritable ==
    ASSUME NEW j \in Jobs, DeedOf(j), Native(j), NEW league, league = rows[j].host.league,
           NEW r \in Writings, r = Receipt(j), r.state \in {"submitted", "unknown"},
           NEW s, Finding(league, j, r, s),
           NEW receipt, receipt.state = s, receipt.rejected = r.rejected
    PROVE  Writable(j, r, receipt) /\ Leading(j, receipt, "returned", s)
<1>1. s = "verified" => acted[j] # <<>>
  BY DEF Finding, Seen
<1>2. ~Quiet(j) => ~r.rejected
  BY DEF DeedOf
<1>. QED  BY <1>1, <1>2 DEF Finding, Writable, Leading

LEMMA ReadBackDeed ==
    ASSUME Arranged, ~Reissued, WriteInv, DeedInv, NEW w \in Workers, ReadBack(w), UNCHANGED retired
    PROVE  DeedInv'
<1>1. WriteInv' /\ disp[w].at = "noted"
  BY ReadBackWrite
<1>2. PICK j : j = disp[w].row
  OBVIOUS
<1>3. PICK r : r = journal[Entry(w)]
  OBVIOUS
<1>4. PICK s : /\ Finding(disp[w].host.league, j, r, s)
               /\ Journals(w, [r EXCEPT !.state = s], "returned", s)
  BY <1>2, <1>3, ReadBackWrite
<1>5. r.state = "unknown"
  BY <1>1, <1>3 DEF WriteInv, OneWriter, WriterOf, StateAt, InWrite
<1>6. /\ disp[w].at \in AtMfl /\ rows[j].attempts > 0 /\ j \in Jobs /\ Native(j) /\ DeedOf(j)
      /\ r = Receipt(j) /\ r \in Writings /\ disp[w].host.league = rows[j].host.league
  BY <1>1, <1>2, <1>3, AtEntry DEF AtMfl, InWrite
<1>7. PICK receipt : receipt = [r EXCEPT !.state = s]
  OBVIOUS
<1>8. receipt.state = s /\ receipt.rejected = r.rejected
  BY <1>4, <1>6, <1>7, Judged DEF Finding
<1>9. Writable(j, r, receipt) /\ Leading(j, receipt, "returned", s)
  BY <1>4, <1>5, <1>6, <1>8, FindingWritable
<1>10. Journals(w, receipt, "returned", s)
  BY <1>4, <1>7
<1>. QED  BY <1>1, <1>2, <1>3, <1>6, <1>9, <1>10, JournalDeed

LEMMA ReconcileDeed ==
    ASSUME Arranged, ~Reissued, WriteInv, DeedInv, NEW w \in Workers, Reconcile(w), UNCHANGED retired
    PROVE  DeedInv'
<1>1. /\ WriteInv' /\ disp[w].at = "reading"
      /\ UNCHANGED <<hostOnly, rows, wire, acted>>
  BY ReconcileWrite
<1>2. CASE Moves(w, "failing", "held") /\ UNCHANGED journal
  <2>1. ClaimOf(w)' /\ Fenced(w)
    BY <1>1, <1>2, MovesClaim DEF hostOnly
  <2>. QED  BY <1>1, <1>2, <2>1, MoveDeed DEF Moves
<1>3. CASE \E s : /\ Reread(disp[w].host.league, disp[w].row, journal[Entry(w)], s)
                  /\ Journals(w, [journal[Entry(w)] EXCEPT !.state = s], "returned", s)
  <2>1. PICK j : j = disp[w].row
    OBVIOUS
  <2>2. PICK r : r = journal[Entry(w)]
    OBVIOUS
  <2>3. PICK s : /\ Reread(disp[w].host.league, j, r, s)
                 /\ Journals(w, [r EXCEPT !.state = s], "returned", s)
    BY <1>3, <2>1, <2>2
  <2>4. s \in {"verified", "rejected", "unknown"} /\ r.state # "none"
    BY <2>3 DEF Reread, Finding
  <2>5. /\ disp[w].at \in AtMfl /\ rows[j].attempts > 0 /\ j \in Jobs /\ Native(j) /\ DeedOf(j)
        /\ r = Receipt(j) /\ r \in Writings /\ disp[w].host.league = rows[j].host.league
        /\ rows[j].host.league \in MflLeagues
    BY <1>1, <2>1, <2>2, <2>4, AtEntry DEF AtMfl
  <2>6. PICK receipt : receipt = [r EXCEPT !.state = s]
    OBVIOUS
  <2>7. receipt.state = s /\ receipt.rejected = r.rejected
    BY <2>4, <2>5, <2>6, Judged
  <2>8. Writable(j, r, receipt) /\ Leading(j, receipt, "returned", s)
    <3>1. CASE r.state \in {"submitted", "unknown"}
      BY <2>3, <2>5, <2>7, <3>1, FindingWritable DEF Reread
    <3>2. CASE r.state \notin {"submitted", "unknown"}
      <4>1. \/ r.state \in {"verified", "rejected"} /\ s = r.state
            \/ r.state = "prepared" /\ s = "rejected"
        BY <2>3, <3>2 DEF Reread
      <4>2. /\ ~Quiet(j) => r.state = "verified" /\ ~r.rejected
            /\ r.state = "verified" => acted[j] # <<>>
        BY <2>5, <3>2 DEF DeedOf, Receipt
      <4>. QED  BY <2>7, <4>1, <4>2 DEF Writable, Leading
    <3>. QED  BY <3>1, <3>2
  <2>9. Journals(w, receipt, "returned", s)
    BY <2>3, <2>6
  <2>. QED  BY <1>1, <2>1, <2>2, <2>5, <2>8, <2>9, JournalDeed
<1>. QED  BY <1>2, <1>3, ReconcileWrite

\* What a request to MFL may come to: an effect now, one to come, or none.
LEMMA SentDeed ==
    ASSUME NEW j \in Jobs, DeedOf(j), Native(j), Quiet(j), Receipt(j).state = "submitted",
           rows[j].host.league \in MflLeagues, UNCHANGED <<rows, journal>>,
           \/ acted'[j] = <<rows[j].host>> /\ wire' = wire
           \/ acted'[j] = acted[j] /\ wire' = wire \cup {<<rows[j].host, j>>}
           \/ acted'[j] = acted[j] /\ wire' = wire
    PROVE  DeedOf(j)'
<1>1. acted[j] = <<>> /\ \A m \in wire : m[2] # j
  BY DEF Quiet
<1>2. acted'[j] \in {<<>>, <<rows'[j].host>>}
  BY <1>1
<1>3. \A m \in wire' : m[2] = j => m[1] = rows'[j].host /\ acted'[j] = <<>> /\ Native(j)
  BY <1>1
<1>4. Receipt(j)' = Receipt(j)
  BY DEF Receipt
<1>5. ~Receipt(j).rejected
  BY DEF DeedOf, Receipt
<1>6. \A l \in MflLeagues : journal[<<Home(l), j>>].state # "verified"
  BY <1>1 DEF DeedOf
<1>. QED  BY <1>1, <1>2, <1>3, <1>4, <1>5, <1>6 DEF DeedOf

\* Two dispatchers never write for one row: its host fixes their scope.
LEMMA OnlyWriter ==
    ASSUME ~Reissued, WriteInv, DeedInv, NEW w \in Workers, disp[w].at \in InWrite
    PROVE  \A v \in Workers \ {w} : disp[v].at \in InWrite => disp[v].row # disp[w].row
<1>1. ASSUME NEW v \in Workers, disp[v].at \in InWrite
      PROVE  Scope(v) = Home(rows[disp[v].row].host.league)
  <2>1. disp[v].at \in AtMfl /\ disp[v].at # "idle"
    BY <1>1 DEF AtMfl, InWrite
  <2>2. Scope(v) = Home(disp[v].host.league)
    BY <2>1, EntryTyped DEF WriteInv, OneWriter
  <2>3. disp[v].host = rows[disp[v].row].host
    BY <1>1, <2>1 DEF DeedInv, ClaimOf
  <2>. QED  BY <2>2, <2>3
<1>2. Alone(w)
  BY DEF WriteInv, OneWriter
<1>. QED  BY <1>1, <1>2 DEF Alone

LEMMA PostDeed ==
    ASSUME Arranged, ~Reissued, WriteInv, DeedInv, NEW w \in Workers, Post(w), UNCHANGED retired
    PROVE  DeedInv'
<1>1. PICK j : j = disp[w].row
  OBVIOUS
<1>2. /\ WriteInv' /\ disp[w].at = "submitted" /\ UNCHANGED <<hostOnly, rows, journal>>
      /\ disp[w].host \in Hosts
  BY PostWrite
<1>3. PICK outcome \in {"accepted", "refused", "lost"} :
         /\ Moves(w, "answered", outcome)
         /\ \/ TakesEffect(j, disp[w].host) /\ wire' = wire /\ outcome # "refused"
            \/ wire' = wire \cup {Sent(w)} /\ acted' = acted /\ outcome = "lost"
            \/ wire' = wire /\ acted' = acted
  BY <1>1, PostWrite
<1>4. /\ j \in Jobs /\ Native(j) /\ rows[j].status # "none" /\ DeedOf(j) /\ disp[w].host = rows[j].host
      /\ rows[j].host.league \in MflLeagues /\ rows[j].attempts > 0 /\ Receipt(j) = journal[Entry(w)]
  BY <1>1, <1>2, AtEntry DEF AtMfl, InWrite
<1>5. Receipt(j).state = "submitted" /\ Quiet(j) /\ acted[j] = <<>> /\ ClaimOf(w)
  BY <1>1, <1>2, <1>4 DEF WriteInv, OneWriter, WriterOf, StateAt, InWrite, DeedInv, ClaimOf, Quiet
<1>6. /\ \/ acted'[j] = <<rows[j].host>> /\ wire' = wire
         \/ acted'[j] = acted[j] /\ wire' = wire \cup {<<rows[j].host, j>>}
         \/ acted'[j] = acted[j] /\ wire' = wire
      /\ \A k \in Jobs \ {j} : acted'[k] = acted[k]
      /\ outcome = "refused" => acted' = acted /\ wire' = wire
  <2>1. CASE TakesEffect(j, disp[w].host) /\ wire' = wire /\ outcome # "refused"
    <3>1. /\ acted'[j] = Append(acted[j], rows[j].host) /\ \A k \in Jobs \ {j} : acted'[k] = acted[k]
      BY <1>2, <1>4, <2>1, TakesEffectTyped DEF WriteInv, TypeOK
    <3>2. acted'[j] = <<rows[j].host>>
      BY <1>2, <1>4, <1>5, <3>1
    <3>. QED  BY <2>1, <3>1, <3>2
  <2>2. CASE wire' = wire \cup {Sent(w)} /\ acted' = acted /\ outcome = "lost"
    <3>1. wire' = wire \cup {<<rows[j].host, j>>}
      BY <1>1, <1>4, <2>2 DEF Sent
    <3>. QED  BY <2>2, <3>1
  <2>. QED  BY <1>3, <2>1, <2>2
<1>7. DeedOf(j)'
  BY <1>2, <1>4, <1>5, <1>6, SentDeed
<1>8. \A k \in Jobs \ {j} : Untouched(k)
  BY <1>2, <1>6 DEF Untouched
<1>9. ClaimOf(w)' /\ Fenced(w)
  <2>1. /\ disp'[w].at = "answered" /\ disp'[w].outcome = outcome /\ disp'[w].row = j
        /\ disp'[w].fence = disp[w].fence /\ disp'[w].host = disp[w].host /\ disp'[w].repair = disp[w].repair
    BY <1>1, <1>3 DEF Moves
  <2>2. outcome = "refused" => Quiet(j)'
    BY <1>5, <1>6 DEF Quiet
  <2>. QED  BY <1>1, <1>2, <1>4, <1>5, <2>1, <2>2 DEF ClaimOf, Fenced, InWrite
<1>10. \A v \in Workers \ {w} : (disp[v].at \in InWrite => disp[v].row # j) /\ disp'[v] = disp[v]
  BY <1>1, <1>2, <1>3, OnlyWriter DEF Moves, InWrite
<1>11. Receipt(j)' = Receipt(j)
  BY <1>2 DEF Receipt
<1>. QED  BY <1>2, <1>4, <1>5, <1>7, <1>8, <1>9, <1>10, <1>11, TouchDeed

LEMMA LandDeed ==
    ASSUME Arranged, ~Reissued, WriteInv, DeedInv, NEW m \in wire, Land(m), UNCHANGED retired
    PROVE  DeedInv'
<1>1. /\ WriteInv' /\ m \in Hosts \X Jobs /\ TakesEffect(m[2], m[1]) /\ wire' = wire \ {m}
      /\ UNCHANGED <<hostOnly, rows, journal, disp>>
  BY LandWrite DEF Land
<1>2. PICK j \in Jobs : j = m[2]
  BY <1>1
<1>3. /\ m[1] = rows[j].host /\ acted[j] = <<>> /\ Native(j) /\ DeedOf(j) /\ ~Quiet(j) /\ RowOf(j)
      /\ m = <<rows[j].host, j>> /\ m[1] \in Hosts
  BY <1>1, <1>2 DEF DeedInv, DeedOf, Quiet
<1>4. rows[j].status # "none"
  BY <1>3 DEF RowOf
<1>5. acted'[j] = <<rows[j].host>> /\ \A k \in Jobs \ {j} : acted'[k] = acted[k]
  <2>1. acted'[j] = Append(acted[j], m[1]) /\ \A k \in Jobs \ {j} : acted'[k] = acted[k]
    BY <1>1, <1>2, <1>3, TakesEffectTyped DEF WriteInv, TypeOK
  <2>. QED  BY <1>3, <2>1
<1>6. \A n \in wire' : n[2] # j
  <2>1. ASSUME NEW n \in wire, n[2] = j
        PROVE  n = m
    <3>1. n \in Hosts \X Jobs /\ n[1] = rows[j].host
      BY <1>3, <2>1 DEF DeedOf, WriteInv, TypeOK, OutboxTyped
    <3>. QED  BY <1>3, <2>1, <3>1
  <2>. QED  BY <1>1, <2>1
<1>7. DeedOf(j)'
  <2>1. Receipt(j)' = Receipt(j)
    BY <1>1 DEF Receipt
  <2>. QED  BY <1>1, <1>3, <1>5, <1>6, <2>1 DEF DeedOf
<1>8. \A k \in Jobs \ {j} : Untouched(k)
  BY <1>1, <1>2, <1>5 DEF Untouched
<1>9. Receipt(j)' = Receipt(j) /\ acted'[j] # <<>>
  BY <1>1, <1>5 DEF Receipt
<1>10. PICK w \in Workers \cup {Nobody} : w \notin Workers
  BY NobodyElse
<1>11. \A v \in Workers \ {w} : disp'[v] = disp[v]
  BY <1>1
<1>. QED  BY <1>1, <1>3, <1>4, <1>7, <1>8, <1>9, <1>10, <1>11, TouchDeed

LEMMA CrashDeed ==
    ASSUME Arranged, ~Reissued, WriteInv, DeedInv, NEW w \in Workers, Crash(w), UNCHANGED retired
    PROVE  DeedInv'
<1>1. WriteInv' /\ Leaves(w) /\ UNCHANGED <<hostOnly, rows, journal, acted, retired>>
  BY CrashWrite
<1>2. ClaimOf(w)' /\ Fenced(w) /\ \A v \in Workers \ {w} : disp'[v] = disp[v]
  BY <1>1, LeavesClaim DEF Leaves
<1>3. CASE wire' = wire
  BY <1>1, <1>2, <1>3, MoveDeed
<1>4. CASE disp[w].at = "submitted" /\ wire' = wire \cup {Sent(w)}
  <2>1. PICK j : j = disp[w].row
    OBVIOUS
  <2>2. /\ j \in Jobs /\ Native(j) /\ rows[j].status # "none" /\ DeedOf(j) /\ disp[w].host = rows[j].host
        /\ rows[j].host.league \in MflLeagues /\ Receipt(j) = journal[Entry(w)]
    BY <1>4, <2>1, AtEntry DEF AtMfl, InWrite
  <2>3. Receipt(j).state = "submitted" /\ Quiet(j)
    BY <1>4, <2>1, <2>2 DEF WriteInv, OneWriter, WriterOf, StateAt, InWrite, DeedInv, ClaimOf
  <2>4. wire' = wire \cup {<<rows[j].host, j>>} /\ acted'[j] = acted[j]
    BY <1>1, <1>4, <2>1, <2>2 DEF Sent
  <2>5. DeedOf(j)'
    BY <1>1, <2>2, <2>3, <2>4, SentDeed
  <2>6. \A k \in Jobs \ {j} : Untouched(k)
    BY <1>1, <2>4 DEF Untouched
  <2>7. \A v \in Workers \ {w} : disp[v].at \in InWrite => disp[v].row # j
    BY <1>4, <2>1, OnlyWriter DEF InWrite
  <2>8. Receipt(j)' = Receipt(j)
    BY <1>1 DEF Receipt
  <2>. QED  BY <1>1, <1>2, <2>2, <2>4, <2>5, <2>6, <2>7, <2>8, TouchDeed
<1>. QED  BY <1>3, <1>4, CrashWrite

LEMMA OutboxDeed ==
    ASSUME Arranged, ~Reissued, ~OutliveCheck, WriteInv, DeedInv, OutboxNext, UNCHANGED retired
    PROVE  DeedInv'
<1>1. ASSUME NEW w \in Workers, DispatchStep(w)
      PROVE  DeedInv'
  BY <1>1, ClaimDeed, StaleDeed, ContextDeed, LoadDeed, ExecuteDeed, BeginDeed, PreflightDeed,
     PostDeed, NoteDeed, ReadBackDeed, AcknowledgeDeed, AcknowledgeFailsDeed, SettleDeed
  DEF DispatchStep
<1>2. ASSUME NEW w \in Workers, Crash(w) \/ Reconcile(w) \/ \E j \in Jobs : ClaimHeld(w, j)
      PROVE  DeedInv'
  BY <1>2, CrashDeed, ReconcileDeed, ClaimDeed
<1>3. ASSUME NEW j \in Jobs, Bury(j) \/ LeaseExpires(j)
      PROVE  DeedInv'
  BY <1>3, BuryDeed, ExpiryDeed
<1>. QED  BY <1>1, <1>2, <1>3, LandDeed DEF OutboxNext

LEMMA DeedInit ==
    ASSUME Arranged, ~Reissued, NEW first \in Hosts, TrialInit(first)
    PROVE  DeedInv
<1>1. NoRow.status = "none" /\ NoWrite.state = "none" /\ NoWrite.rejected = FALSE /\ Idle.at = "idle"
  BY DEF NoRow, NoWrite, Idle
<1>2. \A l \in MflLeagues, j \in Jobs : journal[<<Home(l), j>>] = NoWrite
  BY HomeScope DEF TrialInit, OutboxInit
<1>. QED
  BY <1>1, <1>2 DEF TrialInit, HostInit, OutboxInit, DeedInv, ClaimOf, OwnFence, DeedOf, RowOf, Quiet, Receipt

LEMMA DeedNext ==
    ASSUME Arranged, ~Reissued, ~OutliveCheck, WriteInv, DeedInv, TrialNext
    PROVE  DeedInv'
BY WriteNext, EpochDeed, OperatorDeed, TurnDeed, OutboxDeed DEF TrialNext

-----------------------------------------------------------------------------
(* What dispatchers leave of the league.                                   *)

\* One row of those in use changes, or none does.
RowsBy ==
    /\ UNCHANGED hostOnly
    /\ \/ rows' = rows
       \/ \E j \in Jobs, status \in Statuses \ {"none"} :
             /\ rows[j].status \in {"pending", "running", "held"}
             /\ \E live, attempts, fence : RowTo(j, status, live, attempts, fence)

LEMMA OutboxRows ==
    ASSUME Arranged, WriteInv, OutboxNext
    PROVE  RowsBy
<1>1. ASSUME NEW w \in Workers, NEW j \in Jobs, Claim(w, j) \/ ClaimHeld(w, j)
      PROVE  RowsBy
  <2>1. rows[j].status \in {"pending", "running", "held"} /\ UNCHANGED hostOnly
    BY <1>1 DEF Claim, ClaimHeld, Claimable
  <2>2. \E attempts, fence : RowTo(j, "running", TRUE, attempts, fence)
    BY <1>1, ClaimTakes, ClaimHeldTakes DEF WriteInv
  <2>3. PICK status \in Statuses \ {"none"}, live \in BOOLEAN : status = "running" /\ live = TRUE
    BY DEF Statuses
  <2>. QED  BY <2>1, <2>2, <2>3 DEF RowsBy
<1>2. ASSUME NEW w \in Workers, Acknowledge(w)
      PROVE  RowsBy
  <2>1. disp[w].row \in Jobs /\ rows[disp[w].row].status = "running" /\ UNCHANGED hostOnly
    BY <1>2 DEF Acknowledge, Holds, WriteInv, OneWriter, WriterOf
  <2>2. \/ rows' = rows
        \/ \E attempts, fence : RowTo(disp[w].row, "delivered", FALSE, attempts, fence)
    BY <1>2, AcknowledgeWrite
  <2>3. PICK status \in Statuses \ {"none"}, live \in BOOLEAN : status = "delivered" /\ live = FALSE
    BY DEF Statuses
  <2>. QED  BY <2>1, <2>2, <2>3 DEF RowsBy
<1>3. ASSUME NEW w \in Workers, Settle(w)
      PROVE  RowsBy
  <2>1. disp[w].row \in Jobs /\ rows[disp[w].row].status = "running" /\ UNCHANGED hostOnly
    BY <1>3 DEF Settle, Holds, WriteInv, OneWriter, WriterOf
  <2>2. PICK status \in {"held", "dead", "pending"} :
           \E attempts, fence : RowTo(disp[w].row, status, FALSE, attempts, fence)
    BY <1>3, SettleWrite
  <2>3. status \in Statuses \ {"none"}
    BY DEF Statuses
  <2>4. PICK live : live = FALSE
    OBVIOUS
  <2>. QED  BY <2>1, <2>2, <2>3, <2>4 DEF RowsBy
<1>4. ASSUME NEW j \in Jobs, Bury(j)
      PROVE  RowsBy
  <2>1. rows[j].status \in {"pending", "running"} /\ UNCHANGED hostOnly
    BY <1>4 DEF Bury, Claimable
  <2>2. PICK status \in {"held", "dead"} :
           \E attempts, fence : RowTo(j, status, FALSE, attempts, fence)
    BY <1>4, BuryWrite
  <2>3. status \in Statuses \ {"none"}
    BY DEF Statuses
  <2>4. PICK live : live = FALSE
    OBVIOUS
  <2>. QED  BY <2>1, <2>2, <2>3, <2>4 DEF RowsBy
<1>5. ASSUME NEW j \in Jobs, LeaseExpires(j)
      PROVE  RowsBy
  <2>1. rows[j].status = "running" /\ UNCHANGED hostOnly
    BY <1>5 DEF LeaseExpires
  <2>2. PICK status \in Statuses \ {"none"} : status = rows[j].status
    BY <2>1 DEF Statuses
  <2>3. \E live, attempts, fence : RowTo(j, status, live, attempts, fence)
    BY <1>5, <2>2, ExpiryWrite
  <2>. QED  BY <2>1, <2>2, <2>3 DEF RowsBy
<1>6. ASSUME UNCHANGED <<hostOnly, rows>>
      PROVE  RowsBy
  BY <1>6 DEF RowsBy
<1>7. ASSUME NEW w \in Workers, DispatchStep(w) \/ Crash(w) \/ Reconcile(w)
      PROVE  RowsBy
  <2>1. CASE \/ Stale(w) \/ Context(w) \/ Load(w) \/ ExecuteAgain(w) \/ Execute(w) \/ ExecuteFails(w)
             \/ Begin(w) \/ Preflight(w) \/ Post(w) \/ Note(w) \/ ReadBack(w) \/ Crash(w) \/ Reconcile(w)
             \/ AcknowledgeFails(w)
    <3>1. UNCHANGED <<hostOnly, rows>>
      BY <2>1 DEF Stale, Context, Load, ExecuteAgain, Execute, ExecuteFails, Begin, Preflight, Post,
                  Note, ReadBack, Crash, Reconcile, AcknowledgeFails
    <3>. QED  BY <1>6, <3>1
  <2>. QED  BY <1>1, <1>2, <1>3, <1>7, <2>1 DEF DispatchStep
<1>8. ASSUME NEW m \in wire, Land(m)
      PROVE  RowsBy
  BY <1>6, <1>8 DEF Land
<1>. QED  BY <1>1, <1>4, <1>5, <1>7, <1>8 DEF OutboxNext

\* A write is opened only for a row whose claim is held.
LEMMA OutboxOpens ==
    ASSUME Arranged, ~Reissued, WriteInv, DeedInv, OutboxNext
    PROVE  \A m \in OpenWrites' : m \in OpenWrites \/ rows[m[2]].status = "running"
<1>1. ASSUME journal' = journal
      PROVE  OpenWrites' = OpenWrites
  BY <1>1 DEF OpenWrites
<1>2. ASSUME NEW w \in Workers, disp[w].at \in AtMfl, NEW receipt, Noted(w, receipt),
             journal[Entry(w)].state \in Unresolved \/ receipt.state \notin Unresolved
      PROVE  OpenWrites' \subseteq OpenWrites
  BY <1>2, AtEntry DEF OpenWrites, Noted
<1>3. ASSUME NEW w \in Workers, Begin(w)
      PROVE  \A m \in OpenWrites' : m \in OpenWrites \/ rows[m[2]].status = "running"
  <2>1. disp[w].at = "loaded"
    BY <1>3 DEF Begin
  <2>2. disp[w].row \in RunningRows /\ disp[w].at \in AtMfl
    BY <2>1, HolderRuns DEF AtMfl
  <2>3. CASE \E receipt : Noted(w, receipt)
    <3>1. PICK receipt : Noted(w, receipt)
      BY <2>3
    <3>2. Entry(w)[2] = disp[w].row
      BY DEF Entry
    <3>. QED  BY <2>2, <3>1, <3>2 DEF Noted, OpenWrites, RunningRows
  <2>. QED  BY <1>1, <1>3, <2>3, BeginWrite DEF Journals
<1>4. ASSUME NEW w \in Workers, Preflight(w) \/ Note(w) \/ ReadBack(w)
      PROVE  OpenWrites' \subseteq OpenWrites
  <2>1. disp[w].at \in InWrite /\ disp[w].at \in AtMfl
    BY <1>4 DEF Preflight, Note, ReadBack, InWrite, AtMfl
  <2>2. journal[Entry(w)].state \in Unresolved
    BY <2>1 DEF WriteInv, OneWriter, WriterOf, StateAt, Unresolved
  <2>3. \E receipt : Noted(w, receipt)
    BY <1>4, PreflightWrite, NoteWrite, ReadBackWrite DEF Journals
  <2>. QED  BY <1>2, <2>1, <2>2, <2>3
<1>5. ASSUME NEW w \in Workers, Reconcile(w)
      PROVE  OpenWrites' \subseteq OpenWrites
  <2>1. disp[w].at = "reading" /\ disp[w].at \in AtMfl
    BY <1>5 DEF Reconcile, AtMfl
  <2>2. CASE \E s : /\ Reread(disp[w].host.league, disp[w].row, journal[Entry(w)], s)
                    /\ Journals(w, [journal[Entry(w)] EXCEPT !.state = s], "returned", s)
    <3>1. PICK r : r = journal[Entry(w)]
      OBVIOUS
    <3>2. PICK s : /\ Reread(disp[w].host.league, disp[w].row, r, s)
                   /\ Journals(w, [r EXCEPT !.state = s], "returned", s)
      BY <2>2, <3>1
    <3>3. s \in {"verified", "rejected", "unknown"} /\ (s \in Unresolved => r.state \in Unresolved)
      BY <3>2 DEF Reread, Finding, Unresolved
    <3>4. PICK receipt : receipt = [r EXCEPT !.state = s]
      OBVIOUS
    <3>5. r \in Writings
      BY <2>1, <3>1, AtEntry
    <3>6. receipt.state = s /\ Noted(w, receipt)
      BY <3>2, <3>3, <3>4, <3>5, Judged DEF Journals
    <3>. QED  BY <1>2, <2>1, <3>1, <3>3, <3>6
  <2>. QED  BY <1>1, <1>5, <2>2, ReconcileWrite
<1>6. ASSUME NEW w \in Workers,
             \/ Stale(w) \/ Context(w) \/ Load(w) \/ ExecuteAgain(w) \/ Execute(w) \/ ExecuteFails(w)
             \/ Post(w) \/ Acknowledge(w) \/ AcknowledgeFails(w) \/ Settle(w) \/ Crash(w)
             \/ \E j \in Jobs : Claim(w, j) \/ ClaimHeld(w, j)
      PROVE  journal' = journal
  BY <1>6 DEF Stale, Context, Load, ExecuteAgain, Execute, ExecuteFails, Post, Acknowledge, Settle, Crash,
              AcknowledgeFails, Claim, ClaimHeld, writes
<1>7. ASSUME \/ \E j \in Jobs : Bury(j) \/ LeaseExpires(j)
             \/ \E m \in wire : Land(m)
      PROVE  journal' = journal
  BY <1>7 DEF Bury, LeaseExpires, Land, writes, outboxVars
<1>. QED  BY <1>1, <1>3, <1>4, <1>5, <1>6, <1>7 DEF OutboxNext, DispatchStep

-----------------------------------------------------------------------------
(* Where an action is meant to take effect.                                *)

LEMMA MeantKept ==
    ASSUME NEW j \in Jobs, MeantOf(j), jobs'[j].epoch = jobs[j].epoch,
           jobs'[j].status = "none" => jobs[j].status = "none",
           rows'[j].host = rows[j].host, rows'[j].status # "none" => rows[j].status # "none",
           jobs[j].epoch # 0 =>
              /\ epochs'[jobs[j].epoch].status \notin {"none", "arming"}
              /\ epochs'[jobs[j].epoch].trial = epochs[jobs[j].epoch].trial
    PROVE  MeantOf(j)'
BY DEF MeantOf

\* Neither rows nor turns change their place.
LEMMA MeantSame ==
    ASSUME MeantInv, UNCHANGED <<host, switches, epochs>>,
           \A j \in Jobs :
              /\ jobs'[j].epoch = jobs[j].epoch /\ (jobs'[j].status = "none" => jobs[j].status = "none")
              /\ rows'[j].host = rows[j].host /\ (rows'[j].status # "none" => rows[j].status # "none")
    PROVE  MeantInv'
<1>1. HostMeant'
  BY DEF MeantInv, HostMeant, Open
<1>2. ASSUME NEW j \in Jobs
      PROVE  MeantOf(j)'
  <2>1. jobs[j].epoch # 0 => epochs[jobs[j].epoch].status \notin {"none", "arming"}
    BY DEF MeantInv, MeantOf
  <2>. QED  BY <2>1, MeantKept DEF MeantInv
<1>. QED  BY <1>1, <1>2 DEF MeantInv

LEMMA OutboxMeant ==
    ASSUME Arranged, WriteInv, MeantInv, OutboxNext
    PROVE  MeantInv'
<1>1. RowsBy
  BY OutboxRows
<1>2. \A j \in Jobs : rows'[j].host = rows[j].host /\ (rows'[j].status # "none" => rows[j].status # "none")
  BY <1>1 DEF RowsBy, RowTo
<1>. QED  BY <1>1, <1>2, MeantSame DEF RowsBy, hostOnly

LEMMA TurnMeant ==
    ASSUME Arranged, WriteInv, MeantInv, TurnNext
    PROVE  MeantInv'
<1>1. PICK j \in Jobs : Wake(j) \/ StartTurn(j) \/ Enqueue(j) \/ EndTurn(j)
  BY DEF TurnNext
<1>2. LeagueTyped
  BY DEF WriteInv, TypeOK
<1>3. CASE Wake(j) \/ StartTurn(j) \/ EndTurn(j)
  <2>1. PICK status \in {"pending", "running", "dead"} : jobs' = [jobs EXCEPT ![j].status = status]
    BY <1>2, <1>3, TurnTyped
  <2>2. UNCHANGED <<host, switches, epochs, rows>>
    BY <1>2, <1>3, TurnTyped
  <2>3. /\ jobs'[j].status = status /\ jobs'[j].epoch = jobs[j].epoch
        /\ \A k \in Jobs \ {j} : jobs'[k] = jobs[k]
    BY <1>2, <2>1, TurnSet
  <2>. QED  BY <2>2, <2>3, MeantSame
<1>4. CASE Enqueue(j)
  <2>1. UNCHANGED <<host, switches, epochs>> /\ Committable(j) /\ Matches(j)
    BY <1>4 DEF Enqueue
  <2>2. /\ jobs'[j].status = "done" /\ jobs'[j].epoch = jobs[j].epoch
        /\ \A k \in Jobs \ {j} : jobs'[k] = jobs[k]
    BY <1>2, <1>4, EnqueueTyped
  <2>3. rows'[j].host = host /\ \A k \in Jobs \ {j} : rows'[k] = rows[k]
    BY <1>2, <1>4, EnqueueTyped DEF NewRow, LeagueTyped
  <2>4. HostMeant'
    BY <2>1 DEF MeantInv, HostMeant, Open
  <2>5. MeantOf(j)'
    <3>1. CASE jobs[j].epoch = 0
      BY <2>1, <2>2, <2>3, <3>1 DEF MeantInv, MeantOf, HostMeant, Committable, Allowed, Admitted
    <3>2. CASE jobs[j].epoch # 0
      BY <2>1, <2>2, <2>3, <3>2 DEF MeantInv, MeantOf, Committable, Allowed, Undrifted
    <3>. QED  BY <3>1, <3>2
  <2>6. ASSUME NEW k \in Jobs \ {j}
        PROVE  MeantOf(k)'
    BY <2>1, <2>2, <2>3 DEF MeantInv, MeantOf
  <2>. QED  BY <2>4, <2>5, <2>6 DEF MeantInv
<1>. QED  BY <1>1, <1>3, <1>4

LEMMA BoundRows ==
    ASSUME LeagueTyped, NEW key, NEW new, Bound(key, new), NEW j \in Jobs
    PROVE  rows'[j].host = rows[j].host /\ (rows'[j].status = "none" <=> rows[j].status = "none")
<1>1. rows[j] \in Rows
  BY DEF LeagueTyped
<1>2. CASE rows[j].status = "pending"
  <2>1. rows'[j] = [rows[j] EXCEPT !.status = "held"]
    BY <1>2 DEF Bound, HeldByBinding
  <2>. QED  BY <1>1, <1>2, <2>1 DEF Rows
<1>3. CASE rows[j].status # "pending"
  BY <1>3 DEF Bound, HeldByBinding
<1>. QED  BY <1>2, <1>3

\* A host is bound that fits: no disposable league by hand, production by a return.
LEMMA BoundMeant ==
    ASSUME Arranged, LeagueTyped, MeantInv, NEW key \in Keys, NEW new \in Hosts, Bound(key, new),
           UNCHANGED <<epochs, jobs>>,
           Open = {} => new.league # "trial", key[2] = "restore" => new.league = "prod"
    PROVE  MeantInv'
<1>1. ASSUME NEW j \in Jobs
      PROVE  MeantOf(j)'
  <2>1. jobs[j].epoch # 0 => epochs[jobs[j].epoch].status \notin {"none", "arming"}
    BY DEF MeantInv, MeantOf
  <2>2. rows'[j].host = rows[j].host /\ (rows'[j].status # "none" => rows[j].status # "none")
    BY BoundRows
  <2>. QED  BY <2>1, <2>2, MeantKept DEF MeantInv
<1>2. Open' = {} => host'.league # "trial"
  BY DEF Bound, Open
<1>3. \A i \in DOMAIN switches' : switches'[i].key[2] = "restore" => switches'[i].to.league = "prod"
  <2>1. PICK binding : binding = [key |-> key, from |-> host, to |-> new]
    OBVIOUS
  <2>2. switches' = Append(switches, binding) /\ switches \in Seq(Bindings) /\ binding \in Bindings
    BY <2>1 DEF Bound, LeagueTyped, Bindings, Keys
  <2>3. binding.key = key /\ binding.to = new
    BY <2>1
  <2>4. ASSUME NEW i \in DOMAIN switches', switches'[i].key[2] = "restore"
        PROVE  switches'[i].to.league = "prod"
    <3>1. (i \in DOMAIN switches /\ switches'[i] = switches[i]) \/ switches'[i] = binding
      BY <2>2, <2>4
    <3>. QED  BY <2>3, <2>4, <3>1 DEF MeantInv, HostMeant
  <2>. QED  BY <2>4
<1>. QED  BY <1>1, <1>2, <1>3 DEF MeantInv, HostMeant

LEMMA OperatorMeant ==
    ASSUME Arranged, WriteInv, MeantInv, OperatorNext
    PROVE  MeantInv'
<1>1. LeagueTyped
  BY DEF WriteInv, TypeOK
<1>2. ASSUME NEW b \in Selectable, SelectHost(b[1], b[2])
      PROVE  MeantInv'
  <2>1. PICK new : new = [kind |-> b[1], league |-> b[2], version |-> host.version + 1]
    OBVIOUS
  <2>2. (b[1] = "mfl" /\ b[2] \in MflLeagues) \/ (b[1] = "custom" /\ b[2] \in Leagues)
    BY DEF Arranged, MflLeagues
  <2>3. new \in Hosts /\ new.league # "trial"
    BY <1>1, <2>1, <2>2, NewHostTyped DEF Arranged
  <2>4. PICK key : key = <<0, "manual">>
    OBVIOUS
  <2>5. key \in Keys /\ key[2] # "restore"
    BY <2>4 DEF Keys
  <2>6. Bound(key, new) /\ UNCHANGED <<epochs, jobs>>
    BY <1>2, <2>1, <2>4 DEF SelectHost
  <2>. QED  BY <1>1, <2>3, <2>5, <2>6, BoundMeant
<1>3. ASSUME NEW o \in Owners, SwitchWorker(o) \/ HandOver(o)
      PROVE  MeantInv'
  BY <1>3, MeantSame DEF SwitchWorker, HandOver
<1>. QED  BY <1>2, <1>3 DEF OperatorNext

\* Epoch e moves on, and is still open or leaves production behind.
LEMMA AdvanceMeant ==
    ASSUME MeantInv, UNCHANGED <<host, switches>>, NEW e \in Epochs,
           \A d \in Epochs \ {e} : epochs'[d] = epochs[d],
           epochs'[e].status \notin {"none", "restored"} \/ host.league # "trial",
           epochs[e].status \notin {"none", "arming"} =>
              epochs'[e].status \notin {"none", "arming"} /\ epochs'[e].trial = epochs[e].trial,
           \A j \in Jobs :
              /\ jobs'[j].epoch = jobs[j].epoch /\ (jobs'[j].status = "none" => jobs[j].status = "none")
              /\ jobs[j].epoch \in Epochs \cup {0}
              /\ rows'[j].host = rows[j].host /\ (rows'[j].status # "none" => rows[j].status # "none")
    PROVE  MeantInv'
<1>1. HostMeant'
  BY DEF MeantInv, HostMeant, Open
<1>2. ASSUME NEW j \in Jobs
      PROVE  MeantOf(j)'
  <2>1. jobs[j].epoch # 0 =>
          /\ epochs'[jobs[j].epoch].status \notin {"none", "arming"}
          /\ epochs'[jobs[j].epoch].trial = epochs[jobs[j].epoch].trial
    BY DEF MeantInv, MeantOf
  <2>. QED  BY <2>1, MeantKept DEF MeantInv
<1>. QED  BY <1>1, <1>2 DEF MeantInv

LEMMA EpochMeant ==
    ASSUME Arranged, WriteInv, DeedInv, MeantInv, EpochNext
    PROVE  MeantInv'
<1>1. LeagueTyped /\ \A j \in Jobs : jobs[j].epoch \in Epochs \cup {0}
  BY DEF WriteInv, TypeOK, LeagueTyped, Turns
<1>2. ASSUME NEW e \in Epochs, Arm(e)
      PROVE  MeantInv'
  <2>1. UNCHANGED <<host, switches, jobs, rows>> /\ epochs[e].status = "none"
    BY <1>2 DEF Arm
  <2>2. epochs'[e].status = "arming" /\ \A d \in Epochs \ {e} : epochs'[d] = epochs[d]
    BY <1>1, <1>2, ArmTyped
  <2>. QED  BY <1>1, <2>1, <2>2, AdvanceMeant
<1>3. ASSUME NEW e \in Epochs, NEW step \in {"arm", "restore"}, NEW league \in {"prod", "trial"},
             NEW version, BindOnce(<<e, step>>, version, league), UNCHANGED <<epochs, jobs>>,
             step = "arm" => epochs[e].status = "arming", step = "restore" => league = "prod"
      PROVE  MeantInv'
  <2>1. PICK new : new = [kind |-> "mfl", league |-> league, version |-> host.version + 1]
    OBVIOUS
  <2>2. new \in Hosts /\ new.league = league
    BY <1>1, <2>1, NewHostTyped DEF MflLeagues
  <2>3. PICK key : key = <<e, step>>
    OBVIOUS
  <2>4. key \in Keys /\ key[2] = step
    BY <2>3 DEF Keys, Arranged
  <2>5. Bound(key, new)
    BY <1>3, <2>1, <2>3 DEF BindOnce
  <2>6. Open = {} => new.league # "trial"
    BY <1>3, <2>2 DEF Open
  <2>. QED  BY <1>1, <1>3, <2>2, <2>4, <2>5, <2>6, BoundMeant
<1>4. ASSUME NEW e \in Epochs, ArmHost(e)
      PROVE  MeantInv'
  BY <1>3, <1>4 DEF ArmHost
<1>5. ASSUME NEW e \in Epochs, Armed(e)
      PROVE  MeantInv'
  <2>1. UNCHANGED <<host, switches, jobs, rows>> /\ epochs[e].status = "arming"
    BY <1>5 DEF Armed
  <2>2. Advances(e, "armed", host)
    BY <1>1, <1>5, ArmedTyped
  <2>. QED  BY <1>1, <2>1, <2>2, AdvanceMeant DEF Advances
<1>6. ASSUME NEW e \in Epochs, Stop(e)
      PROVE  MeantInv'
  <2>1. UNCHANGED <<host, switches>> /\ epochs[e].status = "armed"
    BY <1>6 DEF Stop
  <2>2. Advances(e, "stopped", epochs[e].trial)
    BY <1>1, <1>6, StopTyped
  <2>3. ASSUME NEW j \in Jobs
        PROVE  /\ jobs'[j].epoch = jobs[j].epoch /\ (jobs'[j].status = "none" => jobs[j].status = "none")
               /\ rows'[j].host = rows[j].host /\ (rows'[j].status # "none" => rows[j].status # "none")
    BY <1>1, <1>6, StopTyped DEF Restated, Unsent
  <2>. QED  BY <1>1, <2>1, <2>2, <2>3, AdvanceMeant DEF Advances
<1>7. ASSUME NEW e \in Epochs, Restore(e)
      PROVE  MeantInv'
  <2>1. UNCHANGED <<host, switches, jobs, rows>> /\ epochs[e].status \in {"stopped", "restoring"}
    BY <1>7 DEF Restore
  <2>2. Advances(e, "restoring", epochs[e].trial)
    BY <1>1, <1>7, StatusAdvances DEF Restore
  <2>. QED  BY <1>1, <2>1, <2>2, AdvanceMeant DEF Advances
<1>8. ASSUME NEW e \in Epochs, RestoreHost(e)
      PROVE  MeantInv'
  BY <1>3, <1>8 DEF RestoreHost
<1>9. ASSUME NEW e \in Epochs, Restored(e)
      PROVE  MeantInv'
  <2>1. UNCHANGED <<host, switches, jobs, rows>> /\ epochs[e].status = "restoring"
    BY <1>9 DEF Restored
  <2>2. Advances(e, "restored", epochs[e].trial)
    BY <1>1, <1>9, StatusAdvances DEF Restored
  <2>3. host.league = "prod"
    <3>1. PICK i \in DOMAIN switches : switches[i].key = <<e, "restore">> /\ host = switches[i].to
      BY <1>9 DEF Restored, Receipts
    <3>2. switches[i].key[2] = "restore"
      BY <3>1
    <3>. QED  BY <3>1, <3>2 DEF MeantInv, HostMeant
  <2>. QED  BY <1>1, <2>1, <2>2, <2>3, AdvanceMeant DEF Advances
<1>10. ASSUME NEW e \in Epochs, NEW j \in Jobs, WakeForTrial(j, e)
       PROVE  MeantInv'
  <2>1. /\ UNCHANGED <<host, switches, epochs, rows>> /\ epochs[e].status = "armed"
        /\ jobs[j].status = "none"
    BY <1>10 DEF WakeForTrial
  <2>2. /\ jobs'[j].status = "pending" /\ jobs'[j].epoch = e /\ \A k \in Jobs \ {j} : jobs'[k] = jobs[k]
    BY <1>1, <1>10, WakeForTrialTyped
  <2>3. rows[j].status = "none"
    BY <2>1 DEF DeedInv, RowOf
  <2>4. HostMeant'
    BY <2>1 DEF MeantInv, HostMeant, Open
  <2>5. \A k \in Jobs : MeantOf(k)'
    BY <2>1, <2>2, <2>3 DEF MeantInv, MeantOf
  <2>. QED  BY <2>4, <2>5 DEF MeantInv
<1>11. ASSUME NEW e \in Epochs, NEW j \in Jobs, Quarantine(e, j)
       PROVE  MeantInv'
  <2>1. UNCHANGED <<host, switches, epochs, jobs>> /\ rows[j].status = "held"
    BY <1>11 DEF Quarantine
  <2>2. \A k \in Jobs : rows'[k].host = rows[k].host /\ (rows'[k].status # "none" => rows[k].status # "none")
    BY <1>1, <1>11, <2>1, QuarantineTyped DEF RowTo
  <2>. QED  BY <2>1, <2>2, MeantSame
<1>. QED  BY <1>2, <1>4, <1>5, <1>6, <1>7, <1>8, <1>9, <1>10, <1>11 DEF EpochNext

LEMMA MeantInit ==
    ASSUME Arranged, NEW first \in Hosts, first.league # "trial", TrialInit(first)
    PROVE  MeantInv
<1>1. NoRow.status = "none"
  BY DEF NoRow
<1>. QED  BY <1>1 DEF TrialInit, HostInit, MeantInv, HostMeant, MeantOf

LEMMA MeantNext ==
    ASSUME Arranged, WriteInv, DeedInv, MeantInv, TrialNext
    PROVE  MeantInv'
BY EpochMeant, OperatorMeant, TurnMeant, OutboxMeant DEF TrialNext

LEMMA MeantStutter ==
    ASSUME MeantInv, UNCHANGED trialVars
    PROVE  MeantInv'
BY MeantSame DEF trialVars, hostVars

LEMMA DeedStutter ==
    ASSUME Arranged, ~Reissued, WriteInv, DeedInv, UNCHANGED trialVars
    PROVE  DeedInv'
BY WriteStutter, QuietDeed DEF trialVars, hostVars, DoneSame

LEMMA MeantActs ==
    ASSUME TypeOK, DeedInv, MeantInv
    PROVE  ActsWhereMeant
<1>1. ASSUME NEW j \in Jobs
      PROVE  \A i \in DOMAIN acted[j] : acted[j][i] = rows[j].host
  BY DEF DeedInv, DeedOf
<1>2. ASSUME NEW j \in Jobs, acted[j] # <<>>, Native(j)
      PROVE  IF jobs[j].epoch = 0 THEN rows[j].host.league # "trial"
             ELSE rows[j].host = epochs[jobs[j].epoch].trial
  <2>1. rows[j].status # "none"
    BY <1>2 DEF DeedInv, RowOf, Quiet
  <2>. QED  BY <1>2, <2>1 DEF MeantInv, MeantOf
<1>. QED  BY <1>1, <1>2 DEF ActsWhereMeant

(* An action takes effect only on the host its owner formed it for, a        *)
(* trial's on the trial and any other's never there, whatever host is        *)
(* selected in between (host.ts: "Never reinterpret it on the new host"), as *)
(* long as no dispatcher outlives its lease between context and engine and   *)
(* the MFL deployment file is not written anew after a sale.                 *)
THEOREM ActionsStayWhereMeant ==
    ASSUME Arranged, ~Reissued, ~OutliveCheck, NEW first \in Hosts, first.league # "trial"
    PROVE  TrialInit(first) /\ [][TrialNext]_trialVars => []ActsWhereMeant
<1>. DEFINE Inv == WriteInv /\ DeedInv /\ MeantInv
<1>1. TrialInit(first) => Inv
  BY WriteInit, DeedInit, MeantInit
<1>2. Inv /\ [TrialNext]_trialVars => Inv'
  BY WriteNext, DeedNext, MeantNext, WriteStutter, DeedStutter, MeantStutter
<1>3. Inv => ActsWhereMeant
  BY MeantActs DEF WriteInv
<1>. QED  BY <1>1, <1>2, <1>3, PTL

-----------------------------------------------------------------------------
(* The two bindings of an epoch.                                           *)

LEMMA BoundReceipts ==
    ASSUME LeagueTyped, NEW key \in Keys, NEW new \in Hosts, Bound(key, new), NEW k
    PROVE  /\ \A i \in Receipts(k)' : \/ i \in Receipts(k) /\ switches'[i] = switches[i]
                                      \/ k = key /\ switches'[i].to = new
           /\ \A i \in Receipts(k) : i \in Receipts(k)'
<1>1. PICK binding : binding = [key |-> key, from |-> host, to |-> new]
  OBVIOUS
<1>2. switches' = Append(switches, binding) /\ switches \in Seq(Bindings) /\ binding \in Bindings
  BY <1>1 DEF Bound, LeagueTyped, Bindings, Keys
<1>3. binding.key = key /\ binding.to = new
  BY <1>1
<1>4. \A i \in DOMAIN switches' : (i \in DOMAIN switches /\ switches'[i] = switches[i]) \/ switches'[i] = binding
  BY <1>2
<1>5. \A i \in DOMAIN switches : i \in DOMAIN switches' /\ switches'[i] = switches[i]
  BY <1>2
<1>. QED  BY <1>3, <1>4, <1>5 DEF Receipts

LEMMA StepsSame ==
    ASSUME NEW e \in Epochs, StepsOf(e), switches' = switches, epochs'[e] = epochs[e]
    PROVE  StepsOf(e)'
BY DEF StepsOf, Receipts

\* A binding under another key leaves an epoch's own two alone.
LEMMA StepsPassed ==
    ASSUME LeagueTyped, NEW key \in Keys, NEW new \in Hosts, Bound(key, new),
           NEW e \in Epochs, StepsOf(e), epochs'[e] = epochs[e],
           key # <<e, "arm">>, key # <<e, "restore">>
    PROVE  StepsOf(e)'
<1>1. PICK arm : arm = <<e, "arm">>
  OBVIOUS
<1>2. PICK restore : restore = <<e, "restore">>
  OBVIOUS
<1>3. \A i \in Receipts(arm)' : i \in Receipts(arm) /\ switches'[i] = switches[i]
  BY <1>1, BoundReceipts
<1>4. /\ \A i \in Receipts(restore)' : i \in Receipts(restore) /\ switches'[i] = switches[i]
      /\ \A i \in Receipts(restore) : i \in Receipts(restore)'
  BY <1>2, BoundReceipts
<1>. QED  BY <1>1, <1>2, <1>3, <1>4 DEF StepsOf

LEMMA ArmHostSteps ==
    ASSUME Arranged, LeagueTyped, NEW e \in Epochs, StepsOf(e), ArmHost(e)
    PROVE  StepsOf(e)'
<1>1. PICK new : new = [kind |-> "mfl", league |-> "trial", version |-> host.version + 1]
  OBVIOUS
<1>2. PICK arm : arm = <<e, "arm">>
  OBVIOUS
<1>3. PICK restore : restore = <<e, "restore">>
  OBVIOUS
<1>4. new \in Hosts /\ arm \in Keys /\ arm # restore
  BY <1>1, <1>2, <1>3, NewHostTyped DEF Keys, Arranged, MflLeagues
<1>5. Bound(arm, new) /\ host.version = epochs[e].original.version /\ Receipts(arm) = {}
      /\ epochs' = epochs /\ epochs[e].status = "arming"
  BY <1>1, <1>2 DEF ArmHost, BindOnce, Bindable
<1>6. \A i \in Receipts(arm)' : switches'[i].to = new
  BY <1>4, <1>5, BoundReceipts
<1>7. Receipts(restore) = {} /\ \A i \in Receipts(restore)' : i \in Receipts(restore)
  BY <1>3, <1>4, <1>5, BoundReceipts DEF StepsOf
<1>. QED  BY <1>1, <1>2, <1>3, <1>5, <1>6, <1>7 DEF StepsOf

LEMMA RestoreHostSteps ==
    ASSUME Arranged, LeagueTyped, NEW e \in Epochs, StepsOf(e), RestoreHost(e)
    PROVE  StepsOf(e)'
<1>1. PICK new : new = [kind |-> "mfl", league |-> "prod", version |-> host.version + 1]
  OBVIOUS
<1>2. PICK arm : arm = <<e, "arm">>
  OBVIOUS
<1>3. PICK restore : restore = <<e, "restore">>
  OBVIOUS
<1>4. new \in Hosts /\ restore \in Keys /\ arm # restore
  BY <1>1, <1>2, <1>3, NewHostTyped DEF Keys, Arranged, MflLeagues
<1>5. Bound(restore, new) /\ host.version = epochs[e].trial.version /\ Receipts(restore) = {}
      /\ epochs' = epochs /\ epochs[e].status = "restoring"
  BY <1>1, <1>3 DEF RestoreHost, BindOnce, Bindable
<1>6. \A i \in Receipts(restore)' : switches'[i].to = new
  BY <1>4, <1>5, BoundReceipts
<1>7. \A i \in Receipts(arm)' : i \in Receipts(arm) /\ switches'[i] = switches[i]
  BY <1>4, <1>5, BoundReceipts
<1>. QED  BY <1>1, <1>2, <1>3, <1>5, <1>6, <1>7 DEF StepsOf

\* Every binding but an epoch's own two.
LEMMA BindOnceSteps ==
    ASSUME Arranged, LeagueTyped, NEW d \in Epochs, NEW step \in {"arm", "restore"}, NEW version,
           NEW league \in MflLeagues, BindOnce(<<d, step>>, version, league),
           NEW e \in Epochs, e # d, StepsOf(e), epochs' = epochs
    PROVE  StepsOf(e)'
<1>1. PICK new : new = [kind |-> "mfl", league |-> league, version |-> host.version + 1]
  OBVIOUS
<1>2. PICK key : key = <<d, step>>
  OBVIOUS
<1>3. new \in Hosts /\ key \in Keys /\ key # <<e, "arm">> /\ key # <<e, "restore">>
  BY <1>1, <1>2, NewHostTyped DEF Keys, Arranged
<1>4. Bound(key, new)
  BY <1>1, <1>2 DEF BindOnce
<1>. QED  BY <1>3, <1>4, StepsPassed

LEMMA SelectSteps ==
    ASSUME Arranged, LeagueTyped, NEW b \in Selectable, SelectHost(b[1], b[2]),
           NEW e \in Epochs, StepsOf(e)
    PROVE  StepsOf(e)'
<1>1. PICK new : new = [kind |-> b[1], league |-> b[2], version |-> host.version + 1]
  OBVIOUS
<1>2. (b[1] = "mfl" /\ b[2] \in MflLeagues) \/ (b[1] = "custom" /\ b[2] \in Leagues)
  BY DEF Arranged, MflLeagues
<1>3. PICK key : key = <<0, "manual">>
  OBVIOUS
<1>4. new \in Hosts /\ key \in Keys /\ key # <<e, "arm">> /\ key # <<e, "restore">>
  BY <1>1, <1>2, <1>3, NewHostTyped DEF Keys
<1>5. Bound(key, new) /\ epochs' = epochs
  BY <1>1, <1>3 DEF SelectHost
<1>. QED  BY <1>4, <1>5, StepsPassed

\* The steps of epoch e that only its own record changes by.
LEMMA AdvanceSteps ==
    ASSUME LeagueTyped, NEW e \in Epochs, StepsOf(e),
           Arm(e) \/ Armed(e) \/ Stop(e) \/ Restore(e) \/ Restored(e), Arranged
    PROVE  StepsOf(e)' /\ switches' = switches /\ \A d \in Epochs \ {e} : epochs'[d] = epochs[d]
<1>1. switches' = switches
  BY DEF Arm, Armed, Stop, Restore, Restored
<1>2. Receipts(<<e, "arm">>)' = Receipts(<<e, "arm">>) /\ Receipts(<<e, "restore">>)' = Receipts(<<e, "restore">>)
  BY <1>1 DEF Receipts
<1>3. CASE Arm(e)
  <2>1. epochs[e].status = "none" /\ host.league = "prod"
    BY <1>3 DEF Arm
  <2>. QED  BY <1>1, <1>2, <1>3, <2>1, ArmTyped DEF StepsOf
<1>4. CASE Armed(e)
  <2>1. epochs[e].status = "arming" /\ \E i \in Receipts(<<e, "arm">>) : host = switches[i].to
    BY <1>4 DEF Armed
  <2>2. Advances(e, "armed", host)
    BY <1>4, ArmedTyped
  <2>. QED  BY <1>1, <1>2, <2>1, <2>2 DEF StepsOf, Advances
<1>5. CASE Stop(e)
  <2>1. epochs[e].status = "armed"
    BY <1>5 DEF Stop
  <2>2. Advances(e, "stopped", epochs[e].trial)
    BY <1>5, StopTyped
  <2>. QED  BY <1>1, <1>2, <2>1, <2>2 DEF StepsOf, Advances
<1>6. CASE Restore(e)
  <2>1. epochs[e].status \in {"stopped", "restoring"}
    BY <1>6 DEF Restore
  <2>2. Advances(e, "restoring", epochs[e].trial)
    BY <1>6, StatusAdvances DEF Restore
  <2>. QED  BY <1>1, <1>2, <2>1, <2>2 DEF StepsOf, Advances
<1>7. CASE Restored(e)
  <2>1. epochs[e].status = "restoring" /\ Receipts(<<e, "restore">>) # {}
    BY <1>7 DEF Restored
  <2>2. Advances(e, "restored", epochs[e].trial)
    BY <1>7, StatusAdvances DEF Restored
  <2>. QED  BY <1>1, <1>2, <2>1, <2>2 DEF StepsOf, Advances
<1>. QED  BY <1>3, <1>4, <1>5, <1>6, <1>7

LEMMA StepsNext ==
    ASSUME Arranged, WriteInv, TrialNext, NEW e \in Epochs, StepsOf(e)
    PROVE  StepsOf(e)'
<1>1. LeagueTyped
  BY DEF WriteInv, TypeOK
<1>2. ASSUME UNCHANGED <<switches, epochs>>
      PROVE  StepsOf(e)'
  BY <1>2, StepsSame
<1>3. ASSUME NEW d \in Epochs, Arm(d) \/ Armed(d) \/ Stop(d) \/ Restore(d) \/ Restored(d)
      PROVE  StepsOf(e)'
  <2>1. CASE d = e
    BY <1>1, <1>3, <2>1, AdvanceSteps
  <2>2. CASE d # e
    <3>1. switches' = switches
      BY <1>3 DEF Arm, Armed, Stop, Restore, Restored
    <3>2. epochs'[e] = epochs[e]
      BY <1>1, <1>3, <2>2 DEF Arm, Armed, Stop, Restore, Restored, LeagueTyped
    <3>. QED  BY <3>1, <3>2, StepsSame
  <2>. QED  BY <2>1, <2>2
<1>4. ASSUME NEW d \in Epochs, ArmHost(d)
      PROVE  StepsOf(e)'
  <2>1. CASE d = e
    BY <1>1, <1>4, <2>1, ArmHostSteps
  <2>2. CASE d # e
    <3>1. BindOnce(<<d, "arm">>, epochs[d].original.version, "trial") /\ epochs' = epochs
      BY <1>4 DEF ArmHost
    <3>. QED  BY <1>1, <2>2, <3>1, BindOnceSteps DEF MflLeagues
  <2>. QED  BY <2>1, <2>2
<1>5. ASSUME NEW d \in Epochs, RestoreHost(d)
      PROVE  StepsOf(e)'
  <2>1. CASE d = e
    BY <1>1, <1>5, <2>1, RestoreHostSteps
  <2>2. CASE d # e
    <3>1. BindOnce(<<d, "restore">>, epochs[d].trial.version, "prod") /\ epochs' = epochs
      BY <1>5 DEF RestoreHost
    <3>. QED  BY <1>1, <2>2, <3>1, BindOnceSteps DEF MflLeagues
  <2>. QED  BY <2>1, <2>2
<1>6. ASSUME NEW d \in Epochs, NEW j \in Jobs, WakeForTrial(j, d) \/ Quarantine(d, j)
      PROVE  StepsOf(e)'
  BY <1>2, <1>6 DEF WakeForTrial, Quarantine
<1>7. CASE OperatorNext
  <2>1. ASSUME NEW b \in Selectable, SelectHost(b[1], b[2])
        PROVE  StepsOf(e)'
    BY <1>1, <2>1, SelectSteps
  <2>2. ASSUME NEW o \in Owners, SwitchWorker(o) \/ HandOver(o)
        PROVE  StepsOf(e)'
    BY <1>2, <2>2 DEF SwitchWorker, HandOver
  <2>. QED  BY <1>7, <2>1, <2>2 DEF OperatorNext
<1>8. CASE TurnNext
  BY <1>2, <1>8 DEF TurnNext, Wake, StartTurn, Enqueue, EndTurn
<1>9. CASE OutboxNext
  BY <1>2, <1>9, OutboxRows DEF RowsBy, hostOnly
<1>. QED  BY <1>3, <1>4, <1>5, <1>6, <1>7, <1>8, <1>9 DEF TrialNext, EpochNext

-----------------------------------------------------------------------------
(* What a trial leaves behind.                                             *)

\* Epoch e stays as it is, and nothing done or put away of it comes back.
LEMMA CleanKept ==
    ASSUME NEW e \in Epochs, CleanOf(e), epochs'[e] = epochs[e], retired \subseteq retired',
           epochs[e].born \subseteq Scopes \X Jobs,
           \A j \in Jobs : jobs[j].status = "done" => jobs'[j].status = "done" /\ jobs'[j].epoch = jobs[j].epoch,
           epochs[e].status \in {"stopped", "restoring", "restored"} =>
              \A j \in Jobs : jobs'[j].epoch = e =>
                 /\ jobs[j].epoch = e
                 /\ jobs'[j].status \in {"pending", "running"} => jobs[j].status \in {"pending", "running"},
           epochs[e].status \in {"restoring", "restored"} =>
              /\ \A j \in Jobs : jobs[j].epoch = e /\ rows[j].status \in {"none", "delivered", "dead"} =>
                    rows'[j].status \in {"none", "delivered", "dead"}
              /\ \A m \in OpenWrites' : m \in OpenWrites \/ rows[m[2]].status \notin {"none", "delivered", "dead"}
    PROVE  CleanOf(e)'
<1>1. \A m \in epochs'[e].born : jobs'[m[2]].status = "done" /\ jobs'[m[2]].epoch # e
  BY DEF CleanOf
<1>2. epochs'[e].status \in {"stopped", "restoring", "restored"} =>
        \A j \in Jobs : jobs'[j].epoch = e => jobs'[j].status \notin {"pending", "running"}
  BY DEF CleanOf, TurnsOf
<1>3. ASSUME epochs'[e].status \in {"restoring", "restored"}
      PROVE  /\ \A j \in Jobs : jobs'[j].epoch = e => rows'[j].status \in {"none", "delivered", "dead"}
             /\ \A m \in OpenWrites' : m[2] \in Jobs /\ jobs'[m[2]].epoch = e => m[2] \in retired'
  <2>1. /\ epochs[e].status \in {"restoring", "restored"}
        /\ \A j \in Jobs : jobs'[j].epoch = e => jobs[j].epoch = e
    BY <1>3
  <2>2. \A j \in Jobs : jobs[j].epoch = e => rows[j].status \in {"none", "delivered", "dead"}
    BY <2>1 DEF CleanOf, Terminal, TurnsOf
  <2>3. ASSUME NEW m \in OpenWrites', m[2] \in Jobs, jobs'[m[2]].epoch = e
        PROVE  m[2] \in retired'
    <3>1. jobs[m[2]].epoch = e /\ m \in OpenWrites
      BY <2>1, <2>2, <2>3
    <3>. QED  BY <2>1, <2>3, <3>1 DEF CleanOf, TurnsOf
  <2>. QED  BY <2>1, <2>2, <2>3
<1>. QED  BY <1>1, <1>2, <1>3 DEF CleanOf, Terminal, TurnsOf

\* Neither turns, rows nor writes change.
LEMMA CleanSame ==
    ASSUME NEW e \in Epochs, WriteInv, CleanOf(e), epochs'[e] = epochs[e],
           UNCHANGED <<jobs, rows, outboxVars, retired>>
    PROVE  CleanOf(e)'
<1>1. OpenWrites' = OpenWrites
  BY DEF OpenWrites, outboxVars
<1>2. epochs[e].born \subseteq Scopes \X Jobs
  BY DEF WriteInv, TypeOK, LeagueTyped, Trials
<1>. QED  BY <1>1, <1>2, CleanKept

LEMMA OutboxClean ==
    ASSUME Arranged, ~Reissued, WriteInv, DeedInv, OutboxNext, UNCHANGED retired, NEW e \in Epochs, CleanOf(e)
    PROVE  CleanOf(e)'
<1>1. RowsBy
  BY OutboxRows
<1>2. epochs' = epochs /\ jobs' = jobs /\ epochs[e].born \subseteq Scopes \X Jobs
  BY <1>1 DEF RowsBy, hostOnly, WriteInv, TypeOK, LeagueTyped, Trials
<1>3. \A j \in Jobs : rows[j].status \in {"none", "delivered", "dead"} => rows'[j] = rows[j]
  BY <1>1 DEF RowsBy, RowTo
<1>4. \A m \in OpenWrites' : m \in OpenWrites \/ rows[m[2]].status \notin {"none", "delivered", "dead"}
  BY OutboxOpens
<1>. QED  BY <1>2, <1>3, <1>4, CleanKept

LEMMA TurnClean ==
    ASSUME Arranged, ~Reissued, WriteInv, MeantInv, TurnNext, UNCHANGED retired, NEW e \in Epochs, CleanOf(e)
    PROVE  CleanOf(e)'
<1>1. PICK j \in Jobs : Wake(j) \/ StartTurn(j) \/ Enqueue(j) \/ EndTurn(j)
  BY DEF TurnNext
<1>2. LeagueTyped /\ epochs[e].born \subseteq Scopes \X Jobs
  BY DEF WriteInv, TypeOK, LeagueTyped, Trials
<1>3. OpenWrites' = OpenWrites
  BY DEF TurnNext, OpenWrites, outboxVars
<1>4. e # 0 /\ (jobs[j].status = "none" => jobs[j].epoch # e)
  BY DEF Arranged, MeantInv, MeantOf
<1>5. CASE Wake(j) \/ StartTurn(j) \/ EndTurn(j)
  <2>1. PICK status \in {"pending", "running", "dead"} : jobs' = [jobs EXCEPT ![j].status = status]
    BY <1>2, <1>5, TurnTyped
  <2>2. UNCHANGED <<epochs, rows>>
    BY <1>2, <1>5, TurnTyped
  <2>3. /\ jobs'[j].status = status /\ jobs'[j].epoch = jobs[j].epoch
        /\ \A k \in Jobs \ {j} : jobs'[k] = jobs[k]
    BY <1>2, <2>1, TurnSet
  <2>4. jobs[j].status \in {"none", "pending", "running"}
    BY <1>5 DEF Wake, StartTurn, EndTurn
  <2>. QED  BY <1>2, <1>3, <1>4, <2>2, <2>3, <2>4, CleanKept
<1>6. CASE Enqueue(j)
  <2>1. epochs' = epochs /\ jobs[j].status = "running"
    BY <1>6 DEF Enqueue
  <2>2. /\ jobs'[j].status = "done" /\ jobs'[j].epoch = jobs[j].epoch
        /\ \A k \in Jobs \ {j} : jobs'[k] = jobs[k]
    BY <1>2, <1>6, EnqueueTyped
  <2>3. \A k \in Jobs \ {j} : rows'[k] = rows[k]
    BY <1>6 DEF Enqueue, LeagueTyped
  <2>4. epochs[e].status \in {"stopped", "restoring", "restored"} => jobs[j].epoch # e
    BY <2>1 DEF CleanOf, TurnsOf
  <2>. QED  BY <1>2, <1>3, <2>1, <2>2, <2>3, <2>4, CleanKept
<1>. QED  BY <1>1, <1>5, <1>6

LEMMA BoundClean ==
    ASSUME LeagueTyped, NEW key, NEW new, Bound(key, new), UNCHANGED <<epochs, jobs, outboxVars, retired>>,
           NEW e \in Epochs, CleanOf(e)
    PROVE  CleanOf(e)'
<1>1. \A j \in Jobs : rows[j].status \in {"none", "delivered", "dead"} => rows'[j] = rows[j]
  BY DEF Bound, HeldByBinding
<1>2. OpenWrites' = OpenWrites /\ epochs[e].born \subseteq Scopes \X Jobs
  BY DEF OpenWrites, outboxVars, LeagueTyped, Trials
<1>. QED  BY <1>1, <1>2, CleanKept

LEMMA OperatorClean ==
    ASSUME Arranged, ~Reissued, WriteInv, OperatorNext, NEW e \in Epochs, CleanOf(e)
    PROVE  CleanOf(e)'
<1>1. LeagueTyped /\ UNCHANGED <<outboxVars, retired>>
  BY DEF WriteInv, TypeOK, OperatorNext
<1>2. ASSUME NEW b \in Selectable, SelectHost(b[1], b[2])
      PROVE  CleanOf(e)'
  <2>1. PICK key, new : Bound(key, new)
    BY <1>2 DEF SelectHost
  <2>. QED  BY <1>1, <1>2, <2>1, BoundClean DEF SelectHost
<1>3. ASSUME NEW o \in Owners, SwitchWorker(o) \/ HandOver(o)
      PROVE  CleanOf(e)'
  BY <1>1, <1>3, CleanSame DEF SwitchWorker, HandOver
<1>. QED  BY <1>2, <1>3 DEF OperatorNext

\* A write open at the arming is of a turn that is done, and not of this epoch.
LEMMA BornDone ==
    ASSUME Arranged, ~Reissued, WriteInv, DeedInv, MeantInv, NEW e \in Epochs, epochs[e].status = "none",
           NEW m \in OpenWrites
    PROVE  jobs[m[2]].status = "done" /\ jobs[m[2]].epoch # e
<1>1. PICK l \in MflLeagues, j \in Jobs : m = <<Home(l), j>> /\ m[2] = j
  <2>1. m[1] = Home(m[1][1]) /\ m[1][1] \in MflLeagues /\ m[2] \in Jobs
    BY OneScope DEF WriteInv
  <2>2. m = <<m[1], m[2]>>
    BY DEF OpenWrites
  <2>. QED  BY <2>1, <2>2
<1>2. journal[<<Home(l), j>>].state # "none"
  BY <1>1 DEF OpenWrites, Unresolved
<1>3. rows[j].attempts > 0
  BY <1>2 DEF DeedInv, DeedOf
<1>4. rows[j].status # "none"
  BY <1>3 DEF DeedInv, RowOf, NoRow
<1>. QED  BY <1>1, <1>4 DEF DeedInv, RowOf, MeantInv, MeantOf, Arranged

LEMMA OwnClean ==
    ASSUME Arranged, ~Reissued, WriteInv, DeedInv, MeantInv, NEW e \in Epochs, CleanOf(e),
           Arm(e) \/ Armed(e) \/ Stop(e) \/ Restore(e) \/ Restored(e)
    PROVE  CleanOf(e)'
<1>1. LeagueTyped /\ epochs[e].born \subseteq Scopes \X Jobs
  BY DEF WriteInv, TypeOK, LeagueTyped, Trials
<1>2. OpenWrites' = OpenWrites /\ UNCHANGED <<outboxVars, retired>>
  BY DEF Arm, Armed, Stop, Restore, Restored, OpenWrites, outboxVars
<1>3. CASE Arm(e)
  <2>1. epochs[e].status = "none" /\ jobs' = jobs
    BY <1>3 DEF Arm
  <2>2. epochs'[e].born = OpenWrites /\ epochs'[e].status = "arming"
    BY <1>1, <1>3, ArmTyped
  <2>. QED  BY <2>1, <2>2, BornDone DEF CleanOf
<1>4. CASE Armed(e)
  <2>1. jobs' = jobs
    BY <1>4 DEF Armed
  <2>2. epochs'[e].born = epochs[e].born /\ epochs'[e].status = "armed"
    BY <1>1, <1>4, ArmedTyped DEF Advances
  <2>. QED  BY <2>1, <2>2 DEF CleanOf
<1>5. CASE Stop(e)
  <2>1. RunningJobs = {}
    BY <1>5 DEF Stop, Quiescent
  <2>2. epochs'[e].born = epochs[e].born /\ epochs'[e].status = "stopped"
    BY <1>1, <1>5, StopTyped DEF Advances
  <2>3. \A j \in Jobs : /\ jobs'[j].epoch = jobs[j].epoch
                        /\ jobs'[j].status = IF j \in TurnsOf(e) /\ jobs[j].status = "pending"
                                             THEN "cancelled" ELSE jobs[j].status
    BY <1>1, <1>5, StopTyped
  <2>4. \A m \in epochs'[e].born : jobs'[m[2]].status = "done" /\ jobs'[m[2]].epoch # e
    BY <1>1, <2>2, <2>3 DEF CleanOf
  <2>5. \A j \in Jobs : jobs'[j].epoch = e => jobs'[j].status \notin {"pending", "running"}
    BY <2>1, <2>3 DEF TurnsOf, RunningJobs
  <2>. QED  BY <2>2, <2>4, <2>5 DEF CleanOf, TurnsOf
<1>6. CASE Restore(e)
  <2>1. UNCHANGED <<jobs, rows>> /\ Terminal(e) /\ InDoubt(e) = {}
        /\ epochs[e].status \in {"stopped", "restoring"}
    BY <1>6 DEF Restore
  <2>2. epochs'[e].born = epochs[e].born /\ epochs'[e].status = "restoring"
    BY <1>1, <1>6, StatusAdvances DEF Restore, Advances
  <2>3. \A m \in OpenWrites : m[2] \in TurnsOf(e) => m[2] \in retired
    BY <2>1 DEF InDoubt, CleanOf, TurnsOf
  <2>. QED  BY <1>2, <2>1, <2>2, <2>3 DEF CleanOf, TurnsOf, Terminal
<1>7. CASE Restored(e)
  <2>1. UNCHANGED <<jobs, rows>> /\ epochs[e].status = "restoring"
    BY <1>7 DEF Restored
  <2>2. epochs'[e].born = epochs[e].born /\ epochs'[e].status = "restored"
    BY <1>1, <1>7, StatusAdvances DEF Restored, Advances
  <2>. QED  BY <1>2, <2>1, <2>2 DEF CleanOf, TurnsOf, Terminal
<1>. QED  BY <1>3, <1>4, <1>5, <1>6, <1>7

\* Another epoch moves on.
LEMMA OtherClean ==
    ASSUME Arranged, ~Reissued, WriteInv, NEW e \in Epochs, NEW d \in Epochs, d # e, CleanOf(e),
           Arm(d) \/ Armed(d) \/ Stop(d) \/ Restore(d) \/ Restored(d)
    PROVE  CleanOf(e)'
<1>1. LeagueTyped /\ epochs[e].born \subseteq Scopes \X Jobs
  BY DEF WriteInv, TypeOK, LeagueTyped, Trials
<1>2. OpenWrites' = OpenWrites /\ UNCHANGED <<outboxVars, retired>>
  BY DEF Arm, Armed, Stop, Restore, Restored, OpenWrites, outboxVars
<1>3. epochs'[e] = epochs[e]
  BY <1>1 DEF Arm, Armed, Stop, Restore, Restored, LeagueTyped
<1>4. CASE Arm(d) \/ Armed(d) \/ Restore(d) \/ Restored(d)
  <2>1. UNCHANGED <<jobs, rows>>
    BY <1>4 DEF Arm, Armed, Restore, Restored
  <2>. QED  BY <1>2, <1>3, <2>1, CleanSame
<1>5. CASE Stop(d)
  <2>1. \A j \in Jobs : /\ jobs'[j].epoch = jobs[j].epoch
                        /\ jobs'[j].status = IF j \in TurnsOf(d) /\ jobs[j].status = "pending"
                                             THEN "cancelled" ELSE jobs[j].status
                        /\ Restated(j, IF j \in Unsent(d) THEN "dead" ELSE rows[j].status)
    BY <1>1, <1>5, StopTyped
  <2>2. \A j \in Jobs : rows[j].status \in {"none", "delivered", "dead"} =>
           rows'[j].status \in {"none", "delivered", "dead"}
    BY <2>1 DEF Restated, Unsent
  <2>. QED  BY <1>1, <1>2, <1>3, <2>1, <2>2, CleanKept
<1>. QED  BY <1>4, <1>5

LEMMA WakeClean ==
    ASSUME Arranged, ~Reissued, WriteInv, NEW e \in Epochs, CleanOf(e), NEW d \in Epochs, NEW j \in Jobs,
           WakeForTrial(j, d)
    PROVE  CleanOf(e)'
<1>1. LeagueTyped /\ epochs[e].born \subseteq Scopes \X Jobs
  BY DEF WriteInv, TypeOK, LeagueTyped, Trials
<1>2. /\ UNCHANGED <<epochs, rows, retired>> /\ OpenWrites' = OpenWrites
      /\ jobs[j].status = "none" /\ epochs[d].status = "armed"
  BY DEF WakeForTrial, OpenWrites, outboxVars
<1>3. jobs'[j].epoch = d /\ \A k \in Jobs \ {j} : jobs'[k] = jobs[k]
  BY <1>1, WakeForTrialTyped
<1>. QED  BY <1>1, <1>2, <1>3, CleanKept

LEMMA QuarantineClean ==
    ASSUME Arranged, ~Reissued, WriteInv, NEW e \in Epochs, CleanOf(e), NEW d \in Epochs, NEW j \in Jobs,
           Quarantine(d, j)
    PROVE  CleanOf(e)'
<1>1. LeagueTyped /\ epochs[e].born \subseteq Scopes \X Jobs
  BY DEF WriteInv, TypeOK, LeagueTyped, Trials
<1>2. UNCHANGED <<epochs, jobs>> /\ OpenWrites' = OpenWrites /\ retired \subseteq retired'
  BY DEF Quarantine, OpenWrites, outboxVars
<1>3. \A k \in Jobs : rows'[k].status = "dead" \/ rows'[k] = rows[k]
  BY <1>1, QuarantineTyped DEF RowTo
<1>. QED  BY <1>1, <1>2, <1>3, CleanKept

LEMMA CleanNext ==
    ASSUME Arranged, ~Reissued, WriteInv, DeedInv, MeantInv, TrialNext, NEW e \in Epochs, CleanOf(e)
    PROVE  CleanOf(e)'
<1>1. LeagueTyped
  BY DEF WriteInv, TypeOK
<1>2. ASSUME NEW d \in Epochs, Arm(d) \/ Armed(d) \/ Stop(d) \/ Restore(d) \/ Restored(d)
      PROVE  CleanOf(e)'
  BY <1>2, OwnClean, OtherClean
<1>3. ASSUME NEW d \in Epochs, ArmHost(d) \/ RestoreHost(d)
      PROVE  CleanOf(e)'
  <2>1. PICK key, new : Bound(key, new)
    BY <1>3 DEF ArmHost, RestoreHost, BindOnce
  <2>2. UNCHANGED <<epochs, jobs, outboxVars, retired>>
    BY <1>3 DEF ArmHost, RestoreHost
  <2>. QED  BY <1>1, <2>1, <2>2, BoundClean
<1>4. ASSUME NEW d \in Epochs, NEW j \in Jobs, WakeForTrial(j, d) \/ Quarantine(d, j)
      PROVE  CleanOf(e)'
  BY <1>4, WakeClean, QuarantineClean
<1>5. CASE EpochNext
  BY <1>2, <1>3, <1>4, <1>5 DEF EpochNext
<1>. QED  BY <1>5, OperatorClean, TurnClean, OutboxClean DEF TrialNext

LEMMA CleanInit ==
    ASSUME Arranged, ~Reissued, NEW first \in Hosts, TrialInit(first)
    PROVE  CleanInv
<1>1. switches = <<>> /\ DOMAIN switches = {}
  BY DEF TrialInit, HostInit
<1>2. \A e \in Epochs : epochs[e].status = "none" /\ epochs[e].born = {}
  BY DEF TrialInit, HostInit, NoEpoch
<1>3. \A key : Receipts(key) = {}
  BY <1>1 DEF Receipts
<1>. QED  BY <1>2, <1>3 DEF CleanInv, StepsOf, CleanOf

LEMMA CleanStutter ==
    ASSUME WriteInv, CleanInv, UNCHANGED trialVars
    PROVE  CleanInv'
BY StepsSame, CleanSame DEF CleanInv, trialVars, hostVars

\* What is known of a trial that is over.
LEMMA CleanReturns ==
    ASSUME Arranged, ~Reissued, WriteInv, DeedInv, MeantInv, CleanInv
    PROVE  ReturnedClean
<1>. SUFFICES ASSUME NEW e \in Epochs, epochs[e].status = "restored"
              PROVE  LeftNothing(e) /\ BackInTwo(e)
  BY DEF ReturnedClean
<1>1. ASSUME NEW j \in TurnsOf(e)
      PROVE  /\ rows[j].status \in {"none", "delivered", "dead"}
             /\ jobs[j].status \notin {"pending", "running"}
             /\ rows[j].status = "dead" /\ Len(acted[j]) > 0 => j \in retired \/ ~Native(j)
  <2>1. j \in Jobs /\ Terminal(e) /\ jobs[j].status \notin {"pending", "running"}
    BY DEF CleanInv, CleanOf, TurnsOf
  <2>2. ASSUME rows[j].status = "dead", Len(acted[j]) > 0, Native(j), j \notin retired
        PROVE  FALSE
    <3>1. ~Quiet(j)
      BY <2>2 DEF Quiet
    <3>2. Receipt(j).state \in {"submitted", "unknown", "verified"} /\ rows[j].attempts = 0
      BY <2>1, <2>2, <3>1 DEF DeedInv, DeedOf, RowOf
    <3>3. rows[j].host.league \in MflLeagues
      BY <2>1, <2>2, PinnedLeague DEF DeedInv, WriteInv
    <3>. QED  BY <2>1, <3>2, <3>3 DEF DeedInv, DeedOf, Receipt
  <2>. QED  BY <2>1, <2>2 DEF Terminal
<1>2. \A m \in OpenWrites : m[2] \in TurnsOf(e) => m[2] \in retired
  BY DEF CleanInv, CleanOf
<1>3. /\ StepsOf(e) /\ epochs[e].original.league = "prod" /\ epochs[e].original.version \in Nat
      /\ epochs[e].trial.version = epochs[e].original.version + 1
  BY DEF CleanInv, StepsOf, WriteInv, TypeOK, LeagueTyped, Trials, Hosts
<1>4. PICK i : i \in Receipts(<<e, "restore">>)
  BY <1>3 DEF StepsOf
<1>5. switches[i].to.version = epochs[e].original.version + 2
  BY <1>3, <1>4 DEF StepsOf
<1>6. switches[i].to.league = "prod"
  <2>1. i \in DOMAIN switches /\ switches[i].key = <<e, "restore">>
    BY <1>4 DEF Receipts
  <2>2. switches[i].key[2] = "restore"
    BY <2>1
  <2>. QED  BY <2>1, <2>2 DEF MeantInv, HostMeant
<1>. QED  BY <1>1, <1>2, <1>3, <1>4, <1>5, <1>6 DEF LeftNothing, BackInTwo

(* When production is back, the trial left nothing behind: every action of   *)
(* it is delivered or given up without effect, no turn of it waits, every    *)
(* write has a known outcome or was quarantined, and the host came back in   *)
(* exactly two steps, whatever crashed or was repeated in between            *)
(* (REHEARSAL_NATIVE_INTENTS_NOT_TERMINAL, REHEARSAL_NATIVE_OUTCOME_UNKNOWN), *)
(* as long as no dispatcher outlives its lease between context and engine    *)
(* and the MFL deployment file is not written anew after a sale.             *)
THEOREM TrialsReturnClean ==
    ASSUME Arranged, ~Reissued, ~OutliveCheck, NEW first \in Hosts, first.league # "trial"
    PROVE  TrialInit(first) /\ [][TrialNext]_trialVars => []ReturnedClean
<1>1. TrialInit(first) => IInv
  BY WriteInit, DeedInit, MeantInit, CleanInit DEF IInv
<1>2. IInv /\ TrialNext => IInv'
  BY WriteNext, DeedNext, MeantNext, StepsNext, CleanNext DEF IInv, CleanInv
<1>3. IInv /\ UNCHANGED trialVars => IInv'
  BY WriteStutter, DeedStutter, MeantStutter, CleanStutter DEF IInv
<1>4. IInv => ReturnedClean
  BY CleanReturns DEF IInv
<1>. QED  BY <1>1, <1>2, <1>3, <1>4, PTL

-----------------------------------------------------------------------------
(* What the outbox promises an owner: at most one effect of each action, no  *)
(* success without it, no failure of a write to MFL with it.                 *)

\* What the owner is told.  A failure of the league's own services, and a trial write put
\* away by the operator, come without proof.
Told(j) == CASE rows[j].status = "none" -> "none"
             [] rows[j].status = "delivered" -> "done"
             [] rows[j].status = "dead" -> IF Native(j) /\ j \notin retired THEN "failed" ELSE "unproven"
             [] OTHER -> "open"

Owner == INSTANCE OwnerActions WITH
    Actions <- Jobs, effects <- [j \in Jobs |-> Len(acted[j])], verdict <- [j \in Jobs |-> Told(j)]

LEMMA OwnerStarts ==
    ASSUME NEW first \in Hosts, TrialInit(first)
    PROVE  Owner!ActionsInit
<1>1. ASSUME NEW j \in Jobs
      PROVE  Len(acted[j]) = 0 /\ Told(j) = "none"
  BY DEF TrialInit, HostInit, OutboxInit, Told, NoRow
<1>. QED  BY <1>1 DEF Owner!ActionsInit

\* Rows are queued, closed or moved on, and nothing takes effect.
LEMMA OwnerIsTold ==
    ASSUME TypeOK', DeedInv', acted' = acted,
           \A j \in Jobs :
              \/ rows'[j].status = rows[j].status /\ (j \in retired') = (j \in retired)
              \/ rows[j].status = "none" /\ rows'[j].status = "pending"
              \/ rows[j].status \in {"pending", "running", "held"} /\ rows'[j].status # "none"
    PROVE  Owner!AskOrReport
<1>1. ASSUME NEW j \in Jobs
      PROVE  \/ Told(j)' = Told(j)
             \/ Told(j) = "none" /\ Told(j)' = "open"
             \/ /\ Told(j) = "open" /\ Told(j)' \in {"done", "failed", "unproven"}
                /\ Told(j)' = "done" => Len(acted[j]) = 1
                /\ Told(j)' = "failed" => Len(acted[j]) = 0
  <2>1. CASE rows'[j].status = rows[j].status /\ (j \in retired') = (j \in retired)
    BY <2>1 DEF Told, Native
  <2>2. CASE rows[j].status = "none" /\ rows'[j].status = "pending"
    BY <2>2 DEF Told
  <2>3. CASE rows[j].status \in {"pending", "running", "held"} /\ rows'[j].status # "none"
    <3>1. Told(j) = "open" /\ Told(j)' \in {"open", "done", "failed", "unproven"}
      BY <2>3 DEF Told
    <3>2. rows'[j].status = "delivered" => Len(acted[j]) = 1
      <4>1. rows'[j].status = "delivered" => acted[j] = <<rows'[j].host>>
        BY DEF DeedInv, DeedOf, RowOf
      <4>2. PICK h : h = rows'[j].host
        OBVIOUS
      <4>3. Len(<<h>>) = 1
        OBVIOUS
      <4>. QED  BY <4>1, <4>2, <4>3
    <3>3. rows'[j].status = "dead" /\ Native(j) /\ j \notin retired' => acted[j] = <<>>
      <4>1. SUFFICES ASSUME rows'[j].status = "dead", Native(j), j \notin retired', acted[j] # <<>>
                     PROVE  FALSE
        OBVIOUS
      <4>2. Receipt(j)'.state \in {"submitted", "unknown", "verified"}
        BY <4>1 DEF DeedInv, DeedOf, Quiet
      <4>3. rows'[j].attempts = 0
        BY <4>1, <4>2 DEF DeedInv, RowOf
      <4>4. rows'[j].host.league \in MflLeagues
        BY <4>1 DEF DeedInv, RowOf, TypeOK, LeagueTyped, Rows, Hosts
      <4>. QED  BY <4>2, <4>3, <4>4 DEF DeedInv, DeedOf, Receipt
    <3>4. Told(j)' = "done" => rows'[j].status = "delivered"
      BY DEF Told
    <3>5. Told(j)' = "failed" => rows'[j].status = "dead" /\ Native(j) /\ j \notin retired'
      BY DEF Told
    <3>6. Told(j)' = "failed" => Len(acted[j]) = 0
      BY <3>3, <3>5
    <3>. QED  BY <3>1, <3>2, <3>4, <3>6
  <2>. QED  BY <2>1, <2>2, <2>3
<1>2. [j \in Jobs |-> Len(acted[j])]' = [j \in Jobs |-> Len(acted[j])]
  OBVIOUS
<1>. QED  BY <1>1, <1>2 DEF Owner!AskOrReport, Owner!MayReport

\* Action j takes effect, for the first time and before a failure of it is reported.
Acts(j) == /\ UNCHANGED <<rows, retired>> /\ acted[j] = <<>>
           /\ \E h \in Hosts : acted' = [acted EXCEPT ![j] = Append(@, h)]
           /\ Told(j) \in {"open", "unproven"}

LEMMA EffectOpen ==
    ASSUME DeedInv, NEW j \in Jobs, acted[j] = <<>>, rows[j].status # "none",
           Native(j) => Receipt(j).state # "rejected" /\ rows[j].attempts # 0
    PROVE  Told(j) \in {"open", "unproven"}
<1>1. rows[j].status # "delivered"
  BY DEF DeedInv, RowOf
<1>2. rows[j].status = "dead" => ~Native(j) \/ j \in retired
  BY DEF DeedInv, RowOf
<1>. QED  BY <1>1, <1>2 DEF Told

LEMMA ExecuteActs ==
    ASSUME WriteInv, DeedInv, NEW w \in Workers, Execute(w), UNCHANGED retired
    PROVE  \E j \in Jobs : Acts(j)
<1>1. PICK j \in Jobs : j = disp[w].row
  BY DEF Execute, WriteInv, OneWriter, WriterOf
<1>2. rows[j].status # "none" /\ ~Native(j) /\ acted[j] = <<>>
  BY <1>1 DEF Execute, DeedInv, ClaimOf
<1>3. PICK h \in Hosts : h = host
  BY DEF WriteInv, TypeOK, LeagueTyped
<1>4. acted' = [acted EXCEPT ![j] = Append(@, h)] /\ rows' = rows
  BY <1>1, <1>3 DEF Execute, TakesEffect
<1>. QED  BY <1>2, <1>4, EffectOpen DEF Acts

LEMMA PostActs ==
    ASSUME ~Reissued, WriteInv, DeedInv, NEW w \in Workers, Post(w), UNCHANGED retired
    PROVE  acted' = acted \/ \E j \in Jobs : Acts(j)
<1>1. PICK j : j = disp[w].row
  OBVIOUS
<1>2. disp[w].at = "submitted" /\ rows' = rows
  BY DEF Post
<1>3. /\ j \in Jobs /\ Native(j) /\ rows[j].status # "none" /\ disp[w].host \in Hosts
      /\ rows[j].attempts > 0 /\ Receipt(j) = journal[Entry(w)]
  BY <1>1, <1>2, AtEntry, PostWrite DEF AtMfl, InWrite
<1>4. Receipt(j).state = "submitted" /\ acted[j] = <<>>
  BY <1>1, <1>2, <1>3 DEF WriteInv, OneWriter, WriterOf, StateAt, InWrite, DeedInv, ClaimOf, Quiet
<1>5. acted' = acted \/ TakesEffect(j, disp[w].host)
  BY <1>1 DEF Post
<1>6. Told(j) \in {"open", "unproven"}
  BY <1>3, <1>4, EffectOpen
<1>7. PICK h \in Hosts : h = disp[w].host
  BY <1>3
<1>8. acted' = acted \/ acted' = [acted EXCEPT ![j] = Append(@, h)]
  BY <1>5, <1>7 DEF TakesEffect
<1>. QED  BY <1>2, <1>3, <1>4, <1>6, <1>8 DEF Acts

LEMMA LandActs ==
    ASSUME WriteInv, DeedInv, NEW m \in wire, Land(m), UNCHANGED retired
    PROVE  \E j \in Jobs : Acts(j)
<1>1. m[1] \in Hosts /\ m[2] \in Jobs
  BY DEF WriteInv, TypeOK, OutboxTyped
<1>2. PICK j \in Jobs : j = m[2]
  BY <1>1
<1>3. PICK h \in Hosts : h = m[1]
  BY <1>1
<1>4. acted' = [acted EXCEPT ![j] = Append(@, h)] /\ rows' = rows
  BY <1>2, <1>3 DEF Land, TakesEffect
<1>5. Native(j) /\ acted[j] = <<>> /\ ~Quiet(j)
  BY <1>2 DEF DeedInv, DeedOf, Quiet
<1>6. rows[j].status # "none"
  BY <1>5 DEF DeedInv, RowOf
<1>7. Receipt(j).state \in {"submitted", "unknown", "verified"}
  BY <1>5 DEF DeedInv, DeedOf
<1>8. rows[j].host.league \in MflLeagues
  BY <1>5, <1>6, PinnedLeague DEF DeedInv, WriteInv
<1>9. rows[j].attempts > 0
  BY <1>7, <1>8 DEF DeedInv, DeedOf, Receipt
<1>10. rows[j].attempts # 0
  BY <1>9
<1>. QED  BY <1>4, <1>5, <1>6, <1>7, <1>10, EffectOpen DEF Acts

LEMMA OwnerSees ==
    ASSUME TypeOK, NEW j \in Jobs, Acts(j)
    PROVE  Owner!TakeEffect(j)
<1>1. PICK h \in Hosts : acted' = [acted EXCEPT ![j] = Append(@, h)]
  BY DEF Acts
<1>2. Len(acted[j]) = 0 /\ Len(acted'[j]) = 1 /\ \A k \in Jobs \ {j} : acted'[k] = acted[k]
  BY <1>1 DEF TypeOK, OutboxTyped, Acts
<1>3. \A k \in Jobs : Told(k)' = Told(k)
  BY DEF Acts, Told, Native
<1>4. [k \in Jobs |-> Len(acted[k])]' = [[k \in Jobs |-> Len(acted[k])] EXCEPT ![j] = 1]
  BY <1>2
<1>. QED  BY <1>2, <1>3, <1>4 DEF Owner!TakeEffect, Acts

LEMMA OutboxPromise ==
    ASSUME Arranged, ~Reissued, ~OutliveCheck, WriteInv, DeedInv, WriteInv', DeedInv', OutboxNext, UNCHANGED retired
    PROVE  Owner!ActionsNext
<1>1. CASE \E j \in Jobs : Acts(j)
  BY <1>1, OwnerSees DEF Owner!ActionsNext, WriteInv
<1>2. CASE acted' = acted
  <2>1. RowsBy
    BY OutboxRows
  <2>2. \A j \in Jobs :
           \/ rows'[j].status = rows[j].status /\ (j \in retired') = (j \in retired)
           \/ rows[j].status \in {"pending", "running", "held"} /\ rows'[j].status # "none"
    BY <2>1 DEF RowsBy, RowTo
  <2>. QED  BY <1>2, <2>2, OwnerIsTold DEF Owner!ActionsNext, WriteInv
<1>3. ASSUME NEW w \in Workers,
             \/ Stale(w) \/ Context(w) \/ Load(w) \/ ExecuteAgain(w) \/ ExecuteFails(w) \/ Begin(w)
             \/ Preflight(w) \/ Note(w) \/ ReadBack(w) \/ Acknowledge(w) \/ AcknowledgeFails(w)
             \/ Settle(w) \/ Crash(w) \/ Reconcile(w) \/ \E j \in Jobs : Claim(w, j) \/ ClaimHeld(w, j)
      PROVE  acted' = acted
  <2>1. ASSUME Stale(w) \/ Context(w) \/ Load(w) \/ ExecuteAgain(w) \/ ExecuteFails(w) \/ Begin(w)
        PROVE  acted' = acted
    BY <2>1 DEF Stale, Context, Load, ExecuteAgain, ExecuteFails, Begin, writes
  <2>2. ASSUME Preflight(w) \/ Note(w) \/ ReadBack(w) \/ Acknowledge(w) \/ AcknowledgeFails(w)
               \/ Settle(w)
        PROVE  acted' = acted
    BY <2>2 DEF Preflight, Note, ReadBack, Acknowledge, AcknowledgeFails, Settle, writes
  <2>3. ASSUME Crash(w) \/ Reconcile(w) \/ \E j \in Jobs : Claim(w, j) \/ ClaimHeld(w, j)
        PROVE  acted' = acted
    BY <2>3 DEF Crash, Reconcile, Claim, ClaimHeld, writes
  <2>. QED  BY <1>3, <2>1, <2>2, <2>3
<1>4. ASSUME NEW j \in Jobs, Bury(j) \/ LeaseExpires(j)
      PROVE  acted' = acted
  BY <1>4 DEF Bury, LeaseExpires, writes, outboxVars
<1>5. acted' = acted \/ \E j \in Jobs : Acts(j)
  BY <1>3, <1>4, ExecuteActs, PostActs, LandActs DEF OutboxNext, DispatchStep
<1>. QED  BY <1>1, <1>2, <1>5

LEMMA LeaguePromise ==
    ASSUME Arranged, ~Reissued, ~OutliveCheck, WriteInv, DeedInv, WriteInv', DeedInv',
           EpochNext \/ OperatorNext \/ (TurnNext /\ UNCHANGED retired)
    PROVE  Owner!ActionsNext
<1>1. LeagueTyped
  BY DEF WriteInv, TypeOK
<1>2. ASSUME acted' = acted,
             \A j \in Jobs :
                \/ rows'[j].status = rows[j].status /\ (j \in retired') = (j \in retired)
                \/ rows[j].status = "none" /\ rows'[j].status = "pending"
                \/ rows[j].status \in {"pending", "running", "held"} /\ rows'[j].status # "none"
      PROVE  Owner!ActionsNext
  BY <1>2, OwnerIsTold DEF Owner!ActionsNext, WriteInv
<1>3. ASSUME acted' = acted, UNCHANGED <<rows, retired>>
      PROVE  Owner!ActionsNext
  BY <1>2, <1>3
<1>4. ASSUME NEW key, NEW new, Bound(key, new), acted' = acted, UNCHANGED retired
      PROVE  Owner!ActionsNext
  <2>1. ASSUME NEW j \in Jobs
        PROVE  \/ rows'[j].status = rows[j].status
               \/ rows[j].status = "pending" /\ rows'[j].status = "held"
    <3>1. CASE rows[j].status = "pending"
      BY <1>1, <1>4, <3>1 DEF Bound, HeldByBinding, LeagueTyped, Rows
    <3>2. CASE rows[j].status # "pending"
      BY <1>4, <3>2 DEF Bound, HeldByBinding
    <3>. QED  BY <3>1, <3>2
  <2>. QED  BY <1>2, <1>4, <2>1
<1>5. ASSUME NEW e \in Epochs, Stop(e)
      PROVE  Owner!ActionsNext
  <2>1. acted' = acted /\ UNCHANGED retired
    BY <1>5 DEF Stop, outboxVars
  <2>2. \A j \in Jobs : rows'[j].status = rows[j].status
                        \/ (rows[j].status = "pending" /\ rows'[j].status = "dead")
    BY <1>1, <1>5, StopTyped DEF Restated, Unsent
  <2>. QED  BY <1>2, <2>1, <2>2
<1>6. ASSUME NEW e \in Epochs, NEW j \in Jobs, Quarantine(e, j)
      PROVE  Owner!ActionsNext
  <2>1. acted' = acted /\ retired' = retired \cup {j} /\ rows[j].status = "held"
    BY <1>6 DEF Quarantine, outboxVars
  <2>2. rows'[j].status = "dead" /\ \A k \in Jobs \ {j} : rows'[k] = rows[k]
    BY <1>1, <1>6, QuarantineTyped DEF RowTo
  <2>. QED  BY <1>2, <2>1, <2>2
<1>7. CASE EpochNext
  <2>1. ASSUME NEW e \in Epochs, Arm(e) \/ Armed(e) \/ Restore(e) \/ Restored(e)
        PROVE  Owner!ActionsNext
    BY <1>3, <2>1 DEF Arm, Armed, Restore, Restored, outboxVars
  <2>2. ASSUME NEW e \in Epochs, ArmHost(e) \/ RestoreHost(e)
        PROVE  Owner!ActionsNext
    <3>1. PICK key, new : Bound(key, new)
      BY <2>2 DEF ArmHost, RestoreHost, BindOnce
    <3>. QED  BY <1>4, <2>2, <3>1 DEF ArmHost, RestoreHost, outboxVars
  <2>3. ASSUME NEW e \in Epochs, NEW j \in Jobs, WakeForTrial(j, e)
        PROVE  Owner!ActionsNext
    BY <1>3, <2>3 DEF WakeForTrial, outboxVars
  <2>. QED  BY <1>5, <1>6, <1>7, <2>1, <2>2, <2>3 DEF EpochNext
<1>8. CASE OperatorNext
  <2>1. acted' = acted /\ UNCHANGED retired
    BY <1>8 DEF OperatorNext, outboxVars
  <2>2. ASSUME NEW b \in Selectable, SelectHost(b[1], b[2])
        PROVE  Owner!ActionsNext
    <3>1. PICK key, new : Bound(key, new)
      BY <2>2 DEF SelectHost
    <3>. QED  BY <1>4, <2>1, <3>1
  <2>3. ASSUME NEW o \in Owners, SwitchWorker(o) \/ HandOver(o)
        PROVE  Owner!ActionsNext
    BY <1>3, <2>1, <2>3 DEF SwitchWorker, HandOver
  <2>. QED  BY <1>8, <2>2, <2>3 DEF OperatorNext
<1>9. CASE TurnNext /\ UNCHANGED retired
  <2>1. acted' = acted
    BY <1>9 DEF TurnNext, outboxVars
  <2>2. PICK j \in Jobs : Wake(j) \/ StartTurn(j) \/ Enqueue(j) \/ EndTurn(j)
    BY <1>9 DEF TurnNext
  <2>3. CASE Wake(j) \/ StartTurn(j) \/ EndTurn(j)
    BY <1>3, <1>9, <2>1, <2>3 DEF Wake, StartTurn, EndTurn
  <2>4. CASE Enqueue(j)
    <3>1. rows[j].status = "none"
      BY <2>4 DEF Enqueue, DeedInv, RowOf
    <3>2. PICK row : NewRow(j, row) /\ rows' = [rows EXCEPT ![j] = row]
      BY <1>1, <2>4, EnqueueTyped
    <3>3. rows'[j].status = "pending" /\ \A k \in Jobs \ {j} : rows'[k] = rows[k]
      BY <1>1, <3>2 DEF NewRow, LeagueTyped
    <3>. QED  BY <1>2, <1>9, <2>1, <3>1, <3>3
  <2>. QED  BY <2>2, <2>3, <2>4
<1>. QED  BY <1>7, <1>8, <1>9

(* An owner's football action takes effect at most once, is reported done    *)
(* only if it did, and a write to MFL is reported as failed only if it did   *)
(* not and never will (football-outbox.ts, the holds after an uncertain      *)
(* write): the outbox, with its crashes, lost answers and changes of host,   *)
(* implements OwnerActions, as long as no dispatcher outlives its lease      *)
(* between context and engine (the run outlived_check) and the MFL           *)
(* deployment file is not written anew after a sale (the run resold_scope).  *)
(* Failures of the league's own services are told without proof: what they   *)
(* did is left open by Told.                                                 *)
THEOREM OutboxKeepsPromise ==
    ASSUME Arranged, ~Reissued, ~OutliveCheck, NEW first \in Hosts
    PROVE  TrialInit(first) /\ [][TrialNext]_trialVars => Owner!Promise
<1>. DEFINE Inv == WriteInv /\ DeedInv
<1>1. TrialInit(first) => Inv
  BY WriteInit, DeedInit
<1>2. Inv /\ [TrialNext]_trialVars => Inv'
  BY WriteNext, DeedNext, WriteStutter, DeedStutter
<1>3. TrialInit(first) => Owner!ActionsInit
  BY OwnerStarts
<1>4. Inv /\ Inv' /\ [TrialNext]_trialVars => [Owner!ActionsNext]_(Owner!actionVars)
  <2>1. ASSUME Inv, Inv', TrialNext
        PROVE  Owner!ActionsNext
    BY <2>1, LeaguePromise, OutboxPromise DEF TrialNext
  <2>2. ASSUME UNCHANGED trialVars
        PROVE  UNCHANGED Owner!actionVars
    <3>1. \A j \in Jobs : Told(j)' = Told(j)
      BY <2>2 DEF trialVars, hostVars, Told, Native
    <3>2. acted' = acted
      BY <2>2 DEF trialVars, outboxVars
    <3>. QED  BY <3>1, <3>2 DEF Owner!actionVars
  <2>. QED  BY <2>1, <2>2
<1>. QED  BY <1>1, <1>2, <1>3, <1>4, PTL DEF Owner!Promise

-----------------------------------------------------------------------------
(* A constitution brought back across a trial.                               *)

meetingVars == <<polls, ballots, decided, anchors, returns, approvals>>

\* The league and its trials go on, and meetings are held and decisions brought back.
LeagueAndMeetings ==
    \/ TrialNext /\ UNCHANGED meetingVars
    \/ ReturnNext /\ UNCHANGED trialVars

\* A receipt's decision is the anchored one, to the last vote and owner, or the trial's.
ReturnTrue(r) ==
    /\ r.epoch \in Epochs
    /\ \/ r.evidence.from = r.anchor.original.version /\ r.evidence = r.anchor.evidence
       \/ r.evidence.from = r.anchor.original.version + 1

\* What an approval was voted on: here, or before or in the trial that ended two hosts later.
Descends(a, e) ==
    /\ epochs[e].status = "restored"
    /\ a.on = epochs[e].original.version + 2
    /\ a.from \in {a.on - 2, a.on - 1}
    /\ \A i \in Between(a.on - 2, a.on) : switches[i].key \in {<<e, "arm">>, <<e, "restore">>}
    /\ a.from = a.on - 2 => \A b \in Ballots(a.from) : <<b.owner, b.by>> \in epochs[e].pins

VersionsPast == \A i \in DOMAIN switches : switches[i].to.version <= host.version
PinsAll(pins) == \A o \in Owners : <<o, 0>> \in pins \/ <<o, 1>> \in pins
AllPinned == \A e \in Epochs : epochs[e].status # "none" => PinsAll(epochs[e].pins)

LineageInv ==
    /\ VersionsPast /\ AllPinned
    /\ \A b \in ballots : b.owner \in Owners
    /\ \A r \in returns : ReturnTrue(r)
    /\ \A a \in approvals : a.on \in Nat /\ a.on <= host.version /\ (a.from = a.on \/ \E e \in Epochs : Descends(a, e))

\* Hosts are only added, with the next version, and a restored epoch is over.
LEMMA HostsAdded ==
    ASSUME Arranged, WriteInv, TrialNext
    PROVE  /\ \/ host' = host /\ switches' = switches
              \/ \E key \in Keys, new \in Hosts : Bound(key, new) /\ new.version = host.version + 1 /\ epochs' = epochs
           /\ \A e \in Epochs : \/ epochs'[e].pins = epochs[e].pins /\ epochs[e].status # "none"
                                   /\ (epochs[e].status = "restored" => epochs'[e] = epochs[e])
                                \/ epochs'[e] = epochs[e]
                                \/ epochs'[e].pins = {<<o, holder[o]>> : o \in Owners} /\ epochs[e].status = "none"
<1>1. LeagueTyped
  BY DEF WriteInv, TypeOK
<1>. DEFINE Goal == /\ \/ host' = host /\ switches' = switches
                       \/ \E key \in Keys, new \in Hosts : Bound(key, new) /\ new.version = host.version + 1 /\ epochs' = epochs
                    /\ \A e \in Epochs : \/ epochs'[e].pins = epochs[e].pins /\ epochs[e].status # "none"
                                            /\ (epochs[e].status = "restored" => epochs'[e] = epochs[e])
                                         \/ epochs'[e] = epochs[e]
                                         \/ epochs'[e].pins = {<<o, holder[o]>> : o \in Owners} /\ epochs[e].status = "none"
<1>2. ASSUME UNCHANGED <<host, switches, epochs>>
      PROVE  Goal
  BY <1>2
<1>3. ASSUME NEW d \in Epochs, Arm(d) \/ Armed(d) \/ Stop(d) \/ Restore(d) \/ Restored(d)
      PROVE  Goal
  <2>1. UNCHANGED <<host, switches>> /\ \A e \in Epochs \ {d} : epochs'[e] = epochs[e]
    BY <1>1, <1>3 DEF Arm, Armed, Stop, Restore, Restored, LeagueTyped
  <2>2. epochs[d] \in Trials
    BY <1>1 DEF LeagueTyped
  <2>3. CASE Arm(d)
    BY <1>1, <2>1, <2>3 DEF Arm, LeagueTyped
  <2>4. CASE Armed(d) \/ Stop(d) \/ Restore(d) \/ Restored(d)
    <3>1. epochs'[d].pins = epochs[d].pins /\ epochs[d].status # "none" /\ epochs[d].status # "restored"
      BY <1>1, <2>2, <2>4 DEF Armed, Stop, Restore, Restored, LeagueTyped, Trials
    <3>. QED  BY <2>1, <3>1
  <2>. QED  BY <1>3, <2>3, <2>4
<1>4. ASSUME NEW key \in Keys, NEW league \in Leagues, NEW kind \in {"mfl", "custom"}, epochs' = epochs,
             (kind = "mfl" => league \in MflLeagues),
             Bound(key, [kind |-> kind, league |-> league, version |-> host.version + 1])
      PROVE  Goal
  <2>1. PICK new \in Hosts : new = [kind |-> kind, league |-> league, version |-> host.version + 1]
    BY <1>1, <1>4, NewHostTyped
  <2>. QED  BY <1>4, <2>1
<1>5. ASSUME NEW d \in Epochs, ArmHost(d) \/ RestoreHost(d)
      PROVE  Goal
  <2>1. PICK key \in Keys, league \in MflLeagues :
           Bound(key, [kind |-> "mfl", league |-> league, version |-> host.version + 1]) /\ epochs' = epochs
    BY <1>5 DEF ArmHost, RestoreHost, BindOnce, Keys, MflLeagues, Arranged
  <2>. QED  BY <1>4, <2>1 DEF Leagues
<1>6. ASSUME NEW d \in Epochs, NEW j \in Jobs, WakeForTrial(j, d) \/ Quarantine(d, j)
      PROVE  Goal
  BY <1>2, <1>6 DEF WakeForTrial, Quarantine
<1>7. CASE OperatorNext
  <2>1. ASSUME NEW b \in Selectable, SelectHost(b[1], b[2])
        PROVE  Goal
    <3>1. (b[1] = "mfl" /\ b[2] \in MflLeagues) \/ (b[1] = "custom" /\ b[2] \in Leagues)
      BY DEF Arranged, MflLeagues
    <3>2. PICK key \in Keys : key = <<0, "manual">>
      BY DEF Keys
    <3>. QED  BY <1>4, <2>1, <3>1, <3>2 DEF SelectHost, Leagues
  <2>2. ASSUME NEW o \in Owners, SwitchWorker(o) \/ HandOver(o)
        PROVE  Goal
    BY <1>2, <2>2 DEF SwitchWorker, HandOver
  <2>. QED  BY <1>7, <2>1, <2>2 DEF OperatorNext
<1>8. CASE TurnNext
  BY <1>2, <1>8 DEF TurnNext, Wake, StartTurn, Enqueue, EndTurn
<1>9. CASE OutboxNext
  BY <1>2, <1>9, OutboxRows DEF RowsBy, hostOnly
<1>. QED  BY <1>3, <1>5, <1>6, <1>7, <1>8, <1>9 DEF TrialNext, EpochNext

-----------------------------------------------------------------------------
(* Trials and the league leave the meetings alone.                           *)

LEMMA VersionsNat ==
    ASSUME LeagueTyped
    PROVE  /\ host.version \in Nat
           /\ \A e \in Epochs : epochs[e].original.version \in Nat /\ epochs[e].trial.version \in Nat
           /\ \A i \in DOMAIN switches : switches[i].to.version \in Nat
<1>1. \A h \in Hosts : h.version \in Nat
  BY DEF Hosts
<1>2. \A e \in Epochs : epochs[e].original \in Hosts /\ epochs[e].trial \in Hosts
  BY DEF LeagueTyped, Trials
<1>3. \A i \in DOMAIN switches : switches[i] \in Bindings
  BY DEF LeagueTyped
<1>4. \A i \in DOMAIN switches : switches[i].to \in Hosts
  BY <1>3 DEF Bindings
<1>. QED  BY <1>1, <1>2, <1>4 DEF LeagueTyped

\* The receipts there were stay, and a new one names the next host.
LEMMA VersionsBound ==
    ASSUME LeagueTyped, VersionsPast, NEW key \in Keys, NEW new \in Hosts, Bound(key, new),
           new.version = host.version + 1
    PROVE  /\ VersionsPast' /\ host'.version = host.version + 1
           /\ \A i \in DOMAIN switches' : \/ i \in DOMAIN switches /\ switches'[i] = switches[i]
                                          \/ switches'[i].to.version = host.version + 1
<1>1. PICK binding : binding = [key |-> key, from |-> host, to |-> new]
  OBVIOUS
<1>2. switches' = Append(switches, binding) /\ switches \in Seq(Bindings) /\ binding \in Bindings
  BY <1>1 DEF Bound, LeagueTyped, Bindings, Keys
<1>3. binding.to = new /\ host' = new
  BY <1>1 DEF Bound
<1>4. \A i \in DOMAIN switches' : (i \in DOMAIN switches /\ switches'[i] = switches[i]) \/ switches'[i] = binding
  BY <1>2
<1>5. \A i \in DOMAIN switches' : \/ i \in DOMAIN switches /\ switches'[i] = switches[i]
                                  \/ switches'[i].to.version = host.version + 1
  BY <1>3, <1>4
<1>6. host'.version = host.version + 1 /\ host.version \in Nat
  BY <1>3, VersionsNat
<1>7. ASSUME NEW i \in DOMAIN switches'
      PROVE  switches'[i].to.version <= host'.version
  <2>1. CASE i \in DOMAIN switches /\ switches'[i] = switches[i]
    <3>1. switches[i].to.version <= host.version /\ switches[i].to.version \in Nat
      BY <2>1, VersionsNat DEF VersionsPast
    <3>. QED  BY <1>6, <2>1, <3>1
  <2>2. CASE switches'[i].to.version = host.version + 1
    BY <1>6, <2>2
  <2>. QED  BY <1>5, <2>1, <2>2
<1>. QED  BY <1>5, <1>6, <1>7 DEF VersionsPast

\* An approval's line does not change with the hosts that follow.
LEMMA DescentKept ==
    ASSUME NEW e \in Epochs, NEW a, Descends(a, e), epochs'[e] = epochs[e],
           a.on \in Nat, host.version \in Nat, a.on <= host.version,
           \A i \in DOMAIN switches' : \/ i \in DOMAIN switches /\ switches'[i] = switches[i]
                                       \/ switches'[i].to.version = host.version + 1,
           \A b \in ballots' : b \in ballots \/ b.on = host.version
    PROVE  Descends(a, e)'
<1>1. ASSUME NEW i \in Between(a.on - 2, a.on)'
      PROVE  i \in Between(a.on - 2, a.on) /\ switches'[i] = switches[i]
  <2>1. i \in DOMAIN switches' /\ switches'[i].to.version \in (a.on - 1)..a.on
    BY <1>1 DEF Between
  <2>2. switches'[i].to.version # host.version + 1
    BY <2>1
  <2>3. i \in DOMAIN switches /\ switches'[i] = switches[i]
    BY <2>1, <2>2
  <2>. QED  BY <2>1, <2>3 DEF Between
<1>2. \A i \in Between(a.on - 2, a.on)' : switches'[i].key \in {<<e, "arm">>, <<e, "restore">>}
  BY <1>1 DEF Descends
<1>3. ASSUME a.from = a.on - 2, NEW b \in Ballots(a.from)'
      PROVE  <<b.owner, b.by>> \in epochs[e].pins
  <2>1. b \in ballots' /\ b.on = a.from /\ a.from # host.version
    BY <1>3 DEF Ballots
  <2>2. b \in Ballots(a.from)
    BY <2>1 DEF Ballots
  <2>. QED  BY <1>3, <2>2 DEF Descends
<1>. QED  BY <1>2, <1>3 DEF Descends

LEMMA TrialsKeepLineage ==
    ASSUME Arranged, WriteInv, LineageInv, TrialNext, UNCHANGED meetingVars
    PROVE  LineageInv'
<1>1. LeagueTyped
  BY DEF WriteInv, TypeOK
<1>2. UNCHANGED <<ballots, returns, approvals>>
  BY DEF meetingVars
<1>. DEFINE HostMoves ==
              /\ VersionsPast' /\ host.version \in Nat /\ host'.version \in Nat /\ host.version <= host'.version
              /\ \A i \in DOMAIN switches' : \/ i \in DOMAIN switches /\ switches'[i] = switches[i]
                                             \/ switches'[i].to.version = host.version + 1
<1>3. HostMoves
  <2>1. CASE host' = host /\ switches' = switches
    BY <1>1, <2>1, VersionsNat DEF LineageInv, VersionsPast
  <2>2. ASSUME NEW key \in Keys, NEW new \in Hosts, Bound(key, new), new.version = host.version + 1
        PROVE  HostMoves
    BY <1>1, <2>2, VersionsNat, VersionsBound DEF LineageInv
  <2>. QED  BY <2>1, <2>2, HostsAdded
<1>4. AllPinned'
  <2>1. PinsAll({<<o, holder[o]>> : o \in Owners})
    <3>1. \A o \in Owners : holder[o] \in {0, 1}
      BY <1>1 DEF LeagueTyped
    <3>. QED  BY <3>1 DEF PinsAll
  <2>2. ASSUME NEW e \in Epochs, epochs'[e].status # "none"
        PROVE  PinsAll(epochs'[e].pins)
    BY <2>1, <2>2, HostsAdded DEF LineageInv, AllPinned
  <2>. QED  BY <2>2 DEF AllPinned
<1>5. ASSUME NEW a \in approvals, a.on \in Nat, a.on <= host.version, NEW e \in Epochs, Descends(a, e)
      PROVE  Descends(a, e)'
  <2>1. epochs'[e] = epochs[e]
    BY <1>5, HostsAdded DEF Descends
  <2>. QED  BY <1>2, <1>3, <1>5, <2>1, DescentKept
<1>6. ASSUME NEW a \in approvals
      PROVE  a.on \in Nat /\ a.on <= host'.version /\ (a.from = a.on \/ \E e \in Epochs : Descends(a, e)')
  <2>1. a.on \in Nat /\ a.on <= host.version /\ (a.from = a.on \/ \E e \in Epochs : Descends(a, e))
    BY DEF LineageInv
  <2>2. a.on <= host'.version
    BY <1>3, <2>1
  <2>. QED  BY <1>5, <2>1, <2>2
<1>7. (\A b \in ballots' : b.owner \in Owners) /\ (\A r \in returns' : ReturnTrue(r))
  BY <1>2 DEF LineageInv
<1>. QED  BY <1>2, <1>3, <1>4, <1>6, <1>7 DEF LineageInv, ReturnTrue

-----------------------------------------------------------------------------
(* Meetings and decisions brought back.                                      *)

\* With two receipts in between, the epoch's own two are all of them.
LEMMA OnlyTwoSteps ==
    ASSUME LeagueTyped, NEW e \in Epochs, NEW a, Lineage(a, e)
    PROVE  \A i \in Between(a.original.version, host.version) : switches[i].key \in {<<e, "arm">>, <<e, "restore">>}
<1>. DEFINE Steps == Between(a.original.version, host.version)
<1>1. PICK arm \in Steps : switches[arm].key = <<e, "arm">>
  BY DEF Lineage
<1>2. PICK restore \in Steps : switches[restore].key = <<e, "restore">>
  BY DEF Lineage
<1>3. arm # restore
  BY <1>1, <1>2
<1>4. IsFiniteSet(Steps) /\ Cardinality(Steps) = 2
  <2>1. DOMAIN switches = 1..Len(switches) /\ Len(switches) \in Nat
    BY DEF LeagueTyped
  <2>2. IsFiniteSet(1..Len(switches))
    BY <2>1, FS_Interval
  <2>3. Steps \in SUBSET (1..Len(switches))
    BY <2>1 DEF Between
  <2>4. IsFiniteSet(Steps)
    BY <2>2, <2>3, FS_Subset
  <2>. QED  BY <2>4 DEF Lineage
<1>5. {arm, restore} \in SUBSET Steps
  BY <1>1, <1>2
<1>6. Cardinality({arm, restore}) = 2
  <2>1. IsFiniteSet({arm}) /\ Cardinality({arm}) = 1
    BY FS_Singleton
  <2>2. {arm} \cup {restore} = {arm, restore} /\ restore \notin {arm}
    BY <1>3
  <2>3. Cardinality({arm} \cup {restore}) = Cardinality({arm}) + 1
    BY <2>1, <2>2, FS_AddElement, Zenon
  <2>. QED  BY <2>1, <2>2, <2>3
<1>. HIDE DEF Steps
<1>7. {arm, restore} = Steps
  BY <1>4, <1>5, <1>6, FS_Subset
<1>. QED  BY <1>1, <1>2, <1>7 DEF Steps

\* Every voter of a decision brought back unchanged is the owner the trial pinned.
LEMMA VotersPinned ==
    ASSUME LineageInv, NEW r \in returns, ReturnTrue(r), Lineage(r.anchor, r.epoch),
           Supported(r.evidence.from), Evidence(r.evidence.from) = r.evidence,
           r.evidence = r.anchor.evidence, NEW b \in Ballots(r.evidence.from)
    PROVE  <<b.owner, b.by>> \in epochs[r.epoch].pins
<1>1. b.owner \in Owners /\ holder[b.owner] = b.by
  BY DEF Ballots, LineageInv, Supported
<1>2. PinsAll(epochs[r.epoch].pins)
  BY DEF ReturnTrue, Lineage, LineageInv, AllPinned
<1>3. PICK h : <<b.owner, h>> \in epochs[r.epoch].pins
  BY <1>1, <1>2 DEF PinsAll
<1>4. r.anchor.evidence.members[b.owner] = h
  BY <1>3 DEF Lineage
<1>5. Evidence(r.evidence.from).members = holder
  BY DEF Evidence
<1>. QED  BY <1>1, <1>3, <1>4, <1>5

LEMMA ReturnDescends ==
    ASSUME LeagueTyped, LineageInv, NEW r \in returns, ApproveReturned(r),
           NEW a, a = [on |-> host.version, from |-> r.evidence.from]
    PROVE  Descends(a, r.epoch)
<1>1. ReturnTrue(r) /\ r.epoch \in Epochs
  BY DEF LineageInv, ReturnTrue
<1>2. Lineage(r.anchor, r.epoch) /\ Supported(r.evidence.from) /\ Evidence(r.evidence.from) = r.evidence
  BY DEF ApproveReturned
<1>3. /\ epochs[r.epoch].status = "restored" /\ epochs[r.epoch].original = r.anchor.original
      /\ host.version = r.anchor.original.version + 2
  BY <1>2 DEF Lineage
<1>4. a.on = host.version /\ a.from = r.evidence.from
  OBVIOUS
<1>5. r.anchor.original.version \in Nat
  BY <1>1, <1>3, VersionsNat
<1>6. a.on - 2 = r.anchor.original.version
  BY <1>3, <1>4, <1>5
<1>7. a.from \in {a.on - 2, a.on - 1}
  BY <1>1, <1>3, <1>4, <1>5 DEF ReturnTrue
<1>8. \A i \in Between(a.on - 2, a.on) : switches[i].key \in {<<r.epoch, "arm">>, <<r.epoch, "restore">>}
  BY <1>1, <1>2, <1>4, <1>6, OnlyTwoSteps
<1>9. ASSUME a.from = a.on - 2
      PROVE  \A b \in Ballots(a.from) : <<b.owner, b.by>> \in epochs[r.epoch].pins
  <2>1. r.evidence = r.anchor.evidence
    BY <1>1, <1>4, <1>5, <1>6, <1>9 DEF ReturnTrue
  <2>2. ASSUME NEW b \in Ballots(r.evidence.from)
        PROVE  <<b.owner, b.by>> \in epochs[r.epoch].pins
    BY <1>1, <1>2, <2>1, <2>2, VotersPinned
  <2>. QED  BY <1>4, <2>2, Zenon
<1>. QED  BY <1>3, <1>4, <1>6, <1>7, <1>8, <1>9 DEF Descends

\* A receipt names the anchored decision or the trial's.
LEMMA ReturnedTrue ==
    ASSUME LeagueTyped, NEW a \in anchors, NEW e \in Epochs, RevalidateReturn(a, e) \/ RevalidateTrialDecision(a, e)
    PROVE  /\ UNCHANGED <<ballots, approvals>>
           /\ \A r \in returns' : r \in returns \/ ReturnTrue(r)
<1>1. ASSUME NEW v, Returned(a, e, v), v = a.original.version => Evidence(v) = a.evidence,
             v = a.original.version \/ v = a.original.version + 1
      PROVE  /\ UNCHANGED <<ballots, approvals>>
             /\ \A r \in returns' : r \in returns \/ ReturnTrue(r)
  <2>1. PICK r : r = [on |-> host.version, anchor |-> a, epoch |-> e, evidence |-> Evidence(v)]
    OBVIOUS
  <2>2. returns' = returns \cup {r} /\ UNCHANGED <<ballots, approvals>>
    BY <1>1, <2>1 DEF Returned
  <2>3. r.anchor = a /\ r.epoch = e /\ r.evidence = Evidence(v)
    BY <2>1
  <2>4. Evidence(v).from = v
    BY DEF Evidence
  <2>5. ReturnTrue(r)
    BY <1>1, <2>3, <2>4 DEF ReturnTrue
  <2>. QED  BY <2>2, <2>5
<1>2. CASE RevalidateReturn(a, e)
  BY <1>1, <1>2 DEF RevalidateReturn
<1>3. CASE RevalidateTrialDecision(a, e)
  <2>1. epochs[e].trial.version = a.original.version + 1 /\ epochs[e].original = a.original
    BY <1>3 DEF RevalidateTrialDecision, Returned, Lineage
  <2>2. epochs[e].trial.version # a.original.version
    BY <2>1, VersionsNat
  <2>. QED  BY <1>1, <1>3, <2>1, <2>2 DEF RevalidateTrialDecision
<1>. QED  BY <1>2, <1>3

LEMMA MeetingsKeepLineage ==
    ASSUME WriteInv, LineageInv, ReturnNext, UNCHANGED trialVars
    PROVE  LineageInv'
<1>1. LeagueTyped
  BY DEF WriteInv, TypeOK
<1>2. UNCHANGED <<host, switches, epochs>> /\ host.version \in Nat
  BY <1>1, VersionsNat DEF trialVars, hostVars
<1>3. VersionsPast' /\ AllPinned'
  BY <1>2 DEF LineageInv, VersionsPast, AllPinned
<1>. DEFINE Votes == \A b \in ballots' : b \in ballots \/ (b.on = host.version /\ b.owner \in Owners)
            Returning == \A r \in returns' : r \in returns \/ ReturnTrue(r)
            Approving == \A a \in approvals' :
                            \/ a \in approvals
                            \/ a.on = host.version /\ (a.from = a.on \/ \E e \in Epochs : Descends(a, e))
<1>4. Votes /\ Returning /\ Approving
  <2>1. CASE OpenPoll \/ PrepareRatification \/ PrepareAnchor \/ \E v \in DOMAIN polls : ClosePoll(v)
    BY <2>1 DEF OpenPoll, PrepareRatification, PrepareAnchor, ClosePoll
  <2>2. ASSUME NEW o \in Owners, CastVote(o)
        PROVE  Votes /\ Returning /\ Approving
    <3>1. UNCHANGED <<returns, approvals>>
      BY <2>2 DEF CastVote
    <3>2. PICK choice : ballots' = ballots \cup {[on |-> host.version, owner |-> o, by |-> holder[o], yes |-> choice]}
      BY <2>2 DEF CastVote
    <3>3. PICK b : b = [on |-> host.version, owner |-> o, by |-> holder[o], yes |-> choice]
      OBVIOUS
    <3>4. b.on = host.version /\ b.owner = o /\ ballots' = ballots \cup {b}
      BY <3>2, <3>3
    <3>. QED  BY <3>1, <3>4
  <2>3. ASSUME NEW a \in anchors, NEW e \in Epochs, RevalidateReturn(a, e) \/ RevalidateTrialDecision(a, e)
        PROVE  Votes /\ Returning /\ Approving
    BY <1>1, <2>3, ReturnedTrue
  <2>4. CASE ApproveHere
    <3>1. PICK a : a = [on |-> host.version, from |-> host.version]
      OBVIOUS
    <3>2. approvals' = approvals \cup {a} /\ UNCHANGED <<ballots, returns>>
      BY <2>4, <3>1 DEF ApproveHere, Approved
    <3>3. a.on = host.version /\ a.from = a.on
      BY <3>1
    <3>. QED  BY <3>2, <3>3
  <2>5. ASSUME NEW r \in returns, ApproveReturned(r)
        PROVE  Votes /\ Returning /\ Approving
    <3>1. PICK a : a = [on |-> host.version, from |-> r.evidence.from]
      OBVIOUS
    <3>2. approvals' = approvals \cup {a} /\ UNCHANGED <<ballots, returns>>
      BY <2>5, <3>1 DEF ApproveReturned, Approved
    <3>3. a.on = host.version /\ r.epoch \in Epochs /\ Descends(a, r.epoch)
      BY <1>1, <2>5, <3>1, ReturnDescends DEF LineageInv, ReturnTrue
    <3>. QED  BY <3>2, <3>3
  <2>. QED  BY <2>1, <2>2, <2>3, <2>4, <2>5 DEF ReturnNext
<1>5. (\A b \in ballots' : b.owner \in Owners) /\ (\A r \in returns' : ReturnTrue(r))
  BY <1>4 DEF LineageInv
<1>6. ASSUME NEW a \in approvals'
      PROVE  a.on \in Nat /\ a.on <= host.version /\ (a.from = a.on \/ \E e \in Epochs : Descends(a, e))
  BY <1>2, <1>4, <1>6 DEF LineageInv
<1>7. ASSUME NEW a, a.on \in Nat, a.on <= host.version, NEW e \in Epochs, Descends(a, e)
      PROVE  Descends(a, e)'
  BY <1>2, <1>4, <1>7, DescentKept
<1>8. ASSUME NEW a \in approvals'
      PROVE  a.on \in Nat /\ a.on <= host'.version /\ (a.from = a.on \/ \E e \in Epochs : Descends(a, e)')
  BY <1>2, <1>6, <1>7
<1>. QED  BY <1>3, <1>5, <1>8 DEF LineageInv, ReturnTrue

LEMMA LineageInit ==
    ASSUME Arranged, NEW first \in Hosts, TrialInit(first), MeetingInit
    PROVE  LineageInv
<1>1. switches = <<>> /\ \A e \in Epochs : epochs[e].status = "none"
  BY DEF TrialInit, HostInit, NoEpoch
<1>2. ballots = {} /\ returns = {} /\ approvals = {}
  BY DEF MeetingInit
<1>. QED  BY <1>1, <1>2 DEF LineageInv, VersionsPast, AllPinned

LEMMA LineageStutter ==
    ASSUME LineageInv, UNCHANGED <<trialVars, meetingVars>>
    PROVE  LineageInv'
<1>1. UNCHANGED <<host, switches, epochs, ballots, returns, approvals>>
  BY DEF trialVars, hostVars, meetingVars
<1>2. \A v : Ballots(v)' = Ballots(v)
  BY <1>1 DEF Ballots
<1>3. \A u, v : Between(u, v)' = Between(u, v)
  BY <1>1 DEF Between
<1>. QED  BY <1>1, <1>2, <1>3 DEF LineageInv, VersionsPast, AllPinned, ReturnTrue, Descends

(* A constitution approved on a host was voted there, or on the two before   *)
(* it when these are one trial and the production it left and every voter of *)
(* the former is an owner the trial pinned (validateReturnLineage and        *)
(* candidateEvidence in governance/mfl.ts): however the league, its trials,  *)
(* the meetings and the returns interleave.                                  *)
THEOREM ReturnsHaveLineage ==
    ASSUME Arranged, NEW first \in Hosts
    PROVE  TrialInit(first) /\ MeetingInit /\ [][LeagueAndMeetings]_<<trialVars, meetingVars>>
              => []ApprovalsHaveLineage
<1>. DEFINE Inv == WriteInv /\ LineageInv
<1>1. TrialInit(first) /\ MeetingInit => Inv
  BY WriteInit, LineageInit
<1>2. ASSUME Inv, [LeagueAndMeetings]_<<trialVars, meetingVars>>
      PROVE  Inv'
  <2>1. CASE TrialNext /\ UNCHANGED meetingVars
    BY <1>2, <2>1, WriteNext, TrialsKeepLineage
  <2>2. CASE ReturnNext /\ UNCHANGED trialVars
    BY <1>2, <2>2, WriteStutter, MeetingsKeepLineage
  <2>3. CASE UNCHANGED <<trialVars, meetingVars>>
    BY <1>2, <2>3, WriteStutter, LineageStutter
  <2>. QED  BY <1>2, <2>1, <2>2, <2>3 DEF LeagueAndMeetings
<1>3. Inv => ApprovalsHaveLineage
  BY DEF LineageInv, ApprovalsHaveLineage, Descends
<1>. QED  BY <1>1, <1>2, <1>3, PTL
=============================================================================
