---------------------------- MODULE BuzzRelayProofs ----------------------------
(***************************************************************************)
(* Proofs about the mirrored conversation of two owners, for any messages, *)
(* events of others, listeners and page size and any number of faults.     *)
(***************************************************************************)
EXTENDS BuzzRelay, FiniteSetTheorems, TLAPS

-----------------------------------------------------------------------------
(* The shape of the state.                                                 *)

\* Events of others are none of the mirrored messages.
Distinct == Mirrored \cap Native = {} /\ PageSize \in Nat

Slips == {"none", "prepared", "unknown", "accepted", "rejected"}
Stages == {"reading", "observed", "prepared", "sending", "answered", "returned", "updated"}
Works == [at : Stages, msg : Mirrored, outcome : Slips]
Pages == [from : Nat, to : Int]

Typed ==
    /\ relay \in Seq(Mirrored \cup Native) /\ late \subseteq Mirrored
    /\ mirror \in [Mirrored -> {"pending", "blocked"} \cup Slips]
    /\ slip \in [Mirrored -> Slips]
    /\ sending \in Works \cup {Quiet}
    /\ locked \in BOOLEAN
    /\ since \in [Listeners -> Nat] /\ page \in [Listeners -> Pages]

-----------------------------------------------------------------------------
(* The inductive invariant.  While a message is being sent it is the only  *)
(* one in doubt, and its row and its receipt follow the send; a message is *)
(* on the relay at most once, and its receipt says so once it is out of    *)
(* doubt; what lies behind a cursor has been read.  A row whose receipt is *)
(* settled can fall behind it when a commit fails: the receipt stays.      *)

PlacesOf(m) == {i \in 1..Len(relay) : relay[i] = m}
Uncarried(m) == PlacesOf(m) = {} /\ m \notin late
Carried(m) == m \notin late /\ \E i \in Nat : PlacesOf(m) = {i}

Settled == {"accepted", "rejected"}
Thrown(m) == CommitFails /\ slip[m] \in Settled

RowFollows(m) == mirror[m] \in Settled => slip[m] = mirror[m]
DeedOf(m) ==
    /\ slip[m] # "none" => mirror[m] \in Slips \ {"none"} \/ (Thrown(m) /\ mirror[m] # "none")
    /\ RowFollows(m)
    /\ m \in late => PlacesOf(m) = {}
    /\ m \notin late => Uncarried(m) \/ Carried(m)
    /\ slip[m] \in {"none", "rejected"} => Uncarried(m)
    /\ slip[m] = "accepted" => Carried(m)
DeedsTrue == \A m \in Mirrored : DeedOf(m)

Working == {"sending", "answered", "returned", "updated"}
LockKept == locked <=> sending.at \in Working

\* How row and receipt of the message that is being sent follow the send.
Follows(m) ==
    /\ sending.at \in {"reading", "observed"} => mirror[m] \in {"pending", "blocked"} \/ (Thrown(m) /\ mirror[m] \notin Doubt)
    /\ sending.at = "prepared" => (mirror[m] = "prepared" /\ slip[m] = "none") \/ Thrown(m)
    /\ sending.at \in {"sending", "answered"} => mirror[m] = "prepared" /\ slip[m] = "prepared"
    /\ sending.at = "sending" => Uncarried(m)
    /\ sending.at \in {"answered", "returned", "updated"} => sending.outcome \in {"accepted", "rejected", "unknown"}
    /\ sending.at = "answered" /\ sending.outcome = "accepted" => Carried(m)
    /\ sending.at = "answered" /\ sending.outcome = "rejected" => Uncarried(m)
    /\ sending.at \in {"returned", "updated"} => slip[m] = sending.outcome
    /\ sending.at = "returned" => mirror[m] \in {"prepared", "rejected"} \/ Thrown(m)
OnlyDoubt(m) == \A n \in Mirrored : mirror[n] \in Doubt => n = m
SendTrue == \A m \in Mirrored : sending.at \in Stages /\ sending.msg = m => Follows(m) /\ OnlyDoubt(m)

SendInv == Typed /\ DeedsTrue /\ LockKept /\ SendTrue /\ PairHeld

Behind(l) == \A i \in 1..Len(relay) : i < since[l] => relay[i] \in woken \cup Mirrored
Cursor(l) == since[l] \in 1..(Len(relay) + 1) /\ Behind(l)
PageTrue(l) == page[l] # NoPage => page[l].from \in 1..since[l] /\ page[l].to <= Len(relay)
Archived == \A e \in archive : e \in held \cup woken \cup Mirrored
EchoesKnown == \A m \in woken \cap Mirrored : CommitFails /\ slip[m] = "accepted"
ReadInv ==
    /\ EchoesKnown
    /\ Archived
    /\ \A l \in Listeners : Cursor(l) /\ PageTrue(l)

-----------------------------------------------------------------------------
LEMMA QuietIs ==
    /\ Quiet.at = "idle" /\ Quiet.at \notin Stages
    /\ \A w \in Works : w.at \in Stages /\ w.msg \in Mirrored /\ w # Quiet
  BY DEF Quiet, Works, Stages

LEMMA SendingIs ==
    ASSUME Typed, sending.at \in Stages
    PROVE  sending \in Works /\ sending.msg \in Mirrored
  BY QuietIs DEF Typed

\* A message that the relay carries is in doubt or accepted, or else its receipt is.
LEMMA OnRelay ==
    ASSUME SendInv, NEW m \in Mirrored, PlacesOf(m) # {}
    PROVE  mirror[m] \in Doubt \cup {"accepted"} \/ (CommitFails /\ slip[m] = "accepted")
<1>1. DeedOf(m) /\ slip[m] \in Slips
  BY DEF SendInv, DeedsTrue, Typed
<1>. QED  BY <1>1 DEF DeedOf, RowFollows, Settled, Thrown, Uncarried, Slips, Doubt

LEMMA Appended ==
    ASSUME Typed, NEW e \in Mirrored \cup Native, relay' = Append(relay, e)
    PROVE  /\ relay' \in Seq(Mirrored \cup Native) /\ Len(relay') = Len(relay) + 1
           /\ \A i \in 1..Len(relay) : relay'[i] = relay[i]
           /\ \A m : PlacesOf(m)' = PlacesOf(m) \cup (IF e = m THEN {Len(relay) + 1} ELSE {})
<1>1. /\ relay' \in Seq(Mirrored \cup Native) /\ Len(relay') = Len(relay) + 1
      /\ \A i \in 1..Len(relay) : relay'[i] = relay[i]
      /\ relay'[Len(relay) + 1] = e /\ Len(relay) \in Nat
  BY DEF Typed
<1>2. ASSUME NEW m
      PROVE  PlacesOf(m)' = PlacesOf(m) \cup (IF e = m THEN {Len(relay) + 1} ELSE {})
  BY <1>1 DEF PlacesOf
<1>. QED  BY <1>1, <1>2

-----------------------------------------------------------------------------
(* Reading.                                                                *)

\* Ingest keeps what reading promises: a message of ours that is read is in doubt, and held with
\* the rest, or accepted, and known.
LEMMA IngestKeeps ==
    ASSUME SendInv, ReadInv, NEW l \in Listeners, NEW p \in Pages, NEW complete, Ingest(l, p, complete),
           p.from \in 1..since[l], p.to <= Len(relay), UNCHANGED <<relay, mirror, slip>>
    PROVE  /\ since' \in [Listeners -> Nat] /\ \A k \in Listeners : since'[k] >= since[k]
           /\ EchoesKnown' /\ Archived'
           /\ \A k \in Listeners : Cursor(k)'
<1>1. Len(relay) \in Nat
  BY DEF SendInv, Typed
<1>2. \A i \in p.from..p.to : i \in 1..Len(relay)
  BY <1>1 DEF ReadInv, Cursor, Pages
<1>3. ASSUME NEW e \in Read(p), e \in Mirrored, ~MirrorHold
      PROVE  IsMirror(e) \/ (CommitFails /\ slip[e] = "accepted")
  <2>1. PICK i \in p.from..p.to : e = relay[i]
    BY <1>3 DEF Read
  <2>2. PlacesOf(e) # {}
    BY <1>2, <2>1 DEF PlacesOf
  <2>. QED  BY <1>3, <2>2, OnRelay DEF MirrorHold, IsMirror
<1>4. /\ archive' = archive \cup Read(p)
      /\ \/ /\ MirrorHold /\ woken' = woken
            /\ held' = (held \ Pending(p)) \cup {e \in Pending(p) : ~IsMirror(e)}
         \/ /\ ~MirrorHold /\ held' = held \ Pending(p)
            /\ woken' = woken \cup {e \in Pending(p) : ~IsMirror(e)}
  BY DEF Ingest, Delivers
<1>5. EchoesKnown'
  BY <1>3, <1>4 DEF Pending, ReadInv, EchoesKnown
<1>6. Archived'
  BY <1>4 DEF Archived, ReadInv, Pending, IsMirror
<1>7. ~MirrorHold => \A e \in Read(p) : e \in woken' \cup Mirrored
  BY <1>4 DEF Pending, IsMirror, Archived, ReadInv
<1>8. /\ since' \in [Listeners -> Nat] /\ \A k \in Listeners : since'[k] >= since[k]
      /\ \A k \in Listeners : since'[k] = since[k] \/ (k = l /\ ~MirrorHold /\ since'[k] = p.to /\ p.to > since[k])
  BY <1>1 DEF Ingest, SendInv, Typed, ReadInv, Cursor, Pages
<1>9. \A e \in woken : e \in woken'
  BY <1>4
<1>10. ASSUME NEW k \in Listeners
       PROVE  Cursor(k)'
  <2>1. since'[k] \in 1..(Len(relay) + 1)
    BY <1>1, <1>8 DEF ReadInv, Cursor, Pages
  <2>2. ASSUME NEW i \in 1..Len(relay), i < since'[k]
        PROVE  relay[i] \in woken' \cup Mirrored
    <3>1. CASE i < since[k]
      BY <1>9, <3>1 DEF ReadInv, Cursor, Behind
    <3>2. CASE ~(i < since[k])
      <4>1. k = l /\ ~MirrorHold /\ i \in p.from..p.to
        BY <1>1, <1>8, <2>2, <3>2 DEF Pages, ReadInv, Cursor
      <4>2. relay[i] \in Read(p)
        BY <4>1 DEF Read
      <4>. QED  BY <1>7, <4>1, <4>2
    <3>. QED  BY <3>1, <3>2
  <2>. QED  BY <2>1, <2>2 DEF Cursor, Behind
<1>. QED  BY <1>5, <1>6, <1>8, <1>10

\* Nothing is read, and the relay grows or not.
LEMMA ReadStays ==
    ASSUME Typed, ReadInv, UNCHANGED <<archive, held, woken, since, page>>,
           relay' = relay \/ \E e \in Mirrored \cup Native : relay' = Append(relay, e),
           \A m \in Mirrored : slip[m] = "accepted" => slip'[m] = "accepted"
    PROVE  ReadInv'
<1>1. /\ Len(relay) \in Nat /\ Len(relay') \in {Len(relay), Len(relay) + 1}
      /\ \A i \in 1..Len(relay) : relay'[i] = relay[i]
  <2>1. CASE relay' = relay
    BY <2>1 DEF Typed
  <2>2. CASE \E e \in Mirrored \cup Native : relay' = Append(relay, e)
    BY <2>2 DEF Typed
  <2>. QED  BY <2>1, <2>2
<1>2. ASSUME NEW l \in Listeners
      PROVE  Cursor(l)' /\ PageTrue(l)'
  <2>1. Cursor(l)'
    BY <1>1 DEF ReadInv, Cursor, Behind
  <2>2. page[l] \in Pages
    BY DEF Typed
  <2>3. PageTrue(l)'
    BY <1>1, <2>2 DEF ReadInv, PageTrue, Pages
  <2>. QED  BY <2>1, <2>3
<1>. QED  BY <1>2 DEF ReadInv, EchoesKnown, Archived

LEMMA PageIs ==
    ASSUME Distinct, Typed, ReadInv, NEW l \in Listeners
    PROVE  PageFrom(l) \in Pages /\ PageFrom(l).from \in 1..since[l] /\ PageFrom(l).to <= Len(relay)
<1>1. since[l] \in Nat /\ since[l] >= 1 /\ Len(relay) \in Nat
  BY DEF Typed, ReadInv, Cursor
<1>2. PICK last \in Int : last = since[l] + PageSize - 1
  BY <1>1 DEF Distinct
<1>3. PICK to \in Int : to = (IF last < Len(relay) THEN last ELSE Len(relay)) /\ to <= Len(relay)
  BY <1>1, <1>2
<1>4. PageFrom(l) = [from |-> since[l], to |-> to]
  BY <1>2, <1>3 DEF PageFrom
<1>. QED  BY <1>1, <1>3, <1>4 DEF Pages

LEMMA PollReadKeeps ==
    ASSUME Distinct, SendInv, ReadInv, NEW l \in Listeners, PollRead(l)
    PROVE  Typed' /\ ReadInv'
<1>1. PICK p \in Pages : p = PageFrom(l) /\ p.from \in 1..since[l] /\ p.to <= Len(relay)
  BY PageIs DEF SendInv
<1>2. page' = [page EXCEPT ![l] = p]
  BY <1>1 DEF PollRead
<1>3. page' \in [Listeners -> Pages] /\ page'[l] = p /\ \A k \in Listeners \ {l} : page'[k] = page[k]
  BY <1>2 DEF SendInv, Typed
<1>4. UNCHANGED <<relay, late, mirror, slip, sending, locked, archive, held, woken, since>>
  BY DEF PollRead
<1>5. \A k \in Listeners : PageTrue(k)'
  BY <1>1, <1>3, <1>4 DEF ReadInv, PageTrue
<1>. QED  BY <1>3, <1>4, <1>5 DEF SendInv, Typed, ReadInv, EchoesKnown, Archived, Cursor, Behind

LEMMA PollFailsKeeps ==
    ASSUME SendInv, ReadInv, NEW l \in Listeners, PollFails(l)
    PROVE  Typed' /\ ReadInv'
<1>1. NoPage \in Pages
  BY DEF NoPage, Pages
<1>2. page' = [page EXCEPT ![l] = NoPage]
  BY DEF PollFails
<1>3. page' \in [Listeners -> Pages] /\ page'[l] = NoPage /\ \A k \in Listeners \ {l} : page'[k] = page[k]
  BY <1>1, <1>2 DEF SendInv, Typed
<1>4. UNCHANGED <<relay, late, mirror, slip, sending, locked, archive, held, woken, since>>
  BY DEF PollFails
<1>5. \A k \in Listeners : PageTrue(k)'
  BY <1>3, <1>4 DEF ReadInv, PageTrue
<1>. QED  BY <1>3, <1>4, <1>5 DEF SendInv, Typed, ReadInv, EchoesKnown, Archived, Cursor, Behind

LEMMA PollIngestKeeps ==
    ASSUME SendInv, ReadInv, NEW l \in Listeners, PollIngest(l)
    PROVE  Typed' /\ ReadInv'
<1>1. PICK p \in Pages : p = page[l]
  BY DEF SendInv, Typed
<1>2. /\ p.from \in 1..since[l] /\ p.to <= Len(relay)
      /\ Ingest(l, p, Complete(p)) /\ page' = [page EXCEPT ![l] = NoPage]
      /\ UNCHANGED <<relay, late, mirror, slip, sending, locked>>
  BY <1>1 DEF PollIngest, ReadInv, PageTrue
<1>3. /\ since' \in [Listeners -> Nat] /\ \A k \in Listeners : since'[k] >= since[k]
      /\ EchoesKnown' /\ Archived'
      /\ \A k \in Listeners : Cursor(k)'
  BY <1>2, IngestKeeps
<1>4. NoPage \in Pages
  BY DEF NoPage, Pages
<1>5. page' \in [Listeners -> Pages] /\ page'[l] = NoPage /\ \A k \in Listeners \ {l} : page'[k] = page[k]
  BY <1>2, <1>4 DEF SendInv, Typed
<1>6. ASSUME NEW k \in Listeners
      PROVE  PageTrue(k)'
  <2>1. page[k] \in Pages /\ since[k] \in Nat /\ since'[k] \in Nat /\ since'[k] >= since[k]
    BY <1>3 DEF SendInv, Typed
  <2>. QED  BY <1>2, <1>5, <2>1 DEF ReadInv, PageTrue, Pages
<1>. QED  BY <1>2, <1>3, <1>5, <1>6 DEF SendInv, Typed, ReadInv

\* The sender's listener reads all of the history before the send.
LEMMA ObserveReads ==
    ASSUME Distinct, SendInv, ReadInv, NEW l \in Listeners, Observe(l)
    PROVE  /\ since' \in [Listeners -> Nat] /\ ReadInv'
<1>1. PICK p \in Pages : p = PageFrom(l) /\ p.from \in 1..since[l] /\ p.to <= Len(relay)
  BY PageIs DEF SendInv
<1>2. Ingest(l, p, TRUE) /\ UNCHANGED <<relay, mirror, slip, page>>
  BY <1>1 DEF Observe
<1>3. /\ since' \in [Listeners -> Nat] /\ \A k \in Listeners : since'[k] >= since[k]
      /\ EchoesKnown' /\ Archived'
      /\ \A k \in Listeners : Cursor(k)'
  BY <1>1, <1>2, IngestKeeps
<1>4. ASSUME NEW k \in Listeners
      PROVE  PageTrue(k)'
  <2>1. page[k] \in Pages /\ since[k] \in Nat /\ since'[k] \in Nat /\ since'[k] >= since[k]
    BY <1>3 DEF SendInv, Typed
  <2>. QED  BY <1>2, <2>1 DEF ReadInv, PageTrue, Pages
<1>. QED  BY <1>3, <1>4 DEF ReadInv

-----------------------------------------------------------------------------
(* Sending.                                                                *)

\* Neither rows nor receipts nor what the relay carries of them change.
LEMMA SendStays ==
    ASSUME SendInv, Typed', UNCHANGED <<late, mirror, slip, sending, locked>>,
           \A m \in Mirrored : PlacesOf(m)' = PlacesOf(m)
    PROVE  SendInv'
<1>1. ASSUME NEW m \in Mirrored
      PROVE  DeedOf(m)' /\ (Follows(m) => Follows(m)')
  BY DEF SendInv, DeedsTrue, DeedOf, RowFollows, Thrown, Settled, Uncarried, Carried, Follows
<1>. QED  BY <1>1 DEF SendInv, DeedsTrue, LockKept, SendTrue, OnlyDoubt, PairHeld

\* A step of the dispatcher with the message m, which is the only one in doubt.
LEMMA SendStep ==
    ASSUME SendInv, Typed', NEW m \in Mirrored,
           \A n \in Mirrored \ {m} : /\ mirror'[n] = mirror[n] /\ slip'[n] = slip[n]
                                     /\ PlacesOf(n)' = PlacesOf(n) /\ (n \in late' <=> n \in late),
           OnlyDoubt(m), DeedOf(m)', LockKept',
           sending'.at \in Stages => sending'.msg = m /\ Follows(m)'
    PROVE  SendInv'
<1>1. ASSUME NEW n \in Mirrored, n # m
      PROVE  DeedOf(n)'
  BY <1>1 DEF SendInv, DeedsTrue, DeedOf, RowFollows, Thrown, Settled, Uncarried, Carried
<1>2. OnlyDoubt(m)' /\ PairHeld'
  BY DEF OnlyDoubt, PairHeld
<1>3. SendTrue'
  BY <1>2 DEF SendTrue
<1>. QED  BY <1>1, <1>2, <1>3 DEF SendInv, DeedsTrue

\* A row is settled or queued beside the dispatcher.
LEMMA MarkStep ==
    ASSUME SendInv, NEW m \in Mirrored, NEW s \in {"pending", "accepted", "rejected"}, Marks(m, s),
           UNCHANGED <<relay, late, slip, sending, locked, since, page>>, DeedOf(m)',
           sending.at \in Stages /\ sending.msg = m => Follows(m)'
    PROVE  SendInv'
<1>1. /\ mirror' \in [Mirrored -> {"pending", "blocked"} \cup Slips] /\ mirror'[m] = s
      /\ \A n \in Mirrored \ {m} : mirror'[n] = mirror[n]
  BY DEF Marks, SendInv, Typed, Slips
<1>2. ASSUME NEW n \in Mirrored, n # m
      PROVE  DeedOf(n)' /\ (Follows(n) => Follows(n)')
  BY <1>1, <1>2 DEF SendInv, DeedsTrue, DeedOf, RowFollows, Thrown, Settled, PlacesOf, Uncarried, Carried, Follows
<1>3. \A n \in Mirrored : OnlyDoubt(n) => OnlyDoubt(n)'
  BY <1>1 DEF OnlyDoubt, Doubt
<1>4. PairHeld'
  BY <1>1 DEF SendInv, PairHeld, Doubt
<1>5. SendTrue'
  BY <1>2, <1>3 DEF SendInv, SendTrue
<1>6. Typed' /\ LockKept'
  BY <1>1 DEF SendInv, Typed, LockKept
<1>. QED  BY <1>2, <1>4, <1>5, <1>6 DEF SendInv, DeedsTrue

\* The record of the dispatcher as it goes on.
LEMMA ProceedIs ==
    ASSUME Typed, sending.at \in Stages, NEW at \in Stages, Proceeds(at)
    PROVE  /\ sending' \in Works /\ sending'.at = at
           /\ sending'.msg = sending.msg /\ sending'.outcome = sending.outcome
<1>1. sending \in Works
  BY SendingIs
<1>. QED  BY <1>1 DEF Proceeds, Works

Hears(at, outcome) == sending' = [sending EXCEPT !.at = at, !.outcome = outcome]
LEMMA HearIs ==
    ASSUME Typed, sending.at \in Stages, NEW at \in Stages, NEW outcome \in Slips, Hears(at, outcome)
    PROVE  /\ sending' \in Works /\ sending'.at = at
           /\ sending'.msg = sending.msg /\ sending'.outcome = outcome
<1>1. sending \in Works
  BY SendingIs
<1>. QED  BY <1>1 DEF Hears, Works

LEMMA MarkIs ==
    ASSUME Typed, NEW m \in Mirrored, NEW s \in {"pending", "blocked"} \cup Slips, Marks(m, s)
    PROVE  /\ mirror' \in [Mirrored -> {"pending", "blocked"} \cup Slips] /\ mirror'[m] = s
           /\ \A n \in Mirrored \ {m} : mirror'[n] = mirror[n]
  BY DEF Marks, Typed

\* What is known of the message of a dispatcher at work.
LEMMA AtWork ==
    ASSUME SendInv, sending.at \in Stages
    PROVE  \E m \in Mirrored : m = sending.msg /\ Follows(m) /\ OnlyDoubt(m) /\ DeedOf(m)
  BY SendingIs DEF SendInv, SendTrue, DeedsTrue

LEMMA EnqueueKeeps ==
    ASSUME SendInv, NEW m \in Mirrored, EnqueueCommitted(m)
    PROVE  SendInv'
<1>1. /\ mirror[m] = "none" /\ Marks(m, "pending") /\ UNCHANGED <<relay, late, slip, sending, locked, since, page>>
  BY DEF EnqueueCommitted, inbound
<1>2. mirror'[m] = "pending"
  BY <1>1, MarkIs DEF SendInv
<1>3. DeedOf(m)'
  BY <1>1, <1>2 DEF SendInv, DeedsTrue, DeedOf, RowFollows, Thrown, Settled, PlacesOf, Uncarried, Carried, Slips
<1>4. ~(sending.at \in Stages /\ sending.msg = m)
  <2>3. slip[m] = "none"
    BY <1>1 DEF SendInv, DeedsTrue, DeedOf
  <2>1. ~Follows(m) \/ sending.at \notin Stages \/ sending.at = "updated"
    BY <1>1, <2>3 DEF Follows, Stages, Thrown, Settled
  <2>2. sending.at = "updated" /\ Follows(m) => slip[m] # "none"
    BY DEF Follows
  <2>. QED  BY <2>1, <2>2, <2>3 DEF SendInv, SendTrue
<1>. QED  BY <1>1, <1>3, <1>4, MarkStep

LEMMA DispatchKeeps ==
    ASSUME SendInv, NEW m \in Mirrored, Dispatch(m)
    PROVE  SendInv'
<1>1. /\ sending = Quiet /\ mirror[m] \in {"pending", "blocked"} /\ ~MirrorHold
      /\ sending' = [Quiet EXCEPT !.at = "reading", !.msg = m]
      /\ UNCHANGED <<relay, late, mirror, slip, locked, since, page>>
  BY DEF Dispatch, inbound
<1>2. sending' \in Works /\ sending'.at = "reading" /\ sending'.msg = m
  BY <1>1 DEF Quiet, Works, Stages, Slips
<1>3. Typed' /\ OnlyDoubt(m) /\ DeedOf(m)'
  BY <1>1, <1>2 DEF SendInv, Typed, OnlyDoubt, MirrorHold, DeedsTrue, DeedOf, RowFollows, Thrown, Settled, PlacesOf, Uncarried, Carried
<1>4. LockKept'
  BY <1>1, <1>2, QuietIs DEF SendInv, LockKept, Working, Quiet
<1>5. Follows(m)'
  BY <1>1, <1>2 DEF Follows
<1>. QED  BY <1>1, <1>2, <1>3, <1>4, <1>5, SendStep DEF PlacesOf

LEMMA BlockKeeps ==
    ASSUME SendInv, Block
    PROVE  SendInv'
<1>1. PICK m \in Mirrored : m = sending.msg /\ Follows(m) /\ OnlyDoubt(m) /\ DeedOf(m)
  BY AtWork DEF Block, Stages
<1>2. /\ sending.at \in {"reading", "observed"} /\ (mirror[m] \in {"pending", "blocked"} \/ Thrown(m))
      /\ Marks(m, "blocked") /\ sending' = Quiet
      /\ UNCHANGED <<relay, late, slip, locked, since, page>>
  BY <1>1 DEF Block, Follows, inbound, Yields
<1>3. /\ mirror' \in [Mirrored -> {"pending", "blocked"} \cup Slips] /\ mirror'[m] = "blocked"
      /\ \A n \in Mirrored \ {m} : mirror'[n] = mirror[n]
  BY <1>2, MarkIs DEF SendInv
<1>4. Typed' /\ LockKept'
  BY <1>2, <1>3, QuietIs DEF SendInv, Typed, LockKept, Working, Stages
<1>5. DeedOf(m)'
  BY <1>1, <1>2, <1>3 DEF DeedOf, RowFollows, Thrown, Settled, PlacesOf, Uncarried, Carried, Slips
<1>. QED  BY <1>1, <1>2, <1>3, <1>4, <1>5, QuietIs, SendStep DEF PlacesOf

LEMMA ObserveKeeps ==
    ASSUME SendInv, since' \in [Listeners -> Nat], NEW l \in Listeners, Observe(l)
    PROVE  SendInv'
<1>1. PICK m \in Mirrored : m = sending.msg /\ Follows(m) /\ OnlyDoubt(m) /\ DeedOf(m)
  BY AtWork DEF Observe, Stages
<1>2. /\ sending.at = "reading" /\ Proceeds("observed")
      /\ UNCHANGED <<relay, late, mirror, slip, locked, page>>
  BY DEF Observe
<1>3. sending' \in Works /\ sending'.at = "observed" /\ sending'.msg = m
  BY <1>1, <1>2, ProceedIs DEF SendInv, Stages
<1>4. Typed' /\ LockKept' /\ DeedOf(m)' /\ Follows(m)'
  BY <1>1, <1>2, <1>3 DEF SendInv, Typed, LockKept, Working, DeedOf, RowFollows, Thrown, Settled, PlacesOf, Uncarried, Carried, Follows
<1>. QED  BY <1>1, <1>2, <1>3, <1>4, SendStep DEF PlacesOf

LEMMA PrepareKeeps ==
    ASSUME SendInv, Prepare
    PROVE  SendInv'
<1>1. PICK m \in Mirrored : m = sending.msg /\ Follows(m) /\ OnlyDoubt(m) /\ DeedOf(m)
  BY AtWork DEF Prepare, Stages
<1>2. /\ sending.at = "observed" /\ (mirror[m] \in {"pending", "blocked"} \/ Thrown(m))
      /\ Marks(m, "prepared") /\ Proceeds("prepared")
      /\ UNCHANGED <<relay, late, slip, locked, since, page>>
  BY <1>1 DEF Prepare, Follows, inbound
<1>3. /\ mirror' \in [Mirrored -> {"pending", "blocked"} \cup Slips] /\ mirror'[m] = "prepared"
      /\ \A n \in Mirrored \ {m} : mirror'[n] = mirror[n]
  BY <1>2, MarkIs DEF SendInv, Slips
<1>4. sending' \in Works /\ sending'.at = "prepared" /\ sending'.msg = m
  BY <1>1, <1>2, ProceedIs DEF SendInv, Stages
<1>5. Typed' /\ LockKept'
  BY <1>2, <1>3, <1>4 DEF SendInv, Typed, LockKept, Working
<1>6. slip[m] = "none" \/ Thrown(m)
  BY <1>1, <1>2 DEF DeedOf, Slips
<1>7. DeedOf(m)' /\ Follows(m)'
  BY <1>1, <1>2, <1>3, <1>4, <1>6 DEF DeedOf, RowFollows, Thrown, Settled, PlacesOf, Uncarried, Carried, Slips, Follows
<1>. QED  BY <1>1, <1>2, <1>3, <1>4, <1>5, <1>7, SendStep DEF PlacesOf

LEMMA TakeReceiptKeeps ==
    ASSUME SendInv, TakeReceipt
    PROVE  SendInv'
<1>1. PICK m \in Mirrored : m = sending.msg /\ Follows(m) /\ OnlyDoubt(m) /\ DeedOf(m)
  BY AtWork DEF TakeReceipt, Stages
<1>2. /\ sending.at = "prepared" /\ locked' = TRUE
      /\ UNCHANGED <<relay, late, mirror, since, page>>
  BY <1>1 DEF TakeReceipt, inbound
<1>3. CASE slip[m] = "none"
  <2>1. mirror[m] = "prepared" /\ slip' = [slip EXCEPT ![m] = "prepared"] /\ Proceeds("sending")
    BY <1>1, <1>2, <1>3 DEF TakeReceipt, Follows, Thrown, Settled
  <2>2. /\ slip' \in [Mirrored -> Slips] /\ slip'[m] = "prepared"
        /\ \A n \in Mirrored \ {m} : slip'[n] = slip[n]
    BY <2>1 DEF SendInv, Typed, Slips
  <2>3. sending' \in Works /\ sending'.at = "sending" /\ sending'.msg = m
    BY <1>1, <1>2, <2>1, ProceedIs DEF SendInv, Stages
  <2>4. Typed' /\ LockKept'
    BY <1>2, <2>2, <2>3 DEF SendInv, Typed, LockKept, Working
  <2>5. DeedOf(m)' /\ Follows(m)'
    BY <1>1, <1>2, <1>3, <2>1, <2>2, <2>3 DEF DeedOf, RowFollows, Thrown, Settled, PlacesOf, Uncarried, Carried, Slips, Follows
  <2>. QED  BY <1>1, <1>2, <2>2, <2>3, <2>4, <2>5, SendStep DEF PlacesOf
<1>4. CASE slip[m] # "none"
  <2>1. PICK s \in Settled : s = slip[m] /\ Thrown(m)
    BY <1>1, <1>2, <1>4 DEF Follows, Thrown
  <2>2. Hears("returned", s) /\ slip' = slip
    BY <1>1, <1>4, <2>1 DEF TakeReceipt, Hears
  <2>3. sending' \in Works /\ sending'.at = "returned" /\ sending'.msg = m /\ sending'.outcome = s
    BY <1>1, <1>2, <2>2, HearIs DEF SendInv, Stages, Slips, Settled
  <2>4. Typed' /\ LockKept'
    BY <1>2, <2>2, <2>3 DEF SendInv, Typed, LockKept, Working
  <2>5. DeedOf(m)' /\ Follows(m)'
    BY <1>1, <1>2, <2>1, <2>2, <2>3 DEF DeedOf, RowFollows, Thrown, Settled, PlacesOf, Uncarried, Carried, Follows
  <2>. QED  BY <1>1, <1>2, <2>2, <2>3, <2>4, <2>5, SendStep DEF PlacesOf
<1>. QED  BY <1>3, <1>4

LEMMA RefuseKeeps ==
    ASSUME SendInv, RefuseStale
    PROVE  SendInv'
<1>1. PICK m \in Mirrored : m = sending.msg /\ Follows(m) /\ OnlyDoubt(m) /\ DeedOf(m)
  BY AtWork DEF RefuseStale, Stages
<1>2. /\ sending.at = "prepared" /\ (slip[m] = "none" \/ Thrown(m))
      /\ Marks(m, "unknown") /\ sending' = Quiet
      /\ UNCHANGED <<relay, late, slip, locked, since, page>>
  BY <1>1 DEF RefuseStale, Follows, inbound, Yields
<1>3. /\ mirror' \in [Mirrored -> {"pending", "blocked"} \cup Slips] /\ mirror'[m] = "unknown"
      /\ \A n \in Mirrored \ {m} : mirror'[n] = mirror[n]
  BY <1>2, MarkIs DEF SendInv, Slips
<1>4. Typed' /\ LockKept'
  BY <1>2, <1>3, QuietIs DEF SendInv, Typed, LockKept, Working, Stages
<1>5. DeedOf(m)'
  BY <1>1, <1>2, <1>3 DEF DeedOf, RowFollows, Thrown, Settled, PlacesOf, Uncarried, Carried, Slips
<1>. QED  BY <1>1, <1>2, <1>3, <1>4, <1>5, QuietIs, SendStep DEF PlacesOf

\* What the relay made of the send of m: it carries it, or will, or never does.
Sent(m, outcome) ==
    /\ Hears("answered", outcome)
    /\ \/ relay' = Append(relay, m) /\ late' = late /\ outcome # "rejected"
       \/ relay' = relay /\ late' = late \cup {m} /\ outcome = "unknown"
       \/ relay' = relay /\ late' = late /\ outcome # "accepted"

LEMMA SendKeeps ==
    ASSUME SendInv, Send
    PROVE  SendInv'
<1>1. PICK m \in Mirrored : m = sending.msg /\ Follows(m) /\ OnlyDoubt(m) /\ DeedOf(m)
  BY AtWork DEF Send, Stages
<1>2. /\ sending.at = "sending" /\ mirror[m] = "prepared" /\ slip[m] = "prepared" /\ Uncarried(m)
      /\ UNCHANGED <<mirror, slip, locked, since, page>>
  BY <1>1 DEF Send, Follows, inbound
<1>3. PICK outcome \in {"accepted", "rejected", "unknown"} : Sent(m, outcome)
  BY <1>1 DEF Send, Sent, Hears
<1>4. sending' \in Works /\ sending'.at = "answered" /\ sending'.msg = m /\ sending'.outcome = outcome
  BY <1>1, <1>2, <1>3, HearIs DEF SendInv, Stages, Slips, Sent
<1>5. /\ relay' \in Seq(Mirrored \cup Native) /\ late' \subseteq Mirrored
      /\ \A n \in Mirrored \ {m} : PlacesOf(n)' = PlacesOf(n) /\ (n \in late' <=> n \in late)
      /\ \/ Carried(m)' /\ outcome # "rejected"
         \/ PlacesOf(m)' = {} /\ m \in late' /\ outcome = "unknown"
         \/ Uncarried(m)' /\ outcome # "accepted"
  <2>1. CASE relay' = Append(relay, m) /\ late' = late /\ outcome # "rejected"
    <3>1. relay' \in Seq(Mirrored \cup Native) /\ \A n : PlacesOf(n)' = PlacesOf(n) \cup (IF m = n THEN {Len(relay) + 1} ELSE {})
      BY <2>1, Appended DEF SendInv
    <3>2. PlacesOf(m)' = {Len(relay) + 1} /\ Len(relay) + 1 \in Nat
      BY <1>2, <3>1 DEF Uncarried, SendInv, Typed
    <3>3. Carried(m)'
      BY <1>2, <2>1, <3>2 DEF Carried, Uncarried
    <3>4. \A n \in Mirrored \ {m} : PlacesOf(n)' = PlacesOf(n)
      BY <3>1
    <3>. QED  BY <2>1, <3>1, <3>3, <3>4 DEF SendInv, Typed
  <2>2. CASE relay' = relay /\ late' = late \cup {m} /\ outcome = "unknown"
    BY <1>2, <2>2 DEF PlacesOf, Uncarried, SendInv, Typed
  <2>3. CASE relay' = relay /\ late' = late /\ outcome # "accepted"
    BY <1>2, <2>3 DEF PlacesOf, Uncarried, SendInv, Typed
  <2>. QED  BY <1>3, <2>1, <2>2, <2>3 DEF Sent
<1>6. Typed' /\ LockKept'
  BY <1>2, <1>4, <1>5 DEF SendInv, Typed, LockKept, Working
<1>7. DeedOf(m)' /\ Follows(m)'
  BY <1>2, <1>4, <1>5 DEF DeedOf, RowFollows, Thrown, Settled, Uncarried, Carried, Slips, Follows
<1>. QED  BY <1>1, <1>2, <1>4, <1>5, <1>6, <1>7, SendStep

LEMMA BookKeeps ==
    ASSUME SendInv, BookSend
    PROVE  SendInv'
<1>1. PICK m \in Mirrored : m = sending.msg /\ Follows(m) /\ OnlyDoubt(m) /\ DeedOf(m)
  BY AtWork DEF BookSend, Stages
<1>2. PICK outcome \in {"accepted", "rejected", "unknown"} : outcome = sending.outcome
  BY <1>1 DEF BookSend, Follows
<1>3. /\ sending.at = "answered" /\ mirror[m] = "prepared"
      /\ outcome = "accepted" => Carried(m)
      /\ outcome = "rejected" => Uncarried(m)
      /\ slip' = [slip EXCEPT ![m] = outcome] /\ Proceeds("returned")
      /\ UNCHANGED <<relay, late, mirror, locked, since, page>>
  BY <1>1, <1>2 DEF BookSend, Follows, inbound
<1>4. /\ slip' \in [Mirrored -> Slips] /\ slip'[m] = outcome
      /\ \A n \in Mirrored \ {m} : slip'[n] = slip[n]
  BY <1>3 DEF SendInv, Typed, Slips
<1>5. sending' \in Works /\ sending'.at = "returned" /\ sending'.msg = m /\ sending'.outcome = outcome
  BY <1>1, <1>2, <1>3, ProceedIs DEF SendInv, Stages
<1>6. Typed' /\ LockKept'
  BY <1>3, <1>4, <1>5 DEF SendInv, Typed, LockKept, Working
<1>7. DeedOf(m)' /\ Follows(m)'
  BY <1>1, <1>3, <1>4, <1>5 DEF DeedOf, RowFollows, Thrown, Settled, PlacesOf, Uncarried, Carried, Slips, Follows
<1>. QED  BY <1>1, <1>3, <1>4, <1>5, <1>6, <1>7, SendStep DEF PlacesOf

LEMMA UpdateKeeps ==
    ASSUME SendInv, UpdateMirror
    PROVE  SendInv'
<1>1. PICK m \in Mirrored : m = sending.msg /\ Follows(m) /\ OnlyDoubt(m) /\ DeedOf(m)
  BY AtWork DEF UpdateMirror, Stages
<1>2. PICK outcome \in {"accepted", "rejected", "unknown"} : outcome = sending.outcome /\ outcome = slip[m]
  BY <1>1 DEF UpdateMirror, Follows
<1>3. /\ sending.at = "returned" /\ Marks(m, outcome) /\ Proceeds("updated")
      /\ UNCHANGED <<relay, late, slip, locked, since, page>>
  BY <1>1, <1>2 DEF UpdateMirror, inbound
<1>4. /\ mirror' \in [Mirrored -> {"pending", "blocked"} \cup Slips] /\ mirror'[m] = outcome
      /\ \A n \in Mirrored \ {m} : mirror'[n] = mirror[n]
  BY <1>3, MarkIs DEF SendInv, Slips
<1>5. sending' \in Works /\ sending'.at = "updated" /\ sending'.msg = m /\ sending'.outcome = outcome
  BY <1>1, <1>2, <1>3, ProceedIs DEF SendInv, Stages
<1>6. Typed' /\ LockKept'
  BY <1>3, <1>4, <1>5 DEF SendInv, Typed, LockKept, Working
<1>7. DeedOf(m)' /\ Follows(m)'
  BY <1>1, <1>2, <1>3, <1>4, <1>5 DEF DeedOf, RowFollows, Thrown, Settled, PlacesOf, Uncarried, Carried, Slips, Follows
<1>. QED  BY <1>1, <1>3, <1>4, <1>5, <1>6, <1>7, SendStep DEF PlacesOf

LEMMA ReleaseKeeps ==
    ASSUME SendInv, ReleaseConversation
    PROVE  SendInv'
<1>1. PICK m \in Mirrored : m = sending.msg /\ Follows(m) /\ OnlyDoubt(m) /\ DeedOf(m)
  BY AtWork DEF ReleaseConversation, Stages
<1>2. /\ sending.at = "updated" /\ slip[m] \in {"accepted", "rejected", "unknown"}
      /\ locked' = FALSE /\ sending' = Quiet /\ UNCHANGED <<relay, late, slip, since, page>>
  BY <1>1 DEF ReleaseConversation, Follows, inbound, Yields
<1>3. PICK s \in {"pending", "blocked"} \cup Slips :
         /\ s = mirror[m] \/ s = "unknown" \/ (CommitFails /\ s = "blocked" /\ mirror[m] \notin Doubt)
         /\ mirror' \in [Mirrored -> {"pending", "blocked"} \cup Slips] /\ mirror'[m] = s
         /\ \A n \in Mirrored \ {m} : mirror'[n] = mirror[n]
  <2>1. CASE mirror' = mirror
    BY <2>1 DEF SendInv, Typed
  <2>2. CASE Marks(m, "unknown")
    BY <2>2, MarkIs DEF SendInv, Slips
  <2>3. CASE CommitFails /\ mirror[m] \notin Doubt /\ Marks(m, "blocked")
    BY <2>3, MarkIs DEF SendInv
  <2>. QED  BY <1>1, <2>1, <2>2, <2>3 DEF ReleaseConversation
<1>4. Typed' /\ LockKept'
  BY <1>2, <1>3, QuietIs DEF SendInv, Typed, LockKept, Working, Stages
<1>5. mirror[m] \notin Doubt => slip[m] # "unknown"
  BY <1>1, <1>2 DEF DeedOf, RowFollows, Thrown, Settled, Doubt, Slips
<1>6. DeedOf(m)'
  BY <1>1, <1>2, <1>3, <1>5 DEF DeedOf, RowFollows, Thrown, Settled, PlacesOf, Uncarried, Carried, Slips
<1>. QED  BY <1>1, <1>2, <1>3, <1>4, <1>6, QuietIs, SendStep DEF PlacesOf

\* A dispatcher that stops leaves its message in doubt, or as it is.
LEMMA StopKeeps ==
    ASSUME SendInv, SendAborts \/ DispatcherCrash
    PROVE  SendInv'
<1>1. sending.at \in Stages
  BY QuietIs DEF SendAborts, DispatcherCrash, SendInv, Typed, Stages
<1>2. PICK m \in Mirrored : m = sending.msg /\ Follows(m) /\ OnlyDoubt(m) /\ DeedOf(m)
  BY <1>1, AtWork
<1>3. /\ locked' = FALSE /\ sending' = Quiet /\ UNCHANGED <<relay, slip, since, page>>
      /\ late' = late \/ (sending.at = "sending" /\ late' = late \cup {m})
      /\ \/ mirror' = mirror
         \/ Marks(m, "unknown") /\ sending.at \in {"sending", "answered", "returned"}
  BY <1>2 DEF SendAborts, DispatcherCrash, inbound, Yields
<1>4. PICK s \in {"pending", "blocked"} \cup Slips :
         /\ s = mirror[m] \/ (s = "unknown" /\ sending.at \in {"sending", "answered", "returned"})
         /\ mirror' \in [Mirrored -> {"pending", "blocked"} \cup Slips] /\ mirror'[m] = s
         /\ \A n \in Mirrored \ {m} : mirror'[n] = mirror[n]
  <2>1. CASE mirror' = mirror
    BY <2>1 DEF SendInv, Typed
  <2>2. CASE Marks(m, "unknown") /\ sending.at \in {"sending", "answered", "returned"}
    BY <2>2, MarkIs DEF SendInv, Slips
  <2>. QED  BY <1>3, <2>1, <2>2
<1>5. /\ late' \subseteq Mirrored
      /\ \A n \in Mirrored \ {m} : n \in late' <=> n \in late
      /\ m \in late' <=> m \in late \/ late' # late
      /\ late' # late => slip[m] = "prepared" /\ Uncarried(m)
  BY <1>2, <1>3 DEF SendInv, Typed, Follows, Uncarried
<1>6. Typed' /\ LockKept'
  BY <1>3, <1>4, <1>5, QuietIs DEF SendInv, Typed, LockKept, Working, Stages
<1>7. s = "unknown" /\ sending.at \in {"sending", "answered", "returned"} => slip[m] # "none"
  BY <1>2 DEF Follows
<1>8. DeedOf(m)'
  BY <1>2, <1>3, <1>4, <1>5, <1>7 DEF DeedOf, RowFollows, Thrown, Settled, PlacesOf, Uncarried, Carried, Slips
<1>. QED  BY <1>2, <1>3, <1>4, <1>5, <1>6, <1>8, QuietIs, SendStep DEF PlacesOf

\* A send nobody waits for comes out: its message was in doubt, and not on the relay.
LEMMA LateKeeps ==
    ASSUME SendInv, NEW m \in Mirrored, CarriedLate(m)
    PROVE  SendInv'
<1>1. /\ m \in late /\ late' = late \ {m} /\ relay' = Append(relay, m)
      /\ UNCHANGED <<mirror, slip, sending, locked, since, page>>
  BY DEF CarriedLate, inbound
<1>2. PlacesOf(m) = {} /\ slip[m] \in {"prepared", "unknown"}
  BY <1>1 DEF SendInv, Typed, DeedsTrue, DeedOf, Uncarried, Carried, Slips
<1>3. relay' \in Seq(Mirrored \cup Native) /\ \A n : PlacesOf(n)' = PlacesOf(n) \cup (IF m = n THEN {Len(relay) + 1} ELSE {})
  BY <1>1, Appended DEF SendInv
<1>4. PlacesOf(m)' = {Len(relay) + 1} /\ Len(relay) + 1 \in Nat
  BY <1>2, <1>3 DEF SendInv, Typed
<1>5. Carried(m)'
  BY <1>1, <1>4 DEF Carried
<1>6. DeedOf(m)'
  BY <1>1, <1>2, <1>5 DEF SendInv, DeedsTrue, DeedOf, RowFollows, Thrown, Settled
<1>7. ASSUME NEW n \in Mirrored, n # m
      PROVE  DeedOf(n)' /\ (Follows(n) => Follows(n)')
  <2>1. PlacesOf(n)' = PlacesOf(n) /\ (n \in late' <=> n \in late)
    BY <1>1, <1>3, <1>7
  <2>. QED  BY <1>1, <2>1 DEF SendInv, DeedsTrue, DeedOf, RowFollows, Thrown, Settled, Uncarried, Carried, Follows
<1>8. Follows(m) => Follows(m)'
  BY <1>1, <1>5 DEF Follows, Thrown, Settled, Uncarried, Carried
<1>9. Typed' /\ LockKept' /\ PairHeld' /\ \A n \in Mirrored : OnlyDoubt(n) => OnlyDoubt(n)'
  BY <1>1, <1>3 DEF SendInv, Typed, LockKept, PairHeld, OnlyDoubt
<1>. QED  BY <1>1, <1>6, <1>7, <1>8, <1>9 DEF SendInv, DeedsTrue, SendTrue

LEMMA ReconcileKeeps ==
    ASSUME SendInv, NEW m \in Mirrored, ReconcileMirror(m)
    PROVE  SendInv'
<1>1. /\ UNCHANGED <<relay, late, slip, sending, locked, since, page>>
      /\ \/ slip[m] = "accepted" /\ ~locked /\ Marks(m, "accepted")
         \/ slip[m] = "rejected" /\ Marks(m, "rejected")
  BY DEF ReconcileMirror, inbound
<1>2. PICK s \in {"accepted", "rejected"} : slip[m] = s /\ Marks(m, s) /\ (s = "accepted" => ~locked)
  BY <1>1
<1>3. mirror'[m] = s
  BY <1>2, MarkIs DEF SendInv, Slips
<1>4. DeedOf(m)'
  BY <1>1, <1>2, <1>3 DEF SendInv, DeedsTrue, DeedOf, RowFollows, Thrown, Settled, PlacesOf, Uncarried, Carried, Slips
<1>5. ASSUME sending.at \in Stages, sending.msg = m
      PROVE  Follows(m)'
  <2>1. Follows(m) /\ DeedOf(m)
    BY <1>5 DEF SendInv, SendTrue, DeedsTrue
  <2>2. sending.at \in {"reading", "observed", "prepared"} => Thrown(m)
    BY <1>2, <2>1 DEF Follows, DeedOf, Slips
  <2>3. sending.at \notin {"sending", "answered"}
    BY <1>2, <2>1 DEF Follows
  <2>4. sending.at \in {"returned", "updated"} => s = "rejected"
    BY <1>2 DEF SendInv, LockKept, Working
  <2>5. s \notin Doubt
    BY DEF Doubt
  <2>. QED  BY <1>1, <1>2, <1>3, <1>5, <2>1, <2>2, <2>3, <2>4, <2>5 DEF Follows, Stages, Thrown
<1>. QED  BY <1>1, <1>2, <1>4, <1>5, MarkStep

-----------------------------------------------------------------------------
(* Reading and sending together.                                           *)

LEMMA RelayStarts ==
    ASSUME RelayInit
    PROVE  SendInv /\ ReadInv
<1>1. NoPage \in Pages /\ Quiet.at = "idle" /\ Len(relay) = 0
  BY DEF RelayInit, NoPage, Pages, Quiet
<1>2. Typed
  <2>1. relay \in Seq(Mirrored \cup Native) /\ late \subseteq Mirrored /\ sending \in Works \cup {Quiet} /\ locked \in BOOLEAN
    <3>1. relay \in Seq(Mirrored \cup Native)
      BY DEF RelayInit
    <3>2. late \subseteq Mirrored /\ sending \in Works \cup {Quiet}
      BY DEF RelayInit
    <3>3. locked \in BOOLEAN
      BY DEF RelayInit
    <3>. QED  BY <3>1, <3>2, <3>3
  <2>2. mirror \in [Mirrored -> {"pending", "blocked"} \cup Slips] /\ slip \in [Mirrored -> Slips]
    BY DEF RelayInit, Slips
  <2>3. since \in [Listeners -> Nat] /\ page \in [Listeners -> Pages]
    BY <1>1 DEF RelayInit
  <2>. QED  BY <2>1, <2>2, <2>3 DEF Typed
<1>3. \A m \in Mirrored : Uncarried(m) /\ mirror[m] = "none" /\ slip[m] = "none"
  BY <1>1 DEF RelayInit, Uncarried, PlacesOf
<1>4. DeedsTrue
  BY <1>3 DEF DeedsTrue, DeedOf, RowFollows, Settled, Uncarried
<1>5. LockKept /\ SendTrue /\ PairHeld
  BY <1>1, <1>3 DEF RelayInit, LockKept, Working, SendTrue, Stages, PairHeld, Doubt
<1>6. ReadInv
  BY <1>1 DEF RelayInit, ReadInv, EchoesKnown, Archived, Cursor, Behind, PageTrue
<1>. QED  BY <1>2, <1>4, <1>5, <1>6 DEF SendInv

LEMMA QueueReads ==
    ASSUME NEW m, EnqueueCommitted(m) \/ Dispatch(m) \/ ReconcileMirror(m)
    PROVE  UNCHANGED inbound /\ relay' = relay
<1>1. CASE EnqueueCommitted(m)
  BY <1>1 DEF inbound, EnqueueCommitted
<1>2. CASE Dispatch(m)
  BY <1>2 DEF inbound, Dispatch
<1>3. CASE ReconcileMirror(m)
  BY <1>3 DEF inbound, ReconcileMirror
<1>. QED  BY <1>1, <1>2, <1>3

\* The dispatcher reads nothing, but for the listener of the sender.
LEMMA RestReads ==
    ASSUME SendInv,
           \/ \E m \in Mirrored : EnqueueCommitted(m) \/ Dispatch(m) \/ CarriedLate(m) \/ ReconcileMirror(m)
           \/ Block \/ Prepare \/ TakeReceipt \/ RefuseStale \/ Send \/ BookSend \/ UpdateMirror
           \/ ReleaseConversation \/ SendAborts \/ DispatcherCrash
    PROVE  /\ UNCHANGED <<archive, held, woken, since, page>>
           /\ relay' = relay \/ \E e \in Mirrored \cup Native : relay' = Append(relay, e)
<1>1. ASSUME NEW m \in Mirrored, EnqueueCommitted(m) \/ Dispatch(m) \/ ReconcileMirror(m)
      PROVE  UNCHANGED inbound /\ relay' = relay
  BY <1>1, QueueReads
<1>6. ASSUME NEW m \in Mirrored, CarriedLate(m)
      PROVE  UNCHANGED inbound /\ relay' = Append(relay, m)
  BY <1>6 DEF inbound, CarriedLate
<1>2. CASE Block \/ Prepare \/ TakeReceipt \/ RefuseStale
  BY <1>2 DEF inbound, Block, Prepare, TakeReceipt, RefuseStale
<1>3. CASE Send
  <2>1. sending.msg \in Mirrored
    BY <1>3, SendingIs DEF Send, Stages, SendInv
  <2>. QED  BY <1>3, <2>1 DEF inbound, Send
<1>4. CASE BookSend \/ UpdateMirror \/ ReleaseConversation
  BY <1>4 DEF inbound, BookSend, UpdateMirror, ReleaseConversation
<1>5. CASE SendAborts \/ DispatcherCrash
  BY <1>5 DEF inbound, SendAborts, DispatcherCrash
<1>. QED  BY <1>1, <1>2, <1>3, <1>4, <1>5, <1>6 DEF inbound

\* A receipt that says accepted is final.
LEMMA ReceiptsLast ==
    ASSUME SendInv, DispatchNext, NEW m \in Mirrored, slip[m] = "accepted"
    PROVE  slip'[m] = "accepted"
<1>1. CASE TakeReceipt
  <2>1. slip' = slip \/ (slip[sending.msg] = "none" /\ slip' = [slip EXCEPT ![sending.msg] = "prepared"])
    BY <1>1 DEF TakeReceipt
  <2>. QED  BY <2>1 DEF SendInv, Typed
<1>2. CASE BookSend
  <2>1. Follows(sending.msg) /\ sending.at = "answered"
    BY <1>2, AtWork DEF BookSend, Stages
  <2>2. slip[sending.msg] = "prepared" /\ slip' = [slip EXCEPT ![sending.msg] = sending.outcome]
    BY <1>2, <2>1 DEF BookSend, Follows
  <2>. QED  BY <2>2 DEF SendInv, Typed
<1>3. ASSUME NEW n \in Mirrored, EnqueueCommitted(n) \/ Dispatch(n) \/ CarriedLate(n) \/ ReconcileMirror(n)
      PROVE  slip' = slip
  BY <1>3 DEF EnqueueCommitted, Dispatch, CarriedLate, ReconcileMirror
<1>4. CASE Block \/ Prepare \/ RefuseStale \/ Send \/ UpdateMirror \/ ReleaseConversation \/ SendAborts \/ DispatcherCrash
  BY <1>4 DEF Block, Prepare, RefuseStale, Send, UpdateMirror, ReleaseConversation, SendAborts, DispatcherCrash
<1>5. ASSUME NEW l \in Listeners, Observe(l)
      PROVE  slip' = slip
  BY <1>5 DEF Observe
<1>. QED  BY <1>1, <1>2, <1>3, <1>4, <1>5 DEF DispatchNext

LEMMA DispatcherKeeps ==
    ASSUME Distinct, SendInv, ReadInv, DispatchNext
    PROVE  SendInv' /\ ReadInv'
<1>1. CASE \E l \in Listeners : Observe(l)
  BY <1>1, ObserveReads, ObserveKeeps
<1>2. CASE ~\E l \in Listeners : Observe(l)
  <2>1. SendInv'
    BY <1>2, EnqueueKeeps, DispatchKeeps, BlockKeeps, PrepareKeeps, TakeReceiptKeeps, RefuseKeeps, SendKeeps,
       BookKeeps, UpdateKeeps, ReleaseKeeps, StopKeeps, LateKeeps, ReconcileKeeps DEF DispatchNext
  <2>2. /\ UNCHANGED <<archive, held, woken, since, page>>
        /\ relay' = relay \/ \E e \in Mirrored \cup Native : relay' = Append(relay, e)
    BY <1>2, RestReads DEF DispatchNext
  <2>. QED  BY <2>1, <2>2, ReceiptsLast, ReadStays DEF SendInv
<1>. QED  BY <1>1, <1>2

LEMMA PollsKeep ==
    ASSUME Distinct, SendInv, ReadInv, NEW l \in Listeners, PollRead(l) \/ PollIngest(l) \/ PollFails(l)
    PROVE  SendInv' /\ ReadInv'
<1>1. Typed' /\ ReadInv'
  BY PollReadKeeps, PollIngestKeeps, PollFailsKeeps
<1>2. UNCHANGED <<relay, late, mirror, slip, sending, locked>>
  BY DEF PollRead, PollIngest, PollFails
<1>. QED  BY <1>1, <1>2, SendStays DEF PlacesOf

LEMMA NativeKeeps ==
    ASSUME Distinct, SendInv, ReadInv, NEW e \in Native, PostNative(e)
    PROVE  SendInv' /\ ReadInv'
<1>1. relay' = Append(relay, e) /\ UNCHANGED <<late, mirror, slip, sending, locked, archive, held, woken, since, page>>
  BY DEF PostNative, inbound
<1>2. /\ relay' \in Seq(Mirrored \cup Native)
      /\ \A m : PlacesOf(m)' = PlacesOf(m) \cup (IF e = m THEN {Len(relay) + 1} ELSE {})
  BY <1>1, Appended DEF SendInv
<1>3. \A m \in Mirrored : PlacesOf(m)' = PlacesOf(m)
  BY <1>2 DEF Distinct
<1>4. Typed'
  BY <1>1, <1>2 DEF SendInv, Typed
<1>. QED  BY <1>1, <1>3, <1>4, SendStays, ReadStays DEF SendInv

LEMMA RelayKeeps ==
    ASSUME Distinct, SendInv, ReadInv, [RelayNext]_relayVars
    PROVE  SendInv' /\ ReadInv'
<1>1. CASE UNCHANGED relayVars
  <2>1. UNCHANGED <<relay, late, mirror, slip, sending, locked, archive, held, woken, since, page>>
    BY <1>1 DEF relayVars
  <2>2. Typed'
    BY <2>1 DEF SendInv, Typed
  <2>. QED  BY <2>1, <2>2, SendStays, ReadStays DEF SendInv, PlacesOf
<1>. QED  BY <1>1, DispatcherKeeps, PollsKeep, NativeKeeps DEF RelayNext

-----------------------------------------------------------------------------
(* Whatever fails, reading loses nothing: whatever lies behind a cursor woke *)
(* its recipient or is one of our messages, and none of these wakes anybody  *)
(* while its send is in doubt (buzz/listener.ts, buzz/archive.ts: events     *)
(* held while a send is in doubt, cursors advanced only without one).        *)
THEOREM EchoesAreHeld ==
    ASSUME Distinct
    PROVE  RelayInit /\ [][RelayNext]_relayVars => []EchoesWait
<1>1. SendInv /\ ReadInv => EchoesWait
  <2>1. SUFFICES ASSUME SendInv, ReadInv
                 PROVE  NothingMissed
    BY DEF EchoesWait, ReadInv, EchoesKnown
  <2>2. SUFFICES ASSUME NEW l \in Listeners
                 PROVE  \A i \in 1..(since[l] - 1) : i \in DOMAIN relay => relay[i] \in woken \cup Mirrored
    BY DEF NothingMissed
  <2>3. since[l] \in Nat /\ Behind(l) /\ Len(relay) \in Nat /\ DOMAIN relay = 1..Len(relay)
    BY <2>1 DEF SendInv, Typed, ReadInv, Cursor
  <2>. QED  BY <2>3 DEF Behind
<1>. QED  BY <1>1, RelayStarts, RelayKeeps, PTL

(* Reading is exact as long as no commit after a send fails: then a mirrored *)
(* message never wakes its recipient again when it comes back from the relay *)
(* (buzz/archive.ts).  Without the assumption it can: the failed commit      *)
(* throws an accepted row back to blocked (buzz/runtime-outbound.ts), where  *)
(* its echo is not recognised.                                               *)
THEOREM EventsAreReadOnce ==
    ASSUME Distinct, ~CommitFails
    PROVE  RelayInit /\ [][RelayNext]_relayVars => []ReadOnce
<1>1. SendInv /\ ReadInv /\ EchoesWait => ReadOnce
  BY DEF ReadInv, EchoesKnown, EchoesWait, ReadOnce
<1>. QED  BY <1>1, EchoesAreHeld, RelayStarts, RelayKeeps, PTL

(* Of a pair of owners at most one message is in doubt at a time             *)
(* (buzz/runtime-outbound.ts: the lock of the pair and the check for an      *)
(* earlier message that is prepared or unknown).                             *)
THEOREM OneSendInDoubt ==
    ASSUME Distinct
    PROVE  RelayInit /\ [][RelayNext]_relayVars => []PairHeld
<1>1. SendInv => PairHeld
  BY DEF SendInv
<1>. QED  BY <1>1, RelayStarts, RelayKeeps, PTL

-----------------------------------------------------------------------------
(* What the receipt of a message says of it, and how often the relay has it: *)
(* a row is thrown back when a commit fails, a receipt never is.             *)

Told(m) == CASE slip[m] = "accepted" -> "done"
             [] slip[m] = "rejected" -> "failed"
             [] OTHER -> IF mirror[m] = "none" THEN "none" ELSE "open"

Owner == INSTANCE OwnerActions WITH
    Actions <- Mirrored,
    effects <- [m \in Mirrored |-> Cardinality(PlacesOf(m))],
    verdict <- [m \in Mirrored |-> Told(m)]

LEMMA PlacesAre ==
    ASSUME NEW m
    PROVE  /\ PlacesOf(m) = {} => Cardinality(PlacesOf(m)) = 0
           /\ \A i : PlacesOf(m) = {i} => Cardinality(PlacesOf(m)) = 1
  BY FS_EmptySet, FS_Singleton

LEMMA OwnerAsks ==
    ASSUME RelayInit
    PROVE  Owner!ActionsInit
<1>1. \A m \in Mirrored : Told(m) = "none"
  BY DEF RelayInit, Told
<1>2. \A m \in Mirrored : PlacesOf(m) = {}
  BY DEF RelayInit, PlacesOf
<1>3. \A m \in Mirrored : Cardinality(PlacesOf(m)) = 0
  BY <1>2, PlacesAre
<1>. QED  BY <1>1, <1>3 DEF Owner!ActionsInit

\* Neither rows nor receipts change, nor what the relay has of the messages.
LEMMA OwnerIsUnaware ==
    ASSUME UNCHANGED <<mirror, slip>>, \A m \in Mirrored : PlacesOf(m)' = PlacesOf(m)
    PROVE  UNCHANGED Owner!actionVars
<1>1. \A m \in Mirrored : Told(m)' = Told(m) /\ Cardinality(PlacesOf(m))' = Cardinality(PlacesOf(m))
  BY DEF Told
<1>. QED  BY <1>1 DEF Owner!actionVars

\* The row or the receipt of one message goes on, and tells its owner the truth.
LEMMA OwnerHears ==
    ASSUME SendInv, relay' = relay, NEW m \in Mirrored,
           \A n \in Mirrored \ {m} : mirror'[n] = mirror[n] /\ slip'[n] = slip[n],
           \/ Told(m)' = Told(m)
           \/ Told(m) = "none" /\ Told(m)' = "open"
           \/ Told(m) = "open" /\ Told(m)' = "done" /\ Carried(m)
           \/ Told(m) = "open" /\ Told(m)' = "failed" /\ Uncarried(m)
    PROVE  Owner!AskOrReport
<1>1. \A n \in Mirrored : Cardinality(PlacesOf(n))' = Cardinality(PlacesOf(n))
  BY DEF PlacesOf
<1>2. \A n \in Mirrored \ {m} : Told(n)' = Told(n)
  BY DEF Told
<1>3. /\ Carried(m) => Cardinality(PlacesOf(m)) = 1
      /\ Uncarried(m) => Cardinality(PlacesOf(m)) = 0
  BY PlacesAre DEF Carried, Uncarried
<1>4. /\ Told(m)' = "done" /\ Told(m) = "open" /\ Carried(m) => Owner!MayReport(m, Told(m)')
      /\ Told(m)' = "failed" /\ Told(m) = "open" /\ Uncarried(m) => Owner!MayReport(m, Told(m)')
  BY <1>3 DEF Owner!MayReport
<1>5. \/ Told(m)' = Told(m)
      \/ Told(m) = "none" /\ Told(m)' = "open"
      \/ Owner!MayReport(m, Told(m)')
  BY <1>4
<1>. QED  BY <1>1, <1>2, <1>5 DEF Owner!AskOrReport

\* The relay takes up a message whose row is in doubt.
LEMMA OwnerIsServed ==
    ASSUME SendInv, UNCHANGED <<mirror, slip>>, NEW m \in Mirrored, PlacesOf(m) = {},
           mirror[m] \in Doubt, slip[m] \notin Settled, relay' = Append(relay, m)
    PROVE  Owner!TakeEffect(m)
<1>1. \A n : PlacesOf(n)' = PlacesOf(n) \cup (IF m = n THEN {Len(relay) + 1} ELSE {})
  BY Appended DEF SendInv
<1>2. PlacesOf(m)' = {Len(relay) + 1} /\ \A n \in Mirrored \ {m} : PlacesOf(n)' = PlacesOf(n)
  BY <1>1
<1>3. PICK places : places = PlacesOf(m)' /\ Cardinality(places) = 1
  BY <1>2, FS_Singleton
<1>4. /\ Cardinality(PlacesOf(m)) = 0 /\ Cardinality(PlacesOf(m))' = 1
      /\ \A n \in Mirrored \ {m} : Cardinality(PlacesOf(n))' = Cardinality(PlacesOf(n))
  BY <1>2, <1>3, PlacesAre
<1>5. Told(m) = "open" /\ \A n \in Mirrored : Told(n)' = Told(n)
  BY DEF Told, Doubt, Settled
<1>. QED  BY <1>4, <1>5 DEF Owner!TakeEffect

\* Steps that neither queue nor settle a message, and are no send.
LEMMA ReadersLeave ==
    ASSUME NEW l, Observe(l) \/ PollRead(l) \/ PollIngest(l) \/ PollFails(l)
    PROVE  UNCHANGED <<relay, mirror, slip>>
  BY DEF Observe, PollRead, PollIngest, PollFails

LEMMA DispatchLeaves ==
    ASSUME NEW m, Dispatch(m)
    PROVE  UNCHANGED <<relay, mirror, slip>>
  BY DEF Dispatch

LEMMA UnawareSteps ==
    ASSUME \/ \E m \in Mirrored : Dispatch(m)
           \/ \E l \in Listeners : Observe(l) \/ PollRead(l) \/ PollIngest(l) \/ PollFails(l)
           \/ DispatcherCrash
           \/ UNCHANGED relayVars
    PROVE  UNCHANGED Owner!actionVars
<1>1. UNCHANGED <<relay, mirror, slip>>
  BY ReadersLeave, DispatchLeaves DEF DispatcherCrash, relayVars
<1>. QED  BY <1>1, OwnerIsUnaware DEF PlacesOf

\* The row of one message changes: to its owner it is asked for, or nothing new.
LEMMA RowHeard ==
    ASSUME SendInv, UNCHANGED <<relay, slip>>, NEW m \in Mirrored,
           NEW s \in {"pending", "blocked", "prepared", "unknown", "accepted", "rejected"},
           Marks(m, s), mirror[m] # "none" \/ s = "pending"
    PROVE  Owner!AskOrReport
<1>1. mirror'[m] = s /\ \A n \in Mirrored \ {m} : mirror'[n] = mirror[n]
  BY MarkIs DEF SendInv, Slips
<1>2. mirror[m] = "none" => slip[m] = "none"
  BY DEF SendInv, DeedsTrue, DeedOf
<1>3. Told(m)' = Told(m) \/ (Told(m) = "none" /\ Told(m)' = "open")
  BY <1>1, <1>2 DEF Told
<1>. QED  BY <1>1, <1>3, OwnerHears

\* The dispatcher writes the row of the message it works on.
LEMMA DispatcherMarks ==
    ASSUME SendInv, Block \/ Prepare \/ RefuseStale \/ UpdateMirror \/ SendAborts \/ ReleaseConversation
    PROVE  [Owner!ActionsNext]_(Owner!actionVars)
<1>1. sending.at \in Stages
  BY DEF Block, Prepare, RefuseStale, UpdateMirror, SendAborts, ReleaseConversation, Stages
<1>2. PICK m \in Mirrored : m = sending.msg /\ Follows(m) /\ DeedOf(m)
  BY <1>1, AtWork
<1>3. mirror[m] # "none"
  BY <1>1, <1>2 DEF Follows, DeedOf, Thrown, Settled, Slips, Stages
<1>4. UNCHANGED <<relay, slip>>
  BY DEF Block, Prepare, RefuseStale, UpdateMirror, SendAborts, ReleaseConversation
<1>5. CASE Block \/ Prepare \/ RefuseStale \/ SendAborts
  <2>1. \E s \in {"blocked", "prepared", "unknown"} : Marks(m, s)
    BY <1>2, <1>5 DEF Block, Prepare, RefuseStale, SendAborts
  <2>. QED  BY <1>3, <1>4, <2>1, RowHeard DEF Owner!ActionsNext
<1>6. CASE UpdateMirror
  <2>1. \E s \in {"accepted", "rejected", "unknown"} : Marks(m, s)
    BY <1>2, <1>6 DEF UpdateMirror
  <2>. QED  BY <1>3, <1>4, <2>1, RowHeard DEF Owner!ActionsNext
<1>7. CASE ReleaseConversation
  <2>1. UNCHANGED mirror \/ \E s \in {"blocked", "unknown"} : Marks(m, s)
    BY <1>2, <1>7 DEF ReleaseConversation
  <2>. QED  BY <1>3, <1>4, <2>1, RowHeard, OwnerIsUnaware DEF PlacesOf, Owner!ActionsNext
<1>. QED  BY <1>5, <1>6, <1>7

\* The receipt is opened before the send and told its outcome after it.
LEMMA ReceiptHeard ==
    ASSUME SendInv, TakeReceipt \/ BookSend
    PROVE  [Owner!ActionsNext]_(Owner!actionVars)
<1>1. sending.at \in {"prepared", "answered"} /\ sending.at \in Stages
  BY DEF TakeReceipt, BookSend, Stages
<1>2. PICK m \in Mirrored : m = sending.msg /\ Follows(m) /\ DeedOf(m)
  BY <1>1, AtWork
<1>3. UNCHANGED <<relay, mirror>>
  BY DEF TakeReceipt, BookSend
<1>4. CASE slip' = slip
  BY <1>3, <1>4, OwnerIsUnaware DEF PlacesOf
<1>5. CASE slip' # slip
  <2>1. mirror[m] = "prepared" /\ slip[m] \in {"none", "prepared"}
    BY <1>1, <1>2, <1>5 DEF Follows, TakeReceipt, BookSend, Thrown, Settled
  <2>2. PICK s \in Slips : /\ slip' = [slip EXCEPT ![m] = s]
                           /\ s = "rejected" => Uncarried(m)
                           /\ s = "accepted" => Carried(m)
    <3>1. CASE TakeReceipt
      BY <1>2, <1>5, <3>1 DEF TakeReceipt, Slips
    <3>2. CASE BookSend
      BY <1>2, <3>2 DEF BookSend, Follows, Slips
    <3>. QED  BY <3>1, <3>2
  <2>3. slip'[m] = s /\ \A n \in Mirrored \ {m} : slip'[n] = slip[n]
    BY <2>2 DEF SendInv, Typed
  <2>4. Told(m) = "open" /\ Told(m)' = (IF s = "rejected" THEN "failed" ELSE IF s = "accepted" THEN "done" ELSE "open")
    BY <1>3, <2>1, <2>3 DEF Told
  <2>. QED  BY <1>3, <2>2, <2>3, <2>4, OwnerHears DEF Owner!ActionsNext
<1>. QED  BY <1>4, <1>5

LEMMA SendsAre ==
    ASSUME SendInv, NEW m \in Mirrored,
           (Send /\ sending.msg = m) \/ CarriedLate(m)
    PROVE  [Owner!ActionsNext]_(Owner!actionVars)
<1>1. UNCHANGED <<mirror, slip>> /\ (relay' = relay \/ relay' = Append(relay, m))
  BY DEF Send, CarriedLate
<1>2. PlacesOf(m) = {} /\ mirror[m] \in Doubt /\ slip[m] \notin Settled
  <2>1. CASE Send /\ sending.msg = m
    <3>1. Follows(m)
      BY <2>1, AtWork DEF Send, Stages
    <3>. QED  BY <2>1, <3>1 DEF Send, Follows, Uncarried, Doubt, Settled
  <2>2. CASE CarriedLate(m)
    <3>1. m \in late /\ DeedOf(m) /\ slip[m] \in Slips
      BY <2>2 DEF CarriedLate, SendInv, Typed, DeedsTrue
    <3>. QED  BY <3>1 DEF DeedOf, RowFollows, Thrown, Settled, Uncarried, Carried, Slips, Doubt
  <2>. QED  BY <2>1, <2>2
<1>3. CASE relay' = relay
  BY <1>1, <1>3, OwnerIsUnaware DEF PlacesOf
<1>4. CASE relay' = Append(relay, m)
  BY <1>1, <1>2, <1>4, OwnerIsServed DEF Owner!ActionsNext
<1>. QED  BY <1>1, <1>3, <1>4

\* Rows queued with the turn, and settled later from the receipt.
LEMMA RowsAreQueued ==
    ASSUME SendInv, NEW m \in Mirrored, EnqueueCommitted(m) \/ ReconcileMirror(m)
    PROVE  Owner!AskOrReport
<1>1. CASE EnqueueCommitted(m)
  <2>1. UNCHANGED <<relay, slip>> /\ Marks(m, "pending") /\ mirror[m] = "none"
    BY <1>1 DEF EnqueueCommitted
  <2>. QED  BY <2>1, RowHeard
<1>2. CASE ReconcileMirror(m)
  <2>1. /\ UNCHANGED <<relay, slip>> /\ mirror[m] # "none"
        /\ \E s \in {"accepted", "rejected"} : Marks(m, s)
    BY <1>2 DEF ReconcileMirror
  <2>. QED  BY <2>1, RowHeard
<1>. QED  BY <1>1, <1>2

LEMMA NativeUnaware ==
    ASSUME Distinct, SendInv, NEW e \in Native, PostNative(e)
    PROVE  UNCHANGED Owner!actionVars
<1>1. relay' = Append(relay, e) /\ UNCHANGED <<mirror, slip>>
  BY DEF PostNative
<1>2. \A m \in Mirrored : PlacesOf(m)' = PlacesOf(m)
  BY <1>1, Appended DEF Distinct, SendInv
<1>. QED  BY <1>1, <1>2, OwnerIsUnaware

LEMMA MirrorPromises ==
    ASSUME Distinct, SendInv, [RelayNext]_relayVars
    PROVE  [Owner!ActionsNext]_(Owner!actionVars)
<1>1. ASSUME DispatchNext
      PROVE  [Owner!ActionsNext]_(Owner!actionVars)
  <2>1. Send => sending.msg \in Mirrored
    BY SendingIs DEF Send, Stages, SendInv
  <2>3. ASSUME NEW m \in Mirrored, EnqueueCommitted(m) \/ ReconcileMirror(m)
        PROVE  Owner!ActionsNext
    BY <2>3, RowsAreQueued DEF Owner!ActionsNext
  <2>. QED  BY <1>1, <2>1, <2>3, ReceiptHeard, SendsAre, DispatcherMarks, UnawareSteps DEF DispatchNext
<1>2. ASSUME NEW l \in Listeners, PollRead(l) \/ PollIngest(l) \/ PollFails(l)
      PROVE  UNCHANGED Owner!actionVars
  BY <1>2, UnawareSteps
<1>. QED  BY <1>1, <1>2, NativeUnaware, UnawareSteps DEF RelayNext

(* Whatever crashes, fails or is not answered, a failed commit included: a   *)
(* message of a turn is on the relay at most once, its receipt says accepted *)
(* only if it is there, and rejected only if it is not and never will be,    *)
(* for good, and its row says no more than the receipt                       *)
(* (buzz/runtime-outbound.ts and buzz/messaging.ts: a receipt before the     *)
(* send, an unanswered send unknown for good): the receipts implement        *)
(* OwnerActions.  The row itself may be thrown back to open.                 *)
THEOREM MirrorKeepsPromise ==
    ASSUME Distinct
    PROVE  RelayInit /\ [][RelayNext]_relayVars => Owner!Promise /\ []\A m \in Mirrored : RowFollows(m)
<1>1. RelayInit => SendInv /\ ReadInv /\ Owner!ActionsInit
  BY RelayStarts, OwnerAsks
<1>2. SendInv /\ ReadInv /\ [RelayNext]_relayVars => SendInv' /\ ReadInv'
  BY RelayKeeps
<1>3. SendInv /\ [RelayNext]_relayVars => [Owner!ActionsNext]_(Owner!actionVars)
  BY MirrorPromises
<1>4. SendInv => \A m \in Mirrored : RowFollows(m)
  BY DEF SendInv, DeedsTrue, DeedOf
<1>. QED  BY <1>1, <1>2, <1>3, <1>4, PTL DEF Owner!Promise
=============================================================================
