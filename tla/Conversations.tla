--------------------------- MODULE Conversations ---------------------------
(* Conversation sessions (runtime/conversation.ts): while a trial is held, an *)
(* owner may answer the messages of some channels, within an allowance of     *)
(* turns and money, and do nothing else.  What the owner does otherwise, its  *)
(* turns (runtime/index.ts) and the actions they asked for (the outboxes),    *)
(* waits until the commissioner closes the session.                           *)
EXTENDS Integers, FiniteSets, Totals

CONSTANTS Talks,       \* bound on jobs, numbered as they arrive
          Sessions,    \* bound on sessions
          TurnsEach,   \* maxTurnsPerOwner
          SpendEach,   \* maxSpendMicrosPerOwner, in units
          TalkHold     \* what a turn reserves

VARIABLES session,   \* [id, active, live: not expired, pinned: owner, host and event unchanged]
          talks,     \* job -> [status, session: it was admitted to, 0 for ordinary work]
          charges,   \* job -> [status, hold] of its reservation
          asked,    \* job -> what its turn asked for: [status, kind]
          owner,     \* [enabled, frozen: an overrun is on the books]
          trialHeld, \* the trial is armed or stopped
          uttered,   \* effects: [job, kind, during: the session active then, or 0]
          excess     \* session -> by how much turns cost more than they reserved

conversationVars == <<session, talks, charges, asked, owner, trialHeld, uttered, excess>>

AllTalks == 1..Talks

ConversationInit ==
    /\ session = [id |-> 0, active |-> FALSE, live |-> FALSE, pinned |-> TRUE]
    /\ talks = [j \in AllTalks |-> [status |-> "none", session |-> 0]]
    /\ charges = [j \in AllTalks |-> [status |-> "none", hold |-> 0]]
    /\ asked = [j \in AllTalks |-> [status |-> "none", kind |-> "say"]]
    /\ owner = [enabled |-> TRUE, frozen |-> FALSE]
    /\ trialHeld = FALSE
    /\ uttered = {}
    /\ excess = [s \in 0..Sessions |-> 0]

Now == IF session.active THEN session.id ELSE 0
Spoken(j) == talks[j].session # 0
RunningTalks == {j \in AllTalks : talks[j].status = "running"}

-----------------------------------------------------------------------------
(* Authority *)

\* conversationClaimPredicate: the job's own session is active, in time, and no freeze.
InSession(j) == Spoken(j) /\ Now = talks[j].session /\ session.live /\ ~owner.frozen

\* authority: nothing the session was opened on has changed.
Authorized(j) == InSession(j) /\ session.pinned

\* validClaim and assertConversationJob: ordinary work only while there is no session.
MayWork(j) == Authorized(j) \/ (~Spoken(j) /\ owner.enabled /\ Now = 0)

\* What the turns of a session cost, known or not.
Bills(s) == [j \in AllTalks |-> IF talks[j].session = s THEN charges[j].hold ELSE 0]
SpentIn(s) == Total(Bills(s))
TurnsIn(s) == Cardinality({j \in AllTalks : talks[j].session = s /\ charges[j].status # "none"})

-----------------------------------------------------------------------------
(* Messages and turns *)

\* A message of a channel becomes a job; during a session only one it covers does, and is
\* admitted to it.  Otherwise it is put on record and wakes nobody.
Arrive(j) ==
    /\ talks[j].status = "none" /\ \A i \in 1..(j - 1) : talks[i].status # "none"
    /\ \/ /\ Now = 0
          /\ talks' = [talks EXCEPT ![j].status = "pending"]
       \/ /\ Now # 0 /\ session.live /\ ~owner.frozen /\ session.pinned
          /\ talks' = [talks EXCEPT ![j] = [status |-> "pending", session |-> Now]]
       \/ /\ Now # 0
          /\ talks' = [talks EXCEPT ![j].status = "unheard"]
    /\ UNCHANGED <<session, charges, asked, owner, trialHeld, uttered, excess>>

ClaimTalk(j) ==
    /\ talks[j].status = "pending" /\ RunningTalks = {}
    /\ InSession(j) \/ (~Spoken(j) /\ Now = 0 /\ owner.enabled)
    /\ talks' = [talks EXCEPT ![j].status = "running"]
    /\ UNCHANGED <<session, charges, asked, owner, trialHeld, uttered, excess>>

ReserveTalk(j) ==
    /\ j \in RunningTalks /\ charges[j].status = "none"
    /\ MayWork(j)
    /\ Spoken(j) => TurnsIn(Now) < TurnsEach /\ SpentIn(Now) + TalkHold <= SpendEach
    /\ charges' = [charges EXCEPT ![j] = [status |-> "reserved", hold |-> TalkHold]]
    /\ UNCHANGED <<session, talks, asked, owner, trialHeld, uttered, excess>>

\* A conversation may only remember and speak.
CompleteTalk(j, kind) ==
    /\ j \in RunningTalks /\ charges[j].status = "reserved"
    /\ MayWork(j)
    /\ kind \in IF Spoken(j) THEN {"nothing", "say"} ELSE {"nothing", "say", "play"}
    /\ talks' = [talks EXCEPT ![j].status = "completed"]
    /\ \E actual \in 0..TalkHold : charges' = [charges EXCEPT ![j] = [status |-> "settled", hold |-> actual]]
    /\ asked' = IF kind = "nothing" THEN asked ELSE [asked EXCEPT ![j] = [status |-> "pending", kind |-> kind]]
    /\ UNCHANGED <<session, owner, trialHeld, uttered, excess>>

\* A turn fails, or its lease runs out; a cost above the reservation freezes the owner.
FailTalk(j) ==
    /\ j \in RunningTalks
    /\ talks' = [talks EXCEPT ![j].status = "dead"]
    /\ \/ charges[j].status = "none" /\ UNCHANGED <<charges, owner, excess>>
       \/ /\ charges[j].status = "reserved"
          /\ \/ charges' = [charges EXCEPT ![j].status = "uncertain"] /\ UNCHANGED <<owner, excess>>
             \/ /\ charges' = [charges EXCEPT ![j] = [status |-> "settled", hold |-> TalkHold + 1]]
                /\ owner' = [enabled |-> FALSE, frozen |-> TRUE]
                /\ excess' = [excess EXCEPT ![talks[j].session] = @ + 1]
    /\ UNCHANGED <<session, asked, trialHeld, uttered>>

-----------------------------------------------------------------------------
(* Actions: a message to a channel ("say") or one of football ("play") *)

\* conversationFranchisePredicate and the football outbox's claim.
Dispatchable(j) == \/ ~Spoken(j) /\ Now = 0
                   \/ asked[j].kind = "say" /\ InSession(j)

TakeOrder(j) ==
    /\ asked[j].status = "pending"
    /\ Dispatchable(j)
    /\ asked' = [asked EXCEPT ![j].status = "running"]
    /\ UNCHANGED <<session, talks, charges, owner, trialHeld, uttered, excess>>

\* execute asks again, and then acts outside of any transaction.
CheckOrder(j) ==
    /\ asked[j].status = "running"
    /\ asked' = [asked EXCEPT ![j].status = IF MayWork(j) THEN "checked"
                                              ELSE IF asked[j].kind = "say" THEN "held" ELSE "dead"]
    /\ UNCHANGED <<session, talks, charges, owner, trialHeld, uttered, excess>>

ActOnOrder(j) ==
    /\ asked[j].status = "checked"
    /\ uttered' = uttered \cup {[job |-> j, kind |-> asked[j].kind, during |-> Now]}
    /\ asked' = [asked EXCEPT ![j].status = "delivered"]
    /\ UNCHANGED <<session, talks, charges, owner, trialHeld, excess>>

-----------------------------------------------------------------------------
(* The commissioner *)

Quiet == RunningTalks = {} /\ \A j \in AllTalks : asked[j].status \notin {"running", "checked"}

OpenSession ==
    /\ Now = 0 /\ session.id < Sessions
    /\ trialHeld /\ ~owner.enabled
    /\ Quiet
    /\ session' = [id |-> session.id + 1, active |-> TRUE, live |-> TRUE, pinned |-> TRUE]
    /\ UNCHANGED <<talks, charges, asked, owner, trialHeld, uttered, excess>>

SessionExpires ==
    /\ Now # 0 /\ session.live
    /\ session' = [session EXCEPT !.live = FALSE]
    /\ UNCHANGED <<talks, charges, asked, owner, trialHeld, uttered, excess>>

\* The owner's model or manifest, or the league's host, is replaced.
Drifts ==
    /\ Now # 0 /\ session.pinned
    /\ session' = [session EXCEPT !.pinned = FALSE]
    /\ UNCHANGED <<talks, charges, asked, owner, trialHeld, uttered, excess>>

\* What waits is kept, and nobody is switched on again.
CloseSession ==
    /\ Now # 0
    /\ Quiet
    /\ session' = [session EXCEPT !.active = FALSE]
    /\ owner' = [owner EXCEPT !.enabled = FALSE]
    /\ UNCHANGED <<talks, charges, asked, trialHeld, uttered, excess>>

\* The trial is held with its owners off, and goes on, if no session is open, with them on.
HoldTrial ==
    /\ ~trialHeld
    /\ trialHeld' = TRUE
    /\ owner' = [owner EXCEPT !.enabled = FALSE]
    /\ UNCHANGED <<session, talks, charges, asked, uttered, excess>>

ResumeTrial ==
    /\ trialHeld /\ Now = 0
    /\ trialHeld' = FALSE
    /\ owner' = [owner EXCEPT !.enabled = TRUE]
    /\ UNCHANGED <<session, talks, charges, asked, uttered, excess>>

ConversationNext ==
    \/ \E j \in AllTalks : \/ Arrive(j) \/ ClaimTalk(j) \/ ReserveTalk(j) \/ FailTalk(j)
                           \/ \E kind \in {"nothing", "say", "play"} : CompleteTalk(j, kind)
                           \/ TakeOrder(j) \/ CheckOrder(j) \/ ActOnOrder(j)
    \/ OpenSession \/ SessionExpires \/ Drifts \/ CloseSession \/ HoldTrial \/ ResumeTrial

-----------------------------------------------------------------------------
\* A session is only talk: while it is open nothing takes effect but what its own turns said,
\* and what they said never goes out afterwards.
OnlyTalk == \A u \in uttered : /\ talks[u.job].session = u.during
                               /\ u.during # 0 => u.kind = "say"

\* Turns and money of a session stay within what it allows, overruns aside.
TalkIsRationed == \A s \in 1..Sessions : TurnsIn(s) <= TurnsEach /\ SpentIn(s) <= SpendEach + excess[s]
=============================================================================
