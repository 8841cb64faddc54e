----------------------------- MODULE OwnerStage -----------------------------
(* The onboarding stage of one of the league's owners (runtime/owner-stage.ts, *)
(* owner-followup.ts, owner-stage-disposition.ts) with the paid searches of     *)
(* its turns (research/firecrawl.ts): what is left from before is put aside,    *)
(* turns and costs are rationed, one follow-up appointment is owed, the         *)
(* commissioner reviews the owner's evidence and closes the stage on it.        *)
(* Every owner of the league passes through the same stage.                     *)
EXTENDS Integers, Sequences, FiniteSets, Totals

CONSTANTS Count,       \* bound on jobs, which are numbered as they are created
          Cap,         \* maxSpendMicros, in units
          TurnHold,    \* what a turn reserves
          SearchHold,  \* what a paid search reserves
          FirstLimit,  \* turns the configuration allows
          LastLimit,   \* bound on what amendments may raise it to
          Earlier,     \* jobs that may be created before the stage
          Searchers,   \* jobs whose turns may search
          Doubtful,    \* jobs whose calls may be lost
          Kinds,       \* what jobs are woken for
          Acts         \* what turns do

VARIABLES stage,     \* [status, limit of turns]
          work,      \* job -> [status, kind, staged: it had a turn of the stage, note]
          costs,     \* job -> reservation of its turn: [status, hold, reviewed]
          searches,  \* job -> its paid search: [status, hold]
          intents,   \* job -> message its turn asked for: [status, says]
          sent,      \* messages that may have gone out: [job, during: status of the stage]
          authored,  \* follow-ups in the order they were scheduled: [job, retest]
          pardon,    \* operator receipts: [retest: completed, again: dead follow-up it forgives]
          disposed,  \* the unconfirmed introduction that may be replaced, or 0
          review,    \* evidence the owner was reviewed on
          beyond     \* by how much turns cost more than they reserved

stageVars == <<stage, work, costs, searches, intents, sent,
               authored, pardon, disposed, review, beyond>>

Jobs == 1..Count
NoReview == [turns |-> 0]

StageInit ==
    /\ stage = [status |-> "none", limit |-> FirstLimit]
    /\ work = [j \in Jobs |-> [status |-> "none", kind |-> "turn", staged |-> FALSE, note |-> FALSE]]
    /\ costs = [j \in Jobs |-> [status |-> "none", hold |-> 0, reviewed |-> FALSE]]
    /\ searches = [j \in Jobs |-> [status |-> "none", hold |-> 0]]
    /\ intents = [j \in Jobs |-> [status |-> "none", says |-> "reply"]]
    /\ sent = {}
    /\ authored = <<>>
    /\ pardon = [retest |-> 0, again |-> 0]
    /\ disposed = 0
    /\ review = NoReview
    /\ beyond = 0

Open == stage.status = "active"
Reviewed == review # NoReview
Runs(j) == work[j].status = "running"
Running == {j \in Jobs : Runs(j)}
Staged == {j \in Jobs : work[j].staged}
Fresh(j) == work[j].status = "none" /\ \A i \in 1..(j - 1) : work[i].status # "none"

-----------------------------------------------------------------------------
(* What the stage counts *)

\* usage: whatever is not settled or released counts in full.
Ration == [j \in Jobs |-> IF work[j].staged THEN costs[j].hold + searches[j].hold ELSE 0]
Committed == Total(Ration)
Unreviewed == {j \in Staged : (costs[j].status = "uncertain" /\ ~costs[j].reviewed)
                              \/ searches[j].status = "unknown"}

\* pending: what is under way, and what the stage's own turns left held.
Outstanding == {j \in Jobs \ {disposed} : \/ intents[j].status \in {"pending", "running"}
                                          \/ intents[j].status = "held" /\ work[j].staged}

Rationed(amount) ==
    /\ ~Reviewed
    /\ Unreviewed = {}
    /\ Committed + amount <= Cap

\* Mutant: an owner already reviewed may go on.
MayTurnReviewed == /\ Outstanding = {} /\ Unreviewed = {} /\ Committed + TurnHold <= Cap
                   /\ Cardinality(Staged) < stage.limit

MayTurn == Outstanding = {} /\ Cardinality(Staged) < stage.limit /\ Rationed(TurnHold)

-----------------------------------------------------------------------------
(* Evidence *)

Scheduled == {authored[i].job : i \in DOMAIN authored}
LastFollowup == IF authored = <<>> THEN 0 ELSE authored[Len(authored)].job
Designated == IF disposed = 0 THEN "intro" ELSE "again"

Introduced == {j \in Staged : intents[j].status = "delivered" /\ intents[j].says = Designated}

\* followupCompletionEvidence: a retested appointment proves nothing.
FollowedUp == /\ authored # <<>> /\ LastFollowup # pardon.retest
              /\ work[LastFollowup].status = "completed" /\ work[LastFollowup].note

Complete == /\ \E j \in Staged : work[j].status = "completed"
            /\ Introduced # {}
            /\ FollowedUp
            /\ Unreviewed = {} /\ Outstanding = {}

Researched == {j \in Staged : searches[j].status = "completed"}

\* What the hash of the evidence is taken of.
Evidence == [turns |-> Cardinality(Staged), spent |-> Committed,
             done |-> {j \in Staged : work[j].status = "completed"},
             intro |-> Introduced, followup |-> LastFollowup,
             unknown |-> {j \in Staged : costs[j].status = "uncertain"}, searched |-> Researched]

-----------------------------------------------------------------------------
(* Jobs of the owner *)

\* Ordinary events, a convention's turns before the stage, and wakeOwner, once.  Bound: one
\* of them waits at a time.
Wake(j, kind) ==
    /\ Fresh(j)
    /\ Open \/ j \in Earlier
    /\ \A i \in Jobs : work[i].status = "pending" => work[i].kind = "followup"
    /\ kind = "meeting" => stage.status = "none"
    /\ kind = "onboarding" => Open /\ \A i \in Jobs : work[i].kind # "onboarding"
    /\ work' = [work EXCEPT ![j].status = "pending", ![j].kind = kind]
    /\ UNCHANGED <<stage, costs, searches, intents, sent, authored, pardon, disposed, review, beyond>>

ClaimJob(j) ==
    /\ work[j].status = "pending" /\ Running = {}
    /\ work' = [work EXCEPT ![j].status = "running"]
    /\ UNCHANGED <<stage, costs, searches, intents, sent, authored, pardon, disposed, review, beyond>>

\* reserveOwnerStageTurn: any turn, whatever woke it, takes of the stage's allowance.
ReserveTurn(j) ==
    /\ Runs(j) /\ costs[j].status = "none"
    /\ Open => MayTurn
    /\ costs' = [costs EXCEPT ![j].status = "reserved", ![j].hold = IF Open THEN TurnHold ELSE 0]
    /\ work' = [work EXCEPT ![j].staged = Open]
    /\ UNCHANGED <<stage, searches, intents, sent, authored, pardon, disposed, review, beyond>>

\* A paid search of a running turn; only one of the owner may be unresolved.
BeginSearch(j) ==
    /\ j \in Searchers /\ Runs(j) /\ costs[j].status = "reserved" /\ searches[j].status = "none"
    /\ \A i \in Jobs : searches[i].status \in {"none", "completed"}
    /\ Open => work[j].staged /\ Rationed(SearchHold)
    /\ searches' = [searches EXCEPT ![j] = [status |-> "dispatched", hold |-> SearchHold]]
    /\ UNCHANGED <<stage, work, costs, intents, sent, authored, pardon, disposed, review, beyond>>

\* The answer settles its own hold even when the turn is over; without credits it is unknown.
EndSearch(j) ==
    /\ searches[j].status = "dispatched"
    /\ \/ \E actual \in 0..SearchHold : searches' = [searches EXCEPT ![j] = [status |-> "completed", hold |-> actual]]
       \/ searches' = [searches EXCEPT ![j].status = "unknown"]
    /\ UNCHANGED <<stage, work, costs, intents, sent, authored, pardon, disposed, review, beyond>>

\* recordOwnerStageSchedule: one follow-up is owed.  A dead or cancelled one may be replaced,
\* a retested one once, and its retest, if it died, once more by a receipt of its own.
MayPlan ==
    LET Retests == SelectSeq(authored, LAMBDA a : a.retest)
        Occupying == {k \in Scheduled : work[k].status \notin {"cancelled", "dead"} /\ k # pardon.retest}
    IN  /\ Occupying = {}
        /\ \/ pardon.retest = 0 \/ Retests = <<>>
           \/ Len(Retests) = 1 /\ pardon.again = Retests[1].job /\ work[pardon.again].status = "dead"

\* The introduction is made once under its own key; a replacement needs its receipt.
MaySay(says) == CASE says = "intro" -> disposed = 0 /\ \A i \in Jobs : intents[i].says # "intro"
                  [] says = "again" -> disposed # 0 /\ \A i \in Jobs : intents[i].says # "again"
                  [] OTHER -> TRUE

\* complete: all of a turn's actions with its settlement, or none of them; a "note" reports
\* on the follow-up the turn was woken for.
CompleteTurn(j, did, says) ==
    LET Cancelled == {k \in Scheduled : "cancel" \in did /\ work[k].status = "pending"}
        Planned == {k \in Jobs : "plan" \in did /\ Fresh(k)}
        Cleared == [k \in Jobs |-> IF k = j THEN [work[k] EXCEPT !.status = "completed",
                                                  !.note = "note" \in did]
                                   ELSE IF k \in Cancelled THEN [work[k] EXCEPT !.status = "cancelled"]
                                   ELSE IF k \in Planned THEN [work[k] EXCEPT !.status = "pending", !.kind = "followup"]
                                   ELSE work[k]]
    IN  /\ Runs(j) /\ costs[j].status = "reserved" /\ searches[j].status # "dispatched"
        /\ did \subseteq IF Open THEN Acts ELSE Acts \cap {"say"}
        /\ Open /\ did # {} => work[j].staged
        /\ "plan" \in did => MayPlan /\ Planned # {}
        /\ "note" \in did => work[j].kind = "followup"
        /\ "say" \in did /\ Open => MaySay(says)
        /\ says # "reply" => "say" \in did /\ Open
        /\ work' = Cleared
        /\ costs' = [costs EXCEPT ![j].status = "settled"]
        /\ intents' = IF "say" \in did THEN [intents EXCEPT ![j] = [status |-> "pending", says |-> says]] ELSE intents
        /\ authored' = IF "plan" \in did
                       THEN Append(authored, [job |-> CHOOSE k \in Planned : TRUE, retest |-> pardon.retest # 0])
                       ELSE authored
        /\ UNCHANGED <<stage, searches, sent, pardon, disposed, review, beyond>>

\* A turn refused its reservation, one whose call failed, and one whose cost nobody knows.
FailTurn(j) ==
    /\ Runs(j)
    /\ work' = [work EXCEPT ![j].status = "dead"]
    /\ \/ costs[j].status = "none" /\ UNCHANGED <<costs, beyond>>
       \/ /\ costs[j].status = "reserved"
          /\ \/ costs' = [costs EXCEPT ![j].status = "settled"] /\ UNCHANGED beyond
             \/ costs' = [costs EXCEPT ![j].status = "released", ![j].hold = 0] /\ UNCHANGED beyond
             \/ /\ j \in Doubtful
                /\ \E over \in {0, 1} : /\ costs' = [costs EXCEPT ![j].status = "uncertain", ![j].hold = @ + over]
                                       /\ beyond' = beyond + over
    /\ UNCHANGED <<stage, searches, intents, sent, authored, pardon, disposed, review>>

\* The provider's books settle what was uncertain.
ReconcileTurn(j) ==
    /\ costs[j].status = "uncertain"
    /\ \E actual \in {0, costs[j].hold} : costs' = [costs EXCEPT ![j].status = "settled", ![j].hold = actual]
    /\ UNCHANGED <<stage, work, searches, intents, sent, authored, pardon, disposed, review, beyond>>

-----------------------------------------------------------------------------
(* Messages: FranchiseOutbox, as far as the stage sees them *)

TakeIntent(j) ==
    /\ intents[j].status = "pending"
    /\ intents' = [intents EXCEPT ![j].status = "running"]
    /\ UNCHANGED <<stage, work, costs, searches, sent, authored, pardon, disposed, review, beyond>>

\* assertOwnerStageAction is asked again: what is not of this stage stays where it is.
SendIntent(j) ==
    /\ intents[j].status = "running"
    /\ \/ /\ Open => work[j].staged
          /\ sent' = sent \cup {[job |-> j, during |-> stage.status]}
          /\ \E outcome \in {"delivered", "held"} : intents' = [intents EXCEPT ![j].status = outcome]
       \/ \E outcome \in {"dead", "held"} : intents' = [intents EXCEPT ![j].status = outcome] /\ UNCHANGED sent
    /\ UNCHANGED <<stage, work, costs, searches, authored, pardon, disposed, review, beyond>>

-----------------------------------------------------------------------------
(* The commissioner *)

\* Nothing may be under way; jobs and intents from before are put aside for good.
Configure ==
    /\ stage.status = "none"
    /\ Running = {} /\ \A j \in Jobs : intents[j].status # "running"
    /\ stage' = [stage EXCEPT !.status = "active"]
    /\ work' = [j \in Jobs |-> IF work[j].status = "pending" THEN [work[j] EXCEPT !.status = "cancelled"] ELSE work[j]]
    /\ intents' = [j \in Jobs |-> IF intents[j].status = "pending" THEN [intents[j] EXCEPT !.status = "held"] ELSE intents[j]]
    /\ UNCHANGED <<costs, searches, sent, authored, pardon, disposed, review, beyond>>

AmendAllowance ==
    /\ Open /\ stage.limit < LastLimit
    /\ stage' = [stage EXCEPT !.limit = @ + 1]
    /\ UNCHANGED <<work, costs, searches, intents, sent, authored, pardon, disposed, review, beyond>>

\* Work may go on, the cost stays held in full.
ReviewCostHold(j) ==
    /\ Open
    /\ costs[j].status = "uncertain" /\ ~costs[j].reviewed /\ work[j].staged /\ work[j].status = "dead"
    /\ costs' = [costs EXCEPT ![j].reviewed = TRUE]
    /\ UNCHANGED <<stage, work, searches, intents, sent, authored, pardon, disposed, review, beyond>>

Quiescent == Open /\ Running = {} /\ ~Reviewed

AuthorizeReplacementIntro(j) ==
    /\ Quiescent /\ disposed = 0
    /\ work[j].staged /\ intents[j].status = "held" /\ intents[j].says = "intro"
    /\ \E s \in sent : s.job = j
    /\ disposed' = j
    /\ UNCHANGED <<stage, work, costs, searches, intents, sent, authored, pardon, review, beyond>>

AuthorizeFollowupRetest(j) ==
    /\ Quiescent /\ pardon.retest = 0
    /\ j = LastFollowup /\ j \in Staged /\ work[j].status = "completed"
    /\ \A k \in Scheduled : work[k].status # "pending"
    /\ pardon' = [pardon EXCEPT !.retest = j]
    /\ UNCHANGED <<stage, work, costs, searches, intents, sent, authored, disposed, review, beyond>>

AuthorizeRetestReplacement(j) ==
    /\ Quiescent /\ pardon.retest # 0 /\ pardon.again = 0
    /\ j \in Staged /\ work[j].status = "dead" /\ costs[j].status = "settled"
    /\ SelectSeq(authored, LAMBDA a : a.retest) = <<[job |-> j, retest |-> TRUE]>>
    /\ \A k \in Scheduled : work[k].status # "pending"
    /\ pardon' = [pardon EXCEPT !.again = j]
    /\ UNCHANGED <<stage, work, costs, searches, intents, sent, authored, disposed, review, beyond>>

ReviewOwner ==
    /\ Quiescent
    /\ Complete
    /\ review' = Evidence
    /\ UNCHANGED <<stage, work, costs, searches, intents, sent, authored, pardon, disposed, beyond>>

\* Only intents of a convention that was stopped before may be left over.
CloseReviewed ==
    /\ Open /\ Running = {} /\ Reviewed
    /\ Complete /\ Researched # {} /\ Evidence = review
    /\ \A j \in Jobs \ {disposed} :
          /\ intents[j].status \notin {"pending", "running"}
          /\ intents[j].status = "held" => work[j].kind = "meeting" /\ ~work[j].staged
    /\ stage' = [stage EXCEPT !.status = "reviewed"]
    /\ work' = [j \in Jobs |-> IF work[j].status = "pending" /\ work[j].kind \in {"onboarding", "followup"}
                               THEN [work[j] EXCEPT !.status = "cancelled"] ELSE work[j]]
    /\ UNCHANGED <<costs, searches, intents, sent, authored, pardon, disposed, review, beyond>>

StageNext ==
    \/ \E j \in Jobs :
          \/ \E kind \in Kinds : Wake(j, kind)
          \/ ClaimJob(j) \/ ReserveTurn(j) \/ BeginSearch(j) \/ EndSearch(j) \/ FailTurn(j) \/ ReconcileTurn(j)
          \/ \E did \in SUBSET Acts, says \in {"intro", "again", "reply"} : CompleteTurn(j, did, says)
          \/ TakeIntent(j) \/ SendIntent(j)
          \/ ReviewCostHold(j) \/ AuthorizeReplacementIntro(j)
          \/ AuthorizeFollowupRetest(j) \/ AuthorizeRetestReplacement(j)
    \/ Configure \/ AmendAllowance \/ ReviewOwner \/ CloseReviewed

-----------------------------------------------------------------------------
\* What is committed in the stage stays within its allowance, except for what a turn cost
\* above its reservation.
WithinAllowance == Committed <= Cap + beyond

\* What a turn of the stage asked for goes out while the stage is open, and nothing older does.
SaidInTheStage == \A s \in sent : (s.during = "active") = work[s.job].staged

\* One follow-up at a time, and as many completed ones as were forgiven and one more; what
\* was reviewed is the end of the owner's work, and a closed stage left nothing open.
ReviewIsFinal ==
    LET In(status) == {k \in Scheduled : work[k].status \in status}
    IN  /\ Cardinality(In({"pending", "running"})) <= 1
        /\ Cardinality(In({"pending", "running", "completed"})) <= IF pardon.retest = 0 THEN 1 ELSE 2
        /\ Reviewed => /\ Cardinality(Staged) = review.turns
                       /\ LastFollowup = review.followup /\ In({"pending", "running"}) = {}
        /\ stage.status = "reviewed" => Reviewed /\ Outstanding \cap Staged = {}
=============================================================================
