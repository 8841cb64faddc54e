----------------------------- MODULE MCOperations -----------------------------
(* The outward operations: football actions to the engines and the rehearsal *)
(* around them, franchise actions and channel messages, the mirrored private *)
(* conversation, posts on X, paid services, sessions of talk and the         *)
(* onboarding stage.  A behaviour plays one scene, chosen at the start;      *)
(* scenes without football use the variables of the football ones for their  *)
(* own.                                                                      *)
EXTENDS Integers, Sequences, FiniteSets, TLC

CONSTANTS Scenes, Outlive, Rescoped, ann, bob, j1, j2, w1, w2

VARIABLES scene,
          host, switches, epochs, jobs, rows, enabled, holder,
          journal, lock, wire, acted, disp, faults, retired,
          polls, ballots, decided, anchors, returns, approvals

playVars == <<host, switches, epochs, jobs, rows, enabled, holder,
              journal, lock, wire, acted, disp, faults, retired>>
meetingVars == <<polls, ballots, decided, anchors, returns, approvals>>
vars == <<scene, playVars, meetingVars>>

Either == {<<"mfl", "prod">>, <<"custom", "own">>}

\* Two dispatchers over a trade with bob and a draft pick of ann, on MFL; bob may sell, and the
\* operator may write the deployment file anew for it.
Writes(Sold) == INSTANCE Rehearsal WITH
    Owners <- {ann, bob}, Jobs <- {j1, j2}, OwnerOf <- (j1 :> ann @@ j2 :> ann),
    Command <- (j1 :> "trade" @@ j2 :> "draft"), Epochs <- {}, Selectable <- {}, Sellable <- Sold, Switchable <- {},
    MaxSwitches <- 0, Reissued <- Rescoped,
    Workers <- {w1, w2}, Tries <- 2,
    Affects <- (j1 :> {ann, bob} @@ j2 :> {ann, bob}), OutliveCheck <- Outlive,
    MaxClaims <- IF Sold = {} THEN 2 ELSE 3, MaxFaults <- IF Sold = {} THEN 2 ELSE 1

\* An action of the own engine and a draft queue, retried by two dispatchers around a change of host.
Commands == INSTANCE Rehearsal WITH
    Owners <- {ann}, Jobs <- {j1, j2}, OwnerOf <- (j1 :> ann @@ j2 :> ann),
    Command <- (j1 :> "league" @@ j2 :> "queue"), Epochs <- {}, Selectable <- Either,
    Sellable <- {ann}, Switchable <- {ann}, MaxSwitches <- 1, Reissued <- TRUE,
    Workers <- {w1, w2}, Tries <- 2,
    Affects <- (j1 :> {ann} @@ j2 :> {ann}), OutliveCheck <- Outlive, MaxClaims <- 3, MaxFaults <- 2

\* One epoch with a pick of the trial and a turn that may fall before, into or after it.
Trial == INSTANCE Rehearsal WITH
    Owners <- {ann}, Jobs <- {j1, j2}, OwnerOf <- (j1 :> ann @@ j2 :> ann),
    Command <- (j1 :> "draft" @@ j2 :> "draft"), Epochs <- {1}, Selectable <- {}, Sellable <- {}, Switchable <- {ann},
    MaxSwitches <- 2, Reissued <- TRUE,
    Workers <- {"w"}, Tries <- 2,
    Affects <- (j1 :> {ann} @@ j2 :> {ann}), OutliveCheck <- Outlive, MaxClaims <- 2, MaxFaults <- 1

\* Two meetings around up to two epochs or changes of host, or around one and a sale of the franchise.
Return(Trials, Sold) == INSTANCE MflReturn WITH
    Owners <- {ann}, Jobs <- {}, OwnerOf <- <<>>, Command <- <<>>, Epochs <- Trials,
    Selectable <- {<<"mfl", "prod">>}, Sellable <- Sold, Switchable <- {ann}, MaxSwitches <- 1, Reissued <- TRUE,
    Workers <- {}, Tries <- 2, Affects <- <<>>, OutliveCheck <- Outlive, MaxClaims <- 0, MaxFaults <- 0,
    Threshold <- 1, MaxPolls <- 2

\* Two channel messages in the same words and two clerks, or a message and an action of the league.
Franchise(Words) == INSTANCE FranchiseOutbox WITH
    Orders <- {j1, j2}, Said <- Words, Clerks <- {w1, w2}, OrderTries <- 2, Local <- "local",
    MaxTakes <- 3, MaxSlips <- 2,
    orders <- rows, receipts <- journal, door <- lock, clerks <- disp, underway <- wire,
    said <- acted, standing <- enabled, lapses <- faults
Echoing == j1 :> "words" @@ j2 :> "words"
Mixed == j1 :> "words" @@ j2 :> "local"

\* Two mirrored messages and an event of another, polled by both owners or one; the commit after a
\* send may fail, and then the receipt is what counts.
Relay(Torn, Ears) == INSTANCE BuzzRelay WITH
    Mirrored <- {j1, j2}, Native <- {"event"}, Listeners <- Ears, PageSize <- 3,
    CommitFails <- Torn, MaxFailures <- 2,
    relay <- polls, late <- wire, mirror <- rows, slip <- journal, sending <- disp, locked <- lock,
    archive <- ballots, held <- anchors, woken <- acted, since <- holder, page <- host, failures <- faults

\* A draft that is revised after its batch was approved, or a batch of two drafts; two publishers.
Desk(Batches) == INSTANCE Publication WITH
    Drafts <- {1, 2}, MaxVersions <- 2, Contents <- Batches, Publishers <- {w1, w2},
    OutliveCheck <- Outlive, MaxFaults <- 1,
    version <- holder, batches <- journal, posts <- rows, lapsed <- retired, press <- disp,
    wire <- wire, posted <- acted, told <- jobs, slips <- faults
Revised == {<<1, 0>>, <<2, 0>>}
Double == {<<1, 1>>}

\* Two services and two turns of one owner, paid from one wallet.
Services == INSTANCE Expenses WITH
    Requests <- {j1, j2}, Budget <- 4, Amounts <- {1, 3}, Invoices <- {"first", "second"}, MaxTurns <- 2,
    requests <- jobs, expenses <- rows, wallet <- holder, turns <- host, overruns <- faults

\* Two messages around two sessions of talk in a held trial.
Talk == INSTANCE Conversations WITH
    Talks <- 2, Sessions <- 2, TurnsEach <- 1, SpendEach <- 2, TalkHold <- 2,
    session <- host, talks <- jobs, charges <- rows, asked <- disp, owner <- enabled,
    trialHeld <- holder, uttered <- acted, excess <- faults

\* An onboarding stage after a convention, with an introduction, a follow-up and money running short.
Onboarding(Wakes) == INSTANCE OwnerStage WITH
    Count <- 3, Cap <- 3, TurnHold <- 1, SearchHold <- 1, FirstLimit <- 2, LastLimit <- 3,
    Earlier <- {1}, Searchers <- {1}, Doubtful <- {1}, Kinds <- Wakes, Acts <- {"note", "say", "plan"},
    stage <- host, work <- jobs, costs <- rows, searches <- journal, intents <- disp, sent <- acted,
    authored <- wire, pardon <- lock, disposed <- holder, review <- enabled, beyond <- faults
Interrupted == {"turn", "meeting"}
Woken == {"meeting", "onboarding"}

\* Follow-ups that fail, are retested and replaced.
Retesting == INSTANCE OwnerStage WITH
    Count <- 6, Cap <- 6, TurnHold <- 1, SearchHold <- 1, FirstLimit <- 6, LastLimit <- 6,
    Earlier <- {}, Searchers <- {}, Doubtful <- {}, Kinds <- {"turn"}, Acts <- {"note", "plan", "cancel"},
    stage <- host, work <- jobs, costs <- rows, searches <- journal, intents <- disp, sent <- acted,
    authored <- wire, pardon <- lock, disposed <- holder, review <- enabled, beyond <- faults

Prod == [kind |-> "mfl", league |-> "prod", version |-> 1]
Own == [kind |-> "custom", league |-> "own", version |-> 0]

NoMeeting == polls = 0 /\ ballots = 0 /\ decided = 0 /\ anchors = 0 /\ returns = 0 /\ approvals = 0
NoLeague == switches = 0 /\ epochs = 0 /\ retired = 0

Init ==
    /\ scene \in Scenes
    /\ \/ scene = "writes" /\ Writes({})!TrialInit(Prod) /\ NoMeeting /\ lock = 0
       \/ scene = "sold" /\ Writes({bob})!TrialInit(Prod) /\ NoMeeting /\ lock = 0
       \/ scene = "commands" /\ (\E first \in {Prod, Own} : Commands!TrialInit(first)) /\ NoMeeting /\ lock = 0
       \/ scene = "trial" /\ Trial!TrialInit(Prod) /\ NoMeeting /\ lock = 0
       \/ scene = "return" /\ Return({1, 2}, {})!TrialInit(Prod) /\ Return({1, 2}, {})!MeetingInit /\ lock = 0
       \/ scene = "bought" /\ Return({1}, {ann})!TrialInit(Prod) /\ Return({1}, {ann})!MeetingInit /\ lock = 0
       \/ scene = "echo" /\ Franchise(Echoing)!FranchiseInit
                         /\ NoMeeting /\ NoLeague /\ host = 0 /\ jobs = 0 /\ holder = 0
       \/ scene = "mixed" /\ Franchise(Mixed)!FranchiseInit
                          /\ NoMeeting /\ NoLeague /\ host = 0 /\ jobs = 0 /\ holder = 0
       \/ scene = "relay" /\ Relay(FALSE, {ann, bob})!RelayInit /\ NoLeague /\ jobs = 0 /\ enabled = 0
                          /\ decided = 0 /\ returns = 0 /\ approvals = 0
       \/ scene = "torn" /\ Relay(TRUE, {ann})!RelayInit /\ NoLeague /\ jobs = 0 /\ enabled = 0
                         /\ decided = 0 /\ returns = 0 /\ approvals = 0
       \/ scene = "desk" /\ Desk(Revised)!PublicationInit
                         /\ NoMeeting /\ switches = 0 /\ epochs = 0 /\ host = 0 /\ enabled = 0 /\ lock = 0
       \/ scene = "batch" /\ Desk(Double)!PublicationInit
                          /\ NoMeeting /\ switches = 0 /\ epochs = 0 /\ host = 0 /\ enabled = 0 /\ lock = 0
       \/ scene = "services" /\ Services!ExpensesInit /\ NoMeeting /\ NoLeague
                             /\ enabled = 0 /\ journal = 0 /\ lock = 0 /\ wire = 0 /\ acted = 0 /\ disp = 0
       \/ scene = "talk" /\ Talk!ConversationInit /\ NoMeeting /\ NoLeague
                         /\ journal = 0 /\ lock = 0 /\ wire = 0
       \/ scene = "onboarding" /\ Onboarding(Interrupted)!StageInit /\ NoMeeting /\ NoLeague
       \/ scene = "welcome" /\ Onboarding(Woken)!StageInit /\ NoMeeting /\ NoLeague
       \/ scene = "retesting" /\ Retesting!StageInit /\ NoMeeting /\ NoLeague

In(s) == scene = s /\ UNCHANGED scene
Plays(s) == In(s) /\ UNCHANGED meetingVars

Next ==
    \/ Plays("writes") /\ Writes({})!TrialNext /\ UNCHANGED lock
    \/ Plays("sold") /\ Writes({bob})!TrialNext /\ UNCHANGED lock
    \/ Plays("commands") /\ Commands!TrialNext /\ UNCHANGED lock
    \/ Plays("trial") /\ Trial!TrialNext /\ UNCHANGED lock
    \/ In("return") /\ (Return({1, 2}, {})!ReturnNext /\ UNCHANGED playVars)
    \/ Plays("return") /\ (Return({1, 2}, {})!EpochNext \/ Return({1, 2}, {})!OperatorNext) /\ UNCHANGED lock
    \/ In("bought") /\ (Return({1}, {ann})!ReturnNext /\ UNCHANGED playVars)
    \/ Plays("bought") /\ (Return({1}, {ann})!EpochNext \/ Return({1}, {ann})!OperatorNext) /\ UNCHANGED lock
    \/ Plays("echo") /\ Franchise(Echoing)!FranchiseNext /\ UNCHANGED <<host, switches, epochs, jobs, holder, retired>>
    \/ Plays("mixed") /\ Franchise(Mixed)!FranchiseNext /\ UNCHANGED <<host, switches, epochs, jobs, holder, retired>>
    \/ In("relay") /\ Relay(FALSE, {ann, bob})!RelayNext
                   /\ UNCHANGED <<switches, epochs, jobs, enabled, retired, decided, returns, approvals>>
    \/ In("torn") /\ Relay(TRUE, {ann})!RelayNext
                  /\ UNCHANGED <<switches, epochs, jobs, enabled, retired, decided, returns, approvals>>
    \/ Plays("desk") /\ Desk(Revised)!PublicationNext /\ UNCHANGED <<host, switches, epochs, enabled, lock>>
    \/ Plays("batch") /\ Desk(Double)!PublicationNext /\ UNCHANGED <<host, switches, epochs, enabled, lock>>
    \/ Plays("services") /\ Services!ExpensesNext
                         /\ UNCHANGED <<switches, epochs, enabled, journal, lock, wire, acted, disp, retired>>
    \/ Plays("talk") /\ Talk!ConversationNext
                     /\ UNCHANGED <<switches, epochs, journal, lock, wire, retired>>
    \/ Plays("onboarding") /\ Onboarding(Interrupted)!StageNext /\ UNCHANGED <<switches, epochs, retired>>
    \/ Plays("welcome") /\ Onboarding(Woken)!StageNext /\ UNCHANGED <<switches, epochs, retired>>
    \/ Plays("retesting") /\ Retesting!StageNext /\ UNCHANGED <<switches, epochs, retired>>

Spec == Init /\ [][Next]_vars

\* Dispatchers, clerks and publishers are told apart by nothing.
TwoOfAKind == Permutations({w1, w2})

-----------------------------------------------------------------------------
\* Actions take effect on the host they were formed for, a trial's on the trial; what a
\* session or a stage asked for takes effect in it, and nothing else does.
ActsWhereMeant == /\ scene = "commands" => Commands!ActsWhereMeant
                  /\ scene = "trial" => Trial!ActsWhereMeant
                  /\ scene = "talk" => Talk!OnlyTalk
                  /\ scene = "onboarding" => Onboarding(Interrupted)!SaidInTheStage
                  /\ scene = "welcome" => Onboarding(Woken)!SaidInTheStage

\* No write over an open write: of the same franchise on MFL, of the same words in a
\* channel, or of the same pair on the relay.
NoWriteOverDoubt == /\ scene = "writes" => Writes({})!NoWriteOverDoubt
                    /\ scene = "sold" => Writes({bob})!NoWriteOverDoubt
                    /\ scene = "trial" => Trial!NoWriteOverDoubt
                    /\ scene = "echo" => Franchise(Echoing)!NeverSaidTwice
                    /\ scene = "relay" => Relay(FALSE, {ann, bob})!PairHeld
                    /\ scene = "torn" => Relay(TRUE, {ann})!PairHeld

\* "Replay never blindly repeats an external POST" (football-outbox.ts): no write took
\* effect on MFL twice.
NeverRepeated == scene = "sold" => \A j \in {j1, j2} : Len(acted[j]) <= 1

\* A restored league carries nothing of its trial.
ReturnedClean == scene = "trial" => Trial!ReturnedClean

\* An approved constitution was voted here, or came back through one trial.
ApprovalsHaveLineage == /\ scene = "return" => Return({1, 2}, {})!ApprovalsHaveLineage
                        /\ scene = "bought" => Return({1}, {ann})!ApprovalsHaveLineage

\* What comes back from the relay wakes nobody twice and loses nothing; where the commit
\* after a send may fail, it wakes nobody while that send is in doubt.
ReadOnce == /\ scene = "relay" => Relay(FALSE, {ann, bob})!ReadOnce
            /\ scene = "torn" => Relay(TRUE, {ann})!EchoesWait

\* Posts are made as they were approved.
PostsAsApproved == /\ scene = "desk" => Desk(Revised)!PostsAsApproved
                   /\ scene = "batch" => Desk(Double)!PostsAsApproved

\* One wallet, two books, and the allowances of a session and of a stage.
WalletAgrees == /\ scene = "services" => Services!WalletAgrees
                /\ scene = "talk" => Talk!TalkIsRationed
                /\ scene = "onboarding" => Onboarding(Interrupted)!WithinAllowance
                /\ scene = "welcome" => Onboarding(Woken)!WithinAllowance

\* What the commissioner reviewed is the end of the owner's stage.
ReviewIsFinal == /\ scene = "onboarding" => Onboarding(Interrupted)!ReviewIsFinal
                 /\ scene = "welcome" => Onboarding(Woken)!ReviewIsFinal
                 /\ scene = "retesting" => Retesting!ReviewIsFinal

\* What the owner is told of an action.  A failure of the own engine or of the league's
\* services, and a trial pick put away by the operator, come without proof.
Football == {"writes", "sold", "commands", "trial"}
Inward == {"return", "bought", "services", "talk", "onboarding", "welcome", "retesting"}
Verdict(a) ==
    IF a \notin DOMAIN rows THEN "none"
    ELSE IF scene \in {"desk", "batch"}
    THEN CASE jobs[a] \in {"rejected", "cancelled"} -> "failed"
           [] jobs[a] = "published" -> "done"
           [] jobs[a] = "uncertain" -> "unproven"
           [] OTHER -> IF rows[a] = "none" THEN "none" ELSE "open"
    ELSE IF scene = "relay"
    THEN CASE rows[a] = "accepted" -> "done"
           [] "rejected" \in {rows[a], journal[a]} -> "failed"
           [] OTHER -> IF rows[a] = "none" THEN "none" ELSE "open"
    ELSE IF scene = "torn"
    THEN CASE journal[a] = "accepted" -> "done"
           [] journal[a] = "rejected" -> "failed"
           [] OTHER -> IF rows[a] = "none" THEN "none" ELSE "open"
    ELSE CASE rows[a].status = "none" -> "none"
           [] rows[a].status = "delivered" -> "done"
           [] rows[a].status = "dead" ->
                 IF \/ scene = "commands" \/ (scene = "trial" /\ a \in retired)
                    \/ (scene \in {"echo", "mixed"} /\ Mixed[a] = "local")
                 THEN "unproven" ELSE "failed"
           [] OTHER -> "open"

Effects(a) ==
    IF a \notin DOMAIN rows THEN 0
    ELSE IF scene \in Football THEN Len(acted[a])
    ELSE IF scene \in {"relay", "torn"} THEN Cardinality({i \in DOMAIN polls : polls[i] = a})
    ELSE acted[a]

Actions == {j1, j2} \cup Desk(Revised)!Items \cup Desk(Double)!Items
NoEffects == [a \in Actions |-> 0]
NoVerdicts == [a \in Actions |-> "none"]

Owner == INSTANCE OwnerActions WITH
    effects <- IF scene \in Inward THEN NoEffects ELSE [a \in Actions |-> Effects(a)],
    verdict <- IF scene \in Inward THEN NoVerdicts ELSE [a \in Actions |-> Verdict(a)]

\* The outboxes, the mirror and the publisher keep the promise of OwnerActions.
KeepsPromise == Owner!Promise
=============================================================================
