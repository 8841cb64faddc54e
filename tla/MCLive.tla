-------------------------------- MODULE MCLive --------------------------------
(* What must eventually happen, under the fairness of supervised services: a *)
(* scene for the season scheduler, one for a league's draft and one for its  *)
(* events.  A behaviour plays one scene, chosen at the start.                *)
EXTENDS Integers, Sequences, FiniteSets, TLC

CONSTANTS s1, d1, d2, NoTime, ann, bob, p1, p2, p3, p4

VARIABLES scene,
          now, sched, occ, events, open, pc, team, target, todo, lane7047, wire, inbox, stamps, faults,
          draft, picks, queue, due, had,
          leagueEvents, sent, awake, batch, switches

schedVars == <<now, sched, occ, events, open, pc, team, target, todo, lane7047, wire, inbox,
               stamps, faults>>
draftVars == <<draft, picks, queue, due, had>>
eventVars == <<leagueEvents, sent, awake, batch, switches>>
vars == <<scene, schedVars, draftVars, eventVars>>

Season == INSTANCE NativeScheduleProperties WITH
    Teams <- {1}, Schedules <- {s1}, TeamOf <- (s1 :> 1),
    Timings <- {[kind |-> "once", at |-> 0]}, CalendarEvents <- {}, LeagueEvents <- {},
    MaxTime <- 0, MaxVersion <- 2, Dispatchers <- {d1, d2}, AbsenceProvable <- TRUE, MaxFaults <- 2

\* Two owners, two snake rounds, four players.
Draft == INSTANCE LeagueDraft WITH
    Teams <- <<ann, bob>>, Players <- {p1, p2, p3, p4}, RosterSize <- 2, Snake <- TRUE,
    PickTime <- 2, Queues <- {<<p1, p2, p3>>}, MaxEpoch <- 1

\* Three events for two agents, two dispatchers that take two deliveries at a time:
\* one undeliverable event for both fills a batch, one for the second alone does not.
Delivery == INSTANCE LeagueEvents WITH
    events <- leagueEvents,
    Agents <- {1, 2}, EventKinds <- {{1, 2}, {2}}, Limit <- 2,
    Dispatchers <- {d1, d2}, MaxEvents <- 3, MaxSwitches <- 1

-----------------------------------------------------------------------------
Init == scene \in {"season", "draft", "delivery"}
        /\ Season!Init /\ Draft!DraftInit /\ Delivery!EventsInit

InSeason == scene = "season" /\ UNCHANGED <<scene, draftVars, eventVars>>
InDraft == scene = "draft" /\ UNCHANGED <<scene, schedVars, eventVars>>
InDelivery == scene = "delivery" /\ UNCHANGED <<scene, schedVars, draftVars>>

Next ==
    \/ InSeason /\ Season!Next
    \/ InDraft /\ Draft!DraftNext
    \/ InDelivery /\ Delivery!EventsNext

\* Every process is supervised and loops for ever: dispatchers, the network, an
\* owner's process with work in hand, the draft clock.  Owners' other commands, the
\* calendar and the commissioner owe nothing.
Fair ==
    /\ \A d \in {d1, d2} : WF_vars(InSeason /\ Season!Progress(d))
    /\ WF_vars(InSeason /\ \E m \in wire : Season!Arrive(m))
    /\ WF_vars(InSeason /\ \E o \in DOMAIN occ : Season!OwnerFinishes(o))
    /\ WF_vars(InSeason /\ Season!MaterializeDue
                        /\ UNCHANGED <<pc, team, target, todo, lane7047, stamps, wire, inbox, faults>>)
    /\ WF_vars(InSeason /\ \E c \in open : Season!CommitAnchor(c)
                        /\ UNCHANGED <<pc, team, target, todo, lane7047, stamps, wire, inbox, faults>>)
    /\ WF_vars(InDraft /\ Draft!ClockRuns)
    /\ WF_vars(InDraft /\ Draft!ReadDue)
    /\ WF_vars(InDraft /\ \E w \in due : Draft!AutoDraftPick(w) \/ Draft!SkipDue(w))
    /\ \A d \in {d1, d2} : WF_vars(InDelivery /\ Delivery!Dispatch(d))

Spec == Init /\ [][Next]_vars /\ Fair

-----------------------------------------------------------------------------
\* NativeSchedules: an appointment that comes due is carried through, and every
\* occurrence of it is closed.
DueIsHonoured == Season!DueIsHonoured /\ Season!WorkCloses

\* LeagueDraft: picks come round fairly and fill the rosters, and nobody is picked
\* for before the pick time is up.
FairDraft == []Draft!FairDraft /\ Draft!FullClock

\* LeagueDraft: the clock never leaves a pick hanging.
DraftGoesOn == Draft!DraftGoesOn

\* LeagueEvents: a deliverable event reaches every enabled owner it concerns, unless
\* undeliverable older ones fill the whole batch.
EventsReachOwners == Delivery!EventsReachOwners
=============================================================================
