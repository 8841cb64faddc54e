---------------------------- MODULE MCRuntimeTurns ----------------------------
(* Small franchises for the turn store. *)
EXTENDS RuntimeTurnProperties, TLC

CONSTANTS a1, c1, c2, w1, w2, g1

NoTags == {}
OneOwner == (c1 :> a1)
TwoOwned == (c1 :> a1 @@ c2 :> a1)

TwoWorkers == Permutations({w1, w2})
TwoOfEach == TwoWorkers \cup Permutations({c1, c2})

Retried == {j \in DOMAIN job : job[j].fence > 1}
Staffed == {j \in DOMAIN job : job[j].kind = "staff"}

\* Two events compete for the franchise, or one delegates and one job of the chain is
\* tried again.
OneThingAtATime ==
    /\ {<<c1>>, <<c2>>} \subseteq DOMAIN job => Staffed = {} /\ Retried = {}
    /\ Staffed # {} => Cardinality(Retried) <= 1

\* Workers run in supervised loops, and a lease nobody renews runs out.
FairSpec ==
    /\ Spec
    /\ \A w \in Workers : WF_vars(Progress(w))
    /\ WF_vars(\E j \in DOMAIN job : Bury(j))
    /\ WF_vars(\E j \in DOMAIN job : AbandonedLeaseExpires(j))
=============================================================================
