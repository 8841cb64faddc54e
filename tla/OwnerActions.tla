---------------------------- MODULE OwnerActions ----------------------------
(* What the outboxes promise an owner: an action it asked for takes effect   *)
(* at most once, it is reported done only if it did, and failed only if it   *)
(* did not and never will; what cannot be proved is not reported as either.  *)
EXTENDS Naturals

CONSTANT Actions

VARIABLES effects,     \* how often the action took effect
          verdict      \* "none", "open", "done", "failed", "unproven"

actionVars == <<effects, verdict>>

ActionsInit == /\ effects = [a \in Actions |-> 0]
               /\ verdict \in [Actions -> {"none", "open"}]

\* A request that was given up without proof may still be carried out.
TakeEffect(a) == /\ verdict[a] \in {"open", "unproven"}
                 /\ effects[a] = 0
                 /\ effects' = [effects EXCEPT ![a] = 1]
                 /\ UNCHANGED verdict

MayReport(a, v) == /\ verdict[a] = "open"
                   /\ v \in {"done", "failed", "unproven"}
                   /\ v = "done" => effects[a] = 1
                   /\ v = "failed" => effects[a] = 0

\* Several actions may be asked for, or closed, at once.
AskOrReport ==
    /\ \A a \in Actions :
          \/ verdict'[a] = verdict[a]
          \/ verdict[a] = "none" /\ verdict'[a] = "open"
          \/ MayReport(a, verdict'[a])
    /\ UNCHANGED effects

ActionsNext == AskOrReport \/ \E a \in Actions : TakeEffect(a)

Promise == ActionsInit /\ [][ActionsNext]_actionVars
=============================================================================
