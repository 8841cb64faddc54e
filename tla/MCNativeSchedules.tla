-------------------------- MODULE MCNativeSchedules --------------------------
(* Small leagues for the season scheduler. *)
EXTENDS NativeScheduleProperties, TLC

CONSTANTS s1, s2, s3, d1, d2, game, offer

OneTeam == {1}
TwoTeams == {1, 2}
SoloOf == (s1 :> 1)
OneTeamOf == (s1 :> 1 @@ s2 :> 1)
TwoTeamsOf == (s1 :> 1 @@ s2 :> 2)
ThreeOf == (s1 :> 1 @@ s2 :> 1 @@ s3 :> 1)

Once(t) == [kind |-> "once", at |-> t]
AtEvent(e, off) == [kind |-> "event", event |-> e, offset |-> off]

OneShots == {Once(0)}
TwoShots == {Once(0), Once(1)}
Anchors == {Once(0), AtEvent(game, 1)}

NoEvents == {}
Games == {game}

\* The schedules are not symmetric: their ids decide which of two is first.
Symmetry == Permutations({d1, d2})
=============================================================================
