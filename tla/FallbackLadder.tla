--------------------------- MODULE FallbackLadder ---------------------------
(***************************************************************************)
(* What the fallback ladder of emergency_supervisor.py promises, with all  *)
(* timing and all causes removed: the vehicle is on one rung; it moves up  *)
(* one rung at a time, may pass over the one rung it cannot always fly     *)
(* safely, and comes down only all the way to NORMAL.                      *)
(***************************************************************************)
EXTENDS Naturals

Normal               == 0
StopHorizontal       == 1
ReduceVelocity       == 2
AltitudeSeparation   == 3
Hold                 == 4
RecommendPosition    == 5
RecommendRtlOrLand   == 6

Stages == Normal .. RecommendRtlOrLand

VARIABLE rung

Init == rung = Normal

Climb == /\ rung < RecommendRtlOrLand
         /\ rung' = rung + 1

PassOverAltitudeSeparation == /\ rung = ReduceVelocity
                              /\ rung' = Hold

Recover == /\ rung # Normal
           /\ rung' = Normal

Next == Climb \/ PassOverAltitudeSeparation \/ Recover

Spec == Init /\ [][Next]_rung
=============================================================================
