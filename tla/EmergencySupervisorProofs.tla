--------------------- MODULE EmergencySupervisorProofs ---------------------
(***************************************************************************)
(* The safety properties of the fallback ladder, for every dwell,          *)
(* confirmation time, frame spacing and geofence.                          *)
(***************************************************************************)
EXTENDS EmergencySupervisor, TLAPS

USE DEF Ladder!Stages, Ladder!Normal, Ladder!StopHorizontal,
        Ladder!ReduceVelocity, Ladder!AltitudeSeparation, Ladder!Hold,
        Ladder!RecommendPosition, Ladder!RecommendRtlOrLand

(* Time between two frames is a positive number of ticks. *)
LEMMA IntervalsArePositive == \A dt \in Intervals : dt \in Nat /\ dt > 0
  BY TimingAssumption DEF Intervals

(* The rung above is a rung, one up or over ALTITUDE_SEPARATION. *)
LEMMA NextStageClimbs ==
  ASSUME NEW ownValid \in BOOLEAN, stage \in Ladder!Stages
  PROVE  /\ NextStage(ownValid) \in Ladder!Stages
         /\ NextStage(ownValid) # Ladder!Normal
         /\ \/ NextStage(ownValid) = stage /\ stage = Ladder!RecommendRtlOrLand
            \/ NextStage(ownValid) = stage + 1 /\ stage < Ladder!RecommendRtlOrLand
            \/ /\ stage = Ladder!ReduceVelocity
               /\ NextStage(ownValid) = Ladder!Hold
  BY DEF NextStage

(***************************************************************************)
(* The inductive strengthening of EscalationIsPaced: the time spent on the *)
(* present rung is on top of the dwell spent on those below it.  The same  *)
(* step also shows the streak never longer than the true calm, and the     *)
(* calm complete whenever the ladder is down.                              *)
(*                                                                         *)
(* EscalationIsTimely is the mirror image: the run of infeasible frames is *)
(* no older than the latest arrival on the rung and the time on it, which  *)
(* is less than a dwell because the frame that completes the dwell climbs. *)
(* A frame may be delayed by the restart only on the rung that can raise.  *)
(***************************************************************************)
PacedByAge == stage # Ladder!Normal => faultAge >= EarliestArrival(stage) + stageAge
StreakIsCalm == feasibleAge <= sinceInfeasible
NormalIsCalm == stage = Ladder!Normal => sinceInfeasible = RecoveryConfirmation
RaisedOnAltitude == decision = "raised" => stage = Ladder!AltitudeSeparation
CommandOnNormal == decision = "cbf" => stage = Ladder!Normal
TimelyByAge ==
  feasibleAge = NoStreak /\ stage \notin {Ladder!Normal, Ladder!RecommendRtlOrLand}
    => stageAge < StageDwell /\ unbroken <= LatestArrival(stage) + stageAge

IInv == /\ TypeOK /\ PacedByAge /\ StreakIsCalm /\ NormalIsCalm
        /\ RaisedOnAltitude /\ CommandOnNormal /\ TimelyByAge

(* A rung's earliest arrival fits under the cap with a whole dwell to spare. *)
LEMMA ArrivalBounds ==
  ASSUME NEW rung \in Ladder!Stages
  PROVE  /\ EarliestArrival(rung) \in Nat
         /\ EarliestArrival(rung) + StageDwell <= FaultAgeCap
  <1> USE TimingAssumption DEF EarliestArrival, FaultAgeCap
  <1>1. CASE rung \in {Ladder!Normal, Ladder!StopHorizontal} BY <1>1
  <1>2. CASE rung = Ladder!ReduceVelocity BY <1>2
  <1>3. CASE rung \in {Ladder!AltitudeSeparation, Ladder!Hold} BY <1>3
  <1>4. CASE rung = Ladder!RecommendPosition BY <1>4
  <1>5. CASE rung = Ladder!RecommendRtlOrLand BY <1>5
  <1> QED BY <1>1, <1>2, <1>3, <1>4, <1>5

(* Climbing costs at most one dwell. *)
LEMMA ArrivalStep ==
  ASSUME NEW ownValid \in BOOLEAN, stage \in Ladder!Stages, stage # Ladder!Normal
  PROVE  EarliestArrival(NextStage(ownValid)) <= EarliestArrival(stage) + StageDwell
  <1> USE TimingAssumption DEF EarliestArrival, NextStage
  <1>1. CASE stage = Ladder!StopHorizontal BY <1>1
  <1>2. CASE stage = Ladder!ReduceVelocity BY <1>2
  <1>3. CASE stage = Ladder!AltitudeSeparation BY <1>3
  <1>4. CASE stage = Ladder!Hold BY <1>4
  <1>5. CASE stage = Ladder!RecommendPosition BY <1>5
  <1>6. CASE stage = Ladder!RecommendRtlOrLand BY <1>6
  <1> QED BY <1>1, <1>2, <1>3, <1>4, <1>5, <1>6

(* The bounds on a stay are durations, and the longer one covers the restart. *)
LEMMA StayBounds ==
  /\ LongestStay \in Nat /\ LongestStayIfRaised \in Nat /\ UnbrokenCap \in Nat
  /\ LongestStay <= LongestStayIfRaised
  /\ \A dt \in 1 .. MaxInterval : StageDwell - 1 + dt <= LongestStay
  /\ StageDwell - 1 + RestartDelay <= LongestStayIfRaised
  BY TimingAssumption DEF LongestStay, LongestStayIfRaised, UnbrokenCap

(* A rung is reached no later than the one below it and the longest stay there. *)
LEMMA LatestStep ==
  ASSUME NEW ownValid \in BOOLEAN, NEW dt \in Nat, stage \in Ladder!Stages,
         stage # Ladder!Normal, stage # Ladder!RecommendRtlOrLand,
         \/ dt \in 1 .. MaxInterval
         \/ stage = Ladder!AltitudeSeparation /\ dt = RestartDelay
  PROVE  /\ LatestArrival(stage) \in Nat
         /\ LatestArrival(NextStage(ownValid)) \in Nat
         /\ LatestArrival(stage) + StageDwell - 1 + dt <= LatestArrival(NextStage(ownValid))
  <1> DEFINE low == LatestArrival(stage)
             high == LatestArrival(NextStage(ownValid))
             stay == StageDwell - 1 + dt
  <1>1. stay \in Nat
    BY TimingAssumption
  <1>2. \/ stay <= LongestStay
        \/ stage = Ladder!AltitudeSeparation /\ stay <= LongestStayIfRaised
    BY StayBounds
  <1>3. low \in Nat /\ high \in Nat /\ low + stay <= high
    <2> HIDE DEF stay
    <2> USE <1>1, <1>2, StayBounds DEF LatestArrival, NextStage
    <2>1. CASE stage = Ladder!StopHorizontal BY <2>1
    <2>2. CASE stage = Ladder!ReduceVelocity BY <2>2
    <2>3. CASE stage = Ladder!AltitudeSeparation BY <2>3
    <2>4. CASE stage = Ladder!Hold BY <2>4
    <2>5. CASE stage = Ladder!RecommendPosition BY <2>5
    <2> QED BY <2>1, <2>2, <2>3, <2>4, <2>5
  <1> HIDE DEF low, high
  <1>4. low + StageDwell - 1 + dt <= high
    BY <1>1, <1>3, TimingAssumption
  <1> QED BY <1>3, <1>4 DEF low, high

(* An infeasible frame keeps the ladder on time. *)
LEMMA TimelyStep ==
  ASSUME IInv, NEW dt \in Intervals, NEW ownValid \in BOOLEAN,
         InfeasibleFrame(dt, ownValid)
  PROVE  TimelyByAge' /\ unbroken' \in 0 .. UnbrokenCap
  <1> DEFINE next == IF stage = Ladder!Normal \/ DwellElapsed(dt)
                     THEN NextStage(ownValid) ELSE stage
             age == StageAgeAfter(dt)
             continued == feasibleAge = NoStreak /\ stage # Ladder!Normal
             last == Ladder!RecommendRtlOrLand
  <1>1. /\ stage \in Ladder!Stages /\ stageAge \in 0 .. StageDwell
        /\ unbroken \in 0 .. UnbrokenCap
        /\ StageDwell \in Nat \ {0} /\ UnbrokenCap \in Nat
    BY TimingAssumption, StayBounds DEF IInv, TypeOK
  <1>2. /\ dt \in Nat /\ dt > 0
        /\ \/ dt \in 1 .. MaxInterval
           \/ stage = Ladder!AltitudeSeparation /\ dt = RestartDelay
    BY IntervalsArePositive DEF Intervals, IInv, RaisedOnAltitude
  <1>3. next \in Ladder!Stages
    BY <1>1, NextStageClimbs
  <1>4. /\ stage' = next
        /\ stageAge' = IF next # stage THEN 0 ELSE age
        /\ unbroken' = IF continued THEN Saturated(unbroken + dt, UnbrokenCap) ELSE 0
    BY DEF InfeasibleFrame, EnterOrStay
  <1>5. unbroken' \in 0 .. UnbrokenCap /\ (continued => unbroken' <= unbroken + dt)
    BY <1>1, <1>2, <1>4 DEF Saturated
  <1>6. stage # last /\ next = stage => age < StageDwell /\ age = stageAge + dt
    <2> SUFFICES ASSUME stage # last, next = stage
                 PROVE  age < StageDwell /\ age = stageAge + dt
      OBVIOUS
    <2>1. ~DwellElapsed(dt)
      BY <1>1, NextStageClimbs
    <2> QED BY <1>1, <1>2, <2>1 DEF DwellElapsed, StageAgeAfter, Saturated
  <1>7. LatestArrival(next) \in Nat
    BY <1>3, StayBounds DEF LatestArrival
  <1> SUFFICES ASSUME next # Ladder!Normal, next # last
               PROVE  stageAge' < StageDwell /\ unbroken' <= LatestArrival(next) + stageAge'
    <2>1. LatestArrival(stage)' = LatestArrival(next)
      BY <1>4 DEF LatestArrival
    <2> HIDE DEF next
    <2> QED BY <1>4, <1>5, <2>1 DEF TimelyByAge
  <1>8. stage # last
    BY <1>1, NextStageClimbs
  <1>9. stageAge' \in Nat /\ stageAge' < StageDwell
    <2> HIDE DEF next, age
    <2>1. next = stage => age \in Nat
      BY <1>1, <1>2, <1>6, <1>8
    <2> QED BY <1>1, <1>4, <1>6, <1>8, <2>1
  <1>10. CASE ~continued
    <2> HIDE DEF next, age, continued
    <2> QED BY <1>4, <1>7, <1>9, <1>10
  <1>11. CASE continued
    <2>1. stageAge < StageDwell /\ unbroken <= LatestArrival(stage) + stageAge
      BY <1>8, <1>11 DEF IInv, TimelyByAge
    <2>2. /\ LatestArrival(stage) \in Nat
          /\ LatestArrival(NextStage(ownValid)) \in Nat
          /\ LatestArrival(stage) + StageDwell - 1 + dt <= LatestArrival(NextStage(ownValid))
      BY <1>1, <1>2, <1>8, <1>11, LatestStep
    <2>3. CASE next = stage
      <3> HIDE DEF next, age, continued
      <3> QED BY <1>1, <1>2, <1>4, <1>5, <1>6, <1>8, <1>9, <1>11, <2>1, <2>2, <2>3
    <2>4. CASE next # stage
      <3>1. next = NextStage(ownValid)
        BY <2>4
      <3> HIDE DEF next, age, continued
      <3> QED BY <1>1, <1>2, <1>4, <1>5, <1>9, <1>11, <2>1, <2>2, <2>4, <3>1
    <2> QED BY <2>3, <2>4
  <1> QED BY <1>9, <1>10, <1>11

(***************************************************************************)
(* Entering or keeping a rung preserves the pace, when the rung is         *)
(* entered from NORMAL, kept, left for NORMAL, or left upwards after the   *)
(* dwell.                                                                  *)
(***************************************************************************)
LEMMA EnterPreservesPace ==
  ASSUME IInv, NEW dt \in Nat, NEW next \in Ladder!Stages,
         EnterOrStay(next, dt),
         \/ next = stage
         \/ next = Ladder!Normal
         \/ stage = Ladder!Normal /\ next = Ladder!StopHorizontal
         \/ /\ DwellElapsed(dt)
            /\ stage # Ladder!Normal
            /\ EarliestArrival(next) <= EarliestArrival(stage) + StageDwell
  PROVE  /\ stage' \in Ladder!Stages
         /\ stageAge' \in 0 .. StageDwell
         /\ faultAge' \in 0 .. FaultAgeCap
         /\ frameParity' \in {0, 1}
         /\ PacedByAge'
  <1> USE TimingAssumption
  <1> DEFINE age == StageAgeAfter(dt)
             total == Saturated(faultAge + dt, FaultAgeCap)
             low == EarliestArrival(stage)
             high == EarliestArrival(next)
  <1>1. /\ stage \in Ladder!Stages
        /\ stageAge \in 0 .. StageDwell
        /\ faultAge \in 0 .. FaultAgeCap
        /\ stage # Ladder!Normal => faultAge >= low + stageAge
    BY DEF IInv, TypeOK, PacedByAge
  <1>2. FaultAgeCap \in Nat
    BY DEF FaultAgeCap
  <1>3. age \in 0 .. StageDwell /\ age <= stageAge + dt
    BY <1>1 DEF StageAgeAfter, Saturated
  <1>4. /\ total \in 0 .. FaultAgeCap
        /\ total = faultAge + dt \/ total = FaultAgeCap
    BY <1>1, <1>2 DEF Saturated
  <1>5. /\ low \in Nat /\ low + StageDwell <= FaultAgeCap
        /\ high \in Nat /\ high + StageDwell <= FaultAgeCap
    BY <1>1, ArrivalBounds
  <1>6. /\ stage' = next
        /\ stageAge' = IF next # stage THEN 0 ELSE age
        /\ faultAge' = IF stage = Ladder!Normal \/ next = Ladder!Normal
                       THEN 0 ELSE total
    BY DEF EnterOrStay
  <1>7. /\ stage' \in Ladder!Stages
        /\ stageAge' \in 0 .. StageDwell
        /\ faultAge' \in 0 .. FaultAgeCap
    <2> HIDE DEF age, total
    <2> QED BY <1>2, <1>3, <1>4, <1>6
  <1>8. PacedByAge' <=> (next # Ladder!Normal => faultAge' >= high + stageAge')
    BY <1>6 DEF PacedByAge, EarliestArrival
  <1>9. next # Ladder!Normal => faultAge' >= high + stageAge'
    <2> HIDE DEF age, total, low, high
    <2> SUFFICES ASSUME next # Ladder!Normal
                 PROVE  faultAge' >= high + stageAge'
      OBVIOUS
    <2>1. CASE next = stage
      <3>1. high = low
        BY <2>1 DEF high, low
      <3> QED BY <2>1, <3>1, <1>1, <1>3, <1>4, <1>5, <1>6
    <2>2. CASE stage = Ladder!Normal /\ next = Ladder!StopHorizontal
      <3>1. high = 0
        BY <2>2 DEF high, EarliestArrival
      <3> QED BY <2>2, <3>1, <1>6
    <2>3. CASE /\ next # stage
               /\ DwellElapsed(dt)
               /\ stage # Ladder!Normal
               /\ EarliestArrival(next) <= EarliestArrival(stage) + StageDwell
      <3>1. age >= StageDwell /\ high <= low + StageDwell
        BY <2>3 DEF DwellElapsed, age, high, low
      <3>2. stageAge' = 0 /\ faultAge' = total
        BY <2>3, <1>6
      <3>3. stageAge + dt >= StageDwell /\ faultAge >= low + stageAge
        BY <2>3, <3>1, <1>1, <1>3
      <3> QED BY <3>1, <3>2, <3>3, <1>1, <1>4, <1>5
    <2> QED BY <2>1, <2>2, <2>3
  <1>10. frameParity' \in {0, 1}
    BY DEF EnterOrStay, IInv, TypeOK
  <1> QED BY <1>7, <1>8, <1>9, <1>10

(* One feasible frame keeps the invariant. *)
LEMMA FeasibleFrameInv ==
  ASSUME IInv, NEW dt \in Intervals, FeasibleFrame(dt)
  PROVE  IInv'
  <1> USE TimingAssumption
  <1>1. dt \in Nat /\ dt > 0
    BY IntervalsArePositive
  <1>2. /\ stage \in Ladder!Stages
        /\ feasibleAge \in NoStreak .. RecoveryConfirmation
        /\ sinceInfeasible \in 0 .. RecoveryConfirmation
        /\ feasibleAge <= sinceInfeasible
    BY DEF IInv, TypeOK, StreakIsCalm
  <1> DEFINE next == IF StreakAfter(dt) >= RecoveryConfirmation
                     THEN Ladder!Normal ELSE stage
  <1>3. next \in Ladder!Stages /\ EnterOrStay(next, dt)
    BY <1>2 DEF FeasibleFrame
  <1>4. /\ stage' \in Ladder!Stages
        /\ stageAge' \in 0 .. StageDwell
        /\ faultAge' \in 0 .. FaultAgeCap
        /\ frameParity' \in {0, 1}
        /\ PacedByAge'
    BY <1>1, <1>3, EnterPreservesPace
  <1>5. /\ feasibleAge' \in NoStreak .. RecoveryConfirmation
        /\ sinceInfeasible' \in 0 .. RecoveryConfirmation
        /\ feasibleAge' <= sinceInfeasible'
    BY <1>1, <1>2 DEF FeasibleFrame, StreakAfter, Saturated, NoStreak
  <1>6. decision' \in Decisions /\ decision' # "raised"
    BY DEF FeasibleFrame, DecisionOn, Decisions
  <1>7. NormalIsCalm'
    <2>1. stage' = Ladder!Normal
            => stage = Ladder!Normal \/ StreakAfter(dt) >= RecoveryConfirmation
      BY <1>3 DEF EnterOrStay
    <2>2. /\ sinceInfeasible' = Saturated(sinceInfeasible + dt, RecoveryConfirmation)
          /\ stage = Ladder!Normal => sinceInfeasible = RecoveryConfirmation
      BY DEF FeasibleFrame, IInv, NormalIsCalm
    <2> QED BY <1>1, <1>2, <2>1, <2>2 DEF NormalIsCalm, StreakAfter, Saturated, NoStreak
  <1>8. feasibleAge' # NoStreak
    BY <1>1, <1>2 DEF FeasibleFrame, StreakAfter, Saturated, NoStreak
  <1>9. unbroken' \in 0 .. UnbrokenCap
    BY StayBounds DEF FeasibleFrame
  <1>10. CommandOnNormal'
    BY DEF FeasibleFrame, DecisionOn, CommandOnNormal
  <1> QED BY <1>4, <1>5, <1>6, <1>7, <1>8, <1>9, <1>10
          DEF IInv, TypeOK, StreakIsCalm, RaisedOnAltitude, TimelyByAge

(* One infeasible frame keeps the invariant. *)
LEMMA InfeasibleFrameInv ==
  ASSUME IInv, NEW dt \in Intervals, NEW ownValid \in BOOLEAN,
         InfeasibleFrame(dt, ownValid)
  PROVE  IInv'
  <1> USE TimingAssumption
  <1>1. dt \in Nat /\ dt > 0
    BY IntervalsArePositive
  <1>2. stage \in Ladder!Stages
    BY DEF IInv, TypeOK
  <1> DEFINE next == IF stage = Ladder!Normal \/ DwellElapsed(dt)
                     THEN NextStage(ownValid) ELSE stage
  <1>3. next \in Ladder!Stages /\ EnterOrStay(next, dt)
    BY <1>2, NextStageClimbs DEF InfeasibleFrame
  <1>4. stage = Ladder!Normal => next = Ladder!StopHorizontal
    BY DEF NextStage
  <1>5. stage # Ladder!Normal =>
          EarliestArrival(NextStage(ownValid)) <= EarliestArrival(stage) + StageDwell
    BY <1>2, ArrivalStep
  <1>6. \/ next = stage
        \/ stage = Ladder!Normal /\ next = Ladder!StopHorizontal
        \/ /\ DwellElapsed(dt)
           /\ stage # Ladder!Normal
           /\ EarliestArrival(next) <= EarliestArrival(stage) + StageDwell
    BY <1>4, <1>5
  <1>7. /\ stage' \in Ladder!Stages
        /\ stageAge' \in 0 .. StageDwell
        /\ faultAge' \in 0 .. FaultAgeCap
        /\ frameParity' \in {0, 1}
        /\ PacedByAge'
    <2> HIDE DEF next
    <2> QED BY <1>1, <1>3, <1>6, EnterPreservesPace
  <1>8. /\ feasibleAge' = NoStreak
        /\ sinceInfeasible' = 0
    BY DEF InfeasibleFrame, StreakOnInfeasible
  <1>9. decision' \in Decisions
    BY DEF InfeasibleFrame, DecisionOn, Decisions
  <1>10. stage' # Ladder!Normal
    BY <1>2, NextStageClimbs DEF InfeasibleFrame, EnterOrStay
  <1>11. RaisedOnAltitude' /\ CommandOnNormal'
    BY DEF InfeasibleFrame, DecisionOn, RaisedOnAltitude, CommandOnNormal
  <1>12. TimelyByAge' /\ unbroken' \in 0 .. UnbrokenCap
    BY TimelyStep
  <1> QED BY <1>7, <1>8, <1>9, <1>10, <1>11, <1>12
          DEF IInv, TypeOK, StreakIsCalm, NoStreak, NormalIsCalm

(* The strengthened invariant holds of every behaviour. *)
THEOREM Invariance == Spec => []IInv
  <1>1. Init => IInv
    BY TimingAssumption, StayBounds
       DEF Init, IInv, TypeOK, PacedByAge, StreakIsCalm, NormalIsCalm, RaisedOnAltitude,
           CommandOnNormal, TimelyByAge, NoStreak, Decisions, FaultAgeCap
  <1>2. IInv /\ [Next]_vars => IInv'
    <2> SUFFICES ASSUME IInv, [Next]_vars PROVE IInv'
      OBVIOUS
    <2>1. CASE \E dt \in Intervals : FeasibleFrame(dt)
      BY <2>1, FeasibleFrameInv
    <2>2. CASE \E dt \in Intervals, ownValid \in BOOLEAN : InfeasibleFrame(dt, ownValid)
      BY <2>2, InfeasibleFrameInv
    <2>3. CASE UNCHANGED vars
      BY <2>3 DEF vars, IInv, TypeOK, PacedByAge, StreakIsCalm, EarliestArrival,
                  NormalIsCalm, RaisedOnAltitude, CommandOnNormal, TimelyByAge,
                  LatestArrival
    <2> QED BY <2>1, <2>2, <2>3 DEF Next
  <1> QED BY <1>1, <1>2, PTL DEF Spec

(* Every variable of the supervisor keeps its type. *)
THEOREM TypeCorrect == Spec => []TypeOK
  <1>1. IInv => TypeOK
    BY DEF IInv
  <1> QED BY <1>1, Invariance, PTL

(* No sequence of frames reaches a rung before the dwell of every rung below it. *)
THEOREM Paced == Spec => []EscalationIsPaced
  <1>1. IInv => EscalationIsPaced
    BY TimingAssumption DEF IInv, TypeOK, PacedByAge, EscalationIsPaced, EarliestArrival
  <1> QED BY <1>1, Invariance, PTL

(* A fault that is never interrupted climbs to the last rung within the bound. *)
THEOREM Timely == Spec => []EscalationIsTimely
  <1>1. IInv => EscalationIsTimely
    <2> SUFFICES ASSUME IInv, feasibleAge = NoStreak,
                        stage \notin {Ladder!Normal, Ladder!RecommendRtlOrLand}
                 PROVE  unbroken <= LatestArrival(stage) + StageDwell - 1
      BY DEF EscalationIsTimely
    <2>1. /\ stage \in Ladder!Stages /\ stageAge \in Nat /\ unbroken \in Nat
          /\ stageAge < StageDwell /\ unbroken <= LatestArrival(stage) + stageAge
      BY TimingAssumption, StayBounds DEF IInv, TypeOK, TimelyByAge
    <2>2. LatestArrival(stage) \in Nat
      BY <2>1, StayBounds DEF LatestArrival
    <2> QED BY <2>1, <2>2, TimingAssumption
  <1> QED BY <1>1, Invariance, PTL

(***************************************************************************)
(* The mission's own command is let through (decision "cbf") only when no  *)
(* infeasible frame is younger than the confirmation time, and no          *)
(* infeasible frame ends on NORMAL, which ActiveSender takes for granted   *)
(* (Observations).                                                         *)
(***************************************************************************)
THEOREM CommandMeansCalm ==
  Spec => [](/\ decision = "cbf" => sinceInfeasible = RecoveryConfirmation
             /\ sinceInfeasible = 0 => stage # Ladder!Normal)
  <1>1. IInv => /\ decision = "cbf" => sinceInfeasible = RecoveryConfirmation
                /\ sinceInfeasible = 0 => stage # Ladder!Normal
    BY TimingAssumption DEF IInv, NormalIsCalm, CommandOnNormal
  <1> QED BY <1>1, Invariance, PTL

(* Every descent to NORMAL follows an uninterrupted confirmation time. *)
THEOREM Confirmed == Spec => RecoveryIsConfirmed
  <1>1. ASSUME IInv, [Next]_vars, stage # Ladder!Normal, stage' = Ladder!Normal
        PROVE  sinceInfeasible' >= RecoveryConfirmation
    <2> USE TimingAssumption
    <2>1. CASE \E dt \in Intervals : FeasibleFrame(dt)
      <3>1. PICK dt \in Intervals : FeasibleFrame(dt)
        BY <2>1
      <3>2. StreakAfter(dt) >= RecoveryConfirmation
        BY <1>1, <3>1 DEF FeasibleFrame, EnterOrStay
      <3>3. /\ dt \in Nat
            /\ feasibleAge \in NoStreak .. RecoveryConfirmation
            /\ sinceInfeasible \in 0 .. RecoveryConfirmation
            /\ feasibleAge <= sinceInfeasible
        BY <1>1, IntervalsArePositive DEF IInv, TypeOK, StreakIsCalm
      <3> QED BY <3>1, <3>2, <3>3 DEF FeasibleFrame, StreakAfter, Saturated, NoStreak
    <2>2. CASE \E dt \in Intervals, ownValid \in BOOLEAN : InfeasibleFrame(dt, ownValid)
      BY <1>1, <2>2, NextStageClimbs DEF InfeasibleFrame, EnterOrStay, IInv, TypeOK
    <2>3. CASE UNCHANGED vars
      BY <1>1, <2>3 DEF vars
    <2> QED BY <1>1, <2>1, <2>2, <2>3 DEF Next
  <1>2. IInv /\ [Next]_vars
          => [stage # Ladder!Normal /\ stage' = Ladder!Normal
                => sinceInfeasible' >= RecoveryConfirmation]_vars
    BY <1>1
  <1> QED BY <1>2, Invariance, PTL DEF Spec, RecoveryIsConfirmed

(* Every step of the supervisor is a step of the abstract ladder or leaves the rung alone. *)
THEOREM Refinement == Spec => ImplementsFallbackLadder
  <1>1. Init => Ladder!Init
    BY DEF Init, Ladder!Init
  <1>2. ASSUME TypeOK, [Next]_vars
        PROVE  [Ladder!Next]_stage
    <2> USE DEF Ladder!Next, Ladder!Climb, Ladder!PassOverAltitudeSeparation, Ladder!Recover
    <2>1. CASE \E dt \in Intervals : FeasibleFrame(dt)
      BY <2>1 DEF FeasibleFrame, EnterOrStay
    <2>2. CASE \E dt \in Intervals, ownValid \in BOOLEAN : InfeasibleFrame(dt, ownValid)
      BY <1>2, <2>2, NextStageClimbs DEF InfeasibleFrame, EnterOrStay, TypeOK
    <2>3. CASE UNCHANGED vars
      BY <2>3 DEF vars
    <2> QED BY <1>2, <2>1, <2>2, <2>3 DEF Next
  <1> QED BY <1>1, <1>2, TypeCorrect, PTL DEF Spec, ImplementsFallbackLadder, Ladder!Spec

(* The pause after a frame that raised is long enough that no second frame raises next. *)
THEOREM CrashIsolated == Spec => CrashDoesNotRepeat
  <1>1. ASSUME TypeOK, decision = "raised" => stage = Ladder!AltitudeSeparation,
               [Next]_vars, decision = "raised", decision' = "raised"
        PROVE  UNCHANGED vars
    <2> USE TimingAssumption
    <2>1. ASSUME NEW dt \in Intervals, FeasibleFrame(dt) PROVE FALSE
      BY <1>1, <2>1 DEF FeasibleFrame, DecisionOn
    <2>2. ASSUME NEW dt \in Intervals, NEW ownValid \in BOOLEAN,
                 InfeasibleFrame(dt, ownValid)
          PROVE  FALSE
      <3>1. dt = RestartDelay
        BY <1>1, <2>2 DEF Intervals
      <3>2. DwellElapsed(dt)
        BY <1>1, <3>1 DEF DwellElapsed, StageAgeAfter, Saturated, TypeOK
      <3>3. stage' = Ladder!Hold
        BY <1>1, <2>2, <3>2 DEF InfeasibleFrame, EnterOrStay, NextStage
      <3> QED BY <1>1, <2>2, <3>3 DEF InfeasibleFrame, DecisionOn
    <2> QED BY <1>1, <2>1, <2>2 DEF Next
  <1>2. IInv /\ [Next]_vars => [decision = "raised" => decision' # "raised"]_vars
    BY <1>1 DEF IInv, RaisedOnAltitude
  <1> QED BY <1>2, Invariance, PTL DEF Spec, CrashDoesNotRepeat

-----------------------------------------------------------------------------
(* How an emergency ends once the gate is feasible again.  That frames go   *)
(* on is fairness and stays with TLC (PersistentFeasibilityRecovers).       *)

(* No emergency outlives a feasible streak of the confirmation time. *)
StreakIsShort == stage # Ladder!Normal => feasibleAge < RecoveryConfirmation

(* A feasible frame that leaves the emergency standing counts with its whole interval. *)
StreakCounts ==
  \A dt \in Intervals :
    FeasibleFrame(dt) /\ stage' # Ladder!Normal
      => feasibleAge' = IF feasibleAge = NoStreak THEN 0 ELSE feasibleAge + dt

(* A feasible frame never starts an emergency. *)
FeasibleStaysNormal ==
  stage = Ladder!Normal /\ feasibleAge' # NoStreak => stage' = Ladder!Normal

RecoveryRunsDown == []StreakIsShort /\ [][StreakCounts /\ FeasibleStaysNormal]_vars

(***************************************************************************)
(* Recovery is timely as well as confirmed: the feasible frames of an      *)
(* emergency span less than the confirmation time, and none of their time  *)
(* is lost (the measure behind PersistentFeasibilityRecovers).             *)
(***************************************************************************)
THEOREM RecoveryMeasured == Spec => RecoveryRunsDown
  <1> USE TimingAssumption
  <1>1. Init => StreakIsShort
    BY DEF Init, StreakIsShort
  <1>2. ASSUME NEW dt \in Intervals, TypeOK, FeasibleFrame(dt)
        PROVE  /\ feasibleAge' = StreakAfter(dt)
               /\ stage' # Ladder!Normal =>
                    /\ stage # Ladder!Normal
                    /\ StreakAfter(dt) < RecoveryConfirmation
               /\ StreakAfter(dt) < RecoveryConfirmation =>
                    StreakAfter(dt) = IF feasibleAge = NoStreak THEN 0 ELSE feasibleAge + dt
    <2>1. /\ dt \in Nat
          /\ feasibleAge \in NoStreak .. RecoveryConfirmation
      BY <1>2, IntervalsArePositive DEF TypeOK
    <2>2. StreakAfter(dt) \in 0 .. RecoveryConfirmation
      BY <2>1 DEF StreakAfter, Saturated, NoStreak
    <2>3. /\ feasibleAge' = StreakAfter(dt)
          /\ stage' = IF StreakAfter(dt) >= RecoveryConfirmation THEN Ladder!Normal ELSE stage
      BY <1>2 DEF FeasibleFrame, EnterOrStay
    <2>4. StreakAfter(dt) < RecoveryConfirmation =>
            StreakAfter(dt) = IF feasibleAge = NoStreak THEN 0 ELSE feasibleAge + dt
      BY <2>1 DEF StreakAfter, Saturated, NoStreak
    <2> QED BY <2>2, <2>3, <2>4
  <1>3. ASSUME NEW dt \in Intervals, NEW ownValid \in BOOLEAN, InfeasibleFrame(dt, ownValid)
        PROVE  feasibleAge' = NoStreak
    BY <1>3 DEF InfeasibleFrame, StreakOnInfeasible
  <1>4. ASSUME TypeOK, StreakIsShort, [Next]_vars  PROVE StreakIsShort'
    <2>1. CASE \E dt \in Intervals : FeasibleFrame(dt)
      BY <1>2, <1>4, <2>1 DEF StreakIsShort
    <2>2. CASE \E dt \in Intervals, ownValid \in BOOLEAN : InfeasibleFrame(dt, ownValid)
      BY <1>3, <2>2 DEF StreakIsShort, NoStreak
    <2>3. CASE UNCHANGED vars
      BY <1>4, <2>3 DEF vars, StreakIsShort
    <2> QED BY <1>4, <2>1, <2>2, <2>3 DEF Next
  <1>5. ASSUME TypeOK, [Next]_vars  PROVE [StreakCounts /\ FeasibleStaysNormal]_vars
    <2>1. StreakCounts
      BY <1>2, <1>5 DEF StreakCounts
    <2>2. CASE \E dt \in Intervals : FeasibleFrame(dt)
      BY <1>2, <1>5, <2>1, <2>2 DEF FeasibleStaysNormal
    <2>3. CASE \E dt \in Intervals, ownValid \in BOOLEAN : InfeasibleFrame(dt, ownValid)
      BY <1>3, <2>1, <2>3 DEF FeasibleStaysNormal
    <2>4. CASE UNCHANGED vars
      BY <2>4
    <2> QED BY <1>5, <2>2, <2>3, <2>4 DEF Next
  <1> QED BY <1>1, <1>4, <1>5, TypeCorrect, PTL DEF Spec, RecoveryRunsDown
=============================================================================
