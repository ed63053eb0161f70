------------------------ MODULE EmergencySupervisor ------------------------
(***************************************************************************)
(* EmergencySupervisor.evaluate, called once per companion frame with the  *)
(* verdict of the CBF gate (feasible or not) and with the own altitude,    *)
(* which exists exactly when the own state is valid.  Time is counted in   *)
(* ticks.  The code keeps absolute instants and compares differences; the  *)
(* model keeps the differences, saturated where no comparison can tell     *)
(* larger values apart.                                                    *)
(***************************************************************************)
EXTENDS Integers

CONSTANTS
  StageDwell,            \* stage_dwell_s
  RecoveryConfirmation,  \* recovery_confirmation_s
  MaxInterval,           \* longest gap between two frames of a live worker
  RestartDelay,          \* pause of the worker after a frame that raised
  TargetInGeofence       \* _altitude_separation_precondition_met()

ASSUME TimingAssumption ==
  /\ StageDwell \in Nat \ {0}
  /\ RecoveryConfirmation \in Nat \ {0}
  /\ MaxInterval \in Nat \ {0}
  /\ RestartDelay \in Nat
  /\ RestartDelay >= StageDwell

ASSUME GeofenceAssumption == TargetInGeofence \in BOOLEAN

VARIABLES
  stage,           \* self._stage, as its index in STAGE_ORDER
  stageAge,        \* now - self._stage_entered_monotonic_s
  feasibleAge,     \* now - self._feasible_streak_started, or NoStreak
  decision,        \* the velocity the last frame decided on
  faultAge,        \* history: time since the ladder last left NORMAL
  unbroken,        \* history: time since the first of the present run of infeasible frames
  sinceInfeasible, \* history: time since the last infeasible frame
  frameParity      \* history: flips every frame, so that a frame is never a stutter

vars == <<stage, stageAge, feasibleAge, decision, faultAge, unbroken, sinceInfeasible,
          frameParity>>

Ladder == INSTANCE FallbackLadder WITH rung <- stage

NoStreak == -1
FaultAgeCap == 5 * StageDwell

(* The longest a run of infeasible frames keeps a rung: a dwell not yet over and one more pause. *)
LongestStay == StageDwell - 1 + MaxInterval
LongestStayIfRaised ==
  StageDwell - 1 + (IF RestartDelay <= MaxInterval THEN MaxInterval ELSE RestartDelay)
UnbrokenCap == 4 * LongestStay + LongestStayIfRaised + 1

Saturated(age, cap) == IF age <= cap THEN age ELSE cap

Decisions == {"none", "cbf", "zero", "vertical", "raised"}

TypeOK ==
  /\ stage \in Ladder!Stages
  /\ stageAge \in 0 .. StageDwell
  /\ feasibleAge \in NoStreak .. RecoveryConfirmation
  /\ decision \in Decisions
  /\ faultAge \in 0 .. FaultAgeCap
  /\ unbroken \in 0 .. UnbrokenCap
  /\ sinceInfeasible \in 0 .. RecoveryConfirmation
  /\ frameParity \in {0, 1}

Init ==
  /\ stage = Ladder!Normal
  /\ stageAge = 0
  /\ feasibleAge = NoStreak
  /\ decision = "none"
  /\ faultAge = 0
  /\ unbroken = 0
  /\ sinceInfeasible = RecoveryConfirmation
  /\ frameParity = 0

(* Mutants of NextStage: no top; STOP_HORIZONTAL jumped over; an unflyable rung waited for. *)
NextStageUnbounded(ownValid) == stage + 1
NextStageSkips(ownValid) == stage + (IF stage < Ladder!RecommendPosition THEN 2 ELSE 1)
NextStageBlocked(ownValid) ==
  IF \/ stage = Ladder!RecommendRtlOrLand
     \/ stage = Ladder!ReduceVelocity /\ ~(ownValid /\ TargetInGeofence)
  THEN stage ELSE stage + 1

(***************************************************************************)
(* The rung above the current one.  ALTITUDE_SEPARATION is passed over     *)
(* when it cannot be flown.  The last rung has none above it.              *)
(***************************************************************************)
NextStage(ownValid) ==
  IF stage = Ladder!RecommendRtlOrLand THEN stage
  ELSE IF /\ stage = Ladder!ReduceVelocity
          /\ ~(ownValid /\ TargetInGeofence)
       THEN Ladder!Hold
       ELSE stage + 1

(* What _decision returns for a rung; it raises where the altitude it needs is missing. *)
DecisionOn(rung, ownValid) ==
  CASE rung = Ladder!Normal -> "cbf"
    [] rung = Ladder!AltitudeSeparation /\ ownValid -> "vertical"
    [] rung = Ladder!AltitudeSeparation /\ ~ownValid -> "raised"
    [] OTHER -> "zero"

(* A frame that raised ends the session; the worker pauses before the next one. *)
Intervals == IF decision = "raised" THEN {RestartDelay} ELSE 1 .. MaxInterval

(* Mutants of the clocks: time lost between frames; an early dwell; a streak never running or never reset. *)
StageAgeForgotten(dt) == IF dt > MaxInterval THEN stageAge ELSE Saturated(stageAge + dt, StageDwell)
DwellElapsedEarly(dt) == Saturated(stageAge + dt, StageDwell) >= StageDwell - 1
StreakRestarted(dt) == 0
StreakKept == feasibleAge

StageAgeAfter(dt) == Saturated(stageAge + dt, StageDwell)

DwellElapsed(dt) == StageAgeAfter(dt) >= StageDwell

(* The streak starts at its first feasible frame and has length zero there. *)
StreakAfter(dt) ==
  IF feasibleAge = NoStreak THEN 0
  ELSE Saturated(feasibleAge + dt, RecoveryConfirmation)

StreakOnInfeasible == NoStreak

(* _enter, and its absence: the age restarts exactly when the rung is entered. *)
EnterOrStay(next, dt) ==
  /\ stage' = next
  /\ stageAge' = IF next # stage THEN 0 ELSE StageAgeAfter(dt)
  /\ faultAge' = IF stage = Ladder!Normal \/ next = Ladder!Normal THEN 0
                 ELSE Saturated(faultAge + dt, FaultAgeCap)
  /\ frameParity' = 1 - frameParity

(* cbf_command.active: the gate is never active without a valid own state. *)
FeasibleFrame(dt) ==
  /\ feasibleAge' = StreakAfter(dt)
  /\ EnterOrStay(IF StreakAfter(dt) >= RecoveryConfirmation
                 THEN Ladder!Normal ELSE stage, dt)
  /\ decision' = DecisionOn(stage', TRUE)
  /\ unbroken' = 0
  /\ sinceInfeasible' = Saturated(sinceInfeasible + dt, RecoveryConfirmation)

(* The rung, its age and the streak are updated before _decision may raise. *)
InfeasibleFrame(dt, ownValid) ==
  /\ feasibleAge' = StreakOnInfeasible
  /\ EnterOrStay(IF stage = Ladder!Normal \/ DwellElapsed(dt)
                 THEN NextStage(ownValid) ELSE stage, dt)
  /\ decision' = DecisionOn(stage', ownValid)
  /\ unbroken' = IF feasibleAge = NoStreak /\ stage # Ladder!Normal
                 THEN Saturated(unbroken + dt, UnbrokenCap) ELSE 0
  /\ sinceInfeasible' = 0

Next ==
  \E dt \in Intervals :
    \/ FeasibleFrame(dt)
    \/ \E ownValid \in BOOLEAN : InfeasibleFrame(dt, ownValid)

Spec == Init /\ [][Next]_vars

(* The worker loop never stops calling evaluate, and pauses are finite. *)
FairSpec == Spec /\ WF_vars(Next)

-----------------------------------------------------------------------------
(***************************************************************************)
(* Escalation is paced: whatever frames arrive, at whatever spacing, a     *)
(* rung is reached only after the full dwell was spent on every rung below *)
(* it since the vehicle left NORMAL.  The rung that may be passed over     *)
(* contributes nothing.                                                    *)
(***************************************************************************)
EarliestArrival(rung) ==
  StageDwell * CASE rung \in {Ladder!Normal, Ladder!StopHorizontal} -> 0
                 [] rung = Ladder!ReduceVelocity -> 1
                 [] rung \in {Ladder!AltitudeSeparation, Ladder!Hold} -> 2
                 [] rung = Ladder!RecommendPosition -> 3
                 [] OTHER -> 4

EscalationIsPaced == faultAge >= EarliestArrival(stage)

(***************************************************************************)
(* Escalation is also timely: while every frame is infeasible, no rung but *)
(* the last is kept beyond a bound, whether or not the rung that needs an  *)
(* altitude can be flown, and even when a frame raises on it (the pause    *)
(* that follows counts once).  With EscalationIsPaced it encloses the time *)
(* at which each rung is reached.                                          *)
(***************************************************************************)
LatestArrival(rung) ==
  CASE rung = Ladder!StopHorizontal -> 0
    [] rung = Ladder!ReduceVelocity -> LongestStay
    [] rung = Ladder!AltitudeSeparation -> 2 * LongestStay
    [] rung = Ladder!Hold -> 2 * LongestStay + LongestStayIfRaised
    [] rung = Ladder!RecommendPosition -> 3 * LongestStay + LongestStayIfRaised
    [] OTHER -> 4 * LongestStay + LongestStayIfRaised

EscalationIsTimely ==
  feasibleAge = NoStreak /\ stage \notin {Ladder!Normal, Ladder!RecommendRtlOrLand}
    => unbroken <= LatestArrival(stage) + StageDwell - 1

(***************************************************************************)
(* Recovery is confirmed: the ladder comes down only when no infeasible    *)
(* frame was seen for the whole confirmation time, however feasible and    *)
(* infeasible frames alternate (comment at emergency_supervisor.py:76).    *)
(***************************************************************************)
RecoveryIsConfirmed ==
  [][stage # Ladder!Normal /\ stage' = Ladder!Normal
       => sinceInfeasible' >= RecoveryConfirmation]_vars

(* The ladder climbs one rung at a time and recovers all-or-nothing (STAGE_ORDER's comment). *)
ImplementsFallbackLadder == Ladder!Spec

(***************************************************************************)
(* A frame that raised in ALTITUDE_SEPARATION is not followed by another   *)
(* one: the pause after it outlasts the dwell, so the next infeasible      *)
(* frame is on a rung that needs no altitude.                              *)
(***************************************************************************)
CrashDoesNotRepeat == [][decision = "raised" => decision' # "raised"]_vars

(* A gate that stays feasible ends every emergency for good. *)
PersistentFeasibilityRecovers ==
  <>[](feasibleAge # NoStreak) => <>[](stage = Ladder!Normal)

(***************************************************************************)
(* The assertion in _decision: on the ALTITUDE_SEPARATION rung the own     *)
(* altitude is always known, "guaranteed by _next_stage's precondition     *)
(* gate" (emergency_supervisor.py:271).                                    *)
(***************************************************************************)
AltitudeKnownInAltitudeSeparation == decision # "raised"
=============================================================================
