------------------------ MODULE ConflictCoordinator ------------------------
(***************************************************************************)
(* The right-of-way layer of a pair of vehicles (conflict_coordinator.py)  *)
(* as the bridge uses it: ConflictCoordinator.shared gives the workers of  *)
(* both vehicles ONE encounter state and one lock.  Each worker, at its    *)
(* own pace and with its own view of the geometry, either filters its      *)
(* command through the layer, resets the layer (a frame in which its       *)
(* vehicle does not fly the companion's command), or fails before reaching *)
(* it (cbf_rl_shadow.py).  A call is one step: it holds the lock.          *)
(***************************************************************************)
EXTENDS Integers

CONSTANTS
  First, Second,        \* the two vehicles, in lexicographic order
  ReleaseFrames,        \* config.release_frames
  ObservationsPerFrame, \* _release_observations_per_frame
  MaxEncounters         \* bound: encounters explored

None == "none"        \* Python's None: names no vehicle

Drones == {First, Second}

ASSUME CoordinatorAssumption ==
  /\ First # Second
  /\ None \notin Drones
  /\ ReleaseFrames \in Nat \ {0}
  /\ ObservationsPerFrame \in Nat \ {0}
  /\ MaxEncounters \in Nat

VARIABLES
  config,       \* the switches of ConflictCoordinatorConfig, never changed
  state,        \* the shared _EncounterState
  report,       \* per vehicle: what its last evaluation said of the encounter
  confirmed,    \* history: releasing observations in a row, of either vehicle
  since,        \* history: what happened since the present encounter began
  threatened    \* history: the last observation predicted a conflict

vars == <<config, state, report, confirmed, since, threatened>>

Threshold == ReleaseFrames * ObservationsPerFrame

Configs == [atReserve : BOOLEAN,      \* release_at_reserve_when_nonclosing
            needsCleared : BOOLEAN,   \* release_needs_threat_cleared
            lateral : BOOLEAN]        \* yield_lateral_speed_m_s > 0

(***************************************************************************)
(* Distances are told apart by the thresholds they have reached; __post_   *)
(* init__ orders them reserve < release < encounter reset < trigger.       *)
(***************************************************************************)
Reserve == 1
Release == 2
EncounterReset == 3
Trigger == 4

(***************************************************************************)
(* What one vehicle sees.  The conflict is predicted with the vehicle's    *)
(* own mission velocity, the motion is the measured one: neither decides   *)
(* the other, and the two vehicles may disagree on both.                   *)
(***************************************************************************)
Observations ==
  {o \in [threat : BOOLEAN, distance : 0 .. Trigger,
          motion : {"closing", "steady", "opening"},
          mission : {"horizontal", "vertical"}] :
     o.threat => o.distance < Trigger}

States == [encounter : 0 .. MaxEncounters,
           active : BOOLEAN,
           priority : Drones \cup {None},
           releaseCount : 0 .. Threshold,
           suppressed : BOOLEAN,               \* released_until_clear
           clearFrames : 0 .. ReleaseFrames,
           heading : Drones \cup {None},       \* whose path yield_heading is
           maneuver : {None, "horizontal", "vertical"}]  \* yield_vertical

Roles == {"clear", "priority", "yield", "disabled", "fallback"}

Reports == [role : Roles, encounter : 0 .. MaxEncounters]

TypeOK ==
  /\ config \in Configs
  /\ state \in States
  /\ report \in [Drones -> Reports]
  /\ confirmed \in 0 .. Threshold
  /\ since \in SUBSET {"eased", "reset"}
  /\ threatened \in BOOLEAN

FreshState == [encounter |-> 0, active |-> FALSE, priority |-> None,
               releaseCount |-> 0, suppressed |-> FALSE, clearFrames |-> 0,
               heading |-> None, maneuver |-> None]

Init ==
  /\ config \in Configs
  /\ state = FreshState
  /\ report = [d \in Drones |-> [role |-> "fallback", encounter |-> 0]]
  /\ confirmed = 0
  /\ since = {}
  /\ threatened = FALSE

-----------------------------------------------------------------------------
(* One filter call: five edits of the state, in the order of the code.     *)

Apart(o) == o.distance >= EncounterReset /\ o.motion = "opening"

(* Mutant: the quiet frames are counted without a release. *)
RearmAlwaysCounts(s, o) ==
  [s EXCEPT !.clearFrames = IF o.threat THEN 0 ELSE s.clearFrames + 1]

(* Mutant: only distance ends the suppression, as it used to. *)
RearmOnlyApart(s, o) ==
  IF s.suppressed /\ Apart(o)
  THEN [s EXCEPT !.suppressed = FALSE, !.priority = None]
  ELSE s

(* A released encounter stays off until the pair is apart or quiet. *)
Rearm(s, o) ==
  LET quiet == IF o.threat THEN 0 ELSE s.clearFrames + 1
  IN  IF ~s.suppressed THEN s
      ELSE IF Apart(o) \/ quiet >= ReleaseFrames
      THEN [s EXCEPT !.suppressed = FALSE, !.priority = None,
                     !.clearFrames = 0]
      ELSE [s EXCEPT !.clearFrames = quiet]

(* Mutant: the right of way lapses as soon as nobody yields. *)
LapseAtOnce(s, o) ==
  IF ~s.active /\ ~s.suppressed THEN [s EXCEPT !.priority = None] ELSE s

(* The right of way of a past encounter lapses once the pair is apart. *)
Lapse(s, o) ==
  IF ~s.active /\ ~s.suppressed /\ Apart(o)
  THEN [s EXCEPT !.priority = None]
  ELSE s

(* The vehicles take turns: the first encounter belongs to the first. *)
Holder(n) == IF n % 2 = 1 THEN First ELSE Second

Begin(s) ==
  IF s.priority # None THEN s
  ELSE [s EXCEPT !.encounter = s.encounter + 1,
                 !.priority = Holder(s.encounter + 1)]

(* Mutant: the turn passes on at every engagement of the same encounter. *)
LatchTakesTurns(s, o) ==
  IF ~s.active /\ ~s.suppressed /\ o.threat
  THEN [Begin(s) EXCEPT !.active = TRUE, !.releaseCount = 0,
                        !.priority = Holder(s.encounter + 1)]
  ELSE s

Latch(s, o) ==
  IF ~s.active /\ ~s.suppressed /\ o.threat
  THEN [Begin(s) EXCEPT !.active = TRUE, !.releaseCount = 0]
  ELSE s

Releasing(o) ==
  /\ o.distance >= (IF config.atReserve THEN Reserve ELSE Release)
  /\ o.motion \in (IF config.atReserve THEN {"steady", "opening"}
                                       ELSE {"opening"})
  /\ config.needsCleared => ~o.threat

(* Mutant: the lane change outlives the encounter. *)
LetGoKeepsLane(s, o) ==
  [s EXCEPT !.active = FALSE, !.releaseCount = 0,
            !.suppressed = config.atReserve \/ s.suppressed,
            !.priority = IF ~config.atReserve /\ o.distance >= EncounterReset
                         THEN None ELSE s.priority]

LetGo(s, o) ==
  [s EXCEPT !.active = FALSE, !.releaseCount = 0,
            !.heading = None, !.maneuver = None,
            !.suppressed = config.atReserve \/ s.suppressed,
            !.priority = IF ~config.atReserve /\ o.distance >= EncounterReset
                         THEN None ELSE s.priority]

(* Mutant: a disagreeing observation does not restart the count. *)
CountReleaseTotal(s, o) ==
  LET n == IF Releasing(o) THEN s.releaseCount + 1 ELSE s.releaseCount
  IN  IF ~s.active THEN s
      ELSE IF n >= Threshold THEN LetGo(s, o)
      ELSE [s EXCEPT !.releaseCount = n]

CountRelease(s, o) ==
  LET n == IF Releasing(o) THEN s.releaseCount + 1 ELSE 0
  IN  IF ~s.active THEN s
      ELSE IF n >= Threshold THEN LetGo(s, o)
      ELSE [s EXCEPT !.releaseCount = n]

Role(d, s) == IF ~s.active THEN "clear"
              ELSE IF s.priority = d THEN "priority" ELSE "yield"

(* Mutant: the kind of lane change is decided anew on every frame. *)
ManeuverRedecided(d, s, o) ==
  IF ~config.lateral \/ Role(d, s) # "yield" THEN s
  ELSE [s EXCEPT !.maneuver = o.mission,
                 !.heading = IF o.mission = "horizontal" /\ s.heading = None
                             THEN d ELSE s.heading]

(***************************************************************************)
(* The kind of lane change is decided on the first frame of a yield; a     *)
(* horizontal one also keeps the direction the mission had when it began.  *)
(***************************************************************************)
Maneuver(d, s, o) ==
  LET kind == IF s.maneuver = None THEN o.mission ELSE s.maneuver
      steers == kind = "horizontal" /\ o.mission = "horizontal"
  IN  IF ~config.lateral \/ Role(d, s) # "yield" THEN s
      ELSE [s EXCEPT !.maneuver = kind,
                     !.heading = IF steers /\ s.heading = None
                                 THEN d ELSE s.heading]

Settled(s, o) == CountRelease(Latch(Lapse(Rearm(s, o), o), o), o)

Filtered(d, s, o) == Maneuver(d, Settled(s, o), o)

-----------------------------------------------------------------------------
(* The evaluations of one vehicle.                                         *)

Eases(o) == ~o.threat \/ Apart(o)

Observe(d, o) ==
  LET s == Filtered(d, state, o)
  IN  /\ s.encounter <= MaxEncounters
      /\ state' = s
      /\ report' = [report EXCEPT ![d] = [role |-> Role(d, s),
                                          encounter |-> s.encounter]]
      /\ confirmed' = IF ~Releasing(o) THEN 0
                      ELSE IF confirmed = Threshold THEN Threshold
                      ELSE confirmed + 1
      /\ since' = (IF s.encounter # state.encounter THEN {} ELSE since)
                    \cup (IF Eases(o) THEN {"eased"} ELSE {})
      /\ threatened' = o.threat
      /\ UNCHANGED config

(* evaluate_candidate without "apply": the vehicle is not station keeping, *)
(* or has no active nominal command.                                       *)
StandDown(d) ==
  /\ state' = [FreshState EXCEPT !.encounter = state.encounter]
  /\ report' = [report EXCEPT ![d] = [role |-> "disabled", encounter |-> 0]]
  /\ since' = since \cup {"reset"}
  /\ UNCHANGED <<config, confirmed, threatened>>

(* The contract, the observation or the vectors are refused: the exception *)
(* leaves the shared state as it is.                                       *)
Refuse(d) ==
  /\ report' = [report EXCEPT ![d] = [role |-> "fallback", encounter |-> 0]]
  /\ UNCHANGED <<config, state, confirmed, since, threatened>>

Next ==
  \E d \in Drones :
    \/ \E o \in Observations : Observe(d, o)
    \/ StandDown(d)
    \/ Refuse(d)

Spec == Init /\ [][Next]_vars

(* The workers of both vehicles go on evaluating their frames. *)
Filtering == \E d \in Drones, o \in Observations : Observe(d, o)

FairSpec == Spec /\ WF_vars(Filtering)

-----------------------------------------------------------------------------
(* Properties.                                                             *)

(***************************************************************************)
(* Two vehicles that last acted in the same encounter do not both go first *)
(* and do not both yield, whatever each of them saw and whenever it was    *)
(* evaluated: the role derives from the shared right of way.               *)
(***************************************************************************)
OneRightOfWay ==
  \A d, e \in Drones :
    LET both == {report[d].role, report[e].role}
    IN  /\ d # e
        /\ report[d].encounter = report[e].encounter
        /\ both \subseteq {"priority", "yield"}
        => both = {"priority", "yield"}

(***************************************************************************)
(* The right of way does not pass on in the middle of a conflict: a new    *)
(* encounter begins only if, since the last one began, some vehicle saw    *)
(* the conflict gone or the pair apart and opening, or some vehicle stood  *)
(* down.                                                                   *)
(***************************************************************************)
RightOfWayIsHeld ==
  [][ /\ state.encounter > 0
      /\ state'.encounter # state.encounter
      => since \cup since' # {} ]_vars

(***************************************************************************)
(* filter ends an encounter only on Threshold releasing observations in a  *)
(* row, counted over both vehicles: one observation of either vehicle that *)
(* disagrees starts the count again.                                       *)
(***************************************************************************)
ReleaseIsConfirmed ==
  [][ /\ state.active
      /\ ~state'.active
      => \/ confirmed' = Threshold
         \/ \E d \in Drones : StandDown(d) ]_vars

(***************************************************************************)
(* The direction frozen for a lane change is the yielding vehicle's own,   *)
(* and none is left over from an encounter that ended: the state is shared *)
(* by both vehicles, and the next yield is often the other one's.          *)
(***************************************************************************)
LaneChangeIsYielders ==
  /\ state.maneuver # None => state.active
  /\ state.heading # None => /\ state.maneuver = "horizontal"
                             /\ state.heading # state.priority

(***************************************************************************)
(* A lane change keeps its kind and its direction as long as the encounter *)
(* lasts, whatever the mission command of later frames looks like.         *)
(***************************************************************************)
LaneChangeIsKept ==
  [][ state'.active =>
        /\ state.maneuver # None => state'.maneuver = state.maneuver
        /\ state.heading # None => state'.heading = state.heading ]_vars

(***************************************************************************)
(* Coordination does not stay off after a release: once the pair is quiet  *)
(* for good, the suppression is lifted, even if it never gets far apart.   *)
(***************************************************************************)
SuppressionLifts == <>[]~threatened => []<>~state.suppressed

(***************************************************************************)
(* "Latch one encounter and alternate right-of-way between encounters"     *)
(* (the class's docstring): a new encounter begins only after some vehicle *)
(* saw the old one eased.                                                  *)
(***************************************************************************)
AlternatesBetweenEncounters ==
  [][ /\ state.encounter > 0
      /\ state'.encounter # state.encounter
      => "eased" \in since \cup since' ]_vars

=============================================================================
