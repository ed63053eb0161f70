--------------------------- MODULE FollowWorkflow ---------------------------
(***************************************************************************)
(* The workflow of the Visual Follow: from a selected target over pointing *)
(* and the operator's authorization to PX4's Follow mode and back to HOLD. *)
(* Three threads take the manager's lock in turn: the operator's requests, *)
(* the frame worker, which releases it while the tracker runs, and the     *)
(* pointing worker. The configuration is the one that can authorize a      *)
(* Follow at all: gimbal, Visual Follow and native Follow enabled.         *)
(***************************************************************************)
EXTENDS Naturals

CONSTANTS HoldFrames,          \* hold_rejected_frames of the box filter
          LegacyAutomation     \* legacy_automation_enabled

ASSUME FollowWorkflowAssumption ==
    /\ HoldFrames \in Nat
    /\ LegacyAutomation \in BOOLEAN

VARIABLES
    tracker,      \* no session, a session without a target, or a target tracked
    inFlight,     \* the frame the tracker works on, and what changed since it was taken
    box,          \* latest_result has a bounding box
    rejected,     \* consecutive frames whose box the filter rejected
    snapshot,     \* selection_snapshot: absent, unusable, stale (refreshable) or valid
    state,        \* follow_workflow.state
    waited,       \* the state's own time (hold, confirmation) is over
    reason,       \* why HOLD was entered, as far as it matters here
    requested,    \* visual_follow_requested: the operator's authorization
    following,    \* visual_follow_active: PX4 has confirmed the Follow mode
    estimate,     \* target_estimate: invalid, anchored to the selection, measured
    foreign,      \* history: since the selection a frame of an earlier one was used
    operational,  \* metric_target_fusion.operational
    dropout,      \* follow_estimate_invalid_since: the grace of a lost estimate
    boundary,     \* visual_follow_boundary_invalid_since: the grace of a lost box
    due,          \* the publishing interval is over
    moving,       \* the manager's own motion commands are being sent
    engaged       \* history: PX4 confirmed Follow since the authorization

vars == <<tracker, inFlight, box, rejected, snapshot, state, waited, reason,
          requested, following, estimate, foreign, operational, dropout,
          boundary, due, moving, engaged>>

Pointing == {"POINTING", "POINTING_STABLE", "ACQUIRING_RANGE"}
Engaging == {"TARGET_INITIALIZED", "PRESTREAMING_TARGET", "REQUESTING_FOLLOW_MODE"}
GraceStates == Engaging \cup {"FOLLOWING", "DEGRADED"}
AuthorizedStates == GraceStates \cup {"RGB_BOOTSTRAP"}
ProvisionalStates == GraceStates \cup {"ACQUIRING_RANGE"}
States == {"IDLE", "SELECTING", "HOLD"} \cup Pointing \cup AuthorizedStates

Timers == {"off", "running", "elapsed"}

\* Every variable keeps its type.
TypeOK ==
    /\ tracker \in {"none", "idle", "tracking"}
    /\ inFlight \in {"none", "current", "reselected", "restarted"}
    /\ box \in BOOLEAN
    /\ rejected \in 0 .. HoldFrames + 1
    /\ snapshot \in {"none", "unusable", "stale", "valid"}
    /\ state \in States
    /\ waited \in BOOLEAN
    /\ reason \in {"other", "estimate_lost"}
    /\ requested \in BOOLEAN /\ following \in BOOLEAN
    /\ estimate \in {"invalid", "anchored", "measured"}
    /\ foreign \in BOOLEAN
    /\ operational \in BOOLEAN
    /\ dropout \in Timers /\ boundary \in Timers
    /\ due \in BOOLEAN
    /\ moving \in BOOLEAN
    /\ engaged \in BOOLEAN

Init ==
    /\ tracker = "none" /\ inFlight = "none" /\ box = FALSE
    /\ rejected = HoldFrames + 1
    /\ snapshot = "none"
    /\ state = "IDLE" /\ waited = FALSE /\ reason = "other"
    /\ requested = FALSE /\ following = FALSE
    /\ estimate = "invalid" /\ foreign = FALSE
    /\ operational \in BOOLEAN
    /\ dropout = "off" /\ boundary = "off"
    /\ due = TRUE /\ moving = FALSE /\ engaged = FALSE

-----------------------------------------------------------------------------
(* What every handler is built from.                                       *)

\* transition: the state's own time starts over when the state changes.
Enter(new) ==
    /\ state' = new
    /\ waited' = (waited /\ new = state)
    /\ reason' = IF new = state THEN reason ELSE "other"

Stay == UNCHANGED <<state, waited, reason>>
Go == UNCHANGED <<requested, following>>

\* _stop_visual_follow_locked; the grace of a lost estimate is not touched.
Stop ==
    /\ requested' = FALSE /\ following' = FALSE
    /\ boundary' = "off" /\ due' = TRUE

\* _abort_follow_workflow_locked.
Hold(why) ==
    /\ Stop
    /\ state' = "HOLD" /\ reason' = why
    /\ waited' = (waited /\ state = "HOLD")

\* _reset_gimbal_locked: everything derived from the target is forgotten.
ResetTarget ==
    /\ Stop
    /\ box' = FALSE /\ rejected' = HoldFrames + 1
    /\ estimate' = "invalid" /\ foreign' = FALSE
    /\ moving' = FALSE

Started(timer) == IF timer = "off" THEN "running" ELSE timer

\* _stop_visual_follow_at_boundary_locked: a passing loss has its grace while
\* a Follow is authorized, anything else ends the authorization.
Boundary(passing, since) ==
    LET grace == /\ passing /\ requested /\ state \in GraceStates
                 /\ Started(since) # "elapsed"
        bound == requested \/ following \/ state \in AuthorizedStates
    IN  \/ grace /\ boundary' = Started(since) /\ Go /\ UNCHANGED due /\ Stay
        \/ ~ grace /\ bound /\ Hold("other")
        \/ ~ grace /\ ~ bound /\ Stop /\ Stay

\* Mutant: only DEGRADED stops the manager's own motion.
MotionsOnHold(st, authorized) ==
    IF st = "DEGRADED" THEN {FALSE}
    ELSE IF ~ authorized THEN BOOLEAN
    ELSE IF st = "RGB_BOOTSTRAP" THEN {moving}
    ELSE {FALSE}

\* The manager's own motion after a frame: none in DEGRADED and HOLD, the
\* recentring while nothing is authorized, whatever it was in a bootstrap.
Motions(st, authorized) ==
    IF st \in {"DEGRADED", "HOLD"} THEN {FALSE}
    ELSE IF ~ authorized THEN BOOLEAN
    ELSE IF st = "RGB_BOOTSTRAP" THEN {moving}
    ELSE {FALSE}

-----------------------------------------------------------------------------
(* The operator's requests.                                                *)

\* A change of the target makes the frame being tracked an older one's.
Outdated(why) ==
    inFlight' = CASE inFlight = "none" -> "none"
                  [] inFlight = "restarted" -> "restarted"
                  [] OTHER -> why

StartTracking ==
    /\ tracker' = "idle" /\ snapshot' = "none"
    /\ Outdated("restarted")
    /\ Enter("SELECTING")
    /\ ResetTarget
    /\ UNCHANGED <<operational, dropout, engaged>>

StopTracking ==
    /\ tracker' = "none" /\ snapshot' = "none"
    /\ Outdated("restarted")
    /\ Enter("IDLE")
    /\ ResetTarget
    /\ UNCHANGED <<operational, dropout, engaged>>

\* set_bbox: a new target, and the only place that clears every timer.
Select ==
    /\ tracker # "none"
    /\ tracker' = "tracking"
    /\ snapshot' \in {"unusable", "stale", "valid"}
    /\ Outdated("reselected")
    /\ Enter("POINTING")
    /\ ResetTarget
    /\ dropout' = "off"
    /\ UNCHANGED <<operational, engaged>>

\* set_visual_follow_requested(enabled=True): a measured target, or without
\* the metric path the legacy bootstrap.
Authorize ==
    /\ tracker = "tracking" /\ snapshot = "valid" /\ ~ requested
    /\ \/ /\ operational /\ state = "TARGET_INITIALIZED" /\ estimate = "measured"
          /\ Stay /\ UNCHANGED estimate
       \/ /\ ~ operational /\ state = "ACQUIRING_RANGE" /\ LegacyAutomation
          /\ Enter("RGB_BOOTSTRAP")
          /\ estimate' = "invalid"
    /\ requested' = TRUE
    /\ engaged' = FALSE
    /\ UNCHANGED <<tracker, inFlight, box, rejected, snapshot, following,
                   foreign, operational, dropout, boundary, due, moving>>

\* set_visual_follow_requested(enabled=False), at any time.
Disable ==
    /\ Stop
    /\ Enter(IF tracker = "tracking" THEN "POINTING" ELSE "HOLD")
    /\ UNCHANGED <<tracker, inFlight, box, rejected, snapshot, estimate, foreign,
                   operational, dropout, moving, engaged>>

Operator == StartTracking \/ StopTracking \/ Select \/ Authorize \/ Disable

-----------------------------------------------------------------------------
(* The frame worker. A frame is taken under the lock, tracked without it   *)
(* and used under it again.                                                *)

Manager == <<tracker, box, rejected, snapshot, state, waited, reason, requested,
             following, estimate, foreign, operational, dropout, boundary,
             due, moving, engaged>>

Capture ==
    /\ tracker = "tracking" /\ inFlight = "none"
    /\ inFlight' = "current"
    /\ UNCHANGED Manager

\* Mutant: only the session is compared, which a new selection keeps.
SameSession == inFlight \in {"current", "reselected"}

\* Session, tracker and epoch are still those of the frame.
Matches == inFlight = "current"

Discard ==
    /\ inFlight # "none" /\ ~ Matches
    /\ inFlight' = "none"
    /\ UNCHANGED Manager

\* An exception of the tracker: the target is lost, the workflow is not told.
TrackerFails ==
    /\ Matches
    /\ inFlight' = "none"
    /\ tracker' = "idle"
    /\ ResetTarget
    /\ UNCHANGED <<snapshot, state, waited, reason, operational, dropout, engaged>>

\* _select_follow_target_estimate_locked: what a frame may make of the target.
Estimates(st) ==
    {"invalid"} \cup (IF st \in ProvisionalStates THEN {"anchored"} ELSE {})
                \cup (IF operational THEN {"measured"} ELSE {})

\* _update_pointing_workflow_locked: a refreshed selection points anew.
Pointed(steady, refreshed) ==
    LET from == IF snapshot = "stale" /\ refreshed THEN "POINTING" ELSE state
    IN  IF state \notin Pointing THEN state
        ELSE IF ~ steady THEN "POINTING"
        ELSE IF from = "POINTING" THEN "POINTING_STABLE"
        ELSE IF from = "POINTING_STABLE" /\ waited THEN "ACQUIRING_RANGE"
        ELSE from

\* A frame without authorization: pointing, and the selection's anchor makes
\* an acquired target an initialized one; an exception leaves the estimate.
Unauthorized ==
    /\ ~ requested
    /\ \E steady, refreshed, anchored \in BOOLEAN :
          LET st == Pointed(steady, refreshed)
          IN  /\ snapshot' = IF state \in Pointing /\ snapshot = "stale" /\ refreshed
                             THEN "valid" ELSE snapshot
              /\ steady => snapshot' = "valid"
              /\ anchored => st \in ProvisionalStates
              /\ Enter(IF anchored /\ st = "ACQUIRING_RANGE" THEN "TARGET_INITIALIZED" ELSE st)
              /\ \/ ~ anchored /\ UNCHANGED estimate
                 \/ /\ estimate' \in Estimates(st)
                    /\ estimate' = "measured" \/ (anchored <=> estimate' = "anchored")
    /\ Go
    /\ boundary' = "off"
    /\ UNCHANGED <<dropout, due, engaged>>

-----------------------------------------------------------------------------
(* A frame with authorization; "seen" tells whether it shows a box. The    *)
(* pointing update has nothing to do then.                                 *)

Bounded(seen) == boundary' = IF seen THEN "off" ELSE boundary

\* Mutant: any grace state degrades.
DegradedAny == "DEGRADED"

\* A lost estimate degrades a Follow that PX4 flies.
Degraded == IF state \in {"FOLLOWING", "DEGRADED"} THEN "DEGRADED" ELSE state

\* Mutant: the grace of a box-less target never ends.
EndlessGrace(seen) == state \notin GraceStates \/ (seen /\ dropout = "elapsed")

\* The grace of a lost estimate is over; without a box both graces count.
GraceOver(seen) ==
    \/ state \notin GraceStates
    \/ dropout = "elapsed"
    \/ ~ seen /\ boundary = "elapsed"

\* The estimate is invalid: grace from its first such frame on, then HOLD.
EstimateLost(seen) ==
    /\ estimate' = "invalid"
    /\ dropout' = IF state \in GraceStates THEN Started(dropout) ELSE dropout
    /\ \/ GraceOver(seen) /\ Hold("estimate_lost")
       \/ /\ ~ GraceOver(seen)
          /\ Enter(IF dropout = "off" THEN Degraded ELSE state)
          /\ boundary' = IF seen THEN "off" ELSE Started(boundary)
          /\ Go /\ UNCHANGED due
    /\ UNCHANGED engaged

\* Time to collision (not during the bootstrap) or an exception.
Blocked(seen) ==
    /\ \/ seen /\ state # "RGB_BOOTSTRAP" /\ estimate' \in Estimates(state)
       \/ UNCHANGED estimate
    /\ Hold("other")
    /\ UNCHANGED <<dropout, engaged>>

\* A valid estimate that is not measured, or a measured one whose pose,
\* parameters, mode request, projection, distance or publication is refused.
Unusable ==
    /\ estimate' \in Estimates(state) \ {"invalid"}
    /\ Hold("other")
    /\ dropout' = "off"
    /\ UNCHANGED engaged

\* What a measured target makes of the state before anything is published.
Regained ==
    CASE state = "DEGRADED" -> "FOLLOWING"
      [] state = "RGB_BOOTSTRAP" -> "TARGET_INITIALIZED"
      [] OTHER -> state

Unpublished(seen) ==
    /\ operational /\ estimate' = "measured"
    /\ ~ due
    /\ Enter(Regained)
    /\ dropout' = "off" /\ Bounded(seen)
    /\ Go /\ UNCHANGED <<due, engaged>>

\* The state after a publication PX4's mode does not confirm.
Streaming(prestreamed) ==
    CASE Regained \in {"TARGET_INITIALIZED", "PRESTREAMING_TARGET"} ->
             IF prestreamed THEN "REQUESTING_FOLLOW_MODE" ELSE "PRESTREAMING_TARGET"
      [] OTHER -> Regained

\* A measured target is published: the stream, the request and PX4's answer.
Published(seen) ==
    /\ operational /\ estimate' = "measured"
    /\ due
    /\ dropout' = "off"
    /\ \/ /\ Enter("FOLLOWING")
          /\ following' = TRUE /\ engaged' = TRUE
          /\ due' = FALSE /\ Bounded(seen) /\ UNCHANGED requested
       \/ \E prestreamed \in BOOLEAN :
             /\ ~ (state = "REQUESTING_FOLLOW_MODE" /\ waited)
             /\ Enter(Streaming(prestreamed))
             /\ following' = FALSE
             /\ due' = FALSE /\ Bounded(seen) /\ UNCHANGED <<requested, engaged>>
       \/ /\ state = "REQUESTING_FOLLOW_MODE" /\ waited
          /\ Hold("other") /\ UNCHANGED engaged

Authorized(seen) ==
    /\ requested
    /\ \/ EstimateLost(seen) \/ Blocked(seen) \/ Unusable
       \/ Unpublished(seen) \/ Published(seen)
    /\ UNCHANGED snapshot

-----------------------------------------------------------------------------
(* What a frame brings.                                                    *)

Used ==
    /\ Matches
    /\ inFlight' = "none"
    /\ foreign' = (foreign \/ inFlight # "current")
    /\ UNCHANGED <<tracker, operational>>

Untouched == UNCHANGED <<snapshot, estimate, dropout, engaged>>

\* Mutant: the filter holds its last box without an end.
HeldAlways == rejected' = rejected + 1

\* A rejected box is replaced by the last accepted one, for HoldFrames frames.
Held == rejected < HoldFrames /\ rejected' = rejected + 1

\* No box: the metric path may still predict the target.
Missing ==
    /\ Used
    /\ rejected >= HoldFrames
    /\ rejected' = HoldFrames + 1
    /\ box' = FALSE
    /\ moving' = FALSE
    /\ \/ operational /\ Authorized(FALSE)
       \/ ~ (operational /\ requested) /\ Boundary(TRUE, boundary) /\ Untouched

\* A box whose gimbal command fails, or that the filter holds while the
\* tracker has lost the target.
Unsteerable ==
    /\ Used
    /\ \/ rejected' = 0 /\ Boundary(FALSE, "off")
       \/ /\ Held
          /\ \E passing \in BOOLEAN : Boundary(passing, "off")
    /\ box' = TRUE
    /\ moving' = FALSE
    /\ Untouched

\* A box: a held one only counts for an authorized metric Follow.
Tracked ==
    /\ Used
    /\ box' = TRUE
    /\ \/ rejected' = 0 /\ (Unauthorized \/ Authorized(TRUE))
       \/ /\ Held
          /\ \/ operational /\ Authorized(TRUE)
             \/ /\ ~ (operational /\ requested)
                /\ boundary' = "off" /\ Go /\ Stay /\ Untouched /\ UNCHANGED due
    /\ moving' \in Motions(state', requested' \/ following')

Finish == Discard \/ TrackerFails \/ Missing \/ Unsteerable \/ Tracked

-----------------------------------------------------------------------------
(* The pointing worker, the depth model and the clocks.                    *)

\* Between two frames, on the box of the last one: it clears the grace of a
\* lost box, and its exception is a boundary.
Repoint ==
    /\ box
    /\ \/ Boundary(FALSE, "off") /\ moving' = FALSE
       \/ boundary' = "off" /\ Go /\ Stay /\ UNCHANGED <<due, moving>>
    /\ Untouched
    /\ UNCHANGED <<tracker, inFlight, box, rejected, foreign, operational>>

Workflow == <<tracker, inFlight, box, rejected, snapshot, state, reason, requested,
              following, estimate, foreign, moving, engaged>>

\* The depth worker reports that its model cannot be loaded.
ModelFails ==
    /\ operational /\ operational' = FALSE
    /\ UNCHANGED <<Workflow, waited, dropout, boundary, due>>

Waits ==
    /\ state \in {"POINTING_STABLE", "REQUESTING_FOLLOW_MODE"} /\ ~ waited
    /\ waited' = TRUE
    /\ UNCHANGED <<Workflow, operational, dropout, boundary, due>>

DropoutElapses ==
    /\ dropout = "running" /\ dropout' = "elapsed"
    /\ UNCHANGED <<Workflow, operational, waited, boundary, due>>

BoundaryElapses ==
    /\ boundary = "running" /\ boundary' = "elapsed"
    /\ UNCHANGED <<Workflow, operational, waited, dropout, due>>

PublishingDue ==
    /\ ~ due /\ due' = TRUE
    /\ UNCHANGED <<Workflow, operational, waited, dropout, boundary>>

Next ==
    \/ Operator
    \/ Capture \/ Finish
    \/ Repoint
    \/ ModelFails
    \/ Waits \/ DropoutElapses \/ BoundaryElapses \/ PublishingDue

Spec == Init /\ [][Next]_vars

\* Frames keep coming while a target is tracked, and time passes.
Fairness ==
    /\ WF_vars(Capture) /\ WF_vars(Finish)
    /\ WF_vars(Waits) /\ WF_vars(DropoutElapses)
    /\ WF_vars(BoundaryElapses) /\ WF_vars(PublishingDue)

FairSpec == Spec /\ Fairness

-----------------------------------------------------------------------------
(* Properties.                                                             *)

\* The workflow only says FOLLOWING, or degrades from it and back, when PX4
\* has confirmed the Follow mode since this authorization: a target lost and
\* found again before the confirmation does not count as one.
FollowingWasConfirmed == state \in {"FOLLOWING", "DEGRADED"} => engaged

\* A Follow is only authorized on filters, timers and an estimate that no frame
\* of an earlier selection has entered: one whose tracking was overtaken by a
\* new box, a restart or a stop has no effect.
TargetIsSelected == requested => ~ foreign

\* HOLD ends the aircraft's motion for this attempt: no later frame, pointing
\* update or clock leaves it or moves the vehicle again, only the operator.
HoldIsTerminal ==
    [][state = "HOLD" /\ ~ Operator => state' = "HOLD" /\ ~ moving']_vars

\* An authorized attempt does not stay undecided: whatever is lost, held,
\* refused or late, it reaches the stream, PX4's Follow, or its end.
AttemptIsDecided ==
    (requested /\ state \notin {"PRESTREAMING_TARGET", "FOLLOWING"})
        ~> (~ requested \/ state \in {"PRESTREAMING_TARGET", "FOLLOWING"})
=============================================================================
