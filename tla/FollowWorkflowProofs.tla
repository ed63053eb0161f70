------------------------ MODULE FollowWorkflowProofs ------------------------
(***************************************************************************)
(* The workflow's types, the confirmation a Follow rests on, the freedom   *)
(* from overtaken frames and the finality of HOLD, for every box filter    *)
(* and either automation setting.                                          *)
(***************************************************************************)
EXTENDS FollowWorkflow, TLAPS

(* The state and the authorization agree: only the states behind it carry  *)
(* one, PX4's confirmation stands for one, and a HOLD or a lost tracker    *)
(* leaves nothing moving.                                                  *)
AuthorizationHasItsState ==
    /\ requested => state \in AuthorizedStates
    /\ following => requested

NothingMoves == (state = "HOLD" \/ tracker # "tracking") => ~ moving

\* A frame nothing has overtaken belongs to a target that is tracked.
FramesHaveTheirTarget == inFlight = "current" => tracker = "tracking"

IInv ==
    /\ TypeOK
    /\ FollowingWasConfirmed
    /\ FramesHaveTheirTarget
    /\ ~ foreign
    /\ AuthorizationHasItsState
    /\ NothingMoves

(* What one handler's use of the workflow's state must leave behind.       *)
WorkflowTyped ==
    /\ state' \in States /\ waited' \in BOOLEAN
    /\ reason' \in {"other", "estimate_lost"}
    /\ requested' \in BOOLEAN /\ following' \in BOOLEAN
    /\ boundary' \in Timers /\ due' \in BOOLEAN

WorkflowSound ==
    /\ WorkflowTyped
    /\ AuthorizationHasItsState'

LEMMA StatesFacts ==
  /\ Pointing \subseteq States /\ AuthorizedStates \subseteq States
  /\ Pointing \cap AuthorizedStates = {}
  /\ GraceStates \subseteq AuthorizedStates
  /\ "HOLD" \in States /\ "IDLE" \in States /\ "SELECTING" \in States
  /\ "HOLD" \notin AuthorizedStates
  BY DEF States, Pointing, AuthorizedStates, GraceStates, Engaging

LEMMA StartedFacts ==
  ASSUME NEW timer \in Timers
  PROVE  Started(timer) \in Timers
  BY DEF Timers, Started

(* Stopping leaves no authorization, whatever the state becomes.           *)
LEMMA StopFacts ==
  ASSUME Stop
  PROVE  /\ ~ requested' /\ ~ following'
         /\ requested' \in BOOLEAN /\ following' \in BOOLEAN
         /\ boundary' \in Timers /\ due' \in BOOLEAN
         /\ AuthorizationHasItsState'
  BY DEF Stop, Timers, AuthorizationHasItsState

LEMMA HoldFacts ==
  ASSUME TypeOK, NEW why \in {"other", "estimate_lost"}, Hold(why)
  PROVE  WorkflowSound /\ state' = "HOLD" /\ ~ requested'
  <1>1. Stop
    BY DEF Hold
  <1>2. /\ state' = "HOLD" /\ reason' = why
        /\ waited' = (waited /\ state = "HOLD")
    BY DEF Hold
  <1>3. waited' \in BOOLEAN
    BY <1>2 DEF TypeOK
  <1> QED BY <1>1, <1>2, <1>3, StopFacts, StatesFacts DEF WorkflowSound, WorkflowTyped

LEMMA EnterFacts ==
  ASSUME TypeOK, NEW new \in States, Enter(new)
  PROVE  /\ state' = new /\ state' \in States /\ waited' \in BOOLEAN
         /\ reason' \in {"other", "estimate_lost"}
  <1>1. state' = new /\ waited' = (waited /\ new = state)
    BY DEF Enter
  <1>2. reason' = IF new = state THEN reason ELSE "other"
    BY DEF Enter
  <1>3. waited' \in BOOLEAN
    BY <1>1 DEF TypeOK
  <1>4. reason' \in {"other", "estimate_lost"}
    BY <1>2 DEF TypeOK
  <1> QED BY <1>1, <1>3, <1>4

(* A boundary keeps the state under its grace, or ends it in HOLD.         *)
LEMMA BoundaryFacts ==
  ASSUME IInv, NEW passing \in BOOLEAN, NEW since \in Timers, Boundary(passing, since)
  PROVE  WorkflowSound /\ (state' = state \/ state' = "HOLD")
  <1> DEFINE grace == /\ passing /\ requested /\ state \in GraceStates
                      /\ Started(since) # "elapsed"
             bound == requested \/ following \/ state \in AuthorizedStates
  <1>1. \/ grace /\ boundary' = Started(since) /\ Go /\ UNCHANGED due /\ Stay
        \/ ~ grace /\ bound /\ Hold("other")
        \/ ~ grace /\ ~ bound /\ Stop /\ Stay
    BY DEF Boundary
  <1> HIDE DEF grace, bound
  <1>2. CASE boundary' = Started(since) /\ Go /\ UNCHANGED due /\ Stay
    BY <1>2, StartedFacts
       DEF Go, Stay, IInv, TypeOK, WorkflowSound, WorkflowTyped, AuthorizationHasItsState
  <1>3. CASE Hold("other")
    BY <1>3, HoldFacts DEF IInv
  <1>4. CASE Stop /\ Stay
    BY <1>4, StopFacts DEF Stay, IInv, TypeOK, WorkflowSound, WorkflowTyped
  <1> QED BY <1>1, <1>2, <1>3, <1>4

(* A frame without an authorization only moves the pointing on.            *)
LEMMA PointedFacts ==
  ASSUME TypeOK, NEW steady \in BOOLEAN, NEW refreshed \in BOOLEAN
  PROVE  /\ Pointed(steady, refreshed) \in States
         /\ state \notin Pointing => Pointed(steady, refreshed) = state
         /\ state \in Pointing => Pointed(steady, refreshed) \in Pointing
  <1>1. CASE state \notin Pointing
    BY <1>1 DEF Pointed, TypeOK
  <1>2. CASE state \in Pointing
    BY <1>2, StatesFacts DEF Pointed, Pointing
  <1> QED BY <1>1, <1>2

LEMMA UnauthorizedFacts ==
  ASSUME IInv, Unauthorized
  PROVE  /\ WorkflowSound
         /\ snapshot' \in {"none", "unusable", "stale", "valid"}
         /\ estimate' \in {"invalid", "anchored", "measured"}
         /\ UNCHANGED <<dropout, engaged>>
         /\ state = "HOLD" => state' = "HOLD"
         /\ state' \in {"FOLLOWING", "DEGRADED"} => state' = state
  <1>1. /\ ~ requested /\ Go /\ boundary' = "off" /\ UNCHANGED <<dropout, due, engaged>>
    BY DEF Unauthorized
  <1>2. PICK steady \in BOOLEAN, refreshed \in BOOLEAN, anchored \in BOOLEAN :
          LET st == Pointed(steady, refreshed)
          IN  /\ snapshot' = IF state \in Pointing /\ snapshot = "stale" /\ refreshed
                             THEN "valid" ELSE snapshot
              /\ steady => snapshot' = "valid"
              /\ anchored => st \in ProvisionalStates
              /\ Enter(IF anchored /\ st = "ACQUIRING_RANGE" THEN "TARGET_INITIALIZED" ELSE st)
              /\ \/ ~ anchored /\ UNCHANGED estimate
                 \/ /\ estimate' \in Estimates(st)
                    /\ estimate' = "measured" \/ (anchored <=> estimate' = "anchored")
    BY DEF Unauthorized
  <1> DEFINE st == Pointed(steady, refreshed)
             new == IF anchored /\ st = "ACQUIRING_RANGE" THEN "TARGET_INITIALIZED" ELSE st
  <1>3. /\ st \in States
        /\ state \notin Pointing => st = state
        /\ state \in Pointing => st \in Pointing
    BY PointedFacts DEF IInv
  <1>4. Enter(new)
    BY <1>2
  <1> HIDE DEF st
  <1>5. /\ new \in States
        /\ state = "HOLD" => new = "HOLD"
        /\ new \in {"FOLLOWING", "DEGRADED"} => new = state
    BY <1>3, StatesFacts DEF Pointing, States, AuthorizedStates, GraceStates, Engaging
  <1> HIDE DEF new
  <1>6. /\ state' = new /\ state' \in States /\ waited' \in BOOLEAN
        /\ reason' \in {"other", "estimate_lost"}
    BY <1>4, <1>5, EnterFacts DEF IInv
  <1>7. snapshot' \in {"none", "unusable", "stale", "valid"}
    BY <1>2 DEF IInv, TypeOK
  <1>8. estimate' \in {"invalid", "anchored", "measured"}
    BY <1>2 DEF Estimates, IInv, TypeOK
  <1>9. AuthorizationHasItsState'
    BY <1>1 DEF Go, IInv, AuthorizationHasItsState
  <1>10. WorkflowTyped
    BY <1>1, <1>6 DEF Go, IInv, TypeOK, Timers, WorkflowTyped
  <1> QED BY <1>1, <1>5, <1>6, <1>7, <1>8, <1>9, <1>10 DEF WorkflowSound

(* An authorized frame keeps an authorized state, or ends in HOLD; only a  *)
(* confirmation makes it a Follow.                                         *)
AuthorizedSound ==
    /\ WorkflowSound
    /\ estimate' \in {"invalid", "anchored", "measured"}
    /\ dropout' \in Timers
    /\ engaged' \in BOOLEAN
    /\ state' \in {"FOLLOWING", "DEGRADED"} => engaged'

LEMMA EstimateLostFacts ==
  ASSUME IInv, requested, NEW seen \in BOOLEAN, EstimateLost(seen)
  PROVE  AuthorizedSound
  <1>1. /\ estimate' = "invalid" /\ engaged' = engaged
        /\ dropout' = IF state \in GraceStates THEN Started(dropout) ELSE dropout
        /\ \/ GraceOver(seen) /\ Hold("estimate_lost")
           \/ /\ ~ GraceOver(seen)
              /\ Enter(IF dropout = "off" THEN Degraded ELSE state)
              /\ boundary' = IF seen THEN "off" ELSE Started(boundary)
              /\ Go /\ UNCHANGED due
    BY DEF EstimateLost
  <1>2. dropout' \in Timers /\ engaged' \in BOOLEAN
    BY <1>1, StartedFacts DEF IInv, TypeOK
  <1>3. CASE Hold("estimate_lost")
    BY <1>1, <1>2, <1>3, HoldFacts DEF IInv, AuthorizedSound
  <1>4. CASE /\ Enter(IF dropout = "off" THEN Degraded ELSE state)
             /\ boundary' = IF seen THEN "off" ELSE Started(boundary)
             /\ Go /\ UNCHANGED due
    <2> DEFINE new == IF dropout = "off" THEN Degraded ELSE state
    <2>1. /\ new \in AuthorizedStates
          /\ new \in {"FOLLOWING", "DEGRADED"} => state \in {"FOLLOWING", "DEGRADED"}
      BY DEF Degraded, IInv, AuthorizationHasItsState, AuthorizedStates, GraceStates
    <2> HIDE DEF new
    <2>2. /\ state' = new /\ state' \in States /\ waited' \in BOOLEAN
          /\ reason' \in {"other", "estimate_lost"}
      BY <1>4, <2>1, EnterFacts, StatesFacts DEF IInv, new
    <2>3. boundary' \in Timers
      BY <1>4, StartedFacts DEF IInv, TypeOK, Timers
    <2>4. WorkflowTyped
      BY <1>4, <2>2, <2>3 DEF Go, IInv, TypeOK, WorkflowTyped
    <2>5. AuthorizationHasItsState'
      BY <1>4, <2>1, <2>2 DEF Go, IInv, AuthorizationHasItsState
    <2> QED BY <1>1, <1>2, <2>1, <2>2, <2>4, <2>5
            DEF AuthorizedSound, WorkflowSound, IInv, FollowingWasConfirmed
  <1> QED BY <1>1, <1>3, <1>4

LEMMA EndedFacts ==
  ASSUME IInv, requested, NEW seen \in BOOLEAN, Blocked(seen) \/ Unusable
  PROVE  AuthorizedSound
  <1>1. Hold("other") /\ engaged' = engaged
    BY DEF Blocked, Unusable
  <1>2. dropout' \in Timers
    BY DEF Blocked, Unusable, IInv, TypeOK, Timers
  <1>3. estimate' \in {"invalid", "anchored", "measured"}
    BY DEF Blocked, Unusable, Estimates, IInv, TypeOK
  <1> QED BY <1>1, <1>2, <1>3, HoldFacts DEF AuthorizedSound, IInv, TypeOK

LEMMA RegainedFacts ==
  ASSUME IInv, requested
  PROVE  /\ Regained \in AuthorizedStates
         /\ Regained = "FOLLOWING" => state \in {"FOLLOWING", "DEGRADED"}
         /\ Regained # "DEGRADED"
  BY DEF Regained, IInv, AuthorizationHasItsState, AuthorizedStates, GraceStates, Engaging

LEMMA StreamingFacts ==
  ASSUME IInv, requested, NEW prestreamed \in BOOLEAN
  PROVE  /\ Streaming(prestreamed) \in AuthorizedStates
         /\ Streaming(prestreamed) = "FOLLOWING" => state \in {"FOLLOWING", "DEGRADED"}
         /\ Streaming(prestreamed) # "DEGRADED"
  BY RegainedFacts DEF Streaming, AuthorizedStates, GraceStates, Engaging

LEMMA MeasuredFacts ==
  ASSUME IInv, requested, NEW seen \in BOOLEAN, Unpublished(seen) \/ Published(seen)
  PROVE  AuthorizedSound
  <1>1. estimate' = "measured" /\ dropout' = "off"
    BY DEF Unpublished, Published
  <1>2. dropout' \in Timers /\ estimate' \in {"invalid", "anchored", "measured"}
    BY <1>1 DEF Timers
  <1>3. ASSUME NEW new \in AuthorizedStates, Enter(new), Bounded(seen),
               requested', following' \in BOOLEAN, due' \in BOOLEAN
        PROVE  WorkflowSound /\ state' = new
    <2>1. /\ state' = new /\ state' \in States /\ waited' \in BOOLEAN
          /\ reason' \in {"other", "estimate_lost"}
      BY <1>3, EnterFacts, StatesFacts DEF IInv
    <2>2. boundary' \in Timers
      BY <1>3 DEF Bounded, IInv, TypeOK, Timers
    <2> QED BY <1>3, <2>1, <2>2 DEF WorkflowSound, WorkflowTyped, AuthorizationHasItsState
  <1>4. CASE Unpublished(seen)
    <2>1. /\ Enter(Regained) /\ Bounded(seen) /\ requested' = requested
          /\ following' = following /\ due' = due /\ engaged' = engaged
      BY <1>4 DEF Unpublished, Go
    <2>2. requested' /\ following' \in BOOLEAN /\ due' \in BOOLEAN /\ engaged' \in BOOLEAN
      BY <2>1 DEF IInv, TypeOK
    <2>3. WorkflowSound /\ state' = Regained
      BY <1>3, <2>1, <2>2, RegainedFacts
    <2> QED BY <1>2, <2>1, <2>2, <2>3, RegainedFacts
            DEF AuthorizedSound, IInv, FollowingWasConfirmed
  <1>5. CASE Published(seen)
    <2>1. CASE /\ Enter("FOLLOWING")
               /\ following' = TRUE /\ engaged' = TRUE
               /\ due' = FALSE /\ Bounded(seen) /\ UNCHANGED requested
      <3>1. WorkflowSound
        BY <1>3, <2>1 DEF AuthorizedStates, GraceStates
      <3> QED BY <1>2, <2>1, <3>1 DEF AuthorizedSound
    <2>2. ASSUME NEW prestreamed \in BOOLEAN, Enter(Streaming(prestreamed)),
                 following' = FALSE, due' = FALSE, Bounded(seen),
                 UNCHANGED <<requested, engaged>>
          PROVE  AuthorizedSound
      <3>1. WorkflowSound /\ state' = Streaming(prestreamed)
        BY <1>3, <2>2, StreamingFacts
      <3> QED BY <1>2, <2>2, <3>1, StreamingFacts
              DEF AuthorizedSound, IInv, TypeOK, FollowingWasConfirmed
    <2>3. CASE Hold("other") /\ UNCHANGED engaged
      BY <1>2, <2>3, HoldFacts DEF AuthorizedSound, IInv, TypeOK
    <2> QED BY <1>5, <2>1, <2>2, <2>3 DEF Published
  <1> QED BY <1>4, <1>5

LEMMA AuthorizedFacts ==
  ASSUME IInv, NEW seen \in BOOLEAN, Authorized(seen)
  PROVE  /\ AuthorizedSound
         /\ UNCHANGED snapshot
         /\ state # "HOLD"
  <1>1. state # "HOLD"
    BY StatesFacts DEF Authorized, IInv, AuthorizationHasItsState
  <1>2. requested /\ UNCHANGED snapshot
    BY DEF Authorized
  <1>3. AuthorizedSound
    BY <1>2, EstimateLostFacts, EndedFacts, MeasuredFacts DEF Authorized
  <1> QED BY <1>1, <1>2, <1>3

LEMMA MotionsFacts ==
  ASSUME TypeOK, NEW st, NEW authorized \in BOOLEAN
  PROVE  /\ Motions(st, authorized) \subseteq BOOLEAN
         /\ st = "HOLD" => Motions(st, authorized) = {FALSE}
  BY DEF Motions, TypeOK

(* A frame's end: what Missing, Unsteerable and Tracked have in common.    *)
LEMMA UsedFacts ==
  ASSUME IInv, Used
  PROVE  /\ inFlight' = "none" /\ foreign' = FALSE
         /\ tracker = "tracking"
         /\ UNCHANGED <<tracker, operational>>
  BY DEF Used, Matches, IInv, TypeOK, FramesHaveTheirTarget

LEMMA FrameFacts ==
  ASSUME IInv, Missing \/ Unsteerable \/ Tracked
  PROVE  /\ IInv'
         /\ state = "HOLD" => state' = "HOLD"
  <1> USE FollowWorkflowAssumption
  <1>1. /\ inFlight' = "none" /\ foreign' = FALSE
        /\ UNCHANGED <<tracker, operational>> /\ tracker = "tracking"
        /\ box' \in BOOLEAN /\ rejected' \in 0 .. HoldFrames + 1
    <2>1. Used /\ box' \in BOOLEAN
      BY DEF Missing, Unsteerable, Tracked
    <2>2. rejected' = HoldFrames + 1 \/ rejected' = 0 \/ Held
      BY DEF Missing, Unsteerable, Tracked
    <2>3. rejected \in 0 .. HoldFrames + 1 /\ HoldFrames \in Nat
      BY DEF IInv, TypeOK, FollowWorkflowAssumption
    <2>4. rejected' \in 0 .. HoldFrames + 1
      BY <2>2, <2>3 DEF Held
    <2> QED BY <2>1, <2>4, UsedFacts
  <1>2. ASSUME WorkflowSound, snapshot' \in {"none", "unusable", "stale", "valid"},
               estimate' \in {"invalid", "anchored", "measured"}, dropout' \in Timers,
               engaged' \in BOOLEAN,
               state' \in {"FOLLOWING", "DEGRADED"} => engaged',
               moving' \in BOOLEAN, state' = "HOLD" => ~ moving'
        PROVE  IInv'
    <2>1. TypeOK'
      BY <1>1, <1>2 DEF WorkflowSound, WorkflowTyped, IInv, TypeOK
    <2>2. /\ FollowingWasConfirmed' /\ AuthorizationHasItsState'
          /\ NothingMoves' /\ FramesHaveTheirTarget'
      BY <1>1, <1>2 DEF WorkflowSound, FollowingWasConfirmed, NothingMoves,
                        FramesHaveTheirTarget
    <2> QED BY <1>1, <2>1, <2>2 DEF IInv
  <1>3. ASSUME WorkflowSound, state' = state \/ state' = "HOLD", Untouched
        PROVE  /\ snapshot' \in {"none", "unusable", "stale", "valid"}
               /\ estimate' \in {"invalid", "anchored", "measured"}
               /\ dropout' \in Timers /\ engaged' \in BOOLEAN
               /\ state' \in {"FOLLOWING", "DEGRADED"} => engaged'
    BY <1>3 DEF Untouched, IInv, TypeOK, FollowingWasConfirmed
  <1>4. CASE Missing
    <2>1. moving' = FALSE
      BY <1>4 DEF Missing
    <2>2. CASE Authorized(FALSE)
      BY <1>2, <2>1, <2>2, AuthorizedFacts DEF AuthorizedSound, IInv, TypeOK
    <2>3. CASE Boundary(TRUE, boundary) /\ Untouched
      <3>1. WorkflowSound /\ (state' = state \/ state' = "HOLD")
        BY <2>3, BoundaryFacts DEF IInv, TypeOK
      <3> QED BY <1>2, <1>3, <2>1, <2>3, <3>1
    <2> QED BY <1>4, <2>2, <2>3 DEF Missing
  <1>5. CASE Unsteerable
    <2>1. moving' = FALSE /\ Untouched
      BY <1>5 DEF Unsteerable
    <2>2. PICK passing \in BOOLEAN : Boundary(passing, "off")
      BY <1>5 DEF Unsteerable
    <2>3. WorkflowSound /\ (state' = state \/ state' = "HOLD")
      BY <2>2, BoundaryFacts DEF Timers
    <2> QED BY <1>2, <1>3, <2>1, <2>3
  <1>6. CASE Tracked
    <2>1. moving' \in Motions(state', requested' \/ following')
      BY <1>6 DEF Tracked
    <2>2. moving' \in BOOLEAN /\ (state' = "HOLD" => ~ moving')
      <3>1. (requested' \/ following') \in BOOLEAN
        OBVIOUS
      <3>2. /\ Motions(state', requested' \/ following') \subseteq BOOLEAN
            /\ state' = "HOLD" => Motions(state', requested' \/ following') = {FALSE}
        BY <3>1, MotionsFacts DEF IInv
      <3> QED BY <2>1, <3>2
    <2>4. CASE Unauthorized
      BY <1>2, <2>2, <2>4, UnauthorizedFacts
         DEF IInv, TypeOK, FollowingWasConfirmed
    <2>5. ASSUME NEW seen \in BOOLEAN, Authorized(seen)
          PROVE  IInv' /\ state # "HOLD"
      BY <1>2, <2>2, <2>5, AuthorizedFacts DEF AuthorizedSound, IInv, TypeOK
    <2>6. CASE boundary' = "off" /\ Go /\ Stay /\ Untouched /\ UNCHANGED due
      <3>1. WorkflowSound
        BY <2>6 DEF Go, Stay, IInv, TypeOK, Timers, WorkflowSound, WorkflowTyped,
                    AuthorizationHasItsState
      <3> QED BY <1>2, <1>3, <2>2, <2>6, <3>1 DEF Stay
    <2> QED BY <1>6, <2>4, <2>5, <2>6 DEF Tracked
  <1> QED BY <1>4, <1>5, <1>6

(* The operator's requests.                                                *)
LEMMA ResetFacts ==
  ASSUME ResetTarget
  PROVE  /\ Stop /\ box' = FALSE /\ rejected' \in 0 .. HoldFrames + 1
         /\ estimate' = "invalid" /\ foreign' = FALSE /\ moving' = FALSE
  BY FollowWorkflowAssumption DEF ResetTarget, FollowWorkflowAssumption

LEMMA OutdatedFacts ==
  ASSUME TypeOK, NEW why \in {"reselected", "restarted"}, Outdated(why)
  PROVE  inFlight' \in {"none", "reselected", "restarted"}
  BY DEF Outdated, TypeOK

LEMMA RestartFacts ==
  ASSUME IInv, NEW st \in {"SELECTING", "IDLE", "POINTING"}, Enter(st), ResetTarget,
         NEW why \in {"reselected", "restarted"}, Outdated(why),
         tracker' \in {"none", "idle", "tracking"},
         snapshot' \in {"none", "unusable", "stale", "valid"},
         dropout' \in Timers, UNCHANGED <<operational, engaged>>
  PROVE  IInv'
  <1>1. st \in States /\ st \notin {"FOLLOWING", "DEGRADED"}
    BY StatesFacts DEF Pointing
  <1>2. /\ state' = st /\ state' \in States /\ waited' \in BOOLEAN
        /\ reason' \in {"other", "estimate_lost"}
    BY <1>1, EnterFacts DEF IInv
  <1>3. /\ requested' \in BOOLEAN /\ following' \in BOOLEAN
        /\ boundary' \in Timers /\ due' \in BOOLEAN /\ AuthorizationHasItsState'
        /\ box' = FALSE /\ rejected' \in 0 .. HoldFrames + 1
        /\ estimate' = "invalid" /\ foreign' = FALSE /\ moving' = FALSE
    BY ResetFacts, StopFacts
  <1>4. inFlight' \in {"none", "reselected", "restarted"}
    BY OutdatedFacts DEF IInv
  <1>5. TypeOK'
    BY <1>2, <1>3, <1>4 DEF IInv, TypeOK
  <1> QED BY <1>1, <1>2, <1>3, <1>4, <1>5
          DEF IInv, FollowingWasConfirmed, FramesHaveTheirTarget, NothingMoves

LEMMA AuthorizeFacts ==
  ASSUME IInv, Authorize
  PROVE  IInv'
  <1>1. /\ state' \in AuthorizedStates \ {"FOLLOWING", "DEGRADED"}
        /\ waited' \in BOOLEAN /\ reason' \in {"other", "estimate_lost"}
        /\ estimate' \in {"invalid", "anchored", "measured"}
    <2>1. CASE state = "TARGET_INITIALIZED" /\ Stay /\ UNCHANGED estimate
      BY <2>1 DEF Stay, IInv, TypeOK, AuthorizedStates, GraceStates, Engaging
    <2>2. CASE Enter("RGB_BOOTSTRAP") /\ estimate' = "invalid"
      BY <2>2, EnterFacts DEF IInv, States, AuthorizedStates, GraceStates, Engaging
    <2> QED BY <2>1, <2>2 DEF Authorize
  <1>2. /\ tracker = "tracking" /\ requested' = TRUE /\ engaged' = FALSE
        /\ UNCHANGED <<tracker, inFlight, box, rejected, snapshot, following,
                       foreign, operational, dropout, boundary, due, moving>>
    BY DEF Authorize
  <1>3. TypeOK'
    BY <1>1, <1>2, StatesFacts DEF IInv, TypeOK
  <1> QED BY <1>1, <1>2, <1>3, StatesFacts
          DEF IInv, FollowingWasConfirmed, FramesHaveTheirTarget, NothingMoves,
              AuthorizationHasItsState

LEMMA DisableFacts ==
  ASSUME IInv, Disable
  PROVE  IInv'
  <1> DEFINE st == IF tracker = "tracking" THEN "POINTING" ELSE "HOLD"
  <1>1. st \in States /\ st \notin {"FOLLOWING", "DEGRADED"}
    BY StatesFacts DEF Pointing
  <1>2. /\ Stop /\ Enter(st)
        /\ UNCHANGED <<tracker, inFlight, box, rejected, snapshot, estimate, foreign,
                       operational, dropout, moving, engaged>>
    BY DEF Disable
  <1>3. st = "HOLD" => tracker # "tracking"
    OBVIOUS
  <1> HIDE DEF st
  <1>4. /\ state' = st /\ state' \in States /\ waited' \in BOOLEAN
        /\ reason' \in {"other", "estimate_lost"}
    BY <1>1, <1>2, EnterFacts DEF IInv
  <1>5. TypeOK'
    BY <1>2, <1>4, StopFacts DEF IInv, TypeOK
  <1> QED BY <1>1, <1>2, <1>3, <1>4, <1>5, StopFacts
          DEF IInv, FollowingWasConfirmed, FramesHaveTheirTarget, NothingMoves

LEMMA OperatorFacts ==
  ASSUME IInv, Operator
  PROVE  IInv'
  <1>1. CASE StartTracking
    BY <1>1, RestartFacts DEF StartTracking, IInv, TypeOK
  <1>2. CASE StopTracking
    BY <1>2, RestartFacts DEF StopTracking, IInv, TypeOK
  <1>3. CASE Select
    BY <1>3, RestartFacts DEF Select, Timers
  <1>4. CASE Authorize
    BY <1>4, AuthorizeFacts
  <1>5. CASE Disable
    BY <1>5, DisableFacts
  <1> QED BY <1>1, <1>2, <1>3, <1>4, <1>5 DEF Operator

(* The steps that leave the workflow's state and its authorization alone,  *)
(* and the pointing worker.                                                *)
LEMMA CaptureFacts ==
  ASSUME IInv, Capture \/ Discard
  PROVE  IInv' /\ UNCHANGED state
  BY DEF Capture, Discard, Manager, IInv, TypeOK, FollowingWasConfirmed,
         FramesHaveTheirTarget, NothingMoves, AuthorizationHasItsState

LEMMA TrackerFailsFacts ==
  ASSUME IInv, TrackerFails
  PROVE  IInv' /\ UNCHANGED state
  <1>1. /\ inFlight' = "none" /\ tracker' = "idle"
        /\ UNCHANGED <<snapshot, state, waited, reason, operational, dropout, engaged>>
    BY DEF TrackerFails
  <1>2. /\ requested' \in BOOLEAN /\ following' \in BOOLEAN
        /\ boundary' \in Timers /\ due' \in BOOLEAN /\ AuthorizationHasItsState'
        /\ box' = FALSE /\ rejected' \in 0 .. HoldFrames + 1
        /\ estimate' = "invalid" /\ foreign' = FALSE /\ moving' = FALSE
    BY ResetFacts, StopFacts DEF TrackerFails
  <1>3. TypeOK'
    BY <1>1, <1>2 DEF IInv, TypeOK
  <1> QED BY <1>1, <1>2, <1>3
          DEF IInv, FollowingWasConfirmed, FramesHaveTheirTarget, NothingMoves

LEMMA RepointFacts ==
  ASSUME IInv, Repoint
  PROVE  /\ IInv'
         /\ state = "HOLD" => state' = "HOLD"
  <1>1. /\ Untouched
        /\ UNCHANGED <<tracker, inFlight, box, rejected, foreign, operational>>
    BY DEF Repoint
  <1>2. CASE Boundary(FALSE, "off") /\ moving' = FALSE
    <2>1. WorkflowSound /\ (state' = state \/ state' = "HOLD")
      BY <1>2, BoundaryFacts DEF Timers
    <2>2. TypeOK'
      BY <1>1, <1>2, <2>1 DEF WorkflowSound, WorkflowTyped, Untouched, IInv, TypeOK
    <2> QED BY <1>1, <1>2, <2>1, <2>2
            DEF WorkflowSound, Untouched, IInv, FollowingWasConfirmed,
                FramesHaveTheirTarget, NothingMoves
  <1>3. CASE boundary' = "off" /\ Go /\ Stay /\ UNCHANGED <<due, moving>>
    BY <1>1, <1>3
       DEF Go, Stay, Untouched, IInv, TypeOK, Timers, FollowingWasConfirmed,
           FramesHaveTheirTarget, NothingMoves, AuthorizationHasItsState
  <1> QED BY <1>2, <1>3 DEF Repoint

LEMMA ClockFacts ==
  ASSUME IInv,
         ModelFails \/ Waits \/ DropoutElapses \/ BoundaryElapses \/ PublishingDue
  PROVE  IInv' /\ UNCHANGED state
  <1>1. UNCHANGED Workflow
    BY DEF ModelFails, Waits, DropoutElapses, BoundaryElapses, PublishingDue
  <1>2. operational' \in BOOLEAN /\ waited' \in BOOLEAN /\ due' \in BOOLEAN
    BY DEF ModelFails, Waits, DropoutElapses, BoundaryElapses, PublishingDue, IInv, TypeOK
  <1>3. dropout' \in Timers /\ boundary' \in Timers
    BY DEF ModelFails, Waits, DropoutElapses, BoundaryElapses, PublishingDue,
           IInv, TypeOK, Timers
  <1>4. TypeOK'
    BY <1>1, <1>2, <1>3 DEF Workflow, IInv, TypeOK
  <1> QED BY <1>1, <1>4
          DEF Workflow, IInv, FollowingWasConfirmed, FramesHaveTheirTarget,
              NothingMoves, AuthorizationHasItsState

LEMMA InitFacts ==
  ASSUME Init
  PROVE  IInv
  <1>1. rejected \in 0 .. HoldFrames + 1
    BY FollowWorkflowAssumption DEF Init, FollowWorkflowAssumption
  <1>2. state \in States
    BY StatesFacts DEF Init
  <1>3. TypeOK
    BY <1>1, <1>2 DEF Init, TypeOK, Timers
  <1> QED BY <1>3 DEF Init, IInv, FollowingWasConfirmed, FramesHaveTheirTarget,
                      NothingMoves, AuthorizationHasItsState

LEMMA StepFacts ==
  ASSUME IInv, [Next]_vars
  PROVE  /\ IInv'
         /\ state = "HOLD" /\ ~ Operator => state' = "HOLD"
  <1>1. CASE Operator
    BY <1>1, OperatorFacts
  <1>2. CASE Capture
    BY <1>2, CaptureFacts
  <1>3. CASE Finish
    BY <1>3, CaptureFacts, TrackerFailsFacts, FrameFacts DEF Finish
  <1>4. CASE Repoint
    BY <1>4, RepointFacts
  <1>5. CASE ModelFails \/ Waits \/ DropoutElapses \/ BoundaryElapses \/ PublishingDue
    BY <1>5, ClockFacts
  <1>6. CASE UNCHANGED vars
    BY <1>6 DEF vars, IInv, TypeOK, FollowingWasConfirmed, FramesHaveTheirTarget,
                NothingMoves, AuthorizationHasItsState
  <1> QED BY <1>1, <1>2, <1>3, <1>4, <1>5, <1>6 DEF Next

LEMMA InvariantHolds == Spec => []IInv
  <1>1. IInv /\ [Next]_vars => IInv'
    BY StepFacts
  <1> QED BY <1>1, InitFacts, PTL DEF Spec

(* Every variable keeps its type: the box filter never holds a box for     *)
(* more than its frames, and no handler leaves the table of states.        *)
THEOREM TypeCorrect == Spec => []TypeOK
  <1>1. IInv => TypeOK
    BY DEF IInv
  <1> QED BY <1>1, InvariantHolds, PTL

(* FOLLOWING and DEGRADED rest on a confirmation by PX4 of this            *)
(* authorization.                                                          *)
THEOREM FollowingConfirmed == Spec => []FollowingWasConfirmed
  <1>1. IInv => FollowingWasConfirmed
    BY DEF IInv
  <1> QED BY <1>1, InvariantHolds, PTL

(* No overtaken frame ever enters an authorized target.                    *)
THEOREM TargetsAreSelected == Spec => []TargetIsSelected
  <1>1. IInv => TargetIsSelected
    BY DEF IInv, TargetIsSelected
  <1> QED BY <1>1, InvariantHolds, PTL

(* Only the operator leaves HOLD, and nothing moves in it.                 *)
THEOREM HoldsAreTerminal == Spec => HoldIsTerminal
  <1>1. IInv /\ IInv' /\ [Next]_vars
          => [state = "HOLD" /\ ~ Operator => state' = "HOLD" /\ ~ moving']_vars
    BY StepFacts DEF IInv, NothingMoves
  <1> QED BY <1>1, InvariantHolds, PTL DEF Spec, HoldIsTerminal

-----------------------------------------------------------------------------
(* What ends a Follow whose target is lost. That its clocks run and frames *)
(* come is fairness and stays with TLC (AttemptIsDecided).                 *)

\* A degraded Follow has a deadline.
DegradedIsTimed == state = "DEGRADED" => dropout # "off"

\* The frames the estimator or the gimbal has its say on: all but a box the
\* filter merely holds, and a missing one without the metric path.
Judged ==
    \/ Tracked /\ (operational \/ rejected' = 0)
    \/ Missing /\ operational
    \/ Unsteerable /\ rejected' = 0

\* Under one authorization the deadline only passes, or a measured target
\* lifts it.
DeadlineStands ==
    requested /\ requested' /\ dropout # "off" /\ dropout' # dropout
        => DropoutElapses \/ estimate' = "measured"

\* The first judged frame after the deadline decides.
DeadlineDecides ==
    requested /\ state = "DEGRADED" /\ dropout = "elapsed" /\ Judged
        => state' # "DEGRADED"

LossIsTimed ==
    /\ []DegradedIsTimed
    /\ [][DeadlineStands /\ DeadlineDecides]_vars

\* A frame, a request or a clock keeps the deadline unless a measured target
\* or the end of the authorization takes it away.
KeepsDeadline ==
    \/ UNCHANGED dropout
    \/ DropoutElapses
    \/ ~ requested'
    \/ dropout = "off"
    \/ estimate' = "measured"

LEMMA HoldEnds ==
  ASSUME NEW why, Hold(why)
  PROVE  state' = "HOLD" /\ ~ requested'
  BY DEF Hold, Stop

LEMMA BoundaryKeeps ==
  ASSUME NEW passing, NEW since, Boundary(passing, since)
  PROVE  /\ state' = state \/ state' = "HOLD"
         /\ ~ passing /\ requested => state' = "HOLD"
  BY HoldEnds DEF Boundary, Stay

LEMMA AuthorizedDeadline ==
  ASSUME IInv, DegradedIsTimed, NEW seen \in BOOLEAN, Authorized(seen)
  PROVE  /\ DegradedIsTimed'
         /\ KeepsDeadline
         /\ state = "DEGRADED" /\ dropout = "elapsed" => state' # "DEGRADED"
  <1>1. requested
    BY DEF Authorized
  <1>2. CASE EstimateLost(seen)
    <2>1. CASE Hold("estimate_lost")
      BY <2>1, HoldEnds DEF DegradedIsTimed, KeepsDeadline
    <2>2. CASE ~ GraceOver(seen) /\ ~ Hold("estimate_lost")
      <3>1. state' = IF dropout = "off" THEN Degraded ELSE state
        BY <1>2, <2>2 DEF EstimateLost, Enter
      <3>2. state \in GraceStates /\ dropout # "elapsed"
        BY <2>2 DEF GraceOver
      <3>3. dropout' = Started(dropout)
        BY <1>2, <3>2 DEF EstimateLost
      <3>4. dropout' # "off" /\ (dropout # "off" => dropout' = dropout)
        BY <3>3 DEF Started
      <3> QED BY <3>2, <3>4 DEF DegradedIsTimed, KeepsDeadline
    <2> QED BY <1>2, <2>1, <2>2 DEF EstimateLost
  <1>3. CASE Blocked(seen) \/ Unusable
    <2>1. Hold("other")
      BY <1>3 DEF Blocked, Unusable
    <2> QED BY <2>1, HoldEnds DEF DegradedIsTimed, KeepsDeadline
  <1>4. CASE Unpublished(seen) \/ Published(seen)
    <2>1. estimate' = "measured"
      BY <1>4 DEF Unpublished, Published
    <2>2. state' # "DEGRADED"
      BY <1>1, <1>4, RegainedFacts, StreamingFacts, HoldEnds
         DEF Unpublished, Published, Enter
    <2> QED BY <2>1, <2>2 DEF DegradedIsTimed, KeepsDeadline
  <1> QED BY <1>2, <1>3, <1>4 DEF Authorized

LEMMA FrameDeadline ==
  ASSUME IInv, DegradedIsTimed, Missing \/ Unsteerable \/ Tracked
  PROVE  DegradedIsTimed' /\ KeepsDeadline
  <1>1. ASSUME UNCHANGED dropout, state' = "DEGRADED" => state' = state
        PROVE  DegradedIsTimed' /\ KeepsDeadline
    BY <1>1 DEF DegradedIsTimed, KeepsDeadline
  <1>2. ASSUME NEW passing, NEW since, Boundary(passing, since), Untouched
        PROVE  DegradedIsTimed' /\ KeepsDeadline
    BY <1>1, <1>2, BoundaryKeeps DEF Untouched
  <1>3. ASSUME NEW seen \in BOOLEAN, Authorized(seen)
        PROVE  DegradedIsTimed' /\ KeepsDeadline
    BY <1>3, AuthorizedDeadline
  <1>4. CASE Missing
    BY <1>2, <1>3, <1>4 DEF Missing
  <1>5. CASE Unsteerable
    BY <1>2, <1>5 DEF Unsteerable
  <1>6. CASE Tracked
    <2>1. CASE Unauthorized
      BY <1>1, <2>1, UnauthorizedFacts
    <2>2. CASE Stay /\ Untouched
      BY <1>1, <2>2 DEF Stay, Untouched
    <2> QED BY <1>3, <1>6, <2>1, <2>2 DEF Tracked
  <1> QED BY <1>4, <1>5, <1>6

LEMMA JudgedDecides ==
  ASSUME IInv, DegradedIsTimed
  PROVE  DeadlineDecides
  <1> SUFFICES ASSUME requested, state = "DEGRADED", dropout = "elapsed", Judged
               PROVE  state' # "DEGRADED"
    BY DEF DeadlineDecides
  <1>1. ASSUME NEW seen \in BOOLEAN, Authorized(seen)
        PROVE  state' # "DEGRADED"
    BY <1>1, AuthorizedDeadline
  <1>2. Held => rejected' # 0
    BY FollowWorkflowAssumption DEF Held, IInv, TypeOK, FollowWorkflowAssumption
  <1>3. CASE Tracked /\ (operational \/ rejected' = 0)
    <2>1. CASE rejected' = 0 /\ (Unauthorized \/ Authorized(TRUE))
      BY <1>1, <2>1 DEF Unauthorized
    <2>2. CASE Held /\ operational /\ Authorized(TRUE)
      BY <1>1, <2>2
    <2>3. ~ (Held /\ ~ (operational /\ requested))
      BY <1>2, <1>3
    <2> QED BY <1>3, <2>1, <2>2, <2>3 DEF Tracked
  <1>4. CASE Missing /\ operational
    BY <1>1, <1>4 DEF Missing
  <1>5. CASE Unsteerable /\ rejected' = 0
    <2>1. Boundary(FALSE, "off")
      BY <1>2, <1>5 DEF Unsteerable
    <2> QED BY <2>1, BoundaryKeeps
  <1> QED BY <1>3, <1>4, <1>5 DEF Judged

LEMMA StepDeadline ==
  ASSUME IInv, DegradedIsTimed, [Next]_vars
  PROVE  DegradedIsTimed' /\ (UNCHANGED vars \/ DeadlineStands)
  <1>1. KeepsDeadline => DeadlineStands
    BY DEF KeepsDeadline, DeadlineStands
  <1>2. CASE Operator
    <2>1. CASE StartTracking \/ StopTracking \/ Select \/ Disable
      <3>1. Stop
        BY <2>1 DEF StartTracking, StopTracking, Select, Disable, ResetTarget
      <3>2. state' # "DEGRADED"
        BY <2>1 DEF StartTracking, StopTracking, Select, Disable, Enter
      <3> QED BY <1>1, <3>1, <3>2 DEF Stop, KeepsDeadline, DegradedIsTimed
    <2>2. CASE Authorize
      BY <1>1, <2>2 DEF Authorize, Stay, Enter, KeepsDeadline, DegradedIsTimed
    <2> QED BY <1>2, <2>1, <2>2 DEF Operator
  <1>3. CASE Missing \/ Unsteerable \/ Tracked
    BY <1>1, <1>3, FrameDeadline
  <1>4. CASE Capture \/ Discard \/ TrackerFails
    BY <1>1, <1>4
       DEF Capture, Discard, TrackerFails, Manager, KeepsDeadline, DegradedIsTimed
  <1>5. CASE Repoint
    <2>1. UNCHANGED dropout
      BY <1>5 DEF Repoint, Untouched
    <2>2. state' = state \/ state' = "HOLD"
      BY <1>5, BoundaryKeeps DEF Repoint, Stay
    <2> QED BY <1>1, <2>1, <2>2 DEF KeepsDeadline, DegradedIsTimed
  <1>6. CASE DropoutElapses
    BY <1>1, <1>6 DEF DropoutElapses, Workflow, KeepsDeadline, DegradedIsTimed
  <1>7. CASE ModelFails \/ Waits \/ BoundaryElapses \/ PublishingDue
    BY <1>1, <1>7
       DEF ModelFails, Waits, BoundaryElapses, PublishingDue, Workflow,
           KeepsDeadline, DegradedIsTimed
  <1>8. CASE UNCHANGED vars
    BY <1>8 DEF vars, DegradedIsTimed
  <1> QED BY <1>2, <1>3, <1>4, <1>5, <1>6, <1>7, <1>8 DEF Next, Finish

(* A Follow whose target is lost has one deadline, nothing but a measured  *)
(* target extends it, and the first judged frame after it ends or resumes  *)
(* the Follow (what AttemptIsDecided rests on in DEGRADED).                *)
THEOREM LossTimed == Spec => LossIsTimed
  <1>1. Init => DegradedIsTimed
    BY DEF Init, DegradedIsTimed
  <1>2. IInv /\ DegradedIsTimed /\ [Next]_vars => DegradedIsTimed'
    BY StepDeadline
  <1>3. IInv /\ DegradedIsTimed /\ [Next]_vars
          => [DeadlineStands /\ DeadlineDecides]_vars
    BY StepDeadline, JudgedDecides
  <1> QED BY <1>1, <1>2, <1>3, InvariantHolds, PTL DEF Spec, LossIsTimed
=============================================================================
