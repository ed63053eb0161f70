------------------------------ MODULE ModeEntry ------------------------------
(***************************************************************************)
(* How the bridge worker enters and leaves the PX4 modes of its automatic  *)
(* inputs: the arbitration chain of run_connected, the OFFBOARD and Follow *)
(* Target entry sequences, the Position recovery, the acknowledgements,    *)
(* and PX4 with a link that may lose, delay or refuse a command.           *)
(***************************************************************************)
EXTENDS Naturals, OffboardAuthority, InputReadings

CONSTANTS PrestreamFrames,   \* OFFBOARD_PRESTREAM_FRAMES, VISUAL_FOLLOW_PRESTREAM_FRAMES
          SettleFrames,      \* VISUAL_FOLLOW_SETTLE_FRAMES
          MaxAttempts,       \* OFFBOARD_MODE_MAX_ATTEMPTS
          PilotModes,        \* modes the pilot or PX4 itself switches to
          Started            \* the configurations a process is started with

Modes == {"position", "offboard", "follow", "other"}
Requests == {"position", "offboard", "follow"}

ASSUME ModeEntryAssumption ==
    /\ PrestreamFrames \in Nat \ {0}
    /\ SettleFrames \in Nat \ {0}
    /\ MaxAttempts \in Nat \ {0}
    /\ PilotModes \subseteq Modes
    /\ Started \subseteq Environments

VARIABLES
    deployment,     \* the configuration the process was started with
    px4Mode,        \* PX4's mode
    command,        \* the mode request on its way to PX4, or "none"
    answer,         \* the COMMAND_ACK on its way back, or "none"
    connected,      \* self.connection is not None
    holds,          \* companion_holds_offboard()
    lastMode,       \* last_px4_main_mode and sub mode, from heartbeats
    retryElapsed,   \* OFFBOARD_MODE_RETRY_S since the last request
    offboard,       \* the offboard_* fields of the worker
    follow,         \* the visual_follow_* fields of the worker
    params,         \* what PX4's Follow parameters are known to be
    driving,        \* the last iteration served an automatic input (control_source)
    asked,          \* history: requests since the input was last inactive
    owed            \* history: an automatic mode was requested and not yet left

vars == <<deployment, px4Mode, command, answer, connected, holds, lastMode,
          retryElapsed, offboard, follow, params, driving, asked, owed>>

\* The two entry sequences; the frame counters stop at the number they wait for.
OffboardEntries ==
    [requested : BOOLEAN, frames : 0 .. PrestreamFrames, attempts : 0 .. MaxAttempts,
     blocked : BOOLEAN, active : BOOLEAN]

FollowEntries ==
    [requested : BOOLEAN, frames : 0 .. PrestreamFrames, settle : 0 .. SettleFrames,
     attempts : 0 .. MaxAttempts, blocked : BOOLEAN, active : BOOLEAN,
     configured : BOOLEAN, observed : BOOLEAN, exitPending : BOOLEAN,
     modeAck : {"idle", "pending", "accepted", "rejected", "reacquire"}]

\* Every variable keeps its type: no entry counts past its limits.
TypeOK ==
    /\ deployment \in Deployments
    /\ px4Mode \in Modes
    /\ command \in Requests \cup {"none"}
    /\ answer \in {"none", "accepted", "rejected"}
    /\ connected \in BOOLEAN
    /\ holds \in BOOLEAN
    /\ lastMode \in Modes \cup {"unknown"}
    /\ retryElapsed \in BOOLEAN
    /\ offboard \in OffboardEntries
    /\ follow \in FollowEntries
    /\ params \in {"unknown", "valid", "invalid"}
    /\ driving \in BOOLEAN
    /\ asked \in [follow : Nat, offboard : Nat]
    /\ owed \in BOOLEAN

Init ==
    /\ deployment \in {Deployment(e) : e \in Started}
    /\ px4Mode \in PilotModes
    /\ command = "none" /\ answer = "none"
    /\ connected = TRUE /\ holds = FALSE
    /\ lastMode = "unknown"
    /\ retryElapsed = TRUE
    /\ offboard = [requested |-> FALSE, frames |-> 0, attempts |-> 0,
                   blocked |-> FALSE, active |-> FALSE]
    /\ follow = [requested |-> FALSE, frames |-> 0, settle |-> 0, attempts |-> 0,
                 blocked |-> FALSE, active |-> FALSE, configured |-> FALSE,
                 observed |-> FALSE, exitPending |-> FALSE, modeAck |-> "idle"]
    /\ params = "unknown"
    /\ driving = FALSE
    /\ asked = [follow |-> 0, offboard |-> 0]
    /\ owed = FALSE

-----------------------------------------------------------------------------
(* Requests.                                                               *)

\* command_long_send of DO_SET_MODE; a request replaces one that is still
\* on its way, which then counts as lost.
Transmit(request) ==
    /\ command' = IF request = "none" THEN command ELSE request
    /\ retryElapsed' = (retryElapsed /\ request = "none")
    /\ owed' = IF request = "none" THEN owed ELSE request # "position"

\* request_px4_main_mode lets a legacy OFFBOARD request through only when the
\* legacy writer is permitted; Position is never interlocked.
OffboardRequest(wanted) == IF wanted /\ deployment.writer THEN "offboard" ELSE "none"

\* Mutant: the recovery needs the writer's permission too.
PositionInterlocked(wanted) == IF wanted /\ deployment.writer THEN "position" ELSE "none"

PositionRequest(wanted) == IF wanted THEN "position" ELSE "none"

\* Mutant: an OFFBOARD flown by the companion is nothing to leave alone.
UndrivenAny == lastMode \in {"offboard", "follow"}

\* A mode nothing drives: an OFFBOARD the companion flies is not one.
Undriven == (lastMode = "offboard" /\ ~ holds) \/ lastMode = "follow"

\* Mutants: the recovery gives the attempts back; the wish is kept until the
\* mode is left.
RecoveredAfresh(entry, leaves, there) ==
    [entry EXCEPT !.requested = @ /\ ~ leaves /\ ~ there,
                  !.attempts = IF leaves THEN 0 ELSE @,
                  !.frames = IF there THEN 0 ELSE @]
RecoveredLater(entry, leaves, there) ==
    [entry EXCEPT !.requested = @ /\ ~ there, !.frames = IF there THEN 0 ELSE @]

\* What becomes of an entry when Position is asked for, or already observed.
Recovered(entry, leaves, there) ==
    [entry EXCEPT !.requested = @ /\ ~ leaves /\ ~ there,
                  !.frames = IF there THEN 0 ELSE @]

\* request_position_mode; without a connection nothing is sent, and the
\* worker forgets all the same that it had requested a mode.
RequestPosition(o, f) ==
    LET leaves == /\ o.requested \/ f.requested \/ Undriven
                  /\ o.requested \/ retryElapsed
        there == lastMode = "position"
    IN  /\ Transmit(PositionRequest(leaves /\ connected))
        /\ offboard' = Recovered(o, leaves, there)
        /\ follow' = [Recovered(f, leaves, there)
                         EXCEPT !.exitPending = @ \/ (leaves /\ connected)]

\* An input that turns active starts its entry from nothing.
OffboardEdge(s) ==
    IF s.automation /\ ~ offboard.active
    THEN [offboard EXCEPT !.active = TRUE, !.attempts = 0, !.blocked = FALSE, !.frames = 0]
    ELSE [offboard EXCEPT !.active = s.automation]

FollowEdge(s) ==
    IF s.visual /\ ~ follow.active
    THEN [follow EXCEPT !.active = TRUE, !.frames = 0, !.settle = 0, !.attempts = 0,
                        !.blocked = FALSE, !.configured = FALSE, !.observed = FALSE,
                        !.modeAck = "idle", !.exitPending = FALSE]
    ELSE [follow EXCEPT !.active = s.visual]

\* Requests are counted from the last iteration that saw the input inactive.
Count(s, request) ==
    asked' = [follow |-> IF ~ s.visual THEN 0
                         ELSE asked.follow + (IF request = "follow" THEN 1 ELSE 0),
              offboard |-> IF ~ s.automation THEN 0
                           ELSE asked.offboard + (IF request = "offboard" THEN 1 ELSE 0)]

Outside == <<deployment, px4Mode, answer, connected, holds, lastMode>>

-----------------------------------------------------------------------------
(* One iteration of run_connected: the first branch whose input is active. *)

AtMost(n, bound) == IF n > bound THEN bound ELSE n

\* The pilot's sticks, which ask for Position first.
Manual(s) ==
    /\ s.source = "manual"
    /\ RequestPosition(OffboardEdge(s), FollowEdge(s))
    /\ driving' = FALSE
    /\ Count(s, "none")

\* configure_visual_follow_parameters: nothing is streamed before PX4's own
\* Follow parameters have been read and found acceptable.
FollowParameters(s) ==
    LET o == OffboardEdge(s)
        f == FollowEdge(s)
    IN  /\ s.source = "visual" /\ ~ f.blocked /\ ~ f.configured
        /\ \/ /\ params = "unknown"
              /\ offboard' = o /\ follow' = f
              /\ Transmit("none")
              /\ driving' = TRUE
           \/ /\ params = "valid"
              /\ offboard' = o /\ follow' = [f EXCEPT !.configured = TRUE]
              /\ Transmit("none")
              /\ driving' = TRUE
           \/ /\ params = "invalid"
              /\ RequestPosition(o, [f EXCEPT !.blocked = TRUE])
              /\ driving' = FALSE
        /\ Count(s, "none")

\* Mutant: the attempts are not limited.
AsksUnlimited(s, f) ==
    /\ deployment.native /\ s.fresh
    /\ lastMode # "follow" /\ ~ f.observed
    /\ f.frames = PrestreamFrames /\ f.settle = SettleFrames
    /\ ~ f.requested \/ retryElapsed

\* should_request_visual_follow_mode, for an entry that streamed this frame.
AsksForFollow(s, f) ==
    /\ deployment.native /\ s.fresh
    /\ lastMode # "follow" /\ ~ f.observed
    /\ f.frames = PrestreamFrames /\ f.settle = SettleFrames
    /\ f.attempts < MaxAttempts
    /\ ~ f.requested \/ retryElapsed

\* A target is streamed; Follow is asked for once the stream and the vehicle
\* have settled, given up after MaxAttempts or when PX4 left it again.
FollowTarget(s) ==
    LET edge == FollowEdge(s)
        f == [edge EXCEPT !.frames = AtMost(@ + 1, PrestreamFrames),
                          !.settle = IF s.still THEN AtMost(@ + 1, SettleFrames) ELSE 0]
        seen == lastMode = "follow"
        asks == AsksForFollow(s, f)
        left == deployment.native /\ s.fresh /\ ~ seen /\ f.observed
        attempts == IF asks THEN f.attempts + 1 ELSE f.attempts
        spent == ~ seen /\ attempts >= MaxAttempts /\ retryElapsed /\ ~ asks
    IN  /\ s.source = "visual" /\ ~ edge.blocked /\ edge.configured
        /\ Transmit(IF asks THEN "follow" ELSE "none")
        /\ offboard' = OffboardEdge(s)
        /\ follow' = [f EXCEPT !.attempts = attempts,
                               !.requested = @ \/ asks,
                               !.observed = @ \/ (deployment.native /\ s.fresh /\ seen),
                               !.blocked = left \/ spent,
                               !.modeAck = IF asks THEN "pending"
                                           ELSE IF left THEN "reacquire" ELSE @]
        /\ driving' = TRUE
        /\ Count(s, IF asks THEN "follow" ELSE "none")

FollowBlocked(s) ==
    /\ s.source = "visual" /\ FollowEdge(s).blocked
    /\ RequestPosition(OffboardEdge(s), FollowEdge(s))
    /\ driving' = FALSE
    /\ Count(s, "none")

\* Raw attitude: neutral while it is being released, otherwise OFFBOARD is
\* asked for again and again; the wish is recorded even when it was refused.
AttitudeRelease(s) ==
    /\ s.source = "release"
    /\ RequestPosition(OffboardEdge(s), FollowEdge(s))
    /\ driving' = FALSE
    /\ Count(s, "none")

Attitude(s) ==
    LET edge == OffboardEdge(s)
        o == [edge EXCEPT !.frames = AtMost(@ + 1, PrestreamFrames)]
        asks == o.frames = PrestreamFrames /\ (~ o.requested \/ retryElapsed)
    IN  /\ s.source = "attitude"
        /\ Transmit(OffboardRequest(asks))
        /\ offboard' = [o EXCEPT !.requested = @ \/ asks]
        /\ follow' = FollowEdge(s)
        /\ driving' = TRUE
        /\ Count(s, "none")

\* Velocity: OFFBOARD is asked for while PX4 is not in it, at most
\* MaxAttempts times, refused requests included.
Velocity(s) ==
    LET edge == OffboardEdge(s)
        o == [edge EXCEPT !.frames = AtMost(@ + 1, PrestreamFrames)]
        asks == /\ lastMode # "offboard"
                /\ o.frames = PrestreamFrames /\ o.attempts < MaxAttempts
                /\ ~ o.requested \/ retryElapsed
        attempts == IF asks THEN o.attempts + 1 ELSE o.attempts
        request == OffboardRequest(asks)
    IN  /\ s.source = "velocity" /\ ~ edge.blocked
        /\ Transmit(request)
        /\ offboard' = [o EXCEPT !.requested = @ \/ asks,
                                 !.attempts = attempts,
                                 !.blocked = /\ lastMode # "offboard"
                                             /\ attempts >= MaxAttempts
                                             /\ retryElapsed /\ request = "none"]
        /\ follow' = FollowEdge(s)
        /\ driving' = TRUE
        /\ Count(s, request)

\* Tracking sticks, a blocked OFFBOARD entry or nothing at all: Position.
Idle(s) ==
    /\ \/ s.source = "none"
       \/ s.source = "velocity" /\ OffboardEdge(s).blocked
    /\ RequestPosition(OffboardEdge(s), FollowEdge(s))
    /\ driving' = FALSE
    /\ Count(s, "none")

Iterate ==
    /\ connected
    /\ UNCHANGED <<Outside, params>>
    /\ \E s \in Readable(deployment) :
          \/ Manual(s) \/ FollowParameters(s) \/ FollowTarget(s) \/ FollowBlocked(s)
          \/ AttitudeRelease(s) \/ Attitude(s) \/ Velocity(s) \/ Idle(s)

-----------------------------------------------------------------------------
(* What the worker receives between two iterations.                        *)

WorkerState == <<offboard, follow, params, driving, asked, owed, retryElapsed, holds>>

Heartbeat ==
    /\ connected
    /\ lastMode' = px4Mode
    /\ UNCHANGED <<WorkerState, deployment, px4Mode, command, answer, connected>>

\* handle_visual_follow_command_ack: a pending exit takes any answer first.
Acknowledgement ==
    /\ connected /\ answer # "none"
    /\ answer' = "none"
    /\ follow' =
          IF follow.exitPending THEN [follow EXCEPT !.exitPending = FALSE]
          ELSE IF follow.modeAck = "pending"
          THEN [follow EXCEPT !.modeAck = answer, !.blocked = @ \/ answer = "rejected"]
          ELSE follow
    /\ UNCHANGED <<deployment, px4Mode, command, connected, holds, lastMode,
                   retryElapsed, offboard, params, driving, asked, owed>>

\* handle_visual_follow_parameter_value, when it completes the set.
ParameterValues ==
    /\ connected
    /\ params' \in {"valid", "invalid"}
    /\ UNCHANGED <<Outside, command, retryElapsed, offboard, follow, driving, asked, owed>>

RetryElapses ==
    /\ ~ retryElapsed
    /\ retryElapsed' = TRUE
    /\ UNCHANGED <<Outside, command, offboard, follow, params, driving, asked, owed>>

\* An exception ends the session: Position is asked for on the way out and
\* the connection is dropped with what was being received on it.
LinkFails ==
    /\ connected
    /\ RequestPosition(offboard, follow)
    /\ connected' = FALSE
    /\ answer' = "none"
    /\ driving' = FALSE
    /\ UNCHANGED <<deployment, px4Mode, holds, lastMode, params, asked>>

\* connect() times out: the recovery runs with nothing to send it on.
ConnectFails ==
    /\ ~ connected
    /\ RequestPosition(offboard, follow)
    /\ UNCHANGED <<Outside, params, driving, asked>>

Connects ==
    /\ ~ connected
    /\ connected' = TRUE
    /\ params' = "unknown"
    /\ UNCHANGED <<deployment, px4Mode, answer, holds, lastMode, command,
                   retryElapsed, offboard, follow, driving, asked, owed>>

-----------------------------------------------------------------------------
(* PX4, its link, its pilot and the companion: outside the bridge. A       *)
(* request or an answer that stays on its way is a late or a lost one.     *)

Bridge == <<WorkerState, lastMode, connected, deployment>>

Obey ==
    /\ command # "none"
    /\ px4Mode' = command
    /\ command' = "none"
    /\ answer' = "accepted"
    /\ UNCHANGED Bridge

Refuse ==
    /\ command # "none"
    /\ command' = "none"
    /\ answer' = "rejected"
    /\ UNCHANGED <<Bridge, px4Mode>>

Pilot ==
    /\ px4Mode' \in PilotModes
    /\ UNCHANGED <<Bridge, command, answer>>

\* The companion takes OFFBOARD when its authority and its gate allow, and
\* gives it up with its own latch.
CompanionTakes ==
    /\ deployment.companion
    /\ holds' = TRUE
    /\ px4Mode' = "offboard"
    /\ UNCHANGED <<deployment, command, answer, connected, lastMode, retryElapsed,
                   offboard, follow, params, driving, asked, owed>>

CompanionYields ==
    /\ holds
    /\ holds' = FALSE
    /\ UNCHANGED <<deployment, px4Mode, command, answer, connected, lastMode,
                   retryElapsed, offboard, follow, params, driving, asked, owed>>

Next ==
    \/ Iterate
    \/ Heartbeat \/ Acknowledgement \/ ParameterValues \/ RetryElapses
    \/ LinkFails \/ ConnectFails \/ Connects
    \/ Obey \/ Refuse \/ Pilot
    \/ CompanionTakes \/ CompanionYields

Spec == Init /\ [][Next]_vars

\* The worker's loop runs, heartbeats and parameter answers keep coming, and
\* a vehicle asked for Position again and again obeys in the end.
ObeyPosition == command = "position" /\ Obey

Fairness ==
    /\ WF_vars(Iterate)
    /\ WF_vars(Heartbeat)
    /\ WF_vars(RetryElapses)
    /\ SF_vars(ObeyPosition)

FairSpec == Spec /\ Fairness

-----------------------------------------------------------------------------
(* Properties.                                                             *)

\* While the companion flies OFFBOARD and the worker sees it, the legacy
\* loop, whatever its inputs, requests no other mode (companion_holds_offboard).
CompanionIsAlone ==
    [][(holds /\ lastMode = "offboard") => command' \in {"none", command}]_vars

\* Between two iterations that saw their input inactive, the Follow and the
\* velocity entry ask for their mode at most MaxAttempts times, whatever manual
\* takeovers, lost answers, reconnections and recoveries happened in between.
EntryIsBounded ==
    /\ asked.follow <= MaxAttempts
    /\ asked.offboard <= MaxAttempts

\* Position is only asked for to leave a mode the bridge asked for or saw,
\* in every configuration that permits the writer of the inputs it accepts.
RecoveryIsOwed ==
    [][ (/\ deployment.legacy => deployment.writer
         /\ command' = "position" /\ command # "position")
        => owed \/ lastMode \in {"offboard", "follow"} ]_vars

\* Once the automatic inputs are over, the companion has let go and the link
\* holds, PX4 is brought back from OFFBOARD and Follow, whatever was lost,
\* refused or forgotten on the way.
AbandonedModeIsLeft ==
    <>[](~ driving /\ ~ holds /\ connected) => <>[](px4Mode \notin {"offboard", "follow"})
=============================================================================
