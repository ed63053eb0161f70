-------------------------- MODULE MissionExecution --------------------------
(***************************************************************************)
(* One vehicle's mission: the operator's inbox, the bridge worker's frame  *)
(* (install, prepare, evaluate and step the sender, act), the MAVLink link *)
(* and PX4.  The worker drains messages between frames; a frame is split   *)
(* where another thread can matter, between taking the mission from the    *)
(* inbox and taking the action from it.  PX4, the link and the pilot act   *)
(* between frames: they touch nothing a frame reads or writes except the   *)
(* ends of the link, so their steps commute with the frame's.              *)
(*                                                                         *)
(* The vehicle is cleared for companion flight, the mission runtime is     *)
(* enabled with an origin, and no legacy control input is active.  Of the  *)
(* sender only the abort latch is kept: SenderContract says what a frame   *)
(* of it comes to, and ActiveSender has the detail.                        *)
(***************************************************************************)
EXTENDS Integers, Sequences, SenderContract

CONSTANTS
  Plans,         \* drawings the operator may send
  Actions,       \* what the operator may order
  Situations,    \* what the safety layer may find in a frame
  PilotModes,    \* modes the pilot may select at PX4
  MaxAttempts,   \* OFFBOARD_MODE_MAX_ATTEMPTS
  RetryDelay,    \* OFFBOARD_MODE_RETRY_S, in frames
  SetpointLoss,  \* PX4's COM_OF_LOSS_T, in frames
  MaxInFlight    \* bound: commands, and acknowledgements, on the link at once

ASSUME MissionAssumption ==
  /\ Actions \subseteq {"start", "stop"}
  /\ Situations \subseteq Findings
  /\ "severe" \in Situations
  /\ PilotModes \subseteq {"position", "offboard", "other"}
  /\ MaxAttempts \in Nat \ {0}
  /\ RetryDelay \in Nat \ {0}
  /\ SetpointLoss \in Nat \ {0}
  /\ MaxInFlight \in Nat \ {0}

VARIABLES
  px4,      \* external: the autopilot's mode, armed flag and setpoint silence
  uplink,   \* mode commands on their way to PX4
  acks,     \* COMMAND_ACKs on their way back
  seen,     \* last_px4_main_mode, last_px4_armed
  inbox,    \* MissionInbox: newest payload and newest action
  mission,  \* the worker's mission flags and mission_status
  plan,     \* the installed trajectory
  lap,      \* trajectory_start_monotonic_s and the entry before it
  latched,  \* the sender's abort latch
  frame,    \* active_offboard_frame of the frame in progress
  asked,    \* history: OFFBOARD requests since the last accepted start
  consent,  \* history: the last action consumed was an accepted start
  pc,       \* where the worker is in its loop
  gapDue    \* the session was just restarted: the next interval is a stream gap

vars == <<px4, uplink, acks, seen, inbox, mission, plan, lap, latched, frame,
          asked, consent, pc, gapDue>>

None == "none"
ActiveExecution == {"entering", "running", "stopping"}
Ended == {"idle", "blocked", "aborted"}

Missions ==
  [state : {"none", "installed", "refused"},
   execution : ActiveExecution \cup Ended,
   startPending : BOOLEAN,
   expected : BOOLEAN,                        \* mission_offboard_expected
   ackPending : BOOLEAN,
   ackResult : {None, "accepted", "rejected"},
   attempts : 0 .. MaxAttempts,
   sinceRequest : 0 .. RetryDelay,            \* since mission_start_requested
   sinceModeRequest : 0 .. RetryDelay]        \* since last_mode_request

Frames == [conditions : BOOLEAN,              \* some condition was reported
           abort : BOOLEAN,                   \* abort_condition is set
           sent : {None, "zero", "velocity"}]

NoFrame == [conditions |-> FALSE, abort |-> FALSE, sent |-> None]

(* fresh: the command, or the command acknowledged, is the newest mission OFFBOARD request. *)
Commands == [mode : {"offboard", "position"}, fresh : BOOLEAN]
Acks == [result : {"accepted", "rejected"}, fresh : BOOLEAN]

TypeOK ==
  /\ px4 \in [mode : {"position", "offboard", "other"}, armed : BOOLEAN,
              silence : 0 .. SetpointLoss]
  /\ uplink \in Seq(Commands) /\ Len(uplink) <= MaxInFlight
  /\ acks \in Seq(Acks) /\ Len(acks) <= MaxInFlight
  /\ seen \in [mode : {"unknown", "position", "offboard", "other"},
               armed : {"unknown", "armed", "disarmed"}]
  /\ inbox \in [payload : Plans \cup {None}, action : {None, "start", "stop"}]
  /\ mission \in Missions
  /\ plan \in Plans \cup {None}
  /\ lap \in {"inactive", "entering", "latched"}
  /\ latched \in BOOLEAN /\ consent \in BOOLEAN /\ gapDue \in BOOLEAN
  /\ frame \in Frames
  /\ asked \in 0 .. MaxAttempts
  /\ pc \in {"drain", "act"}

Init ==
  /\ px4 = [mode |-> "position", armed |-> FALSE, silence |-> SetpointLoss]
  /\ uplink = << >> /\ acks = << >>
  /\ seen = [mode |-> "unknown", armed |-> "unknown"]
  /\ inbox = [payload |-> None, action |-> None]
  /\ mission = [state |-> "none", execution |-> "idle", startPending |-> FALSE,
                expected |-> FALSE, ackPending |-> FALSE, ackResult |-> None,
                attempts |-> 0, sinceRequest |-> RetryDelay,
                sinceModeRequest |-> RetryDelay]
  /\ plan = None /\ lap = "inactive"
  /\ latched = FALSE /\ frame = NoFrame
  /\ asked = 0 /\ consent = FALSE
  /\ pc = "drain" /\ gapDue = FALSE

Later(age, cap) == IF age < cap THEN age + 1 ELSE cap

StationKeeping == seen.armed = "armed" /\ seen.mode = "offboard"

-----------------------------------------------------------------------------
(* The operator, through MQTT: the inbox keeps only the newest of each kind. *)
SubmitMission(p) ==
  /\ inbox' = [inbox EXCEPT !.payload = p]
  /\ UNCHANGED <<px4, uplink, acks, seen, mission, plan, lap, latched, frame,
                 asked, consent, pc, gapDue>>

SubmitAction(a) ==
  /\ inbox' = [inbox EXCEPT !.action = a]
  /\ UNCHANGED <<px4, uplink, acks, seen, mission, plan, lap, latched, frame,
                 asked, consent, pc, gapDue>>

-----------------------------------------------------------------------------
(* PX4 and the link, between frames. *)
Outside == /\ pc = "drain"
           /\ UNCHANGED <<inbox, plan, lap, latched, frame, asked, consent, pc, gapDue>>

(***************************************************************************)
(* PX4 handles the oldest command.  It may refuse any request, and enters  *)
(* OFFBOARD only while setpoints arrive.  Its acknowledgement may find no  *)
(* room on the link, which stands for a lost one.                          *)
(***************************************************************************)
Px4HandlesCommand(accepts) ==
  LET command == Head(uplink)
      ack == [result |-> IF accepts THEN "accepted" ELSE "rejected",
              fresh |-> command.fresh]
  IN /\ Outside
     /\ uplink # << >>
     /\ accepts /\ command.mode = "offboard" => px4.silence < SetpointLoss
     /\ uplink' = Tail(uplink)
     /\ px4' = IF accepts THEN [px4 EXCEPT !.mode = command.mode] ELSE px4
     /\ acks' = IF Len(acks) < MaxInFlight THEN Append(acks, ack) ELSE acks
     /\ UNCHANGED <<seen, mission>>

LoseCommand ==
  /\ Outside
  /\ uplink # << >> /\ uplink' = Tail(uplink)
  /\ UNCHANGED <<px4, acks, seen, mission>>

LoseAck ==
  /\ Outside
  /\ acks # << >> /\ acks' = Tail(acks)
  /\ UNCHANGED <<px4, uplink, seen, mission>>

(* COM_OF_LOSS_T: without setpoints PX4 leaves OFFBOARD for Position mode. *)
Px4SetpointFailsafe ==
  /\ Outside
  /\ px4.mode = "offboard" /\ px4.silence >= SetpointLoss
  /\ px4' = [px4 EXCEPT !.mode = "position"]
  /\ UNCHANGED <<uplink, acks, seen, mission>>

PilotSelectsMode(m) ==
  /\ Outside
  /\ m = "offboard" => px4.silence < SetpointLoss
  /\ px4' = [px4 EXCEPT !.mode = m]
  /\ UNCHANGED <<uplink, acks, seen, mission>>

PilotArmsOrDisarms ==
  /\ Outside
  /\ px4' = [px4 EXCEPT !.armed = ~@]
  /\ UNCHANGED <<uplink, acks, seen, mission>>

(* The HEARTBEAT branch of the drain loop.  A late heartbeat is one delivered before the change. *)
ReceiveHeartbeat ==
  /\ Outside
  /\ seen' = [mode |-> px4.mode, armed |-> IF px4.armed THEN "armed" ELSE "disarmed"]
  /\ UNCHANGED <<px4, uplink, acks, mission>>

(* handle_mission_mode_command_ack *)
ReceiveAck ==
  /\ Outside
  /\ acks # << >> /\ acks' = Tail(acks)
  /\ mission' = IF mission.ackPending
                THEN [mission EXCEPT !.ackResult = Head(acks).result, !.ackPending = FALSE]
                ELSE mission
  /\ UNCHANGED <<px4, uplink, seen>>

-----------------------------------------------------------------------------
(* The first half of a frame, as functions of the mission record. *)

Forgotten(m) == [m EXCEPT !.startPending = FALSE, !.ackPending = FALSE, !.ackResult = None]

(***************************************************************************)
(* install_pending_mission: dropped during an execution, refused when the  *)
(* drawing is invalid or the lap clock is latched, else installed.         *)
(***************************************************************************)
Installs(valid) ==
  /\ inbox.payload # None
  /\ mission.execution \notin ActiveExecution
  /\ valid /\ lap # "latched"

AfterInstall(m, valid) ==
  IF inbox.payload = None \/ m.execution \in ActiveExecution THEN m
  ELSE [m EXCEPT !.state = IF Installs(valid) THEN "installed" ELSE "refused",
                 !.execution = "idle"]

(* Mutant: the branch for a vehicle that is not armed forgets the mission's flags. *)
AfterPrepareKeepingFlags(m) ==
  IF seen.armed # "armed"
  THEN [m EXCEPT !.execution = IF @ \in ActiveExecution THEN "idle" ELSE @]
  ELSE IF m.startPending /\ seen.mode = "offboard"
       THEN [Forgotten(m) EXCEPT !.expected = TRUE, !.execution = "running"]
       ELSE m

(* prepare_mission_execution_state *)
AfterPrepare(m) ==
  IF seen.armed # "armed"
  THEN [Forgotten(m) EXCEPT
          !.expected = FALSE,
          !.execution = IF @ \in ActiveExecution THEN "idle" ELSE @]
  ELSE IF m.startPending /\ seen.mode = "offboard"
       THEN [Forgotten(m) EXCEPT !.expected = TRUE, !.execution = "running"]
       ELSE IF m.execution = "stopping" /\ seen.mode # "offboard"
            THEN [m EXCEPT !.execution = "idle"]
            ELSE m

(* derive_reported_conditions: the two conditions of the mission itself. *)
Rejected(m) == m.ackResult = "rejected"
LeftOffboard(m) == m.expected /\ seen.mode # "offboard"

View(m) == [rejected |-> Rejected(m), left |-> LeftOffboard(m),
            disarmed |-> seen.armed = "disarmed", ready |-> StationKeeping]

(* The sender's frame, by its contract: reset_latched_active_sender, then step. *)
Reports(m, s) == IsReported(s, View(m))

Latches(m, s) == EndsLatched(latched, s, View(m))

Aborts(m, s) == CarriesAbort(latched, s, View(m))

Sends(m, s) == Transmits(latched, s, View(m))

CallsPositionMode(m, s) == AsksForPosition(latched, s, View(m))

(* request_position_mode, with no legacy mode request outstanding. *)
PositionModeDue(m, latch) ==
  /\ seen.mode = "offboard" /\ latch
  /\ m.sinceModeRequest >= RetryDelay

Position == [mode |-> "position", fresh |-> FALSE]

Transmitted(queue, commands) ==
  LET all == queue \o commands
  IN SubSeq(all, 1, IF Len(all) <= MaxInFlight THEN Len(all) ELSE MaxInFlight)

LapAfter(l, installed) ==
  IF ~StationKeeping \/ (plan = None /\ ~installed) THEN l = "inactive"
  ELSE l \in {"entering", "latched"}

(* What both kinds of frame do first: install, prepare and move the lap. *)
OpenFrame(valid, l) ==
  /\ pc = "drain"
  /\ inbox' = [inbox EXCEPT !.payload = None]
  /\ plan' = IF Installs(valid) THEN inbox.payload ELSE plan
  /\ LapAfter(l, Installs(valid))
  /\ lap' = l
  /\ UNCHANGED <<acks, seen, asked, consent>>

(* evaluate_companion_safety up to the sender's step. *)
EvaluateFrame(valid, s, l) ==
  LET m == AfterPrepare(AfterInstall(mission, valid))
      asks == CallsPositionMode(m, s) /\ PositionModeDue(m, TRUE)
  IN /\ OpenFrame(valid, l)
     /\ gapDue => s = "severe"
     /\ latched' = Latches(m, s)
     /\ frame' = [conditions |-> Reports(m, s), abort |-> Aborts(m, s), sent |-> Sends(m, s)]
     /\ mission' = IF asks THEN [m EXCEPT !.sinceModeRequest = 0] ELSE m
     /\ uplink' = IF asks THEN Transmitted(uplink, <<Position>>) ELSE uplink
     /\ px4' = [px4 EXCEPT !.silence =
                  IF Sends(m, s) = None THEN Later(@, SetpointLoss) ELSE 0]
     /\ pc' = "act"
     /\ gapDue' = FALSE

(***************************************************************************)
(* The evaluation raises: the session ends, its link with it, and the      *)
(* worker pauses for longer than any of the delays counted here.           *)
(***************************************************************************)
CrashFrame(valid, l) ==
  LET m == AfterPrepare(AfterInstall(mission, valid))
  IN /\ pc = "drain"
     /\ inbox' = [inbox EXCEPT !.payload = None]
     /\ plan' = IF Installs(valid) THEN inbox.payload ELSE plan
     /\ LapAfter(l, Installs(valid))
     /\ lap' = l
     /\ mission' = [m EXCEPT !.sinceRequest = RetryDelay, !.sinceModeRequest = RetryDelay]
     /\ uplink' = IF PositionModeDue(m, latched) THEN Transmitted(uplink, <<Position>>)
                                              ELSE uplink
     /\ acks' = << >>
     /\ px4' = [px4 EXCEPT !.silence = SetpointLoss]
     /\ gapDue' = TRUE
     /\ UNCHANGED <<seen, latched, frame, asked, consent, pc>>

-----------------------------------------------------------------------------
(* The second half: handle_pending_mission_action and the idle control loop. *)

(* mission_start_block_reason, as whether there is one. *)
Blocked(m, retry, evidence) ==
  \/ m.state # "installed"
  \/ ~retry /\ m.execution \in ActiveExecution
  \/ seen.armed # "armed"
  \/ seen.mode # "position"
  \/ latched
  \/ frame.conditions
  \/ frame.sent = None
  \/ ~evidence

(* request_mission_offboard; refused when the companion does not hold authority. *)
Requested(m) ==
  IF latched THEN [m EXCEPT !.ackPending = FALSE, !.ackResult = None]
  ELSE [m EXCEPT !.ackPending = TRUE, !.ackResult = None, !.startPending = TRUE,
                 !.attempts = @ + 1, !.sinceRequest = 0, !.sinceModeRequest = 0]

(* Mutant: a stop leaves the pending start alone. *)
StoppedKeepingStart(m) ==
  [m EXCEPT
     !.expected = FALSE, !.attempts = 0,
     !.execution = IF seen.armed = "armed"
                      /\ (seen.mode = "offboard" \/ m.execution = "entering")
                   THEN "stopping" ELSE "idle"]

Stopped(m) ==
  [Forgotten(m) EXCEPT
     !.expected = FALSE, !.attempts = 0,
     !.execution = IF seen.armed = "armed"
                      /\ (seen.mode = "offboard" \/ m.execution = "entering")
                   THEN "stopping" ELSE "idle",
     !.sinceModeRequest = IF seen.armed = "armed"
                             /\ (seen.mode = "offboard" \/ m.execution = "entering")
                          THEN 0 ELSE @]

Started(m, evidence) ==
  IF Blocked(m, FALSE, evidence)
  THEN [m EXCEPT !.execution = IF @ \in ActiveExecution THEN @ ELSE "blocked"]
  ELSE [Requested([m EXCEPT !.attempts = 0]) EXCEPT
          !.execution = IF latched THEN "blocked" ELSE "entering"]

AfterAction(m, evidence) ==
  CASE inbox.action = "stop" -> Stopped(m)
    [] inbox.action = "start" -> Started(m, evidence)
    [] OTHER -> m

(* Mutants: only a running mission is aborted; an abort leaves the pending start alone. *)
AfterAbortRunningOnly(m) ==
  IF m.execution = "running" /\ frame.abort
  THEN [Forgotten(m) EXCEPT !.expected = FALSE, !.execution = "aborted"]
  ELSE m

AfterAbortKeepingStart(m) ==
  IF m.execution \in {"entering", "running"} /\ frame.abort
  THEN [m EXCEPT !.expected = FALSE, !.execution = "aborted"]
  ELSE m

AfterAbort(m) ==
  IF m.execution \in {"entering", "running"} /\ frame.abort
  THEN [Forgotten(m) EXCEPT !.expected = FALSE, !.execution = "aborted"]
  ELSE m

RetryDue(m) == m.startPending /\ m.sinceRequest >= RetryDelay

(* Mutant: the attempt limit is not consulted. *)
RetriesWithoutLimit(m, evidence) == RetryDue(m) /\ ~Blocked(m, TRUE, evidence)

Retries(m, evidence) ==
  /\ RetryDue(m)
  /\ m.attempts < MaxAttempts
  /\ ~Blocked(m, TRUE, evidence)

(* Mutant: a retry that cannot be made is left pending. *)
AfterRetryPatient(m, evidence) == IF Retries(m, evidence) THEN Requested(m) ELSE m

AfterRetry(m, evidence) ==
  IF Retries(m, evidence) THEN Requested(m)
  ELSE IF RetryDue(m) THEN [Forgotten(m) EXCEPT !.execution = "blocked"]
  ELSE m

(* Once OFFBOARD is requested anew, what is on the link belongs to an older request. *)
Aged(q, renewed) ==
  IF renewed THEN [i \in DOMAIN q |-> [q[i] EXCEPT !.fresh = FALSE]] ELSE q

ActOnFrame(evidence) ==
  LET acted == AfterAction(mission, evidence)
      held == AfterAbort(acted)
      retried == AfterRetry(held, evidence)
      legacy == PositionModeDue(retried, latched)
      starts == inbox.action = "start" /\ ~Blocked(mission, FALSE, evidence)
      stops == inbox.action = "stop" /\ acted.execution = "stopping"
      retries == Retries(held, evidence)
      offboard == [mode |-> "offboard", fresh |-> TRUE]
      sent == (IF stops THEN <<Position>> ELSE << >>)
                \o (IF starts \/ retries THEN <<offboard>> ELSE << >>)
                \o (IF legacy THEN <<Position>> ELSE << >>)
  IN /\ pc = "act"
     /\ mission' = [retried EXCEPT
                      !.sinceRequest = Later(@, RetryDelay),
                      !.sinceModeRequest = IF legacy THEN 1 ELSE Later(@, RetryDelay)]
     /\ uplink' = Transmitted(Aged(uplink, starts \/ retries), sent)
     /\ acks' = Aged(acks, starts \/ retries)
     /\ inbox' = [inbox EXCEPT !.action = None]
     /\ asked' = IF starts THEN 1 ELSE IF retries THEN asked + 1 ELSE asked
     /\ consent' = CASE inbox.action = "stop" -> FALSE
                     [] starts -> TRUE
                     [] OTHER -> consent
     /\ frame' = NoFrame
     /\ pc' = "drain"
     /\ UNCHANGED <<px4, seen, plan, lap, latched, gapDue>>

-----------------------------------------------------------------------------
Operator == \/ \E p \in Plans : SubmitMission(p)
            \/ \E a \in Actions : SubmitAction(a)

Environment == \/ \E accepts \in BOOLEAN : Px4HandlesCommand(accepts)
               \/ LoseCommand
               \/ LoseAck
               \/ Px4SetpointFailsafe
               \/ \E m \in PilotModes : PilotSelectsMode(m)
               \/ PilotArmsOrDisarms
               \/ ReceiveHeartbeat
               \/ ReceiveAck

Laps == {"inactive", "entering", "latched"}

Worker == \/ \E valid \in BOOLEAN, s \in Situations, l \in Laps : EvaluateFrame(valid, s, l)
          \/ \E evidence \in BOOLEAN : ActOnFrame(evidence)

Crash == \E valid \in BOOLEAN, l \in Laps : CrashFrame(valid, l)

Next == Operator \/ Environment \/ Worker \/ Crash

Spec == Init /\ [][Next]_vars

(***************************************************************************)
(* The worker keeps framing: it sleeps at most a period, and a frame that  *)
(* raises is retried.  PX4's setpoint failsafe acts on its own clock;      *)
(* being confined to the drain is a reduction of this model, so its        *)
(* fairness is strong.                                                     *)
(***************************************************************************)
FairSpec == Spec /\ WF_vars(Worker) /\ SF_vars(Px4SetpointFailsafe)

-----------------------------------------------------------------------------
(* The mission flags, the state shown to the operator and what was asked   *)
(* of PX4 tell one story: handle_pending_mission_action and              *)
(* prepare_mission_execution_state each write some of them on a dozen      *)
(* paths, and a retry, an abort or a stop that forgot one would resume a   *)
(* mission that had ended.                                                 *)
FlagsAgree ==
  /\ mission.startPending <=> mission.execution = "entering"
  /\ mission.expected <=> mission.execution = "running"
  /\ mission.ackPending \/ mission.ackResult # None => mission.startPending
  /\ mission.startPending => consent /\ mission.attempts = asked

(* No execution outlives the abort latch: once a frame is over, a latched  *)
(* sender goes with a mission that is neither entering nor running, so the *)
(* legacy recovery never meets a mission that expects OFFBOARD.            *)
LatchEndsExecution ==
  pc = "drain" /\ latched => mission.execution \notin {"entering", "running"}

(* The bridge asks PX4 for OFFBOARD only on the word of the operator: the  *)
(* last action it consumed is an accepted start, through every retry, and  *)
(* a stop ends the requests whatever was pending.                          *)
RequestsAreWanted ==
  [][Len(uplink') > Len(uplink) /\ uplink'[Len(uplink')] = [mode |-> "offboard", fresh |-> TRUE]
       => consent']_vars

Lifecycle == INSTANCE MissionLifecycle WITH execution <- mission.execution

(* The execution shown to the operator moves as MissionLifecycle allows:   *)
(* bounded requests for one start, and no way back from an end but a start.*)
ImplementsLifecycle == Lifecycle!Spec

(* An entry never hangs: PX4 confirms, or the attempts run out, or it ends.*)
EnteringResolves == mission.execution = "entering" ~> mission.execution # "entering"

(* A latched companion is silent, and silence makes PX4 leave OFFBOARD     *)
(* even when every Position request is lost.                               *)
LatchedFlightLeavesOffboard ==
  latched /\ px4.mode = "offboard" ~> ~latched \/ px4.mode # "offboard"

-----------------------------------------------------------------------------
(* The dashboard takes an aborted mission for ended and offers no stop for *)
(* it (index.html:1875), and companion_holds_offboard counts on an aborted *)
(* companion to have latched, and so to lose OFFBOARD: an aborted mission  *)
(* does not fly its lap.                                                   *)
AbortedMissionDoesNotFly ==
  ~ /\ pc = "act"
    /\ mission.execution = "aborted"
    /\ frame.sent = "velocity"
    /\ lap = "latched"
=============================================================================
