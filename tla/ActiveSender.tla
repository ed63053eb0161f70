---------------------------- MODULE ActiveSender ----------------------------
(***************************************************************************)
(* The companion's OFFBOARD setpoint sender of one vehicle                 *)
(* (active_offboard_setpoint_sender.py), stepped once per companion frame  *)
(* by step_active_offboard_sender of the bridge, which also rebuilds it.   *)
(* A frame brings the observations of that frame; what is kept is the      *)
(* abort latch and the measured continuity of the setpoint stream, on      *)
(* which a mission start relies.  Time is counted in ticks.                *)
(***************************************************************************)
EXTENDS Integers, AbortMatrix, SenderContract

CONSTANTS
  MaxGap,       \* WarmupContract.maximum_gap_s
  MinDuration,  \* WarmupContract.minimum_duration_s
  MinSamples,   \* WarmupContract.minimum_valid_samples
  CommandAge,   \* CONTROL_INPUT_MAX_AGE_S: a longer pause means the loop stopped
  MaxInterval,  \* longest pause between two frames
  Authorized    \* both authority gates clear this vehicle, so it has a sink

ASSUME SenderAssumption ==
  /\ MaxGap \in Nat /\ MinDuration \in Nat
  /\ MinSamples \in Nat \ {0}
  /\ CommandAge \in Nat /\ MaxGap <= CommandAge
  /\ MaxInterval \in Nat \ {0}
  /\ Authorized \in BOOLEAN

VARIABLES
  latched,      \* latched_abort
  stream,       \* the sender's own record of its transmissions
  decision,     \* TransmitDecision of the last frame
  abort,        \* abort_condition of the last frame
  rebuilt,      \* the last frame replaced a latched sender (reset_count went up)
  wire,         \* history: the setpoint stream as PX4 receives it
  view,         \* history: what the last frame knew of mission and vehicle
  told,         \* history: the last frame had reported conditions
  frameParity   \* history: flips every frame, so that a frame is never a stutter

vars == <<latched, stream, decision, abort, rebuilt, wire, view, told, frameParity>>

None == "none"

Saturated(age, cap) == IF age <= cap THEN age ELSE cap

(* Ages beyond these caps are not told apart by any comparison. *)
GapCap == MaxGap + 1

Streams == [stepped : BOOLEAN,              \* last_step_monotonic_s is set
            started : BOOLEAN,              \* stream_started_monotonic_s is set
            duration : 0 .. MinDuration,    \* last_transmit - stream_started
            samples : 0 .. MinSamples,      \* transmit_count
            silence : 0 .. GapCap,          \* now - last_transmit
            gapExceeded : BOOLEAN]          \* max_transmit_gap_s > maximum_gap_s

Wires == [run : 0 .. MinDuration,           \* length of the present gapless run
          count : 0 .. MinSamples,          \* setpoints in it
          silence : 0 .. GapCap]            \* time since the last setpoint

Decisions == {"transmit", "warmup", "zero", "withhold", "request_position"}

TypeOK ==
  /\ latched \in Conditions \cup {None}
  /\ stream \in Streams
  /\ decision \in Decisions
  /\ abort \in Conditions \cup {None}
  /\ rebuilt \in BOOLEAN
  /\ wire \in Wires
  /\ view \in Views /\ told \in BOOLEAN
  /\ frameParity \in {0, 1}

FreshStream == [stepped |-> FALSE, started |-> FALSE, duration |-> 0,
                samples |-> 0, silence |-> 0, gapExceeded |-> FALSE]

Init ==
  /\ latched = None
  /\ stream = FreshStream
  /\ decision = "withhold"
  /\ abort = None
  /\ rebuilt = FALSE
  /\ wire = [run |-> 0, count |-> 0, silence |-> GapCap]
  /\ view = [rejected |-> FALSE, left |-> FALSE, disarmed |-> FALSE, ready |-> FALSE]
  /\ told = FALSE
  /\ frameParity = 0

-----------------------------------------------------------------------------
(***************************************************************************)
(* What a frame observes.                                                  *)
(*   own      : own state usable, unusable, or unusable because the        *)
(*              heartbeat is lost                                          *)
(*   cbf      : the gate's result                                          *)
(*   rung     : the fallback ladder, as far as the preview shows it        *)
(*   armed    : last observed armed flag; offboard: last observed mode     *)
(*   mission  : the OFFBOARD request was rejected, or OFFBOARD was left    *)
(*              while the mission expected it                              *)
(*   accepted : the command validator passed the output                    *)
(* A gate without an own state holds; a held gate keeps the ladder off     *)
(* NORMAL; prepare_mission_execution_state clears the mission's            *)
(* expectations of a vehicle that is not armed or has entered OFFBOARD.    *)
(***************************************************************************)
Observations ==
  {o \in [own : {"ok", "invalid", "lost"},
          cbf : {"active", "held", "outside_geofence"},
          rung : {"normal", "acting", "hold", "position_hold", "rtl_or_land"},
          armed : {"armed", "disarmed", "unknown"},
          offboard : BOOLEAN,
          mission : {None, "rejected", "left"},
          accepted : BOOLEAN] :
     /\ o.own # "ok" => o.cbf = "held"
     /\ o.cbf # "active" => o.rung # "normal"
     /\ o.mission # None => o.armed = "armed" /\ ~o.offboard}

(* What of it the mission can tell, in the words of the contract. *)
View(o) == [rejected |-> o.mission = "rejected", left |-> o.mission = "left",
            disarmed |-> o.armed = "disarmed",
            ready |-> o.armed = "armed" /\ o.offboard]

Recommends(o) == o.rung \in {"position_hold", "rtl_or_land"}

If(condition, holds) == IF holds THEN {condition} ELSE {}

(* conditions_from_status: what only the caller can see. *)
Reported(o, dt) ==
  If("self_telemetry_stale", o.own # "ok")
    \cup If("cbf_invalid_or_infeasible", o.cbf # "active")
    \cup If("geofence_violation_or_risk", o.cbf = "outside_geofence")
    \cup If("mavlink_connection_loss", o.own = "lost")
    \cup If("px4_exits_offboard_unexpectedly", o.mission = "left")
    \cup If("px4_rejects_offboard", o.mission = "rejected")
    \cup If("companion_safety_loop_stops", dt > CommandAge)

(***************************************************************************)
(* What _abort_condition adds itself.  Its three remaining conditions      *)
(* (stale, malformed, sign mismatch) cannot arise here: the preview is     *)
(* built in the same frame, from a validated command, by a conversion that *)
(* negates the vertical component.                                         *)
(***************************************************************************)
SelfDerived(o, gap) ==
  If("setpoint_stream_gap", gap)
    \cup If("emergency_supervisor_hold", o.rung = "hold")
    \cup If("emergency_recommends_position_hold", o.rung = "position_hold")
    \cup If("emergency_recommends_rtl_or_land", o.rung = "rtl_or_land")

(* The two inhibit categories of the preview; "" is a valid preview. *)
Category(o) ==
  IF ~o.accepted \/ Recommends(o) THEN "command_integrity"
  ELSE IF o.armed # "armed" \/ ~o.offboard THEN "vehicle_not_ready"
  ELSE ""

(* Mutant of the rebuild guard: the armed flag is not consulted. *)
RebuildsWhileArmed(o, reported) == latched # None /\ reported = {}

(* reset_latched_active_sender *)
Rebuilds(o, reported) ==
  /\ latched # None
  /\ o.armed = "disarmed"
  /\ reported = {}

(* Mutant of _record_transmit: the gap is not compared with the largest so far. *)
AfterTransmitLastGap(s) ==
  [stepped |-> TRUE, started |-> TRUE,
   duration |-> IF s.started THEN Saturated(s.duration + s.silence, MinDuration) ELSE 0,
   samples |-> Saturated(s.samples + 1, MinSamples),
   silence |-> 0,
   gapExceeded |-> s.started /\ s.silence > MaxGap]

(* _record_transmit *)
AfterTransmit(s) ==
  [stepped |-> TRUE, started |-> TRUE,
   duration |-> IF s.started THEN Saturated(s.duration + s.silence, MinDuration) ELSE 0,
   samples |-> Saturated(s.samples + 1, MinSamples),
   silence |-> 0,
   gapExceeded |-> s.gapExceeded \/ (s.started /\ s.silence > MaxGap)]

WireAfter(sent, dt) ==
  LET silence == Saturated(wire.silence + dt, GapCap)
  IN IF ~sent THEN [wire EXCEPT !.silence = silence]
     ELSE IF silence > MaxGap THEN [run |-> 0, count |-> 1, silence |-> 0]
     ELSE [run |-> Saturated(wire.run + silence, MinDuration),
           count |-> Saturated(wire.count + 1, MinSamples),
           silence |-> 0]

(* A frame ends with _record: nothing sent, or something sent if there is a sink. *)
Record(verdict, sent, before, dt) ==
  /\ decision' = verdict
  /\ stream' = IF sent THEN AfterTransmit(before) ELSE [before EXCEPT !.stepped = TRUE]
  /\ wire' = WireAfter(sent, dt)
  /\ frameParity' = 1 - frameParity

-----------------------------------------------------------------------------
(* A latched abort outranks everything. *)
LatchedFrame(held, before, dt) ==
  /\ held # None
  /\ latched' = held
  /\ abort' = held
  /\ Record("withhold", FALSE, before, dt)

(* _handle_abort *)
AbortFrame(active, before, dt) ==
  LET condition == FirstActive(active)
      action == ActionOf(condition)
  IN /\ active # {}
     /\ abort' = condition
     /\ latched' = IF condition \in RecoveryAllowed THEN None ELSE condition
     /\ Record(action, action = "zero" /\ Authorized, before, dt)

(***************************************************************************)
(* No abort.  An untrustworthy command, or a vehicle without authority, is *)
(* withheld; a good command for a vehicle not yet in OFFBOARD is replaced  *)
(* by the zero velocity that keeps the stream alive; any other is sent.    *)
(***************************************************************************)
ClearFrame(o, before, dt) ==
  /\ abort' = None
  /\ latched' = None
  /\ \/ /\ Category(o) = "command_integrity" \/ ~Authorized
        /\ Record("withhold", FALSE, before, dt)
     \/ /\ Category(o) = "vehicle_not_ready" /\ Authorized
        /\ Record("warmup", TRUE, before, dt)
     \/ /\ Category(o) = "" /\ Authorized
        /\ Record("transmit", TRUE, before, dt)

(* step_active_offboard_sender: derive the conditions, maybe rebuild, then step. *)
Frame(o, dt) ==
  LET reported == Reported(o, dt)
      rebuild == Rebuilds(o, reported)
      held == IF rebuild THEN None ELSE latched
      before == IF rebuild THEN FreshStream
                ELSE [stream EXCEPT !.silence = Saturated(@ + dt, GapCap)]
      active == reported \cup SelfDerived(o, before.stepped /\ dt > MaxGap)
  IN /\ rebuilt' = rebuild
     /\ view' = View(o) /\ told' = (reported # {})
     /\ \/ LatchedFrame(held, before, dt)
        \/ held = None /\ AbortFrame(active, before, dt)
        \/ held = None /\ active = {} /\ ClearFrame(o, before, dt)

Next == \E o \in Observations, dt \in 1 .. MaxInterval : Frame(o, dt)

Spec == Init /\ [][Next]_vars

-----------------------------------------------------------------------------
Sent == Authorized /\ decision \in {"transmit", "warmup", "zero"}

(* The evidence mission_start_block_reason asks of the sender in the current frame. *)
StartEvidence ==
  /\ latched = None
  /\ abort = None
  /\ Sent
  /\ stream.duration >= MinDuration
  /\ stream.samples >= MinSamples
  /\ ~stream.gapExceeded

(***************************************************************************)
(* A latched sender is silent, from the very frame that latches: no rule   *)
(* that latches also keeps commanding the vehicle.                         *)
(***************************************************************************)
LatchedIsSilent == latched # None => ~Sent

(***************************************************************************)
(* The evidence the start gate accepts is real: PX4 has at this moment     *)
(* received an unbroken stream, no gap above the limit, for the required   *)
(* time and with the required number of setpoints, whatever latched, was   *)
(* rebuilt or was withheld before.                                         *)
(***************************************************************************)
WarmupEvidenceIsReal ==
  StartEvidence => /\ wire.run >= MinDuration
                   /\ wire.count >= MinSamples
                   /\ wire.silence = 0

(***************************************************************************)
(* A cleared latch never moves the vehicle at once: the frame that         *)
(* replaces a latched sender commands at most the zero velocity of a       *)
(* warmup.                                                                 *)
(***************************************************************************)
RebuiltSenderDoesNotMove == rebuilt => decision # "transmit"

Transmission ==
  IF ~Sent THEN "none" ELSE IF decision = "transmit" THEN "velocity" ELSE "zero"

(* The frame did what the contract says of a frame with finding s. *)
Honours(s) ==
  LET latch == latched # None
  IN  /\ (latched' # None) = EndsLatched(latch, s, view')
      /\ (abort' # None) = CarriesAbort(latch, s, view')
      /\ Transmission' = Transmits(latch, s, view')
      /\ (decision' = "request_position") = AsksForPosition(latch, s, view')
      /\ latched' = None => told' = IsReported(s, view')

(***************************************************************************)
(* The mission may rely on the contract: with authority, whatever          *)
(* conditions coincide and whatever was latched or rebuilt before, a frame *)
(* latches, aborts, transmits and asks for Position as the contract says   *)
(* for one of its findings, and the start gate, which a latch closes       *)
(* anyway, sees conditions exactly when that finding brings some.          *)
(***************************************************************************)
HonoursContract == [][Authorized => \E s \in Findings : Honours(s)]_vars
=============================================================================
