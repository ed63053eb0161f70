---------------------------- MODULE AbortMatrix ----------------------------
(***************************************************************************)
(* ABORT_MATRIX of one_uav_active_readiness.py: for each abort condition   *)
(* the immediate action and whether the sender may resume on its own.  The *)
(* order of the table is the order in which conditions are resolved.       *)
(***************************************************************************)
EXTENDS Naturals, Sequences

Severity == <<
  "self_telemetry_stale",
  "command_stale",
  "setpoint_stream_gap",
  "px4_rejects_offboard",
  "px4_exits_offboard_unexpectedly",
  "cbf_invalid_or_infeasible",
  "emergency_supervisor_hold",
  "emergency_recommends_position_hold",
  "emergency_recommends_rtl_or_land",
  "geofence_violation_or_risk",
  "vertical_velocity_sign_mismatch",
  "nan_or_inf_command",
  "mavlink_connection_loss",
  "companion_safety_loop_stops" >>

Conditions == {Severity[i] : i \in 1 .. 14}

SendZeroVelocity ==
  {"cbf_invalid_or_infeasible", "emergency_supervisor_hold",
   "geofence_violation_or_risk"}

RequestPositionMode ==
  {"emergency_recommends_position_hold", "emergency_recommends_rtl_or_land"}

RefuseToProceed == {"px4_rejects_offboard"}

(* Mutants of the table: latching rules that keep commanding zero; an action of its own for RTL. *)
ActionZero(condition) == IF condition \in RefuseToProceed THEN "withhold" ELSE "zero"
ActionWithRtl(condition) ==
  IF condition = "emergency_recommends_rtl_or_land" THEN "return_to_launch"
  ELSE IF condition \in RequestPositionMode THEN "request_position"
  ELSE IF condition \in SendZeroVelocity THEN "zero" ELSE "withhold"

(* Every other rule stops sending setpoints. *)
ActionOf(condition) ==
  IF condition \in SendZeroVelocity THEN "zero"
  ELSE IF condition \in RequestPositionMode THEN "request_position"
  ELSE "withhold"

(* recovery_allowed: the sender does not latch on these. *)
RecoveryAllowed == SendZeroVelocity \cup RefuseToProceed

(* Mutant: the last one is taken. *)
LastActive(active) ==
  Severity[CHOOSE i \in 1 .. 14 :
             /\ Severity[i] \in active
             /\ \A j \in (i + 1) .. 14 : Severity[j] \notin active]

(* The first condition of the table that is active. *)
FirstActive(active) ==
  Severity[CHOOSE i \in 1 .. 14 :
             /\ Severity[i] \in active
             /\ \A j \in 1 .. (i - 1) : Severity[j] \notin active]
=============================================================================
