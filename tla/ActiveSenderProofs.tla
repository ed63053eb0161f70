------------------------- MODULE ActiveSenderProofs -------------------------
(***************************************************************************)
(* The abort latch and the start evidence of the active sender, for every  *)
(* warmup contract and every sequence of frames.                           *)
(***************************************************************************)
EXTENDS ActiveSender, TLAPS

(* The table yields one of the active conditions whenever there is one. *)
LEMMA FirstActiveIsActive ==
  ASSUME NEW active \in SUBSET Conditions, active # {}
  PROVE  FirstActive(active) \in active
  <1> DEFINE Has(i) == Severity[i] \in active
             First(i) == Has(i) /\ \A j \in 1 .. (i - 1) : ~Has(j)
  <1>1. \E i \in 1 .. 14 : Has(i)
    BY DEF Conditions
  <1>2. \E i \in 1 .. 14 : First(i)
    <2> HIDE DEF Has
    <2>1. PICK k \in 1 .. 14 : Has(k)
      BY <1>1
    <2>2. Has(1) \/ Has(2) \/ Has(3) \/ Has(4) \/ Has(5) \/ Has(6) \/ Has(7)
          \/ Has(8) \/ Has(9) \/ Has(10) \/ Has(11) \/ Has(12) \/ Has(13) \/ Has(14)
      BY <2>1
    <2> QED BY <2>2
  <1>3. FirstActive(active) = Severity[CHOOSE i \in 1 .. 14 : First(i)]
    BY DEF FirstActive
  <1> HIDE DEF First
  <1>4. First(CHOOSE i \in 1 .. 14 : First(i))
    BY <1>2
  <1> QED BY <1>3, <1>4 DEF First

(* Only conditions of the table are ever reported or derived. *)
LEMMA ReportedAreConditions ==
  ASSUME NEW o, NEW dt, NEW gap
  PROVE  Reported(o, dt) \cup SelfDerived(o, gap) \in SUBSET Conditions
  <1>1. /\ Severity[1] = "self_telemetry_stale"
        /\ Severity[3] = "setpoint_stream_gap"
        /\ Severity[4] = "px4_rejects_offboard"
        /\ Severity[5] = "px4_exits_offboard_unexpectedly"
        /\ Severity[6] = "cbf_invalid_or_infeasible"
        /\ Severity[7] = "emergency_supervisor_hold"
        /\ Severity[8] = "emergency_recommends_position_hold"
        /\ Severity[9] = "emergency_recommends_rtl_or_land"
        /\ Severity[10] = "geofence_violation_or_risk"
        /\ Severity[13] = "mavlink_connection_loss"
        /\ Severity[14] = "companion_safety_loop_stops"
    BY DEF Severity
  <1>2. {"self_telemetry_stale", "setpoint_stream_gap", "px4_rejects_offboard",
         "px4_exits_offboard_unexpectedly", "cbf_invalid_or_infeasible",
         "emergency_supervisor_hold", "emergency_recommends_position_hold",
         "emergency_recommends_rtl_or_land", "geofence_violation_or_risk",
         "mavlink_connection_loss", "companion_safety_loop_stops"} \subseteq Conditions
    BY <1>1 DEF Conditions
  <1>3. ASSUME NEW c \in Conditions, NEW holds
        PROVE  If(c, holds) \subseteq Conditions
    BY DEF If
  <1>4. Reported(o, dt) \subseteq Conditions
    <2> HIDE DEF Conditions
    <2>1. /\ If("self_telemetry_stale", o.own # "ok") \subseteq Conditions
          /\ If("cbf_invalid_or_infeasible", o.cbf # "active") \subseteq Conditions
          /\ If("geofence_violation_or_risk", o.cbf = "outside_geofence") \subseteq Conditions
          /\ If("mavlink_connection_loss", o.own = "lost") \subseteq Conditions
          /\ If("px4_exits_offboard_unexpectedly", o.mission = "left") \subseteq Conditions
          /\ If("px4_rejects_offboard", o.mission = "rejected") \subseteq Conditions
          /\ If("companion_safety_loop_stops", dt > CommandAge) \subseteq Conditions
      BY <1>2, <1>3
    <2> QED BY <2>1 DEF Reported
  <1>5. SelfDerived(o, gap) \subseteq Conditions
    <2>1. /\ If("setpoint_stream_gap", gap) \subseteq Conditions
          /\ If("emergency_supervisor_hold", o.rung = "hold") \subseteq Conditions
          /\ If("emergency_recommends_position_hold", o.rung = "position_hold") \subseteq Conditions
          /\ If("emergency_recommends_rtl_or_land", o.rung = "rtl_or_land") \subseteq Conditions
      BY <1>2, <1>3
    <2> QED BY <2>1 DEF SelfDerived
  <1> QED BY <1>4, <1>5

(* No rule of the table both latches and commands the vehicle. *)
LEMMA LatchingRulesAreSilent ==
  ASSUME NEW condition, condition \notin RecoveryAllowed
  PROVE  ActionOf(condition) \in {"withhold", "request_position"}
  BY DEF RecoveryAllowed, ActionOf

(***************************************************************************)
(* The sender's own record never claims more than PX4 received: as long as *)
(* it has seen no gap, its duration and samples are those of the run PX4   *)
(* is receiving.                                                           *)
(***************************************************************************)
RecordIsHonest ==
  /\ stream.started => stream.silence = wire.silence
  /\ ~stream.started => stream.samples = 0 /\ stream.duration = 0
  /\ stream.started /\ ~stream.gapExceeded
       => wire.run >= stream.duration /\ wire.count >= stream.samples

SentNow == Sent => wire.silence = 0

IInv == /\ TypeOK
        /\ RecordIsHonest
        /\ SentNow
        /\ LatchedIsSilent
        /\ RebuiltSenderDoesNotMove

(* The stream a frame starts from: the sender's own, aged, or a new sender's. *)
IsBefore(before, dt) ==
  \/ before = FreshStream
  \/ before = [stream EXCEPT !.silence = Saturated(@ + dt, GapCap)]

(* Recording a frame keeps the record honest, whether or not it sent. *)
LEMMA RecordInv ==
  ASSUME IInv, NEW dt \in Nat, NEW before, IsBefore(before, dt),
         NEW verdict \in Decisions, NEW sent \in BOOLEAN,
         sent <=> (Authorized /\ verdict \in {"transmit", "warmup", "zero"}),
         Record(verdict, sent, before, dt)
  PROVE  /\ stream' \in Streams /\ decision' \in Decisions
         /\ wire' \in Wires /\ frameParity' \in {0, 1}
         /\ RecordIsHonest' /\ SentNow'
         /\ decision' = verdict /\ Sent' = sent
  <1> USE SenderAssumption DEF GapCap
  <1>1. /\ stream \in Streams /\ wire \in Wires /\ frameParity \in {0, 1}
        /\ RecordIsHonest
    BY DEF IInv, TypeOK
  <1>2. /\ wire.run \in 0 .. MinDuration
        /\ wire.count \in 0 .. MinSamples
        /\ wire.silence \in 0 .. GapCap
        /\ wire = [run |-> wire.run, count |-> wire.count, silence |-> wire.silence]
    BY <1>1 DEF Wires
  <1> DEFINE quiet == Saturated(wire.silence + dt, GapCap)
  <1>3. quiet \in 0 .. GapCap
    BY <1>2 DEF Saturated
  <1>4. /\ before \in Streams
        /\ before.started => before.silence = quiet
        /\ ~before.started => before.samples = 0 /\ before.duration = 0
        /\ before.started /\ ~before.gapExceeded
             => wire.run >= before.duration /\ wire.count >= before.samples
    <2>1. CASE before = FreshStream
      BY <2>1 DEF FreshStream, Streams
    <2>2. CASE before = [stream EXCEPT !.silence = Saturated(@ + dt, GapCap)]
      <3>1. /\ before.started = stream.started
            /\ before.samples = stream.samples
            /\ before.duration = stream.duration
            /\ before.gapExceeded = stream.gapExceeded
            /\ before.silence = Saturated(stream.silence + dt, GapCap)
        BY <1>1, <2>2 DEF Streams
      <3>2. before.silence \in 0 .. GapCap
        BY <1>1, <3>1 DEF Streams, Saturated
      <3>3. before \in Streams
        BY <1>1, <2>2, <3>1, <3>2 DEF Streams
      <3> QED BY <1>1, <3>1, <3>3 DEF RecordIsHonest
    <2> QED BY <2>1, <2>2 DEF IsBefore
  <1>5. /\ decision' = verdict /\ decision' \in Decisions
        /\ frameParity' \in {0, 1} /\ Sent' = sent
    BY <1>1 DEF Record, Sent
  <1>6. CASE ~sent
    <2>1. /\ wire' = [wire EXCEPT !.silence = quiet]
          /\ stream' = [before EXCEPT !.stepped = TRUE]
      BY <1>6 DEF Record, WireAfter
    <2>2. wire' \in Wires /\ stream' \in Streams
      BY <1>1, <1>3, <1>4, <2>1 DEF Wires, Streams
    <2>3. /\ wire'.silence = quiet /\ wire'.run = wire.run /\ wire'.count = wire.count
          /\ stream'.started = before.started /\ stream'.silence = before.silence
          /\ stream'.samples = before.samples /\ stream'.duration = before.duration
          /\ stream'.gapExceeded = before.gapExceeded
      BY <1>1, <1>4, <2>1 DEF Wires, Streams
    <2> QED BY <1>4, <1>5, <1>6, <2>2, <2>3 DEF RecordIsHonest, SentNow
  <1>7. CASE sent
    <2>1. stream' = AfterTransmit(before)
      BY <1>7 DEF Record
    <2>2. /\ stream'.started = TRUE /\ stream'.stepped = TRUE /\ stream'.silence = 0
          /\ stream'.samples = Saturated(before.samples + 1, MinSamples)
          /\ stream'.duration = IF before.started
                                THEN Saturated(before.duration + before.silence, MinDuration)
                                ELSE 0
          /\ stream'.gapExceeded <=> \/ before.gapExceeded
                                     \/ before.started /\ before.silence > MaxGap
      BY <2>1 DEF AfterTransmit
    <2>3. /\ before.samples \in 0 .. MinSamples /\ before.duration \in 0 .. MinDuration
          /\ before.silence \in 0 .. GapCap
          /\ before.started \in BOOLEAN /\ before.gapExceeded \in BOOLEAN
      BY <1>4 DEF Streams
    <2>4. stream' \in Streams
      <3>1. /\ Saturated(before.samples + 1, MinSamples) \in 0 .. MinSamples
            /\ Saturated(before.duration + before.silence, MinDuration) \in 0 .. MinDuration
        BY <2>3 DEF Saturated
      <3> QED BY <2>1, <2>3, <3>1 DEF AfterTransmit, Streams
    <2>5. wire' = IF quiet > MaxGap THEN [run |-> 0, count |-> 1, silence |-> 0]
                  ELSE [run |-> Saturated(wire.run + quiet, MinDuration),
                        count |-> Saturated(wire.count + 1, MinSamples),
                        silence |-> 0]
      BY <1>7 DEF Record, WireAfter
    <2>6. /\ wire' \in Wires /\ wire'.silence = 0
          /\ quiet > MaxGap => wire'.run = 0 /\ wire'.count = 1
          /\ quiet <= MaxGap => /\ wire'.run = Saturated(wire.run + quiet, MinDuration)
                                /\ wire'.count = Saturated(wire.count + 1, MinSamples)
      <3>1. /\ Saturated(wire.run + quiet, MinDuration) \in 0 .. MinDuration
            /\ Saturated(wire.count + 1, MinSamples) \in 0 .. MinSamples
        BY <1>2, <1>3 DEF Saturated
      <3> HIDE DEF quiet
      <3> QED BY <1>3, <2>5, <3>1 DEF Wires
    <2>7. ~stream'.gapExceeded => wire'.run >= stream'.duration /\ wire'.count >= stream'.samples
      <3> HIDE DEF quiet
      <3> SUFFICES ASSUME ~stream'.gapExceeded
                   PROVE  wire'.run >= stream'.duration /\ wire'.count >= stream'.samples
        OBVIOUS
      <3>1. CASE before.started
        <4>1. /\ before.silence = quiet /\ quiet <= MaxGap
              /\ wire.run >= before.duration /\ wire.count >= before.samples
          BY <3>1, <1>3, <1>4, <2>2, <2>3
        <4>2. /\ wire'.run = Saturated(wire.run + quiet, MinDuration)
              /\ wire'.count = Saturated(wire.count + 1, MinSamples)
              /\ stream'.duration = Saturated(before.duration + quiet, MinDuration)
              /\ stream'.samples = Saturated(before.samples + 1, MinSamples)
          BY <3>1, <4>1, <2>2, <2>6
        <4>3. wire'.run >= stream'.duration
          BY <4>1, <4>2, <1>2, <1>3, <2>3 DEF Saturated
        <4>4. wire'.count >= stream'.samples
          BY <4>1, <4>2, <1>2, <2>3 DEF Saturated
        <4> QED BY <4>3, <4>4
      <3>2. CASE ~before.started
        BY <3>2, <1>2, <1>3, <1>4, <2>2, <2>3, <2>6 DEF Saturated
      <3> QED BY <3>1, <3>2, <2>3
    <2> QED BY <1>5, <2>2, <2>4, <2>6, <2>7 DEF RecordIsHonest, SentNow
  <1> QED BY <1>6, <1>7

(* Every frame keeps the invariant. *)
LEMMA FrameInv ==
  ASSUME IInv, NEW o \in Observations, NEW dt \in 1 .. MaxInterval, Frame(o, dt)
  PROVE  IInv'
  <1>0. view' \in Views /\ told' \in BOOLEAN
    BY DEF Frame, View, Views
  <1> DEFINE reported == Reported(o, dt)
             rebuild == Rebuilds(o, reported)
             held == IF rebuild THEN None ELSE latched
             before == IF rebuild THEN FreshStream
                       ELSE [stream EXCEPT !.silence = Saturated(@ + dt, GapCap)]
             active == reported \cup SelfDerived(o, before.stepped /\ dt > MaxGap)
  <1>1. dt \in Nat
    BY SenderAssumption
  <1>2. IsBefore(before, dt)
    BY DEF IsBefore
  <1>3. held \in Conditions \cup {None} /\ rebuild \in BOOLEAN
    BY DEF IInv, TypeOK, Rebuilds
  <1>4. active \in SUBSET Conditions
    BY ReportedAreConditions
  <1>5. rebuilt' = rebuild
    BY DEF Frame
  <1>6. rebuild => o.armed = "disarmed"
    BY DEF Rebuilds
  <1>7. \/ LatchedFrame(held, before, dt)
        \/ held = None /\ AbortFrame(active, before, dt)
        \/ held = None /\ active = {} /\ ClearFrame(o, before, dt)
    BY DEF Frame
  <1> HIDE DEF reported, rebuild, held, before, active
  <1> USE SenderAssumption
  <1>8. CASE LatchedFrame(held, before, dt)
    <2>1. Record("withhold", FALSE, before, dt)
      BY <1>8 DEF LatchedFrame
    <2>2. /\ stream' \in Streams /\ decision' \in Decisions
          /\ wire' \in Wires /\ frameParity' \in {0, 1}
          /\ RecordIsHonest' /\ SentNow'
          /\ decision' = "withhold" /\ Sent' = FALSE
      BY <2>1, <1>1, <1>2, RecordInv DEF Decisions
    <2> QED BY <1>0, <1>3, <1>5, <1>8, <2>2
            DEF LatchedFrame, IInv, TypeOK, LatchedIsSilent, RebuiltSenderDoesNotMove
  <1>9. CASE held = None /\ AbortFrame(active, before, dt)
    <2> DEFINE condition == FirstActive(active)
               action == ActionOf(condition)
               sent == action = "zero" /\ Authorized
    <2>1. condition \in Conditions
      BY <1>4, <1>9, FirstActiveIsActive DEF AbortFrame
    <2>2. /\ abort' = condition
          /\ latched' = IF condition \in RecoveryAllowed THEN None ELSE condition
          /\ Record(action, sent, before, dt)
      BY <1>9 DEF AbortFrame
    <2>3. action \in {"zero", "request_position", "withhold"}
      BY DEF ActionOf
    <2>4. condition \notin RecoveryAllowed => action # "zero"
      BY LatchingRulesAreSilent
    <2> HIDE DEF condition, action
    <2>5. /\ stream' \in Streams /\ decision' \in Decisions
          /\ wire' \in Wires /\ frameParity' \in {0, 1}
          /\ RecordIsHonest' /\ SentNow'
          /\ decision' = action /\ Sent' = sent
      BY <2>2, <2>3, <1>1, <1>2, RecordInv DEF Decisions
    <2> QED BY <1>0, <1>3, <1>5, <2>1, <2>2, <2>3, <2>4, <2>5
            DEF IInv, TypeOK, LatchedIsSilent, RebuiltSenderDoesNotMove
  <1>10. CASE held = None /\ active = {} /\ ClearFrame(o, before, dt)
    <2>1. /\ abort' = None /\ latched' = None
          /\ \/ Record("withhold", FALSE, before, dt)
             \/ Authorized /\ Record("warmup", TRUE, before, dt)
             \/ Authorized /\ Category(o) = "" /\ Record("transmit", TRUE, before, dt)
      BY <1>10 DEF ClearFrame
    <2>2. /\ stream' \in Streams /\ decision' \in Decisions
          /\ wire' \in Wires /\ frameParity' \in {0, 1}
          /\ RecordIsHonest' /\ SentNow'
          /\ decision' = "transmit" => Category(o) = ""
      BY <2>1, <1>1, <1>2, RecordInv DEF Decisions
    <2>3. Category(o) = "" => o.armed # "disarmed"
      BY DEF Category
    <2> QED BY <1>0, <1>3, <1>5, <1>6, <2>1, <2>2, <2>3
            DEF IInv, TypeOK, LatchedIsSilent, RebuiltSenderDoesNotMove
  <1> QED BY <1>7, <1>8, <1>9, <1>10

(* The strengthened invariant holds of every behaviour. *)
THEOREM Invariance == Spec => []IInv
  <1>1. Init => IInv
    <2> SUFFICES ASSUME Init PROVE IInv
      OBVIOUS
    <2>1. stream \in Streams /\ wire \in Wires
      BY SenderAssumption DEF Init, FreshStream, Streams, Wires, GapCap
    <2>2. RecordIsHonest
      BY DEF Init, FreshStream, RecordIsHonest
    <2>3. ~Sent /\ latched = None /\ rebuilt = FALSE
      BY DEF Init, Sent
    <2>4. view \in Views /\ told \in BOOLEAN
      BY DEF Init, Views
    <2> QED BY <2>1, <2>2, <2>3, <2>4
            DEF Init, IInv, TypeOK, SentNow, LatchedIsSilent, RebuiltSenderDoesNotMove, Decisions
  <1>2. IInv /\ [Next]_vars => IInv'
    <2> SUFFICES ASSUME IInv, [Next]_vars PROVE IInv'
      OBVIOUS
    <2>1. CASE Next
      BY <2>1, FrameInv DEF Next
    <2>2. CASE UNCHANGED vars
      BY <2>2 DEF vars, IInv, TypeOK, RecordIsHonest, SentNow, Sent, LatchedIsSilent,
                  RebuiltSenderDoesNotMove
    <2> QED BY <2>1, <2>2
  <1> QED BY <1>1, <1>2, PTL DEF Spec

(* Every variable of the sender keeps its type. *)
THEOREM TypeCorrect == Spec => []TypeOK
  <1>1. IInv => TypeOK
    BY DEF IInv
  <1> QED BY <1>1, Invariance, PTL

(* A latched sender transmits nothing, from the frame that latches on. *)
THEOREM LatchSilences == Spec => []LatchedIsSilent
  <1>1. IInv => LatchedIsSilent
    BY DEF IInv
  <1> QED BY <1>1, Invariance, PTL

(* The evidence that admits a mission start describes what PX4 received. *)
THEOREM EvidenceIsReal == Spec => []WarmupEvidenceIsReal
  <1>1. IInv => WarmupEvidenceIsReal
    <2> SUFFICES ASSUME IInv, StartEvidence
                 PROVE  wire.run >= MinDuration /\ wire.count >= MinSamples /\ wire.silence = 0
      BY DEF WarmupEvidenceIsReal
    <2>1. /\ stream.duration \in 0 .. MinDuration /\ stream.samples \in 0 .. MinSamples
          /\ wire.run \in 0 .. MinDuration /\ wire.count \in 0 .. MinSamples
      BY DEF IInv, TypeOK, Streams, Wires
    <2>2. stream.started
      BY <2>1, SenderAssumption DEF IInv, RecordIsHonest, StartEvidence, TypeOK, Streams
    <2> QED BY <2>1, <2>2, SenderAssumption
            DEF IInv, RecordIsHonest, SentNow, StartEvidence
  <1> QED BY <1>1, Invariance, PTL

(* The frame that replaces a latched sender sends no mission velocity. *)
THEOREM RebuildIsStill == Spec => []RebuiltSenderDoesNotMove
  <1>1. IInv => RebuiltSenderDoesNotMove
    BY DEF IInv
  <1> QED BY <1>1, Invariance, PTL

-----------------------------------------------------------------------------
(* The contract of a frame.                                                *)

(* What the table yields is the active condition nothing active precedes. *)
LEMMA FirstIs ==
  ASSUME NEW active, NEW i \in 1 .. 14, Severity[i] \in active,
         \A j \in 1 .. (i - 1) : Severity[j] \notin active
  PROVE  FirstActive(active) = Severity[i]
  <1> DEFINE First(k) == Severity[k] \in active
                         /\ \A j \in 1 .. (k - 1) : Severity[j] \notin active
  <1>1. First(i)
    OBVIOUS
  <1>2. \A k \in 1 .. 14 : First(k) => k = i
    <2> SUFFICES ASSUME NEW k \in 1 .. 14, First(k), k # i PROVE FALSE
      OBVIOUS
    <2>1. k \in 1 .. (i - 1) \/ i \in 1 .. (k - 1)
      OBVIOUS
    <2> QED BY <2>1, <1>1
  <1>3. FirstActive(active) = Severity[CHOOSE k \in 1 .. 14 : First(k)]
    BY DEF FirstActive
  <1> HIDE DEF First
  <1>4. (CHOOSE k \in 1 .. 14 : First(k)) = i
    BY <1>1, <1>2
  <1> QED BY <1>3, <1>4

Active(o, dt, gap) == Reported(o, dt) \cup SelfDerived(o, gap)

(* Which conditions a frame can have, and from what. *)
LEMMA ActiveFrom ==
  ASSUME NEW o \in Observations, NEW dt, NEW gap \in BOOLEAN
  PROVE  /\ "self_telemetry_stale" \in Active(o, dt, gap) <=> o.own # "ok"
         /\ "command_stale" \notin Active(o, dt, gap)
         /\ "setpoint_stream_gap" \in Active(o, dt, gap) <=> gap
         /\ "px4_rejects_offboard" \in Active(o, dt, gap) <=> o.mission = "rejected"
         /\ "px4_exits_offboard_unexpectedly" \in Active(o, dt, gap) <=> o.mission = "left"
         /\ "cbf_invalid_or_infeasible" \in Active(o, dt, gap) <=> o.cbf # "active"
         /\ "emergency_supervisor_hold" \in Active(o, dt, gap) <=> o.rung = "hold"
         /\ "emergency_recommends_position_hold" \in Active(o, dt, gap)
              <=> o.rung = "position_hold"
         /\ "emergency_recommends_rtl_or_land" \in Active(o, dt, gap)
              <=> o.rung = "rtl_or_land"
         /\ "geofence_violation_or_risk" \in Active(o, dt, gap)
              <=> o.cbf = "outside_geofence"
         /\ "vertical_velocity_sign_mismatch" \notin Active(o, dt, gap)
         /\ "nan_or_inf_command" \notin Active(o, dt, gap)
         /\ "mavlink_connection_loss" \in Active(o, dt, gap) <=> o.own = "lost"
         /\ "companion_safety_loop_stops" \in Active(o, dt, gap) <=> dt > CommandAge
  BY DEF Active, Reported, SelfDerived, If

(* The mission's own conditions come after the state and the stream. *)
Undisturbed(o, gap) == o.own = "ok" /\ ~gap
Unopposed(o, gap) == Undisturbed(o, gap) /\ o.mission = None
Feasible(o, gap) == Unopposed(o, gap) /\ o.cbf = "active"

(* The table in the order in which it bites: which condition a frame acts on. *)
LEMMA FirstCondition ==
  ASSUME NEW o \in Observations, NEW dt, NEW gap \in BOOLEAN,
         NEW first, first = FirstActive(Active(o, dt, gap))
  PROVE  /\ o.own # "ok" => first = "self_telemetry_stale"
         /\ o.own = "ok" /\ gap => first = "setpoint_stream_gap"
         /\ Undisturbed(o, gap) /\ o.mission = "rejected" => first = "px4_rejects_offboard"
         /\ Undisturbed(o, gap) /\ o.mission = "left"
              => first = "px4_exits_offboard_unexpectedly"
         /\ Unopposed(o, gap) /\ o.cbf # "active" => first = "cbf_invalid_or_infeasible"
         /\ Feasible(o, gap) /\ o.rung = "hold" => first = "emergency_supervisor_hold"
         /\ Feasible(o, gap) /\ o.rung = "position_hold"
              => first = "emergency_recommends_position_hold"
         /\ Feasible(o, gap) /\ o.rung = "rtl_or_land"
              => first = "emergency_recommends_rtl_or_land"
         /\ Feasible(o, gap) /\ o.rung \in {"normal", "acting"} /\ dt > CommandAge
              => first = "companion_safety_loop_stops"
  <1> DEFINE a == Active(o, dt, gap)
  <1> USE DEF Undisturbed, Unopposed, Feasible
  <1>1. o.cbf = "active" => o.cbf # "outside_geofence"
    OBVIOUS
  <1>2. /\ Severity[1] = "self_telemetry_stale"
        /\ Severity[2] = "command_stale"
        /\ Severity[3] = "setpoint_stream_gap"
        /\ Severity[4] = "px4_rejects_offboard"
        /\ Severity[5] = "px4_exits_offboard_unexpectedly"
        /\ Severity[6] = "cbf_invalid_or_infeasible"
        /\ Severity[7] = "emergency_supervisor_hold"
        /\ Severity[8] = "emergency_recommends_position_hold"
        /\ Severity[9] = "emergency_recommends_rtl_or_land"
        /\ Severity[10] = "geofence_violation_or_risk"
        /\ Severity[11] = "vertical_velocity_sign_mismatch"
        /\ Severity[12] = "nan_or_inf_command"
        /\ Severity[13] = "mavlink_connection_loss"
        /\ Severity[14] = "companion_safety_loop_stops"
    BY DEF Severity
  <1>3. first = FirstActive(a)
    OBVIOUS
  <1>4. /\ Severity[1] \in a <=> o.own # "ok"
        /\ Severity[2] \notin a
        /\ Severity[3] \in a <=> gap
        /\ Severity[4] \in a <=> o.mission = "rejected"
        /\ Severity[5] \in a <=> o.mission = "left"
        /\ Severity[6] \in a <=> o.cbf # "active"
        /\ Severity[7] \in a <=> o.rung = "hold"
        /\ Severity[8] \in a <=> o.rung = "position_hold"
        /\ Severity[9] \in a <=> o.rung = "rtl_or_land"
        /\ Severity[10] \in a <=> o.cbf = "outside_geofence"
        /\ Severity[11] \notin a
        /\ Severity[12] \notin a
        /\ Severity[13] \in a <=> o.own = "lost"
        /\ Severity[14] \in a <=> dt > CommandAge
    BY <1>2, ActiveFrom
  <1> HIDE DEF a
  <1> DEFINE Leads(i) == Severity[i] \in a /\ \A j \in 1 .. (i - 1) : Severity[j] \notin a
  <1>5. ASSUME NEW i \in 1 .. 14, Leads(i) PROVE first = Severity[i]
    BY <1>3, <1>5, FirstIs
  <1> HIDE DEF Leads
  <1>6. o.own # "ok" => Leads(1)
    BY <1>4 DEF Leads
  <1>7. o.own = "ok" /\ gap => Leads(3)
    BY <1>4 DEF Leads
  <1>8. o.mission = None => o.mission # "rejected" /\ o.mission # "left"
    BY DEF None
  <1>9. Undisturbed(o, gap) /\ o.mission = "rejected" => Leads(4)
    BY <1>4 DEF Leads
  <1>10. Undisturbed(o, gap) /\ o.mission = "left" => Leads(5)
    BY <1>4 DEF Leads
  <1>11. Unopposed(o, gap) /\ o.cbf # "active" => Leads(6)
    BY <1>4, <1>8 DEF Leads
  <1>12. Feasible(o, gap) /\ o.rung = "hold" => Leads(7)
    BY <1>4, <1>8 DEF Leads
  <1>13. Feasible(o, gap) /\ o.rung = "position_hold" => Leads(8)
    BY <1>4, <1>8 DEF Leads
  <1>14. Feasible(o, gap) /\ o.rung = "rtl_or_land" => Leads(9)
    BY <1>4, <1>8 DEF Leads
  <1>15. Feasible(o, gap) /\ o.rung \in {"normal", "acting"} /\ dt > CommandAge => Leads(14)
    <2> SUFFICES ASSUME Feasible(o, gap), o.rung \in {"normal", "acting"}, dt > CommandAge
                 PROVE  Leads(14)
      OBVIOUS
    <2>1. /\ o.rung # "hold" /\ o.rung # "position_hold" /\ o.rung # "rtl_or_land"
          /\ o.own # "lost"
      OBVIOUS
    <2>2. \A j \in 1 .. 13 : Severity[j] \notin a
      <3>1. /\ Severity[1] \notin a /\ Severity[2] \notin a /\ Severity[3] \notin a
            /\ Severity[4] \notin a /\ Severity[5] \notin a /\ Severity[6] \notin a
            /\ Severity[7] \notin a /\ Severity[8] \notin a /\ Severity[9] \notin a
            /\ Severity[10] \notin a /\ Severity[11] \notin a /\ Severity[12] \notin a
            /\ Severity[13] \notin a
        BY <1>1, <1>4, <1>8, <2>1
      <3>2. \A j \in 1 .. 13 : \/ j = 1 \/ j = 2 \/ j = 3 \/ j = 4 \/ j = 5 \/ j = 6
                               \/ j = 7 \/ j = 8 \/ j = 9 \/ j = 10 \/ j = 11 \/ j = 12
                               \/ j = 13
        OBVIOUS
      <3> QED BY <3>1, <3>2, Zenon
    <2> QED BY <1>4, <2>2 DEF Leads
  <1> QED BY <1>2, <1>5, <1>6, <1>7, <1>9, <1>10, <1>11, <1>12, <1>13, <1>14, <1>15

(* A frame without a condition: nothing disturbs, opposes, escalates or is late. *)
LEMMA NothingActive ==
  ASSUME NEW o \in Observations, NEW dt, NEW gap \in BOOLEAN
  PROVE  Active(o, dt, gap) = {}
           <=> Feasible(o, gap) /\ o.rung \in {"normal", "acting"} /\ ~(dt > CommandAge)
  <1>1. o.mission \in {None, "rejected", "left"}
        /\ o.rung \in {"normal", "acting", "hold", "position_hold", "rtl_or_land"}
    BY DEF Observations
  <1>2. ASSUME Active(o, dt, gap) = {}
        PROVE  Feasible(o, gap) /\ o.rung \in {"normal", "acting"} /\ ~(dt > CommandAge)
    BY <1>1, <1>2, ActiveFrom DEF Feasible, Unopposed, Undisturbed
  <1>3. ASSUME Feasible(o, gap), o.rung \in {"normal", "acting"}, ~(dt > CommandAge)
        PROVE  Active(o, dt, gap) = {}
    BY <1>3 DEF Active, Reported, SelfDerived, If, Feasible, Unopposed, Undisturbed, None
  <1> QED BY <1>2, <1>3

(* What the table orders for the conditions a frame can act on, and whether it latches. *)
LEMMA TableRows ==
  /\ \A c \in {"self_telemetry_stale", "setpoint_stream_gap",
               "px4_exits_offboard_unexpectedly", "companion_safety_loop_stops"} :
       ActionOf(c) = "withhold" /\ c \notin RecoveryAllowed
  /\ \A c \in {"emergency_recommends_position_hold", "emergency_recommends_rtl_or_land"} :
       ActionOf(c) = "request_position" /\ c \notin RecoveryAllowed
  /\ \A c \in {"cbf_invalid_or_infeasible", "emergency_supervisor_hold"} :
       ActionOf(c) = "zero" /\ c \in RecoveryAllowed
  /\ ActionOf("px4_rejects_offboard") = "withhold"
  /\ "px4_rejects_offboard" \in RecoveryAllowed
  BY DEF ActionOf, RecoveryAllowed, SendZeroVelocity, RequestPositionMode, RefuseToProceed

(***************************************************************************)
(* Every frame of an authorized sender honours the contract.  A frame that *)
(* stays latched is one where nothing new was found, or a held gate; any   *)
(* other frame is classed by the condition it acts on.                     *)
(***************************************************************************)
LEMMA FrameHonours ==
  ASSUME Authorized, latched \in Conditions \cup {None},
         NEW o \in Observations, NEW dt \in 1 .. MaxInterval, Frame(o, dt)
  PROVE  \E s \in Findings : Honours(s)
  <1> DEFINE reported == Reported(o, dt)
             rebuild == Rebuilds(o, reported)
             held == IF rebuild THEN None ELSE latched
             before == IF rebuild THEN FreshStream
                       ELSE [stream EXCEPT !.silence = Saturated(@ + dt, GapCap)]
             gap == before.stepped /\ dt > MaxGap
             v == View(o)
             latch == latched # None
  <1>1. /\ view' = v /\ told' = (reported # {}) /\ rebuild \in BOOLEAN
        /\ \/ LatchedFrame(held, before, dt)
           \/ held = None /\ AbortFrame(Active(o, dt, gap), before, dt)
           \/ held = None /\ Active(o, dt, gap) = {} /\ ClearFrame(o, before, dt)
    BY DEF Frame, Active, Rebuilds
  <1>2. /\ v.rejected <=> o.mission = "rejected"
        /\ v.left <=> o.mission = "left"
        /\ v.disarmed <=> o.armed = "disarmed"
        /\ v.ready <=> o.armed = "armed" /\ o.offboard
    BY DEF View, Observations
  <1>3. reported = {} => o.mission # "rejected" /\ o.mission # "left"
    BY DEF Reported, If
  <1>4. ASSUME NEW verdict, NEW sent \in BOOLEAN, Record(verdict, sent, before, dt)
        PROVE  decision' = verdict
    BY <1>4 DEF Record
  <1>5. CASE LatchedFrame(held, before, dt)
    <2>1. held # None /\ latched' = held /\ abort' = held /\ decision' = "withhold"
      BY <1>4, <1>5 DEF LatchedFrame
    <2>2. latch /\ ~rebuild
      BY <2>1
    <2>3. Transmission' = "none"
      BY <2>1 DEF Transmission, Sent
    <2>4. CASE reported # {}
      <3>1. StaysLatched(latch, "cbf", v)
        BY <2>2 DEF StaysLatched, IsReported
      <3>2. Honours("cbf")
        BY <1>1, <2>1, <2>2, <2>3, <3>1
           DEF Honours, EndsLatched, CarriesAbort, Transmits, AsksForPosition
      <3> QED BY <3>2 DEF Findings
    <2>5. CASE reported = {}
      <3>1. ~v.disarmed
        BY <2>2, <2>5, <1>2 DEF Rebuilds
      <3>2. StaysLatched(latch, "clear", v)
        BY <2>2, <3>1 DEF StaysLatched
      <3>3. Honours("clear")
        BY <1>1, <2>1, <2>2, <2>3, <3>2
           DEF Honours, EndsLatched, CarriesAbort, Transmits, AsksForPosition
      <3> QED BY <3>3 DEF Findings
    <2> QED BY <2>4, <2>5
  <1>6. ASSUME held = None, NEW s, IsReported(s, v) => ~rebuild
        PROVE  StaysLatched(latch, s, v) = FALSE
    <2>1. latch => rebuild
      BY <1>6
    <2>2. rebuild => v.disarmed
      BY <1>2 DEF Rebuilds
    <2> QED BY <1>6, <2>1, <2>2 DEF StaysLatched
  <1>7. rebuild => reported = {} /\ ~gap
    BY DEF Rebuilds, FreshStream
  <1> HIDE DEF v, before, held, gap, reported, rebuild
  <1>8. CASE held = None /\ AbortFrame(Active(o, dt, gap), before, dt)
    <2> DEFINE condition == FirstActive(Active(o, dt, gap))
    <2>1. /\ abort' = condition
          /\ latched' = IF condition \in RecoveryAllowed THEN None ELSE condition
          /\ decision' = ActionOf(condition)
      BY <1>4, <1>8 DEF AbortFrame
    <2>2. /\ gap \in BOOLEAN
          /\ o.own \in {"ok", "invalid", "lost"} /\ o.cbf \in {"active", "held", "outside_geofence"}
          /\ o.rung \in {"normal", "acting", "hold", "position_hold", "rtl_or_land"}
          /\ o.mission \in {None, "rejected", "left"}
      BY DEF gap, Observations
    <2>3. Active(o, dt, gap) # {}
      BY <1>8 DEF AbortFrame
    <2>4. /\ o.own # "ok" => condition = "self_telemetry_stale"
          /\ o.own = "ok" /\ gap => condition = "setpoint_stream_gap"
          /\ Undisturbed(o, gap) /\ o.mission = "rejected" => condition = "px4_rejects_offboard"
          /\ Undisturbed(o, gap) /\ o.mission = "left"
               => condition = "px4_exits_offboard_unexpectedly"
          /\ Unopposed(o, gap) /\ o.cbf # "active" => condition = "cbf_invalid_or_infeasible"
          /\ Feasible(o, gap) /\ o.rung = "hold" => condition = "emergency_supervisor_hold"
          /\ Feasible(o, gap) /\ o.rung = "position_hold"
               => condition = "emergency_recommends_position_hold"
          /\ Feasible(o, gap) /\ o.rung = "rtl_or_land"
               => condition = "emergency_recommends_rtl_or_land"
          /\ Feasible(o, gap) /\ o.rung \in {"normal", "acting"} /\ dt > CommandAge
               => condition = "companion_safety_loop_stops"
      BY <2>2, FirstCondition
    <2>5. Active(o, dt, gap) = {}
            <=> Feasible(o, gap) /\ o.rung \in {"normal", "acting"} /\ ~(dt > CommandAge)
      BY <2>2, NothingActive
    <2>6. o.own # "ok" \/ o.cbf # "active" \/ dt > CommandAge => reported # {}
      BY DEF Reported, If, reported
    <2>7. v.rejected \/ v.left => reported # {}
      BY <1>2, <1>3
    <2> HIDE DEF condition
    <2>15. \/ o.own # "ok"
           \/ o.own = "ok" /\ gap
           \/ Undisturbed(o, gap) /\ o.mission = "rejected"
           \/ Undisturbed(o, gap) /\ o.mission = "left"
           \/ Unopposed(o, gap) /\ o.cbf # "active"
           \/ Feasible(o, gap) /\ o.rung = "hold"
           \/ Feasible(o, gap) /\ o.rung \in {"position_hold", "rtl_or_land"}
           \/ Feasible(o, gap) /\ o.rung \in {"normal", "acting"} /\ dt > CommandAge
      BY <2>2, <2>3, <2>5 DEF Undisturbed, Unopposed, Feasible
    <2> USE DEF Honours, EndsLatched, CarriesAbort, Transmits, AsksForPosition, IsReported,
                Transmission, Sent, None, Findings
    <2>8. CASE o.own # "ok" \/ (o.own = "ok" /\ gap)
      <3>1. condition \in {"self_telemetry_stale", "setpoint_stream_gap"}
        BY <2>4, <2>8
      <3>2. latched' = condition /\ decision' = "withhold"
        BY <2>1, <3>1, TableRows
      <3>3. AsksForPosition(latch, "severe", v) = FALSE
        OBVIOUS
      <3>4. Honours("severe")
        BY <1>1, <2>1, <3>1, <3>2
      <3> QED BY <3>4
    <2>9. CASE Undisturbed(o, gap) /\ o.mission = "rejected"
      <3>1. latched' = None /\ decision' = "withhold" /\ abort' = "px4_rejects_offboard"
        BY <2>1, <2>4, <2>9, TableRows
      <3>2. v.rejected /\ told'
        BY <1>1, <1>2, <2>7, <2>9
      <3>3. ~StaysLatched(latch, "clear", v)
        BY <1>2, <1>3, <1>6, <1>7, <1>8, <2>9
      <3>4. Honours("clear")
        BY <1>1, <3>1, <3>2, <3>3
      <3> QED BY <3>4
    <2>10. CASE Undisturbed(o, gap) /\ o.mission = "left"
      <3>1. condition = "px4_exits_offboard_unexpectedly"
        BY <2>4, <2>10
      <3>2. latched' = condition /\ decision' = "withhold"
        BY <2>1, <3>1, TableRows
      <3>3. v.left /\ ~v.rejected
        BY <1>2, <2>10
      <3>4. Honours("clear")
        BY <1>1, <2>1, <3>1, <3>2, <3>3
      <3> QED BY <3>4
    <2>11. CASE Unopposed(o, gap) /\ o.cbf # "active"
      <3>1. latched' = None /\ decision' = "zero" /\ abort' = "cbf_invalid_or_infeasible"
        BY <2>1, <2>4, <2>11, TableRows
      <3>2. ~v.left /\ ~v.rejected /\ told' /\ ~rebuild
        BY <1>1, <1>2, <1>7, <2>6, <2>11 DEF Unopposed
      <3>3. ~StaysLatched(latch, "cbf", v)
        BY <1>6, <1>8, <3>2
      <3>4. Honours("cbf")
        BY <1>1, <3>1, <3>2, <3>3
      <3> QED BY <3>4
    <2>12. CASE Feasible(o, gap) /\ o.rung = "hold"
      <3>1. latched' = None /\ decision' = "zero" /\ abort' = "emergency_supervisor_hold"
        BY <2>1, <2>4, <2>12, TableRows
      <3>2. ~v.left /\ ~v.rejected
        BY <1>2, <2>12 DEF Feasible, Unopposed
      <3>3. CASE told'
        <4>1. ~StaysLatched(latch, "cbf", v)
          BY <1>1, <1>6, <1>7, <1>8, <3>3
        <4>2. Honours("cbf")
          BY <1>1, <3>1, <3>2, <3>3, <4>1
        <4> QED BY <4>2
      <3>4. CASE ~told'
        <4>1. ~StaysLatched(latch, "hold", v)
          BY <1>6, <1>8, <3>2
        <4>2. Honours("hold")
          BY <1>1, <3>1, <3>2, <3>4, <4>1
        <4> QED BY <4>2
      <3> QED BY <3>3, <3>4
    <2>13. CASE Feasible(o, gap) /\ o.rung \in {"position_hold", "rtl_or_land"}
      <3>1. condition \in {"emergency_recommends_position_hold",
                           "emergency_recommends_rtl_or_land"}
        BY <2>4, <2>13
      <3>2. latched' = condition /\ decision' = "request_position"
        BY <2>1, <3>1, TableRows
      <3>3. ~v.left /\ ~v.rejected
        BY <1>2, <2>13 DEF Feasible, Unopposed
      <3>4. ~StaysLatched(latch, "recommend", v)
        BY <1>6, <1>8, <3>3
      <3>5. Honours("recommend")
        BY <1>1, <2>1, <3>1, <3>2, <3>3, <3>4
      <3> QED BY <3>5
    <2>14. CASE Feasible(o, gap) /\ o.rung \in {"normal", "acting"} /\ dt > CommandAge
      <3>1. condition = "companion_safety_loop_stops"
        BY <2>4, <2>14
      <3>2. latched' = condition /\ decision' = "withhold"
        BY <2>1, <3>1, TableRows
      <3>3. Honours("severe")
        BY <1>1, <2>1, <3>1, <3>2
      <3> QED BY <3>3
    <2> QED BY <2>8, <2>9, <2>10, <2>11, <2>12, <2>13, <2>14, <2>15
  <1>9. CASE held = None /\ Active(o, dt, gap) = {} /\ ClearFrame(o, before, dt)
    <2> USE DEF Honours, EndsLatched, CarriesAbort, Transmits, AsksForPosition, IsReported,
                Transmission, Sent, None, Findings
    <2>1. reported = {}
      BY <1>9 DEF Active, reported
    <2>2. ~v.rejected /\ ~v.left /\ told' = FALSE
      BY <1>1, <1>2, <1>3, <2>1
    <2>3. /\ abort' = None /\ latched' = None
          /\ \/ Category(o) = "command_integrity" /\ decision' = "withhold"
             \/ Category(o) = "vehicle_not_ready" /\ decision' = "warmup"
             \/ Category(o) = "" /\ decision' = "transmit"
      BY <1>4, <1>9 DEF ClearFrame
    <2>4. ~StaysLatched(latch, "clear", v) /\ ~StaysLatched(latch, "unaccepted", v)
      BY <1>6, <1>9, <2>2
    <2>5. CASE Category(o) = "command_integrity" /\ decision' = "withhold"
      BY <1>1, <2>2, <2>3, <2>4, <2>5
    <2>6. CASE Category(o) = "vehicle_not_ready" /\ decision' = "warmup"
      <3>1. ~v.ready
        BY <1>2, <2>6 DEF Category
      <3> QED BY <1>1, <2>2, <2>3, <2>4, <2>6, <3>1
    <2>7. CASE Category(o) = "" /\ decision' = "transmit"
      <3>1. v.ready
        BY <1>2, <2>7 DEF Category
      <3> QED BY <1>1, <2>2, <2>3, <2>4, <2>7, <3>1
    <2> QED BY <2>3, <2>5, <2>6, <2>7
  <1> QED BY <1>1, <1>5, <1>8, <1>9

(* The mission's model of a frame is what an authorized sender does. *)
THEOREM ContractHonoured == Spec => HonoursContract
  <1>1. TypeOK /\ [Next]_vars => [Authorized => \E s \in Findings : Honours(s)]_vars
    BY FrameHonours DEF TypeOK, Next
  <1> QED BY <1>1, TypeCorrect, PTL DEF Spec, HonoursContract

-----------------------------------------------------------------------------
(***************************************************************************)
(* What a frame must have seen to act on the vehicle: a velocity goes out  *)
(* only while everything the sender looks at is in order at once, and PX4  *)
(* is asked for Position only on a rung that recommends it while the gate  *)
(* is feasible and the mission is undisturbed.                             *)
(***************************************************************************)
InOrder(o, dt) ==
  /\ latched = None
  /\ o.own = "ok" /\ o.cbf = "active" /\ o.mission = None /\ o.accepted
  /\ o.rung \in {"normal", "acting"}
  /\ o.armed = "armed" /\ o.offboard
  /\ ~(dt > CommandAge)

Justified(o, dt) ==
  /\ decision' = "transmit" => Authorized /\ InOrder(o, dt)
  /\ decision' = "request_position"
       => o.own = "ok" /\ o.cbf = "active" /\ o.mission = None /\ Recommends(o)

LEMMA FrameJustified ==
  ASSUME TypeOK, NEW o \in Observations, NEW dt \in 1 .. MaxInterval, Frame(o, dt)
  PROVE  Justified(o, dt)
  <1> DEFINE reported == Reported(o, dt)
             rebuild == Rebuilds(o, reported)
             held == IF rebuild THEN None ELSE latched
             before == IF rebuild THEN FreshStream
                       ELSE [stream EXCEPT !.silence = Saturated(@ + dt, GapCap)]
             gap == before.stepped /\ dt > MaxGap
             active == Active(o, dt, gap)
  <1>1. \/ LatchedFrame(held, before, dt)
        \/ held = None /\ AbortFrame(active, before, dt)
        \/ held = None /\ active = {} /\ ClearFrame(o, before, dt)
    BY DEF Frame, Active, Rebuilds
  <1>2. gap \in BOOLEAN
    OBVIOUS
  <1>3. rebuild => o.armed = "disarmed"
    BY DEF Rebuilds
  <1> HIDE DEF reported, rebuild, before, gap, active
  <1>4. CASE LatchedFrame(held, before, dt)
    BY <1>4 DEF LatchedFrame, Record, Justified
  <1>5. CASE held = None /\ AbortFrame(active, before, dt)
    <2> DEFINE condition == FirstActive(active)
    <2>1. decision' = ActionOf(condition) /\ active # {}
      BY <1>5 DEF AbortFrame, Record
    <2>2. decision' # "transmit"
      BY <2>1 DEF ActionOf, SendZeroVelocity, RequestPositionMode
    <2>3. decision' = "request_position" => condition \in RequestPositionMode
      BY <2>1 DEF ActionOf, SendZeroVelocity, RequestPositionMode
    <2> HIDE DEF condition
    <2>4. ASSUME decision' = "request_position"
          PROVE  Feasible(o, gap) /\ Recommends(o)
      <3>1. condition \in RequestPositionMode
        BY <2>3, <2>4
      <3>2. Undisturbed(o, gap)
        BY <1>2, <3>1, FirstCondition DEF condition, active, Undisturbed, RequestPositionMode
      <3>3. Unopposed(o, gap)
        BY <1>2, <3>1, <3>2, FirstCondition
           DEF condition, active, Unopposed, RequestPositionMode, Observations
      <3>4. Feasible(o, gap)
        BY <1>2, <3>1, <3>3, FirstCondition DEF condition, active, Feasible, RequestPositionMode
      <3>5. Recommends(o)
        BY <1>2, <2>1, <3>1, <3>4, FirstCondition, NothingActive
           DEF condition, active, Recommends, RequestPositionMode, Observations
      <3> QED BY <3>4, <3>5
    <2> QED BY <2>2, <2>4 DEF Justified, Feasible, Unopposed, Undisturbed
  <1>6. CASE held = None /\ active = {} /\ ClearFrame(o, before, dt)
    <2>1. decision' # "request_position"
      BY <1>6 DEF ClearFrame, Record
    <2>2. ASSUME decision' = "transmit" PROVE Authorized /\ InOrder(o, dt)
      <3>1. Authorized /\ Category(o) = ""
        BY <1>6, <2>2 DEF ClearFrame, Record
      <3>2. Feasible(o, gap) /\ o.rung \in {"normal", "acting"} /\ ~(dt > CommandAge)
        BY <1>2, <1>6, NothingActive DEF active
      <3>3. o.armed = "armed" /\ o.offboard /\ o.accepted
        BY <3>1 DEF Category, Observations
      <3>4. latched = None
        BY <1>3, <1>6, <3>3
      <3> QED BY <3>1, <3>2, <3>3, <3>4 DEF InOrder, Feasible, Unopposed, Undisturbed
    <2> QED BY <2>1, <2>2 DEF Justified
  <1> QED BY <1>1, <1>4, <1>5, <1>6

(* Every step is a frame that had what it takes for what it did (Justified, Frame). *)
THEOREM CommandsAreJustified ==
  Spec => [][\E o \in Observations, dt \in 1 .. MaxInterval :
               Frame(o, dt) /\ Justified(o, dt)]_vars
  <1>1. TypeOK /\ [Next]_vars
          => [\E o \in Observations, dt \in 1 .. MaxInterval :
                Frame(o, dt) /\ Justified(o, dt)]_vars
    BY FrameJustified DEF Next
  <1> QED BY <1>1, TypeCorrect, PTL DEF Spec
=============================================================================
