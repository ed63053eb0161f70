--------------------------- MODULE SenderContract ---------------------------
(***************************************************************************)
(* What one frame of the OFFBOARD setpoint sender comes to for a mission:  *)
(* whether it is latched afterwards, whether it carries an abort, what it  *)
(* transmits and whether PX4 is asked for Position.  MissionExecution      *)
(* knows the sender by these operators only; ActiveSender is proved to     *)
(* honour them.                                                            *)
(*                                                                         *)
(* A finding is what the safety layer found in the frame:                  *)
(*   "severe"     latches before the mission's own conditions are looked   *)
(*                at (stale own state, stream gap)                         *)
(*   "cbf"        a held gate, answered by zero                            *)
(*   "hold", "recommend"                                                   *)
(*                rungs of the ladder seen while the gate is feasible      *)
(*                again, which are not among the reported conditions       *)
(*   "unaccepted" a command or a preview the sender withholds on           *)
(* A view v is what the frame knows of the mission and the vehicle: the    *)
(* OFFBOARD request was rejected, OFFBOARD was left, the vehicle is        *)
(* disarmed, the vehicle is armed and in OFFBOARD.                         *)
(***************************************************************************)

Findings == {"clear", "unaccepted", "severe", "cbf", "hold", "recommend"}

Views == [rejected : BOOLEAN, left : BOOLEAN, disarmed : BOOLEAN, ready : BOOLEAN]

(* Some condition is reported to the sender. *)
IsReported(s, v) == s \in {"severe", "cbf"} \/ v.rejected \/ v.left

(* A latched sender is rebuilt on a disarmed vehicle with nothing reported. *)
StaysLatched(latch, s, v) == latch /\ ~(v.disarmed /\ ~IsReported(s, v))

EndsLatched(latch, s, v) ==
  \/ StaysLatched(latch, s, v)
  \/ s = "severe"
  \/ ~v.rejected /\ (v.left \/ s = "recommend")

CarriesAbort(latch, s, v) ==
  EndsLatched(latch, s, v) \/ IsReported(s, v) \/ s = "hold"

(* Mutant: a latched sender keeps its zero stream alive. *)
TransmitsUnderLatch(latch, s, v) ==
  IF v.rejected \/ s = "unaccepted" THEN "none"
  ELSE IF s \in {"cbf", "hold"} \/ ~v.ready \/ EndsLatched(latch, s, v) THEN "zero"
  ELSE "velocity"

Transmits(latch, s, v) ==
  IF EndsLatched(latch, s, v) \/ v.rejected \/ s = "unaccepted" THEN "none"
  ELSE IF s \in {"cbf", "hold"} \/ ~v.ready THEN "zero"
  ELSE "velocity"

(* A recommendation that latches in this very frame asks PX4 for Position. *)
AsksForPosition(latch, s, v) ==
  s = "recommend" /\ ~IsReported(s, v) /\ ~StaysLatched(latch, s, v)
=============================================================================
