----------------------- MODULE MissionExecutionProofs -----------------------
(***************************************************************************)
(* The mission flags, the abort latch and the life cycle of an execution,  *)
(* for every set of drawings and orders, every retry policy and every      *)
(* length of the link.                                                     *)
(*                                                                         *)
(* FlagsAgree is inductive with the type invariant.  LatchEndsExecution is *)
(* not: within a frame the sender may be latched while the mission still   *)
(* runs.  AbortPending says why that is all right: such a frame carries an *)
(* abort condition, and the second half of the frame acts on it.           *)
(***************************************************************************)
EXTENDS MissionExecution, SequenceTheorems, TLAPS

(* What FlagsAgree says of a mission record, with the consent and the count it goes with. *)
Coherent(m, c, k) ==
  /\ m.startPending <=> m.execution = "entering"
  /\ m.expected <=> m.execution = "running"
  /\ m.ackPending \/ m.ackResult # None => m.startPending
  /\ m.startPending => c /\ m.attempts = k

(* The parts of the state an invariant of the mission needs. *)
Types ==
  /\ mission \in Missions
  /\ frame \in Frames
  /\ latched \in BOOLEAN /\ consent \in BOOLEAN
  /\ asked \in 0 .. MaxAttempts
  /\ pc \in {"drain", "act"}
  /\ inbox.action \in {None, "start", "stop"}

(* The link, PX4 and what the worker knows of it. *)
LinkTypes ==
  /\ px4 \in [mode : {"position", "offboard", "other"}, armed : BOOLEAN,
              silence : 0 .. SetpointLoss]
  /\ uplink \in Seq(Commands) /\ Len(uplink) <= MaxInFlight
  /\ acks \in Seq(Acks) /\ Len(acks) <= MaxInFlight
  /\ seen \in [mode : {"unknown", "position", "offboard", "other"},
               armed : {"unknown", "armed", "disarmed"}]
  /\ inbox \in [payload : Plans \cup {None}, action : {None, "start", "stop"}]
  /\ plan \in Plans \cup {None}
  /\ lap \in {"inactive", "entering", "latched"}
  /\ gapDue \in BOOLEAN

AbortPending == pc = "act" /\ latched => frame.abort

IInv == Types /\ FlagsAgree /\ LatchEndsExecution /\ AbortPending

-----------------------------------------------------------------------------
(* The record transformers of a frame keep a coherent mission coherent. *)

LEMMA LaterCounts ==
  ASSUME NEW cap \in Nat \ {0}, NEW age \in 0 .. cap
  PROVE  Later(age, cap) \in 0 .. cap
  BY DEF Later

LEMMA InstallKeepsCoherence ==
  ASSUME NEW m \in Missions, NEW c, NEW k, NEW valid, Coherent(m, c, k)
  PROVE  /\ AfterInstall(m, valid) \in Missions
         /\ Coherent(AfterInstall(m, valid), c, k)
         /\ \/ AfterInstall(m, valid).execution = m.execution
            \/ m.execution \in Ended /\ AfterInstall(m, valid).execution = "idle"
  <1>1. CASE inbox.payload = None \/ m.execution \in ActiveExecution
    BY <1>1 DEF AfterInstall
  <1>2. CASE ~(inbox.payload = None \/ m.execution \in ActiveExecution)
    BY <1>2 DEF AfterInstall, Missions, Coherent, ActiveExecution, Ended, None
  <1> QED BY <1>1, <1>2

LEMMA PrepareKeepsCoherence ==
  ASSUME NEW m \in Missions, NEW c, NEW k, Coherent(m, c, k)
  PROVE  /\ AfterPrepare(m) \in Missions
         /\ Coherent(AfterPrepare(m), c, k)
         /\ \/ AfterPrepare(m).execution = m.execution
            \/ AfterPrepare(m).execution = "idle"
            \/ m.execution = "entering" /\ AfterPrepare(m).execution = "running"
  <1>1. CASE seen.armed # "armed"
    BY <1>1 DEF AfterPrepare, Forgotten, Missions, Coherent, ActiveExecution, Ended, None
  <1>2. CASE seen.armed = "armed" /\ m.startPending /\ seen.mode = "offboard"
    BY <1>2 DEF AfterPrepare, Forgotten, Missions, Coherent, ActiveExecution, Ended, None
  <1>3. CASE seen.armed = "armed" /\ ~(m.startPending /\ seen.mode = "offboard")
    BY <1>3 DEF AfterPrepare, Missions, Coherent, ActiveExecution, Ended, None
  <1> QED BY <1>1, <1>2, <1>3

LEMMA StopKeepsCoherence ==
  ASSUME NEW m \in Missions, NEW c, NEW k, Coherent(m, c, k)
  PROVE  /\ Stopped(m) \in Missions
         /\ Coherent(Stopped(m), FALSE, k)
         /\ Stopped(m).execution \in {"stopping", "idle"}
  <1> DEFINE Asks == seen.armed = "armed" /\ (seen.mode = "offboard" \/ m.execution = "entering")
  <1>1. 0 \in 0 .. MaxAttempts /\ 0 \in 0 .. RetryDelay
    BY MissionAssumption
  <1>2. CASE Asks
    <2>1. Stopped(m) = [m EXCEPT !.startPending = FALSE, !.ackPending = FALSE,
                                 !.ackResult = None, !.expected = FALSE, !.attempts = 0,
                                 !.execution = "stopping", !.sinceModeRequest = 0]
      BY <1>2 DEF Stopped, Forgotten, Missions
    <2> QED BY <1>1, <2>1 DEF Missions, Coherent, ActiveExecution, Ended, None
  <1>3. CASE ~Asks
    <2>1. Stopped(m) = [m EXCEPT !.startPending = FALSE, !.ackPending = FALSE,
                                 !.ackResult = None, !.expected = FALSE, !.attempts = 0,
                                 !.execution = "idle"]
      BY <1>3 DEF Stopped, Forgotten, Missions
    <2> QED BY <1>1, <2>1 DEF Missions, Coherent, ActiveExecution, Ended, None
  <1> QED BY <1>2, <1>3

LEMMA StartKeepsCoherence ==
  ASSUME NEW m \in Missions, NEW c, NEW k, NEW evidence, Coherent(m, c, k)
  PROVE  /\ Started(m, evidence) \in Missions
         /\ Blocked(m, FALSE, evidence) =>
              /\ Coherent(Started(m, evidence), c, k)
              /\ \/ Started(m, evidence).execution = m.execution
                 \/ m.execution \in Ended /\ Started(m, evidence).execution = "blocked"
         /\ ~Blocked(m, FALSE, evidence) =>
              /\ Coherent(Started(m, evidence), TRUE, 1)
              /\ m.execution \in Ended
              /\ Started(m, evidence).execution = "entering"
              /\ Started(m, evidence).sinceRequest = 0
  <1>1. CASE Blocked(m, FALSE, evidence)
    BY <1>1 DEF Started, Missions, Coherent, ActiveExecution, Ended, None
  <1>2. CASE ~Blocked(m, FALSE, evidence)
    <2>1. ~latched /\ m.execution \in Ended
      BY <1>2 DEF Blocked, Missions, ActiveExecution, Ended
    <2>2. 1 \in 0 .. MaxAttempts /\ 0 \in 0 .. RetryDelay
      BY MissionAssumption
    <2> DEFINE q == [m EXCEPT !.attempts = 0]
               r == Requested(q)
    <2>3. q \in Missions /\ q.attempts = 0
      BY <2>2, MissionAssumption DEF Missions
    <2> HIDE DEF q
    <2>4. r = [q EXCEPT !.ackPending = TRUE, !.ackResult = None, !.startPending = TRUE,
                        !.attempts = 1, !.sinceRequest = 0, !.sinceModeRequest = 0]
      BY <2>1, <2>3 DEF Requested, Missions
    <2>5. r \in Missions /\ r.attempts = 1 /\ r.startPending /\ r.sinceRequest = 0
      BY <2>2, <2>3, <2>4 DEF Missions, None
    <2>6. r.expected = m.expected
      BY <2>4 DEF Missions, q
    <2> HIDE DEF r
    <2>7. Started(m, evidence) = [r EXCEPT !.execution = "entering"]
      BY <1>2, <2>1 DEF Started, q, r
    <2> QED BY <1>2, <2>1, <2>5, <2>6, <2>7 DEF Missions, Coherent, ActiveExecution, Ended, None
  <1> QED BY <1>1, <1>2

LEMMA AbortKeepsCoherence ==
  ASSUME NEW m \in Missions, NEW c, NEW k, Coherent(m, c, k)
  PROVE  /\ AfterAbort(m) \in Missions
         /\ Coherent(AfterAbort(m), c, k)
         /\ AfterAbort(m).execution \in {m.execution, "aborted"}
         /\ AfterAbort(m).sinceRequest = m.sinceRequest
         /\ AfterAbort(m).execution = "aborted" =>
              m.execution \in {"entering", "running", "aborted"}
         /\ frame.abort => AfterAbort(m).execution \notin {"entering", "running"}
  BY DEF AfterAbort, Forgotten, Missions, Coherent, ActiveExecution, Ended, None

LEMMA RetryKeepsCoherence ==
  ASSUME NEW m \in Missions, NEW c, NEW k \in 0 .. MaxAttempts, NEW evidence,
         Coherent(m, c, k)
  PROVE  /\ AfterRetry(m, evidence) \in Missions
         /\ Retries(m, evidence) =>
              /\ Coherent(AfterRetry(m, evidence), c, k + 1)
              /\ m.execution = "entering" /\ AfterRetry(m, evidence).execution = "entering"
              /\ c /\ k < MaxAttempts
         /\ ~Retries(m, evidence) =>
              /\ Coherent(AfterRetry(m, evidence), c, k)
              /\ \/ AfterRetry(m, evidence).execution = m.execution
                 \/ m.execution = "entering" /\ AfterRetry(m, evidence).execution = "blocked"
  <1>1. CASE Retries(m, evidence)
    <2>1. ~latched /\ m.startPending /\ m.attempts < MaxAttempts
      BY <1>1 DEF Retries, RetryDue, Blocked
    <2>2. m.attempts + 1 \in 0 .. MaxAttempts /\ 0 \in 0 .. RetryDelay
      BY <2>1, MissionAssumption DEF Missions
    <2>3. AfterRetry(m, evidence)
            = [m EXCEPT !.ackPending = TRUE, !.ackResult = None, !.startPending = TRUE,
                        !.attempts = @ + 1, !.sinceRequest = 0, !.sinceModeRequest = 0]
      BY <1>1, <2>1 DEF AfterRetry, Requested
    <2> QED BY <1>1, <2>1, <2>2, <2>3 DEF Missions, Coherent, None
  <1>2. CASE ~Retries(m, evidence) /\ RetryDue(m)
    BY <1>2 DEF AfterRetry, RetryDue, Forgotten, Missions, Coherent, ActiveExecution, Ended, None
  <1>3. CASE ~Retries(m, evidence) /\ ~RetryDue(m)
    BY <1>3 DEF AfterRetry
  <1> QED BY <1>1, <1>2, <1>3

-----------------------------------------------------------------------------
(* One step, action by action. *)

LEMMA EvaluateKeeps ==
  ASSUME IInv, NEW valid \in BOOLEAN, NEW s \in Situations, NEW l \in Laps,
         EvaluateFrame(valid, s, l)
  PROVE  /\ IInv'
         /\ \/ mission'.execution = mission.execution
            \/ mission.execution = "entering" /\ mission'.execution = "running"
            \/ mission'.execution \in Ended
         /\ UNCHANGED <<asked, consent>>
  <1> DEFINE i == AfterInstall(mission, valid)
             m == AfterPrepare(i)
  <1>1. mission \in Missions /\ Coherent(mission, consent, asked)
    BY DEF IInv, Types, FlagsAgree, Coherent
  <1>2. /\ i \in Missions /\ Coherent(i, consent, asked)
        /\ \/ i.execution = mission.execution
           \/ mission.execution \in Ended /\ i.execution = "idle"
    BY <1>1, InstallKeepsCoherence
  <1> HIDE DEF i
  <1>3. /\ m \in Missions /\ Coherent(m, consent, asked)
        /\ \/ m.execution = i.execution
           \/ m.execution = "idle"
           \/ i.execution = "entering" /\ m.execution = "running"
    BY <1>2, PrepareKeepsCoherence
  <1>4. mission' = m \/ mission' = [m EXCEPT !.sinceModeRequest = 0]
    BY DEF EvaluateFrame, i
  <1> HIDE DEF m
  <1>5. mission' \in Missions /\ Coherent(mission', consent, asked)
        /\ mission'.execution = m.execution
    BY <1>3, <1>4, MissionAssumption DEF Missions, Coherent
  <1>6. /\ pc' = "act" /\ UNCHANGED <<asked, consent>>
        /\ frame' = [conditions |-> Reports(m, s), abort |-> Aborts(m, s), sent |-> Sends(m, s)]
        /\ latched' = Latches(m, s)
        /\ inbox' = [inbox EXCEPT !.payload = None]
    BY DEF EvaluateFrame, OpenFrame, m, i
  <1>7. Types'
    <2>1. Latches(m, s) \in BOOLEAN
      BY DEF Latches, EndsLatched
    <2>2. Aborts(m, s) \in BOOLEAN /\ Reports(m, s) \in BOOLEAN
      BY DEF Aborts, CarriesAbort, Reports, IsReported
    <2>3. Sends(m, s) \in {None, "zero", "velocity"}
      BY DEF Sends, Transmits, None
    <2>4. frame' \in Frames
      BY <1>6, <2>2, <2>3 DEF Frames
    <2>5. inbox'.action \in {None, "start", "stop"}
      BY <1>6 DEF IInv, Types
    <2> QED BY <1>5, <1>6, <2>1, <2>4, <2>5 DEF IInv, Types
  <1>8. AbortPending'
    <2>1. latched' => frame'.abort
      BY <1>6 DEF Aborts, Latches, CarriesAbort
    <2> QED BY <2>1 DEF AbortPending
  <1> QED BY <1>2, <1>3, <1>5, <1>6, <1>7, <1>8
          DEF IInv, FlagsAgree, Coherent, LatchEndsExecution, Ended

LEMMA CrashKeeps ==
  ASSUME IInv, NEW valid \in BOOLEAN, NEW l \in Laps, CrashFrame(valid, l)
  PROVE  /\ IInv'
         /\ \/ mission'.execution = mission.execution
            \/ mission.execution = "entering" /\ mission'.execution = "running"
            \/ mission'.execution \in Ended
         /\ UNCHANGED <<asked, consent>>
  <1> DEFINE i == AfterInstall(mission, valid)
             m == AfterPrepare(i)
  <1>1. mission \in Missions /\ Coherent(mission, consent, asked)
    BY DEF IInv, Types, FlagsAgree, Coherent
  <1>2. /\ i \in Missions /\ Coherent(i, consent, asked)
        /\ \/ i.execution = mission.execution
           \/ mission.execution \in Ended /\ i.execution = "idle"
    BY <1>1, InstallKeepsCoherence
  <1> HIDE DEF i
  <1>3. /\ m \in Missions /\ Coherent(m, consent, asked)
        /\ \/ m.execution = i.execution
           \/ m.execution = "idle"
           \/ i.execution = "entering" /\ m.execution = "running"
    BY <1>2, PrepareKeepsCoherence
  <1>4. /\ mission' = [m EXCEPT !.sinceRequest = RetryDelay, !.sinceModeRequest = RetryDelay]
        /\ RetryDelay \in 0 .. RetryDelay
    BY MissionAssumption DEF CrashFrame, i
  <1> HIDE DEF m
  <1>5. mission' \in Missions /\ Coherent(mission', consent, asked)
        /\ mission'.execution = m.execution
    BY <1>3, <1>4 DEF Missions, Coherent
  <1>6. /\ UNCHANGED <<asked, consent, pc, frame, latched>>
        /\ pc = "drain"
        /\ inbox' = [inbox EXCEPT !.payload = None]
    BY DEF CrashFrame
  <1>7. Types'
    BY <1>5, <1>6 DEF IInv, Types
  <1> QED BY <1>2, <1>3, <1>5, <1>6, <1>7
          DEF IInv, FlagsAgree, Coherent, LatchEndsExecution, AbortPending, Ended

(***************************************************************************)
(* The second half of a frame.  Its three parts are taken in the order of  *)
(* the code; the mission they leave is what the step's effect on the life  *)
(* cycle is read from.                                                     *)
(***************************************************************************)
LEMMA ActKeeps ==
  ASSUME IInv, NEW evidence \in BOOLEAN, ActOnFrame(evidence)
  PROVE  /\ IInv'
         /\ [Lifecycle!Next]_<<mission.execution, asked>>
         /\ asked' # asked \/ mission'.startPending => consent'
  <1> DEFINE acted == AfterAction(mission, evidence)
             held == AfterAbort(acted)
             retried == AfterRetry(held, evidence)
             starts == inbox.action = "start" /\ ~Blocked(mission, FALSE, evidence)
             c == CASE inbox.action = "stop" -> FALSE
                    [] starts -> TRUE
                    [] OTHER -> consent
             k == IF starts THEN 1 ELSE asked
  <1>1. mission \in Missions /\ Coherent(mission, consent, asked)
    BY DEF IInv, Types, FlagsAgree, Coherent
  <1>2. /\ acted \in Missions /\ Coherent(acted, c, k)
        /\ starts => /\ mission.execution \in Ended /\ acted.execution = "entering"
                     /\ acted.sinceRequest = 0
        /\ ~starts => \/ acted.execution = mission.execution
                      \/ acted.execution \in Ended \cup {"stopping"}
        /\ starts => ~latched
        /\ acted.execution = "entering" =>
             \/ starts
             \/ mission.execution = "entering" /\ inbox.action # "stop"
        /\ acted.execution = "running" => mission.execution = "running"
    <2>1. CASE inbox.action = "stop"
      BY <1>1, <2>1, StopKeepsCoherence DEF AfterAction, Ended
    <2>2. CASE starts
      BY <1>1, <2>2, StartKeepsCoherence DEF AfterAction, Blocked
    <2>3. CASE inbox.action = "start" /\ ~starts
      BY <1>1, <2>3, StartKeepsCoherence DEF AfterAction, Ended
    <2>4. CASE inbox.action \notin {"start", "stop"}
      BY <1>1, <2>4 DEF AfterAction
    <2> QED BY <2>1, <2>2, <2>3, <2>4
  <1>3. c \in BOOLEAN /\ k \in 0 .. MaxAttempts
    <2> HIDE DEF starts
    <2>1. c \in BOOLEAN
      BY DEF IInv, Types
    <2>2. k \in 0 .. MaxAttempts
      BY MissionAssumption DEF IInv, Types
    <2> QED BY <2>1, <2>2
  <1> HIDE DEF acted, c
  <1>4. /\ held \in Missions /\ Coherent(held, c, k)
        /\ held.execution \in {acted.execution, "aborted"}
        /\ held.sinceRequest = acted.sinceRequest
        /\ held.execution = "aborted" =>
             acted.execution \in {"entering", "running", "aborted"}
        /\ frame.abort => held.execution \notin {"entering", "running"}
    BY <1>2, AbortKeepsCoherence
  <1> HIDE DEF held
  <1>5. /\ retried \in Missions
        /\ Retries(held, evidence) =>
             /\ Coherent(retried, c, k + 1)
             /\ held.execution = "entering" /\ retried.execution = "entering"
             /\ c /\ k < MaxAttempts
        /\ ~Retries(held, evidence) =>
             /\ Coherent(retried, c, k)
             /\ \/ retried.execution = held.execution
                \/ held.execution = "entering" /\ retried.execution = "blocked"
    <2> HIDE DEF k, starts
    <2> QED BY <1>3, <1>4, RetryKeepsCoherence
  <1>6. starts => ~Retries(held, evidence) /\ retried = held
    <2>1. starts => ~RetryDue(held)
      BY <1>2, <1>4, MissionAssumption DEF RetryDue
    <2> QED BY <2>1 DEF Retries, AfterRetry
  <1> USE DEF c
  <1>7. /\ asked' = IF starts THEN 1 ELSE IF Retries(held, evidence) THEN asked + 1 ELSE asked
        /\ consent' = c
        /\ frame' = NoFrame /\ pc = "act" /\ pc' = "drain" /\ latched' = latched
        /\ inbox' = [inbox EXCEPT !.action = None]
    BY DEF ActOnFrame, acted, held
  <1> DEFINE legacy == PositionModeDue(retried, latched)
             age == IF legacy THEN 1 ELSE Later(retried.sinceModeRequest, RetryDelay)
  <1>8. mission' = [retried EXCEPT !.sinceRequest = Later(@, RetryDelay),
                                   !.sinceModeRequest = age]
    BY <1>5 DEF ActOnFrame, acted, held, Missions
  <1>9. /\ Later(retried.sinceRequest, RetryDelay) \in 0 .. RetryDelay
        /\ age \in 0 .. RetryDelay
    <2>1. /\ retried.sinceRequest \in 0 .. RetryDelay
          /\ retried.sinceModeRequest \in 0 .. RetryDelay
      BY <1>5 DEF Missions
    <2> QED BY <2>1, LaterCounts, MissionAssumption
  <1> HIDE DEF retried, starts, c, legacy, age
  <1>10. /\ asked' = IF Retries(held, evidence) THEN k + 1 ELSE k
         /\ asked' \in 0 .. MaxAttempts
    BY <1>3, <1>5, <1>6, <1>7, MissionAssumption
  <1>11. Coherent(retried, c, asked')
    BY <1>5, <1>10
  <1>12. mission' \in Missions /\ Coherent(mission', c, asked')
         /\ mission'.execution = retried.execution
    <2> HIDE DEF age
    <2> QED BY <1>5, <1>8, <1>9, <1>11 DEF Missions, Coherent
  <1>13. Types'
    <2>1. frame' \in Frames
      BY <1>7 DEF NoFrame, Frames, None
    <2>2. inbox'.action \in {None, "start", "stop"}
      BY <1>7 DEF IInv, Types
    <2> QED BY <1>3, <1>7, <1>10, <1>12, <2>1, <2>2 DEF IInv, Types
  <1>14. LatchEndsExecution'
    <2>1. latched => held.execution \notin {"entering", "running"}
      BY <1>4, <1>7 DEF IInv, AbortPending
    <2> QED BY <1>5, <1>7, <1>12, <2>1 DEF LatchEndsExecution
  <1>15. IInv'
    BY <1>7, <1>12, <1>13, <1>14 DEF IInv, FlagsAgree, Coherent, AbortPending
  <1>16. [Lifecycle!Next]_<<mission.execution, asked>>
    <2>1. CASE starts
      BY <1>2, <1>4, <1>6, <1>7, <1>12, <2>1
         DEF Lifecycle!Next, Lifecycle!Start, Lifecycle!StartAborted, Lifecycle!Ended, Ended
    <2>2. CASE ~starts /\ Retries(held, evidence)
      <3>1. mission.execution = "entering" /\ mission'.execution = "entering"
        BY <1>2, <1>4, <1>5, <1>12, <2>2
      <3>2. asked < MaxAttempts /\ asked' = asked + 1
        BY <1>5, <1>7, <2>2
      <3> QED BY <3>1, <3>2 DEF Lifecycle!Next, Lifecycle!Retry
    <2>3. CASE ~starts /\ ~Retries(held, evidence)
      <3>1. /\ asked' = asked
            /\ mission'.execution \in {mission.execution, "stopping"} \cup Ended
        BY <1>2, <1>4, <1>5, <1>7, <1>12, <2>3 DEF Ended
      <3> QED BY <3>1 DEF Lifecycle!Next, Lifecycle!End, Lifecycle!Stop, Lifecycle!Ended, Ended
    <2> QED BY <2>1, <2>2, <2>3
  <1>17. asked' # asked \/ mission'.startPending => consent'
    BY <1>5, <1>7, <1>12 DEF Coherent, c
  <1> QED BY <1>15, <1>16, <1>17

(* The acknowledgement is the only step outside the worker that touches the mission. *)
LEMMA EnvironmentKeeps ==
  ASSUME IInv, LinkTypes, Operator \/ Environment
  PROVE  IInv' /\ UNCHANGED <<mission.execution, mission.startPending, asked, consent>>
  <1>1. CASE \E p \in Plans : SubmitMission(p)
    BY <1>1 DEF SubmitMission, IInv, Types, FlagsAgree, LatchEndsExecution, AbortPending
  <1>2. CASE \E a \in Actions : SubmitAction(a)
    BY <1>2, MissionAssumption
       DEF SubmitAction, IInv, Types, FlagsAgree, LatchEndsExecution, AbortPending
  <1>3. CASE ReceiveAck
    <2>0. acks \in Seq(Acks) /\ acks # << >>
      BY <1>3 DEF ReceiveAck, LinkTypes
    <2>1. Head(acks).result \in {"accepted", "rejected"}
      <3>1. Head(acks) \in Acks
        BY <2>0
      <3> QED BY <3>1 DEF Acks
    <2>2. /\ mission' \in Missions
          /\ mission'.execution = mission.execution
          /\ mission'.startPending = mission.startPending
          /\ mission'.expected = mission.expected
          /\ mission'.attempts = mission.attempts
          /\ mission'.ackPending \/ mission'.ackResult # None => mission.startPending
      BY <1>3, <2>1 DEF ReceiveAck, IInv, Types, FlagsAgree, Missions
    <2> QED BY <1>3, <2>2
            DEF ReceiveAck, Outside, IInv, Types, FlagsAgree, LatchEndsExecution, AbortPending
  <1>4. CASE Environment /\ ~ReceiveAck
    <2>1. UNCHANGED <<inbox, mission, latched, frame, asked, consent, pc>>
      BY <1>4 DEF Environment, Outside, Px4HandlesCommand, LoseCommand, LoseAck,
                  Px4SetpointFailsafe, PilotSelectsMode, PilotArmsOrDisarms, ReceiveHeartbeat
    <2> QED BY <2>1 DEF IInv, Types, FlagsAgree, LatchEndsExecution, AbortPending
  <1> QED BY <1>1, <1>2, <1>3, <1>4 DEF Operator

-----------------------------------------------------------------------------
(* The types of the link. *)

LEMMA TransmittedFits ==
  ASSUME NEW q \in Seq(Commands), NEW new \in Seq(Commands)
  PROVE  Transmitted(q, new) \in Seq(Commands) /\ Len(Transmitted(q, new)) <= MaxInFlight
  <1> DEFINE all == q \o new
             n == IF Len(all) <= MaxInFlight THEN Len(all) ELSE MaxInFlight
  <1>1. all \in Seq(Commands) /\ Len(all) \in Nat
    OBVIOUS
  <1>2. n \in 0 .. Len(all) /\ n <= MaxInFlight
    BY <1>1, MissionAssumption
  <1>3. Transmitted(q, new) = SubSeq(all, 1, n)
    BY DEF Transmitted
  <1> HIDE DEF all, n
  <1>4. SubSeq(all, 1, n) \in Seq(Commands) /\ Len(SubSeq(all, 1, n)) = n
    BY <1>1, <1>2, SubSeqProperties
  <1> QED BY <1>2, <1>3, <1>4

LEMMA AgedFits ==
  ASSUME NEW renewed,
         NEW T \in {Commands, Acks}, NEW q \in Seq(T)
  PROVE  Aged(q, renewed) \in Seq(T) /\ Len(Aged(q, renewed)) = Len(q)
  <1>1. CASE renewed
    <2> DEFINE e(i) == [q[i] EXCEPT !.fresh = FALSE]
    <2>1. ASSUME NEW i \in 1 .. Len(q) PROVE e(i) \in T
      <3>1. q[i] \in T
        OBVIOUS
      <3>2. CASE T = Commands
        BY <3>1, <3>2 DEF Commands
      <3>3. CASE T = Acks
        BY <3>1, <3>3 DEF Acks
      <3> QED BY <3>2, <3>3
    <2>2. Aged(q, renewed) = [i \in 1 .. Len(q) |-> e(i)]
      BY <1>1 DEF Aged
    <2> HIDE DEF e
    <2>3. Len(q) \in Nat
      OBVIOUS
    <2> QED BY <2>1, <2>2, <2>3
  <1>2. CASE ~renewed
    BY <1>2 DEF Aged
  <1> QED BY <1>1, <1>2

LEMMA LinkTyped ==
  ASSUME LinkTypes, [Next]_vars
  PROVE  LinkTypes'
  <1>1. CASE Operator
    <2>1. CASE \E p \in Plans : SubmitMission(p)
      BY <2>1 DEF SubmitMission, LinkTypes
    <2>2. CASE \E a \in Actions : SubmitAction(a)
      <3>1. PICK a \in Actions : SubmitAction(a)
        BY <2>2
      <3>2. a \in {None, "start", "stop"}
        BY MissionAssumption
      <3>3. inbox' = [inbox EXCEPT !.action = a]
        BY <3>1 DEF SubmitAction
      <3>4. inbox' \in [payload : Plans \cup {None}, action : {None, "start", "stop"}]
        BY <3>2, <3>3 DEF LinkTypes
      <3>5. UNCHANGED <<px4, uplink, acks, seen, plan, lap, gapDue>>
        BY <3>1 DEF SubmitAction
      <3> QED BY <3>4, <3>5 DEF LinkTypes
    <2> QED BY <1>1, <2>1, <2>2 DEF Operator
  <1>2. ASSUME NEW accepts \in BOOLEAN, Px4HandlesCommand(accepts)
        PROVE  LinkTypes'
    <2> DEFINE command == Head(uplink)
               ack == [result |-> IF accepts THEN "accepted" ELSE "rejected",
                       fresh |-> command.fresh]
    <2>1. /\ command \in Commands /\ Tail(uplink) \in Seq(Commands)
          /\ Len(Tail(uplink)) <= MaxInFlight
      BY <1>2, MissionAssumption DEF Px4HandlesCommand, LinkTypes
    <2>2. ack \in Acks
      BY <2>1 DEF Commands, Acks
    <2>3. px4' \in [mode : {"position", "offboard", "other"}, armed : BOOLEAN,
                    silence : 0 .. SetpointLoss]
      BY <1>2, <2>1 DEF Px4HandlesCommand, LinkTypes, Commands
    <2>4. \/ acks' = acks
          \/ acks' = Append(acks, ack) /\ Len(acks) < MaxInFlight
      BY <1>2 DEF Px4HandlesCommand
    <2> HIDE DEF ack
    <2>5. acks' \in Seq(Acks) /\ Len(acks') <= MaxInFlight
      <3>1. acks \in Seq(Acks) /\ Len(acks) <= MaxInFlight /\ Len(acks) \in Nat
        BY DEF LinkTypes
      <3>2. CASE acks' = Append(acks, ack) /\ Len(acks) < MaxInFlight
        <4>1. acks' \in Seq(Acks) /\ Len(acks') = Len(acks) + 1
          BY <2>2, <3>1, <3>2, AppendProperties
        <4> QED BY <3>1, <3>2, <4>1, MissionAssumption
      <3> QED BY <2>4, <3>1, <3>2
    <2> QED BY <1>2, <2>1, <2>3, <2>5 DEF Px4HandlesCommand, Outside, LinkTypes
  <1>3. CASE LoseCommand
    BY <1>3, MissionAssumption DEF LoseCommand, Outside, LinkTypes
  <1>4. CASE LoseAck
    BY <1>4, MissionAssumption DEF LoseAck, Outside, LinkTypes
  <1>5. CASE Px4SetpointFailsafe
    BY <1>5 DEF Px4SetpointFailsafe, Outside, LinkTypes
  <1>6. CASE \E m \in PilotModes : PilotSelectsMode(m)
    BY <1>6, MissionAssumption DEF PilotSelectsMode, Outside, LinkTypes
  <1>7. CASE PilotArmsOrDisarms
    BY <1>7 DEF PilotArmsOrDisarms, Outside, LinkTypes
  <1>8. CASE ReceiveHeartbeat
    BY <1>8 DEF ReceiveHeartbeat, Outside, LinkTypes
  <1>9. CASE ReceiveAck
    BY <1>9, MissionAssumption DEF ReceiveAck, Outside, LinkTypes
  <1>10. ASSUME NEW valid \in BOOLEAN, NEW s \in Situations, NEW l \in Laps,
                EvaluateFrame(valid, s, l)
         PROVE  LinkTypes'
    <2>1. uplink' = uplink \/ uplink' = Transmitted(uplink, <<Position>>)
      BY <1>10 DEF EvaluateFrame
    <2>2. <<Position>> \in Seq(Commands)
      BY DEF Position, Commands
    <2>3. uplink' \in Seq(Commands) /\ Len(uplink') <= MaxInFlight
      BY <2>1, <2>2, TransmittedFits DEF LinkTypes
    <2>4. \/ px4' = [px4 EXCEPT !.silence = Later(px4.silence, SetpointLoss)]
          \/ px4' = [px4 EXCEPT !.silence = 0]
      BY <1>10 DEF EvaluateFrame
    <2>5. /\ Later(px4.silence, SetpointLoss) \in 0 .. SetpointLoss
          /\ 0 \in 0 .. SetpointLoss
      BY LaterCounts, MissionAssumption DEF LinkTypes
    <2>6. px4' \in [mode : {"position", "offboard", "other"}, armed : BOOLEAN,
                    silence : 0 .. SetpointLoss]
      BY <2>4, <2>5 DEF LinkTypes
    <2>7. plan' \in Plans \cup {None}
      BY <1>10 DEF EvaluateFrame, OpenFrame, LinkTypes
    <2>8. /\ UNCHANGED <<acks, seen>> /\ lap' = l /\ gapDue' = FALSE
          /\ inbox' = [inbox EXCEPT !.payload = None]
      BY <1>10 DEF EvaluateFrame, OpenFrame
    <2> QED BY <2>3, <2>6, <2>7, <2>8 DEF LinkTypes, Laps
  <1>11. ASSUME NEW valid \in BOOLEAN, NEW l \in Laps, CrashFrame(valid, l)
         PROVE  LinkTypes'
    <2>1. uplink' = uplink \/ uplink' = Transmitted(uplink, <<Position>>)
      BY <1>11 DEF CrashFrame
    <2>2. <<Position>> \in Seq(Commands)
      BY DEF Position, Commands
    <2>3. uplink' \in Seq(Commands) /\ Len(uplink') <= MaxInFlight
      BY <2>1, <2>2, TransmittedFits DEF LinkTypes
    <2>4. /\ px4' = [px4 EXCEPT !.silence = SetpointLoss]
          /\ SetpointLoss \in 0 .. SetpointLoss
      BY <1>11, MissionAssumption DEF CrashFrame
    <2>5. px4' \in [mode : {"position", "offboard", "other"}, armed : BOOLEAN,
                    silence : 0 .. SetpointLoss]
      BY <2>4 DEF LinkTypes
    <2>6. plan' \in Plans \cup {None}
      BY <1>11 DEF CrashFrame, LinkTypes
    <2>7. /\ UNCHANGED seen /\ acks' = << >> /\ lap' = l /\ gapDue' = TRUE
          /\ inbox' = [inbox EXCEPT !.payload = None]
      BY <1>11 DEF CrashFrame
    <2>8. acks' \in Seq(Acks) /\ Len(acks') <= MaxInFlight
      BY <2>7, MissionAssumption
    <2> QED BY <2>3, <2>5, <2>6, <2>7, <2>8 DEF LinkTypes, Laps
  <1>12. ASSUME NEW evidence \in BOOLEAN, ActOnFrame(evidence)
         PROVE  LinkTypes'
    <2>1. PICK renewed \in BOOLEAN, sent \in Seq(Commands) :
             /\ uplink' = Transmitted(Aged(uplink, renewed), sent)
             /\ acks' = Aged(acks, renewed)
      <3> DEFINE offboard == [mode |-> "offboard", fresh |-> TRUE]
                 held == AfterAbort(AfterAction(mission, evidence))
                 legacy == PositionModeDue(AfterRetry(held, evidence), latched)
                 stops == inbox.action = "stop"
                          /\ AfterAction(mission, evidence).execution = "stopping"
                 renews == \/ inbox.action = "start" /\ ~Blocked(mission, FALSE, evidence)
                           \/ Retries(held, evidence)
                 a == IF stops THEN <<Position>> ELSE << >>
                 b == IF renews THEN <<offboard>> ELSE << >>
                 c == IF legacy THEN <<Position>> ELSE << >>
      <3>1. /\ uplink' = Transmitted(Aged(uplink, renews), a \o b \o c)
            /\ acks' = Aged(acks, renews)
        BY <1>12 DEF ActOnFrame
      <3>2. Position \in Commands /\ offboard \in Commands
        BY DEF Position, Commands
      <3> HIDE DEF offboard, legacy, stops, renews
      <3>3. a \in Seq(Commands) /\ b \in Seq(Commands) /\ c \in Seq(Commands)
        BY <3>2
      <3> HIDE DEF a, b, c
      <3>4. a \o b \o c \in Seq(Commands)
        BY <3>3
      <3>5. renews \in BOOLEAN
        BY DEF renews
      <3> DEFINE d == a \o b \o c
      <3>6. d \in Seq(Commands) /\ uplink' = Transmitted(Aged(uplink, renews), d)
        BY <3>1, <3>4
      <3> HIDE DEF d
      <3> QED BY <3>1, <3>5, <3>6
    <2>2. Aged(uplink, renewed) \in Seq(Commands)
      BY AgedFits DEF LinkTypes
    <2>3. uplink' \in Seq(Commands) /\ Len(uplink') <= MaxInFlight
      BY <2>1, <2>2, TransmittedFits
    <2>4. acks' \in Seq(Acks) /\ Len(acks') <= MaxInFlight
      BY <2>1, AgedFits DEF LinkTypes
    <2>5. /\ UNCHANGED <<px4, seen, plan, lap, gapDue>>
          /\ inbox' = [inbox EXCEPT !.action = None]
      BY <1>12 DEF ActOnFrame
    <2> QED BY <2>3, <2>4, <2>5 DEF LinkTypes
  <1>13. CASE UNCHANGED vars
    BY <1>13 DEF vars, LinkTypes
  <1> QED BY <1>1, <1>2, <1>3, <1>4, <1>5, <1>6, <1>7, <1>8, <1>9, <1>10, <1>11, <1>12, <1>13
          DEF Next, Environment, Worker, Crash

-----------------------------------------------------------------------------
(* The initial state is coherent and every step keeps it so. *)
LEMMA Initially == Init => IInv /\ LinkTypes
  <1> SUFFICES ASSUME Init PROVE IInv /\ LinkTypes
    OBVIOUS
  <1>1. /\ 0 \in 0 .. MaxAttempts /\ RetryDelay \in 0 .. RetryDelay
        /\ SetpointLoss \in 0 .. SetpointLoss
    BY MissionAssumption
  <1>2. LinkTypes
    <2>1. << >> \in Seq(Commands) /\ << >> \in Seq(Acks) /\ Len(<< >>) <= MaxInFlight
      BY MissionAssumption
    <2>2. px4 \in [mode : {"position", "offboard", "other"}, armed : BOOLEAN,
                   silence : 0 .. SetpointLoss]
      BY <1>1 DEF Init
    <2>3. inbox \in [payload : Plans \cup {None}, action : {None, "start", "stop"}]
      BY DEF Init
    <2> QED BY <2>1, <2>2, <2>3 DEF Init, LinkTypes
  <1>3. Types
    BY <1>1 DEF Init, Types, Missions, Frames, NoFrame, ActiveExecution, Ended, None
  <1> QED BY <1>2, <1>3
          DEF Init, IInv, FlagsAgree, LatchEndsExecution, AbortPending, None

LEMMA Inductive == IInv /\ LinkTypes /\ [Next]_vars => IInv' /\ LinkTypes'
  <1> SUFFICES ASSUME IInv, LinkTypes, [Next]_vars PROVE IInv' /\ LinkTypes'
    OBVIOUS
  <1>1. LinkTypes'
    BY LinkTyped
  <1>2. CASE Operator \/ Environment
    BY <1>1, <1>2, EnvironmentKeeps
  <1>3. CASE Worker
    BY <1>1, <1>3, EvaluateKeeps, ActKeeps DEF Worker
  <1>4. CASE Crash
    BY <1>1, <1>4, CrashKeeps DEF Crash
  <1>5. CASE UNCHANGED vars
    BY <1>1, <1>5 DEF vars, IInv, Types, FlagsAgree, LatchEndsExecution, AbortPending
  <1>6. IInv'
    BY <1>2, <1>3, <1>4, <1>5 DEF Next
  <1> QED BY <1>1, <1>6

THEOREM Invariance == Spec => [](IInv /\ LinkTypes)
  BY Initially, Inductive, PTL DEF Spec

(* Every variable keeps its type, for every retry policy and link length (TypeOK). *)
THEOREM TypeCorrect == Spec => []TypeOK
  <1>1. IInv /\ LinkTypes => TypeOK
    BY DEF IInv, Types, LinkTypes, TypeOK
  <1> QED BY <1>1, Invariance, PTL

(* The mission flags and the state shown to the operator agree in every state (FlagsAgree). *)
THEOREM FlagsCoherent == Spec => []FlagsAgree
  <1>1. IInv => FlagsAgree
    BY DEF IInv
  <1> QED BY <1>1, Invariance, PTL

(* No execution outlives the abort latch by more than the frame that set it (LatchEndsExecution). *)
THEOREM LatchEnds == Spec => []LatchEndsExecution
  <1>1. IInv => LatchEndsExecution
    BY DEF IInv
  <1> QED BY <1>1, Invariance, PTL

(* The execution shown to the operator implements its life cycle (ImplementsLifecycle): *)
(* bounded requests, and no way back from an end but an accepted start.                 *)
THEOREM Refinement == Spec => ImplementsLifecycle
  <1>1. Init => Lifecycle!Init
    BY DEF Init, Lifecycle!Init
  <1>2. IInv /\ LinkTypes /\ [Next]_vars => [Lifecycle!Next]_<<mission.execution, asked>>
    <2> SUFFICES ASSUME IInv, LinkTypes, [Next]_vars
                 PROVE  [Lifecycle!Next]_<<mission.execution, asked>>
      OBVIOUS
    <2>1. CASE Operator \/ Environment
      BY <2>1, EnvironmentKeeps
    <2>2. CASE \E evidence \in BOOLEAN : ActOnFrame(evidence)
      BY <2>2, ActKeeps
    <2>3. CASE \/ \E valid \in BOOLEAN, s \in Situations, l \in Laps :
                     EvaluateFrame(valid, s, l)
               \/ Crash
      <3>1. /\ asked' = asked
            /\ \/ mission'.execution = mission.execution
               \/ mission.execution = "entering" /\ mission'.execution = "running"
               \/ mission'.execution \in Ended
        BY <2>3, EvaluateKeeps, CrashKeeps DEF Crash
      <3> QED BY <3>1 DEF Lifecycle!Next, Lifecycle!Enter, Lifecycle!End, Lifecycle!Ended, Ended
    <2>4. CASE UNCHANGED vars
      BY <2>4 DEF vars
    <2> QED BY <2>1, <2>2, <2>3, <2>4 DEF Next, Worker
  <1> QED BY <1>1, <1>2, Invariance, PTL DEF Spec, ImplementsLifecycle, Lifecycle!Spec

-----------------------------------------------------------------------------
(***************************************************************************)
(* What the sender is shown of the mission at any frame: never both of     *)
(* the mission's conditions, and either of them only while the vehicle is  *)
(* armed and outside OFFBOARD, so never while a latched sender could be    *)
(* rebuilt.  ActiveSender is checked on these frames only (Observations).  *)
(***************************************************************************)
Observable(v) ==
  /\ v \in Views
  /\ ~(v.rejected /\ v.left)
  /\ v.rejected \/ v.left => /\ ~v.disarmed /\ ~v.ready
                            /\ seen.armed = "armed" /\ seen.mode # "offboard"

ViewsAreObservable ==
  \A valid \in BOOLEAN : Observable(View(AfterPrepare(AfterInstall(mission, valid))))

(* Every frame of the mission is one that ActiveSender is checked on (ViewsAreObservable). *)
THEOREM MissionViews == Spec => []ViewsAreObservable
  <1>1. ASSUME IInv, LinkTypes, NEW valid \in BOOLEAN
        PROVE  Observable(View(AfterPrepare(AfterInstall(mission, valid))))
    <2> DEFINE i == AfterInstall(mission, valid)
               m == AfterPrepare(i)
               v == View(m)
    <2>1. i \in Missions /\ Coherent(i, consent, asked)
      BY <1>1, InstallKeepsCoherence DEF IInv, Types, FlagsAgree, Coherent
    <2> HIDE DEF i
    <2>2. m \in Missions /\ Coherent(m, consent, asked)
      BY <2>1, PrepareKeepsCoherence
    <2>3. v \in Views
      <3> HIDE DEF m
      <3> QED BY <2>2 DEF View, Views, Rejected, LeftOffboard, StationKeeping, Missions
    <2>4. /\ v.rejected <=> m.ackResult = "rejected"
          /\ v.left <=> m.expected /\ seen.mode # "offboard"
          /\ v.disarmed <=> seen.armed = "disarmed"
          /\ v.ready <=> seen.armed = "armed" /\ seen.mode = "offboard"
      <3> HIDE DEF m
      <3> QED BY DEF View, Rejected, LeftOffboard, StationKeeping
    <2>5. ASSUME seen.armed # "armed" PROVE Observable(v)
      <3>1. m.ackResult = None /\ m.expected = FALSE
        BY <2>1, <2>5 DEF AfterPrepare, Forgotten, Missions
      <3> HIDE DEF m, v
      <3> QED BY <2>3, <2>4, <3>1 DEF Observable, None
    <2>6. ASSUME seen.armed = "armed" PROVE Observable(v)
      <3>1. ~(m.startPending /\ seen.mode = "offboard")
        BY <2>1, <2>6 DEF AfterPrepare, Forgotten, Missions
      <3> HIDE DEF m, v
      <3>2. m.expected => ~m.startPending
        BY <2>2 DEF Coherent
      <3>3. m.ackResult = "rejected" => m.startPending
        BY <2>2 DEF Coherent, None
      <3> QED BY <2>3, <2>4, <2>6, <3>1, <3>2, <3>3 DEF Observable
    <2> QED BY <2>5, <2>6 DEF i
  <1>2. IInv /\ LinkTypes => ViewsAreObservable
    BY <1>1 DEF ViewsAreObservable
  <1> QED BY <1>2, Invariance, PTL

-----------------------------------------------------------------------------
(* How long an entry lasts.  That the worker goes on is fairness and stays  *)
(* with TLC (EnteringResolves); what is proved is the measure.              *)

Entering == mission.execution = "entering"

(* The frames of an entry, counted over its requests: it begins with one    *)
(* request of its first frame.                                              *)
EntryAge == mission.attempts * RetryDelay + mission.sinceRequest
EntryBegin == RetryDelay + 1
EntryLimit == (MaxAttempts + 1) * RetryDelay

EntryIsBounded == EntryAge <= EntryLimit

EntryStep ==
  Entering' =>
    /\ ~Entering => EntryAge' = EntryBegin
    /\ Entering => EntryAge' >= EntryAge
    /\ Entering /\ (\E evidence \in BOOLEAN : ActOnFrame(evidence)) =>
         EntryAge' = EntryAge + 1

(***************************************************************************)
(* Every frame of the worker that leaves an entry standing uses it up by   *)
(* one, no loss, answer, order or crash gives any of it back, and it has   *)
(* MaxAttempts times RetryDelay of them.                                   *)
(***************************************************************************)
EntryRunsDown == []EntryIsBounded /\ [][EntryStep]_vars

LEMMA AgeSteps ==
  ASSUME NEW a \in Nat, NEW r \in Nat
  PROVE  /\ a * r \in Nat
         /\ (a + 1) * r = a * r + r
  <1>1. a * r \in Nat
    OBVIOUS
  <1>2. (a + 1) * r = a * r + r
    OBVIOUS
  <1> QED BY <1>1, <1>2

LEMMA AgeBounded ==
  ASSUME Types
  PROVE  EntryIsBounded
  <1>1. /\ mission.attempts \in Nat /\ mission.attempts <= MaxAttempts
        /\ mission.sinceRequest \in Nat /\ mission.sinceRequest <= RetryDelay
        /\ MaxAttempts \in Nat /\ RetryDelay \in Nat
    BY MissionAssumption DEF Types, Missions
  <1>2. ASSUME NEW a \in Nat, NEW n \in Nat, NEW r \in Nat, a <= n
        PROVE  a * r <= n * r
    BY <1>2
  <1>3. mission.attempts * RetryDelay <= MaxAttempts * RetryDelay
    BY <1>1, <1>2
  <1>4. /\ MaxAttempts * RetryDelay \in Nat
        /\ mission.attempts * RetryDelay \in Nat
        /\ (MaxAttempts + 1) * RetryDelay = MaxAttempts * RetryDelay + RetryDelay
    BY <1>1, AgeSteps
  <1> QED BY <1>1, <1>3, <1>4 DEF EntryIsBounded, EntryAge, EntryLimit

(* The second half of a frame: what is still entering afterwards has just   *)
(* been started, or has used one frame more.                                *)
LEMMA ActUsesUp ==
  ASSUME IInv, NEW evidence \in BOOLEAN, ActOnFrame(evidence), Entering'
  PROVE  /\ ~Entering => EntryAge' = EntryBegin
         /\ Entering => EntryAge' = EntryAge + 1
  <1> DEFINE acted == AfterAction(mission, evidence)
             held == AfterAbort(acted)
             retried == AfterRetry(held, evidence)
             starts == inbox.action = "start" /\ ~Blocked(mission, FALSE, evidence)
             c == CASE inbox.action = "stop" -> FALSE
                    [] starts -> TRUE
                    [] OTHER -> consent
             k == IF starts THEN 1 ELSE asked
  <1>1. mission \in Missions /\ Coherent(mission, consent, asked)
    BY DEF IInv, Types, FlagsAgree, Coherent
  <1>2. k \in 0 .. MaxAttempts
    <2> HIDE DEF starts
    <2> QED BY MissionAssumption DEF IInv, Types
  <1>3. /\ acted \in Missions /\ Coherent(acted, c, k)
        /\ acted.execution = "entering" =>
             IF starts
             THEN mission.execution # "entering" /\ acted.sinceRequest = 0
             ELSE /\ mission.execution = "entering"
                  /\ acted.sinceRequest = mission.sinceRequest
    <2>1. CASE inbox.action = "stop"
      BY <1>1, <2>1, StopKeepsCoherence DEF AfterAction
    <2>2. CASE starts
      BY <1>1, <2>2, StartKeepsCoherence DEF AfterAction, Ended
    <2>3. CASE inbox.action = "start" /\ ~starts
      <3>1. acted = Started(mission, evidence) /\ Blocked(mission, FALSE, evidence)
        BY <2>3 DEF AfterAction
      <3>2. acted.sinceRequest = mission.sinceRequest
        BY <1>1, <3>1 DEF Started, Missions
      <3>3. acted \in Missions /\ Coherent(acted, c, k)
        BY <1>1, <2>3, <3>1, StartKeepsCoherence
      <3>4. acted.execution = "entering" => mission.execution = "entering"
        BY <1>1, <3>1 DEF Started, Missions
      <3> QED BY <2>3, <3>2, <3>3, <3>4
    <2>4. CASE inbox.action \notin {"start", "stop"}
      BY <1>1, <2>4 DEF AfterAction
    <2> QED BY <2>1, <2>2, <2>3, <2>4
  <1> HIDE DEF acted, starts, c, k
  <1>4. /\ held \in Missions /\ Coherent(held, c, k)
        /\ held.execution = "entering" => acted.execution = "entering"
        /\ held.sinceRequest = acted.sinceRequest
    BY <1>3, AbortKeepsCoherence
  <1> HIDE DEF held
  <1>5. /\ retried \in Missions
        /\ Retries(held, evidence) => Coherent(retried, c, k + 1)
        /\ ~Retries(held, evidence) => Coherent(retried, c, k)
        /\ retried.execution = "entering" => held.execution = "entering"
    BY <1>2, <1>4, RetryKeepsCoherence
  <1>6. retried.execution = "entering" =>
          IF Retries(held, evidence)
          THEN retried.sinceRequest = 0 /\ held.sinceRequest = RetryDelay
          ELSE /\ retried.sinceRequest = held.sinceRequest
               /\ held.sinceRequest < RetryDelay
    <2>1. held.sinceRequest \in 0 .. RetryDelay
      BY <1>4 DEF Missions
    <2>2. CASE Retries(held, evidence)
      <3>1. ~latched /\ held.sinceRequest >= RetryDelay
        BY <2>2 DEF Retries, RetryDue, Blocked
      <3>2. held.sinceRequest = RetryDelay
        BY <2>1, <3>1, MissionAssumption
      <3>3. retried.sinceRequest = 0
        BY <1>4, <2>2, <3>1 DEF AfterRetry, Requested, Missions
      <3> QED BY <2>2, <3>2, <3>3
    <2>3. CASE ~Retries(held, evidence) /\ RetryDue(held)
      <3>1. retried.execution = "blocked"
        BY <1>4, <2>3 DEF AfterRetry, Forgotten, Missions
      <3> QED BY <3>1
    <2>4. CASE ~Retries(held, evidence) /\ ~RetryDue(held)
      <3>1. retried = held
        BY <2>4 DEF AfterRetry
      <3>2. retried.execution = "entering" => held.startPending
        BY <1>4, <3>1 DEF Coherent
      <3>3. held.startPending => held.sinceRequest < RetryDelay
        BY <2>1, <2>4, MissionAssumption DEF RetryDue
      <3> QED BY <2>4, <3>1, <3>2, <3>3
    <2> QED BY <2>2, <2>3, <2>4
  <1>7. /\ mission'.execution = retried.execution
        /\ mission'.attempts = retried.attempts
        /\ mission'.sinceRequest = Later(retried.sinceRequest, RetryDelay)
    BY <1>5 DEF ActOnFrame, acted, held, Missions
  <1> HIDE DEF retried
  <1>8. retried.execution = "entering"
    BY <1>7 DEF Entering
  <1>9. held.execution = "entering" /\ acted.execution = "entering"
    BY <1>4, <1>5, <1>8
  <1>10. /\ held.attempts = k
         /\ retried.attempts = IF Retries(held, evidence) THEN k + 1 ELSE k
    BY <1>4, <1>5, <1>8, <1>9 DEF Coherent
  <1>11. CASE starts
    <2>1. ~Entering /\ held.sinceRequest = 0 /\ k = 1
      BY <1>3, <1>4, <1>9, <1>11 DEF Entering, k
    <2>2. ~Retries(held, evidence) /\ retried.sinceRequest = 0
      BY <1>6, <1>8, <2>1, MissionAssumption
    <2>3. mission'.attempts = 1 /\ mission'.sinceRequest = 1
      BY <1>7, <1>10, <2>1, <2>2, MissionAssumption DEF Later
    <2> QED BY <2>1, <2>3, MissionAssumption DEF EntryAge, EntryBegin
  <1>12. CASE ~starts
    <2>1. Entering /\ held.sinceRequest = mission.sinceRequest
      BY <1>3, <1>4, <1>9, <1>12 DEF Entering
    <2>2. mission.attempts = k /\ k \in Nat
      BY <1>1, <1>2, <1>12, <2>1 DEF Coherent, Entering, k
    <2>3. CASE Retries(held, evidence)
      <3>1. /\ mission'.attempts = k + 1 /\ mission'.sinceRequest = 1
            /\ mission.sinceRequest = RetryDelay
        BY <1>6, <1>7, <1>8, <1>10, <2>1, <2>3, MissionAssumption DEF Later
      <3>2. k * RetryDelay \in Nat /\ (k + 1) * RetryDelay = k * RetryDelay + RetryDelay
        BY <2>2, MissionAssumption, AgeSteps
      <3>3. EntryAge' = (k + 1) * RetryDelay + 1 /\ EntryAge = k * RetryDelay + RetryDelay
        BY <2>2, <3>1 DEF EntryAge
      <3> QED BY <2>1, <3>2, <3>3, MissionAssumption
    <2>4. CASE ~Retries(held, evidence)
      <3>1. /\ mission'.attempts = k
            /\ mission.sinceRequest \in Nat
            /\ mission'.sinceRequest = mission.sinceRequest + 1
        BY <1>1, <1>6, <1>7, <1>8, <1>10, <2>1, <2>4 DEF Later, Missions
      <3>2. k * RetryDelay \in Nat
        BY <2>2, MissionAssumption, AgeSteps
      <3>3. /\ EntryAge' = k * RetryDelay + (mission.sinceRequest + 1)
            /\ EntryAge = k * RetryDelay + mission.sinceRequest
        BY <2>2, <3>1 DEF EntryAge
      <3> QED BY <2>1, <3>1, <3>2, <3>3
    <2> QED BY <2>3, <2>4
  <1> QED BY <1>11, <1>12

(* The first half of a frame, and a frame that raises, leave the requests   *)
(* of an entry alone; a raise counts as the whole wait for an answer.       *)
LEMMA FrameKeepsAge ==
  ASSUME IInv, NEW valid \in BOOLEAN,
         LET m == AfterPrepare(AfterInstall(mission, valid))
         IN  /\ mission'.attempts = m.attempts
             /\ mission'.sinceRequest \in {m.sinceRequest, RetryDelay}
  PROVE  EntryAge' >= EntryAge
  <1> DEFINE i == AfterInstall(mission, valid)
             m == AfterPrepare(i)
  <1>1. mission \in Missions
    BY DEF IInv, Types
  <1>2. /\ i \in Missions
        /\ i.attempts = mission.attempts
        /\ i.sinceRequest = mission.sinceRequest
    <2>1. i \in Missions
      BY <1>1, InstallKeepsCoherence DEF IInv, FlagsAgree, Coherent
    <2>2. i.attempts = mission.attempts /\ i.sinceRequest = mission.sinceRequest
      BY <1>1 DEF AfterInstall, Missions
    <2> QED BY <2>1, <2>2
  <1> HIDE DEF i
  <1>3. m.attempts = i.attempts /\ m.sinceRequest = i.sinceRequest
    BY <1>2 DEF AfterPrepare, Forgotten, Missions
  <1>4. /\ mission'.attempts = mission.attempts
        /\ mission'.sinceRequest \in {mission.sinceRequest, RetryDelay}
    BY <1>2, <1>3 DEF i
  <1>5. /\ mission.attempts \in Nat
        /\ mission.sinceRequest \in Nat /\ mission.sinceRequest <= RetryDelay
        /\ RetryDelay \in Nat
    BY <1>1, MissionAssumption DEF Missions
  <1>6. mission.attempts * RetryDelay \in Nat
    BY <1>5, AgeSteps
  <1>7. /\ EntryAge' = mission.attempts * RetryDelay + mission'.sinceRequest
        /\ EntryAge = mission.attempts * RetryDelay + mission.sinceRequest
    BY <1>4 DEF EntryAge
  <1> QED BY <1>4, <1>5, <1>6, <1>7

(* An entry has MaxAttempts times RetryDelay frames, whatever the pilot,    *)
(* PX4 and the link do (the measure behind EnteringResolves).               *)
THEOREM EntryMeasured == Spec => EntryRunsDown
  <1>1. IInv => EntryIsBounded
    BY AgeBounded DEF IInv
  <1>2. ASSUME IInv, LinkTypes, [Next]_vars  PROVE [EntryStep]_vars
    <2>0. EntryAge \in Int
      <3>1. mission.attempts \in Nat /\ mission.sinceRequest \in Nat /\ RetryDelay \in Nat
        BY <1>2, MissionAssumption DEF IInv, Types, Missions
      <3>2. mission.attempts * RetryDelay \in Nat
        BY <3>1, AgeSteps
      <3> QED BY <3>1, <3>2 DEF EntryAge
    <2>1. ASSUME NEW evidence \in BOOLEAN, ActOnFrame(evidence), Entering'
          PROVE  /\ ~Entering => EntryAge' = EntryBegin
                 /\ Entering => EntryAge' = EntryAge + 1
      BY <1>2, <2>1, ActUsesUp
    <2>2. ASSUME NEW valid \in BOOLEAN, NEW s \in Situations, NEW l \in Laps,
                 EvaluateFrame(valid, s, l), Entering'
          PROVE  Entering /\ EntryAge' >= EntryAge
      <3>1. Entering
        BY <1>2, <2>2, EvaluateKeeps DEF Entering, Ended
      <3> DEFINE m == AfterPrepare(AfterInstall(mission, valid))
      <3>2. mission' = m \/ mission' = [m EXCEPT !.sinceModeRequest = 0]
        BY <2>2 DEF EvaluateFrame
      <3>3. mission'.attempts = m.attempts /\ mission'.sinceRequest = m.sinceRequest
        <4>1. m \in Missions
          BY <1>2, InstallKeepsCoherence, PrepareKeepsCoherence
             DEF IInv, Types, FlagsAgree, Coherent
        <4> HIDE DEF m
        <4> QED BY <3>2, <4>1 DEF Missions
      <3> QED BY <1>2, <3>1, <3>3, FrameKeepsAge
    <2>3. ASSUME NEW valid \in BOOLEAN, NEW l \in Laps, CrashFrame(valid, l), Entering'
          PROVE  Entering /\ EntryAge' >= EntryAge
      <3>1. Entering
        BY <1>2, <2>3, CrashKeeps DEF Entering, Ended
      <3> DEFINE m == AfterPrepare(AfterInstall(mission, valid))
      <3>2. mission' = [m EXCEPT !.sinceRequest = RetryDelay, !.sinceModeRequest = RetryDelay]
        BY <2>3 DEF CrashFrame
      <3>3. mission'.attempts = m.attempts /\ mission'.sinceRequest = RetryDelay
        <4>1. m \in Missions
          BY <1>2, InstallKeepsCoherence, PrepareKeepsCoherence
             DEF IInv, Types, FlagsAgree, Coherent
        <4> HIDE DEF m
        <4> QED BY <3>2, <4>1 DEF Missions
      <3> QED BY <1>2, <3>1, <3>3, FrameKeepsAge
    <2>4. ASSUME Operator \/ Environment
          PROVE  /\ mission'.execution = mission.execution
                 /\ EntryAge' = EntryAge
      <3>1. /\ mission'.execution = mission.execution
            /\ mission'.attempts = mission.attempts
            /\ mission'.sinceRequest = mission.sinceRequest
        <4>1. CASE ReceiveAck
          BY <1>2, <4>1 DEF ReceiveAck, IInv, Types, Missions
        <4>2. CASE ~ReceiveAck
          BY <2>4, <4>2
             DEF Operator, SubmitMission, SubmitAction, Environment, Outside,
                 Px4HandlesCommand, LoseCommand, LoseAck, Px4SetpointFailsafe,
                 PilotSelectsMode, PilotArmsOrDisarms, ReceiveHeartbeat
        <4> QED BY <4>1, <4>2
      <3> QED BY <3>1 DEF EntryAge
    <2>5. \/ Operator \/ Environment
          \/ \E evidence \in BOOLEAN : ActOnFrame(evidence)
          \/ \E valid \in BOOLEAN, s \in Situations, l \in Laps : EvaluateFrame(valid, s, l)
          \/ \E valid \in BOOLEAN, l \in Laps : CrashFrame(valid, l)
          \/ UNCHANGED vars
      BY <1>2 DEF Next, Worker, Crash
    <2>6. ASSUME ~UNCHANGED vars, Entering'
          PROVE  /\ ~Entering => EntryAge' = EntryBegin
                 /\ Entering => EntryAge' >= EntryAge
      <3>1. CASE Operator \/ Environment
        BY <2>0, <2>4, <2>6, <3>1 DEF Entering
      <3>2. CASE \E evidence \in BOOLEAN : ActOnFrame(evidence)
        BY <2>0, <2>1, <2>6, <3>2
      <3>3. CASE \E valid \in BOOLEAN, s \in Situations, l \in Laps :
                   EvaluateFrame(valid, s, l)
        BY <2>2, <2>6, <3>3
      <3>4. CASE \E valid \in BOOLEAN, l \in Laps : CrashFrame(valid, l)
        BY <2>3, <2>6, <3>4
      <3> QED BY <2>5, <2>6, <3>1, <3>2, <3>3, <3>4
    <2> QED BY <2>1, <2>6 DEF EntryStep
  <1> QED BY <1>1, <1>2, Invariance, PTL DEF Spec, EntryRunsDown

-----------------------------------------------------------------------------
(* How a latched companion loses OFFBOARD.  PX4's own clock is fairness and *)
(* stays with TLC (LatchedFlightLeavesOffboard); this is the measure.       *)

Evaluates == \E valid \in BOOLEAN, s \in Situations, l \in Laps : EvaluateFrame(valid, s, l)

(* While the sender is latched nothing breaks its silence, every frame adds *)
(* to it, and once it is complete no command and no switch of the pilot's   *)
(* brings OFFBOARD back.                                                    *)
SilenceStep ==
  /\ latched' => px4'.silence >= px4.silence
  /\ latched' /\ Evaluates => px4'.silence = Later(px4.silence, SetpointLoss)
  /\ px4.silence = SetpointLoss /\ px4.mode # "offboard" => px4'.mode # "offboard"

SilenceRunsDown == [][SilenceStep]_vars

LEMMA LaterGrows ==
  ASSUME NEW cap \in Nat \ {0}, NEW age \in 0 .. cap
  PROVE  Later(age, cap) >= age
  BY DEF Later

(* SetpointLoss frames of a latched sender complete the silence on which    *)
(* PX4's failsafe acts, whatever becomes of the Position requests (the      *)
(* measure behind LatchedFlightLeavesOffboard).                             *)
THEOREM SilenceMeasured == Spec => SilenceRunsDown
  <1>1. ASSUME LinkTypes, [Next]_vars  PROVE [SilenceStep]_vars
    <2>1. /\ px4.silence \in 0 .. SetpointLoss
          /\ px4.silence <= SetpointLoss /\ px4.silence >= px4.silence
          /\ px4 \in [mode : {"position", "offboard", "other"}, armed : BOOLEAN,
                      silence : 0 .. SetpointLoss]
          /\ SetpointLoss \in Nat \ {0}
      BY <1>1, MissionAssumption DEF LinkTypes
    <2>2. ASSUME NEW valid \in BOOLEAN, NEW s \in Situations, NEW l \in Laps,
                 EvaluateFrame(valid, s, l)
          PROVE  /\ latched' => px4'.silence = Later(px4.silence, SetpointLoss)
                 /\ px4'.mode = px4.mode
      <3> DEFINE m == AfterPrepare(AfterInstall(mission, valid))
                 quiet == IF Sends(m, s) = None THEN Later(px4.silence, SetpointLoss) ELSE 0
      <3>1. latched' = Latches(m, s) /\ px4' = [px4 EXCEPT !.silence = quiet]
        BY <2>2 DEF EvaluateFrame
      <3> HIDE DEF m
      <3>2. Latches(m, s) => Sends(m, s) = None
        BY DEF Latches, Sends, Transmits, None
      <3>3. latched' => quiet = Later(px4.silence, SetpointLoss)
        BY <3>1, <3>2
      <3> HIDE DEF quiet
      <3> QED BY <2>1, <3>1, <3>3
    <2>3. CASE Evaluates
      <3>1. /\ latched' => px4'.silence = Later(px4.silence, SetpointLoss)
            /\ px4'.mode = px4.mode
        BY <2>2, <2>3 DEF Evaluates
      <3>2. Later(px4.silence, SetpointLoss) >= px4.silence
        BY <2>1, LaterGrows
      <3> QED BY <3>1, <3>2 DEF SilenceStep
    <2>4. ASSUME px4'.silence >= px4.silence,
                 px4.silence = SetpointLoss /\ px4.mode # "offboard" => px4'.mode # "offboard",
                 ~Evaluates
          PROVE  SilenceStep
      BY <2>4 DEF SilenceStep
    <2>5. CASE Crash
      <3>1. px4' = [px4 EXCEPT !.silence = SetpointLoss]
        BY <2>5 DEF Crash, CrashFrame
      <3>2. px4'.silence = SetpointLoss /\ px4'.mode = px4.mode
        BY <2>1, <3>1
      <3>3. px4'.silence >= px4.silence
        BY <2>1, <3>2
      <3> QED BY <2>3, <2>4, <3>2, <3>3
    <2>6. CASE \/ Operator \/ LoseCommand \/ LoseAck \/ ReceiveHeartbeat \/ ReceiveAck
               \/ \E evidence \in BOOLEAN : ActOnFrame(evidence)
      <3>1. px4' = px4
        BY <2>6 DEF Operator, SubmitMission, SubmitAction, LoseCommand, LoseAck,
                    ReceiveHeartbeat, ReceiveAck, ActOnFrame
      <3> QED BY <2>1, <2>3, <2>4, <3>1
    <2>7. CASE \E accepts \in BOOLEAN : Px4HandlesCommand(accepts)
      <3>1. PICK accepts \in BOOLEAN : Px4HandlesCommand(accepts)
        BY <2>7
      <3>2. /\ px4' = IF accepts THEN [px4 EXCEPT !.mode = Head(uplink).mode] ELSE px4
            /\ accepts /\ Head(uplink).mode = "offboard" => px4.silence < SetpointLoss
        BY <3>1 DEF Px4HandlesCommand
      <3>3. px4'.silence = px4.silence /\ px4'.mode \in {px4.mode, Head(uplink).mode}
        BY <2>1, <3>2
      <3>4. px4.silence = SetpointLoss /\ px4.mode # "offboard" => px4'.mode # "offboard"
        BY <2>1, <3>2
      <3> QED BY <2>1, <2>3, <2>4, <3>3, <3>4
    <2>8. CASE \E mode \in PilotModes : PilotSelectsMode(mode)
      <3>1. PICK mode \in PilotModes : PilotSelectsMode(mode)
        BY <2>8
      <3>2. /\ px4' = [px4 EXCEPT !.mode = mode]
            /\ mode = "offboard" => px4.silence < SetpointLoss
        BY <3>1 DEF PilotSelectsMode
      <3>3. px4'.silence = px4.silence /\ px4'.mode = mode
        BY <2>1, <3>2
      <3> QED BY <2>1, <2>3, <2>4, <3>2, <3>3
    <2>9. CASE Px4SetpointFailsafe \/ PilotArmsOrDisarms
      <3>1. \/ px4' = [px4 EXCEPT !.mode = "position"]
            \/ px4' = [px4 EXCEPT !.armed = ~@]
        BY <2>9 DEF Px4SetpointFailsafe, PilotArmsOrDisarms
      <3>2. px4'.silence = px4.silence /\ px4'.mode \in {px4.mode, "position"}
        BY <2>1, <3>1
      <3> QED BY <2>1, <2>3, <2>4, <3>2
    <2>10. CASE UNCHANGED vars
      BY <2>10
    <2> QED BY <1>1, <2>3, <2>5, <2>6, <2>7, <2>8, <2>9, <2>10
            DEF Next, Environment, Worker, Evaluates
  <1> QED BY <1>1, Invariance, PTL DEF Spec, SilenceRunsDown

-----------------------------------------------------------------------------
(* What a step may append to the link. *)
Offboard == [mode |-> "offboard", fresh |-> TRUE]

(* A queue that grows by a few commands ends in one of them. *)
LEMMA TransmittedEnd ==
  ASSUME NEW q \in Seq(Commands), NEW new \in Seq(Commands),
         Len(Transmitted(q, new)) > Len(q)
  PROVE  \E i \in 1 .. Len(new) : Transmitted(q, new)[Len(Transmitted(q, new))] = new[i]
  <1> DEFINE all == q \o new
             n == IF Len(all) <= MaxInFlight THEN Len(all) ELSE MaxInFlight
  <1>1. /\ all \in Seq(Commands) /\ Len(all) = Len(q) + Len(new)
        /\ Len(q) \in Nat /\ Len(new) \in Nat
    OBVIOUS
  <1>2. n \in 0 .. Len(all)
    BY <1>1, MissionAssumption
  <1>3. Transmitted(q, new) = SubSeq(all, 1, n)
    BY DEF Transmitted
  <1>4. \A i \in 1 .. Len(new) : all[Len(q) + i] = new[i]
    OBVIOUS
  <1> HIDE DEF all, n
  <1>5. Len(SubSeq(all, 1, n)) = n /\ \A i \in 1 .. n : SubSeq(all, 1, n)[i] = all[i]
    BY <1>1, <1>2, SubSeqProperties
  <1>6. n > Len(q)
    BY <1>3, <1>5
  <1>7. n - Len(q) \in 1 .. Len(new) /\ all[n] = new[n - Len(q)]
    <2>1. n - Len(q) \in 1 .. Len(new) /\ Len(q) + (n - Len(q)) = n
      BY <1>1, <1>2, <1>6
    <2> QED BY <1>4, <2>1
  <1> QED BY <1>1, <1>2, <1>3, <1>5, <1>6, <1>7

(* A step that only sends Position requests ends in none of the mission's. *)
LEMMA PositionIsNoRequest ==
  ASSUME NEW q \in Seq(Commands), NEW new \in Seq(Commands),
         \A i \in 1 .. Len(new) : new[i] = Position,
         Len(Transmitted(q, new)) > Len(q)
  PROVE  Transmitted(q, new)[Len(Transmitted(q, new))] # Offboard
  BY TransmittedEnd DEF Position, Offboard

(* A frame that neither starts nor retries sends Position requests at most. *)
LEMMA ActRequests ==
  ASSUME IInv, LinkTypes, NEW evidence \in BOOLEAN, ActOnFrame(evidence),
         Len(uplink') > Len(uplink), uplink'[Len(uplink')] = Offboard
  PROVE  consent'
  <1> DEFINE held == AfterAbort(AfterAction(mission, evidence))
             starts == inbox.action = "start" /\ ~Blocked(mission, FALSE, evidence)
             retries == Retries(held, evidence)
             stops == inbox.action = "stop"
                      /\ AfterAction(mission, evidence).execution = "stopping"
             legacy == PositionModeDue(AfterRetry(held, evidence), latched)
             a == IF stops THEN <<Position>> ELSE << >>
             b == IF starts \/ retries THEN <<Offboard>> ELSE << >>
             c == IF legacy THEN <<Position>> ELSE << >>
  <1>1. uplink' = Transmitted(Aged(uplink, starts \/ retries), a \o b \o c)
    BY DEF ActOnFrame, Offboard
  <1>2. asked' = IF starts THEN 1 ELSE IF retries THEN asked + 1 ELSE asked
    BY DEF ActOnFrame
  <1>3. asked \in Nat
    BY MissionAssumption DEF IInv, Types
  <1>4. starts => consent'
    BY DEF ActOnFrame
  <1>5. asked' # asked => consent'
    BY ActKeeps
  <1> HIDE DEF starts, retries, stops, legacy
  <1>6. CASE starts
    BY <1>4, <1>6
  <1>7. CASE retries /\ ~starts
    BY <1>2, <1>3, <1>5, <1>7
  <1>8. CASE ~starts /\ ~retries
    <2>1. Aged(uplink, starts \/ retries) = uplink
      BY <1>8 DEF Aged
    <2>2. b = << >>
      BY <1>8
    <2> DEFINE sent == a \o b \o c
    <2>3. /\ sent \in Seq(Commands)
          /\ \A i \in 1 .. Len(sent) : sent[i] = Position
      <3>1. Position \in Commands
        BY DEF Position, Commands
      <3>2. /\ a \in Seq(Commands) /\ Len(a) \in Nat /\ c \in Seq(Commands)
            /\ \A i \in 1 .. Len(a) : a[i] = Position
            /\ \A i \in 1 .. Len(c) : c[i] = Position
        BY <3>1
      <3> HIDE DEF a, c
      <3> QED BY <2>2, <3>2
    <2>4. uplink' = Transmitted(uplink, sent)
      BY <1>1, <2>1
    <2> HIDE DEF sent
    <2> QED BY <2>3, <2>4, PositionIsNoRequest DEF LinkTypes
  <1> QED BY <1>6, <1>7, <1>8

(* The bridge asks for OFFBOARD only under an accepted start (RequestsAreWanted). *)
THEOREM RequestsWanted == Spec => RequestsAreWanted
  <1>1. ASSUME IInv, LinkTypes, [Next]_vars,
               Len(uplink') > Len(uplink), uplink'[Len(uplink')] = Offboard
        PROVE  consent'
    <2>1. uplink \in Seq(Commands) /\ Len(uplink) \in Nat
      BY <1>1 DEF LinkTypes
    <2>2. <<Position>> \in Seq(Commands)
          /\ \A i \in 1 .. Len(<<Position>>) : <<Position>>[i] = Position
      <3>1. Position \in Commands
        BY DEF Position, Commands
      <3> QED BY <3>1
    <2>3. ~ \/ uplink' = uplink
            \/ uplink' = Transmitted(uplink, <<Position>>)
            \/ uplink # << >> /\ uplink' = Tail(uplink)
      <3>1. uplink # << >> => Len(Tail(uplink)) < Len(uplink)
        BY <2>1
      <3>2. uplink' # uplink
        BY <1>1, <2>1
      <3>3. ~(uplink # << >> /\ uplink' = Tail(uplink))
        BY <1>1, <2>1, <3>1
      <3>4. uplink' # Transmitted(uplink, <<Position>>)
        <4> DEFINE new == <<Position>>
        <4>1. new \in Seq(Commands) /\ \A i \in 1 .. Len(new) : new[i] = Position
          BY <2>2
        <4> HIDE DEF new
        <4>2. ~(uplink' = Transmitted(uplink, new))
          BY <1>1, <2>1, <4>1, PositionIsNoRequest
        <4> QED BY <4>2 DEF new
      <3> QED BY <3>2, <3>3, <3>4
    <2>4. CASE Operator
      BY <2>3, <2>4 DEF Operator, SubmitMission, SubmitAction
    <2>5. CASE Environment
      BY <2>3, <2>5 DEF Environment, Px4HandlesCommand, LoseCommand, LoseAck,
                        Px4SetpointFailsafe, PilotSelectsMode, PilotArmsOrDisarms,
                        ReceiveHeartbeat, ReceiveAck
    <2>6. CASE Crash
      BY <2>3, <2>6 DEF Crash, CrashFrame
    <2>7. CASE Worker
      <3>1. ASSUME NEW valid \in BOOLEAN, NEW s \in Situations, NEW l \in Laps,
                   EvaluateFrame(valid, s, l)
            PROVE  FALSE
        BY <2>3, <3>1 DEF EvaluateFrame
      <3> QED BY <1>1, <2>7, <3>1, ActRequests DEF Worker
    <2> QED BY <1>1, <2>3, <2>4, <2>5, <2>6, <2>7 DEF Next, vars
  <1> QED BY <1>1, Invariance, PTL DEF Spec, RequestsAreWanted, Offboard
=============================================================================
