--------------------------- MODULE ModeEntryProofs ---------------------------
(***************************************************************************)
(* The entry limits, the companion's exclusive use of OFFBOARD and the     *)
(* ownership of the Position recovery, for every configuration a process   *)
(* may be started with and every limit.                                    *)
(***************************************************************************)
EXTENDS ModeEntry, TLAPS

(* A companion writer is permitted only where no legacy input is read.     *)
LEMMA CompanionExcludesLegacy ==
  ASSUME NEW d \in Deployments
  PROVE  /\ d \in [legacy : BOOLEAN, raw : BOOLEAN, native : BOOLEAN,
                   writer : BOOLEAN, companion : BOOLEAN]
         /\ d.companion => ~ d.legacy /\ ~ d.raw /\ ~ d.native /\ ~ d.writer
         /\ d.raw => d.legacy
  <1>1. PICK e \in Environments : d = Deployment(e)
    BY DEF Deployments
  <1>2. e.flags \in SUBSET LegacyFlags /\ e.selected \in Selections
    BY DEF Environments
  <1>3. /\ d.legacy = ("legacy_automation" \in e.flags)
        /\ d.raw = ({"legacy_automation", "raw_attitude"} \subseteq e.flags)
        /\ d.native = ("native_follow" \in e.flags)
        /\ d.writer = LegacyWriter(e.selected, e.flags)
        /\ d.companion = CompanionWriter(e.selected, e.flags)
    BY <1>1 DEF Deployment
  <1>4. d \in [legacy : BOOLEAN, raw : BOOLEAN, native : BOOLEAN,
               writer : BOOLEAN, companion : BOOLEAN]
    BY <1>1 DEF Deployment, LegacyWriter, CompanionWriter
  <1>5. d.companion => ~ d.legacy /\ ~ d.raw /\ ~ d.native /\ ~ d.writer
    BY <1>3 DEF LegacyWriter, CompanionWriter
  <1>6. d.raw => d.legacy
    BY <1>3
  <1> QED BY <1>4, <1>5, <1>6

(* The attempts a history of requests is bounded by; what the companion    *)
(* excludes; and whose recovery a remembered request stands for.           *)
AttemptsCoverRequests ==
    /\ asked.follow <= follow.attempts
    /\ asked.offboard <= offboard.attempts
    /\ ~ follow.active => asked.follow = 0
    /\ ~ offboard.active => asked.offboard = 0

CompanionRunsAlone ==
    /\ holds => deployment.companion
    /\ deployment.companion => ~ offboard.requested /\ ~ follow.requested

RequestsAreOwed ==
    (deployment.legacy => deployment.writer) =>
        (offboard.requested \/ follow.requested => owed)

IInv == TypeOK /\ AttemptsCoverRequests /\ CompanionRunsAlone /\ RequestsAreOwed

(* An iteration's edges keep the request, and give attempts back only to   *)
(* an input that was inactive.                                             *)
LEMMA EdgeFacts ==
  ASSUME TypeOK, NEW s \in Inputs
  PROVE  /\ OffboardEdge(s) \in OffboardEntries
         /\ OffboardEdge(s).active = s.automation
         /\ OffboardEdge(s).requested = offboard.requested
         /\ s.automation /\ offboard.active => OffboardEdge(s).attempts = offboard.attempts
         /\ FollowEdge(s) \in FollowEntries
         /\ FollowEdge(s).active = s.visual
         /\ FollowEdge(s).requested = follow.requested
         /\ s.visual /\ follow.active => FollowEdge(s).attempts = follow.attempts
  <1> USE ModeEntryAssumption
  <1>1. s.automation \in BOOLEAN /\ s.visual \in BOOLEAN
    BY DEF Inputs
  <1>2. offboard \in OffboardEntries /\ follow \in FollowEntries
    BY DEF TypeOK
  <1>3. /\ OffboardEdge(s) \in OffboardEntries
        /\ OffboardEdge(s).active = s.automation
        /\ OffboardEdge(s).requested = offboard.requested
        /\ s.automation /\ offboard.active => OffboardEdge(s).attempts = offboard.attempts
    <2>1. CASE s.automation /\ ~ offboard.active
      <3>1. OffboardEdge(s) \in OffboardEntries
        <4>1. OffboardEdge(s) = [requested |-> offboard.requested, frames |-> 0,
                                 attempts |-> 0, blocked |-> FALSE, active |-> TRUE]
          BY <1>2, <2>1 DEF OffboardEdge, OffboardEntries
        <4>2. 0 \in 0 .. PrestreamFrames /\ 0 \in 0 .. MaxAttempts
          OBVIOUS
        <4>3. offboard.requested \in BOOLEAN
          BY <1>2 DEF OffboardEntries
        <4> QED BY <4>1, <4>2, <4>3 DEF OffboardEntries
      <3>2. OffboardEdge(s).active = TRUE /\ OffboardEdge(s).requested = offboard.requested
        BY <1>1, <1>2, <2>1 DEF OffboardEdge, OffboardEntries
      <3> QED BY <1>1, <2>1, <3>1, <3>2
    <2>2. CASE ~ (s.automation /\ ~ offboard.active)
      <3>1. OffboardEdge(s) = [offboard EXCEPT !.active = s.automation]
        BY <2>2 DEF OffboardEdge
      <3>2. OffboardEdge(s) \in OffboardEntries
        BY <1>1, <1>2, <3>1 DEF OffboardEntries
      <3>3. /\ OffboardEdge(s).active = s.automation
            /\ OffboardEdge(s).requested = offboard.requested
            /\ OffboardEdge(s).attempts = offboard.attempts
        BY <1>2, <3>1 DEF OffboardEntries
      <3> QED BY <3>2, <3>3
    <2> QED BY <2>1, <2>2
  <1>4. /\ FollowEdge(s) \in FollowEntries
        /\ FollowEdge(s).active = s.visual
        /\ FollowEdge(s).requested = follow.requested
        /\ s.visual /\ follow.active => FollowEdge(s).attempts = follow.attempts
    <2>1. CASE s.visual /\ ~ follow.active
      <3>1. FollowEdge(s) \in FollowEntries
        <4>1. FollowEdge(s) =
                [requested |-> follow.requested, frames |-> 0, settle |-> 0, attempts |-> 0,
                 blocked |-> FALSE, active |-> TRUE, configured |-> FALSE,
                 observed |-> FALSE, exitPending |-> FALSE,
                 modeAck |-> "idle"]
          BY <1>2, <2>1 DEF FollowEdge, FollowEntries
        <4>2. /\ 0 \in 0 .. PrestreamFrames /\ 0 \in 0 .. SettleFrames
              /\ 0 \in 0 .. MaxAttempts
          OBVIOUS
        <4>3. follow.requested \in BOOLEAN
          BY <1>2 DEF FollowEntries
        <4> QED BY <4>1, <4>2, <4>3 DEF FollowEntries
      <3>2. FollowEdge(s).active = TRUE /\ FollowEdge(s).requested = follow.requested
        BY <1>1, <1>2, <2>1 DEF FollowEdge, FollowEntries
      <3> QED BY <1>1, <2>1, <3>1, <3>2
    <2>2. CASE ~ (s.visual /\ ~ follow.active)
      <3>1. FollowEdge(s) = [follow EXCEPT !.active = s.visual]
        BY <2>2 DEF FollowEdge
      <3>2. FollowEdge(s) \in FollowEntries
        BY <1>1, <1>2, <3>1 DEF FollowEntries
      <3>3. /\ FollowEdge(s).active = s.visual
            /\ FollowEdge(s).requested = follow.requested
            /\ FollowEdge(s).attempts = follow.attempts
        BY <1>2, <3>1 DEF FollowEntries
      <3> QED BY <3>2, <3>3
    <2> QED BY <2>1, <2>2
  <1> QED BY <1>3, <1>4

(* The recovery asks for Position only to leave a mode, and forgets what   *)
(* it leaves.                                                              *)
LEMMA RecoveryFacts ==
  ASSUME TypeOK, NEW o \in OffboardEntries, NEW f \in FollowEntries, RequestPosition(o, f)
  PROVE  /\ offboard' \in OffboardEntries /\ follow' \in FollowEntries
         /\ retryElapsed' \in BOOLEAN /\ owed' \in BOOLEAN
         /\ offboard'.attempts = o.attempts /\ offboard'.active = o.active
         /\ follow'.attempts = f.attempts /\ follow'.active = f.active
         /\ offboard'.requested => o.requested /\ owed' = owed
         /\ follow'.requested => f.requested /\ owed' = owed
         /\ \/ command' = command
            \/ command' = "position" /\ (o.requested \/ f.requested \/ Undriven)
  <1> USE ModeEntryAssumption
  <1> DEFINE leaves == /\ o.requested \/ f.requested \/ Undriven
                       /\ o.requested \/ retryElapsed
             there == lastMode = "position"
  <1>1. /\ Transmit(PositionRequest(leaves /\ connected))
        /\ offboard' = Recovered(o, leaves, there)
        /\ follow' = [Recovered(f, leaves, there)
                         EXCEPT !.exitPending = @ \/ (leaves /\ connected)]
    BY DEF RequestPosition
  <1>2. leaves \in BOOLEAN /\ there \in BOOLEAN /\ connected \in BOOLEAN
    BY DEF OffboardEntries, FollowEntries, Undriven, TypeOK
  <1>3. leaves => o.requested \/ f.requested \/ Undriven
    OBVIOUS
  <1> HIDE DEF leaves, there
  <1>4. /\ offboard' \in OffboardEntries
        /\ offboard'.attempts = o.attempts /\ offboard'.active = o.active
        /\ offboard'.requested => o.requested /\ ~ leaves
    <2>1. offboard' \in OffboardEntries
      <3> DEFINE frames == IF there THEN 0 ELSE o.frames
                 requested == o.requested /\ ~ leaves /\ ~ there
      <3>1. offboard' = [requested |-> requested, frames |-> frames, attempts |-> o.attempts,
                         blocked |-> o.blocked, active |-> o.active]
        BY <1>1 DEF Recovered, OffboardEntries
      <3>2. /\ frames \in 0 .. PrestreamFrames /\ requested \in BOOLEAN
            /\ o.attempts \in 0 .. MaxAttempts
            /\ o.blocked \in BOOLEAN /\ o.active \in BOOLEAN
        BY <1>2 DEF OffboardEntries
      <3> HIDE DEF frames, requested
      <3> QED BY <3>1, <3>2 DEF OffboardEntries
    <2>2. /\ offboard'.attempts = o.attempts /\ offboard'.active = o.active
          /\ offboard'.requested = (o.requested /\ ~ leaves /\ ~ there)
      BY <1>1, <1>2 DEF Recovered, OffboardEntries
    <2> QED BY <2>1, <2>2
  <1>5. /\ follow' \in FollowEntries
        /\ follow'.attempts = f.attempts /\ follow'.active = f.active
        /\ follow'.requested => f.requested /\ ~ leaves
    <2>1. Recovered(f, leaves, there) \in FollowEntries
      <3> DEFINE frames == IF there THEN 0 ELSE f.frames
                 requested == f.requested /\ ~ leaves /\ ~ there
      <3> DEFINE q == [f EXCEPT !.requested = requested]
      <3>1. requested \in BOOLEAN /\ frames \in 0 .. PrestreamFrames
        BY <1>2 DEF FollowEntries
      <3>2. Recovered(f, leaves, there) = [q EXCEPT !.frames = frames]
        BY DEF Recovered, FollowEntries
      <3> HIDE DEF frames, requested
      <3>3. q \in FollowEntries
        BY <3>1 DEF FollowEntries
      <3> HIDE DEF q
      <3> QED BY <3>1, <3>2, <3>3 DEF FollowEntries
    <2>2. /\ Recovered(f, leaves, there).attempts = f.attempts
          /\ Recovered(f, leaves, there).active = f.active
          /\ Recovered(f, leaves, there).requested = (f.requested /\ ~ leaves /\ ~ there)
      BY <1>2 DEF Recovered, FollowEntries
    <2>3. follow' \in FollowEntries
      BY <1>1, <1>2, <2>1 DEF FollowEntries
    <2>4. /\ follow'.attempts = Recovered(f, leaves, there).attempts
          /\ follow'.active = Recovered(f, leaves, there).active
          /\ follow'.requested = Recovered(f, leaves, there).requested
      BY <1>1, <1>2, <2>1 DEF FollowEntries
    <2> QED BY <2>2, <2>3, <2>4
  <1>6. /\ retryElapsed' \in BOOLEAN /\ owed' \in BOOLEAN
        /\ ~ leaves => owed' = owed
        /\ command' = command \/ (command' = "position" /\ leaves)
    BY <1>1, <1>2 DEF Transmit, PositionRequest, TypeOK
  <1> QED BY <1>3, <1>4, <1>5, <1>6

(* The history of requests stays below the attempts when an iteration      *)
(* gives none back to an active input and counts the request it makes.     *)
LEMMA CountFacts ==
  ASSUME IInv, NEW s \in Inputs, NEW request, Count(s, request),
         offboard' \in OffboardEntries, follow' \in FollowEntries,
         offboard'.active = s.automation, follow'.active = s.visual,
         NEW previousFollow \in Nat, NEW previousOffboard \in Nat,
         s.visual /\ follow.active => previousFollow = follow.attempts,
         s.automation /\ offboard.active => previousOffboard = offboard.attempts,
         follow'.attempts = previousFollow + (IF request = "follow" THEN 1 ELSE 0),
         offboard'.attempts >= previousOffboard + (IF request = "offboard" THEN 1 ELSE 0)
  PROVE  AttemptsCoverRequests' /\ asked' \in [follow : Nat, offboard : Nat]
  <1> USE ModeEntryAssumption
  <1>1. /\ asked \in [follow : Nat, offboard : Nat]
        /\ follow.attempts \in Nat /\ follow'.attempts \in Nat
        /\ offboard.attempts \in Nat /\ offboard'.attempts \in Nat
        /\ follow.active \in BOOLEAN /\ offboard.active \in BOOLEAN
    BY DEF IInv, TypeOK, OffboardEntries, FollowEntries
  <1>2. s.automation \in BOOLEAN /\ s.visual \in BOOLEAN
    BY DEF Inputs
  <1>3. asked.follow \in Nat /\ asked.offboard \in Nat
    BY <1>1
  <1>4. /\ asked.follow <= follow.attempts /\ asked.offboard <= offboard.attempts
        /\ ~ follow.active => asked.follow = 0
        /\ ~ offboard.active => asked.offboard = 0
    BY DEF IInv, AttemptsCoverRequests
  <1>5. /\ asked'.follow = IF ~ s.visual THEN 0
                           ELSE asked.follow + (IF request = "follow" THEN 1 ELSE 0)
        /\ asked'.offboard = IF ~ s.automation THEN 0
                             ELSE asked.offboard + (IF request = "offboard" THEN 1 ELSE 0)
        /\ asked' \in [follow : Nat, offboard : Nat]
    BY <1>3 DEF Count
  <1>6. asked'.follow <= follow'.attempts
    BY <1>1, <1>2, <1>3, <1>4, <1>5
  <1>7. asked'.offboard <= offboard'.attempts
    BY <1>1, <1>2, <1>3, <1>4, <1>5
  <1> QED BY <1>2, <1>5, <1>6, <1>7 DEF AttemptsCoverRequests

(* An iteration that recovers, whatever branch it takes.                   *)
LEMMA RecoveryIteration ==
  ASSUME IInv, NEW s \in Readable(deployment), NEW f \in FollowEntries,
         f.requested = follow.requested, f.active = s.visual,
         f.attempts = FollowEdge(s).attempts,
         UNCHANGED <<Outside, params>>,
         RequestPosition(OffboardEdge(s), f),
         driving' = FALSE, Count(s, "none")
  PROVE  IInv'
  <1> USE ModeEntryAssumption
  <1>1. s \in Inputs /\ TypeOK
    BY DEF Readable, IInv
  <1>2. /\ OffboardEdge(s) \in OffboardEntries /\ FollowEdge(s) \in FollowEntries
        /\ OffboardEdge(s).active = s.automation
        /\ OffboardEdge(s).requested = offboard.requested
        /\ s.automation /\ offboard.active => OffboardEdge(s).attempts = offboard.attempts
        /\ s.visual /\ follow.active => FollowEdge(s).attempts = follow.attempts
    BY <1>1, EdgeFacts
  <1>3. /\ offboard' \in OffboardEntries /\ follow' \in FollowEntries
        /\ retryElapsed' \in BOOLEAN /\ owed' \in BOOLEAN
        /\ offboard'.attempts = OffboardEdge(s).attempts
        /\ offboard'.active = s.automation
        /\ follow'.attempts = FollowEdge(s).attempts /\ follow'.active = s.visual
        /\ offboard'.requested => offboard.requested /\ owed' = owed
        /\ follow'.requested => follow.requested /\ owed' = owed
        /\ command' = command \/ command' = "position"
    BY <1>1, <1>2, RecoveryFacts
  <1>4. FollowEdge(s).attempts \in Nat /\ OffboardEdge(s).attempts \in Nat
    BY <1>2 DEF FollowEntries, OffboardEntries
  <1>5. AttemptsCoverRequests' /\ asked' \in [follow : Nat, offboard : Nat]
    <2>1. /\ follow'.attempts = FollowEdge(s).attempts + (IF "none" = "follow" THEN 1 ELSE 0)
          /\ offboard'.attempts
               >= OffboardEdge(s).attempts + (IF "none" = "offboard" THEN 1 ELSE 0)
      BY <1>3, <1>4
    <2> QED BY <1>1, <1>2, <1>3, <1>4, <2>1, CountFacts
  <1>6. TypeOK'
    BY <1>1, <1>3, <1>5 DEF TypeOK, Outside, Requests
  <1>7. CompanionRunsAlone' /\ RequestsAreOwed'
    BY <1>3 DEF IInv, CompanionRunsAlone, RequestsAreOwed, Outside
  <1> QED BY <1>5, <1>6, <1>7 DEF IInv

(* What a branch that streams leaves behind: the recovery is not run, the  *)
(* request it makes is remembered and owed.                                *)
LEMMA StreamingIteration ==
  ASSUME IInv, NEW s \in Readable(deployment), NEW request \in Requests \cup {"none"},
         UNCHANGED <<Outside, params>>,
         Transmit(request), Count(s, request), driving' \in BOOLEAN,
         offboard' \in OffboardEntries, offboard'.active = s.automation,
         follow' \in FollowEntries, follow'.active = s.visual,
         request # "position",
         follow'.attempts = FollowEdge(s).attempts + (IF request = "follow" THEN 1 ELSE 0),
         offboard'.attempts
           >= OffboardEdge(s).attempts + (IF request = "offboard" THEN 1 ELSE 0),
         follow'.requested => follow.requested \/ (request = "follow" /\ deployment.native),
         offboard'.requested =>
            offboard.requested \/ (deployment.legacy /\ (deployment.writer => request = "offboard"))
  PROVE  IInv'
  <1> USE ModeEntryAssumption
  <1>1. s \in Inputs /\ TypeOK
    BY DEF Readable, IInv
  <1>2. /\ OffboardEdge(s) \in OffboardEntries /\ FollowEdge(s) \in FollowEntries
        /\ s.automation /\ offboard.active => OffboardEdge(s).attempts = offboard.attempts
        /\ s.visual /\ follow.active => FollowEdge(s).attempts = follow.attempts
    BY <1>1, EdgeFacts
  <1>3. FollowEdge(s).attempts \in Nat /\ OffboardEdge(s).attempts \in Nat
    BY <1>2 DEF FollowEntries, OffboardEntries
  <1>4. AttemptsCoverRequests' /\ asked' \in [follow : Nat, offboard : Nat]
    BY <1>1, <1>2, <1>3, CountFacts
  <1>5. /\ command' \in Requests \cup {"none"} /\ retryElapsed' \in BOOLEAN
        /\ owed' \in BOOLEAN /\ (owed => owed') /\ (request # "none" => owed')
    BY <1>1 DEF Transmit, TypeOK
  <1>6. TypeOK'
    BY <1>1, <1>4, <1>5 DEF TypeOK, Outside
  <1>7. deployment.companion => ~ deployment.legacy /\ ~ deployment.native
    BY <1>1, CompanionExcludesLegacy DEF TypeOK
  <1>8. CompanionRunsAlone'
    BY <1>7 DEF IInv, CompanionRunsAlone, Outside
  <1>9. RequestsAreOwed'
    BY <1>5 DEF IInv, RequestsAreOwed, Outside
  <1> QED BY <1>4, <1>6, <1>8, <1>9 DEF IInv

(* Each branch of the arbitration chain preserves the invariant.           *)
LEMMA ManualKeeps ==
  ASSUME IInv, NEW s \in Readable(deployment), UNCHANGED <<Outside, params>>,
         \/ Manual(s) \/ FollowBlocked(s) \/ AttitudeRelease(s) \/ Idle(s)
  PROVE  IInv'
  <1>1. s \in Inputs /\ TypeOK
    BY DEF Readable, IInv
  <1>2. /\ FollowEdge(s) \in FollowEntries /\ FollowEdge(s).active = s.visual
        /\ FollowEdge(s).requested = follow.requested
    BY <1>1, EdgeFacts
  <1>3. /\ RequestPosition(OffboardEdge(s), FollowEdge(s))
        /\ driving' = FALSE /\ Count(s, "none")
    BY DEF Manual, FollowBlocked, AttitudeRelease, Idle
  <1> QED BY <1>2, <1>3, RecoveryIteration

LEMMA FollowParametersKeeps ==
  ASSUME IInv, NEW s \in Readable(deployment), UNCHANGED <<Outside, params>>,
         FollowParameters(s)
  PROVE  IInv'
  <1>1. s \in Inputs /\ TypeOK
    BY DEF Readable, IInv
  <1>2. /\ OffboardEdge(s) \in OffboardEntries /\ FollowEdge(s) \in FollowEntries
        /\ OffboardEdge(s).active = s.automation
        /\ OffboardEdge(s).requested = offboard.requested
        /\ FollowEdge(s).active = s.visual /\ FollowEdge(s).requested = follow.requested
    BY <1>1, EdgeFacts
  <1>3. FollowEdge(s).attempts \in Nat /\ OffboardEdge(s).attempts \in Nat
    BY <1>2 DEF FollowEntries, OffboardEntries
  <1>4. Count(s, "none")
    BY DEF FollowParameters
  <1>5. CASE /\ offboard' = OffboardEdge(s)
             /\ follow' = FollowEdge(s) \/ follow' = [FollowEdge(s) EXCEPT !.configured = TRUE]
             /\ Transmit("none") /\ driving' = TRUE
    <2>1. /\ follow' \in FollowEntries /\ follow'.active = s.visual
          /\ follow'.requested = follow.requested
          /\ follow'.attempts = FollowEdge(s).attempts
      BY <1>2, <1>5 DEF FollowEntries
    <2>2. /\ follow'.attempts = FollowEdge(s).attempts + (IF "none" = "follow" THEN 1 ELSE 0)
          /\ offboard'.attempts
               >= OffboardEdge(s).attempts + (IF "none" = "offboard" THEN 1 ELSE 0)
      BY <1>3, <1>5, <2>1
    <2> QED BY <1>2, <1>4, <1>5, <2>1, <2>2, StreamingIteration
  <1>6. CASE /\ RequestPosition(OffboardEdge(s), [FollowEdge(s) EXCEPT !.blocked = TRUE])
             /\ driving' = FALSE
    <2> DEFINE f == [FollowEdge(s) EXCEPT !.blocked = TRUE]
    <2>1. /\ f \in FollowEntries /\ f.active = s.visual
          /\ f.requested = follow.requested /\ f.attempts = FollowEdge(s).attempts
      BY <1>2 DEF FollowEntries
    <2> QED BY <1>4, <1>6, <2>1, RecoveryIteration
  <1> QED BY <1>5, <1>6 DEF FollowParameters

LEMMA FollowTargetKeeps ==
  ASSUME IInv, NEW s \in Readable(deployment), UNCHANGED <<Outside, params>>,
         FollowTarget(s)
  PROVE  IInv'
  <1> USE ModeEntryAssumption
  <1>1. s \in Inputs /\ TypeOK /\ deployment.native \in BOOLEAN
    BY CompanionExcludesLegacy DEF Readable, IInv, TypeOK
  <1>2. /\ OffboardEdge(s) \in OffboardEntries /\ FollowEdge(s) \in FollowEntries
        /\ OffboardEdge(s).active = s.automation
        /\ OffboardEdge(s).requested = offboard.requested
        /\ FollowEdge(s).active = s.visual /\ FollowEdge(s).requested = follow.requested
    BY <1>1, EdgeFacts
  <1> DEFINE edge == FollowEdge(s)
             frames == AtMost(edge.frames + 1, PrestreamFrames)
             settle == IF s.still THEN AtMost(edge.settle + 1, SettleFrames) ELSE 0
             f == [edge EXCEPT !.frames = AtMost(@ + 1, PrestreamFrames),
                               !.settle = IF s.still THEN AtMost(@ + 1, SettleFrames) ELSE 0]
             seen == lastMode = "follow"
             asks == AsksForFollow(s, f)
             left == deployment.native /\ s.fresh /\ ~ seen /\ f.observed
             attempts == IF asks THEN f.attempts + 1 ELSE f.attempts
             spent == ~ seen /\ attempts >= MaxAttempts /\ retryElapsed /\ ~ asks
             request == IF asks THEN "follow" ELSE "none"
             ack == IF asks THEN "pending" ELSE IF left THEN "reacquire" ELSE f.modeAck
             requested == f.requested \/ asks
             observed == f.observed \/ (deployment.native /\ s.fresh /\ seen)
             blocked == left \/ spent
  <1>3. /\ Transmit(request)
        /\ offboard' = OffboardEdge(s)
        /\ follow' = [f EXCEPT !.attempts = attempts, !.requested = requested,
                               !.observed = observed, !.blocked = blocked, !.modeAck = ack]
        /\ driving' = TRUE
        /\ Count(s, request)
    BY DEF FollowTarget
  <1>4. s.fresh \in BOOLEAN /\ s.still \in BOOLEAN /\ retryElapsed \in BOOLEAN
    BY <1>1 DEF Inputs, TypeOK
  <1>5. /\ frames \in 0 .. PrestreamFrames /\ settle \in 0 .. SettleFrames
        /\ edge.attempts \in 0 .. MaxAttempts /\ edge.requested \in BOOLEAN
        /\ edge.observed \in BOOLEAN /\ edge.active = s.visual
    BY <1>2, <1>4 DEF AtMost, FollowEntries
  <1>6. f \in FollowEntries /\ f.attempts = edge.attempts /\ f.requested = edge.requested
        /\ f.active = edge.active
    <2> DEFINE q == [edge EXCEPT !.frames = frames]
    <2>1. f = [q EXCEPT !.settle = settle]
      BY <1>2 DEF FollowEntries
    <2> HIDE DEF frames, settle, f, edge
    <2>2. /\ q \in FollowEntries /\ q.attempts = edge.attempts
          /\ q.requested = edge.requested /\ q.active = edge.active
      BY <1>2, <1>5 DEF FollowEntries, edge
    <2> HIDE DEF q
    <2> QED BY <1>5, <2>1, <2>2 DEF FollowEntries
  <1> HIDE DEF f, edge, frames, settle
  <1>7. /\ f.observed \in BOOLEAN /\ f.attempts \in 0 .. MaxAttempts
        /\ f.modeAck \in {"idle", "pending", "accepted", "rejected", "reacquire"}
    BY <1>6 DEF FollowEntries
  <1>8. asks \in BOOLEAN /\ (asks => deployment.native /\ f.attempts < MaxAttempts)
    BY <1>1, <1>4, <1>6 DEF AsksForFollow, FollowEntries
  <1> HIDE DEF asks
  <1>9. /\ attempts \in 0 .. MaxAttempts /\ requested \in BOOLEAN
        /\ observed \in BOOLEAN /\ blocked \in BOOLEAN
        /\ ack \in {"idle", "pending", "accepted", "rejected", "reacquire"}
        /\ attempts = f.attempts + (IF request = "follow" THEN 1 ELSE 0)
    BY <1>1, <1>4, <1>5, <1>6, <1>7, <1>8
  <1>10. requested => follow.requested \/ (request = "follow" /\ deployment.native)
    BY <1>2, <1>6, <1>8 DEF edge
  <1>11. request \in Requests \cup {"none"} /\ request # "position" /\ request # "offboard"
    BY DEF Requests
  <1> HIDE DEF attempts, requested, observed, blocked, ack, request
  <1>12. /\ follow' \in FollowEntries /\ follow'.attempts = attempts
         /\ follow'.requested = requested /\ follow'.active = f.active
    <2> DEFINE q == [f EXCEPT !.attempts = attempts]
               r == [q EXCEPT !.requested = requested]
               t == [r EXCEPT !.observed = observed]
               u == [t EXCEPT !.blocked = blocked]
    <2>1. q \in FollowEntries /\ q.attempts = attempts /\ q.active = f.active
      BY <1>6, <1>9 DEF FollowEntries
    <2>2. follow' = [f EXCEPT !.attempts = attempts, !.requested = requested,
                              !.observed = observed, !.blocked = blocked, !.modeAck = ack]
      BY <1>3
    <2>3. follow' = [u EXCEPT !.modeAck = ack]
      BY <1>6, <2>2 DEF FollowEntries
    <2> HIDE DEF q
    <2>4. /\ r \in FollowEntries /\ r.attempts = attempts /\ r.active = f.active
          /\ r.requested = requested
      BY <1>9, <2>1 DEF FollowEntries
    <2> HIDE DEF r
    <2>5. /\ t \in FollowEntries /\ t.attempts = attempts /\ t.active = f.active
          /\ t.requested = requested
      BY <1>9, <2>4 DEF FollowEntries
    <2> HIDE DEF t
    <2>6. /\ u \in FollowEntries /\ u.attempts = attempts /\ u.active = f.active
          /\ u.requested = requested
      BY <1>9, <2>5 DEF FollowEntries
    <2> HIDE DEF u
    <2> QED BY <1>9, <2>3, <2>6 DEF FollowEntries
  <1>13. /\ follow'.active = s.visual
         /\ follow'.attempts = FollowEdge(s).attempts + (IF request = "follow" THEN 1 ELSE 0)
    BY <1>5, <1>6, <1>9, <1>12 DEF edge
  <1>14. offboard'.attempts
           >= OffboardEdge(s).attempts + (IF request = "offboard" THEN 1 ELSE 0)
    BY <1>2, <1>3, <1>11 DEF OffboardEntries
  <1>15. /\ Transmit(request) /\ Count(s, request) /\ driving' \in BOOLEAN
         /\ offboard' = OffboardEdge(s)
    BY <1>3
  <1>16. follow'.requested => follow.requested \/ (request = "follow" /\ deployment.native)
    BY <1>10, <1>12
  <1>17. /\ offboard' \in OffboardEntries /\ offboard'.active = s.automation
         /\ offboard'.requested = offboard.requested
    BY <1>2, <1>15
  <1> QED
    BY <1>11, <1>12, <1>13, <1>14, <1>15, <1>16, <1>17, StreamingIteration

LEMMA AttitudeKeeps ==
  ASSUME IInv, NEW s \in Readable(deployment), UNCHANGED <<Outside, params>>, Attitude(s)
  PROVE  IInv'
  <1> USE ModeEntryAssumption
  <1>1. s \in Inputs /\ TypeOK
    BY DEF Readable, IInv
  <1>2. /\ OffboardEdge(s) \in OffboardEntries /\ FollowEdge(s) \in FollowEntries
        /\ OffboardEdge(s).active = s.automation
        /\ OffboardEdge(s).requested = offboard.requested
        /\ FollowEdge(s).active = s.visual /\ FollowEdge(s).requested = follow.requested
    BY <1>1, EdgeFacts
  <1>3. deployment.legacy /\ deployment.writer \in BOOLEAN
    BY <1>1, CompanionExcludesLegacy DEF Attitude, Readable, TypeOK
  <1> DEFINE edge == OffboardEdge(s)
             frames == AtMost(edge.frames + 1, PrestreamFrames)
             o == [edge EXCEPT !.frames = AtMost(@ + 1, PrestreamFrames)]
             asks == o.frames = PrestreamFrames /\ (~ o.requested \/ retryElapsed)
             requested == o.requested \/ asks
             request == OffboardRequest(asks)
  <1>4. /\ Transmit(request) /\ Count(s, "none") /\ driving' = TRUE
        /\ offboard' = [o EXCEPT !.requested = requested] /\ follow' = FollowEdge(s)
    BY DEF Attitude
  <1>5. o \in OffboardEntries /\ o.attempts = edge.attempts /\ o.active = s.automation
        /\ o.requested = offboard.requested
    <2>1. frames \in 0 .. PrestreamFrames
      BY <1>2 DEF AtMost, OffboardEntries
    <2>2. o = [edge EXCEPT !.frames = frames]
      BY <1>2 DEF OffboardEntries
    <2> HIDE DEF frames, edge, o
    <2> QED BY <1>2, <2>1, <2>2 DEF OffboardEntries, edge
  <1> HIDE DEF o
  <1>6. asks \in BOOLEAN /\ requested \in BOOLEAN
    BY <1>5 DEF OffboardEntries
  <1>7. /\ request \in {"none", "offboard"}
        /\ requested => o.requested \/ (deployment.writer => request = "offboard")
    BY <1>3, <1>6 DEF OffboardRequest
  <1> HIDE DEF requested, request, asks
  <1>8. /\ offboard' \in OffboardEntries /\ offboard'.attempts = o.attempts
        /\ offboard'.active = o.active /\ offboard'.requested = requested
    BY <1>4, <1>5, <1>6 DEF OffboardEntries
  <1>9. FollowEdge(s).attempts \in Nat /\ OffboardEdge(s).attempts \in Nat
    BY <1>2 DEF FollowEntries, OffboardEntries
  <1>10. AttemptsCoverRequests' /\ asked' \in [follow : Nat, offboard : Nat]
    <2>1. /\ follow'.attempts = FollowEdge(s).attempts + (IF "none" = "follow" THEN 1 ELSE 0)
          /\ offboard'.attempts
               >= OffboardEdge(s).attempts + (IF "none" = "offboard" THEN 1 ELSE 0)
      BY <1>4, <1>5, <1>8, <1>9
    <2>2. /\ s.visual /\ follow.active => FollowEdge(s).attempts = follow.attempts
          /\ s.automation /\ offboard.active => OffboardEdge(s).attempts = offboard.attempts
      BY <1>1, EdgeFacts
    <2>3. /\ offboard'.active = s.automation /\ follow' \in FollowEntries
          /\ follow'.active = s.visual
      BY <1>2, <1>4, <1>5, <1>8
    <2> QED BY <1>1, <1>4, <1>8, <1>9, <2>1, <2>2, <2>3, CountFacts
  <1>11. /\ command' \in Requests \cup {"none"} /\ retryElapsed' \in BOOLEAN
         /\ owed' \in BOOLEAN /\ (owed => owed') /\ (request # "none" => owed')
    BY <1>1, <1>4, <1>7 DEF Transmit, TypeOK, Requests
  <1>12. TypeOK'
    BY <1>1, <1>2, <1>4, <1>8, <1>10, <1>11 DEF TypeOK, Outside
  <1>13. ~ deployment.companion
    BY <1>1, <1>3, CompanionExcludesLegacy DEF TypeOK
  <1>14. CompanionRunsAlone' /\ RequestsAreOwed'
    BY <1>2, <1>3, <1>4, <1>5, <1>7, <1>8, <1>11, <1>13
       DEF IInv, CompanionRunsAlone, RequestsAreOwed, Outside
  <1> QED BY <1>10, <1>12, <1>14 DEF IInv

LEMMA VelocityKeeps ==
  ASSUME IInv, NEW s \in Readable(deployment), UNCHANGED <<Outside, params>>, Velocity(s)
  PROVE  IInv'
  <1> USE ModeEntryAssumption
  <1>1. s \in Inputs /\ TypeOK
    BY DEF Readable, IInv
  <1>2. /\ OffboardEdge(s) \in OffboardEntries /\ FollowEdge(s) \in FollowEntries
        /\ OffboardEdge(s).active = s.automation
        /\ OffboardEdge(s).requested = offboard.requested
        /\ FollowEdge(s).active = s.visual /\ FollowEdge(s).requested = follow.requested
    BY <1>1, EdgeFacts
  <1>3. deployment.legacy /\ deployment.writer \in BOOLEAN
    BY <1>1, CompanionExcludesLegacy DEF Velocity, Inputs, Readable, TypeOK
  <1> DEFINE edge == OffboardEdge(s)
             frames == AtMost(edge.frames + 1, PrestreamFrames)
             o == [edge EXCEPT !.frames = AtMost(@ + 1, PrestreamFrames)]
             asks == /\ lastMode # "offboard"
                     /\ o.frames = PrestreamFrames /\ o.attempts < MaxAttempts
                     /\ ~ o.requested \/ retryElapsed
             attempts == IF asks THEN o.attempts + 1 ELSE o.attempts
             request == OffboardRequest(asks)
             requested == o.requested \/ asks
             blocked == /\ lastMode # "offboard" /\ attempts >= MaxAttempts
                        /\ retryElapsed /\ request = "none"
  <1>4. /\ Transmit(request) /\ Count(s, request) /\ driving' = TRUE
        /\ offboard' = [o EXCEPT !.requested = requested, !.attempts = attempts,
                                 !.blocked = blocked]
        /\ follow' = FollowEdge(s)
    BY DEF Velocity
  <1>5. o \in OffboardEntries /\ o.attempts = edge.attempts /\ o.active = s.automation
        /\ o.requested = offboard.requested
    <2>1. frames \in 0 .. PrestreamFrames
      BY <1>2 DEF AtMost, OffboardEntries
    <2>2. o = [edge EXCEPT !.frames = frames]
      BY <1>2 DEF OffboardEntries
    <2> HIDE DEF frames, edge, o
    <2> QED BY <1>2, <2>1, <2>2 DEF OffboardEntries, edge
  <1> HIDE DEF o
  <1>6. /\ asks \in BOOLEAN /\ requested \in BOOLEAN
        /\ o.attempts \in 0 .. MaxAttempts
        /\ attempts \in 0 .. MaxAttempts /\ blocked \in BOOLEAN
    BY <1>1, <1>5 DEF OffboardEntries, TypeOK
  <1>7. /\ request \in {"none", "offboard"} /\ (request = "offboard" => asks)
        /\ requested => o.requested \/ (deployment.writer => request = "offboard")
    BY <1>3, <1>6 DEF OffboardRequest
  <1> HIDE DEF asks, request
  <1>8. attempts >= o.attempts + (IF request = "offboard" THEN 1 ELSE 0)
    <2>1. CASE request = "offboard"
      BY <1>6, <1>7, <2>1
    <2>2. CASE request # "offboard"
      BY <1>6, <2>2
    <2> QED BY <2>1, <2>2
  <1> HIDE DEF requested, request, attempts, blocked, asks
  <1>9. /\ offboard' \in OffboardEntries /\ offboard'.attempts = attempts
        /\ offboard'.active = o.active /\ offboard'.requested = requested
    <2> DEFINE q == [o EXCEPT !.requested = requested]
               r == [q EXCEPT !.attempts = attempts]
    <2>1. offboard' = [o EXCEPT !.requested = requested, !.attempts = attempts,
                               !.blocked = blocked]
      BY <1>4
    <2>2. offboard' = [r EXCEPT !.blocked = blocked]
      BY <1>5, <2>1 DEF OffboardEntries
    <2>3. q \in OffboardEntries /\ q.active = o.active /\ q.requested = requested
      BY <1>5, <1>6 DEF OffboardEntries
    <2> HIDE DEF q
    <2>4. /\ r \in OffboardEntries /\ r.active = o.active /\ r.requested = requested
          /\ r.attempts = attempts
      BY <1>6, <2>3 DEF OffboardEntries
    <2> HIDE DEF r
    <2> QED BY <1>6, <2>2, <2>4 DEF OffboardEntries
  <1>10. /\ offboard'.attempts
              >= OffboardEdge(s).attempts + (IF request = "offboard" THEN 1 ELSE 0)
         /\ follow'.attempts = FollowEdge(s).attempts + (IF request = "follow" THEN 1 ELSE 0)
         /\ follow' = FollowEdge(s) /\ request # "position" /\ request # "follow"
    <2>1. FollowEdge(s).attempts \in Nat
      BY <1>2 DEF FollowEntries
    <2> QED BY <1>4, <1>5, <1>7, <1>8, <1>9, <2>1
  <1>11. /\ Transmit(request) /\ Count(s, request) /\ driving' \in BOOLEAN
         /\ request \in Requests \cup {"none"}
    BY <1>4, <1>7 DEF Requests
  <1>12. /\ follow' \in FollowEntries /\ follow'.active = s.visual
         /\ follow'.requested = follow.requested
         /\ offboard'.active = s.automation
    BY <1>2, <1>5, <1>9, <1>10
  <1>13. offboard'.requested =>
            offboard.requested \/ (deployment.legacy /\ (deployment.writer => request = "offboard"))
    BY <1>3, <1>5, <1>7, <1>9
  <1> QED
    BY <1>9, <1>10, <1>11, <1>12, <1>13, StreamingIteration

(* What the worker receives, and what happens to its link.                 *)
LEMMA ReceptionKeeps ==
  ASSUME IInv, Heartbeat \/ ParameterValues \/ RetryElapses \/ Connects
  PROVE  IInv'
  <1>1. UNCHANGED <<deployment, offboard, follow, asked, owed, holds, command, answer, px4Mode>>
    BY DEF Heartbeat, ParameterValues, RetryElapses, Connects, WorkerState, Outside
  <1>2. /\ lastMode' \in Modes \cup {"unknown"} /\ params' \in {"unknown", "valid", "invalid"}
        /\ connected' \in BOOLEAN /\ retryElapsed' \in BOOLEAN /\ driving' \in BOOLEAN
    BY DEF Heartbeat, ParameterValues, RetryElapses, Connects, WorkerState, Outside,
           IInv, TypeOK
  <1>3. TypeOK'
    BY <1>1, <1>2 DEF IInv, TypeOK
  <1> QED
    BY <1>1, <1>3 DEF IInv, AttemptsCoverRequests, CompanionRunsAlone, RequestsAreOwed

LEMMA AcknowledgementKeeps ==
  ASSUME IInv, Acknowledgement
  PROVE  IInv'
  <1>1. follow \in FollowEntries /\ answer \in {"accepted", "rejected"}
    BY DEF IInv, TypeOK, Acknowledgement
  <1>2. /\ follow' \in FollowEntries /\ follow'.attempts = follow.attempts
        /\ follow'.active = follow.active /\ follow'.requested = follow.requested
    <2>1. CASE follow' = [follow EXCEPT !.exitPending = FALSE]
      BY <1>1, <2>1 DEF FollowEntries
    <2>2. CASE follow' = [follow EXCEPT !.modeAck = answer,
                                        !.blocked = @ \/ answer = "rejected"]
      <3> DEFINE blocked == follow.blocked \/ answer = "rejected"
                 q == [follow EXCEPT !.modeAck = answer]
      <3>1. blocked \in BOOLEAN
        BY <1>1 DEF FollowEntries
      <3>2. follow' = [q EXCEPT !.blocked = blocked]
        BY <1>1, <2>2 DEF FollowEntries
      <3> HIDE DEF blocked
      <3>3. /\ q \in FollowEntries /\ q.attempts = follow.attempts
            /\ q.active = follow.active /\ q.requested = follow.requested
        BY <1>1 DEF FollowEntries
      <3> HIDE DEF q
      <3> QED BY <3>1, <3>2, <3>3 DEF FollowEntries
    <2>3. CASE follow' = follow
      BY <1>1, <2>3
    <2> QED BY <2>1, <2>2, <2>3 DEF Acknowledgement
  <1>3. TypeOK'
    BY <1>2 DEF IInv, TypeOK, Acknowledgement
  <1> QED
    BY <1>2, <1>3 DEF IInv, AttemptsCoverRequests, CompanionRunsAlone, RequestsAreOwed,
                      Acknowledgement

LEMMA LinkKeeps ==
  ASSUME IInv, LinkFails \/ ConnectFails
  PROVE  IInv'
  <1>1. /\ RequestPosition(offboard, follow)
        /\ offboard \in OffboardEntries /\ follow \in FollowEntries /\ TypeOK
    BY DEF LinkFails, ConnectFails, IInv, TypeOK
  <1>2. /\ offboard' \in OffboardEntries /\ follow' \in FollowEntries
        /\ retryElapsed' \in BOOLEAN /\ owed' \in BOOLEAN
        /\ offboard'.attempts = offboard.attempts /\ offboard'.active = offboard.active
        /\ follow'.attempts = follow.attempts /\ follow'.active = follow.active
        /\ offboard'.requested => offboard.requested /\ owed' = owed
        /\ follow'.requested => follow.requested /\ owed' = owed
        /\ command' = command \/ command' = "position"
    BY <1>1, RecoveryFacts
  <1>3. /\ UNCHANGED <<deployment, px4Mode, holds, lastMode, params, asked>>
        /\ connected' \in BOOLEAN /\ answer' \in {"none", "accepted", "rejected"}
        /\ driving' \in BOOLEAN
    BY <1>1 DEF LinkFails, ConnectFails, Outside, TypeOK
  <1>4. TypeOK'
    BY <1>1, <1>2, <1>3 DEF TypeOK, Requests
  <1> QED
    BY <1>2, <1>3, <1>4 DEF IInv, AttemptsCoverRequests, CompanionRunsAlone, RequestsAreOwed

(* PX4, its pilot and the companion.                                       *)
LEMMA OutsideKeeps ==
  ASSUME IInv, Obey \/ Refuse \/ Pilot \/ CompanionTakes \/ CompanionYields
  PROVE  IInv'
  <1> USE ModeEntryAssumption
  <1>1. /\ UNCHANGED <<deployment, connected, lastMode, retryElapsed, offboard, follow,
                       params, driving, asked, owed>>
        /\ holds' \in BOOLEAN /\ (holds' => holds \/ deployment.companion)
        /\ px4Mode' \in Modes /\ command' \in Requests \cup {"none"}
        /\ answer' \in {"none", "accepted", "rejected"}
    <2>1. /\ command \in Requests \cup {"none"} /\ (command # "none" => command \in Modes)
          /\ px4Mode \in Modes /\ answer \in {"none", "accepted", "rejected"}
          /\ holds \in BOOLEAN
      BY DEF IInv, TypeOK, Requests, Modes
    <2>2. CASE Obey
      BY <2>1, <2>2 DEF Obey, Bridge, WorkerState
    <2>3. CASE Refuse
      BY <2>1, <2>3 DEF Refuse, Bridge, WorkerState
    <2>4. CASE Pilot
      BY <2>1, <2>4 DEF Pilot, Bridge, WorkerState
    <2>5. CASE CompanionTakes
      BY <2>1, <2>5 DEF CompanionTakes, Modes
    <2>6. CASE CompanionYields
      BY <2>1, <2>6 DEF CompanionYields
    <2> QED BY <2>2, <2>3, <2>4, <2>5, <2>6
  <1>2. TypeOK'
    BY <1>1 DEF IInv, TypeOK
  <1> QED
    BY <1>1, <1>2 DEF IInv, AttemptsCoverRequests, CompanionRunsAlone, RequestsAreOwed

LEMMA InitEstablishes == Init => IInv
  <1> SUFFICES ASSUME Init PROVE IInv
    OBVIOUS
  <1> USE ModeEntryAssumption
  <1>1. deployment \in Deployments
    BY DEF Init, Deployments
  <1>2. /\ 0 \in 0 .. PrestreamFrames /\ 0 \in 0 .. SettleFrames /\ 0 \in 0 .. MaxAttempts
    OBVIOUS
  <1>3. offboard \in OffboardEntries /\ follow \in FollowEntries
    BY <1>2 DEF Init, OffboardEntries, FollowEntries
  <1>4. TypeOK
    BY <1>1, <1>3 DEF Init, TypeOK, Modes
  <1> QED
    BY <1>4 DEF Init, IInv, AttemptsCoverRequests, CompanionRunsAlone, RequestsAreOwed

LEMMA NextKeeps == IInv /\ [Next]_vars => IInv'
  <1> SUFFICES ASSUME IInv, [Next]_vars PROVE IInv'
    OBVIOUS
  <1>1. CASE Iterate
    <2>1. PICK s \in Readable(deployment) :
             \/ Manual(s) \/ FollowParameters(s) \/ FollowTarget(s) \/ FollowBlocked(s)
             \/ AttitudeRelease(s) \/ Attitude(s) \/ Velocity(s) \/ Idle(s)
      BY <1>1 DEF Iterate
    <2>2. UNCHANGED <<Outside, params>>
      BY <1>1 DEF Iterate
    <2> QED
      BY <2>1, <2>2, ManualKeeps, FollowParametersKeeps, FollowTargetKeeps,
         AttitudeKeeps, VelocityKeeps
  <1>2. CASE UNCHANGED vars
    BY <1>2 DEF vars, IInv, TypeOK, AttemptsCoverRequests, CompanionRunsAlone, RequestsAreOwed
  <1> QED
    BY <1>1, <1>2, ReceptionKeeps, AcknowledgementKeeps, LinkKeeps, OutsideKeeps DEF Next

LEMMA InvariantHolds == Spec => []IInv
  BY InitEstablishes, NextKeeps, PTL DEF Spec

(* Every variable keeps its type, whatever the limits and configurations.  *)
THEOREM TypeCorrect == Spec => []TypeOK
  BY InvariantHolds, PTL DEF IInv

(* Whatever the limit, the Follow and velocity entries respect it: no       *)
(* takeover, lost answer or reconnection gives attempts back to an input    *)
(* that has not been inactive.                                              *)
THEOREM EntriesAreBounded == Spec => []EntryIsBounded
  <1>1. IInv => EntryIsBounded
    BY ModeEntryAssumption
       DEF IInv, TypeOK, OffboardEntries, FollowEntries, AttemptsCoverRequests, EntryIsBounded
  <1> QED BY <1>1, InvariantHolds, PTL

(* What an iteration may put on the wire.                                  *)
LEMMA IterationRequests ==
  ASSUME IInv, Iterate
  PROVE  \/ command' = command
         \/ /\ command' = "position"
            /\ offboard.requested \/ follow.requested \/ Undriven
         \/ command' = "follow" /\ deployment.native
         \/ command' = "offboard" /\ deployment.writer
  <1>1. PICK s \in Readable(deployment) :
           \/ Manual(s) \/ FollowParameters(s) \/ FollowTarget(s) \/ FollowBlocked(s)
           \/ AttitudeRelease(s) \/ Attitude(s) \/ Velocity(s) \/ Idle(s)
    BY DEF Iterate
  <1>2. s \in Inputs /\ TypeOK
    BY DEF Readable, IInv
  <1>3. /\ OffboardEdge(s) \in OffboardEntries /\ FollowEdge(s) \in FollowEntries
        /\ OffboardEdge(s).requested = offboard.requested
        /\ FollowEdge(s).requested = follow.requested
    BY <1>2, EdgeFacts
  <1>4. CASE Manual(s) \/ FollowBlocked(s) \/ AttitudeRelease(s) \/ Idle(s)
    <2>1. RequestPosition(OffboardEdge(s), FollowEdge(s))
      BY <1>4 DEF Manual, FollowBlocked, AttitudeRelease, Idle
    <2> QED BY <1>2, <1>3, <2>1, RecoveryFacts
  <1>5. CASE FollowParameters(s)
    <2>1. CASE Transmit("none")
      BY <2>1 DEF Transmit
    <2>2. CASE RequestPosition(OffboardEdge(s), [FollowEdge(s) EXCEPT !.blocked = TRUE])
      <3> DEFINE f == [FollowEdge(s) EXCEPT !.blocked = TRUE]
      <3>1. f \in FollowEntries /\ f.requested = follow.requested
        BY <1>3 DEF FollowEntries
      <3> QED BY <1>2, <1>3, <2>2, <3>1, RecoveryFacts
    <2> QED BY <1>5, <2>1, <2>2 DEF FollowParameters
  <1>6. CASE FollowTarget(s)
    BY <1>6 DEF FollowTarget, Transmit, AsksForFollow
  <1>7. CASE Attitude(s)
    BY <1>7 DEF Attitude, Transmit, OffboardRequest
  <1>8. CASE Velocity(s)
    BY <1>8 DEF Velocity, Transmit, OffboardRequest
  <1> QED BY <1>1, <1>4, <1>5, <1>6, <1>7, <1>8

(* Any other step leaves the wire alone, takes the request off it, or      *)
(* recovers a lost link.                                                   *)
LEMMA StepRequests ==
  ASSUME IInv, [Next]_vars
  PROVE  \/ command' \in {"none", command}
         \/ /\ command' = "position"
            /\ offboard.requested \/ follow.requested \/ Undriven
         \/ command' = "follow" /\ deployment.native
         \/ command' = "offboard" /\ deployment.writer
  <1>1. CASE Iterate
    BY <1>1, IterationRequests
  <1>2. CASE LinkFails \/ ConnectFails
    <2>1. /\ RequestPosition(offboard, follow) /\ TypeOK
          /\ offboard \in OffboardEntries /\ follow \in FollowEntries
      BY <1>2 DEF LinkFails, ConnectFails, IInv, TypeOK
    <2> QED BY <2>1, RecoveryFacts
  <1>3. CASE \/ Heartbeat \/ Acknowledgement \/ ParameterValues \/ RetryElapses \/ Connects
             \/ Pilot \/ CompanionTakes \/ CompanionYields
    BY <1>3 DEF Heartbeat, Acknowledgement, ParameterValues, RetryElapses, Connects,
                Pilot, CompanionTakes, CompanionYields
  <1>4. CASE Obey \/ Refuse
    BY <1>4 DEF Obey, Refuse
  <1>5. CASE UNCHANGED vars
    BY <1>5 DEF vars
  <1> QED BY <1>1, <1>2, <1>3, <1>4, <1>5 DEF Next

(* Whatever its inputs, the legacy loop requests nothing while the         *)
(* companion flies OFFBOARD and the worker sees it.                        *)
THEOREM CompanionFliesAlone == Spec => CompanionIsAlone
  <1>1. IInv /\ [Next]_vars
          => [(holds /\ lastMode = "offboard") => command' \in {"none", command}]_vars
    <2> SUFFICES ASSUME IInv, [Next]_vars, holds, lastMode = "offboard"
                 PROVE  command' \in {"none", command}
      OBVIOUS
    <2>1. ~ offboard.requested /\ ~ follow.requested /\ deployment.companion
      BY DEF IInv, CompanionRunsAlone
    <2>2. ~ deployment.native /\ ~ deployment.writer
      BY <2>1, CompanionExcludesLegacy DEF IInv, TypeOK
    <2> QED BY <2>1, <2>2, StepRequests DEF Undriven
  <1> QED BY <1>1, InvariantHolds, PTL DEF Spec, CompanionIsAlone

(* Wherever accepted legacy inputs come with the writer's permission, the  *)
(* bridge asks for Position only to leave a mode it asked for or saw.      *)
THEOREM RecoveryHasAReason == Spec => RecoveryIsOwed
  <1>1. IInv /\ [Next]_vars
          => [ (/\ deployment.legacy => deployment.writer
                /\ command' = "position" /\ command # "position")
               => owed \/ lastMode \in {"offboard", "follow"} ]_vars
    BY StepRequests DEF IInv, RequestsAreOwed, Undriven
  <1> QED BY <1>1, InvariantHolds, PTL DEF Spec, RecoveryIsOwed

-----------------------------------------------------------------------------
(***************************************************************************)
(* The interlock over the whole life of a process: a request for an        *)
(* automatic mode is under way only where the configuration permits its    *)
(* writer, and where the companion may fly no such request is ever under   *)
(* way, whether or not the worker has seen the companion take over.        *)
(***************************************************************************)
RequestsArePermitted ==
  /\ command = "offboard" => deployment.writer
  /\ command = "follow" => deployment.native

OneMaster ==
  /\ RequestsArePermitted
  /\ holds => deployment.companion
  /\ deployment.companion => command \in {"none", "position"}

(* A process keeps the configuration it was started with. *)
LEMMA DeploymentIsFixed == [Next]_vars => deployment' = deployment
  <1>1. Iterate => deployment' = deployment
    BY DEF Iterate, Outside
  <1>2. Heartbeat \/ Acknowledgement \/ ParameterValues \/ RetryElapses
          => deployment' = deployment
    BY DEF Heartbeat, Acknowledgement, ParameterValues, RetryElapses, Outside
  <1>3. LinkFails \/ ConnectFails \/ Connects => deployment' = deployment
    BY DEF LinkFails, ConnectFails, Connects, Outside
  <1>4. Obey \/ Refuse \/ Pilot \/ CompanionTakes \/ CompanionYields
          => deployment' = deployment
    BY DEF Obey, Refuse, Pilot, CompanionTakes, CompanionYields, Bridge
  <1> QED BY <1>1, <1>2, <1>3, <1>4 DEF Next, vars

(* No process ever has two writers of PX4's mode in play (OneMaster), in any *)
(* environment it can be started with and for every interleaving.           *)
THEOREM OneMasterOnly == Spec => []OneMaster
  <1>1. Init => RequestsArePermitted
    BY DEF Init, RequestsArePermitted
  <1>2. IInv /\ RequestsArePermitted /\ [Next]_vars => RequestsArePermitted'
    BY StepRequests, DeploymentIsFixed DEF RequestsArePermitted
  <1>3. Spec => []RequestsArePermitted
    BY <1>1, <1>2, InvariantHolds, PTL DEF Spec
  <1>4. IInv /\ RequestsArePermitted => OneMaster
    <2> SUFFICES ASSUME IInv, RequestsArePermitted PROVE OneMaster
      OBVIOUS
    <2>1. holds => deployment.companion
      BY DEF IInv, CompanionRunsAlone
    <2>2. deployment.companion => ~ deployment.writer /\ ~ deployment.native
      BY CompanionExcludesLegacy DEF IInv, TypeOK
    <2>3. command \in {"position", "offboard", "follow", "none"}
      BY DEF IInv, TypeOK, Requests
    <2> QED BY <2>1, <2>2, <2>3 DEF OneMaster, RequestsArePermitted
  <1> QED BY <1>3, <1>4, InvariantHolds, PTL

-----------------------------------------------------------------------------
(* How a mode nobody drives is left. That requests arrive and are obeyed in *)
(* the end is fairness and stays with TLC (AbandonedModeIsLeft).            *)

\* An iteration that serves no automatic input asks for nothing but Position,
\* and asks for it anew whenever the retry interval is over and the worker
\* still sees an automatic mode the companion does not fly.
AbandonedIsAsked ==
    Iterate /\ ~ driving' =>
      /\ command' \in {command, "position"}
      /\ lastMode \in {"offboard", "follow"} /\ ~ holds /\ retryElapsed
           => command' = "position" /\ ~ retryElapsed'

LEMMA RecoveryAsks ==
  ASSUME NEW o, NEW f, RequestPosition(o, f), connected
  PROVE  /\ command' \in {command, "position"}
         /\ lastMode \in {"offboard", "follow"} /\ ~ holds /\ retryElapsed
              => command' = "position" /\ ~ retryElapsed'
  <1> DEFINE leaves == /\ o.requested \/ f.requested \/ Undriven
                       /\ o.requested \/ retryElapsed
  <1>1. Transmit(PositionRequest(leaves /\ connected))
    BY DEF RequestPosition
  <1>2. lastMode \in {"offboard", "follow"} /\ ~ holds /\ retryElapsed => leaves
    BY DEF Undriven
  <1> HIDE DEF leaves
  <1> QED BY <1>1, <1>2 DEF Transmit, PositionRequest

\* Every branch of the arbitration chain that drives nothing recovers, so an
\* abandoned mode is asked to end at every interval, in every configuration
\* and whatever was lost, refused or forgotten before (the step behind
\* AbandonedModeIsLeft).
THEOREM AbandonedKeepsAsking == Spec => [][AbandonedIsAsked]_vars
  <1>1. ASSUME Iterate, ~ driving'
        PROVE  \E o, f : RequestPosition(o, f)
    <2>1. PICK s \in Readable(deployment) :
             \/ Manual(s) \/ FollowParameters(s) \/ FollowTarget(s) \/ FollowBlocked(s)
             \/ AttitudeRelease(s) \/ Attitude(s) \/ Velocity(s) \/ Idle(s)
      BY <1>1 DEF Iterate
    <2>2. ~ (FollowTarget(s) \/ Attitude(s) \/ Velocity(s))
      BY <1>1 DEF FollowTarget, Attitude, Velocity
    <2>3. CASE Manual(s) \/ FollowBlocked(s) \/ AttitudeRelease(s) \/ Idle(s)
      BY <2>3 DEF Manual, FollowBlocked, AttitudeRelease, Idle
    <2>4. CASE FollowParameters(s)
      BY <1>1, <2>4 DEF FollowParameters
    <2> QED BY <2>1, <2>2, <2>3, <2>4
  <1>2. AbandonedIsAsked
    BY <1>1, RecoveryAsks DEF AbandonedIsAsked, Iterate
  <1> QED BY <1>2, PTL DEF Spec
=============================================================================
