# Swarm UAV dashboard: TLA+ models, model checking and proofs

The repository is a dashboard and a control stack for two PX4 vehicles in
simulation. This directory holds TLA+ modules for the part of it that decides
what a flying vehicle is told, TLC configurations that check them on small
instances, and TLAPS proofs for every value of the constants. `PROJECT.json`
lists the components, the runs, the source lines behind every definition, the
mutants, the hazards, the findings and the theorems.

To check a module by hand:

    tlc -workers 2 -config EmergencyLadder.cfg EmergencySupervisor
    tlapm EmergencySupervisorProofs.tla

## 1. The system

    operator --HTTP/WS--> main.py --MQTT--> mavlink_manual_bridge.py --MAVLink--> PX4 x 2
                            |                  | one worker thread per vehicle
                    tracking_web.py            |   companion_safety.evaluate, 20 Hz
                    (camera, range)            |     gate -> coordinator -> supervisor
                                               |   preview -> active sender -> wire
                                               | UDP receive thread: peer_state.py
                                               | main thread: liveness watchdog

One process, the bridge, talks to both autopilots. Its MQTT thread stores
commands, each worker drains its MAVLink link, evaluates one companion frame,
and runs the legacy control arbitration. The two workers share one object: the
conflict coordinator of the pair. The peer link is meant for one companion per
vehicle and runs over UDP even when both are in one process.

| Component | Source | State | Operations | Talks to |
|---|---|---|---|---|
| Emergency supervisor | `emergency_supervisor.py` | rung, instant of entry, start of the feasible streak | `evaluate`, once per frame | reads the gate's verdict; its rung reaches the preview and the sender |
| Abort matrix, conditions | `one_uav_active_readiness.py`, `offboard_abort_conditions.py` | none | derive the reported conditions, pick the action | worker to sender |
| Active OFFBOARD sender | `active_offboard_setpoint_sender.py`, `offboard_setpoint_sender.py` | abort latch, record of its own transmissions | `step`; rebuilt by the worker | writes to PX4; the start gate reads its record |
| Mission execution | `mavlink_manual_bridge.py`, `companion_safety.py`, `mission_plan.py` | inbox, five mission flags, installed plan, lap clock, last seen mode and armed flag | submit, start, stop, install, prepare, act, retry, abort, acknowledgements | operator, sender, PX4 |
| Conflict coordinator | `conflict_coordinator.py`, `cbf_rl_shadow.py` | shared encounter: number, right of way, counts, suppression, lane change | `filter`, `reset`, refusal | both workers, under one lock |
| Peer state | `peer_state.py`, `FastPoseCache` | sequence number, per-peer registry | `publish`, `ingest`, `snapshot` | UDP, gate |
| CBF gate, policy | `cbf_command_gate.py`, `cbf_rl_policy.py` | last command | `filter` | own and peer states |
| OFFBOARD authority | `offboard_authority.py` | none (the environment) | `resolve_authority` | both writers |
| Input states | `mavlink_manual_bridge.py` | six input states with timeouts, the attitude release | `update`, `disable`, `output`, `finish_release` | MQTT thread writes, worker reads |
| Legacy arbitration, mode entry | `mavlink_manual_bridge.py`, `visual_follow_target.py` | prestream, settling and request counters, Position recovery | the arbitration chain of `run_connected`, `request_position_mode`, acknowledgements | input states, PX4 |
| Liveness watchdog | `worker_liveness_watchdog.py` | last reported state per worker | `poll` | reads worker timestamps |
| Follow workflow | `follow_workflow.py`, `tracking_web.py` | state, authorization, estimate, graces, the frame in flight | selection, authorization, frames, pointing, boundaries, HOLD | operator, depth worker, bridge over MQTT |
| Depth worker | `depth_worker.py` | one pending job, one result, a generation | `submit`, `latest`, `reset`, `stop` | range estimation |
| Dashboard, tracking, range estimation, control laws | `main.py`, `tracking_web.py`, and the modules they import | caches, filters | HTTP, WebSocket, numerical code | everything |
| Offline scripts | `core_range_*`, `range_*`, `cbf_rl_*`, flight drivers | files | run by hand | not part of the running system |

What is hard here:

* **Ordering inside a frame.** Install, prepare, evaluate, step, start gate,
  abort and retry happen in one fixed order, and each reads what the one before
  it left. A start can be accepted in the frame that aborts it.
* **Interleaving.** The MQTT thread writes the inbox at any moment of a frame.
  Two workers run the coordinator in any order and at different rates.
* **A lossy link and a second master.** Mode commands and acknowledgements are
  lost or late, PX4 may refuse or fail over on its own, the pilot may switch.
* **Latches, dwells and streaks.** Most decisions compare `now` with an instant
  stored many frames ago, and frames come at uneven spacing, with restarts.
* **State written one piece at a time.** The MQTT thread disables up to six
  input states, each under its own lock, while the worker reads them in turn.
* **Work in flight.** The frame worker lets go of its lock while the tracker
  runs; a new selection, a restart or a stop may overtake the frame.
* **Freshness.** Sequence numbers restart, datagrams overtake each other, and
  ages are counted from reception.

What makes the parts correct is listed with the modules below; the hazards,
each at its line, are in `PROJECT.json`.

## 2. The modules

A module's header says which code it models. Time is in ticks. Where the code
keeps an instant and compares differences, the models keep the difference,
saturated above the largest value a comparison can tell apart.

### EmergencySupervisor, FallbackLadder

`EmergencySupervisor` is the whole of `evaluate`: one step per frame, with the
verdict of the gate, the validity of the own state and the spacing of the frame
chosen freely. `stage`, `stageAge` and `feasibleAge` are the three fields of the
class; `decision` is what the frame returned, `"raised"` when the assertion in
`_decision` failed. After a raise the worker sleeps, so the next frame comes
after `RestartDelay`. Three history variables remember how long the fault lasts,
how long the present run of infeasible frames is, and when the last of them was;
a fourth flips at every frame. `FallbackLadder` is the abstract
promise: one rung up, over the one rung that may be unflyable, and down only to
NORMAL.

### ActiveSender, AbortMatrix, SenderContract

One step per frame: derive the conditions, perhaps rebuild a latched sender,
then `step`. The observations of a frame are a record constrained to what one
frame can see together (a gate without own state holds, for example).
`stream` is the sender's own record of its transmissions, on which the start
gate relies; `wire` is what PX4 really received. `AbortMatrix` holds the
fourteen rules in the order in which they are resolved. `SenderContract` says what
a frame comes to for a mission: given what the safety layer found (`Findings`) and
what the frame knows of mission and vehicle (`Views`), whether the sender is
latched afterwards, carries an abort, what it transmits and whether PX4 is asked
for Position. Two history variables, `view` and `told`, keep what the last frame
knew, so that `HonoursContract` can compare the frame with the contract.

### MissionExecution, MissionLifecycle

A frame is two steps, `EvaluateFrame` and `ActOnFrame`, because the MQTT thread
can write the inbox between taking the payload and taking the action. PX4, the
link and the pilot act between frames, where the worker drains messages: they
touch only the ends of the link, so acting inside a frame would lead to the same
states. `CrashFrame` is a frame whose evaluation raises. Each stage of a frame is
an operator on the mission record (`AfterInstall`, `AfterPrepare`, `AfterAction`,
`AfterAbort`, `AfterRetry`), applied in the order of the code. Of the
sender it keeps only the latch, and knows it by the operators of `SenderContract`;
`Situations` are those of the contract's findings that a run lets a frame have. `MissionLifecycle` is what the operator
may rely on.

### ConflictCoordinator

A call of `filter` holds the lock and is one step that chains the five edits the
code makes: `Rearm`, `Lapse`, `Latch`, `CountRelease`, `Maneuver`. The two
vehicles may see different geometry, because each predicts the conflict with its
own mission velocity. `StandDown` is the `reset()` of an evaluation that is not
applied; `Refuse` is one that fails before the coordinator. All eight
combinations of the configuration switches are initial states.

### PeerState, MCPeerState

An iteration of the publisher's worker begins with the reading of the clock
(`IterationStarts`, `loop_started`), takes in telemetry, and ends with at most one
packet. `Publish` judges the age of the streams and the period as of that reading,
although it happens up to `MaxIteration` later; it sends to the endpoints in order,
stops at the first failure, and takes the next number only after a complete send.
The network loses, repeats, delays and reorders. The registry of
each peer ingests, and `snapshot` judges freshness as of the reader's own
`loop_started`, again some time ago (`late`). Every packet also carries the age of
its sample since the publisher's worker took it in, which no peer knows.
`MCPeerState` gives the endpoints.

### OffboardAuthority

Which environments a process can be started with, and which writer of the
OFFBOARD stream `resolve_authority` permits in each. `Deployments` is what a
running bridge can tell of its environment; `ModeEntry` starts from it.

### InputReadings, InputArbitration

`InputReadings` is the interface of the next two modules: what one iteration of
the worker learns from the input states, and which of it a deployment can bring.

`InputArbitration` models the input states themselves. The MQTT thread handles
one message at a time: it disables the states on the message's list in the code's
order (`Cancel`, one step each) and then updates the state the message is for
(`Update`). The worker takes its seven snapshots one at a time (`Read`) and then
serves one source (`Act`, `Serves`). A timeout (`Expire`, `AttitudeExpires`) and a
heartbeat that shows Position (`PositionSeen`, which finishes a release) come in
between. `attitude` has five phases, because a command that times out is not off:
`output()` itself notices it and starts the release, from the worker's side.
`revoked` and `barred` are history: what was ended, by a rule stated from the
handler's comments (`Rivals`) and not from its lists, and what of it was ended
before the present iteration began.

### ModeEntry, MCModeEntry

The worker's iteration from there on: the arbitration chain, the entry into
OFFBOARD and into Follow Target (parameters, prestream, settling, requests,
retries, the blocked entry), the Position recovery `request_position_mode`, the
acknowledgements, a link that fails and reconnects, PX4 that obeys, refuses or
loses a request, the pilot, and the companion that takes OFFBOARD and yields it.
One iteration is one step that takes any reading of `InputReadings`.
`MCModeEntry` picks three deployments, one for each writer.

### FollowWorkflow

The workflow of the dashboard's Visual Follow, as `TrackingManager` drives it.
Operator requests (`StartTracking`, `Select`, `Authorize`, `Disable`,
`StopTracking`), a frame in two steps (`Capture` under the lock, then the tracker
without it, then one of the outcomes under the lock again), the pointing updates
and the failure of the depth model are actions; each estimator's verdict is a free
input. The four timers are `off`, `running`, `elapsed`. Two facts of the code that
the model shows and a reader may not expect: `RGB_BOOTSTRAP` ends at its first
used frame, because the reason it is given is none of the expected geometry
reasons; `PRESTREAMING_TARGET` and `FOLLOWING` have no deadline.

## 3. The runs

| Run | Expect | What it shows |
|---|---|---|
| `emergency_ladder` | pass | paced and timely escalation, confirmed recovery, isolated crashes, refinement of the ladder, recovery in the end |
| `emergency_altitude_assertion` | violation | the assertion of line 271 fails when the own state is lost on the rung |
| `active_sender` | pass | a latched sender is silent, start evidence is real, every frame does what the contract tells the mission |
| `mission_execution` | pass | flags agree, a latch ends an execution, requests are wanted, refinement of the life cycle |
| `mission_liveness` | pass | an entry is resolved, a latched vehicle leaves OFFBOARD |
| `mission_aborted` | violation | a start aborted in its own frame still flies the lap |
| `conflict_coordinator` | pass | opposite roles, right of way held, release confirmed, lane change owned and kept, suppression lifted |
| `conflict_stand_down` | violation | one vehicle's `reset()` swaps the right of way in mid-encounter |
| `peer_state` | pass | bounded unpriced age, no step back to an older sample |
| `input_arbitration` | pass | what a human, a rival, a stop, a timeout or a lost broker ended is not served by an iteration that begins afterwards |
| `mode_entry` | pass | bounded requests, the companion flies alone, Position only where it is owed, an abandoned mode is left |
| `follow_workflow` | pass | FOLLOWING was confirmed, only frames of the selected target count, HOLD is terminal, an attempt is decided |

Every property of a passing run is broken by at least one mutant of a mapped
definition. The three violations are disagreements between the code and a
comment, docstring or assertion; `PROJECT.json` quotes each.

### Bounds, and why they are enough

* `emergency_ladder`: dwell 8, confirmation 2, frames up to 2 apart, restart 8.
  The code has 2 s, 0.5 s, 50 ms and at least 2 s: the order and the quotient of
  dwell and confirmation are kept, and a dwell spans several frames of uneven
  spacing. The separation altitude is flyable; the run passes over the rung by
  losing the own state. The proofs cover an unflyable altitude.
* `active_sender`: gap 2, stale after 3, frames up to 4 apart, 3 ticks and 3
  samples of warmup. Frames fall in each class: in time, a gap, a stopped loop,
  and a warmup needs several frames.
* `mission_*`: one drawing, two attempts (the code: 3), a retry after two frames
  (one in `mission_liveness`), setpoint loss after one, one command and one
  acknowledgement under way. With two attempts there is a first, a retry and an
  exhausted limit. One message in flight is enough for it to be late, lost, or to
  belong to the request before; a second one is dropped as if lost, which the
  link may do anyway. Nothing depends on which drawing it is.
  `mission_liveness` leaves out stops, the pilot's mode switch and two of the
  situations.
* `conflict_coordinator`: two frames and two observations per frame, that is a
  threshold of four (the code: 20), and two encounters, one for each owner. The
  bound on encounters stops a third from beginning; nothing else is cut off.
* `peer_state`: two peers; budget, period, delay and iteration of one tick each,
  two numbers, two datagrams. Two endpoints are needed for a partial send, two
  numbers and two datagrams to one peer for one to overtake the other, and a
  restart begins the numbers anew. With one tick a sample, a packet and a reader
  can each be in time or late; the proofs cover the other values.
* `input_arbitration`: no bound; both flags on, so that all six inputs are
  accepted. Values are reduced to whether a message drives, and the proofs cover
  the other settings of the flags.
* `mode_entry`: one prestream frame, one settling frame, two attempts (the code:
  10, 6 and 3): each counter has a below and an at its limit, and there is a first
  request, a retry and an exhausted limit. The pilot chooses Position or another
  mode. One request and one answer are under way; a later request replaces one
  that is late, which then counts as lost.
* `follow_workflow`: a rejected box is held for two frames (the code: 3), so a box
  can be held, held again and dropped. Nothing else is counted. The legacy
  automation flag is on, so that a Follow can also be authorized while the range is
  still being acquired.

### Fairness

* `EmergencySupervisor`: weak fairness of the frame. The worker loop has no exit
  but shutdown, and a frame that raised is retried after a fixed pause. Only
  `PersistentFeasibilityRecovers` needs it: that escalation comes in time is a
  safety property here, because every frame says how much time it takes.
* `MissionExecution`: weak fairness of the worker's frame, for the same reason,
  and strong fairness of PX4's setpoint failsafe. The failsafe runs on PX4's own
  clock; strong rather than weak only because the model lets PX4 act between
  frames alone, so that its step is disabled now and then. Nothing is assumed of
  the link, the pilot, the operator or the acknowledgements.
* `ConflictCoordinator`: weak fairness of filtering by one of the two vehicles.
  At least one worker goes on evaluating a vehicle that flies.
* `ModeEntry`: weak fairness of the worker's iteration, of PX4's heartbeats and of
  the retry interval, all of which recur by themselves; strong fairness of PX4
  obeying a Position request that keeps being sent. No other request need be
  obeyed, and no acknowledgement need arrive.
* `FollowWorkflow`: weak fairness of the frame worker (`Capture`, `Finish`) and of
  the clocks. Nothing is assumed of the operator, of PX4's confirmation or of any
  estimate.

## 4. What is proved

The proof modules have a theorem for every safety property and refinement the
passing runs check, for all constants that satisfy the module's named
assumptions.

| Module | Theorems | The inductive invariant |
|---|---|---|
| `EmergencySupervisorProofs` | `TypeCorrect`, `Paced`, `Timely`, `Confirmed`, `CommandMeansCalm`, `Refinement`, `CrashIsolated`, `RecoveryMeasured` | `PacedByAge`: the time on the present rung comes on top of the dwell of all below it; `TimelyByAge`: a run of infeasible frames is at most the latest arrival at its rung plus the age of the rung, and `RaisedOnAltitude`, which charges the restart pause to the one rung that can raise; `StreakIsCalm`: the streak is never longer than the true calm; `NormalIsCalm`, `CommandOnNormal`. Neither `EscalationIsPaced` nor `EscalationIsTimely` is inductive alone: they do not know how long the present rung has lasted |
| `ActiveSenderProofs` | `TypeCorrect`, `LatchSilences`, `EvidenceIsReal`, `RebuildIsStill`, `ContractHonoured`, `CommandsAreJustified` | `RecordIsHonest`: the record of the sender describes a run of the wire as long as no gap was recorded; `SentNow` and `LatchedIsSilent` tie the frame's record to the latch. `ContractHonoured` goes through the fourteen rules once, by which of them can be first (`FirstCondition`), and then through the findings |
| `MissionExecutionProofs` | `TypeCorrect`, `FlagsCoherent`, `LatchEnds`, `RequestsWanted`, `Refinement`, `MissionViews`, `EntryMeasured`, `SilenceMeasured` | `AbortPending`: inside a frame a latched sender may go with a running mission, but then the frame carries an abort condition and its second half acts on it |
| `ConflictCoordinatorProofs` | `TypeCorrect`, `RolesDiffer`, `LaneChangeOwned`, `HeldUntilEased`, `ReleaseConfirmed`, `LaneChangeKept`, `SuppressionMeasured` | `Turns`: the right of way is a function of the encounter's number, so two reports of one encounter cannot agree on it; `Counted`: the shared count is never above the true row of releasing observations; `Vacancy`: the right of way is vacant only after the conflict eased or a vehicle stood down; `QuietIsCounted`: a suppression still standing has not yet counted its last quiet observation |
| `PeerStateProofs` | `TypeCorrect`, `UnpricedAgeBounded`, `NewestKept`, `Refused` | `NumbersOrder` and `SourceIsNewest`: numbers and ages order the samples alike, and what may be published is no older than anything published; `AcceptableIsNewer`: what a peer would accept is no older than what it has |
| `InputArbitrationProofs` | `TypeCorrect`, `NothingRevokedIsServed`, `ReadingsAreReadable` | `HandlerDisables`: what the handler has disabled stays off until its last step; `Entitled`: what drives or releases was not revoked; `ReadIsNotBarred`: nothing becomes barred during an iteration, so what was read stays servable. `OnlyAccepted`: nothing legacy is anywhere unless its flag is on |
| `ModeEntryProofs` | `TypeCorrect`, `EntriesAreBounded`, `CompanionFliesAlone`, `OneMasterOnly`, `RecoveryHasAReason`, `AbandonedKeepsAsking` | `AttemptsCoverRequests`: the history of requests never exceeds the code's counter; `CompanionRunsAlone`: a companion may only hold OFFBOARD in a configuration where neither legacy entry has a request out; `RequestsAreOwed`: a request that is remembered was sent, in every configuration that permits the writer of its inputs; `RequestsArePermitted`: a request out was permitted by the process's own configuration |
| `FollowWorkflowProofs` | `TypeCorrect`, `FollowingConfirmed`, `TargetsAreSelected`, `HoldsAreTerminal`, `LossTimed` | `FramesHaveTheirTarget` and "no foreign frame was used" tie a frame in flight to the selection; `AuthorizationHasItsState`: an authorization implies a tracked target and an authorized state; `NothingMoves`: no motion in HOLD; `DegradedIsTimed`: a degraded Follow has its deadline |

### Where the modules meet

`ReadingsAreReadable` joins two modules: `ModeEntry` is checked and proved for
every reading in `Readable`, and the theorem says that the input states produce no
other. It is proved only, on top of the checked invariants.

`ActiveSender` and `MissionExecution` meet in `SenderContract`, in both directions.
`MissionExecution` is checked and proved with a sender that is the contract;
`ContractHonoured` proves that the sender of `ActiveSender`, with its fourteen
conditions and any coincidence of them, does in every frame what the contract says
for one of the findings that frame may be classed as. The other way, `ActiveSender`
takes for granted that a frame shows never both of the mission's conditions, and
either only on an armed vehicle outside OFFBOARD; `MissionViews` proves that the
mission shows it nothing else. Its other premise, that a held gate keeps the ladder
off NORMAL, is discharged by `CommandMeansCalm` over `EmergencySupervisor`, in
which an infeasible frame is one whose gate is not active. `CommandsAreJustified`
then states what all of this comes to on the wire: a velocity is transmitted only
when own state, gate, rung, mission, mode, armed flag and command are in order in
that frame, and Position is asked for only on a recommending rung whose gate is
feasible again. So the zero of a held gate outranks the ladder's recommendations:
the highest rungs speak to PX4 only after the infeasibility is over and before the
ladder has recovered.

### Measures behind the liveness properties

Fairness and leads-to stay with TLC. For each liveness property the
safety part it rests on is proved for all constants (for `AttemptIsDecided` in
DEGRADED only): what is counted, that it counts at every relevant step, that nothing gives any of it back,
and where it ends. What then remains to fairness is that those steps keep coming.

| Liveness property (TLC) | Measure (proved) |
|---|---|
| `PersistentFeasibilityRecovers` | `RecoveryMeasured`: the streak of an emergency is below the confirmation time and every feasible frame adds its time |
| `EnteringResolves` | `EntryMeasured`: `attempts * RetryDelay + sinceRequest` grows by one in each frame that leaves an entry standing and is at most `(MaxAttempts + 1) * RetryDelay`; losses, answers, orders, pilot switches and crashes give none of it back |
| `LatchedFlightLeavesOffboard` | `SilenceMeasured`: from a latch on each evaluated frame adds to the silence PX4 sees, nothing breaks it, and once it is complete OFFBOARD does not come back |
| `SuppressionLifts` | `SuppressionMeasured`: `ReleaseFrames` quiet observations in a row, whoever makes them |
| `AbandonedModeIsLeft` | `AbandonedKeepsAsking`: each iteration that drives nothing asks anew as soon as the retry interval is over; a step, not a bound, because the link may lose every request |
| `AttemptIsDecided` | `LossTimed`, for DEGRADED: one deadline per loss, and the first judged frame after it decides |

Two bounds meet in `EmergencySupervisor`: `Paced` and `Timely` together enclose the
time at which an uninterrupted fault reaches each rung. `Refused` is of the same
kind, for a property that does not hold: after a restart of the publisher, or for
the endpoints before a failing one, a peer learns nothing new until its number is
passed.

### Assumptions and argument

The assumptions are those of the modules. The ones that carry weight:
`RestartDelay >= StageDwell` (the worker's pause of 2 s against a dwell of 2 s),
without which two frames in a row could raise; `MaxGap <= CommandAge` (0.25 s
against 0.5 s); and, in `PeerState`, a datagram that is under way for at most
`MaxDelay`, while a publisher that restarts takes longer than that, and an iteration
that reaches its packet, or its gate, within `MaxIteration`. These are statements
about the network and the machine and not about the code, which bounds neither:
`mavlink_manual_bridge.py:370` records iterations of 0.25 to 0.57 s, several times
the 0.1 s of `PEER_STATE_MAX_AGE_S`, so the iterations are the larger part of the
age that `UnpricedAgeIsBounded` allows.

The proofs follow one pattern: a lemma per stage of a frame or per action, a
lemma that the initial state and every step keep the strengthened invariant, and
a short temporal argument. Refinements map every step to an abstract step or a
stutter.

Only model-checked: the liveness properties (the prover has neither fairness nor
ENABLED), and the violations.

## 5. Not modelled, and why

* Real arithmetic: the control barrier filter, the learned policy, trajectories,
  formation, recentring, range estimation. Their verdicts are free inputs of the
  models, so the properties hold whatever they compute.
* Input and output: HTTP, WebSocket, Gazebo, log files, the browser.
* Offline scripts, flight and fault drivers: they are no part of the system.
* Within the modelled parts: validation of drawings and packets, the velocities
  themselves, counters that only feed the display. `PROJECT.json` names them at
  each component.
* The liveness watchdog: it writes a log line and no part of the system reads it.

Disagreements met while modelling that have no run of their own:

* `active_offboard_setpoint_sender.py:594`: the largest gap is never reset, so one
  gap without a latch closes the start gate for the life of the sender, while the
  contract asks for a restart from PRECHECK (`one_uav_active_readiness.py:176`).
* `mavlink_manual_bridge.py:2316`: an acknowledgement carries only a command id, and
  one of an older request is taken for the answer to the pending one, although the
  docstring says "only the ACK belonging to a pending mission OFFBOARD request".
* `peer_state.py:121`: each end grants `PEER_STATE_MAX_AGE_S` anew, and judges it by
  a clock read at the top of its iteration (`mavlink_manual_bridge.py:2983`, `:3067`,
  `:2718`), so a valid peer may be known by a sample twice that old plus the delay of
  the network and an iteration at either end (`UnpricedAgeIsBounded` is what holds).
* `tracking_web.py:5640`: the grace of a lost estimate survives the end of its
  authorization; the next one on the same selection may be aborted by its first
  frame without an estimate.

Hazards seen but covered by no property, beside those in `PROJECT.json`: a sender
rebuilt and latched again at the loop rate while a supervisor recommendation
stands on the ground (`mavlink_manual_bridge.py:2855`); a prestream counter that
outlives an interruption (`:3134`); a raw attitude input that asks for OFFBOARD
without a limit (`:3290`); `PRESTREAMING_TARGET` without a deadline
(`tracking_web.py:5954`); a watchdog that cannot tell a reconnecting worker from a
stalled one (`worker_liveness_watchdog.py:80`).

## 6. The plan

In order of weight:

1. `SafetyLoop`: the question which rungs reach the wire is answered by
   `CommandsAreJustified` and `CommandMeansCalm`, each over its own module. What
   is left is the composition itself: one frame of supervisor and sender as one
   step, and the theorem that it implements both, so that the premise about the
   gate need not be carried from one module to the other by hand.
2. `DepthWorker`: one pending job, one result, generations; a reset or a stop that
   overtakes a job. Abstract specification: the newest result of the present
   generation wins.
3. The companion of `ModeEntry` replaced by `MissionExecution`, so that the two
   writers of PX4's mode meet in one run over `companion_holds_offboard`.
4. Retry and acknowledgement of the dashboard's publishing, which today is the
   free input of `FollowWorkflow`.
5. Proofs: a measure for the attempts of `FollowWorkflow` before DEGRADED, whose
   graces a held box may restart, and the refinement of `SenderContract` by
   `ActiveSender` as a step simulation of the mission's latch.

The runs stay few: a new component brings one passing run, and a violation keeps
a run only while the disagreement it shows stands.
