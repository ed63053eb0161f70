-------------------------- MODULE InputArbitration --------------------------
(***************************************************************************)
(* The input states of the bridge worker, which the MQTT thread writes one *)
(* at a time while the worker reads them one at a time; each operation of  *)
(* an input state holds that state's own lock only.                        *)
(***************************************************************************)
EXTENDS Naturals, Sequences, InputReadings

CONSTANTS LegacyAutomation,   \* SWARM_LEGACY_AUTOMATION_ENABLED
          RawAttitude         \* SWARM_ALLOW_RAW_ATTITUDE_OFFBOARD

ASSUME InputArbitrationAssumption == LegacyAutomation \in BOOLEAN /\ RawAttitude \in BOOLEAN

Timed == {"manual", "yaw", "follow", "visual", "velocity"}
States == Timed \cup {"attitude"}

\* What the worker can serve: an attitude that ends is released on the way.
Sources == States \cup {"release"}

\* A message asks an input state to drive ("command"), asks it to but with
\* values that do not ("void": a zero correction, a target that breaks its
\* contract, a thrust out of range), or tells it to stop.
ManualMessages == [to : {"manual"}, content : {"command", "stop"}]
TrackingMessages == [to : {"yaw", "follow"}, content : {"command", "void", "stop"}]
TargetMessages == [to : {"visual"}, content : {"command", "void", "stop"}]
VelocityMessages == [to : {"velocity"}, content : {"command", "stop"}]
AttitudeMessages == [to : {"attitude"}, content : {"command", "void", "stop"}]

\* The connection to the broker is lost: handled like a message.
BrokerLost == [to |-> "broker", content |-> "lost"]

Messages == ManualMessages \cup TrackingMessages \cup TargetMessages
            \cup VelocityMessages \cup AttitudeMessages \cup {BrokerLost}
Idle == [to |-> "nobody", content |-> "nothing"]

VARIABLES
    input,      \* which timed input states would drive now
    attitude,   \* the phase of offboard_attitude_state
    handling,   \* the message the MQTT thread is at
    cancelled,  \* how many input states its handler has disabled so far
    step,       \* how many reads the iteration has made
    reading,    \* the active ones among them
    fresh,      \* visual_stream_fresh
    revoked,    \* history: what was ended by a handled message or a timeout
    barred      \* history: what was revoked before the iteration and has
                \* not been commanded since

vars == <<input, attitude, handling, cancelled, step, reading, fresh, revoked, barred>>

\* An attitude command, one whose timeout the worker has not noticed, the
\* release that follows it, and a release that lasted too long.
Phases == {"off", "on", "stale", "releasing", "spent"}

\* Mutant: the target's status is asked for once more.
StatusTwice ==
    <<"manual", "yaw", "follow", "visual", "status", "velocity", "attitude", "status">>

\* The order in which run_connected takes its snapshots.
ReadOrder == <<"manual", "yaw", "follow", "visual", "status", "velocity", "attitude">>

\* Every variable keeps its type.
TypeOK ==
    /\ input \in [Timed -> BOOLEAN]
    /\ attitude \in Phases
    /\ handling \in Messages \cup {Idle}
    /\ cancelled \in 0 .. 6
    /\ step \in 0 .. 7
    /\ reading \in SUBSET Sources
    /\ fresh \in BOOLEAN
    /\ revoked \in SUBSET Sources
    /\ barred \in SUBSET Sources

Init ==
    /\ input = [s \in Timed |-> FALSE]
    /\ attitude = "off"
    /\ handling = Idle /\ cancelled = 0
    /\ step = 0 /\ reading = {} /\ fresh = FALSE
    /\ revoked = Sources /\ barred = Sources

-----------------------------------------------------------------------------
(* The MQTT thread.                                                        *)

Asks(m) == m.content \in {"command", "void"}

\* What on_mqtt_message rejects before it looks at any input state.
Accepted(m) ==
    /\ m.to \in {"yaw", "follow", "velocity", "attitude"} => LegacyAutomation
    /\ m.to = "attitude" => RawAttitude

\* The input states a message disables, in the handler's order.
Cancels(m) ==
    CASE m.to = "manual" /\ Asks(m) -> <<"yaw", "follow", "velocity", "attitude", "visual">>
      [] m.to = "manual" /\ ~ Asks(m) -> <<>>
      [] m.to = "visual" -> <<"yaw", "follow", "velocity", "attitude">>
      [] m.to = "attitude" /\ Asks(m) -> <<"velocity", "visual">>
      [] m.to = "attitude" /\ ~ Asks(m) -> <<"velocity">>
      [] m.to = "velocity" /\ Asks(m) -> <<"attitude", "visual">>
      [] m.to = "velocity" /\ ~ Asks(m) -> <<"attitude">>
      [] m.to \in {"yaw", "follow"} -> <<"visual">>
      [] m.to = "broker" -> <<"manual", "yaw", "follow", "visual", "velocity", "attitude">>

\* The next message reaches the handler.
Receive ==
    /\ handling = Idle
    /\ \E m \in Messages : Accepted(m) /\ handling' = m
    /\ cancelled' = 0
    /\ UNCHANGED <<input, attitude, step, reading, fresh, revoked, barred>>

\* Mutant: an attitude that is disabled is released, as by a stop.
DisabledReleases(s) ==
    /\ input' = [t \in Timed |-> input[t] /\ t # s]
    /\ attitude' = IF s = "attitude" /\ attitude # "off" THEN "releasing" ELSE attitude

\* disable() of one input state.
Disabled(s) ==
    /\ input' = [t \in Timed |-> input[t] /\ t # s]
    /\ attitude' = IF s = "attitude" THEN "off" ELSE attitude

Cancel ==
    /\ handling # Idle /\ cancelled < Len(Cancels(handling))
    /\ Disabled(Cancels(handling)[cancelled + 1])
    /\ cancelled' = cancelled + 1
    /\ UNCHANGED <<handling, step, reading, fresh, revoked, barred>>

\* OffboardAttitudeState.update: a stop releases whatever is not off yet,
\* a release that lasted too long included.
Commanded(content) ==
    CASE content = "command" -> "on"
      [] content = "void" -> "off"
      [] content = "stop" -> IF attitude = "off" THEN "off" ELSE "releasing"

\* What each message is meant to end: a human every automation, the native
\* target every legacy controller, an OFFBOARD source the other one and, when
\* it asks to drive, the target, tracking the target, a lost broker
\* everything; and what a message without a command ends of its own input.
\* A stopped attitude is still released.
Rivals(m) ==
    CASE m.to = "broker" -> Sources
      [] m.to = "manual" -> IF Asks(m) THEN Sources \ {"manual"} ELSE {}
      [] m.to = "visual" -> Sources \ {"manual", "visual"}
      [] m.to = "velocity" -> {"attitude", "release"} \cup (IF Asks(m) THEN {"visual"} ELSE {})
      [] m.to = "attitude" -> {"velocity"} \cup (IF Asks(m) THEN {"visual"} ELSE {})
      [] OTHER -> {"visual"}
Own(to) == IF to = "attitude" THEN {"attitude", "release"} ELSE {to}
EndedBy(m) ==
    Rivals(m) \cup (CASE m.content = "stop" -> {m.to} [] m.content = "void" -> Own(m.to) [] OTHER -> {})

\* What it starts: only an attitude command entitles to a release.
StartedBy(m) == IF m.content = "command" THEN Own(m.to) ELSE {}

\* state.update(payload), the handler's last call.
Update ==
    /\ handling # Idle /\ cancelled = Len(Cancels(handling))
    /\ input' = [t \in Timed |-> IF t = handling.to THEN handling.content = "command" ELSE input[t]]
    /\ attitude' = IF handling.to = "attitude" THEN Commanded(handling.content) ELSE attitude
    /\ handling' = Idle /\ cancelled' = 0
    /\ revoked' = (revoked \cup EndedBy(handling)) \ StartedBy(handling)
    /\ barred' = barred \ StartedBy(handling)
    /\ UNCHANGED <<step, reading, fresh>>

-----------------------------------------------------------------------------
(* Time.                                                                   *)

\* A timed input is not renewed within its timeout.
Expire(s) ==
    /\ input[s]
    /\ input' = [input EXCEPT ![s] = FALSE]
    /\ revoked' = revoked \cup {s}
    /\ UNCHANGED <<attitude, handling, cancelled, step, reading, fresh, barred>>

\* The attitude command, or its release, is past its timeout.
AttitudeExpires ==
    /\ attitude \in {"on", "releasing"}
    /\ attitude' = IF attitude = "on" THEN "stale" ELSE "spent"
    /\ UNCHANGED <<input, handling, cancelled, step, reading, fresh, revoked, barred>>

-----------------------------------------------------------------------------
(* The worker.                                                             *)

\* output() of an input state says whether it is active.
ReadTimed(s) ==
    /\ reading' = IF input[s] THEN reading \cup {s} ELSE reading
    /\ UNCHANGED <<attitude, fresh, revoked>>

\* status() of the target, a second look at the state output() just read.
ReadStatus ==
    /\ fresh' = input["visual"]
    /\ UNCHANGED <<attitude, reading, revoked>>

\* OffboardAttitudeState.output notices the timeout and starts the release.
ReadAttitude ==
    /\ attitude' = IF attitude = "stale" THEN "releasing" ELSE attitude
    /\ reading' = reading \cup (CASE attitude = "on" -> {"attitude"}
                                  [] attitude \in {"stale", "releasing"} -> {"release"}
                                  [] OTHER -> {})
    /\ revoked' = IF attitude = "stale" THEN revoked \cup {"attitude"} ELSE revoked
    /\ UNCHANGED fresh

\* The next snapshot; the first one begins the iteration.
Read ==
    /\ step < Len(ReadOrder)
    /\ step' = step + 1
    /\ barred' = IF step = 0 THEN revoked ELSE barred
    /\ CASE ReadOrder[step + 1] \in Timed -> ReadTimed(ReadOrder[step + 1])
         [] ReadOrder[step + 1] = "status" -> ReadStatus
         [] ReadOrder[step + 1] = "attitude" -> ReadAttitude
    /\ UNCHANGED <<input, handling, cancelled>>

\* The arbitration chain.
Serves ==
    CASE "manual" \in reading -> "manual"
      [] "manual" \notin reading /\ "visual" \in reading -> "visual"
      [] reading \cap {"manual", "visual"} = {} /\ "release" \in reading -> "release"
      [] reading \cap {"manual", "visual", "release"} = {} /\ "attitude" \in reading -> "attitude"
      [] reading \cap {"manual", "visual", "release", "attitude"} = {} /\ "velocity" \in reading
            -> "velocity"
      [] reading \subseteq {"yaw", "follow"} /\ "follow" \in reading -> "follow"
      [] reading \subseteq {"yaw"} /\ "yaw" \in reading -> "yaw"
      [] OTHER -> "centered"

\* What the arbitration gets to see of it; still is the worker's own finding.
Reading(still) ==
    [source     |-> IF Serves \in {"yaw", "follow", "centered"} THEN "none" ELSE Serves,
     visual     |-> "visual" \in reading,
     automation |-> reading \cap {"visual", "velocity", "attitude", "release"} # {},
     fresh      |-> fresh /\ Serves = "visual",
     still      |-> still /\ fresh /\ Serves = "visual"]

\* The iteration acts on its snapshots and the next one starts over.
Act ==
    /\ step = Len(ReadOrder)
    /\ step' = 0 /\ reading' = {} /\ fresh' = FALSE
    /\ UNCHANGED <<input, attitude, handling, cancelled, revoked, barred>>

\* A heartbeat shows Position: finish_release, before the reads. A command
\* that is still enabled keeps its place.
PositionSeen ==
    /\ step = 0
    /\ attitude' = IF attitude \in {"releasing", "spent"} THEN "off" ELSE attitude
    /\ revoked' = IF attitude \in {"on", "stale"} THEN revoked ELSE revoked \cup {"release"}
    /\ UNCHANGED <<input, handling, cancelled, step, reading, fresh, barred>>

Next ==
    \/ Receive \/ Cancel \/ Update
    \/ (\E s \in Timed : Expire(s)) \/ AttitudeExpires
    \/ Read \/ Act \/ PositionSeen

Spec == Init /\ [][Next]_vars
-----------------------------------------------------------------------------
(* Properties.                                                             *)

\* "A human input always wins and must latch automation off": what a human,
\* a rival source, its own stop, its timeout or the loss of the broker ended
\* before an iteration began is not served by that iteration, unless a newer
\* command arrived, however the disables and the reads interleave.
RevokedStaysOut == step = Len(ReadOrder) => Serves \notin barred

\* Every reading is one the mode entry reckons with, and legacy inputs are
\* only read where the handler accepts them.
ReadingIsReadable ==
    step = Len(ReadOrder) =>
        \A still \in BOOLEAN :
            Reading(still) \in Readable([legacy |-> LegacyAutomation,
                                         raw |-> LegacyAutomation /\ RawAttitude])
=============================================================================
