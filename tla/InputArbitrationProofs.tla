----------------------- MODULE InputArbitrationProofs -----------------------
(***************************************************************************)
(* What TLAPS shows of InputArbitration, for every choice of the flags.    *)
(***************************************************************************)
EXTENDS InputArbitration, TLAPS

\* What a message may look like, field by field.
LEMMA MessageShape ==
    ASSUME NEW m \in Messages
    PROVE  /\ m.to \in States \cup {"broker"}
           /\ m.to = "broker" => m.content = "lost"
           /\ m.to # "broker" => m.content \in {"command", "void", "stop"}
           /\ m.content = "void" => m.to \notin {"manual", "velocity"}
           /\ m # Idle
  BY DEF Messages, ManualMessages, TrackingMessages, TargetMessages, VelocityMessages,
         AttitudeMessages, BrokerLost, Idle, States, Timed

\* The handler's list names input states, at most six of them.
LEMMA CancelsTyped ==
    ASSUME NEW m \in Messages
    PROVE  Cancels(m) \in Seq(States) /\ Len(Cancels(m)) \in 0 .. 6
  <1>1. CASE m.to = "manual" /\ Asks(m)
    <2>1. Cancels(m) = <<"yaw", "follow", "velocity", "attitude", "visual">>  BY <1>1 DEF Cancels
    <2>. QED  BY <2>1 DEF States, Timed
  <1>2. CASE m.to = "manual" /\ ~ Asks(m)
    <2>1. Cancels(m) = <<>>  BY <1>2 DEF Cancels
    <2>. QED  BY <2>1 DEF States, Timed
  <1>3. CASE m.to = "visual"
    <2>1. Cancels(m) = <<"yaw", "follow", "velocity", "attitude">>  BY <1>3 DEF Cancels
    <2>. QED  BY <2>1 DEF States, Timed
  <1>4. CASE m.to = "attitude" /\ Asks(m)
    <2>1. Cancels(m) = <<"velocity", "visual">>  BY <1>4 DEF Cancels
    <2>. QED  BY <2>1 DEF States, Timed
  <1>5. CASE m.to = "attitude" /\ ~ Asks(m)
    <2>1. Cancels(m) = <<"velocity">>  BY <1>5 DEF Cancels
    <2>. QED  BY <2>1 DEF States, Timed
  <1>6. CASE m.to = "velocity" /\ Asks(m)
    <2>1. Cancels(m) = <<"attitude", "visual">>  BY <1>6 DEF Cancels
    <2>. QED  BY <2>1 DEF States, Timed
  <1>7. CASE m.to = "velocity" /\ ~ Asks(m)
    <2>1. Cancels(m) = <<"attitude">>  BY <1>7 DEF Cancels
    <2>. QED  BY <2>1 DEF States, Timed
  <1>8. CASE m.to \in {"yaw", "follow"}
    <2>1. Cancels(m) = <<"visual">>  BY <1>8 DEF Cancels
    <2>. QED  BY <2>1 DEF States, Timed
  <1>9. CASE m.to = "broker"
    <2>1. Cancels(m) = <<"manual", "yaw", "follow", "visual", "velocity", "attitude">>  BY <1>9 DEF Cancels
    <2>. QED  BY <2>1 DEF States, Timed
  <1>. QED  BY <1>1, <1>2, <1>3, <1>4, <1>5, <1>6, <1>7, <1>8, <1>9, MessageShape DEF States, Timed

\* The list covers everything the message is meant to end.
LEMMA CancelsCover ==
    ASSUME NEW m \in Messages, NEW s \in Rivals(m)
    PROVE  \E i \in 1 .. Len(Cancels(m)) : s \in Own(Cancels(m)[i])
  <1>1. CASE m.to = "manual" /\ Asks(m)
    <2>1. Cancels(m) = <<"yaw", "follow", "velocity", "attitude", "visual">>  BY <1>1 DEF Cancels
    <2>2. Len(Cancels(m)) = 5 /\ Cancels(m)[1] = "yaw" /\ Cancels(m)[2] = "follow" /\ Cancels(m)[3] = "velocity" /\ Cancels(m)[4] = "attitude" /\ Cancels(m)[5] = "visual"  BY <2>1
    <2>3. s \in UNION {Own("yaw"), Own("follow"), Own("velocity"), Own("attitude"), Own("visual")}  BY <1>1 DEF Rivals, Own, Asks, Sources, States, Timed
    <2>. QED  BY <2>2, <2>3
  <1>2. CASE m.to = "manual" /\ ~ Asks(m)
    <2>1. Cancels(m) = <<>>  BY <1>2 DEF Cancels
    <2>. QED  BY <1>2 DEF Rivals
  <1>3. CASE m.to = "visual"
    <2>1. Cancels(m) = <<"yaw", "follow", "velocity", "attitude">>  BY <1>3 DEF Cancels
    <2>2. Len(Cancels(m)) = 4 /\ Cancels(m)[1] = "yaw" /\ Cancels(m)[2] = "follow" /\ Cancels(m)[3] = "velocity" /\ Cancels(m)[4] = "attitude"  BY <2>1
    <2>3. s \in UNION {Own("yaw"), Own("follow"), Own("velocity"), Own("attitude")}  BY <1>3 DEF Rivals, Own, Asks, Sources, States, Timed
    <2>. QED  BY <2>2, <2>3
  <1>4. CASE m.to = "attitude" /\ Asks(m)
    <2>1. Cancels(m) = <<"velocity", "visual">>  BY <1>4 DEF Cancels
    <2>2. Len(Cancels(m)) = 2 /\ Cancels(m)[1] = "velocity" /\ Cancels(m)[2] = "visual"  BY <2>1
    <2>3. s \in UNION {Own("velocity"), Own("visual")}  BY <1>4 DEF Rivals, Own, Asks, Sources, States, Timed
    <2>. QED  BY <2>2, <2>3
  <1>5. CASE m.to = "attitude" /\ ~ Asks(m)
    <2>1. Cancels(m) = <<"velocity">>  BY <1>5 DEF Cancels
    <2>2. Len(Cancels(m)) = 1 /\ Cancels(m)[1] = "velocity"  BY <2>1
    <2>3. s \in UNION {Own("velocity")}  BY <1>5 DEF Rivals, Own, Asks, Sources, States, Timed
    <2>. QED  BY <2>2, <2>3
  <1>6. CASE m.to = "velocity" /\ Asks(m)
    <2>1. Cancels(m) = <<"attitude", "visual">>  BY <1>6 DEF Cancels
    <2>2. Len(Cancels(m)) = 2 /\ Cancels(m)[1] = "attitude" /\ Cancels(m)[2] = "visual"  BY <2>1
    <2>3. s \in UNION {Own("attitude"), Own("visual")}  BY <1>6 DEF Rivals, Own, Asks, Sources, States, Timed
    <2>. QED  BY <2>2, <2>3
  <1>7. CASE m.to = "velocity" /\ ~ Asks(m)
    <2>1. Cancels(m) = <<"attitude">>  BY <1>7 DEF Cancels
    <2>2. Len(Cancels(m)) = 1 /\ Cancels(m)[1] = "attitude"  BY <2>1
    <2>3. s \in UNION {Own("attitude")}  BY <1>7 DEF Rivals, Own, Asks, Sources, States, Timed
    <2>. QED  BY <2>2, <2>3
  <1>8. CASE m.to \in {"yaw", "follow"}
    <2>1. Cancels(m) = <<"visual">>  BY <1>8 DEF Cancels
    <2>2. Len(Cancels(m)) = 1 /\ Cancels(m)[1] = "visual"  BY <2>1
    <2>3. s \in UNION {Own("visual")}  BY <1>8 DEF Rivals, Own, Asks, Sources, States, Timed
    <2>. QED  BY <2>2, <2>3
  <1>9. CASE m.to = "broker"
    <2>1. Cancels(m) = <<"manual", "yaw", "follow", "visual", "velocity", "attitude">>  BY <1>9 DEF Cancels
    <2>2. Len(Cancels(m)) = 6 /\ Cancels(m)[1] = "manual" /\ Cancels(m)[2] = "yaw" /\ Cancels(m)[3] = "follow" /\ Cancels(m)[4] = "visual" /\ Cancels(m)[5] = "velocity" /\ Cancels(m)[6] = "attitude"  BY <2>1
    <2>3. s \in UNION {Own("manual"), Own("yaw"), Own("follow"), Own("visual"), Own("velocity"), Own("attitude")}  BY <1>9 DEF Rivals, Own, Asks, Sources, States, Timed
    <2>. QED  BY <2>2, <2>3
  <1>. QED  BY <1>1, <1>2, <1>3, <1>4, <1>5, <1>6, <1>7, <1>8, <1>9, MessageShape DEF States, Timed

-----------------------------------------------------------------------------
(* The inductive invariant.                                                *)

\* An input state that neither drives nor releases.
Off(s) == IF s = "attitude" THEN attitude = "off" ELSE ~ input[s]

\* The handler's position, and what it has disabled stays off: only the
\* handler itself turns an input state on, in its last step.
HandlerDisables ==
    /\ handling = Idle => cancelled = 0
    /\ handling # Idle =>
          /\ cancelled <= Len(Cancels(handling))
          /\ \A i \in 1 .. cancelled : Off(Cancels(handling)[i])

\* What drives or releases has not been revoked.
Entitled ==
    /\ \A s \in Timed : input[s] => s \notin revoked
    /\ attitude \in {"on", "stale"} => "attitude" \notin revoked
    /\ attitude # "off" => "release" \notin revoked

\* What an iteration has read was not barred when it was read, and nothing
\* is barred during an iteration.
ReadIsNotBarred ==
    /\ barred \subseteq revoked
    /\ reading \cap barred = {}
    /\ step = 0 => reading = {}

IInv == TypeOK /\ HandlerDisables /\ Entitled /\ ReadIsNotBarred

LEMMA InitIInv == ASSUME Init PROVE IInv
  <1>1. TypeOK
    <2>1. input \in [Timed -> BOOLEAN] /\ attitude \in Phases  BY DEF Init, Phases
    <2>2. cancelled \in 0 .. 6 /\ step \in 0 .. 7  BY DEF Init
    <2>3. fresh \in BOOLEAN  BY DEF Init
    <2>. QED  BY <2>1, <2>2, <2>3 DEF Init, TypeOK
  <1>2. HandlerDisables  BY DEF Init, HandlerDisables
  <1>3. Entitled /\ ReadIsNotBarred  BY DEF Init, Entitled, ReadIsNotBarred
  <1>. QED  BY <1>1, <1>2, <1>3 DEF IInv

LEMMA ReceiveIInv == ASSUME IInv, Receive PROVE IInv'
  <1>. USE DEF IInv, Receive
  <1>1. handling' \in Messages /\ cancelled' = 0  OBVIOUS
  <1>2. TypeOK'  BY <1>1 DEF TypeOK
  <1>3. HandlerDisables'  BY <1>1, CancelsTyped DEF HandlerDisables
  <1>4. Entitled' /\ ReadIsNotBarred'  BY DEF Entitled, ReadIsNotBarred
  <1>. QED  BY <1>2, <1>3, <1>4

LEMMA CancelIInv == ASSUME IInv, Cancel PROVE IInv'
  <1>. DEFINE list == Cancels(handling)
              s == list[cancelled + 1]
              StaysOff(c) == IF c = "attitude" THEN attitude' = "off" ELSE ~ input'[c]
  <1>1. /\ handling \in Messages /\ cancelled \in 0 .. 6 /\ cancelled < Len(list)
        /\ cancelled' = cancelled + 1 /\ handling' = handling /\ Disabled(s)
    BY DEF IInv, TypeOK, Cancel
  <1>2. list \in Seq(States) /\ Len(list) \in 0 .. 6  BY <1>1, CancelsTyped
  <1>3. s \in States  BY <1>1, <1>2
  <1>4. /\ \A t \in Timed : input'[t] => input[t] /\ t # s
        /\ attitude' \in {attitude, "off"}
        /\ s = "attitude" => attitude' = "off"
    BY <1>1 DEF Disabled
  <1>5. TypeOK'  BY <1>1, <1>2, <1>4 DEF IInv, TypeOK, Cancel, Disabled, Phases
  <1>6. StaysOff(s)
    <2>1. CASE s = "attitude"  BY <2>1, <1>4
    <2>2. CASE s # "attitude"  BY <2>2, <1>3, <1>4 DEF States
    <2>. QED  BY <2>1, <2>2
  <1>7. ASSUME NEW i \in 1 .. cancelled PROVE StaysOff(list[i])
    <2>1. list[i] \in States /\ Off(list[i])  BY <1>1, <1>2, handling # Idle DEF IInv, HandlerDisables, Cancel
    <2>2. CASE list[i] = "attitude"  BY <2>1, <2>2, <1>4 DEF Off
    <2>3. CASE list[i] # "attitude"  BY <2>1, <2>3, <1>4 DEF Off, States
    <2>. QED  BY <2>2, <2>3
  <1>8. HandlerDisables'
    <2>1. handling # Idle  BY DEF Cancel
    <2>2. ASSUME NEW i \in 1 .. cancelled' PROVE StaysOff(list[i])
      <3>1. i \in 1 .. cancelled \/ i = cancelled + 1  BY <1>1
      <3>. QED  BY <3>1, <1>6, <1>7
    <2>. QED  BY <1>1, <1>2, <2>1, <2>2 DEF HandlerDisables, Off
  <1>9. Entitled'
    <2>1. revoked' = revoked /\ attitude' \in {attitude, "off"}  BY <1>4 DEF Cancel
    <2>. QED  BY <2>1, <1>4 DEF IInv, Entitled
  <1>10. ReadIsNotBarred'  BY DEF IInv, ReadIsNotBarred, Cancel
  <1>. QED  BY <1>5, <1>8, <1>9, <1>10 DEF IInv

\* When a handler is through its list, what its message ends is off, but for
\* the message's own input state.
LEMMA EndedIsOff ==
    ASSUME IInv, handling # Idle, cancelled = Len(Cancels(handling)), NEW s \in Rivals(handling)
    PROVE  /\ s \in Timed => ~ input[s]
           /\ s \in {"attitude", "release"} => attitude = "off"
  <1>1. handling \in Messages  BY DEF IInv, TypeOK
  <1>2. PICK i \in 1 .. cancelled : s \in Own(Cancels(handling)[i])  BY <1>1, CancelsCover
  <1>3. Off(Cancels(handling)[i])  BY <1>2 DEF IInv, HandlerDisables
  <1>4. Cancels(handling)[i] \in States  BY <1>1, CancelsTyped
  <1>. QED  BY <1>2, <1>3, <1>4 DEF Own, Off, States, Timed

LEMMA UpdateIInv == ASSUME IInv, Update PROVE IInv'
  <1>1. /\ handling \in Messages /\ handling # Idle /\ cancelled = Len(Cancels(handling))
        /\ handling' = Idle /\ cancelled' = 0
    BY DEF IInv, TypeOK, Update
  <1>2. handling.to \in States => handling.content \in {"command", "void", "stop"}
    BY <1>1, MessageShape DEF States, Timed
  <1>. DEFINE to == handling.to
              content == handling.content
  <1>3. /\ Rivals(handling) \subseteq Sources /\ Own(to) \subseteq Sources \cup {"broker"}
        /\ StartedBy(handling) \subseteq Sources
    BY <1>1, MessageShape DEF Rivals, Own, StartedBy, Sources, States, Timed
  <1>4. EndedBy(handling) \subseteq Sources
    BY <1>1, <1>3, MessageShape DEF EndedBy, Own, Sources, States, Timed
  <1>5. TypeOK'
    <2>1. input' \in [Timed -> BOOLEAN]  BY DEF IInv, TypeOK, Update
    <2>2. attitude' \in Phases
      BY <1>2 DEF IInv, TypeOK, Update, Commanded, Phases, States
    <2>3. revoked' \in SUBSET Sources /\ barred' \in SUBSET Sources
      BY <1>4 DEF IInv, TypeOK, Update
    <2>. QED  BY <1>1, <2>1, <2>2, <2>3 DEF IInv, TypeOK, Update
  <1>6. HandlerDisables'  BY <1>1 DEF HandlerDisables
  <1>7. ASSUME NEW s \in Timed, input'[s] PROVE s \notin revoked'
    <2>1. CASE s = to
      <3>1. content = "command"  BY <2>1, <1>7 DEF Update
      <3>2. s \in StartedBy(handling)  BY <2>1, <3>1 DEF StartedBy, Own, Timed
      <3>. QED  BY <3>2 DEF Update
    <2>2. CASE s # to
      <3>1. input[s]  BY <2>2, <1>7 DEF Update
      <3>2. s \notin Rivals(handling) /\ s \notin revoked  BY <3>1, <1>1, EndedIsOff DEF IInv, Entitled
      <3>3. s \notin EndedBy(handling)  BY <2>2, <3>2 DEF EndedBy, Own, Timed
      <3>. QED  BY <3>2, <3>3 DEF Update
    <2>. QED  BY <2>1, <2>2
  <1>8. /\ attitude' \in {"on", "stale"} => "attitude" \notin revoked'
        /\ attitude' # "off" => "release" \notin revoked'
    <2>1. CASE to = "attitude"
      <3>1. CASE content = "command"
        BY <2>1, <3>1 DEF Update, StartedBy, Own
      <3>2. CASE content = "void"
        BY <2>1, <3>2 DEF Update, Commanded
      <3>3. CASE content = "stop"
        <4>1. attitude' \in {"off", "releasing"} /\ (attitude' = "releasing" => attitude # "off")
          BY <2>1, <3>3 DEF Update, Commanded
        <4>2. EndedBy(handling) \subseteq {"velocity", "visual", "attitude"}
          BY <2>1, <3>3 DEF EndedBy, Rivals
        <4>. QED  BY <4>1, <4>2 DEF IInv, Entitled, Update
      <3>. QED  BY <2>1, <3>1, <3>2, <3>3, <1>2 DEF States
    <2>2. CASE to # "attitude"
      <3>1. attitude' = attitude  BY <2>2 DEF Update
      <3>2. attitude # "off" => "attitude" \notin Rivals(handling) /\ "release" \notin Rivals(handling)
        BY <1>1, EndedIsOff
      <3>3. attitude # "off" => "attitude" \notin EndedBy(handling) /\ "release" \notin EndedBy(handling)
        BY <2>2, <3>2, <1>1, MessageShape DEF EndedBy, Own, States, Timed
      <3>. QED  BY <3>1, <3>3 DEF IInv, Entitled, Update
    <2>. QED  BY <2>1, <2>2
  <1>9. Entitled'  BY <1>7, <1>8 DEF Entitled
  <1>10. ReadIsNotBarred'  BY DEF IInv, ReadIsNotBarred, Update
  <1>. QED  BY <1>5, <1>6, <1>9, <1>10 DEF IInv

\* Steps that only turn input states off keep what the handler has disabled.
LEMMA DisabledStaysOff ==
    ASSUME IInv, handling' = handling, cancelled' = cancelled,
           \A t \in Timed : input'[t] => input[t],
           attitude = "off" => attitude' = "off"
    PROVE  HandlerDisables'
  <1>1. ASSUME handling # Idle, NEW i \in 1 .. cancelled PROVE Off(Cancels(handling)[i])'
    <2>1. Off(Cancels(handling)[i]) /\ Cancels(handling) \in Seq(States) /\ cancelled <= Len(Cancels(handling))
      BY <1>1, CancelsTyped DEF IInv, HandlerDisables, TypeOK
    <2>2. Cancels(handling)[i] \in States  BY <2>1, <1>1 DEF IInv, TypeOK
    <2>. QED  BY <2>1, <2>2 DEF Off, States
  <1>. QED  BY <1>1 DEF IInv, HandlerDisables

LEMMA ExpireIInv == ASSUME IInv, NEW s \in Timed, Expire(s) PROVE IInv'
  <1>1. TypeOK'  BY DEF IInv, TypeOK, Expire, Sources, States
  <1>2. HandlerDisables'  BY DisabledStaysOff DEF IInv, TypeOK, Expire
  <1>3. Entitled'  BY DEF IInv, TypeOK, Entitled, Expire, Timed
  <1>4. ReadIsNotBarred'  BY DEF IInv, ReadIsNotBarred, Expire
  <1>. QED  BY <1>1, <1>2, <1>3, <1>4 DEF IInv

LEMMA AttitudeExpiresIInv == ASSUME IInv, AttitudeExpires PROVE IInv'
  <1>1. TypeOK'  BY DEF IInv, TypeOK, AttitudeExpires, Phases
  <1>2. HandlerDisables'  BY DisabledStaysOff DEF IInv, AttitudeExpires
  <1>3. Entitled'  BY DEF IInv, Entitled, AttitudeExpires
  <1>4. ReadIsNotBarred'  BY DEF IInv, ReadIsNotBarred, AttitudeExpires
  <1>. QED  BY <1>1, <1>2, <1>3, <1>4 DEF IInv

LEMMA ReadIInv == ASSUME IInv, Read PROVE IInv'
  <1>1. /\ step \in 0 .. 6 /\ step' = step + 1 /\ input' = input
        /\ handling' = handling /\ cancelled' = cancelled
        /\ barred' = IF step = 0 THEN revoked ELSE barred
    BY DEF IInv, TypeOK, Read, ReadOrder
  <1>. DEFINE s == ReadOrder[step + 1]
  <1>2. s \in Timed \cup {"status", "attitude"}  BY <1>1 DEF ReadOrder, Timed
  <1>3. reading \cap barred' = {} /\ barred' \subseteq revoked
    BY <1>1 DEF IInv, ReadIsNotBarred
  <1>4. CASE s \in Timed
    <2>1. ReadTimed(s)  BY <1>4 DEF Read, Timed
    <2>2. TypeOK'  BY <1>1, <1>4, <2>1 DEF IInv, TypeOK, ReadTimed, Sources, States
    <2>3. HandlerDisables'  BY <1>1, <2>1, DisabledStaysOff DEF ReadTimed
    <2>4. Entitled'  BY <1>1, <2>1 DEF IInv, Entitled, ReadTimed
    <2>5. ReadIsNotBarred'  BY <1>1, <1>3, <1>4, <2>1 DEF IInv, Entitled, ReadIsNotBarred, ReadTimed
    <2>. QED  BY <2>2, <2>3, <2>4, <2>5 DEF IInv
  <1>5. CASE s = "status"
    <2>1. ReadStatus  BY <1>5 DEF Read, Timed
    <2>2. TypeOK'  BY <1>1, <2>1 DEF IInv, TypeOK, ReadStatus, Timed
    <2>3. HandlerDisables'  BY <1>1, <2>1, DisabledStaysOff DEF ReadStatus
    <2>4. Entitled'  BY <1>1, <2>1 DEF IInv, Entitled, ReadStatus
    <2>5. ReadIsNotBarred'  BY <1>1, <1>3, <2>1 DEF ReadIsNotBarred, ReadStatus
    <2>. QED  BY <2>2, <2>3, <2>4, <2>5 DEF IInv
  <1>6. CASE s = "attitude"
    <2>1. ReadAttitude  BY <1>6 DEF Read, Timed
    <2>2. /\ reading' \subseteq reading \cup {"attitude", "release"}
          /\ "attitude" \in reading' \ reading => attitude = "on"
          /\ "release" \in reading' \ reading => attitude \in {"stale", "releasing"}
      BY <2>1 DEF ReadAttitude
    <2>3. TypeOK'  BY <1>1, <2>1, <2>2 DEF IInv, TypeOK, ReadAttitude, Sources, States, Phases
    <2>4. HandlerDisables'  BY <1>1, <2>1, DisabledStaysOff DEF ReadAttitude
    <2>5. Entitled'  BY <1>1, <2>1 DEF IInv, Entitled, ReadAttitude, Timed
    <2>6. ReadIsNotBarred'  BY <1>1, <1>3, <2>1, <2>2 DEF IInv, Entitled, ReadIsNotBarred, ReadAttitude
    <2>. QED  BY <2>3, <2>4, <2>5, <2>6 DEF IInv
  <1>. QED  BY <1>2, <1>4, <1>5, <1>6

LEMMA ActIInv == ASSUME IInv, Act PROVE IInv'
  <1>1. TypeOK'
    <2>1. step' \in 0 .. 7 /\ reading' \in SUBSET Sources  BY DEF Act
    <2>2. fresh' \in BOOLEAN  BY DEF Act
    <2>. QED  BY <2>1, <2>2 DEF IInv, TypeOK, Act
  <1>2. HandlerDisables'  BY DisabledStaysOff DEF IInv, Act
  <1>3. Entitled' /\ ReadIsNotBarred'  BY DEF IInv, Entitled, ReadIsNotBarred, Act
  <1>. QED  BY <1>1, <1>2, <1>3 DEF IInv

LEMMA PositionSeenIInv == ASSUME IInv, PositionSeen PROVE IInv'
  <1>1. TypeOK'  BY DEF IInv, TypeOK, PositionSeen, Phases, Sources
  <1>2. HandlerDisables'  BY DisabledStaysOff DEF IInv, PositionSeen
  <1>3. Entitled'  BY DEF IInv, TypeOK, Entitled, PositionSeen, Phases, Timed
  <1>4. ReadIsNotBarred'  BY DEF IInv, ReadIsNotBarred, PositionSeen
  <1>. QED  BY <1>1, <1>2, <1>3, <1>4 DEF IInv

LEMMA NextIInv == ASSUME IInv, [Next]_vars PROVE IInv'
  <1>1. CASE UNCHANGED vars
    BY <1>1 DEF vars, IInv, TypeOK, HandlerDisables, Off, Entitled, ReadIsNotBarred
  <1>. QED  BY <1>1, ReceiveIInv, CancelIInv, UpdateIInv, ExpireIInv, AttitudeExpiresIInv, ReadIInv,
              ActIInv, PositionSeenIInv DEF Next

LEMMA SpecIInv == Spec => []IInv
  BY InitIInv, NextIInv, PTL DEF Spec

\* What is served was read, or nothing is.
LEMMA ServesWhatWasRead == Serves \in reading \cup {"centered"}
  BY DEF Serves

-----------------------------------------------------------------------------

\* Every variable keeps its type, for every choice of the flags.
THEOREM TypeCorrect == Spec => []TypeOK
  BY SpecIInv, PTL DEF IInv

\* What was ended before an iteration began is not served by it, however the
\* MQTT thread's disables and the worker's reads interleave.
THEOREM NothingRevokedIsServed == Spec => []RevokedStaysOut
  <1>1. IInv => RevokedStaysOut
    <2>. SUFFICES ASSUME IInv PROVE Serves \notin barred  BY DEF RevokedStaysOut
    <2>1. barred \subseteq Sources /\ "centered" \notin Sources
      BY DEF IInv, TypeOK, Sources, States, Timed
    <2>. QED  BY <2>1, ServesWhatWasRead DEF IInv, ReadIsNotBarred
  <1>. QED  BY <1>1, SpecIInv, PTL

-----------------------------------------------------------------------------
(* What the mode entry may be given.                                       *)

Legacy == {"yaw", "follow", "velocity"}

\* Nothing legacy is on its way, on or read unless its flag accepts it.
OnlyAccepted ==
    /\ handling # Idle => Accepted(handling)
    /\ ~ LegacyAutomation => /\ \A s \in Legacy : ~ input[s]
                             /\ attitude = "off"
                             /\ reading \subseteq {"manual", "visual"}
    /\ ~ RawAttitude => attitude = "off" /\ reading \cap {"attitude", "release"} = {}

LEMMA OnlyAcceptedInductive ==
    ASSUME IInv, OnlyAccepted, [Next]_vars
    PROVE  OnlyAccepted'
  <1>. USE DEF OnlyAccepted
  <1>1. CASE Receive
    <2>1. Accepted(handling)'  BY <1>1 DEF Receive, Accepted
    <2>. QED  BY <1>1, <2>1 DEF Receive
  <1>2. CASE Cancel
    <2>1. /\ handling' = handling /\ reading' = reading
          /\ \A s \in Timed : input'[s] => input[s]
          /\ attitude' \in {attitude, "off"}
      BY <1>2 DEF Cancel, Disabled
    <2>. QED  BY <2>1 DEF Accepted, Legacy, Timed
  <1>3. CASE Update
    <2>1. /\ handling # Idle /\ handling' = Idle /\ reading' = reading
          /\ \A s \in Timed : s # handling.to => input'[s] = input[s]
          /\ handling.to # "attitude" => attitude' = attitude
      BY <1>3 DEF Update
    <2>2. ~ LegacyAutomation => handling.to \notin Legacy \cup {"attitude"}
      BY <2>1 DEF Accepted, Legacy
    <2>3. ~ RawAttitude => handling.to # "attitude"  BY <2>1 DEF Accepted
    <2>. QED  BY <2>1, <2>2, <2>3 DEF Legacy, Timed
  <1>4. ASSUME NEW s \in Timed, Expire(s) PROVE OnlyAccepted'
    <2>1. \A t \in Timed : input'[t] => input[t]  BY <1>4 DEF Expire, IInv, TypeOK
    <2>. QED  BY <1>4, <2>1 DEF Expire, Accepted, Legacy, Timed
  <1>5. CASE AttitudeExpires  BY <1>5 DEF AttitudeExpires, Accepted
  <1>6. CASE Read
    <2>. DEFINE s == ReadOrder[step + 1]
    <2>1. /\ input' = input /\ handling' = handling
          /\ s \in Timed \cup {"status", "attitude"}
      BY <1>6 DEF Read, IInv, TypeOK, ReadOrder, Timed
    <2>2. CASE s \in Timed
      <3>1. ReadTimed(s)  BY <1>6, <2>2 DEF Read, Timed
      <3>. QED  BY <2>1, <2>2, <3>1 DEF ReadTimed, Accepted, Legacy, Timed
    <2>3. CASE s = "status"
      <3>1. ReadStatus  BY <1>6, <2>3 DEF Read, Timed
      <3>. QED  BY <2>1, <3>1 DEF ReadStatus, Accepted
    <2>4. CASE s = "attitude"
      <3>1. ReadAttitude  BY <1>6, <2>4 DEF Read, Timed
      <3>2. attitude = "off" => attitude' = "off" /\ reading' = reading
        BY <3>1 DEF ReadAttitude
      <3>. QED  BY <2>1, <3>2 DEF Accepted
    <2>. QED  BY <2>1, <2>2, <2>3, <2>4
  <1>7. CASE Act  BY <1>7 DEF Act, Accepted
  <1>8. CASE PositionSeen  BY <1>8 DEF PositionSeen, Accepted
  <1>9. CASE UNCHANGED vars  BY <1>9 DEF vars, Accepted
  <1>. QED  BY <1>1, <1>2, <1>3, <1>4, <1>5, <1>6, <1>7, <1>8, <1>9 DEF Next

\* An iteration's reading is one of those ModeEntry reckons with.
LEMMA ReadableNow ==
    ASSUME IInv, OnlyAccepted, NEW still \in BOOLEAN
    PROVE  Reading(still) \in Readable([legacy |-> LegacyAutomation,
                                        raw |-> LegacyAutomation /\ RawAttitude])
  <1>. DEFINE r == Reading(still)
  <1>1. /\ reading \subseteq Sources
        /\ fresh \in BOOLEAN
    BY DEF IInv, TypeOK
  <1>2. /\ "visual" \in reading => Serves \in {"manual", "visual"}
        /\ Serves \in {"visual", "release", "attitude", "velocity"} => Serves \in reading
        /\ reading \cap {"visual", "velocity", "attitude", "release"} # {}
              => Serves \in {"manual", "visual", "release", "attitude", "velocity"}
        /\ Serves \in Sources \cup {"centered"}
    BY <1>1 DEF Serves, Sources, States, Timed
  <1>3. /\ r.source \in {"manual", "visual", "release", "attitude", "velocity", "none"}
        /\ r.source = "none" => Serves \in {"yaw", "follow", "centered"}
        /\ r.source # "none" => r.source = Serves
    BY <1>2 DEF Reading, Sources, States, Timed
  <1>4. /\ r.visual \in BOOLEAN /\ r.automation \in BOOLEAN
        /\ r.fresh \in BOOLEAN /\ r.still \in BOOLEAN
    BY <1>1 DEF Reading
  <1>5. r \in Inputs
    <2>1. r = [source |-> r.source, visual |-> r.visual, automation |-> r.automation,
               fresh |-> r.fresh, still |-> r.still]
      BY DEF Reading
    <2>2. r \in [source : {"manual", "visual", "release", "attitude", "velocity", "none"},
                 visual : BOOLEAN, automation : BOOLEAN, fresh : BOOLEAN, still : BOOLEAN]
      BY <2>1, <1>3, <1>4
    <2>3. /\ r.visual => r.automation /\ r.source \in {"manual", "visual"}
          /\ r.source = "visual" => r.visual
          /\ r.source \in {"release", "attitude", "velocity"} => r.automation
          /\ r.source = "none" => ~ r.automation
      BY <1>2, <1>3 DEF Reading
    <2>4. /\ r.fresh => r.source = "visual"
          /\ r.still => r.fresh
      BY <1>2 DEF Reading
    <2>. QED  BY <2>2, <2>3, <2>4 DEF Inputs
  <1>6. r.automation /\ ~ r.visual => LegacyAutomation  BY DEF Reading, OnlyAccepted
  <1>7. r.source \in {"release", "attitude"} => LegacyAutomation /\ RawAttitude
    BY <1>2, <1>3 DEF OnlyAccepted
  <1>. QED  BY <1>5, <1>6, <1>7 DEF Readable

\* The readings the mode entry is checked and proved for are all the readings
\* the input states produce, and legacy inputs are only read where the MQTT
\* handler accepts them.
THEOREM ReadingsAreReadable == Spec => []ReadingIsReadable
  <1>1. Init => OnlyAccepted  BY DEF Init, OnlyAccepted, Legacy, Timed
  <1>2. IInv /\ OnlyAccepted /\ [Next]_vars => OnlyAccepted'  BY OnlyAcceptedInductive
  <1>3. IInv /\ OnlyAccepted => ReadingIsReadable  BY ReadableNow DEF ReadingIsReadable
  <1>. QED  BY <1>1, <1>2, <1>3, SpecIInv, PTL DEF Spec
=============================================================================
