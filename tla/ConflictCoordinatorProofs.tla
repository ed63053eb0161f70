--------------------- MODULE ConflictCoordinatorProofs ---------------------
(***************************************************************************)
(* Proofs about the right-of-way layer, for every number of release frames *)
(* and of encounters.  A filter call edits the shared state in five        *)
(* stages; each has a lemma, and the step of the call chains them.         *)
(***************************************************************************)
EXTENDS ConflictCoordinator, TLAPS

(* The encounter states, without the bound on the number of encounters. *)
Shapes == [encounter : Nat,
           active : BOOLEAN,
           priority : Drones \cup {None},
           releaseCount : 0 .. Threshold,
           suppressed : BOOLEAN,
           clearFrames : 0 .. ReleaseFrames,
           heading : Drones \cup {None},
           maneuver : {None, "horizontal", "vertical"}]

Engagement(s) ==
  /\ s.active => /\ s.priority # None
                 /\ ~s.suppressed
  /\ ~s.active => /\ s.releaseCount = 0
                  /\ s.maneuver = None
                  /\ s.heading = None

Turns(s) == s.priority # None => s.priority = Holder(s.encounter)

Lane(s) ==
  s.heading # None => /\ s.maneuver = "horizontal"
                      /\ s.heading # s.priority

Sound(s) ==
  /\ s \in Shapes
  /\ Engagement(s)
  /\ Turns(s)
  /\ Lane(s)

ReportsAgree ==
  \A d \in Drones :
    report[d].role \in {"priority", "yield"} =>
      (report[d].role = "priority" <=> d = Holder(report[d].encounter))

Counted == state.releaseCount <= confirmed

(* The right of way is vacant only if the last encounter was given up. *)
Vacancy ==
  /\ state.encounter > 0
  /\ state.priority = None
  => since # {}

IInv ==
  /\ TypeOK
  /\ Sound(state)
  /\ ReportsAgree
  /\ Counted
  /\ Vacancy

-----------------------------------------------------------------------------
(* The threshold is a positive number. *)
LEMMA ThresholdPositive == Threshold \in Nat \ {0}
<1>. DEFINE m == ReleaseFrames
            n == ObservationsPerFrame
<1>1. m \in Nat \ {0} /\ n \in Nat \ {0}  BY CoordinatorAssumption
<1>2. m * n \in Nat  BY <1>1
<1>3. m * n # 0  BY <1>1
<1> QED  BY <1>2, <1>3 DEF Threshold

LEMMA RearmSound ==
  ASSUME NEW s, Sound(s), NEW o \in Observations
  PROVE  LET t == Rearm(s, o)
         IN  /\ Sound(t)
             /\ t.encounter = s.encounter
             /\ t.active = s.active
             /\ t.releaseCount = s.releaseCount
             /\ t.maneuver = s.maneuver
             /\ t.heading = s.heading
             /\ t.priority = s.priority \/ Eases(o)
<1>. DEFINE quiet == IF o.threat THEN 0 ELSE s.clearFrames + 1
<1>1. CASE ~s.suppressed
  BY <1>1 DEF Rearm
<1>2. CASE s.suppressed /\ (Apart(o) \/ quiet >= ReleaseFrames)
  <2>1. Rearm(s, o) = [s EXCEPT !.suppressed = FALSE, !.priority = None,
                                !.clearFrames = 0]
    BY <1>2 DEF Rearm
  <2>2. ~s.active  BY <1>2 DEF Sound, Engagement
  <2>3. Eases(o)
    BY <1>2, CoordinatorAssumption DEF Eases, Observations
  <2>4. s \in Shapes /\ 0 \in 0 .. ReleaseFrames
    BY CoordinatorAssumption DEF Sound
  <2>5. /\ Rearm(s, o) \in Shapes
        /\ Rearm(s, o).encounter = s.encounter
        /\ Rearm(s, o).active = s.active
        /\ Rearm(s, o).priority = None
        /\ Rearm(s, o).suppressed = FALSE
        /\ Rearm(s, o).releaseCount = s.releaseCount
        /\ Rearm(s, o).maneuver = s.maneuver
        /\ Rearm(s, o).heading = s.heading
    BY <2>1, <2>4 DEF Shapes
  <2> QED
    BY <2>2, <2>3, <2>5 DEF Sound, Engagement, Turns, Lane
<1>3. CASE s.suppressed /\ ~(Apart(o) \/ quiet >= ReleaseFrames)
  <2>1. Rearm(s, o) = [s EXCEPT !.clearFrames = quiet]
    BY <1>3 DEF Rearm
  <2>2. quiet \in 0 .. ReleaseFrames
    BY <1>3, CoordinatorAssumption DEF Sound, Shapes, Observations
  <2> QED
    BY <2>1, <2>2 DEF Sound, Shapes, Engagement, Turns, Lane
<1> QED  BY <1>1, <1>2, <1>3 DEF Sound, Shapes

LEMMA LapseSound ==
  ASSUME NEW s, Sound(s), NEW o \in Observations
  PROVE  LET t == Lapse(s, o)
         IN  /\ Sound(t)
             /\ t.encounter = s.encounter
             /\ t.active = s.active
             /\ t.releaseCount = s.releaseCount
             /\ t.maneuver = s.maneuver
             /\ t.heading = s.heading
             /\ t.priority = s.priority \/ Eases(o)
  BY DEF Lapse, Eases, Sound, Shapes, Engagement, Turns, Lane

LEMMA HolderIsDrone == \A n \in Nat : Holder(n) \in Drones
  BY DEF Holder, Drones

LEMMA LatchSound ==
  ASSUME NEW s, Sound(s), NEW o \in Observations
  PROVE  LET t == Latch(s, o)
         IN  /\ Sound(t)
             /\ s.active => t = s
             /\ t.releaseCount = s.releaseCount
             /\ t.maneuver = s.maneuver
             /\ t.heading = s.heading
             /\ \/ /\ t.encounter = s.encounter
                   /\ t.priority = s.priority
                \/ /\ t.encounter = s.encounter + 1
                   /\ s.priority = None
                   /\ t.priority # None
<1>1. CASE ~(~s.active /\ ~s.suppressed /\ o.threat)
  BY <1>1 DEF Latch
<1>2. CASE /\ ~s.active /\ ~s.suppressed /\ o.threat
           /\ s.priority # None
  <2>1. Latch(s, o) = [s EXCEPT !.active = TRUE, !.releaseCount = 0]
    BY <1>2 DEF Latch, Begin
  <2> QED
    BY <1>2, <2>1, ThresholdPositive
    DEF Sound, Shapes, Engagement, Turns, Lane
<1>3. CASE /\ ~s.active /\ ~s.suppressed /\ o.threat
           /\ s.priority = None
  <2>. DEFINE n == s.encounter + 1
  <2>1. n \in Nat  BY DEF Sound, Shapes
  <2>2. Holder(n) \in Drones  BY <2>1, HolderIsDrone
  <2>3. Latch(s, o) = [s EXCEPT !.encounter = n, !.priority = Holder(n),
                                !.active = TRUE, !.releaseCount = 0]
    BY <1>3 DEF Latch, Begin, Sound, Shapes
  <2> HIDE DEF n
  <2>4. Latch(s, o) \in Shapes
    <3>1. s \in Shapes /\ 0 \in 0 .. Threshold
      BY ThresholdPositive DEF Sound
    <3> QED  BY <2>1, <2>2, <2>3, <3>1 DEF Shapes
  <2>5. n = s.encounter + 1  BY DEF n
  <2>6. /\ Latch(s, o).encounter = n
        /\ Latch(s, o).priority = Holder(n)
        /\ Latch(s, o).active = TRUE
        /\ Latch(s, o).releaseCount = 0
        /\ Latch(s, o).suppressed = s.suppressed
        /\ Latch(s, o).maneuver = s.maneuver
        /\ Latch(s, o).heading = s.heading
    BY <2>3 DEF Sound, Shapes
  <2> QED
    BY <1>3, <2>2, <2>4, <2>5, <2>6, CoordinatorAssumption
    DEF Sound, Engagement, Turns, Lane
<1> QED  BY <1>1, <1>2, <1>3

LEMMA CountSound ==
  ASSUME NEW s, Sound(s), NEW o \in Observations, config \in Configs,
         NEW c \in 0 .. Threshold, s.releaseCount <= c
  PROVE  LET t == CountRelease(s, o)
             d == IF ~Releasing(o) THEN 0
                  ELSE IF c = Threshold THEN Threshold ELSE c + 1
         IN  /\ Sound(t)
             /\ d \in 0 .. Threshold
             /\ t.releaseCount <= d
             /\ t.encounter = s.encounter
             /\ t.active => /\ t.priority = s.priority
                            /\ t.maneuver = s.maneuver
                            /\ t.heading = s.heading
             /\ s.active /\ ~t.active => d = Threshold
             /\ t.priority = s.priority \/ Eases(o)
<1>. DEFINE n == IF Releasing(o) THEN s.releaseCount + 1 ELSE 0
            d == IF ~Releasing(o) THEN 0
                 ELSE IF c = Threshold THEN Threshold ELSE c + 1
<1>1. s.releaseCount \in 0 .. Threshold  BY DEF Sound, Shapes
<1>2. n \in Nat /\ n <= Threshold + 1
  BY <1>1, ThresholdPositive
<1>3. d \in 0 .. Threshold /\ (n < Threshold => n <= d)
                           /\ (n >= Threshold => d = Threshold)
  BY <1>1, ThresholdPositive
<1>4. CASE ~s.active
  <2>1. s.releaseCount = 0  BY <1>4 DEF Sound, Engagement
  <2> QED  BY <1>3, <1>4, <2>1 DEF CountRelease
<1>5. CASE s.active /\ n >= Threshold
  <2>1. CountRelease(s, o) = LetGo(s, o)  BY <1>5 DEF CountRelease
  <2>2. Releasing(o)  BY <1>5, ThresholdPositive
  <2>3. ~config.atReserve => o.motion = "opening"
    BY <2>2 DEF Releasing
  <2>4. LetGo(s, o).priority \in {s.priority, None}
        /\ (LetGo(s, o).priority = s.priority \/ Eases(o))
    BY <2>3 DEF LetGo, Eases, Apart, Sound, Shapes
  <2>5. s \in Shapes /\ 0 \in 0 .. Threshold
    BY ThresholdPositive DEF Sound
  <2>6. /\ LetGo(s, o).releaseCount = 0
        /\ LetGo(s, o).encounter = s.encounter
        /\ LetGo(s, o).active = FALSE
        /\ LetGo(s, o).maneuver = None
        /\ LetGo(s, o).heading = None
    BY <2>5 DEF LetGo, Shapes
  <2>7. LetGo(s, o) \in Shapes
    <3>. DEFINE u == config.atReserve \/ s.suppressed
                p == IF ~config.atReserve /\ o.distance >= EncounterReset
                     THEN None ELSE s.priority
    <3>1. u \in BOOLEAN  OBVIOUS
    <3>2. p \in Drones \cup {None}  BY <2>5 DEF Shapes
    <3>3. LetGo(s, o) = [s EXCEPT !.active = FALSE, !.releaseCount = 0,
                                  !.heading = None, !.maneuver = None,
                                  !.suppressed = u, !.priority = p]
      BY DEF LetGo
    <3> HIDE DEF u, p
    <3> QED  BY <2>5, <3>1, <3>2, <3>3 DEF Shapes
  <2>8. Sound(LetGo(s, o))
    BY <2>4, <2>6, <2>7 DEF Sound, Engagement, Turns, Lane
  <2> QED  BY <1>3, <1>5, <2>1, <2>4, <2>6, <2>8
<1>6. CASE s.active /\ ~(n >= Threshold)
  <2>1. CountRelease(s, o) = [s EXCEPT !.releaseCount = n]
    BY <1>6 DEF CountRelease
  <2>2. n \in 0 .. Threshold /\ n <= d
    BY <1>2, <1>3, <1>6, ThresholdPositive
  <2> HIDE DEF n, d
  <2>3. /\ CountRelease(s, o) \in Shapes
        /\ CountRelease(s, o).releaseCount = n
        /\ CountRelease(s, o).encounter = s.encounter
        /\ CountRelease(s, o).active = s.active
        /\ CountRelease(s, o).priority = s.priority
        /\ CountRelease(s, o).suppressed = s.suppressed
        /\ CountRelease(s, o).maneuver = s.maneuver
        /\ CountRelease(s, o).heading = s.heading
    BY <2>1, <2>2 DEF Sound, Shapes
  <2>4. Sound(CountRelease(s, o))
    BY <1>6, <2>3 DEF Sound, Engagement, Turns, Lane
  <2>5. d \in 0 .. Threshold  BY <1>3 DEF d
  <2> QED  BY <1>6, <2>2, <2>3, <2>4, <2>5 DEF d
<1> QED  BY <1>2, <1>4, <1>5, <1>6

LEMMA ManeuverSound ==
  ASSUME NEW s, Sound(s), NEW o \in Observations, NEW d \in Drones
  PROVE  LET t == Maneuver(d, s, o)
         IN  /\ Sound(t)
             /\ t.encounter = s.encounter
             /\ t.active = s.active
             /\ t.priority = s.priority
             /\ t.releaseCount = s.releaseCount
             /\ s.maneuver # None => t.maneuver = s.maneuver
             /\ s.heading # None => t.heading = s.heading
<1>1. CASE ~config.lateral \/ Role(d, s) # "yield"
  BY <1>1 DEF Maneuver
<1>2. CASE config.lateral /\ Role(d, s) = "yield"
  <2>. DEFINE kind == IF s.maneuver = None THEN o.mission ELSE s.maneuver
              heading == IF /\ kind = "horizontal"
                            /\ o.mission = "horizontal"
                            /\ s.heading = None
                         THEN d ELSE s.heading
  <2>1. Maneuver(d, s, o) = [s EXCEPT !.maneuver = kind, !.heading = heading]
    BY <1>2 DEF Maneuver
  <2>2. s.active /\ s.priority # d  BY <1>2 DEF Role
  <2>3. kind \in {"horizontal", "vertical"}
    BY DEF Sound, Shapes, Observations, None
  <2>4. heading \in Drones \cup {None}  BY DEF Sound, Shapes
  <2>5. heading # None => kind = "horizontal" /\ heading # s.priority
    BY <2>2 DEF Sound, Lane, None
  <2>6. /\ s.maneuver # None => kind = s.maneuver
        /\ s.heading # None => heading = s.heading
    OBVIOUS
  <2> HIDE DEF kind, heading
  <2> QED
    BY <2>1, <2>2, <2>3, <2>4, <2>5, <2>6
    DEF Sound, Shapes, Engagement, Turns, Lane
<1> QED  BY <1>1, <1>2

-----------------------------------------------------------------------------
(* A whole filter call. *)
LEMMA FilterSound ==
  ASSUME TypeOK, Sound(state), Counted,
         NEW o \in Observations, NEW d \in Drones
  PROVE  LET t == Filtered(d, state, o)
             c == IF ~Releasing(o) THEN 0
                  ELSE IF confirmed = Threshold THEN Threshold
                  ELSE confirmed + 1
         IN  /\ Sound(t)
             /\ c \in 0 .. Threshold
             /\ t.releaseCount <= c
             /\ state.active /\ ~t.active => c = Threshold
             /\ t.encounter # state.encounter =>
                  state.priority = None \/ Eases(o)
             /\ t.priority = None =>
                  \/ Eases(o)
                  \/ /\ state.priority = None
                     /\ t.encounter = state.encounter
             /\ t.active =>
                  /\ state.maneuver # None => t.maneuver = state.maneuver
                  /\ state.heading # None => t.heading = state.heading
<1>. DEFINE r == Rearm(state, o)
            l == Lapse(r, o)
            b == Latch(l, o)
            k == CountRelease(b, o)
            t == Maneuver(d, k, o)
            c == IF ~Releasing(o) THEN 0
                 ELSE IF confirmed = Threshold THEN Threshold
                 ELSE confirmed + 1
<1>1. /\ Sound(r)
      /\ r.encounter = state.encounter
      /\ r.active = state.active
      /\ r.releaseCount = state.releaseCount
      /\ r.maneuver = state.maneuver
      /\ r.heading = state.heading
      /\ r.priority = state.priority \/ Eases(o)
  BY RearmSound
<1>2. /\ Sound(l)
      /\ l.encounter = r.encounter
      /\ l.active = r.active
      /\ l.releaseCount = r.releaseCount
      /\ l.maneuver = r.maneuver
      /\ l.heading = r.heading
      /\ l.priority = r.priority \/ Eases(o)
  BY <1>1, LapseSound
<1>3. /\ Sound(b)
      /\ l.active => b = l
      /\ b.releaseCount = l.releaseCount
      /\ b.maneuver = l.maneuver
      /\ b.heading = l.heading
      /\ \/ b.encounter = l.encounter /\ b.priority = l.priority
         \/ /\ b.encounter = l.encounter + 1
            /\ l.priority = None
            /\ b.priority # None
  BY <1>2, LatchSound
<1>4. config \in Configs /\ confirmed \in 0 .. Threshold
  BY DEF TypeOK
<1>5. b.releaseCount <= confirmed
  BY <1>1, <1>2, <1>3 DEF Counted
<1>6. /\ Sound(k)
      /\ c \in 0 .. Threshold
      /\ k.releaseCount <= c
      /\ k.encounter = b.encounter
      /\ k.active => /\ k.priority = b.priority
                     /\ k.maneuver = b.maneuver
                     /\ k.heading = b.heading
      /\ b.active /\ ~k.active => c = Threshold
      /\ k.priority = b.priority \/ Eases(o)
  BY <1>3, <1>4, <1>5, CountSound
<1>7. /\ Sound(t)
      /\ t.encounter = k.encounter
      /\ t.active = k.active
      /\ t.priority = k.priority
      /\ t.releaseCount = k.releaseCount
      /\ k.maneuver # None => t.maneuver = k.maneuver
      /\ k.heading # None => t.heading = k.heading
  BY <1>6, ManeuverSound
<1>8. t = Filtered(d, state, o)
  BY DEF Filtered, Settled
<1>9. state.active => b.active
  BY <1>1, <1>2, <1>3
<1> HIDE DEF r, l, b, k, t
<1> QED
  BY <1>1, <1>2, <1>3, <1>6, <1>7, <1>8, <1>9

-----------------------------------------------------------------------------
LEMMA InitInv == Init => IInv
<1> SUFFICES ASSUME Init  PROVE IInv
  OBVIOUS
<1>1. /\ 0 \in 0 .. MaxEncounters
      /\ 0 \in 0 .. Threshold
      /\ 0 \in 0 .. ReleaseFrames
  BY ThresholdPositive, CoordinatorAssumption
<1>2. state = [encounter |-> 0, active |-> FALSE, priority |-> None,
               releaseCount |-> 0, suppressed |-> FALSE, clearFrames |-> 0,
               heading |-> None, maneuver |-> None]
  BY DEF Init, FreshState
<1>3. state \in States
  BY <1>1, <1>2 DEF States
<1>4. Sound(state)
  BY <1>2, <1>3 DEF Sound, Shapes, States, Engagement, Turns, Lane
<1>5. report \in [Drones -> Reports]
  BY <1>1 DEF Init, Reports, Roles
<1>6. ReportsAgree
  BY DEF Init, ReportsAgree
<1>7. TypeOK
  BY <1>1, <1>3, <1>5 DEF Init, TypeOK
<1>8. state.releaseCount = 0 /\ state.encounter = 0 /\ confirmed = 0
  BY <1>2 DEF Init
<1>9. Counted /\ Vacancy
  BY <1>8 DEF Counted, Vacancy
<1> QED  BY <1>4, <1>6, <1>7, <1>9 DEF IInv

(* A sound state within the bound on the encounters is a State. *)
LEMMA SoundIsState ==
  ASSUME NEW s, Sound(s), s.encounter <= MaxEncounters
  PROVE  s \in States
<1>1. s \in Shapes  BY DEF Sound
<1>2. s.encounter \in 0 .. MaxEncounters
  BY <1>1, CoordinatorAssumption DEF Shapes
<1> QED  BY <1>1, <1>2 DEF Shapes, States

(* The role a sound state gives a vehicle agrees with whose turn it is. *)
LEMMA RoleAgrees ==
  ASSUME NEW s, Sound(s), NEW d \in Drones
  PROVE  /\ Role(d, s) \in Roles
         /\ Role(d, s) \in {"priority", "yield"} =>
              (Role(d, s) = "priority" <=> d = Holder(s.encounter))
  BY DEF Role, Roles, Sound, Engagement, Turns

LEMMA ObserveInv ==
  ASSUME IInv, NEW d \in Drones, NEW o \in Observations, Observe(d, o)
  PROVE  IInv'
<1>. DEFINE t == Filtered(d, state, o)
<1>1. /\ t.encounter <= MaxEncounters
      /\ state' = t
      /\ report' = [report EXCEPT ![d] = [role |-> Role(d, t),
                                          encounter |-> t.encounter]]
      /\ confirmed' = IF ~Releasing(o) THEN 0
                      ELSE IF confirmed = Threshold THEN Threshold
                      ELSE confirmed + 1
      /\ since' = (IF t.encounter # state.encounter THEN {} ELSE since)
                    \cup (IF Eases(o) THEN {"eased"} ELSE {})
      /\ threatened' = o.threat
      /\ config' = config
  BY DEF Observe
<1>2. TypeOK /\ Sound(state) /\ Counted /\ ReportsAgree /\ Vacancy
  BY DEF IInv
<1>3. /\ Sound(t)
      /\ confirmed' \in 0 .. Threshold
      /\ t.releaseCount <= confirmed'
      /\ t.priority = None => \/ Eases(o)
                              \/ /\ state.priority = None
                                 /\ t.encounter = state.encounter
  BY <1>1, <1>2, FilterSound
<1> HIDE DEF t
<1>4. t \in States
  BY <1>1, <1>3, SoundIsState
<1>5. report' \in [Drones -> Reports] /\ ReportsAgree'
  <2>1. /\ Role(d, t) \in Roles
        /\ Role(d, t) \in {"priority", "yield"} =>
             (Role(d, t) = "priority" <=> d = Holder(t.encounter))
    BY <1>3, RoleAgrees
  <2>2. t.encounter \in 0 .. MaxEncounters  BY <1>4 DEF States
  <2>3. report \in [Drones -> Reports]  BY <1>2 DEF TypeOK
  <2>4. [role |-> Role(d, t), encounter |-> t.encounter] \in Reports
    BY <2>1, <2>2 DEF Reports
  <2>5. report' \in [Drones -> Reports]
    BY <1>1, <2>3, <2>4
  <2>6. /\ report'[d].role = Role(d, t)
        /\ report'[d].encounter = t.encounter
        /\ \A e \in Drones \ {d} : report'[e] = report[e]
    BY <1>1, <2>3
  <2> HIDE DEF Reports
  <2> QED  BY <1>2, <2>1, <2>5, <2>6 DEF ReportsAgree
<1>6. since' \in SUBSET {"eased", "reset"}
  BY <1>1, <1>2 DEF TypeOK
<1>7. TypeOK'
  BY <1>1, <1>2, <1>3, <1>4, <1>5, <1>6 DEF TypeOK, Observations
<1>8. Vacancy'
  BY <1>1, <1>2, <1>3 DEF Vacancy
<1> QED
  BY <1>1, <1>3, <1>5, <1>7, <1>8 DEF IInv, Sound, Shapes, Engagement, Turns, Lane,
     Counted

LEMMA StandDownInv ==
  ASSUME IInv, NEW d \in Drones, StandDown(d)
  PROVE  IInv'
<1>1. /\ state' = [FreshState EXCEPT !.encounter = state.encounter]
      /\ report' = [report EXCEPT ![d] = [role |-> "disabled",
                                          encounter |-> 0]]
      /\ since' = since \cup {"reset"}
      /\ UNCHANGED <<config, confirmed, threatened>>
  BY DEF StandDown
<1>2. /\ TypeOK
      /\ ReportsAgree
      /\ state.encounter \in 0 .. MaxEncounters
  BY DEF IInv, TypeOK, States
<1>3. state' = [encounter |-> state.encounter, active |-> FALSE,
                priority |-> None, releaseCount |-> 0, suppressed |-> FALSE,
                clearFrames |-> 0, heading |-> None, maneuver |-> None]
  BY <1>1 DEF FreshState
<1>4. state' \in States
  BY <1>2, <1>3, ThresholdPositive, CoordinatorAssumption DEF States
<1>5. Sound(state)'
  BY <1>3, <1>4, CoordinatorAssumption
  DEF Sound, Shapes, States, Engagement, Turns, Lane
<1>6. report' \in [Drones -> Reports] /\ ReportsAgree'
  BY <1>1, <1>2, CoordinatorAssumption
  DEF TypeOK, Reports, Roles, ReportsAgree
<1>7. Counted'
  BY <1>1, <1>2, <1>3, ThresholdPositive DEF Counted, TypeOK
<1>8. Vacancy'
  BY <1>1 DEF Vacancy
<1>9. TypeOK'
  BY <1>1, <1>2, <1>4, <1>6 DEF TypeOK
<1> QED  BY <1>5, <1>6, <1>7, <1>8, <1>9 DEF IInv

LEMMA RefuseInv ==
  ASSUME IInv, NEW d \in Drones, Refuse(d)
  PROVE  IInv'
<1>1. /\ report' = [report EXCEPT ![d] = [role |-> "fallback",
                                          encounter |-> 0]]
      /\ UNCHANGED <<config, state, confirmed, since, threatened>>
  BY DEF Refuse
<1>2. report' \in [Drones -> Reports] /\ ReportsAgree'
  BY <1>1, CoordinatorAssumption
  DEF IInv, TypeOK, Reports, Roles, ReportsAgree
<1> QED
  BY <1>1, <1>2
  DEF IInv, TypeOK, Sound, Engagement, Turns, Lane, Counted, Vacancy

LEMMA NextInv == IInv /\ [Next]_vars => IInv'
<1> SUFFICES ASSUME IInv, [Next]_vars  PROVE IInv'
  OBVIOUS
<1>1. CASE UNCHANGED vars
  BY <1>1
  DEF vars, IInv, TypeOK, Sound, Engagement, Turns, Lane, ReportsAgree,
      Counted, Vacancy
<1>2. ASSUME NEW d \in Drones, NEW o \in Observations, Observe(d, o)
      PROVE  IInv'
  BY <1>2, ObserveInv
<1>3. ASSUME NEW d \in Drones, StandDown(d)  PROVE IInv'
  BY <1>3, StandDownInv
<1>4. ASSUME NEW d \in Drones, Refuse(d)  PROVE IInv'
  BY <1>4, RefuseInv
<1> QED  BY <1>1, <1>2, <1>3, <1>4 DEF Next

LEMMA Invariance == Spec => []IInv
  BY InitInv, NextInv, PTL DEF Spec

-----------------------------------------------------------------------------
(* Every state of the layer is one the code's types allow. *)
THEOREM TypeCorrect == Spec => []TypeOK
  BY Invariance, PTL DEF IInv

(***************************************************************************)
(* Two vehicles that last acted in the same encounter never both go first  *)
(* and never both yield.                                                   *)
(***************************************************************************)
THEOREM RolesDiffer == Spec => []OneRightOfWay
<1>1. IInv => OneRightOfWay
  <2> SUFFICES ASSUME IInv, NEW d \in Drones, NEW e \in Drones, d # e,
                      report[d].encounter = report[e].encounter,
                      {report[d].role, report[e].role}
                        \subseteq {"priority", "yield"}
               PROVE  {report[d].role, report[e].role}
                        = {"priority", "yield"}
    BY DEF OneRightOfWay
  <2>. DEFINE h == Holder(report[d].encounter)
  <2>1. /\ report[d].role = "priority" <=> d = h
        /\ report[e].role = "priority" <=> e = h
    BY DEF IInv, ReportsAgree
  <2>2. d = h \/ e = h
    BY DEF Holder, Drones
  <2> QED  BY <2>1, <2>2
<1> QED  BY Invariance, <1>1, PTL

(* A lane change is always the present yielding vehicle's own. *)
THEOREM LaneChangeOwned == Spec => []LaneChangeIsYielders
<1>1. IInv => LaneChangeIsYielders
  BY DEF IInv, Sound, Engagement, Lane, LaneChangeIsYielders
<1> QED  BY Invariance, <1>1, PTL

(***************************************************************************)
(* The right of way passes on only once a conflict was seen to ease, or a  *)
(* vehicle stood down.                                                     *)
(***************************************************************************)
THEOREM HeldUntilEased == Spec => RightOfWayIsHeld
<1>1. ASSUME IInv, [Next]_vars, state.encounter > 0,
             state'.encounter # state.encounter
      PROVE  since \cup since' # {}
  <2>1. ASSUME NEW d \in Drones, NEW o \in Observations, Observe(d, o)
        PROVE  since \cup since' # {}
    <3>1. state' = Filtered(d, state, o) /\ (Eases(o) => "eased" \in since')
      BY <2>1 DEF Observe
    <3>2. state.priority = None \/ Eases(o)
      BY <1>1, <3>1, FilterSound DEF IInv
    <3> QED  BY <1>1, <3>1, <3>2 DEF IInv, Vacancy
  <2>2. ASSUME NEW d \in Drones, StandDown(d)
        PROVE  since \cup since' # {}
    BY <2>2 DEF StandDown
  <2>3. ASSUME NEW d \in Drones, Refuse(d)
        PROVE  FALSE
    BY <1>1, <2>3 DEF Refuse
  <2> QED  BY <1>1, <2>1, <2>2, <2>3 DEF Next, vars
<1> QED  BY Invariance, <1>1, PTL DEF Spec, RightOfWayIsHeld

(* An encounter ends only after a full row of releasing observations. *)
THEOREM ReleaseConfirmed == Spec => ReleaseIsConfirmed
<1>1. ASSUME IInv, [Next]_vars, state.active, ~state'.active
      PROVE  confirmed' = Threshold \/ \E d \in Drones : StandDown(d)
  <2>1. ASSUME NEW d \in Drones, NEW o \in Observations, Observe(d, o)
        PROVE  confirmed' = Threshold
    <3>1. /\ state' = Filtered(d, state, o)
          /\ confirmed' = IF ~Releasing(o) THEN 0
                          ELSE IF confirmed = Threshold THEN Threshold
                          ELSE confirmed + 1
      BY <2>1 DEF Observe
    <3> QED  BY <1>1, <3>1, FilterSound DEF IInv
  <2>2. ASSUME NEW d \in Drones, Refuse(d)  PROVE FALSE
    BY <1>1, <2>2 DEF Refuse
  <2> QED  BY <1>1, <2>1, <2>2 DEF Next, vars
<1> QED  BY Invariance, <1>1, PTL DEF Spec, ReleaseIsConfirmed

(* A lane change, once taken, is kept with its drone until the encounter ends. *)
THEOREM LaneChangeKept == Spec => LaneChangeIsKept
<1>1. ASSUME IInv, [Next]_vars, state'.active
      PROVE  /\ state.maneuver # None => state'.maneuver = state.maneuver
             /\ state.heading # None => state'.heading = state.heading
  <2>1. ASSUME NEW d \in Drones, NEW o \in Observations, Observe(d, o)
        PROVE  /\ state.maneuver # None => state'.maneuver = state.maneuver
               /\ state.heading # None => state'.heading = state.heading
    <3>1. state' = Filtered(d, state, o)
      BY <2>1 DEF Observe
    <3> QED  BY <1>1, <3>1, FilterSound DEF IInv
  <2>2. ASSUME NEW d \in Drones, StandDown(d)  PROVE FALSE
    BY <1>1, <2>2 DEF StandDown, FreshState
  <2>3. ASSUME NEW d \in Drones, Refuse(d)  PROVE state' = state
    BY <2>3 DEF Refuse
  <2> QED  BY <1>1, <2>1, <2>2, <2>3 DEF Next, vars
<1> QED  BY Invariance, <1>1, PTL DEF Spec, LaneChangeIsKept

-----------------------------------------------------------------------------
(* How a suppression ends.  That it does under fairness stays with TLC;    *)
(* what is proved is the measure that makes it true.                       *)

(* The quiet frames are counted under a suppression, and never to the end. *)
Quiet(s) == s.clearFrames < IF s.suppressed THEN ReleaseFrames ELSE 1

LEMMA RearmQuiet ==
  ASSUME NEW s, Sound(s), Quiet(s), NEW o \in Observations
  PROVE  LET t == Rearm(s, o)
         IN  /\ Quiet(t)
             /\ s.suppressed /\ ~o.threat =>
                  \/ ~t.suppressed
                  \/ t.clearFrames = s.clearFrames + 1
             /\ s.suppressed /\ ~t.suppressed =>
                  \/ Apart(o)
                  \/ ~o.threat /\ s.clearFrames + 1 = ReleaseFrames
<1>. DEFINE quiet == IF o.threat THEN 0 ELSE s.clearFrames + 1
<1>1. /\ ReleaseFrames \in Nat \ {0}
      /\ s.clearFrames \in 0 .. ReleaseFrames
      /\ s \in Shapes
  BY CoordinatorAssumption DEF Sound, Shapes
<1>2. CASE ~s.suppressed
  BY <1>2 DEF Rearm
<1>3. CASE s.suppressed /\ (Apart(o) \/ quiet >= ReleaseFrames)
  <2>1. Rearm(s, o) = [s EXCEPT !.suppressed = FALSE, !.priority = None,
                                !.clearFrames = 0]
    BY <1>3 DEF Rearm
  <2>2. ~Rearm(s, o).suppressed /\ Rearm(s, o).clearFrames = 0
    BY <1>1, <2>1 DEF Shapes
  <2>3. s.clearFrames < ReleaseFrames  BY <1>3 DEF Quiet
  <2>4. Apart(o) \/ (~o.threat /\ s.clearFrames + 1 = ReleaseFrames)
    BY <1>1, <1>3, <2>3
  <2> QED  BY <1>3, <2>2, <2>4 DEF Quiet
<1>4. CASE s.suppressed /\ ~(Apart(o) \/ quiet >= ReleaseFrames)
  <2>1. Rearm(s, o) = [s EXCEPT !.clearFrames = quiet]
    BY <1>4 DEF Rearm
  <2>2. Rearm(s, o).suppressed /\ Rearm(s, o).clearFrames = quiet
    BY <1>1, <1>4, <2>1 DEF Shapes
  <2>3. quiet < ReleaseFrames  BY <1>1, <1>4
  <2> QED  BY <1>4, <2>2, <2>3 DEF Quiet
<1> QED  BY <1>2, <1>3, <1>4

(* The stages after Rearm leave the count alone and never lift anything. *)
LEMMA SettleQuiet ==
  ASSUME NEW s, Sound(s), NEW o \in Observations, NEW d \in Drones
  PROVE  LET t == Maneuver(d, CountRelease(Latch(Lapse(s, o), o), o), o)
         IN  /\ t.clearFrames = s.clearFrames
             /\ s.suppressed => t.suppressed
             /\ ~s.active /\ ~o.threat => t.suppressed = s.suppressed
<1>. DEFINE l == Lapse(s, o)
            b == Latch(l, o)
            k == CountRelease(b, o)
            t == Maneuver(d, k, o)
<1>1. s \in Shapes  BY DEF Sound
<1>2. /\ l \in Shapes
      /\ l.clearFrames = s.clearFrames
      /\ l.suppressed = s.suppressed
      /\ l.active = s.active
  BY <1>1 DEF Lapse, Shapes
<1>3. /\ DOMAIN b = DOMAIN l
      /\ b.clearFrames = l.clearFrames
      /\ b.suppressed = l.suppressed
      /\ ~o.threat => b.active = l.active
  BY <1>2 DEF Latch, Begin, Shapes
<1>. DEFINE fields == {"encounter", "active", "priority", "releaseCount",
                       "suppressed", "clearFrames", "heading", "maneuver"}
<1>4. DOMAIN b = fields  BY <1>2, <1>3 DEF Shapes
<1> HIDE DEF l, b
<1>5. /\ DOMAIN k = DOMAIN b
      /\ k.clearFrames = b.clearFrames
      /\ b.suppressed => k.suppressed
      /\ ~b.active => k = b
  BY <1>4 DEF CountRelease, LetGo
<1> HIDE DEF k
<1>6. t.clearFrames = k.clearFrames /\ t.suppressed = k.suppressed
  BY <1>4, <1>5 DEF Maneuver
<1> QED  BY <1>2, <1>3, <1>5, <1>6 DEF l, b, k

LEMMA FilterQuiet ==
  ASSUME NEW s, Sound(s), Quiet(s), NEW o \in Observations,
         NEW d \in Drones
  PROVE  LET t == Filtered(d, s, o)
         IN  /\ Quiet(t)
             /\ s.suppressed /\ ~o.threat =>
                  \/ ~t.suppressed
                  \/ t.clearFrames = s.clearFrames + 1
             /\ s.suppressed /\ ~t.suppressed =>
                  \/ Apart(o)
                  \/ ~o.threat /\ s.clearFrames + 1 = ReleaseFrames
<1>. DEFINE r == Rearm(s, o)
            t == Filtered(d, s, o)
<1>1. /\ Sound(r)
      /\ r.active = s.active
      /\ s.suppressed => ~s.active
  BY RearmSound DEF Sound, Engagement
<1>2. /\ Quiet(r)
      /\ s.suppressed /\ ~o.threat =>
           \/ ~r.suppressed
           \/ r.clearFrames = s.clearFrames + 1
      /\ s.suppressed /\ ~r.suppressed =>
           \/ Apart(o)
           \/ ~o.threat /\ s.clearFrames + 1 = ReleaseFrames
  BY RearmQuiet
<1>3. t = Maneuver(d, CountRelease(Latch(Lapse(r, o), o), o), o)
  BY DEF Filtered, Settled
<1> HIDE DEF r, t
<1>4. /\ t.clearFrames = r.clearFrames
      /\ r.suppressed => t.suppressed
      /\ ~r.active /\ ~o.threat => t.suppressed = r.suppressed
  BY <1>1, <1>3, SettleQuiet
<1>5. Quiet(t)
  BY <1>1, <1>2, <1>4, CoordinatorAssumption DEF Quiet, Sound, Shapes
<1> QED  BY <1>1, <1>2, <1>4, <1>5 DEF t

(* A suppressed pair always has quiet frames left to count. *)
QuietIsCounted == Quiet(state)

LEMMA QuietInvariance == Spec => []QuietIsCounted
<1>1. Init => QuietIsCounted
  BY CoordinatorAssumption DEF Init, FreshState, QuietIsCounted, Quiet
<1>2. ASSUME IInv, QuietIsCounted, [Next]_vars  PROVE QuietIsCounted'
  <2>1. ASSUME NEW d \in Drones, NEW o \in Observations, Observe(d, o)
        PROVE  Quiet(state')
    BY <1>2, <2>1, FilterQuiet DEF Observe, IInv, QuietIsCounted
  <2>2. ASSUME NEW d \in Drones, StandDown(d)
        PROVE  Quiet(state')
    BY <2>2, CoordinatorAssumption DEF StandDown, FreshState, Quiet
  <2>3. ASSUME NEW d \in Drones, Refuse(d)
        PROVE  state' = state
    BY <2>3 DEF Refuse
  <2> QED
    BY <1>2, <2>1, <2>2, <2>3 DEF Next, vars, QuietIsCounted
<1> QED  BY Invariance, <1>1, <1>2, PTL DEF Spec

(* Every quiet observation counts towards the end of a suppression. *)
QuietFrameCounts ==
  \A d \in Drones : \A o \in Observations :
    Observe(d, o) /\ ~o.threat =>
      \/ ~state'.suppressed
      \/ state'.clearFrames = state.clearFrames + 1

(* What may end one. *)
SuppressionEnds ==
  \/ \E d \in Drones : StandDown(d)
  \/ \E d \in Drones : \E o \in Observations :
       /\ Observe(d, o)
       /\ \/ Apart(o)
          \/ ~o.threat /\ state.clearFrames + 1 = ReleaseFrames

SuppressionStep ==
  state.suppressed => /\ QuietFrameCounts
                      /\ ~state'.suppressed => SuppressionEnds

(***************************************************************************)
(* A suppression neither stays on in a quiet sky nor is lifted early.      *)
(* Every quiet observation counts towards the ReleaseFrames that end it,   *)
(* and it ends only there, on a pair seen far apart and opening, or when a *)
(* vehicle stands down.                                                    *)
(***************************************************************************)
SuppressionRunsDown == []QuietIsCounted /\ [][SuppressionStep]_vars

(***************************************************************************)
(* The measure behind SuppressionLifts: a suppression lasts for at most    *)
(* ReleaseFrames observations without a predicted conflict.                *)
(***************************************************************************)
THEOREM SuppressionMeasured == Spec => SuppressionRunsDown
<1>1. ASSUME IInv, QuietIsCounted, [Next]_vars  PROVE [SuppressionStep]_vars
  <2>1. CASE UNCHANGED vars
    BY <2>1
  <2>2. CASE Next /\ state.suppressed
    <3>1. ASSUME NEW d \in Drones, NEW o \in Observations, Observe(d, o)
          PROVE  /\ ~o.threat =>
                      \/ ~state'.suppressed
                      \/ state'.clearFrames = state.clearFrames + 1
                 /\ ~state'.suppressed =>
                      \/ Apart(o)
                      \/ ~o.threat /\ state.clearFrames + 1 = ReleaseFrames
      BY <1>1, <2>2, <3>1, FilterQuiet DEF Observe, IInv, QuietIsCounted
    <3>2. QuietFrameCounts
      BY <3>1 DEF QuietFrameCounts
    <3>3. ASSUME NEW d \in Drones, Refuse(d)  PROVE state' = state
      BY <3>3 DEF Refuse
    <3>4. ~state'.suppressed => SuppressionEnds
      BY <2>2, <3>1, <3>3 DEF Next, SuppressionEnds
    <3> QED  BY <3>2, <3>4 DEF SuppressionStep
  <2>3. CASE ~state.suppressed
    BY <2>3 DEF SuppressionStep
  <2> QED  BY <1>1, <2>1, <2>2, <2>3
<1> QED
  BY Invariance, QuietInvariance, <1>1, PTL DEF Spec, SuppressionRunsDown

=============================================================================
