-------------------------- MODULE PeerStateProofs --------------------------
(***************************************************************************)
(* Proofs about the peer-state distribution, for any number of peers and   *)
(* any timing: how much age the gate does not see, and that no peer ever   *)
(* steps back to an older sample.                                          *)
(***************************************************************************)
EXTENDS PeerState, TLAPS

(* A datagram ages in the network only. *)
PacketAges == \A p \in network : p.sampleAge <= OldestSent + p.transit

EntryAges ==
  \A r \in Peers :
    /\ registry[r].last >= 0
    /\ registry[r].receivedAge <= OldestSent
    => registry[r].sampleAge <= registry[r].receivedAge + OldestSent + MaxDelay

(* Numbers and ages of what is under way order the samples alike. *)
NumbersOrder ==
  /\ \A p \in network : p.sequence <= sequence
  /\ \A p, q \in network :
       q.sequence < p.sequence => p.sampleAge <= q.sampleAge

(* A sample that may be published is no older than any published before. *)
SourceIsNewest ==
  sampleAge <= OldestSent =>
    /\ \A p \in network : sampleAge <= p.sampleAge
    /\ \A r \in Peers : sampleAge <= registry[r].sampleAge

(* What a peer would still accept is no older than what it has. *)
AcceptableIsNewer ==
  \A p \in network :
    p.sequence > registry[p.to].last =>
      p.sampleAge <= registry[p.to].sampleAge

IInv ==
  /\ TypeOK
  /\ PacketAges
  /\ EntryAges
  /\ NumbersOrder
  /\ SourceIsNewest
  /\ AcceptableIsNewer

-----------------------------------------------------------------------------
LEMMA Constants ==
  /\ MaxAge \in Nat /\ MaxIteration \in Nat /\ MaxDelay \in Nat
  /\ OldestSent \in Nat /\ OldestSent = MaxAge + MaxIteration
  /\ PeriodCap \in Nat /\ MaxIteration <= PeriodCap
  /\ MaxSequence \in Nat
  /\ Len(Endpoints) \in Nat
  /\ \A i \in 1 .. Len(Endpoints) : Endpoints[i] \in Peers
<1>1. Endpoints \in Seq(Peers)  BY PeerStateAssumption
<1>2. DOMAIN Endpoints = 1 .. Len(Endpoints) /\ Len(Endpoints) \in Nat
  BY <1>1
<1> QED  BY <1>2, PeerStateAssumption DEF Peers, OldestSent, PeriodCap

LEMMA NoEntryTyped == NoEntry \in Entries
  BY Constants DEF NoEntry, Entries, SourceCap, TruthCap

(* The components of a well-typed state. *)
LEMMA Typed ==
  ASSUME TypeOK
  PROVE  /\ sampleAge \in Nat /\ sequence \in Nat
         /\ \A p \in network :
              /\ p \in Packets
              /\ p.to \in Peers
              /\ p.sequence \in Nat /\ p.sampleAge \in Nat
              /\ p.transit \in Nat /\ p.transit <= MaxDelay
              /\ p.sampleAge <= OldestSent + MaxDelay
         /\ \A r \in Peers :
              /\ registry[r] \in Entries
              /\ registry[r].last \in Int
              /\ registry[r].receivedAge \in Nat
              /\ registry[r].sampleAge \in Nat
  BY Constants DEF TypeOK, Packets, Entries, SourceCap, TruthCap

LEMMA InitInv == Init => IInv
<1> SUFFICES ASSUME Init  PROVE IInv
  OBVIOUS
<1>1. network = {} /\ sampleAge = OldestSent + 1
  BY DEF Init, SourceCap
<1>2. TypeOK
  BY <1>1, NoEntryTyped, Constants DEF Init, TypeOK, SourceCap, Between
<1>3. \A r \in Peers : registry[r].last = -1
  BY DEF Init, NoEntry
<1>4. EntryAges
  BY <1>3 DEF EntryAges
<1>5. PacketAges /\ NumbersOrder /\ AcceptableIsNewer
  BY <1>1 DEF PacketAges, NumbersOrder, AcceptableIsNewer
<1>6. SourceIsNewest
  BY <1>1, Constants DEF SourceIsNewest
<1> QED  BY <1>2, <1>4, <1>5, <1>6 DEF IInv

-----------------------------------------------------------------------------
(* The steps of the publisher. *)
LEMMA SampleArrivesInv == IInv /\ SampleArrives => IInv'
<1> SUFFICES ASSUME IInv, SampleArrives  PROVE IInv'
  OBVIOUS
<1>1. /\ sampleAge' = 0
      /\ UNCHANGED <<sequence, sincePublish, elapsed, network, registry>>
  BY DEF SampleArrives
<1>2. TypeOK  BY DEF IInv
<1>3. TypeOK'
  BY <1>1, <1>2, Constants DEF TypeOK, SourceCap
<1>4. SourceIsNewest'
  BY <1>1, <1>2, Typed DEF SourceIsNewest
<1> QED
  BY <1>1, <1>3, <1>4
  DEF IInv, PacketAges, EntryAges, NumbersOrder, AcceptableIsNewer

(* The clock readings of an iteration disturb no sample. *)
LEMMA IterationInv == IInv /\ (IterationStarts \/ NothingPublished) => IInv'
<1> SUFFICES ASSUME IInv, IterationStarts \/ NothingPublished  PROVE IInv'
  OBVIOUS
<1>1. /\ elapsed' \in {0, Between}
      /\ UNCHANGED <<sampleAge, sequence, sincePublish, network, registry>>
  BY DEF IterationStarts, NothingPublished
<1>2. TypeOK'
  BY <1>1, Constants DEF IInv, TypeOK, Between
<1> QED
  BY <1>1, <1>2
  DEF IInv, PacketAges, EntryAges, NumbersOrder, SourceIsNewest,
      AcceptableIsNewer

LEMMA PublishInv ==
  ASSUME IInv, NEW n \in 0 .. Len(Endpoints), NEW h \in BOOLEAN, Publish(n, h)
  PROVE  IInv'
<1>. DEFINE sent == {Datagram(Endpoints[i], h) : i \in 1 .. n}
<1>1. /\ network' = network \cup sent
      /\ sampleAge \in 0 .. OldestSent
      /\ sequence' \in {sequence, sequence + 1}
      /\ sequence < MaxSequence
      /\ sincePublish' \in {elapsed, sincePublish}
      /\ elapsed \in 0 .. MaxIteration /\ elapsed' = Between
      /\ UNCHANGED <<sampleAge, registry>>
  <2>1. elapsed \in 0 .. MaxIteration /\ sampleAge \in Nat
    BY Constants DEF Publish, IInv, TypeOK, SourceCap, Between
  <2>2. AgeThen(sampleAge, elapsed) <= MaxAge
    BY DEF Publish, Publishable
  <2>3. sampleAge \in 0 .. OldestSent
    BY <2>1, <2>2, Constants DEF AgeThen
  <2> QED  BY <2>1, <2>3 DEF Publish
<1>2. /\ TypeOK /\ PacketAges /\ EntryAges /\ NumbersOrder
      /\ SourceIsNewest /\ AcceptableIsNewer
  BY DEF IInv
<1>3. \A p \in sent : /\ p \in Packets
                      /\ p.sequence = sequence
                      /\ p.sampleAge = sampleAge
                      /\ p.transit = 0
  <2>1. \A i \in 1 .. n : Endpoints[i] \in Peers
    BY Constants
  <2>2. sampleAge \in 0 .. OldestSent + MaxDelay /\ 0 \in 0 .. MaxDelay
    BY <1>1, Constants
  <2> QED  BY <2>1, <2>2, <1>2 DEF Datagram, Packets, TypeOK
<1> HIDE DEF sent
<1>4. TypeOK'
  <2>1. sequence' \in 0 .. MaxSequence /\ sincePublish' \in 0 .. PeriodCap
        /\ elapsed' \in Between .. MaxIteration
    BY <1>1, <1>2, Constants DEF TypeOK, Between
  <2> QED  BY <2>1, <1>1, <1>2, <1>3 DEF TypeOK
<1>5. PacketAges'
  BY <1>1, <1>2, <1>3, Constants DEF PacketAges
<1>6. EntryAges'
  BY <1>1, <1>2 DEF EntryAges
<1>7. SourceIsNewest'
  BY <1>1, <1>2, <1>3 DEF SourceIsNewest
<1>8. NumbersOrder'
  <2>1. \A p \in network' : p.sequence <= sequence /\ sequence <= sequence'
    BY <1>1, <1>2, <1>3, Typed DEF NumbersOrder
  <2>2. ASSUME NEW p \in network', NEW q \in network',
               q.sequence < p.sequence
        PROVE  p.sampleAge <= q.sampleAge
    <3>1. q \in network
      BY <2>1, <2>2, <1>1, <1>2, <1>3, Typed
    <3>2. CASE p \in network
      BY <3>1, <3>2, <2>2, <1>2 DEF NumbersOrder
    <3>3. CASE p \in sent
      BY <3>1, <3>3, <1>1, <1>2, <1>3 DEF SourceIsNewest
    <3> QED  BY <3>2, <3>3, <1>1
  <2>3. \A p \in network' : p.sequence <= sequence'
    BY <2>1, <1>1, <1>2, <1>3, Typed
  <2> QED  BY <2>2, <2>3 DEF NumbersOrder
<1>9. AcceptableIsNewer'
  <2> SUFFICES ASSUME NEW p \in network', p.sequence > registry[p.to].last
               PROVE  p.sampleAge <= registry[p.to].sampleAge
    BY <1>1 DEF AcceptableIsNewer
  <2>1. CASE p \in network
    BY <2>1, <1>2 DEF AcceptableIsNewer
  <2>2. CASE p \in sent
    <3>1. p.to \in Peers /\ p.sampleAge = sampleAge
      BY <2>2, <1>3 DEF Packets
    <3> QED  BY <3>1, <1>1, <1>2 DEF SourceIsNewest
  <2> QED  BY <2>1, <2>2, <1>1
<1> QED  BY <1>4, <1>5, <1>6, <1>7, <1>8, <1>9 DEF IInv

LEMMA PublisherRestartsInv == IInv /\ PublisherRestarts => IInv'
<1> SUFFICES ASSUME IInv, PublisherRestarts  PROVE IInv'
  OBVIOUS
<1>1. /\ network' = {} /\ sequence' = 0 /\ sincePublish' = PeriodCap
      /\ elapsed' = Between
      /\ sampleAge' = OldestSent + 1 /\ registry' = registry
  BY DEF PublisherRestarts, SourceCap
<1>2. TypeOK'
  BY <1>1, Constants DEF IInv, TypeOK, SourceCap, Between
<1>3. EntryAges'
  BY <1>1 DEF IInv, EntryAges
<1>4. SourceIsNewest'
  BY <1>1, Constants DEF SourceIsNewest
<1>5. (PacketAges /\ NumbersOrder /\ AcceptableIsNewer)'
  BY <1>1 DEF PacketAges, NumbersOrder, AcceptableIsNewer
<1> QED  BY <1>2, <1>3, <1>4, <1>5 DEF IInv

-----------------------------------------------------------------------------
(* The steps of a peer and of the network. *)
LEMMA DeliverInv ==
  ASSUME IInv, NEW d \in network, NEW again \in BOOLEAN, Deliver(d, again)
  PROVE  /\ IInv'
         /\ \A r \in Peers : registry'[r].sampleAge <= registry[r].sampleAge
<1>1. /\ registry' = [registry EXCEPT ![d.to] = Ingest(registry[d.to], d)]
      /\ network' \subseteq network
      /\ UNCHANGED <<sampleAge, sequence, sincePublish, elapsed>>
  BY DEF Deliver
<1>2. /\ TypeOK /\ PacketAges /\ EntryAges /\ NumbersOrder
      /\ SourceIsNewest /\ AcceptableIsNewer
  BY DEF IInv
<1>3. registry \in [Peers -> Entries] /\ d.to \in Peers /\ d \in Packets
  BY <1>2 DEF TypeOK, Packets
<1>4. CASE d.sequence <= registry[d.to].last
  <2>1. registry' = registry
    BY <1>1, <1>3, <1>4 DEF Ingest
  <2>2. TypeOK'
    BY <2>1, <1>1, <1>2 DEF TypeOK
  <2>3. \A r \in Peers : registry'[r].sampleAge <= registry[r].sampleAge
    BY <2>1, <1>2, Typed
  <2> QED
    BY <2>1, <2>2, <2>3, <1>1, <1>2
    DEF IInv, PacketAges, EntryAges, NumbersOrder, SourceIsNewest,
        AcceptableIsNewer
<1>5. CASE ~(d.sequence <= registry[d.to].last)
  <2>1. /\ registry'[d.to] = Received(d)
        /\ \A r \in Peers \ {d.to} : registry'[r] = registry[r]
    BY <1>1, <1>3, <1>5 DEF Ingest
  <2>2. /\ Received(d).last = d.sequence
        /\ Received(d).receivedAge = 0
        /\ Received(d).sampleAge = d.sampleAge
        /\ Received(d) \in Entries
    BY <1>3, Constants DEF Received, Packets, Entries, SourceCap, TruthCap
  <2>3. registry' \in [Peers -> Entries]
    BY <1>1, <1>3, <1>5, <2>2 DEF Ingest
  <2>4. TypeOK'
    BY <2>3, <1>1, <1>2 DEF TypeOK
  <2>5. d.sampleAge <= registry[d.to].sampleAge
    BY <1>2, <1>5, <1>3, Typed DEF AcceptableIsNewer
  <2>6. EntryAges'
    <3>1. d.sampleAge <= OldestSent + MaxDelay
      BY <1>2, Typed
    <3> QED
      BY <3>1, <2>1, <2>2, <1>2, <1>3, Constants, Typed DEF EntryAges
  <2>7. SourceIsNewest'
    BY <2>1, <2>2, <1>1, <1>2 DEF SourceIsNewest
  <2>8. AcceptableIsNewer'
    <3> SUFFICES ASSUME NEW p \in network', p.sequence > registry'[p.to].last
                 PROVE  p.sampleAge <= registry'[p.to].sampleAge
      BY DEF AcceptableIsNewer
    <3>1. p \in network /\ p.to \in Peers
      BY <1>1, <1>2, Typed
    <3>2. CASE p.to = d.to
      <4>1. d.sequence < p.sequence
        BY <3>1, <3>2, <2>1, <2>2, <1>2, Typed
      <4> QED  BY <4>1, <3>1, <3>2, <2>1, <2>2, <1>2 DEF NumbersOrder
    <3>3. CASE p.to # d.to
      BY <3>1, <3>3, <2>1, <1>2 DEF AcceptableIsNewer
    <3> QED  BY <3>2, <3>3
  <2>9. \A r \in Peers : registry'[r].sampleAge <= registry[r].sampleAge
    BY <2>1, <2>2, <2>5, <1>2, Typed
  <2> QED
    BY <2>4, <2>6, <2>7, <2>8, <2>9, <1>1, <1>2
    DEF IInv, PacketAges, NumbersOrder
<1> QED  BY <1>4, <1>5

LEMMA LoseInv ==
  ASSUME IInv, NEW d \in network, Lose(d)
  PROVE  IInv'
<1>1. /\ network' \subseteq network
      /\ UNCHANGED <<sampleAge, sequence, sincePublish, elapsed, registry>>
  BY DEF Lose
<1>2. TypeOK'
  BY <1>1 DEF IInv, TypeOK
<1> QED
  BY <1>1, <1>2
  DEF IInv, PacketAges, EntryAges, NumbersOrder, SourceIsNewest,
      AcceptableIsNewer

LEMMA PeerRestartsInv ==
  ASSUME IInv, NEW a \in Peers, PeerRestarts(a)
  PROVE  IInv'
<1>1. /\ registry' = [registry EXCEPT ![a] = NoEntry]
      /\ UNCHANGED <<sampleAge, sequence, sincePublish, elapsed, network>>
  BY DEF PeerRestarts
<1>2. TypeOK  BY DEF IInv
<1>3. /\ registry'[a] = NoEntry
      /\ \A r \in Peers \ {a} : registry'[r] = registry[r]
      /\ registry' \in [Peers -> Entries]
  BY <1>1, <1>2, NoEntryTyped DEF TypeOK
<1>4. TypeOK'
  BY <1>1, <1>2, <1>3 DEF TypeOK
<1>5. NoEntry.last = -1 /\ NoEntry.sampleAge = 2 * OldestSent + MaxDelay + 1
  BY DEF NoEntry, TruthCap
<1>6. EntryAges'
  BY <1>3, <1>5 DEF IInv, EntryAges
<1>7. SourceIsNewest'
  BY <1>1, <1>2, <1>3, <1>5, Constants, Typed DEF IInv, SourceIsNewest
<1>8. AcceptableIsNewer'
  BY <1>1, <1>2, <1>3, <1>5, Constants, Typed DEF IInv, AcceptableIsNewer
<1> QED
  BY <1>1, <1>4, <1>6, <1>7, <1>8 DEF IInv, PacketAges, NumbersOrder

-----------------------------------------------------------------------------
(* A saturated age stays above every age a sample under way may have. *)
LEMMA TruthAges ==
  ASSUME NEW age \in Nat
  PROVE  LET next == Saturated(age + 1, TruthCap)
         IN  /\ next \in Nat /\ next <= age + 1
             /\ \A b \in Nat : b <= age + 1 /\ b <= OldestSent + MaxDelay => b <= next
<1>1. OldestSent \in Nat /\ MaxDelay \in Nat
  BY Constants
<1>2. TruthCap \in Nat /\ OldestSent + MaxDelay <= TruthCap
  BY <1>1 DEF TruthCap
<1> QED  BY <1>1, <1>2 DEF Saturated

(* Time passes for everything alike. *)
LEMMA TickInv == IInv /\ Tick => IInv'
<1> SUFFICES ASSUME IInv, Tick  PROVE IInv'
  OBVIOUS
<1>1. /\ sampleAge' = Saturated(sampleAge + 1, SourceCap)
      /\ sincePublish' = Saturated(sincePublish + 1, PeriodCap)
      /\ elapsed < MaxIteration
      /\ elapsed' = IF elapsed = Between THEN Between ELSE elapsed + 1
      /\ network' = {Older(p) : p \in {q \in network : q.transit < MaxDelay}}
      /\ registry' = [r \in Peers |-> Aged(registry[r])]
      /\ sequence' = sequence
  BY DEF Tick
<1>2. /\ TypeOK /\ PacketAges /\ EntryAges /\ NumbersOrder
      /\ SourceIsNewest /\ AcceptableIsNewer
  BY DEF IInv
<1>3. ASSUME NEW p \in network'
      PROVE  \E q \in network : /\ q.transit < MaxDelay
                                /\ p = Older(q)
                                /\ p.to = q.to
                                /\ p.sequence = q.sequence
                                /\ p.sampleAge = q.sampleAge + 1
                                /\ p.transit = q.transit + 1
                                /\ p \in Packets
  <2>1. PICK q \in network : q.transit < MaxDelay /\ p = Older(q)
    BY <1>1, <1>3
  <2>2. /\ q \in Packets
        /\ q.sampleAge \in Nat /\ q.transit \in Nat
        /\ q.sampleAge <= OldestSent + q.transit
    BY <1>2, Typed DEF PacketAges
  <2>3. /\ q.sampleAge + 1 \in 0 .. OldestSent + MaxDelay
        /\ q.transit + 1 \in 0 .. MaxDelay
    BY <2>1, <2>2, Constants
  <2> QED  BY <2>1, <2>2, <2>3 DEF Older, Packets
<1>4. ASSUME NEW r \in Peers
      PROVE  /\ registry'[r] \in Entries
             /\ registry'[r].last = registry[r].last
             /\ registry'[r].receivedAge
                  = Saturated(registry[r].receivedAge + 1, SourceCap)
             /\ registry'[r].sampleAge
                  = Saturated(registry[r].sampleAge + 1, TruthCap)
  <2>1. registry[r] \in Entries  BY <1>2, Typed
  <2>2. /\ Saturated(registry[r].receivedAge + 1, SourceCap) \in 0 .. SourceCap
        /\ Saturated(registry[r].sampleAge + 1, TruthCap) \in 0 .. TruthCap
    BY <2>1, Constants DEF Entries, Saturated, SourceCap, TruthCap
  <2>3. registry'[r] = Aged(registry[r])  BY <1>1
  <2> QED  BY <2>1, <2>2, <2>3 DEF Aged, Entries
<1>5. TypeOK'
  <2>1. sampleAge' \in 0 .. SourceCap /\ sincePublish' \in 0 .. PeriodCap
        /\ elapsed' \in Between .. MaxIteration
    BY <1>1, <1>2, Constants DEF TypeOK, Saturated, SourceCap, Between
  <2>2. network' \in SUBSET Packets  BY <1>3
  <2>3. registry' \in [Peers -> Entries]  BY <1>1, <1>4
  <2> QED  BY <2>1, <2>2, <2>3, <1>1, <1>2 DEF TypeOK
<1>6. PacketAges'
  <2> SUFFICES ASSUME NEW p \in network'
               PROVE  p.sampleAge <= OldestSent + p.transit
    BY DEF PacketAges
  <2>1. PICK q \in network : /\ p.sampleAge = q.sampleAge + 1
                             /\ p.transit = q.transit + 1
    BY <1>3
  <2> QED  BY <2>1, <1>2, Constants, Typed DEF PacketAges
<1>7. EntryAges'
  <2> SUFFICES ASSUME NEW r \in Peers, registry'[r].last >= 0,
                      registry'[r].receivedAge <= OldestSent
               PROVE  registry'[r].sampleAge
                        <= registry'[r].receivedAge + OldestSent + MaxDelay
    BY DEF EntryAges
  <2>1. /\ registry[r].receivedAge \in Nat
        /\ registry[r].sampleAge \in Nat
    BY <1>2, Typed
  <2>2. /\ registry[r].receivedAge + 1 <= OldestSent
        /\ registry'[r].receivedAge = registry[r].receivedAge + 1
    BY <2>1, <1>4, Constants DEF Saturated, SourceCap
  <2>3. registry[r].sampleAge
          <= registry[r].receivedAge + OldestSent + MaxDelay
    BY <2>1, <2>2, <1>2, <1>4, Constants DEF EntryAges
  <2>4. registry'[r].sampleAge <= registry[r].sampleAge + 1
    BY <2>1, <1>4, TruthAges
  <2>5. registry'[r].sampleAge \in Nat
    BY <2>1, <1>4, TruthAges
  <2>6. ASSUME NEW a \in Nat, NEW b \in Nat, NEW c \in Nat,
               a <= b + OldestSent + MaxDelay, c <= a + 1
        PROVE  c <= (b + 1) + OldestSent + MaxDelay
    BY <2>6, Constants
  <2> QED
    BY <2>1, <2>2, <2>3, <2>4, <2>5, <2>6
<1>8. NumbersOrder'
  <2>1. \A p \in network' : p.sequence <= sequence'
    BY <1>1, <1>2, <1>3 DEF NumbersOrder
  <2>2. ASSUME NEW p \in network', NEW q \in network',
               q.sequence < p.sequence
        PROVE  p.sampleAge <= q.sampleAge
    <3>1. PICK p0 \in network : /\ p.sequence = p0.sequence
                                /\ p.sampleAge = p0.sampleAge + 1
      BY <1>3
    <3>2. PICK q0 \in network : /\ q.sequence = q0.sequence
                                /\ q.sampleAge = q0.sampleAge + 1
      BY <1>3
    <3>3. p0.sampleAge <= q0.sampleAge
      BY <3>1, <3>2, <2>2, <1>2 DEF NumbersOrder
    <3> QED  BY <3>1, <3>2, <3>3, <1>2, Typed
  <2> QED  BY <2>1, <2>2 DEF NumbersOrder
<1>9. SourceIsNewest'
  <2> SUFFICES ASSUME sampleAge' <= OldestSent
               PROVE  /\ \A p \in network' : sampleAge' <= p.sampleAge
                      /\ \A r \in Peers : sampleAge' <= registry'[r].sampleAge
    BY <1>1 DEF SourceIsNewest
  <2>1. sampleAge' = sampleAge + 1 /\ sampleAge <= OldestSent /\ sampleAge \in Nat
    BY <1>1, <1>2, Constants, Typed DEF Saturated, SourceCap
  <2>2. ASSUME NEW p \in network'  PROVE sampleAge' <= p.sampleAge
    <3>1. PICK q \in network : p.sampleAge = q.sampleAge + 1
      BY <1>3
    <3> QED  BY <3>1, <2>1, <1>2, Typed DEF SourceIsNewest
  <2>3. ASSUME NEW r \in Peers  PROVE sampleAge' <= registry'[r].sampleAge
    <3>1. sampleAge <= registry[r].sampleAge /\ registry[r].sampleAge \in Nat
      BY <2>1, <1>2, Typed DEF SourceIsNewest
    <3> QED
      <4>1. sampleAge' \in Nat /\ sampleAge' <= OldestSent + MaxDelay
        BY <2>1, Constants
      <4> QED  BY <4>1, <3>1, <2>1, <1>4, TruthAges
  <2> QED  BY <2>2, <2>3
<1>10. AcceptableIsNewer'
  <2> SUFFICES ASSUME NEW p \in network', p.sequence > registry'[p.to].last
               PROVE  p.sampleAge <= registry'[p.to].sampleAge
    BY DEF AcceptableIsNewer
  <2>1. PICK q \in network : /\ p.to = q.to
                             /\ p.sequence = q.sequence
                             /\ p.sampleAge = q.sampleAge + 1
                             /\ p \in Packets
    BY <1>3
  <2>2. q.to \in Peers /\ q.sampleAge \in Nat
        /\ registry[q.to].sampleAge \in Nat
    BY <1>2, Typed
  <2>3. q.sampleAge <= registry[q.to].sampleAge
    BY <2>1, <2>2, <1>2, <1>4 DEF AcceptableIsNewer
  <2>4. p.sampleAge <= OldestSent + MaxDelay
    BY <2>1, Constants DEF Packets
  <2> QED
    BY <2>1, <2>2, <2>3, <2>4, <1>4, TruthAges
<1> QED
  BY <1>5, <1>6, <1>7, <1>8, <1>9, <1>10 DEF IInv

LEMMA NextInv == IInv /\ [Next]_vars => IInv'
<1> SUFFICES ASSUME IInv, [Next]_vars  PROVE IInv'
  OBVIOUS
<1>1. CASE SampleArrives  BY <1>1, SampleArrivesInv
<1>2. ASSUME NEW n \in 0 .. Len(Endpoints), NEW h \in BOOLEAN, Publish(n, h)
      PROVE  IInv'
  BY <1>2, PublishInv
<1>3. CASE PublisherRestarts  BY <1>3, PublisherRestartsInv
<1>4. ASSUME NEW p \in network, NEW again \in BOOLEAN, Deliver(p, again)
      PROVE  IInv'
  BY <1>4, DeliverInv
<1>5. ASSUME NEW p \in network, Lose(p)  PROVE IInv'
  BY <1>5, LoseInv
<1>6. ASSUME NEW r \in Peers, PeerRestarts(r)  PROVE IInv'
  BY <1>6, PeerRestartsInv
<1>7. CASE Tick  BY <1>7, TickInv
<1>8. CASE IterationStarts \/ NothingPublished  BY <1>8, IterationInv
<1>9. CASE UNCHANGED vars
  BY <1>9
  DEF vars, IInv, TypeOK, PacketAges, EntryAges, NumbersOrder, SourceIsNewest,
      AcceptableIsNewer
<1> QED
  BY <1>1, <1>2, <1>3, <1>4, <1>5, <1>6, <1>7, <1>8, <1>9 DEF Next

LEMMA Invariance == Spec => []IInv
  BY InitInv, NextInv, PTL DEF Spec

-----------------------------------------------------------------------------
(* Publisher, network and registries keep their types. *)
THEOREM TypeCorrect == Spec => []TypeOK
  BY Invariance, PTL DEF IInv

(***************************************************************************)
(* The age the gate does not price is at most MaxAge at the publisher's    *)
(* loop_started, one iteration on either side, and MaxDelay in the network *)
(* (UnpricedAgeIsBounded).                                                 *)
(***************************************************************************)
THEOREM UnpricedAgeBounded == Spec => []UnpricedAgeIsBounded
<1>1. ASSUME IInv, NEW r \in Peers, NEW late \in 0 .. MaxIteration, Valid(r, late)
      PROVE  registry[r].sampleAge
               <= MessageAge(r, late) + MaxAge + MaxIteration + MaxDelay + late
  <2>1. /\ registry[r].receivedAge \in Nat /\ registry[r].sampleAge \in Nat
        /\ registry[r].last >= 0
    BY <1>1, Typed DEF IInv, Valid
  <2>2. /\ MessageAge(r, late) \in Nat /\ MessageAge(r, late) <= MaxAge
        /\ registry[r].receivedAge <= MessageAge(r, late) + late
    BY <1>1, <2>1 DEF MessageAge, AgeThen, Valid
  <2>3. registry[r].receivedAge <= OldestSent
    BY <2>1, <2>2, Constants
  <2>4. registry[r].sampleAge <= registry[r].receivedAge + OldestSent + MaxDelay
    BY <1>1, <2>1, <2>3 DEF IInv, EntryAges
  <2> QED  BY <2>1, <2>2, <2>4, Constants
<1>2. IInv => UnpricedAgeIsBounded
  BY <1>1 DEF UnpricedAgeIsBounded
<1> QED  BY Invariance, <1>2, PTL

LEMMA StepKeepsNewest ==
  ASSUME IInv, [Next]_vars, ~Tick, NEW r \in Peers, registry'[r].last >= 0
  PROVE  registry'[r].sampleAge <= registry[r].sampleAge
<1>1. registry[r].sampleAge \in Nat
  BY Typed DEF IInv
<1>2. CASE registry' = registry
  BY <1>1, <1>2
<1>3. ASSUME NEW p \in network, NEW again \in BOOLEAN, Deliver(p, again)
      PROVE  registry'[r].sampleAge <= registry[r].sampleAge
  BY <1>3, DeliverInv
<1>4. ASSUME NEW a \in Peers, PeerRestarts(a), a # r
      PROVE  registry'[r] = registry[r]
  BY <1>4 DEF PeerRestarts, IInv, TypeOK
<1>5. ~PeerRestarts(r)
  <2>1. SUFFICES ASSUME PeerRestarts(r)  PROVE FALSE
    OBVIOUS
  <2>2. registry'[r] = NoEntry
    BY <2>1 DEF PeerRestarts, IInv, TypeOK
  <2> QED  BY <2>2 DEF NoEntry
<1>6. ASSUME \/ SampleArrives
             \/ IterationStarts \/ NothingPublished \/ PublisherRestarts
             \/ \E n \in 0 .. Len(Endpoints), h \in BOOLEAN : Publish(n, h)
             \/ \E p \in network : Lose(p)
             \/ UNCHANGED vars
      PROVE  registry' = registry
  BY <1>6 DEF SampleArrives, IterationStarts, NothingPublished, PublisherRestarts, Publish, Lose, vars
<1> QED
  BY <1>1, <1>2, <1>3, <1>4, <1>5, <1>6 DEF Next

(* No peer replaces a sample by an older one. *)
THEOREM NewestKept == Spec => NewestSampleIsKept
<1>1. IInv /\ [Next]_vars =>
        [ ~Tick => \A r \in Peers :
                     registry'[r].last >= 0 =>
                       registry'[r].sampleAge <= registry[r].sampleAge ]_vars
  BY StepKeepsNewest
<1> QED  BY Invariance, <1>1, PTL DEF Spec, NewestSampleIsKept

-----------------------------------------------------------------------------
(***************************************************************************)
(* A peer whose number the publisher has not passed is in the dark: what   *)
(* it knows only ages or is forgotten.  After a restart of the publisher   *)
(* that lasts until the old number is passed; while one endpoint fails,    *)
(* and the number with it, it lasts for the endpoints before it.           *)
(***************************************************************************)
NothingNewIsLearned ==
  \A r \in Peers :
    sequence <= registry[r].last
      => \/ registry'[r] = registry[r]
         \/ registry'[r] = NoEntry
         \/ Tick /\ registry'[r] = Aged(registry[r])

LEMMA RefusedUntilPassed ==
  ASSUME IInv, [Next]_vars, NEW r \in Peers, sequence <= registry[r].last
  PROVE  \/ registry'[r] = registry[r]
         \/ registry'[r] = NoEntry
         \/ Tick /\ registry'[r] = Aged(registry[r])
<1>1. ASSUME NEW p \in network, NEW again \in BOOLEAN, Deliver(p, again)
      PROVE  registry'[r] = registry[r]
  <2>1. p.sequence <= sequence /\ p.sequence \in Nat /\ sequence \in Nat
        /\ registry[r].last \in Int
    BY Typed DEF IInv, NumbersOrder
  <2>2. p.to = r => Ingest(registry[r], p) = registry[r]
    BY <2>1 DEF Ingest
  <2>3. registry' = [registry EXCEPT ![p.to] = Ingest(registry[p.to], p)]
    BY <1>1 DEF Deliver
  <2> QED  BY <2>2, <2>3 DEF IInv, TypeOK
<1>2. ASSUME NEW a \in Peers, PeerRestarts(a)
      PROVE  registry'[r] \in {registry[r], NoEntry}
  BY <1>2 DEF PeerRestarts, IInv, TypeOK
<1>3. CASE Tick
  BY <1>3 DEF Tick
<1>4. ASSUME \/ SampleArrives
             \/ IterationStarts \/ NothingPublished \/ PublisherRestarts
             \/ \E n \in 0 .. Len(Endpoints), h \in BOOLEAN : Publish(n, h)
             \/ \E p \in network : Lose(p)
             \/ UNCHANGED vars
      PROVE  registry' = registry
  BY <1>4 DEF SampleArrives, IterationStarts, NothingPublished, PublisherRestarts, Publish, Lose, vars
<1> QED  BY <1>1, <1>2, <1>3, <1>4 DEF Next

(* A restart of the publisher, or an endpoint that fails, blinds the peers *)
(* concerned for as long as the number is not passed (NothingNewIsLearned). *)
THEOREM Refused == Spec => [][NothingNewIsLearned]_vars
<1>1. IInv /\ [Next]_vars => [NothingNewIsLearned]_vars
  BY RefusedUntilPassed DEF NothingNewIsLearned
<1> QED  BY Invariance, <1>1, PTL DEF Spec
=============================================================================
