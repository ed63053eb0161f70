----------------------------- MODULE PeerState -----------------------------
(***************************************************************************)
(* The direct UDP distribution of one vehicle's state to its peers         *)
(* (peer_state.py): the publishing step of the vehicle's worker in the     *)
(* bridge, a network that loses, delays, duplicates and reorders           *)
(* datagrams, and the registry of every peer, which judges freshness by    *)
(* the time since RECEPTION.  The model also carries what no peer knows:   *)
(* the age of the sample, since the publisher's worker took it in.         *)
(*                                                                         *)
(* A worker reads its clock once, at the top of an iteration               *)
(* (loop_started), and judges by that reading what it does at its end.     *)
(* Time is in ticks; instants are kept as the time passed since them.      *)
(***************************************************************************)
EXTENDS Integers, Sequences, FiniteSets

CONSTANTS
  Endpoints,    \* the peers, in the order publish sends to them
  MaxAge,       \* PEER_STATE_MAX_AGE_S
  Period,       \* PEER_STATE_PERIOD_S
  MaxIteration, \* bound: time from loop_started to the packet, or to the gate
  MaxDelay,     \* the longest time a datagram spends in the network
  MaxSequence,  \* bound: sequence numbers explored
  MaxInFlight   \* bound: datagrams in the network

Peers == {Endpoints[i] : i \in DOMAIN Endpoints}

ASSUME PeerStateAssumption ==
  /\ Endpoints \in Seq(Peers) /\ Endpoints # <<>>
  /\ MaxAge \in Nat /\ Period \in Nat
  /\ MaxIteration \in Nat /\ MaxDelay \in Nat
  /\ MaxSequence \in Nat /\ MaxInFlight \in Nat

VARIABLES
  sampleAge,      \* age of the older of the two cached telemetry streams
  sequence,       \* peer_state_sequence
  sincePublish,   \* since last_peer_state_publish_monotonic
  elapsed,        \* since loop_started; Between: after the publishing step
  network,        \* the datagrams under way
  registry        \* per peer: its PeerStateRegistry entry for this vehicle

vars == <<sampleAge, sequence, sincePublish, elapsed, network, registry>>

Between == -1

Saturated(age, cap) == IF age <= cap THEN age ELSE cap

(* What was judged at an instant "passed" ago, clamped as in the code. *)
AgeThen(age, passed) == IF age > passed THEN age - passed ELSE 0

(* The oldest sample that can leave: MaxAge as of loop_started. *)
OldestSent == MaxAge + MaxIteration

(* No comparison tells ages beyond these caps apart. *)
SourceCap == OldestSent + 1
PeriodCap == Period + MaxIteration
TruthCap == 2 * OldestSent + MaxDelay + 1

Packets == [to : Peers, sequence : 0 .. MaxSequence, healthy : BOOLEAN,
            sampleAge : 0 .. OldestSent + MaxDelay, transit : 0 .. MaxDelay]

Entries == [last : -1 .. MaxSequence,           \* _last_sequence, -1: no entry
            healthy : BOOLEAN,
            receivedAge : 0 .. SourceCap,       \* now - _received_s
            sampleAge : 0 .. TruthCap]          \* truth: age of the sample

TypeOK ==
  /\ sampleAge \in 0 .. SourceCap
  /\ sequence \in 0 .. MaxSequence
  /\ sincePublish \in 0 .. PeriodCap
  /\ elapsed \in Between .. MaxIteration
  /\ network \in SUBSET Packets
  /\ registry \in [Peers -> Entries]

NoEntry == [last |-> -1, healthy |-> FALSE,
            receivedAge |-> SourceCap, sampleAge |-> TruthCap]

Init ==
  /\ sampleAge = SourceCap
  /\ sequence = 0
  /\ sincePublish = PeriodCap
  /\ elapsed = Between
  /\ network = {}
  /\ registry = [r \in Peers |-> NoEntry]

-----------------------------------------------------------------------------
(* The publisher.                                                          *)

(* The next iteration of the worker reads the clock. *)
IterationStarts ==
  /\ elapsed = Between
  /\ elapsed' = 0
  /\ UNCHANGED <<sampleAge, sequence, sincePublish, network, registry>>

(* The iteration drains LOCAL_POSITION_NED and GLOBAL_POSITION_INT. *)
SampleArrives ==
  /\ elapsed # Between
  /\ sampleAge' = 0
  /\ UNCHANGED <<sequence, sincePublish, elapsed, network, registry>>

(* Due, and young enough, as of loop_started. *)
Due == AgeThen(sincePublish, elapsed) >= Period

(* Mutant: the cached streams are published however old they are. *)
PublishableAlways(age) == age \in Nat

(* peer_payload refuses to build a packet from an old sample. *)
Publishable(age) == age <= MaxAge

Datagram(r, healthy) == [to |-> r, sequence |-> sequence, healthy |-> healthy,
                         sampleAge |-> sampleAge, transit |-> 0]

(***************************************************************************)
(* publish sends to the endpoints in order and stops at the first that     *)
(* fails; only a publish that reached them all takes the next number and   *)
(* waits for the next period, counted from loop_started.  The packet has   *)
(* the streams as they are now, whose age was judged as of loop_started.   *)
(***************************************************************************)
Publish(reached, healthy) ==
  LET sent == {Datagram(Endpoints[i], healthy) : i \in 1 .. reached}
      complete == reached = Len(Endpoints)
  IN  /\ elapsed # Between
      /\ Due
      /\ Publishable(AgeThen(sampleAge, elapsed))
      /\ sequence < MaxSequence
      /\ Cardinality(network \cup sent) <= MaxInFlight
      /\ network' = network \cup sent
      /\ sequence' = IF complete THEN sequence + 1 ELSE sequence
      /\ sincePublish' = IF complete THEN elapsed ELSE sincePublish
      /\ elapsed' = Between
      /\ UNCHANGED <<sampleAge, registry>>

(* No packet in this iteration: it is not due, or none can be built.       *)
NothingPublished ==
  /\ elapsed # Between
  /\ elapsed' = Between
  /\ UNCHANGED <<sampleAge, sequence, sincePublish, network, registry>>

(***************************************************************************)
(* The publisher's process restarts and counts from zero again.  It takes  *)
(* longer than a datagram can be under way: seconds against MaxDelay.      *)
(***************************************************************************)
PublisherRestarts ==
  /\ network = {}
  /\ sequence' = 0
  /\ sincePublish' = PeriodCap
  /\ sampleAge' = SourceCap
  /\ elapsed' = Between
  /\ UNCHANGED <<network, registry>>

-----------------------------------------------------------------------------
(* A peer.                                                                 *)

Received(p) == [last |-> p.sequence, healthy |-> p.healthy,
                receivedAge |-> 0, sampleAge |-> p.sampleAge]

(* Mutant: whatever arrives last wins. *)
IngestUnordered(entry, p) == Received(p)

(* ingest takes only what is newer than everything it took before. *)
Ingest(entry, p) ==
  IF p.sequence <= entry.last THEN entry ELSE Received(p)

(* The network may deliver a datagram again later: "again" keeps it. *)
Deliver(p, again) ==
  /\ registry' = [registry EXCEPT ![p.to] = Ingest(@, p)]
  /\ network' = IF again THEN network ELSE network \ {p}
  /\ UNCHANGED <<sampleAge, sequence, sincePublish, elapsed>>

Lose(p) ==
  /\ network' = network \ {p}
  /\ UNCHANGED <<sampleAge, sequence, sincePublish, elapsed, registry>>

PeerRestarts(r) ==
  /\ registry' = [registry EXCEPT ![r] = NoEntry]
  /\ UNCHANGED <<sampleAge, sequence, sincePublish, elapsed, network>>

(***************************************************************************)
(* What snapshot tells the safety loop of a peer that looks "late" after   *)
(* its own loop_started, for which the snapshot is made: message_age_ms,   *)
(* and whether the state is valid.                                         *)
(***************************************************************************)
MessageAge(r, late) == AgeThen(registry[r].receivedAge, late)

Valid(r, late) ==
  /\ registry[r].last >= 0
  /\ registry[r].healthy
  /\ MessageAge(r, late) <= MaxAge

-----------------------------------------------------------------------------
(* Time.                                                                   *)

Older(p) == [p EXCEPT !.sampleAge = @ + 1, !.transit = @ + 1]

Aged(entry) ==
  [entry EXCEPT !.receivedAge = Saturated(@ + 1, SourceCap),
                !.sampleAge = Saturated(@ + 1, TruthCap)]

(* MaxIteration bounds the part of an iteration before the packet.  A      *)
(* datagram that was under way for MaxDelay never arrives any more.        *)
Tick ==
  /\ elapsed < MaxIteration
  /\ elapsed' = IF elapsed = Between THEN Between ELSE elapsed + 1
  /\ sampleAge' = Saturated(sampleAge + 1, SourceCap)
  /\ sincePublish' = Saturated(sincePublish + 1, PeriodCap)
  /\ network' = {Older(p) : p \in {q \in network : q.transit < MaxDelay}}
  /\ registry' = [r \in Peers |-> Aged(registry[r])]
  /\ UNCHANGED sequence

Next ==
  \/ IterationStarts
  \/ SampleArrives
  \/ \E reached \in 0 .. Len(Endpoints), healthy \in BOOLEAN :
       Publish(reached, healthy)
  \/ NothingPublished
  \/ PublisherRestarts
  \/ \E p \in network, again \in BOOLEAN : Deliver(p, again)
  \/ \E p \in network : Lose(p)
  \/ \E r \in Peers : PeerRestarts(r)
  \/ Tick

Spec == Init /\ [][Next]_vars

-----------------------------------------------------------------------------
(* Properties.                                                             *)

(***************************************************************************)
(* The gate prices message_age_ms into the separation it demands.  What    *)
(* that misses is bounded: the sample was MaxAge old at the publisher's    *)
(* loop_started, and spent the publisher's iteration, the network and the  *)
(* reader's own iteration unseen, whatever was lost, repeated, reordered,  *)
(* retried after a partial send or sent by a restarted publisher.          *)
(***************************************************************************)
UnpricedAgeIsBounded ==
  \A r \in Peers, late \in 0 .. MaxIteration :
    Valid(r, late) =>
      registry[r].sampleAge
        <= MessageAge(r, late) + MaxAge + MaxIteration + MaxDelay + late

(***************************************************************************)
(* A peer never replaces what it knows by an older sample, even when       *)
(* datagrams overtake each other, are sent twice under one number, or the  *)
(* publisher counts from zero again.                                       *)
(***************************************************************************)
NewestSampleIsKept ==
  [][ ~Tick =>
        \A r \in Peers :
          registry'[r].last >= 0 =>
            registry'[r].sampleAge <= registry[r].sampleAge ]_vars
=============================================================================
