----------------------- MODULE IncrementalValueSyncProofs -----------------------
(***************************************************************************)
(* The safety properties of IncrementalValueSync, for every threshold,     *)
(* every bound and every set of packet numbers.                            *)
(***************************************************************************)
EXTENDS IncrementalValueSync, TLAPS

(* A new synchronizer has requested its first value, or it is not          *)
(* significant.                                                            *)
LEMMA InitIInv == Init => IInv
  BY ValuesAssumption, PacketsAssumption
     DEF Init, IInv, TypeOK, DeliveryState, DeliveryStateNames, PeerBetweenAckedAndLatest,
         IdleMeansInsignificant, IncrementalNew, IncrementalRequestIfNecessary,
         IncrementalShouldSendUpdate, NotRequested, Requested, Packet

(* Every method of the synchronizer and every move of the network preserves*)
(* the inductive invariant.                                                *)
LEMMA NextIInv == IInv /\ [Next]_vars => IInv'
<1> SUFFICES ASSUME IInv, [Next]_vars PROVE IInv'
  OBVIOUS
<1> USE ValuesAssumption, PacketsAssumption
    DEF TypeOK, DeliveryState, DeliveryStateNames, Packet
<1>1. CASE UpdateLatestValue
  <2>1. PICK value \in (sync.latest + 1)..MaxValue :
            sync' = IncrementalUpdateLatestValue(sync, value)
    BY <1>1 DEF UpdateLatestValue
  <2>2. UNCHANGED <<wire, open, arrived, peerValue>>
    BY <1>1 DEF UpdateLatestValue
  <2>3. DEFINE raised == [sync EXCEPT !.latest = value]
  <2>4. /\ raised.latest = value /\ raised.acked = sync.acked
        /\ raised.threshold = Threshold /\ raised.delivery = sync.delivery
    BY DEF IInv
  <2>5. CASE IncrementalShouldSendUpdate(raised)
    <3>1. sync' = [raised EXCEPT !.delivery = Requested(value)]
      BY <2>1, <2>4, <2>5 DEF IncrementalUpdateLatestValue, IncrementalRequestIfNecessary
    <3>2. /\ sync'.latest = value /\ sync'.acked = sync.acked
          /\ sync'.delivery = Requested(value)
      BY <2>4, <3>1 DEF IInv
    <3>3. TypeOK'
      <4>1. value \in Nat /\ Requested(value) \in DeliveryState(Nat, Packets)
        BY DEF IInv, Requested
      <4>2. QED
        BY <2>2, <3>1, <4>1 DEF IInv
    <3>4. \A packet \in wire : packet.value <= value
      BY DEF IInv
    <3>5. QED
      BY <2>2, <3>2, <3>3, <3>4
         DEF IInv, PeerBetweenAckedAndLatest, IdleMeansInsignificant, Requested
  <2>6. CASE ~IncrementalShouldSendUpdate(raised)
    <3>1. sync' = raised
      BY <2>1, <2>6 DEF IncrementalUpdateLatestValue, IncrementalRequestIfNecessary
    <3>2. \/ sync.delivery.state = "Cancelled"
          \/ sync.delivery.state = "InFlight" /\ value - sync.delivery.value < Threshold
          \/ sync.delivery.state # "InFlight" /\ value - sync.acked < Threshold
      BY <2>4, <2>6 DEF IncrementalShouldSendUpdate, IInv, PeerBetweenAckedAndLatest
    <3>3. QED
      BY <2>2, <2>4, <3>1, <3>2 DEF IInv, PeerBetweenAckedAndLatest, IdleMeansInsignificant
  <2>7. QED
    BY <2>5, <2>6
<1>2. CASE StopSync
  BY <1>2 DEF StopSync, IInv, PeerBetweenAckedAndLatest, IdleMeansInsignificant,
     IncrementalStopSync, Cancel, Cancelled
<1>3. CASE OnTransmit
  <2>1. PICK pn \in FreePackets, constraint \in Constraints :
            /\ sync' = IncrementalOnTransmit(sync, pn, constraint)
            /\ wire' = wire \cup {[packet |-> pn, value |-> sync.latest]}
            /\ open' = open \cup {pn}
    BY <1>3 DEF OnTransmit
  <2>2. UNCHANGED <<arrived, peerValue>> /\ pn \in Packets /\ pn \notin open
    BY <1>3, <2>1 DEF OnTransmit, FreePackets
  <2>3. \A packet \in wire : packet.packet # pn
    BY <2>1 DEF FreePackets
  <2>4. TypeOK'
    BY <2>1, <2>2 DEF IncrementalOnTransmit, InFlight, IInv
  <2>5. QED
    BY <2>1, <2>2, <2>3, <2>4 DEF IncrementalOnTransmit, InFlight, IInv,
       PeerBetweenAckedAndLatest, IdleMeansInsignificant
<1>4. CASE PeerReceives
  <2>1. PICK packet \in wire :
            /\ wire' = wire \ {packet}
            /\ peerValue' = IF packet.value > peerValue THEN packet.value ELSE peerValue
            /\ arrived' = arrived \cup ({packet.packet} \cap open)
            /\ UNCHANGED <<sync, open>>
    BY <1>4 DEF PeerReceives
  <2>2. packet.value \in Nat /\ packet.packet \in Packets /\ packet.value <= sync.latest
    BY DEF IInv
  <2>3. TypeOK'
    BY <2>1, <2>2 DEF IInv
  <2>4. peerValue' >= peerValue /\ peerValue' >= packet.value /\ peerValue' <= sync.latest
    BY <2>1, <2>2 DEF IInv, PeerBetweenAckedAndLatest
  <2>5. PeerBetweenAckedAndLatest'
    BY <2>1, <2>4 DEF IInv, PeerBetweenAckedAndLatest
  <2>6. ASSUME sync.delivery.state = "InFlight", sync.delivery.packet \in arrived'
        PROVE  sync.delivery.value <= peerValue'
    BY <2>1, <2>2, <2>4, <2>6 DEF IInv
  <2>7. QED
    BY <2>1, <2>3, <2>5, <2>6 DEF IInv, IdleMeansInsignificant
<1>5. CASE NetworkDrops
  BY <1>5 DEF NetworkDrops, IInv, PeerBetweenAckedAndLatest, IdleMeansInsignificant
<1>6. CASE OnPacketAck
  <2>1. PICK pns \in SUBSET arrived :
            /\ sync' = IncrementalOnPacketAck(sync, pns)
            /\ open' = open \ pns
            /\ arrived' = arrived \ pns
            /\ UNCHANGED <<wire, peerValue>>
    BY <1>6 DEF OnPacketAck
  <2>2. CASE IsInFlightIn(sync.delivery, pns)
    <3>1. sync' = [sync EXCEPT !.acked = sync.delivery.value, !.delivery = NotRequested]
      BY <2>1, <2>2 DEF IncrementalOnPacketAck
    <3>2. TypeOK'
      <4>1. sync.delivery.value \in Nat /\ NotRequested \in DeliveryState(Nat, Packets)
        BY DEF IInv, NotRequested
      <4>2. QED
        BY <2>1, <3>1, <4>1 DEF IInv
    <3>3. /\ sync'.latest = sync.latest /\ sync'.acked = sync.delivery.value
          /\ sync'.delivery = NotRequested
      BY <3>1 DEF IInv
    <3>4. /\ sync.delivery.value <= peerValue
          /\ \/ sync.latest = sync.delivery.value
             \/ sync.latest - sync.delivery.value < Threshold
      BY <2>2 DEF IInv, IsInFlightIn
    <3>5. QED
      BY <2>1, <3>2, <3>3, <3>4
         DEF IInv, PeerBetweenAckedAndLatest, IdleMeansInsignificant, NotRequested
  <2>3. CASE ~IsInFlightIn(sync.delivery, pns)
    <3>1. sync' = sync
      BY <2>1, <2>3 DEF IncrementalOnPacketAck
    <3>2. QED
      BY <2>1, <2>3, <3>1 DEF IInv, PeerBetweenAckedAndLatest, IdleMeansInsignificant, IsInFlightIn
  <2>4. QED
    BY <2>2, <2>3
<1>7. CASE OnPacketLoss
  <2>1. PICK pns \in SUBSET open :
            /\ sync' = IncrementalOnPacketLoss(sync, pns)
            /\ open' = open \ pns
            /\ arrived' = arrived \ pns
            /\ UNCHANGED <<wire, peerValue>>
    BY <1>7 DEF OnPacketLoss
  <2>2. CASE IsInFlightIn(sync.delivery, pns)
    <3>1. sync' = [sync EXCEPT !.delivery = Lost(sync.latest)]
      BY <2>1, <2>2 DEF IncrementalOnPacketLoss
    <3>2. QED
      BY <2>1, <2>2, <3>1 DEF IInv, PeerBetweenAckedAndLatest, IdleMeansInsignificant,
         IsInFlightIn, Lost
  <2>3. CASE ~IsInFlightIn(sync.delivery, pns)
    <3>1. sync' = sync
      BY <2>1, <2>3 DEF IncrementalOnPacketLoss
    <3>2. QED
      BY <2>1, <2>3, <3>1 DEF IInv, PeerBetweenAckedAndLatest, IdleMeansInsignificant, IsInFlightIn
  <2>4. QED
    BY <2>2, <2>3
<1>8. CASE UNCHANGED vars
  BY <1>8 DEF vars, IInv, PeerBetweenAckedAndLatest, IdleMeansInsignificant
<1>9. QED
  BY <1>1, <1>2, <1>3, <1>4, <1>5, <1>6, <1>7, <1>8 DEF Next

(* The inductive invariant holds in every reachable state.                 *)
THEOREM Invariance == Spec => []IInv
  BY InitIInv, NextIInv, PTL DEF Spec

(* The peer's view of the value lies between what it acknowledged and what *)
(* the owner granted: `value_ackd_up_to <= limit at the peer <=            *)
(* latest_value`.                                                          *)
THEOREM PeerBounds == Spec => []PeerBetweenAckedAndLatest
<1>1. IInv => PeerBetweenAckedAndLatest
  BY DEF IInv
<1>2. QED
  BY <1>1, Invariance, PTL

(* The claim of the comment in `on_packet_ack`: no update is missed by not *)
(* looking for one when a frame is acknowledged.                           *)
THEOREM IdleIsInsignificant == Spec => []IdleMeansInsignificant
<1>1. IInv => IdleMeansInsignificant
  BY DEF IInv
<1>2. QED
  BY <1>1, Invariance, PTL

(* An acknowledgement that arrives late, for a frame that was superseded,  *)
(* never takes back what the peer is known to know.                        *)
THEOREM AckedMonotonic == Spec => AckedNeverDecreases
<1>1. IInv /\ [Next]_vars => [sync'.acked >= sync.acked]_vars
  <2> SUFFICES ASSUME IInv, Next PROVE sync'.acked >= sync.acked
    OBVIOUS
  <2>1. /\ sync.acked \in Nat /\ sync.latest \in Nat
        /\ sync \in [latest : Nat, acked : Nat, threshold : {Threshold},
                     delivery : DeliveryState(Nat, Packets)]
    BY DEF IInv, TypeOK
  <2>2. CASE UpdateLatestValue
    <3>1. PICK value \in (sync.latest + 1)..MaxValue :
              sync' = IncrementalUpdateLatestValue(sync, value)
      BY <2>2 DEF UpdateLatestValue
    <3>2. sync'.acked = sync.acked
      BY <2>1, <3>1 DEF IncrementalUpdateLatestValue, IncrementalRequestIfNecessary
    <3>3. QED
      BY <2>1, <3>2
  <2>3. CASE StopSync
    BY <2>1, <2>3 DEF StopSync, IncrementalStopSync
  <2>4. CASE OnTransmit
    BY <2>1, <2>4 DEF OnTransmit, IncrementalOnTransmit
  <2>5. CASE PeerReceives \/ NetworkDrops
    BY <2>1, <2>5 DEF PeerReceives, NetworkDrops
  <2>6. CASE OnPacketAck
    <3>1. PICK pns : sync' = IncrementalOnPacketAck(sync, pns)
      BY <2>6 DEF OnPacketAck
    <3>2. CASE IsInFlightIn(sync.delivery, pns)
      <4>1. sync.acked <= sync.delivery.value
        BY <3>2 DEF IInv, IsInFlightIn
      <4>2. sync'.acked = sync.delivery.value /\ sync.delivery.value \in Nat
        BY <2>1, <3>1, <3>2 DEF IncrementalOnPacketAck, DeliveryState
      <4>3. QED
        BY <2>1, <4>1, <4>2
    <3>3. CASE ~IsInFlightIn(sync.delivery, pns)
      BY <2>1, <3>1, <3>3 DEF IncrementalOnPacketAck
    <3>4. QED
      BY <3>2, <3>3
  <2>7. CASE OnPacketLoss
    BY <2>1, <2>7 DEF OnPacketLoss, IncrementalOnPacketLoss
  <2>8. QED
    BY <2>2, <2>3, <2>4, <2>5, <2>6, <2>7 DEF Next
<1>2. QED
  BY <1>1, Invariance, PTL DEF Spec, AckedNeverDecreases
=============================================================================
