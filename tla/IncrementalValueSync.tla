-------------------------- MODULE IncrementalValueSync --------------------------
(***************************************************************************)
(* One IncrementalValueSync (s2n-quic-transport/src/sync) and the peer it  *)
(* informs.  The owner raises the value, a packet carries it, the network  *)
(* loses, delays and reorders packets, the loss detector may declare a     *)
(* packet lost that arrives all the same, and acknowledgements may never   *)
(* come for a packet that was superseded.                                  *)
(*                                                                         *)
(* Packet numbers are only compared for equality here, so a number is      *)
(* reused once neither the network nor the endpoint remembers it.          *)
(***************************************************************************)
EXTENDS DeliverySync, FiniteSets

CONSTANTS
    InitialValue,   \* the value the peer knows from the transport parameters
    FirstValue,     \* the value the owner wants to announce at the start
    Threshold,      \* the smallest growth that is worth a frame
    MaxValue,       \* bound on the value
    Packets         \* the packet numbers

ASSUME ValuesAssumption ==
    /\ InitialValue \in Nat /\ FirstValue \in Nat /\ Threshold \in Nat /\ MaxValue \in Nat
    /\ InitialValue <= FirstValue
    /\ FirstValue <= MaxValue

ASSUME PacketsAssumption == Packets \subseteq Nat \ {0}

VARIABLES
    sync,       \* the synchronizer
    wire,       \* packets on their way: [packet, value]
    open,       \* packet numbers the endpoint waits for an ack or a loss of
    arrived,    \* packet numbers of `open` that the peer will acknowledge
    peerValue   \* the largest value the peer has seen

vars == <<sync, wire, open, arrived, peerValue>>

Init ==
    /\ sync = IncrementalNew(FirstValue, InitialValue, Threshold)
    /\ wire = {}
    /\ open = {}
    /\ arrived = {}
    /\ peerValue = InitialValue

(* update_latest_value                                                     *)
UpdateLatestValue ==
    \E value \in (sync.latest + 1)..MaxValue :
        /\ sync' = IncrementalUpdateLatestValue(sync, value)
        /\ UNCHANGED <<wire, open, arrived, peerValue>>

(* stop_sync                                                               *)
StopSync ==
    /\ sync.delivery.state # "Cancelled"
    /\ sync' = IncrementalStopSync(sync)
    /\ UNCHANGED <<wire, open, arrived, peerValue>>

FreePackets == Packets \ (open \cup {packet.packet : packet \in wire})

(* on_transmit: only called while the synchronizer has interest.           *)
OnTransmit ==
    \E pn \in FreePackets, constraint \in Constraints :
        /\ TryTransmit(sync.delivery, constraint)
        /\ sync' = IncrementalOnTransmit(sync, pn, constraint)
        /\ wire' = wire \cup {[packet |-> pn, value |-> sync.latest]}
        /\ open' = open \cup {pn}
        /\ UNCHANGED <<arrived, peerValue>>

(* The peer applies the larger value and will acknowledge the packet.      *)
PeerReceives ==
    \E packet \in wire :
        /\ wire' = wire \ {packet}
        /\ peerValue' = IF packet.value > peerValue THEN packet.value ELSE peerValue
        /\ arrived' = arrived \cup ({packet.packet} \cap open)
        /\ UNCHANGED <<sync, open>>

NetworkDrops ==
    \E packet \in wire :
        /\ wire' = wire \ {packet}
        /\ UNCHANGED <<sync, open, arrived, peerValue>>

(* on_packet_ack                                                           *)
OnPacketAck ==
    \E pns \in SUBSET arrived \ {{}} :
        /\ sync' = IncrementalOnPacketAck(sync, pns)
        /\ open' = open \ pns
        /\ arrived' = arrived \ pns
        /\ UNCHANGED <<wire, peerValue>>

(* on_packet_loss, of a packet that is lost or only late.                  *)
OnPacketLoss ==
    \E pns \in SUBSET open \ {{}} :
        /\ sync' = IncrementalOnPacketLoss(sync, pns)
        /\ open' = open \ pns
        /\ arrived' = arrived \ pns
        /\ UNCHANGED <<wire, peerValue>>

Next ==
    \/ UpdateLatestValue
    \/ StopSync
    \/ OnTransmit
    \/ PeerReceives
    \/ NetworkDrops
    \/ OnPacketAck
    \/ OnPacketLoss

(* The endpoint serves a synchronizer that has interest and processes      *)
(* acknowledgements and losses; a value that is sent again and again gets  *)
(* through.                                                                *)
Fairness ==
    /\ WF_vars(OnTransmit)
    /\ WF_vars(OnPacketAck)
    /\ WF_vars(OnPacketLoss)
    /\ SF_vars(PeerReceives)

Spec == Init /\ [][Next]_vars /\ Fairness

-----------------------------------------------------------------------------
Packet == [packet : Packets, value : Nat]

TypeOK ==
    /\ sync \in [latest : Nat, acked : Nat, threshold : {Threshold},
                 delivery : DeliveryState(Nat, Packets)]
    /\ wire \subseteq Packet
    /\ open \subseteq Packets
    /\ arrived \subseteq open
    /\ peerValue \in Nat

(* The peer is never told more than the owner granted, and never less than *)
(* what it acknowledged: `value_ackd_up_to <= peer's limit <= latest_value`*)
(* whatever the order in which frames, acks and spurious losses arrive.    *)
PeerBetweenAckedAndLatest ==
    /\ sync.acked <= peerValue
    /\ peerValue <= sync.latest

(* `on_packet_ack` does not look for a new update because "if the value    *)
(* would have been updated significantly enough the update would already   *)
(* have been superseded": an idle synchronizer is never a threshold behind.*)
IdleMeansInsignificant ==
    sync.delivery.state = "NotRequested" =>
        \/ sync.latest = sync.acked
        \/ sync.latest - sync.acked < Threshold

(* The inductive strengthening: the frame in flight is the one on the wire *)
(* and lies between the acknowledged and the latest value.                 *)
IInv ==
    /\ TypeOK
    /\ PeerBetweenAckedAndLatest
    /\ IdleMeansInsignificant
    /\ \A packet \in wire : packet.value <= sync.latest
    /\ sync.delivery.state = "InFlight" =>
          /\ sync.delivery.packet \in open
          /\ sync.acked <= sync.delivery.value
          /\ sync.delivery.value <= sync.latest
          /\ sync.delivery.packet \in arrived => sync.delivery.value <= peerValue
          /\ \A packet \in wire :
                packet.packet = sync.delivery.packet => packet.value = sync.delivery.value
          /\ \/ sync.latest = sync.delivery.value
             \/ sync.latest - sync.delivery.value < Threshold

(* `value_ackd_up_to` never goes back, although packets that carry older   *)
(* values are acknowledged late.                                           *)
AckedNeverDecreases == [][sync'.acked >= sync.acked]_vars

(* Unless it is cancelled, the peer eventually learns a value less than a  *)
(* threshold behind the final one, however many frames are lost.           *)
PeerCatchesUp ==
    <>[]( \/ sync.delivery.state = "Cancelled"
          \/ sync.latest - peerValue < Threshold
          \/ sync.latest = peerValue )

=============================================================================
