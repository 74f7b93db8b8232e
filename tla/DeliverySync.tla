------------------------------ MODULE DeliverySync ------------------------------
(***************************************************************************)
(* The frame delivery helpers of s2n-quic-transport/src/sync: the          *)
(* `DeliveryState` of one piece of control information and the three       *)
(* synchronizers built on it, `OnceSync` (RESET_STREAM, STOP_SENDING),     *)
(* `IncrementalValueSync` (MAX_DATA, MAX_STREAM_DATA, MAX_STREAMS) and     *)
(* `PeriodicSync` (DATA_BLOCKED, STREAM_DATA_BLOCKED, STREAMS_BLOCKED).    *)
(*                                                                         *)
(* The synchronizers are plain records and every method is an operator     *)
(* from the old record to the new one, so that each component that owns a  *)
(* synchronizer can apply it inside its own action.  Packet numbers are    *)
(* positive; 0 stands for "no packet" and for "no value".                  *)
(***************************************************************************)
EXTENDS Integers

(* transmission::Constraint: what the congestion controller and the        *)
(* anti-amplification limit let the current packet carry.                  *)
Constraints == {"None", "RetransmissionOnly", "CongestionLimited", "AmplificationLimited"}

CanTransmit(constraint) == constraint = "None"

CanRetransmit(constraint) == CanTransmit(constraint) \/ constraint = "RetransmissionOnly"

-----------------------------------------------------------------------------
(* DeliveryState<T>.  The value kept by `Cancelled` is never read again    *)
(* and is dropped.                                                         *)

NotRequested == [state |-> "NotRequested", value |-> 0, packet |-> 0]

Requested(v) == [state |-> "Requested", value |-> v, packet |-> 0]

Lost(v) == [state |-> "Lost", value |-> v, packet |-> 0]

InFlight(v, pn) == [state |-> "InFlight", value |-> v, packet |-> pn]

Delivered(v) == [state |-> "Delivered", value |-> v, packet |-> 0]

Cancelled == [state |-> "Cancelled", value |-> 0, packet |-> 0]

DeliveryStateNames ==
    {"NotRequested", "Requested", "Lost", "InFlight", "Delivered", "Cancelled"}

DeliveryState(Values, Packets) ==
    {d \in [state : DeliveryStateNames, value : Values \cup {0}, packet : Packets \cup {0}] :
        d.state = "InFlight" => d.packet # 0}

(* cancel: every state ends in `Cancelled`.                                *)
Cancel(d) == Cancelled

(* Mutant: a lost delivery is never sent again.                            *)
MutantNoRetransmission(d, constraint) == d.state = "Requested" /\ CanTransmit(constraint)

TryTransmit(d, constraint) ==
    \/ d.state = "Requested" /\ CanTransmit(constraint)
    \/ d.state = "Lost" /\ CanRetransmit(constraint)

(* The delivery wants a slot in the next packet (transmission_interest).   *)
HasInterest(d) == d.state \in {"Requested", "Lost"}

IsInFlightIn(d, pns) == d.state = "InFlight" /\ d.packet \in pns

-----------------------------------------------------------------------------
(* OnceSync<T, S>: one value, delivered exactly once.                      *)

OnceRequestDelivery(d, v) == IF d.state = "NotRequested" THEN Requested(v) ELSE d

OnceOnPacketAck(d, pns) == IF IsInFlightIn(d, pns) THEN Delivered(d.value) ELSE d

OnceOnPacketLoss(d, pns) == IF IsInFlightIn(d, pns) THEN Lost(d.value) ELSE d

OnceOnTransmit(d, pn, constraint) ==
    IF TryTransmit(d, constraint) THEN InFlight(d.value, pn) ELSE d

-----------------------------------------------------------------------------
(* IncrementalValueSync<T, S>: a growing value of which the peer must know *)
(* an approximation that is at most `threshold` behind.                    *)

IncrementalShouldSendUpdate(sync) ==
    /\ sync.delivery.state # "Cancelled"
    /\ sync.latest # sync.acked
    /\ IF sync.delivery.state = "InFlight"
         THEN sync.latest - sync.delivery.value >= sync.threshold
         ELSE sync.latest - sync.acked >= sync.threshold

IncrementalRequestIfNecessary(sync) ==
    IF IncrementalShouldSendUpdate(sync)
      THEN [sync EXCEPT !.delivery = Requested(sync.latest)]
      ELSE sync

IncrementalNew(latest, acked, threshold) ==
    IncrementalRequestIfNecessary(
        [latest |-> latest, acked |-> acked, threshold |-> threshold,
         delivery |-> NotRequested])

(* Mutant: the owner forgets to look for an update.                        *)
MutantUpdateWithoutRequest(sync, value) == [sync EXCEPT !.latest = value]

(* Mutant: a new value starts the synchronization over.                    *)
MutantUpdateStartsOver(sync, value) == IncrementalNew(value, 0, sync.threshold)

IncrementalUpdateLatestValue(sync, value) ==
    IncrementalRequestIfNecessary([sync EXCEPT !.latest = value])

IncrementalStopSync(sync) == [sync EXCEPT !.delivery = Cancel(sync.delivery)]

(* Mutant: an ack is taken for the latest value instead of the sent one.   *)
MutantAckTakesLatest(sync, pns) ==
    IF IsInFlightIn(sync.delivery, pns)
      THEN [sync EXCEPT !.acked = sync.latest, !.delivery = NotRequested]
      ELSE sync

IncrementalOnPacketAck(sync, pns) ==
    IF IsInFlightIn(sync.delivery, pns)
      THEN [sync EXCEPT !.acked = sync.delivery.value, !.delivery = NotRequested]
      ELSE sync

IncrementalOnPacketLoss(sync, pns) ==
    IF IsInFlightIn(sync.delivery, pns)
      THEN [sync EXCEPT !.delivery = Lost(sync.latest)]
      ELSE sync

(* Mutant: the packet that carries the frame is not recorded.              *)
MutantTransmitUntracked(sync, pn, constraint) ==
    IF TryTransmit(sync.delivery, constraint)
      THEN [sync EXCEPT !.delivery = InFlight(sync.latest, 0)]
      ELSE sync

(* The frame carries the latest value, not the one that was requested.     *)
IncrementalOnTransmit(sync, pn, constraint) ==
    IF TryTransmit(sync.delivery, constraint)
      THEN [sync EXCEPT !.delivery = InFlight(sync.latest, pn)]
      ELSE sync

-----------------------------------------------------------------------------
(* PeriodicSync<T, S>: a value repeated every sync period until it is      *)
(* stopped.  Time is abstracted: `armed` says that the delivery timer is   *)
(* set, and an armed timer may expire at any later step.  The backoff      *)
(* counter only stretches the period and is left out.                      *)

PeriodicNew == [latest |-> 0, armed |-> FALSE, delivery |-> NotRequested, delivered |-> FALSE]

PeriodicRequestDelivery(sync, value) ==
    [sync EXCEPT
        !.latest = value,
        !.delivery = IF sync.delivery.state \in {"NotRequested", "Cancelled"}
                       THEN Requested(value) ELSE sync.delivery]

PeriodicSkipDelivery(sync) ==
    CASE sync.delivery.state \in {"Requested", "Lost"} ->
            [sync EXCEPT !.delivery = NotRequested, !.armed = TRUE]
      [] sync.delivery.state = "Delivered" -> [sync EXCEPT !.armed = TRUE]
      [] OTHER -> sync

(* Called with an expired timer.                                           *)
PeriodicOnTimeout(sync) ==
    [sync EXCEPT !.armed = FALSE, !.delivery = Requested(sync.latest)]

PeriodicStopSync(sync) ==
    [sync EXCEPT !.armed = FALSE, !.delivery = Cancel(sync.delivery), !.delivered = FALSE]


PeriodicOnPacketAck(sync, pns) ==
    IF IsInFlightIn(sync.delivery, pns)
      THEN [sync EXCEPT !.delivered = TRUE, !.armed = TRUE,
                        !.delivery = Delivered(sync.delivery.value)]
      ELSE sync

PeriodicOnPacketLoss(sync, pns) ==
    IF IsInFlightIn(sync.delivery, pns)
      THEN [sync EXCEPT !.delivery = Lost(sync.delivery.value)]
      ELSE sync

PeriodicOnTransmit(sync, pn, constraint) ==
    IF TryTransmit(sync.delivery, constraint)
      THEN [sync EXCEPT !.delivery = InFlight(sync.latest, pn)]
      ELSE sync
=============================================================================
