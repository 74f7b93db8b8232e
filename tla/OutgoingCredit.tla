----------------------------- MODULE OutgoingCredit -----------------------------
(***************************************************************************)
(* The streams of a connection drawing on its flow control credit: several *)
(* `StreamFlowController`s on one `OutgoingConnectionFlowController`, with *)
(* the DATA_BLOCKED and STREAM_DATA_BLOCKED frames and `Manager::          *)
(* on_max_data`, which hands new credit to the streams that wait for it.   *)
(*                                                                         *)
(* Of the data sender only the offset of the data sent so far is kept      *)
(* (`tx`).  The announcements of all streams travel in the packet numbers  *)
(* of Packets; one packet may carry several of them.                       *)
(***************************************************************************)
EXTENDS OutgoingFlowControl, FiniteSetsExt, SequencesExt

CONSTANTS
    Streams,                \* the streams of the connection
    Packets,                \* packet numbers
    InitialMaxData,         \* connection window at the start
    InitialMaxStreamData,   \* stream window at the start
    MaxWindow,              \* bound on the windows
    MaxBytes                \* bound on the data of a stream

ASSUME CreditAssumption ==
    /\ Packets \subseteq Nat \ {0}
    /\ MaxWindow \in Nat /\ MaxBytes \in Nat
    /\ InitialMaxData \in 0..MaxWindow /\ InitialMaxStreamData \in 0..MaxWindow

VARIABLES
    send,   \* the flow controller of each stream
    conn    \* the connection's flow controller

vars == <<send, conn>>

FlowControllerNew(window) ==
    [fc |-> "Ready", acquired |-> 0, highest |-> 0, maxStreamData |-> window,
     blocked |-> PeriodicNew, tx |-> 0]

Init ==
    /\ send = [s \in Streams |-> FlowControllerNew(InitialMaxStreamData)]
    /\ conn = ConnNew(InitialMaxData)

(* The data sender acquires window for new data up to `end`, unless it is  *)
(* blocked, and sends what fits.                                           *)
SendNewData(s) ==
    /\ send[s].fc = "Ready"
    /\ \E end \in (send[s].tx + 1)..MaxBytes :
         LET q == AcquireFlowControlWindow([stream |-> send[s], conn |-> conn], end)
         IN  \E tx \in send[s].tx..end :
                /\ tx <= Larger(AvailableWindow(q.stream), send[s].tx)
                /\ send' = [send EXCEPT ![s] = [q.stream EXCEPT !.tx = tx]]
                /\ conn' = q.conn

(* Lost data is sent again whether or not the stream is blocked.           *)
Retransmit(s) ==
    /\ send[s].fc # "Finished"
    /\ \E end \in 1..send[s].tx :
         LET q == AcquireFlowControlWindow([stream |-> send[s], conn |-> conn], end)
         IN  /\ send' = [send EXCEPT ![s] = q.stream]
             /\ conn' = q.conn

(* on_packet_loss of the data sender.                                      *)
DataIsLost(s) ==
    /\ send[s].tx > 0
    /\ send' = [send EXCEPT ![s] = ClearBlocked(@)]
    /\ UNCHANGED conn

(* All data was acknowledged, or the stream was reset.                     *)
FinishStream(s) ==
    /\ send' = [send EXCEPT ![s] = FinishFlowController(@)]
    /\ UNCHANGED conn

OnMaxStreamData(s) ==
    \E maximum \in 0..MaxWindow :
        /\ send' = [send EXCEPT ![s] = SetMaxStreamData(@, maximum)]
        /\ UNCHANGED conn

ServeStream(p, s) ==
    LET q == TryAcquireConnectionWindow([stream |-> p.send[s], conn |-> p.conn])
    IN  IF p.conn.available = 0
          THEN p
          ELSE [send |-> [p.send EXCEPT ![s] = q.stream], conn |-> q.conn]

(* Manager::on_max_data: the streams on the list of those that wait for    *)
(* connection credit are served one by one until the credit is used up.    *)
OnMaxData ==
    \E maximum \in 0..MaxWindow,
       list \in SetToSeqs({s \in Streams : send[s].fc = "BlockedOnConnectionWindow"}) :
        LET p == FoldLeft(ServeStream, [send |-> send, conn |-> ConnOnMaxData(conn, maximum)], list)
        IN  /\ send' = p.send
            /\ conn' = p.conn

(* on_transmit of a stream's flow controller and of the connection's.      *)
StreamBlockedOnTransmit(s) ==
    \E pn \in Packets, constraint \in Constraints, eliciting \in BOOLEAN :
        /\ send' = [send EXCEPT ![s].blocked = BlockedOnTransmit(@, pn, constraint, eliciting)]
        /\ UNCHANGED conn

ConnBlockedOnTransmit ==
    \E pn \in Packets, constraint \in Constraints, eliciting \in BOOLEAN :
        /\ conn' = [conn EXCEPT !.blocked = BlockedOnTransmit(@, pn, constraint, eliciting)]
        /\ UNCHANGED send

(* The connection is told of every packet, a stream only while it is on    *)
(* the frame delivery list (`notified`).                                   *)
OnPacketAck ==
    \E pns \in SUBSET Packets, notified \in SUBSET Streams :
        /\ conn' = [conn EXCEPT !.blocked = PeriodicOnPacketAck(@, pns)]
        /\ send' = [s \in Streams |-> IF s \in notified
                      THEN [send[s] EXCEPT !.blocked = PeriodicOnPacketAck(@, pns)] ELSE send[s]]

OnPacketLoss ==
    \E pns \in SUBSET Packets, notified \in SUBSET Streams :
        /\ conn' = [conn EXCEPT !.blocked = PeriodicOnPacketLoss(@, pns)]
        /\ send' = [s \in Streams |-> IF s \in notified
                      THEN [send[s] EXCEPT !.blocked = PeriodicOnPacketLoss(@, pns)] ELSE send[s]]

ConnOnTimeout ==
    /\ conn.blocked.armed
    /\ conn' = [conn EXCEPT !.blocked = PeriodicOnTimeout(@)]
    /\ UNCHANGED send

StreamOnTimeout(s) ==
    /\ send[s].blocked.armed
    /\ send' = [send EXCEPT ![s].blocked = PeriodicOnTimeout(@)]
    /\ UNCHANGED conn

Next ==
    \/ \E s \in Streams :
          \/ SendNewData(s) \/ Retransmit(s) \/ DataIsLost(s) \/ FinishStream(s)
          \/ OnMaxStreamData(s) \/ StreamBlockedOnTransmit(s) \/ StreamOnTimeout(s)
    \/ OnMaxData
    \/ ConnBlockedOnTransmit
    \/ ConnOnTimeout
    \/ OnPacketAck
    \/ OnPacketLoss

Spec == Init /\ [][Next]_vars

-----------------------------------------------------------------------------
PeriodicRecord ==
    [latest : Nat, armed : BOOLEAN, delivery : DeliveryState(Nat, Packets), delivered : BOOLEAN]

TypeOK ==
    /\ send \in [Streams ->
          [fc : {"Ready", "BlockedOnStreamWindow", "BlockedOnConnectionWindow", "Finished"},
           acquired : Nat, highest : Nat, maxStreamData : Nat, blocked : PeriodicRecord, tx : Nat]]
    /\ conn \in [total : Nat, available : Nat, blocked : PeriodicRecord]

(* Connection credit is neither lost nor created: what the streams hold    *)
(* and what is left is the window the peer granted.                        *)
CreditIsConserved ==
    conn.available + MapThenSumSet(LAMBDA s : send[s].acquired, Streams) = conn.total

(* What the streams sent together stays within MAX_DATA, and each within   *)
(* its MAX_STREAM_DATA.                                                    *)
SentWithinLimits ==
    /\ MapThenSumSet(LAMBDA s : send[s].tx, Streams) <= conn.total
    /\ \A s \in Streams : send[s].tx <= send[s].maxStreamData

(* No stream stays blocked on the connection while credit is left over:    *)
(* `on_max_data` hands it out before anyone else can ask.                  *)
NoStarvedStream ==
    conn.available > 0 =>
        \A s \in Streams : send[s].fc # "BlockedOnConnectionWindow"

Announces(sync) == sync.armed \/ sync.delivery.state \in {"Requested", "Lost", "InFlight"}

=============================================================================
