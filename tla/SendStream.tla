------------------------------- MODULE SendStream -------------------------------
(***************************************************************************)
(* The sending half of a stream (`SendStream`) and the connection credit   *)
(* it shares with other streams, against an environment that acknowledges  *)
(* or loses packets in any order, raises limits, asks to stop sending and  *)
(* uses up credit.  How several streams share the credit, and the          *)
(* DATA_BLOCKED frames, are the subject of OutgoingCredit.                 *)
(*                                                                         *)
(* A stream is a record and every method an operator from the old record   *)
(* to the new one.  Packet numbers are only compared for equality, so a    *)
(* number is reused once no stream refers to it.                           *)
(***************************************************************************)
EXTENDS DataSender

CONSTANTS
    Packets,                \* packet numbers
    Capacity,               \* max_buffer_capacity
    InitialMaxData,         \* connection window at the start
    InitialMaxStreamData,   \* stream window at the start
    MaxWindow,              \* bound on both windows
    MaxBytes,               \* bound on the bytes written to a stream
    MaxChunk,               \* bound on the length of a chunk
    MaxRoom                 \* bound on the room in a packet

ASSUME PacketsAssumption == Packets \subseteq Nat \ {0}

ASSUME SizesAssumption ==
    /\ Capacity \in Nat /\ MaxWindow \in Nat /\ MaxBytes \in Nat
    /\ MaxChunk \in Nat /\ MaxRoom \in Nat
    /\ InitialMaxData \in 0..MaxWindow /\ InitialMaxStreamData \in 0..MaxWindow

VARIABLES
    st,     \* the sending half of the stream
    conn    \* the OutgoingConnectionFlowController

vars == <<st, conn>>

SendNew(window) ==
    [state |-> "Sending",
     sender |-> "Sending", fin |-> "None", finPacket |-> 0,
     total |-> 0, head |-> 0, tx |-> 0, pending |-> {}, lost |-> {}, inflight |-> {},
     fc |-> "Ready", acquired |-> 0, highest |-> 0, maxStreamData |-> window,
     blocked |-> PeriodicNew,
     reset |-> NotRequested,
     waiter |-> "None", observed |-> FALSE, detached |-> FALSE]

Init ==
    /\ st = SendNew(InitialMaxStreamData)
    /\ conn = ConnNew(InitialMaxData)

-----------------------------------------------------------------------------
(* SendStream's methods.  `waiter` is the registered waker, with or        *)
(* without the request to flush.                                           *)

CanPush(x) == AvailableBufferSpace(x, Capacity) > 0

Detach(x) ==
    [x EXCEPT !.detached = TRUE, !.waiter = "None",
               !.observed = \/ @
                            \/ x.state = "ResetAcknowledged"
                            \/ x.state = "Sending" /\ x.sender = "Finished"]

Wake(x) ==
    CASE x.waiter # "None" -> [x EXCEPT !.waiter = "None"]
      [] x.waiter = "None" /\ x.detached -> Detach(x)
      [] OTHER -> x

ResetIsNecessary(x) == x.state = "Sending" /\ x.sender # "Finished"

ResetTo(x, source, size) ==
    [StopSending(x) EXCEPT
        !.state = IF source = "InternalReset" THEN "ResetAcknowledged" ELSE "ResetSent",
        !.observed = @ \/ source = "LocalApplication",
        !.reset = IF source = "InternalReset" THEN Cancel(@) ELSE OnceRequestDelivery(@, size)]

(* Mutant: the final size is what was sent.                                *)
MutantFinalSizeSent(x, source) ==
    IF ResetIsNecessary(x) THEN ResetTo(x, source, x.tx) ELSE x

(* init_reset for the three sources; the final size it announces is the    *)
(* connection credit the stream holds.                                     *)
InitReset(x, source) ==
    IF ResetIsNecessary(x) THEN ResetTo(x, source, x.acquired) ELSE x

(* store_waker: an earlier request to flush is kept.                       *)
StoreWaker(x, context, flush) ==
    IF context
      THEN [x EXCEPT !.waiter = IF flush \/ @ = "Flush" THEN "Flush" ELSE "Wait"]
      ELSE x

ClearWaiter(x) == [x EXCEPT !.waiter = "None"]

(* The part of poll_request after the data of the request was accepted.    *)
PollFinishFlush(x, request) ==
    CASE request.finish /\ x.sender = "Finished" ->
            [x EXCEPT !.observed = TRUE, !.waiter = "None"]
      [] request.finish /\ x.sender # "Finished" ->
            IF request.flush
              THEN StoreWaker(Finish(x), request.context, TRUE)
              ELSE ClearWaiter(Finish(x))
      [] ~request.finish /\ request.flush /\ EnqueuedLen(x) > 0 ->
            StoreWaker(x, request.context, TRUE)
      [] OTHER -> x

WaitForReset(x, request) ==
    IF request.flush /\ x.state # "ResetAcknowledged"
      THEN StoreWaker(x, request.context, TRUE)
      ELSE ClearWaiter(x)

PollReset(x, request) == WaitForReset(InitReset(x, "LocalApplication"), request)

PollSend(x, request) ==
    LET waits == request.chunk = 0 /\ ~request.finish /\ ~request.flush /\ request.context
    IN  CASE x.state # "Sending" -> [x EXCEPT !.observed = TRUE, !.waiter = "None"]
          [] x.state = "Sending" /\ (request.chunk > 0 \/ waits) /\ x.sender # "Sending" -> x
          [] x.state = "Sending" /\ (request.chunk > 0 \/ waits) /\ x.sender = "Sending" ->
                IF CanPush(x)
                  THEN PollFinishFlush(Push(x, request.chunk), request)
                  ELSE StoreWaker(x, request.context, FALSE)
          [] OTHER -> PollFinishFlush(x, request)

(* poll_request, with at most one chunk: a request with more chunks does   *)
(* what one request per chunk does.                                        *)
PollOpen(x, request) ==
    IF request.reset THEN PollReset(x, request) ELSE PollSend(x, request)

SendPollRequest(x, request) ==
    PollOpen(IF request.detached THEN Detach(x) ELSE x, request)

WakeIfWritable(x) == IF CanPush(x) /\ x.sender = "Sending" THEN Wake(x) ELSE x

SendOnMaxStreamData(x, maximum) ==
    IF x.state = "Sending" THEN WakeIfWritable(SetMaxStreamData(x, maximum)) ELSE x

SendOnStopSending(x) ==
    IF ResetIsNecessary(x) THEN Wake(InitReset(x, "StopSendingFrame")) ELSE x

(* on_connection_window_available                                          *)
SendOnConnectionWindowAvailable(p) ==
    IF p.stream.state = "Sending" /\ p.stream.fc = "BlockedOnConnectionWindow"
                                  /\ p.conn.available > 0
      THEN TryAcquireConnectionWindow(p) ELSE p

SendOnInternalReset(x) == Wake(InitReset(x, "InternalReset"))

SendOnFlush(x) == IF x.sender = "Finishing" THEN x ELSE SendOnInternalReset(x)

(* Mutant: a writer waits for the whole buffer to be acknowledged.         *)
MutantWakeWhenEmpty(x) == EnqueuedLen(x) = 0

SendShouldWake(x) ==
    CASE x.sender = "Sending" ->
            CanPush(x) /\ (x.waiter = "Flush" => EnqueuedLen(x) = 0)
      [] x.sender = "Finishing" -> EnqueuedLen(x) = 0 /\ x.fin = "Acknowledged"
      [] x.sender = "Finished" -> TRUE
      [] OTHER -> FALSE

WakeOnAck(x) == IF SendShouldWake(x) THEN Wake(x) ELSE x

(* The reset synchronizer is told of acknowledgements in `ResetSent` only. *)
AckReset(x, pns) ==
    IF IsInFlightIn(x.reset, pns)
      THEN Wake([x EXCEPT !.reset = OnceOnPacketAck(@, pns), !.state = "ResetAcknowledged"])
      ELSE x

AckState(x, pns) ==
    CASE x.state = "Sending" -> WakeOnAck(x)
      [] x.state = "ResetSent" -> AckReset(x, pns)
      [] OTHER -> x

SendOnPacketAck(x, pns) ==
    AckState([DataOnPacketAck(x, pns) EXCEPT !.blocked = PeriodicOnPacketAck(@, pns)], pns)

SendOnPacketLoss(x, pns) ==
    [DataOnPacketLoss(x, pns) EXCEPT !.blocked = PeriodicOnPacketLoss(@, pns),
                                     !.reset = OnceOnPacketLoss(@, pns)]

(* on_transmit: RESET_STREAM, the data and STREAM_DATA_BLOCKED.  The       *)
(* packet already elicits an acknowledgement when other frames are in it.  *)
AnnounceReset(t, pn, constraint) ==
    IF TryTransmit(t.stream.reset, constraint)
      THEN [t EXCEPT !.stream.reset = OnceOnTransmit(@, pn, constraint), !.room = @ - HeaderLen]
      ELSE t

(* `room` is what the packet had left at the start.                        *)
AnnounceBlocked(t, room, pn, constraint, eliciting) ==
    LET failed == t.err /\ t.room = room
        wrote == eliciting \/ t.room < room
        fits == t.room >= HeaderLen \/ (wrote /\ t.stream.blocked.delivered)
    IN  IF ~failed /\ fits
          THEN [t EXCEPT !.stream.blocked = BlockedOnTransmit(@, pn, constraint, wrote)]
          ELSE t

SendOnTransmit(t, pn, constraint, eliciting) ==
    IF TryTransmit(t.stream.reset, constraint) /\ t.room < HeaderLen
      THEN t
      ELSE AnnounceBlocked(
              DataOnTransmit(AnnounceReset(t, pn, constraint), pn, constraint),
              t.room, pn, constraint, eliciting)

SendHasInterest(x) ==
    CASE x.state = "Sending" ->
            ~x.observed /\ (DataHasInterest(x) \/ HasInterest(x.blocked.delivery)
                                                 \/ HasInterest(x.reset))
      [] x.state = "ResetSent" -> HasInterest(x.reset)
      [] OTHER -> ~x.observed /\ (HasInterest(x.blocked.delivery) \/ HasInterest(x.reset))


SendIsRetained(x) == ~(x.observed /\ x.state \in {"Sending", "ResetAcknowledged"})

SendWantsAcks(x) ==
    SendIsRetained(x) /\ (DataIsInflight(x) \/ x.reset.state = "InFlight")

-----------------------------------------------------------------------------
(* The actions.                                                            *)

(* The requests of the stream handle; dropping the handle finishes and     *)
(* detaches the stream in one request.                                     *)
Requests ==
    {r \in [chunk : 0..MaxChunk, finish : BOOLEAN, flush : BOOLEAN, reset : BOOLEAN,
            detached : BOOLEAN, context : BOOLEAN] :
        /\ r.reset => r.chunk = 0 /\ ~r.finish
        /\ r.detached => r.chunk = 0 /\ r.finish /\ ~r.flush /\ ~r.reset /\ ~r.context}

PollRequest ==
    /\ SendIsRetained(st)
    /\ \E request \in Requests :
          /\ st.total + request.chunk <= MaxBytes
          /\ st' = SendPollRequest(st, request)
    /\ UNCHANGED conn

FreePackets ==
    Packets \ ({t[1] : t \in st.inflight} \cup
                {st.finPacket, st.reset.packet, st.blocked.delivery.packet})

(* Which unused number a packet gets does not matter.                      *)
NextPacket == IF FreePackets = {} THEN {} ELSE {Min(FreePackets)}

OnTransmit ==
    \E pn \in NextPacket, constraint \in Constraints, room \in 0..MaxRoom, eliciting \in BOOLEAN :
        \E t \in {SendOnTransmit([stream |-> st, conn |-> conn, room |-> room, err |-> FALSE],
                                 pn, constraint, eliciting)} :
            st' = t.stream /\ conn' = t.conn

(* The manager tells a stream of acknowledged and lost packets only while  *)
(* it is on the frame delivery list, where its receiving half may have put *)
(* it as well.                                                             *)
OnPacketAck ==
    \E pns \in SUBSET Packets, receiving \in BOOLEAN :
        /\ SendWantsAcks(st) \/ receiving
        /\ st' = SendOnPacketAck(st, pns)
        /\ UNCHANGED conn

OnPacketLoss ==
    \E pns \in SUBSET Packets, receiving \in BOOLEAN :
        /\ SendWantsAcks(st) \/ receiving
        /\ st' = SendOnPacketLoss(st, pns)
        /\ UNCHANGED conn

OnMaxStreamData ==
    \E maximum \in 0..MaxWindow :
        /\ st' = SendOnMaxStreamData(st, maximum)
        /\ UNCHANGED conn

(* MAX_DATA: the streams ahead of this one in the list of those that wait  *)
(* for credit take some of it first.                                       *)
OnMaxData ==
    \E maximum \in 0..MaxWindow, taken \in 0..MaxWindow :
        \E raised \in {ConnOnMaxData(conn, maximum)} :
            /\ taken <= raised.available
            /\ \E p \in {SendOnConnectionWindowAvailable(
                          [stream |-> st, conn |-> [raised EXCEPT !.available = @ - taken]])} :
                  st' = p.stream /\ conn' = p.conn

OtherStreamsAcquire ==
    \E desired \in 1..MaxWindow :
        /\ conn' = ConnAcquireWindow(conn, desired)
        /\ UNCHANGED st

OnStopSending == st' = SendOnStopSending(st) /\ UNCHANGED conn

OnInternalReset == st' = SendOnInternalReset(st) /\ UNCHANGED conn

OnFlush == st' = SendOnFlush(st) /\ UNCHANGED conn

OnTimeout ==
    /\ st.blocked.armed
    /\ st' = [st EXCEPT !.blocked = PeriodicOnTimeout(@)]
    /\ UNCHANGED conn

Next ==
    \/ PollRequest
    \/ OnTransmit
    \/ OnPacketAck
    \/ OnPacketLoss
    \/ OnMaxStreamData
    \/ OnMaxData
    \/ OtherStreamsAcquire
    \/ OnStopSending
    \/ OnInternalReset
    \/ OnFlush
    \/ OnTimeout

Spec == Init /\ [][Next]_vars

-----------------------------------------------------------------------------
Offsets == 0..(MaxBytes - 1)

SendRecord ==
    [state : {"Sending", "ResetSent", "ResetAcknowledged"},
     sender : {"Sending", "Finishing", "Finished", "Cancelled"},
     fin : {"None", "Pending", "InFlight", "Lost", "Acknowledged"},
     finPacket : Packets \cup {0},
     total : Nat, head : Nat, tx : Nat,
     pending : SUBSET Offsets, lost : SUBSET Offsets, inflight : SUBSET (Packets \X Offsets),
     fc : {"Ready", "BlockedOnStreamWindow", "BlockedOnConnectionWindow", "Finished"},
     acquired : Nat, highest : Nat, maxStreamData : Nat,
     blocked : [latest : Nat, armed : BOOLEAN, delivery : DeliveryState(Nat, Packets),
                delivered : BOOLEAN],
     reset : DeliveryState(Nat, Packets),
     waiter : {"None", "Wait", "Flush"}, observed : BOOLEAN, detached : BOOLEAN]

TypeOK ==
    /\ st \in SendRecord
    /\ conn.total \in Nat /\ conn.available \in 0..conn.total

(* Every byte that was written and not yet acknowledged is lost, in flight *)
(* or still to be sent, and nothing else is: what `check_integrity`        *)
(* asserts and its TODO adds (`lost` is a subset of `pending`).            *)
EveryByteIsAccounted ==
    /\ st.lost \subseteq st.pending
    /\ st.pending \subseteq st.head..(st.total - 1)
    /\ st.tx..(st.total - 1) \subseteq st.pending
    /\ st.pending \subseteq
          st.lost \cup {t[2] : t \in st.inflight} \cup (st.tx..(st.total - 1))
    /\ st.pending = {} => st.inflight = {} /\ st.head = st.total /\ st.tx = st.total
    /\ st.pending # {} => st.head \in st.pending

(* The FIN never leaves before the last byte of the stream: it is pending  *)
(* until `transmission_offset` has reached the end of the buffer.          *)
FinFollowsData ==
    st.fin \in {"InFlight", "Lost", "Acknowledged"} => st.tx = st.total

(* No byte is sent beyond the limit of the stream or the credit the stream *)
(* holds of the connection, retransmissions included.                      *)
WithinWindow ==
    /\ st.tx <= st.maxStreamData /\ st.tx <= st.acquired
    /\ \A t \in st.inflight : t[2] < st.tx

(* A stream that still owes data or a FIN is about to send, waits for an   *)
(* acknowledgement or is blocked by the peer's limits: it never stalls.    *)
NeverStalls ==
    st.pending # {} \/ st.sender = "Finishing" =>
        DataHasInterest(st) \/ DataIsInflight(st) \/ IsBlocked(st)

(* No wakeup is lost: a writer only waits while the buffer is full, a      *)
(* flush only while something is unacknowledged.                           *)
WaiterHasReason ==
    st.state = "Sending" /\ st.sender = "Sending" =>
        /\ st.waiter = "Wait" => ~CanPush(st)
        /\ st.waiter = "Flush" => EnqueuedLen(st) > 0

(* No window is acquired once the flow controller was told to finish, what *)
(* the debug assertion of `acquire_flow_control_window` demands.           *)
NoAcquireAfterFinish ==
    st.fc = "Finished" => st.lost = {} /\ st.tx = st.total


-----------------------------------------------------------------------------
(* Statements of the documentation that the code does not keep.            *)

(* A flushed reset request "wanted to wait until the reset was ACKed to    *)
(* unblock": it does not wait on a stream that has nothing left to reset.  *)
FinishedHasNoWaiter ==
    st.state = "Sending" /\ st.sender = "Finished" => st.waiter = "None"
=============================================================================
