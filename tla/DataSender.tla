------------------------------- MODULE DataSender -------------------------------
(***************************************************************************)
(* `DataSender`: the send buffer of a stream, the transmissions in flight  *)
(* and the FIN.                                                            *)
(*                                                                         *)
(* Interval sets are sets of byte offsets, the transmissions in flight a   *)
(* set of <<packet number, offset>> pairs.  The fields of a stream record  *)
(* used here are `sender` and `fin` (the state; `finPacket` is the packet  *)
(* of a FIN in flight), `head` and `total` (the buffer), `tx`              *)
(* (transmission_offset), `pending`, `lost` and `inflight`.                *)
(***************************************************************************)
EXTENDS OutgoingFlowControl, FiniteSetsExt

EnqueuedLen(st) == st.total - st.head

AvailableBufferSpace(st, capacity) == Larger(capacity - EnqueuedLen(st), 0)

StopSending(st) ==
    IF st.sender = "Finished"
      THEN st
      ELSE FinishFlowController([st EXCEPT
                !.sender = "Cancelled", !.fin = "None", !.finPacket = 0,
                !.total = 0, !.head = 0, !.tx = 0,
                !.pending = {}, !.lost = {}, !.inflight = {}])

Push(st, len) ==
    [st EXCEPT !.total = @ + len,
               !.pending = @ \cup (st.total..(st.total + len - 1))]

Finish(st) ==
    IF st.sender = "Sending"
      THEN [st EXCEPT !.sender = "Finishing", !.fin = "Pending"]
      ELSE st

(* The offsets that the packets pns carry, in on_ack_signal.               *)
Carried(st, pns) == {t[2] : t \in {t \in st.inflight : t[1] \in pns}}

FinCarried(st, pns) == st.fin = "InFlight" /\ st.finPacket \in pns

(* The ranges `acked` are done: the buffer is released up to the first     *)
(* byte that is still pending.                                             *)
ReleaseAcked(st, acked, pns) ==
    LET pending == st.pending \ acked
    IN  IF acked = {}
          THEN st
          ELSE [st EXCEPT
                !.pending = pending,
                !.lost = @ \cap pending,
                !.head = IF pending = {} THEN st.total ELSE Larger(@, Min(pending)),
                !.inflight = IF pending = {} THEN {} ELSE {t \in @ : t[1] \notin pns}]

AckFin(st, pns) ==
    IF FinCarried(st, pns)
      THEN [st EXCEPT !.fin = "Acknowledged", !.finPacket = 0]
      ELSE st

(* Mutant: an acknowledged FIN finishes the sender while data is missing.  *)
MutantFinishWithoutIdle(st) ==
    IF st.fin = "Acknowledged" /\ st.sender = "Finishing"
      THEN FinishFlowController([st EXCEPT !.sender = "Finished", !.fin = "None"])
      ELSE st

FinishIfIdle(st) ==
    IF /\ st.fin = "Acknowledged" /\ st.sender = "Finishing"
       /\ st.inflight = {} /\ st.pending = {} /\ st.lost = {}
      THEN FinishFlowController([st EXCEPT !.sender = "Finished", !.fin = "None"])
      ELSE st

DataOnPacketAck(st, pns) ==
    FinishIfIdle(AckFin(ReleaseAcked(st, Carried(st, pns), pns), pns))

(* Mutant: the ranges of a lost packet are dropped.                        *)
MutantLossNotRecorded(st, pns) ==
    [st EXCEPT !.inflight = {t \in @ : t[1] \notin pns},
               !.fin = IF FinCarried(st, pns) THEN "Lost" ELSE @,
               !.finPacket = IF FinCarried(st, pns) THEN 0 ELSE @]

(* Mutant: a lost packet is taken for an acknowledged one.                 *)
MutantLossIsAck(st, pns) == DataOnPacketAck(st, pns)

DataOnPacketLoss(st, pns) ==
    LET carried == Carried(st, pns)
        anyLost == carried # {} \/ FinCarried(st, pns)
        marked == [st EXCEPT
                    !.lost = (@ \cup carried) \cap st.pending,
                    !.inflight = {t \in @ : t[1] \notin pns},
                    !.fin = IF FinCarried(st, pns) THEN "Lost" ELSE @,
                    !.finPacket = IF FinCarried(st, pns) THEN 0 ELSE @]
    IN  IF anyLost THEN ClearBlocked(marked) ELSE st

-----------------------------------------------------------------------------
(* on_transmit.  A transmission is a record of the stream, the connection  *)
(* flow controller, the `room` left in the packet and whether the last     *)
(* attempt to write failed (`err`).  A frame takes HeaderLen units of room *)
(* besides its data: the interval is trimmed to the packet and to the      *)
(* window before the header is accounted for, so window may be acquired    *)
(* for bytes that then do not fit.                                         *)

HeaderLen == 1

LowestOf(S, k) == {x \in S : Cardinality({y \in S : y < x}) < k}

(* The FIN rides on the frame that ends at the end of the buffer.          *)
Piggyback(st, offsets, pn) ==
    IF st.sender = "Finishing" /\ st.fin \in {"Pending", "Lost"} /\ st.total - 1 \in offsets
      THEN [st EXCEPT !.fin = "InFlight", !.finPacket = pn]
      ELSE st

InsertInFlight(st, offsets, pn) ==
    [st EXCEPT !.inflight = @ \cup ({pn} \X offsets)]

(* transmit_set over the lost intervals; the window of lost data was       *)
(* acquired when it was sent first.                                        *)
WriteLost(t, q, offsets, pn) ==
    LET rest == t.stream.lost \ offsets
    IN  [stream |-> Piggyback(InsertInFlight([q.stream EXCEPT !.lost = rest], offsets, pn),
                              offsets, pn),
         conn |-> q.conn,
         room |-> CASE offsets = {} -> t.room
                    [] offsets # {} /\ rest = {} -> t.room - HeaderLen - Cardinality(offsets)
                    [] OTHER -> 0,
         err |-> rest # {}]

TransmitLostOffsets(t, offsets, pn) ==
    WriteLost(t, AcquireFlowControlWindow([stream |-> t.stream, conn |-> t.conn],
                    IF offsets = {} THEN Min(t.stream.lost) + 1 ELSE Max(offsets) + 1),
              offsets, pn)

TransmitLost(t, pn) ==
    IF t.room = 0
      THEN [t EXCEPT !.err = TRUE]
      ELSE TransmitLostOffsets(t, LowestOf(t.stream.lost, t.room - HeaderLen), pn)

(* transmit_interval for data that was never sent: `asked` bytes were      *)
(* asked of the flow controller, which left the stream and the connection  *)
(* of q.                                                                   *)
WriteNew(t, q, asked, pn) ==
    LET first == t.stream.tx
        len == Smaller(Smaller(asked, AvailableWindow(q.stream) - first), t.room - HeaderLen)
        offsets == first..(first + len - 1)
    IN  IF len <= 0
          THEN [t EXCEPT !.stream = q.stream, !.conn = q.conn, !.err = TRUE]
          ELSE [stream |-> Piggyback(InsertInFlight([q.stream EXCEPT !.tx = @ + len],
                                                    offsets, pn), offsets, pn),
                conn |-> q.conn, room |-> t.room - HeaderLen - len, err |-> FALSE]

TransmitInterval(t, asked, pn) ==
    WriteNew(t, AcquireFlowControlWindow([stream |-> t.stream, conn |-> t.conn],
                                         t.stream.tx + asked), asked, pn)

TransmitNew(t, pn) ==
    IF t.room = 0
      THEN [t EXCEPT !.err = TRUE]
      ELSE TransmitInterval(t, Smaller(t.room, t.stream.total - t.stream.tx), pn)

CanTransmitFin(st, constraint, isBlocked) ==
    /\ st.sender = "Finishing"
    /\ \/ st.fin = "Lost" /\ CanRetransmit(constraint)
       \/ st.fin = "Pending" /\ ~isBlocked /\ CanTransmit(constraint)

(* Mutant: the FIN is sent while the stream is blocked.                    *)
MutantFinIgnoresBlocked(t, pn) ==
    IF t.room < HeaderLen
      THEN [t EXCEPT !.err = TRUE]
      ELSE [t EXCEPT !.stream.fin = "InFlight", !.stream.finPacket = pn,
                     !.room = @ - HeaderLen]

TransmitFin(t, pn) ==
    IF IsBlocked(t.stream) \/ t.room < HeaderLen
      THEN [t EXCEPT !.err = TRUE]
      ELSE [t EXCEPT !.stream.fin = "InFlight", !.stream.finPacket = pn,
                     !.room = @ - HeaderLen]

(* on_transmit_impl: lost data first, then new data, then a FIN of its     *)
(* own; a failed attempt ends the transmission.  `isBlocked` is read once, *)
(* before new data is sent.                                                *)
LostOnTransmit(t, pn, constraint) ==
    IF CanRetransmit(constraint) /\ t.stream.lost # {} THEN TransmitLost(t, pn) ELSE t

NewOnTransmit(t, pn, constraint) ==
    IF /\ ~t.err /\ ~IsBlocked(t.stream)
       /\ CanTransmit(constraint) /\ t.stream.tx < t.stream.total
      THEN TransmitNew(t, pn)
      ELSE t

FinOnTransmit(t, pn, constraint, isBlocked) ==
    IF ~t.err /\ CanTransmitFin(t.stream, constraint, isBlocked)
      THEN TransmitFin(t, pn)
      ELSE t

NewAndFinOnTransmit(t, pn, constraint) ==
    FinOnTransmit(NewOnTransmit(t, pn, constraint), pn, constraint, IsBlocked(t.stream))

DataOnTransmit(t, pn, constraint) ==
    NewAndFinOnTransmit(LostOnTransmit(t, pn, constraint), pn, constraint)

(* Mutant: a lost FIN is not offered for transmission.                     *)
MutantLostFinForgotten(st) ==
    \/ st.sender = "Finishing" /\ st.fin = "Pending" /\ ~IsBlocked(st)
    \/ st.lost # {}
    \/ st.tx < st.total /\ ~IsBlocked(st)

(* transmission_interest                                                   *)
DataHasInterest(st) ==
    \/ st.sender = "Finishing" /\ st.fin = "Lost"
    \/ st.sender = "Finishing" /\ st.fin = "Pending" /\ ~IsBlocked(st)
    \/ st.lost # {}
    \/ st.tx < st.total /\ ~IsBlocked(st)

DataIsInflight(st) == st.inflight # {} \/ (st.sender = "Finishing" /\ st.fin = "InFlight")
=============================================================================
